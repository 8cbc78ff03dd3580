---------------------------- MODULE MCConfigTasks ----------------------------
(***************************************************************************)
(* The configurations that the clients of the runs write.                  *)
(***************************************************************************)
EXTENDS ConfigTasks

Section(product, network, targets, layout, keys) ==
    [product |-> product, network |-> network, iscsi |-> targets, storage |-> layout,
     bootloader |-> keys]

Use(targets, name) == [targets |-> targets, initiator |-> name]

\* One configuration of every shape.
MCAnyShape ==
    {Section(p, n, i, "lvm", {"timeout"}) :
        p \in BOOLEAN, n \in BOOLEAN, i \in {NoValue, Use({"san"}, NoValue)}}

\* Two that differ in everything, of which one asks for a target that is not reachable and
\* the other for one that is not discovered, without a name for the initiator, and one
\* without an iSCSI section.
MCTwoSystems ==
    {Section(TRUE, TRUE, Use({"san", "down"}, "iqn"), "lvm", {"timeout", "updateNvram"}),
     Section(TRUE, TRUE, Use({"other_san"}, NoValue), "btrfs", {"timeout", "stopOnBootMenu"}),
     Section(TRUE, FALSE, NoValue, "lvm", {})}

MCAllTasks == AllTasks
MCCoreTasks == AllTasks \ Optional
\* The bootloader would refuse the same configuration again, with the kernel argument.
MCRefusals == {"iscsi", "storage"}
MCFailures == {"files", "pre_scripts", "network", "software", "selinux"}
=============================================================================
