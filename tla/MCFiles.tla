-------------------------------- MODULE MCFiles --------------------------------
(***************************************************************************)
(* A configuration with a script of three groups and a file, one with two  *)
(* scripts before the installation, of which one has the name of the first *)
(* configuration's, and the installation.                                  *)
(***************************************************************************)
EXTENDS Files

Script(group, name, chroot) == [group |-> group, name |-> name, chroot |-> chroot]

MCConfigs ==
    {[scripts |-> <<Script("pre", "a", FALSE), Script("post", "p", TRUE),
                    Script("init", "i", FALSE)>>,
      files |-> {"hosts"}],
     [scripts |-> <<Script("pre", "a", FALSE), Script("pre", "b", FALSE)>>,
      files |-> {}]}

=============================================================================
