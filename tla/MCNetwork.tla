------------------------------ MODULE MCNetwork ------------------------------
(***************************************************************************)
(* A small instance of Network: a bond and an Ethernet connection that may *)
(* be its port, two tasks, and configurations that create the bond, change *)
(* only the bond, change only the port, drop the port, remove the bond and *)
(* one that cannot be converted.  The settings have options of each sort:  *)
(* some that are always written, some that are written when they are said, *)
(* one of a section not every connection has, one that Agama cannot read   *)
(* and one that a profile cannot set.                                      *)
(***************************************************************************)
EXTENDS Network, TLC

Tasks == Permutations(Clients)

TheIds == {"bond0", "eth0"}
TheBonds == {"bond0"}

Method == <<"ipv4", "method">>
Addresses == <<"ipv4", "address-data">>
Gateway == <<"ipv4", "gateway">>
Mac == <<"802-3-ethernet", "assigned-mac-address">>
Zone == <<"connection", "zone">>
Eap == <<"802-1x", "eap">>
TheOptions == {Method, Addresses, Gateway, Mac, Zone, Eap}

Set(kind, says) == [kind |-> kind, says |-> says]
Ethernet(says) == Set("802-3-ethernet", says)

Static == (Method :> "manual") @@ (Addresses :> "a") @@ (Gateway :> "g")
NoIp == (Method :> "disabled") @@ (Eap :> "tls")
TheSettings == {"static", "no_ip", "bond", "bond_auto", "bad"}
TheMeaning ==
  [x \in TheSettings \ {"bad"} |->
     CASE x = "static" -> Ethernet(Static @@ (Mac :> "own"))
       [] x = "no_ip" -> Ethernet(NoIp)
       [] x = "bond" -> Set("bond", Static)
       [] x = "bond_auto" -> Set("bond", Method :> "auto")]

(* Two connections of somebody else, one of a kind Agama cannot read.      *)
TheForeign ==
  {Completed(ConnectionToDbus(Ethernet((Gateway :> "h") @@ (Addresses :> "b")
                                        @@ (Mac :> "m") @@ (Zone :> "z"))),
             "802-3-ethernet"),
   [s \in {"connection", "wireguard"} |-> [k \in {} |-> Empty]]}

Conn(set, status) == [set |-> set, status |-> status, ports |-> {}]
Bond(set, status, ports) == [set |-> set, status |-> status, ports |-> ports]

TheConfigs ==
  LET One(i, p) == [x \in {i} |-> p]
      Both(b, e) == [x \in TheIds |-> IF x = "bond0" THEN b ELSE e]
  IN  {Both(Bond("bond", "up", {"eth0"}), Conn("static", "up")),
       Both(Bond("bond", "up", {"eth0"}), Conn("no_ip", "down")),
       Both(Bond("bond", "removed", {}), Conn("static", "up")),
       One("bond0", Bond("bond_auto", "up", {})),
       One("eth0", Conn("bad", "up"))}
==============================================================================
