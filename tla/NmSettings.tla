----------------------------- MODULE NmSettings -----------------------------
(***************************************************************************)
(* What a connection says, and how it travels to NetworkManager and back   *)
(* (agama-network/src/nm/dbus.rs).  NetworkManager keeps a connection as   *)
(* sections of keys.  A connection of Agama has a kind, the section named  *)
(* after it, and a value for some options, an option being a section and a *)
(* key of it; an option that is not said has its default.                  *)
(*                                                                         *)
(* An instance looks at some options only.  Left out: the port type and    *)
(* the master, which go with the controller, the secrets, and the forms    *)
(* that depend on the version of NetworkManager.  The search list and      *)
(* ignore-auto-dns, which both IP sections share, are told apart.          *)
(***************************************************************************)
EXTENDS FiniteSets, Functions

CONSTANT Options  \* the options an instance looks at

ASSUME OptionsAssumption ==
  \A o \in Options : o = <<o[1], o[2]>>

Empty == ""
KeysOf(s) == {o[2] : o \in {p \in Options : p[1] = s}}

(* The kind of a connection is the first of these whose section it has.    *)
KindOrder ==
  <<"802-11-wireless", "bond", "vlan", "bridge", "infiniband", "tun",
    "ovs-bridge", "ovs-port", "ovs-interface", "dummy", "loopback",
    "802-3-ethernet">>
Kinds == Range(KindOrder)
(* The sections without an option, and of no kind, are not looked at.      *)
Sections == {o[1] : o \in Options} \cup Kinds \cup {"connection"}

EthernetKinds == {"802-3-ethernet", "loopback", "dummy", "bond", "vlan", "bridge"}
ControllerKinds == {"bond", "bridge", "ovs-bridge", "ovs-port"}
(* The kinds without a section of their own.                               *)
PlainKinds == {"802-3-ethernet", "loopback", "dummy"}

------------------------------------------------------------------------------
(* What is always written; any other key is written when it is said.       *)
IpWritten(s) ==
  {"address-data", "dns-data", "ignore-auto-dns", "method", "dns-search"}
    \cup (IF s = "ipv4" THEN {"link-local"} ELSE {})
MatchWritten == {"driver", "kernel-command-line", "path", "interface-name"}
EthernetWritten == {"assigned-mac-address", "mtu"}
WirelessWritten == {"mode", "ssid", "hidden"} \cup EthernetWritten
SecurityWritten == {"key-mgmt", "group", "pairwise", "proto", "pmf"}
BondWritten == {"options"}
VlanWritten == {"id", "parent", "protocol"}
InfinibandWritten == {"transport-mode", "p-key"}
TunWritten == {"mode"}
OvsInterfaceWritten == {"type"}
Ieee8021xWritten == {"eap", "phase1-peaplabel"}

AlwaysWritten(conn, s) ==
  CASE s = "connection" ->
         {"type", "autoconnect"}
           \cup (IF conn.kind = "bond" THEN {"interface-name"} ELSE {})
           \cup (IF conn.kind \in ControllerKinds THEN {"autoconnect-slaves"} ELSE {})
    [] s \in {"ipv4", "ipv6"} -> IpWritten(s)
    [] s = "match" -> MatchWritten
    [] s = "802-3-ethernet" -> EthernetWritten
    [] s = "802-11-wireless" -> WirelessWritten
    [] s = "802-11-wireless-security" -> SecurityWritten
    [] s = "bond" -> BondWritten
    [] s = "vlan" -> VlanWritten
    [] s = "infiniband" -> InfinibandWritten
    [] s = "tun" -> TunWritten
    [] s = "ovs-interface" -> OvsInterfaceWritten
    [] s = "802-1x" -> Ieee8021xWritten
    [] OTHER -> {}  \* bridge, bridge-port, ovs-bridge, ovs-port

DefaultOf(conn, s, k) ==
  CASE s = "connection" /\ k = "type" -> conn.kind
    [] s = "connection" /\ k = "autoconnect" -> "yes"
    [] s = "connection" /\ k = "autoconnect-slaves" -> "1"
    [] s = "connection" /\ k = "interface-name" -> "id"  \* as the connection
    [] k = "method" -> "auto"
    [] s = "infiniband" /\ k = "p-key" -> "-1"
    [] OTHER -> Empty

------------------------------------------------------------------------------
(* Writing.                                                                *)

(* A section that not every connection has is there when the connection    *)
(* says something of it.                                                   *)
OptionalSections(conn) ==
  {o[1] : o \in DOMAIN conn.says} \cap {"802-1x", "bridge-port"}

(* The default security, which has no encryption, is written with its keys *)
(* only.                                                                   *)
IsSecured(conn) ==
  /\ conn.kind = "802-11-wireless"
  /\ \E k \in {"key-mgmt", "wep-key-type"} :
       <<"802-11-wireless-security", k>> \in DOMAIN conn.says

WrittenSections(conn) ==
  Sections \cap
    ({"connection", "ipv4", "ipv6", "match"}
       \cup (IF conn.kind \in EthernetKinds THEN {"802-3-ethernet"} ELSE {})
       \cup ({conn.kind} \ PlainKinds)
       \cup (IF IsSecured(conn) THEN {"802-11-wireless-security"} ELSE {})
       \cup OptionalSections(conn))

Said(conn, s) == {k \in KeysOf(s) : <<s, k>> \in DOMAIN conn.says}

ConnectionToDbus(conn) ==
  [s \in WrittenSections(conn) |->
     [k \in (AlwaysWritten(conn, s) \cap KeysOf(s)) \cup Said(conn, s) |->
        IF k \in Said(conn, s) THEN conn.says[<<s, k>>] ELSE DefaultOf(conn, s, k)]]

(* What makes no sense is taken away before the connection is sent.        *)
IsEmpty(section, k) == k \in DOMAIN section /\ section[k] = Empty
Without(f, S) == Restrict(f, DOMAIN f \ S)

CleanIp(ip) ==
  IF "method" \in DOMAIN ip /\ ip["method"] = "disabled"
  THEN Restrict(ip, {"method"})
  ELSE Without(ip, {"addresses", "dns"}
                     \cup (IF IsEmpty(ip, "address-data") THEN {"gateway"} ELSE {}))

(* The flags that are not given stand for reordering the headers.          *)
CleanVlan(vlan) ==
  [k \in DOMAIN vlan \cup ({"flags"} \cap KeysOf("vlan")) |->
     IF k \in DOMAIN vlan THEN vlan[k] ELSE "reorder"]

CleanSection(s, section) ==
  CASE s = "connection" ->
         Without(section,
                 {k \in {"interface-name", "mac-address"} : IsEmpty(section, k)})
    [] s \in {"ipv4", "ipv6"} -> CleanIp(section)
    [] s = "vlan" -> CleanVlan(section)
    [] OTHER -> section

CleanupDbusConnection(hash, isBridgePort) ==
  [s \in DOMAIN hash \ (IF isBridgePort THEN {} ELSE {"bridge-port"}) |->
     CleanSection(s, hash[s])]

(* A section of a connection, without a key when it is not there.          *)
SectionOf(hash, s) ==
  IF s \in DOMAIN hash THEN hash[s] ELSE [k \in {} |-> Empty]

(* NetworkManager adds the section the kind asks for when it is not there. *)
Completed(hash, kind) ==
  [s \in DOMAIN hash \cup {kind} |-> SectionOf(hash, s)]

(* An update goes on top of what NetworkManager has.  The sections it does *)
(* not have are not added, and the keys that are not written stay, but the *)
(* ones that Agama handles itself.                                         *)
HandledByAgama == {"interface-name", "mac-address"}

(* A bug to try: what NetworkManager has is not looked at.                 *)
MergeNothing(original, updated, isBridgePort) ==
  CleanupDbusConnection(updated, isBridgePort)

MergeSection(original, updated) ==
  [k \in (DOMAIN original \ HandledByAgama) \cup DOMAIN updated |->
     IF k \in DOMAIN updated THEN updated[k] ELSE original[k]]

MergeDbusConnections(original, updated, isBridgePort) ==
  CleanupDbusConnection(
    [s \in DOMAIN original |-> MergeSection(original[s], SectionOf(updated, s))],
    isBridgePort)

------------------------------------------------------------------------------
(* Reading.                                                                *)

(* The key an option is looked for under, which is not always the one it   *)
(* is written to.                                                          *)
ReadKey(s, k) ==
  CASE s = "connection" /\ k = "zone" -> "firewall-zone"
    [] s = "bridge-port" /\ k = "path-cost" -> "path_cost"
    [] s = "ovs-bridge" /\ k = "rstp-enable" -> "srtp-enable"
    [] s = "ovs-bridge" /\ k = "stp-enable" -> "stp"
    [] OTHER -> k

(* The keys each reader knows; of the ones it does not know nothing is     *)
(* told, and they live in NetworkManager only.                             *)
IpRead(s) ==
  IpWritten(s) \cup {"route-data", "gateway", "dns-priority", "never-default",
                     "ignore-auto-routes"}
               \cup (IF s = "ipv6" THEN {"ip6-privacy"} ELSE {})
DhcpRead(s) ==
  {"dhcp-send-hostname", "dhcp-send-release", "dhcp-hostname", "dhcp-iaid"}
    \cup (IF s = "ipv4" THEN {"dhcp-client-id"} ELSE {"dhcp-duid"})
EthernetRead == EthernetWritten \cup {"mac-address"}
WirelessRead == WirelessWritten \cup {"mac-address", "band", "channel", "bssid"}
SecurityRead ==
  SecurityWritten \cup {"psk", "wep-key-type", "auth-alg", "wep-tx-keyidx"}
BridgeRead ==
  {"stp", "priority", "forward-delay", "hello-time", "max-age", "ageing-time"}
BridgePortRead == {"priority", "path_cost"}
InfinibandRead == InfinibandWritten \cup {"parent"}
TunRead == TunWritten \cup {"group", "owner"}
OvsBridgeRead == {"mcast-snooping-enable", "srtp-enable", "stp"}
OvsPortRead == {"tag"}
VlanRead == VlanWritten \cup {"flags"}
Ieee8021xRead ==
  Ieee8021xWritten \cup
  {"phase2-auth", "identity", "password", "ca-cert", "ca-cert-password",
   "client-cert", "client-cert-password", "private-key",
   "private-key-password", "anonymous-identity", "phase1-peapver"}

ReadKeys(s) ==
  CASE s = "connection" -> {"interface-name", "firewall-zone", "autoconnect"}
    [] s \in {"ipv4", "ipv6"} -> IpRead(s) \cup DhcpRead(s)
    [] s = "match" -> MatchWritten
    [] s = "802-3-ethernet" -> EthernetRead
    [] s = "802-11-wireless" -> WirelessRead
    [] s = "802-11-wireless-security" -> SecurityRead
    [] s = "bond" -> BondWritten
    [] s = "bridge" -> BridgeRead
    [] s = "bridge-port" -> BridgePortRead
    [] s = "vlan" -> VlanRead
    [] s = "infiniband" -> InfinibandRead
    [] s = "tun" -> TunRead
    [] s = "ovs-bridge" -> OvsBridgeRead
    [] s = "ovs-port" -> OvsPortRead
    [] s = "ovs-interface" -> OvsInterfaceWritten
    [] s = "802-1x" -> Ieee8021xRead
    [] OTHER -> {}

IsReadable(hash) == "connection" \in DOMAIN hash /\ Kinds \cap DOMAIN hash # {}

KindRead(hash) ==
  KindOrder[CHOOSE j \in DOMAIN KindOrder :
              /\ KindOrder[j] \in DOMAIN hash
              /\ \A i \in DOMAIN KindOrder :
                   KindOrder[i] \in DOMAIN hash => j <= i]

(* The sections of another kind are not looked at, nor the security when   *)
(* the connection is not wireless.                                         *)
ReadSections(hash) ==
  LET kind == KindRead(hash)
  IN  DOMAIN hash \cap
        ({"connection", "ipv4", "ipv6", "match", "802-1x", "bridge-port",
          "802-3-ethernet", kind}
          \cup (IF kind = "802-11-wireless" THEN {"802-11-wireless-security"}
                ELSE {}))

(* The options whose key the reader of their section knows.                *)
ReadOptions == {o \in Options : ReadKey(o[1], o[2]) \in ReadKeys(o[1])}
ReadValue(hash, o) == hash[o[1]][ReadKey(o[1], o[2])]

(* What is read is said, unless it is the default of a field that always   *)
(* has a value.                                                            *)
MayBeUnsaid(kind, o) ==
  \/ o[2] \in {"method", "p-key"} \/ o = <<"connection", "interface-name">>
  \/ o[2] \notin AlwaysWritten([kind |-> kind], o[1]) \cup {"route-data"}

ConnectionFromDbus(hash) ==
  LET kind == KindRead(hash)
      sections == ReadSections(hash)
      given == {o \in ReadOptions :
                  /\ o[1] \in sections
                  /\ ReadKey(o[1], o[2]) \in DOMAIN hash[o[1]]
                  /\ \/ MayBeUnsaid(kind, o)
                     \/ ReadValue(hash, o) # DefaultOf([kind |-> kind], o[1], o[2])}
  IN  [kind |-> kind, says |-> [o \in given |-> ReadValue(hash, o)]]

(* A profile as a connection: the custom MAC address is not taken over.    *)
FromProfile(set) ==
  [set EXCEPT !.says =
     Restrict(@, {o \in DOMAIN @ : o[2] # "assigned-mac-address"})]
==============================================================================
