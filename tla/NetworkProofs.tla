---------------------------- MODULE NetworkProofs ----------------------------
(***************************************************************************)
(* What holds of the conversions of module NmSettings for every option and *)
(* every connection, and of the network service for any configurations,    *)
(* tasks and bounds.                                                       *)
(***************************************************************************)
EXTENDS Network, FiniteSetTheorems, FunctionTheorems, TLAPS

(* A section is a function from keys to values.                            *)
IsSection(f) == f = [k \in DOMAIN f |-> f[k]]

------------------------------------------------------------------------------
(* A section that was merged with an update and cleaned stays as it is when *)
(* the same is done again.                                                 *)

(* Merging adds what is not there and what the update says wins.           *)
LEMMA MergedSection ==
  ASSUME NEW f, NEW g
  PROVE  LET m == MergeSection(f, g)
         IN  /\ DOMAIN m = (DOMAIN f \ HandledByAgama) \cup DOMAIN g
             /\ \A k \in DOMAIN g : m[k] = g[k]
             /\ \A k \in DOMAIN m : k \notin DOMAIN g => m[k] = f[k]
             /\ IsSection(m)
  BY DEF MergeSection, IsSection

LEMMA WithoutSection ==
  ASSUME NEW f, NEW S
  PROVE  /\ DOMAIN Without(f, S) = DOMAIN f \ S
         /\ \A k \in DOMAIN f \ S : Without(f, S)[k] = f[k]
         /\ IsSection(Without(f, S))
  BY DEF Without, Restrict, IsSection

(* Two sections with the same keys and values are the same.                *)
LEMMA SameSection ==
  ASSUME NEW f, NEW g, IsSection(f), IsSection(g), DOMAIN f = DOMAIN g,
         \A k \in DOMAIN f : f[k] = g[k]
  PROVE  f = g
  BY DEF IsSection

(* Of the keys S that are taken away for good nothing comes back.          *)
LEMMA WithoutTwice ==
  ASSUME NEW f, NEW g, NEW S, NEW T,
         T = S
  PROVE  Without(MergeSection(Without(MergeSection(f, g), S), g), T)
           = Without(MergeSection(f, g), S)
<1> DEFINE m == MergeSection(f, g)
           w == Without(m, S)
           n == MergeSection(w, g)
           v == Without(n, T)
<1>1. /\ DOMAIN m = (DOMAIN f \ HandledByAgama) \cup DOMAIN g
      /\ \A k \in DOMAIN g : m[k] = g[k]
  BY MergedSection
<1>2. DOMAIN w = DOMAIN m \ S /\ IsSection(w)
      /\ \A k \in DOMAIN m \ S : w[k] = m[k]
  BY WithoutSection
<1>3. /\ DOMAIN n = (DOMAIN w \ HandledByAgama) \cup DOMAIN g
      /\ \A k \in DOMAIN g : n[k] = g[k]
      /\ \A k \in DOMAIN n : k \notin DOMAIN g => n[k] = w[k]
  BY MergedSection
<1>4. DOMAIN v = DOMAIN n \ T /\ IsSection(v)
      /\ \A k \in DOMAIN n \ T : v[k] = n[k]
  BY WithoutSection
<1> HIDE DEF m, w, n, v
<1>5. DOMAIN v = DOMAIN w
  BY <1>1, <1>2, <1>3, <1>4
<1>6. \A k \in DOMAIN v : v[k] = w[k]
  BY <1>1, <1>2, <1>3, <1>4
<1>7. v = w
  BY <1>2, <1>4, <1>5, <1>6, SameSection
<1> QED BY <1>7 DEF v, n, w, m

(* The name and the MAC address are Agama's: what there is of them comes   *)
(* from the update, so the same of them are empty the second time.         *)
LEMMA ConnectionTwice ==
  ASSUME NEW f, NEW g
  PROVE  CleanSection("connection",
           MergeSection(CleanSection("connection", MergeSection(f, g)), g))
           = CleanSection("connection", MergeSection(f, g))
<1> DEFINE m == MergeSection(f, g)
           S == {k \in HandledByAgama : IsEmpty(m, k)}
           n == MergeSection(Without(m, S), g)
           T == {k \in HandledByAgama : IsEmpty(n, k)}
<1>1. /\ DOMAIN m = (DOMAIN f \ HandledByAgama) \cup DOMAIN g
      /\ \A k \in DOMAIN g : m[k] = g[k]
  BY MergedSection
<1>2. /\ DOMAIN n = (DOMAIN Without(m, S) \ HandledByAgama) \cup DOMAIN g
      /\ \A k \in DOMAIN g : n[k] = g[k]
  BY MergedSection
<1> HIDE DEF m, n
<1>3. T = S
  BY <1>1, <1>2 DEF IsEmpty
<1>4. Without(n, T) = Without(m, S)
  BY <1>3, WithoutTwice DEF n, m
<1>5. CleanSection("connection", m) = Without(m, S)
  BY DEF CleanSection, HandledByAgama
<1>6. CleanSection("connection", n) = Without(n, T)
  BY DEF CleanSection, HandledByAgama
<1>7. CleanSection("connection", MergeSection(CleanSection("connection", m), g))
        = CleanSection("connection", m)
  BY <1>4, <1>5, <1>6 DEF n
<1> QED BY <1>7 DEF m

(* An address that is there stays, so a gateway is not taken away later;   *)
(* and the method that disables the IP is kept.                            *)
LEMMA IpTwice ==
  ASSUME NEW f, NEW g
  PROVE  CleanIp(MergeSection(CleanIp(MergeSection(f, g)), g))
           = CleanIp(MergeSection(f, g))
<1> DEFINE m == MergeSection(f, g)
           w == CleanIp(m)
           n == MergeSection(w, g)
           Disabled(x) == "method" \in DOMAIN x /\ x["method"] = "disabled"
           Gone(x) == {"addresses", "dns"}
                        \cup (IF IsEmpty(x, "address-data") THEN {"gateway"} ELSE {})
<1>1. /\ DOMAIN m = (DOMAIN f \ HandledByAgama) \cup DOMAIN g
      /\ \A k \in DOMAIN g : m[k] = g[k]
  BY MergedSection
<1>2. /\ DOMAIN n = (DOMAIN w \ HandledByAgama) \cup DOMAIN g
      /\ \A k \in DOMAIN g : n[k] = g[k]
      /\ \A k \in DOMAIN n : k \notin DOMAIN g => n[k] = w[k]
  BY MergedSection
<1>3. \A x : Disabled(x) => CleanIp(x) = Restrict(x, {"method"})
  BY DEF CleanIp
<1>4. \A x : ~ Disabled(x) => CleanIp(x) = Without(x, Gone(x))
  BY DEF CleanIp
<1>5. ASSUME Disabled(m) PROVE CleanIp(n) = w
  <2>1. w = [k \in {"method"} |-> m[k]]
    BY <1>3, <1>5 DEF Restrict
  <2>2. "method" \in DOMAIN n /\ n["method"] = "disabled"
    BY <1>1, <1>2, <1>5, <2>1 DEF HandledByAgama
  <2>3. CleanIp(n) = [k \in {"method"} |-> n[k]]
    BY <1>3, <2>2 DEF Restrict
  <2> QED BY <1>5, <2>1, <2>2, <2>3
<1>6. ASSUME ~ Disabled(m) PROVE CleanIp(n) = w
  <2>1. w = Without(m, Gone(m))
    BY <1>4, <1>6
  <2>2. /\ DOMAIN w = DOMAIN m \ Gone(m)
        /\ \A k \in DOMAIN m \ Gone(m) : w[k] = m[k]
    <3> HIDE DEF m, w, Gone
    <3> QED BY <2>1, WithoutSection
  <2>3. \A k \in {"method", "address-data"} :
          /\ k \in DOMAIN n <=> k \in DOMAIN m
          /\ k \in DOMAIN n => n[k] = m[k]
    <3> HIDE DEF m, n, w
    <3> QED BY <1>1, <1>2, <2>2 DEF HandledByAgama, IsEmpty
  <2>4. ~ Disabled(n) /\ Gone(n) = Gone(m)
    <3> HIDE DEF m, n, w
    <3> QED BY <1>6, <2>3 DEF IsEmpty
  <2>5. CleanIp(n) = Without(n, Gone(n))
    BY <1>4, <2>4
  <2>6. Without(n, Gone(n)) = Without(m, Gone(m))
    BY <2>1, <2>4, WithoutTwice
  <2> QED BY <2>1, <2>5, <2>6
<1> QED BY <1>5, <1>6

(* The flags that were added are there the second time.                    *)
LEMMA VlanTwice ==
  ASSUME NEW f, NEW g
  PROVE  CleanVlan(MergeSection(CleanVlan(MergeSection(f, g)), g))
           = CleanVlan(MergeSection(f, g))
<1> DEFINE m == MergeSection(f, g)
           w == CleanVlan(m)
           n == MergeSection(w, g)
           v == CleanVlan(n)
<1>1. /\ DOMAIN m = (DOMAIN f \ HandledByAgama) \cup DOMAIN g
      /\ \A k \in DOMAIN g : m[k] = g[k]
  BY MergedSection
<1>2. /\ DOMAIN n = (DOMAIN w \ HandledByAgama) \cup DOMAIN g
      /\ \A k \in DOMAIN g : n[k] = g[k]
      /\ \A k \in DOMAIN n : k \notin DOMAIN g => n[k] = w[k]
  BY MergedSection
<1>3. \A x : /\ DOMAIN CleanVlan(x) = DOMAIN x \cup ({"flags"} \cap KeysOf("vlan"))
             /\ \A k \in DOMAIN x : CleanVlan(x)[k] = x[k]
             /\ \A k \in DOMAIN CleanVlan(x) :
                  k \notin DOMAIN x => CleanVlan(x)[k] = "reorder"
             /\ IsSection(CleanVlan(x))
  BY DEF CleanVlan, IsSection
<1>4. DOMAIN v = DOMAIN w /\ IsSection(v) /\ IsSection(w)
  <2> HIDE DEF m, n
  <2> QED BY <1>1, <1>2, <1>3 DEF HandledByAgama
<1>5. \A k \in DOMAIN v : v[k] = w[k]
  <2> HIDE DEF m, n
  <2> QED BY <1>1, <1>2, <1>3, <1>4 DEF HandledByAgama
<1>6. v = w
  BY <1>4, <1>5, SameSection
<1> QED BY <1>6

LEMMA SectionTwice ==
  ASSUME NEW f, NEW g, NEW s
  PROVE  CleanSection(s, MergeSection(CleanSection(s, MergeSection(f, g)), g))
           = CleanSection(s, MergeSection(f, g))
<1>1. CASE s = "connection"
  BY <1>1, ConnectionTwice
<1>2. CASE s \in {"ipv4", "ipv6"}
  <2>1. \A x : CleanSection(s, x) = CleanIp(x)
    BY <1>2 DEF CleanSection
  <2> QED BY <2>1, IpTwice
<1>3. CASE s = "vlan"
  <2>1. \A x : CleanSection(s, x) = CleanVlan(x)
    BY <1>3 DEF CleanSection
  <2> QED BY <2>1, VlanTwice
<1>4. CASE s \notin {"connection", "ipv4", "ipv6", "vlan"}
  <2>1. \A x : CleanSection(s, x) = x
    BY <1>4 DEF CleanSection
  <2> DEFINE m == MergeSection(f, g)
             n == MergeSection(m, g)
  <2>2. /\ DOMAIN m = (DOMAIN f \ HandledByAgama) \cup DOMAIN g
        /\ \A k \in DOMAIN g : m[k] = g[k]
        /\ IsSection(m)
    BY MergedSection
  <2>3. /\ DOMAIN n = (DOMAIN m \ HandledByAgama) \cup DOMAIN g
        /\ \A k \in DOMAIN g : n[k] = g[k]
        /\ \A k \in DOMAIN n : k \notin DOMAIN g => n[k] = m[k]
        /\ IsSection(n)
    BY MergedSection
  <2>4. n = m
    <3> HIDE DEF m, n
    <3> QED BY <2>2, <2>3, SameSection
  <2> QED BY <2>1, <2>4
<1> QED BY <1>1, <1>2, <1>3, <1>4

------------------------------------------------------------------------------
(* Writing a connection a second time changes nothing: the merge of an     *)
(* update with the outcome of its first merge is that outcome, section by  *)
(* section and key by key (agama-network/src/nm/dbus.rs,                   *)
(* merge_dbus_connections and cleanup_dbus_connection).  So a task that    *)
(* failed after it wrote a connection may be repeated.                     *)
THEOREM MergeTwiceIsOnce ==
  ASSUME NEW original, NEW updated, NEW isBridgePort
  PROVE  LET merged == MergeDbusConnections(original, updated, isBridgePort)
         IN  MergeDbusConnections(merged, updated, isBridgePort) = merged
<1> DEFINE Lost == IF isBridgePort THEN {} ELSE {"bridge-port"}
           Both(f, s) == CleanSection(s, MergeSection(f, SectionOf(updated, s)))
           merged == MergeDbusConnections(original, updated, isBridgePort)
           again == MergeDbusConnections(merged, updated, isBridgePort)
<1>1. \A x : MergeDbusConnections(x, updated, isBridgePort)
               = [s \in DOMAIN x \ Lost |-> Both(x[s], s)]
  BY DEF MergeDbusConnections, CleanupDbusConnection
<1>2. \A f, s : Both(Both(f, s), s) = Both(f, s)
  BY SectionTwice
<1> HIDE DEF Both, Lost
<1>3. merged = [s \in DOMAIN original \ Lost |-> Both(original[s], s)]
  BY <1>1
<1>4. again = [s \in DOMAIN merged \ Lost |-> Both(merged[s], s)]
  BY <1>1
<1> HIDE DEF merged, again
<1>5. again = merged
  BY <1>2, <1>3, <1>4
<1> QED BY <1>5 DEF again, merged

------------------------------------------------------------------------------
(* What cleaning leaves of a section that is not of an IP.                 *)
LEMMA CleanedSection ==
  ASSUME NEW s, s \notin {"ipv4", "ipv6"}, NEW m, NEW k \in DOMAIN m,
         k \in HandledByAgama => m[k] # Empty
  PROVE  k \in DOMAIN CleanSection(s, m) /\ CleanSection(s, m)[k] = m[k]
<1>1. CASE s = "connection"
  <2> DEFINE S == {h \in HandledByAgama : IsEmpty(m, h)}
  <2>1. CleanSection(s, m) = Without(m, S)
    BY <1>1 DEF CleanSection, HandledByAgama
  <2>2. k \notin S
    BY DEF IsEmpty
  <2> HIDE DEF S
  <2>3. /\ DOMAIN Without(m, S) = DOMAIN m \ S
        /\ \A h \in DOMAIN m \ S : Without(m, S)[h] = m[h]
    BY WithoutSection
  <2>4. k \in DOMAIN m \ S
    BY <2>2
  <2> QED BY <2>1, <2>3, <2>4
<1>2. CASE s = "vlan"
  <2>1. CleanSection(s, m) = CleanVlan(m)
    BY <1>2 DEF CleanSection
  <2> QED BY <2>1 DEF CleanVlan
<1>3. CASE s \notin {"connection", "vlan"}
  <2>1. CleanSection(s, m) = m
    BY <1>3 DEF CleanSection
  <2> QED BY <2>1
<1> QED BY <1>1, <1>2, <1>3

(* In a section NetworkManager has, apart from those of an IP and of a port *)
(* that leaves its bridge, the update wins where it says something, and    *)
(* what it does not write stays as it was, be it known to Agama or not     *)
(* (agama-network/src/nm/dbus.rs, merge_dbus_connections).                 *)
THEOREM MergeLosesNothing ==
  ASSUME NEW original, NEW updated, NEW isBridgePort,
         NEW s \in DOMAIN original, s \notin {"ipv4", "ipv6"},
         s = "bridge-port" => isBridgePort,
         NEW k
  PROVE  LET merged == MergeDbusConnections(original, updated, isBridgePort)
             upd == SectionOf(updated, s)
         IN  /\ k \in DOMAIN upd /\ upd[k] # Empty =>
                  k \in DOMAIN merged[s] /\ merged[s][k] = upd[k]
             /\ k \in DOMAIN original[s] \ (DOMAIN upd \cup HandledByAgama) =>
                  k \in DOMAIN merged[s] /\ merged[s][k] = original[s][k]
<1> DEFINE upd == SectionOf(updated, s)
           m == MergeSection(original[s], upd)
           merged == MergeDbusConnections(original, updated, isBridgePort)
<1>1. merged[s] = CleanSection(s, m)
  BY DEF MergeDbusConnections, CleanupDbusConnection
<1>2. /\ DOMAIN m = (DOMAIN original[s] \ HandledByAgama) \cup DOMAIN upd
      /\ \A h \in DOMAIN upd : m[h] = upd[h]
      /\ \A h \in DOMAIN m : h \notin DOMAIN upd => m[h] = original[s][h]
  BY MergedSection
<1> HIDE DEF merged, m, upd
<1>3. ASSUME k \in DOMAIN upd, upd[k] # Empty
      PROVE  k \in DOMAIN merged[s] /\ merged[s][k] = upd[k]
  BY <1>1, <1>2, <1>3, CleanedSection
<1>4. ASSUME k \in DOMAIN original[s] \ (DOMAIN upd \cup HandledByAgama)
      PROVE  k \in DOMAIN merged[s] /\ merged[s][k] = original[s][k]
  BY <1>1, <1>2, <1>4, CleanedSection
<1> QED BY <1>3, <1>4 DEF merged, upd

------------------------------------------------------------------------------
(* The inductive invariant.                                                *)

(* No controller of a configuration is the port of another.                *)
PlainPorts ==
  \A config \in Configs : \A b \in DOMAIN config \cap Bonds :
    config[b].ports \cap Bonds = {}

IsSystem(sys) ==
  /\ IsFiniteSet(DOMAIN sys) /\ DOMAIN sys \subseteq Uuids
  /\ \A u \in DOMAIN sys : IsInSystem(sys[u])

(* Bonds and ports come from Agama, which can read what it wrote.          *)
PortsAreReadable(sys) ==
  \A u \in DOMAIN sys :
    /\ sys[u].id \in Bonds => IsReadable(sys[u].hash)
    /\ sys[u].master # None => IsReadable(sys[u].hash) /\ sys[u].master \in Bonds
    /\ PlainPorts /\ sys[u].master # None => sys[u].id \notin Bonds

(* A UUID stands for the same connection wherever it is known.             *)
Agree(cs, sys) ==
  \A u \in DOMAIN cs \cap DOMAIN sys :
    cs[u].id = sys[u].id /\ IsReadable(sys[u].hash)

ControllersAreBonds(cs) ==
  \A u \in DOMAIN cs :
    /\ cs[u].controller \in DOMAIN cs => cs[cs[u].controller].id \in Bonds
    /\ PlainPorts /\ cs[u].id \in Bonds => cs[u].controller = None

Connections ==
  /\ IsSystem(nm) /\ PortsAreReadable(nm)
  /\ IsFiniteSet(DOMAIN conns) /\ DOMAIN conns \subseteq Uuids
  /\ \A u \in DOMAIN conns : IsWanted(conns[u])
  /\ Agree(conns, nm) /\ ControllersAreBonds(conns)

Typed ==
  /\ userConfig \in Configs \cup {None}
  /\ queue \in Seq(Actions) /\ signals \in Seq(Signals)
  /\ client \in [Clients -> {"idle", "updating", "updated", "applying"}]
  /\ IsFiniteSet(known) /\ known \subseteq Uuids /\ dirty \in BOOLEAN
  /\ spent \in Spending /\ spent.refused + spent.faults <= MaxFaults

(* What a connection of NetworkManager is during a write: what it was, if  *)
(* it was not taken yet or is to be kept, or what was written for one of   *)
(* those that were taken.                                                  *)
IsAsItWas(v) ==
  /\ v \in DOMAIN write.saved /\ nm[v] = write.saved[v]
  /\ v \in DOMAIN conns \ write.todo => Unchanged(v)
MasterFor(u) ==
  IF WantedController(u) = None THEN None ELSE conns[WantedController(u)].id

(* A connection that was taken and is not removed is there, with its UUID  *)
(* or a new one.                                                           *)
Stands(u, v) ==
  /\ nm[v].id = conns[u].id
  /\ v = u \/ v \notin DOMAIN conns \cup DOMAIN write.saved
IsWrittenFor(v, u) ==
  /\ ~ IsRemoved(u) /\ Stands(u, v) /\ nm[v].master = MasterFor(u)
  /\ WantedController(u) # None => WantedController(u) \notin write.todo

Writing ==
  /\ write = [phase |-> "writing", by |-> write.by, old |-> write.old,
              saved |-> write.saved, todo |-> write.todo, since |-> write.since]
  /\ write.by \in Clients /\ write.todo \subseteq DOMAIN conns
  /\ write.old = ReadConnections(write.saved)
  /\ IsSystem(write.saved) /\ PortsAreReadable(write.saved)
  /\ Agree(conns, write.saved)
  /\ write.since \in Spending
  /\ write.since.external <= spent.external
  /\ write.since.refused <= spent.refused

Written ==
  /\ \A v \in DOMAIN nm :
       \/ IsAsItWas(v)
       \/ \E u \in DOMAIN conns \ write.todo : IsWrittenFor(v, u)
  /\ \A u \in DOMAIN conns \ write.todo :
       ~ IsRemoved(u) => \E v \in DOMAIN nm : Stands(u, v)
  /\ \A v \in DOMAIN write.saved : v \in (DOMAIN conns \ write.todo) \cup DOMAIN nm

(* When the state is what was read, the service will get to know every     *)
(* connection of NetworkManager, or knows one of the same identifier that  *)
(* stays.                                                                  *)
Names(x, i) == x \in DOMAIN conns /\ conns[x].id = i
Knows(i) == \E x \in DOMAIN conns : conns[x].id = i /\ x \notin Removals
ToBeRead(i) ==
  \E k \in DOMAIN queue :
    /\ queue[k].action = "new" /\ queue[k].id = i
    /\ \A j \in DOMAIN queue :
         j > k /\ queue[j].action = "remove" => ~ Names(queue[j].uuid, i)
    /\ \A j \in DOMAIN signals :
         signals[j].signal = "removed" => ~ Names(signals[j].uuid, i)
ToBeTold(u) ==
  \E k \in DOMAIN signals :
    /\ signals[k].signal = "added" /\ signals[k].uuid = u
    /\ \A j \in DOMAIN signals :
         j > k /\ signals[j].signal = "removed" => ~ Names(signals[j].uuid, nm[u].id)
IsHeardOf(u) == Knows(nm[u].id) \/ ToBeRead(nm[u].id) \/ ToBeTold(u)

Reading ==
  /\ DOMAIN nm \cap Removals = {}
  /\ \A u \in Readable(nm) \ DOMAIN conns :
       \A x \in DOMAIN conns \cap DOMAIN nm : conns[x].id # nm[u].id
  /\ \A u \in Readable(nm) : IsHeardOf(u)

IInv ==
    /\ Connections /\ Typed
    /\ write = Idle \/ Writing
    /\ write # Idle /\ IsUndisturbed => Written
    /\ write = Idle /\ ~ dirty => Reading

------------------------------------------------------------------------------
(* Numbers and finite sets.                                                *)

(* A set of numbers that is not empty has a smallest one.                  *)
LEMMA Smallest ==
  ASSUME NEW S, S \subseteq Nat, S # {}
  PROVE  \E x \in S : \A y \in S : x <= y
<1> DEFINE R == OpToRel(<, Nat)
<1>1. IsWellFoundedOn(R, Nat)
  BY NatLessThanWellFounded
<1>2. \A x, y \in Nat : <<y, x>> \notin R => x <= y
  BY DEF OpToRel
<1> HIDE DEF R
<1>3. \E x \in S : \A y \in S : <<y, x>> \notin R
  BY <1>1, WFMin
<1>4. QED
  BY <1>2, <1>3

(* A finite one has a greatest one.                                        *)
LEMMA Greatest ==
  ASSUME NEW S, S \subseteq Nat, S # {}, IsFiniteSet(S)
  PROVE  \E x \in S : \A y \in S : y <= x
<1> DEFINE From(x) == {z \in S : x <= z}
           T == {From(x) : x \in S}
           R == StrictSubsetOrdering(S)
<1>1. IsWellFoundedOn(R, FiniteSubsetsOf(S))
  BY FS_StrictSubsetOrderingWellFounded
<1>2. FiniteSubsetsOf(S) = SUBSET S
  BY FS_FiniteSubsetsOfFinite
<1>3. T \subseteq FiniteSubsetsOf(S) /\ T # {}
  <2>1. \A x \in S : From(x) \in SUBSET S
    OBVIOUS
  <2> HIDE DEF From
  <2>2. \A x \in S : From(x) \in T
    OBVIOUS
  <2>3. \A t \in T : t \in SUBSET S
    BY <2>1
  <2> HIDE DEF T
  <2>4. QED
    BY <1>2, <2>2, <2>3
<1>4. PICK t \in T : \A u \in T : ~ (<<u, t>> \in R)
  <2> HIDE DEF T, R
  <2> QED
    BY <1>1, <1>3, WFMin
<1>5. PICK x \in S : t = From(x)
  OBVIOUS
<1>6. ASSUME NEW y \in S, x < y
      PROVE  FALSE
  <2>1. From(y) \subseteq From(x) /\ x \in From(x) /\ x \notin From(y)
    <3>1. x \in Nat /\ y \in Nat
      OBVIOUS
    <3>2. \A z \in S : y <= z => x <= z
      BY <1>6, <3>1
    <3>3. From(y) \subseteq From(x)
      BY <3>2
    <3>4. x <= x /\ ~ (y <= x)
      BY <1>6, <3>1
    <3>5. x \in From(x)
      BY <3>4
    <3>6. x \notin From(y)
      BY <3>4
    <3>7. QED
      BY <3>3, <3>5, <3>6
  <2>2. <<From(y), From(x)>> \in R
    BY <2>1 DEF StrictSubsetOrdering
  <2>3. QED
    BY <1>4, <1>5, <2>2
<1>7. QED
  BY <1>6

(* There are as many numbers left as are asked for.                        *)
FreeOf(held, n) == (1 .. (Cardinality(held) + n)) \ held

LEMMA FreeEnough ==
  ASSUME NEW H, IsFiniteSet(H), NEW n \in Nat
  PROVE  /\ IsFiniteSet(FreeOf(H, n)) /\ n <= Cardinality(FreeOf(H, n))
         /\ FreeOf(H, n) \subseteq Uuids \ H
         /\ Cardinality(FreeOf(H, n)) \in Nat
<1> DEFINE I == 1 .. (Cardinality(H) + n)
<1>1. Cardinality(H) \in Nat
  BY FS_CardinalityType
<1>2. IsFiniteSet(I) /\ Cardinality(I) = Cardinality(H) + n
  <2> DEFINE c == Cardinality(H) + n
  <2>1. c \in Nat
    BY <1>1
  <2> HIDE DEF c
  <2>2. /\ IsFiniteSet(1 .. c)
        /\ Cardinality(1 .. c) = IF 1 > c THEN 0 ELSE c - 1 + 1
    BY <2>1, FS_Interval
  <2>3. Cardinality(1 .. c) = c
    BY <2>1, <2>2
  <2>4. QED
    BY <2>2, <2>3 DEF c
<1>3. FreeOf(H, n) = I \ H /\ I \subseteq Uuids
  BY <1>1 DEF FreeOf, Uuids
<1> HIDE DEF I
<1>4. /\ IsFiniteSet(I \ H)
      /\ Cardinality(I \ H) = Cardinality(I) - Cardinality(I \cap H)
  BY <1>2, FS_Difference
<1>5. IsFiniteSet(I \cap H) /\ Cardinality(I \cap H) <= Cardinality(H)
  BY FS_Subset
<1>6. Cardinality(I \cap H) \in Nat
  BY <1>5, FS_CardinalityType
<1>7. QED
  BY <1>1, <1>2, <1>3, <1>4, <1>5, <1>6

(* As many things can be told apart as there are names.                    *)
LEMMA NamesEnough ==
  ASSUME NEW S, NEW T, IsFiniteSet(S), IsFiniteSet(T),
         Cardinality(S) <= Cardinality(T)
  PROVE  \E f \in [S -> T] : IsInjective(f)
<1> DEFINE m == Cardinality(S)
           n == Cardinality(T)
<1>1. m \in Nat /\ n \in Nat /\ ExistsBijection(1 .. m, S) /\ ExistsBijection(1 .. n, T)
  BY FS_CardinalityType
<1>2. PICK g \in [1 .. n -> T] : IsInjective(g)
  BY <1>1 DEF ExistsBijection, Bijection, Injection
<1>3. ExistsBijection(S, 1 .. m)
  BY <1>1, Fun_ExistsBijSymmetric
<1>4. PICK h \in [S -> 1 .. m] : IsInjective(h)
  BY <1>3 DEF ExistsBijection, Bijection, Injection
<1>5. \A x \in S : h[x] \in 1 .. n
  BY <1>1
<1> DEFINE f == [x \in S |-> g[h[x]]]
<1> HIDE DEF m, n
<1>6. f \in [S -> T]
  BY <1>5
<1>7. IsInjective(f)
  BY <1>2, <1>4, <1>5 DEF IsInjective
<1>8. QED
  BY <1>6, <1>7

(* The values of a function on a finite set are finitely many.             *)
LEMMA FiniteValues ==
  ASSUME NEW S, NEW f, IsFiniteSet(S)
  PROVE  IsFiniteSet({f[x] : x \in S})
<1> DEFINE T == {f[x] : x \in S}
           g == [x \in S |-> f[x]]
<1>1. g \in Surjection(S, T)
  BY DEF Surjection
<1>2. QED
  BY <1>1, FS_Surjection

(* A bounded set of positions of a sequence is finite.                     *)
LEMMA FinitePositions ==
  ASSUME NEW X, NEW s \in Seq(X), NEW S, S \subseteq DOMAIN s
  PROVE  IsFiniteSet(S)
<1>1. Len(s) \in Nat /\ DOMAIN s = 1 .. Len(s)
  OBVIOUS
<1>2. IsFiniteSet(1 .. Len(s))
  BY <1>1, FS_Interval
<1>3. QED
  BY <1>1, <1>2, FS_Subset

------------------------------------------------------------------------------
(* What is read and looked up.                                             *)

LEMMA NoneIsNoUuid == None \notin Uuids /\ None \notin Ids
  BY NetworkAssumption DEF Uuids

LEMMA GetConnectionFinds ==
  ASSUME NEW cs, DOMAIN cs \subseteq Uuids, NEW i
  PROVE  \/ /\ GetConnection(cs, i) = None
            /\ \A u \in DOMAIN cs : cs[u].id # i
         \/ /\ GetConnection(cs, i) \in DOMAIN cs
            /\ cs[GetConnection(cs, i)].id = i
<1> DEFINE found == {u \in DOMAIN cs : cs[u].id = i}
<1>1. CASE found = {}
  BY <1>1 DEF GetConnection
<1>2. CASE found # {}
  <2>1. \E u \in found : \A x \in found : u <= x
    <3>1. found \subseteq Nat
      BY DEF Uuids
    <3> HIDE DEF found
    <3>2. QED
      BY <1>2, <3>1, Smallest
  <2>2. GetConnection(cs, i) = CHOOSE u \in found : \A x \in found : u <= x
    BY <1>2 DEF GetConnection
  <2> DEFINE IsFirst(u) == \A x \in found : u <= x
  <2>3. GetConnection(cs, i) \in found
    <3>1. \E u \in found : IsFirst(u)
      BY <2>1
    <3>2. GetConnection(cs, i) = CHOOSE u \in found : IsFirst(u)
      BY <2>2
    <3> HIDE DEF found, IsFirst
    <3>3. QED
      BY <3>1, <3>2
  <2>4. QED
    BY <2>3
<1>3. QED
  BY <1>1, <1>2

LEMMA ControllerOfFinds ==
  ASSUME NEW sys, IsSystem(sys), NEW u \in DOMAIN sys
  PROVE  \/ /\ ControllerOf(sys, u) = None
            /\ \A v \in Readable(sys) : sys[v].id # sys[u].master
         \/ /\ ControllerOf(sys, u) \in Readable(sys) /\ sys[u].master # None
            /\ sys[ControllerOf(sys, u)].id = sys[u].master
<1> DEFINE owners == {v \in Readable(sys) : sys[v].id = sys[u].master}
<1>1. owners \subseteq DOMAIN sys /\ \A v \in owners : sys[v].id \in Ids
  BY DEF Readable, IsSystem, IsInSystem
<1>2. CASE owners = {}
  BY <1>2 DEF ControllerOf
<1>3. CASE owners # {}
  <2>1. \E v \in owners : \A x \in owners : x <= v
    <3>1. owners \subseteq Nat /\ IsFiniteSet(owners)
      BY <1>1, FS_Subset DEF Uuids, IsSystem
    <3> HIDE DEF owners
    <3>2. QED
      BY <1>3, <3>1, Greatest
  <2> DEFINE IsLast(v) == \A x \in owners : x <= v
  <2>2. ControllerOf(sys, u) \in owners
    <3>1. \E v \in owners : IsLast(v)
      BY <2>1
    <3>2. ControllerOf(sys, u) = CHOOSE v \in owners : IsLast(v)
      BY <1>3 DEF ControllerOf
    <3> HIDE DEF owners, IsLast
    <3>3. QED
      BY <3>1, <3>2
  <2>3. sys[u].master # None
    BY <1>1, <2>2, NoneIsNoUuid
  <2>4. QED
    BY <2>2, <2>3
<1>4. QED
  BY <1>2, <1>3

(* A readable connection is read as one of a known kind and known options. *)
LEMMA KindIsRead ==
  ASSUME NEW hash, IsReadable(hash)
  PROVE  KindRead(hash) \in Kinds
<1> DEFINE D == DOMAIN KindOrder
           HasKind(j) == KindOrder[j] \in DOMAIN hash
           J == {j \in D : HasKind(j)}
           First(j) == HasKind(j) /\ \A i \in D : HasKind(i) => j <= i
<1>1. D = 1 .. 12
  BY DEF KindOrder
<1>2. J # {}
  BY DEF IsReadable, Kinds, Range
<1>3. \E j \in D : First(j)
  <2>1. J \subseteq Nat
    BY <1>1
  <2>2. \E j \in J : \A i \in J : j <= i
    <3> HIDE DEF J
    <3> QED
      BY <1>2, <2>1, Smallest
  <2> HIDE DEF D, HasKind
  <2>3. QED
    BY <2>2
<1>4. KindRead(hash) = KindOrder[CHOOSE j \in D : First(j)]
  BY DEF KindRead
<1>5. \A j \in D : KindOrder[j] \in Kinds
  BY DEF Kinds, Range
<1> HIDE DEF D, First
<1>6. QED
  BY <1>3, <1>4, <1>5

LEMMA SettingsAreRead ==
  ASSUME NEW hash, IsReadable(hash)
  PROVE  IsSettings(ConnectionFromDbus(hash))
<1> DEFINE c == ConnectionFromDbus(hash)
<1>1. c.kind = KindRead(hash) /\ c = [kind |-> c.kind, says |-> c.says]
  BY DEF ConnectionFromDbus
<1>2. DOMAIN c.says \subseteq Options
  BY DEF ConnectionFromDbus, ReadOptions
<1> HIDE DEF c
<1>3. IsSettings(c)
  BY <1>1, <1>2, KindIsRead DEF IsSettings
<1>4. QED
  BY <1>3 DEF c

(* What is read of the system is what the service may want.                *)
LEMMA ReadIsWanted ==
  ASSUME NEW sys, IsSystem(sys), PortsAreReadable(sys)
  PROVE  LET cs == ReadConnections(sys)
         IN  /\ DOMAIN cs = Readable(sys) /\ Readable(sys) \subseteq DOMAIN sys
             /\ IsFiniteSet(DOMAIN cs) /\ DOMAIN cs \subseteq Uuids
             /\ \A u \in DOMAIN cs : IsWanted(cs[u])
             /\ Agree(cs, sys) /\ ControllersAreBonds(cs)
<1> DEFINE cs == ReadConnections(sys)
<1>1. /\ DOMAIN cs = Readable(sys) /\ Readable(sys) \subseteq DOMAIN sys
      /\ \A u \in DOMAIN cs : IsReadable(sys[u].hash)
  BY DEF ReadConnections, Readable
<1>2. IsFiniteSet(DOMAIN cs) /\ DOMAIN cs \subseteq Uuids
  BY <1>1, FS_Subset DEF IsSystem
<1>3. \A u \in DOMAIN cs : /\ cs[u].id = sys[u].id
                           /\ cs[u].controller = ControllerOf(sys, u)
                           /\ cs[u].set = ConnectionFromDbus(sys[u].hash)
                           /\ cs[u].persistent = sys[u].persistent
                           /\ cs[u].status \in Statuses
  BY DEF ReadConnections, Statuses
<1>4. \A u \in DOMAIN cs :
        cs[u] = [id |-> cs[u].id, set |-> cs[u].set, status |-> cs[u].status,
                 persistent |-> cs[u].persistent, controller |-> cs[u].controller]
  BY DEF ReadConnections
<1> HIDE DEF cs
<1>5. ASSUME NEW u \in DOMAIN cs
      PROVE  IsWanted(cs[u])
  <2>1. IsSettings(cs[u].set)
    BY <1>1, <1>3, SettingsAreRead
  <2>2. cs[u].controller \in Uuids \cup {None}
    BY <1>1, <1>3, ControllerOfFinds DEF IsSystem
  <2>3. sys[u].id \in Ids /\ sys[u].persistent \in BOOLEAN
    BY <1>1 DEF IsSystem, IsInSystem
  <2>4. QED
    BY <1>3, <1>4, <2>1, <2>2, <2>3 DEF IsWanted
<1>6. Agree(cs, sys)
  BY <1>1, <1>3 DEF Agree
<1>7. ASSUME NEW u \in DOMAIN cs
      PROVE  /\ cs[u].controller \in DOMAIN cs => cs[cs[u].controller].id \in Bonds
             /\ PlainPorts /\ cs[u].id \in Bonds => cs[u].controller = None
  <2>1. \/ cs[u].controller = None
        \/ /\ sys[u].master # None
           /\ sys[cs[u].controller].id = sys[u].master
    BY <1>1, <1>3, ControllerOfFinds
  <2>2. sys[u].master # None => sys[u].master \in Bonds
    BY <1>1 DEF PortsAreReadable
  <2>3. PlainPorts /\ sys[u].master # None => sys[u].id \notin Bonds
    BY <1>1 DEF PortsAreReadable
  <2>4. cs[u].controller = None => cs[u].controller \notin DOMAIN cs
    BY <1>2, NoneIsNoUuid
  <2>5. QED
    BY <1>3, <2>1, <2>2, <2>3, <2>4
<1>8. ControllersAreBonds(cs)
  BY <1>7 DEF ControllersAreBonds
<1>9. QED
  BY <1>1, <1>2, <1>5, <1>6, <1>8 DEF cs

------------------------------------------------------------------------------
(* New UUIDs.                                                              *)

(* What refers to a UUID is finite, so there is another one.               *)
LEMMA UuidsInFinite ==
  ASSUME NEW f, IsFiniteSet(DOMAIN f)
  PROVE  IsFiniteSet(UuidsIn(f))
<1> DEFINE g == [u \in DOMAIN f |-> f[u].controller]
           C == {g[u] : u \in DOMAIN f}
<1>1. IsFiniteSet(C)
  BY FiniteValues
<1>2. C = {f[u].controller : u \in DOMAIN f}
  OBVIOUS
<1> HIDE DEF C
<1>3. IsFiniteSet(C \ {None})
  BY <1>1, FS_Subset
<1>4. UuidsIn(f) = DOMAIN f \cup (C \ {None})
  BY <1>2 DEF UuidsIn
<1>5. QED
  BY <1>3, <1>4, FS_Union

LEMMA HeldFinite ==
  ASSUME IInv
  PROVE  IsFiniteSet(Held)
<1> DEFINE Q == {j \in DOMAIN queue : queue[j].action = "remove"}
           q == [k \in Q |-> queue[k].uuid]
           g == [k \in DOMAIN signals |-> signals[k].uuid]
           A == {g[k] : k \in DOMAIN signals}
           B == {q[k] : k \in Q}
           W == IF write = Idle THEN {} ELSE UuidsIn(write.old) \cup DOMAIN write.saved
<1>1. IsFiniteSet(UuidsIn(conns)) /\ IsFiniteSet(DOMAIN nm) /\ IsFiniteSet(known)
  BY UuidsInFinite DEF IInv, Connections, IsSystem, Typed
<1>2. IsFiniteSet(A)
  <2>1. IsFiniteSet(DOMAIN signals)
    BY FinitePositions DEF IInv, Typed
  <2>2. QED
    BY <2>1, FiniteValues
<1>3. IsFiniteSet(B)
  <2>1. IsFiniteSet(Q)
    BY FinitePositions DEF IInv, Typed
  <2>2. QED
    BY <2>1, FiniteValues
<1>4. IsFiniteSet(W)
  <2>1. CASE write = Idle
    BY <2>1, FS_EmptySet
  <2>2. CASE write # Idle
    <3>1. Writing
      BY <2>2 DEF IInv
    <3>2. IsFiniteSet(DOMAIN write.old) /\ IsFiniteSet(DOMAIN write.saved)
      BY <3>1, ReadIsWanted DEF Writing, IsSystem
    <3>3. QED
      BY <2>2, <3>2, UuidsInFinite, FS_Union
  <2>3. QED
    BY <2>1, <2>2
<1>5. A = {signals[k].uuid : k \in DOMAIN signals}
  OBVIOUS
<1>6. B = {queue[k].uuid : k \in Q}
  OBVIOUS
<1> HIDE DEF A, B, W
<1>7. IsFiniteSet(UuidsIn(conns) \cup DOMAIN nm \cup known \cup A \cup B \cup W)
  BY <1>1, <1>2, <1>3, <1>4, FS_Union
<1>8. QED
  BY <1>5, <1>6, <1>7 DEF Held, W

LEMMA NewUuidIsNew ==
  ASSUME IInv
  PROVE  /\ NewUuid \in Uuids /\ NewUuid \notin Held
         /\ NewUuid \notin DOMAIN conns \cup DOMAIN nm \cup known
         /\ write # Idle => NewUuid \notin DOMAIN write.saved
         /\ NewUuid \notin Removals
<1>1. Free(1) = FreeOf(Held, 1)
  BY DEF Free, FreeOf
<1>2. /\ IsFiniteSet(Free(1)) /\ 1 <= Cardinality(Free(1)) /\ Free(1) \subseteq Uuids \ Held
  BY <1>1, HeldFinite, FreeEnough
<1>3. Free(1) # {}
  BY <1>2, FS_EmptySet
<1>4. NewUuid \in Uuids \ Held
  BY <1>2, <1>3 DEF NewUuid
<1>5. QED
  BY <1>4 DEF Held, UuidsIn, Removals

------------------------------------------------------------------------------
(* Updating the state.                                                     *)

(* What a changed configuration becomes: a known identifier keeps its UUID *)
(* and a new one gets a new UUID.                                          *)
UuidOf(config, S) ==
  [i \in Collected(config, S) |->
     IF i \in NewIds(config, S) THEN Numbering(config, S)[i]
     ELSE GetConnection(conns, i)]

LEMMA CollectedIds ==
  ASSUME NEW config \in Configs, NEW S \in SUBSET DOMAIN config
  PROVE  /\ Collected(config, S) \subseteq Ids /\ IsFiniteSet(Collected(config, S))
         /\ \A i \in S : i \in DOMAIN config /\ config[i].status \in Statuses
         /\ \A b \in S \cap Bonds : config[b].ports \subseteq Collected(config, S)
<1>1. /\ DOMAIN config \subseteq Ids
      /\ \A i \in DOMAIN config : config[i].status \in Statuses /\ config[i].ports \subseteq Ids
  BY NetworkAssumption
<1>2. Collected(config, S) \subseteq Ids
  BY <1>1 DEF Collected, Ports
<1>3. IsFiniteSet(Collected(config, S))
  BY <1>2, FS_Subset, NetworkAssumption
<1>4. QED
  BY <1>1, <1>2, <1>3 DEF Collected, Ports

LEMMA NumberingIsNew ==
  ASSUME IInv, NEW config \in Configs, NEW S \in SUBSET DOMAIN config
  PROVE  LET f == Numbering(config, S)
         IN  /\ f \in [NewIds(config, S) -> Uuids \ Held] /\ IsInjective(f)
<1> DEFINE new == NewIds(config, S)
           n == Cardinality(new)
<1>1. IsFiniteSet(new)
  BY CollectedIds, FS_Subset DEF NewIds
<1>2. n \in Nat
  BY <1>1, FS_CardinalityType
<1>3. Free(n) = FreeOf(Held, n)
  BY DEF Free, FreeOf
<1>4. Numbering(config, S) = CHOOSE f \in [new -> Free(n)] : IsInjective(f)
  BY DEF Numbering
<1> HIDE DEF new
<1>5. IsFiniteSet(Free(n)) /\ n <= Cardinality(Free(n)) /\ Free(n) \subseteq Uuids \ Held
  <2> HIDE DEF n
  <2> QED
    BY <1>2, <1>3, HeldFinite, FreeEnough
<1>6. \E f \in [new -> Free(n)] : IsInjective(f)
  BY <1>1, <1>5, NamesEnough
<1>7. Numbering(config, S) \in [new -> Free(n)] /\ IsInjective(Numbering(config, S))
  BY <1>4, <1>6
<1>8. QED
  BY <1>5, <1>7 DEF new

LEMMA UuidOfTells ==
  ASSUME IInv, NEW config \in Configs, NEW S \in SUBSET DOMAIN config
  PROVE  LET f == UuidOf(config, S)
         IN  /\ f \in [Collected(config, S) -> Uuids] /\ IsInjective(f)
             /\ \A i \in Collected(config, S) :
                  \/ f[i] \in DOMAIN conns /\ conns[f[i]].id = i
                  \/ f[i] \notin Held
<1> DEFINE f == UuidOf(config, S)
           g == Numbering(config, S)
           N == NewIds(config, S)
           C == Collected(config, S)
<1>1. g \in [N -> Uuids \ Held] /\ IsInjective(g)
  BY NumberingIsNew
<1>2. \A i \in C \ N : GetConnection(conns, i) \in DOMAIN conns
                       /\ conns[GetConnection(conns, i)].id = i
  BY GetConnectionFinds DEF NewIds, IInv, Connections
<1>3. N \subseteq C
  BY DEF NewIds
<1>4. f = [i \in C |-> IF i \in N THEN g[i] ELSE GetConnection(conns, i)]
  BY DEF UuidOf
<1>5. DOMAIN conns \subseteq Held /\ DOMAIN conns \subseteq Uuids
  BY DEF Held, UuidsIn, IInv, Connections
<1> HIDE DEF f, g, N, C
<1>6. f \in [C -> Uuids]
  BY <1>1, <1>2, <1>4, <1>5
<1>7. ASSUME NEW i \in C, NEW j \in C, f[i] = f[j]
      PROVE  i = j
  <2>1. CASE i \in N /\ j \in N
    BY <1>1, <1>4, <1>7, <2>1 DEF IsInjective
  <2>2. CASE i \in N /\ j \notin N
    BY <1>1, <1>2, <1>4, <1>5, <1>7, <2>2
  <2>3. CASE i \notin N /\ j \in N
    BY <1>1, <1>2, <1>4, <1>5, <1>7, <2>3
  <2>4. CASE i \notin N /\ j \notin N
    BY <1>2, <1>4, <1>7, <2>4
  <2>5. QED
    BY <2>1, <2>2, <2>3, <2>4
<1>8. \A i \in C : \/ f[i] \in DOMAIN conns /\ conns[f[i]].id = i
                   \/ f[i] \notin Held
  BY <1>1, <1>2, <1>4
<1>9. IsInjective(f)
  BY <1>6, <1>7 DEF IsInjective
<1>10. QED
  BY <1>6, <1>8, <1>9 DEF f, C

(* A profile as a connection.                                              *)
LEMMA AsConnectionIsWanted ==
  ASSUME NEW config \in Configs, NEW S \in SUBSET DOMAIN config,
         \A i \in S : config[i].set # Bad,
         NEW i \in Collected(config, S),
         NEW f \in [Collected(config, S) -> Uuids]
  PROVE  LET c == AsConnection(config, S, f, i)
         IN  /\ IsWanted(c) /\ c.id = i
             /\ \/ c.controller = None
                \/ \E b \in S \cap Bonds :
                     i \in config[b].ports /\ c.controller = f[b]
<1> DEFINE owners == {b \in S \cap Bonds : i \in config[b].ports}
           c == AsConnection(config, S, f, i)
<1>1. \A b \in S : b \in Collected(config, S) /\ b \in DOMAIN config
  BY DEF Collected
<1>2. i \in Ids
  BY CollectedIds
<1>3. c.controller = IF owners = {} THEN None ELSE f[CHOOSE b \in owners : TRUE]
  BY DEF AsConnection
<1>4. c.controller = None \/ \E b \in owners : c.controller = f[b]
  <2>1. owners # {} => (CHOOSE b \in owners : TRUE) \in owners
    BY Zenon
  <2> HIDE DEF owners
  <2>2. QED
    BY <1>3, <2>1
<1>5. IsSettings(c.set)
  <2>1. IsSettings(Default)
    <3>1. "802-3-ethernet" = KindOrder[12] /\ 12 \in DOMAIN KindOrder
      BY DEF KindOrder
    <3>2. "802-3-ethernet" \in Kinds
      BY <3>1 DEF Kinds, Range
    <3>3. QED
      BY <3>2 DEF Default, IsSettings
  <2>2. CASE i \in S
    <3>1. config[i].set \in DOMAIN Meaning
      BY <1>1, <2>2, NetworkAssumption
    <3> DEFINE set == Meaning[config[i].set]
               says == Restrict(set.says, {o \in DOMAIN set.says : o[2] # "assigned-mac-address"})
    <3>2. IsSettings(set)
      BY <3>1, NetworkAssumption
    <3>3. c.set = FromProfile(set)
      BY <2>2 DEF AsConnection
    <3>4. DOMAIN says \subseteq DOMAIN set.says
      BY DEF Restrict
    <3>5. FromProfile(set) = [set EXCEPT !.says = says]
      BY DEF FromProfile
    <3> HIDE DEF set, says
    <3>6. FromProfile(set).kind = set.kind
      BY <3>5
    <3>7. QED
      BY <3>2, <3>3, <3>4, <3>5, <3>6 DEF IsSettings
  <2>3. CASE i \notin S
    BY <2>1, <2>3 DEF AsConnection
  <2>4. QED
    BY <2>2, <2>3
<1>6. c.id = i /\ c.persistent = TRUE /\ c.status \in Statuses
  <2>1. c.status = IF i \in S THEN config[i].status ELSE "up"
    BY DEF AsConnection
  <2>2. QED
    BY <2>1, CollectedIds DEF AsConnection, Statuses
<1>7. c.controller \in Uuids \cup {None}
  BY <1>1, <1>4
<1>8. IsWanted(c)
  <2>1. c = [id |-> c.id, set |-> c.set, status |-> c.status,
             persistent |-> c.persistent, controller |-> c.controller]
    BY DEF AsConnection
  <2> HIDE DEF c
  <2>2. QED
    BY <1>2, <1>5, <1>6, <1>7, <2>1 DEF IsWanted
<1>9. QED
  BY <1>4, <1>6, <1>8

LEMMA SanitizedTells ==
  ASSUME IInv, NEW config \in Configs, NEW S \in SUBSET DOMAIN config
  PROVE  LET f == UuidOf(config, S)
             cs == SanitizedCollection(config, S)
         IN  /\ DOMAIN cs = {f[i] : i \in Collected(config, S)}
             /\ \A i \in Collected(config, S) :
                  cs[f[i]] = AsConnection(config, S, f, i)
<1> DEFINE f == UuidOf(config, S)
           C == Collected(config, S)
           cs == SanitizedCollection(config, S)
<1>1. f \in [C -> Uuids] /\ IsInjective(f)
  BY UuidOfTells
<1>2. DOMAIN Numbering(config, S) = NewIds(config, S)
  BY NumberingIsNew
<1>3. cs = [u \in Range(f) |->
              AsConnection(config, S, f, CHOOSE i \in DOMAIN f : f[i] = u)]
  BY <1>2 DEF SanitizedCollection, UuidOf
<1> HIDE DEF f, cs
<1>4. \A i \in C : (CHOOSE j \in DOMAIN f : f[j] = f[i]) = i
  BY <1>1 DEF IsInjective
<1>5. DOMAIN cs = {f[i] : i \in C}
  BY <1>1, <1>3 DEF Range
<1>6. \A i \in C : cs[f[i]] = AsConnection(config, S, f, i)
  BY <1>1, <1>3, <1>4 DEF Range
<1>7. QED
  BY <1>5, <1>6 DEF f, cs

(* A connection the new configuration has carries the identifier it had,   *)
(* or a UUID nothing refers to; its controller is a bond of it.            *)
LEMMA SanitizedIsWanted ==
  ASSUME IInv, NEW config \in Configs, NEW S \in SUBSET DOMAIN config,
         \A i \in S : config[i].set # Bad
  PROVE  LET cs == SanitizedCollection(config, S)
         IN  /\ IsFiniteSet(DOMAIN cs) /\ DOMAIN cs \subseteq Uuids
             /\ \A u \in DOMAIN cs :
                  /\ IsWanted(cs[u])
                  /\ u \in Held => u \in DOMAIN conns /\ cs[u].id = conns[u].id
                  /\ \/ cs[u].controller = None
                     \/ /\ cs[u].controller \in DOMAIN cs
                        /\ cs[cs[u].controller].id \in Bonds
                  /\ PlainPorts /\ cs[u].id \in Bonds => cs[u].controller = None
<1> DEFINE f == UuidOf(config, S)
           C == Collected(config, S)
           cs == SanitizedCollection(config, S)
<1>1. /\ f \in [C -> Uuids] /\ IsInjective(f)
      /\ \A i \in C : (f[i] \in DOMAIN conns /\ conns[f[i]].id = i) \/ f[i] \notin Held
  BY UuidOfTells
<1>2. /\ DOMAIN cs = {f[i] : i \in C}
      /\ \A i \in C : cs[f[i]] = AsConnection(config, S, f, i)
  BY SanitizedTells
<1>3. \A i \in C : /\ IsWanted(cs[f[i]]) /\ cs[f[i]].id = i
                   /\ \/ cs[f[i]].controller = None
                      \/ \E b \in S \cap Bonds : /\ i \in config[b].ports
                                                 /\ cs[f[i]].controller = f[b]
  BY <1>1, <1>2, AsConnectionIsWanted
<1>4. \A b \in S : b \in C /\ b \in DOMAIN config
  BY DEF Collected
<1>5. IsFiniteSet(C)
  BY CollectedIds
<1> HIDE DEF f, C, cs
<1>6. IsFiniteSet(DOMAIN cs) /\ DOMAIN cs \subseteq Uuids
  BY <1>1, <1>2, <1>5, FiniteValues
<1>7. ASSUME NEW i \in C
      PROVE  /\ IsWanted(cs[f[i]])
             /\ f[i] \in Held => f[i] \in DOMAIN conns /\ cs[f[i]].id = conns[f[i]].id
             /\ \/ cs[f[i]].controller = None
                \/ /\ cs[f[i]].controller \in DOMAIN cs
                   /\ cs[cs[f[i]].controller].id \in Bonds
             /\ PlainPorts /\ cs[f[i]].id \in Bonds => cs[f[i]].controller = None
  <2>1. CASE cs[f[i]].controller = None
    BY <1>1, <1>3, <2>1
  <2>2. CASE cs[f[i]].controller # None
    <3>1. PICK b \in S \cap Bonds : i \in config[b].ports /\ cs[f[i]].controller = f[b]
      BY <1>3, <2>2
    <3>2. f[b] \in DOMAIN cs /\ cs[f[b]].id = b
      BY <1>2, <1>3, <1>4
    <3>3. PlainPorts => i \notin Bonds
      BY <1>4, <3>1 DEF PlainPorts
    <3>4. QED
      BY <1>1, <1>3, <3>1, <3>2, <3>3
  <2>3. QED
    BY <2>1, <2>2
<1>8. \A u \in DOMAIN cs : \E i \in C : u = f[i]
  BY <1>2
<1>9. QED
  BY <1>6, <1>7, <1>8 DEF cs

(* What may happen to the wanted connections without disturbing them.      *)
Altered(cs, ds) ==
  /\ DOMAIN ds = DOMAIN cs
  /\ \A u \in DOMAIN cs :
       /\ ds[u].id = cs[u].id
       /\ ds[u].controller \in {cs[u].controller, None}
       /\ IsWanted(ds[u])

LEMMA AlteredStays ==
  ASSUME NEW cs, NEW ds, NEW sys, Altered(cs, ds),
         None \notin DOMAIN cs
  PROVE  /\ Agree(cs, sys) => Agree(ds, sys)
         /\ ControllersAreBonds(cs) => ControllersAreBonds(ds)
  BY DEF Altered, Agree, ControllersAreBonds

LEMMA SetPortsAlters ==
  ASSUME NEW cs, \A u \in DOMAIN cs : IsWanted(cs[u]), NEW config, NEW S
  PROVE  Altered(cs, SetPorts(cs, config, S))
<1> DEFINE ds == SetPorts(cs, config, S)
<1>1. DOMAIN ds = DOMAIN cs
  BY DEF SetPorts
<1>2. ASSUME NEW u \in DOMAIN cs
      PROVE  ds[u].id = cs[u].id /\ ds[u].controller \in {cs[u].controller, None}
             /\ IsWanted(ds[u])
  <2> DEFINE c == [cs[u] EXCEPT !.controller = None, !.status = "removed"]
  <2>1. ds[u] = c \/ ds[u] = cs[u]
    BY DEF SetPorts
  <2>2. /\ cs[u] \in [id : Ids, set : {cs[u].set}, status : Statuses,
                      persistent : BOOLEAN, controller : Uuids \cup {None}]
        /\ IsSettings(cs[u].set)
    BY DEF IsWanted
  <2>3. /\ c \in [id : Ids, set : {cs[u].set}, status : Statuses,
                  persistent : BOOLEAN, controller : Uuids \cup {None}]
        /\ c.id = cs[u].id /\ c.controller = None /\ c.set = cs[u].set
    BY <2>2 DEF Statuses
  <2> HIDE DEF c, ds
  <2>4. IsWanted(c)
    BY <2>2, <2>3 DEF IsWanted
  <2>5. QED
    BY <2>1, <2>3, <2>4
<1>3. QED
  BY <1>1, <1>2 DEF Altered

LEMMA ProposedAlters ==
  ASSUME NEW cs, \A u \in DOMAIN cs : IsWanted(cs[u])
  PROVE  Altered(cs, ProposedDefault(cs))
<1> DEFINE ds == ProposedDefault(cs)
<1>1. CASE \E u \in DOMAIN cs : cs[u].persistent
  <2>1. ds = cs
    BY <1>1 DEF ProposedDefault
  <2>2. QED
    BY <2>1 DEF Altered
<1>2. CASE ~ \E u \in DOMAIN cs : cs[u].persistent
  <2>1. ds = [u \in DOMAIN cs |-> [cs[u] EXCEPT !.persistent = TRUE, !.status = "keep"]]
    BY <1>2 DEF ProposedDefault
  <2>2. ASSUME NEW u \in DOMAIN cs
        PROVE  ds[u].id = cs[u].id /\ ds[u].controller = cs[u].controller
               /\ IsWanted(ds[u])
    <3> DEFINE c == [cs[u] EXCEPT !.persistent = TRUE, !.status = "keep"]
    <3>1. ds[u] = c
      BY <2>1
    <3>2. /\ cs[u] \in [id : Ids, set : {cs[u].set}, status : Statuses,
                        persistent : BOOLEAN, controller : Uuids \cup {None}]
          /\ IsSettings(cs[u].set)
      BY DEF IsWanted
    <3>3. /\ c \in [id : Ids, set : {cs[u].set}, status : Statuses,
                    persistent : BOOLEAN, controller : Uuids \cup {None}]
          /\ c.id = cs[u].id /\ c.controller = cs[u].controller /\ c.set = cs[u].set
      BY <3>2 DEF Statuses
    <3> HIDE DEF c, ds
    <3>4. QED
      BY <3>1, <3>2, <3>3 DEF IsWanted
  <2>3. DOMAIN ds = DOMAIN cs
    BY <2>1
  <2> HIDE DEF ds
  <2>4. Altered(cs, ds)
    BY <2>2, <2>3 DEF Altered
  <2>5. QED
    BY <2>4 DEF ds
<1>3. QED
  BY <1>1, <1>2

(* A new configuration on top of what was wanted.                          *)
LEMMA OverlaidIsWanted ==
  ASSUME IInv, NEW config \in Configs, NEW S \in SUBSET DOMAIN config,
         \A i \in S : config[i].set # Bad
  PROVE  LET ds == Overlay(conns, SanitizedCollection(config, S))
         IN  /\ IsFiniteSet(DOMAIN ds) /\ DOMAIN ds \subseteq Uuids
             /\ \A u \in DOMAIN ds : IsWanted(ds[u])
             /\ Agree(ds, nm) /\ ControllersAreBonds(ds)
<1> DEFINE cs == SanitizedCollection(config, S)
           ds == Overlay(conns, cs)
<1>1. /\ IsFiniteSet(DOMAIN cs) /\ DOMAIN cs \subseteq Uuids
      /\ \A u \in DOMAIN cs :
           /\ IsWanted(cs[u])
           /\ u \in Held => u \in DOMAIN conns /\ cs[u].id = conns[u].id
           /\ \/ cs[u].controller = None
              \/ /\ cs[u].controller \in DOMAIN cs
                 /\ cs[cs[u].controller].id \in Bonds
           /\ PlainPorts /\ cs[u].id \in Bonds => cs[u].controller = None
  BY SanitizedIsWanted
<1>2. /\ DOMAIN ds = DOMAIN conns \cup DOMAIN cs
      /\ \A u \in DOMAIN cs : ds[u] = cs[u]
      /\ \A u \in DOMAIN conns \ DOMAIN cs : ds[u] = conns[u]
  BY DEF Overlay
<1>3. /\ IsFiniteSet(DOMAIN conns) /\ DOMAIN conns \subseteq Uuids
      /\ \A u \in DOMAIN conns : IsWanted(conns[u])
      /\ Agree(conns, nm) /\ ControllersAreBonds(conns)
  BY DEF IInv, Connections
<1>4. /\ DOMAIN conns \subseteq Held /\ DOMAIN nm \subseteq Held
      /\ \A u \in DOMAIN conns : conns[u].controller \in Held \cup {None}
  BY DEF Held, UuidsIn
<1> HIDE DEF cs, ds
<1>5. IsFiniteSet(DOMAIN ds) /\ DOMAIN ds \subseteq Uuids
  <2>1. IsFiniteSet(DOMAIN conns \cup DOMAIN cs)
    BY <1>1, <1>3, FS_Union
  <2>2. QED
    BY <1>1, <1>2, <1>3, <2>1
<1>6. \A u \in DOMAIN ds : IsWanted(ds[u])
  BY <1>1, <1>2, <1>3
<1>7. Agree(ds, nm)
  BY <1>1, <1>2, <1>3, <1>4 DEF Agree
<1>8. ControllersAreBonds(ds)
  <2>1. ASSUME NEW u \in DOMAIN cs
        PROVE  /\ ds[u].controller \in DOMAIN ds => ds[ds[u].controller].id \in Bonds
               /\ PlainPorts /\ ds[u].id \in Bonds => ds[u].controller = None
    <3>1. None \notin DOMAIN ds
      BY <1>5, NoneIsNoUuid
    <3>2. QED
      BY <1>1, <1>2, <3>1
  <2>2. ASSUME NEW u \in DOMAIN conns \ DOMAIN cs
        PROVE  /\ ds[u].controller \in DOMAIN ds => ds[ds[u].controller].id \in Bonds
               /\ PlainPorts /\ ds[u].id \in Bonds => ds[u].controller = None
    <3>1. ds[u] = conns[u]
      BY <1>2
    <3>2. PlainPorts /\ ds[u].id \in Bonds => ds[u].controller = None
      BY <1>3, <3>1 DEF ControllersAreBonds
    <3>3. ASSUME conns[u].controller \in DOMAIN ds
          PROVE  ds[conns[u].controller].id \in Bonds
      <4> DEFINE w == conns[u].controller
      <4>1. w # None
        BY <1>5, <3>3, NoneIsNoUuid
      <4>2. w \in Held
        BY <1>4, <4>1
      <4>3. w \in DOMAIN conns
        BY <1>1, <1>2, <3>3, <4>2
      <4>4. conns[w].id \in Bonds
        BY <1>3, <4>3 DEF ControllersAreBonds
      <4>5. ds[w].id = conns[w].id
        BY <1>1, <1>2, <4>2, <4>3
      <4>6. QED
        BY <4>4, <4>5
    <3>4. QED
      BY <3>1, <3>2, <3>3
  <2>3. QED
    BY <1>2, <2>1, <2>2 DEF ControllersAreBonds
<1>9. QED
  BY <1>5, <1>6, <1>7, <1>8 DEF ds, cs

------------------------------------------------------------------------------
(* What is written to NetworkManager.                                      *)

LEMMA KeyOfOption ==
  ASSUME NEW s, NEW k \in KeysOf(s)
  PROVE  <<s, k>> \in Options
<1>1. PICK p \in Options : p[1] = s /\ p[2] = k
  BY DEF KeysOf
<1>2. p = <<p[1], p[2]>>
  BY OptionsAssumption
<1>3. QED
  BY <1>1, <1>2

(* Cleaning adds no key but the flags of a VLAN.                           *)
LEMMA CleanKeys ==
  ASSUME NEW s, NEW x, NEW k \in DOMAIN CleanSection(s, x)
  PROVE  k \in DOMAIN x \/ (s = "vlan" /\ k \in KeysOf("vlan"))
<1>1. CASE s = "connection"
  <2>1. \E S : CleanSection(s, x) = Without(x, S)
    BY <1>1 DEF CleanSection
  <2>2. QED
    BY <2>1 DEF Without, Restrict
<1>2. CASE s \in {"ipv4", "ipv6"}
  <2>1. CleanSection(s, x) = CleanIp(x)
    BY <1>2 DEF CleanSection
  <2>2. CASE "method" \in DOMAIN x /\ x["method"] = "disabled"
    <3>1. CleanIp(x) = Restrict(x, {"method"})
      BY <2>2 DEF CleanIp
    <3>2. QED
      BY <2>1, <2>2, <3>1 DEF Restrict
  <2>3. CASE ~ ("method" \in DOMAIN x /\ x["method"] = "disabled")
    <3>1. \E S : CleanIp(x) = Without(x, S)
      BY <2>3 DEF CleanIp
    <3>2. QED
      BY <2>1, <3>1 DEF Without, Restrict
  <2>4. QED
    BY <2>2, <2>3
<1>3. CASE s = "vlan"
  <2>1. CleanSection(s, x) = CleanVlan(x)
    BY <1>3 DEF CleanSection
  <2>2. QED
    BY <1>3, <2>1 DEF CleanVlan
<1>4. CASE s \notin {"connection", "ipv4", "ipv6", "vlan"}
  <2>1. CleanSection(s, x) = x
    BY <1>4 DEF CleanSection
  <2>2. QED
    BY <2>1
<1>5. QED
  BY <1>1, <1>2, <1>3, <1>4

LEMMA CleanedIsHash ==
  ASSUME NEW hash, IsHash(hash), NEW isBridgePort
  PROVE  LET clean == CleanupDbusConnection(hash, isBridgePort)
         IN  /\ IsHash(clean)
             /\ "connection" \in DOMAIN hash => "connection" \in DOMAIN clean
<1> DEFINE clean == CleanupDbusConnection(hash, isBridgePort)
           D == DOMAIN hash \ (IF isBridgePort THEN {} ELSE {"bridge-port"})
<1>1. clean = [s \in D |-> CleanSection(s, hash[s])]
  BY DEF CleanupDbusConnection
<1>2. ASSUME NEW s \in D, NEW k \in DOMAIN CleanSection(s, hash[s])
      PROVE  <<s, k>> \in Options
  <2>1. k \in DOMAIN hash[s] \/ (s = "vlan" /\ k \in KeysOf("vlan"))
    BY <1>2, CleanKeys
  <2>2. QED
    BY <1>2, <2>1, KeyOfOption DEF IsHash
<1>3. "connection" \in DOMAIN hash => "connection" \in D
  OBVIOUS
<1> HIDE DEF clean, D
<1>4. IsHash(clean)
  BY <1>1, <1>2 DEF IsHash
<1>5. QED
  BY <1>1, <1>3, <1>4 DEF clean

LEMMA ToDbusIsHash ==
  ASSUME NEW c, IsSettings(c)
  PROVE  IsHash(ConnectionToDbus(c)) /\ "connection" \in DOMAIN ConnectionToDbus(c)
<1> DEFINE h == ConnectionToDbus(c)
           Keys(s) == (AlwaysWritten(c, s) \cap KeysOf(s)) \cup Said(c, s)
<1>1. /\ DOMAIN h = WrittenSections(c)
      /\ \A s \in WrittenSections(c) : DOMAIN h[s] = Keys(s)
  BY DEF ConnectionToDbus
<1>2. \A s : Keys(s) \subseteq KeysOf(s)
  BY DEF Said
<1> HIDE DEF h, Keys
<1>3. \A s \in DOMAIN h : \A k \in DOMAIN h[s] : <<s, k>> \in Options
  BY <1>1, <1>2, KeyOfOption
<1>4. IsHash(h)
  BY <1>3 DEF IsHash
<1>5. "connection" \in WrittenSections(c)
  BY DEF WrittenSections, Sections
<1>6. QED
  BY <1>1, <1>4, <1>5 DEF h

LEMMA MergedIsHash ==
  ASSUME NEW original, IsHash(original), NEW updated, IsHash(updated), NEW isBridgePort
  PROVE  LET merged == MergeDbusConnections(original, updated, isBridgePort)
         IN  /\ IsHash(merged)
             /\ "connection" \in DOMAIN original => "connection" \in DOMAIN merged
<1> DEFINE both == [s \in DOMAIN original |->
                      MergeSection(original[s], SectionOf(updated, s))]
<1>1. ASSUME NEW s \in DOMAIN original, NEW k \in DOMAIN both[s]
      PROVE  <<s, k>> \in Options
  <2>1. DOMAIN both[s] = (DOMAIN original[s] \ HandledByAgama)
                           \cup DOMAIN SectionOf(updated, s)
    BY DEF MergeSection
  <2>2. k \in DOMAIN SectionOf(updated, s) => s \in DOMAIN updated /\ k \in DOMAIN updated[s]
    BY DEF SectionOf
  <2> HIDE DEF both
  <2>3. QED
    BY <1>1, <2>1, <2>2 DEF IsHash
<1>2. DOMAIN both = DOMAIN original
  OBVIOUS
<1>3. MergeDbusConnections(original, updated, isBridgePort)
        = CleanupDbusConnection(both, isBridgePort)
  BY DEF MergeDbusConnections
<1> HIDE DEF both
<1>4. IsHash(both)
  BY <1>1, <1>2 DEF IsHash
<1>5. QED
  BY <1>2, <1>3, <1>4, CleanedIsHash

LEMMA CompletedIsHash ==
  ASSUME NEW hash, IsHash(hash), "connection" \in DOMAIN hash, NEW kind \in Kinds
  PROVE  IsHash(Completed(hash, kind)) /\ IsReadable(Completed(hash, kind))
<1> DEFINE h == Completed(hash, kind)
<1>1. DOMAIN h = DOMAIN hash \cup {kind}
  BY DEF Completed
<1>2. \A s \in DOMAIN h : h[s] = SectionOf(hash, s)
  BY DEF Completed
<1>3. \A s : \A k \in DOMAIN SectionOf(hash, s) : s \in DOMAIN hash /\ k \in DOMAIN hash[s]
  BY DEF SectionOf
<1> HIDE DEF h
<1>4. IsHash(h)
  BY <1>2, <1>3 DEF IsHash
<1>5. IsReadable(h)
  BY <1>1 DEF IsReadable
<1>6. QED
  BY <1>4, <1>5 DEF h

(* What is written for a connection is one Agama can read, with a bond for *)
(* controller if it has one.                                               *)
LEMMA WrittenIsInSystem ==
  ASSUME IInv, NEW u \in DOMAIN conns, NEW active \in BOOLEAN
  PROVE  LET w == WrittenAs(u, active)
         IN  /\ IsInSystem(w) /\ IsReadable(w.hash)
             /\ w.id = conns[u].id /\ w.master = MasterFor(u)
             /\ w.master # None => w.master \in Bonds
             /\ PlainPorts /\ w.master # None => w.id \notin Bonds
<1> DEFINE hash == ConnectionToDbus(conns[u].set)
           onTop == IF u \in DOMAIN nm
                    THEN MergeDbusConnections(nm[u].hash, hash, IsBridgePort(u))
                    ELSE CleanupDbusConnection(hash, IsBridgePort(u))
           w == WrittenAs(u, active)
<1>1. /\ IsWanted(conns[u]) /\ Agree(conns, nm) /\ ControllersAreBonds(conns)
      /\ \A v \in DOMAIN nm : IsInSystem(nm[v])
      /\ \A v \in DOMAIN conns : IsWanted(conns[v])
      /\ None \notin DOMAIN conns
  BY NoneIsNoUuid DEF IInv, Connections, IsSystem
<1>2. /\ conns[u].id \in Ids /\ conns[u].persistent \in BOOLEAN
      /\ IsSettings(conns[u].set) /\ conns[u].set.kind \in Kinds
  BY <1>1 DEF IsWanted, IsSettings
<1>3. IsHash(hash) /\ "connection" \in DOMAIN hash
  BY <1>2, ToDbusIsHash
<1>4. IsHash(onTop) /\ "connection" \in DOMAIN onTop
  <2> HIDE DEF hash
  <2>1. CASE u \in DOMAIN nm
    <3>1. IsHash(nm[u].hash) /\ "connection" \in DOMAIN nm[u].hash
      BY <1>1, <2>1 DEF IsInSystem, Agree, IsReadable
    <3>2. QED
      BY <1>3, <2>1, <3>1, MergedIsHash
  <2>2. CASE u \notin DOMAIN nm
    BY <1>3, <2>2, CleanedIsHash
  <2>3. QED
    BY <2>1, <2>2
<1>5. HashWritten(u) = Completed(onTop, conns[u].set.kind)
  BY DEF HashWritten
<1> HIDE DEF onTop
<1>6. IsHash(HashWritten(u)) /\ IsReadable(HashWritten(u))
  BY <1>2, <1>4, <1>5, CompletedIsHash
<1>7. MasterFor(u) # None =>
        /\ conns[u].controller \in DOMAIN conns
        /\ MasterFor(u) = conns[conns[u].controller].id
  BY DEF MasterFor, WantedController
<1>8. MasterFor(u) # None =>
        MasterFor(u) \in Bonds /\ (PlainPorts => conns[u].id \notin Bonds)
  BY <1>1, <1>7 DEF ControllersAreBonds
<1>9. MasterFor(u) \in Ids \cup {None}
  BY <1>8, NetworkAssumption
<1>10. w = [id |-> conns[u].id, hash |-> HashWritten(u), active |-> active,
            persistent |-> conns[u].persistent, master |-> MasterFor(u)]
  BY DEF WrittenAs, MasterFor
<1> HIDE DEF w
<1>11. IsInSystem(w)
  BY <1>2, <1>6, <1>9, <1>10 DEF IsInSystem
<1>12. QED
  BY <1>6, <1>8, <1>10, <1>11 DEF w

------------------------------------------------------------------------------
(* The types.                                                              *)

LEMMA SpendTyped ==
  ASSUME Typed, NEW what \in {"requests", "external", "faults", "refused"},
         Spend(what),
         what = "requests" => spent.requests < MaxRequests,
         what = "external" => spent.external < MaxExternal,
         what \in {"faults", "refused"} => FaultLeft
  PROVE  /\ spent' \in Spending /\ spent'.refused + spent'.faults <= MaxFaults
         /\ spent'.external = spent.external + (IF what = "external" THEN 1 ELSE 0)
         /\ spent'.refused = spent.refused + (IF what = "refused" THEN 1 ELSE 0)
<1>1. /\ spent \in [requests : 0 .. MaxRequests, external : 0 .. MaxExternal,
                    faults : 0 .. MaxFaults, refused : 0 .. MaxFaults]
      /\ spent.refused + spent.faults <= MaxFaults
  BY DEF Typed, Spending
<1>2. MaxRequests \in Nat /\ MaxExternal \in Nat /\ MaxFaults \in Nat
  BY NetworkAssumption
<1>3. spent' = [spent EXCEPT ![what] = @ + 1]
  BY DEF Spend
<1>4. CASE what = "requests"
  BY <1>1, <1>2, <1>3, <1>4 DEF Spending
<1>5. CASE what = "external"
  BY <1>1, <1>2, <1>3, <1>5 DEF Spending
<1>6. CASE what = "faults"
  BY <1>1, <1>2, <1>3, <1>6 DEF Spending, FaultLeft
<1>7. CASE what = "refused"
  BY <1>1, <1>2, <1>3, <1>7 DEF Spending, FaultLeft
<1>8. QED
  BY <1>4, <1>5, <1>6, <1>7

LEMMA ServesTyped ==
  ASSUME Typed, NEW kind, Serves(kind)
  PROVE  /\ queue' \in Seq(Actions) /\ Head(queue) \in Actions
         /\ Head(queue).action = kind /\ write = Idle
         /\ Len(queue) > 0 /\ queue' = Tail(queue) /\ Head(queue) = queue[1]
  BY DEF Typed, Serves

LEMMA ActionTyped ==
  ASSUME NEW a \in Actions
  PROVE  /\ a.action \in {"update", "apply", "new", "remove"}
         /\ a.action \in {"update", "apply"} => a.by \in Clients
         /\ a.action = "update" => a.request \in Requests
         /\ a.action = "new" => a.id \in Ids
         /\ a.action = "remove" => a.uuid \in Uuids
  BY DEF Actions

LEMMA AnswerTyped ==
  ASSUME Typed, NEW c \in Clients,
         NEW pc \in {"idle", "updating", "updated", "applying"}, Answer(c, pc)
  PROVE  client' \in [Clients -> {"idle", "updating", "updated", "applying"}]
  BY DEF Answer, Typed


LEMMA TypedStep ==
  ASSUME IInv, Next
  PROVE  Typed'
<1> USE DEF IInv
<1>1. /\ userConfig \in Configs \cup {None}
      /\ queue \in Seq(Actions) /\ signals \in Seq(Signals)
      /\ client \in [Clients -> {"idle", "updating", "updated", "applying"}]
      /\ IsFiniteSet(known) /\ known \subseteq Uuids /\ dirty \in BOOLEAN
      /\ spent \in Spending /\ spent.refused + spent.faults <= MaxFaults
  BY DEF Typed
<1>2. ASSUME NEW c \in Clients, SendUpdate(c)
      PROVE  Typed'
  <2>1. PICK r \in Requests :
          /\ client' = [client EXCEPT ![c] = "updating"]
          /\ queue' = Append(queue, [action |-> "update", by |-> c, request |-> r])
    BY <1>2 DEF SendUpdate
  <2>2. [action |-> "update", by |-> c, request |-> r] \in Actions
    BY DEF Actions
  <2>3. queue' \in Seq(Actions)
    BY <1>1, <2>1, <2>2
  <2>4. spent' \in Spending /\ spent'.refused + spent'.faults <= MaxFaults
    BY <1>2, SpendTyped DEF SendUpdate
  <2>5. QED
    BY <1>1, <1>2, <2>1, <2>3, <2>4 DEF SendUpdate, Typed
<1>3. ASSUME NEW c \in Clients, SendApply(c)
      PROVE  Typed'
  <2>1. [action |-> "apply", by |-> c] \in Actions
    BY DEF Actions
  <2>2. queue' \in Seq(Actions)
    BY <1>1, <1>3, <2>1 DEF SendApply
  <2>3. QED
    BY <1>1, <1>3, <2>2 DEF SendApply, Typed
<1>4. CASE UpdateSame
  <2>1. queue' \in Seq(Actions) /\ Head(queue).by \in Clients
    BY <1>4, ServesTyped, ActionTyped DEF UpdateSame
  <2>2. client' \in [Clients -> {"idle", "updating", "updated", "applying"}]
    BY <1>4, <2>1, AnswerTyped DEF UpdateSame
  <2>3. QED
    BY <1>1, <1>4, <2>1, <2>2 DEF UpdateSame, Typed
<1>5. CASE UpdateRejected
  <2>1. queue' \in Seq(Actions) /\ Head(queue).by \in Clients
    BY <1>5, ServesTyped, ActionTyped DEF UpdateRejected
  <2>2. client' \in [Clients -> {"idle", "updating", "updated", "applying"}]
    BY <1>5, <2>1, AnswerTyped DEF UpdateRejected, AnswerEnd
  <2>3. QED
    BY <1>1, <1>5, <2>1, <2>2 DEF UpdateRejected, Typed
<1>6. CASE UpdateState
  <2>1. queue' \in Seq(Actions) /\ Head(queue).by \in Clients
    BY <1>6, ServesTyped, ActionTyped DEF UpdateState
  <2>2. client' \in [Clients -> {"idle", "updating", "updated", "applying"}]
    BY <1>6, <2>1, AnswerTyped DEF UpdateState
  <2>3. userConfig' \in Configs
    BY <1>6 DEF UpdateState
  <2>4. QED
    BY <1>1, <1>6, <2>1, <2>2, <2>3 DEF UpdateState, Typed
<1>7. CASE ProposeDefault
  <2>1. queue' \in Seq(Actions) /\ Head(queue).by \in Clients
    BY <1>7, ServesTyped, ActionTyped DEF ProposeDefault
  <2>2. client' \in [Clients -> {"idle", "updating", "updated", "applying"}]
    BY <1>7, <2>1, AnswerTyped DEF ProposeDefault
  <2>3. QED
    BY <1>1, <1>7, <2>1, <2>2 DEF ProposeDefault, Typed
<1>8. CASE NewConnection
  <2>1. queue' \in Seq(Actions)
    BY <1>8, ServesTyped DEF NewConnection
  <2>2. spent' \in Spending /\ spent'.refused + spent'.faults <= MaxFaults
    BY <1>1, <1>8, SpendTyped DEF NewConnection
  <2>3. dirty' \in BOOLEAN
    BY <1>1, <1>8 DEF NewConnection, SyncFromSystem
  <2>4. QED
    BY <1>1, <1>8, <2>1, <2>2, <2>3 DEF NewConnection, Typed
<1>9. CASE RemoveConnection
  <2>1. queue' \in Seq(Actions)
    BY <1>9, ServesTyped DEF RemoveConnection
  <2>2. QED
    BY <1>1, <1>9, <2>1 DEF RemoveConnection, Typed
<1>10. CASE StartWrite
  <2>1. queue' \in Seq(Actions)
    BY <1>10, ServesTyped DEF StartWrite
  <2>2. QED
    BY <1>1, <1>10, <2>1 DEF StartWrite, Typed
<1>11. CASE StartWriteFails
  <2>1. queue' \in Seq(Actions) /\ Head(queue).by \in Clients
    BY <1>11, ServesTyped, ActionTyped DEF StartWriteFails
  <2>2. client' \in [Clients -> {"idle", "updating", "updated", "applying"}]
    BY <1>11, <2>1, AnswerTyped DEF StartWriteFails, AnswerEnd
  <2>3. spent' \in Spending /\ spent'.refused + spent'.faults <= MaxFaults
    BY <1>11, SpendTyped DEF StartWriteFails
  <2>4. QED
    BY <1>1, <1>11, <2>1, <2>2, <2>3 DEF StartWriteFails, Typed
<1>12. ASSUME NEW u \in write.todo, SkipConnection(u)
       PROVE  Typed'
  BY <1>1, <1>12 DEF SkipConnection, Typed
<1>13. ASSUME NEW u \in write.todo, u \in Uuids, DeleteConnection(u)
       PROVE  Typed'
  <2>1. [signal |-> "removed", uuid |-> u] \in Signals
    BY <1>13 DEF Signals
  <2>2. signals' \in Seq(Signals)
    <3>1. \/ signals' = Append(signals, [signal |-> "removed", uuid |-> u])
          \/ signals' = signals
      BY <1>13 DEF DeleteConnection
    <3>2. QED
      BY <1>1, <2>1, <3>1
  <2>3. spent' \in Spending /\ spent'.refused + spent'.faults <= MaxFaults
    BY <1>1, <1>13, SpendTyped DEF DeleteConnection
  <2>4. QED
    BY <1>1, <1>13, <2>2, <2>3 DEF DeleteConnection, Typed
<1>14. ASSUME NEW u \in write.todo, AddOrUpdateConnection(u)
       PROVE  Typed'
  <2>1. [signal |-> "added", uuid |-> NewUuid] \in Signals
    BY NewUuidIsNew DEF Signals
  <2>2. signals' \in Seq(Signals)
    BY <1>1, <1>14, <2>1 DEF AddOrUpdateConnection
  <2>3. spent' \in Spending /\ spent'.refused + spent'.faults <= MaxFaults
    BY <1>1, <1>14, SpendTyped DEF AddOrUpdateConnection
  <2>4. QED
    BY <1>1, <1>14, <2>2, <2>3 DEF AddOrUpdateConnection, Typed
<1>15. ASSUME NEW u \in write.todo, write # Idle, AddOrUpdateFails(u)
       PROVE  Typed'
  <2>1. Writing
    BY <1>15
  <2>2. ASSUME RollbackCheckpoint
        PROVE  signals' \in Seq(Signals)
    <3>1. PICK order \in [1 .. Cardinality(Readded) -> Readded] :
            signals' = signals \o [k \in DOMAIN order |->
                                     [signal |-> "added", uuid |-> order[k]]]
      BY <2>2 DEF RollbackCheckpoint
    <3>2. Readded \subseteq Uuids /\ IsFiniteSet(Readded)
      BY <2>1, FS_Subset DEF Readded, Writing, IsSystem
    <3>3. Cardinality(Readded) \in Nat
      BY <3>2, FS_CardinalityType
    <3> DEFINE more == [k \in DOMAIN order |-> [signal |-> "added", uuid |-> order[k]]]
    <3>4. more \in Seq(Signals)
      <4>1. \A k \in DOMAIN order : more[k] \in Signals
        BY <3>2 DEF Signals
      <4>2. DOMAIN more = 1 .. Cardinality(Readded)
        OBVIOUS
      <4>3. more = [k \in DOMAIN more |-> more[k]]
        OBVIOUS
      <4> HIDE DEF more
      <4>4. more \in [1 .. Cardinality(Readded) -> Signals]
        BY <4>1, <4>2, <4>3
      <4>5. QED
        BY <3>3, <4>4
    <3> HIDE DEF more
    <3>5. QED
      BY <1>1, <3>1, <3>4 DEF more
  <2>3. signals' \in Seq(Signals)
    BY <1>1, <1>15, <2>2 DEF AddOrUpdateFails, RollbackFails
  <2>4. client' \in [Clients -> {"idle", "updating", "updated", "applying"}]
    BY <1>15, <2>1, AnswerTyped DEF AddOrUpdateFails, AnswerEnd, Writing
  <2>5. spent' \in Spending /\ spent'.refused + spent'.faults <= MaxFaults
    <3>1. FaultLeft /\ (Spend("faults") \/ Spend("refused"))
      BY <1>15 DEF AddOrUpdateFails, RollbackCheckpoint, RollbackFails
    <3>2. QED
      BY <3>1, SpendTyped
  <2>6. QED
    BY <1>1, <1>15, <2>3, <2>4, <2>5 DEF AddOrUpdateFails, Typed
<1>16. CASE write # Idle /\ FinishApply
  <2>1. client' \in [Clients -> {"idle", "updating", "updated", "applying"}]
    BY <1>16, AnswerTyped DEF FinishApply, AnswerEnd, Writing
  <2>2. dirty' \in BOOLEAN
    BY <1>16 DEF FinishApply, SyncFromSystem
  <2>3. QED
    BY <1>1, <1>16, <2>1, <2>2 DEF FinishApply, Typed
<1>17. CASE write # Idle /\ FinishApplyFails
  <2>1. client' \in [Clients -> {"idle", "updating", "updated", "applying"}]
    BY <1>17, AnswerTyped DEF FinishApplyFails, AnswerEnd, Writing
  <2>2. spent' \in Spending /\ spent'.refused + spent'.faults <= MaxFaults
    BY <1>17, SpendTyped DEF FinishApplyFails
  <2>3. QED
    BY <1>1, <1>17, <2>1, <2>2 DEF FinishApplyFails, Typed
<1>18. CASE ExternalAdd
  <2>1. [signal |-> "added", uuid |-> NewUuid] \in Signals
    BY NewUuidIsNew DEF Signals
  <2>2. signals' \in Seq(Signals)
    BY <1>1, <1>18, <2>1 DEF ExternalAdd
  <2>3. spent' \in Spending /\ spent'.refused + spent'.faults <= MaxFaults
    BY <1>18, SpendTyped DEF ExternalAdd
  <2>4. QED
    BY <1>1, <1>18, <2>2, <2>3 DEF ExternalAdd, Typed
<1>19. CASE ExternalRemove
  <2>1. PICK u \in DOMAIN nm : signals' = Append(signals, [signal |-> "removed", uuid |-> u])
    BY <1>19 DEF ExternalRemove
  <2>2. [signal |-> "removed", uuid |-> u] \in Signals
    BY DEF Signals, Connections, IsSystem
  <2>3. signals' \in Seq(Signals)
    BY <1>1, <2>1, <2>2
  <2>4. spent' \in Spending /\ spent'.refused + spent'.faults <= MaxFaults
    BY <1>19, SpendTyped DEF ExternalRemove
  <2>5. QED
    BY <1>1, <1>19, <2>3, <2>4 DEF ExternalRemove, Typed
<1>20. CASE Dispatch
  <2> DEFINE u == Head(signals).uuid
             new == [action |-> "new", id |-> nm[u].id]
             remove == [action |-> "remove", uuid |-> u]
  <2>1. Head(signals) \in Signals /\ signals' \in Seq(Signals)
    BY <1>1, <1>20 DEF Dispatch
  <2>2. u \in Uuids
    BY <2>1 DEF Signals
  <2>3. u \in Readable(nm) => new \in Actions
    BY DEF Readable, Actions, Connections, IsSystem, IsInSystem
  <2>4. remove \in Actions
    BY <2>2 DEF Actions
  <2>5. IsFiniteSet(known \cup {u}) /\ IsFiniteSet(known \ {u})
    BY <1>1, FS_AddElement, FS_RemoveElement
  <2>6. \/ u \in Readable(nm) /\ known' = known \cup {u} /\ queue' = Append(queue, new)
        \/ known' = known \ {u} /\ queue' = Append(queue, remove)
        \/ UNCHANGED <<known, queue>>
    BY <1>20 DEF Dispatch
  <2> HIDE DEF u, new, remove
  <2>7. queue' \in Seq(Actions)
    <3>1. \/ queue' = queue
          \/ \E a \in Actions : queue' = Append(queue, a)
      BY <2>3, <2>4, <2>6
    <3>2. QED
      BY <1>1, <3>1
  <2>8. IsFiniteSet(known') /\ known' \subseteq Uuids
    BY <1>1, <2>2, <2>5, <2>6
  <2>9. QED
    BY <1>1, <1>20, <2>1, <2>7, <2>8 DEF Dispatch, Typed
<1>21. write.phase = "writing" => write # Idle
  BY DEF Idle
<1>22. CASE WriteStep
  <2>1. CASE write # Idle
    <3>1. write.todo \subseteq Uuids
      BY <2>1 DEF Writing, Connections
    <3>2. QED
      BY <1>12, <1>13, <1>14, <1>15, <1>16, <1>17, <1>22, <2>1, <3>1 DEF WriteStep
  <2>2. CASE write = Idle
    BY <1>21, <1>22, <2>2 DEF WriteStep, FinishApply, FinishApplyFails
  <2>3. QED
    BY <2>1, <2>2
<1>23. QED
  BY <1>2, <1>3, <1>4, <1>5, <1>6, <1>7, <1>8, <1>9, <1>10, <1>11, <1>18, <1>19,
     <1>20, <1>22 DEF Next, Serve

------------------------------------------------------------------------------
(* The connections of the service and of NetworkManager.                   *)

IsGood(cs, sys) == IsSystem(sys) /\ PortsAreReadable(sys) /\ Agree(cs, sys)

LEMMA OverlayIsGood ==
  ASSUME NEW cs, NEW f, NEW g, IsGood(cs, f), IsGood(cs, g)
  PROVE  IsGood(cs, Overlay(f, g))
<1> DEFINE h == Overlay(f, g)
<1>1. /\ DOMAIN h = DOMAIN f \cup DOMAIN g
      /\ \A u \in DOMAIN h : \/ u \in DOMAIN g /\ h[u] = g[u]
                             \/ u \in DOMAIN f /\ h[u] = f[u]
  BY DEF Overlay
<1> HIDE DEF h
<1>2. IsFiniteSet(DOMAIN h)
  BY <1>1, FS_Union DEF IsGood, IsSystem
<1>3. IsSystem(h)
  BY <1>1, <1>2 DEF IsGood, IsSystem
<1>4. PortsAreReadable(h)
  BY <1>1 DEF IsGood, PortsAreReadable
<1>5. Agree(cs, h)
  BY <1>1 DEF IsGood, Agree
<1>6. QED
  BY <1>3, <1>4, <1>5 DEF IsGood, h

LEMMA OneIsGood ==
  ASSUME NEW cs, NEW u \in Uuids, NEW r, IsInSystem(r),
         r.id \in Bonds => IsReadable(r.hash),
         r.master # None => IsReadable(r.hash) /\ r.master \in Bonds,
         PlainPorts /\ r.master # None => r.id \notin Bonds,
         u \in DOMAIN cs => cs[u].id = r.id /\ IsReadable(r.hash)
  PROVE  IsGood(cs, [x \in {u} |-> r])
<1>1. IsFiniteSet({u})
  BY FS_Singleton
<1>2. QED
  BY <1>1 DEF IsGood, IsSystem, PortsAreReadable, Agree

LEMMA LessIsGood ==
  ASSUME NEW cs, NEW sys, IsGood(cs, sys), NEW S
  PROVE  IsGood(cs, Without(sys, S))
<1> DEFINE h == Without(sys, S)
<1>1. /\ DOMAIN h \subseteq DOMAIN sys
      /\ \A u \in DOMAIN h : h[u] = sys[u]
  BY DEF Without, Restrict
<1> HIDE DEF h
<1>2. IsFiniteSet(DOMAIN h)
  BY <1>1, FS_Subset DEF IsGood, IsSystem
<1>3. IsSystem(h)
  BY <1>1, <1>2 DEF IsGood, IsSystem
<1>4. PortsAreReadable(h) /\ Agree(cs, h)
  BY <1>1 DEF IsGood, PortsAreReadable, Agree
<1>5. QED
  BY <1>3, <1>4 DEF IsGood, h

(* The wanted connections, apart from what NetworkManager has.             *)
AreWanted(cs) ==
  /\ IsFiniteSet(DOMAIN cs) /\ DOMAIN cs \subseteq Uuids
  /\ \A u \in DOMAIN cs : IsWanted(cs[u])
  /\ ControllersAreBonds(cs)

ConnectionsNext(cs, sys) == AreWanted(cs) /\ IsGood(cs, sys)

LEMMA AlteredIsWanted ==
  ASSUME NEW cs, NEW ds, NEW sys, ConnectionsNext(cs, sys), Altered(cs, ds)
  PROVE  ConnectionsNext(ds, sys)
<1>1. None \notin DOMAIN cs
  BY NoneIsNoUuid DEF ConnectionsNext, AreWanted
<1>2. Agree(ds, sys) /\ ControllersAreBonds(ds)
  BY <1>1, AlteredStays DEF ConnectionsNext, IsGood, AreWanted
<1>3. QED
  BY <1>2 DEF ConnectionsNext, IsGood, AreWanted, Altered

LEMMA ReadIsGood ==
  ASSUME NEW cs, NEW sys, IsGood(cs, sys)
  PROVE  ConnectionsNext(ReadConnections(sys), sys)
  BY ReadIsWanted DEF ConnectionsNext, IsGood, AreWanted

(* A connection somebody else adds.                                        *)
LEMMA ForeignIsGood ==
  ASSUME IInv, NEW i \in Ids \ Bonds, NEW hash \in Foreign
  PROVE  LET r == [id |-> i, hash |-> hash, master |-> None, active |-> TRUE,
                   persistent |-> FALSE]
         IN  IsGood(conns, [x \in {NewUuid} |-> r])
<1> DEFINE r == [id |-> i, hash |-> hash, master |-> None, active |-> TRUE,
                 persistent |-> FALSE]
<1>1. IsInSystem(r)
  BY NetworkAssumption DEF IsInSystem
<1>2. r.id \notin Bonds /\ r.master = None
  OBVIOUS
<1>3. NewUuid \in Uuids /\ NewUuid \notin DOMAIN conns
  BY NewUuidIsNew
<1> HIDE DEF r
<1>4. IsGood(conns, [x \in {NewUuid} |-> r])
  BY <1>1, <1>2, <1>3, OneIsGood
<1>5. QED
  BY <1>4 DEF r

LEMMA WriteIsGood ==
  ASSUME IInv, NEW u \in DOMAIN conns, NEW active \in BOOLEAN
  PROVE  /\ IsGood(conns, [x \in {NewUuid} |-> WrittenAs(u, active)])
         /\ IsGood(conns, [x \in {u} |-> WrittenAs(u, active)])
<1> DEFINE w == WrittenAs(u, active)
<1>1. /\ IsInSystem(w) /\ IsReadable(w.hash) /\ w.id = conns[u].id
      /\ w.master # None => w.master \in Bonds
      /\ PlainPorts /\ w.master # None => w.id \notin Bonds
  BY WrittenIsInSystem
<1>2. NewUuid \in Uuids /\ NewUuid \notin DOMAIN conns /\ u \in Uuids
  BY NewUuidIsNew DEF IInv, Connections
<1> HIDE DEF w
<1>3. IsGood(conns, [x \in {NewUuid} |-> w]) /\ IsGood(conns, [x \in {u} |-> w])
  BY <1>1, <1>2, OneIsGood
<1>4. QED
  BY <1>3 DEF w

LEMMA ConnectionsStep ==
  ASSUME IInv, Next
  PROVE  Connections'
<1>1. ConnectionsNext(conns, nm)
  BY DEF IInv, Connections, ConnectionsNext, AreWanted, IsGood
<1>2. SUFFICES ConnectionsNext(conns', nm')
  <2>1. ConnectionsNext(conns', nm') => Connections'
    BY DEF Connections, ConnectionsNext, AreWanted, IsGood, IsSystem,
           PortsAreReadable, Agree, ControllersAreBonds
  <2>2. QED
    BY <2>1
<1>3. CASE UNCHANGED <<nm, conns>>
  BY <1>1, <1>3
<1>4. CASE UpdateState
  <2> DEFINE config == Head(queue).request
             S == ChangedConnections(config)
             cs == Overlay(conns, SanitizedCollection(config, S))
  <2>1. /\ config \in Configs /\ S \in SUBSET DOMAIN config
        /\ \A i \in S : config[i].set # Bad
        /\ conns' = SetPorts(cs, config, S) /\ nm' = nm
    BY <1>4 DEF UpdateState, ChangedConnections
  <2> HIDE DEF config, S
  <2>2. /\ IsFiniteSet(DOMAIN cs) /\ DOMAIN cs \subseteq Uuids
        /\ \A u \in DOMAIN cs : IsWanted(cs[u])
        /\ Agree(cs, nm) /\ ControllersAreBonds(cs)
    BY <2>1, OverlaidIsWanted
  <2> HIDE DEF cs
  <2>3. ConnectionsNext(cs, nm)
    BY <1>1, <2>2 DEF ConnectionsNext, AreWanted, IsGood
  <2>4. Altered(cs, conns')
    BY <2>1, <2>2, SetPortsAlters
  <2>5. QED
    BY <2>1, <2>3, <2>4, AlteredIsWanted
<1>5. CASE ProposeDefault
  <2>1. nm' = nm /\ (conns' = conns \/ conns' = ProposedDefault(conns))
    BY <1>5 DEF ProposeDefault
  <2>2. conns' # conns => Altered(conns, conns')
    BY <1>1, <2>1, ProposedAlters DEF ConnectionsNext, AreWanted
  <2>3. QED
    BY <1>1, <2>1, <2>2, AlteredIsWanted
<1>6. CASE SyncFromSystem /\ nm' = nm
  BY <1>1, <1>6, ReadIsGood DEF SyncFromSystem, ConnectionsNext
<1>7. CASE RemoveConnection
  <2>1. nm' = nm /\ (conns' = conns \/ \E u : conns' = Without(conns, {u}))
    BY <1>7 DEF RemoveConnection
  <2>2. /\ DOMAIN conns' \subseteq DOMAIN conns
        /\ \A u \in DOMAIN conns' : conns'[u] = conns[u]
    BY <2>1 DEF Without, Restrict
  <2>3. IsFiniteSet(DOMAIN conns')
    BY <1>1, <2>2, FS_Subset DEF ConnectionsNext, AreWanted
  <2>4. ControllersAreBonds(conns') /\ Agree(conns', nm)
    BY <1>1, <2>2 DEF ConnectionsNext, AreWanted, IsGood, ControllersAreBonds, Agree
  <2>5. QED
    BY <1>1, <2>1, <2>2, <2>3, <2>4 DEF ConnectionsNext, AreWanted, IsGood
<1>8. CASE conns' = conns /\ \E S : nm' = Without(nm, S)
  BY <1>1, <1>8, LessIsGood DEF ConnectionsNext
<1>9. ASSUME NEW u \in DOMAIN conns, AddOrUpdateConnection(u)
      PROVE  ConnectionsNext(conns', nm')
  <2>1. PICK active \in {MadeActive(u), WasActive(u)} :
          IF u \in DOMAIN nm
          THEN nm' = [nm EXCEPT ![u] = WrittenAs(u, active)]
          ELSE nm' = Overlay(nm, [x \in {NewUuid} |-> WrittenAs(u, active)])
    BY <1>9 DEF AddOrUpdateConnection
  <2>2. active \in BOOLEAN
    <3>1. u \in DOMAIN nm => nm[u].active \in BOOLEAN
      BY DEF IInv, Connections, IsSystem, IsInSystem
    <3>2. QED
      BY <3>1 DEF MadeActive, WasActive
  <2>3. nm' = Overlay(nm, [x \in {u} |-> WrittenAs(u, active)])
        \/ nm' = Overlay(nm, [x \in {NewUuid} |-> WrittenAs(u, active)])
    <3> DEFINE w == WrittenAs(u, active)
    <3> HIDE DEF w
    <3>1. u \in DOMAIN nm => [nm EXCEPT ![u] = w] = Overlay(nm, [x \in {u} |-> w])
      BY DEF Overlay
    <3>2. QED
      BY <2>1, <3>1 DEF w
  <2>4. IsGood(conns, nm')
    BY <1>1, <2>2, <2>3, WriteIsGood, OverlayIsGood DEF ConnectionsNext
  <2>5. conns' = conns
    BY <1>9 DEF AddOrUpdateConnection
  <2>6. QED
    BY <1>1, <2>4, <2>5 DEF ConnectionsNext
<1>10. CASE write # Idle /\ nm' = RolledBack /\ conns' = conns
  <2>1. IsGood(conns, write.saved)
    BY <1>10 DEF IInv, Writing, IsGood, Idle
  <2>2. IsGood(conns, nm')
    BY <1>1, <1>10, <2>1, OverlayIsGood DEF RolledBack, ConnectionsNext
  <2>3. QED
    BY <1>1, <1>10, <2>2 DEF ConnectionsNext
<1>11. CASE ExternalAdd
  <2>1. PICK i \in Ids \ Bonds, hash \in Foreign :
          nm' = Overlay(nm, [x \in {NewUuid} |->
                  [id |-> i, hash |-> hash, master |-> None, active |-> TRUE,
                   persistent |-> FALSE]])
    BY <1>11 DEF ExternalAdd
  <2>2. IsGood(conns, nm')
    BY <1>1, <2>1, ForeignIsGood, OverlayIsGood DEF ConnectionsNext
  <2>3. conns' = conns
    BY <1>11 DEF ExternalAdd
  <2>4. QED
    BY <1>1, <2>2, <2>3 DEF ConnectionsNext
<1>12. CASE ExternalRemove
  BY <1>8, <1>12 DEF ExternalRemove
<1>13. CASE NewConnection
  BY <1>3, <1>6, <1>13 DEF NewConnection
<1>14. CASE WriteStep
  <2>1. write # Idle
    <3>1. write.phase = "writing" => write # Idle
      BY DEF Idle
    <3>2. QED
      BY <1>14, <3>1 DEF WriteStep, FinishApply, FinishApplyFails
  <2>2. write.todo \subseteq DOMAIN conns
    BY <2>1 DEF IInv, Writing
  <2>3. ASSUME NEW u \in write.todo,
               SkipConnection(u) \/ DeleteConnection(u)
                 \/ AddOrUpdateConnection(u) \/ AddOrUpdateFails(u)
        PROVE  ConnectionsNext(conns', nm')
    <3>1. CASE SkipConnection(u)
      BY <1>3, <3>1 DEF SkipConnection
    <3>2. CASE DeleteConnection(u)
      BY <1>3, <1>8, <3>2 DEF DeleteConnection
    <3>3. CASE AddOrUpdateConnection(u)
      BY <1>9, <2>2, <3>3
    <3>4. CASE AddOrUpdateFails(u)
      BY <1>3, <1>10, <2>1, <3>4 DEF AddOrUpdateFails, RollbackCheckpoint, RollbackFails
    <3>5. QED
      BY <2>3, <3>1, <3>2, <3>3, <3>4
  <2>4. CASE FinishApply
    BY <1>6, <2>4 DEF FinishApply
  <2>5. CASE FinishApplyFails
    BY <1>3, <2>5 DEF FinishApplyFails
  <2>6. QED
    BY <1>14, <2>3, <2>4, <2>5 DEF WriteStep
<1>15. CASE \E c \in Clients : SendUpdate(c) \/ SendApply(c)
  BY <1>3, <1>15 DEF SendUpdate, SendApply
<1>16. CASE UpdateSame \/ UpdateRejected \/ StartWrite \/ StartWriteFails \/ Dispatch
  BY <1>3, <1>16 DEF UpdateSame, UpdateRejected, StartWrite, StartWriteFails, Dispatch
<1>17. QED
  BY <1>4, <1>5, <1>7, <1>11, <1>12, <1>13, <1>14, <1>15, <1>16 DEF Next, Serve

------------------------------------------------------------------------------
(* The write.                                                              *)

LEMMA DoneKeeps ==
  ASSUME Writing, NEW u, Done(u)
  PROVE  /\ write' = [phase |-> "writing", by |-> write.by, old |-> write.old,
                      saved |-> write.saved, todo |-> write.todo \ {u},
                      since |-> write.since]
         /\ write'.by = write.by /\ write'.old = write.old
         /\ write'.saved = write.saved /\ write'.todo = write.todo \ {u}
         /\ write'.since = write.since /\ write' # Idle /\ write # Idle
  BY DEF Writing, Done, Idle

LEMMA WritingIsNotIdle ==
  ASSUME Writing
  PROVE  write # Idle
  BY DEF Writing, Idle

(* The counters only grow.                                                 *)
LEMMA SpentGrows ==
  ASSUME IInv, Next
  PROVE  /\ spent.external <= spent'.external
         /\ spent.refused <= spent'.refused
<1>1. spent \in Spending /\ Typed
  BY DEF IInv, Typed
<1>2. /\ spent.external \in Nat /\ spent.refused \in Nat
  BY <1>1 DEF Spending
<1>3. CASE UNCHANGED spent
  BY <1>2, <1>3
<1>4. ASSUME NEW what \in {"requests", "faults", "external", "refused"}, Spend(what)
      PROVE  /\ spent.external <= spent'.external
             /\ spent.refused <= spent'.refused
  <2>1. spent \in [requests : Nat, external : Nat, faults : Nat, refused : Nat]
    BY <1>1 DEF Spending
  <2>2. spent' = [spent EXCEPT ![what] = @ + 1]
    BY <1>4 DEF Spend
  <2>3. CASE what = "requests"
    BY <2>1, <2>2, <2>3
  <2>4. CASE what = "faults"
    BY <2>1, <2>2, <2>4
  <2>5. CASE what = "external"
    BY <2>1, <2>2, <2>5
  <2>6. CASE what = "refused"
    BY <2>1, <2>2, <2>6
  <2>7. QED
    BY <2>3, <2>4, <2>5, <2>6
<1>5. UNCHANGED spent
        \/ \E what \in {"requests", "faults", "external", "refused"} : Spend(what)
  BY DEF Next, SendUpdate, SendApply, Serve, UpdateSame, UpdateRejected, UpdateState,
         ProposeDefault, NewConnection, RemoveConnection, StartWrite, StartWriteFails,
         WriteStep, SkipConnection, DeleteConnection, AddOrUpdateConnection,
         AddOrUpdateFails, RollbackCheckpoint, RollbackFails, FinishApply,
         FinishApplyFails, ExternalAdd, ExternalRemove, Dispatch
<1>6. QED
  BY <1>3, <1>4, <1>5

(* What is known of the write only changes as it goes on.                  *)
LEMMA WritingStep ==
  ASSUME IInv, Next
  PROVE  (write = Idle \/ Writing)'
<1>1. /\ spent.external <= spent'.external
      /\ spent.refused <= spent'.refused
  BY SpentGrows
<1>2. /\ spent \in Spending /\ spent' \in Spending
  BY TypedStep DEF IInv, Typed
<1>3. /\ spent.external \in Nat /\ spent.refused \in Nat
       /\ spent'.external \in Nat /\ spent'.refused \in Nat
  BY <1>2 DEF Spending
<1>4. CASE write' = Idle
  BY <1>4
<1>5. CASE Writing /\ conns' = conns /\ write' = write
  <2>1. write.since.external \in Nat /\ write.since.refused \in Nat
    BY <1>5 DEF Writing, Spending
  <2>2. /\ write.since.external <= spent'.external
        /\ write.since.refused <= spent'.refused
    BY <1>1, <1>5, <1>3, <2>1 DEF Writing
  <2>3. QED
    BY <1>5, <2>2 DEF Writing
<1>6. ASSUME Writing, NEW u, conns' = conns, Done(u)
      PROVE  Writing'
  <2>1. write.since.external \in Nat /\ write.since.refused \in Nat
    BY <1>6 DEF Writing, Spending
  <2>2. /\ write.since.external <= spent'.external
        /\ write.since.refused <= spent'.refused
    BY <1>1, <1>6, <1>3, <2>1 DEF Writing
  <2>3. QED
    BY <1>6, <2>2, DoneKeeps DEF Writing
<1>7. CASE StartWrite
  <2>1. Head(queue).by \in Clients
    BY <1>7, ServesTyped, ActionTyped DEF StartWrite, IInv
  <2>2. IsSystem(nm) /\ PortsAreReadable(nm) /\ Agree(conns, nm)
    BY DEF IInv, Connections
  <2>3. write' = [phase |-> "writing", by |-> Head(queue).by,
                  old |-> ReadConnections(nm), saved |-> nm,
                  todo |-> DOMAIN conns, since |-> spent]
        /\ conns' = conns /\ spent' = spent
    BY <1>7 DEF StartWrite
  <2>4. QED
    BY <1>2, <1>3, <2>1, <2>2, <2>3 DEF Writing
<1>8. \/ write' = Idle
      \/ conns' = conns /\ write' = write
      \/ conns' = conns /\ \E u : Done(u)
      \/ StartWrite
  BY DEF Next, SendUpdate, SendApply, Serve, Serves, UpdateSame, UpdateRejected, UpdateState,
         ProposeDefault, NewConnection, RemoveConnection, StartWriteFails,
         WriteStep, SkipConnection, DeleteConnection, AddOrUpdateConnection,
         AddOrUpdateFails, FinishApply, FinishApplyFails, ExternalAdd,
         ExternalRemove, Dispatch
<1>9. CASE write = Idle
  <2>1. ~ WriteStep
    BY <1>9 DEF WriteStep, FinishApply, FinishApplyFails, Idle
  <2>2. write' = Idle \/ StartWrite
    BY <1>9, <2>1 DEF Next, SendUpdate, SendApply, Serve, UpdateSame, UpdateRejected, UpdateState,
         ProposeDefault, NewConnection, RemoveConnection, StartWriteFails,
         ExternalAdd, ExternalRemove, Dispatch
  <2>3. QED
    BY <1>7, <2>2
<1>10. QED
  BY <1>4, <1>5, <1>6, <1>7, <1>8, <1>9 DEF IInv
(* What is wanted and what was read stay the same during a write.          *)
LEMMA WantedStays ==
  ASSUME conns' = conns, write'.old = write.old, write'.saved = write.saved
  PROVE  /\ \A u : /\ WantedController(u)' = WantedController(u)
                   /\ MasterFor(u)' = MasterFor(u)
                   /\ IsRemoved(u)' <=> IsRemoved(u)
                   /\ Unchanged(u)' <=> Unchanged(u)
  BY DEF WantedController, MasterFor, IsRemoved, Unchanged

(* A connection is taken, and what NetworkManager has afterwards is what   *)
(* was there or what was written for it.                                   *)
LEMMA WrittenGoesOn ==
  ASSUME Writing, Written, conns' = conns,
         NEW u \in write.todo, MayBeNext(u), Done(u),
         \A v \in DOMAIN nm' :
           \/ /\ v \in DOMAIN nm /\ nm'[v] = nm[v]
              /\ v = u => Unchanged(u)
           \/ /\ ~ IsRemoved(u) /\ nm'[v].id = conns[u].id
              /\ v = u \/ v \notin DOMAIN conns \cup DOMAIN write.saved
              /\ nm'[v].master = MasterFor(u),
         \A v \in DOMAIN nm :
           \/ v \in DOMAIN nm' /\ nm'[v].id = nm[v].id
           \/ v = u /\ IsRemoved(u),
         ~ IsRemoved(u) => \E v \in DOMAIN nm' :
                             /\ nm'[v].id = conns[u].id
                             /\ v = u \/ v \notin DOMAIN conns \cup DOMAIN write.saved
  PROVE  Written'
<1>1. /\ write'.old = write.old /\ write'.saved = write.saved
      /\ write'.todo = write.todo \ {u}
  BY DoneKeeps
<1>2. /\ u \in DOMAIN conns
      /\ WantedController(u) # None => WantedController(u) \notin write.todo
  BY DEF Writing, MayBeNext
<1>3. \A x : /\ WantedController(x)' = WantedController(x)
             /\ MasterFor(x)' = MasterFor(x)
             /\ IsRemoved(x)' <=> IsRemoved(x)
             /\ Unchanged(x)' <=> Unchanged(x)
  BY <1>1, WantedStays
<1>4. ASSUME NEW v \in DOMAIN nm'
      PROVE  \/ IsAsItWas(v)'
             \/ \E x \in DOMAIN conns' \ write'.todo : IsWrittenFor(v, x)'
  <2>1. CASE v \in DOMAIN nm /\ nm'[v] = nm[v] /\ (v = u => Unchanged(u))
    <3>1. CASE IsAsItWas(v)
      <4>1. IsAsItWas(v)'
        BY <1>1, <1>3, <2>1, <3>1 DEF IsAsItWas
      <4>2. QED
        BY <4>1
    <3>2. ASSUME NEW x \in DOMAIN conns \ write.todo, IsWrittenFor(v, x)
          PROVE  IsWrittenFor(v, x)'
      BY <1>1, <1>3, <2>1, <3>2 DEF IsWrittenFor, Stands
    <3>3. \A x \in DOMAIN conns \ write.todo : x \in DOMAIN conns' \ write'.todo
      BY <1>1
    <3>4. QED
      BY <2>1, <3>1, <3>2, <3>3 DEF Written
  <2>2. CASE /\ ~ IsRemoved(u) /\ nm'[v].id = conns[u].id
             /\ v = u \/ v \notin DOMAIN conns \cup DOMAIN write.saved
             /\ nm'[v].master = MasterFor(u)
    <3>1. IsWrittenFor(v, u)'
      BY <1>1, <1>2, <1>3, <2>2 DEF IsWrittenFor, Stands
    <3>2. u \in DOMAIN conns' \ write'.todo
      BY <1>1, <1>2
    <3>3. QED
      BY <3>1, <3>2
  <2>3. QED
    BY <2>1, <2>2
<1>5. ASSUME NEW x \in DOMAIN conns' \ write'.todo, ~ IsRemoved(x)'
      PROVE  \E v \in DOMAIN nm' : Stands(x, v)'
  <2>1. ~ IsRemoved(x) /\ x \in DOMAIN conns /\ (x = u \/ x \notin write.todo)
    BY <1>1, <1>3, <1>5
  <2>2. CASE x = u
    <3>1. PICK v \in DOMAIN nm' :
            /\ nm'[v].id = conns[u].id
            /\ v = u \/ v \notin DOMAIN conns \cup DOMAIN write.saved
      BY <2>1, <2>2
    <3>2. Stands(x, v)'
      BY <1>1, <2>2, <3>1 DEF Stands
    <3>3. QED
      BY <3>2
  <2>3. CASE x # u
    <3>1. PICK v \in DOMAIN nm : Stands(x, v)
      BY <2>1, <2>3 DEF Written
    <3>2. v # u
      BY <1>2, <2>3, <3>1 DEF Stands
    <3>3. v \in DOMAIN nm' /\ nm'[v].id = nm[v].id
      BY <3>2
    <3>4. Stands(x, v)'
      BY <1>1, <3>1, <3>3 DEF Stands
    <3>5. QED
      BY <3>3, <3>4
  <2>4. QED
    BY <2>2, <2>3
<1>6. \A v \in DOMAIN write'.saved : v \in (DOMAIN conns' \ write'.todo) \cup DOMAIN nm'
  BY <1>1, <1>2 DEF Written
<1>7. QED
  BY <1>4, <1>5, <1>6 DEF Written

(* A step of a write that nobody disturbs.                                 *)
LEMMA TakeStep ==
  ASSUME IInv, Writing, Written, NEW u \in write.todo,
         SkipConnection(u) \/ DeleteConnection(u) \/ AddOrUpdateConnection(u),
         IsUndisturbed'
  PROVE  Written'
<1>1. /\ u \in DOMAIN conns /\ conns' = conns /\ MayBeNext(u) /\ Done(u)
      /\ write.old = ReadConnections(write.saved)
      /\ Agree(conns, nm) /\ Agree(conns, write.saved)
  BY DEF SkipConnection, DeleteConnection, AddOrUpdateConnection, Writing, IInv, Connections
<1>2. /\ NewUuid \notin DOMAIN conns \cup DOMAIN nm
      /\ write # Idle => NewUuid \notin DOMAIN write.saved
  BY NewUuidIsNew
<1>3. write # Idle
  BY WritingIsNotIdle
<1>4. CASE SkipConnection(u)
  <2>1. nm' = nm /\ Unchanged(u)
    BY <1>4 DEF SkipConnection
  <2>2. ~ IsRemoved(u) => u \in DOMAIN write.saved
    BY <1>1, <2>1 DEF Unchanged, ReadConnections, Readable
  <2>3. ~ IsRemoved(u) => u \in DOMAIN nm /\ nm[u].id = conns[u].id
    BY <1>1, <2>2 DEF Written, Agree
  <2>4. QED
    BY <1>1, <2>1, <2>3, WrittenGoesOn
<1>5. CASE DeleteConnection(u)
  <2>1. IsRemoved(u)
    BY <1>5 DEF DeleteConnection
  <2>2. CASE nm' = Without(nm, {u})
    <3>1. /\ DOMAIN nm' = DOMAIN nm \ {u}
          /\ \A v \in DOMAIN nm' : nm'[v] = nm[v]
      BY <2>2 DEF Without, Restrict
    <3>2. QED
      BY <1>1, <2>1, <3>1, WrittenGoesOn
  <2>3. CASE Spend("refused")
    <3>1. /\ spent \in [requests : Nat, external : Nat, faults : Nat, refused : Nat]
          /\ write.since.refused <= spent.refused
          /\ write.since.refused \in Nat
      BY DEF IInv, Typed, Writing, Spending
    <3>2. spent'.refused = spent.refused + 1
      BY <2>3, <3>1 DEF Spend
    <3>3. write'.since = write.since
      BY <1>1, DoneKeeps
    <3>4. QED
      BY <3>1, <3>2, <3>3 DEF IsUndisturbed
  <2>4. CASE u \notin DOMAIN nm /\ nm' = nm
    BY <1>1, <2>1, <2>4, WrittenGoesOn
  <2>5. QED
    BY <1>5, <2>2, <2>3, <2>4 DEF DeleteConnection
<1>6. CASE AddOrUpdateConnection(u)
  <2>1. PICK active \in {MadeActive(u), WasActive(u)} :
          IF u \in DOMAIN nm
          THEN nm' = [nm EXCEPT ![u] = WrittenAs(u, active)]
          ELSE nm' = Overlay(nm, [x \in {NewUuid} |-> WrittenAs(u, active)])
    BY <1>6 DEF AddOrUpdateConnection
  <2>2. ~ IsRemoved(u)
    BY <1>6 DEF AddOrUpdateConnection
  <2> DEFINE w == WrittenAs(u, active)
  <2>3. w.id = conns[u].id /\ w.master = MasterFor(u)
    BY DEF WrittenAs, MasterFor
  <2> HIDE DEF w
  <2>4. CASE u \in DOMAIN nm
    <3>1. nm' = [nm EXCEPT ![u] = w] /\ nm[u].id = conns[u].id
      BY <1>1, <2>1, <2>4 DEF w, Agree
    <3>2. /\ DOMAIN nm' = DOMAIN nm /\ nm'[u] = w
          /\ \A v \in DOMAIN nm : v # u => nm'[v] = nm[v]
      BY <2>4, <3>1
    <3>3. QED
      BY <1>1, <2>2, <2>3, <2>4, <3>1, <3>2, WrittenGoesOn
  <2>5. CASE u \notin DOMAIN nm
    <3>1. nm' = Overlay(nm, [x \in {NewUuid} |-> w])
      BY <2>1, <2>5 DEF w
    <3>2. /\ DOMAIN nm' = DOMAIN nm \cup {NewUuid} /\ nm'[NewUuid] = w
          /\ \A v \in DOMAIN nm : nm'[v] = nm[v]
      BY <1>2, <3>1 DEF Overlay
    <3>3. QED
      BY <1>1, <1>2, <1>3, <2>2, <2>3, <2>5, <3>2, WrittenGoesOn
  <2>6. QED
    BY <2>4, <2>5
<1>7. QED
  BY <1>4, <1>5, <1>6

LEMMA WrittenStep ==
  ASSUME IInv, Next, (write # Idle)', IsUndisturbed'
  PROVE  Written'
<1>1. CASE write = Idle
  <2>1. StartWrite
    <3>1. ~ WriteStep
      BY <1>1 DEF WriteStep, FinishApply, FinishApplyFails, Idle
    <3>2. QED
      BY <1>1, <3>1 DEF Next, SendUpdate, SendApply, Serve, UpdateSame, UpdateRejected,
           UpdateState, ProposeDefault, NewConnection, RemoveConnection,
           StartWriteFails, ExternalAdd, ExternalRemove, Dispatch
  <2>2. /\ write'.saved = nm /\ write'.todo = DOMAIN conns
        /\ conns' = conns /\ nm' = nm
    BY <2>1 DEF StartWrite
  <2>3. \A v \in DOMAIN nm' : IsAsItWas(v)'
    BY <2>2 DEF IsAsItWas
  <2>4. QED
    BY <2>2, <2>3 DEF Written
<1>2. CASE write # Idle
  <2>1. Writing
    BY <1>2 DEF IInv
  <2>2. /\ write.since.external \in Nat /\ write.since.refused \in Nat
        /\ spent.external \in Nat /\ spent.refused \in Nat
        /\ write.since.external <= spent.external
        /\ write.since.refused <= spent.refused
    BY <2>1 DEF IInv, Typed, Writing, Spending
  <2>3. /\ spent.external <= spent'.external
        /\ spent.refused <= spent'.refused
    BY SpentGrows
  <2>4. spent'.external \in Nat /\ spent'.refused \in Nat
    BY TypedStep DEF IInv, Typed, Spending
  <2>5. ASSUME write'.since = write.since
        PROVE  Written
    BY <1>2, <2>2, <2>3, <2>4, <2>5 DEF IInv, IsUndisturbed
  <2>6. CASE write' = write /\ conns' = conns /\ nm' = nm
    <3>1. \A x : /\ WantedController(x)' = WantedController(x)
                 /\ MasterFor(x)' = MasterFor(x)
                 /\ IsRemoved(x)' <=> IsRemoved(x)
                 /\ Unchanged(x)' <=> Unchanged(x)
      BY <2>6, WantedStays
    <3>2. Written
      BY <2>5, <2>6
    <3>3. QED
      BY <2>6, <3>1, <3>2 DEF Written, IsAsItWas, IsWrittenFor, Stands
  <2>7. CASE write' = write /\ Spend("external")
    <3>1. spent \in [requests : Nat, external : Nat, faults : Nat, refused : Nat]
      BY DEF IInv, Typed, Spending
    <3>2. spent'.external = spent.external + 1
      BY <2>7, <3>1 DEF Spend
    <3>3. QED
      BY <2>2, <2>7, <3>2 DEF IsUndisturbed
  <2>8. ASSUME NEW u \in write.todo,
               SkipConnection(u) \/ DeleteConnection(u) \/ AddOrUpdateConnection(u)
        PROVE  Written'
    <3>1. Done(u)
      BY <2>8 DEF SkipConnection, DeleteConnection, AddOrUpdateConnection
    <3>2. write'.since = write.since
      BY <2>1, <3>1, DoneKeeps
    <3>3. QED
      BY <2>1, <2>5, <2>8, <3>2, TakeStep
  <2>9. \/ write' = write /\ conns' = conns /\ nm' = nm
        \/ write' = write /\ Spend("external")
        \/ \E u \in write.todo :
             SkipConnection(u) \/ DeleteConnection(u) \/ AddOrUpdateConnection(u)
    BY <1>2 DEF Next, SendUpdate, SendApply, Serve, Serves, UpdateSame, UpdateRejected,
         UpdateState, ProposeDefault, NewConnection, RemoveConnection, StartWrite,
         StartWriteFails, WriteStep, AddOrUpdateFails, FinishApply, FinishApplyFails,
         ExternalAdd, ExternalRemove, Dispatch
  <2>10. QED
    BY <2>6, <2>7, <2>8, <2>9
<1>3. QED
  BY <1>1, <1>2
------------------------------------------------------------------------------
(* What is still to be handled.                                            *)

(* The positions of a sequence without its first element.                  *)
LEMMA TailPositions ==
  ASSUME NEW X, NEW s \in Seq(X), s # <<>>
  PROVE  /\ \A j \in DOMAIN Tail(s) : j + 1 \in DOMAIN s /\ Tail(s)[j] = s[j + 1]
         /\ \A k \in DOMAIN s :
              \/ k = 1 /\ s[k] = Head(s)
              \/ k - 1 \in DOMAIN Tail(s) /\ Tail(s)[k - 1] = s[k]
         /\ DOMAIN s \subseteq Nat /\ DOMAIN Tail(s) \subseteq Nat
         /\ 1 \in DOMAIN s /\ s[1] = Head(s)
<1>1. Len(s) \in Nat /\ Len(s) > 0 /\ DOMAIN s = 1 .. Len(s)
  OBVIOUS
<1>2. /\ DOMAIN Tail(s) = 1 .. (Len(s) - 1)
      /\ \A j \in 1 .. (Len(s) - 1) : Tail(s)[j] = s[j + 1]
  BY <1>1
<1>3. QED
  BY <1>1, <1>2

LEMMA AppendPositions ==
  ASSUME NEW X, NEW s \in Seq(X), NEW e, NEW t, t = Append(s, e)
  PROVE  /\ \A k \in DOMAIN s : k \in DOMAIN t /\ t[k] = s[k]
         /\ Len(s) + 1 \in DOMAIN t /\ t[Len(s) + 1] = e
         /\ \A k \in DOMAIN t : t[k] = e \/ (k \in DOMAIN s /\ t[k] = s[k])
         /\ \A k \in DOMAIN t : k > Len(s) + 1 => FALSE
         /\ DOMAIN t \subseteq Nat
<1>1. Len(s) \in Nat /\ DOMAIN s = 1 .. Len(s)
  OBVIOUS
<1>2. /\ DOMAIN t = 1 .. (Len(s) + 1)
      /\ \A k \in DOMAIN t : t[k] = IF k <= Len(s) THEN s[k] ELSE e
  BY <1>1
<1>3. QED
  BY <1>1, <1>2

(* A queue stays, or its first element is taken or another one added, each *)
(* under a condition.                                                      *)
Goes(X, s, t, mayTake, e, mayAdd) ==
  /\ s \in Seq(X)
  /\ \/ t = s
     \/ s # <<>> /\ t = Tail(s) /\ mayTake
     \/ t = Append(s, e) /\ mayAdd

(* No removal is new but the one that is added.                            *)
LEMMA RemovalsGo ==
  ASSUME NEW a, NEW b, NEW T,
         Goes(Actions, queue, queue', TRUE, a,
              a.action = "remove" => a.uuid \in T),
         Goes(Signals, signals, signals', TRUE, b,
              b.signal = "removed" => b.uuid \in T)
  PROVE  Removals' \subseteq Removals \cup T
<1>1. ASSUME NEW k \in DOMAIN queue', queue'[k].action = "remove"
      PROVE  queue'[k].uuid \in Removals \cup T
  <2>1. \/ \E j \in DOMAIN queue : queue'[k] = queue[j]
        \/ queue'[k] = a /\ (a.action = "remove" => a.uuid \in T)
    <3>1. CASE queue' = queue
      BY <3>1
    <3>2. CASE queue # <<>> /\ queue' = Tail(queue)
      BY <3>2, TailPositions DEF Goes
    <3>3. CASE queue' = Append(queue, a) /\ (a.action = "remove" => a.uuid \in T)
      BY <3>3, AppendPositions DEF Goes
    <3>4. QED
      BY <3>1, <3>2, <3>3 DEF Goes
  <2>2. QED
    BY <1>1, <2>1 DEF Removals
<1>2. ASSUME NEW k \in DOMAIN signals', signals'[k].signal = "removed"
      PROVE  signals'[k].uuid \in Removals \cup T
  <2>1. \/ \E j \in DOMAIN signals : signals'[k] = signals[j]
        \/ signals'[k] = b /\ (b.signal = "removed" => b.uuid \in T)
    <3>1. CASE signals' = signals
      BY <3>1
    <3>2. CASE signals # <<>> /\ signals' = Tail(signals)
      BY <3>2, TailPositions DEF Goes
    <3>3. CASE signals' = Append(signals, b) /\ (b.signal = "removed" => b.uuid \in T)
      BY <3>3, AppendPositions DEF Goes
    <3>4. QED
      BY <3>1, <3>2, <3>3 DEF Goes
  <2>2. QED
    BY <1>2, <2>1 DEF Removals
<1>3. QED
  BY <1>1, <1>2 DEF Removals

(* An announcement in the queue stays until it is handled; if it is        *)
(* skipped, the connection is known.                                       *)
LEMMA StaysToBeRead ==
  ASSUME NEW i, ToBeRead(i), NEW a,
         Goes(Actions, queue, queue',
              Head(queue).action = "new" /\ Head(queue).id = i => \E x : Names(x, i),
              a, a.action = "remove" => ~ Names(a.uuid, i)),
         \A x : Names(x, i)' => Names(x, i),
         \A j \in DOMAIN signals' :
           signals'[j].signal = "removed" => ~ Names(signals'[j].uuid, i)
  PROVE  Knows(i) \/ ToBeRead(i)'
<1>1. PICK k \in DOMAIN queue :
        /\ queue[k].action = "new" /\ queue[k].id = i
        /\ \A j \in DOMAIN queue :
             j > k /\ queue[j].action = "remove" => ~ Names(queue[j].uuid, i)
        /\ \A j \in DOMAIN signals :
             signals[j].signal = "removed" => ~ Names(signals[j].uuid, i)
  BY DEF ToBeRead
<1>2. (\A j \in DOMAIN signals :
         signals[j].signal = "removed" => ~ Names(signals[j].uuid, i))'
  BY DEF Names
<1>3. CASE queue' = queue
  BY <1>1, <1>2, <1>3 DEF ToBeRead
<1>4. CASE /\ queue # <<>> /\ queue' = Tail(queue)
           /\ Head(queue).action = "new" /\ Head(queue).id = i => \E x : Names(x, i)
  <2>1. /\ \A j \in DOMAIN queue' : j + 1 \in DOMAIN queue /\ queue'[j] = queue[j + 1]
        /\ \/ k = 1 /\ queue[k] = Head(queue)
           \/ k - 1 \in DOMAIN queue' /\ queue'[k - 1] = queue[k]
        /\ DOMAIN queue \subseteq Nat /\ DOMAIN queue' \subseteq Nat
    BY <1>1, <1>4, TailPositions DEF Goes
  <2>2. ASSUME k = 1, queue[k] = Head(queue)
        PROVE  Knows(i)
    <3>1. PICK x : Names(x, i)
      BY <1>1, <1>4, <2>2
    <3>2. \A j \in DOMAIN queue : queue[j].action = "remove" => queue[j].uuid # x
      <4>1. \A j \in DOMAIN queue : j = k \/ j > k
        BY <1>4, <2>2, TailPositions DEF Goes
      <4>2. QED
        BY <1>1, <3>1, <4>1
    <3>3. x \notin Removals
      BY <1>1, <3>1, <3>2 DEF Removals
    <3>4. QED
      BY <3>1, <3>3 DEF Knows, Names
  <2>3. SUFFICES ASSUME k - 1 \in DOMAIN queue', queue'[k - 1] = queue[k]
        PROVE  ToBeRead(i)'
    BY <2>1, <2>2
  <2>4. \A j \in DOMAIN queue' :
          j > k - 1 /\ queue'[j].action = "remove" => ~ Names(queue'[j].uuid, i)
    <3>1. \A j \in DOMAIN queue' : j > k - 1 => j + 1 > k
      BY <2>1
    <3>2. QED
      BY <1>1, <2>1, <3>1
  <2>5. QED
    BY <1>1, <1>2, <2>3, <2>4 DEF ToBeRead
<1>5. CASE /\ queue' = Append(queue, a)
           /\ a.action = "remove" => ~ Names(a.uuid, i)
  <2>1. /\ k \in DOMAIN queue' /\ queue'[k] = queue[k]
        /\ \A j \in DOMAIN queue' :
             queue'[j] = a \/ (j \in DOMAIN queue /\ queue'[j] = queue[j])
    <3>1. queue \in Seq(Actions)
      BY DEF Goes
    <3>2. QED
      BY <1>1, <1>5, <3>1, AppendPositions
  <2>2. QED
    BY <1>1, <1>2, <1>5, <2>1 DEF ToBeRead
<1>6. QED
  BY <1>3, <1>4, <1>5 DEF Goes

(* And so does one among the signals, until it is told.                    *)
NoRemovalTold(i) ==
  \A j \in DOMAIN signals :
    signals[j].signal = "removed" => ~ Names(signals[j].uuid, i)

LEMMA StaysToBeTold ==
  ASSUME NEW u, ToBeTold(u), NEW i, nm[u].id = i, nm'[u].id = i, NEW b,
         Goes(Signals, signals, signals',
              Head(signals).signal = "added" /\ Head(signals).uuid = u
                /\ NoRemovalTold(i)' => ToBeRead(i)',
              b, b.signal = "removed" => ~ Names(b.uuid, i)),
         \A x : Names(x, i)' => Names(x, i)
  PROVE  ToBeTold(u)' \/ ToBeRead(i)'
<1>1. PICK k \in DOMAIN signals :
        /\ signals[k].signal = "added" /\ signals[k].uuid = u
        /\ \A j \in DOMAIN signals :
             j > k /\ signals[j].signal = "removed" => ~ Names(signals[j].uuid, i)
  BY DEF ToBeTold
<1>2. nm'[u].id = i /\ \A x : Names(x, i)' => Names(x, i)
  OBVIOUS
<1>3. CASE signals' = signals
  BY <1>1, <1>2, <1>3 DEF ToBeTold
<1>4. CASE /\ signals # <<>> /\ signals' = Tail(signals)
           /\ Head(signals).signal = "added" /\ Head(signals).uuid = u
                /\ NoRemovalTold(i)' => ToBeRead(i)'
  <2>1. /\ \A j \in DOMAIN signals' : j + 1 \in DOMAIN signals /\ signals'[j] = signals[j + 1]
        /\ \/ k = 1 /\ signals[k] = Head(signals)
           \/ k - 1 \in DOMAIN signals' /\ signals'[k - 1] = signals[k]
        /\ DOMAIN signals \subseteq Nat /\ DOMAIN signals' \subseteq Nat
    BY <1>1, <1>4, TailPositions DEF Goes
  <2>2. ASSUME k = 1, signals[k] = Head(signals)
        PROVE  ToBeRead(i)'
    <3>1. \A j \in DOMAIN signals' :
            signals'[j].signal = "removed" => ~ Names(signals'[j].uuid, i)
      <4>1. \A j \in DOMAIN signals' : j + 1 > k
        <5>1. \A j \in DOMAIN signals' : j > 0
          BY <1>4 DEF Goes
        <5>2. QED
          BY <2>1, <2>2, <5>1
      <4>2. QED
        BY <1>1, <2>1, <4>1
    <3>2. \A x : Names(x, i)' => Names(x, i)
      BY <1>2
    <3>3. NoRemovalTold(i)'
      BY <3>1, <3>2 DEF NoRemovalTold, Names
    <3>4. QED
      BY <1>1, <1>4, <2>2, <3>3
  <2>3. SUFFICES ASSUME k - 1 \in DOMAIN signals', signals'[k - 1] = signals[k]
        PROVE  ToBeTold(u)'
    BY <2>1, <2>2
  <2>4. \A j \in DOMAIN signals' :
          j > k - 1 /\ signals'[j].signal = "removed" => ~ Names(signals'[j].uuid, i)
    <3>1. \A j \in DOMAIN signals' : j > k - 1 => j + 1 > k
      BY <2>1
    <3>2. QED
      BY <1>1, <2>1, <3>1
  <2>5. QED
    BY <1>1, <1>2, <2>3, <2>4 DEF ToBeTold
<1>5. CASE /\ signals' = Append(signals, b)
           /\ b.signal = "removed" => ~ Names(b.uuid, i)
  <2>1. /\ k \in DOMAIN signals' /\ signals'[k] = signals[k]
        /\ \A j \in DOMAIN signals' :
             signals'[j] = b \/ (j \in DOMAIN signals /\ signals'[j] = signals[j])
    <3>1. signals \in Seq(Signals)
      BY DEF Goes
    <3>2. QED
      BY <1>1, <1>5, <3>1, AppendPositions
  <2>2. QED
    BY <1>1, <1>2, <1>5, <2>1 DEF ToBeTold
<1>6. QED
  BY <1>3, <1>4, <1>5 DEF Goes
(* Of a connection that stays the service goes on hearing.                 *)
LEMMA StaysHeardOf ==
  ASSUME NEW u, IsHeardOf(u), NEW i, nm[u].id = i, nm'[u].id = i, NEW a, NEW b,
         Goes(Actions, queue, queue',
              Head(queue).action = "new" /\ Head(queue).id = i => \E x : Names(x, i),
              a, a.action = "remove" =>
                   \/ ~ Names(a.uuid, i)
                   \/ a.uuid \in Removals /\ ~ ToBeRead(i)),
         Goes(Signals, signals, signals',
              Head(signals).signal = "added" /\ Head(signals).uuid = u
                /\ NoRemovalTold(i)' => ToBeRead(i)',
              b, b.signal = "removed" => ~ Names(b.uuid, i)),
         \A x : Names(x, i)' => Names(x, i),
         \A x : Names(x, i) /\ x \notin Removals => Names(x, i)'
  PROVE  IsHeardOf(u)'
<1>1. ASSUME Knows(i)
      PROVE  Knows(i)'
  <2> DEFINE T == {y \in {a.uuid, b.uuid} : ~ Names(y, i) \/ y \in Removals}
  <2>0. /\ Goes(Actions, queue, queue', TRUE, a, a.action = "remove" => a.uuid \in T)
        /\ Goes(Signals, signals, signals', TRUE, b, b.signal = "removed" => b.uuid \in T)
    BY DEF Goes
  <2>1. Removals' \subseteq Removals \cup T
    <3> HIDE DEF T
    <3> QED
      BY <2>0, RemovalsGo
  <2> HIDE DEF T
  <2>2. PICK x \in DOMAIN conns : conns[x].id = i /\ x \notin Removals
    BY <1>1 DEF Knows
  <2>3. Names(x, i) /\ Names(x, i)'
    BY <2>2 DEF Names
  <2>4. x \notin T
    BY <2>2, <2>3 DEF T
  <2>5. x \notin Removals'
    BY <2>1, <2>2, <2>4
  <2>6. QED
    BY <2>3, <2>5 DEF Knows, Names
<1>2. ASSUME ToBeRead(i), ~ Knows(i)
      PROVE  ToBeRead(i)'
  <2>1. \A j \in DOMAIN signals' :
          signals'[j].signal = "removed" => ~ Names(signals'[j].uuid, i)
    <3>1. \A j \in DOMAIN signals :
            signals[j].signal = "removed" => ~ Names(signals[j].uuid, i)
      BY <1>2 DEF ToBeRead
    <3>2. signals \in Seq(Signals)
      BY DEF Goes
    <3>3. CASE signals' = signals
      BY <3>1, <3>3
    <3>4. CASE signals # <<>> /\ signals' = Tail(signals)
      BY <3>1, <3>2, <3>4, TailPositions
    <3>5. CASE /\ signals' = Append(signals, b)
               /\ b.signal = "removed" => ~ Names(b.uuid, i)
      BY <3>1, <3>2, <3>5, AppendPositions
    <3>6. QED
      BY <3>3, <3>4, <3>5 DEF Goes
  <2>2. Goes(Actions, queue, queue',
             Head(queue).action = "new" /\ Head(queue).id = i => \E x : Names(x, i),
             a, a.action = "remove" => ~ Names(a.uuid, i))
    BY <1>2 DEF Goes
  <2>3. QED
    BY <1>2, <2>1, <2>2, StaysToBeRead
<1>3. ASSUME ToBeTold(u)
      PROVE  ToBeTold(u)' \/ ToBeRead(i)'
  BY <1>3, StaysToBeTold
<1>4. QED
  BY <1>1, <1>2, <1>3 DEF IsHeardOf

(* What was read is known, unless a removal is still to come.              *)
LEMMA SyncIsRead ==
  ASSUME IInv, SyncFromSystem, nm' = nm, Removals' \subseteq Removals, ~ dirty'
  PROVE  Reading'
<1>1. /\ DOMAIN conns' = Readable(nm) /\ Readable(nm) \subseteq DOMAIN nm
      /\ \A u \in DOMAIN conns' : conns'[u].id = nm[u].id
  BY DEF SyncFromSystem, ReadConnections, Readable
<1>2. DOMAIN nm \cap Removals' = {}
  BY DEF SyncFromSystem
<1>3. \A u \in Readable(nm) : Knows(nm[u].id)'
  BY <1>1, <1>2 DEF Knows
<1>4. QED
  BY <1>1, <1>2, <1>3 DEF Reading, IsHeardOf, Readable
(* The queue gets or loses an action that is not a removal.                *)
LEMMA ReadingQueue ==
  ASSUME IInv, Reading, NEW a,
         nm' = nm, conns' = conns, signals' = signals,
         Goes(Actions, queue, queue',
              Head(queue).action = "new" => KnownId(Head(queue).id),
              a, a.action # "remove")
  PROVE  Reading'
<1>1. DOMAIN conns \subseteq Uuids /\ signals \in Seq(Signals)
  BY DEF IInv, Connections, Typed
<1> DEFINE b == [signal |-> "added"]
<1>2. Goes(Signals, signals, signals', TRUE, b, FALSE)
  BY <1>1 DEF Goes
<1>3. Removals' \subseteq Removals
  <2>1. /\ Goes(Actions, queue, queue', TRUE, a, a.action = "remove" => a.uuid \in {})
        /\ Goes(Signals, signals, signals', TRUE, b, b.signal = "removed" => b.uuid \in {})
    BY <1>2 DEF Goes
  <2> HIDE DEF b
  <2>2. Removals' \subseteq Removals \cup {}
    BY <2>1, RemovalsGo
  <2>3. QED
    BY <2>2
<1>4. ASSUME NEW u \in Readable(nm)
      PROVE  IsHeardOf(u)'
  <2>0. PICK i : i = nm[u].id
    OBVIOUS
  <2>1. KnownId(i) => \E x : Names(x, i)
    BY <1>1, GetConnectionFinds DEF KnownId, Names
  <2>2. Goes(Actions, queue, queue',
             Head(queue).action = "new" /\ Head(queue).id = i => \E x : Names(x, i),
             a, a.action = "remove" =>
                  \/ ~ Names(a.uuid, i)
                  \/ a.uuid \in Removals /\ ~ ToBeRead(i))
    BY <2>1 DEF Goes
  <2>3. Goes(Signals, signals, signals',
             Head(signals).signal = "added" /\ Head(signals).uuid = u
               /\ NoRemovalTold(i)' => ToBeRead(i)',
             b, b.signal = "removed" => ~ Names(b.uuid, i))
    BY <1>1 DEF Goes
  <2>4. IsHeardOf(u) /\ nm[u].id = i /\ nm'[u].id = i
    BY <1>4, <2>0 DEF Reading
  <2>5. \A x : Names(x, i)' <=> Names(x, i)
    BY DEF Names
  <2> HIDE DEF b
  <2>6. QED
    BY <2>2, <2>3, <2>4, <2>5, StaysHeardOf
<1>5. QED
  BY <1>3, <1>4 DEF Reading

(* A removal is handled: it is of no connection NetworkManager has.        *)
LEMMA ReadingRemoval ==
  ASSUME IInv, Reading, RemoveConnection
  PROVE  Reading'
<1>1. PICK u0 : u0 = Head(queue).uuid
  OBVIOUS
<1> DEFINE a == [action |-> "apply"]
           b == [signal |-> "added"]
<1>2. /\ queue \in Seq(Actions) /\ signals \in Seq(Signals)
      /\ queue # <<>> /\ Head(queue).action = "remove" /\ queue' = Tail(queue)
      /\ nm' = nm /\ signals' = signals
      /\ conns' = conns \/ conns' = Without(conns, {u0})
  BY <1>1 DEF IInv, Typed, RemoveConnection, Serves
<1>3. u0 \in Removals
  BY <1>1, <1>2, TailPositions DEF Removals
<1>4. /\ DOMAIN conns' \subseteq DOMAIN conns /\ DOMAIN conns \subseteq DOMAIN conns' \cup {u0}
      /\ \A x \in DOMAIN conns' : conns'[x] = conns[x]
  BY <1>2 DEF Without, Restrict
<1>5. Removals' \subseteq Removals
  <2>1. /\ Goes(Actions, queue, queue', TRUE, a, a.action = "remove" => a.uuid \in {})
        /\ Goes(Signals, signals, signals', TRUE, b, b.signal = "removed" => b.uuid \in {})
    BY <1>2 DEF Goes
  <2> HIDE DEF a, b
  <2>2. Removals' \subseteq Removals \cup {}
    BY <2>1, RemovalsGo
  <2>3. QED
    BY <2>2
<1>6. \A u \in Readable(nm) \ DOMAIN conns' :
        \A x \in DOMAIN conns' \cap DOMAIN nm : conns'[x].id # nm[u].id
  <2>1. u0 \notin DOMAIN nm
    BY <1>3 DEF Reading
  <2>2. Readable(nm) \subseteq DOMAIN nm
    BY DEF Readable
  <2>3. QED
    BY <1>4, <2>1, <2>2 DEF Reading
<1>7. ASSUME NEW u \in Readable(nm)
      PROVE  IsHeardOf(u)'
  <2>0. PICK i : i = nm[u].id
    OBVIOUS
  <2>1. \A x : Names(x, i)' => Names(x, i)
    BY <1>4 DEF Names
  <2>2. \A x : Names(x, i) /\ x \notin Removals => Names(x, i)'
    BY <1>3, <1>4 DEF Names
  <2>3. Goes(Actions, queue, queue',
             Head(queue).action = "new" /\ Head(queue).id = i => \E x : Names(x, i),
             a, a.action = "remove" =>
                  \/ ~ Names(a.uuid, i)
                  \/ a.uuid \in Removals /\ ~ ToBeRead(i))
    BY <1>2 DEF Goes
  <2>4. Goes(Signals, signals, signals',
             Head(signals).signal = "added" /\ Head(signals).uuid = u
               /\ NoRemovalTold(i)' => ToBeRead(i)',
             b, b.signal = "removed" => ~ Names(b.uuid, i))
    BY <1>2 DEF Goes
  <2>5. IsHeardOf(u) /\ nm[u].id = i /\ nm'[u].id = i
    BY <1>2, <1>7, <2>0 DEF Reading
  <2> HIDE DEF a, b
  <2>6. QED
    BY <2>1, <2>2, <2>3, <2>4, <2>5, StaysHeardOf
<1>8. QED
  BY <1>2, <1>5, <1>6, <1>7 DEF Reading

(* Somebody else adds a connection: its announcement is the last signal.   *)
LEMMA ReadingAdded ==
  ASSUME IInv, Reading, ExternalAdd
  PROVE  Reading'
<1>1. PICK n : n = NewUuid
  OBVIOUS
<1> DEFINE a == [action |-> "apply"]
           b == [signal |-> "added", uuid |-> n]
<1>2. PICK i0 \in Ids \ Bonds, hash \in Foreign :
        /\ \A u \in DOMAIN nm : nm[u].id # i0
        /\ nm' = Overlay(nm, [x \in {n} |->
                   [id |-> i0, hash |-> hash, master |-> None, active |-> TRUE,
                    persistent |-> FALSE]])
  BY <1>1 DEF ExternalAdd
<1>3. /\ queue \in Seq(Actions) /\ signals \in Seq(Signals)
      /\ queue' = queue /\ conns' = conns /\ signals' = Append(signals, b)
      /\ Agree(conns, nm) /\ Readable(nm) \subseteq DOMAIN nm
      /\ Readable(nm') \subseteq DOMAIN nm'
  BY <1>1 DEF IInv, Connections, Typed, ExternalAdd, Readable
<1>4. n \notin DOMAIN conns \cup DOMAIN nm /\ n \notin Removals
  BY <1>1, NewUuidIsNew
<1>5. /\ DOMAIN nm' = DOMAIN nm \cup {n} /\ nm'[n].id = i0
      /\ \A u \in DOMAIN nm : nm'[u] = nm[u]
  BY <1>2, <1>4 DEF Overlay
<1>6. b.signal = "added" /\ b.uuid = n /\ a.action = "apply"
  OBVIOUS
<1> HIDE DEF a, b
<1>7. Removals' \subseteq Removals
  <2>1. /\ Goes(Actions, queue, queue', TRUE, a, a.action = "remove" => a.uuid \in {})
        /\ Goes(Signals, signals, signals', TRUE, b, b.signal = "removed" => b.uuid \in {})
    BY <1>3, <1>6 DEF Goes
  <2>2. Removals' \subseteq Removals \cup {}
    BY <2>1, RemovalsGo
  <2>3. QED
    BY <2>2
<1>8. \A u \in Readable(nm') : u = n \/ u \in Readable(nm)
  BY <1>5 DEF Readable
<1>9. ASSUME NEW u \in Readable(nm') \ DOMAIN conns',
             NEW x \in DOMAIN conns' \cap DOMAIN nm'
      PROVE  conns'[x].id # nm'[u].id
  <2>1. x \in DOMAIN conns \cap DOMAIN nm /\ conns'[x] = conns[x]
    BY <1>3, <1>4, <1>5, <1>9
  <2>2. CASE u = n
    BY <1>2, <1>3, <1>5, <2>1, <2>2 DEF Agree
  <2>3. CASE u \in Readable(nm)
    BY <1>3, <1>5, <1>9, <2>1, <2>3 DEF Reading
  <2>4. QED
    BY <1>8, <1>9, <2>2, <2>3
<1>10. ASSUME NEW u \in Readable(nm)
      PROVE  IsHeardOf(u)'
  <2>0. PICK i : i = nm[u].id
    OBVIOUS
  <2>1. IsHeardOf(u) /\ nm[u].id = i /\ nm'[u].id = i
    BY <1>3, <1>5, <1>10, <2>0 DEF Reading
  <2>2. Goes(Actions, queue, queue',
             Head(queue).action = "new" /\ Head(queue).id = i => \E x : Names(x, i),
             a, a.action = "remove" =>
                  \/ ~ Names(a.uuid, i)
                  \/ a.uuid \in Removals /\ ~ ToBeRead(i))
    BY <1>3 DEF Goes
  <2>3. Goes(Signals, signals, signals',
             Head(signals).signal = "added" /\ Head(signals).uuid = u
               /\ NoRemovalTold(i)' => ToBeRead(i)',
             b, b.signal = "removed" => ~ Names(b.uuid, i))
    BY <1>3, <1>6 DEF Goes
  <2>4. \A x : Names(x, i)' <=> Names(x, i)
    BY <1>3 DEF Names
  <2>5. QED
    BY <2>1, <2>2, <2>3, <2>4, StaysHeardOf
<1>11. ToBeTold(n)'
  <2>1. /\ Len(signals) + 1 \in DOMAIN signals' /\ signals'[Len(signals) + 1] = b
        /\ \A k \in DOMAIN signals' : ~ (k > Len(signals) + 1)
    BY <1>3, AppendPositions
  <2>2. QED
    BY <1>6, <2>1 DEF ToBeTold
<1>12. QED
  BY <1>4, <1>5, <1>7, <1>8, <1>9, <1>10, <1>11 DEF Reading, IsHeardOf

(* Somebody else removes a connection.  One of the same identifier that is *)
(* there is known by its UUID.                                             *)
LEMMA ReadingRemoved ==
  ASSUME IInv, Reading, ExternalRemove
  PROVE  Reading'
<1>1. PICK u0 \in DOMAIN nm :
        /\ nm' = Without(nm, {u0})
        /\ signals' = Append(signals, [signal |-> "removed", uuid |-> u0])
  BY DEF ExternalRemove
<1> DEFINE a == [action |-> "apply"]
           b == [signal |-> "removed", uuid |-> u0]
<1>2. /\ queue \in Seq(Actions) /\ signals \in Seq(Signals)
      /\ queue' = queue /\ conns' = conns /\ signals' = Append(signals, b)
      /\ Agree(conns, nm) /\ Readable(nm) \subseteq DOMAIN nm
  BY <1>1 DEF IInv, Connections, Typed, ExternalRemove, Readable
<1>3. /\ DOMAIN nm' = DOMAIN nm \ {u0}
      /\ \A u \in DOMAIN nm' : nm'[u] = nm[u]
  BY <1>1 DEF Without, Restrict
<1>4. b.signal = "removed" /\ b.uuid = u0 /\ a.action = "apply"
  OBVIOUS
<1> HIDE DEF a, b
<1>5. Removals' \subseteq Removals \cup {u0}
  <2>1. /\ Goes(Actions, queue, queue', TRUE, a, a.action = "remove" => a.uuid \in {u0})
        /\ Goes(Signals, signals, signals', TRUE, b, b.signal = "removed" => b.uuid \in {u0})
    BY <1>2, <1>4 DEF Goes
  <2>2. QED
    BY <2>1, RemovalsGo
<1>6. \A u \in Readable(nm') : u \in Readable(nm) /\ u # u0
  BY <1>3 DEF Readable
<1>7. DOMAIN nm' \cap Removals' = {}
  BY <1>3, <1>5 DEF Reading
<1>8. \A u \in Readable(nm') \ DOMAIN conns' :
        \A x \in DOMAIN conns' \cap DOMAIN nm' : conns'[x].id # nm'[u].id
  BY <1>2, <1>3, <1>6 DEF Reading, Readable
<1>9. ASSUME NEW u \in Readable(nm')
      PROVE  IsHeardOf(u)'
  <2>0. PICK i : i = nm[u].id
    OBVIOUS
  <2>1. IsHeardOf(u) /\ nm[u].id = i /\ nm'[u].id = i /\ u \in DOMAIN nm'
    BY <1>2, <1>3, <1>6, <1>9, <2>0 DEF Reading
  <2>2. ASSUME Names(u0, i)
        PROVE  Knows(i)'
    <3>1. u \in DOMAIN conns
      BY <1>6, <1>9, <2>0, <2>2 DEF Reading, Names
    <3>2. conns'[u].id = i /\ u \in DOMAIN conns'
      BY <1>2, <1>3, <2>1, <3>1 DEF Agree
    <3>3. u \notin Removals'
      BY <1>7, <2>1
    <3>4. QED
      BY <3>2, <3>3 DEF Knows
  <2>3. CASE ~ Names(u0, i)
    <3>1. Goes(Actions, queue, queue',
               Head(queue).action = "new" /\ Head(queue).id = i => \E x : Names(x, i),
               a, a.action = "remove" =>
                  \/ ~ Names(a.uuid, i)
                  \/ a.uuid \in Removals /\ ~ ToBeRead(i))
      BY <1>2 DEF Goes
    <3>2. Goes(Signals, signals, signals',
               Head(signals).signal = "added" /\ Head(signals).uuid = u
                 /\ NoRemovalTold(i)' => ToBeRead(i)',
               b, b.signal = "removed" => ~ Names(b.uuid, i))
      BY <1>2, <1>4, <2>3 DEF Goes
    <3>3. \A x : Names(x, i)' <=> Names(x, i)
      BY <1>2 DEF Names
    <3>4. QED
      BY <2>1, <3>1, <3>2, <3>3, StaysHeardOf
  <2>4. QED
    BY <2>1, <2>2, <2>3 DEF IsHeardOf
<1>10. QED
  BY <1>7, <1>8, <1>9 DEF Reading
(* The watcher reads a signal and puts what it says in the queue.          *)
LEMMA ReadingSignal ==
  ASSUME IInv, Reading, Dispatch
  PROVE  Reading'
<1>1. PICK h : h = Head(signals)
  OBVIOUS
<1> DEFINE new == [action |-> "new", id |-> nm[h.uuid].id]
           remove == [action |-> "remove", uuid |-> h.uuid]
<1>2. /\ queue \in Seq(Actions) /\ signals \in Seq(Signals)
      /\ signals # <<>> /\ signals' = Tail(signals) /\ nm' = nm /\ conns' = conns
      /\ \/ /\ h.signal = "added" /\ h.uuid \in Readable(nm)
            /\ queue' = Append(queue, new)
         \/ /\ h.signal = "added" /\ h.uuid \notin Readable(nm)
            /\ queue' = queue
         \/ h.signal = "removed" /\ queue' = Append(queue, remove)
         \/ h.signal = "removed" /\ queue' = queue
  <2>1. queue \in Seq(Actions) /\ signals \in Seq(Signals) /\ signals # <<>>
    BY DEF IInv, Typed, Dispatch
  <2>2. h \in Signals
    BY <1>1, <2>1
  <2>3. h.signal = "added" \/ h.signal = "removed"
    BY <2>2 DEF Signals
  <2>4. QED
    BY <1>1, <2>1, <2>3 DEF Dispatch
<1>3. PICK a : /\ queue' = queue \/ queue' = Append(queue, a)
               /\ a.action = "remove" => h.signal = "removed" /\ a.uuid = h.uuid
               /\ h.signal = "added" /\ h.uuid \in Readable(nm) =>
                    /\ queue' = Append(queue, a)
                    /\ a.action = "new" /\ a.id = nm[h.uuid].id
  <2>1. CASE /\ h.signal = "added" /\ h.uuid \in Readable(nm)
             /\ queue' = Append(queue, new)
    <3>1. new.action = "new" /\ new.id = nm[h.uuid].id
      OBVIOUS
    <3> HIDE DEF new
    <3>2. QED
      BY <2>1, <3>1
  <2>2. CASE \/ h.signal = "removed" /\ queue' = Append(queue, remove)
             \/ h.signal = "removed" /\ queue' = queue
    <3>1. remove.action = "remove" /\ remove.uuid = h.uuid
      OBVIOUS
    <3> HIDE DEF remove
    <3>2. QED
      BY <2>2, <3>1
  <2>3. CASE h.signal = "added" /\ h.uuid \notin Readable(nm) /\ queue' = queue
    <3>1. [action |-> "apply"].action = "apply"
      OBVIOUS
    <3>2. QED
      BY <2>3, <3>1
  <2>4. QED
    BY <1>2, <2>1, <2>2, <2>3
<1> HIDE DEF new, remove
<1>4. /\ h = signals[1] /\ 1 \in DOMAIN signals
      /\ \A j \in DOMAIN Tail(signals) :
           j + 1 \in DOMAIN signals /\ Tail(signals)[j] = signals[j + 1]
  BY <1>1, <1>2, TailPositions
<1>5. h.signal = "removed" => h.uuid \in Removals
  BY <1>4 DEF Removals
<1> DEFINE b == [signal |-> "added"]
<1>6. Removals' \subseteq Removals
  <2>1. /\ Goes(Actions, queue, queue', TRUE, a, a.action = "remove" => a.uuid \in Removals)
        /\ Goes(Signals, signals, signals', TRUE, b, b.signal = "removed" => b.uuid \in Removals)
    BY <1>2, <1>3, <1>5 DEF Goes
  <2> HIDE DEF b
  <2>2. PICK T : T = Removals
    OBVIOUS
  <2>3. Removals' \subseteq Removals \cup T
    BY <2>1, <2>2, RemovalsGo
  <2>4. QED
    BY <2>2, <2>3
<1>7. ASSUME NEW u \in Readable(nm)
      PROVE  IsHeardOf(u)'
  <2>0. PICK i : i = nm[u].id
    OBVIOUS
  <2>1. IsHeardOf(u) /\ nm[u].id = i /\ nm'[u].id = i
    BY <1>2, <1>7, <2>0 DEF Reading
  <2>2. \A x : Names(x, i)' <=> Names(x, i)
    BY <1>2 DEF Names
  <2>3. Goes(Actions, queue, queue',
             Head(queue).action = "new" /\ Head(queue).id = i => \E x : Names(x, i),
             a, a.action = "remove" =>
                  \/ ~ Names(a.uuid, i)
                  \/ a.uuid \in Removals /\ ~ ToBeRead(i))
    <3>1. ASSUME a.action = "remove", Names(a.uuid, i)
          PROVE  a.uuid \in Removals /\ ~ ToBeRead(i)
      BY <1>3, <1>4, <1>5, <3>1 DEF ToBeRead
    <3>2. QED
      BY <1>2, <1>3, <3>1 DEF Goes
  <2>4. Goes(Signals, signals, signals',
             Head(signals).signal = "added" /\ Head(signals).uuid = u
               /\ NoRemovalTold(i)' => ToBeRead(i)',
             b, b.signal = "removed" => ~ Names(b.uuid, i))
    <3>1. ASSUME h.signal = "added", h.uuid = u, NoRemovalTold(i)'
          PROVE  ToBeRead(i)'
      <4>1. queue' = Append(queue, a) /\ a.action = "new" /\ a.id = i
        BY <1>3, <1>7, <2>0, <3>1
      <4>2. /\ Len(queue) + 1 \in DOMAIN queue' /\ queue'[Len(queue) + 1] = a
            /\ \A k \in DOMAIN queue' : ~ (k > Len(queue) + 1)
        BY <1>2, <4>1, AppendPositions
      <4>3. QED
        BY <3>1, <4>1, <4>2 DEF ToBeRead, NoRemovalTold
    <3>2. QED
      BY <1>1, <1>2, <3>1 DEF Goes
  <2> HIDE DEF b
  <2>5. QED
    BY <2>1, <2>2, <2>3, <2>4, StaysHeardOf
<1>8. QED
  BY <1>2, <1>6, <1>7 DEF Reading
LEMMA ReadingStep ==
  ASSUME IInv, Next, (write = Idle)', ~ dirty'
  PROVE  Reading'
<1> DEFINE apply == [action |-> "apply"]
<1>1. /\ queue \in Seq(Actions) /\ signals \in Seq(Signals)
      /\ write = Idle /\ ~ dirty => Reading
  BY DEF IInv, Typed
<1>2. CASE FinishApply
  <2>1. Removals' = Removals
    BY <1>2 DEF FinishApply, Removals
  <2>2. SyncFromSystem /\ nm' = nm
    BY <1>2 DEF FinishApply
  <2>3. QED
    BY <2>1, <2>2, SyncIsRead
<1>3. CASE NewConnection
  <2>1. /\ write = Idle /\ queue # <<>> /\ queue' = Tail(queue)
        /\ Head(queue).action = "new" /\ nm' = nm /\ signals' = signals
    BY <1>3 DEF NewConnection, Serves
  <2>2. CASE KnownId(Head(queue).id) /\ conns' = conns /\ dirty' = dirty
    <3>1. apply.action # "remove"
      OBVIOUS
    <3> HIDE DEF apply
    <3>2. Goes(Actions, queue, queue',
               Head(queue).action = "new" => KnownId(Head(queue).id),
               apply, apply.action # "remove")
      BY <1>1, <2>1, <2>2 DEF Goes
    <3>3. QED
      BY <1>1, <2>1, <2>2, <3>2, ReadingQueue
  <2>3. CASE SyncFromSystem
    <3>1. /\ Goes(Actions, queue, queue', TRUE, apply,
                  apply.action = "remove" => apply.uuid \in {})
          /\ Goes(Signals, signals, signals', TRUE, apply,
                  apply.signal = "removed" => apply.uuid \in {})
      BY <1>1, <2>1 DEF Goes
    <3> HIDE DEF apply
    <3>2. Removals' \subseteq Removals \cup {}
      BY <3>1, RemovalsGo
    <3>3. QED
      BY <2>1, <2>3, <3>2, SyncIsRead
  <2>4. QED
    BY <1>3, <2>2, <2>3 DEF NewConnection
<1>4. CASE RemoveConnection
  <2>1. write = Idle /\ ~ dirty
    BY <1>4 DEF RemoveConnection, Serves
  <2>2. QED
    BY <1>1, <1>4, <2>1, ReadingRemoval
<1>5. CASE ExternalAdd
  <2>1. write = Idle /\ ~ dirty
    BY <1>5 DEF ExternalAdd
  <2>2. QED
    BY <1>1, <1>5, <2>1, ReadingAdded
<1>6. CASE ExternalRemove
  <2>1. write = Idle /\ ~ dirty
    BY <1>6 DEF ExternalRemove
  <2>2. QED
    BY <1>1, <1>6, <2>1, ReadingRemoved
<1>7. CASE Dispatch
  <2>1. write = Idle /\ ~ dirty
    BY <1>7 DEF Dispatch
  <2>2. QED
    BY <1>1, <1>7, <2>1, ReadingSignal
<1>8. CASE UpdateSame \/ UpdateRejected \/ ProposeDefault
  <2>1. /\ write = Idle /\ ~ dirty /\ nm' = nm /\ conns' = conns /\ signals' = signals
        /\ queue # <<>> /\ queue' = Tail(queue) /\ Head(queue).action = "update"
    BY <1>8 DEF UpdateSame, UpdateRejected, ProposeDefault, Serves
  <2>2. Goes(Actions, queue, queue',
             Head(queue).action = "new" => KnownId(Head(queue).id),
             apply, apply.action # "remove")
    BY <1>1, <2>1 DEF Goes
  <2> HIDE DEF apply
  <2>3. QED
    BY <1>1, <2>1, <2>2, ReadingQueue
<1>9. CASE \E c \in Clients : SendUpdate(c) \/ SendApply(c)
  <2>1. PICK a : queue' = Append(queue, a) /\ a.action # "remove"
    <3>1. CASE \E c \in Clients : SendApply(c)
      BY <3>1 DEF SendApply
    <3>2. CASE \E c \in Clients : SendUpdate(c)
      BY <3>2 DEF SendUpdate
    <3>3. QED
      BY <1>9, <3>1, <3>2
  <2>2. write = Idle /\ ~ dirty /\ nm' = nm /\ conns' = conns /\ signals' = signals
    BY <1>9 DEF SendUpdate, SendApply
  <2>3. Goes(Actions, queue, queue',
             Head(queue).action = "new" => KnownId(Head(queue).id),
             a, a.action # "remove")
    BY <1>1, <2>1 DEF Goes
  <2>4. QED
    BY <1>1, <2>2, <2>3, ReadingQueue
<1>10. \/ FinishApply \/ NewConnection \/ RemoveConnection \/ ExternalAdd
      \/ ExternalRemove \/ Dispatch \/ UpdateSame \/ UpdateRejected \/ ProposeDefault
      \/ \E c \in Clients : SendUpdate(c) \/ SendApply(c)
  <2>1. ~ StartWrite
    BY DEF StartWrite, Idle
  <2>2. ~ (UpdateState \/ StartWriteFails \/ FinishApplyFails)
    BY DEF UpdateState, StartWriteFails, FinishApplyFails
  <2>3. \A u \in write.todo : ~ AddOrUpdateFails(u)
    BY DEF AddOrUpdateFails
  <2>4. ASSUME write.phase = "writing", NEW u \in write.todo,
               SkipConnection(u) \/ DeleteConnection(u) \/ AddOrUpdateConnection(u)
        PROVE  FALSE
    <3>1. Writing
      BY <2>4 DEF IInv, Idle
    <3>2. Done(u)
      BY <2>4 DEF SkipConnection, DeleteConnection, AddOrUpdateConnection
    <3>3. QED
      BY <3>1, <3>2, DoneKeeps
  <2>5. QED
    BY <2>1, <2>2, <2>3, <2>4 DEF Next, Serve, WriteStep
<1>11. QED
  BY <1>2, <1>3, <1>4, <1>5, <1>6, <1>7, <1>8, <1>9, <1>10
------------------------------------------------------------------------------
(* The invariant.                                                          *)

LEMMA InitInv == Init => IInv
<1> SUFFICES ASSUME Init
             PROVE  IInv
  OBVIOUS
<1>1. PICK S \in SUBSET {1}, i \in Ids \ Bonds, hash \in Foreign :
        nm = [x \in S |-> [id |-> i, hash |-> hash, master |-> None,
                           active |-> TRUE, persistent |-> FALSE]]
  BY DEF Init
<1>2. /\ DOMAIN nm \subseteq {1}
      /\ \A u \in DOMAIN nm : /\ nm[u].id \in Ids \ Bonds /\ nm[u].master = None
                              /\ IsInSystem(nm[u])
  BY <1>1, NetworkAssumption DEF IsInSystem
<1>3. IsFiniteSet(DOMAIN nm) /\ DOMAIN nm \subseteq Uuids
  <2>1. IsFiniteSet({1}) /\ 1 \in Uuids
    BY FS_Singleton DEF Uuids
  <2>2. QED
    BY <1>2, <2>1, FS_Subset
<1>4. IsSystem(nm) /\ PortsAreReadable(nm)
  BY <1>2, <1>3 DEF IsSystem, PortsAreReadable
<1>5. /\ DOMAIN conns = Readable(nm) /\ Readable(nm) \subseteq DOMAIN nm
      /\ IsFiniteSet(DOMAIN conns) /\ DOMAIN conns \subseteq Uuids
      /\ \A u \in DOMAIN conns : IsWanted(conns[u])
      /\ Agree(conns, nm) /\ ControllersAreBonds(conns)
  BY <1>4, ReadIsWanted DEF Init
<1>6. Typed
  <2>1. known = DOMAIN conns /\ queue = <<>> /\ signals = <<>>
        /\ client = [c \in Clients |-> "idle"]
        /\ userConfig = None /\ dirty = FALSE
        /\ spent = [requests |-> 0, external |-> 0, faults |-> 0, refused |-> 0]
    BY <1>5 DEF Init
  <2>2. spent \in Spending /\ spent.refused + spent.faults <= MaxFaults
    BY <2>1, NetworkAssumption DEF Spending
  <2>3. queue \in Seq(Actions) /\ signals \in Seq(Signals)
    BY <2>1
  <2>4. client \in [Clients -> {"idle", "updating", "updated", "applying"}]
    BY <2>1
  <2>5. dirty \in BOOLEAN /\ userConfig \in Configs \cup {None}
    BY <2>1
  <2>6. IsFiniteSet(known) /\ known \subseteq Uuids
    BY <1>5, <2>1
  <2>7. QED
    BY <2>2, <2>3, <2>4, <2>5, <2>6 DEF Typed
<1>7. Reading
  <2>1. queue = <<>> /\ signals = <<>>
    BY DEF Init
  <2>2. Removals = {}
    BY <2>1 DEF Removals
  <2>3. ASSUME NEW u \in Readable(nm)
        PROVE  IsHeardOf(u)
    <3>1. conns[u].id = nm[u].id
      BY <1>5, <2>3 DEF Agree
    <3>2. QED
      BY <1>5, <2>2, <2>3, <3>1 DEF IsHeardOf, Knows
  <2>4. QED
    BY <1>5, <2>2, <2>3 DEF Reading
<1>8. write = Idle
  BY DEF Init
<1>9. QED
  BY <1>4, <1>5, <1>6, <1>7, <1>8 DEF IInv, Connections

LEMMA StutterInv == IInv /\ UNCHANGED vars => IInv'
  BY DEF vars, IInv, Connections, Typed, Writing, Written, Reading, IsSystem,
         PortsAreReadable, Agree, ControllersAreBonds, IsAsItWas, IsWrittenFor,
         Stands, Unchanged, IsRemoved, WantedController, MasterFor, IsUndisturbed,
         IsHeardOf, Knows, ToBeRead, ToBeTold, Names, Removals

LEMMA StepInv == IInv /\ [Next]_vars => IInv'
<1> SUFFICES ASSUME IInv, [Next]_vars
             PROVE  IInv'
  OBVIOUS
<1>1. CASE Next
  <2>1. Connections' /\ Typed' /\ (write = Idle \/ Writing)'
    BY <1>1, ConnectionsStep, TypedStep, WritingStep
  <2>2. (write # Idle /\ IsUndisturbed => Written)'
    BY <1>1, WrittenStep
  <2>3. (write = Idle /\ ~ dirty => Reading)'
    BY <1>1, ReadingStep
  <2>4. QED
    BY <2>1, <2>2, <2>3 DEF IInv
<1>2. CASE UNCHANGED vars
  BY <1>2, StutterInv
<1>3. QED
  BY <1>1, <1>2

THEOREM NetworkInvariant == Spec => []IInv
  BY InitInv, StepInv, PTL DEF Spec

(* The variables have their types, for any configurations, tasks and       *)
(* bounds: a UUID the service draws is new, a connection that is converted,*)
(* merged and read back is one again (agama-network/src/service.rs and     *)
(* nm/adapter.rs).                                                         *)
THEOREM NetworkTypeCorrect == Spec => []TypeOK
<1>1. IInv => TypeOK
  BY DEF IInv, Connections, Typed, Writing, TypeOK, IsSystem
<1>2. QED
  BY <1>1, NetworkInvariant, PTL

(* At rest the service knows every connection of NetworkManager that it    *)
(* can read: at any time since the state was read it knew the connection,  *)
(* or the announcement was in its queue or among the signals with no       *)
(* removal behind it that could undo it (agama-network/src/service.rs,     *)
(* NewConnection, RemoveConnection, Apply).                                *)
THEOREM SystemKnownAlways == Spec => []SystemKnown
<1>1. IInv => SystemKnown
  <2> SUFFICES ASSUME IInv, Quiet, ~ dirty, NEW u \in Readable(nm)
               PROVE  GetConnection(conns, nm[u].id) # None
    BY DEF SystemKnown
  <2>1. IsHeardOf(u) /\ queue = <<>> /\ signals = <<>>
    BY DEF IInv, Quiet, Reading
  <2>2. Knows(nm[u].id)
    BY <2>1 DEF IsHeardOf, ToBeRead, ToBeTold
  <2>3. DOMAIN conns \subseteq Uuids
    BY DEF IInv, Connections
  <2>4. QED
    BY <2>2, <2>3, GetConnectionFinds, NoneIsNoUuid DEF Knows
<1>2. QED
  BY <1>1, NetworkInvariant, PTL

------------------------------------------------------------------------------
(* The ports.                                                              *)

(* A controller that is wanted is a bond, and so the port of no other one. *)
LEMMA ControllerIsKept ==
  ASSUME PlainPorts, Connections, NEW u \in DOMAIN conns, ~ IsRemoved(u),
         NEW w, w = WantedController(u), w # None
  PROVE  w \in DOMAIN conns /\ ~ IsRemoved(w)
<1>1. None \notin DOMAIN conns
  BY NoneIsNoUuid DEF Connections
<1>2. w = conns[u].controller /\ w \in DOMAIN conns
  BY DEF WantedController
<1>3. conns[w].id \in Bonds
  BY <1>2 DEF Connections, ControllersAreBonds
<1>4. conns[w].controller = None
  BY <1>2, <1>3 DEF Connections, ControllersAreBonds
<1>5. WantedController(w) = None
  BY <1>1, <1>4 DEF WantedController
<1>6. conns[w].status # "removed"
  BY DEF IsRemoved
<1>7. QED
  BY <1>2, <1>5, <1>6 DEF IsRemoved

(* What was written for a connection has its controller among what was     *)
(* written or among what was there before and was not taken.               *)
LEMMA WrittenHasController ==
  ASSUME PlainPorts, Connections, Written,
         NEW v, NEW u \in DOMAIN conns, IsWrittenFor(v, u), nm[v].master # None
  PROVE  \E w \in DOMAIN conns \ write.todo : \E x \in DOMAIN nm :
           conns[w].id = nm[v].master /\ Stands(w, x)
<1>1. PICK w : w = WantedController(u)
  OBVIOUS
<1>2. /\ ~ IsRemoved(u) /\ nm[v].master = MasterFor(u)
      /\ w # None => w \notin write.todo
  BY <1>1 DEF IsWrittenFor
<1>3. w # None /\ nm[v].master = conns[w].id
  BY <1>1, <1>2 DEF MasterFor
<1>4. w \in DOMAIN conns /\ ~ IsRemoved(w)
  BY <1>1, <1>2, <1>3, ControllerIsKept
<1>5. \E x \in DOMAIN nm : Stands(w, x)
  BY <1>2, <1>3, <1>4 DEF Written
<1>6. QED
  BY <1>2, <1>3, <1>4, <1>5

(* A port that was not touched has the controller it had.                  *)
LEMMA UntouchedHasController ==
  ASSUME PlainPorts, Connections, Writing, Written, write.todo = {},
         HaveControllers(write.saved), PortsOf(write.saved) \subseteq DOMAIN conns,
         NEW u \in DOMAIN nm, IsAsItWas(u), nm[u].master # None
  PROVE  \E x \in DOMAIN nm : nm[x].id = nm[u].master
<1> DEFINE saved == write.saved
<1>1. u \in DOMAIN saved /\ nm[u] = saved[u] /\ u \in DOMAIN conns /\ Unchanged(u)
  BY DEF IsAsItWas, PortsOf
<1>2. IsReadable(saved[u].hash) /\ saved[u].master \in Bonds
  BY <1>1 DEF Writing, PortsAreReadable
<1>3. u \in Readable(saved) /\ u \in DOMAIN ReadConnections(saved)
  BY <1>1, <1>2 DEF Readable, ReadConnections
<1>4. ~ IsRemoved(u) /\ conns[u].controller = ControllerOf(saved, u)
  <2>1. write.old = ReadConnections(saved) /\ write.old[u] = conns[u] /\ ~ IsRemoved(u)
    BY <1>1, <1>3 DEF Unchanged, Writing
  <2>2. ReadConnections(saved)[u].controller = ControllerOf(saved, u)
    BY <1>3 DEF ReadConnections
  <2>3. QED
    BY <2>1, <2>2
<1>5. PICK w : w = ControllerOf(saved, u)
  OBVIOUS
<1>6. w \in Readable(saved) /\ w \in DOMAIN saved /\ saved[w].id = nm[u].master
  <2>1. PICK v \in DOMAIN saved : saved[v].id = saved[u].master
    BY <1>1 DEF HaveControllers
  <2>2. v \in Readable(saved)
    BY <1>2, <2>1 DEF Writing, PortsAreReadable, Readable
  <2>3. IsSystem(saved)
    BY DEF Writing
  <2>4. w \in Readable(saved) /\ saved[w].id = saved[u].master
    BY <1>1, <1>5, <2>1, <2>2, <2>3, ControllerOfFinds
  <2>5. QED
    BY <1>1, <2>4 DEF Readable
<1> HIDE DEF saved
<1>7. CASE w \in DOMAIN conns
  <2>1. w # None
    BY <1>7, NoneIsNoUuid DEF Connections
  <2>2. w = WantedController(u)
    BY <1>4, <1>5, <1>7 DEF WantedController
  <2>3. ~ IsRemoved(w)
    BY <1>1, <1>4, <2>1, <2>2, ControllerIsKept
  <2>4. PICK x \in DOMAIN nm : Stands(w, x)
    BY <1>7, <2>3 DEF Written
  <2>5. conns[w].id = saved[w].id
    BY <1>6, <1>7 DEF Writing, Agree, saved
  <2>6. QED
    BY <1>6, <2>4, <2>5 DEF Stands
<1>8. CASE w \notin DOMAIN conns
  <2>1. w \in DOMAIN nm
    BY <1>6, <1>8 DEF Written, saved
  <2>2. ~ \E x \in DOMAIN conns \ write.todo : IsWrittenFor(w, x)
    BY <1>6, <1>8 DEF IsWrittenFor, Stands, saved
  <2>3. nm[w] = saved[w]
    BY <2>1, <2>2 DEF Written, IsAsItWas, saved
  <2>4. QED
    BY <1>6, <2>1, <2>3
<1>9. QED
  BY <1>7, <1>8

LEMMA PortsStep ==
  ASSUME PlainPorts, IInv, Next, write # Idle, (write = Idle)', IsUndisturbed,
         spent'.refused = spent.refused, HaveControllers(write.saved),
         PortsOf(write.saved) \subseteq DOMAIN conns
  PROVE  HaveControllers(nm')
<1>1. Connections /\ Writing /\ Written
  BY DEF IInv
<1>2. CASE nm' = nm /\ write.todo = {}
  <2> SUFFICES ASSUME NEW u \in DOMAIN nm, nm[u].master # None
               PROVE  \E x \in DOMAIN nm : nm[x].id = nm[u].master
    BY <1>2 DEF HaveControllers
  <2>1. CASE IsAsItWas(u)
    BY <1>1, <1>2, <2>1, UntouchedHasController
  <2>2. ASSUME NEW y \in DOMAIN conns \ write.todo, IsWrittenFor(u, y)
        PROVE  \E x \in DOMAIN nm : nm[x].id = nm[u].master
    BY <1>1, <2>2, WrittenHasController DEF Stands
  <2>3. QED
    BY <1>1, <2>1, <2>2 DEF Written
<1>3. CASE nm' = RolledBack
  <2> DEFINE saved == write.saved
  <2>1. /\ DOMAIN nm' = DOMAIN nm \cup DOMAIN saved
        /\ \A v \in DOMAIN saved : nm'[v] = saved[v]
        /\ \A v \in DOMAIN nm \ DOMAIN saved : nm'[v] = nm[v]
    BY <1>3 DEF RolledBack, Overlay
  <2> SUFFICES ASSUME NEW u \in DOMAIN nm', nm'[u].master # None
               PROVE  \E x \in DOMAIN nm' : nm'[x].id = nm'[u].master
    BY DEF HaveControllers
  <2>2. CASE u \in DOMAIN saved
    <3>1. PICK x \in DOMAIN saved : saved[x].id = saved[u].master
      BY <2>1, <2>2 DEF HaveControllers
    <3>2. QED
      BY <2>1, <2>2, <3>1
  <2>3. CASE u \in DOMAIN nm \ DOMAIN saved
    <3>1. PICK y \in DOMAIN conns \ write.todo : IsWrittenFor(u, y)
      BY <1>1, <2>3 DEF Written, IsAsItWas
    <3>2. nm'[u] = nm[u]
      BY <2>1, <2>3
    <3>3. PICK w \in DOMAIN conns \ write.todo, x \in DOMAIN nm :
            conns[w].id = nm[u].master /\ Stands(w, x)
      BY <1>1, <3>1, <3>2, WrittenHasController
    <3>4. CASE x \in DOMAIN saved
      <4>1. x = w /\ saved[w].id = conns[w].id
        BY <1>1, <3>3, <3>4 DEF Stands, Writing, Agree
      <4>2. QED
        BY <2>1, <3>2, <3>3, <3>4, <4>1
    <3>5. CASE x \notin DOMAIN saved
      BY <2>1, <3>2, <3>3, <3>5 DEF Stands
    <3>6. QED
      BY <3>4, <3>5
  <2>4. QED
    BY <2>1, <2>2, <2>3
<1>4. (nm' = nm /\ write.todo = {}) \/ nm' = RolledBack
  <2>1. ~ Serve
    BY DEF Serve, Serves, UpdateSame, UpdateRejected, UpdateState, ProposeDefault,
           NewConnection, RemoveConnection, StartWrite, StartWriteFails
  <2>2. \A u \in write.todo :
          ~ (SkipConnection(u) \/ DeleteConnection(u) \/ AddOrUpdateConnection(u))
    <3> SUFFICES ASSUME NEW u \in write.todo,
                        SkipConnection(u) \/ DeleteConnection(u) \/ AddOrUpdateConnection(u)
                 PROVE  FALSE
      OBVIOUS
    <3>1. Done(u)
      BY DEF SkipConnection, DeleteConnection, AddOrUpdateConnection
    <3>2. QED
      BY <1>1, <3>1, DoneKeeps
  <2>3. ~ RollbackFails
    <3>1. spent \in [requests : Nat, external : Nat, faults : Nat, refused : Nat]
      BY DEF IInv, Typed, Spending
    <3>2. Spend("refused") => spent'.refused = spent.refused + 1
      BY <3>1 DEF Spend
    <3>3. QED
      BY <3>1, <3>2 DEF RollbackFails
  <2>4. QED
    BY <2>1, <2>2, <2>3 DEF Next, WriteStep, SendUpdate, SendApply, ExternalAdd,
         ExternalRemove, Dispatch, AddOrUpdateFails, RollbackCheckpoint, FinishApply,
         FinishApplyFails
<1>5. QED
  BY <1>2, <1>3, <1>4

(* No write, be it finished, failed at its end or rolled back - but for a  *)
(* rollback that is refused, which leaves what was written - leaves        *)
(* NetworkManager with a port without its controller, when no controller   *)
(* of a configuration is the port of another: a connection is removed with *)
(* its direct controller only.  A controller is taken before its ports, a  *)
(* port that was skipped has the controller that was read for it, and what *)
(* a rollback leaves of the write stands on its own                        *)
(* (agama-network/src/nm/adapter.rs, write).                               *)
THEOREM PortsKeepControllerAlways ==
  ASSUME PlainPorts
  PROVE  Spec => PortsKeepController
<1> DEFINE Ends ==
             write # Idle /\ write' = Idle
               /\ IsUndisturbed /\ spent'.refused = spent.refused
               /\ HaveControllers(write.saved)
               /\ PortsOf(write.saved) \subseteq DOMAIN conns
<1>1. IInv /\ [Next]_vars => [Ends => HaveControllers(nm')]_vars
  <2> SUFFICES ASSUME IInv, Next, Ends
               PROVE  HaveControllers(nm')
    BY DEF vars
  <2>1. QED
    BY PortsStep
<1>2. QED
  BY <1>1, NetworkInvariant, PTL DEF Spec, PortsKeepController

------------------------------------------------------------------------------
(* What is written is what is wanted.  What Agama says of a connection is  *)
(* normal when it is something Agama reads, under the key it is written    *)
(* to, in a section that goes with the kind of the connection, and neither *)
(* a default nor an empty name.                                            *)
IsNormal(set) ==
  \A o \in DOMAIN set.says :
    /\ IsKnown(o) /\ o[1] \in WrittenSections(set)
    /\ MayBeUnsaid(set.kind, o) \/ set.says[o] # DefaultOf(set, o[1], o[2])
    /\ o = <<"connection", "interface-name">> => set.says[o] # Empty

(* What Agama cannot read it does not write of its own accord, nor does it *)
(* find it under another key.  A port that leaves its bridge loses the     *)
(* options of a port, which are not looked at.                             *)
PlainOptions ==
  \A o \in Options :
    /\ o[1] # "bridge-port"
    /\ ~ IsKnown(o) =>
         /\ o[2] \notin HandledByAgama \cup {"type", "autoconnect-slaves"}
         /\ \/ ReadKey(o[1], o[2]) = o[2]
            \/ <<o[1], ReadKey(o[1], o[2])>> \notin Options

NormalSettings ==
  /\ \A x \in DOMAIN Meaning : IsNormal(Meaning[x])
  /\ \A hash \in Foreign : IsReadable(hash) => IsNormal(ConnectionFromDbus(hash))

(* No configuration gives a connection of NetworkManager another kind.     *)
KindsKept ==
  \A u \in DOMAIN conns \cap DOMAIN nm :
    conns[u].set.kind = KindRead(nm[u].hash)

NormalSystem(sys) ==
  \A u \in DOMAIN sys :
    IsReadable(sys[u].hash) => IsNormal(ConnectionFromDbus(sys[u].hash))
NormalWanted(cs) == \A u \in DOMAIN cs : IsNormal(cs[u].set)
Normal ==
  /\ NormalSystem(nm) /\ NormalWanted(conns)
  /\ write # Idle => NormalSystem(write.saved)

(* What a connection is written on top of.                                 *)
EmptySections(set) == [s \in WrittenSections(set) |-> [k \in {} |-> Empty]]
Ground(u) ==
  IF u \in DOMAIN write.saved THEN write.saved[u].hash
  ELSE EmptySections(conns[u].set)
Outcome(ground, set, isBridgePort) ==
  Completed(MergeDbusConnections(ground, ConnectionToDbus(set), isBridgePort),
            set.kind)

(* A connection that was taken is as it was and as it is wanted, or it was *)
(* written, with its UUID or a new one.                                    *)
IsKept(u) == u \in DOMAIN nm /\ u \in DOMAIN write.saved
               /\ nm[u] = write.saved[u] /\ Unchanged(u)
IsBrought(u, v) ==
  /\ v \in DOMAIN nm
  /\ IF u \in DOMAIN write.saved THEN v = u
     ELSE v \notin DOMAIN conns \cup DOMAIN write.saved
  /\ nm[v].id = conns[u].id /\ nm[v].persistent = conns[u].persistent
  /\ nm[v].master = MasterFor(u)
  /\ nm[v].hash = Outcome(Ground(u), conns[u].set, IsBridgePort(u))
Bringing ==
  /\ \A u \in write.todo :
       /\ u \in DOMAIN nm <=> u \in DOMAIN write.saved
       /\ u \in DOMAIN nm => nm[u] = write.saved[u]
  /\ \A u \in DOMAIN conns \ write.todo :
       ~ IsRemoved(u) => IsKept(u) \/ \E v \in DOMAIN nm : IsBrought(u, v)
WantedKinds ==
  \A u \in DOMAIN conns \cap DOMAIN write.saved :
    conns[u].set.kind = KindRead(write.saved[u].hash)

WInv ==
  /\ Normal
  /\ write # Idle => WantedKinds
  /\ write # Idle /\ write.since.external = spent.external => Bringing

(* What Agama writes and reads of a connection.                            *)
LEMMA SameKind ==
  ASSUME NEW c, NEW d, c.kind = d.kind, NEW s, NEW k
  PROVE  /\ DefaultOf(c, s, k) = DefaultOf(d, s, k)
         /\ AlwaysWritten(c, s) = AlwaysWritten(d, s)
  BY DEF DefaultOf, AlwaysWritten

LEMMA OptionKeys ==
  ASSUME NEW o \in Options
  PROVE  o = <<o[1], o[2]>> /\ o[2] \in KeysOf(o[1])
  BY OptionsAssumption DEF KeysOf

LEMMA KnownIsOption ==
  ASSUME NEW o, IsKnown(o)
  PROVE  /\ o \in Options /\ o = <<o[1], o[2]>> /\ o[2] \in KeysOf(o[1])
         /\ o \in ReadOptions /\ ReadKey(o[1], o[2]) = o[2] /\ o[2] \in ReadKeys(o[1])
<1>1. o \in ReadOptions /\ ReadKey(o[1], o[2]) = o[2]
  BY DEF IsKnown
<1>2. o \in Options /\ o[2] \in ReadKeys(o[1])
  BY <1>1 DEF ReadOptions
<1>3. QED
  BY <1>1, <1>2, OptionKeys

LEMMA ReadTells ==
  ASSUME PlainOptions, NEW hash, IsHash(hash), NEW o
  PROVE  LET c == ConnectionFromDbus(hash)
         IN  /\ c.kind = KindRead(hash)
             /\ o \in DOMAIN c.says <=>
                  /\ IsKnown(o) /\ o[1] \in ReadSections(hash)
                  /\ o[2] \in DOMAIN hash[o[1]]
                  /\ \/ MayBeUnsaid(c.kind, o)
                     \/ hash[o[1]][o[2]] # DefaultOf(c, o[1], o[2])
             /\ o \in DOMAIN c.says => c.says[o] = hash[o[1]][o[2]]
<1> DEFINE c == ConnectionFromDbus(hash)
           kind == KindRead(hash)
           given == {p \in ReadOptions :
                       /\ p[1] \in ReadSections(hash)
                       /\ ReadKey(p[1], p[2]) \in DOMAIN hash[p[1]]
                       /\ \/ MayBeUnsaid(kind, p)
                          \/ ReadValue(hash, p) # DefaultOf([kind |-> kind], p[1], p[2])}
<1>1. c = [kind |-> kind, says |-> [p \in given |-> ReadValue(hash, p)]]
  BY DEF ConnectionFromDbus
<1>2. c.kind = kind /\ DOMAIN c.says = given /\ \A p \in given : c.says[p] = ReadValue(hash, p)
  BY <1>1
<1>3. \A s, k : DefaultOf([kind |-> kind], s, k) = DefaultOf(c, s, k)
  <2>1. [kind |-> kind].kind = c.kind
    BY <1>2
  <2> HIDE DEF c, kind
  <2>2. QED
    BY <2>1, SameKind
<1>4. ASSUME o \in given
      PROVE  IsKnown(o)
  <2>1. /\ o \in Options /\ o[1] \in DOMAIN hash
        /\ ReadKey(o[1], o[2]) \in DOMAIN hash[o[1]]
    BY <1>4 DEF ReadOptions, ReadSections
  <2>2. <<o[1], ReadKey(o[1], o[2])>> \in Options
    BY <2>1 DEF IsHash
  <2>3. QED
    BY <1>4, <2>1, <2>2 DEF PlainOptions, IsKnown
<1>5. IsKnown(o) => o \in ReadOptions /\ ReadKey(o[1], o[2]) = o[2]
                      /\ ReadValue(hash, o) = hash[o[1]][o[2]]
  BY DEF IsKnown, ReadValue
<1>6. o \in given <=>
        /\ IsKnown(o) /\ o[1] \in ReadSections(hash) /\ o[2] \in DOMAIN hash[o[1]]
        /\ \/ MayBeUnsaid(kind, o) \/ hash[o[1]][o[2]] # DefaultOf(c, o[1], o[2])
  <2> HIDE DEF c, kind
  <2>1. QED
    BY <1>3, <1>4, <1>5
<1> HIDE DEF c, kind, given
<1>7. QED
  BY <1>2, <1>4, <1>5, <1>6 DEF c, kind

LEMMA WrittenTells ==
  ASSUME NEW c, NEW s, NEW k
  PROVE  LET upd == SectionOf(ConnectionToDbus(c), s)
         IN  /\ k \in DOMAIN upd <=>
                  /\ s \in WrittenSections(c) /\ k \in KeysOf(s)
                  /\ k \in AlwaysWritten(c, s) \/ <<s, k>> \in DOMAIN c.says
             /\ k \in DOMAIN upd =>
                  upd[k] = IF <<s, k>> \in DOMAIN c.says THEN c.says[<<s, k>>]
                           ELSE DefaultOf(c, s, k)
<1> DEFINE Section == [h \in (AlwaysWritten(c, s) \cap KeysOf(s)) \cup Said(c, s) |->
                         IF h \in Said(c, s) THEN c.says[<<s, h>>] ELSE DefaultOf(c, s, h)]
<1>1. CASE s \in WrittenSections(c)
  <2>1. SectionOf(ConnectionToDbus(c), s) = Section
    BY <1>1 DEF SectionOf, ConnectionToDbus
  <2>2. QED
    BY <1>1, <2>1 DEF Said
<1>2. CASE s \notin WrittenSections(c)
  <2>1. SectionOf(ConnectionToDbus(c), s) = [h \in {} |-> Empty]
    BY <1>2 DEF SectionOf, ConnectionToDbus
  <2>2. QED
    BY <1>2, <2>1
<1>3. QED
  BY <1>1, <1>2

LEMMA OutcomeTells ==
  ASSUME NEW ground, NEW c, NEW isBridgePort
  PROVE  LET h == Outcome(ground, c, isBridgePort)
         IN  /\ DOMAIN h \subseteq DOMAIN ground \cup {c.kind}
             /\ c.kind \in DOMAIN h
             /\ \A s \in DOMAIN ground : s # "bridge-port" =>
                  /\ s \in DOMAIN h
                  /\ h[s] = CleanSection(s, MergeSection(ground[s], SectionOf(ConnectionToDbus(c), s)))
             /\ \A s \in DOMAIN h \ DOMAIN ground : DOMAIN h[s] = {}
<1> DEFINE Both(s) == MergeSection(ground[s], SectionOf(ConnectionToDbus(c), s))
           D == DOMAIN ground \ (IF isBridgePort THEN {} ELSE {"bridge-port"})
           merged == [s \in D |-> CleanSection(s, Both(s))]
           h == Outcome(ground, c, isBridgePort)
<1>1. MergeDbusConnections(ground, ConnectionToDbus(c), isBridgePort) = merged
  BY DEF MergeDbusConnections, CleanupDbusConnection
<1>2. h = [s \in D \cup {c.kind} |-> SectionOf(merged, s)]
  <2>1. DOMAIN merged = D
    OBVIOUS
  <2> HIDE DEF merged, D
  <2>2. QED
    BY <1>1, <2>1 DEF Outcome, Completed
<1>3. \A s \in D : SectionOf(merged, s) = CleanSection(s, Both(s))
  BY DEF SectionOf
<1>4. \A s : s \notin D => DOMAIN SectionOf(merged, s) = {}
  BY DEF SectionOf
<1>5. /\ \A s \in DOMAIN ground : s # "bridge-port" => s \in D
      /\ D \subseteq DOMAIN ground
  OBVIOUS
<1> HIDE DEF merged, D, Both, h
<1>6. /\ DOMAIN h = D \cup {c.kind}
      /\ \A s \in D : h[s] = CleanSection(s, Both(s))
      /\ \A s \in DOMAIN h \ D : DOMAIN h[s] = {}
  BY <1>2, <1>3, <1>4
<1>7. QED
  BY <1>5, <1>6 DEF h, Both

(* What cleaning leaves, and what it does not.                             *)
IsDisabled(ip) == "method" \in DOMAIN ip /\ ip["method"] = "disabled"

LEMMA CleanLeaves ==
  ASSUME NEW s, NEW m, NEW k \in DOMAIN m,
         s = "connection" /\ k \in HandledByAgama => m[k] # Empty,
         s \in {"ipv4", "ipv6"} =>
           /\ k \notin {"addresses", "dns"}
           /\ IsDisabled(m) => k = "method"
           /\ k = "gateway" => ~ IsEmpty(m, "address-data")
  PROVE  k \in DOMAIN CleanSection(s, m)
<1>1. CASE s = "connection"
  <2> DEFINE S == {h \in {"interface-name", "mac-address"} : IsEmpty(m, h)}
  <2>1. CleanSection(s, m) = Without(m, S)
    BY <1>1 DEF CleanSection
  <2>2. k \notin S
    BY <1>1 DEF IsEmpty, HandledByAgama
  <2> HIDE DEF S
  <2>3. QED
    BY <2>1, <2>2 DEF Without, Restrict
<1>2. CASE s \in {"ipv4", "ipv6"}
  <2>1. CleanSection(s, m) = CleanIp(m)
    BY <1>2 DEF CleanSection
  <2>2. CASE IsDisabled(m)
    <3>1. CleanIp(m) = Restrict(m, {"method"})
      BY <2>2 DEF CleanIp, IsDisabled
    <3>2. QED
      BY <1>2, <2>1, <2>2, <3>1 DEF Restrict
  <2>3. CASE ~ IsDisabled(m)
    <3> DEFINE S == {"addresses", "dns"}
                      \cup (IF IsEmpty(m, "address-data") THEN {"gateway"} ELSE {})
    <3>1. CleanIp(m) = Without(m, S)
      BY <2>3 DEF CleanIp, IsDisabled
    <3>2. k \notin S
      BY <1>2
    <3> HIDE DEF S
    <3>3. QED
      BY <2>1, <3>1, <3>2 DEF Without, Restrict
  <2>4. QED
    BY <2>2, <2>3
<1>3. CASE s \notin {"connection", "ipv4", "ipv6"}
  <2>1. CleanSection(s, m) = m \/ CleanSection(s, m) = CleanVlan(m)
    BY <1>3 DEF CleanSection
  <2>2. QED
    BY <2>1 DEF CleanVlan
<1>4. QED
  BY <1>1, <1>2, <1>3

LEMMA CleanValues ==
  ASSUME NEW s, NEW m, NEW k \in DOMAIN m, k \in DOMAIN CleanSection(s, m)
  PROVE  /\ CleanSection(s, m)[k] = m[k]
         /\ s = "connection" /\ k = "interface-name" => m[k] # Empty
<1>1. \A S : k \in DOMAIN Without(m, S) => Without(m, S)[k] = m[k] /\ k \notin S
  BY DEF Without, Restrict
<1>2. CASE s = "connection"
  <2>1. CleanSection(s, m) = Without(m, {h \in {"interface-name", "mac-address"} : IsEmpty(m, h)})
    BY <1>2 DEF CleanSection
  <2>2. QED
    BY <1>1, <2>1 DEF IsEmpty
<1>3. CASE s \in {"ipv4", "ipv6"}
  <2>1. CleanSection(s, m) = CleanIp(m)
    BY <1>3 DEF CleanSection
  <2>2. CleanIp(m) = Restrict(m, {"method"}) \/ \E S : CleanIp(m) = Without(m, S)
    BY DEF CleanIp
  <2>3. k \in DOMAIN Restrict(m, {"method"}) => Restrict(m, {"method"})[k] = m[k]
    BY DEF Restrict
  <2>4. QED
    BY <1>1, <1>3, <2>1, <2>2, <2>3
<1>4. CASE s \notin {"connection", "ipv4", "ipv6"}
  <2>1. CleanSection(s, m) = m \/ CleanSection(s, m) = CleanVlan(m)
    BY <1>4 DEF CleanSection
  <2>2. QED
    BY <1>4, <2>1 DEF CleanVlan
<1>5. QED
  BY <1>2, <1>3, <1>4

(* A connection and what it is written on top of: it gives what is there   *)
(* no other kind.                                                          *)
Fits(ground, c) ==
  /\ PlainOptions /\ IsHash(ground) /\ "connection" \in DOMAIN ground
  /\ IsSettings(c) /\ IsNormal(c)
  /\ KindRead(Completed(ground, c.kind)) = c.kind

LEMMA KindDepends ==
  ASSUME NEW f, NEW g, \A s \in Kinds : s \in DOMAIN f <=> s \in DOMAIN g
  PROVE  KindRead(f) = KindRead(g)
<1> DEFINE Is(h, j) == /\ KindOrder[j] \in DOMAIN h
                       /\ \A i \in DOMAIN KindOrder : KindOrder[i] \in DOMAIN h => j <= i
<1>1. \A j \in DOMAIN KindOrder : KindOrder[j] \in Kinds
  BY DEF Kinds, Range
<1>2. \A j \in DOMAIN KindOrder : Is(f, j) <=> Is(g, j)
  BY <1>1
<1>3. \A h : KindRead(h) = KindOrder[CHOOSE j \in DOMAIN KindOrder : Is(h, j)]
  BY DEF KindRead
<1>4. (CHOOSE j \in DOMAIN KindOrder : Is(f, j)) = (CHOOSE j \in DOMAIN KindOrder : Is(g, j))
  <2> HIDE DEF Is
  <2>1. QED
    BY <1>2
<1>5. QED
  BY <1>3, <1>4

LEMMA PlainIsNoKind == "bridge-port" \notin Kinds /\ "connection" \notin Kinds
  BY DEF Kinds, Range, KindOrder

(* What is written is read as a connection of the kind that is wanted.     *)
LEMMA OutcomeKind ==
  ASSUME NEW ground, NEW c, Fits(ground, c), NEW isBridgePort
  PROVE  LET h == Outcome(ground, c, isBridgePort)
         IN  IsHash(h) /\ IsReadable(h) /\ KindRead(h) = c.kind
<1> DEFINE h == Outcome(ground, c, isBridgePort)
<1>1. IsHash(ConnectionToDbus(c)) /\ c.kind \in Kinds
  BY ToDbusIsHash DEF Fits, IsSettings
<1>2. IsHash(h) /\ IsReadable(h)
  <2> DEFINE merged == MergeDbusConnections(ground, ConnectionToDbus(c), isBridgePort)
  <2>1. IsHash(merged) /\ "connection" \in DOMAIN merged
    BY <1>1, MergedIsHash DEF Fits
  <2>2. h = Completed(merged, c.kind)
    BY DEF Outcome
  <2> HIDE DEF merged, h
  <2>3. QED
    BY <1>1, <2>1, <2>2, CompletedIsHash
<1>3. /\ DOMAIN h \subseteq DOMAIN ground \cup {c.kind}
      /\ c.kind \in DOMAIN h
      /\ \A s \in DOMAIN ground : s # "bridge-port" => s \in DOMAIN h
  BY OutcomeTells
<1>4. DOMAIN Completed(ground, c.kind) = DOMAIN ground \cup {c.kind}
  BY DEF Completed
<1> HIDE DEF h
<1>5. KindRead(h) = KindRead(Completed(ground, c.kind))
  <2>1. \A s \in Kinds : s \in DOMAIN h <=> s \in DOMAIN Completed(ground, c.kind)
    BY <1>3, <1>4, PlainIsNoKind
  <2>2. QED
    BY <2>1, KindDepends
<1>6. QED
  BY <1>2, <1>5 DEF Fits, h

(* The sections that are written are read.                                 *)
LEMMA WrittenIsRead ==
  ASSUME NEW c, NEW h, KindRead(h) = c.kind, NEW s \in WrittenSections(c),
         s # "bridge-port", s \in DOMAIN h
  PROVE  s \in ReadSections(h)
  BY DEF WrittenSections, ReadSections, IsSecured, OptionalSections

(* A section of the outcome, before it is cleaned: the keys that are        *)
(* written, and those that were there and are not Agama's.                 *)
Update(c, s) == SectionOf(ConnectionToDbus(c), s)
Merged(ground, c, s) == MergeSection(ground[s], Update(c, s))

MergedIn(h, ground, c, s) ==
  /\ s \in DOMAIN h /\ h[s] = CleanSection(s, Merged(ground, c, s))
  /\ DOMAIN Merged(ground, c, s) = (DOMAIN ground[s] \ HandledByAgama) \cup DOMAIN Update(c, s)
  /\ \A k \in DOMAIN Update(c, s) : Merged(ground, c, s)[k] = Update(c, s)[k]
  /\ \A k \in DOMAIN Merged(ground, c, s) :
       k \notin DOMAIN Update(c, s) => Merged(ground, c, s)[k] = ground[s][k]

LEMMA MergedTells ==
  ASSUME NEW ground, NEW c, NEW isBridgePort,
         NEW s, s \in DOMAIN ground, s # "bridge-port"
  PROVE  MergedIn(Outcome(ground, c, isBridgePort), ground, c, s)
<1>1. /\ s \in DOMAIN Outcome(ground, c, isBridgePort)
      /\ Outcome(ground, c, isBridgePort)[s] = CleanSection(s, Merged(ground, c, s))
  BY OutcomeTells DEF Merged, Update
<1>2. /\ DOMAIN Merged(ground, c, s)
           = (DOMAIN ground[s] \ HandledByAgama) \cup DOMAIN Update(c, s)
      /\ \A k \in DOMAIN Update(c, s) : Merged(ground, c, s)[k] = Update(c, s)[k]
      /\ \A k \in DOMAIN Merged(ground, c, s) :
           k \notin DOMAIN Update(c, s) => Merged(ground, c, s)[k] = ground[s][k]
  BY MergedSection DEF Merged
<1>3. QED
  BY <1>1, <1>2 DEF MergedIn

(* What is said is written and read again, if it makes sense.              *)
LEMMA SaysStay ==
  ASSUME NEW ground, NEW c, Fits(ground, c), NEW isBridgePort,
         NEW o \in DOMAIN c.says, o[1] \in DOMAIN ground,
         o[1] \in {"ipv4", "ipv6"} =>
           /\ <<o[1], "method">> \in DOMAIN c.says /\ c.says[<<o[1], "method">>] = "disabled"
                => o[2] = "method"
           /\ o[2] = "gateway" => /\ <<o[1], "address-data">> \in DOMAIN c.says
                                  /\ c.says[<<o[1], "address-data">>] # Empty
  PROVE  LET d == ConnectionFromDbus(Outcome(ground, c, isBridgePort))
         IN  o \in DOMAIN d.says /\ d.says[o] = c.says[o]
<1> DEFINE h == Outcome(ground, c, isBridgePort)
           d == ConnectionFromDbus(h)
           s == o[1]
           k == o[2]
           upd == Update(c, s)
           m == Merged(ground, c, s)
<1>1. /\ IsKnown(o) /\ s \in WrittenSections(c) /\ o = <<s, k>> /\ k \in KeysOf(s)
      /\ s # "bridge-port" /\ k \in ReadKeys(s)
      /\ MayBeUnsaid(c.kind, o) \/ c.says[o] # DefaultOf(c, s, k)
      /\ o = <<"connection", "interface-name">> => c.says[o] # Empty
  BY KnownIsOption DEF Fits, IsNormal, PlainOptions
<1>2. k \in DOMAIN upd /\ upd[k] = c.says[o]
  BY <1>1, WrittenTells DEF Update
<1>3. /\ s \in DOMAIN h /\ h[s] = CleanSection(s, m)
      /\ DOMAIN m = (DOMAIN ground[s] \ HandledByAgama) \cup DOMAIN upd
      /\ \A x \in DOMAIN upd : m[x] = upd[x]
      /\ \A x \in DOMAIN m : x \notin DOMAIN upd => m[x] = ground[s][x]
  <2>1. MergedIn(h, ground, c, s)
    BY <1>1, MergedTells
  <2>2. QED
    BY <2>1 DEF MergedIn
<1>4. k \in DOMAIN m /\ m[k] = c.says[o]
  BY <1>2, <1>3
<1>5. s = "connection" /\ k \in HandledByAgama => m[k] # Empty
  <2>1. ReadKeys("connection") = {"interface-name", "firewall-zone", "autoconnect"}
    BY DEF ReadKeys
  <2>2. QED
    BY <1>1, <1>4, <2>1 DEF HandledByAgama
<1>6. ASSUME s \in {"ipv4", "ipv6"}
      PROVE  /\ k \notin {"addresses", "dns"}
             /\ IsDisabled(m) => k = "method"
             /\ k = "gateway" => ~ IsEmpty(m, "address-data")
  <2>1. k \notin {"addresses", "dns"}
    <3>1. ReadKeys(s) = IpRead(s) \cup DhcpRead(s)
      BY <1>6 DEF ReadKeys
    <3>2. k \in IpRead(s) \cup DhcpRead(s)
      BY <1>1, <3>1
    <3> HIDE DEF s, k
    <3>3. QED
      BY <3>2 DEF IpRead, IpWritten, DhcpRead
  <2>2. ASSUME IsDisabled(m)
        PROVE  k = "method"
    <3>1. "method" \in AlwaysWritten(c, s)
      BY <1>6 DEF AlwaysWritten, IpWritten
    <3>2. "method" \in DOMAIN m /\ m["method"] = "disabled"
      BY <2>2 DEF IsDisabled
    <3>3. "method" \in KeysOf(s)
      <4>1. CASE "method" \in DOMAIN upd
        BY <4>1, WrittenTells DEF Update
      <4>2. CASE "method" \in DOMAIN ground[s]
        <5>1. <<s, "method">> \in Options
          BY <4>2 DEF Fits, IsHash
        <5>2. <<s, "method">>[1] = s /\ <<s, "method">>[2] = "method"
          OBVIOUS
        <5>3. QED
          BY <5>1, <5>2 DEF KeysOf
      <4>3. QED
        BY <1>3, <3>2, <4>1, <4>2
    <3>4. "method" \in DOMAIN upd
      BY <1>1, <3>1, <3>3, WrittenTells DEF Update
    <3>5. upd["method"] = IF <<s, "method">> \in DOMAIN c.says THEN c.says[<<s, "method">>]
                          ELSE DefaultOf(c, s, "method")
      BY <3>4, WrittenTells DEF Update
    <3>6. DefaultOf(c, s, "method") # "disabled"
      BY <1>6 DEF DefaultOf
    <3> HIDE DEF s, k, upd, m
    <3>7. <<s, "method">> \in DOMAIN c.says /\ c.says[<<s, "method">>] = "disabled"
      BY <1>3, <3>2, <3>4, <3>5, <3>6
    <3>8. QED
      BY <1>6, <3>7 DEF s, k
  <2>3. ASSUME k = "gateway"
        PROVE  ~ IsEmpty(m, "address-data")
    <3>1. <<s, "address-data">> \in DOMAIN c.says /\ c.says[<<s, "address-data">>] # Empty
      BY <1>6, <2>3
    <3>2. "address-data" \in KeysOf(s)
      <4>1. <<s, "address-data">> \in Options
        BY <3>1, KnownIsOption DEF Fits, IsNormal
      <4>2. <<s, "address-data">>[1] = s /\ <<s, "address-data">>[2] = "address-data"
        OBVIOUS
      <4>3. QED
        BY <4>1, <4>2 DEF KeysOf
    <3>3. "address-data" \in DOMAIN upd /\ upd["address-data"] = c.says[<<s, "address-data">>]
      BY <1>1, <3>1, <3>2, WrittenTells DEF Update
    <3> HIDE DEF s, k, upd, m
    <3>4. QED
      BY <1>3, <3>1, <3>3 DEF IsEmpty
  <2>4. QED
    BY <2>1, <2>2, <2>3
<1> HIDE DEF upd, m
<1>7. k \in DOMAIN h[s] /\ h[s][k] = c.says[o]
  BY <1>3, <1>4, <1>5, <1>6, CleanLeaves, CleanValues
<1>8. IsHash(h) /\ KindRead(h) = c.kind
  BY OutcomeKind
<1> HIDE DEF h
<1>9. s \in ReadSections(h)
  BY <1>1, <1>3, <1>8, WrittenIsRead
<1>10. d.kind = c.kind
  BY <1>8, ReadTells DEF Fits
<1>11. DefaultOf(d, s, k) = DefaultOf(c, s, k)
  BY <1>10, SameKind
<1> HIDE DEF s, k
<1>12. o \in DOMAIN d.says /\ d.says[o] = h[s][k]
  BY <1>1, <1>7, <1>8, <1>9, <1>10, <1>11, ReadTells DEF Fits, s, k
<1>13. QED
  BY <1>7, <1>12 DEF d, h

(* What is always written and not said has its default afterwards.         *)
LEMMA NothingElseStays ==
  ASSUME NEW ground, NEW c, Fits(ground, c), NEW isBridgePort, NEW o
  PROVE  LET d == ConnectionFromDbus(Outcome(ground, c, isBridgePort))
         IN  /\ o \in DOMAIN d.says \ DOMAIN c.says
             /\ o[1] \in WrittenSections(c) /\ o[2] \in AlwaysWritten(c, o[1])
             => d.says[o] = DefaultOf(c, o[1], o[2])
<1> DEFINE h == Outcome(ground, c, isBridgePort)
           d == ConnectionFromDbus(h)
           s == o[1]
           k == o[2]
           upd == Update(c, s)
           m == Merged(ground, c, s)
<1>1. SUFFICES ASSUME o \in DOMAIN d.says, o \notin DOMAIN c.says,
                      s \in WrittenSections(c), k \in AlwaysWritten(c, s)
               PROVE  d.says[o] = DefaultOf(c, s, k)
  OBVIOUS
<1>2. IsHash(h) /\ KindRead(h) = c.kind
  BY OutcomeKind
<1>3. /\ IsKnown(o) /\ s \in ReadSections(h) /\ k \in DOMAIN h[s] /\ d.says[o] = h[s][k]
  <2> HIDE DEF h
  <2>1. QED
    BY <1>1, <1>2, ReadTells DEF Fits
<1>4. o = <<s, k>> /\ k \in KeysOf(s) /\ s # "bridge-port"
  BY <1>3, KnownIsOption DEF Fits, PlainOptions
<1>5. s \in DOMAIN h
  <2> HIDE DEF h, s
  <2>1. QED
    BY <1>3 DEF ReadSections
<1>6. s \in DOMAIN ground
  BY <1>3, <1>5, OutcomeTells
<1>7. /\ h[s] = CleanSection(s, m)
      /\ \A x \in DOMAIN upd : m[x] = upd[x]
      /\ DOMAIN m = (DOMAIN ground[s] \ HandledByAgama) \cup DOMAIN upd
  <2>1. MergedIn(h, ground, c, s)
    BY <1>4, <1>6, MergedTells
  <2>2. QED
    BY <2>1 DEF MergedIn
<1>8. k \in DOMAIN upd /\ upd[k] = DefaultOf(c, s, k)
  BY <1>1, <1>4, WrittenTells DEF Update
<1> HIDE DEF h, upd, m
<1>9. h[s][k] = m[k]
  BY <1>3, <1>7, <1>8, CleanValues
<1>10. QED
  BY <1>3, <1>7, <1>8, <1>9

(* What Agama cannot read stays as it was.                                 *)
LEMMA UnknownStays ==
  ASSUME NEW ground, NEW c, Fits(ground, c), NEW isBridgePort,
         NEW o \in Options, ~ IsKnown(o), o[1] \notin {"ipv4", "ipv6"}, Has(ground, o)
  PROVE  LET h == Outcome(ground, c, isBridgePort)
         IN  Has(h, o) /\ h[o[1]][o[2]] = ground[o[1]][o[2]]
<1> DEFINE h == Outcome(ground, c, isBridgePort)
           s == o[1]
           k == o[2]
           upd == Update(c, s)
           m == Merged(ground, c, s)
<1>1. /\ s \in DOMAIN ground /\ k \in DOMAIN ground[s] /\ s # "bridge-port"
      /\ k \notin HandledByAgama /\ k \notin {"type", "autoconnect-slaves"}
      /\ o = <<s, k>>
  BY OptionKeys DEF Has, Fits, PlainOptions
<1>2. o \notin DOMAIN c.says
  BY DEF Fits, IsNormal
<1>3. k \notin AlwaysWritten(c, s)
  <2>1. ASSUME k \in AlwaysWritten(c, s)
        PROVE  k \in ReadKeys(s) /\ ReadKey(s, k) = k
    <3> HIDE DEF k, s
    <3>1. s \notin {"ipv4", "ipv6"} /\ k \notin {"type", "autoconnect-slaves"}
      BY <1>1 DEF s
    <3>2. k \in ReadKeys(s)
      BY <2>1, <3>1 DEF AlwaysWritten, ReadKeys, MatchWritten, EthernetWritten, EthernetRead,
         WirelessWritten, WirelessRead, SecurityWritten, SecurityRead, BondWritten, VlanWritten,
         VlanRead, InfinibandWritten, InfinibandRead, TunWritten, TunRead, OvsInterfaceWritten,
         Ieee8021xWritten, Ieee8021xRead
    <3>3. ReadKey(s, k) = k
      BY <2>1, <3>1 DEF AlwaysWritten, ReadKey
    <3>4. QED
      BY <3>2, <3>3
  <2>2. QED
    BY <2>1 DEF IsKnown, ReadOptions
<1>4. k \notin DOMAIN upd
  BY <1>1, <1>2, <1>3, WrittenTells DEF Update
<1>5. /\ s \in DOMAIN h /\ h[s] = CleanSection(s, m)
      /\ DOMAIN m = (DOMAIN ground[s] \ HandledByAgama) \cup DOMAIN upd
      /\ \A x \in DOMAIN m : x \notin DOMAIN upd => m[x] = ground[s][x]
  <2>1. MergedIn(h, ground, c, s)
    BY <1>1, MergedTells
  <2>2. QED
    BY <2>1 DEF MergedIn
<1> HIDE DEF h, upd, m
<1>6. k \in DOMAIN m /\ m[k] = ground[s][k]
  BY <1>1, <1>4, <1>5
<1>7. k \in DOMAIN h[s] /\ h[s][k] = m[k]
  BY <1>1, <1>5, <1>6, CleanLeaves, CleanValues
<1>8. QED
  BY <1>5, <1>6, <1>7 DEF Has, h

(* A section that is not written stays, without what Agama handles.        *)
UnwrittenStay(d, e, s) ==
  \A o \in Options : o[1] = s =>
    (o \in DOMAIN d.says <=> o \in DOMAIN e.says /\ o[2] \notin HandledByAgama)

LEMMA UnwrittenStays ==
  ASSUME NEW ground, NEW c, Fits(ground, c), NEW isBridgePort,
         KindRead(ground) = c.kind,
         NEW s, s \in DOMAIN ground, s \notin WrittenSections(c),
         s \notin {"connection", "ipv4", "ipv6", "vlan", "bridge-port"}
  PROVE  UnwrittenStay(ConnectionFromDbus(Outcome(ground, c, isBridgePort)),
                       ConnectionFromDbus(ground), s)
<1> DEFINE h == Outcome(ground, c, isBridgePort)
           d == ConnectionFromDbus(h)
           e == ConnectionFromDbus(ground)
           m == Merged(ground, c, s)
           upd == Update(c, s)
<1>1. DOMAIN upd = {}
  BY WrittenTells DEF Update
<1>2. /\ s \in DOMAIN h /\ h[s] = CleanSection(s, m)
      /\ DOMAIN m = (DOMAIN ground[s] \ HandledByAgama) \cup DOMAIN upd
      /\ \A x \in DOMAIN m : x \notin DOMAIN upd => m[x] = ground[s][x]
  <2>1. MergedIn(h, ground, c, s)
    BY MergedTells
  <2>2. QED
    BY <2>1 DEF MergedIn
<1>3. CleanSection(s, m) = m
  BY DEF CleanSection
<1> HIDE DEF m, upd
<1>4. /\ DOMAIN h[s] = DOMAIN ground[s] \ HandledByAgama
      /\ \A x \in DOMAIN h[s] : h[s][x] = ground[s][x]
  BY <1>1, <1>2, <1>3
<1>5. IsHash(h) /\ KindRead(h) = c.kind /\ IsHash(ground)
  BY OutcomeKind DEF Fits
<1>6. s \in ReadSections(h) <=> s \in ReadSections(ground)
  <2> HIDE DEF h
  <2>1. QED
    BY <1>2, <1>5 DEF ReadSections
<1> HIDE DEF h
<1>7. ASSUME NEW o \in Options, o[1] = s
      PROVE  o \in DOMAIN d.says <=> o \in DOMAIN e.says /\ o[2] \notin HandledByAgama
  <2>1. /\ d.kind = c.kind
        /\ o \in DOMAIN d.says <=>
             /\ IsKnown(o) /\ o[1] \in ReadSections(h) /\ o[2] \in DOMAIN h[o[1]]
             /\ MayBeUnsaid(d.kind, o) \/ h[o[1]][o[2]] # DefaultOf(d, o[1], o[2])
    BY <1>5, ReadTells DEF Fits
  <2>2. /\ e.kind = c.kind
        /\ o \in DOMAIN e.says <=>
             /\ IsKnown(o) /\ o[1] \in ReadSections(ground) /\ o[2] \in DOMAIN ground[o[1]]
             /\ MayBeUnsaid(e.kind, o) \/ ground[o[1]][o[2]] # DefaultOf(e, o[1], o[2])
    BY <1>5, ReadTells DEF Fits
  <2>3. DefaultOf(d, o[1], o[2]) = DefaultOf(e, o[1], o[2])
    BY <2>1, <2>2, SameKind
  <2> HIDE DEF d, e
  <2>4. QED
    BY <1>4, <1>6, <1>7, <2>1, <2>2, <2>3
<1>8. QED
  BY <1>7 DEF UnwrittenStay, h

(* What NetworkManager has of a connection Agama wrote is normal, when it  *)
(* was before or there was nothing.                                        *)
LEMMA OutcomeIsNormal ==
  ASSUME NEW ground, NEW c, Fits(ground, c), NEW isBridgePort,
         \/ KindRead(ground) = c.kind /\ IsNormal(ConnectionFromDbus(ground))
         \/ \A s \in DOMAIN ground : DOMAIN ground[s] = {}
  PROVE  IsNormal(ConnectionFromDbus(Outcome(ground, c, isBridgePort)))
<1> DEFINE h == Outcome(ground, c, isBridgePort)
           d == ConnectionFromDbus(h)
           e == ConnectionFromDbus(ground)
<1>1. IsHash(h) /\ KindRead(h) = c.kind /\ d.kind = c.kind
  <2>1. IsHash(h) /\ KindRead(h) = c.kind
    BY OutcomeKind
  <2> HIDE DEF h
  <2>2. QED
    BY <2>1, ReadTells DEF Fits
<1>2. SUFFICES ASSUME NEW o \in DOMAIN d.says
               PROVE  /\ IsKnown(o) /\ o[1] \in WrittenSections(d)
                      /\ MayBeUnsaid(d.kind, o) \/ d.says[o] # DefaultOf(d, o[1], o[2])
                      /\ o = <<"connection", "interface-name">> => d.says[o] # Empty
  BY DEF IsNormal
<1> DEFINE s == o[1]
           k == o[2]
           m == Merged(ground, c, s)
           upd == Update(c, s)
<1>3. /\ IsKnown(o) /\ s \in ReadSections(h) /\ k \in DOMAIN h[s] /\ d.says[o] = h[s][k]
      /\ MayBeUnsaid(d.kind, o) \/ h[s][k] # DefaultOf(d, s, k)
  <2> HIDE DEF h
  <2>1. QED
    BY <1>1, ReadTells DEF Fits
<1>4. /\ o \in Options /\ o = <<s, k>> /\ k \in ReadKeys(s) /\ s # "bridge-port"
      /\ s \in Sections
  BY <1>3, KnownIsOption DEF Sections, Fits, PlainOptions
<1>5. s \in DOMAIN h /\ s \in DOMAIN ground
  <2>1. s \in DOMAIN h
    BY <1>3 DEF ReadSections
  <2>2. QED
    BY <1>3, <2>1, OutcomeTells
<1>6. MergedIn(h, ground, c, s)
  BY <1>4, <1>5, MergedTells
<1>7. ASSUME o = <<"connection", "interface-name">>
      PROVE  d.says[o] # Empty
  <2>1. s = "connection" /\ k = "interface-name"
    BY <1>7
  <2>2. h[s] = CleanSection(s, m)
    BY <1>6 DEF MergedIn
  <2> HIDE DEF m, h
  <2>3. k \in DOMAIN m
    BY <1>3, <2>1, <2>2 DEF CleanSection, Without, Restrict
  <2>4. QED
    BY <1>3, <2>1, <2>2, <2>3, CleanValues
<1>8. ASSUME s \notin WrittenSections(c),
             s \notin {"connection", "ipv4", "ipv6", "vlan", "bridge-port"}
      PROVE  /\ IsNormal(e) /\ e.kind = c.kind /\ o \in DOMAIN e.says
             /\ UnwrittenStay(d, e, s)
  <2>1. DOMAIN upd = {}
    BY <1>8, WrittenTells DEF Update
  <2>2. h[s] = m
    BY <1>6, <1>8 DEF MergedIn, CleanSection
  <2>3. k \in DOMAIN ground[s]
    <3> HIDE DEF m
    <3>1. QED
      BY <1>3, <1>6, <2>1, <2>2 DEF MergedIn, m, upd
  <2>4. KindRead(ground) = c.kind /\ IsNormal(e)
    BY <1>5, <2>3
  <2>5. e.kind = c.kind
    BY <2>4, ReadTells DEF Fits
  <2>6. UnwrittenStay(d, e, s)
    BY <1>5, <1>8, <2>4, UnwrittenStays
  <2>7. QED
    BY <1>4, <2>4, <2>5, <2>6 DEF UnwrittenStay
<1> HIDE DEF h, d, e
<1>9. \/ s \in {"connection", "ipv4", "ipv6", "match", "802-1x", "802-3-ethernet", c.kind}
      \/ c.kind = "802-11-wireless" /\ s = "802-11-wireless-security"
  BY <1>1, <1>3, <1>4 DEF ReadSections
<1>10. ASSUME s \in {"connection", "ipv4", "ipv6", "match"}
       PROVE  s \in WrittenSections(d)
  BY <1>4, <1>10 DEF WrittenSections
<1>11. ASSUME s = "802-1x"
       PROVE  s \in WrittenSections(d)
  BY <1>4, <1>11 DEF WrittenSections, OptionalSections
<1>12. ASSUME s = c.kind /\ s # "802-3-ethernet"
       PROVE  s \in WrittenSections(d)
  <2>1. s \notin {"loopback", "dummy"}
    BY <1>4 DEF ReadKeys
  <2>2. s \in {d.kind} \ PlainKinds
    BY <1>1, <1>12, <2>1 DEF PlainKinds
  <2>3. QED
    BY <1>4, <2>2 DEF WrittenSections
<1>13. ASSUME s = "802-3-ethernet"
       PROVE  s \in WrittenSections(d)
  <2>1. c.kind \in EthernetKinds
    <3>1. CASE s \in WrittenSections(c)
      BY <1>13, <3>1 DEF WrittenSections, PlainKinds, OptionalSections
    <3>2. CASE s \notin WrittenSections(c)
      <4>1. s \in WrittenSections(e) /\ e.kind = c.kind
        BY <1>8, <1>13, <3>2 DEF IsNormal
      <4>2. QED
        BY <1>13, <4>1 DEF WrittenSections, PlainKinds, OptionalSections
    <3>3. QED
      BY <3>1, <3>2
  <2>2. QED
    BY <1>1, <1>4, <1>13, <2>1 DEF WrittenSections
<1>14. ASSUME c.kind = "802-11-wireless" /\ s = "802-11-wireless-security"
       PROVE  s \in WrittenSections(d)
  <2>1. IsSecured(d)
    <3>1. CASE IsSecured(c)
      <4>1. PICK key \in {"key-mgmt", "wep-key-type"} :
              <<"802-11-wireless-security", key>> \in DOMAIN c.says
        BY <3>1 DEF IsSecured
      <4> DEFINE p == <<"802-11-wireless-security", key>>
      <4>2. p \in DOMAIN d.says
        <5>1. p[1] = "802-11-wireless-security"
          OBVIOUS
        <5> HIDE DEF p
        <5>2. p \in DOMAIN c.says /\ p[1] \in DOMAIN ground
          BY <1>5, <1>14, <4>1, <5>1 DEF p
        <5>3. QED
          BY <5>1, <5>2, SaysStay DEF d, h
      <4>3. QED
        BY <1>1, <1>14, <4>2 DEF IsSecured
    <3>2. CASE ~ IsSecured(c)
      <4>1. s \notin WrittenSections(c)
        BY <1>14, <3>2 DEF WrittenSections, EthernetKinds, OptionalSections
      <4>2. /\ IsNormal(e) /\ e.kind = c.kind /\ o \in DOMAIN e.says
            /\ UnwrittenStay(d, e, s)
        BY <1>8, <1>14, <4>1
      <4>3. s \in WrittenSections(e)
        BY <4>2 DEF IsNormal
      <4>4. IsSecured(e)
        BY <1>14, <4>2, <4>3 DEF WrittenSections, EthernetKinds, OptionalSections
      <4>5. PICK key \in {"key-mgmt", "wep-key-type"} :
              <<"802-11-wireless-security", key>> \in DOMAIN e.says
        BY <4>4 DEF IsSecured
      <4> DEFINE p == <<"802-11-wireless-security", key>>
      <4>6. p[1] = s /\ p[2] = key
        BY <1>14
      <4> HIDE DEF p
      <4>7. p \in DOMAIN e.says /\ p \in Options
        BY <4>2, <4>5, KnownIsOption DEF p, IsNormal
      <4>8. p \in DOMAIN d.says
        BY <4>2, <4>6, <4>7 DEF UnwrittenStay, HandledByAgama
      <4>9. QED
        BY <1>1, <1>14, <4>8 DEF IsSecured, p
    <3>3. QED
      BY <3>1, <3>2
  <2>2. QED
    BY <1>4, <1>14, <2>1 DEF WrittenSections
<1>15. s \in WrittenSections(d)
  BY <1>9, <1>10, <1>11, <1>12, <1>13, <1>14
<1>16. QED
  BY <1>3, <1>7, <1>15

(* Settings of a profile and new ones are normal.                          *)
LEMMA ProfileIsNormal ==
  ASSUME NEW set, IsSettings(set), IsNormal(set)
  PROVE  IsNormal(FromProfile(set))
<1> DEFINE says == Restrict(set.says, {o \in DOMAIN set.says : o[2] # "assigned-mac-address"})
           f == FromProfile(set)
<1>1. f.kind = set.kind /\ f.says = says
  <2> HIDE DEF says
  <2>1. set = [kind |-> set.kind, says |-> set.says]
    BY DEF IsSettings
  <2>2. f = [set EXCEPT !.says = says]
    BY DEF FromProfile, says
  <2>3. QED
    BY <2>1, <2>2
<1>2. \A o : o \in DOMAIN says <=> o \in DOMAIN set.says /\ o[2] # "assigned-mac-address"
  BY DEF Restrict
<1>3. \A o \in DOMAIN says : says[o] = set.says[o]
  BY DEF Restrict
<1> HIDE DEF says, f
<1>4. IsSecured(set) => IsSecured(f)
  <2> SUFFICES ASSUME IsSecured(set)
               PROVE  IsSecured(f)
    OBVIOUS
  <2>1. PICK k \in {"key-mgmt", "wep-key-type"} :
          <<"802-11-wireless-security", k>> \in DOMAIN set.says
    BY DEF IsSecured
  <2>2. <<"802-11-wireless-security", k>>[2] = k /\ k # "assigned-mac-address"
    OBVIOUS
  <2>3. QED
    BY <1>1, <1>2, <2>1, <2>2 DEF IsSecured
<1>5. ASSUME NEW o \in DOMAIN f.says
      PROVE  /\ IsKnown(o) /\ o[1] \in WrittenSections(f)
             /\ MayBeUnsaid(f.kind, o) \/ f.says[o] # DefaultOf(f, o[1], o[2])
             /\ o = <<"connection", "interface-name">> => f.says[o] # Empty
  <2>1. /\ o \in DOMAIN set.says /\ f.says[o] = set.says[o]
    BY <1>1, <1>2, <1>3
  <2>2. /\ IsKnown(o) /\ o[1] \in WrittenSections(set)
        /\ MayBeUnsaid(set.kind, o) \/ set.says[o] # DefaultOf(set, o[1], o[2])
        /\ o = <<"connection", "interface-name">> => set.says[o] # Empty
    BY <2>1 DEF IsNormal
  <2>3. o[1] \in WrittenSections(f)
    <3>1. o[1] \in OptionalSections(set) => o[1] \in OptionalSections(f)
      BY DEF OptionalSections
    <3>2. QED
      BY <1>1, <1>4, <2>2, <3>1 DEF WrittenSections
  <2>4. DefaultOf(f, o[1], o[2]) = DefaultOf(set, o[1], o[2])
    BY <1>1, SameKind
  <2>5. QED
    BY <1>1, <2>1, <2>2, <2>3, <2>4
<1>6. QED
  BY <1>5 DEF IsNormal, f

LEMMA DefaultIsNormal == IsNormal(Default)
<1>1. DOMAIN Default.says = {}
  BY DEF Default
<1>2. QED
  BY <1>1 DEF IsNormal

(* The kind that is read is a section of the connection.                   *)
LEMMA KindIsThere ==
  ASSUME NEW hash, IsReadable(hash)
  PROVE  KindRead(hash) \in DOMAIN hash
<1> DEFINE D == DOMAIN KindOrder
           HasKind(j) == KindOrder[j] \in DOMAIN hash
           J == {j \in D : HasKind(j)}
           First(j) == HasKind(j) /\ \A i \in D : HasKind(i) => j <= i
<1>1. D = 1 .. 12
  BY DEF KindOrder
<1>2. J # {}
  BY DEF IsReadable, Kinds, Range
<1>3. \E j \in D : First(j)
  <2>1. J \subseteq Nat
    BY <1>1
  <2>2. \E j \in J : \A i \in J : j <= i
    <3> HIDE DEF J
    <3> QED
      BY <1>2, <2>1, Smallest
  <2> HIDE DEF D, HasKind
  <2>3. QED
    BY <2>2
<1>4. KindRead(hash) = KindOrder[CHOOSE j \in D : First(j)]
  BY DEF KindRead
<1>5. First(CHOOSE j \in D : First(j))
  <2> HIDE DEF D, First
  <2>1. QED
    BY <1>3
<1>6. QED
  BY <1>4, <1>5

LEMMA KindOfWritten ==
  ASSUME NEW hash, NEW kind \in Kinds, kind \in DOMAIN hash,
         Kinds \cap DOMAIN hash \subseteq {kind, "802-3-ethernet"}
  PROVE  KindRead(hash) = kind
<1> DEFINE D == DOMAIN KindOrder
           HasKind(j) == KindOrder[j] \in DOMAIN hash
           First(j) == HasKind(j) /\ \A i \in D : HasKind(i) => j <= i
<1>1. D = 1 .. 12
  BY DEF KindOrder
<1>2. \A i, j \in 1 .. 12 : KindOrder[i] = KindOrder[j] => i = j
  BY DEF KindOrder
<1>3. KindOrder[12] = "802-3-ethernet"
  BY DEF KindOrder
<1>4. \A j \in D : KindOrder[j] \in Kinds
  BY DEF Kinds, Range
<1>5. PICK n \in D : KindOrder[n] = kind
  BY DEF Kinds, Range
<1>6. First(n)
  <2>1. HasKind(n)
    BY <1>5
  <2>2. ASSUME NEW i \in D, HasKind(i)
        PROVE  n <= i
    <3>1. KindOrder[i] = KindOrder[n] \/ KindOrder[i] = KindOrder[12]
      BY <1>3, <1>4, <1>5, <2>2
    <3>2. i = n \/ i = 12
      BY <1>1, <1>2, <3>1
    <3>3. QED
      BY <1>1, <3>2
  <2>3. QED
    BY <2>1, <2>2
<1>7. \A j \in D : First(j) => j = n
  <2> SUFFICES ASSUME NEW j \in D, First(j)
               PROVE  j = n
    OBVIOUS
  <2>1. j <= n /\ n <= j
    BY <1>6
  <2>2. QED
    BY <1>1, <2>1
<1>8. KindRead(hash) = KindOrder[CHOOSE j \in D : First(j)]
  BY DEF KindRead
<1>9. (CHOOSE j \in D : First(j)) = n
  <2> HIDE DEF D, First
  <2>1. QED
    BY <1>6, <1>7
<1>10. QED
  BY <1>5, <1>8, <1>9

(* What a connection is written on top of fits it.                         *)
LEMMA ReadableFits ==
  ASSUME PlainOptions, NEW hash, IsHash(hash), IsReadable(hash),
         NEW c, IsSettings(c), IsNormal(c), KindRead(hash) = c.kind
  PROVE  Fits(hash, c)
<1>1. c.kind \in DOMAIN hash /\ "connection" \in DOMAIN hash
  BY KindIsThere DEF IsReadable
<1>2. DOMAIN Completed(hash, c.kind) = DOMAIN hash
  BY <1>1 DEF Completed
<1>3. KindRead(Completed(hash, c.kind)) = KindRead(hash)
  BY <1>2, KindDepends
<1>4. QED
  BY <1>1, <1>3 DEF Fits

LEMMA NothingFits ==
  ASSUME PlainOptions, NEW c, IsSettings(c), IsNormal(c)
  PROVE  /\ Fits(EmptySections(c), c)
         /\ DOMAIN EmptySections(c) = WrittenSections(c)
         /\ \A s \in DOMAIN EmptySections(c) : DOMAIN EmptySections(c)[s] = {}
<1> DEFINE g == EmptySections(c)
<1>1. DOMAIN g = WrittenSections(c) /\ \A s \in DOMAIN g : DOMAIN g[s] = {}
  BY DEF EmptySections
<1> HIDE DEF g
<1>2. "connection" \in DOMAIN g
  BY <1>1 DEF WrittenSections, Sections
<1>3. IsHash(g)
  BY <1>1 DEF IsHash
<1>4. c.kind \in Kinds
  BY DEF IsSettings
<1>5. DOMAIN Completed(g, c.kind) = WrittenSections(c) \cup {c.kind}
  BY <1>1 DEF Completed
<1>6. Kinds \cap (WrittenSections(c) \cup {c.kind}) \subseteq {c.kind, "802-3-ethernet"}
  <2>1. {"connection", "ipv4", "ipv6", "match", "802-11-wireless-security", "802-1x",
         "bridge-port"} \cap Kinds = {}
    BY DEF Kinds, Range, KindOrder
  <2>2. QED
    BY <2>1 DEF WrittenSections, OptionalSections
<1>7. KindRead(Completed(g, c.kind)) = c.kind
  BY <1>4, <1>5, <1>6, KindOfWritten
<1>8. QED
  BY <1>1, <1>2, <1>3, <1>7 DEF Fits, g

(* A connection that is added is written on top of nothing.                *)
LEMMA AddedIsOutcome ==
  ASSUME NEW c, NEW isBridgePort
  PROVE  Completed(CleanupDbusConnection(ConnectionToDbus(c), isBridgePort), c.kind)
           = Outcome(EmptySections(c), c, isBridgePort)
<1> DEFINE hash == ConnectionToDbus(c)
           g == EmptySections(c)
           merged == [s \in DOMAIN g |-> MergeSection(g[s], SectionOf(hash, s))]
<1>1. /\ DOMAIN hash = WrittenSections(c)
      /\ \A s \in DOMAIN hash : IsSection(hash[s])
  BY DEF ConnectionToDbus, IsSection
<1>2. hash = [s \in DOMAIN hash |-> hash[s]]
  BY DEF ConnectionToDbus
<1>3. DOMAIN g = WrittenSections(c) /\ \A s \in DOMAIN g : DOMAIN g[s] = {}
  BY DEF EmptySections
<1> HIDE DEF hash, g
<1>4. ASSUME NEW s \in DOMAIN g
      PROVE  MergeSection(g[s], SectionOf(hash, s)) = hash[s]
  <2>1. SectionOf(hash, s) = hash[s]
    BY <1>1, <1>3 DEF SectionOf
  <2>2. IsSection(hash[s])
    BY <1>1, <1>3
  <2> DEFINE upd == hash[s]
             old == g[s]
  <2>3. DOMAIN old = {}
    BY <1>3
  <2> HIDE DEF upd, old
  <2>4. MergeSection(old, upd) = [k \in DOMAIN upd |-> upd[k]]
    BY <2>3 DEF MergeSection
  <2>5. QED
    BY <2>1, <2>2, <2>4 DEF IsSection, upd, old
<1>5. merged = hash
  BY <1>1, <1>2, <1>3, <1>4
<1>6. QED
  BY <1>5 DEF Outcome, MergeDbusConnections, hash, g

(* What NetworkManager has and what is wanted stay normal.                 *)
LEMMA ReadIsNormal ==
  ASSUME NEW sys, NormalSystem(sys)
  PROVE  NormalWanted(ReadConnections(sys))
<1> DEFINE cs == ReadConnections(sys)
<1>1. \A u \in DOMAIN cs : /\ u \in DOMAIN sys /\ IsReadable(sys[u].hash)
                           /\ cs[u].set = ConnectionFromDbus(sys[u].hash)
  BY DEF ReadConnections, Readable
<1> HIDE DEF cs
<1>2. NormalWanted(cs)
  BY <1>1 DEF NormalWanted, NormalSystem
<1>3. QED
  BY <1>2 DEF cs

(* What is written for a connection is the outcome of what there is.       *)
GroundNow(u) ==
  IF u \in DOMAIN nm THEN nm[u].hash ELSE EmptySections(conns[u].set)

LEMMA HashIsOutcome ==
  ASSUME NEW u
  PROVE  HashWritten(u) = Outcome(GroundNow(u), conns[u].set, IsBridgePort(u))
<1>1. CASE u \in DOMAIN nm
  BY <1>1 DEF HashWritten, GroundNow, Outcome
<1>2. CASE u \notin DOMAIN nm
  BY <1>2, AddedIsOutcome DEF HashWritten, GroundNow
<1>3. QED
  BY <1>1, <1>2

LEMMA HashIsNormal ==
  ASSUME PlainOptions, IInv, Normal, KindsKept, NEW u \in DOMAIN conns
  PROVE  IsNormal(ConnectionFromDbus(HashWritten(u)))
<1> DEFINE c == conns[u].set
           ground == GroundNow(u)
           port == IsBridgePort(u)
<1>1. IsSettings(c) /\ IsNormal(c)
  BY DEF IInv, Connections, IsWanted, Normal, NormalWanted
<1>2. CASE u \in DOMAIN nm
  <2>1. ground = nm[u].hash
    BY <1>2 DEF GroundNow
  <2>2. /\ IsHash(nm[u].hash) /\ IsReadable(nm[u].hash)
        /\ IsNormal(ConnectionFromDbus(nm[u].hash)) /\ KindRead(nm[u].hash) = c.kind
    BY <1>2 DEF IInv, Connections, IsSystem, IsInSystem, Agree, Normal, NormalSystem, KindsKept
  <2> HIDE DEF c, ground, port
  <2>3. Fits(ground, c)
    BY <1>1, <2>1, <2>2, ReadableFits
  <2>4. IsNormal(ConnectionFromDbus(Outcome(ground, c, port)))
    BY <2>1, <2>2, <2>3, OutcomeIsNormal
  <2>5. QED
    BY <2>4, HashIsOutcome DEF c, ground, port
<1>3. CASE u \notin DOMAIN nm
  <2>1. ground = EmptySections(c)
    BY <1>3 DEF GroundNow
  <2> HIDE DEF c, ground, port
  <2>2. Fits(ground, c) /\ \A s \in DOMAIN ground : DOMAIN ground[s] = {}
    BY <1>1, <2>1, NothingFits
  <2>3. IsNormal(ConnectionFromDbus(Outcome(ground, c, port)))
    BY <2>2, OutcomeIsNormal
  <2>4. QED
    BY <2>3, HashIsOutcome DEF c, ground, port
<1>4. QED
  BY <1>2, <1>3

(* Where what NetworkManager has comes from: it was there, it was when the *)
(* write began, it was written or somebody else added it.                  *)
ComesFrom(r) ==
  \/ \E v \in DOMAIN nm : r = nm[v]
  \/ write # Idle /\ \E v \in DOMAIN write.saved : r = write.saved[v]
  \/ \E u \in DOMAIN conns : r.id = conns[u].id /\ r.hash = HashWritten(u)
  \/ \E i \in Ids \ Bonds, hash \in Foreign : r.id = i /\ r.hash = hash

LEMMA SystemComes ==
  ASSUME IInv, Next, NEW v \in DOMAIN nm'
  PROVE  ComesFrom(nm'[v])
<1>1. CASE nm' = nm \/ \E S : nm' = Without(nm, S)
  BY <1>1 DEF ComesFrom, Without, Restrict
<1>2. ASSUME NEW u \in DOMAIN conns, AddOrUpdateConnection(u)
      PROVE  ComesFrom(nm'[v])
  <2>1. PICK active \in {MadeActive(u), WasActive(u)} :
          IF u \in DOMAIN nm
          THEN nm' = [nm EXCEPT ![u] = WrittenAs(u, active)]
          ELSE nm' = Overlay(nm, [x \in {NewUuid} |-> WrittenAs(u, active)])
    BY <1>2 DEF AddOrUpdateConnection
  <2>2. PICK w : w = WrittenAs(u, active)
    OBVIOUS
  <2>3. PICK n : n = NewUuid
    OBVIOUS
  <2>4. w.id = conns[u].id /\ w.hash = HashWritten(u)
    BY <2>2 DEF WrittenAs
  <2>5. nm'[v] = w \/ (v \in DOMAIN nm /\ nm'[v] = nm[v])
    BY <2>1, <2>2, <2>3 DEF Overlay
  <2>6. QED
    BY <2>4, <2>5 DEF ComesFrom
<1>3. CASE write # Idle /\ nm' = RolledBack
  BY <1>3 DEF RolledBack, Overlay, ComesFrom
<1>4. CASE ExternalAdd
  <2>1. PICK i \in Ids \ Bonds, hash \in Foreign :
          nm' = Overlay(nm, [x \in {NewUuid} |->
                  [id |-> i, hash |-> hash, master |-> None, active |-> TRUE,
                   persistent |-> FALSE]])
    BY <1>4 DEF ExternalAdd
  <2>2. PICK r : r = [id |-> i, hash |-> hash, master |-> None, active |-> TRUE,
                      persistent |-> FALSE]
    OBVIOUS
  <2>3. r.id = i /\ r.hash = hash
    BY <2>2
  <2>4. nm'[v] = r \/ (v \in DOMAIN nm /\ nm'[v] = nm[v])
    BY <2>1, <2>2 DEF Overlay
  <2>5. QED
    BY <2>3, <2>4 DEF ComesFrom
<1>5. CASE WriteStep
  <2>1. write # Idle
    <3>1. write.phase = "writing" => write # Idle
      BY DEF Idle
    <3>2. QED
      BY <1>5, <3>1 DEF WriteStep, FinishApply, FinishApplyFails
  <2>2. write.todo \subseteq DOMAIN conns
    BY <2>1 DEF IInv, Writing
  <2>3. ASSUME NEW u \in write.todo,
               SkipConnection(u) \/ DeleteConnection(u)
                 \/ AddOrUpdateConnection(u) \/ AddOrUpdateFails(u)
        PROVE  ComesFrom(nm'[v])
    <3>1. CASE SkipConnection(u) \/ DeleteConnection(u)
      BY <1>1, <3>1 DEF SkipConnection, DeleteConnection
    <3>2. CASE AddOrUpdateConnection(u)
      BY <1>2, <2>2, <3>2
    <3>3. CASE AddOrUpdateFails(u)
      BY <1>1, <1>3, <2>1, <3>3 DEF AddOrUpdateFails, RollbackCheckpoint, RollbackFails
    <3>4. QED
      BY <2>3, <3>1, <3>2, <3>3
  <2>4. CASE FinishApply \/ FinishApplyFails
    BY <1>1, <2>4 DEF FinishApply, FinishApplyFails
  <2>5. QED
    BY <1>5, <2>3, <2>4 DEF WriteStep
<1>6. CASE ExternalRemove
  BY <1>1, <1>6 DEF ExternalRemove
<1>7. CASE Serve \/ Dispatch \/ \E x \in Clients : SendUpdate(x) \/ SendApply(x)
  BY <1>1, <1>7 DEF Serve, SendUpdate, SendApply, UpdateSame, UpdateRejected, UpdateState,
     ProposeDefault, NewConnection, RemoveConnection, StartWrite, StartWriteFails, Dispatch
<1>8. QED
  BY <1>4, <1>5, <1>6, <1>7 DEF Next

LEMMA SystemStaysNormal ==
  ASSUME PlainOptions, NormalSettings, IInv, Normal, KindsKept, Next
  PROVE  NormalSystem(nm')
<1> SUFFICES ASSUME NEW v \in DOMAIN nm', IsReadable(nm'[v].hash)
             PROVE  IsNormal(ConnectionFromDbus(nm'[v].hash))
  BY DEF NormalSystem
<1>1. PICK r : r = nm'[v]
  OBVIOUS
<1>2. ComesFrom(r)
  BY <1>1, SystemComes
<1>3. IsNormal(ConnectionFromDbus(r.hash))
  BY <1>1, <1>2, HashIsNormal DEF ComesFrom, Normal, NormalSystem, NormalSettings
<1>4. QED
  BY <1>1, <1>3

(* What does not change the settings of what is wanted.                    *)
SameSettings(cs, ds) ==
  DOMAIN ds = DOMAIN cs /\ \A u \in DOMAIN cs : ds[u].id = cs[u].id /\ ds[u].set = cs[u].set

LEMMA SetPortsKeeps ==
  ASSUME NEW cs, \A u \in DOMAIN cs : IsWanted(cs[u]), NEW config, NEW S
  PROVE  SameSettings(cs, SetPorts(cs, config, S))
<1> DEFINE ds == SetPorts(cs, config, S)
<1>1. DOMAIN ds = DOMAIN cs
  BY DEF SetPorts
<1>2. ASSUME NEW u \in DOMAIN cs
      PROVE  ds[u].id = cs[u].id /\ ds[u].set = cs[u].set
  <2> DEFINE c == [cs[u] EXCEPT !.controller = None, !.status = "removed"]
  <2>1. ds[u] = c \/ ds[u] = cs[u]
    BY DEF SetPorts
  <2>2. cs[u] \in [id : Ids, set : {cs[u].set}, status : Statuses,
                   persistent : BOOLEAN, controller : Uuids \cup {None}]
    BY DEF IsWanted
  <2>3. c.id = cs[u].id /\ c.set = cs[u].set
    BY <2>2
  <2> HIDE DEF c, ds
  <2>4. QED
    BY <2>1, <2>3
<1>3. QED
  BY <1>1, <1>2 DEF SameSettings

LEMMA ProposedKeeps ==
  ASSUME NEW cs, \A u \in DOMAIN cs : IsWanted(cs[u])
  PROVE  SameSettings(cs, ProposedDefault(cs))
<1> DEFINE ds == ProposedDefault(cs)
<1>1. CASE \E u \in DOMAIN cs : cs[u].persistent
  BY <1>1 DEF ProposedDefault, SameSettings
<1>2. CASE ~ \E u \in DOMAIN cs : cs[u].persistent
  <2>1. ds = [u \in DOMAIN cs |-> [cs[u] EXCEPT !.persistent = TRUE, !.status = "keep"]]
    BY <1>2 DEF ProposedDefault
  <2>2. ASSUME NEW u \in DOMAIN cs
        PROVE  ds[u].id = cs[u].id /\ ds[u].set = cs[u].set
    <3> DEFINE c == [cs[u] EXCEPT !.persistent = TRUE, !.status = "keep"]
    <3>1. ds[u] = c
      BY <2>1
    <3>2. cs[u] \in [id : Ids, set : {cs[u].set}, status : Statuses,
                     persistent : BOOLEAN, controller : Uuids \cup {None}]
      BY DEF IsWanted
    <3>3. c.id = cs[u].id /\ c.set = cs[u].set
      BY <3>2
    <3> HIDE DEF c, ds
    <3>4. QED
      BY <3>1, <3>3
  <2>3. DOMAIN ds = DOMAIN cs
    BY <2>1
  <2>4. QED
    BY <2>2, <2>3 DEF SameSettings
<1>3. QED
  BY <1>1, <1>2

(* Where what is wanted comes from: it was, it was read, or it is of the   *)
(* new configuration, be it a profile or a port without one.               *)
IsConfigured(c) ==
  \E config \in Configs : \E i \in Ids :
    /\ c.id = i
    /\ \/ /\ i \in DOMAIN config /\ config[i].set # Bad
          /\ c.set = FromProfile(Meaning[config[i].set])
       \/ /\ \E b \in DOMAIN config \cap Bonds : i \in config[b].ports
          /\ c.set = Default
IsOfOld(c) ==
  \/ \E u \in DOMAIN conns : c.id = conns[u].id /\ c.set = conns[u].set
  \/ \E u \in Readable(nm) :
       c.id = nm[u].id /\ c.set = ConnectionFromDbus(nm[u].hash)

LEMMA CollectionIsConfigured ==
  ASSUME IInv, NEW config \in Configs, NEW S \in SUBSET DOMAIN config,
         \A i \in S : config[i].set # Bad,
         NEW u \in DOMAIN SanitizedCollection(config, S)
  PROVE  IsConfigured(SanitizedCollection(config, S)[u])
<1> DEFINE f == UuidOf(config, S)
           C == Collected(config, S)
           cs == SanitizedCollection(config, S)
<1>1. /\ DOMAIN cs = {f[i] : i \in C}
      /\ \A i \in C : cs[f[i]] = AsConnection(config, S, f, i)
  BY SanitizedTells
<1>2. PICK i \in C : u = f[i]
  BY <1>1
<1> DEFINE c == AsConnection(config, S, f, i)
<1>3. cs[u] = c
  BY <1>1, <1>2
<1>4. c.id = i /\ c.set = IF i \in S THEN FromProfile(Meaning[config[i].set]) ELSE Default
  BY DEF AsConnection
<1>5. i \in Ids
  BY CollectedIds
<1>6. i \notin S => \E b \in DOMAIN config \cap Bonds : i \in config[b].ports
  BY DEF Collected, Ports
<1> HIDE DEF c, cs
<1>7. IsConfigured(c)
  BY <1>4, <1>5, <1>6 DEF IsConfigured
<1>8. QED
  BY <1>3, <1>7 DEF cs

LEMMA WantedComes ==
  ASSUME IInv, Next, NEW u \in DOMAIN conns'
  PROVE  IsOfOld(conns'[u]) \/ IsConfigured(conns'[u])
<1>1. \A x \in DOMAIN conns : IsWanted(conns[x])
  BY DEF IInv, Connections
<1>2. CASE conns' = conns \/ \E S : conns' = Without(conns, S)
  BY <1>2 DEF IsOfOld, Without, Restrict
<1>3. CASE UpdateState
  <2> DEFINE config == Head(queue).request
             S == ChangedConnections(config)
             ns == SanitizedCollection(config, S)
             cs == Overlay(conns, ns)
  <2>1. /\ config \in Configs /\ S \in SUBSET DOMAIN config
        /\ \A i \in S : config[i].set # Bad
        /\ conns' = SetPorts(cs, config, S)
    BY <1>3 DEF UpdateState, ChangedConnections
  <2> HIDE DEF config, S
  <2>2. \A x \in DOMAIN ns : IsConfigured(ns[x])
    BY <2>1, CollectionIsConfigured
  <2>3. \A x \in DOMAIN cs : IsWanted(cs[x])
    BY <2>1, OverlaidIsWanted
  <2> HIDE DEF ns
  <2>4. \A x \in DOMAIN cs : (x \in DOMAIN conns /\ cs[x] = conns[x]) \/ IsConfigured(cs[x])
    BY <2>2 DEF Overlay
  <2> HIDE DEF cs
  <2>5. SameSettings(cs, conns')
    BY <2>1, <2>3, SetPortsKeeps
  <2>6. /\ u \in DOMAIN cs /\ conns'[u].id = cs[u].id /\ conns'[u].set = cs[u].set
    BY <2>5 DEF SameSettings
  <2>7. IsConfigured(cs[u]) => IsConfigured(conns'[u])
    BY <2>6 DEF IsConfigured
  <2>8. QED
    BY <2>4, <2>6, <2>7 DEF IsOfOld
<1>4. CASE ProposeDefault
  <2>1. conns' = conns \/ conns' = ProposedDefault(conns)
    BY <1>4 DEF ProposeDefault
  <2>2. conns' # conns => SameSettings(conns, conns')
    BY <1>1, <2>1, ProposedKeeps
  <2>3. QED
    BY <1>2, <2>2 DEF SameSettings, IsOfOld
<1>5. CASE SyncFromSystem
  BY <1>5 DEF SyncFromSystem, ReadConnections, IsOfOld
<1>6. CASE RemoveConnection
  BY <1>2, <1>6 DEF RemoveConnection
<1>7. CASE NewConnection \/ FinishApply
  BY <1>2, <1>5, <1>7 DEF NewConnection, FinishApply
<1>8. \/ conns' = conns \/ UpdateState \/ ProposeDefault \/ RemoveConnection
      \/ NewConnection \/ FinishApply
  BY DEF Next, SendUpdate, SendApply, Serve, UpdateSame, UpdateRejected,
         StartWrite, StartWriteFails, WriteStep, SkipConnection, DeleteConnection,
         AddOrUpdateConnection, AddOrUpdateFails, FinishApplyFails, ExternalAdd,
         ExternalRemove, Dispatch
<1>9. QED
  BY <1>2, <1>3, <1>4, <1>6, <1>7, <1>8

LEMMA WantedStaysNormal ==
  ASSUME NormalSettings, IInv, Normal, Next
  PROVE  NormalWanted(conns')
<1> SUFFICES ASSUME NEW u \in DOMAIN conns'
             PROVE  IsNormal(conns'[u].set)
  BY DEF NormalWanted
<1>1. CASE IsOfOld(conns'[u])
  BY <1>1 DEF IsOfOld, Normal, NormalWanted, NormalSystem, Readable
<1>2. CASE IsConfigured(conns'[u])
  <2>1. PICK config \in Configs, i \in Ids :
          \/ /\ i \in DOMAIN config /\ config[i].set # Bad
             /\ conns'[u].set = FromProfile(Meaning[config[i].set])
          \/ conns'[u].set = Default
    BY <1>2 DEF IsConfigured
  <2>2. ASSUME i \in DOMAIN config, config[i].set # Bad
        PROVE  IsNormal(FromProfile(Meaning[config[i].set]))
    <3>1. config[i].set \in DOMAIN Meaning
      BY <2>2, NetworkAssumption
    <3>2. IsSettings(Meaning[config[i].set]) /\ IsNormal(Meaning[config[i].set])
      BY <3>1, NetworkAssumption DEF NormalSettings
    <3>3. QED
      BY <3>2, ProfileIsNormal
  <2>3. QED
    BY <2>1, <2>2, DefaultIsNormal
<1>3. QED
  BY <1>1, <1>2, WantedComes

LEMMA NormalStep ==
  ASSUME PlainOptions, NormalSettings, IInv, Normal, KindsKept, Next
  PROVE  Normal'
<1>1. NormalSystem(nm') /\ NormalWanted(conns')
  BY SystemStaysNormal, WantedStaysNormal
<1>2. ASSUME write' # Idle
      PROVE  NormalSystem(write'.saved)
  <2>1. CASE write' = write
    BY <1>2, <2>1 DEF Normal
  <2>2. CASE StartWrite
    BY <2>2 DEF StartWrite, Normal
  <2>3. ASSUME write # Idle, NEW u, Done(u)
        PROVE  NormalSystem(write'.saved)
    <3>1. Writing
      BY <2>3 DEF IInv
    <3>2. write'.saved = write.saved
      BY <2>3, <3>1, DoneKeeps
    <3>3. QED
      BY <2>3, <3>2 DEF Normal
  <2>4. write' = write \/ StartWrite \/ (write # Idle /\ \E u : Done(u))
    <3>1. write.phase = "writing" => write # Idle
      BY DEF Idle
    <3>2. QED
      BY <1>2, <3>1 DEF Next, SendUpdate, SendApply, Serve, UpdateSame, UpdateRejected,
         UpdateState, ProposeDefault, NewConnection, RemoveConnection, StartWriteFails,
         WriteStep, SkipConnection, DeleteConnection, AddOrUpdateConnection,
         AddOrUpdateFails, FinishApply, FinishApplyFails, ExternalAdd,
         ExternalRemove, Dispatch
  <2>5. QED
    BY <2>1, <2>2, <2>3, <2>4
<1>3. QED
  BY <1>1, <1>2 DEF Normal, NormalSystem, NormalWanted

(* What is known as a write goes on.                                       *)
LEMMA WriteIsSame ==
  ASSUME IInv, Next, write # Idle, write' # Idle
  PROVE  /\ Writing /\ conns' = conns /\ write'.saved = write.saved
         /\ write'.old = write.old /\ write'.since = write.since
<1>1. Writing
  BY DEF IInv
<1>2. \A u : Done(u) => /\ write'.saved = write.saved /\ write'.old = write.old
                        /\ write'.since = write.since
  BY <1>1, DoneKeeps
<1>3. conns' = conns /\ (write' = write \/ \E u : Done(u))
  BY DEF Next, SendUpdate, SendApply, Serve, Serves, UpdateSame, UpdateRejected,
         UpdateState, ProposeDefault, NewConnection, RemoveConnection, StartWrite,
         StartWriteFails, WriteStep, SkipConnection, DeleteConnection,
         AddOrUpdateConnection, AddOrUpdateFails, FinishApply, FinishApplyFails,
         ExternalAdd, ExternalRemove, Dispatch
<1>4. QED
  BY <1>1, <1>2, <1>3

LEMMA WriteStarts ==
  ASSUME Next, write = Idle, write' # Idle
  PROVE  /\ conns' = conns /\ nm' = nm
         /\ write'.saved = nm /\ write'.todo = DOMAIN conns
<1>1. ~ WriteStep
  BY DEF WriteStep, FinishApply, FinishApplyFails, Idle
<1>2. StartWrite
  BY <1>1 DEF Next, SendUpdate, SendApply, Serve, UpdateSame, UpdateRejected,
     UpdateState, ProposeDefault, NewConnection, RemoveConnection,
     StartWriteFails, ExternalAdd, ExternalRemove, Dispatch
<1>3. QED
  BY <1>2 DEF StartWrite

LEMMA WantedKindsStep ==
  ASSUME IInv, KindsKept, write # Idle => WantedKinds, Next, write' # Idle
  PROVE  WantedKinds'
<1>1. CASE write = Idle
  BY <1>1, WriteStarts DEF WantedKinds, KindsKept
<1>2. CASE write # Idle
  BY <1>2, WriteIsSame DEF WantedKinds
<1>3. QED
  BY <1>1, <1>2

(* A connection is taken: the others stay as they were.                    *)
LEMMA BringingGoesOn ==
  ASSUME Writing, Bringing, conns' = conns, NEW u \in write.todo, Done(u),
         \A v : v # u /\ v \in DOMAIN nm \cup DOMAIN conns =>
           /\ v \in DOMAIN nm' <=> v \in DOMAIN nm
           /\ v \in DOMAIN nm => nm'[v] = nm[v],
         ~ IsRemoved(u) => IsKept(u)' \/ \E v \in DOMAIN nm' : IsBrought(u, v)'
  PROVE  Bringing'
<1>1. /\ write'.old = write.old /\ write'.saved = write.saved
      /\ write'.todo = write.todo \ {u}
  BY DoneKeeps
<1>2. write.todo \subseteq DOMAIN conns
  BY DEF Writing
<1>3. \A x : /\ WantedController(x)' = WantedController(x)
             /\ MasterFor(x)' = MasterFor(x)
             /\ IsRemoved(x)' <=> IsRemoved(x)
             /\ Unchanged(x)' <=> Unchanged(x)
  BY <1>1, WantedStays
<1>4. \A x : Ground(x)' = Ground(x) /\ (IsBridgePort(x)' <=> IsBridgePort(x))
  <2>1. \A x : Ground(x)' = Ground(x)
    BY <1>1 DEF Ground
  <2>2. \A x : IsBridgePort(x)' <=> IsBridgePort(x)
    BY <1>3 DEF IsBridgePort
  <2>3. QED
    BY <2>1, <2>2
<1>5. ASSUME NEW x \in write'.todo
      PROVE  /\ x \in DOMAIN nm' <=> x \in DOMAIN write'.saved
             /\ x \in DOMAIN nm' => nm'[x] = write'.saved[x]
  BY <1>1, <1>2 DEF Bringing
<1>6. ASSUME NEW x \in DOMAIN conns' \ write'.todo, ~ IsRemoved(x)'
      PROVE  IsKept(x)' \/ \E v \in DOMAIN nm' : IsBrought(x, v)'
  <2>1. CASE x = u
    BY <1>3, <1>6, <2>1
  <2>2. CASE x # u
    <3>1. x \in DOMAIN conns \ write.todo /\ ~ IsRemoved(x)
      BY <1>1, <1>3, <1>6, <2>2
    <3>2. CASE IsKept(x)
      <4>1. IsKept(x)'
        BY <1>1, <1>3, <2>2, <3>2 DEF IsKept
      <4>2. QED
        BY <4>1
    <3>3. ASSUME NEW v \in DOMAIN nm, IsBrought(x, v)
          PROVE  v \in DOMAIN nm' /\ IsBrought(x, v)'
      <4>1. v # u
        BY <1>2, <2>2, <3>3 DEF IsBrought
      <4>2. v \in DOMAIN nm' /\ nm'[v] = nm[v]
        BY <4>1
      <4>3. (IsBridgePort(x)' <=> IsBridgePort(x)) /\ Ground(x)' = Ground(x)
              /\ MasterFor(x)' = MasterFor(x)
        BY <1>3, <1>4
      <4>4. Outcome(Ground(x), conns[x].set, IsBridgePort(x))'
              = Outcome(Ground(x), conns[x].set, IsBridgePort(x))
        BY <4>3 DEF Outcome, MergeDbusConnections, CleanupDbusConnection
      <4>5. IsBrought(x, v)'
        BY <1>1, <3>3, <4>2, <4>3, <4>4 DEF IsBrought
      <4>6. QED
        BY <4>2, <4>5
    <3>4. QED
      BY <3>1, <3>2, <3>3 DEF Bringing
  <2>3. QED
    BY <2>1, <2>2
<1>7. QED
  BY <1>5, <1>6 DEF Bringing

LEMMA TakeBrings ==
  ASSUME IInv, Writing, Bringing, NEW u \in write.todo,
         SkipConnection(u) \/ DeleteConnection(u) \/ AddOrUpdateConnection(u)
  PROVE  Bringing'
<1>1. u \in DOMAIN conns /\ conns' = conns /\ Done(u)
  BY DEF SkipConnection, DeleteConnection, AddOrUpdateConnection, Writing
<1>2. /\ write'.old = write.old /\ write'.saved = write.saved
      /\ write'.todo = write.todo \ {u}
  BY <1>1, DoneKeeps
<1>3. /\ u \in DOMAIN nm <=> u \in DOMAIN write.saved
      /\ u \in DOMAIN nm => nm[u] = write.saved[u]
  BY DEF Bringing
<1>4. \A x : /\ WantedController(x)' = WantedController(x)
             /\ MasterFor(x)' = MasterFor(x)
             /\ IsRemoved(x)' <=> IsRemoved(x)
             /\ Unchanged(x)' <=> Unchanged(x)
  BY <1>1, <1>2, WantedStays
<1>5. CASE SkipConnection(u)
  <2>1. nm' = nm /\ Unchanged(u)
    BY <1>5 DEF SkipConnection
  <2>2. ~ IsRemoved(u) => IsKept(u)'
    <3>1. ~ IsRemoved(u) => u \in DOMAIN write.saved
      BY <2>1 DEF Unchanged, Writing, ReadConnections, Readable
    <3>2. QED
      BY <1>2, <1>3, <1>4, <2>1, <3>1 DEF IsKept
  <2>3. QED
    BY <1>1, <2>1, <2>2, BringingGoesOn
<1>6. CASE DeleteConnection(u)
  <2>1. IsRemoved(u)
    BY <1>6 DEF DeleteConnection
  <2>2. nm' = Without(nm, {u}) \/ nm' = nm
    BY <1>6 DEF DeleteConnection
  <2>3. \A v : v # u => /\ v \in DOMAIN nm' <=> v \in DOMAIN nm
                        /\ v \in DOMAIN nm => nm'[v] = nm[v]
    BY <2>2 DEF Without, Restrict
  <2>4. QED
    BY <1>1, <2>1, <2>3, BringingGoesOn
<1>7. CASE AddOrUpdateConnection(u)
  <2>1. PICK active \in {MadeActive(u), WasActive(u)} :
          IF u \in DOMAIN nm
          THEN nm' = [nm EXCEPT ![u] = WrittenAs(u, active)]
          ELSE nm' = Overlay(nm, [x \in {NewUuid} |-> WrittenAs(u, active)])
    BY <1>7 DEF AddOrUpdateConnection
  <2>2. PICK w : w = WrittenAs(u, active)
    OBVIOUS
  <2>3. PICK n : n = NewUuid
    OBVIOUS
  <2>4. /\ w.id = conns[u].id /\ w.master = MasterFor(u)
        /\ w.persistent = conns[u].persistent /\ w.hash = HashWritten(u)
    BY <2>2 DEF WrittenAs, MasterFor
  <2>5. HashWritten(u) = Outcome(Ground(u), conns[u].set, IsBridgePort(u))
    <3>1. GroundNow(u) = Ground(u)
      BY <1>3 DEF GroundNow, Ground
    <3>2. QED
      BY <3>1, HashIsOutcome
  <2>6. n \notin DOMAIN conns \cup DOMAIN nm \cup DOMAIN write.saved
    BY <2>3, NewUuidIsNew, WritingIsNotIdle
  <2>7. Outcome(Ground(u), conns[u].set, IsBridgePort(u))'
          = Outcome(Ground(u), conns[u].set, IsBridgePort(u))
    <3>1. Ground(u)' = Ground(u)
      BY <1>1, <1>2 DEF Ground
    <3>2. IsBridgePort(u)' <=> IsBridgePort(u)
      BY <1>1, <1>4 DEF IsBridgePort
    <3>3. QED
      BY <1>1, <3>1, <3>2 DEF Outcome, MergeDbusConnections, CleanupDbusConnection
  <2>8. ASSUME NEW v \in DOMAIN nm', nm'[v] = w,
               IF u \in DOMAIN write.saved THEN v = u
               ELSE v \notin DOMAIN conns \cup DOMAIN write.saved
        PROVE  IsBrought(u, v)'
    BY <1>1, <1>2, <1>4, <2>4, <2>5, <2>7, <2>8 DEF IsBrought
  <2>9. CASE u \in DOMAIN nm
    <3>1. nm' = [nm EXCEPT ![u] = w]
      BY <2>1, <2>2, <2>9
    <3>2. /\ DOMAIN nm' = DOMAIN nm /\ nm'[u] = w
          /\ \A v \in DOMAIN nm : v # u => nm'[v] = nm[v]
      BY <2>9, <3>1
    <3>3. u \in DOMAIN nm' /\ IsBrought(u, u)'
      BY <1>3, <2>8, <2>9, <3>2
    <3>4. QED
      BY <1>1, <3>2, <3>3, BringingGoesOn
  <2>10. CASE u \notin DOMAIN nm
    <3>1. nm' = Overlay(nm, [x \in {n} |-> w])
      BY <2>1, <2>2, <2>3, <2>10
    <3>2. /\ DOMAIN nm' = DOMAIN nm \cup {n} /\ nm'[n] = w
          /\ \A v \in DOMAIN nm : nm'[v] = nm[v]
      BY <2>6, <3>1 DEF Overlay
    <3>3. n \in DOMAIN nm' /\ IsBrought(u, n)'
      BY <1>3, <2>6, <2>8, <2>10, <3>2
    <3>4. \A v : v # u /\ v \in DOMAIN nm \cup DOMAIN conns =>
            /\ v \in DOMAIN nm' <=> v \in DOMAIN nm
            /\ v \in DOMAIN nm => nm'[v] = nm[v]
      BY <2>6, <3>2
    <3>5. QED
      BY <1>1, <3>3, <3>4, BringingGoesOn
  <2>11. QED
    BY <2>9, <2>10
<1>8. QED
  BY <1>5, <1>6, <1>7

LEMMA BringingStays ==
  ASSUME Bringing, conns' = conns, write' = write, nm' = nm
  PROVE  Bringing'
<1>1. \A x : /\ WantedController(x)' = WantedController(x)
             /\ MasterFor(x)' = MasterFor(x)
             /\ IsRemoved(x)' <=> IsRemoved(x)
             /\ Unchanged(x)' <=> Unchanged(x)
  BY WantedStays
<1>2. \A x : Ground(x)' = Ground(x) /\ (IsBridgePort(x)' <=> IsBridgePort(x))
  <2>1. \A x : Ground(x)' = Ground(x)
    BY DEF Ground
  <2>2. \A x : IsBridgePort(x)' <=> IsBridgePort(x)
    BY <1>1 DEF IsBridgePort
  <2>3. QED
    BY <2>1, <2>2
<1>3. \A x, v : IsBrought(x, v) => IsBrought(x, v)'
  <2> SUFFICES ASSUME NEW x, NEW v, IsBrought(x, v)
               PROVE  IsBrought(x, v)'
    OBVIOUS
  <2>1. Outcome(Ground(x), conns[x].set, IsBridgePort(x))'
          = Outcome(Ground(x), conns[x].set, IsBridgePort(x))
    BY <1>2 DEF Outcome, MergeDbusConnections, CleanupDbusConnection
  <2>2. QED
    BY <1>1, <2>1 DEF IsBrought
<1>4. \A x : IsKept(x) => IsKept(x)'
  BY <1>1 DEF IsKept
<1>5. QED
  BY <1>1, <1>3, <1>4 DEF Bringing

LEMMA BringingStep ==
  ASSUME IInv, Next, (write # Idle)', (write.since.external = spent.external)',
         write # Idle /\ write.since.external = spent.external => Bringing
  PROVE  Bringing'
<1>1. CASE write = Idle
  <2>1. /\ conns' = conns /\ nm' = nm
        /\ write'.saved = nm /\ write'.todo = DOMAIN conns
    BY <1>1, WriteStarts
  <2>2. QED
    BY <2>1 DEF Bringing
<1>2. CASE write # Idle
  <2>1. /\ Writing /\ conns' = conns /\ write'.saved = write.saved
        /\ write'.old = write.old /\ write'.since = write.since
    BY <1>2, WriteIsSame
  <2>2. /\ write.since.external \in Nat /\ spent.external \in Nat
        /\ write.since.external <= spent.external
        /\ spent.external <= spent'.external /\ spent'.external \in Nat
    <3>1. spent' \in Spending /\ spent \in Spending
      BY TypedStep DEF IInv, Typed
    <3>2. QED
      BY <2>1, <3>1, SpentGrows DEF Writing, Spending
  <2>3. Bringing /\ spent'.external = spent.external
    BY <1>2, <2>1, <2>2
  <2>4. CASE write' = write /\ nm' = nm
    BY <2>1, <2>3, <2>4, BringingStays
  <2>5. ~ Spend("external")
    <3>1. spent \in [requests : Nat, external : Nat, faults : Nat, refused : Nat]
      BY DEF IInv, Typed, Spending
    <3>2. Spend("external") => spent'.external = spent.external + 1
      BY <3>1 DEF Spend
    <3>3. QED
      BY <2>2, <2>3, <3>2
  <2>6. ASSUME NEW u \in write.todo,
               SkipConnection(u) \/ DeleteConnection(u) \/ AddOrUpdateConnection(u)
        PROVE  Bringing'
    BY <2>1, <2>3, <2>6, TakeBrings
  <2>7. \/ write' = write /\ nm' = nm
        \/ Spend("external")
        \/ \E u \in write.todo :
             SkipConnection(u) \/ DeleteConnection(u) \/ AddOrUpdateConnection(u)
    BY <1>2 DEF Next, SendUpdate, SendApply, Serve, Serves, UpdateSame, UpdateRejected,
         UpdateState, ProposeDefault, NewConnection, RemoveConnection, StartWrite,
         StartWriteFails, WriteStep, AddOrUpdateFails, FinishApply, FinishApplyFails,
         ExternalAdd, ExternalRemove, Dispatch
  <2>8. QED
    BY <2>4, <2>5, <2>6, <2>7
<1>3. QED
  BY <1>1, <1>2

LEMMA InitWritten ==
  ASSUME NormalSettings, Init
  PROVE  WInv
<1>1. write = Idle
  BY DEF Init
<1>2. NormalSystem(nm)
  BY DEF Init, NormalSystem, NormalSettings
<1>3. NormalWanted(conns)
  BY <1>2, ReadIsNormal DEF Init
<1>4. QED
  BY <1>1, <1>2, <1>3 DEF WInv, Normal

LEMMA StutterWritten ==
  ASSUME WInv, UNCHANGED vars
  PROVE  WInv'
<1>1. UNCHANGED <<nm, conns, write, spent>>
  BY DEF vars
<1>2. Normal' /\ (write # Idle => WantedKinds)'
  BY <1>1 DEF WInv, Normal, NormalSystem, NormalWanted, WantedKinds
<1>3. (write # Idle /\ write.since.external = spent.external => Bringing)'
  BY <1>1, BringingStays DEF WInv
<1>4. QED
  BY <1>2, <1>3 DEF WInv

LEMMA StepWritten ==
  ASSUME PlainOptions, NormalSettings, IInv, KindsKept, WInv, [Next]_vars
  PROVE  WInv'
<1>1. CASE Next
  <2>1. Normal'
    BY <1>1, NormalStep DEF WInv
  <2>2. (write # Idle => WantedKinds)'
    BY <1>1, WantedKindsStep DEF WInv
  <2>3. (write # Idle /\ write.since.external = spent.external => Bringing)'
    BY <1>1, BringingStep DEF WInv
  <2>4. QED
    BY <2>1, <2>2, <2>3 DEF WInv
<1>2. CASE UNCHANGED vars
  BY <1>2, StutterWritten
<1>3. QED
  BY <1>1, <1>2

(* When everything was taken, a connection to keep is there as wanted.     *)
IsAsWanted(u, v) ==
  /\ nm[v].id = conns[u].id
  /\ LET says == ConnectionFromDbus(nm[v].hash).says
     IN  HasWhatIsSaid(u, says) /\ HasNothingElse(u, says)
  /\ KeepsUnknown(u)
  /\ nm[v].persistent = conns[u].persistent
  /\ conns[u].controller \in DOMAIN conns =>
       nm[v].master = conns[conns[u].controller].id

LEMMA KeptIsWanted ==
  ASSUME IInv, Writing, NEW u \in DOMAIN conns, ~ IsRemoved(u), IsKept(u)
  PROVE  u \in Readable(nm) /\ IsAsWanted(u, u)
<1> DEFINE saved == write.saved
<1>1. /\ u \in DOMAIN nm /\ u \in DOMAIN saved /\ nm[u] = saved[u]
      /\ write.old = ReadConnections(saved) /\ IsSystem(saved) /\ Agree(conns, saved)
  BY DEF IsKept, Writing
<1>2. u \in DOMAIN write.old /\ write.old[u] = conns[u]
  BY DEF IsKept, Unchanged
<1> HIDE DEF saved
<1>3. /\ u \in Readable(saved) /\ conns[u].id = saved[u].id
      /\ conns[u].set = ConnectionFromDbus(saved[u].hash)
      /\ conns[u].persistent = saved[u].persistent
      /\ conns[u].controller = ControllerOf(saved, u)
  BY <1>1, <1>2 DEF ReadConnections
<1>4. u \in Readable(nm)
  BY <1>1, <1>3 DEF Readable
<1>5. LET says == ConnectionFromDbus(nm[u].hash).says
      IN  HasWhatIsSaid(u, says) /\ HasNothingElse(u, says)
  <2> DEFINE says == ConnectionFromDbus(nm[u].hash).says
  <2>1. says = conns[u].set.says
    BY <1>1, <1>3
  <2> HIDE DEF says
  <2>2. HasWhatIsSaid(u, says)
    BY <2>1 DEF HasWhatIsSaid
  <2>3. HasNothingElse(u, says)
    BY <2>1 DEF HasNothingElse
  <2>4. QED
    BY <2>2, <2>3 DEF says
<1>6. KeepsUnknown(u)
  BY <1>1 DEF KeepsUnknown, Has, saved
<1>7. ASSUME conns[u].controller \in DOMAIN conns
      PROVE  nm[u].master = conns[conns[u].controller].id
  <2>1. PICK w : w = ControllerOf(saved, u)
    OBVIOUS
  <2>2. w # None
    BY <1>3, <1>7, <2>1, NoneIsNoUuid DEF IInv, Connections
  <2>3. w \in Readable(saved) /\ saved[w].id = saved[u].master
    BY <1>1, <2>1, <2>2, ControllerOfFinds
  <2>4. conns[w].id = saved[w].id
    BY <1>1, <1>3, <1>7, <2>1, <2>3 DEF Agree, Readable
  <2>5. QED
    BY <1>1, <1>3, <2>1, <2>3, <2>4
<1>8. QED
  BY <1>1, <1>3, <1>4, <1>5, <1>6, <1>7 DEF IsAsWanted

(* What a connection is written on top of fits it.                         *)
LEMMA GroundFits ==
  ASSUME PlainOptions, IInv, Writing, Normal, WantedKinds, NEW u \in DOMAIN conns
  PROVE  /\ Fits(Ground(u), conns[u].set)
         /\ u \notin DOMAIN write.saved => DOMAIN Ground(u) = WrittenSections(conns[u].set)
<1>1. IsSettings(conns[u].set) /\ IsNormal(conns[u].set)
  BY DEF IInv, Connections, IsWanted, Normal, NormalWanted
<1>2. CASE u \in DOMAIN write.saved
  <2>1. Ground(u) = write.saved[u].hash
    BY <1>2 DEF Ground
  <2>2. /\ IsHash(write.saved[u].hash) /\ IsReadable(write.saved[u].hash)
        /\ KindRead(write.saved[u].hash) = conns[u].set.kind
    BY <1>2 DEF Writing, IsSystem, IsInSystem, Agree, WantedKinds
  <2>3. QED
    BY <1>1, <1>2, <2>1, <2>2, ReadableFits
<1>3. CASE u \notin DOMAIN write.saved
  BY <1>1, <1>3, NothingFits DEF Ground
<1>4. QED
  BY <1>2, <1>3

(* An option that reaches NetworkManager makes sense there.                *)
LEMMA ReachingMakesSense ==
  ASSUME NEW u, NEW o, Reaches(u, o), NEW says, says = conns[u].set.says
  PROVE  /\ u \in DOMAIN write.saved => o[1] \in DOMAIN write.saved[u].hash
         /\ o[1] \in {"ipv4", "ipv6"} =>
              /\ <<o[1], "method">> \in DOMAIN says /\ says[<<o[1], "method">>] = "disabled"
                   => o[2] = "method"
              /\ o[2] = "gateway" => /\ <<o[1], "address-data">> \in DOMAIN says
                                     /\ says[<<o[1], "address-data">>] # Empty
  BY DEF Reaches

LEMMA BroughtIsWanted ==
  ASSUME PlainOptions, IInv, Writing, Normal, WantedKinds,
         NEW u \in DOMAIN conns, NEW v, IsBrought(u, v)
  PROVE  v \in Readable(nm) /\ IsAsWanted(u, v)
<1>1. PICK c : c = conns[u].set
  OBVIOUS
<1>2. PICK ground : ground = Ground(u)
  OBVIOUS
<1>3. PICK port : port = IsBridgePort(u)
  OBVIOUS
<1>4. /\ v \in DOMAIN nm /\ nm[v].hash = Outcome(ground, c, port)
      /\ nm[v].id = conns[u].id /\ nm[v].persistent = conns[u].persistent
      /\ nm[v].master = MasterFor(u)
      /\ u \in DOMAIN write.saved => v = u
  BY <1>1, <1>2, <1>3 DEF IsBrought
<1>5. /\ Fits(ground, c)
      /\ u \notin DOMAIN write.saved => DOMAIN ground = WrittenSections(c)
      /\ u \in DOMAIN write.saved => ground = write.saved[u].hash
  BY <1>1, <1>2, GroundFits DEF Ground
<1>6. v \in Readable(nm)
  BY <1>4, <1>5, OutcomeKind DEF Readable
<1> DEFINE says == ConnectionFromDbus(nm[v].hash).says
<1>7. says = ConnectionFromDbus(Outcome(ground, c, port)).says
  BY <1>4
<1> HIDE DEF says
<1>8. ASSUME NEW o \in DOMAIN c.says, Reaches(u, o)
      PROVE  o \in DOMAIN says /\ says[o] = c.says[o]
  <2>1. o[1] \in DOMAIN ground
    <3>1. o[1] \in WrittenSections(c)
      BY <1>5 DEF Fits, IsNormal
    <3>2. QED
      BY <1>1, <1>5, <1>8, <3>1, ReachingMakesSense
  <2>2. o[1] \in {"ipv4", "ipv6"} =>
          /\ <<o[1], "method">> \in DOMAIN c.says /\ c.says[<<o[1], "method">>] = "disabled"
               => o[2] = "method"
          /\ o[2] = "gateway" => /\ <<o[1], "address-data">> \in DOMAIN c.says
                                 /\ c.says[<<o[1], "address-data">>] # Empty
    BY <1>1, <1>8, ReachingMakesSense
  <2>3. QED
    BY <1>5, <1>7, <2>1, <2>2, SaysStay
<1>9. HasWhatIsSaid(u, says)
  BY <1>1, <1>8 DEF HasWhatIsSaid
<1>10. HasNothingElse(u, says)
  <2>1. ASSUME NEW o \in DOMAIN says \ DOMAIN c.says,
               o[1] \in WrittenSections(c) /\ o[2] \in AlwaysWritten(c, o[1])
        PROVE  says[o] = DefaultOf(c, o[1], o[2])
    BY <1>5, <1>7, <2>1, NothingElseStays
  <2>2. QED
    BY <1>1, <2>1 DEF HasNothingElse
<1>11. KeepsUnknown(u)
  <2> SUFFICES ASSUME u \in DOMAIN write.saved, NEW o \in Options, ~ IsKnown(o),
                      o[1] \notin {"ipv4", "ipv6"}, Has(write.saved[u].hash, o)
               PROVE  /\ Has(nm[u].hash, o)
                      /\ nm[u].hash[o[1]][o[2]] = write.saved[u].hash[o[1]][o[2]]
    BY DEF KeepsUnknown
  <2>1. ground = write.saved[u].hash /\ nm[u].hash = Outcome(ground, c, port)
    BY <1>4, <1>5
  <2>2. QED
    BY <1>5, <2>1, UnknownStays
<1>12. ASSUME conns[u].controller \in DOMAIN conns
       PROVE  nm[v].master = conns[conns[u].controller].id
  <2>1. conns[u].controller # None
    BY <1>12, NoneIsNoUuid DEF IInv, Connections
  <2>2. QED
    BY <1>4, <1>12, <2>1 DEF MasterFor, WantedController
<1>13. QED
  BY <1>4, <1>6, <1>9, <1>10, <1>11, <1>12 DEF IsAsWanted, says

LEMMA WriteEnds ==
  ASSUME PlainOptions, IInv, WInv, Next,
         write.phase = "writing", write' = Idle, ~ dirty',
         write.since.external = spent.external,
         NEW u \in DOMAIN conns, ~ IsRemoved(u)
  PROVE  \E v \in Readable(nm) : IsAsWanted(u, v)
<1>1. write # Idle /\ Writing
  BY DEF Idle, IInv
<1>2. write.todo = {}
  <2>1. \A x \in write.todo :
          ~ (SkipConnection(x) \/ DeleteConnection(x) \/ AddOrUpdateConnection(x))
    <3> SUFFICES ASSUME NEW x \in write.todo,
                        SkipConnection(x) \/ DeleteConnection(x) \/ AddOrUpdateConnection(x)
                 PROVE  FALSE
      OBVIOUS
    <3>1. Done(x)
      BY DEF SkipConnection, DeleteConnection, AddOrUpdateConnection
    <3>2. QED
      BY <1>1, <3>1, DoneKeeps
  <2>2. QED
    BY <1>1, <2>1 DEF Next, WriteStep, SendUpdate, SendApply, ExternalAdd, Serve, Serves,
       UpdateSame, UpdateRejected, UpdateState, ProposeDefault, NewConnection,
       RemoveConnection, StartWrite, StartWriteFails, ExternalRemove, Dispatch,
       AddOrUpdateFails, FinishApply, FinishApplyFails
<1>3. Normal /\ WantedKinds /\ Bringing
  BY <1>1 DEF WInv
<1>4. IsKept(u) \/ \E v \in DOMAIN nm : IsBrought(u, v)
  BY <1>2, <1>3 DEF Bringing
<1>5. QED
  BY <1>1, <1>3, <1>4, KeptIsWanted, BroughtIsWanted

(* A write that ends well with nobody else at work has brought             *)
(* NetworkManager to the wanted state, as long as no configuration gives a *)
(* connection another kind: merge_dbus_connections adds no section to what *)
(* there is.  What was skipped was read as it is wanted; what was written  *)
(* on top of what there was, cleaned and completed is read back as it is   *)
(* said, with nothing left of what is not said and written by default, and *)
(* with what Agama cannot read (agama-network/src/nm/adapter.rs, write;    *)
(* nm/dbus.rs, connection_to_dbus, merge_dbus_connections and              *)
(* connection_from_dbus).                                                  *)
THEOREM WrittenWhileKindsKept ==
  ASSUME PlainOptions, NormalSettings
  PROVE  Spec /\ []KindsKept => WrittenAsWanted
<1> DEFINE Ends == write.phase = "writing" /\ write' = Idle /\ ~ dirty'
                     /\ write.since.external = spent.external
           Well == \A u \in DOMAIN conns : ~ IsRemoved(u) =>
                     \E v \in Readable(nm) : IsAsWanted(u, v)
<1>1. Init => WInv
  BY InitWritten
<1>2. IInv /\ KindsKept /\ WInv /\ [Next]_vars => WInv'
  BY StepWritten
<1>3. IInv /\ WInv /\ [Next]_vars => [Ends => Well]_vars
  <2> SUFFICES ASSUME IInv, WInv, Next, Ends
               PROVE  Well
    BY DEF vars
  <2>1. QED
    BY WriteEnds
<1>4. Spec /\ []KindsKept => [][Ends => Well]_vars
  BY <1>1, <1>2, <1>3, NetworkInvariant, PTL DEF Spec
<1>5. QED
  BY <1>4 DEF WrittenAsWanted, IsAsWanted

------------------------------------------------------------------------------
(* When every identifier goes with one kind, in the configurations, for a  *)
(* port they only list and for what somebody else adds, no configuration   *)
(* gives a connection of NetworkManager another kind.                      *)
IsKindOf(K) ==
  /\ \A config \in Configs : \A i \in DOMAIN config :
       config[i].set # Bad => Meaning[config[i].set].kind = K[i]
  /\ \A config \in Configs : \A b \in DOMAIN config \cap Bonds :
       \A p \in config[b].ports : K[p] = Default.kind
  /\ \A hash \in Foreign, i \in Ids \ Bonds : IsReadable(hash) => K[i] = KindRead(hash)
KindsByName == \E K \in [Ids -> Kinds] : IsKindOf(K)

SystemOfKinds(K, sys) ==
  \A u \in DOMAIN sys : IsReadable(sys[u].hash) => K[sys[u].id] = KindRead(sys[u].hash)
OfKinds(K) ==
  /\ SystemOfKinds(K, nm)
  /\ \A u \in DOMAIN conns : conns[u].set.kind = K[conns[u].id]
  /\ write # Idle => SystemOfKinds(K, write.saved)

LEMMA KindsAreKept ==
  ASSUME IInv, NEW K, OfKinds(K)
  PROVE  KindsKept
  BY DEF IInv, Connections, Agree, OfKinds, SystemOfKinds, KindsKept

(* What is written is of the kind that is wanted.                          *)
LEMMA HashKind ==
  ASSUME PlainOptions, IInv, Normal, KindsKept, NEW u \in DOMAIN conns
  PROVE  KindRead(HashWritten(u)) = conns[u].set.kind
<1> DEFINE c == conns[u].set
           ground == GroundNow(u)
           port == IsBridgePort(u)
<1>1. IsSettings(c) /\ IsNormal(c)
  BY DEF IInv, Connections, IsWanted, Normal, NormalWanted
<1>2. u \in DOMAIN nm => /\ ground = nm[u].hash /\ IsHash(nm[u].hash)
                         /\ IsReadable(nm[u].hash) /\ KindRead(nm[u].hash) = c.kind
  BY DEF GroundNow, IInv, Connections, IsSystem, IsInSystem, Agree, KindsKept
<1>3. u \notin DOMAIN nm => ground = EmptySections(c)
  BY DEF GroundNow
<1> HIDE DEF c, ground, port
<1>4. Fits(ground, c)
  BY <1>1, <1>2, <1>3, ReadableFits, NothingFits
<1>5. KindRead(Outcome(ground, c, port)) = c.kind
  BY <1>4, OutcomeKind
<1>6. QED
  BY <1>5, HashIsOutcome DEF c, ground, port

LEMMA OfKindsStep ==
  ASSUME PlainOptions, IInv, Normal, NEW K, IsKindOf(K), OfKinds(K), Next
  PROVE  OfKinds(K)'
<1>1. KindsKept
  BY KindsAreKept
<1>2. ASSUME NEW v \in DOMAIN nm', IsReadable(nm'[v].hash)
      PROVE  K[nm'[v].id] = KindRead(nm'[v].hash)
  <2>1. PICK r : r = nm'[v]
    OBVIOUS
  <2>2. ComesFrom(r)
    BY <2>1, SystemComes
  <2>3. \A u \in DOMAIN conns : KindRead(HashWritten(u)) = K[conns[u].id]
    BY <1>1, HashKind DEF OfKinds
  <2>4. QED
    BY <1>2, <2>1, <2>2, <2>3 DEF ComesFrom, OfKinds, SystemOfKinds, IsKindOf
<1>3. ASSUME NEW u \in DOMAIN conns'
      PROVE  conns'[u].set.kind = K[conns'[u].id]
  <2>1. PICK c : c = conns'[u]
    OBVIOUS
  <2>2. CASE IsOfOld(c)
    <3>1. \A hash : ConnectionFromDbus(hash).kind = KindRead(hash)
      BY DEF ConnectionFromDbus
    <3>2. QED
      BY <2>1, <2>2, <3>1 DEF IsOfOld, OfKinds, SystemOfKinds, Readable
  <2>3. CASE IsConfigured(c)
    <3>1. PICK config \in Configs, i \in Ids :
            /\ c.id = i
            /\ \/ /\ i \in DOMAIN config /\ config[i].set # Bad
                  /\ c.set = FromProfile(Meaning[config[i].set])
               \/ /\ \E b \in DOMAIN config \cap Bonds : i \in config[b].ports
                  /\ c.set = Default
      BY <2>3 DEF IsConfigured
    <3>2. ASSUME NEW set, IsSettings(set)
          PROVE  FromProfile(set).kind = set.kind
      BY <3>2 DEF IsSettings, FromProfile
    <3>3. ASSUME i \in DOMAIN config, config[i].set # Bad,
                 c.set = FromProfile(Meaning[config[i].set])
          PROVE  c.set.kind = K[i]
      <4>1. config[i].set \in DOMAIN Meaning
        BY <3>3, NetworkAssumption
      <4>2. IsSettings(Meaning[config[i].set])
        BY <4>1, NetworkAssumption
      <4>3. QED
        BY <3>2, <3>3, <4>2 DEF IsKindOf
    <3>4. QED
      BY <2>1, <3>1, <3>3 DEF IsKindOf
  <2>4. QED
    BY <2>1, <2>2, <2>3, WantedComes
<1>4. ASSUME write' # Idle
      PROVE  SystemOfKinds(K, write'.saved)
  <2>1. CASE write = Idle
    BY <1>4, <2>1, WriteStarts DEF OfKinds
  <2>2. CASE write # Idle
    BY <1>4, <2>2, WriteIsSame DEF OfKinds
  <2>3. QED
    BY <2>1, <2>2
<1>5. QED
  BY <1>2, <1>3, <1>4 DEF OfKinds, SystemOfKinds

LEMMA InitOfKinds ==
  ASSUME NormalSettings, Init, NEW K, IsKindOf(K)
  PROVE  Normal /\ OfKinds(K)
<1>1. Normal /\ write = Idle
  BY InitWritten DEF WInv, Init
<1>2. SystemOfKinds(K, nm)
  BY DEF Init, SystemOfKinds, IsKindOf
<1>3. \A u \in DOMAIN conns : /\ u \in DOMAIN nm /\ IsReadable(nm[u].hash)
                              /\ conns[u].id = nm[u].id
                              /\ conns[u].set.kind = KindRead(nm[u].hash)
  BY DEF Init, ReadConnections, Readable, ConnectionFromDbus
<1>4. QED
  BY <1>1, <1>2, <1>3 DEF OfKinds, SystemOfKinds

LEMMA StutterOfKinds ==
  ASSUME Normal, NEW K, OfKinds(K), UNCHANGED vars
  PROVE  Normal' /\ OfKinds(K)'
  BY DEF vars, Normal, NormalSystem, NormalWanted, OfKinds, SystemOfKinds

(* No configuration gives a connection of NetworkManager another kind.     *)
LEMMA KindsKeptAlways ==
  ASSUME PlainOptions, NormalSettings, KindsByName
  PROVE  Spec => []KindsKept
<1>1. PICK K \in [Ids -> Kinds] : IsKindOf(K)
  BY DEF KindsByName
<1>2. Init => Normal /\ OfKinds(K)
  BY <1>1, InitOfKinds
<1>3. IInv /\ (Normal /\ OfKinds(K)) /\ [Next]_vars => (Normal /\ OfKinds(K))'
  <2> SUFFICES ASSUME IInv, Normal, OfKinds(K), [Next]_vars
               PROVE  Normal' /\ OfKinds(K)'
    OBVIOUS
  <2>1. CASE Next
    <3>1. KindsKept
      BY KindsAreKept
    <3>2. Normal'
      BY <2>1, <3>1, NormalStep
    <3>3. OfKinds(K)'
      BY <1>1, <2>1, OfKindsStep
    <3>4. QED
      BY <3>2, <3>3
  <2>2. CASE UNCHANGED vars
    BY <2>2, StutterOfKinds
  <2>3. QED
    BY <2>1, <2>2
<1>4. IInv /\ OfKinds(K) => KindsKept
  BY KindsAreKept
<1>5. QED
  BY <1>2, <1>3, <1>4, NetworkInvariant, PTL DEF Spec

(* So it is when every identifier goes with one kind.                      *)
THEOREM WrittenAsWantedAlways ==
  ASSUME PlainOptions, NormalSettings, KindsByName
  PROVE  Spec => WrittenAsWanted
  BY KindsKeptAlways, WrittenWhileKindsKept, PTL

==============================================================================
