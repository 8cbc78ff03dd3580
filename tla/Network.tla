------------------------------- MODULE Network -------------------------------
(***************************************************************************)
(* The network service of agama-network: the actions its queue serves, the *)
(* state it wants for NetworkManager, the writing of that state with a     *)
(* checkpoint, and the watcher that turns the signals of NetworkManager    *)
(* into further actions of the same queue.                                 *)
(*                                                                         *)
(* A connection is known by its UUID, a number nobody else holds.  The one *)
(* the service draws is not sent to NetworkManager, which draws another    *)
(* when the connection is added.  What a connection says apart from its    *)
(* identifier, status, controller and persistence is its settings, and     *)
(* goes to NetworkManager and back as module NmSettings says.  The name of *)
(* an interface is the identifier of its connection, as set_ports makes it.*)
(* Devices, access points and the general state are left out.              *)
(***************************************************************************)
EXTENDS Naturals, Sequences, FiniteSets, Functions, NmSettings

CONSTANTS
  Ids,          \* identifiers of connections
  Bonds,        \* the ones that are controllers: bonds and bridges
  Settings,     \* the settings of a profile, by name
  Bad,          \* the ones that cannot be converted into a connection
  Meaning,      \* what the others say
  Configs,      \* the network configurations the clients send
  Clients,      \* tasks that update the configuration and apply it
  Foreign,      \* what NetworkManager has of the connections of somebody else
  None,         \* no configuration, no controller, no client
  MaxRequests,  \* bound on the configurations sent
  MaxExternal,  \* bound on the changes somebody else makes
  MaxFaults,    \* bound on the calls NetworkManager refuses
  MaxSpent      \* bound on the sum of the three

(* What a connection may say, and a hash NetworkManager may have.          *)
IsSettings(set) ==
  set \in [kind : Kinds, says : {set.says}] /\ DOMAIN set.says \subseteq Options
IsHash(hash) ==
  \A s \in DOMAIN hash : \A k \in DOMAIN hash[s] : <<s, k>> \in Options

Statuses == {"up", "down", "removed", "keep"}

ASSUME NetworkAssumption ==
  /\ IsFiniteSet(Ids) /\ Bonds \subseteq Ids
  /\ Bad \in Settings /\ DOMAIN Meaning = Settings \ {Bad}
  /\ \A x \in DOMAIN Meaning : IsSettings(Meaning[x])
  /\ \A config \in Configs :
       /\ DOMAIN config \subseteq Ids
       /\ \A i \in DOMAIN config :
            config[i] \in [set : Settings, status : Statuses, ports : SUBSET Ids]
  /\ \A hash \in Foreign : IsHash(hash)
  /\ None \notin Nat \cup Ids
  /\ MaxRequests \in Nat /\ MaxExternal \in Nat /\ MaxFaults \in Nat
  /\ MaxSpent \in Nat

VARIABLES
  nm,          \* what NetworkManager has, by UUID
  conns,       \* the connections of NetworkState, by UUID
  userConfig,  \* NetworkState::user_config
  queue,       \* the actions waiting for the service
  client,      \* what each client is doing
  write,       \* the write in progress, or Idle
  signals,     \* what NetworkManager has told and the watcher not read
  known,       \* ProxiesRegistry::connections
  dirty,       \* whether conns may not be what was last read back
  spent        \* how much of each bound is used, and how often a deletion or
               \* a rollback was refused

vars == <<nm, conns, userConfig, queue, client, write, signals, known, dirty,
          spent>>

Uuids == Nat \ {0}
Idle == [phase |-> "idle"]

(* A configuration gives some identifiers a profile; the order to persist  *)
(* what there is (propose_default) is sent in place of a configuration.    *)
Propose == [propose |-> TRUE]
Requests == Configs \cup {Propose}
EmptyConfig == [i \in {} |-> None]

Overlay(f, g) ==
  [x \in DOMAIN f \cup DOMAIN g |-> IF x \in DOMAIN g THEN g[x] ELSE f[x]]

(* The settings of Connection::new.                                        *)
Default == [kind |-> "802-3-ethernet", says |-> [o \in {} |-> Empty]]

Spend(what) ==
  /\ spent.requests + spent.external + spent.faults + spent.refused < MaxSpent
  /\ spent' = [spent EXCEPT ![what] = @ + 1]
(* The UUIDs something still refers to, and some nothing does.             *)
UuidsIn(f) == DOMAIN f \cup ({f[u].controller : u \in DOMAIN f} \ {None})
Held ==
  UuidsIn(conns) \cup DOMAIN nm \cup known
    \cup {signals[k].uuid : k \in DOMAIN signals}
    \cup {queue[k].uuid : k \in {j \in DOMAIN queue : queue[j].action = "remove"}}
    \cup (IF write = Idle THEN {} ELSE UuidsIn(write.old) \cup DOMAIN write.saved)
Free(n) == (1 .. (Cardinality(Held) + n)) \ Held
NewUuid == CHOOSE u \in Free(1) : TRUE

FaultLeft == spent.faults + spent.refused < MaxFaults

------------------------------------------------------------------------------
(* Reading NetworkManager.                                                 *)

(* The ones that cannot be converted are left out.                         *)
Readable(sys) == {u \in DOMAIN sys : IsReadable(sys[u].hash)}

(* The controller is told by the name of its interface; a port whose       *)
(* controller is not there is read as one without controller.              *)
ControllerOf(sys, u) ==
  LET owners == {v \in Readable(sys) : sys[v].id = sys[u].master}
  IN  IF owners = {} THEN None
      ELSE CHOOSE v \in owners : \A x \in owners : x <= v

(* What NetworkManagerClient::connections makes of the system: an inactive *)
(* connection is read as one to be kept down.                              *)
ReadConnections(sys) ==
  [u \in Readable(sys) |->
     [id |-> sys[u].id, set |-> ConnectionFromDbus(sys[u].hash),
      persistent |-> sys[u].persistent,
      status |-> IF sys[u].active THEN "up" ELSE "down",
      controller |-> ControllerOf(sys, u)]]

------------------------------------------------------------------------------
(* Updating the wanted state with a configuration.                         *)

(* The first connection with that identifier, None when there is none.     *)
GetConnection(cs, i) ==
  LET found == {u \in DOMAIN cs : cs[u].id = i}
  IN  IF found = {} THEN None
      ELSE CHOOSE u \in found : \A x \in found : u <= x

Profile(config, i) ==
  IF config # None /\ i \in DOMAIN config THEN config[i] ELSE None

(* The profiles that are not in the last configuration as they are in this *)
(* one.                                                                    *)
ChangedConnections(config) ==
  {i \in DOMAIN config : config[i] # Profile(userConfig, i)}

Ports(config, S) == UNION {config[i].ports : i \in S \cap Bonds}

(* The identifiers the collection holds: the changed ones and the ports of *)
(* the changed controllers.  The new ones get UUIDs of their own.          *)
Collected(config, S) == S \cup Ports(config, S)
NewIds(config, S) ==
  {i \in Collected(config, S) : GetConnection(conns, i) = None}
Numbering(config, S) ==
  LET new == NewIds(config, S)
  IN  CHOOSE f \in [new -> Free(Cardinality(new))] : IsInjective(f)

(* A collected profile as a connection.  It carries nothing of the         *)
(* connection it will replace but its UUID; a port is found in the         *)
(* collection or made from nothing, and its controller is the changed one  *)
(* that lists it.                                                          *)
AsConnection(config, S, uuidOf, i) ==
  LET owners == {b \in S \cap Bonds : i \in config[b].ports}
  IN  [id |-> i, persistent |-> TRUE,
       set |-> IF i \in S THEN FromProfile(Meaning[config[i].set]) ELSE Default,
       status |-> IF i \in S THEN config[i].status ELSE "up",
       controller |-> IF owners = {} THEN None
                      ELSE uuidOf[CHOOSE b \in owners : TRUE]]

SanitizedCollection(config, S) ==
  LET new == Numbering(config, S)
      uuidOf == [i \in Collected(config, S) |->
                   IF i \in DOMAIN new THEN new[i] ELSE GetConnection(conns, i)]
  IN  [u \in Range(uuidOf) |->
         AsConnection(config, S, uuidOf, CHOOSE i \in DOMAIN uuidOf :
                                            uuidOf[i] = u)]

(* set_ports of every changed controller: a port it no longer lists loses  *)
(* its controller and is to be removed.                                    *)
SetPorts(cs, config, S) ==
  [u \in DOMAIN cs |->
     IF \E b \in S \cap Bonds :
          /\ cs[u].controller = GetConnection(cs, b)
          /\ \A p \in config[b].ports : GetConnection(cs, p) # u
     THEN [cs[u] EXCEPT !.controller = None, !.status = "removed"]
     ELSE cs[u]]

(* propose_default: what there is becomes persistent when nothing is.      *)
ProposedDefault(cs) ==
  IF \E u \in DOMAIN cs : cs[u].persistent THEN cs
  ELSE [u \in DOMAIN cs |->
          [cs[u] EXCEPT !.persistent = TRUE, !.status = "keep"]]

------------------------------------------------------------------------------
Init ==
  /\ \E u \in SUBSET {1}, i \in Ids \ Bonds, hash \in Foreign :
       nm = [x \in u |-> [id |-> i, hash |-> hash, master |-> None,
                          active |-> TRUE, persistent |-> FALSE]]
  /\ conns = ReadConnections(nm)
  /\ userConfig = None
  /\ queue = <<>>
  /\ client = [c \in Clients |-> "idle"]
  /\ write = Idle
  /\ signals = <<>>
  /\ known = Readable(nm)
  /\ dirty = FALSE
  /\ spent = [requests |-> 0, external |-> 0, faults |-> 0,
              refused |-> 0]

(* A task sends the new configuration and waits for the answer.  The       *)
(* manager starts with the default proposal.                               *)
SendUpdate(c) ==
  /\ client[c] = "idle"
  /\ spent.requests < MaxRequests
  /\ \E r \in Requests :
       /\ spent.requests = 0 => r = Propose
       /\ client' = [client EXCEPT ![c] = "updating"]
       /\ queue' = Append(queue, [action |-> "update", by |-> c, request |-> r])
  /\ Spend("requests")
  /\ UNCHANGED <<nm, conns, userConfig, write, signals, known, dirty>>

(* The state was updated: the same task asks to apply it.                  *)
SendApply(c) ==
  /\ client[c] = "updated"
  /\ client' = [client EXCEPT ![c] = "applying"]
  /\ queue' = Append(queue, [action |-> "apply", by |-> c])
  /\ UNCHANGED <<nm, conns, userConfig, write, signals, known, dirty, spent>>

(* The answers: the task that sent the action goes on or ends.             *)
Answer(c, pc) == client' = [client EXCEPT ![c] = pc]
AnswerEnd(c) == Answer(c, "idle")

------------------------------------------------------------------------------
(* The service takes the actions one by one.                               *)

(* A bug to try: actions are taken while a write is in progress.           *)
ServesAnyTime(kind) ==
  /\ queue # <<>>
  /\ Head(queue).action = kind
  /\ queue' = Tail(queue)

Serves(kind) ==
  /\ write = Idle
  /\ queue # <<>>
  /\ Head(queue).action = kind
  /\ queue' = Tail(queue)

(* The configuration is the last one: nothing is looked at.                *)
UpdateSame ==
  /\ Serves("update")
  /\ Head(queue).request = userConfig
  /\ Answer(Head(queue).by, "updated")
  /\ UNCHANGED <<nm, conns, userConfig, write, signals, known, dirty, spent>>

(* A profile that changed cannot be converted: the state stays.            *)
UpdateRejected ==
  /\ Serves("update")
  /\ LET config == Head(queue).request
     IN  /\ config \in Configs \ {userConfig}
         /\ \E i \in ChangedConnections(config) : config[i].set = Bad
  /\ AnswerEnd(Head(queue).by)
  /\ UNCHANGED <<nm, conns, userConfig, write, signals, known, dirty, spent>>

UpdateState ==
  /\ Serves("update")
  /\ LET config == Head(queue).request
         changed == ChangedConnections(config)
     IN  /\ config \in Configs \ {userConfig}
         /\ \A i \in changed : config[i].set # Bad
         /\ conns' = SetPorts(Overlay(conns, SanitizedCollection(config, changed)),
                              config, changed)
         /\ userConfig' = config
  /\ dirty' = TRUE
  /\ Answer(Head(queue).by, "updated")
  /\ UNCHANGED <<nm, write, signals, known, spent>>

(* Nothing is persisted when the copy of the network is disabled, which is *)
(* part of the general state.                                              *)
ProposeDefault ==
  /\ Serves("update")
  /\ Head(queue).request = Propose
  /\ \/ conns' = ProposedDefault(conns) /\ dirty' = TRUE
     \/ UNCHANGED <<conns, dirty>>
  /\ Answer(Head(queue).by, "updated")
  /\ UNCHANGED <<nm, userConfig, write, signals, known, spent>>

(* The removals the service or its watcher is still to handle.             *)
Removals ==
  {queue[k].uuid : k \in {j \in DOMAIN queue : queue[j].action = "remove"}}
    \cup {signals[k].uuid :
             k \in {j \in DOMAIN signals : signals[j].signal = "removed"}}

(* A connection the service does not know makes it read the whole system   *)
(* again, which may fail; a known identifier is skipped.  What is read is  *)
(* dirty if a removal is still to come of a connection that is there: it   *)
(* was deleted, and a rollback brought it back.                            *)
SyncFromSystem ==
  /\ conns' = ReadConnections(nm)
  /\ dirty' = (Removals \cap DOMAIN nm # {})

(* A bug to try: any connection is taken for known.                        *)
KnownIdAlways(i) == TRUE

KnownId(i) == GetConnection(conns, i) # None

NewConnection ==
  /\ Serves("new")
  /\ \/ KnownId(Head(queue).id) /\ UNCHANGED <<conns, dirty, spent>>
     \/ ~ KnownId(Head(queue).id) /\ SyncFromSystem /\ UNCHANGED spent
     \/ /\ ~ KnownId(Head(queue).id) /\ FaultLeft
        /\ Spend("faults")
        /\ dirty' = TRUE
        /\ UNCHANGED conns
  /\ UNCHANGED <<nm, userConfig, client, write, signals, known>>

RemoveConnection ==
  /\ Serves("remove")
  /\ LET u == Head(queue).uuid
     IN  conns' = IF u \in DOMAIN conns /\ conns[u].status # "removed"
                  THEN Without(conns, {u}) ELSE conns
  /\ UNCHANGED <<nm, userConfig, client, write, signals, known, dirty, spent>>

------------------------------------------------------------------------------
(* Applying: NetworkManagerAdapter::write, step by step.                   *)

(* The system is read and a checkpoint is made before anything is written. *)
StartWrite ==
  /\ Serves("apply")
  /\ write' = [phase |-> "writing", by |-> Head(queue).by,
               old |-> ReadConnections(nm), saved |-> nm,
               todo |-> DOMAIN conns, since |-> spent]
  /\ UNCHANGED <<nm, conns, userConfig, client, signals, known, dirty, spent>>

(* The reading, the checkpoint or the general state fails.                 *)
StartWriteFails ==
  /\ Serves("apply")
  /\ FaultLeft /\ Spend("faults")
  /\ AnswerEnd(Head(queue).by)
  /\ dirty' = TRUE
  /\ UNCHANGED <<nm, conns, userConfig, write, signals, known>>

WantedController(u) ==
  IF conns[u].controller \in DOMAIN conns THEN conns[u].controller ELSE None

(* A connection is gone with its controller.                               *)
IsRemoved(u) ==
  \/ conns[u].status = "removed"
  \/ WantedController(u) # None /\ conns[WantedController(u)].status = "removed"

(* A bug to try: the connections are taken in any order.                   *)
MayBeNextAny(u) == u \in write.todo

(* The connections are taken with the controllers before their ports.      *)
MayBeNext(u) ==
  u \in write.todo /\ (WantedController(u) # None
                          => WantedController(u) \notin write.todo)

Unchanged(u) ==
  IF u \in DOMAIN write.old THEN write.old[u] = conns[u] /\ ~ IsRemoved(u)
  ELSE IsRemoved(u)

Done(u) == write' = [write EXCEPT !.todo = @ \ {u}]

SkipConnection(u) ==
  /\ MayBeNext(u) /\ Unchanged(u)
  /\ Done(u)
  /\ UNCHANGED <<nm, conns, userConfig, queue, client, signals, known, dirty,
                 spent>>

(* NetworkManager refuses to delete it, or no longer has it: the error is  *)
(* only logged.                                                            *)
DeleteConnection(u) ==
  /\ MayBeNext(u) /\ ~ Unchanged(u) /\ IsRemoved(u)
  /\ \/ /\ u \in DOMAIN nm
        /\ nm' = Without(nm, {u})
        /\ signals' = Append(signals, [signal |-> "removed", uuid |-> u])
        /\ UNCHANGED spent
     \/ /\ u \in DOMAIN nm /\ FaultLeft
        /\ Spend("refused")
        /\ UNCHANGED <<nm, signals>>
     \/ u \notin DOMAIN nm /\ UNCHANGED <<nm, signals, spent>>
  /\ Done(u)
  /\ UNCHANGED <<conns, userConfig, queue, client, known, dirty>>

(* Whether the connection is active afterwards: activating it or taking it *)
(* down may fail, which is only logged.                                    *)
WasActive(u) == u \in DOMAIN nm /\ nm[u].active
MadeActive(u) ==
  conns[u].status = "up" \/ (conns[u].status # "down" /\ WasActive(u))

IsBridgePort(u) ==
  WantedController(u) # None /\ conns[WantedController(u)].set.kind = "bridge"

(* An update keeps the UUID and goes on top of what there is, an addition  *)
(* gets a new UUID.                                                        *)
HashWritten(u) ==
  LET hash == ConnectionToDbus(conns[u].set)
  IN  Completed(IF u \in DOMAIN nm
                THEN MergeDbusConnections(nm[u].hash, hash, IsBridgePort(u))
                ELSE CleanupDbusConnection(hash, IsBridgePort(u)),
                conns[u].set.kind)

WrittenAs(u, active) ==
  [id |-> conns[u].id, hash |-> HashWritten(u), active |-> active,
   persistent |-> conns[u].persistent,
   master |-> IF WantedController(u) = None THEN None
              ELSE conns[WantedController(u)].id]

(* A connection is also written when only its state or its flags, which    *)
(* are left out, are not what they were: so any connection may be.         *)
AddOrUpdateConnection(u) ==
  /\ MayBeNext(u) /\ ~ IsRemoved(u)
  /\ \E active \in {MadeActive(u), WasActive(u)} :
       /\ IF active = MadeActive(u) THEN UNCHANGED spent
          ELSE FaultLeft /\ Spend("faults")
       /\ IF u \in DOMAIN nm
          THEN /\ nm' = [nm EXCEPT ![u] = WrittenAs(u, active)]
               /\ UNCHANGED signals
          ELSE /\ nm' = Overlay(nm, [x \in {NewUuid} |-> WrittenAs(u, active)])
               /\ signals' = Append(signals,
                                    [signal |-> "added", uuid |-> NewUuid])
  /\ Done(u)
  /\ UNCHANGED <<conns, userConfig, queue, client, known, dirty>>

(* Rolling back gives NetworkManager what it had; the checkpoint is made   *)
(* with no flags, so what was added since then stays.                      *)
RolledBack == Overlay(nm, write.saved)

Readded ==
  {u \in DOMAIN write.saved : u \notin DOMAIN nm}

RollbackCheckpoint ==
  /\ Spend("faults")
  /\ nm' = RolledBack
  /\ \E order \in [1..Cardinality(Readded) -> Readded] :
       /\ IsInjective(order)
       /\ signals' = signals \o [k \in DOMAIN order |->
                                   [signal |-> "added", uuid |-> order[k]]]

(* NetworkManager refuses that as well: it stays as it was written so far. *)
RollbackFails == Spend("refused") /\ UNCHANGED <<nm, signals>>

AddOrUpdateFails(u) ==
  /\ MayBeNext(u) /\ ~ IsRemoved(u)
  /\ FaultLeft
  /\ RollbackCheckpoint \/ RollbackFails
  /\ write' = Idle
  /\ dirty' = TRUE
  /\ AnswerEnd(write.by)
  /\ UNCHANGED <<conns, userConfig, queue, known>>

(* The checkpoint is destroyed, the activations are awaited for a while    *)
(* and the state is read back.                                             *)
FinishApply ==
  /\ write.phase = "writing" /\ write.todo = {}
  /\ SyncFromSystem
  /\ write' = Idle
  /\ AnswerEnd(write.by)
  /\ UNCHANGED <<nm, userConfig, queue, signals, known, spent>>

(* Destroying the checkpoint or reading back fails: the task fails with    *)
(* everything written.                                                     *)
FinishApplyFails ==
  /\ write.phase = "writing" /\ write.todo = {}
  /\ FaultLeft /\ Spend("faults")
  /\ write' = Idle
  /\ dirty' = TRUE
  /\ AnswerEnd(write.by)
  /\ UNCHANGED <<nm, conns, userConfig, queue, signals, known>>

------------------------------------------------------------------------------
(* Somebody else changes the system, and the watcher tells the service.    *)

ExternalAdd ==
  /\ spent.external < MaxExternal
  /\ \E i \in Ids \ Bonds, hash \in Foreign :
       /\ \A u \in DOMAIN nm : nm[u].id # i
       /\ nm' = Overlay(nm, [x \in {NewUuid} |->
                  [id |-> i, hash |-> hash, master |-> None, active |-> TRUE,
                   persistent |-> FALSE]])
  /\ signals' = Append(signals, [signal |-> "added", uuid |-> NewUuid])
  /\ Spend("external")
  /\ UNCHANGED <<conns, userConfig, queue, client, write, known, dirty>>

ExternalRemove ==
  /\ spent.external < MaxExternal
  /\ \E u \in DOMAIN nm :
       /\ nm[u].id \notin Bonds
       /\ nm' = Without(nm, {u})
       /\ signals' = Append(signals, [signal |-> "removed", uuid |-> u])
  /\ Spend("external")
  /\ UNCHANGED <<conns, userConfig, queue, client, write, known, dirty>>

(* The dispatcher reads an added connection before it tells the service,   *)
(* which fails when it is gone or cannot be converted; a removed one has   *)
(* to be in the registry.                                                  *)
Dispatch ==
  /\ signals # <<>>
  /\ signals' = Tail(signals)
  /\ LET u == Head(signals).uuid
     IN  IF Head(signals).signal = "added"
         THEN IF u \in Readable(nm)
              THEN /\ known' = known \cup {u}
                   /\ queue' = Append(queue, [action |-> "new", id |-> nm[u].id])
              ELSE UNCHANGED <<known, queue>>
         ELSE IF u \in known
              THEN /\ known' = known \ {u}
                   /\ queue' = Append(queue, [action |-> "remove", uuid |-> u])
              ELSE UNCHANGED <<known, queue>>
  /\ UNCHANGED <<nm, conns, userConfig, client, write, dirty, spent>>

------------------------------------------------------------------------------
Serve == \/ UpdateSame \/ UpdateRejected \/ UpdateState \/ ProposeDefault
         \/ NewConnection \/ RemoveConnection \/ StartWrite \/ StartWriteFails

WriteStep ==
  \/ /\ write.phase = "writing"
     /\ \E u \in write.todo :
          \/ SkipConnection(u) \/ DeleteConnection(u)
          \/ AddOrUpdateConnection(u) \/ AddOrUpdateFails(u)
  \/ FinishApply \/ FinishApplyFails

Next ==
  \/ \E c \in Clients : SendUpdate(c) \/ SendApply(c)
  \/ Serve \/ WriteStep \/ ExternalAdd \/ ExternalRemove \/ Dispatch

Spec == Init /\ [][Next]_vars
------------------------------------------------------------------------------
(* Properties.                                                             *)

IsWanted(c) ==
  /\ c \in [id : Ids, set : {c.set}, status : Statuses, persistent : BOOLEAN,
            controller : Uuids \cup {None}]
  /\ IsSettings(c.set)
IsInSystem(c) ==
  /\ c \in [id : Ids, hash : {c.hash}, master : Ids \cup {None},
            active : BOOLEAN, persistent : BOOLEAN]
  /\ IsHash(c.hash)
Actions ==
  [action : {"update"}, by : Clients, request : Requests]
    \cup [action : {"apply"}, by : Clients]
    \cup [action : {"new"}, id : Ids] \cup [action : {"remove"}, uuid : Uuids]
Signals == [signal : {"added", "removed"}, uuid : Uuids]
Spending == [requests : 0 .. MaxRequests, external : 0 .. MaxExternal,
             faults : 0 .. MaxFaults, refused : 0 .. MaxFaults]

(* The variables have their types: what the service wants and what         *)
(* NetworkManager has are connections by UUID, every task is in one of its *)
(* states, and the write in progress works on known connections.           *)
TypeOK ==
  /\ DOMAIN nm \subseteq Uuids /\ \A u \in DOMAIN nm : IsInSystem(nm[u])
  /\ DOMAIN conns \subseteq Uuids /\ \A u \in DOMAIN conns : IsWanted(conns[u])
  /\ userConfig \in Configs \cup {None}
  /\ queue \in Seq(Actions) /\ signals \in Seq(Signals)
  /\ client \in [Clients -> {"idle", "updating", "updated", "applying"}]
  /\ write # Idle => /\ write.phase = "writing" /\ write.by \in Clients
                     /\ write.todo \subseteq DOMAIN conns
                     /\ DOMAIN write.saved \subseteq Uuids
                     /\ \A u \in DOMAIN write.saved : IsInSystem(write.saved[u])
  /\ known \subseteq Uuids /\ dirty \in BOOLEAN
  /\ spent \in Spending /\ spent.refused + spent.faults <= MaxFaults

Quiet == queue = <<>> /\ signals = <<>> /\ write = Idle

(* When nothing is under way and nothing was changed nor failed since the  *)
(* state was last read, the service knows by its identifier every          *)
(* connection NetworkManager has and Agama can read, whatever the tasks,   *)
(* somebody else, the rollbacks and the signals did in between, unless the *)
(* state was read while a removal that was rolled back was to come         *)
(* (agama-network/src/service.rs, NewConnection, RemoveConnection, Apply). *)
SystemKnown ==
  Quiet /\ ~ dirty =>
    \A u \in Readable(nm) : GetConnection(conns, nm[u].id) # None

(* When a configuration has become the one of the service, the connections *)
(* a bond lists in it are the ports of that bond, as the schema of the     *)
(* profiles and the comment of update_state say (share/profile.schema.json,*)
(* "A list of the interfaces or connections to be bonded";                 *)
(* agama-network/src/model.rs, update_state).                              *)
PortsAsConfigured ==
  [][userConfig' # userConfig =>
       \A b \in DOMAIN userConfig' \cap Bonds :
         userConfig'[b].status # "removed" =>
           \A p \in userConfig'[b].ports :
             LET u == GetConnection(conns', p)
             IN  u # None /\ conns'[u].controller = GetConnection(conns', b)]_vars

(* A write does not leave NetworkManager with a port whose controller is   *)
(* not there, neither when it succeeds nor when it is rolled back, if the  *)
(* service knew the ports there were as it began, NetworkManager refused   *)
(* no deletion and no rollback and nobody else changed the system meanwhile*)
(* (agama-network/src/nm/adapter.rs, the order of the connections, what is *)
(* removed with its controller, and the checkpoint).                       *)
HaveControllers(sys) ==
  \A u \in DOMAIN sys : sys[u].master # None =>
    \E v \in DOMAIN sys : sys[v].id = sys[u].master
PortsOf(sys) == {u \in DOMAIN sys : sys[u].master # None}
IsUndisturbed == /\ write.since.external = spent.external
                 /\ write.since.refused = spent.refused

PortsKeepController ==
  [][/\ write # Idle /\ write' = Idle
     /\ IsUndisturbed /\ spent'.refused = spent.refused
     /\ HaveControllers(write.saved) /\ PortsOf(write.saved) \subseteq DOMAIN conns
     => HaveControllers(nm')]_vars

(* What of the settings reaches NetworkManager: a section it has, when it  *)
(* has the connection, with the addresses a gateway needs, and nothing but *)
(* the method of a disabled IP.                                            *)
Reaches(u, o) ==
  LET says == conns[u].set.says
      Says(k, v) == <<o[1], k>> \in DOMAIN says /\ says[<<o[1], k>>] = v
      NoAddress == \A v \in {says[x] : x \in DOMAIN says} \ {Empty} :
                     ~ Says("address-data", v)
  IN  /\ u \in DOMAIN write.saved => o[1] \in DOMAIN write.saved[u].hash
      /\ o[1] \in {"ipv4", "ipv6"} =>
           /\ Says("method", "disabled") => o[2] = "method"
           /\ o[2] = "gateway" => ~ NoAddress

(* NetworkManager has what is wanted, what is always written is not what   *)
(* it was when nothing is said of it, and nothing is lost of what Agama    *)
(* cannot read.                                                            *)
IsKnown(o) == o \in ReadOptions /\ ReadKey(o[1], o[2]) = o[2]
Has(hash, o) == o[1] \in DOMAIN hash /\ o[2] \in DOMAIN hash[o[1]]

HasWhatIsSaid(u, says) ==
  \A o \in {p \in DOMAIN conns[u].set.says : IsKnown(p) /\ Reaches(u, p)} :
    o \in DOMAIN says /\ says[o] = conns[u].set.says[o]

HasNothingElse(u, says) ==
  LET set == conns[u].set
  IN  \A o \in DOMAIN says \ DOMAIN set.says :
        o[1] \in WrittenSections(set) /\ o[2] \in AlwaysWritten(set, o[1]) =>
          says[o] = DefaultOf(set, o[1], o[2])

KeepsUnknown(u) ==
  u \in DOMAIN write.saved /\ u \in DOMAIN nm =>
    \A o \in Options :
      ~ IsKnown(o) /\ o[1] \notin {"ipv4", "ipv6"} /\ Has(write.saved[u].hash, o) =>
        /\ Has(nm[u].hash, o)
        /\ nm[u].hash[o[1]][o[2]] = write.saved[u].hash[o[1]][o[2]]

(* A write that ends well while nobody else changes the system has brought *)
(* NetworkManager to the wanted state: the connections to keep are there   *)
(* as they are wanted, although the ones that look unchanged were skipped, *)
(* the others were converted and merged with what there was, and what      *)
(* Agama cannot read of a connection is not lost                           *)
(* (agama-network/src/nm/adapter.rs, write; nm/dbus.rs, connection_to_dbus *)
(* and merge_dbus_connections).                                            *)
WrittenAsWanted ==
  [][(write.phase = "writing" /\ write' = Idle /\ ~ dirty'
        /\ write.since.external = spent.external) =>
       \A u \in DOMAIN conns : ~ IsRemoved(u) =>
         \E v \in Readable(nm) :
           /\ nm[v].id = conns[u].id
           /\ LET says == ConnectionFromDbus(nm[v].hash).says
              IN  HasWhatIsSaid(u, says) /\ HasNothingElse(u, says)
           /\ KeepsUnknown(u)
           /\ nm[v].persistent = conns[u].persistent
           /\ conns[u].controller \in DOMAIN conns =>
                nm[v].master = conns[conns[u].controller].id]_vars
==============================================================================
