---------------------------- MODULE SoftwareProofs ----------------------------
(***************************************************************************)
(* Proofs about the software service and the zypp thread, for any products,*)
(* configurations and services that ask for software, and any number of    *)
(* requests.                                                               *)
(***************************************************************************)
EXTENDS Software, SequenceTheorems, WellFoundedInduction, TLAPS

-----------------------------------------------------------------------------
(* What the wanted state selects.                                          *)

\* A set of naturals that is not empty has a least element.
LEMMA LeastNat ==
    ASSUME NEW S, S \subseteq Nat, S # {}
    PROVE  \E n \in S : \A m \in S : n <= m
<1>1. \E n \in S : \A m \in S : ~(<<m, n>> \in OpToRel(<, Nat))
  BY WFMin, NatLessThanWellFounded
<1>2. PICK n \in S : \A m \in S : ~(<<m, n>> \in OpToRel(<, Nat))
  BY <1>1
<1>3. ASSUME NEW m \in S
      PROVE  n <= m
  <2>1. m \in Nat /\ n \in Nat
    OBVIOUS
  <2>2. ~(m < n)
    BY <1>2, <2>1 DEF OpToRel
  <2>3. QED
    BY <2>1, <2>2
<1>4. QED
  BY <1>3

\* Adding resolvables selects those that are named, unless the product or a
\* service already did.
LEMMA ExtendAt ==
    ASSUME NEW state, NEW names, NEW how, NEW r \in Resolvables
    PROVE  Extend(state, names, how)[r] =
               IF r \in names /\ state[r] \notin Automatic THEN how ELSE state[r]
BY DEF Extend

\* The product decides first: its required resolvables, its optional ones, the
\* kernel, and the patterns that it proposes.
LEMMA BuildResolvablesAt ==
    ASSUME NEW p \in Products, NEW r \in Resolvables
    PROVE  BuildResolvables(p)[r] =
               IF r \in p.mandatory THEN "mandatory"
               ELSE IF r \in p.optional THEN "optional"
               ELSE IF r = p.kernel THEN "mandatory"
               ELSE IF r \in p.preselected THEN "selected" ELSE "none"
<1> DEFINE one == Extend(NothingSelected, p.mandatory \cap Patterns, "mandatory")
           two == Extend(one, p.optional \cap Patterns, "optional")
           three == Extend(two, p.preselected, "selected")
           four == Extend(three, p.mandatory \cap Packages, "mandatory")
           five == Extend(four, p.optional \cap Packages, "optional")
           six == Extend(five, {p.kernel}, "mandatory")
<1>1. BuildResolvables(p) = six
  BY DEF BuildResolvables, AddPatterns, AddPackages
<1>2. NothingSelected[r] = "none"
  BY DEF NothingSelected
<1>3. one[r] = IF r \in p.mandatory /\ r \in Patterns THEN "mandatory" ELSE "none"
  BY <1>2, ExtendAt DEF Automatic
<1>4. two[r] = IF r \in p.optional /\ r \in Patterns /\ one[r] = "none" THEN "optional" ELSE one[r]
  BY <1>3, ExtendAt DEF Automatic
<1>5. three[r] = IF r \in p.preselected /\ two[r] = "none" THEN "selected" ELSE two[r]
  BY <1>3, <1>4, ExtendAt DEF Automatic
<1>6. four[r] = IF r \in p.mandatory /\ r \in Packages /\ three[r] \notin Automatic
                THEN "mandatory" ELSE three[r]
  BY ExtendAt
<1>7. five[r] = IF r \in p.optional /\ r \in Packages /\ four[r] \notin Automatic
                THEN "optional" ELSE four[r]
  BY ExtendAt
<1>8. six[r] = IF r = p.kernel /\ five[r] \notin Automatic THEN "mandatory" ELSE five[r]
  BY ExtendAt
<1> HIDE DEF one, two, three, four, five, six
<1>9. r \in Patterns \/ r \in Packages
  BY DEF Resolvables
<1>10. r \in Patterns => r \notin Packages
  BY ResolvablesAssumption
<1>11. QED
  BY <1>1, <1>3, <1>4, <1>5, <1>6, <1>7, <1>8, <1>9, <1>10 DEF Automatic

\* What the user says comes after the product and after nothing else.
LEMMA AddUserResolvablesAt ==
    ASSUME NEW state, NEW c \in Configs, NEW r \in Resolvables,
           state[r] \in Automatic \union {"selected", "none"},
           state[r] = "selected" => r \in Patterns
    PROVE  AddUserResolvables(state, c)[r] =
               IF state[r] \in Automatic THEN state[r]
               ELSE IF r \in c.patterns.remove THEN "removed"
               ELSE IF r \in c.patterns.add \union c.packages THEN "selected"
               ELSE IF c.patterns.kind # "list" THEN state[r] ELSE "none"
<1> DEFINE patterns == AddUserPatterns(state, c.patterns)
<1>1. AddUserResolvables(state, c)[r] =
          IF r \in c.packages /\ patterns[r] \notin Automatic THEN "selected" ELSE patterns[r]
  BY ExtendAt DEF AddUserResolvables
<1>2. /\ c.patterns.kind \in {"none", "list", "map"}
      /\ c.patterns.kind = "none" => c.patterns.add = {}
      /\ c.patterns.kind # "map" => c.patterns.remove = {}
      /\ r \in c.packages => r \notin c.patterns.remove
  BY ConfigsAssumption, ResolvablesAssumption
<1>3. CASE c.patterns.kind = "none"
  <2>1. patterns = state
    BY <1>3 DEF AddUserPatterns
  <2>2. QED
    BY <1>1, <1>2, <1>3, <2>1 DEF Automatic
<1>4. CASE c.patterns.kind = "list"
  <2>1. patterns[r] = IF r \in c.patterns.add /\ ResetUserPatterns(state)[r] \notin Automatic
                      THEN "selected" ELSE ResetUserPatterns(state)[r]
    BY <1>4, ExtendAt DEF AddUserPatterns
  <2>2. ResetUserPatterns(state)[r] = IF state[r] = "selected" THEN "none" ELSE state[r]
    BY DEF ResetUserPatterns
  <2> HIDE DEF patterns
  <2>3. QED
    BY <1>1, <1>2, <1>4, <2>1, <2>2 DEF Automatic
<1>5. CASE c.patterns.kind = "map"
  <2> DEFINE added == Extend(state, c.patterns.add, "selected")
  <2>1. patterns = Extend(added, c.patterns.remove, "removed")
    BY <1>5 DEF AddUserPatterns
  <2>2. added[r] = IF r \in c.patterns.add /\ state[r] \notin Automatic THEN "selected" ELSE state[r]
    BY ExtendAt
  <2>3. patterns[r] = IF r \in c.patterns.remove /\ added[r] \notin Automatic THEN "removed" ELSE added[r]
    BY <2>1, ExtendAt
  <2> HIDE DEF patterns, added
  <2>4. QED
    BY <1>1, <1>2, <1>5, <2>2, <2>3 DEF Automatic
<1>6. QED
  BY <1>2, <1>3, <1>4, <1>5

\* In any order of the services, one of those that ask for a resolvable decides.
LEMMA FirstOfAsks ==
    ASSUME NEW lists, NEW order \in Orders, NEW r,
           \E i \in Ids : lists[i][r] # "none"
    PROVE  LET first == FirstOf(lists, order, r)
           IN  first \in Ids /\ lists[first][r] # "none"
<1> DEFINE S == {order[i] : i \in {j \in Ids : lists[j][r] # "none"}}
<1>1. order \in [Ids -> 1 .. Cardinality(Ids)]
  BY DEF Orders
<1>2. S \subseteq Nat /\ S # {}
  BY <1>1
<1>3. PICK n \in S : \A m \in S : n <= m
  BY <1>2, LeastNat
<1>4. \E i \in Ids : /\ lists[i][r] # "none"
                     /\ \A j \in Ids : lists[j][r] # "none" => order[i] <= order[j]
  BY <1>3
<1>5. QED
  BY <1>4 DEF FirstOf

\* The steps of SoftwareStateBuilder::build, whatever the order of the services,
\* select each resolvable for the one with the highest priority.
THEOREM BuildFromByPriority ==
    ASSUME NEW p \in Products, NEW c \in Configs, NEW lists,
           NEW order \in Orders, NEW r \in Resolvables
    PROVE  BuildFrom(p, c, lists, order).resolvables[r]
               \in ByPriority(p, c, lists, r)
<1> DEFINE built == BuildResolvables(p)
           user == AddUserResolvables(built, c)
           all == AddSelection(user, lists, order)
           asked == {lists[i][r] : i \in Ids} \ {"none"}
<1>1. BuildFrom(p, c, lists, order).resolvables[r] = all[r]
  BY DEF BuildFrom
<1>2. built[r] = IF r \in p.mandatory THEN "mandatory"
                   ELSE IF r \in p.optional THEN "optional"
                   ELSE IF r = p.kernel THEN "mandatory"
                   ELSE IF r \in p.preselected THEN "selected" ELSE "none"
  BY BuildResolvablesAt
<1>3. built[r] \in Automatic \union {"selected", "none"} /\ (built[r] = "selected" => r \in Patterns)
  BY <1>2, ProductsAssumption DEF Automatic
<1>4. user[r] = IF built[r] \in Automatic THEN built[r]
                ELSE IF r \in c.patterns.remove THEN "removed"
                ELSE IF r \in c.patterns.add \union c.packages THEN "selected"
                ELSE IF c.patterns.kind # "list" THEN built[r] ELSE "none"
  BY <1>3, AddUserResolvablesAt
<1>5. all[r] = IF user[r] \in Automatic \/ \A i \in Ids : lists[i][r] = "none"
               THEN user[r]
               ELSE lists[FirstOf(lists, order, r)][r]
  BY DEF AddSelection
<1> HIDE DEF built, user, all
<1>6. CASE user[r] \in Automatic \/ \A i \in Ids : lists[i][r] = "none"
  <2>1. all[r] = user[r]
    BY <1>5, <1>6
  <2>2. user[r] \in Automatic => built[r] \in Automatic /\ user[r] = built[r]
    BY <1>2, <1>4 DEF Automatic
  <2>3. user[r] \notin Automatic => asked = {} /\ built[r] \notin Automatic
    BY <1>4, <1>6
  <2>4. QED
    BY <1>1, <1>2, <1>4, <2>1, <2>2, <2>3 DEF ByPriority, Automatic
<1>7. CASE ~(user[r] \in Automatic \/ \A i \in Ids : lists[i][r] = "none")
  <2>1. all[r] \in asked
    BY <1>5, <1>7, FirstOfAsks
  <2>2. built[r] \notin Automatic
    BY <1>4, <1>7
  <2>3. QED
    BY <1>1, <1>2, <2>1, <2>2 DEF ByPriority, Automatic
<1>8. QED
  BY <1>6, <1>7

-----------------------------------------------------------------------------
(* The messages and what the service holds.                                *)

WithProduct == {c \in Configs : c.product \in ProductIds}

MessageType ==
    [type : {"SetConfig"}, config : WithProduct]
      \union [type : {"SetResolvables"}, task : Nat, id : Ids, asked : UNION {Asked[i] : i \in Ids}]
      \union [type : {"Probe", "SetLocale", "GetSystem", "Install", "Finish"}]

TaskType == [id : Nat, config : WithProduct, todo : SUBSET Ids]

\* The configurations that reach the service are those of a client, with a
\* known product.
ConfigsKnown ==
    /\ mailbox \in Seq(MessageType)
    /\ tasks \subseteq TaskType
    /\ product # "none" => config \in WithProduct /\ product = config.product
    /\ requests \in Nat

\* The service takes the first message, which is one of those that were sent.
LEMMA TakeTyped ==
    ASSUME ConfigsKnown, NEW type, Take(type)
    PROVE  /\ mailbox' \in Seq(MessageType)
           /\ Head(mailbox) \in MessageType
           /\ Head(mailbox).type = type
           /\ \A k \in DOMAIN mailbox' : \E j \in DOMAIN mailbox : mailbox'[k] = mailbox[j]
           /\ \A j \in DOMAIN mailbox \ {1} : \E k \in DOMAIN mailbox' : mailbox'[k] = mailbox[j]
           /\ svc = Idle
           /\ 1 \in DOMAIN mailbox /\ Head(mailbox) = mailbox[1]
<1>1. mailbox \in Seq(MessageType) /\ mailbox # <<>> /\ mailbox' = Tail(mailbox)
      /\ Head(mailbox).type = type /\ svc = Idle
  BY DEF ConfigsKnown, Take
<1>2. mailbox' \in Seq(MessageType) /\ Head(mailbox) \in MessageType
  BY <1>1
<1>3. \A k \in 1 .. (Len(mailbox) - 1) :
          k + 1 \in DOMAIN mailbox /\ mailbox'[k] = mailbox[k + 1]
  BY <1>1
<1>4. DOMAIN mailbox' = 1 .. (Len(mailbox) - 1)
  BY <1>1
<1>5. 1 \in DOMAIN mailbox /\ Head(mailbox) = mailbox[1]
  BY <1>1
<1>6. \A j \in DOMAIN mailbox \ {1} :
          j - 1 \in 1 .. (Len(mailbox) - 1) /\ mailbox'[j - 1] = mailbox[j]
  BY <1>1
<1>7. QED
  BY <1>1, <1>2, <1>3, <1>4, <1>5, <1>6

\* What is sent is added at the end.
LEMMA PostTyped ==
    ASSUME ConfigsKnown, NEW m \in MessageType, Post(m)
    PROVE  /\ mailbox' \in Seq(MessageType)
           /\ \A k \in DOMAIN mailbox' :
                 mailbox'[k] = m \/ \E j \in DOMAIN mailbox : mailbox'[k] = mailbox[j]
           /\ \A j \in DOMAIN mailbox : \E k \in DOMAIN mailbox' : mailbox'[k] = mailbox[j]
           /\ \E k \in DOMAIN mailbox' : mailbox'[k] = m
<1>1. mailbox \in Seq(MessageType) /\ mailbox' = Append(mailbox, m)
  BY DEF ConfigsKnown, Post
<1>2. /\ mailbox' \in Seq(MessageType)
      /\ DOMAIN mailbox' = 1 .. (Len(mailbox) + 1)
      /\ DOMAIN mailbox = 1 .. Len(mailbox)
      /\ \A k \in 1 .. Len(mailbox) : mailbox'[k] = mailbox[k]
      /\ mailbox'[Len(mailbox) + 1] = m
      /\ Len(mailbox) \in Nat
  BY <1>1
<1>3. \A k \in 1 .. (Len(mailbox) + 1) : k \in 1 .. Len(mailbox) \/ k = Len(mailbox) + 1
  BY <1>2
<1>4. /\ \A k \in 1 .. Len(mailbox) : k \in 1 .. (Len(mailbox) + 1)
      /\ Len(mailbox) + 1 \in 1 .. (Len(mailbox) + 1)
  BY <1>2
<1>5. QED
  BY <1>2, <1>3, <1>4

LEMMA SetConfigTyped ==
    ASSUME ConfigsKnown, Head(mailbox) \in MessageType, Head(mailbox).type = "SetConfig"
    PROVE  Head(mailbox).config \in WithProduct
BY DEF MessageType

LEMMA ConfigsKnownStep ==
    ASSUME ConfigsKnown, [Next]_vars
    PROVE  ConfigsKnown'
<1> USE DEF ConfigsKnown
<1>1. CASE Zypp \/ User \/ WriteAnswered \/ ProposalAnswered \/ FinishAnswered
  BY <1>1 DEF Zypp, User, serviceVars, managerVars, WriteAnswered, ProposalAnswered,
              FinishAnswered
<1>2. CASE SystemAnswered
  BY <1>2 DEF SystemAnswered, Return
<1>3. CASE InstallAnswered
  <2>1. Message("Finish") \in MessageType
    BY DEF Message, MessageType
  <2>2. mailbox' \in Seq(MessageType)
    BY <1>3, <2>1, PostTyped DEF InstallAnswered
  <2>3. QED
    BY <1>3, <2>2 DEF InstallAnswered
<1>4. CASE HandleSetConfig
  <2>1. mailbox' \in Seq(MessageType) /\ Head(mailbox).config \in WithProduct
    BY <1>4, TakeTyped, SetConfigTyped DEF HandleSetConfig
  <2>2. tasks' \subseteq tasks
    BY <1>4 DEF HandleSetConfig, UpdateProposal, Return
  <2>3. QED
    BY <1>4, <2>1, <2>2 DEF HandleSetConfig
<1>5. CASE HandleProbe \/ HandleSetLocale \/ HandleGetSystem
  <2>1. mailbox' \in Seq(MessageType)
    BY <1>5, TakeTyped DEF HandleProbe, HandleSetLocale, HandleGetSystem
  <2>2. tasks' \subseteq tasks
    BY <1>5 DEF HandleProbe, HandleSetLocale, HandleGetSystem, UpdateProposal, Return
  <2>3. QED
    BY <1>5, <2>1, <2>2 DEF HandleProbe, HandleSetLocale, HandleGetSystem
<1>6. CASE HandleSetResolvables \/ HandleInstall \/ HandleFinish
  <2>1. mailbox' \in Seq(MessageType)
    BY <1>6, TakeTyped DEF HandleSetResolvables, HandleInstall, HandleFinish
  <2>2. QED
    BY <1>6, <2>1 DEF HandleSetResolvables, HandleInstall, HandleFinish, managerVars
<1>7. ASSUME NEW t \in tasks, NEW i \in Ids, NEW asked \in Asked[i],
             TaskSetResolvables(t, i, asked)
      PROVE  ConfigsKnown'
  <2>1. SetResolvables(t.id, i, asked) \in MessageType
    BY <1>7 DEF SetResolvables, MessageType, TaskType
  <2>2. mailbox' \in Seq(MessageType)
    BY <1>7, <2>1, PostTyped DEF TaskSetResolvables
  <2>3. tasks' \subseteq TaskType
    BY <1>7 DEF TaskSetResolvables, TaskType
  <2>4. QED
    BY <1>7, <2>2, <2>3 DEF TaskSetResolvables
<1>8. ASSUME NEW t \in tasks, TaskSetConfig(t)
      PROVE  ConfigsKnown'
  <2>1. SetConfig(t.config) \in MessageType
    BY DEF SetConfig, MessageType, TaskType
  <2>2. mailbox' \in Seq(MessageType)
    BY <1>8, <2>1, PostTyped DEF TaskSetConfig
  <2>3. tasks' \subseteq TaskType
    BY <1>8 DEF TaskSetConfig, TaskType
  <2>4. QED
    BY <1>8, <2>2, <2>3 DEF TaskSetConfig
<1>9. ASSUME NEW c \in Configs, ManagerSetConfig(c)
      PROVE  ConfigsKnown'
  <2>1. c.product \in ProductIds => [id |-> requests, config |-> c, todo |-> Ids] \in TaskType
    BY DEF TaskType, WithProduct
  <2>2. tasks' \subseteq TaskType
    BY <1>9, <2>1 DEF ManagerSetConfig
  <2>3. requests' \in Nat
    BY <1>9 DEF ManagerSetConfig, Request
  <2>4. QED
    BY <1>9, <2>2, <2>3 DEF ManagerSetConfig, serviceVars
<1>10. CASE ManagerSetLocale \/ ManagerProbe \/ ManagerGetSystem \/ ManagerInstall
  <2>1. \A type \in {"SetLocale", "Probe", "GetSystem", "Install"} :
            Message(type) \in MessageType
    BY DEF Message, MessageType
  <2>2. mailbox' \in Seq(MessageType)
    BY <1>10, <2>1, PostTyped DEF ManagerSetLocale, ManagerProbe, ManagerGetSystem, ManagerInstall
  <2>3. requests' \in Nat
    BY <1>10 DEF ManagerSetLocale, ManagerProbe, ManagerGetSystem, ManagerInstall, Request
  <2>4. QED
    BY <1>10, <2>2, <2>3 DEF ManagerSetLocale, ManagerProbe, ManagerGetSystem, ManagerInstall
<1>11. CASE UNCHANGED vars
  BY <1>11 DEF vars, serviceVars, managerVars
<1>12. QED
  BY <1>1, <1>2, <1>3, <1>4, <1>5, <1>6, <1>7, <1>8, <1>9, <1>10, <1>11
     DEF Next, Service, Clients, Task

LEMMA ConfigsKnownAlways == Spec => []ConfigsKnown
<1>1. Init => ConfigsKnown
  BY DEF Init, ConfigsKnown
<1>2. QED
  BY <1>1, ConfigsKnownStep, PTL DEF Spec

\* What is wanted changes only when it is built anew.
LEMMA WantedIsBuilt ==
    ASSUME ConfigsKnown, [Next]_vars, wanted' # wanted
    PROVE  /\ config' \in Configs
           /\ \E p \in Products : p = Specification(product') /\
                 \E order \in Orders : wanted' = BuildFrom(p, config', selection, order)
<1>1. CASE HandleSetConfig
  <2>1. config' \in WithProduct /\ product' = config'.product
    BY <1>1, TakeTyped, SetConfigTyped DEF HandleSetConfig
  <2>2. Specification(product') \in Products
    BY <2>1 DEF WithProduct, ProductIds, Specification
  <2>3. QED
    BY <1>1, <2>1, <2>2 DEF HandleSetConfig, Wanted, WithProduct
<1>2. CASE HandleProbe
  <2>1. product # "none" /\ UNCHANGED <<product, config>>
    BY <1>2 DEF HandleProbe
  <2>2. config' \in WithProduct /\ product' = config'.product
    BY <2>1 DEF ConfigsKnown
  <2>3. Specification(product') \in Products
    BY <2>2 DEF WithProduct, ProductIds, Specification
  <2>4. QED
    BY <1>2, <2>1, <2>2, <2>3 DEF HandleProbe, Wanted, WithProduct
<1>3. QED
  BY <1>1, <1>2 DEF Next, Service, Clients, Task, Zypp, User, vars, serviceVars, managerVars,
     HandleSetLocale, HandleSetResolvables, HandleGetSystem, HandleInstall, HandleFinish,
     WriteAnswered, ProposalAnswered, SystemAnswered, InstallAnswered, FinishAnswered,
     TaskSetResolvables, TaskSetConfig, ManagerSetConfig, ManagerSetLocale, ManagerProbe,
     ManagerGetSystem, ManagerInstall

\* Whatever the products, the configurations and what the services ask for, and
\* in whatever order the hash map returns it, a resolvable is selected for the
\* one with the highest priority.
THEOREM WantedByPriorityAlways == Spec => WantedByPriority
<1>1. ASSUME ConfigsKnown, [Next]_vars, wanted' # wanted, NEW r \in Resolvables
      PROVE  wanted'.resolvables[r] \in ByPriority(Specification(product'), config', selection, r)
  <2>1. PICK p \in Products, order \in Orders :
            p = Specification(product') /\ wanted' = BuildFrom(p, config', selection, order)
    BY <1>1, WantedIsBuilt
  <2>2. config' \in Configs
    BY <1>1, WantedIsBuilt
  <2>3. QED
    BY <2>1, <2>2, BuildFromByPriority
<1>2. ConfigsKnown /\ [Next]_vars =>
        [wanted' # wanted =>
          \A r \in Resolvables :
              wanted'.resolvables[r]
                  \in ByPriority(Specification(product'), config', selection, r)]_vars
  BY <1>1
<1>3. QED
  BY <1>2, ConfigsKnownAlways, PTL DEF Spec, WantedByPriority

-----------------------------------------------------------------------------
(* No issues, and libzypp holds what is wanted.                            *)

RegistrationDone ==
    wanted.registration.wanted =>
        /\ registration.status = "registered"
        /\ wanted.registration.addons \subseteq registration.addons

RepositoriesDone ==
    \A a \in Aliases : (target.repositories[a] = NoUrl) <=> (wanted.repositories[a] = NoUrl)

SelectionDone ==
    \A r \in Resolvables :
        wanted.resolvables[r] \in {"mandatory", "selected"} => r \in target.chosen

InSync ==
    /\ target.product = wanted.product
    /\ SelectionDone
    /\ RepositoriesDone
    /\ trusted = wanted.trusted
    /\ RegistrationDone
    /\ progress = NoProgress

\* The records have their fields.
Records ==
    /\ target = [repositories |-> target.repositories, product |-> target.product,
                 chosen |-> target.chosen, installed |-> target.installed]
    /\ registration = [status |-> registration.status, product |-> registration.product,
                       addons |-> registration.addons, services |-> registration.services]
    /\ svc = [step |-> svc.step, for |-> svc.for]
    /\ job.op = "write" =>
          job = [op |-> "write", step |-> job.step, wanted |-> job.wanted, issues |-> job.issues]
    /\ job.op = "install" => job = [op |-> "install", step |-> job.step, tries |-> job.tries]

\* The thread works for what the service waits for.
Turns ==
    /\ job.op # "none" => reply.type = "waiting"
    /\ job.op \in {"none", "write", "install", "finish", "proposal", "system"}
    /\ svc.step \in {"idle", "writing", "installing", "finishing", "proposal", "system"}
    /\ job.op = "write" => svc.step = "writing"
    /\ job.op = "install" => svc.step = "installing"
    /\ job.op = "finish" => svc.step = "finishing"
    /\ job.op \in {"proposal", "system"} => svc.step = job.op

\* What the thread has done of a configuration.
Writing ==
    job.op = "write" =>
        /\ job.wanted = wanted
        /\ job.step \in {"start", "register", "repositories", "load", "select", "solve"}
        /\ job.step \in {"repositories", "load", "select", "solve"} => RegistrationDone
        /\ job.step \in {"load", "select", "solve"} =>
              /\ trusted = wanted.trusted
              /\ job.issues = {} => RepositoriesDone
        /\ job.step = "solve" =>
              /\ target.product = wanted.product
              /\ job.issues = {} => SelectionDone

\* The answer without issues says that all of it was done ...
WriteDone ==
    svc.step = "writing" /\ job.op = "none" /\ reply.type = "ok" /\ reply.value = {} => InSync

\* ... and so does an empty list of issues, until something else is wanted.
IdleDone ==
    svc.step \in {"idle", "proposal", "system"} /\ stage = "configuring"
        /\ issues = {} /\ wanted # NoState => InSync

\* Nothing is installed before the installation starts.
NotYet ==
    stage = "configuring" =>
        /\ svc.step \notin {"installing", "finishing"}
        /\ \A k \in DOMAIN mailbox : mailbox[k].type \notin {"Install", "Finish"}

IInv ==
    /\ ConfigsKnown /\ Records /\ Turns
    /\ Writing /\ WriteDone /\ IdleDone /\ NotYet

SyncVars == <<wanted, target, trusted, registration, progress>>

LEMMA SyncStays ==
    ASSUME UNCHANGED SyncVars
    PROVE  /\ InSync' <=> InSync
           /\ RegistrationDone' <=> RegistrationDone
           /\ RepositoriesDone' <=> RepositoriesDone
           /\ SelectionDone' <=> SelectionDone
BY DEF SyncVars, InSync, RegistrationDone, RepositoriesDone, SelectionDone

\* The steps of ZyppServer::write.
LEMMA WriteStep ==
    ASSUME IInv, ZyppWrite, UNCHANGED <<serviceVars, managerVars>>
    PROVE  Records' /\ Turns' /\ Writing' /\ WriteDone' /\ IdleDone'
<1> USE DEF IInv
<1>1. /\ UNCHANGED <<svc, wanted, issues, stage>>
      /\ job.op = "write" /\ svc.step = "writing" /\ job.wanted = wanted
      /\ job = [op |-> "write", step |-> job.step, wanted |-> job.wanted, issues |-> job.issues]
      /\ reply.type = "waiting"
  BY DEF serviceVars, managerVars, ZyppWrite, WriteStart, WriteRegister, WriteRepositories,
         WriteLoad, WriteMissingProduct, WriteSelect, WriteSolve, At, Records, Turns, Writing
<1>2. IdleDone'
  BY <1>1 DEF IdleDone
<1>3. ASSUME NEW answer, Reply(answer)
      PROVE  job'.op = "none" /\ reply' = answer
  BY <1>3 DEF Reply, NoJob
<1>4. CASE WriteStart
  <2>1. CASE Reply(Dropped)
    BY <1>1, <1>2, <1>3, <1>4, <2>1 DEF WriteStart, Records, Turns, Writing, WriteDone, Dropped
  <2>2. CASE Goto(IF job.wanted.registration.wanted THEN "register" ELSE "repositories")
    <3>1. job' = [op |-> "write", issues |-> job.issues, wanted |-> wanted,
                  step |-> IF wanted.registration.wanted THEN "register" ELSE "repositories"]
          /\ UNCHANGED reply
      BY <1>1, <2>2 DEF Goto
    <3>2. UNCHANGED <<target, registration, trusted>>
      BY <1>4 DEF WriteStart
    <3>3. QED
      BY <1>1, <1>2, <3>1, <3>2 DEF Records, Turns, Writing, WriteDone, RegistrationDone
  <2>3. QED
    BY <1>4, <2>1, <2>2 DEF WriteStart
<1>5. CASE WriteRegister
  <2>1. PICK base \in RegisterBase : \E after \in RegisterAddons(base) :
          /\ registration' = after
          /\ IF after.status = "failed"
                \/ ~(job.wanted.registration.addons \subseteq after.addons)
             THEN SendIssues({"product"})
             ELSE NextStep /\ Goto("repositories")
    BY <1>5 DEF WriteRegister
  <2>2. /\ base = [status |-> base.status, product |-> base.product,
                   addons |-> base.addons, services |-> base.services]
        /\ base.status \in {"failed", "registered"}
    BY <2>1, <1>1 DEF RegisterBase, Records, RegistrationFailed, NotRegistered
  <2>3. PICK after \in RegisterAddons(base) :
          /\ registration' = after
          /\ IF after.status = "failed"
                \/ ~(job.wanted.registration.addons \subseteq after.addons)
             THEN SendIssues({"product"})
             ELSE NextStep /\ Goto("repositories")
    BY <2>1
  <2>4. /\ after = [status |-> after.status, product |-> after.product,
                    addons |-> after.addons, services |-> after.services]
        /\ after.status = base.status
    BY <2>2 DEF RegisterAddons
  <2>5. UNCHANGED <<target, trusted>>
    BY <1>5 DEF WriteRegister
  <2>6. CASE SendIssues({"product"})
    <3>1. job'.op = "none" /\ reply'.type = "ok" /\ reply'.value = {"product"}
      BY <1>3, <2>6 DEF SendIssues, Answer
    <3>2. {"product"} # {}
      OBVIOUS
    <3>3. QED
      BY <1>1, <1>2, <2>3, <2>4, <2>5, <3>1, <3>2 DEF Records, Turns, Writing, WriteDone
  <2>7. CASE ~SendIssues({"product"})
    <3>1. /\ Goto("repositories") /\ after.status = "registered"
          /\ wanted.registration.addons \subseteq registration'.addons
      BY <1>1, <2>2, <2>3, <2>4, <2>7
    <3>2. job' = [op |-> "write", step |-> "repositories", wanted |-> wanted, issues |-> job.issues]
          /\ UNCHANGED reply
      BY <1>1, <3>1 DEF Goto
    <3>3. RegistrationDone'
      BY <1>1, <2>3, <3>1 DEF RegistrationDone
    <3>4. QED
      BY <1>1, <1>2, <2>3, <2>4, <2>5, <3>2, <3>3 DEF Records, Turns, Writing, WriteDone
  <2>8. QED
    BY <2>6, <2>7
<1>6. CASE WriteRepositories
  <2> DEFINE add == ToAdd(wanted.repositories)
             remove == ToRemove(wanted.repositories)
  <2>1. PICK failed \in SUBSET (add \union remove) :
          /\ target' = [target EXCEPT !.repositories =
                           [a \in Aliases |-> IF a \in (add \union remove) \ failed
                                              THEN wanted.repositories[a] ELSE @[a]]]
          /\ job' = [job EXCEPT !.step = "load",
                         !.issues = IF failed = {} THEN @ ELSE {"software"}]
    BY <1>1, <1>6 DEF WriteRepositories
  <2>2. /\ job.step = "repositories" /\ UNCHANGED <<reply, registration>>
        /\ trusted' = wanted.trusted
    BY <1>1, <1>6 DEF WriteRepositories, At
  <2>3. job' = [op |-> "write", step |-> "load", wanted |-> wanted,
                issues |-> IF failed = {} THEN job.issues ELSE {"software"}]
    BY <1>1, <2>1
  <2>4. /\ target'.repositories = [a \in Aliases |-> IF a \in (add \union remove) \ failed
                                              THEN wanted.repositories[a]
                                              ELSE target.repositories[a]]
        /\ target' = [repositories |-> target'.repositories, product |-> target'.product,
                      chosen |-> target'.chosen, installed |-> target'.installed]
    BY <2>1 DEF Records
  <2>5. failed = {} => RepositoriesDone'
    BY <1>1, <2>4 DEF RepositoriesDone, ToAdd, ToRemove
  <2>6. job'.issues = {} => failed = {}
    BY <2>3
  <2>7. RegistrationDone'
    BY <1>1, <2>2 DEF Writing, RegistrationDone
  <2>8. QED
    BY <1>1, <1>2, <2>2, <2>3, <2>4, <2>5, <2>6, <2>7 DEF Records, Turns, Writing, WriteDone
<1>7. CASE WriteLoad
  <2>1. /\ job.step = "load" /\ UNCHANGED <<reply, registration, trusted, target>>
        /\ \E found \in {{}, {"software"}} :
              job' = [op |-> "write", step |-> "select", wanted |-> wanted,
                      issues |-> job.issues \union found]
    BY <1>1, <1>7 DEF WriteLoad, At
  <2>2. (RegistrationDone' <=> RegistrationDone) /\ (RepositoriesDone' <=> RepositoriesDone)
    BY <1>1, <2>1 DEF RegistrationDone, RepositoriesDone
  <2>3. job'.issues = {} => job.issues = {}
    BY <2>1
  <2>4. QED
    BY <1>1, <1>2, <2>1, <2>2, <2>3 DEF Records, Turns, Writing, WriteDone
<1>8. CASE WriteMissingProduct
  <2>1. SendIssues({"software"}) /\ UNCHANGED <<registration>>
        /\ target' = [target EXCEPT !.product = "none", !.chosen = {}]
    BY <1>8 DEF WriteMissingProduct
  <2>2. job'.op = "none" /\ reply'.type = "ok" /\ reply'.value = {"software"}
    BY <1>3, <2>1 DEF SendIssues, Answer
  <2>3. {"software"} # {}
    OBVIOUS
  <2>4. QED
    BY <1>1, <1>2, <2>1, <2>2, <2>3 DEF Records, Turns, Writing, WriteDone
<1>9. CASE WriteSelect
  <2> DEFINE selected == SelectedIn(wanted.resolvables)
  <2>1. PICK missing \in SUBSET selected :
          /\ target' = [target EXCEPT !.product = wanted.product, !.chosen = selected \ missing]
          /\ job' = [job EXCEPT !.step = "solve",
                         !.issues = @ \union IssuesOfMissing(wanted.resolvables, missing)]
    BY <1>1, <1>9 DEF WriteSelect
  <2>2. job.step = "select" /\ UNCHANGED <<reply, registration, trusted>>
    BY <1>9 DEF WriteSelect, At
  <2>3. job' = [op |-> "write", step |-> "solve", wanted |-> wanted,
                issues |-> job.issues \union IssuesOfMissing(wanted.resolvables, missing)]
    BY <1>1, <2>1
  <2>4. /\ target' = [repositories |-> target.repositories, product |-> wanted.product,
                      chosen |-> selected \ missing, installed |-> target.installed]
    BY <2>1 DEF Records
  <2>5. job'.issues = {} => job.issues = {} /\ IssuesOfMissing(wanted.resolvables, missing) = {}
    BY <2>3
  <2>6. IssuesOfMissing(wanted.resolvables, missing) = {} => SelectionDone'
    <3>1. SUFFICES ASSUME IssuesOfMissing(wanted.resolvables, missing) = {},
                          NEW r \in Resolvables,
                          wanted.resolvables[r] \in {"mandatory", "selected"}
                   PROVE  r \in target'.chosen
      BY <1>1 DEF SelectionDone
    <3>2. \A m \in missing : wanted.resolvables[m] = "optional"
      BY <3>1 DEF IssuesOfMissing
    <3>3. r \in selected /\ r \notin missing
      BY <3>1, <3>2 DEF SelectedIn
    <3>4. QED
      BY <2>4, <3>3
  <2>7. (RegistrationDone' <=> RegistrationDone) /\ (RepositoriesDone' <=> RepositoriesDone)
    BY <1>1, <2>2, <2>4 DEF RegistrationDone, RepositoriesDone
  <2>8. QED
    BY <1>1, <1>2, <2>2, <2>3, <2>4, <2>5, <2>6, <2>7 DEF Records, Turns, Writing, WriteDone
<1>10. CASE WriteSolve
  <2>1. job.step = "solve" /\ UNCHANGED <<registration, trusted, target>>
    BY <1>10 DEF WriteSolve, At
  <2>2. CASE Reply(Dropped)
    BY <1>1, <1>2, <1>3, <2>1, <2>2 DEF Records, Turns, Writing, WriteDone, Dropped
  <2>3. ASSUME NEW found \in {{}, {"software"}}, SendIssues(job.issues \union found)
        PROVE  Records' /\ Turns' /\ Writing' /\ WriteDone' /\ IdleDone'
    <3>1. /\ job'.op = "none" /\ reply'.type = "ok" /\ reply'.value = job.issues \union found
          /\ progress' = NoProgress
      BY <1>3, <2>3 DEF SendIssues, Answer, FinishProgress
    <3>2. reply'.value = {} => job.issues = {}
      BY <3>1
    <3>3. job.issues = {} => InSync'
      BY <1>1, <2>1, <3>1 DEF Writing, InSync, RegistrationDone, RepositoriesDone, SelectionDone
    <3>4. QED
      BY <1>1, <1>2, <2>1, <3>1, <3>2, <3>3 DEF Records, Turns, Writing, WriteDone
  <2>4. QED
    BY <1>10, <2>2, <2>3 DEF WriteSolve
<1>11. QED
  BY <1>4, <1>5, <1>6, <1>7, <1>8, <1>9, <1>10 DEF ZyppWrite

\* The other steps of the thread, and the user.
LEMMA OtherZyppStep ==
    ASSUME IInv, UNCHANGED <<serviceVars, managerVars>>,
           InstallSwitchTarget \/ InstallCommit \/ FinishSystem \/ Read \/ ZyppUser
    PROVE  Records' /\ Turns' /\ Writing' /\ WriteDone' /\ IdleDone'
<1> USE DEF IInv
<1>1. UNCHANGED <<svc, wanted, issues, stage>>
  BY DEF serviceVars, managerVars
<1>2. ASSUME NEW answer, Reply(answer)
      PROVE  job'.op = "none" /\ reply' = answer
  BY <1>2 DEF Reply, NoJob
<1>3. CASE InstallSwitchTarget
  <2>1. job.op = "install" /\ svc.step = "installing" /\ reply.type = "waiting"
        /\ job = [op |-> "install", step |-> job.step, tries |-> job.tries]
        /\ UNCHANGED <<registration, trusted, target>>
    BY <1>3 DEF InstallSwitchTarget, At, Records, Turns
  <2>2. CASE Reply(Failed)
    BY <1>1, <1>2, <2>1, <2>2 DEF Records, Turns, Writing, WriteDone, IdleDone, Failed
  <2>3. CASE Goto("commit")
    <3>1. job' = [op |-> "install", step |-> "commit", tries |-> job.tries] /\ UNCHANGED reply
      BY <2>1, <2>3 DEF Goto
    <3>2. QED
      BY <1>1, <2>1, <3>1 DEF Records, Turns, Writing, WriteDone, IdleDone
  <2>4. QED
    BY <1>3, <2>2, <2>3 DEF InstallSwitchTarget
<1>4. CASE InstallCommit
  <2>1. job.op = "install" /\ svc.step = "installing" /\ reply.type = "waiting"
        /\ job = [op |-> "install", step |-> job.step, tries |-> job.tries]
        /\ UNCHANGED <<registration, trusted>>
    BY <1>4 DEF InstallCommit, At, Records, Turns
  <2>2. target' = [repositories |-> target'.repositories, product |-> target'.product,
                   chosen |-> target'.chosen, installed |-> target'.installed]
    BY <1>4 DEF InstallCommit, Records
  <2>3. CASE Reply(Answer(TRUE)) \/ Reply(Failed)
    BY <1>1, <1>2, <2>1, <2>2, <2>3 DEF Records, Turns, Writing, WriteDone, IdleDone
  <2>4. CASE Goto("retry")
    <3>1. job' = [op |-> "install", step |-> "retry", tries |-> job.tries] /\ UNCHANGED reply
      BY <2>1, <2>4 DEF Goto
    <3>2. QED
      BY <1>1, <2>1, <2>2, <3>1 DEF Records, Turns, Writing, WriteDone, IdleDone
  <2>5. QED
    BY <1>4, <2>3, <2>4 DEF InstallCommit
<1>5. CASE FinishSystem
  <2>1. job.op = "finish" /\ svc.step = "finishing" /\ job'.op = "none"
        /\ UNCHANGED <<registration, trusted>>
    BY <1>2, <1>5 DEF FinishSystem, At, Turns
  <2>2. target' = [repositories |-> target'.repositories, product |-> target'.product,
                   chosen |-> target'.chosen, installed |-> target'.installed]
    BY <1>5 DEF FinishSystem, Records
  <2>3. QED
    BY <1>1, <2>1, <2>2 DEF Records, Turns, Writing, WriteDone, IdleDone
<1>6. CASE Read
  <2>1. /\ job.op \in {"proposal", "system"} /\ svc.step = job.op /\ job'.op = "none"
        /\ UNCHANGED <<registration, trusted, target, progress>>
    BY <1>2, <1>6 DEF Read, At, Turns
  <2>2. InSync' <=> InSync
    BY <1>1, <2>1, SyncStays DEF SyncVars
  <2>3. QED
    BY <1>1, <2>1, <2>2 DEF Records, Turns, Writing, WriteDone, IdleDone
<1>7. CASE AskQuestion \/ AnswerQuestion
  <2>1. UNCHANGED <<job, reply, registration, trusted, target, progress>>
    BY <1>7 DEF AskQuestion, AnswerQuestion
  <2>2. UNCHANGED SyncVars
    BY <1>1, <2>1 DEF SyncVars
  <2>3. QED
    BY <1>1, <2>1, <2>2, SyncStays DEF Records, Turns, Writing, WriteDone, IdleDone
<1>8. CASE InstallRetry
  <2>1. job' = [op |-> "install", step |-> "commit", tries |-> job.tries + 1]
        /\ job.op = "install" /\ UNCHANGED <<reply, registration, trusted, target>>
    BY <1>8 DEF InstallRetry, Records
  <2>2. QED
    BY <1>1, <2>1 DEF Records, Turns, Writing, WriteDone, IdleDone
<1>9. CASE InstallGiveUp
  <2>1. job.op = "install" /\ svc.step = "installing" /\ job'.op = "none"
        /\ UNCHANGED <<registration, trusted, target>>
    BY <1>2, <1>9 DEF InstallGiveUp, Turns
  <2>2. QED
    BY <1>1, <2>1 DEF Records, Turns, Writing, WriteDone, IdleDone
<1>10. QED
  BY <1>3, <1>4, <1>5, <1>6, <1>7, <1>8, <1>9 DEF ZyppUser

\* What the thread gets, or the service when the thread is gone.
LEMMA Sent ==
    ASSUME Turns, job.op = "none", NEW action, Send(action)
    PROVE  \/ job' = action /\ reply'.type = "waiting"
           \/ job'.op = "none" /\ reply'.type = "error"
BY DEF Send, Waiting, Failed

\* The service works on one message, or rests.
LEMMA NothingToDo ==
    ASSUME Turns, svc = Idle \/ reply.type \notin {"none", "waiting"}
    PROVE  job.op = "none"
BY DEF Turns, Idle

\* A handler of the service that applies the configuration.
LEMMA UpdateStep ==
    ASSUME IInv, svc = Idle, UpdateProposal(wanted'), Head(mailbox) \in MessageType,
           UNCHANGED <<registration, trusted, target, stage>>
    PROVE  Records' /\ Turns' /\ Writing' /\ WriteDone' /\ IdleDone'
           /\ svc'.step \in {"idle", "writing"}
<1> USE DEF IInv
<1>1. job.op = "none"
  BY NothingToDo
<1>2. CASE wanted' = NoState
  <2>1. svc' = Idle /\ UNCHANGED <<job, reply>>
    BY <1>2 DEF UpdateProposal, Return
  <2>2. QED
    BY <1>1, <1>2, <2>1 DEF Records, Turns, Writing, WriteDone, IdleDone, Idle
<1>3. CASE wanted' # NoState
  <2>1. Send(WriteAction(wanted')) /\ svc' = [step |-> "writing", for |-> Head(mailbox).type]
    BY <1>3 DEF UpdateProposal, Work
  <2>2. \/ job' = WriteAction(wanted') /\ reply'.type = "waiting"
        \/ job'.op = "none" /\ reply'.type = "error"
    BY <1>1, <2>1, Sent
  <2>3. QED
    BY <2>1, <2>2 DEF Records, Turns, Writing, WriteDone, IdleDone, WriteAction
<1>4. QED
  BY <1>2, <1>3

\* A message that is not about the configuration only leaves the thread a job.
LEMMA HandlerStep ==
    ASSUME IInv, Service
    PROVE  Records' /\ Turns' /\ Writing' /\ WriteDone' /\ IdleDone'
<1> USE DEF IInv
<1>1. CASE HandleSetConfig \/ HandleProbe \/ HandleSetLocale
  <2>1. /\ svc = Idle /\ UpdateProposal(wanted')
        /\ UNCHANGED <<registration, trusted, target, stage>>
    BY <1>1 DEF HandleSetConfig, HandleProbe, HandleSetLocale, Take, UpdateProposal,
                Send, WriteAction, Return
  <2>2. Head(mailbox) \in MessageType
    BY <1>1, TakeTyped DEF HandleSetConfig, HandleProbe, HandleSetLocale
  <2>3. QED
    BY <2>1, <2>2, UpdateStep
<1>2. CASE HandleSetResolvables
  <2>1. UNCHANGED <<job, reply, svc, stage, issues, SyncVars>>
    BY <1>2 DEF HandleSetResolvables, zyppVars, managerVars, SyncVars
  <2>2. QED
    BY <2>1, SyncStays DEF Records, Turns, Writing, WriteDone, IdleDone, SyncVars
<1>3. CASE HandleGetSystem
  <2>1. UNCHANGED <<job, reply, svc, stage, issues, SyncVars>>
    BY <1>3 DEF HandleGetSystem, Take, Return, zyppVars, SyncVars
  <2>2. QED
    BY <2>1, SyncStays DEF Records, Turns, Writing, WriteDone, IdleDone, SyncVars
<1>4. CASE HandleInstall \/ HandleFinish
  <2>1. job.op = "none"
    BY <1>4, NothingToDo DEF HandleInstall, HandleFinish, Take
  <2>2. UNCHANGED <<registration, trusted, target, wanted, issues>>
    BY <1>4 DEF HandleInstall, HandleFinish
  <2>3. \/ /\ Send(InstallAction) /\ svc' = [step |-> "installing", for |-> Head(mailbox).type]
        \/ /\ Send(FinishAction) /\ svc' = [step |-> "finishing", for |-> Head(mailbox).type]
    BY <1>4 DEF HandleInstall, HandleFinish, Work
  <2>4. \/ job' = InstallAction /\ reply'.type = "waiting" /\ svc'.step = "installing"
        \/ job' = FinishAction /\ reply'.type = "waiting" /\ svc'.step = "finishing"
        \/ job'.op = "none" /\ reply'.type = "error" /\ svc'.step \in {"installing", "finishing"}
    BY <2>1, <2>3, Sent
  <2>5. svc' = [step |-> svc'.step, for |-> svc'.for]
    BY <2>3
  <2>6. QED
    BY <2>2, <2>4, <2>5 DEF Records, Turns, Writing, WriteDone, IdleDone, InstallAction, FinishAction
<1>5. CASE WriteAnswered
  <2>1. job.op = "none" /\ svc.step = "writing"
    BY <1>5, NothingToDo DEF WriteAnswered, Answered
  <2>2. UNCHANGED SyncVars
    BY <1>5 DEF WriteAnswered, managerVars, SyncVars
  <2>3. svc' = [step |-> "proposal", for |-> svc.for]
    BY <1>5 DEF WriteAnswered, Records
  <2>4. \/ job' = ReadAction("proposal") /\ reply'.type = "waiting"
        \/ job'.op = "none" /\ reply'.type = "error"
    BY <1>5, <2>1, Sent DEF WriteAnswered
  <2>5. issues' = {} => InSync
    <3>1. {"software"} # {}
      OBVIOUS
    <3>2. QED
      BY <1>5, <2>1, <3>1 DEF WriteAnswered, IssuesFound, Succeeded, WriteDone
  <2>6. QED
    BY <2>1, <2>2, <2>3, <2>4, <2>5, SyncStays
       DEF Records, Turns, Writing, WriteDone, IdleDone, ReadAction, SyncVars
<1>6. CASE ProposalAnswered
  <2>1. job.op = "none" /\ svc.step = "proposal"
    BY <1>6, NothingToDo DEF ProposalAnswered, Answered
  <2>2. UNCHANGED <<SyncVars, issues, stage>>
    BY <1>6 DEF ProposalAnswered, managerVars, SyncVars
  <2>3. svc' = [step |-> "system", for |-> svc.for]
    BY <1>6 DEF ProposalAnswered, Records
  <2>4. \/ job' = ReadAction("system") /\ reply'.type = "waiting"
        \/ job'.op = "none" /\ reply'.type = "error"
    BY <1>6, <2>1, Sent DEF ProposalAnswered
  <2>5. QED
    BY <2>1, <2>2, <2>3, <2>4, SyncStays
       DEF Records, Turns, Writing, WriteDone, IdleDone, ReadAction, SyncVars
<1>7. CASE SystemAnswered
  <2>1. job.op = "none" /\ svc.step = "system" /\ svc' = Idle
    BY <1>7, NothingToDo DEF SystemAnswered, Answered, Return
  <2>2. UNCHANGED <<job, SyncVars, issues, stage>> /\ reply' = NoReply
    BY <1>7 DEF SystemAnswered, SyncVars
  <2>3. QED
    BY <2>1, <2>2, SyncStays
       DEF Records, Turns, Writing, WriteDone, IdleDone, SyncVars, Idle, NoReply
<1>8. CASE InstallAnswered \/ FinishAnswered
  <2>1. job.op = "none" /\ svc' = Idle /\ stage # "configuring"
    BY <1>8, NothingToDo DEF InstallAnswered, FinishAnswered, Answered, NotYet
  <2>2. UNCHANGED <<job, registration, trusted, target, wanted>> /\ reply' = NoReply
        /\ stage' # "configuring"
    BY <1>8, <2>1 DEF InstallAnswered, FinishAnswered
  <2>3. QED
    BY <2>1, <2>2 DEF Records, Turns, Writing, WriteDone, IdleDone, Idle, NoReply
<1>9. QED
  BY <1>1, <1>2, <1>3, <1>4, <1>5, <1>6, <1>7, <1>8 DEF Service

\* What the tasks and the manager do leaves the thread and the service alone.
LEMMA OthersStep ==
    ASSUME IInv, (\E t \in tasks : Task(t)) \/ Clients \/ UNCHANGED vars
    PROVE  Records' /\ Turns' /\ Writing' /\ WriteDone' /\ IdleDone'
<1>1. UNCHANGED <<job, reply, svc, issues, SyncVars>> /\ (stage' = stage \/ stage' = "installing")
  BY DEF Task, Clients, TaskSetResolvables, TaskSetConfig, ManagerSetConfig, ManagerSetLocale,
         ManagerProbe, ManagerGetSystem, ManagerInstall, vars, zyppVars, serviceVars, managerVars,
         SyncVars
<1>2. QED
  BY <1>1, SyncStays DEF IInv, Records, Turns, Writing, WriteDone, IdleDone, SyncVars

\* Only an installation that has started sends Install and Finish.
LEMMA NotYetStep ==
    ASSUME IInv, [Next]_vars
    PROVE  NotYet'
<1> USE DEF IInv
<1>1. SUFFICES ASSUME stage' = "configuring"
               PROVE  NotYet'
  BY DEF NotYet
<1>2. CASE Zypp \/ User \/ UNCHANGED vars
  BY <1>2 DEF Zypp, User, vars, serviceVars, managerVars, NotYet
<1>3. CASE HandleSetConfig \/ HandleProbe \/ HandleSetLocale
  <2>1. \A k \in DOMAIN mailbox' : \E j \in DOMAIN mailbox : mailbox'[k] = mailbox[j]
    BY <1>3, TakeTyped DEF HandleSetConfig, HandleProbe, HandleSetLocale
  <2>2. stage = "configuring" /\ svc'.step \in {"idle", "writing"}
    BY <1>1, <1>3 DEF HandleSetConfig, HandleProbe, HandleSetLocale, UpdateProposal, Return, Work, Idle
  <2>3. QED
    BY <2>1, <2>2 DEF NotYet
<1>4. CASE HandleSetResolvables \/ HandleGetSystem \/ HandleInstall \/ HandleFinish
  <2>1. \A k \in DOMAIN mailbox' : \E j \in DOMAIN mailbox : mailbox'[k] = mailbox[j]
    BY <1>4, TakeTyped DEF HandleSetResolvables, HandleGetSystem, HandleInstall, HandleFinish
  <2>2. stage = "configuring"
    BY <1>1, <1>4 DEF HandleSetResolvables, HandleGetSystem, HandleInstall, HandleFinish, managerVars
  <2>3. 1 \in DOMAIN mailbox /\ Head(mailbox) = mailbox[1]
    BY <1>4, TakeTyped DEF HandleSetResolvables, HandleGetSystem, HandleInstall, HandleFinish
  <2>4. ~HandleInstall /\ ~HandleFinish
    BY <2>2, <2>3 DEF HandleInstall, HandleFinish, Take, NotYet
  <2>5. svc' = svc
    BY <1>4, <2>4 DEF HandleSetResolvables, HandleGetSystem, Take, Return
  <2>6. QED
    BY <2>1, <2>2, <2>5 DEF NotYet
<1>5. CASE WriteAnswered \/ ProposalAnswered \/ SystemAnswered
  <2>1. UNCHANGED <<mailbox, stage>> /\ svc'.step \in {"proposal", "system", "idle"}
    BY <1>5 DEF WriteAnswered, ProposalAnswered, SystemAnswered, managerVars, Return, Idle, Records
  <2>2. QED
    BY <2>1 DEF NotYet
<1>6. CASE InstallAnswered \/ FinishAnswered
  <2>1. stage # "configuring"
    BY <1>6 DEF InstallAnswered, FinishAnswered, Answered, NotYet
  <2>2. QED
    BY <1>1, <1>6, <2>1 DEF InstallAnswered, FinishAnswered
<1>7. ASSUME NEW m \in MessageType, m.type \notin {"Install", "Finish"}, Post(m),
             UNCHANGED <<svc, stage>>
      PROVE  NotYet'
  BY <1>7, PostTyped DEF NotYet
<1>8. ASSUME NEW t \in tasks, Task(t)
      PROVE  NotYet'
  <2>1. \/ \E i \in Ids : \E asked \in Asked[i] : Post(SetResolvables(t.id, i, asked))
        \/ Post(SetConfig(t.config))
    BY <1>8 DEF Task, TaskSetResolvables, TaskSetConfig
  <2>2. UNCHANGED <<svc, stage>>
    BY <1>8 DEF Task, TaskSetResolvables, TaskSetConfig
  <2>3. \A i \in Ids : \A asked \in Asked[i] :
            /\ SetResolvables(t.id, i, asked) \in MessageType
            /\ SetResolvables(t.id, i, asked).type = "SetResolvables"
    BY DEF SetResolvables, MessageType, ConfigsKnown, TaskType
  <2>4. SetConfig(t.config) \in MessageType /\ SetConfig(t.config).type = "SetConfig"
    BY DEF SetConfig, MessageType, ConfigsKnown, TaskType
  <2>5. QED
    BY <1>7, <2>1, <2>2, <2>3, <2>4
<1>9. CASE Clients
  <2>1. CASE \E c \in Configs : ManagerSetConfig(c)
    BY <2>1 DEF ManagerSetConfig, serviceVars, NotYet
  <2>2. CASE ManagerSetLocale \/ ManagerProbe \/ ManagerGetSystem
    <3>1. \A type \in {"SetLocale", "Probe", "GetSystem"} :
              Message(type) \in MessageType /\ Message(type).type = type
      BY DEF Message, MessageType
    <3>2. QED
      BY <1>7, <2>2, <3>1 DEF ManagerSetLocale, ManagerProbe, ManagerGetSystem
  <2>3. CASE ManagerInstall
    BY <1>1, <2>3 DEF ManagerInstall
  <2>4. QED
    BY <1>9, <2>1, <2>2, <2>3 DEF Clients
<1>10. QED
  BY <1>2, <1>3, <1>4, <1>5, <1>6, <1>8, <1>9 DEF Next, Service

LEMMA IInvAlways == Spec => []IInv
<1>1. Init => IInv
  BY DEF Init, IInv, ZyppInit, ConfigsKnown, Records, Turns, Writing, WriteDone, IdleDone, NotYet,
         NotRegistered, NoJob, NoReply, Idle
<1>2. ASSUME IInv, [Next]_vars
      PROVE  Records' /\ Turns' /\ Writing' /\ WriteDone' /\ IdleDone'
  BY <1>2, WriteStep, OtherZyppStep, HandlerStep, OthersStep DEF Next, Zypp, User, ZyppStep
<1>3. IInv /\ [Next]_vars => IInv'
  <2>1. ASSUME IInv, [Next]_vars
        PROVE  IInv'
    BY <1>2, <2>1, ConfigsKnownStep, NotYetStep DEF IInv
  <2>2. QED
    BY <2>1
<1>4. QED
  BY <1>1, <1>3, PTL DEF Spec

\* When nothing is on its way and there are no issues, libzypp holds what is
\* wanted, whatever fails and whatever the user answers.
THEOREM NoIssuesInSyncAlways == Spec => []NoIssuesInSync
<1>1. IInv => NoIssuesInSync
  BY DEF IInv, IdleDone, InSync, RegistrationDone, RepositoriesDone, SelectionDone,
         NoIssuesInSync, Idle
<1>2. QED
  BY <1>1, IInvAlways, PTL

-----------------------------------------------------------------------------
(* What is installed.                                                      *)

ManagerRecord ==
    manager = [product |-> manager.product, issue |-> manager.issue, waits |-> manager.waits]

\* A configuration on the way: a task has not sent it yet, or it waits.
OnTheWay == tasks # {} \/ \E k \in DOMAIN mailbox : mailbox[k].type = "SetConfig"

\* There is something wanted once the service works on it, and before the
\* manager may start an installation, unless it still is on its way.
Known ==
    /\ svc.step \in {"writing", "proposal", "system"} => wanted # NoState
    /\ stage = "configuring" /\ ~manager.issue => wanted # NoState \/ OnTheWay

InstalledDone ==
    \A r \in Resolvables :
        wanted.resolvables[r] \in {"mandatory", "selected"} => r \in target.installed

\* The packages are installed: the thread said so.
PackagesInstalled ==
    \/ stage = "finished"
    \/ svc.step = "finishing"
    \/ \E k \in DOMAIN mailbox : mailbox[k].type = "Finish"
    \/ svc.step = "installing" /\ job.op = "none" /\ reply.type = "ok" /\ reply.value

\* After an installation that started with nothing on its way, nothing changes
\* what is wanted or chosen.
Quiet ==
    calm /\ stage # "configuring" =>
        /\ tasks = {}
        /\ svc.step \in {"idle", "installing", "finishing"}
        /\ \A k \in DOMAIN mailbox : mailbox[k].type \in {"Install", "Finish", "GetSystem"}
        /\ SelectionDone
        /\ PackagesInstalled => InstalledDone

QInv == IInv /\ ManagerRecord /\ Known /\ Quiet

LEMMA BuiltIsSome ==
    ASSUME NEW p, NEW c, NEW s, NEW order
    PROVE  BuildFrom(p, c, s, order) # NoState
<1>1. "repositories" \in DOMAIN BuildFrom(p, c, s, order)
  BY DEF BuildFrom
<1>2. "repositories" \notin DOMAIN NoState
  BY DEF NoState
<1>3. QED
  BY <1>1, <1>2

LEMMA KnownStep ==
    ASSUME IInv, ManagerRecord, Known, [Next]_vars
    PROVE  ManagerRecord' /\ Known'
<1> USE DEF IInv
<1>1. wanted # NoState => wanted' # NoState
  BY WantedIsBuilt, BuiltIsSome
<1>2. ManagerRecord'
  <2>1. \/ manager' = manager
        \/ manager' = [manager EXCEPT !.waits = "no"]
        \/ manager' = [manager EXCEPT !.waits = "Probe"]
        \/ manager' = [manager EXCEPT !.waits = "GetSystem"]
        \/ \E c \in Configs : ManagerSetConfig(c)
    BY DEF Next, Service, Clients, Task, Zypp, User, vars, serviceVars, managerVars,
       HandleSetConfig, HandleProbe, HandleSetLocale, HandleSetResolvables, HandleGetSystem,
       HandleInstall, HandleFinish, UpdateProposal, Return,
       WriteAnswered, ProposalAnswered, SystemAnswered, InstallAnswered, FinishAnswered,
       TaskSetResolvables, TaskSetConfig, ManagerSetLocale, ManagerProbe,
       ManagerGetSystem, ManagerInstall
  <2>2. QED
    BY <2>1 DEF ManagerRecord, ManagerSetConfig
<1>3. svc'.step \in {"writing", "proposal", "system"} => wanted' # NoState
  <2>1. CASE HandleSetConfig \/ HandleProbe \/ HandleSetLocale
    BY <2>1 DEF HandleSetConfig, HandleProbe, HandleSetLocale, UpdateProposal, Return, Idle
  <2>2. CASE HandleInstall \/ HandleFinish
    BY <2>2 DEF HandleInstall, HandleFinish, Work
  <2>3. CASE WriteAnswered \/ ProposalAnswered \/ SystemAnswered \/ InstallAnswered \/ FinishAnswered
    BY <1>1, <2>3 DEF WriteAnswered, ProposalAnswered, SystemAnswered, InstallAnswered,
       FinishAnswered, Answered, Return, Idle, Known
  <2>4. CASE HandleSetResolvables \/ HandleGetSystem
    BY <1>1, <2>4 DEF HandleSetResolvables, HandleGetSystem, Take, Return, Idle, Known
  <2>5. CASE ~Service
    <3>1. svc' = svc
      BY <2>5 DEF Next, Clients, Task, Zypp, User, vars, serviceVars,
         TaskSetResolvables, TaskSetConfig, ManagerSetConfig, ManagerSetLocale, ManagerProbe,
         ManagerGetSystem, ManagerInstall
    <3>2. QED
      BY <1>1, <3>1 DEF Known
  <2>6. QED
    BY <2>1, <2>2, <2>3, <2>4, <2>5 DEF Service
<1>4. ASSUME stage' = "configuring", ~manager'.issue, wanted' = NoState
      PROVE  OnTheWay'
  <2>1. wanted = NoState /\ svc.step \notin {"writing", "proposal", "system"}
    BY <1>1, <1>4 DEF Known
  <2>2. CASE \E c \in Configs : ManagerSetConfig(c)
    <3>1. PICK c \in Configs : ManagerSetConfig(c)
      BY <2>2
    <3>2. c.product \in ProductIds \union {"none", "unknown"}
      BY ConfigsAssumption DEF ProductIds
    <3>3. manager'.issue = (IF c.product = "unknown" THEN manager.issue ELSE c.product = "none")
      BY <3>1 DEF ManagerSetConfig, ManagerRecord
    <3>4. stage = "configuring"
      BY <1>4, <3>1 DEF ManagerSetConfig
    <3>5. CASE c.product \in ProductIds
      BY <3>1, <3>5 DEF ManagerSetConfig, OnTheWay
    <3>6. CASE c.product \notin ProductIds
      <4>1. c.product = "unknown" /\ ~manager.issue
        BY <1>4, <3>2, <3>3, <3>6
      <4>2. OnTheWay
        BY <2>1, <3>4, <4>1 DEF Known
      <4>3. QED
        BY <3>1, <3>6, <4>2 DEF ManagerSetConfig, serviceVars, OnTheWay
    <3>7. QED
      BY <3>5, <3>6
  <2>3. ASSUME NEW t \in tasks, Task(t)
        PROVE  OnTheWay'
    <3>1. CASE \E i \in Ids : \E asked \in Asked[i] : TaskSetResolvables(t, i, asked)
      BY <3>1 DEF TaskSetResolvables, OnTheWay
    <3>2. CASE TaskSetConfig(t)
      <4>1. SetConfig(t.config) \in MessageType /\ SetConfig(t.config).type = "SetConfig"
        BY DEF SetConfig, MessageType, ConfigsKnown, TaskType
      <4>2. \E k \in DOMAIN mailbox' : mailbox'[k] = SetConfig(t.config)
        BY <3>2, <4>1, PostTyped DEF TaskSetConfig
      <4>3. QED
        BY <4>1, <4>2 DEF OnTheWay
    <3>3. QED
      BY <2>3, <3>1, <3>2 DEF Task
  <2>4. CASE ~(\E t \in tasks : Task(t)) /\ ~(\E c \in Configs : ManagerSetConfig(c))
    <3>1. OnTheWay => OnTheWay'
      <4>1. CASE HandleSetConfig
        <5>1. wanted' # NoState
          BY <4>1, BuiltIsSome DEF HandleSetConfig, Wanted
        <5>2. QED
          BY <1>4, <5>1
      <4>2. ASSUME UNCHANGED tasks,
                   \A j \in DOMAIN mailbox : mailbox[j].type = "SetConfig" =>
                       \E k \in DOMAIN mailbox' : mailbox'[k] = mailbox[j]
            PROVE  OnTheWay => OnTheWay'
        BY <4>2 DEF OnTheWay
      <4>3. ASSUME NEW type \in {"Probe", "SetLocale", "GetSystem", "SetResolvables", "Install", "Finish"},
                   Take(type), UNCHANGED tasks
            PROVE  OnTheWay => OnTheWay'
        <5>1. mailbox[1].type # "SetConfig"
          BY <4>3, TakeTyped
        <5>2. \A j \in DOMAIN mailbox \ {1} : \E k \in DOMAIN mailbox' : mailbox'[k] = mailbox[j]
          BY <4>3, TakeTyped
        <5>3. QED
          BY <4>2, <4>3, <5>1, <5>2
      <4>4. CASE HandleProbe \/ HandleSetLocale \/ HandleGetSystem
                   \/ HandleSetResolvables \/ HandleInstall \/ HandleFinish
        BY <4>3, <4>4 DEF HandleProbe, HandleSetLocale, HandleGetSystem,
           HandleSetResolvables, HandleInstall, HandleFinish, managerVars
      <4>5. ASSUME NEW m \in MessageType, Post(m), UNCHANGED tasks
            PROVE  OnTheWay => OnTheWay'
        <5>1. \A j \in DOMAIN mailbox : \E k \in DOMAIN mailbox' : mailbox'[k] = mailbox[j]
          BY <4>5, PostTyped
        <5>2. QED
          BY <4>2, <4>5, <5>1
      <4>6. CASE InstallAnswered \/ ManagerSetLocale \/ ManagerProbe \/ ManagerGetSystem
                   \/ ManagerInstall
        <5>1. \A type \in {"Finish", "SetLocale", "Probe", "GetSystem", "Install"} :
                  Message(type) \in MessageType
          BY DEF Message, MessageType
        <5>2. CASE UNCHANGED <<mailbox, tasks>>
          BY <5>2 DEF OnTheWay
        <5>3. CASE ~UNCHANGED <<mailbox, tasks>>
          BY <4>5, <4>6, <5>1, <5>3 DEF InstallAnswered, ManagerSetLocale, ManagerProbe,
             ManagerGetSystem, ManagerInstall
        <5>4. QED
          BY <5>2, <5>3
      <4>7. CASE UNCHANGED <<mailbox, tasks>>
        BY <4>7 DEF OnTheWay
      <4>8. QED
        BY <2>4, <4>1, <4>4, <4>6, <4>7 DEF Next, Service, Clients, Zypp, User, vars,
           serviceVars, managerVars, WriteAnswered, ProposalAnswered, SystemAnswered,
           FinishAnswered
    <3>2. manager'.issue = manager.issue
      BY <2>4 DEF ManagerRecord, Next, Service, Clients, Zypp, User, vars, serviceVars, managerVars,
       HandleSetConfig, HandleProbe, HandleSetLocale, HandleSetResolvables, HandleGetSystem,
       HandleInstall, HandleFinish, UpdateProposal, Return,
       WriteAnswered, ProposalAnswered, SystemAnswered, InstallAnswered, FinishAnswered,
       ManagerSetLocale, ManagerProbe, ManagerGetSystem, ManagerInstall
    <3>3. stage = "configuring"
      BY <1>4, <2>4 DEF Next, Service, Clients, Zypp, User, vars, serviceVars, managerVars,
       HandleSetConfig, HandleProbe, HandleSetLocale, HandleSetResolvables, HandleGetSystem,
       HandleInstall, HandleFinish, WriteAnswered, ProposalAnswered, SystemAnswered,
       InstallAnswered, FinishAnswered, ManagerSetLocale, ManagerProbe, ManagerGetSystem,
       ManagerInstall
    <3>4. QED
      BY <1>4, <2>1, <3>1, <3>2, <3>3 DEF Known
  <2>5. QED
    BY <2>2, <2>3, <2>4
<1>5. QED
  BY <1>2, <1>3, <1>4 DEF Known

\* What a step must leave alone, or may only improve, once the installation runs.
LEMMA QuietKept ==
    ASSUME Quiet, calm, stage # "configuring", UNCHANGED wanted,
           target'.chosen = target.chosen, target.installed \subseteq target'.installed
    PROVE  /\ SelectionDone'
           /\ PackagesInstalled => InstalledDone'
BY DEF Quiet, SelectionDone, InstalledDone

\* Packages are only added to what is installed, and all that was chosen is
\* there when the thread says so.
LEMMA ThreadQuiet ==
    ASSUME IInv, Quiet, calm, stage # "configuring", Zypp \/ User
    PROVE  /\ target'.chosen = target.chosen
           /\ target.installed \subseteq target'.installed
           /\ PackagesInstalled' => PackagesInstalled \/ target.chosen \subseteq target'.installed
<1> USE DEF IInv
<1>1. UNCHANGED <<svc, mailbox, stage>> /\ job.op # "write"
  BY DEF Zypp, User, serviceVars, managerVars, Quiet, Turns
<1>2. target = [repositories |-> target.repositories, product |-> target.product,
                chosen |-> target.chosen, installed |-> target.installed]
  BY DEF Records
<1>3. ASSUME NEW answer, Reply(answer)
      PROVE  reply' = answer
  BY <1>3 DEF Reply
<1>4. CASE InstallCommit
  <2>1. CASE /\ target' = [target EXCEPT !.installed = @ \union target.chosen]
             /\ Reply(Answer(TRUE))
    BY <1>2, <2>1
  <2>2. CASE /\ \E part \in SUBSET target.chosen :
                    target' = [target EXCEPT !.installed = @ \union part]
             /\ Goto("retry")
    BY <1>1, <1>2, <1>4, <2>2 DEF Goto, PackagesInstalled, InstallCommit, At, Turns
  <2>3. CASE Reply(Failed) /\ UNCHANGED target
    BY <1>1, <1>3, <2>3 DEF Failed, PackagesInstalled
  <2>4. QED
    BY <1>4, <2>1, <2>2, <2>3 DEF InstallCommit
<1>5. CASE FinishSystem
  <2>1. svc.step = "finishing"
    BY <1>5 DEF FinishSystem, At, Turns
  <2>2. target'.chosen = target.chosen /\ target'.installed = target.installed
    BY <1>2, <1>5 DEF FinishSystem
  <2>3. QED
    BY <2>1, <2>2 DEF PackagesInstalled
<1>6. CASE InstallSwitchTarget
  <2>1. UNCHANGED target /\ (reply' = Failed \/ (reply' = reply /\ reply.type = "waiting"))
    BY <1>3, <1>6 DEF InstallSwitchTarget, Goto, At, Turns
  <2>2. QED
    BY <1>1, <2>1 DEF PackagesInstalled, Failed
<1>7. CASE Read
  BY <1>1, <1>7 DEF Read, At, Turns, Quiet
<1>8. CASE InstallGiveUp
  <2>1. reply' = Answer(FALSE) /\ UNCHANGED target
    BY <1>3, <1>8 DEF InstallGiveUp
  <2>2. QED
    BY <1>1, <2>1 DEF PackagesInstalled, Answer
<1>9. CASE AskQuestion \/ AnswerQuestion \/ InstallRetry
  <2>1. UNCHANGED <<reply, target>> /\ (UNCHANGED job \/ (job.op = "install" /\ reply.type = "waiting"))
    BY <1>9 DEF AskQuestion, AnswerQuestion, InstallRetry, Turns
  <2>2. QED
    BY <1>1, <2>1 DEF PackagesInstalled
<1>10. CASE ZyppWrite
  BY <1>1, <1>10 DEF ZyppWrite, WriteStart, WriteRegister, WriteRepositories,
         WriteLoad, WriteMissingProduct, WriteSelect, WriteSolve, At
<1>11. QED
  BY <1>4, <1>5, <1>6, <1>7, <1>8, <1>9, <1>10 DEF Zypp, User, ZyppStep, ZyppUser

\* An installation that starts with nothing on its way finds chosen what is
\* wanted.
LEMMA InstallQuiet ==
    ASSUME IInv, Known, ManagerInstall
    PROVE  Quiet'
<1> SUFFICES ASSUME calm'
             PROVE  Quiet'
  BY DEF Quiet
<1>1. mailbox = <<>> /\ svc = Idle /\ tasks = {} /\ stage = "configuring"
      /\ ~manager.issue /\ issues = {}
  BY DEF ManagerInstall
<1>2. wanted # NoState
  BY <1>1 DEF Known, OnTheWay
<1>3. SelectionDone
  BY <1>1, <1>2 DEF IInv, IdleDone, InSync, Idle
<1>4. UNCHANGED <<svc, wanted, target, tasks>> /\ stage' = "installing"
  BY DEF ManagerInstall, zyppVars
<1>5. SelectionDone'
  BY <1>3, <1>4 DEF SelectionDone
<1>6. mailbox' = <<[type |-> "Install"]>>
  BY <1>1 DEF ManagerInstall, Post, Message
<1>7. \A k \in DOMAIN mailbox' : mailbox'[k].type = "Install"
  BY <1>6
<1>8. ~PackagesInstalled'
  BY <1>1, <1>4, <1>7 DEF PackagesInstalled, Idle
<1>9. QED
  BY <1>1, <1>4, <1>5, <1>7, <1>8 DEF Quiet, Idle

\* The service, once nothing but the installation is on its way.
LEMMA ServiceQuiet ==
    ASSUME IInv, Quiet, calm, stage # "configuring", Service
    PROVE  Quiet'
<1> USE DEF IInv
<1>1. CASE HandleSetConfig \/ HandleProbe \/ HandleSetLocale \/ HandleSetResolvables
  <2>1. 1 \in DOMAIN mailbox /\ Head(mailbox) = mailbox[1]
    BY <1>1, TakeTyped DEF HandleSetConfig, HandleProbe, HandleSetLocale, HandleSetResolvables
  <2>2. QED
    BY <1>1, <2>1 DEF HandleSetConfig, HandleProbe, HandleSetLocale, HandleSetResolvables, Take, Quiet
<1>2. CASE WriteAnswered \/ ProposalAnswered \/ SystemAnswered
  BY <1>2 DEF WriteAnswered, ProposalAnswered, SystemAnswered, Answered, Quiet
<1>3. ASSUME UNCHANGED <<wanted, target, tasks, stage>>,
             svc'.step \in {"idle", "installing", "finishing"},
             \A k \in DOMAIN mailbox' : mailbox'[k].type = "Finish" => PackagesInstalled,
             \A k \in DOMAIN mailbox' : mailbox'[k].type \in {"Install", "Finish", "GetSystem"},
             svc'.step = "finishing" => PackagesInstalled,
             svc'.step = "installing" => reply'.type # "ok"
      PROVE  Quiet'
  <2>1. PackagesInstalled' => PackagesInstalled
    BY <1>3 DEF PackagesInstalled
  <2>2. SelectionDone' /\ (PackagesInstalled => InstalledDone')
    BY <1>3, QuietKept
  <2>3. tasks' = {}
    BY <1>3 DEF Quiet
  <2>4. QED
    BY <1>3, <2>1, <2>2, <2>3 DEF Quiet
<1>4. CASE HandleGetSystem \/ HandleInstall \/ HandleFinish
  <2>1. /\ \A k \in DOMAIN mailbox' : \E j \in DOMAIN mailbox : mailbox'[k] = mailbox[j]
        /\ svc = Idle
    BY <1>4, TakeTyped DEF HandleGetSystem, HandleInstall, HandleFinish
  <2>2. UNCHANGED <<wanted, target, tasks, stage>>
    BY <1>4 DEF HandleGetSystem, HandleInstall, HandleFinish, Take, Return, zyppVars, managerVars
  <2>3. 1 \in DOMAIN mailbox /\ Head(mailbox) = mailbox[1]
    BY <1>4, TakeTyped DEF HandleGetSystem, HandleInstall, HandleFinish
  <2>4. \/ svc'.step = "idle"
        \/ Send(InstallAction) /\ svc'.step = "installing"
        \/ Take("Finish") /\ svc'.step = "finishing"
    <3>1. CASE HandleGetSystem
      BY <3>1 DEF HandleGetSystem, Return, Idle
    <3>2. CASE HandleInstall
      BY <3>2 DEF HandleInstall, Work
    <3>3. CASE HandleFinish
      BY <3>3 DEF HandleFinish, Work
    <3>4. QED
      BY <1>4, <3>1, <3>2, <3>3
  <2>5. svc'.step = "finishing" => PackagesInstalled
    BY <2>3, <2>4 DEF Take, PackagesInstalled
  <2>6. svc'.step = "installing" => reply'.type # "ok"
    BY <2>4 DEF Send, Waiting, Failed
  <2>7. \A k \in DOMAIN mailbox' : mailbox'[k].type \in {"Install", "Finish", "GetSystem"}
    BY <2>1 DEF Quiet
  <2>8. \A k \in DOMAIN mailbox' : mailbox'[k].type = "Finish" => PackagesInstalled
    BY <2>1 DEF PackagesInstalled
  <2>9. QED
    BY <1>3, <2>2, <2>4, <2>5, <2>6, <2>7, <2>8
<1>5. CASE InstallAnswered /\ Succeeded /\ reply.value
  <2>1. Message("Finish") \in MessageType /\ Message("Finish").type = "Finish"
    BY DEF Message, MessageType
  <2>2. \A k \in DOMAIN mailbox' :
            mailbox'[k] = Message("Finish") \/ \E j \in DOMAIN mailbox : mailbox'[k] = mailbox[j]
    BY <1>5, <2>1, PostTyped DEF InstallAnswered
  <2>3. svc.step = "installing" /\ job.op = "none"
    BY <1>5, NothingToDo DEF InstallAnswered, Answered
  <2>4. PackagesInstalled
    BY <1>5, <2>3 DEF PackagesInstalled, Succeeded
  <2>5. UNCHANGED <<wanted, target, tasks, stage>> /\ svc' = Idle
    BY <1>5 DEF InstallAnswered
  <2>6. \A k \in DOMAIN mailbox' : mailbox'[k].type \in {"Install", "Finish", "GetSystem"}
    BY <2>1, <2>2 DEF Quiet
  <2>7. QED
    BY <1>3, <2>4, <2>5, <2>6 DEF Idle
<1>6. CASE (InstallAnswered /\ ~(Succeeded /\ reply.value)) \/ FinishAnswered
  <2>1. UNCHANGED <<wanted, target, tasks, mailbox>> /\ svc' = Idle
        /\ stage' \in {"finished", "failed"} /\ (stage' = "finished" => svc.step = "finishing")
    BY <1>6 DEF InstallAnswered, FinishAnswered, Answered
  <2>2. PackagesInstalled' => PackagesInstalled
    BY <2>1 DEF PackagesInstalled, Idle
  <2>3. SelectionDone' /\ (PackagesInstalled => InstalledDone')
    BY <2>1, QuietKept
  <2>4. QED
    BY <2>1, <2>2, <2>3 DEF Quiet, Idle
<1>7. QED
  BY <1>1, <1>2, <1>4, <1>5, <1>6 DEF Service

LEMMA QuietStep ==
    ASSUME QInv, [Next]_vars
    PROVE  Quiet'
<1> USE DEF QInv, IInv
<1>1. CASE ManagerInstall
  BY <1>1, InstallQuiet
<1>2. CASE ~ManagerInstall
  <2>1. SUFFICES ASSUME calm', stage' # "configuring"
                 PROVE  Quiet'
    BY DEF Quiet
  <2>2. calm /\ stage # "configuring"
    <3>1. calm' = calm
      BY <1>2 DEF Next, Service, Clients, Task, Zypp, User, vars, managerVars,
       HandleSetConfig, HandleProbe, HandleSetLocale, HandleSetResolvables, HandleGetSystem,
       HandleInstall, HandleFinish, WriteAnswered, ProposalAnswered, SystemAnswered,
       InstallAnswered, FinishAnswered, TaskSetResolvables, TaskSetConfig, ManagerSetConfig,
       ManagerSetLocale, ManagerProbe, ManagerGetSystem
    <3>2. stage = "configuring" => stage' = "configuring"
      BY <1>2 DEF Next, Service, Clients, Task, Zypp, User, vars, managerVars,
       HandleSetConfig, HandleProbe, HandleSetLocale, HandleSetResolvables, HandleGetSystem,
       HandleInstall, HandleFinish, WriteAnswered, ProposalAnswered, SystemAnswered,
       InstallAnswered, FinishAnswered, Answered, NotYet, TaskSetResolvables, TaskSetConfig,
       ManagerSetConfig, ManagerSetLocale, ManagerProbe, ManagerGetSystem
    <3>3. QED
      BY <2>1, <3>1, <3>2
  <2>3. CASE Service
    BY <2>2, <2>3, ServiceQuiet
  <2>4. CASE Zypp \/ User
    <3>1. UNCHANGED <<svc, mailbox, stage, tasks, wanted>>
      BY <2>4 DEF Zypp, User, serviceVars, managerVars
    <3>2. /\ target'.chosen = target.chosen
          /\ target.installed \subseteq target'.installed
          /\ PackagesInstalled' => PackagesInstalled \/ target.chosen \subseteq target'.installed
      BY <2>2, <2>4, ThreadQuiet
    <3>3. SelectionDone' /\ (PackagesInstalled => InstalledDone')
      BY <2>2, <3>1, <3>2, QuietKept
    <3>4. target.chosen \subseteq target'.installed => InstalledDone'
      BY <3>2, <3>3 DEF SelectionDone, InstalledDone
    <3>5. QED
      BY <2>2, <3>1, <3>2, <3>3, <3>4 DEF Quiet
  <2>5. CASE (\E t \in tasks : Task(t)) \/ Clients
    <3>1. ManagerGetSystem
      BY <1>2, <2>2, <2>5 DEF Quiet, Clients, Request, ManagerSetConfig, ManagerSetLocale, ManagerProbe
    <3>2. Message("GetSystem") \in MessageType /\ Message("GetSystem").type = "GetSystem"
      BY DEF Message, MessageType
    <3>3. \A k \in DOMAIN mailbox' :
            mailbox'[k] = Message("GetSystem") \/ \E j \in DOMAIN mailbox : mailbox'[k] = mailbox[j]
      BY <3>1, <3>2, PostTyped DEF ManagerGetSystem
    <3>4. UNCHANGED <<wanted, target, tasks, stage, svc, job, reply>>
      BY <3>1 DEF ManagerGetSystem, zyppVars
    <3>5. PackagesInstalled' => PackagesInstalled
      BY <3>2, <3>3, <3>4 DEF PackagesInstalled
    <3>6. SelectionDone' /\ (PackagesInstalled => InstalledDone')
      BY <2>2, <3>4, QuietKept
    <3>7. \A k \in DOMAIN mailbox' : mailbox'[k].type \in {"Install", "Finish", "GetSystem"}
      BY <2>2, <3>2, <3>3 DEF Quiet
    <3>8. QED
      BY <2>2, <3>4, <3>5, <3>6, <3>7 DEF Quiet
  <2>6. CASE UNCHANGED vars
    <3>1. UNCHANGED <<wanted, target, tasks, stage, svc, job, reply, mailbox, calm>>
      BY <2>6 DEF vars, zyppVars, serviceVars, managerVars
    <3>2. QED
      BY <3>1 DEF Quiet, SelectionDone, PackagesInstalled, InstalledDone
  <2>7. QED
    BY <2>3, <2>4, <2>5, <2>6 DEF Next
<1>3. QED
  BY <1>1, <1>2

\* What an installation installs is what the last configuration asked for, when
\* it started with nothing on its way, however often the user tries again.
THEOREM InstalledIsWantedAlways == Spec => []InstalledIsWanted
<1>1. Init => ManagerRecord /\ Known /\ Quiet
  BY DEF Init, ManagerRecord, Known, Quiet, Idle
<1>2. IInv /\ ManagerRecord /\ Known /\ Quiet /\ [Next]_vars
        => (ManagerRecord /\ Known /\ Quiet)'
  <2>1. ASSUME IInv, ManagerRecord, Known, Quiet, [Next]_vars
        PROVE  (ManagerRecord /\ Known /\ Quiet)'
    BY <2>1, KnownStep, QuietStep DEF QInv
  <2>2. QED
    BY <2>1
<1>3. Quiet => InstalledIsWanted
  BY DEF Quiet, PackagesInstalled, InstalledDone, InstalledIsWanted
<1>4. QED
  BY <1>1, <1>2, <1>3, IInvAlways, PTL DEF Spec

-----------------------------------------------------------------------------
(* The types of the variables.  A message is typed by ConfigsKnown and the *)
(* turns of the thread and the service by Turns; what is left is what the  *)
(* thread holds, and the parts of the wanted state that it takes over.     *)

ProgressTyped ==
    \/ progress = NoProgress
    \/ progress[1] \in 1 .. progress[2] /\ progress[2] \in 2 .. 4

ReplyTyped == reply.type \in {"none", "waiting", "dropped", "error", "ok"}

ThreadTyped ==
    /\ thread \in {"running", "stopped"}
    /\ ReplyTyped
    /\ registration.status \in {"none", "failed", "registered"}
    /\ trusted \subseteq Aliases
    /\ target.chosen \subseteq Resolvables /\ target.installed \subseteq Resolvables
    /\ target.product \in ProductIds \union {"none"}
    /\ ProgressTyped
    /\ asking \in BOOLEAN

WantedTyped ==
    wanted # NoState => wanted.product \in ProductIds /\ wanted.trusted \subseteq Aliases

StageTyped ==
    /\ stage \in {"configuring", "installing", "finished", "failed"}
    /\ requests \in 0 .. MaxRequests

TInv == ThreadTyped /\ WantedTyped /\ StageTyped

\* What is built is for a product that exists, and trusts the repository of
\* the user at most.
LEMMA WantedTypedStep ==
    ASSUME ConfigsKnown, WantedTyped, [Next]_vars
    PROVE  WantedTyped'
<1>1. CASE wanted' = wanted
  BY <1>1 DEF WantedTyped
<1>2. CASE wanted' # wanted
  <2>1. PICK p \in Products, order \in Orders :
            p = Specification(product') /\ wanted' = BuildFrom(p, config', selection, order)
    BY <1>2, WantedIsBuilt
  <2>2. wanted'.product = p.id /\ wanted'.trusted \subseteq {"user"}
    BY <2>1 DEF BuildFrom
  <2>3. QED
    BY <2>2, AliasesAssumption DEF WantedTyped, ProductIds
<1>3. QED
  BY <1>1, <1>2

\* The messages to the progress service.
LEMMA ProgressSteps ==
    ASSUME ProgressTyped,
           \/ UNCHANGED progress
           \/ StartWithSteps(3) \/ StartWithSteps(4)
           \/ NextStep \/ FinishProgress
           \/ progress' = <<1, 2>>
    PROVE  ProgressTyped'
<1>1. CASE UNCHANGED progress
  BY <1>1 DEF ProgressTyped
<1>2. ASSUME NEW steps \in 2 .. 4, progress' = <<1, steps>>
      PROVE  ProgressTyped'
  BY <1>2 DEF ProgressTyped
<1>3. CASE StartWithSteps(3) \/ StartWithSteps(4)
  BY <1>1, <1>2, <1>3 DEF StartWithSteps
<1>4. CASE NextStep
  <2>1. CASE progress # NoProgress /\ progress[1] < progress[2]
    <3>1. progress' = <<progress[1] + 1, progress[2]>>
      BY <1>4, <2>1 DEF NextStep
    <3>2. QED
      BY <2>1, <3>1 DEF ProgressTyped
  <2>2. QED
    BY <1>1, <1>4, <2>1 DEF NextStep
<1>5. CASE FinishProgress
  BY <1>5 DEF FinishProgress, ProgressTyped
<1>6. QED
  BY <1>1, <1>2, <1>3, <1>4, <1>5

\* An answer of the thread, and the end of its action.
LEMMA ReplySteps ==
    ASSUME ReplyTyped,
           \/ UNCHANGED reply
           \/ Reply(Dropped) \/ Reply(Failed)
           \/ \E value : Reply(Answer(value))
    PROVE  ReplyTyped'
BY DEF ReplyTyped, Reply, Dropped, Failed, Answer

\* The steps of ZyppServer::write.
LEMMA WriteTyped ==
    ASSUME IInv, Known, TInv, ZyppWrite
    PROVE  ThreadTyped'
<1> USE DEF IInv, TInv
<1>1. /\ job.op = "write" /\ svc.step = "writing" /\ job.wanted = wanted
      /\ wanted.product \in ProductIds /\ wanted.trusted \subseteq Aliases
  BY DEF ZyppWrite, WriteStart, WriteRegister, WriteRepositories, WriteLoad,
         WriteMissingProduct, WriteSelect, WriteSolve, At, Turns, Writing, Known, WantedTyped
<1>2. ReplyTyped'
  BY ReplySteps DEF ThreadTyped, ZyppWrite, WriteStart, WriteRegister, WriteRepositories,
     WriteLoad, WriteMissingProduct, WriteSelect, WriteSolve, SendIssues, Goto
<1>3. ProgressTyped'
  BY ProgressSteps DEF ThreadTyped, ZyppWrite, WriteStart, WriteRegister, WriteRepositories,
     WriteLoad, WriteMissingProduct, WriteSelect, WriteSolve, SendIssues
<1>4. registration'.status \in {"none", "failed", "registered"}
  <2>1. CASE WriteRegister
    <3>1. PICK base \in RegisterBase : registration' \in RegisterAddons(base)
      BY <2>1 DEF WriteRegister
    <3>2. /\ base = [status |-> base.status, product |-> base.product,
                     addons |-> base.addons, services |-> base.services]
          /\ base.status \in {"failed", "registered"}
      BY <3>1 DEF RegisterBase, Records, RegistrationFailed, NotRegistered
    <3>3. registration'.status = base.status
      BY <3>1, <3>2 DEF RegisterAddons
    <3>4. QED
      BY <3>2, <3>3
  <2>2. CASE ~WriteRegister
    BY <2>2 DEF ThreadTyped, ZyppWrite, WriteStart, WriteRepositories, WriteLoad,
       WriteMissingProduct, WriteSelect, WriteSolve
  <2>3. QED
    BY <2>1, <2>2
<1>5. trusted' \subseteq Aliases
  BY <1>1 DEF ThreadTyped, ZyppWrite, WriteStart, WriteRegister, WriteRepositories, WriteLoad,
     WriteMissingProduct, WriteSelect, WriteSolve
<1>6. /\ target'.chosen \subseteq Resolvables /\ target'.installed \subseteq Resolvables
      /\ target'.product \in ProductIds \union {"none"}
  <2>1. target = [repositories |-> target.repositories, product |-> target.product,
                  chosen |-> target.chosen, installed |-> target.installed]
    BY DEF Records
  <2>2. CASE WriteRepositories
    BY <2>1, <2>2 DEF WriteRepositories, ThreadTyped
  <2>3. CASE WriteMissingProduct
    BY <2>1, <2>3 DEF WriteMissingProduct, ThreadTyped
  <2>4. CASE WriteSelect
    BY <1>1, <2>1, <2>4 DEF WriteSelect, SelectedIn, ThreadTyped
  <2>5. QED
    BY <2>2, <2>3, <2>4 DEF ThreadTyped, ZyppWrite, WriteStart, WriteRegister, WriteLoad, WriteSolve
<1>7. UNCHANGED <<thread, asking>>
  BY DEF ZyppWrite, WriteStart, WriteRegister, WriteRepositories, WriteLoad,
         WriteMissingProduct, WriteSelect, WriteSolve
<1>8. QED
  BY <1>2, <1>3, <1>4, <1>5, <1>6, <1>7 DEF ThreadTyped

\* The other steps of the thread, and those of the user.
LEMMA OtherZyppTyped ==
    ASSUME Records, ThreadTyped, ~ZyppWrite, ZyppStep \/ ZyppUser
    PROVE  ThreadTyped'
<1>1. InstallSwitchTarget \/ InstallCommit \/ FinishSystem \/ Read
        \/ AskQuestion \/ AnswerQuestion \/ InstallRetry \/ InstallGiveUp
  BY DEF ZyppStep, ZyppUser
<1>2. ReplyTyped'
  BY <1>1, ReplySteps DEF ThreadTyped, InstallSwitchTarget, InstallCommit, FinishSystem, Read,
     AskQuestion, AnswerQuestion, InstallRetry, InstallGiveUp, Goto
<1>3. ProgressTyped'
  BY <1>1, ProgressSteps DEF ThreadTyped, InstallSwitchTarget, InstallCommit, FinishSystem, Read,
     AskQuestion, AnswerQuestion, InstallRetry, InstallGiveUp
<1>4. /\ target'.chosen \subseteq Resolvables /\ target'.installed \subseteq Resolvables
      /\ target'.product \in ProductIds \union {"none"}
  <2>1. target = [repositories |-> target.repositories, product |-> target.product,
                  chosen |-> target.chosen, installed |-> target.installed]
    BY DEF Records
  <2>2. CASE InstallCommit
    BY <2>1, <2>2 DEF InstallCommit, ThreadTyped
  <2>3. CASE FinishSystem
    BY <2>1, <2>3 DEF FinishSystem, ThreadTyped
  <2>4. QED
    BY <1>1, <2>2, <2>3 DEF ThreadTyped, InstallSwitchTarget, Read, AskQuestion, AnswerQuestion,
       InstallRetry, InstallGiveUp
<1>5. UNCHANGED <<registration, trusted>> /\ thread' \in {"running", "stopped"}
      /\ asking' \in BOOLEAN
  BY <1>1 DEF ThreadTyped, InstallSwitchTarget, InstallCommit, FinishSystem, Read, AskQuestion,
     AnswerQuestion, InstallRetry, InstallGiveUp
<1>6. QED
  BY <1>2, <1>3, <1>4, <1>5 DEF ThreadTyped

\* The service only puts an action in the channel, or takes the answer out.
LEMMA OthersTyped ==
    ASSUME ThreadTyped, Service \/ (\E t \in tasks : Task(t)) \/ Clients
    PROVE  ThreadTyped'
<1>1. UNCHANGED <<thread, registration, trusted, target, progress, asking>>
  BY DEF Service, Clients, Task, zyppVars, HandleSetConfig, HandleProbe, HandleSetLocale,
     HandleSetResolvables, HandleGetSystem, HandleInstall, HandleFinish,
     WriteAnswered, ProposalAnswered, SystemAnswered, InstallAnswered, FinishAnswered,
     TaskSetResolvables, TaskSetConfig, ManagerSetConfig, ManagerSetLocale, ManagerProbe,
     ManagerGetSystem, ManagerInstall
<1>2. ReplyTyped'
  <2>1. CASE HandleSetConfig \/ HandleProbe \/ HandleSetLocale
    BY <2>1 DEF HandleSetConfig, HandleProbe, HandleSetLocale, UpdateProposal, Send, Waiting,
       Failed, ThreadTyped, ReplyTyped
  <2>2. CASE HandleInstall \/ HandleFinish \/ WriteAnswered \/ ProposalAnswered
    BY <2>2 DEF HandleInstall, HandleFinish, WriteAnswered, ProposalAnswered, Send, Waiting,
       Failed, ThreadTyped, ReplyTyped
  <2>3. CASE SystemAnswered \/ InstallAnswered \/ FinishAnswered
    BY <2>3 DEF SystemAnswered, InstallAnswered, FinishAnswered, NoReply, ReplyTyped
  <2>4. CASE HandleSetResolvables \/ HandleGetSystem
    BY <2>4 DEF HandleSetResolvables, HandleGetSystem, zyppVars, Return, ThreadTyped, ReplyTyped
  <2>5. CASE ~Service
    <3>1. UNCHANGED reply
      BY <2>5 DEF Clients, Task, zyppVars, TaskSetResolvables, TaskSetConfig, ManagerSetConfig,
         ManagerSetLocale, ManagerProbe, ManagerGetSystem, ManagerInstall
    <3>2. QED
      BY <3>1 DEF ThreadTyped, ReplyTyped
  <2>6. QED
    BY <2>1, <2>2, <2>3, <2>4, <2>5 DEF Service
<1>3. QED
  BY <1>1, <1>2 DEF ThreadTyped, ProgressTyped

LEMMA StageTypedStep ==
    ASSUME StageTyped, [Next]_vars
    PROVE  StageTyped'
<1>1. CASE UNCHANGED <<stage, requests>>
  BY <1>1 DEF StageTyped
<1>2. CASE InstallAnswered \/ FinishAnswered
  BY <1>2 DEF InstallAnswered, FinishAnswered, StageTyped
<1>3. CASE Clients
  <2>1. /\ requests' = requests \/ (requests < MaxRequests /\ requests' = requests + 1)
        /\ stage' \in {stage, "installing"}
    BY <1>3 DEF Clients, Request, ManagerSetConfig, ManagerSetLocale, ManagerProbe,
       ManagerGetSystem, ManagerInstall
  <2>2. QED
    BY <2>1, BoundsAssumption DEF StageTyped
<1>4. QED
  BY <1>1, <1>2, <1>3 DEF Next, Service, Task, Zypp, User, vars, serviceVars, managerVars,
     HandleSetConfig, HandleProbe, HandleSetLocale, HandleSetResolvables, HandleGetSystem,
     HandleInstall, HandleFinish, WriteAnswered, ProposalAnswered, SystemAnswered,
     TaskSetResolvables, TaskSetConfig

LEMMA TInvStep ==
    ASSUME IInv, Known, TInv, [Next]_vars
    PROVE  TInv'
<1>1. WantedTyped' /\ StageTyped'
  BY WantedTypedStep, StageTypedStep DEF IInv, TInv
<1>2. CASE Zypp \/ User
  <2>1. ZyppStep \/ ZyppUser
    BY <1>2 DEF Zypp, User
  <2>2. ThreadTyped'
    BY <2>1, WriteTyped, OtherZyppTyped DEF IInv, TInv
  <2>3. QED
    BY <1>1, <2>2 DEF TInv
<1>3. CASE Service \/ (\E t \in tasks : Task(t)) \/ Clients
  BY <1>1, <1>3, OthersTyped DEF TInv
<1>4. CASE UNCHANGED vars
  <2>1. UNCHANGED zyppVars
    BY <1>4 DEF vars
  <2>2. ThreadTyped'
    BY <2>1 DEF TInv, ThreadTyped, ProgressTyped, ReplyTyped, zyppVars
  <2>3. QED
    BY <1>1, <2>2 DEF TInv
<1>5. QED
  BY <1>2, <1>3, <1>4 DEF Next

\* The types of the variables, for any number of requests: the product of the
\* service and of libzypp is one of the products, only known repositories are
\* trusted, and the progress stays within the steps it was started with.
THEOREM SoftwareTypeCorrect == Spec => []TypeOK
<1>1. Init => ManagerRecord /\ Known /\ TInv
  <2>1. Init => ManagerRecord /\ Known
    BY DEF Init, ManagerRecord, Known, Idle
  <2>2. Init => ThreadTyped
    <3>1. Init => ReplyTyped /\ ProgressTyped
      BY DEF Init, ZyppInit, NoReply, ReplyTyped, ProgressTyped
    <3>2. Init => registration.status = "none"
      BY DEF Init, ZyppInit, NotRegistered
    <3>3. Init => target.chosen = {} /\ target.installed = {} /\ target.product = "none"
      BY DEF Init, ZyppInit
    <3>4. QED
      BY <3>1, <3>2, <3>3 DEF Init, ZyppInit, ThreadTyped
  <2>3. Init => WantedTyped /\ StageTyped
    BY BoundsAssumption DEF Init, WantedTyped, StageTyped
  <2>4. QED
    BY <2>1, <2>2, <2>3 DEF TInv
<1>2. IInv /\ ManagerRecord /\ Known /\ TInv /\ [Next]_vars => (ManagerRecord /\ Known /\ TInv)'
  BY KnownStep, TInvStep
<1>3. IInv /\ TInv => TypeOK
  <2>1. IInv => product \in ProductIds \union {"none"}
    BY DEF IInv, ConfigsKnown, WithProduct
  <2>2. IInv => /\ job.op \in {"none", "write", "install", "finish", "proposal", "system"}
                /\ svc.step \in {"idle", "writing", "proposal", "system", "installing", "finishing"}
    BY DEF IInv, Turns
  <2>3. QED
    BY <2>1, <2>2 DEF TInv, ThreadTyped, ReplyTyped, ProgressTyped, StageTyped, TypeOK
<1>4. QED
  BY <1>1, <1>2, <1>3, IInvAlways, PTL DEF Spec

=============================================================================
