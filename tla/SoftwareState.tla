---------------------------- MODULE SoftwareState ----------------------------
(***************************************************************************)
(* The software that the installer wants: what SoftwareStateBuilder of     *)
(* rust/agama-software/src/model/state.rs makes of the product, the        *)
(* configuration of the user, the repositories of the media and what other *)
(* services ask for (SoftwareSelection of model/software_selection.rs).    *)
(*                                                                         *)
(* A list of resolvables is a function from every resolvable to how it is  *)
(* selected, a list of repositories one from every alias to its URL.  The  *)
(* kernel command line is taken to be empty, so "fips" and                 *)
(* inst.install_url are left out.                                          *)
(***************************************************************************)
EXTENDS Naturals, FiniteSets

CONSTANTS Patterns,         \* the resolvables that are patterns
          Packages,         \* the resolvables that are packages
          Aliases,          \* the aliases of the repositories
          Predefined,       \* the repositories of the media: alias -> URL
          Ids,              \* the services that ask for resolvables
          NoUrl             \* the URL of a repository that is not there

ASSUME ResolvablesAssumption == Patterns \cap Packages = {}
ASSUME AliasesAssumption ==
    {"agama-0", "Installation", "user"} \subseteq Aliases

Resolvables == Patterns \union Packages

\* AutoSelected { skip_if_missing } is "mandatory" or "optional".
Automatic == {"mandatory", "optional"}
Selection == Automatic \union {"selected", "removed", "none"}

-----------------------------------------------------------------------------
\* ResolvablesState.

\* A bug to try: what the user says replaces what the product requires.
ReplaceAlways(state, names, selection) ==
    [r \in Resolvables |-> IF r \in names THEN selection ELSE state[r]]

\* add_or_replace and extend_resolvables: what is selected automatically,
\* also when it may be missing, does not change any more.
Extend(state, names, selection) ==
    [r \in Resolvables |->
        IF r \in names /\ state[r] \notin Automatic THEN selection ELSE state[r]]

ResetUserPatterns(state) ==
    [r \in Resolvables |->
        IF r \in Patterns /\ state[r] = "selected" THEN "none" ELSE state[r]]

NothingSelected == [r \in Resolvables |-> "none"]

-----------------------------------------------------------------------------
\* SoftwareStateBuilder.

AddPatterns(state, product) ==
    LET required == Extend(state, product.mandatory \cap Patterns, "mandatory")
        optional == Extend(required, product.optional \cap Patterns, "optional")
    IN  Extend(optional, product.preselected, "selected")

AddPackages(state, product) ==
    LET required == Extend(state, product.mandatory \cap Packages, "mandatory")
        optional == Extend(required, product.optional \cap Packages, "optional")
    IN  Extend(optional, {product.kernel}, "mandatory")

BuildResolvables(product) ==
    AddPackages(AddPatterns(NothingSelected, product), product)

HasLocalInstallMedia == Predefined["Installation"] # NoUrl

BuildRepositories(product) ==
    [a \in Aliases |->
        IF a = "agama-0" /\ ~HasLocalInstallMedia THEN product.url
        ELSE Predefined[a]]

AddUserPatterns(state, patterns) ==
    CASE patterns.kind = "none" -> state
      [] patterns.kind = "list" ->
            Extend(ResetUserPatterns(state), patterns.add, "selected")
      [] patterns.kind = "map" ->
            Extend(Extend(state, patterns.add, "selected"), patterns.remove, "removed")

AddUserResolvables(state, config) ==
    Extend(AddUserPatterns(state, config.patterns), config.packages, "selected")

AddUserRepositories(repositories, config) ==
    IF config.url = NoUrl THEN repositories
    ELSE [repositories EXCEPT !["user"] = config.url]

\* The addons are part of the registration of the product.
AddRegistration(product, config) ==
    IF product.registration /\ config.code
    THEN [wanted |-> TRUE, addons |-> config.addons]
    ELSE [wanted |-> FALSE, addons |-> {}]

\* The lists of a HashMap come in any order: the first one that names a
\* resolvable says whether it is optional.
Orders == {order \in [Ids -> 1 .. Cardinality(Ids)] :
              \A i, j \in Ids : order[i] = order[j] => i = j}

FirstOf(selection, order, r) ==
    CHOOSE i \in Ids :
        /\ selection[i][r] # "none"
        /\ \A j \in Ids : selection[j][r] # "none" => order[i] <= order[j]

AddSelection(state, selection, order) ==
    [r \in Resolvables |->
        IF state[r] \in Automatic \/ \A i \in Ids : selection[i][r] = "none"
        THEN state[r]
        ELSE selection[FirstOf(selection, order, r)][r]]

\* SoftwareState::build_from.
BuildFrom(product, config, selection, order) ==
    [product |-> product.id,
     repositories |-> AddUserRepositories(BuildRepositories(product), config),
     resolvables |-> AddSelection(
                         AddUserResolvables(BuildResolvables(product), config),
                         selection, order),
     registration |-> AddRegistration(product, config),
     trusted |-> IF config.trusted THEN {"user"} ELSE {}]

NoState == [product |-> "none"]

-----------------------------------------------------------------------------
(***************************************************************************)
(* The same by priority, as the reference that the steps above are         *)
(* checked against: the product decides what is required, then the         *)
(* services, then the user, then what the product proposes to the user.    *)
(***************************************************************************)
ByPriority(product, config, selection, r) ==
    LET asked == {selection[i][r] : i \in Ids} \ {"none"}
        byUser == IF r \in config.patterns.remove THEN "removed" ELSE "selected"
        named == r \in config.patterns.add \union config.patterns.remove
                         \union config.packages
    IN  IF r \in product.mandatory THEN {"mandatory"}
        ELSE IF r \in product.optional THEN {"optional"}
        ELSE IF r = product.kernel THEN {"mandatory"}
        ELSE IF asked # {} THEN asked
        ELSE IF named THEN {byUser}
        ELSE IF r \in product.preselected /\ config.patterns.kind # "list"
             THEN {"selected"}
        ELSE {"none"}
=============================================================================
