------------------------------ MODULE MCSoftware ------------------------------
(***************************************************************************)
(* Two products: the first, which is registered, requires a pattern and    *)
(* proposes another one, the second proposes the first pattern and has a   *)
(* package that may be missing.  A configuration has no product, an        *)
(* unknown one, or one of the two: the first with a pattern that is        *)
(* required anyway, the proposed one removed and an addon, the second with *)
(* the list of another pattern and a repository of its own.  Two services  *)
(* ask for the package: one may need it, the other can do without.         *)
(***************************************************************************)
EXTENDS Software

MCPatterns == {"base", "desktop"}
MCPackages == {"kernel", "fonts"}
MCAliases == {"agama-0", "Installation", "user"}
MCPredefined == [a \in MCAliases |-> "no_url"]
MCIds == {"storage", "files"}

MCProducts ==
    {[id |-> "sles", mandatory |-> {"base"}, optional |-> {},
      preselected |-> {"desktop"}, kernel |-> "kernel", url |-> "url_sles",
      registration |-> TRUE],
     [id |-> "tw", mandatory |-> {}, optional |-> {"fonts"},
      preselected |-> {"base"}, kernel |-> "kernel", url |-> "url_tw",
      registration |-> FALSE]}

Nothing == [product |-> "none",
            patterns |-> [kind |-> "none", add |-> {}, remove |-> {}],
            packages |-> {}, url |-> "no_url", code |-> FALSE, addons |-> {},
            trusted |-> FALSE]

MCConfigs ==
    {Nothing,
     [Nothing EXCEPT !.product = "unknown"],
     [Nothing EXCEPT !.product = "sles", !.patterns.kind = "map",
                     !.patterns.add = {"base"}, !.patterns.remove = {"desktop"},
                     !.code = TRUE, !.addons = {"addon"}],
     [Nothing EXCEPT !.product = "tw", !.patterns.kind = "list",
                     !.patterns.add = {"desktop"}, !.packages = {"kernel"},
                     !.url = "url_user", !.trusted = TRUE]}

Asks(how) ==
    [r \in MCPatterns \union MCPackages |-> IF r = "fonts" THEN how ELSE "none"]

MCAsked == [storage |-> {Asks("mandatory")}, files |-> {Asks("optional")}]

=============================================================================
