----------------------------- MODULE MCSurface ------------------------------
(***************************************************************************)
(* Two manifests for the tool surface: the second drops a server, a core   *)
(* plugin and an exclusion, and adds a login provider and a module that    *)
(* defines a tool of the first.                                            *)
(***************************************************************************)
EXTENDS TLC

Allowed(a, b) == [x \in {"m1", "m2", "s", "w"} |-> CASE x = "m1" -> a [] x = "s" -> b [] OTHER -> {}]
NoApi == [include |-> {}, exclude |-> {}, destructive |-> FALSE]
MCTsManifests ==
    {[tools |-> {"m1"}, exts |-> {"x", "y"}, core |-> {"core"}, auth |-> {}, mcps |-> {"s", "w"},
      include |-> Allowed({"a"}, {"c", "e"}), combos |-> ("c" :> {<<"x">>}) @@ ("e" :> {<<"x", "y">>}), api |-> NoApi],
     [tools |-> {"m1", "m2"}, exts |-> {"x", "y"}, core |-> {}, auth |-> {"login"}, mcps |-> {"s"},
      include |-> Allowed({}, {}), combos |-> ("a" :> {<<"x">>}) @@ ("d" :> {<<"x", "y">>}), api |-> [NoApi EXCEPT !.destructive = TRUE]]}

MCTsDefines == ("m1" :> <<"a", "b">>) @@ ("m2" :> <<"b", "d">>)
MCTsListings == ("s" :> {{"c"}, {"c", "e"}}) @@ ("w" :> {{"d", "f"}})

Operation(o, one, two, danger) == [name |-> o, tier1 |-> one, tier2 |-> two, destructive |-> danger]
MCTsOps == {Operation("o1", FALSE, FALSE, FALSE), Operation("o2", FALSE, FALSE, TRUE),
            Operation("o3", TRUE, FALSE, FALSE), Operation("o4", FALSE, TRUE, FALSE)}
=============================================================================
