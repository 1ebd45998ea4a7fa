----------------------------- MODULE MCPlatform -----------------------------
(***************************************************************************)
(* What a worker runs beside its conversations: tool runs, sub-MCP         *)
(* applications, the tool surface, the config files, the connector         *)
(* catalog, backup imports, the limits and the templates.  They share no   *)
(* state, so a behaviour looks at one of them.                             *)
(***************************************************************************)
EXTENDS ToolRuns, SubMcp, ToolSurface, MCSurface, ConfigFiles, Catalog, Restore, Limits, Templates

CONSTANTS
    Looks,      \* which of them this run looks at
    r1, r2

MCTrPerms == Permutations({r1, r2})
VARIABLE look

----------------------------------------------------------------------------
(* Manifests of a few secrets: written out, marked, or held in a list.       *)
MCCfLeaves == {Text("s1"), Marker("K"), Text("p")}
MCCfEntry(i, l) == MapOf(("title" :> Text(i)) @@ ("key" :> l))
MCCfDoc(q) == MapOf("mcp" :> ListOf(q))
MCCfDocs ==
    {MCCfDoc(<<>>), MCCfDoc(<<MCCfEntry("a", Marker("K"))>>),
     MCCfDoc(<<MCCfEntry("b", Text("p")), MCCfEntry("a", Text("s1"))>>),
     MCCfDoc(<<MCCfEntry("a", Marker("K")), MCCfEntry("a", Text("s1"))>>), MCCfDoc(<<MCCfEntry("a", Text("s1")), MCCfEntry("a", Text("s1"))>>),
     MapOf(("mcp" :> ListOf(<<>>)) @@ ("backend" :> Marker("K")))}
MCCfEnvs == {("K" :> "s1") @@ ("BUS" :> "on"), ("K" :> "s2") @@ ("BUS" :> ""), ("K" :> "bad") @@ ("BUS" :> "on")}

----------------------------------------------------------------------------
(* Catalog documents: sound ones, one whose category is missing, a row that  *)
(* does not decode, a disabled one that does not, and a code provider's id.  *)
Row(c, on, good) == [cat |-> c, enabled |-> on, good |-> good]
NoCats == [c \in {} |-> 0]
MCCtDocs ==
    {[cats |-> "c1" :> 1, rows |-> "q" :> Row("c1", TRUE, TRUE)], [cats |-> NoCats, rows |-> "p" :> Row("c1", TRUE, TRUE)],
     [cats |-> "c1" :> 2, rows |-> "p" :> Row("c1", TRUE, FALSE)], [cats |-> NoCats, rows |-> "p" :> Row("seed", FALSE, FALSE)],
     [cats |-> NoCats, rows |-> "code" :> Row("seed", TRUE, TRUE)]}

----------------------------------------------------------------------------
(* Backup documents: a whole one with a bad row, one that takes the bus away *)
(* and moves an identity from route to route, a small one, and one that can  *)
(* be restored in full once the bus is there.                                *)
Token(u) == [user |-> u, scopes |-> {"s"}, cond |-> NoCond]
Route(n, k, f, pair) == [name |-> n, key |-> k, fp |-> f, pair |-> pair, good |-> TRUE]
Bad(row) == [row EXCEPT !.good = FALSE]
MCRsScope == [scope |-> "s"]
MCRsTemplates == <<[path |-> "t", good |-> TRUE], [path |-> "..", good |-> FALSE]>>
MCRsDocs ==
    <<("manifest" :> TRUE) @@ ("env" :> ("bus" :> "u")) @@ ("access_control" :> <<MCRsScope, Token("new"), Token("old")>>)
      @@ ("sub_mcp" :> <<[slug |-> "x", good |-> TRUE], [slug |-> "y", good |-> FALSE]>>) @@ ("templates" :> MCRsTemplates) @@ ("schedules" :> "x")
      @@ ("conversations" :> <<Bad(Route("r3", "old", 1, "P")), Route("r1", "old", 1, "P"), Route("r2", "old", 1, "P"), Route("r3", "new", 2, "Q")>>),
     ("manifest" :> FALSE) @@ ("env" :> ("bus" :> "")) @@ ("templates" :> MCRsTemplates)
      @@ ("conversations" :> <<Bad(Route("r3", "old", 1, "P")), Route("r1", "old", 1, "Q"), Route("r2", "old", 1, "P"), Route("r3", "old", 1, NoPair)>>),
     ("conversations" :> <<Route("r2", "new", 2, "Q")>>) @@ ("templates" :> <<[path |-> "t", good |-> TRUE]>>) @@ ("access_control" :> <<MCRsScope, Token("new")>>),
     ("manifest" :> TRUE) @@ ("env" :> ("bus" :> "u")) @@ ("templates" :> <<[path |-> "t", good |-> TRUE]>>)
      @@ ("access_control" :> <<MCRsScope, Token("new")>>) @@ ("sub_mcp" :> <<[slug |-> "x", good |-> TRUE]>>)
      @@ ("conversations" :> <<Route("r2", "old", 1, "P"), Route("r1", "old", 1, "Q")>>)>>
MCRsSome == <<"conversations", "templates", "access_control">>
MCRsConfig == <<"env", "manifest", "conversations", "templates">>
MCRsAll == <<"unknown", "env", "manifest", "conversations", "templates", "access_control", "sub_mcp", "schedules">>
MCRsImports ==
    {[doc |-> MCRsDocs[1], requested |-> MCRsAll], [doc |-> MCRsDocs[2], requested |-> MCRsConfig], [doc |-> MCRsDocs[3], requested |-> MCRsSome],
     [doc |-> MCRsDocs[4], requested |-> MCRsSome], [doc |-> MCRsDocs[4], requested |-> MCRsConfig]}
MCRsCreates == {[name |-> "r1", key |-> "old", pair |-> "P"], [name |-> "r2", key |-> "old", pair |-> "P"], [name |-> "r2", key |-> "new", pair |-> NoPair]}

----------------------------------------------------------------------------
(* Two clients of one network; two proxies the operator trusts.              *)
MCLmNet == [x \in {"c1", "c2", "d", "p", "q", "x", "y"} |-> IF x \in {"c1", "c2"} THEN "c" ELSE x]
MCLmForged == {<< >>, <<"x">>, <<"q", "y">>}
MCLmChains == {<< >>, <<"p">>, <<"p", "q">>}

----------------------------------------------------------------------------
Init ==
    /\ look \in Looks
    /\ TrInit /\ SmInit /\ TsInit /\ CfInit /\ CtInit /\ RsInit /\ LmInit /\ TpInit
    \* what the look is not at has one beginning
    /\ look # "surface" => tsStored = (CHOOSE m \in TsManifests : TRUE) /\ \A t \in TsTitles : tsServer[t] = Down
    /\ look # "config" => cfFile["manifest"].val = MCCfDoc(<<>>) /\ cfFile["env"].val["K"] = "s1"
    /\ look # "buckets" => lmRate = 1 /\ lmSize = 1
    /\ look # "templates" => tpCached

Next ==
    \/ look = "runs" /\ TrNext /\ UNCHANGED <<smVars, tsVars, cfVars, ctVars, rsVars, lmVars, tpVars, look>>
    \/ look = "submcp" /\ SmNext /\ UNCHANGED <<trVars, tsVars, cfVars, ctVars, rsVars, lmVars, tpVars, look>>
    \/ look = "surface" /\ TsNext /\ UNCHANGED <<trVars, smVars, cfVars, ctVars, rsVars, lmVars, tpVars, look>>
    \/ look = "config" /\ CfNext /\ UNCHANGED <<trVars, smVars, tsVars, ctVars, rsVars, lmVars, tpVars, look>>
    \/ look = "catalog" /\ CtNext /\ UNCHANGED <<trVars, smVars, tsVars, cfVars, rsVars, lmVars, tpVars, look>>
    \/ look = "restore" /\ RsNext /\ UNCHANGED <<trVars, smVars, tsVars, cfVars, ctVars, lmVars, tpVars, look>>
    \/ look = "buckets" /\ BucketStep /\ UNCHANGED <<trVars, smVars, tsVars, cfVars, ctVars, rsVars, tpVars, look>>
    \/ look = "doors" /\ DoorStep /\ UNCHANGED <<trVars, smVars, tsVars, cfVars, ctVars, rsVars, tpVars, look>>
    \/ look = "bodies" /\ BodyStep /\ UNCHANGED <<trVars, smVars, tsVars, cfVars, ctVars, rsVars, tpVars, look>>
    \/ look = "templates" /\ TpNext /\ UNCHANGED <<trVars, smVars, tsVars, cfVars, ctVars, rsVars, lmVars, look>>

Spec == Init /\ [][Next]_<<trVars, smVars, tsVars, cfVars, ctVars, rsVars, lmVars, tpVars, look>>
=============================================================================
