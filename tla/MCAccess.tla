------------------------------ MODULE MCAccess ------------------------------
(***************************************************************************)
(* One account with the admin policy, one with the editor role, and two    *)
(* api keys, the first of which starts out minted by the editor.  A run    *)
(* looks at one concern at a time: management operations and what the      *)
(* decisions say of every state they reach, a request among them, or claim *)
(* links among them; the jq programs a condition may hold; the connections *)
(* whose tools the keys are for.                                           *)
(***************************************************************************)
EXTENDS AccessControl, TokenFree, Connections

CONSTANTS w1, w2, c1, c2, f1, f2
Symmetry == Permutations({w1, w2}) \cup Permutations({c1, c2}) \cup Permutations({f1, f2})

VARIABLE concern

MCSettings ==
  [digits |-> {"7"}, pathPatterns |-> {},
   reservedPrefixes |-> {<<"api", "auth">>}, publicPrefixes |-> {<<"api", "login">>},
   publicPatterns |-> {<<"api", "plugins", "{id}", "studio", "{rest}">>},
   alwaysAllowed |-> {<<"api", "auth", "me">>},
   spaShell |-> TRUE, operational |-> {<<"openapi">>},
   acknowledged |-> {<<"health">>, <<"{rest}">>}]

Route(path, methods, authed, action, tag, isOp) ==
  [path |-> path, canon |-> Canonical(path), methods |-> methods, authed |-> authed, action |-> action, tags |-> {tag}, op |-> isOp]
Base == << Route(<<"api", "login">>, {"POST"}, FALSE, "write", "login", FALSE),
           Route(<<"api", "auth", "me">>, {"GET"}, TRUE, "read", "access", FALSE),
           Route(<<"api", "auth", "keys">>, {"POST"}, TRUE, "write", "access", TRUE),
           Route(<<"api", "tools", "{id}">>, {"POST"}, TRUE, "write", "tools", TRUE),
           Route(<<"api", "secrets">>, {"GET"}, TRUE, "secret", "config", TRUE),
           Route(<<"health">>, {"GET"}, FALSE, "read", "ops", FALSE),
           Route(<<"{rest}">>, {"GET"}, FALSE, "read", "spa", FALSE) >>
\* Three boots: one that is accepted, one with a templated authed page and one with an authed login route.
MCRegistries ==
  {Base,
   <<Route(<<"metrics">>, {"GET"}, TRUE, "read", "ops", FALSE)>> \o Base,
   <<Route(<<"reports", "{id}">>, {"GET"}, TRUE, "read", "ops", FALSE)>> \o Base,
   <<Route(<<"api", "login", "admin">>, {"POST"}, TRUE, "write", "login", FALSE)>> \o Base}

MCRequests == {<<<<"api", "tools", "7">>, "POST">>, <<<<"api", "secrets">>, "GET">>, <<<<"api", "auth", "keys">>, "POST">>,
               <<<<"metrics">>, "GET">>, <<<<"reports", "7">>, "GET">>, <<<<"api", "login", "admin">>, "POST">>,
               <<<<"api", "tools", "..", "secrets">>, "GET">>}
MCUrls == {<<"api", "tools", "{id}">>, <<"api", "secrets">>}
InCond == [render |-> "text", prefixes |-> {<<"api", "tools">>, <<"api", "auth", "keys">>, <<"api", "auth", "me">>}, tokenFree |-> TRUE]
ClaimCond == [render |-> "text", prefixes |-> {<<"api">>}, tokenFree |-> FALSE]
MCRoleBodies == [r \in {"editor"} |-> [allowAll |-> FALSE, cond |-> InCond, grants |-> [t \in {"tools", "access"} |-> "write"]]]
MCGrantMaps == {[t \in {"tools"} |-> "read"]}
MCPolicyInputs == {[scopes |-> {"*"}, cond |-> NoCond], [scopes |-> {"s1"}, cond |-> ClaimCond]}
MCInitialPolicies ==
  [u \in {"root", "ann", "key", "spare"} |->
     CASE u = "root" -> [EmptyPolicy EXCEPT !.scopes = {"*"}]
       [] u = "ann" -> [EmptyPolicy EXCEPT !.scopes = {"*"}, !.cond = InCond, !.role = "editor"]
       [] u = "key" -> [EmptyPolicy EXCEPT !.scopes = {"s1"}, !.owner = "ann", !.mint = 1]
       [] OTHER -> NoOne]
MCInitialRoutes == [u \in MCUrls |-> [id |-> "s1", pattern |-> FALSE]]

\* Connections: the operator owns a title, the manifest change fails, or sessions lapse under refreshes.
Plain == [own |-> {}, ops |-> 3, refreshes |-> 0, faults |-> 0, stalls |-> 0]
MCCnScenarios ==
    {[Plain EXCEPT !.ops = 4],
     [Plain EXCEPT !.own = {CHOOSE t \in Aliases \X Subs : TRUE}, !.faults = 1],
     [Plain EXCEPT !.faults = 2],
     [Plain EXCEPT !.refreshes = 1, !.stalls = 1]}

----------------------------------------------------------------------------
vars == <<acVars, tfVars, cnVars, concern>>
Init ==
  /\ AcInit /\ TfInit /\ CnInit
  /\ concern \in {"managing", "keys", "remints", "request", "claims", "programs", "connections"}
  \* what a concern is not about has one beginning
  /\ concern # "managing" => registry = Base
  /\ left = CASE concern = "request" \/ registry # Base -> 1 [] concern = "keys" -> 3
                 [] concern = "remints" -> MaxOps [] OTHER -> 2
  /\ (concern # "programs" => tfProgram = CHOOSE leaf \in Leaves : TRUE)
  /\ (concern # "connections" => cnBudget = CHOOSE s \in CnScenarios : TRUE)

Managed ==
  \/ concern = "managing" /\ (Managing \/ Binding)
  \/ /\ concern = "keys"
     /\ Binding \/ \E w \in Workers : Minting(w) \/ Revoking(w) \/ RollingBack(w) \/ Bump(w) \/ Record(w)
  \/ /\ concern = "remints"
     /\ \E w \in Workers :  /\ \A v \in Workers \ {w} : op[v] = NoOne
                           /\ \/ Minting(w) \/ Revoking(w) \/ RollingBack(w)
                              \/ Bump(w) \/ Record(w)
  \/ /\ concern = "request"
     /\ \/ Requesting({<<<<"api", "tools", "7">>, "POST">>})
        \/ \E w \in Workers : Editing(w) \/ Roles(w) \/ Routes(w) \/ Continuing(w)
  \/ /\ concern = "claims"
     /\ Claims \/ \E w \in Workers : Minting(w) \/ Revoking(w) \/ Continuing(w)

Next ==
  \/ Managed /\ UNCHANGED <<tfVars, cnVars, concern>>
  \/ concern = "programs" /\ TfNext /\ UNCHANGED <<acVars, cnVars, concern>>
  \/ concern = "connections" /\ CnNext /\ UNCHANGED <<acVars, tfVars, concern>>
Spec == Init /\ [][Next]_vars

\* What the stores can hold under a request or with claim links is among what managing reaches.
Decisions == concern \in {"managing", "keys", "remints"} => DecisionsSound
Programs == concern = "programs" => TokenFreeSound

\* Removals of urls and nothing else.
UnmapNext ==
  /\ \E w \in Workers : (\E url \in Urls : UnmapStart(w, url)) \/ UnmapCheck(w) \/ UnmapCommit(w) \/ Bump(w) \/ Record(w)
  /\ UNCHANGED <<tfVars, cnVars, concern>>
UnmapSpec == Init /\ concern = "managing" /\ [][UnmapNext]_vars
=============================================================================
