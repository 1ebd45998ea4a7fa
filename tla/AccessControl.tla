--------------------------- MODULE AccessControl ---------------------------
(***************************************************************************)
(* The access-control stores and the operations that change them: the      *)
(* Postgres route table, policies and roles, the identity records of the   *)
(* key-minting provider, the policy history, the Redis policy version and  *)
(* the one-time claim links; a request that decides through the            *)
(* version-keyed caches of its worker; and a background fire bound to a    *)
(* key.  A management operation is a sequence of steps (read, commit, bump *)
(* the version, record the history) that other operations interleave with  *)
(* and that may stop after any of them.                                    *)
(***************************************************************************)
EXTENDS AccessDecision, FiniteSets

CONSTANTS AcUsers,        \* principals: accounts and keys
          Accounts,       \* the principals that log in; the others are api keys
          Urls,           \* urls an operator maps
          Scopes,         \* scope ids
          InitialPolicies, \* user -> the policy it starts with, or NoOne
          InitialRoutes,  \* the route table at the start
          RoleBodies,     \* role name -> its definition [allowAll, cond, grants]
          GrantMaps,      \* the grant maps an edit may write
          PolicyInputs,   \* the [scopes, cond] a mint or an edit asks for
          Registries,     \* candidate route registries (sequences of routes)
          Requests,       \* the <<path, method>> pairs that are requested
          Workers,        \* processes running management operations
          Tokens,         \* claim tokens
          MaxOps,         \* bound on the number of operations
          MaxRequests     \* bound on the number of requests

VARIABLES registry,       \* the routes of this boot
          routes,         \* access_control_routes: url -> [id, pattern]
          rows,           \* access_control_policies: user -> body or NoOne
          roles,          \* active role definitions: name -> [allowAll, cond, grants]
          audits,         \* number of audit events of a role, and of its versions
          identities,     \* the provider's records: user -> [mint, owner] or NoOne
          history,        \* ac_policy documents: user -> [versions, active]
          version,        \* ac:policy_version
          op,             \* worker -> the operation it runs
          deleting,       \* urls deleted by a transaction that is still open
          links,          \* claim records by token: the key each carries, or NoOne once burned or expired
          handed,         \* claim tokens exchanged, with what their exchange knew
          cache,          \* the caches of one worker: object -> version -> [val, stamp]
          req,            \* one request, or NoOne
          bound,          \* the execution key a stored record names: [key, mint] or NoOne
          stamp,          \* ghost: commits per object
          settled,        \* ghost: the stamp of the last commit whose version bump is done
          retired,        \* ghost: mints whose key has been revoked
          nextMint, left, asked

acStores == <<routes, rows, roles, audits, identities, history>>
claimVars == <<links, handed>>
ghosts == <<stamp, settled, retired>>
acVars == <<registry, acStores, version, op, deleting, claimVars, cache, req, bound, ghosts, nextMint, left, asked>>

Objects == AcUsers \cup DOMAIN RoleBodies \cup {"routes"}

Body(u) == IF rows[u] = NoOne THEN EmptyPolicy ELSE rows[u]
World == [reg |-> registry, routes |-> routes, policies |-> [u \in AcUsers |-> Body(u)],
          roles |-> [r \in DOMAIN roles |-> roles[r].grants]]
Credential(u) == [user |-> u, owner |-> IF identities[u] = NoOne THEN NoOne ELSE identities[u].owner]

Principals == {u \in AcUsers : identities[u] # NoOne}
NoRequest == NoOne
NoHistory == [versions |-> <<>>, active |-> 0]

AcInit ==
  /\ registry \in {r \in Registries : BootAudit(r)}
  /\ routes = InitialRoutes
  /\ rows = InitialPolicies
  /\ roles = RoleBodies
  /\ audits = [r \in DOMAIN RoleBodies |-> 0]
  /\ identities = [u \in AcUsers |-> IF rows[u] = NoOne THEN NoOne ELSE [mint |-> rows[u].mint, owner |-> rows[u].owner]]
  /\ history = [u \in AcUsers |-> IF rows[u] = NoOne THEN NoHistory ELSE [versions |-> <<rows[u]>>, active |-> 1]]
  /\ version = 0
  /\ op = [w \in Workers |-> NoOne]
  /\ deleting = {}
  /\ links = [t \in {} |-> NoOne] /\ handed = {}
  /\ cache = [o \in Objects |-> <<>>]
  /\ req = NoRequest /\ bound = NoOne
  /\ stamp = [o \in Objects |-> 0] /\ settled = [o \in Objects |-> 0]
  /\ retired = {} /\ nextMint = 2 /\ left \in 1..MaxOps /\ asked = 0

\* The policies these constants make possible, and what a store starts with: minted keys are told
\* apart by their mint, the first is 1, and no account has one.
Conds == {NoCond} \cup {RoleBodies[r].cond : r \in DOMAIN RoleBodies} \cup {i.cond : i \in PolicyInputs}
         \cup {InitialPolicies[u].cond : u \in {x \in AcUsers : InitialPolicies[x] # NoOne}}
Policies == [scopes : SUBSET (Scopes \cup {"*"}), cond : Conds, disabled : BOOLEAN,
             role : DOMAIN RoleBodies \cup {NoOne}, owner : AcUsers \cup {NoOne}, mint : Nat \cup {NoOne}]

ASSUME AccessConstants ==
  /\ Accounts \subseteq AcUsers
  /\ NoOne \notin AcUsers \cup DOMAIN RoleBodies \cup Nat /\ "routes" \notin AcUsers
  /\ InitialPolicies \in [AcUsers -> Policies \cup {NoOne}]
  /\ \A u \in AcUsers : InitialPolicies[u] # NoOne =>
       /\ InitialPolicies[u].mint \in {NoOne, 1} /\ (u \in Accounts => InitialPolicies[u].mint = NoOne)
       /\ \A v \in AcUsers : InitialPolicies[v] # NoOne /\ InitialPolicies[v].mint = 1 /\ InitialPolicies[u].mint = 1 => u = v
  /\ DOMAIN InitialRoutes \subseteq Urls
  /\ PolicyInputs \subseteq [scopes : SUBSET (Scopes \cup {"*"}), cond : Conds]
  /\ RoleBodies \in [DOMAIN RoleBodies -> [allowAll : BOOLEAN, cond : Conds,
                                          grants : GrantMaps \cup {RoleBodies[r].grants : r \in DOMAIN RoleBodies}]]

-----------------------------------------------------------------------------
(* The steps every management operation is made of.                        *)

Admin(u) == IsAdminPolicy(Body(u))
Idle(w) == op[w] = NoOne /\ left > 0
Begin(w, o) == Idle(w) /\ left' = left - 1 /\ op' = [op EXCEPT ![w] = o]
Running(w, kind, stage) == op[w] # NoOne /\ op[w].kind = kind /\ op[w].stage = stage
Finish(w) == op' = [op EXCEPT ![w] = NoOne]

\* A commit counts for every object it changes; the operation then bumps the version.
Stamped(touched) == stamp' = [o \in Objects |-> stamp[o] + (IF o \in touched THEN 1 ELSE 0)]
Bumping(kind, user, touched, next, body) ==
  [kind |-> kind, user |-> user, stage |-> "bump", body |-> body, touched |-> [o \in touched |-> stamp'[o]], next |-> next]
Committed(w, touched, next, body) ==
  /\ Stamped(touched)
  /\ op' = [op EXCEPT ![w] = Bumping(op[w].kind, op[w].user, touched, next, body)]
\* The same for an operation whose first step is its transaction.
BeginCommitted(w, kind, touched, next, body) ==
  Stamped(touched) /\ Begin(w, Bumping(kind, NoOne, touched, next, body))

Operation(kind, user, stage, body) ==
  [kind |-> kind, user |-> user, stage |-> stage, body |-> body, touched |-> <<>>, next |-> "done"]

Atomic == UNCHANGED <<registry, version, deleting, claimVars, cache, req, bound, settled, nextMint, asked>>

\* bump_policy_version, after the commit.
Bump(w) ==
  /\ op[w] # NoOne /\ op[w].stage = "bump"
  /\ version' = version + 1
  /\ settled' = [o \in Objects |-> IF o \in DOMAIN op[w].touched /\ op[w].touched[o] > settled[o]
                                   THEN op[w].touched[o] ELSE settled[o]]
  /\ op' = [op EXCEPT ![w] = IF op[w].next = "done" THEN NoOne ELSE [op[w] EXCEPT !.stage = op[w].next]]
  /\ UNCHANGED <<registry, acStores, deleting, claimVars, cache, req, bound, stamp, retired, nextMint, left, asked>>

\* _record_policy_version: a version is written only when the body differs from the active one.
HistoryWrite(h, body) ==
  IF h.active # 0 /\ h.versions[h.active] = body THEN h
  ELSE [versions |-> Append(h.versions, body), active |-> Len(h.versions) + 1]

Record(w) ==
  /\ op[w] # NoOne /\ op[w].stage = "record"
  /\ history' = [u \in AcUsers |-> IF u \in DOMAIN op[w].body THEN HistoryWrite(history[u], op[w].body[u]) ELSE history[u]]
  /\ Finish(w)
  /\ UNCHANGED <<registry, routes, rows, roles, audits, identities, version, deleting, claimVars, cache, req, bound, ghosts, nextMint, left, asked>>

\* The process dies or a store call fails between two steps.
Stops(w) ==
  /\ op[w] # NoOne
  /\ Finish(w)
  /\ deleting' = IF op[w].kind = "unmap" /\ op[w].stage \in {"check", "commit"} THEN deleting \ {op[w].body.url} ELSE deleting
  /\ UNCHANGED <<registry, acStores, version, claimVars, cache, req, bound, ghosts, nextMint, left, asked>>

-----------------------------------------------------------------------------
(* Policies and keys.                                                      *)

Live(scope) == \E u \in DOMAIN routes : routes[u].id = scope
\* FOR SHARE on the granted scopes' routes: waits for an open delete, then validates.
Grantable(scopes) ==
  /\ \A u \in deleting : routes[u].id \notin scopes
  /\ \A s \in scopes \ {"*"} : Live(s)
Subset(caller, scopes) == "*" \in Body(caller).scopes \/ scopes \subseteq Body(caller).scopes

\* create_api_key: the ownership rules, the duplicate check and the early scope check.
MintStart(w, caller, u, input, owner) ==
  /\ Body(caller).owner = NoOne
  /\ Admin(caller) \/ (owner \in {NoOne, caller} /\ Subset(caller, input.scopes))
  /\ rows[u] = NoOne
  /\ \A s \in input.scopes \ {"*"} : Live(s)
  /\ Begin(w, Operation("mint", u, "provision",
                        [EmptyPolicy EXCEPT !.scopes = input.scopes, !.cond = input.cond,
                                            !.owner = IF Admin(caller) THEN owner ELSE caller]))
  /\ Atomic /\ UNCHANGED <<acStores, stamp, retired>>

\* The provider mints the key before the policy exists, and refuses an id it has a record of.
MintProvision(w) ==
  /\ Running(w, "mint", "provision")
  /\ IF identities[op[w].user] # NoOne THEN Finish(w) /\ UNCHANGED <<identities, nextMint>>
     ELSE /\ identities' = [identities EXCEPT ![op[w].user] = [mint |-> nextMint, owner |-> op[w].body.owner]]
          /\ op' = [op EXCEPT ![w] = Operation("mint", op[w].user, "commit", [op[w].body EXCEPT !.mint = nextMint])]
          /\ nextMint' = nextMint + 1
  /\ UNCHANGED <<registry, routes, rows, roles, audits, history, version, deleting, claimVars, cache, req, bound, ghosts, left, asked>>

\* create_policy: validates under the row locks and inserts; a refusal leaves a key without policy.
MintCommit(w) ==
  /\ Running(w, "mint", "commit")
  /\ LET u == op[w].user IN
       IF rows[u] = NoOne /\ Grantable(op[w].body.scopes)
       THEN /\ rows' = [rows EXCEPT ![u] = op[w].body]
            /\ Committed(w, {u}, "record", [o \in {u} |-> op[w].body])
       ELSE Finish(w) /\ UNCHANGED <<rows, stamp>>
  /\ Atomic /\ UNCHANGED <<routes, roles, audits, identities, history, retired, left>>

\* update_policy_fields and restore_policy_body keep the fingerprint the row carries.
KeepMint(u, body) == [body EXCEPT !.mint = rows[u].mint]

\* One policy row is rewritten, when it is still there.
Rewrite(w, u, body) ==
  IF rows[u] = NoOne THEN Finish(w) /\ UNCHANGED <<rows, stamp>>
  ELSE /\ rows' = [rows EXCEPT ![u] = body]
       /\ Committed(w, {u}, "record", [o \in {u} |-> body])

\* edit_api_key: the caller may edit the key, the owner stays, scopes stay within the caller's.
EditStart(w, caller, u, input) ==
  /\ rows[u] # NoOne
  /\ Admin(caller) \/ (Body(u).owner = caller /\ Subset(caller, input.scopes))
  /\ Begin(w, Operation("edit", u, "commit", input))
  /\ Atomic /\ UNCHANGED <<acStores, stamp, retired>>

EditCommit(w) ==
  /\ Running(w, "edit", "commit")
  /\ LET u == op[w].user input == op[w].body IN
       IF Grantable(input.scopes)
       THEN Rewrite(w, u, [Body(u) EXCEPT !.scopes = input.scopes, !.cond = input.cond])
       ELSE Finish(w) /\ UNCHANGED <<rows, stamp>>
  /\ Atomic /\ UNCHANGED <<routes, roles, audits, identities, history, retired, left>>

\* rollback_policy: a recorded body goes back verbatim, its scopes unchecked.
RollbackStart(w, caller, u, v) ==
  /\ Admin(caller) /\ v \in 1..Len(history[u].versions)
  /\ Begin(w, Operation("rollback", u, "commit", [to |-> v, body |-> history[u].versions[v]]))
  /\ Atomic /\ UNCHANGED <<acStores, stamp, retired>>

RollbackCommit(w) ==
  /\ Running(w, "rollback", "commit")
  /\ LET u == op[w].user IN
       IF rows[u] = NoOne THEN Finish(w) /\ UNCHANGED <<rows, stamp>>
       ELSE /\ rows' = [rows EXCEPT ![u] = KeepMint(u, op[w].body.body)]
            /\ Committed(w, {u}, "pointer", op[w].body)
  /\ Atomic /\ UNCHANGED <<routes, roles, audits, identities, history, retired, left>>

RollbackPointer(w) ==
  /\ Running(w, "rollback", "pointer")
  /\ history' = [history EXCEPT ![op[w].user].active = op[w].body.to]
  /\ Finish(w)
  /\ Atomic /\ UNCHANGED <<routes, rows, roles, audits, identities, stamp, retired, left>>

\* revoke_api_key: a key with no identity record is unknown; the policy goes first, the record last.
RevokeStart(w, caller, u) ==
  /\ u \notin Accounts
  /\ Admin(caller) \/ (rows[u] # NoOne /\ rows[u].owner = caller)
  /\ identities[u] # NoOne
  /\ Begin(w, Operation("revoke", u, "delete", {}))
  /\ Atomic /\ UNCHANGED <<acStores, stamp, retired>>

\* remove_policy: an account goes with the keys it owns, one after the other.
RemoveStart(w, u) ==
  /\ u \in Accounts /\ rows[u] # NoOne
  /\ LET owned == {k \in AcUsers \ Accounts : identities[k] # NoOne /\ Body(k).owner = u}
         first == IF owned = {} THEN u ELSE CHOOSE k \in owned : TRUE
     IN Begin(w, Operation("revoke", first, "delete", IF owned = {} THEN {} ELSE (owned \cup {u}) \ {first}))
  /\ Atomic /\ UNCHANGED <<acStores, stamp, retired>>

RevokeDelete(w) ==
  /\ Running(w, "revoke", "delete")
  /\ LET u == op[w].user IN
       /\ rows' = [rows EXCEPT ![u] = NoOne]
       /\ retired' = IF rows[u] = NoOne \/ rows[u].mint = NoOne THEN retired ELSE retired \cup {rows[u].mint}
       /\ Committed(w, {u}, "provider", op[w].body)
  /\ Atomic /\ UNCHANGED <<routes, roles, audits, identities, history, left>>

RevokeProvider(w) ==
  /\ Running(w, "revoke", "provider")
  /\ LET u == op[w].user rest == op[w].body IN
       /\ identities' = IF u \in Accounts THEN identities ELSE [identities EXCEPT ![u] = NoOne]
       /\ IF rest = {} THEN Finish(w)
          ELSE LET keys == rest \ Accounts
                   next == IF keys = {} THEN CHOOSE a \in rest : TRUE ELSE CHOOSE k \in keys : TRUE
               IN op' = [op EXCEPT ![w] = Operation("revoke", next, "delete", rest \ {next})]
  /\ Atomic /\ UNCHANGED <<routes, rows, roles, audits, history, stamp, retired, left>>

-----------------------------------------------------------------------------
(* Roles.                                                                  *)

\* apply_role: the role and the existing policy data are read before the write.
ApplyRoleStart(w, u, role) ==
  /\ role \in DOMAIN roles
  /\ roles[role].allowAll \/ roles[role].cond # NoCond
  /\ u \in Accounts
  /\ Begin(w, Operation("apply", u, "commit",
                        [Body(u) EXCEPT !.scopes = {"*"}, !.cond = roles[role].cond,
                                        !.role = IF roles[role].allowAll THEN NoOne ELSE role]))
  /\ Atomic /\ UNCHANGED <<acStores, stamp, retired>>

ApplyRoleCommit(w) ==
  /\ Running(w, "apply", "commit")
  /\ LET u == op[w].user
         body == IF rows[u] = NoOne THEN op[w].body ELSE KeepMint(u, op[w].body)
     IN /\ rows' = [rows EXCEPT ![u] = body]
        /\ Committed(w, {u}, "record", [o \in {u} |-> body])
  /\ Atomic /\ UNCHANGED <<routes, roles, audits, identities, history, retired, left>>

\* set_user_disabled: the data it writes back is the data it read.
DisableStart(w, u, on) ==
  /\ u \in Accounts /\ rows[u] # NoOne
  /\ Begin(w, Operation("disable", u, "commit", [Body(u) EXCEPT !.disabled = on]))
  /\ Atomic /\ UNCHANGED <<acStores, stamp, retired>>

DisableCommit(w) ==
  /\ Running(w, "disable", "commit")
  /\ LET u == op[w].user data == op[w].body IN
       Rewrite(w, u, [Body(u) EXCEPT !.disabled = data.disabled, !.role = data.role, !.owner = data.owner])
  /\ Atomic /\ UNCHANGED <<routes, roles, audits, identities, history, retired, left>>

\* create_role, update_role and rollback_role: the version and its audit event in one transaction.
WriteRole(w, caller, role, grants) ==
  /\ Admin(caller) /\ role \in DOMAIN RoleBodies /\ ~RoleBodies[role].allowAll
  /\ BeginCommitted(w, "role", {role}, "done", {})
  /\ roles' = [r \in DOMAIN roles \cup {role} |-> IF r = role THEN [RoleBodies[role] EXCEPT !.grants = grants] ELSE roles[r]]
  /\ audits' = [audits EXCEPT ![role] = @ + 1]
  /\ Atomic /\ UNCHANGED <<routes, rows, identities, history, retired>>

\* delete_role: the holders are counted before the transaction that deletes.
DeleteRoleStart(w, caller, role) ==
  /\ Admin(caller) /\ role \in DOMAIN roles /\ ~roles[role].allowAll
  /\ \A u \in AcUsers : Body(u).role # role
  /\ Begin(w, Operation("unrole", role, "commit", {}))
  /\ Atomic /\ UNCHANGED <<acStores, stamp, retired>>

DeleteRoleCommit(w) ==
  /\ Running(w, "unrole", "commit")
  /\ LET role == op[w].user IN
       IF role \in DOMAIN roles
       THEN /\ roles' = [r \in DOMAIN roles \ {role} |-> roles[r]]
            /\ audits' = [audits EXCEPT ![role] = @ + 1]
            /\ Committed(w, {role}, "done", {})
       ELSE Finish(w) /\ UNCHANGED <<roles, audits, stamp>>
  /\ Atomic /\ UNCHANGED <<routes, rows, identities, history, retired, left>>

-----------------------------------------------------------------------------
(* The route table.                                                        *)

RouteCommit(w, table) ==
  /\ BeginCommitted(w, "map", {"routes"}, "done", {})
  /\ routes' = table
  /\ Atomic /\ UNCHANGED <<rows, roles, audits, identities, history, retired>>

Upsert(url, id, pattern) == [u \in DOMAIN routes \cup {url} |-> IF u = url THEN [id |-> id, pattern |-> pattern] ELSE routes[u]]

\* add_scope_url: whatever the url was bound to is replaced.
MapUrl(w, url, scope, pattern) == url \notin deleting /\ RouteCommit(w, Upsert(url, scope, pattern))

\* pin_route_public refuses the control plane.
PinPublic(w, url, pattern) ==
  /\ url \notin deleting /\ ~Under(url, Settings.reservedPrefixes)
  /\ RouteCommit(w, Upsert(url, Public, pattern))

UnpinPublic(w, url) ==
  /\ url \notin deleting /\ url \in DOMAIN routes /\ routes[url].id = Public
  /\ RouteCommit(w, [u \in DOMAIN routes \ {url} |-> routes[u]])

\* remove_url_from_scope: the row is deleted first, then the transaction looks whether the scope
\* has another one, seeing its own delete and what others have committed, and then it commits.
UnmapStart(w, url) ==
  /\ url \in DOMAIN routes /\ url \notin deleting
  /\ Begin(w, Operation("unmap", NoOne, "check", [url |-> url, last |-> FALSE]))
  /\ deleting' = deleting \cup {url}
  /\ UNCHANGED <<registry, acStores, version, claimVars, cache, req, bound, ghosts, nextMint, asked>>

Stripped(scope) == {u \in AcUsers : rows[u] # NoOne /\ scope \in rows[u].scopes}

WithoutScope(u, scope) == [rows[u] EXCEPT !.scopes = @ \ {scope}]

UnmapCheck(w) ==
  /\ Running(w, "unmap", "check")
  /\ LET url == op[w].body.url
         scope == routes[url].id
         last == scope # Public /\ \A u \in DOMAIN routes \ {url} : routes[u].id # scope
     IN op' = [op EXCEPT ![w] = Operation("unmap", NoOne, "commit", [op[w].body EXCEPT !.last = last])]
  /\ Atomic /\ UNCHANGED <<acStores, stamp, retired, left>>

UnmapCommit(w) ==
  /\ Running(w, "unmap", "commit")
  /\ LET url == op[w].body.url
         scope == routes[url].id
         hit == IF op[w].body.last THEN Stripped(scope) ELSE {}
     IN /\ routes' = [u \in DOMAIN routes \ {url} |-> routes[u]]
        /\ rows' = [u \in AcUsers |-> IF u \in hit THEN WithoutScope(u, scope) ELSE rows[u]]
        /\ deleting' = deleting \ {url}
        /\ Committed(w, hit \cup {"routes"}, "record", [u \in hit |-> WithoutScope(u, scope)])
  /\ UNCHANGED <<registry, roles, audits, identities, history, version, claimVars, cache, req, bound, settled, retired, nextMint, left, asked>>

\* remove_scope: every route of the scope, then the scope in every policy, in one transaction.
DeleteScope(w, scope) ==
  /\ \A u \in deleting : routes[u].id # scope
  /\ Live(scope) \/ Stripped(scope) # {}
  /\ LET hit == Stripped(scope) IN
       /\ routes' = [u \in {x \in DOMAIN routes : routes[x].id # scope} |-> routes[u]]
       /\ rows' = [u \in AcUsers |-> IF u \in hit THEN WithoutScope(u, scope) ELSE rows[u]]
       /\ BeginCommitted(w, "unscope", hit \cup {"routes"}, "record", [u \in hit |-> WithoutScope(u, scope)])
  /\ Atomic /\ UNCHANGED <<roles, audits, identities, history, retired>>

-----------------------------------------------------------------------------
(* Claim links.                                                            *)

\* create_claim_link: the key must verify, and be the caller's own or one it may hand out.
CreateLink(t, caller, u) ==
  /\ t \notin DOMAIN links
  /\ identities[u] # NoOne /\ identities[u].mint # NoOne
  /\ Body(caller).owner # NoOne => u = caller
  /\ Admin(caller) \/ identities[u].owner = caller \/ u = caller
  /\ links' = [x \in DOMAIN links \cup {t} |-> IF x = t THEN [user |-> u, mint |-> identities[u].mint] ELSE links[x]]
  /\ UNCHANGED <<registry, acStores, version, op, deleting, handed, cache, req, bound, ghosts, nextMint, left, asked>>

LinkExpires(t) ==
  /\ t \in DOMAIN links /\ links[t] # NoOne
  /\ links' = [links EXCEPT ![t] = NoOne]
  /\ UNCHANGED <<registry, acStores, version, op, deleting, handed, cache, req, bound, ghosts, nextMint, left, asked>>

KeyVerifies(u, mint) == identities[u] # NoOne /\ identities[u].mint = mint

\* A plausible mistake: the record is read and left for its ttl.
ExchangeRead(w, t) ==
  /\ op[w] = NoOne /\ t \in DOMAIN links /\ links[t] # NoOne
  /\ op' = [op EXCEPT ![w] = Operation("claim", links[t].user, "verify",
                                       [token |-> t, mint |-> links[t].mint, dead |-> ~KeyVerifies(links[t].user, links[t].mint)])]
  /\ UNCHANGED <<registry, acStores, version, deleting, claimVars, cache, req, bound, ghosts, nextMint, left, asked>>

\* exchange_claim_token consumes the record (GETDEL) ...
ExchangeTake(w, t) ==
  /\ op[w] = NoOne /\ t \in DOMAIN links /\ links[t] # NoOne
  /\ op' = [op EXCEPT ![w] = Operation("claim", links[t].user, "verify",
                                       [token |-> t, mint |-> links[t].mint, dead |-> ~KeyVerifies(links[t].user, links[t].mint)])]
  /\ links' = [links EXCEPT ![t] = NoOne]
  /\ UNCHANGED <<registry, acStores, version, deleting, handed, cache, req, bound, ghosts, nextMint, left, asked>>

\* ... and hands the key out only if it still verifies.
ExchangeVerify(w) ==
  /\ Running(w, "claim", "verify")
  /\ handed' = IF KeyVerifies(op[w].user, op[w].body.mint)
               THEN handed \cup {[token |-> op[w].body.token, mint |-> op[w].body.mint, by |-> w, dead |-> op[w].body.dead]}
               ELSE handed
  /\ Finish(w)
  /\ UNCHANGED <<registry, acStores, version, deleting, links, cache, req, bound, ghosts, nextMint, left, asked>>

-----------------------------------------------------------------------------
(* A request, deciding through the caches of its worker.                   *)

ReqStart(u, path, method) ==
  /\ req = NoRequest /\ asked < MaxRequests /\ asked' = asked + 1
  /\ req' = [cred |-> IF u = NoOne THEN NoOne ELSE Credential(u), path |-> path, method |-> method,
             stage |-> IF u = NoOne THEN "guard" ELSE "policy", version |-> NoOne, floor |-> settled,
             got |-> <<>>, seen |-> {}]
  /\ UNCHANGED <<registry, acStores, version, op, deleting, claimVars, cache, bound, ghosts, nextMint, left>>

\* Every versioned read starts with the current version.
ReqVersion ==
  /\ req # NoRequest /\ req.stage # "decided" /\ req.version = NoOne
  /\ req' = [req EXCEPT !.version = version]
  /\ UNCHANGED <<registry, acStores, version, op, deleting, claimVars, cache, bound, ghosts, nextMint, left, asked>>

Current(o) == CASE o \in AcUsers -> Body(o) [] o = "routes" -> routes
                [] OTHER -> IF o \in DOMAIN roles THEN roles[o].grants ELSE NoOne

\* The version-keyed caches: a slot of this version answers, otherwise the row as it stands is read.
\* A slot whose ttl has run out is no slot.
Fetched(o, v, expired) ==
  IF v \in DOMAIN cache[o] /\ ~expired THEN cache[o][v] ELSE [val |-> Current(o), stamp |-> stamp[o]]
Filled(o, v, hit) == [cache EXCEPT ![o] = [x \in DOMAIN @ \cup {v} |-> IF x = v THEN hit ELSE @[x]]]

Governing == IF req.cred.owner = NoOne THEN req.got[req.cred.user] ELSE req.got[req.cred.owner]

\* The object the request reads at each stage, and the stage after it.
ReqObject ==
  CASE req.stage = "policy" -> req.cred.user
    [] req.stage = "owner" -> req.cred.owner
    [] req.stage = "level" -> Governing.role
    [] req.stage = "guard" -> "routes"
AfterFetch ==
  CASE req.stage = "policy" -> IF req.cred.owner = NoOne THEN "level" ELSE "owner"
    [] req.stage = "owner" -> "level"
    [] req.stage = "level" -> "guard"
    [] req.stage = "guard" -> "decided"

ReqFetch(expired) ==
  /\ req # NoRequest /\ req.version # NoOne
  /\ LET o == ReqObject IN
       IF o = NoOne
       THEN req' = [req EXCEPT !.stage = AfterFetch, !.version = NoOne] /\ UNCHANGED cache
       ELSE LET hit == Fetched(o, req.version, expired) IN
            /\ req' = [req EXCEPT !.stage = AfterFetch, !.version = NoOne,
                                  !.got = [x \in DOMAIN @ \cup {o} |-> IF x = o THEN hit.val ELSE @[x]],
                                  !.seen = @ \cup {[object |-> o, stamp |-> hit.stamp]}]
            /\ cache' = Filled(o, req.version, hit)
  /\ UNCHANGED <<registry, acStores, version, op, deleting, claimVars, bound, ghosts, nextMint, left, asked>>

ReqEnd ==
  /\ req # NoRequest /\ req.stage = "decided"
  /\ req' = NoRequest
  /\ UNCHANGED <<registry, acStores, version, op, deleting, claimVars, cache, bound, ghosts, nextMint, left, asked>>

-----------------------------------------------------------------------------
(* Records bound to an execution key.                                      *)

\* assert_execution_key_bindable answers the fingerprint the record keeps.
BindableBy(caller) ==
  {u \in AcUsers : /\ ~PolicyIsEmpty(Body(u))
                   /\ Admin(caller) \/ u = caller \/ Body(u).owner = caller
                   /\ Body(u).mint # NoOne
                   /\ KeyCarriesAuthority(World, u, Body(u).mint) /\ KeyEvaluable(World, u)}

BindKey(caller, u) ==
  /\ bound = NoOne /\ u \in BindableBy(caller)
  /\ bound' = [key |-> u, mint |-> Body(u).mint]
  /\ UNCHANGED <<registry, acStores, version, op, deleting, claimVars, cache, req, ghosts, nextMint, left, asked>>

-----------------------------------------------------------------------------
Minting(w) ==
  \/ Idle(w) /\ \E caller \in AcUsers, u \in AcUsers \ Accounts, input \in PolicyInputs, owner \in Accounts \cup {NoOne} :
                   MintStart(w, caller, u, input, owner)
  \/ MintProvision(w) \/ MintCommit(w)

Editing(w) ==
  \/ Idle(w) /\ \E caller \in AcUsers, u \in AcUsers \ Accounts, input \in PolicyInputs : EditStart(w, caller, u, input)
  \/ EditCommit(w)

RollingBack(w) ==
  \/ Idle(w) /\ \E caller, u \in AcUsers, v \in 1..MaxOps : RollbackStart(w, caller, u, v)
  \/ RollbackCommit(w) \/ RollbackPointer(w)

Revoking(w) ==
  \/ Idle(w) /\ \E caller, u \in AcUsers : RevokeStart(w, caller, u)
  \/ Idle(w) /\ \E u \in Accounts : RemoveStart(w, u)
  \/ RevokeDelete(w) \/ RevokeProvider(w)

Roles(w) ==
  \/ Idle(w) /\ \E u \in Accounts, r \in DOMAIN RoleBodies : ApplyRoleStart(w, u, r)
  \/ ApplyRoleCommit(w)
  \/ Idle(w) /\ \E u \in Accounts, on \in BOOLEAN : DisableStart(w, u, on)
  \/ DisableCommit(w)
  \/ Idle(w) /\ \E caller \in Accounts, r \in DOMAIN RoleBodies, g \in GrantMaps : WriteRole(w, caller, r, g)
  \/ Idle(w) /\ \E caller \in Accounts, r \in DOMAIN RoleBodies : DeleteRoleStart(w, caller, r)
  \/ DeleteRoleCommit(w)

Routes(w) ==
  \/ \E url \in Urls, s \in Scopes : \E pat \in {FALSE, Templated(url)} : MapUrl(w, url, s, pat)
  \/ \E url \in Urls : \E pat \in {FALSE, Templated(url)} : PinPublic(w, url, pat)
  \/ \E url \in Urls : UnpinPublic(w, url) \/ UnmapStart(w, url)
  \/ UnmapCheck(w) \/ UnmapCommit(w)
  \/ \E s \in Scopes : DeleteScope(w, s)

Claims ==
  \/ \E t \in Tokens, caller, u \in AcUsers : CreateLink(t, caller, u)
  \/ \E t \in Tokens : LinkExpires(t) \/ \E w \in Workers : ExchangeTake(w, t)
  \/ \E w \in Workers : ExchangeVerify(w)

Requesting(pms) ==
  \/ \E u \in Principals \cup {NoOne}, pm \in pms : ReqStart(u, pm[1], pm[2])
  \/ ReqVersion \/ ReqEnd
  \/ \E expired \in BOOLEAN : ReqFetch(expired)

Continuing(w) == Bump(w) \/ Record(w) \/ Stops(w)
Managing == \E w \in Workers : Minting(w) \/ Editing(w) \/ RollingBack(w) \/ Revoking(w) \/ Roles(w) \/ Routes(w) \/ Continuing(w)

Binding == bound = NoOne /\ \E caller \in AcUsers : \E u \in BindableBy(caller) : BindKey(caller, u)

AcNext == Managing \/ Claims \/ Requesting(Requests) \/ Binding

AcSpec == AcInit /\ [][AcNext]_acVars

-----------------------------------------------------------------------------
(* Properties.                                                             *)

AcTypeOK ==
  /\ DOMAIN routes \subseteq Urls /\ deleting \subseteq DOMAIN routes
  /\ DOMAIN roles \subseteq DOMAIN RoleBodies
  /\ \A u \in AcUsers : rows[u] = NoOne \/ rows[u].scopes \subseteq Scopes \cup {"*"}
  /\ \A o \in Objects : settled[o] <= stamp[o]

Operations == {meta \in ToSet(registry) : meta.op}
Calls(template) == IF Templated(template) THEN {<<"7">>, <<"..">>, <<"keys">>, <<"7", "x">>} ELSE {<<"7">>}
AgentDoors == {pm[1] : pm \in {x \in Requests : x[2] = "POST"}}

\* The decisions are looked at when nothing runs: every content the stores take is that of such
\* a state, because an operation may stop after any of its steps.
\* Likewise for principals whose identity record and policy row are of one minting and name one
\* owner.  A mint that a revocation and a second mint of the same user overtake leaves a row of
\* another mint, and a rollback across mintings (restore_policy_body keeps the row's mint and takes
\* the owner of the recorded body) leaves a row of another owner: a fire reads the owner of the row,
\* the HTTP edge that of the identity record, and the two may then decide differently.
OneMinting == {u \in Principals : rows[u] # NoOne => rows[u].mint = identities[u].mint /\ rows[u].owner = identities[u].owner}
Quiet == req = NoRequest /\ \A w \in Workers : op[w] = NoOne

\* A key owned by an account reaches nothing its owner does not reach: attenuation is decided
\* from the owner's policy of the moment, so it holds after every edit of either of them.
OwnedNeverExceedsOwner ==
  Quiet => LET w == World IN
    \A k \in {u \in OneMinting : Credential(u).owner # NoOne}, pm \in Requests :
      HttpAdmits(w, Credential(k), pm[1], pm[2])
        => \/ HttpAdmits(w, NoOne, pm[1], pm[2])
           \/ HttpAdmits(w, Credential(Credential(k).owner), pm[1], pm[2])

\* "the tool edge is never easier than the route": what a request's tool call or a fire may
\* dispatch, the same principal may request; and what the projection shows, the gate admits.
ToolEdgeNotEasier == Quiet => LET w == World IN
  /\ \A u \in OneMinting, meta \in Operations : \A arg \in Calls(meta.path) :
       LET path == SynthesizePath(meta.path, arg) IN
       \/ ~\/ CheckTool(w, RequestIdentity(w, Credential(u)), meta, arg)
               /\ ~PolicyIsEmpty(Body(u))
           \/ /\ Body(u).mint # NoOne
              /\ LET id == BuildExecutionIdentity(w, u, Body(u).mint)
                 IN id # NoOne /\ AuthorizeFireCall(w, id, meta, arg)
       \/ HttpAdmits(w, Credential(u), path, ToolMethod(meta))
  /\ \A u \in OneMinting, path \in AgentDoors :
       LET id == IF Body(u).mint = NoOne THEN NoOne ELSE BuildExecutionIdentity(w, u, Body(u).mint) IN
       id # NoOne /\ AuthorizeAgentRun(w, id, path) => HttpAdmits(w, Credential(u), path, "POST")
  /\ \A u \in OneMinting :
       Authenticate(w, Credential(u), <<"api", "auth", "me">>, "GET") = "user"
         => \A pm \in Projected(w, Credential(u), AgentDoors) : HttpAdmits(w, Credential(u), pm[1], pm[2])

\* Under a registry the boot accepts, a caller without credentials reaches a route declared
\* authed only where an operator mapped it public or a setting names it, and never the
\* management surface, whatever the route table holds.
AuthedNeverAnonymous ==
  Quiet => LET w == World IN \A pm \in Requests :
    LET meta == RouterServes(registry, pm[1], pm[2]) IN
    meta # NoOne /\ meta.authed /\ HttpAdmits(w, NoOne, pm[1], pm[2])
      => /\ ~Under(Canonical(pm[1]), Settings.reservedPrefixes)
         /\ Public \in TableIds(w, Canonical(pm[1])) \/ \E p \in Settings.publicPatterns : Matches(p, pm[1])

\* A request that starts after an operation bumped the policy version decides on nothing older
\* than what that operation committed, in whatever order caches were filled before.
FreshDecision == req # NoRequest => \A s \in req.seen : s.stamp >= req.floor[s.object]

\* Once the revocation of a key has deleted its policy, no stored record bound to that minting
\* of it fires again: not after a re-mint of the same user, nor after a rollback to a body
\* recorded before the revocation.
RetiredKeyStaysDead ==
  /\ \A u \in AcUsers : rows[u] # NoOne => rows[u].mint \notin retired
  /\ bound # NoOne /\ bound.mint \in retired => BuildExecutionIdentity(World, bound.key, bound.mint) = NoOne

\* A claim link gives its key out at most once, and never a key whose revocation had finished
\* before the exchange began.
ClaimedOnce ==
  /\ \A a, b \in handed : a.token = b.token => a = b
  /\ \A h \in handed : ~h.dead /\ links[h.token] = NoOne

\* "A durable policy therefore never holds a scope with no backing route" (store.py:32).
ScopesBacked == \A u \in AcUsers : rows[u] # NoOne => \A s \in rows[u].scopes \ {"*"} : Live(s)

\* What the two edges decide: a key never has more than its owner, no edge is easier than the
\* other, and nothing marked authed is anonymous.
DecisionsSound == OwnedNeverExceedsOwner /\ ToolEdgeNotEasier /\ AuthedNeverAnonymous

\* What is over stays over: a revoked key, whatever is rolled back; a claim token once taken; and
\* a policy once the write that replaced it has bumped the version, for every request after that.
AccessSettled == AcTypeOK /\ RetiredKeyStaysDead /\ ClaimedOnce /\ FreshDecision
=============================================================================
