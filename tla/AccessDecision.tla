--------------------------- MODULE AccessDecision ---------------------------
(***************************************************************************)
(* The pure decisions of access control: what a request path resolves to,  *)
(* what the HTTP edge (authentication backend, then resource guard), the   *)
(* tool edge and the capability projection decide for it, and the audits   *)
(* the boot runs over the registered routes.                               *)
(*                                                                         *)
(* A path is the sequence of its segments; the segments "{id}" and         *)
(* "{rest}" of a template stand for a parameter of one segment and for a   *)
(* `:path' parameter.  A world w is one state of the stores: w.reg, the    *)
(* registered routes in order; w.routes, the route table; w.policies; and  *)
(* w.roles, the grant maps of the roles.                                   *)
(***************************************************************************)
EXTENDS Naturals, Sequences, SequencesExt

CONSTANTS Settings,     \* the access-control settings, a record of path sets
          Public,       \* public_resource_id
          NoOne,        \* no owner, no user, no role, no mint, no route
          NoCond        \* no policy condition

EmptyPolicy == [scopes |-> {}, cond |-> NoCond, disabled |-> FALSE, role |-> NoOne, owner |-> NoOne, mint |-> NoOne]

-----------------------------------------------------------------------------
(* Paths.                                                                  *)

Escape == "%2f"           \* a residual percent-escape, NUL, control or backslash byte
WellFormed(path) == Escape \notin ToSet(path)

\* canonicalize_path: empty and "." segments go, ".." drops one and never climbs above the root.
Canonical(path) ==
  IF \A i \in DOMAIN path : path[i] \notin {"", ".", ".."} THEN path ELSE
  FoldLeft(LAMBDA acc, s : CASE s \in {"", "."} -> acc
                             [] s = ".." -> IF acc = <<>> THEN acc ELSE Front(acc)
                             [] OTHER -> Append(acc, s), <<>>, path)

Under(path, prefixes) == \E prefix \in prefixes : IsPrefix(prefix, path)
ControlPlane == {<<"api">>, <<"mcp">>}

SegmentMatches(t, s) == t = s \/ t = "{id}"
Matches(template, path) ==
  LET rest == {i \in 1..Len(template) : template[i] = "{rest}"}
      over == Len(path) - Len(template)
  IN IF rest = {}
     THEN over = 0 /\ \A i \in 1..Len(template) : SegmentMatches(template[i], path[i])
     ELSE \E r \in rest : /\ over >= 0
                          /\ \A i \in 1..(r - 1) : SegmentMatches(template[i], path[i])
                          /\ \A i \in (r + 1)..Len(template) : SegmentMatches(template[i], path[i + over])
Templated(path) == \E i \in DOMAIN path : path[i] \in {"{id}", "{rest}"}

NormalizeAuto(path) == [i \in 1..Len(path) |-> IF path[i] \in Settings.digits THEN "{id}" ELSE path[i]]

-----------------------------------------------------------------------------
(* Registered routes: [path, canon, methods, authed, action, tags, op],    *)
(* canon being the canonical path the index keeps.                         *)

ServedMethods(meta) == meta.methods \cup (IF "GET" \in meta.methods THEN {"HEAD"} ELSE {})

\* The index of the gate: a concrete route wins (the last one registered), then templates in order.
ResolveRoute(reg, path, method) ==
  LET target == Canonical(path)
      concrete == {i \in 1..Len(reg) : /\ reg[i].canon = target /\ ~Templated(target)
                                      /\ method \in ServedMethods(reg[i])}
      templated == {i \in 1..Len(reg) : /\ Templated(reg[i].canon) /\ Matches(reg[i].canon, target)
                                       /\ method \in ServedMethods(reg[i])}
  IN IF ~WellFormed(path) \/ concrete \cup templated = {} THEN NoOne
     ELSE IF concrete # {} THEN reg[CHOOSE i \in concrete : \A j \in concrete : j <= i]
     ELSE reg[CHOOSE i \in templated : \A j \in templated : i <= j]

\* What the router serves: the first registered route that matches the path as it came.
RouterServes(reg, path, method) ==
  LET fits == {i \in 1..Len(reg) : Matches(reg[i].path, path) /\ method \in ServedMethods(reg[i])}
  IN IF fits = {} THEN NoOne ELSE reg[CHOOSE i \in fits : \A j \in fits : i <= j]

\* The concrete registered GET paths outside the control plane: never the SPA shell.
ReservedGetPaths(reg) ==
  {meta.canon : meta \in {x \in ToSet(reg) : "GET" \in x.methods /\ ~Templated(x.path) /\ ~Under(x.canon, ControlPlane)}}

-----------------------------------------------------------------------------
(* Path to resource ids.                                                   *)

Looked(w, url) == IF url \in DOMAIN w.routes THEN {w.routes[url].id} ELSE {}

\* Exact, auto-normalised, configured and stored patterns: every tier adds its ids.
TableIds(w, path) ==
  Looked(w, path) \cup Looked(w, NormalizeAuto(path))
  \cup UNION {Looked(w, t) : t \in {p \in Settings.pathPatterns : Matches(p, path)}}
  \cup {w.routes[t].id : t \in {u \in DOMAIN w.routes : w.routes[u].pattern /\ Matches(u, path)}}

ShellPath(w, path) ==
  /\ Settings.spaShell
  /\ ~Under(path, ControlPlane) /\ ~Under(path, Settings.reservedPrefixes)
  /\ path \notin ReservedGetPaths(w.reg) /\ path \notin Settings.operational

AcknowledgedPath(w, path) ==
  path \in ReservedGetPaths(w.reg) /\ path \in Settings.acknowledged /\ ~Under(path, Settings.reservedPrefixes)

\* A path no id covers may still be public to a reader.
ShownUnlisted(w, path, method) ==
  \/ method \in {"GET", "HEAD"} /\ AcknowledgedPath(w, path)
  \/ method = "GET" /\ ShellPath(w, path)

ResolveResourceIds(w, raw, method) ==
  LET path == Canonical(raw)
      opened == IF \E p \in Settings.publicPatterns : Matches(p, path) THEN {Public} ELSE {}
      kept == (TableIds(w, path) \cup opened) \ (IF Under(path, Settings.reservedPrefixes) THEN {Public} ELSE {})
  IN IF ~WellFormed(raw) THEN {}
     ELSE IF Under(path, Settings.publicPrefixes) \/ (kept = {} /\ ShownUnlisted(w, path, method)) THEN {Public}
     ELSE kept

\* The guard's and the tool edge's scope test: every protected id, or the wildcard.
ScopesCover(scopes, ids) == "*" \in scopes \/ ids \ {Public} \subseteq scopes
IdsAdmit(ids, scopes) == ids = {Public} \/ (ids # {} /\ ScopesCover(scopes, ids))

-----------------------------------------------------------------------------
(* Policies.                                                               *)

PolicyIsEmpty(pol) == pol.scopes = {} /\ pol.cond = NoCond
IsAdminPolicy(pol) == "*" \in pol.scopes /\ pol.cond = NoCond /\ pol.owner = NoOne

EffectiveScopes(key, owner) ==
  IF "*" \in owner THEN key ELSE IF "*" \in key THEN owner ELSE key \cap owner

\* A condition renders to text, to nothing or not at all; its text admits the paths under its
\* prefixes, and one that reads identity claims refuses a caller that presents them.
Enforce(cond, path, claims) ==
  \/ cond = NoCond
  \/ /\ cond.render = "text"
     /\ Under(path, cond.prefixes)
     /\ cond.tokenFree \/ claims = "reduced"

CondEvaluable(cond) == IF cond = NoCond THEN TRUE ELSE cond.render = "empty" \/ (cond.render = "text" /\ cond.tokenFree)

LevelRank(level) == CASE level = "write" -> 2 [] level = "read" -> 1 [] OTHER -> 0
MethodAction(method) == IF method \in {"GET", "HEAD"} THEN "read" ELSE "write"
LevelSatisfies(level, action) == LevelRank(level) >= LevelRank(action)
GrantMapAdmits(meta, method, grants) ==
  /\ meta.action \notin {"fenced", "secret"}
  /\ \E tag \in meta.tags \cap DOMAIN grants : LevelSatisfies(grants[tag], MethodAction(method))

\* A plausible mistake: an owned key answers to its own role.
OwnRoleDecision(w, pol, ownerPol, meta, method) ==
  IF meta.action \in {"fenced", "secret"} THEN IsAdminPolicy(pol)
  ELSE IsAdminPolicy(pol) \/ pol.role = NoOne \/ (pol.role \in DOMAIN w.roles /\ GrantMapAdmits(meta, method, w.roles[pol.role]))

\* The level pass over a resolved route: a fence looks at the caller's own policy, a grantable
\* route at the governing one (the owner's for an owned key); a missing role denies.
RoleLevelDecision(w, pol, ownerPol, meta, method) ==
  LET governing == IF ownerPol = NoOne THEN pol ELSE ownerPol
  IN IF meta.action \in {"fenced", "secret"} THEN IsAdminPolicy(pol)
     ELSE \/ IsAdminPolicy(governing)
          \/ governing.role = NoOne
          \/ governing.role \in DOMAIN w.roles /\ GrantMapAdmits(meta, method, w.roles[governing.role])

RequestLevelDecision(w, pol, ownerPol, path, method) ==
  LET meta == ResolveRoute(w.reg, path, method)
  IN meta = NoOne \/ RoleLevelDecision(w, pol, ownerPol, meta, method)

\* The policy layer both edges share: the key's condition, then its owner's, over the same target.
ConditionsAdmit(pol, ownerPol, path, claims) ==
  Enforce(pol.cond, path, claims) /\ (ownerPol # NoOne => Enforce(ownerPol.cond, path, claims))

OwnerPolicy(w, owner) == IF owner = NoOne THEN NoOne ELSE w.policies[owner]
OwnerStands(ownerPol) == ownerPol = NoOne \/ ~(ownerPol.disabled \/ PolicyIsEmpty(ownerPol))
CappedScopes(pol, ownerPol) == IF ownerPol = NoOne THEN pol.scopes ELSE EffectiveScopes(pol.scopes, ownerPol.scopes)

-----------------------------------------------------------------------------
(* The HTTP edge.  A credential is [user, owner], or NoOne for a guest; it  *)
(* is one the verifier accepted.                                            *)

\* The authentication backend: "guest", "denied" or "user".
Authenticate(w, cred, path, method) ==
  LET pol == w.policies[cred.user]
      ownerPol == OwnerPolicy(w, cred.owner)
  IN IF cred = NoOne \/ (WellFormed(path) /\ Under(Canonical(path), Settings.publicPrefixes)) THEN "guest"
     ELSE IF /\ ~PolicyIsEmpty(pol) /\ ~pol.disabled
             /\ OwnerStands(ownerPol)
             /\ ConditionsAdmit(pol, ownerPol, path, "full")
             /\ RequestLevelDecision(w, pol, ownerPol, path, method)
          THEN "user" ELSE "denied"

\* The resource guard, with the scopes and the admin mark the backend stamped; a denied request
\* does not come to it.
Guarded(w, ids, who, cred) ==
  \/ ids = {Public}
  \/ /\ who = "user"
     /\ IF ids = {} THEN IsAdminPolicy(w.policies[cred.user])
        ELSE ScopesCover(CappedScopes(w.policies[cred.user], OwnerPolicy(w, cred.owner)), ids)
GuardAdmits(w, who, cred, path, method) ==
  /\ who # "denied"
  /\ IF path \in Settings.alwaysAllowed THEN who = "user" ELSE Guarded(w, ResolveResourceIds(w, path, method), who, cred)

HttpAdmits(w, cred, path, method) == GuardAdmits(w, Authenticate(w, cred, path, method), cred, path, method)

-----------------------------------------------------------------------------
(* The tool edge.  An identity is [user, owner, scopes, mint]: a request's  *)
(* carries the scopes the backend decided and no mint, a fire's carries the *)
(* mint of the key it is bound to and no scopes.                            *)

IsFire(id) == id.mint # NoOne

\* The request path an operation's call stands for, or NoOne when an argument is no segment.
SynthesizePath(template, argument) ==
  LET at == {i \in 1..Len(template) : template[i] \in {"{id}", "{rest}"}}
      i == CHOOSE k \in at : TRUE
  IN IF at = {} THEN template
     ELSE IF \/ template[i] = "{id}" /\ Len(argument) # 1
             \/ {"", ".", ".."} \cap ToSet(argument) # {} THEN NoOne
     ELSE SubSeq(template, 1, i - 1) \o argument \o SubSeq(template, i + 1, Len(template))

OwnRoute(w, meta, path, method) == path # NoOne /\ ResolveRoute(w.reg, path, method) = meta

\* The decision after the route is pinned, shared by operations and by the agent run door.
AuthorizePinnedRoute(w, id, meta, path, method) ==
  LET ids == ResolveResourceIds(w, path, NoOne)
      pol == w.policies[id.user]
      ownerPol == OwnerPolicy(w, id.owner)
      scopes == IF IsFire(id) THEN CappedScopes(pol, ownerPol) ELSE id.scopes
      claims == IF IsFire(id) THEN "reduced" ELSE "full"
  IN /\ ids # {}
     /\ \/ Under(Canonical(path), Settings.publicPrefixes)
        \/ /\ ~pol.disabled
           /\ IsFire(id) => /\ ~PolicyIsEmpty(pol) /\ pol.mint = id.mint
                            /\ CondEvaluable(pol.cond)
                            /\ ownerPol # NoOne => CondEvaluable(ownerPol.cond)
           /\ OwnerStands(ownerPol)
           /\ IdsAdmit(ids, scopes)
           /\ ConditionsAdmit(pol, ownerPol, path, claims)
           /\ RoleLevelDecision(w, pol, ownerPol, meta, method)

ToolMethod(meta) == IF "POST" \in meta.methods THEN "POST" ELSE CHOOSE m \in meta.methods : TRUE

\* check: an operation's own route, with the arguments the call (and its presets) put in.
CheckTool(w, id, meta, argument) ==
  LET path == SynthesizePath(meta.path, argument)
      method == ToolMethod(meta)
  IN /\ id.user # NoOne
     /\ OwnRoute(w, meta, path, method)
     /\ AuthorizePinnedRoute(w, id, meta, path, method)

\* authorize_execution_agent_run: the run door is no operation and is pinned by its path.
AuthorizeAgentRun(w, id, path) ==
  LET meta == ResolveRoute(w.reg, path, "POST")
  IN /\ id.user # NoOne /\ meta # NoOne
     /\ AuthorizePinnedRoute(w, id, meta, path, "POST")

\* Whether a key can carry a fire at all, and is still the key the record was bound to.
KeyCarriesAuthority(w, key, mint) ==
  LET pol == w.policies[key]
  IN ~PolicyIsEmpty(pol) /\ ~pol.disabled /\ pol.mint = mint /\ OwnerStands(OwnerPolicy(w, pol.owner))

\* Whether a tokenless fire can evaluate the key's and its owner's condition.
KeyEvaluable(w, key) ==
  LET pol == w.policies[key] ownerPol == OwnerPolicy(w, pol.owner)
  IN CondEvaluable(pol.cond) /\ (ownerPol # NoOne => CondEvaluable(ownerPol.cond))

\* The identity a fire runs under; NoOne when the key cannot carry it.
BuildExecutionIdentity(w, key, mint) ==
  IF KeyCarriesAuthority(w, key, mint)
  THEN [user |-> key, owner |-> w.policies[key].owner, scopes |-> {}, mint |-> mint]
  ELSE NoOne

\* authorize_execution_tool_call: an operation takes the whole decision, a capability tool
\* (meta NoOne) only asks whether the key still carries authority.
AuthorizeFireCall(w, id, meta, argument) ==
  IF meta = NoOne THEN KeyCarriesAuthority(w, id.user, id.mint) ELSE CheckTool(w, id, meta, argument)

\* resolve_caller_identity, with what the guard bound for an admitted request.
RequestIdentity(w, cred) ==
  [user |-> cred.user, owner |-> cred.owner, mint |-> NoOne,
   scopes |-> CappedScopes(w.policies[cred.user], OwnerPolicy(w, cred.owner))]

-----------------------------------------------------------------------------
(* The projection.                                                         *)

PathReachable(w, scopes, path) ==
  path \in Settings.alwaysAllowed \/ IdsAdmit(ResolveResourceIds(w, path, NoOne), scopes)

ProjectionAdmits(w, cred, path, method) ==
  LET pol == w.policies[cred.user]
      ownerPol == OwnerPolicy(w, cred.owner)
  IN /\ PathReachable(w, CappedScopes(pol, ownerPol), path)
     /\ \/ IsAdminPolicy(pol)
        \/ ConditionsAdmit(pol, ownerPol, path, "full") /\ RequestLevelDecision(w, pol, ownerPol, path, method)

\* The concrete routes, the run doors of the agents and the mount roots a caller is shown.
ProjectionCandidates(w, agents) ==
  UNION {{meta.path} \X meta.methods : meta \in {x \in ToSet(w.reg) : ~Templated(x.path)}}
  \cup (agents \X {"POST"})

Projected(w, cred, agents) ==
  {pm \in ProjectionCandidates(w, agents) : ProjectionAdmits(w, cred, pm[1], pm[2])}

-----------------------------------------------------------------------------
(* What the boot refuses.                                                  *)

Overlaps(p, q) == IsPrefix(p, q) \/ IsPrefix(q, p)

SettingsValid ==
  /\ \A r \in Settings.reservedPrefixes, a \in Settings.publicPrefixes : ~Overlaps(r, a)
  /\ \A p \in Settings.alwaysAllowed : ~Under(p, Settings.publicPrefixes)
  /\ \A p \in Settings.operational \cup Settings.acknowledged :
       /\ WellFormed(p) /\ Canonical(p) = p
       /\ \A a \in Settings.publicPrefixes : ~Overlaps(p, a)
  /\ \A p \in Settings.acknowledged : ~Under(p, ControlPlane)
  /\ \A p \in Settings.publicPatterns, r \in Settings.reservedPrefixes :
       ~Matches(p, r) /\ ~Matches(p, Append(r, "x"))

\* check_always_public_routes
PublicRoutesAudit(reg) == \A meta \in ToSet(reg) : Under(meta.path, Settings.publicPrefixes) => ~meta.authed

\* check_spa_shell_public
ShellAudit(reg) ==
  \A meta \in ToSet(reg) :
    "GET" \in meta.methods /\ ~Under(meta.path, ControlPlane)
      => IF meta.path \in Settings.acknowledged THEN ~meta.authed
         ELSE meta.authed /\ ~Templated(meta.path) /\ meta.canon \in ReservedGetPaths(reg)

\* check_route_actions
ActionAudit(reg) ==
  \A meta \in ToSet(reg) :
    meta.authed => \/ meta.action \in {"fenced", "secret"}
                   \/ \A m \in meta.methods : meta.action = MethodAction(m)

\* check_fenced_routes_resolvable
FenceAudit(reg) ==
  \A meta \in ToSet(reg) : meta.action \in {"fenced", "secret"}
    => \A m \in meta.methods : ResolveRoute(reg, meta.path, m) = meta

\* _build_index
Indexed(reg) == \A meta \in ToSet(reg) : meta.canon = Canonical(meta.path)

BootAudit(reg) == Indexed(reg) /\ PublicRoutesAudit(reg) /\ ShellAudit(reg) /\ ActionAudit(reg) /\ FenceAudit(reg)

ASSUME SettingsAssumption == SettingsValid
=============================================================================
