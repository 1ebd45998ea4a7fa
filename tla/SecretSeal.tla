---------------------------- MODULE SecretSeal -----------------------------
(***************************************************************************)
(* The secret seal of the manifest: config/secret_seal.py, and its twin in *)
(* config/file_manager.py.  A document is a tree of maps, lists and text;  *)
(* in its preserved view a leaf may be an !ENV marker, in its expanded one *)
(* every marker is the text it resolves to.                                *)
(***************************************************************************)
EXTENDS Integers, FiniteSets, Sequences, SequencesExt

Text(v) == [t |-> "text", v |-> v]
Marker(x) == [t |-> "marker", v |-> x]
MapOf(f) == [t |-> "map", f |-> f]
ListOf(q) == [t |-> "list", q |-> q]

RECURSIVE Expanded(_, _), Retag(_, _, _), ResolvedSecrets(_, _), ContainsSecret(_, _), Plain(_)

Expanded(node, env) ==
    CASE node.t = "marker" -> Text(env[node.v])
      [] node.t = "map" -> MapOf([k \in DOMAIN node.f |-> Expanded(node.f[k], env)])
      [] node.t = "list" -> ListOf([i \in DOMAIN node.q |-> Expanded(node.q[i], env)])
      [] OTHER -> node

IdentityKeys == <<"title", "name", "module", "id">>

SameIdentity(a, b) ==
    /\ a.t = "map" /\ b.t = "map"
    /\ LET shared == {i \in DOMAIN IdentityKeys : IdentityKeys[i] \in DOMAIN a.f \cap DOMAIN b.f}
       IN shared # {} /\ LET k == IdentityKeys[Min(shared)] IN a.f[k] = b.f[k]

\* A plausible mistake: a candidate may be taken twice.
MutantMatchElement(element, candidates, used) ==
    LET equal == {j \in DOMAIN candidates : candidates[j] = element} IN IF equal # {} THEN Min(equal) ELSE 0

(* The candidate an element is paired with: the only one of its identity,   *)
(* else the first that equals it, else none.                               *)
MatchElement(element, candidates, used) ==
    LET free == DOMAIN candidates \ used
        alike == {j \in free : SameIdentity(element, candidates[j])}
        equal == {j \in free : candidates[j] = element}
    IN IF Cardinality(alike) = 1 THEN Min(alike) ELSE IF equal # {} THEN Min(equal) ELSE 0

PairedWith(elements, candidates) ==
    FoldLeft(LAMBDA paired, e : Append(paired, MatchElement(e, candidates, Range(paired))), << >>, elements)

(* The document with its markers put back, and the subtrees that had no     *)
(* counterpart to be compared with.                                        *)
Retag(doc, kept, expd) ==
    IF kept.t = "marker"
    THEN IF expd = doc THEN [doc |-> kept, loose |-> {}] ELSE [doc |-> doc, loose |-> {doc}]
    ELSE IF {doc.t, kept.t, expd.t} = {"map"}
    THEN LET both == DOMAIN doc.f \cap DOMAIN kept.f \cap DOMAIN expd.f
             sub == [k \in both |-> Retag(doc.f[k], kept.f[k], expd.f[k])]
         IN [doc |-> MapOf([k \in DOMAIN doc.f |-> IF k \in both THEN sub[k].doc ELSE doc.f[k]]),
             loose |-> UNION {sub[k].loose : k \in both} \cup {doc.f[k] : k \in DOMAIN doc.f \ both}]
    ELSE IF {doc.t, kept.t, expd.t} = {"list"}
    THEN LET at == PairedWith(doc.q, expd.q)
             paired == {i \in DOMAIN doc.q : at[i] # 0}
             sub == [i \in paired |-> Retag(doc.q[i], kept.q[at[i]], expd.q[at[i]])]
         IN [doc |-> ListOf([i \in DOMAIN doc.q |-> IF i \in paired THEN sub[i].doc ELSE doc.q[i]]),
             loose |-> UNION {sub[i].loose : i \in paired} \cup {doc.q[i] : i \in DOMAIN doc.q \ paired}]
    ELSE [doc |-> doc, loose |-> IF doc = expd THEN {} ELSE {doc}]

ResolvedSecrets(kept, expd) ==
    IF kept.t = "marker" THEN (IF expd.t = "text" THEN {expd.v} \ {""} ELSE {})
    ELSE IF kept.t = "map" /\ expd.t = "map"
    THEN UNION {ResolvedSecrets(kept.f[k], expd.f[k]) : k \in DOMAIN kept.f \cap DOMAIN expd.f}
    ELSE IF kept.t = "list" /\ expd.t = "list"
    THEN UNION {ResolvedSecrets(kept.q[i], expd.q[i]) : i \in DOMAIN kept.q}
    ELSE {}

ContainsSecret(node, secrets) ==
    CASE node.t = "text" -> node.v \in secrets
      [] node.t = "map" -> \E k \in DOMAIN node.f : ContainsSecret(node.f[k], secrets)
      [] node.t = "list" -> \E i \in DOMAIN node.q : ContainsSecret(node.q[i], secrets)
      [] OTHER -> FALSE

(* seal_resolved_secrets: what is persisted, or a refusal.                  *)
Seal(doc, kept, env) ==
    LET expd == Expanded(kept, env)
        tagged == Retag(doc, kept, expd)
        secrets == ResolvedSecrets(kept, expd)
    IN [doc |-> tagged.doc, refused |-> \E node \in tagged.loose : ContainsSecret(node, secrets)]

----------------------------------------------------------------------------
(* What the seal is for, stated without it: the text leaves of a document.  *)
Plain(node) ==
    CASE node.t = "text" -> {node.v}
      [] node.t = "map" -> UNION {Plain(node.f[k]) : k \in DOMAIN node.f}
      [] node.t = "list" -> UNION {Plain(node.q[i]) : i \in DOMAIN node.q}
      [] OTHER -> {}

Leaks(doc, kept, env) == (Plain(doc) \cap ResolvedSecrets(kept, Expanded(kept, env))) \ Plain(kept)
=============================================================================
