----------------------------- MODULE MCPlugins ------------------------------
(***************************************************************************)
(* The marketplace installer, and the resolver of managed tokens.  They    *)
(* share no state, so a behaviour looks at one of them.                    *)
(*                                                                         *)
(* The installer: two plugins that want the same single-module slot; the   *)
(* second version of p moves its module, that of q wires nothing into the  *)
(* manifest any more.                                                      *)
(***************************************************************************)
EXTENDS Marketplace, TokenRefresh, TLC

CONSTANTS p, q, v1, v2, slot, list, mP1, mP2, mQ, w1, w2
VARIABLE look

MCProvides ==
    p :> (v1 :> (slot :> mP1 @@ list :> mP1) @@ v2 :> (slot :> mP2))
    @@ q :> (v1 :> (slot :> mQ) @@ v2 :> <<>>)

Venv == [prefixed |-> FALSE, env |-> [r \in Refs |-> Nil], workers |-> {w1},
         kinds |-> {"install", "uninstall", "update", "upgrade_all"},
         faults |-> 0, cancels |-> 0, edits |-> 0]
Prefix == [Venv EXCEPT !.prefixed = TRUE, !.env = p :> Nil @@ q :> v1]

MCScenarios ==
    {[Venv EXCEPT !.faults = 2], [Venv EXCEPT !.faults = 1, !.edits = 1], [Venv EXCEPT !.edits = 2],
     [Venv EXCEPT !.kinds = {"install", "uninstall"}, !.workers = {w1, w2}, !.faults = 1, !.cancels = 1],
     [Prefix EXCEPT !.faults = 2], [Prefix EXCEPT !.faults = 1, !.edits = 1]}

----------------------------------------------------------------------------
(* Two replicas on one connection. *)
Two == [rotating |-> TRUE, faults |-> 0, stalls |-> 0, aging |-> 1]

MCRfScenarios ==
    { \* every body within its lock, with a revoked or expired token and a failing provider
      [Two EXCEPT !.faults = 1, !.aging = 2], [Two EXCEPT !.faults = 2], [Two EXCEPT !.rotating = FALSE, !.faults = 3],
      \* bodies that outlive their lock or run without it
      [Two EXCEPT !.faults = 1, !.stalls = 2], [Two EXCEPT !.rotating = FALSE, !.faults = 2, !.stalls = 1] }

----------------------------------------------------------------------------
Start ==
    /\ look \in {"market", "tokens"}
    /\ Init /\ RfInit
    \* what the look is not at has one beginning
    /\ (look # "market" => budget = CHOOSE s \in Scenarios : TRUE)
    /\ (look # "tokens" => rfBudget = CHOOSE s \in RfScenarios : TRUE)

Moves ==
    \/ look = "market" /\ Next /\ UNCHANGED <<rfVars, look>>
    \/ look = "tokens" /\ RfNext /\ UNCHANGED <<vars, look>>

(* A part is treated fairly where the look is at it: its operations are     *)
(* enabled in the other behaviours too, and taken in none of them.          *)
Plugins ==
    /\ Start /\ [][Moves]_<<vars, rfVars, look>>
    /\ WF_vars(look = "market" /\ \E w \in Workers : Step(w))
    /\ \A r \in Refs : SF_vars(look = "market" /\ \E w \in Workers : Begin(w, "uninstall", r))
    /\ WF_rfVars(look = "tokens" /\ LockExpires) /\ WF_rfVars(look = "tokens" /\ BreakerExpires)
    /\ \A r \in Replicas : /\ WF_rfVars(look = "tokens" /\ (RfStep(r) \/ RfBegin(r)))
                           /\ SF_rfVars(look = "tokens" /\ Acquire(r))
=============================================================================
