---------------------------- MODULE MCDocuments ----------------------------
(***************************************************************************)
(* What is stored and what is built over it: the versioned store under two *)
(* callers, presets on two workers, the tool-metadata overlay, hooks with  *)
(* their trigger links, and one connection's tokens under three processes. *)
(* They share no state, so a behaviour looks at one of them.               *)
(***************************************************************************)
EXTENDS VersionedStore, Presets, ToolMeta, Webhooks, TokenStore, TLC

CONSTANT Looks  \* which of them this run looks at
VARIABLE look

MCVsBodies == {("f" :> 0) @@ ("g" :> 0)}
MCVsPatches == {("f" :> 1), ("g" :> 1)}
MCPsBodies == {[base |-> "b", val |-> 1, refs |-> {}], [base |-> "b", val |-> 1, refs |-> {"n1"}]}
MCPsSeed == "n1" :> [base |-> "b", val |-> 1, refs |-> {}]
MCPsBad == {<<"w2", 2>>}
MCTmPatches == {"label" :> 1, "hidden" :> 1, "folder" :> "a"}

MCTkScenarios ==
    {[deletes |-> 1, restores |-> 0, faults |-> 0], [deletes |-> 1, restores |-> 1, faults |-> 1],
     [deletes |-> 2, restores |-> 0, faults |-> 0], [deletes |-> 0, restores |-> 0, faults |-> 2]}

----------------------------------------------------------------------------
Init ==
    /\ look \in Looks
    /\ VsInit /\ PsInit /\ TmInit /\ WhInit /\ TkInit
    \* what the look is not at has one beginning
    /\ (look # "tokens" => tkBudget = CHOOSE s \in TkScenarios : TRUE)

Next ==
    \/ look = "store" /\ VsNext /\ UNCHANGED <<psVars, tmVars, whVars, tkVars, look>>
    \/ look = "presets" /\ PsNext /\ UNCHANGED <<vsVars, tmVars, whVars, tkVars, look>>
    \/ look = "meta" /\ TmNext /\ UNCHANGED <<vsVars, psVars, whVars, tkVars, look>>
    \/ look = "hooks" /\ WhNext /\ UNCHANGED <<vsVars, psVars, tmVars, tkVars, look>>
    \/ look = "tokens" /\ TkNext /\ UNCHANGED <<vsVars, psVars, tmVars, whVars, look>>

Spec == Init /\ [][Next]_<<vsVars, psVars, tmVars, whVars, tkVars, look>>

\* Looked at where the presets move.
PresetsHold == look = "presets" => PresetsConverge
=============================================================================
