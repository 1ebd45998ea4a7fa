----------------------------- MODULE MCProgress -----------------------------
(***************************************************************************)
(* What must not wait for ever: up to five turns on three threads, a tool  *)
(* run whose process has gone, and a dynamic MCP server that failed to     *)
(* bind.  They share no state, so a behaviour looks at one of them.        *)
(***************************************************************************)
EXTENDS TurnCaps, ToolRuns, ToolSurface, MCSurface

CONSTANTS a1, a2, a3, b1, c1, ha, hb, hc
VARIABLE look

MCThreadOf == [t \in Tasks |-> CASE t = b1 -> hb [] t = c1 -> hc [] OTHER -> ha]

Start ==
    /\ look \in {"caps", "runs", "surface"}
    /\ Init /\ TrInit /\ TsInit
    \* what the look is not at has one beginning
    /\ (look # "caps" => limit = 1)
    /\ (look # "surface" => tsStored = (CHOOSE m \in TsManifests : TRUE))
    /\ (look # "surface" => \A t \in TsTitles : tsServer[t] = Down)

Step ==
    \/ look = "caps" /\ Next /\ UNCHANGED <<trVars, tsVars, look>>
    \/ look = "runs" /\ TrNext /\ UNCHANGED <<vars, tsVars, look>>
    \/ look = "surface" /\ TsNext /\ UNCHANGED <<vars, trVars, look>>

(* The fairness of each, which the others' frozen states meet: no turn, run  *)
(* or failed server waits in them.                                          *)
Progress ==
    /\ Start /\ [][Step]_<<vars, trVars, tsVars, look>>
    /\ Fairness /\ TrFairness /\ TsFairness
=============================================================================
