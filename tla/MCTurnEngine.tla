---------------------------- MODULE MCTurnEngine ----------------------------
(* TurnEngine on small instances: a message and its redelivery, and an API submit. *)
EXTENDS TurnEngine, TLC

CONSTANTS m1, m2, api, p1, h1, h2

\* m1 and m2 carry the same provider message; api comes through the API door.
MCPairOf   == [m \in Messages |-> IF m = api THEN NoPair ELSE p1]
MCThreadOf == [m \in Messages |-> IF m = api THEN h2 ELSE h1]
MCTokens   == Messages \cup PassTokens

\* One failed round trip among stalling workers, or a dead worker and an expired marker.
MCRaces    == {[faults |-> 1, crashes |-> 0, expiries |-> 0, stalls |-> TRUE],
               [faults |-> 0, crashes |-> 1, expiries |-> 1, stalls |-> FALSE]}

\* A failed round trip and a dead worker, on workers that renew their leases in time.
MCRecovery == {[faults |-> 1, crashes |-> 1, expiries |-> 0, stalls |-> FALSE]}

\* Tokens of re-drive passes and workers are interchangeable.
MCSymmetry == Permutations(PassTokens) \cup Permutations(Workers)
=============================================================================
