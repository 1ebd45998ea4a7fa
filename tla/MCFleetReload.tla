--------------------------- MODULE MCFleetReload ---------------------------
(* Small fleets for the fleet reload. *)
EXTENDS FleetReload, TLC

CONSTANTS w1, w2, c1

MCParent == c1 :> w1

Calm == [late |-> {}, requesters |-> {w1}, targets |-> {}, deadlines |-> TRUE,
         requests |-> 1, drops |-> 0, faults |-> 0, failures |-> 0, deaths |-> 0]

\* Two changes, one by a forked child, with a lost connection; and one request while a worker
\* boots, a connection drops, a command fails, a reload raises and a process stops.
MCRaces == {[Calm EXCEPT !.requesters = {w2, c1}, !.requests = 2, !.drops = 1],
            [Calm EXCEPT !.late = {w2}, !.targets = {{w2}, None}, !.drops = 1, !.faults = 1,
                         !.failures = 1, !.deaths = 1]}

\* Two publishers that must answer each other, without a deadline; and churn around a change.
MCProgress == {[Calm EXCEPT !.requesters = {w1, w2}, !.targets = {{w2}, None}, !.requests = 2,
                            !.failures = 1, !.deadlines = FALSE],
               [Calm EXCEPT !.late = {w2}, !.drops = 1, !.faults = 1, !.deaths = 1]}
=============================================================================
