--------------------------- MODULE MCInteractions ---------------------------
(* Three questions, two of them in one group, for the interactions model.  *)
EXTENDS Interactions, TLC

CONSTANTS q1, q2, q3, g1, g2, a1, a2

MCGroupOf  == q1 :> g1 @@ q2 :> g1 @@ q3 :> g2
MCDeadline == q1 :> 1 @@ q2 :> 2 @@ q3 :> 2

Quiet == [asked |-> {q1, q2}, channelled |-> {}, external |-> {}, bound |-> {}, humans |-> {a1}, limit |-> None,
          kills |-> 0, expiries |-> 0, connects |-> 0]

MCScenarios ==
    { \* two humans answer one question that is delivered while its waiter may give up
      [Quiet EXCEPT !.asked = {q1}, !.channelled = {q1}, !.humans = {a1, a2}, !.kills = 1],
      \* two questions of one group, one delivered and one answered by callback
      [Quiet EXCEPT !.channelled = {q1}, !.external = {q2}, !.bound = {q2}, !.expiries = 1],
      \* the cap, over two groups, with a waiter that dies holding its slot
      [Quiet EXCEPT !.asked = {q1, q3}, !.limit = 1, !.kills = 1, !.expiries = 1],
      [Quiet EXCEPT !.asked = {q1, q2, q3}, !.humans = {}, !.limit = 1, !.kills = 1],
      \* a client opens the inbox while questions come and go, and again later
      [Quiet EXCEPT !.humans = {}, !.connects = 1],
      [Quiet EXCEPT !.asked = {q1}, !.connects = 2, !.kills = 1, !.expiries = 1] }
=============================================================================
