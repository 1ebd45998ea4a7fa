-------------------------- MODULE MCDeliveryEngine --------------------------
(* DeliveryEngine on small instances: a channel answer of four characters, one of them
   blank, or an API answer, and two drivers. *)
EXTENDS DeliveryEngine, TLC

CONSTANTS chan, api

MCScenarios == {[arrivals |-> {chan}, deaths |-> 2, stalls |-> 0],
                [arrivals |-> {api}, deaths |-> 2, stalls |-> 0],
                [arrivals |-> {chan}, deaths |-> 1, stalls |-> 1],
                [arrivals |-> {api}, deaths |-> 0, stalls |-> 1]}
=============================================================================
