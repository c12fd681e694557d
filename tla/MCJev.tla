-------------------------------- MODULE MCJev --------------------------------
(* Small instances of the two halves of the Jev client for TLC.  They share  *)
(* no state beyond what JevFlights leaves open, and are explored one at a    *)
(* time: each moves only while the other rests in its initial state.         *)
EXTENDS JevBreaker, JevFlights, TLC

CONSTANTS a, b, d1, d2, g1, g2, f1, f2

(* As in the initial state: then there is no trace of the half to follow.    *)
BreakerRests ==
    /\ state = "closed" /\ failures = 0 /\ probes = 0 /\ ~cooled /\ ~limited
    /\ \A x \in Workers : at[x] = "idle"
    /\ fresh = {} /\ proven

FlightsRest ==
    /\ \A c \in Callers : pc[c] = "idle"
    /\ \A g \in Runners : stage[g] = "idle"
    /\ current = None /\ sf = None /\ ~cached

Next ==
    \/ FlightsRest /\ BreakerNext /\ UNCHANGED flightVars
    \/ BreakerRests /\ FlightNext /\ UNCHANGED breakerVars

Init == BreakerInit /\ FlightInit

Spec ==
    /\ Init
    /\ [][Next]_<<breakerVars, flightVars>>
    /\ BreakerFairness /\ FlightFairness
=============================================================================
