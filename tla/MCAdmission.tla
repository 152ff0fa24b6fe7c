----------------------------- MODULE MCAdmission -----------------------------
(* Small instances of Admission.                                            *)
EXTENDS Admission, TLC

CONSTANTS a1, a2, a3

\* Replays of one request, and one that presents the same capability for
\* something else.
OneCapability == [a \in Attempts |-> "k1"]
OneContradicts == [a \in Attempts |-> IF a = a3 THEN "other" ELSE "scan"]

\* Replays of one request beside another holder's.
TwoCapabilities == [a \in Attempts |-> IF a = a3 THEN "k2" ELSE "k1"]
Rivals == [a \in Attempts |-> IF a = a2 THEN "other" ELSE "scan"]

OneClient == [a \in Attempts |-> "client"]

\* A client that was told to drop its capability sends no further request with it.
Dropping ==
    \A a, b \in Attempts :
      edge[a].at = "idle" /\ edge'[a].at = "find" /\ Replay(a, b) => ~GivesUp(edge[b].answer)

\* The first request comes before time passes: a later start is the same behaviour on
\* a shorter clock.
StartsAtOnce == now > 0 => \E a \in Attempts : edge[a].at # "idle"

Replays == Permutations(Attempts \ {a3})
=============================================================================
