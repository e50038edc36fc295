--------------------------- MODULE TransportRate ----------------------------
(***************************************************************************)
(* Transport with a record of the requests sent within the last window, by *)
(* which the rate a provider sees is compared with the rate it documents.  *)
(***************************************************************************)
EXTENDS TransportMC

VARIABLE sends      \* per bucket and age: requests sent

SentNow(s) ==
    Cardinality({c \in Calls : /\ pc[c] # "sending"
                               /\ pc'[c] = "sending"
                               /\ request'[c].scope = s})

RateInit == Init /\ sends = [s \in Buckets |-> [a \in Ages |-> 0]]

RateStep ==
    \/ /\ Next
       /\ ~ Tick
       /\ sends' = [s \in Buckets |-> [sends[s] EXCEPT ![0] = @ + SentNow(s)]]
    \/ Tick /\ sends' = [s \in Buckets |-> Older(sends[s])]

RateSpec == RateInit /\ [][RateStep]_<<vars, sends>>

(* The requests of a scope stay under its documented rate, granting it a   *)
(* full bucket to begin with (transport.py:13-16, SCOPE_LIMITS).           *)
PacedToLimit ==
    \A s \in Buckets : InLastWindow(sends[s]) <= 2 * Limits[s]
=============================================================================
