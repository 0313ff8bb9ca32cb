----------------------- MODULE SubscriptionProcedure -----------------------
(***************************************************************************)
(* What the subscription procedure of the KPI monitor promises, without    *)
(* its retries, its messages, its timers and the way it works off its list *)
(* (control.go of ric-scp-kpimon).  The RANs on the list are asked one     *)
(* after the other, each entry of the list once.  A request stays open     *)
(* until it is canceled, because its RAN has answered, or expires, which   *)
(* it may only do while no answer is recorded.                             *)
(***************************************************************************)
EXTENDS Integers, Sequences

CONSTANTS
    Rans,      \* RAN names
    RanList    \* the RANs to be asked

VARIABLES
    made,      \* requests made so far
    outcome,   \* what has become of each request
    entry      \* what is recorded for each RAN

avars == <<made, outcome, entry>>

Wanted == 1 .. Len(RanList)

Init ==
    /\ made = 0
    /\ outcome = [k \in Wanted |-> "none"]
    /\ entry = [r \in Rans |-> "none"]

\* The next request; an answer to an earlier one to this RAN is forgotten.
Request(k) ==
    /\ k = made + 1
    /\ made' = k
    /\ outcome' = [outcome EXCEPT ![k] = "polling"]
    /\ entry' = [entry EXCEPT ![RanList[k]] = "waiting"]

\* An answer counts if a request is recorded.
Answer(r) ==
    /\ entry[r] # "none"
    /\ entry' = [entry EXCEPT ![r] = "answered"]
    /\ UNCHANGED <<made, outcome>>

\* Canceled if and only if an answer is recorded; an answer that the timer finds
\* leaves the request open.
Resolve(k, result) ==
    LET r == RanList[k] IN
    /\ outcome[k] = "polling"
    /\ \/ result = "canceled" /\ entry[r] = "answered"
       \/ result = "expired" /\ entry[r] # "answered"
       \/ result = "polling" /\ entry[r] = "answered"
    /\ outcome' = [outcome EXCEPT ![k] = result]
    /\ entry' = [entry EXCEPT ![r] = "none"]
    /\ UNCHANGED made

Next ==
    \/ \E k \in Wanted : Request(k)
    \/ \E r \in Rans : Answer(r)
    \/ \E k \in Wanted, result \in {"canceled", "expired", "polling"} : Resolve(k, result)

Spec == Init /\ [][Next]_avars
=============================================================================
