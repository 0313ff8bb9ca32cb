----------------------------- MODULE PolicyStore -----------------------------
(***************************************************************************)
(* What the policy store of the A1 mediator promises, without its SDL      *)
(* calls, handlers and threads (data.py of ric-plt-a1).  A type goes only  *)
(* when it has no instances, an instance is stored only under a type, and  *)
(* the instance a PUT stores replaces only older ones.  An instance goes   *)
(* only because of a DELETE, and a DELETE is settled only when its         *)
(* instance is gone, unless there was a failure.                           *)
(***************************************************************************)
EXTENDS Integers

CONSTANTS
    TypeIds,   \* policy type ids
    InstIds,   \* policy instance ids
    MaxPuts,   \* bound: numbers of PUTs
    NULL

VARIABLES
    types,     \* the policy types
    inst,      \* the number of the PUT stored for each instance, or NULL
    doomed,    \* instances with a DELETE that is not settled
    failed     \* has anything failed?

svars == <<types, inst, doomed, failed>>

Instances == TypeIds \X InstIds

Init ==
    /\ types = {} /\ inst = [k \in Instances |-> NULL]
    /\ doomed = {} /\ failed = FALSE

CreateType(t) ==
    /\ t \notin types
    /\ types' = types \cup {t}
    /\ UNCHANGED <<inst, doomed, failed>>

DeleteType(t) ==
    /\ \A k \in Instances : k[1] = t => inst[k] = NULL
    /\ types' = types \ {t}
    /\ UNCHANGED <<inst, doomed, failed>>

\* The number of a PUT is larger than those of all that are stored.
Put(k, n) ==
    /\ k[1] \in types
    /\ \A j \in Instances : inst[j] # NULL => inst[j] < n
    /\ inst' = [inst EXCEPT ![k] = n]
    /\ UNCHANGED <<types, doomed, failed>>

\* The instance was there when the request came, and may be gone by now.
Delete(k) ==
    /\ doomed' = doomed \cup {k}
    /\ UNCHANGED <<types, inst, failed>>

\* The instance goes; another DELETE of it may still be open.
Remove(k) ==
    /\ k \in doomed
    /\ inst' = [inst EXCEPT ![k] = NULL]
    /\ doomed' \in {doomed, doomed \ {k}}
    /\ UNCHANGED <<types, failed>>

\* A DELETE that finds its instance gone is settled.
Settle(k) ==
    /\ k \in doomed /\ inst[k] = NULL
    /\ doomed' = doomed \ {k}
    /\ UNCHANGED <<types, inst, failed>>

\* A failure may leave DELETEs unsettled for ever, and changes nothing else.
Fail ==
    /\ failed' = TRUE
    /\ doomed' \subseteq doomed
    /\ UNCHANGED <<types, inst>>

Next ==
    \/ \E t \in TypeIds : CreateType(t) \/ DeleteType(t)
    \/ \E k \in Instances : Delete(k) \/ Remove(k) \/ Settle(k)
    \/ \E k \in Instances, n \in 1 .. MaxPuts : Put(k, n)
    \/ Fail

Spec == Init /\ [][Next]_svars
=============================================================================
