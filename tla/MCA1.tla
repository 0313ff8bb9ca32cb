-------------------------------- MODULE MCA1 --------------------------------
(* Model-checking instances of the A1 mediator. *)
EXTENDS A1Mediator, TLC

\* Delete threads are interchangeable, and so are sender threads.
ThreadSymmetry == Permutations(DelThreads) \cup Permutations(Senders)

\* The state after the first PUT and the DELETE of its instance have been carried
\* out and their jobs sent; jobs counts from here on.  The loop is running, or it
\* has died of a query that overlapped the DELETE and A1 is not restarted yet.
AfterDelete ==
    /\ types = TypeIds
    /\ inst = [k \in Keys |-> NULL]
    /\ meta = [k \in Keys |-> NULL]
    /\ hand = [k \in Keys |-> [h \in Handlers |-> NULL]]
    /\ http = HttpIdle
    /\ delt = [d \in DelThreads |-> DelIdle]
    /\ loop \in {LoopAt("top", 0), LoopAt("dead", 0)}
    /\ sndr = [s \in Senders |-> SenderAt("idle", 0)]
    /\ jobs = << >> /\ head = 0 /\ eiput = 0 /\ eigot = 0
    /\ nsent = [j \in JobIds |-> 0]
    /\ puts = 1 /\ faults = 0
    /\ restarted = FALSE /\ dropped = {} /\ undone = {}

LiveSpec == AfterDelete /\ [][Next]_vars /\ Fairness
=============================================================================
