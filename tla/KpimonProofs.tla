---------------------------- MODULE KpimonProofs ----------------------------
(***************************************************************************)
(* What KpimonSubscription guarantees for every list of RANs, any number   *)
(* of attempts and any number of messages.                                 *)
(***************************************************************************)
EXTENDS KpimonSubscription, FiniteSetTheorems, TLAPS

\* The first request is a request, and names of requests are RANs.
LEMMA ListLemma ==
    /\ Len(RanList) \in Nat \ {0}
    /\ \A k \in Requests : RanList[k] \in Rans
BY KpimonConstants DEF Requests

\* The initial state has its types.
LEMMA TypeInit == Init => TypeOK
<1> SUFFICES ASSUME Init PROVE TypeOK
  OBVIOUS
<1>1. ListOK
  BY KpimonConstants, ListLemma DEF Init, ListOK
<1>2. SenderOK
  BY KpimonConstants DEF Init, SenderOK
<1>3. MessagesOK
  BY KpimonConstants DEF Init, MessagesOK
<1>4. WatchOK
  BY ListLemma DEF Init, WatchOK, Watcher
<1> QED
  BY <1>1, <1>2, <1>3, <1>4 DEF TypeOK

\* What a step leaves unchanged keeps its type.
LEMMA KeepLemma ==
    ASSUME TypeOK
    PROVE  /\ UNCHANGED <<ranList, index, nreq>> => ListOK'
           /\ UNCHANGED sending => SenderOK'
           /\ UNCHANGED <<messages, history>> => MessagesOK'
           /\ UNCHANGED <<expired, watch>> => WatchOK'
<1>1. UNCHANGED <<ranList, index, nreq>> => ListOK'
  BY DEF TypeOK, ListOK
<1>2. UNCHANGED sending => SenderOK'
  BY DEF TypeOK, SenderOK, sending
<1>3. UNCHANGED <<messages, history>> => MessagesOK'
  BY DEF TypeOK, MessagesOK, messages, history
<1>4. UNCHANGED <<expired, watch>> => WatchOK'
  BY DEF TypeOK, WatchOK
<1> QED
  BY <1>1, <1>2, <1>3, <1>4

\* A step of the sending goroutine keeps the types; the one that records a
\* request moves exactly one RAN from ranList to the watchers.
LEMMA SenderTypes == TypeOK /\ SenderStep => TypeOK'
<1> SUFFICES ASSUME TypeOK, SenderStep PROVE TypeOK'
  OBVIOUS
<1> USE KpimonConstants
<1>0. MessagesOK'
  BY KeepLemma DEF SenderStep, startTimerSubReq, rmrSend, subscription_error,
     setEventCreateExpiredTimer, all_sent
<1>1. CASE startTimerSubReq
  <2>1. SenderOK'
    BY <1>1 DEF startTimerSubReq, TypeOK, SenderOK
  <2>2. ListOK'
    BY <1>1 DEF startTimerSubReq, TypeOK, ListOK
  <2> QED
    BY <1>0, <1>1, <2>1, <2>2, KeepLemma DEF startTimerSubReq, TypeOK
<1>2. CASE rmrSend
  <2>1. ranList[index + 1] \in Rans /\ Len(ranList) > 0
    BY <1>2 DEF rmrSend, TypeOK, ListOK
  <2>2. SenderOK'
    BY <1>2, <2>1 DEF rmrSend, TypeOK, SenderOK
  <2> QED
    BY <1>0, <1>2, <2>2, KeepLemma DEF rmrSend, TypeOK
<1>3. CASE subscription_error
  <2>1. SenderOK'
    BY <1>3 DEF subscription_error, TypeOK, SenderOK
  <2> QED
    BY <1>0, <1>3, <2>1, KeepLemma DEF subscription_error, TypeOK
<1>4. CASE setEventCreateExpiredTimer
  <2> DEFINE ran == ranList[1]
  <2>1. Len(ranList) \in Nat /\ Len(ranList) >= 1 /\ nreq \in Nat
    BY <1>4 DEF setEventCreateExpiredTimer, TypeOK, ListOK, SenderOK
  <2>2. nreq + 1 \in Requests /\ ran = RanList[nreq + 1] /\ ran \in Rans
    BY <1>4, <2>1, ListLemma DEF setEventCreateExpiredTimer, TypeOK, ListOK, Requests
  <2>3. ranList' = [j \in 1 .. Len(ranList) - 1 |-> ranList[j + 1]]
    BY <1>4, <2>1 DEF setEventCreateExpiredTimer, TypeOK, ListOK, RemoveAt
  <2>4. \A j \in 1 .. Len(ranList) - 1 : ranList[j + 1] \in Rans
    BY <2>1 DEF TypeOK, ListOK
  <2>5. ranList' \in Seq(Rans) /\ Len(ranList') = Len(ranList) - 1
    BY <2>1, <2>3, <2>4
  <2>6. \A i \in 1 .. Len(ranList') : ranList'[i] = RanList[nreq + 1 + i]
    <3> SUFFICES ASSUME NEW i \in 1 .. Len(ranList')
                 PROVE  ranList'[i] = RanList[nreq + 1 + i]
      OBVIOUS
    <3>1. ranList'[i] = ranList[i + 1] /\ i + 1 \in 1 .. Len(ranList)
      BY <2>1, <2>3, <2>5
    <3>2. ranList[i + 1] = RanList[nreq + (i + 1)]
      BY <3>1 DEF TypeOK, ListOK
    <3>3. nreq + (i + 1) = nreq + 1 + i
      BY <2>1
    <3> QED
      BY <3>1, <3>2, <3>3
  <2>7. ListOK'
    <3>1. nreq' = nreq + 1 /\ index' = 0
      BY <1>4 DEF setEventCreateExpiredTimer, TypeOK, ListOK
    <3>2. nreq' \in 0 .. Len(RanList)
      BY <2>1, <2>2, <3>1, ListLemma DEF Requests
    <3>3. Len(ranList') = Len(RanList) - nreq'
      BY <2>1, <2>5, <3>1, ListLemma DEF TypeOK, ListOK
    <3> QED
      BY <2>5, <2>6, <3>1, <3>2, <3>3 DEF ListOK
  <2>8. WatchOK'
    BY <1>4, <2>2 DEF setEventCreateExpiredTimer, TypeOK, ListOK, WatchOK, Watcher
  <2>9. SenderOK'
    BY <1>4 DEF setEventCreateExpiredTimer, TypeOK, SenderOK
  <2> QED
    BY <1>0, <2>7, <2>8, <2>9 DEF TypeOK
<1>5. CASE all_sent
  <2>1. SenderOK'
    BY <1>5 DEF all_sent, TypeOK, SenderOK
  <2> QED
    BY <1>0, <1>5, <2>1, KeepLemma DEF all_sent, TypeOK
<1> QED
  BY <1>1, <1>2, <1>3, <1>4, <1>5 DEF SenderStep

\* A message on its way, and its handling by controlLoop, keep the types.
LEMMA MessageTypes ==
    ASSUME TypeOK, (\E m \in Messages : message_arrives(m)) \/ controlLoop
    PROVE  TypeOK'
<1> USE KpimonConstants
<1>0. ListOK' /\ SenderOK'
  BY KeepLemma DEF message_arrives, controlLoop, handleAnswer, handleOther, sending
<1>1. ASSUME NEW m \in Messages, message_arrives(m) PROVE TypeOK'
  <2>1. MessagesOK'
    BY <1>1 DEF message_arrives, TypeOK, MessagesOK, history
  <2> QED
    BY <1>0, <1>1, <2>1, KeepLemma DEF message_arrives, TypeOK
<1>2. CASE inbox # << >> /\ controlLoop
  <2>1. Head(inbox) \in Messages /\ Tail(inbox) \in Seq(Messages)
    BY <1>2 DEF TypeOK, MessagesOK
  <2>2. Head(inbox).ran \in Rans
    BY <2>1 DEF Messages
  <2>3. MessagesOK'
    BY <1>2, <2>1, <2>2 DEF controlLoop, handleAnswer, handleOther, TypeOK, MessagesOK, history
  <2>4. WatchOK'
    BY <1>2, <2>2 DEF controlLoop, handleAnswer, handleOther, TypeOK, WatchOK
  <2> QED
    BY <1>0, <2>3, <2>4 DEF TypeOK
<1> QED
  BY <1>1, <1>2 DEF controlLoop, handleAnswer, handleOther

\* A watcher, and its timer, keep the types.
LEMMA WatcherTypes ==
    ASSUME TypeOK, NEW k \in Requests, timer_fires(k) \/ WatcherStep(k)
    PROVE  TypeOK'
<1>1. watch[k].ran \in Rans
  BY DEF TypeOK, WatchOK
<1>2. WatchOK'
  BY <1>1 DEF timer_fires, WatcherStep, watch_timer, watch_flag, TypeOK, WatchOK, Watcher
<1>3. ListOK' /\ SenderOK' /\ MessagesOK'
  BY KeepLemma DEF timer_fires, WatcherStep, watch_timer, watch_flag, sending
<1> QED
  BY <1>2, <1>3 DEF TypeOK

\* Every step keeps the types.
LEMMA TypeStep == TypeOK /\ [Next]_vars => TypeOK'
<1> SUFFICES ASSUME TypeOK, [Next]_vars PROVE TypeOK'
  OBVIOUS
<1>1. CASE UNCHANGED vars
  BY <1>1, KeepLemma DEF vars, sending, TypeOK
<1> QED
  BY <1>1, SenderTypes, MessageTypes, WatcherTypes DEF Next

\* Type correctness: whatever fails and whenever answers come, ranList holds
\* exactly the RANs that have no watcher yet, and sendRicSubRequest's index
\* stays at the head of it.
THEOREM TypeCorrect == Spec => []TypeOK
<1> QED
  BY TypeInit, TypeStep, PTL DEF Spec
-----------------------------------------------------------------------------
\* The entries of eventCreateExpiredMap

\* Every step keeps EntriesWatched: an entry appears with its watcher, and the
\* steps that end a watcher, or use up its timer, remove the entry.
LEMMA WatchedStep == TypeOK /\ EntriesWatched /\ [Next]_vars => EntriesWatched'
<1> SUFFICES ASSUME TypeOK, EntriesWatched, [Next]_vars,
                    NEW r \in Rans, expired'[r] # "none"
             PROVE  \E k \in Requests : watch'[k].ran = r /\ Armed(k)'
  BY DEF EntriesWatched
<1>0. WatchOK
  BY DEF TypeOK
<1>1. CASE setEventCreateExpiredTimer
  <2>1. nreq + 1 \in Requests /\ ranList[index + 1] = RanList[nreq + 1]
    BY <1>1, ListLemma DEF setEventCreateExpiredTimer, TypeOK, ListOK, SenderOK, Requests
  <2>2. CASE r = ranList[index + 1]
    BY <1>0, <1>1, <2>1, <2>2 DEF setEventCreateExpiredTimer, WatchOK, Armed, Watcher
  <2>3. CASE r # ranList[index + 1]
    <3>1. PICK k \in Requests : watch[k].ran = r /\ Armed(k)
      BY <1>0, <1>1, <2>3 DEF setEventCreateExpiredTimer, EntriesWatched, WatchOK
    <3>2. k # nreq + 1
      BY <1>0, <2>1, <2>3, <3>1 DEF WatchOK
    <3> QED
      BY <1>0, <1>1, <3>1, <3>2 DEF setEventCreateExpiredTimer, WatchOK, Armed
  <2> QED
    BY <2>2, <2>3
<1>2. CASE expired[r] # "none" /\ UNCHANGED watch
  BY <1>2 DEF EntriesWatched, Armed
<1>3. CASE handleAnswer
  BY <1>0, <1>2, <1>3 DEF handleAnswer, WatchOK
<1>4. ASSUME NEW k \in Requests, timer_fires(k)
      PROVE  \E j \in Requests : watch'[j].ran = r /\ Armed(j)'
  <2>1. PICK j \in Requests : watch[j].ran = r /\ Armed(j)
    BY <1>4 DEF timer_fires, EntriesWatched
  <2>2. watch'[j].ran = r /\ Armed(j)'
    BY <1>0, <1>4, <2>1 DEF timer_fires, WatchOK, Armed, Watcher
  <2> QED
    BY <2>2
<1>5. ASSUME NEW k \in Requests, WatcherStep(k)
      PROVE  \E j \in Requests : watch'[j].ran = r /\ Armed(j)'
  <2>1. r # watch[k].ran /\ expired[r] # "none"
    BY <1>0, <1>5 DEF WatcherStep, watch_timer, watch_flag, WatchOK
  <2>2. PICK j \in Requests : watch[j].ran = r /\ Armed(j)
    BY <2>1 DEF EntriesWatched
  <2>3. watch'[j] = watch[j]
    BY <1>0, <1>5, <2>1, <2>2 DEF WatcherStep, watch_timer, watch_flag, WatchOK
  <2> QED
    BY <2>2, <2>3 DEF Armed
<1> QED
  BY <1>1, <1>2, <1>3, <1>4, <1>5
  DEF Next, SenderStep, startTimerSubReq, rmrSend, subscription_error, all_sent,
      message_arrives, controlLoop, handleOther, vars

\* Every entry of eventCreateExpiredMap has, at all times, a watcher that will
\* remove it (setEventCreateExpiredTimer and the handlers of the answers).
THEOREM EntriesAreWatched == Spec => []EntriesWatched
<1>1. Init => EntriesWatched
  BY DEF Init, EntriesWatched
<1> QED
  BY <1>1, WatchedStep, TypeCorrect, PTL DEF Spec

-----------------------------------------------------------------------------
\* Expired requests

Once(k) == \A j \in Requests : RanList[j] = RanList[k] => j = k

\* What makes AcceptedNotExpired inductive: a request whose answer was accepted
\* has its entry, marked as answered, until its watcher's timer is used up.
AcceptedInv ==
    \A k \in Requests : (Once(k) /\ RanList[k] \in accepted) =>
        /\ watch[k].pc \in {"polling", "canceled"}
        /\ Armed(k) => expired[RanList[k]] = "answered"

\* A request that is not recorded yet has no watcher.
Unrecorded == \A k \in Requests : k > nreq => watch[k].pc = "none"

\* Every step keeps Unrecorded.
LEMMA UnrecordedStep == TypeOK /\ Unrecorded /\ [Next]_vars => Unrecorded'
<1> SUFFICES ASSUME TypeOK, Unrecorded, [Next]_vars, NEW k \in Requests, k > nreq'
             PROVE  watch'[k].pc = "none"
  BY DEF Unrecorded
<1>0. WatchOK /\ nreq \in Nat /\ k \in Nat
  BY ListLemma DEF TypeOK, ListOK, Requests
<1>1. CASE setEventCreateExpiredTimer
  BY <1>0, <1>1 DEF setEventCreateExpiredTimer, WatchOK, Unrecorded
<1>2. CASE UNCHANGED <<watch, nreq>>
  BY <1>2 DEF Unrecorded
<1>3. ASSUME NEW j \in Requests, timer_fires(j) \/ WatcherStep(j)
      PROVE  watch'[k].pc = "none"
  <2>1. nreq' = nreq /\ watch[k].pc = "none" /\ k # j
    BY <1>3 DEF Unrecorded, timer_fires, WatcherStep, watch_timer, watch_flag
  <2> QED
    BY <1>0, <1>3, <2>1 DEF timer_fires, WatcherStep, watch_timer, watch_flag, WatchOK
<1> QED
  BY <1>1, <1>2, <1>3
  DEF Next, SenderStep, startTimerSubReq, rmrSend, subscription_error, all_sent,
      message_arrives, controlLoop, handleAnswer, handleOther, vars

\* Every step keeps AcceptedInv.
LEMMA AcceptedStep ==
    TypeOK /\ EntriesWatched /\ Unrecorded /\ AcceptedInv /\ [Next]_vars => AcceptedInv'
<1> SUFFICES ASSUME TypeOK, EntriesWatched, Unrecorded, AcceptedInv, [Next]_vars,
                    NEW k \in Requests, Once(k), RanList[k] \in accepted'
             PROVE  /\ watch'[k].pc \in {"polling", "canceled"}
                    /\ Armed(k)' => expired'[RanList[k]] = "answered"
  BY DEF AcceptedInv, Once, Requests
<1>0. WatchOK /\ nreq \in Nat /\ RanList[k] \in Rans
  BY ListLemma DEF TypeOK, ListOK
<1>1. CASE setEventCreateExpiredTimer
  <2>1. nreq + 1 \in Requests /\ ranList[index + 1] = RanList[nreq + 1]
    BY <1>1, ListLemma DEF setEventCreateExpiredTimer, TypeOK, ListOK, SenderOK, Requests
  <2>2. watch[nreq + 1].pc = "none"
    BY <1>0, <2>1 DEF Unrecorded
  <2>3. accepted' = accepted
    BY <1>1 DEF setEventCreateExpiredTimer, history
  <2>4. k # nreq + 1
    BY <2>2, <2>3 DEF AcceptedInv
  <2>5. RanList[k] # ranList[index + 1]
    BY <2>1, <2>4 DEF Once
  <2>6. watch'[k] = watch[k] /\ expired'[RanList[k]] = expired[RanList[k]]
    BY <1>0, <1>1, <2>4, <2>5 DEF setEventCreateExpiredTimer, WatchOK
  <2> QED
    BY <2>3, <2>6 DEF AcceptedInv, Armed
<1>2. CASE UNCHANGED <<watch, expired, accepted>>
  BY <1>2 DEF AcceptedInv, Armed
<1>3. CASE handleAnswer
  <2> DEFINE r == Head(inbox).ran
  <2>1. CASE r = RanList[k] /\ expired[r] # "none"
    <3>1. PICK j \in Requests : watch[j].ran = r /\ Armed(j)
      BY <1>0, <2>1 DEF EntriesWatched
    <3>2. j = k
      BY <1>0, <2>1, <3>1 DEF Once, WatchOK
    <3> QED
      BY <1>0, <1>3, <2>1, <3>1, <3>2 DEF handleAnswer, Armed, WatchOK
  <2>2. CASE ~(r = RanList[k] /\ expired[r] # "none")
    <3>1. RanList[k] \in accepted /\ watch' = watch
      BY <1>3, <2>2 DEF handleAnswer
    <3>2. expired'[RanList[k]] = expired[RanList[k]]
      BY <1>0, <1>3, <2>2 DEF handleAnswer, WatchOK
    <3> QED
      BY <3>1, <3>2 DEF AcceptedInv, Armed
  <2> QED
    BY <2>1, <2>2
<1>4. ASSUME NEW j \in Requests, timer_fires(j)
      PROVE  /\ watch'[k].pc \in {"polling", "canceled"}
             /\ Armed(k)' => expired'[RanList[k]] = "answered"
  BY <1>0, <1>4 DEF timer_fires, history, AcceptedInv, Armed, WatchOK, Watcher
<1>5. ASSUME NEW j \in Requests, WatcherStep(j)
      PROVE  /\ watch'[k].pc \in {"polling", "canceled"}
             /\ Armed(k)' => expired'[RanList[k]] = "answered"
  <2>1. accepted' = accepted
    BY <1>5 DEF WatcherStep, watch_timer, watch_flag, history
  <2>2. CASE j = k
    <3>1. watch'[k].timer = "consumed"
      BY <1>0, <1>5, <2>2 DEF WatcherStep, watch_timer, watch_flag, WatchOK, Watcher
    <3>2. watch'[k].pc \in {"polling", "canceled"}
      BY <1>0, <1>5, <2>1, <2>2
      DEF WatcherStep, watch_timer, watch_flag, AcceptedInv, Armed, WatchOK, Watcher
    <3> QED
      BY <3>1, <3>2 DEF Armed
  <2>3. CASE j # k
    <3>1. RanList[k] # watch[j].ran
      BY <1>0, <2>3 DEF Once, WatchOK
    <3>2. watch'[k] = watch[k] /\ expired'[RanList[k]] = expired[RanList[k]]
      BY <1>0, <1>5, <2>3, <3>1 DEF WatcherStep, watch_timer, watch_flag, WatchOK
    <3> QED
      BY <2>1, <3>2 DEF AcceptedInv, Armed
  <2> QED
    BY <2>2, <2>3
<1> QED
  BY <1>1, <1>2, <1>3, <1>4, <1>5
  DEF Next, SenderStep, startTimerSubReq, rmrSend, subscription_error, all_sent,
      message_arrives, controlLoop, handleOther, vars, history

\* However answers and timers race, a watcher does not report an expired timer
\* for a request whose flag handleSubscriptionResponse or -Failure has set.
THEOREM AcceptedNeverExpires == Spec => []AcceptedNotExpired
<1>1. Init => Unrecorded /\ AcceptedInv
  BY DEF Init, Unrecorded, AcceptedInv, Watcher
<1>2. AcceptedInv => AcceptedNotExpired
  BY DEF AcceptedInv, AcceptedNotExpired, Once
<1> QED
  BY <1>1, <1>2, UnrecordedStep, AcceptedStep, TypeCorrect, EntriesAreWatched, PTL DEF Spec

-----------------------------------------------------------------------------
\* The procedure the goroutines implement

\* What the abstract procedure says of the requests, for the list of RANs.
Outcome == [k \in Requests |-> watch[k].pc]

\* Recording a request is the next request of the procedure: the first element
\* of the shortened ranList is the entry of the list that comes next.
LEMMA RequestRefines ==
    ASSUME TypeOK, setEventCreateExpiredTimer
    PROVE  \E k \in Requests : Procedure!Request(k)
<1>1. Len(ranList) \in Nat /\ Len(ranList) >= 1 /\ nreq \in Nat /\ index = 0
  BY DEF setEventCreateExpiredTimer, TypeOK, ListOK, SenderOK
<1>2. nreq + 1 \in Requests /\ ranList[index + 1] = RanList[nreq + 1]
  BY <1>1, ListLemma DEF TypeOK, ListOK, Requests
<1>3. Outcome' = [Outcome EXCEPT ![nreq + 1] = "polling"]
  BY <1>2 DEF setEventCreateExpiredTimer, TypeOK, WatchOK, Watcher, Outcome
<1>4. nreq' = nreq + 1 /\ expired' = [expired EXCEPT ![RanList[nreq + 1]] = "waiting"]
  BY <1>2 DEF setEventCreateExpiredTimer
<1> QED
  BY <1>2, <1>3, <1>4 DEF Procedure!Request, Outcome

\* Handling an answer is an answer of the procedure, or nothing to it.
LEMMA AnswerRefines ==
    ASSUME TypeOK, handleAnswer
    PROVE  (\E r \in Rans : Procedure!Answer(r)) \/ UNCHANGED Procedure!avars
<1> DEFINE r == Head(inbox).ran
<1>0. Head(inbox) \in Messages
  BY DEF handleAnswer, TypeOK, MessagesOK
<1>1. r \in Rans
  BY <1>0 DEF Messages
<1>2. UNCHANGED <<nreq, watch>>
  BY DEF handleAnswer
<1>3. CASE expired[r] = "none"
  BY <1>2, <1>3 DEF handleAnswer, Procedure!avars
<1>4. CASE expired[r] # "none"
  BY <1>1, <1>2, <1>4 DEF handleAnswer, Procedure!Answer
<1> QED
  BY <1>3, <1>4

\* A watcher that removes its entry resolves its request; that a timer fires is
\* nothing to the procedure.
LEMMA WatcherRefines ==
    ASSUME TypeOK, NEW k \in Requests, timer_fires(k) \/ WatcherStep(k)
    PROVE  \/ \E result \in {"canceled", "expired", "polling"} : Procedure!Resolve(k, result)
           \/ UNCHANGED Procedure!avars
<1> DEFINE r == watch[k].ran
<1>0. r = RanList[k] /\ UNCHANGED nreq
  BY DEF TypeOK, WatchOK, timer_fires, WatcherStep, watch_timer, watch_flag
<1>a. \A result : Outcome' = [Outcome EXCEPT ![k] = result] /\ expired' = [expired EXCEPT ![r] = "none"]
          /\ watch[k].pc = "polling"
          /\ (\/ result = "canceled" /\ expired[r] = "answered"
              \/ result = "expired" /\ expired[r] # "answered"
              \/ result = "polling" /\ expired[r] = "answered")
          => Procedure!Resolve(k, result)
  BY <1>0 DEF Procedure!Resolve, Outcome
<1>1. CASE timer_fires(k)
  <2>1. Outcome' = Outcome /\ UNCHANGED expired
    BY <1>1 DEF timer_fires, TypeOK, WatchOK, Watcher, Outcome
  <2> QED
    BY <1>0, <2>1 DEF Procedure!avars, Outcome
<1>2. CASE watch_timer(k)
  <2>1. CASE expired[r] = "answered"
    <3>1. Outcome' = [Outcome EXCEPT ![k] = "polling"]
      BY <1>2, <2>1 DEF watch_timer, TypeOK, WatchOK, Watcher, Outcome
    <3>2. Procedure!Resolve(k, "polling")
      BY <1>2, <1>a, <2>1, <3>1 DEF watch_timer
    <3> QED
      BY <3>2
  <2>2. CASE expired[r] # "answered"
    <3>1. Outcome' = [Outcome EXCEPT ![k] = "expired"]
      BY <1>2, <2>2 DEF watch_timer, TypeOK, WatchOK, Watcher, Outcome
    <3>2. Procedure!Resolve(k, "expired")
      BY <1>2, <1>a, <2>2, <3>1 DEF watch_timer
    <3> QED
      BY <3>2
  <2> QED
    BY <2>1, <2>2
<1>3. CASE watch_flag(k)
  <2>1. Outcome' = [Outcome EXCEPT ![k] = "canceled"]
    BY <1>3 DEF watch_flag, TypeOK, WatchOK, Watcher, Outcome
  <2>2. Procedure!Resolve(k, "canceled")
    BY <1>3, <1>a, <2>1 DEF watch_flag
  <2> QED
    BY <2>2
<1> QED
  BY <1>1, <1>2, <1>3 DEF WatcherStep

\* Every step of the goroutines is a step of the procedure, or nothing to it.
LEMMA StepRefines == TypeOK /\ [Next]_vars => [Procedure!Next]_(Procedure!avars)
<1> SUFFICES ASSUME TypeOK, [Next]_vars PROVE [Procedure!Next]_(Procedure!avars)
  OBVIOUS
<1>0. Procedure!Wanted = Requests
  BY DEF Procedure!Wanted, Requests
<1>1. ASSUME UNCHANGED <<nreq, watch, expired>> PROVE UNCHANGED Procedure!avars
  BY <1>1 DEF Procedure!avars
<1>2. CASE SenderStep
  <2>1. CASE setEventCreateExpiredTimer
    BY <1>0, <2>1, RequestRefines DEF Procedure!Next
  <2>2. CASE ~setEventCreateExpiredTimer
    BY <1>1, <1>2, <2>2 DEF SenderStep, startTimerSubReq, rmrSend, subscription_error, all_sent
  <2> QED
    BY <2>1, <2>2
<1>3. CASE \E m \in Messages : message_arrives(m)
  BY <1>1, <1>3 DEF message_arrives
<1>4. CASE controlLoop
  <2>1. CASE handleAnswer
    BY <2>1, AnswerRefines DEF Procedure!Next
  <2>2. CASE handleOther
    BY <1>1, <2>2 DEF handleOther
  <2> QED
    BY <1>4, <2>1, <2>2 DEF controlLoop
<1>5. CASE \E k \in Requests : timer_fires(k) \/ WatcherStep(k)
  BY <1>0, <1>5, WatcherRefines DEF Procedure!Next
<1>6. CASE UNCHANGED vars
  BY <1>1, <1>6 DEF vars
<1> QED
  BY <1>2, <1>3, <1>4, <1>5, <1>6 DEF Next

\* For every list of RANs, the goroutines implement the procedure: every entry
\* is asked for once and in its order, canceled only because of an answer, and
\* expired only without one.
THEOREM Implements == Spec => ImplementsProcedure
<1>1. Init => Procedure!Init
  BY DEF Init, Procedure!Init, Procedure!Wanted, Requests, Watcher
<1> QED
  BY <1>1, StepRefines, TypeCorrect, PTL DEF Spec, Procedure!Spec, ImplementsProcedure

-----------------------------------------------------------------------------
\* Requests sent and entries of the list

\* The entries for a RAN among the first n of the list.
Named(r, n) == {i \in 1 .. n : RanList[i] = r}

\* Is the request that was sent, and is not recorded yet, one to r?
SentLast(r) == IF sender = "sent" /\ RanList[nreq + 1] = r THEN 1 ELSE 0

\* Why no RAN is asked too often: the requests sent to it are those recorded,
\* and at most one more.  Why none is forgotten: without an error in the last
\* attempt, the goroutine ends with its list empty.
SentExactly == \A r \in Rans : sent[r] = Cardinality(Named(r, nreq)) + SentLast(r)
DoneExactly == sender = "done" /\ count < MaxAttempts => nreq = Len(RanList)

\* One more entry of the list: one more for its RAN.
LEMMA NamedLemma ==
    ASSUME NEW r \in Rans, NEW n \in Nat
    PROVE  /\ IsFiniteSet(Named(r, n)) /\ Cardinality(Named(r, n)) \in Nat
           /\ RanList[n + 1] = r =>
                  Cardinality(Named(r, n + 1)) = Cardinality(Named(r, n)) + 1
           /\ RanList[n + 1] # r => Named(r, n + 1) = Named(r, n)
<1>1. IsFiniteSet(1 .. n)
  BY FS_Interval
<1>2. IsFiniteSet(Named(r, n))
  BY <1>1, FS_Subset DEF Named
<1>3. Cardinality(Named(r, n)) \in Nat
  BY <1>2, FS_CardinalityType
<1>4. 1 .. n + 1 = (1 .. n) \cup {n + 1} /\ n + 1 \notin 1 .. n
  OBVIOUS
<1>5. ASSUME RanList[n + 1] = r
      PROVE  Cardinality(Named(r, n + 1)) = Cardinality(Named(r, n)) + 1
  <2>1. Named(r, n + 1) = Named(r, n) \cup {n + 1}
    BY <1>4, <1>5 DEF Named
  <2>2. n + 1 \notin Named(r, n)
    BY <1>4 DEF Named
  <2> QED
    BY <1>2, <2>1, <2>2, FS_AddElement
<1>6. ASSUME RanList[n + 1] # r PROVE Named(r, n + 1) = Named(r, n)
  BY <1>4, <1>6 DEF Named
<1> QED
  BY <1>2, <1>3, <1>5, <1>6

\* Only the sending goroutine touches what the two conjuncts are about.
LEMMA SentStep ==
    TypeOK /\ SentExactly /\ DoneExactly /\ [Next]_vars => SentExactly' /\ DoneExactly'
<1> SUFFICES ASSUME TypeOK, SentExactly, DoneExactly, [Next]_vars
             PROVE  SentExactly' /\ DoneExactly'
  OBVIOUS
<1>0. nreq \in Nat /\ index = 0 /\ sent \in [Rans -> Nat]
      /\ count \in Nat /\ MaxAttempts \in Nat /\ Len(ranList) = Len(RanList) - nreq
      /\ Len(ranList) \in Nat /\ Len(RanList) \in Nat
  BY KpimonConstants DEF TypeOK, ListOK, SenderOK
<1>1. ASSUME UNCHANGED <<sending, nreq>> PROVE SentExactly' /\ DoneExactly'
  BY <1>1 DEF sending, SentExactly, DoneExactly, SentLast, Named
<1>2. CASE startTimerSubReq
  BY <1>2 DEF startTimerSubReq, SentExactly, DoneExactly, SentLast, Named
<1>3. CASE rmrSend
  <2> DEFINE ran == RanList[nreq + 1]
  <2>0. ranList[index + 1] = ran /\ ran \in Rans
    <3>1. Len(ranList) >= 1
      BY <1>0, <1>3 DEF rmrSend
    <3>2. ranList[1] = ran /\ nreq + 1 \in Requests
      BY <1>0, <3>1 DEF TypeOK, ListOK, Requests
    <3> QED
      BY <1>0, <3>2, ListLemma
  <2>1. sent' = [sent EXCEPT ![ran] = sent[ran] + 1] /\ ran \in Rans
    BY <1>3, <2>0 DEF rmrSend
  <2>2. sender = "loop" /\ sender' = "sent" /\ nreq' = nreq
    BY <1>3 DEF rmrSend
  <2>3. ASSUME NEW r \in Rans
        PROVE  sent'[r] = Cardinality(Named(r, nreq)) + IF ran = r THEN 1 ELSE 0
    <3>1. sent[r] = Cardinality(Named(r, nreq)) + 0
      BY <2>2 DEF SentExactly, SentLast
    <3>2. Cardinality(Named(r, nreq)) \in Nat
      BY <1>0, NamedLemma
    <3> QED
      BY <1>0, <2>1, <3>1, <3>2
  <2>4. SentExactly'
    BY <2>2, <2>3 DEF SentExactly, SentLast, Named
  <2> QED
    BY <2>2, <2>4 DEF DoneExactly
<1>4. CASE subscription_error
  <2>1. SentExactly'
    BY <1>4 DEF subscription_error, SentExactly, SentLast, Named
  <2>2. DoneExactly'
    BY <1>0, <1>4 DEF subscription_error, DoneExactly
  <2> QED
    BY <2>1, <2>2
<1>5. CASE setEventCreateExpiredTimer
  <2> DEFINE ran == RanList[nreq + 1]
  <2>1. sender = "sent" /\ sender' = "loop" /\ nreq' = nreq + 1 /\ sent' = sent
    BY <1>5 DEF setEventCreateExpiredTimer
  <2>2. ASSUME NEW r \in Rans PROVE sent[r] = Cardinality(Named(r, nreq + 1)) + 0
    <3>1. sent[r] = Cardinality(Named(r, nreq)) + IF ran = r THEN 1 ELSE 0
      BY <2>1 DEF SentExactly, SentLast
    <3>0. Cardinality(Named(r, nreq)) \in Nat
      BY <1>0, NamedLemma
    <3>2. CASE ran = r
      <4>1. Cardinality(Named(r, nreq + 1)) = Cardinality(Named(r, nreq)) + 1
        BY <1>0, <3>2, NamedLemma
      <4> QED
        BY <3>0, <3>1, <3>2, <4>1
    <3>3. CASE ran # r
      <4>1. Named(r, nreq + 1) = Named(r, nreq)
        BY <1>0, <3>3, NamedLemma
      <4> QED
        BY <3>0, <3>1, <3>3, <4>1
    <3> QED
      BY <3>2, <3>3
  <2>3. SentExactly'
    BY <2>1, <2>2 DEF SentExactly, SentLast, Named
  <2> QED
    BY <2>1, <2>3 DEF DoneExactly
<1>6. CASE all_sent
  <2>1. SentExactly'
    BY <1>6 DEF all_sent, SentExactly, SentLast, Named
  <2>2. DoneExactly'
    BY <1>0, <1>6 DEF all_sent, DoneExactly
  <2> QED
    BY <2>1, <2>2
<1>7. CASE (\E m \in Messages : message_arrives(m)) \/ controlLoop
  BY <1>1, <1>7 DEF message_arrives, controlLoop, handleAnswer, handleOther
<1>8. CASE \E k \in Requests : timer_fires(k) \/ WatcherStep(k)
  BY <1>1, <1>8 DEF timer_fires, WatcherStep, watch_timer, watch_flag
<1>9. CASE UNCHANGED vars
  BY <1>1, <1>9 DEF vars
<1> QED
  BY <1>2, <1>3, <1>4, <1>5, <1>6, <1>7, <1>8, <1>9 DEF Next, SenderStep

\* The entries recorded are among those of the list, and the one sent last too.
LEMMA SentBounds == TypeOK /\ SentExactly /\ DoneExactly => EveryRanRequestedOnce
<1> SUFFICES ASSUME TypeOK, SentExactly, DoneExactly, NEW r \in Rans
             PROVE  LET n == Cardinality(Named(r, Len(RanList))) IN
                    /\ sent[r] <= n
                    /\ (sender = "done" /\ count < MaxAttempts) => sent[r] = n
  BY DEF EveryRanRequestedOnce, Named, Requests
<1> DEFINE n == Cardinality(Named(r, Len(RanList)))
<1>0. nreq \in Nat /\ nreq <= Len(RanList) /\ Len(RanList) \in Nat
      /\ (sender = "sent" => nreq + 1 <= Len(RanList))
  BY KpimonConstants DEF TypeOK, ListOK, SenderOK
<1>1. \A j \in Nat : j <= Len(RanList) => Cardinality(Named(r, j)) <= n
  <2> SUFFICES ASSUME NEW j \in Nat, j <= Len(RanList)
               PROVE  Cardinality(Named(r, j)) <= n
    OBVIOUS
  <2>1. Named(r, j) \subseteq Named(r, Len(RanList))
    BY <1>0 DEF Named
  <2> QED
    BY <1>0, <2>1, NamedLemma, FS_Subset
<1>2. n \in Nat /\ Cardinality(Named(r, nreq)) \in Nat
  BY <1>0, NamedLemma
<1>3. sent[r] <= n
  <2>1. CASE sender = "sent" /\ RanList[nreq + 1] = r
    <3>1. sent[r] = Cardinality(Named(r, nreq)) + 1
      BY <2>1 DEF SentExactly, SentLast
    <3>2. Cardinality(Named(r, nreq + 1)) = Cardinality(Named(r, nreq)) + 1
      BY <1>0, <2>1, NamedLemma
    <3>3. Cardinality(Named(r, nreq + 1)) <= n
      BY <1>0, <1>1, <2>1
    <3> QED
      BY <3>1, <3>2, <3>3
  <2>2. CASE ~(sender = "sent" /\ RanList[nreq + 1] = r)
    <3>1. sent[r] = Cardinality(Named(r, nreq)) + 0
      BY <2>2 DEF SentExactly, SentLast
    <3> QED
      BY <1>0, <1>1, <1>2, <3>1
  <2> QED
    BY <2>1, <2>2
<1>4. ASSUME sender = "done", count < MaxAttempts PROVE sent[r] = n
  <2>1. nreq = Len(RanList)
    BY <1>4 DEF DoneExactly
  <2>2. sent[r] = Cardinality(Named(r, nreq)) + 0
    BY <1>4 DEF SentExactly, SentLast
  <2> QED
    BY <1>2, <2>1, <2>2
<1> QED
  BY <1>3, <1>4

\* For every list of RANs and any number of attempts, no RAN is sent more
\* requests than the list has entries for it, and unless the last attempt fails
\* it is sent exactly as many.
THEOREM RequestedOnce == Spec => []EveryRanRequestedOnce
<1>1. Init => SentExactly /\ DoneExactly
  <2> SUFFICES ASSUME Init PROVE SentExactly /\ DoneExactly
    OBVIOUS
  <2>1. \A r \in Rans : Named(r, 0) = {}
    BY DEF Named
  <2>2. Cardinality({}) = 0
    BY FS_EmptySet
  <2>3. nreq = 0 /\ sender = "timer" /\ sent = [r \in Rans |-> 0]
    BY DEF Init
  <2>4. ASSUME NEW r \in Rans PROVE sent[r] = Cardinality(Named(r, nreq)) + SentLast(r)
    <3>1. Cardinality(Named(r, nreq)) = 0 /\ SentLast(r) = 0 /\ sent[r] = 0
      BY <2>1, <2>2, <2>3 DEF SentLast
    <3> QED
      BY <3>1
  <2> QED
    BY <2>3, <2>4 DEF SentExactly, DoneExactly
<1> QED
  BY <1>1, SentStep, SentBounds, TypeCorrect, PTL DEF Spec
=============================================================================
