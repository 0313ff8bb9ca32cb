------------------------- MODULE KpimonSubscription -------------------------
(***************************************************************************)
(* How the KPI monitor xApp subscribes to the RAN (ric-scp-kpimon/control/ *)
(* control.go): a goroutine sends a RIC subscription request to every RAN  *)
(* on its list, with retries; after each one a watcher goroutine waits for *)
(* the answer or for its timer; the control loop handles the answers.  The *)
(* three share eventCreateExpiredMap, each critical section being a step.  *)
(*                                                                         *)
(* Nothing calls sendRicSubDelRequest, so eventDeleteExpiredMap stays      *)
(* empty and the answers to deletions are dropped, as unknown messages.    *)
(***************************************************************************)
EXTENDS Integers, Sequences, FiniteSets

CONSTANTS
    Rans,         \* RAN names
    RanList,      \* the environment variable ranList, split
    MaxAttempts,  \* MAX_SUBSCRIPTION_ATTEMPTS
    MaxMsgs       \* bound: messages that reach the xApp

\* strings.Split never returns an empty list.
ASSUME KpimonConstants ==
    /\ RanList \in Seq(Rans) /\ RanList # << >>
    /\ MaxAttempts \in Nat \ {0} /\ MaxMsgs \in Nat

VARIABLES
    ranList,   \* RANs still to be subscribed to
    index,     \* the loop variable of sendRicSubRequest
    sender,    \* where the goroutine of startTimerSubReq is
    count,     \* attempts made
    sent,      \* requests handed to RMR, for each RAN
    inbox,     \* messages on their way to the control loop
    nmsgs,     \* messages sent to the xApp so far
    expired,   \* eventCreateExpiredMap
    watch,     \* the watcher goroutine of each request
    nreq,      \* requests that have a watcher
    accepted,  \* RANs whose answer found its entry in the map
    received   \* RANs whose answer was handled, entry or not

sending == <<ranList, index, sender, count, sent>>
messages == <<inbox, nmsgs>>
history == <<accepted, received>>
vars == <<sending, messages, expired, watch, nreq, history>>

Requests == 1 .. Len(RanList)
Answers == {"response", "failure"}
Messages == [type : Answers \cup {"other"}, ran : Rans]

\* The watcher of a request to ran: its goroutine and its timer.
Watcher(ran, pc, timer) == [ran |-> ran, pc |-> pc, timer |-> timer]

Init ==
    /\ ranList = RanList /\ index = 0
    /\ sender = "timer" /\ count = 0
    /\ sent = [r \in Rans |-> 0]
    /\ inbox = << >> /\ nmsgs = 0
    /\ expired = [r \in Rans |-> "none"]
    /\ watch = [k \in Requests |-> Watcher(RanList[k], "none", "none")]
    /\ nreq = 0
    /\ accepted = {} /\ received = {}

-----------------------------------------------------------------------------
\* startTimerSubReq and sendRicSubRequest

startTimerSubReq ==
    /\ sender = "timer"
    /\ count' = count + 1
    /\ index' = 0
    /\ sender' = "loop"
    /\ UNCHANGED <<ranList, sent, messages, expired, watch, nreq, history>>

\* A request is encoded and sent.
rmrSend ==
    LET ran == ranList[index + 1] IN
    /\ sender = "loop" /\ index < Len(ranList)
    /\ sent' = [sent EXCEPT ![ran] = @ + 1]
    /\ sender' = "sent"
    /\ UNCHANGED <<ranList, index, count, messages, expired, watch, nreq, history>>

\* Mutant: the timer is not reset after an error.
subscription_error_no_reset ==
    /\ sender = "loop" /\ index < Len(ranList)
    /\ sender' = "stuck"
    /\ UNCHANGED <<ranList, index, count, sent, messages, expired, watch, nreq, history>>

\* Encoding or sending fails: try again in 5 seconds, unless it was the last time.
subscription_error ==
    /\ sender = "loop" /\ index < Len(ranList)
    /\ sender' = IF count < MaxAttempts THEN "timer" ELSE "done"
    /\ UNCHANGED <<ranList, index, count, sent, messages, expired, watch, nreq, history>>

\* s without its element i: append(s[:i], s[i+1:]...)
RemoveAt(s, i) == [j \in 1 .. Len(s) - 1 |-> IF j < i THEN s[j] ELSE s[j + 1]]

\* Mutant: index-- is forgotten.
setEventCreateExpiredTimer_skips ==
    LET ran == ranList[index + 1] IN
    /\ sender = "sent"
    /\ expired' = [expired EXCEPT ![ran] = "waiting"]
    /\ nreq' = nreq + 1
    /\ watch' = [watch EXCEPT ![nreq + 1] = Watcher(ran, "polling", "running")]
    /\ ranList' = RemoveAt(ranList, index + 1)
    /\ index' = index + 1
    /\ sender' = "loop"
    /\ UNCHANGED <<count, sent, messages, history>>

\* The request sent last is recorded, its watcher and timer started, and its RAN
\* taken off the list; index is decremented here and incremented by the loop.
setEventCreateExpiredTimer ==
    LET ran == ranList[index + 1] IN
    /\ sender = "sent"
    /\ expired' = [expired EXCEPT ![ran] = "waiting"]
    /\ nreq' = nreq + 1
    /\ watch' = [watch EXCEPT ![nreq + 1] = Watcher(ran, "polling", "running")]
    /\ ranList' = RemoveAt(ranList, index + 1)
    /\ sender' = "loop"
    /\ UNCHANGED <<index, count, sent, messages, history>>

all_sent ==
    /\ sender = "loop" /\ index >= Len(ranList)
    /\ sender' = "done"
    /\ UNCHANGED <<ranList, index, count, sent, messages, expired, watch, nreq, history>>

-----------------------------------------------------------------------------
\* The E2 nodes and RMR (external), and controlLoop

\* A node answers a request it may have received, once or more often; other
\* messages (indications, answers to deletions, unknown types) come in too.
message_arrives(m) ==
    /\ nmsgs < MaxMsgs
    /\ m.type \in Answers => sent[m.ran] > 0
    /\ nmsgs' = nmsgs + 1
    /\ inbox' = Append(inbox, m)
    /\ UNCHANGED <<sending, expired, watch, nreq, history>>

\* Mutant: the answer is recorded whether or not the request has an entry.
handleAnswer_unchecked ==
    LET m == Head(inbox) IN
    /\ inbox # << >> /\ m.type \in Answers
    /\ inbox' = Tail(inbox)
    /\ received' = received \cup {m.ran}
    /\ expired' = [expired EXCEPT ![m.ran] = "answered"]
    /\ accepted' = accepted \cup {m.ran}
    /\ UNCHANGED <<sending, nmsgs, watch, nreq>>

\* handleSubscriptionResponse and handleSubscriptionFailure.  A response is decoded
\* after the flag is set, for the log only; that an empty payload makes this end the
\* process (control.go:1147) is left out.
handleAnswer ==
    LET m == Head(inbox) IN
    /\ inbox # << >> /\ m.type \in Answers
    /\ inbox' = Tail(inbox)
    /\ received' = received \cup {m.ran}
    /\ \/ /\ expired[m.ran] = "none"
          /\ UNCHANGED <<expired, accepted>>
       \/ /\ expired[m.ran] # "none"
          /\ expired' = [expired EXCEPT ![m.ran] = "answered"]
          /\ accepted' = accepted \cup {m.ran}
    /\ UNCHANGED <<sending, nmsgs, watch, nreq>>

\* Messages that leave the subscriptions alone.
handleOther ==
    /\ inbox # << >> /\ Head(inbox).type = "other"
    /\ inbox' = Tail(inbox)
    /\ UNCHANGED <<sending, nmsgs, expired, watch, nreq, history>>

-----------------------------------------------------------------------------
\* The goroutine of setEventCreateExpiredTimer.  A turn that finds neither the
\* timer fired nor the flag set changes nothing.

timer_fires(k) ==
    /\ watch[k].pc = "polling" /\ watch[k].timer = "running"
    /\ watch' = [watch EXCEPT ![k] = Watcher(watch[k].ran, "polling", "fired")]
    /\ UNCHANGED <<sending, messages, expired, nreq, history>>

\* Mutant: the entry is deleted before it is read.
watch_timer_deletes_first(k) ==
    /\ watch[k].pc = "polling" /\ watch[k].timer = "fired"
    /\ expired' = [expired EXCEPT ![watch[k].ran] = "none"]
    /\ watch' = [watch EXCEPT ![k] = Watcher(watch[k].ran, "expired", "consumed")]
    /\ UNCHANGED <<sending, messages, nreq, history>>

\* Mutant: the entry stays in the map.
watch_timer_keeps(k) ==
    LET ran == watch[k].ran IN
    /\ watch[k].pc = "polling" /\ watch[k].timer = "fired"
    /\ watch' = [watch EXCEPT ![k] = Watcher(ran,
            IF expired[ran] = "answered" THEN "polling" ELSE "expired", "consumed")]
    /\ UNCHANGED <<sending, messages, expired, nreq, history>>

\* The timer has fired: the entry goes.  Without an answer the watcher reports
\* that the timer expired and ends; with one it goes on polling, for good.
watch_timer(k) ==
    LET ran == watch[k].ran IN
    /\ watch[k].pc = "polling" /\ watch[k].timer = "fired"
    /\ expired' = [expired EXCEPT ![ran] = "none"]
    /\ watch' = [watch EXCEPT ![k] = Watcher(ran,
            IF expired[ran] = "answered" THEN "polling" ELSE "expired", "consumed")]
    /\ UNCHANGED <<sending, messages, nreq, history>>

\* The answer is there: the watcher removes the entry, cancels and ends.
watch_flag(k) ==
    LET ran == watch[k].ran IN
    /\ watch[k].pc = "polling" /\ watch[k].timer # "fired"
    /\ expired[ran] = "answered"
    /\ expired' = [expired EXCEPT ![ran] = "none"]
    /\ watch' = [watch EXCEPT ![k] = Watcher(ran, "canceled", "consumed")]
    /\ UNCHANGED <<sending, messages, nreq, history>>

-----------------------------------------------------------------------------
SenderStep == \/ startTimerSubReq \/ rmrSend \/ subscription_error
              \/ setEventCreateExpiredTimer \/ all_sent
controlLoop == handleAnswer \/ handleOther
WatcherStep(k) == watch_timer(k) \/ watch_flag(k)

Next ==
    \/ SenderStep
    \/ \E m \in Messages : message_arrives(m)
    \/ controlLoop
    \/ \E k \in Requests : timer_fires(k) \/ WatcherStep(k)

Spec == Init /\ [][Next]_vars

\* Goroutines run and timers fire; nodes need not answer.
FairSpec ==
    /\ Spec
    /\ WF_vars(SenderStep) /\ WF_vars(controlLoop)
    /\ \A k \in Requests : WF_vars(timer_fires(k)) /\ WF_vars(WatcherStep(k))

-----------------------------------------------------------------------------
\* Properties

ListOK ==
    /\ nreq \in 0 .. Len(RanList)
    /\ ranList \in Seq(Rans) /\ Len(ranList) = Len(RanList) - nreq
    /\ \A i \in 1 .. Len(ranList) : ranList[i] = RanList[nreq + i]
    /\ index = 0
SenderOK ==
    /\ sender \in {"timer", "loop", "sent", "done"}
    /\ sender = "sent" => Len(ranList) > 0
    /\ count \in 0 .. MaxAttempts
    /\ sender = "timer" => count < MaxAttempts
    /\ sent \in [Rans -> Nat]
MessagesOK ==
    /\ inbox \in Seq(Messages) /\ nmsgs \in 0 .. MaxMsgs
    /\ accepted \subseteq Rans /\ received \subseteq Rans
WatchOK ==
    /\ expired \in [Rans -> {"none", "waiting", "answered"}]
    /\ watch \in [Requests -> [ran : Rans,
                              pc : {"none", "polling", "expired", "canceled"},
                              timer : {"none", "running", "fired", "consumed"}]]
    /\ \A k \in Requests : watch[k].ran = RanList[k]

\* The types of the variables; at most one request per entry of the list is
\* watched, and ranList holds the entries still to be sent, in their order.
TypeOK == ListOK /\ SenderOK /\ MessagesOK /\ WatchOK

\* Is the watcher of request k sure to remove the entry of its RAN?
Armed(k) == watch[k].pc = "polling" /\ watch[k].timer \in {"running", "fired"}

\* Every entry of eventCreateExpiredMap has a watcher whose timer has not been
\* used up: no entry can stay in the map because of a late or repeated answer.
EntriesWatched ==
    \A r \in Rans : expired[r] # "none" =>
        \E k \in Requests : watch[k].ran = r /\ Armed(k)

\* A watcher never reports that the timer expired when the control loop has set
\* the flag of the request, if the list names its RAN only once.
AcceptedNotExpired ==
    \A k \in Requests :
        (/\ watch[k].pc = "expired"
         /\ \A j \in Requests : RanList[j] = RanList[k] => j = k) =>
            RanList[k] \notin accepted

\* Through errors and retries, no RAN is sent more requests than the list has
\* entries for it; unless the last attempt fails, it is sent exactly as many.
EveryRanRequestedOnce ==
    \A r \in Rans :
        LET n == Cardinality({i \in Requests : RanList[i] = r}) IN
        /\ sent[r] <= n
        /\ (sender = "done" /\ count < MaxAttempts) => sent[r] = n

\* An entry does not stay in eventCreateExpiredMap for ever.
EntriesResolved == \A r \in Rans : expired[r] # "none" ~> expired[r] = "none"

\* The sending goroutine comes to an end, whatever fails.
SubscriptionSettles == <>[](sender = "done")

\* eventCreateExpiredMap records whether the creation procedure is expired: a
\* watcher that reports so has not been answered before.
ExpiredMeansUnanswered ==
    [][\A k \in Requests :
        (watch[k].pc # "expired" /\ watch'[k].pc = "expired") =>
            watch[k].ran \notin received]_vars

-----------------------------------------------------------------------------
\* The procedure without its mechanism

Procedure == INSTANCE SubscriptionProcedure WITH
    made <- nreq,
    outcome <- [k \in Requests |-> watch[k].pc],
    entry <- expired

\* The three goroutines together do what the procedure promises: through failing
\* sends, retries, repeated and late answers and timers that fire at any time,
\* every entry of the list is asked for once and in its order, is canceled only
\* because of an answer, and expires only while none is recorded.
ImplementsProcedure == Procedure!Spec
=============================================================================
