-------------------------- MODULE E2TermStartProofs --------------------------
(***************************************************************************)
(* What E2TermStart guarantees for any number of listeners and any number  *)
(* of writes of the configuration file.                                    *)
(***************************************************************************)
EXTENDS E2TermStart, TLAPS

\* There are no more events than there were writes; a listener that handles an
\* event has it in its buffer, and one that applies a version has read it.
Pending == inotify.writes <= file.version
Handling ==
    \A l \in Listeners :
        /\ lpc[l] \in {"exists", "size", "open", "apply"} => evs[l] > 0
        /\ lpc[l] = "apply" => conf[l] # NULL

Inv == TypeOK /\ Pending /\ Handling

\* What a step leaves unchanged keeps its part of Inv.
LEMMA KeepLemma ==
    ASSUME Inv
    PROVE  /\ UNCHANGED <<main, rmr>> => HandshakeOK'
           /\ UNCHANGED listening => ListenersOK' /\ Handling'
           /\ UNCHANGED config => ConfigOK' /\ Pending'
<1>1. UNCHANGED <<main, rmr>> => HandshakeOK'
  BY DEF Inv, TypeOK, HandshakeOK, rmr
<1>2. UNCHANGED listening => ListenersOK' /\ Handling'
  BY DEF Inv, TypeOK, ListenersOK, Handling, listening
<1>3. UNCHANGED config => ConfigOK' /\ Pending'
  BY DEF Inv, TypeOK, ConfigOK, Pending, config
<1> QED
  BY <1>1, <1>2, <1>3

\* The initial state.
LEMMA InvInit == Init => Inv
<1> SUFFICES ASSUME Init PROVE Inv
  OBVIOUS
<1> USE E2TermStartConstants
<1>1. HandshakeOK
  <2>1. rmrq = << >> /\ rmrq \in Seq({"keep_alive", "other"}) /\ DOMAIN rmrq = {}
    BY DEF Init
  <2>2. main = "config" /\ known = FALSE /\ heard = FALSE
    BY DEF Init
  <2> QED
    BY <2>1, <2>2, Zenon DEF HandshakeOK
<1>2. ListenersOK /\ Handling
  BY DEF Init, Idle, ListenersOK, Handling, Versions
<1>3. ConfigOK /\ Pending
  BY DEF Init, ConfigOK, Pending, NoEvents, Versions
<1> QED
  BY <1>1, <1>2, <1>3 DEF Inv, TypeOK

\* A step of main.  It leaves the poll for the join if a message was counted.
LEMMA MainInv == Inv /\ Main => Inv'
<1> SUFFICES ASSUME Inv, Main PROVE Inv'
  OBVIOUS
<1>1. CASE buildConfiguration
  <2>1. HandshakeOK'
    BY <1>1 DEF buildConfiguration, Inv, TypeOK, HandshakeOK, rmr
  <2>2. ListenersOK' /\ Handling'
    BY <1>1, KeepLemma DEF buildConfiguration
  <2>3. ConfigOK' /\ Pending'
    BY <1>1 DEF buildConfiguration, Inv, TypeOK, ConfigOK, Pending
  <2> QED
    BY <2>1, <2>2, <2>3 DEF Inv, TypeOK
<1>2. CASE getRmrContext \/ buildInotify \/ buildListeningPort \/ handleTermInit
  <2>1. HandshakeOK'
    BY <1>2 DEF getRmrContext, buildInotify, buildListeningPort, handleTermInit,
       Inv, TypeOK, HandshakeOK, rmr
  <2>2. ListenersOK' /\ Handling' /\ ConfigOK' /\ Pending'
    BY <1>2, KeepLemma DEF getRmrContext, buildInotify, buildListeningPort, handleTermInit
  <2> QED
    BY <2>1, <2>2 DEF Inv, TypeOK
<1>3. CASE start_listeners
  <2>1. HandshakeOK'
    BY <1>3 DEF start_listeners, Inv, TypeOK, HandshakeOK, rmr
  <2>2. ListenersOK' /\ Handling'
    BY <1>3 DEF start_listeners, Inv, TypeOK, ListenersOK, Handling
  <2>3. ConfigOK' /\ Pending'
    BY <1>3, KeepLemma DEF start_listeners
  <2> QED
    BY <2>1, <2>2, <2>3 DEF Inv, TypeOK
<1>4. ASSUME NEW d \in BOOLEAN, sendTermInit(d) PROVE Inv'
  <2>1. HandshakeOK'
    BY <1>4 DEF sendTermInit, Inv, TypeOK, HandshakeOK
  <2>2. ListenersOK' /\ Handling' /\ ConfigOK' /\ Pending'
    BY <1>4, KeepLemma DEF sendTermInit
  <2> QED
    BY <2>1, <2>2 DEF Inv, TypeOK
<1> QED
  BY <1>1, <1>2, <1>3, <1>4 DEF Main

\* What a message appended to the queue does to the handshake.
LEMMA AppendInv ==
    ASSUME Inv, NEW m \in {"keep_alive", "other"},
           rmrq' = Append(rmrq, m), UNCHANGED <<main, known, heard, listening, config>>
    PROVE  Inv'
<1>1. rmrq \in Seq({"keep_alive", "other"})
  BY DEF Inv, TypeOK, HandshakeOK
<1>2. HandshakeOK'
  BY <1>1 DEF Inv, TypeOK, HandshakeOK
<1> QED
  BY <1>2, KeepLemma DEF Inv, TypeOK

\* A step of the E2 manager, the probe, the operator or Kubernetes.
LEMMA OutsideInv == Inv /\ (keep_alive \/ other_message \/ Operator \/ restart) => Inv'
<1> SUFFICES ASSUME Inv, keep_alive \/ other_message \/ Operator \/ restart PROVE Inv'
  OBVIOUS
<1> USE E2TermStartConstants
<1>1. CASE keep_alive
  BY <1>1, AppendInv DEF keep_alive
<1>2. CASE other_message
  BY <1>2, AppendInv DEF other_message
<1>3. ASSUME NEW state \in {"usable", "broken"}, write_file(state) PROVE Inv'
  <2>1. /\ file.version \in 0 .. MaxWrites /\ file.version < MaxWrites
        /\ inotify.writes \in 0 .. MaxWrites /\ inotify.others \in BOOLEAN
        /\ inotify \in [writes : 0 .. MaxWrites, others : BOOLEAN]
        /\ inotify.writes <= file.version
    BY <1>3 DEF write_file, Inv, TypeOK, ConfigOK, Pending, Versions
  <2>2. file' = [version |-> file.version + 1, state |-> state]
    BY <1>3 DEF write_file
  <2>3. \/ inotify' = inotify
        \/ inotify' = [inotify EXCEPT !.writes = inotify.writes + 1]
    BY <1>3 DEF write_file
  <2>4. /\ inotify'.writes \in 0 .. MaxWrites /\ inotify'.writes <= file.version + 1
        /\ inotify' \in [writes : 0 .. MaxWrites, others : BOOLEAN]
    BY <2>1, <2>3
  <2>5. owed' \in Versions \cup {NULL} /\ applied' = applied
    BY <1>3, <2>1 DEF write_file, Versions
  <2>6. ConfigOK' /\ Pending'
    BY <2>1, <2>2, <2>4, <2>5 DEF Inv, TypeOK, ConfigOK, Pending, Versions
  <2> QED
    BY <1>3, <2>6, KeepLemma DEF write_file, Inv, TypeOK
<1>4. CASE remove_file
  <2>1. ConfigOK' /\ Pending'
    BY <1>4 DEF remove_file, Inv, TypeOK, ConfigOK, Pending
  <2> QED
    BY <1>4, <2>1, KeepLemma DEF remove_file, Inv, TypeOK
<1>5. CASE restart
  <2>1. HandshakeOK'
    <3>1. rmrq' = << >> /\ rmrq' \in Seq({"keep_alive", "other"}) /\ DOMAIN rmrq' = {}
      BY <1>5 DEF restart
    <3>2. main' = "config" /\ known' = known /\ heard' = FALSE /\ known \in BOOLEAN
      BY <1>5, Zenon DEF restart, Inv, TypeOK, HandshakeOK
    <3> QED
      BY <3>1, <3>2, Zenon DEF HandshakeOK
  <2>2. ListenersOK' /\ Handling'
    BY <1>5 DEF restart, ListenersOK, Handling, Versions
  <2>3. ConfigOK' /\ Pending'
    BY <1>5 DEF restart, Inv, TypeOK, ConfigOK, Pending, NoEvents, Versions
  <2> QED
    BY <2>1, <2>2, <2>3 DEF Inv, TypeOK
<1> QED
  BY <1>1, <1>2, <1>3, <1>4, <1>5 DEF Operator

\* Going on at a place where no event is being handled keeps Handling.
LEMMA GotoLemma ==
    ASSUME Inv, NEW l \in Listeners,
           NEW p \in {"wait", "events", "rmr", "inotify"}, Goto(l, p),
           evs' \in [Listeners -> 0 .. MaxWrites],
           \A k \in Listeners \ {l} : evs'[k] = evs[k],
           UNCHANGED <<batch, conf>>
    PROVE  ListenersOK' /\ Handling'
<1>1. lpc'[l] = p /\ \A k \in Listeners \ {l} : lpc'[k] = lpc[k]
  BY DEF Goto, Inv, TypeOK, ListenersOK
<1>2. ListenersOK'
  BY DEF Goto, Inv, TypeOK, ListenersOK
<1>3. Handling'
  BY <1>1 DEF Inv, Handling
<1> QED
  BY <1>2, <1>3

\* A step of a listener.
LEMMA ListenerInv == \A l \in Listeners : Inv /\ Listener(l) => Inv'
<1> SUFFICES ASSUME NEW l \in Listeners, Inv, Listener(l) PROVE Inv'
  OBVIOUS
<1> USE E2TermStartConstants
<1>0. /\ lpc \in [Listeners -> {"off", "wait", "events", "rmr", "inotify",
                                 "exists", "size", "open", "apply"}]
      /\ batch \in [Listeners -> SUBSET {"rmr", "inotify"}]
      /\ evs \in [Listeners -> 0 .. MaxWrites] /\ conf \in [Listeners -> Versions \cup {NULL}]
  BY DEF Inv, TypeOK, ListenersOK
<1>1. CASE epoll_wait(l)
  <2>1. ListenersOK'
    BY <1>0, <1>1 DEF epoll_wait, Goto, Ready, ListenersOK
  <2>2. Handling'
    BY <1>0, <1>1 DEF epoll_wait, Goto, Inv, Handling
  <2> QED
    BY <1>1, <2>1, <2>2, KeepLemma DEF epoll_wait, Inv, TypeOK
<1>2. CASE next_event(l)
  <2>1. ListenersOK'
    BY <1>0, <1>2 DEF next_event, Goto, ListenersOK
  <2>2. Handling'
    BY <1>0, <1>2 DEF next_event, Goto, Inv, Handling
  <2> QED
    BY <1>2, <2>1, <2>2, KeepLemma DEF next_event, Inv, TypeOK
<1>3. CASE receiveXappMessages(l)
  <2>1. ListenersOK' /\ Handling'
    BY <1>0, <1>3, GotoLemma DEF receiveXappMessages
  <2>2. rmrq \in Seq({"keep_alive", "other"}) /\ rmrq # << >> /\ rmrq' = Tail(rmrq)
    BY <1>3 DEF receiveXappMessages, Inv, TypeOK, HandshakeOK
  <2>3. rmrq' \in Seq({"keep_alive", "other"})
    BY <2>2
  <2>4. HandshakeOK'
    BY <1>3, <2>3 DEF receiveXappMessages, Inv, TypeOK, HandshakeOK
  <2> QED
    BY <1>3, <2>1, <2>4, KeepLemma DEF receiveXappMessages, Inv, TypeOK
<1>4. CASE read_inotify(l)
  <2>1. /\ inotify.writes \in 0 .. MaxWrites
        /\ evs' = [evs EXCEPT ![l] = inotify.writes]
        /\ inotify' = NoEvents /\ UNCHANGED <<main, rmr, batch, conf, file, applied, owed>>
    BY <1>4 DEF read_inotify, Inv, TypeOK, ConfigOK
  <2>2. ConfigOK' /\ Pending'
    BY <2>1 DEF Inv, TypeOK, ConfigOK, Pending, NoEvents, Versions
  <2>3. \/ \E p \in {"events", "inotify"} : Goto(l, p)
        \/ inotify.writes > 0 /\ Goto(l, "exists")
    BY <1>4 DEF read_inotify
  <2>4. ListenersOK'
    BY <1>0, <2>1, <2>3 DEF Goto, ListenersOK
  <2>5. Handling'
    BY <1>0, <2>1, <2>3 DEF Goto, Inv, Handling
  <2> QED
    BY <2>1, <2>2, <2>4, <2>5, KeepLemma DEF Inv, TypeOK
<1>5. ASSUME GiveUp(l), UNCHANGED <<batch, conf>> PROVE ListenersOK' /\ Handling'
  BY <1>0, <1>5, GotoLemma DEF GiveUp
<1>6. ASSUME NEW p \in {"size", "open"}, Goto(l, p), evs[l] > 0, UNCHANGED <<evs, batch, conf>>
      PROVE  ListenersOK' /\ Handling'
  <2>1. ListenersOK'
    BY <1>0, <1>6 DEF Goto, ListenersOK
  <2>2. Handling'
    BY <1>0, <1>6 DEF Goto, Inv, Handling
  <2> QED
    BY <2>1, <2>2
<1>7. CASE config_exists(l)
  <2>1. evs[l] > 0
    BY <1>7 DEF config_exists, At, Inv, Handling
  <2>2. ListenersOK' /\ Handling'
    BY <1>5, <1>6, <1>7, <2>1 DEF config_exists
  <2> QED
    BY <1>7, <2>2, KeepLemma DEF config_exists, Inv, TypeOK
<1>8. CASE config_size(l)
  <2>1. evs[l] > 0
    BY <1>8 DEF config_size, At, Inv, Handling
  <2>2. CASE file.state = "missing"
    <3>1. HandshakeOK'
      BY <1>8, <2>2 DEF config_size, Inv, TypeOK, HandshakeOK, rmr
    <3>2. ListenersOK' /\ Handling'
      BY <1>8, <2>2, KeepLemma DEF config_size, listening
    <3> QED
      BY <1>8, <3>1, <3>2, KeepLemma DEF config_size, Inv, TypeOK
  <2>3. CASE file.state # "missing"
    <3>1. ListenersOK' /\ Handling'
      BY <1>6, <1>8, <2>1, <2>3 DEF config_size
    <3> QED
      BY <1>8, <2>3, <3>1, KeepLemma DEF config_size, Inv, TypeOK
  <2> QED
    BY <2>2, <2>3
<1>9. CASE config_open(l)
  <2>1. evs[l] > 0
    BY <1>9 DEF config_open, At, Inv, Handling
  <2>2. ConfigOK' /\ Pending'
    <3>1. inotify' = inotify \/ inotify' = [inotify EXCEPT !.others = TRUE]
      BY <1>9 DEF config_open
    <3> QED
      BY <1>9, <3>1 DEF config_open, Inv, TypeOK, ConfigOK, Pending
  <2>3. CASE GiveUp(l) /\ UNCHANGED conf
    BY <1>5, <1>9, <2>2, <2>3, KeepLemma DEF config_open, Inv, TypeOK
  <2>4. CASE /\ conf' = [conf EXCEPT ![l] = file.version]
             /\ Goto(l, "apply") /\ UNCHANGED evs
    <3>1. file.version \in Versions /\ file.version # NULL
      <4>1. file.version \in Versions
        BY DEF Inv, TypeOK, ConfigOK
      <4>2. file.version \in Nat
        BY <4>1, E2TermStartConstants DEF Versions
      <4> QED
        BY <4>1, <4>2, E2TermStartConstants
    <3>2. ListenersOK'
      BY <1>0, <1>9, <2>4, <3>1 DEF config_open, Goto, ListenersOK
    <3>3. Handling'
      BY <1>0, <2>1, <2>4, <3>1 DEF Goto, Inv, Handling
    <3> QED
      BY <1>9, <2>2, <3>2, <3>3, KeepLemma DEF config_open, Inv, TypeOK
  <2> QED
    BY <1>9, <2>3, <2>4 DEF config_open
<1>10. CASE config_apply(l)
  <2>1. /\ evs[l] > 0 /\ conf[l] # NULL /\ lpc[l] = "apply"
    BY <1>10 DEF config_apply, At, Inv, Handling
  <2>2. conf[l] \in Versions /\ evs[l] \in 0 .. MaxWrites
    BY <1>0, <2>1
  <2>3. ConfigOK' /\ Pending'
    BY <1>10, <2>2 DEF config_apply, Inv, TypeOK, ConfigOK, Pending
  <2>4. evs[l] - 1 \in 0 .. MaxWrites
    BY <2>1, <2>2
  <2>5. \/ Goto(l, "events")
        \/ evs[l] - 1 > 0 /\ Goto(l, "exists")
    BY <1>10, <2>2 DEF config_apply
  <2>6. /\ evs' = [evs EXCEPT ![l] = evs[l] - 1] /\ conf' = [conf EXCEPT ![l] = NULL]
        /\ batch' = batch
    BY <1>10 DEF config_apply
  <2>7. ListenersOK'
    BY <1>0, <2>4, <2>5, <2>6 DEF Goto, ListenersOK
  <2>8. Handling'
    BY <1>0, <2>4, <2>5, <2>6 DEF Goto, Inv, Handling
  <2> QED
    BY <1>10, <2>3, <2>7, <2>8, KeepLemma DEF config_apply, Inv, TypeOK
<1> QED
  BY <1>1, <1>2, <1>3, <1>4, <1>7, <1>8, <1>9, <1>10 DEF Listener

\* Inv is inductive.
LEMMA InvStep == Inv /\ [Next]_vars => Inv'
<1> SUFFICES ASSUME Inv, [Next]_vars PROVE Inv'
  OBVIOUS
<1>1. CASE UNCHANGED vars
  BY <1>1, KeepLemma DEF vars, Inv, TypeOK
<1>2. CASE Next
  BY <1>2, MainInv, OutsideInv, ListenerInv DEF Next
<1> QED
  BY <1>1, <1>2

\* Whatever listeners read one queue of events and whenever the file is written,
\* broken or removed, no listener handles an event it has not read.
THEOREM TypeCorrect == Spec => []TypeOK
BY InvInit, InvStep, PTL DEF Spec, Inv

-----------------------------------------------------------------------------
\* The listeners never all block

\* Listener l waits for a message, or will when it comes to that event.
Awaits(l) == lpc[l] = "rmr" \/ "rmr" \in batch[l]

\* Why one of them is free: they are woken by a message only, and the one that
\* takes the last message waits for no other.
FreeInv ==
    /\ \A l \in Listeners : lpc[l] = "rmr" => "rmr" \notin batch[l]
    /\ rmrq = << >> => \E l \in Listeners : ~Awaits(l)

\* A step that leaves the listeners' events alone, and takes no message.
LEMMA FreeKeep ==
    ASSUME FreeInv, UNCHANGED <<lpc, batch>>, rmrq # << >> => rmrq' # << >>
    PROVE  FreeInv'
BY DEF FreeInv, Awaits

\* Listeners that are started, or gone, wait for nothing.
LEMMA FreeStart ==
    ASSUME \A l \in Listeners : lpc'[l] # "rmr" /\ batch'[l] = {}
    PROVE  FreeInv'
<1>1. PICK l \in Listeners : TRUE
  BY E2TermStartConstants
<1> QED
  BY <1>1 DEF FreeInv, Awaits

\* A listener that goes on to wait for nothing, or handles another event.
LEMMA FreeListener == \A l \in Listeners : Inv /\ FreeInv /\ Listener(l) => FreeInv'
<1> SUFFICES ASSUME NEW l \in Listeners, Inv, FreeInv, Listener(l) PROVE FreeInv'
  OBVIOUS
<1>0. /\ lpc \in [Listeners -> {"off", "wait", "events", "rmr", "inotify",
                                 "exists", "size", "open", "apply"}]
      /\ batch \in [Listeners -> SUBSET {"rmr", "inotify"}]
  BY DEF Inv, TypeOK, ListenersOK
<1>1. CASE epoll_wait(l)
  <2>1. /\ lpc' = [lpc EXCEPT ![l] = "events"] /\ batch' = [batch EXCEPT ![l] = Ready]
        /\ lpc[l] = "wait" /\ rmrq' = rmrq
    BY <1>1 DEF epoll_wait, At, Goto, rmr
  <2>2. \A k \in Listeners : Awaits(k)' => Awaits(k) \/ rmrq # << >>
    BY <1>0, <2>1 DEF Awaits, Ready
  <2>3. \A k \in Listeners : lpc'[k] = "rmr" => "rmr" \notin batch'[k]
    BY <1>0, <2>1 DEF FreeInv
  <2> QED
    BY <2>1, <2>2, <2>3 DEF FreeInv
<1>2. CASE next_event(l)
  <2>1. rmrq' = rmrq /\ lpc[l] = "events"
    BY <1>2 DEF next_event, At, rmr
  <2>2. CASE batch[l] = {}
    <3>1. lpc' = [lpc EXCEPT ![l] = "wait"] /\ batch' = batch
      BY <1>2, <2>2 DEF next_event, Goto
    <3> QED
      BY <1>0, <2>1, <3>1 DEF FreeInv, Awaits
  <2>3. ASSUME NEW e \in batch[l], batch' = [batch EXCEPT ![l] = @ \ {e}],
               lpc' = [lpc EXCEPT ![l] = e]
        PROVE  FreeInv'
    <3>1. \A k \in Listeners : lpc'[k] = "rmr" => "rmr" \notin batch'[k]
      BY <1>0, <2>3 DEF FreeInv
    <3>2. \A k \in Listeners : Awaits(k)' => Awaits(k)
      BY <1>0, <2>3 DEF Awaits
    <3> QED
      BY <2>1, <3>1, <3>2 DEF FreeInv
  <2> QED
    BY <1>2, <2>2, <2>3 DEF next_event, Goto
<1>3. CASE receiveXappMessages(l)
  <2>1. /\ lpc[l] = "rmr" /\ lpc' = [lpc EXCEPT ![l] = "events"] /\ batch' = batch
    BY <1>3 DEF receiveXappMessages, At, Goto
  <2>2. ~Awaits(l)'
    BY <1>0, <2>1 DEF FreeInv, Awaits
  <2>3. \A k \in Listeners : lpc'[k] = "rmr" => "rmr" \notin batch'[k]
    BY <1>0, <2>1 DEF FreeInv
  <2> QED
    BY <2>2, <2>3 DEF FreeInv
<1>4. CASE \/ read_inotify(l) \/ config_exists(l) \/ config_size(l) \/ config_open(l)
           \/ config_apply(l)
  <2>1. /\ lpc[l] # "rmr" /\ batch' = batch /\ rmrq' = rmrq
        /\ lpc' = lpc \/ \E p \in {"events", "inotify", "exists", "size", "open", "apply"} :
                             lpc' = [lpc EXCEPT ![l] = p]
    BY <1>4 DEF read_inotify, config_exists, config_size, config_open, config_apply, At,
       Goto, GiveUp, rmr
  <2>2. \A k \in Listeners : Awaits(k)' => Awaits(k)
    BY <1>0, <2>1 DEF Awaits
  <2>3. \A k \in Listeners : lpc'[k] = "rmr" => "rmr" \notin batch'[k]
    BY <1>0, <2>1 DEF FreeInv
  <2> QED
    BY <2>1, <2>2, <2>3 DEF FreeInv
<1> QED
  BY <1>1, <1>2, <1>3, <1>4 DEF Listener

\* However many listeners wait on the one epoll descriptor, and however many of
\* them a message wakes, one is not waiting in rmr_rcv_msg for a message that is
\* gone (sctpThread.cpp, listener and receiveXappMessages).
THEOREM ListenersNeverAllBlock == Spec => []NeverAllBlocked
<1>1. Init => FreeInv
  <2> SUFFICES ASSUME Init PROVE FreeInv
    OBVIOUS
  <2>1. PICK l \in Listeners : TRUE
    BY E2TermStartConstants
  <2> QED
    BY <2>1 DEF Init, Idle, FreeInv, Awaits
<1>2. Inv /\ FreeInv /\ [Next]_vars => FreeInv'
  <2> SUFFICES ASSUME Inv, FreeInv, [Next]_vars PROVE FreeInv'
    OBVIOUS
  <2>1. CASE Main
    <3>1. CASE start_listeners
      <4>1. \A l \in Listeners : lpc'[l] = "wait"
        BY <3>1 DEF start_listeners
      <4>2. UNCHANGED <<batch, rmrq>>
        BY <3>1 DEF start_listeners, rmr
      <4> QED
        BY <4>1, <4>2 DEF FreeInv, Awaits
    <3>2. CASE ~start_listeners
      <4>1. UNCHANGED <<lpc, batch, rmrq>>
        BY <2>1, <3>2 DEF Main, buildConfiguration, getRmrContext, buildInotify,
           buildListeningPort, sendTermInit, handleTermInit, listening, rmr
      <4> QED
        BY <4>1, FreeKeep
    <3> QED
      BY <3>1, <3>2
  <2>2. CASE Operator
    <3>1. UNCHANGED <<lpc, batch, rmrq>>
      BY <2>2 DEF Operator, write_file, remove_file, listening, rmr
    <3> QED
      BY <3>1, FreeKeep
  <2>3. CASE restart
    <3>1. \A l \in Listeners : lpc'[l] = "off" /\ batch'[l] = {}
      BY <2>3 DEF restart
    <3> QED
      BY <3>1, FreeStart
  <2>4. CASE keep_alive \/ other_message
    <3>1. UNCHANGED <<lpc, batch>>
      BY <2>4 DEF keep_alive, other_message, listening
    <3>2. rmrq \in Seq({"keep_alive", "other"})
      BY DEF Inv, TypeOK, HandshakeOK
    <3>3. rmrq' # << >>
      BY <2>4, <3>2 DEF keep_alive, other_message
    <3> QED
      BY <3>1, <3>3, FreeKeep
  <2>5. CASE UNCHANGED vars
    BY <2>5, FreeKeep DEF vars, listening, rmr
  <2> QED
    BY <2>1, <2>2, <2>3, <2>4, <2>5, FreeListener DEF Next
<1>3. FreeInv => NeverAllBlocked
  BY DEF FreeInv, Awaits, NeverAllBlocked
<1> QED
  BY <1>1, <1>2, <1>3, InvInit, InvStep, PTL DEF Spec

-----------------------------------------------------------------------------
\* No write that was reported is lost

\* The version that is owed is what the file holds, and it can be used.
OwedIsFile == owed # NULL => file.version = owed /\ file.state = "usable"

\* Before main has started them, no listener is at work.
NotStarted ==
    main \in {"config", "rmr", "inotify", "port", "threads"} =>
        \A l \in Listeners : lpc[l] = "off"

\* Listener l will still read the owed version, or has read it.
Serves(l) ==
    \/ lpc[l] \in {"exists", "size", "open"}
    \/ lpc[l] = "apply" /\ (conf[l] = owed \/ evs[l] > 1)

Safe == owed \in applied \/ inotify.writes > 0 \/ \E l \in Listeners : Serves(l)

OwedInv == OwedIsFile /\ NotStarted /\ (owed # NULL /\ main # "exit" => Safe)

\* The property is the last part of the invariant.
LEMMA OwedImplies == OwedInv => ConfigNotLost
BY DEF OwedInv, ConfigNotLost, Safe, Serves

\* The initial state.
LEMMA OwedInit == Init => OwedInv
BY DEF Init, Idle, OwedInv, OwedIsFile, NotStarted

\* A step of main.  Listeners start idle, and a version that is owed by then has
\* its event in the queue.
LEMMA OwedMain == Inv /\ OwedInv /\ Main => OwedInv'
<1> SUFFICES ASSUME Inv, OwedInv, Main PROVE OwedInv'
  OBVIOUS
<1>0. UNCHANGED <<file, inotify, owed, evs, conf>>
  BY DEF Main, buildConfiguration, getRmrContext, buildInotify, buildListeningPort,
     start_listeners, sendTermInit, handleTermInit, listening, config
<1>1. OwedIsFile'
  BY <1>0 DEF OwedInv, OwedIsFile
<1>2. CASE buildConfiguration
  <2>1. NotStarted'
    BY <1>2 DEF buildConfiguration, OwedInv, NotStarted, listening
  <2>2. owed' # NULL /\ main' # "exit" => owed' \in applied'
    BY <1>0, <1>2 DEF buildConfiguration, OwedInv, OwedIsFile
  <2> QED
    BY <1>1, <2>1, <2>2 DEF OwedInv, Safe
<1>3. CASE start_listeners
  <2>1. NotStarted' /\ main # "exit"
    BY <1>3 DEF start_listeners, NotStarted
  <2>2. \A l \in Listeners : ~ Serves(l)
    BY <1>3 DEF start_listeners, OwedInv, NotStarted, Serves
  <2>3. applied' = applied
    BY <1>3 DEF start_listeners, config
  <2> QED
    BY <1>0, <1>1, <2>1, <2>2, <2>3 DEF OwedInv, Safe
<1>4. CASE \/ getRmrContext \/ buildInotify \/ buildListeningPort \/ handleTermInit
           \/ \E d \in BOOLEAN : sendTermInit(d)
  <2>1. main # "exit" /\ lpc' = lpc /\ applied' = applied
    BY <1>4 DEF getRmrContext, buildInotify, buildListeningPort, handleTermInit,
       sendTermInit, listening, config
  <2>2. NotStarted'
    BY <1>4, <2>1 DEF getRmrContext, buildInotify, buildListeningPort, handleTermInit,
       sendTermInit, OwedInv, NotStarted
  <2>3. Safe => Safe'
    BY <1>0, <2>1 DEF Safe, Serves
  <2> QED
    BY <1>0, <1>1, <2>1, <2>2, <2>3 DEF OwedInv
<1> QED
  BY <1>2, <1>3, <1>4 DEF Main

\* A step of the E2 manager, the probe, the operator or Kubernetes.  A write
\* that makes a version owed puts an event into the queue.
LEMMA OwedOutside ==
    Inv /\ OwedInv /\ (keep_alive \/ other_message \/ Operator \/ restart) => OwedInv'
<1> SUFFICES ASSUME Inv, OwedInv, keep_alive \/ other_message \/ Operator \/ restart
             PROVE  OwedInv'
  OBVIOUS
<1>1. CASE keep_alive \/ other_message
  BY <1>1 DEF keep_alive, other_message, listening, config, OwedInv, OwedIsFile,
     NotStarted, Safe, Serves
<1>2. ASSUME NEW state \in {"usable", "broken"}, write_file(state) PROVE OwedInv'
  <2>1. /\ inotify \in [writes : 0 .. MaxWrites, others : BOOLEAN]
        /\ MaxWrites \in Nat
    BY E2TermStartConstants DEF Inv, TypeOK, ConfigOK
  <2>2. owed' # NULL => inotify' = [inotify EXCEPT !.writes = inotify.writes + 1]
    BY <1>2 DEF write_file
  <2>3. owed' # NULL => inotify'.writes > 0
    BY <2>1, <2>2
  <2>4. OwedIsFile' /\ NotStarted'
    BY <1>2 DEF write_file, OwedInv, OwedIsFile, NotStarted, listening
  <2> QED
    BY <2>3, <2>4 DEF OwedInv, Safe
<1>3. CASE remove_file
  BY <1>3 DEF remove_file, OwedInv, OwedIsFile, NotStarted, listening
<1>4. CASE restart
  BY <1>4 DEF restart, OwedInv, OwedIsFile, NotStarted
<1> QED
  BY <1>1, <1>2, <1>3, <1>4 DEF Operator

\* A step of a listener.  It takes events out of the queue only to handle them,
\* and while a version is owed it finds the file there and usable.
LEMMA OwedListener == \A l \in Listeners : Inv /\ OwedInv /\ Listener(l) => OwedInv'
<1> SUFFICES ASSUME NEW l \in Listeners, Inv, OwedInv, Listener(l) PROVE OwedInv'
  OBVIOUS
<1> USE E2TermStartConstants
<1>0. /\ lpc \in [Listeners -> {"off", "wait", "events", "rmr", "inotify",
                                 "exists", "size", "open", "apply"}]
      /\ evs \in [Listeners -> 0 .. MaxWrites] /\ conf \in [Listeners -> Versions \cup {NULL}]
      /\ inotify \in [writes : 0 .. MaxWrites, others : BOOLEAN]
  BY DEF Inv, TypeOK, ListenersOK, ConfigOK
<1>1. /\ UNCHANGED <<file, owed>> /\ main # "exit" /\ main' \in {main, "exit"}
      /\ lpc[l] # "off"
  BY DEF Listener, epoll_wait, next_event, receiveXappMessages, read_inotify, config_exists,
     config_size, config_open, config_apply, At, config
<1>2. OwedIsFile'
  BY <1>1 DEF OwedInv, OwedIsFile
<1>3. NotStarted'
  BY <1>1 DEF OwedInv, NotStarted
<1>4. SUFFICES ASSUME owed # NULL, main' # "exit" PROVE Safe'
  BY <1>1, <1>2, <1>3 DEF OwedInv
<1>5. Safe /\ file.version = owed /\ file.state = "usable"
  BY <1>1, <1>4 DEF OwedInv, OwedIsFile
<1>6. ASSUME \A k \in Listeners \ {l} : /\ lpc'[k] = lpc[k] /\ evs'[k] = evs[k]
                                        /\ conf'[k] = conf[k],
             applied \subseteq applied', inotify.writes > 0 => inotify'.writes > 0,
             Serves(l) => Serves(l)' \/ owed \in applied'
      PROVE  Safe'
  <2>1. \A k \in Listeners \ {l} : Serves(k) => Serves(k)'
    BY <1>1, <1>6 DEF Serves
  <2> QED
    BY <1>1, <1>5, <1>6, <2>1 DEF Safe
<1>7. ASSUME NEW p, Goto(l, p)
      PROVE  lpc'[l] = p /\ \A k \in Listeners \ {l} : lpc'[k] = lpc[k]
  BY <1>0, <1>7 DEF Goto
<1>8. CASE epoll_wait(l) \/ next_event(l) \/ receiveXappMessages(l)
  <2>1. lpc[l] \notin {"exists", "size", "open", "apply"} /\ ~ Serves(l)
    BY <1>8 DEF epoll_wait, next_event, receiveXappMessages, At, Serves
  <2>2. /\ UNCHANGED <<evs, conf, applied, inotify>>
        /\ \E p \in {"wait", "events", "rmr", "inotify"} \cup batch[l] : Goto(l, p)
    BY <1>8 DEF epoll_wait, next_event, receiveXappMessages, config
  <2> QED
    BY <1>6, <1>7, <2>1, <2>2
<1>9. CASE read_inotify(l)
  <2>1. /\ ~ Serves(l) /\ UNCHANGED <<conf, applied>>
        /\ \A k \in Listeners \ {l} : evs'[k] = evs[k]
    BY <1>0, <1>9 DEF read_inotify, At, Serves
  <2>2. CASE inotify.writes > 0
    <3>1. inotify # NoEvents
      BY <2>2 DEF NoEvents
    <3>2. Serves(l)'
      BY <1>7, <1>9, <2>2, <3>1 DEF read_inotify, Serves
    <3> QED
      BY <3>2 DEF Safe
  <2>3. CASE ~ (inotify.writes > 0)
    <3>1. \A k \in Listeners \ {l} : lpc'[k] = lpc[k]
      BY <1>7, <1>9 DEF read_inotify
    <3> QED
      BY <1>1, <1>5, <2>1, <2>3, <3>1 DEF Safe, Serves
  <2> QED
    BY <2>2, <2>3
<1>10. CASE config_exists(l) \/ config_size(l)
  <2>1. /\ UNCHANGED <<evs, conf, applied, inotify>>
        /\ Goto(l, "size") \/ Goto(l, "open")
    BY <1>5, <1>10 DEF config_exists, config_size, config
  <2>2. Serves(l)'
    BY <1>7, <2>1 DEF Serves
  <2> QED
    BY <2>2 DEF Safe
<1>11. CASE config_open(l)
  <2>1. /\ conf' = [conf EXCEPT ![l] = file.version] /\ Goto(l, "apply")
    BY <1>5, <1>11 DEF config_open
  <2>2. Serves(l)'
    BY <1>0, <1>1, <1>5, <1>7, <2>1 DEF Serves
  <2> QED
    BY <2>2 DEF Safe
<1>12. CASE config_apply(l)
  <2>1. /\ lpc[l] = "apply" /\ applied' = applied \cup {conf[l]} /\ UNCHANGED inotify
        /\ \A k \in Listeners \ {l} : evs'[k] = evs[k] /\ conf'[k] = conf[k]
        /\ evs[l] > 1 => Goto(l, "exists")
        /\ \E p \in {"exists", "events"} : Goto(l, p)
    BY <1>0, <1>12 DEF config_apply, At
  <2>2. Serves(l) => Serves(l)' \/ owed \in applied'
    BY <1>7, <2>1 DEF Serves
  <2>3. \A k \in Listeners \ {l} : lpc'[k] = lpc[k]
    BY <1>7, <2>1
  <2> QED
    BY <1>6, <2>1, <2>2, <2>3
<1> QED
  BY <1>8, <1>9, <1>10, <1>11, <1>12 DEF Listener

\* However many listeners share the queue of events, and whenever the file is
\* written, broken or removed: a version that the watch has reported is applied,
\* or somebody still has to look at the file, or the process ends.
THEOREM ReportedWritesAreNotLost == Spec => []ConfigNotLost
<1>1. Inv /\ OwedInv /\ [Next]_vars => OwedInv'
  <2> SUFFICES ASSUME Inv, OwedInv, [Next]_vars PROVE OwedInv'
    OBVIOUS
  <2>1. CASE UNCHANGED vars
    BY <2>1 DEF vars, listening, config, OwedInv, OwedIsFile, NotStarted, Safe, Serves
  <2>2. CASE Next
    BY <2>2, OwedMain, OwedOutside, OwedListener DEF Next
  <2> QED
    BY <2>1, <2>2
<1> QED
  BY <1>1, InvInit, InvStep, OwedInit, OwedImplies, PTL DEF Spec
=============================================================================
