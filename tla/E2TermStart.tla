----------------------------- MODULE E2TermStart -----------------------------
(***************************************************************************)
(* The start of the E2 termination, its E2_TERM_INIT handshake with the E2 *)
(* manager, and changes of its configuration file at run time (main,       *)
(* handleTermInit and handleConfigChange of sctpThread.cpp).  All          *)
(* listeners wait on one epoll descriptor.  The descriptors of RMR and of  *)
(* inotify are level-triggered: one message or one event may wake several  *)
(* listeners.  rmr_rcv_msg blocks a listener that finds no message left;   *)
(* reading from inotify does not.                                          *)
(*                                                                         *)
(* Of a configuration only its version is kept, and whether it can be      *)
(* used: a file that is too large or has a broken section cannot.          *)
(***************************************************************************)
EXTENDS Integers, Sequences

CONSTANTS
    Listeners,   \* listener threads
    MaxWrites,   \* bound: writes of the configuration file
    NULL

\* Main starts three listeners.
ASSUME E2TermStartConstants ==
    Listeners # {} /\ MaxWrites \in Nat /\ NULL \notin Nat

VARIABLES
    main,      \* where main is; "exit": the process has ended
    known,     \* has the E2 manager got an E2_TERM_INIT, of this process or
               \* of an earlier one?
    heard,     \* num_of_XAPP_messages > 0
    rmrq,      \* messages waiting in RMR, at most one of a kind (bound)
    lpc,       \* where each listener is
    batch,     \* events epoll_wait has given to each listener
    evs,       \* inotify events in the buffer of each listener
    conf,      \* the version each listener has read
    file,      \* the configuration file: [version, state]
    inotify,   \* events to be read: writes of the file, and others
    applied,   \* history: versions that have been applied
    owed       \* history: version whose writing inotify has reported last

rmr == <<known, heard, rmrq>>
listening == <<lpc, batch, evs, conf>>
config == <<file, inotify, applied, owed>>
vars == <<main, rmr, listening, config>>

NoEvents == [writes |-> 0, others |-> FALSE]
Idle ==
    /\ lpc = [l \in Listeners |-> "off"] /\ batch = [l \in Listeners |-> {}]
    /\ evs = [l \in Listeners |-> 0] /\ conf = [l \in Listeners |-> NULL]

Init ==
    /\ main = "config" /\ known = FALSE /\ heard = FALSE /\ rmrq = << >>
    /\ Idle
    /\ file = [version |-> 0, state |-> "usable"]
    /\ inotify = NoEvents /\ applied = {} /\ owed = NULL

-----------------------------------------------------------------------------
\* main

\* Is the configuration directory being watched?
Watching == main \in {"port", "threads", "send", "poll", "join"}

\* Is RMR running?
RmrUp == main = "inotify" \/ Watching

\* buildConfiguration: the file is read once.  The process gives up without it.
buildConfiguration ==
    /\ main = "config"
    /\ IF file.state = "usable"
       THEN main' = "rmr" /\ applied' = {file.version}
       ELSE main' = "exit" /\ UNCHANGED applied
    /\ UNCHANGED <<rmr, listening, file, inotify, owed>>

\* RMR is started and its routing table waited for.
getRmrContext ==
    /\ main = "rmr"
    /\ main' \in {"inotify", "exit"}
    /\ UNCHANGED <<rmr, listening, config>>

buildInotify ==
    /\ main = "inotify"
    /\ main' \in {"port", "exit"}
    /\ UNCHANGED <<rmr, listening, config>>

buildListeningPort ==
    /\ main = "port"
    /\ main' \in {"threads", "exit"}
    /\ UNCHANGED <<rmr, listening, config>>

start_listeners ==
    /\ main = "threads"
    /\ main' = "send"
    /\ lpc' = [l \in Listeners |-> "wait"]
    /\ UNCHANGED <<rmr, batch, evs, conf, config>>

\* sendTermInit tries until RMR takes the message, which may then be lost.
sendTermInit(delivered) ==
    /\ main = "send"
    /\ main' = "poll"
    /\ known' = (known \/ delivered)
    /\ UNCHANGED <<heard, rmrq, listening, config>>

\* Mutant: E2_TERM_INIT is sent once.
handleTermInit_once ==
    /\ main = "poll" /\ heard
    /\ main' = "join"
    /\ UNCHANGED <<rmr, listening, config>>

\* A look at the counter every tenth of a second; every 1000th time without a
\* message, E2_TERM_INIT is sent again.
handleTermInit ==
    /\ main = "poll"
    /\ main' = IF heard THEN "join" ELSE "send"
    /\ UNCHANGED <<rmr, listening, config>>

-----------------------------------------------------------------------------
\* The E2 manager, the liveness probe, the operator and Kubernetes (external)

\* A message that is counted.  Keep-alive requests and RIC_SCTP_CLEAR_ALL come
\* from an E2 manager that knows of this instance, and messages for a connected
\* node take the routes it has set up.
keep_alive ==
    /\ RmrUp /\ known /\ \A k \in DOMAIN rmrq : rmrq[k] # "keep_alive"
    /\ rmrq' = Append(rmrq, "keep_alive")
    /\ UNCHANGED <<main, known, heard, listening, config>>

\* A health check of the probe, or a message for a node that is not connected.
other_message ==
    /\ RmrUp /\ \A k \in DOMAIN rmrq : rmrq[k] # "other"
    /\ rmrq' = Append(rmrq, "other")
    /\ UNCHANGED <<main, known, heard, listening, config>>

\* The file is written.  A watch that does not exist yet reports nothing.
write_file(state) ==
    /\ file.version < MaxWrites
    /\ file' = [version |-> file.version + 1, state |-> state]
    /\ inotify' = IF Watching THEN [inotify EXCEPT !.writes = @ + 1] ELSE inotify
    /\ owed' = IF Watching /\ state = "usable" THEN file.version + 1 ELSE NULL
    /\ UNCHANGED <<main, rmr, listening, applied>>

\* Removing a file is not among the events watched for.
remove_file ==
    /\ file.state # "missing"
    /\ file' = [file EXCEPT !.state = "missing"] /\ owed' = NULL
    /\ UNCHANGED <<main, rmr, listening, inotify, applied>>

\* The E2 manager still knows the instance: its keep-alive requests may end the
\* handshake of the new process before an E2_TERM_INIT of that has got through.
restart ==
    /\ main = "exit"
    /\ main' = "config" /\ heard' = FALSE /\ rmrq' = << >>
    /\ lpc' = [l \in Listeners |-> "off"] /\ batch' = [l \in Listeners |-> {}]
    /\ evs' = [l \in Listeners |-> 0] /\ conf' = [l \in Listeners |-> NULL]
    /\ inotify' = NoEvents /\ applied' = {} /\ owed' = NULL
    /\ UNCHANGED <<known, file>>

-----------------------------------------------------------------------------
\* listener

Ready == (IF rmrq # << >> THEN {"rmr"} ELSE {})
         \cup (IF inotify # NoEvents THEN {"inotify"} ELSE {})

At(l, pc) == main # "exit" /\ lpc[l] = pc
Goto(l, pc) == lpc' = [lpc EXCEPT ![l] = pc]

epoll_wait(l) ==
    /\ At(l, "wait") /\ Ready # {}
    /\ batch' = [batch EXCEPT ![l] = Ready]
    /\ Goto(l, "events")
    /\ UNCHANGED <<main, rmr, evs, conf, config>>

\* The events of the batch are handled one after the other.
next_event(l) ==
    /\ At(l, "events")
    /\ IF batch[l] = {} THEN Goto(l, "wait") /\ UNCHANGED batch
       ELSE \E e \in batch[l] :
            /\ batch' = [batch EXCEPT ![l] = @ \ {e}]
            /\ Goto(l, e)
    /\ UNCHANGED <<main, rmr, evs, conf, config>>

\* Mutant: the listener goes on to receive until there is no message left.
receiveXappMessages_drain(l) ==
    /\ At(l, "rmr") /\ rmrq # << >>
    /\ heard' = (heard \/ Head(rmrq) = "keep_alive")
    /\ rmrq' = Tail(rmrq)
    /\ UNCHANGED <<main, known, listening, config>>

\* rmr_rcv_msg blocks until there is a message.  Neither health checks nor
\* messages for unknown nodes are counted; the answer to a keep-alive request
\* may fail, which is only logged.
receiveXappMessages(l) ==
    /\ At(l, "rmr") /\ rmrq # << >>
    /\ heard' = (heard \/ Head(rmrq) = "keep_alive")
    /\ rmrq' = Tail(rmrq)
    /\ Goto(l, "events")
    /\ UNCHANGED <<main, known, batch, evs, conf, config>>

\* Mutant: only the first event in the buffer is looked at.
read_inotify_first(l) ==
    /\ At(l, "inotify")
    /\ inotify' = NoEvents
    /\ evs' = [evs EXCEPT ![l] = IF inotify.others THEN 0 ELSE inotify.writes]
    /\ Goto(l, IF inotify = NoEvents THEN "events"
               ELSE IF inotify.others THEN "inotify" ELSE "exists")
    /\ UNCHANGED <<main, rmr, batch, conf, file, applied, owed>>

\* handleConfigChange takes all events there are, again and again until one is
\* the end of a write of the file, or none are left.
read_inotify(l) ==
    /\ At(l, "inotify")
    /\ inotify' = NoEvents
    /\ evs' = [evs EXCEPT ![l] = inotify.writes]
    /\ Goto(l, IF inotify = NoEvents THEN "events"
               ELSE IF inotify.writes > 0 THEN "exists" ELSE "inotify")
    /\ UNCHANGED <<main, rmr, batch, conf, file, applied, owed>>

\* The handler returns, and forgets the other events in its buffer.
GiveUp(l) == Goto(l, "events") /\ evs' = [evs EXCEPT ![l] = 0]

config_exists(l) ==
    /\ At(l, "exists")
    /\ IF file.state = "missing" THEN GiveUp(l) ELSE Goto(l, "size") /\ UNCHANGED evs
    /\ UNCHANGED <<main, rmr, batch, conf, config>>

\* file_size throws if the file has gone in the meantime: nobody catches it.
config_size(l) ==
    /\ At(l, "size")
    /\ IF file.state = "missing" THEN main' = "exit" /\ UNCHANGED lpc
       ELSE Goto(l, "open") /\ UNCHANGED main
    /\ UNCHANGED <<rmr, batch, evs, conf, config>>

\* Opening and closing the file are events of the watched directory as well.
config_open(l) ==
    /\ At(l, "open")
    /\ IF file.state = "missing" THEN GiveUp(l) /\ UNCHANGED <<conf, inotify>>
       ELSE /\ inotify' = [inotify EXCEPT !.others = TRUE]
            /\ IF file.state = "broken" THEN GiveUp(l) /\ UNCHANGED conf
               ELSE /\ conf' = [conf EXCEPT ![l] = file.version]
                    /\ Goto(l, "apply") /\ UNCHANGED evs
    /\ UNCHANGED <<main, rmr, batch, file, applied, owed>>

\* Mutant: one event too many is handled.
config_apply_more(l) ==
    /\ At(l, "apply")
    /\ applied' = applied \cup {conf[l]}
    /\ conf' = [conf EXCEPT ![l] = NULL]
    /\ evs' = [evs EXCEPT ![l] = @ - 1]
    /\ Goto(l, IF evs[l] >= 1 THEN "exists" ELSE "events")
    /\ UNCHANGED <<main, rmr, batch, file, inotify, owed>>

\* The log level and the trace flag are set; on to the next event in the buffer.
config_apply(l) ==
    /\ At(l, "apply")
    /\ applied' = applied \cup {conf[l]}
    /\ conf' = [conf EXCEPT ![l] = NULL]
    /\ evs' = [evs EXCEPT ![l] = @ - 1]
    /\ Goto(l, IF evs[l] > 1 THEN "exists" ELSE "events")
    /\ UNCHANGED <<main, rmr, batch, file, inotify, owed>>

-----------------------------------------------------------------------------
Main == \/ buildConfiguration \/ getRmrContext \/ buildInotify \/ buildListeningPort
        \/ start_listeners \/ handleTermInit \/ \E d \in BOOLEAN : sendTermInit(d)
Listener(l) ==
    \/ epoll_wait(l) \/ next_event(l) \/ receiveXappMessages(l) \/ read_inotify(l)
    \/ config_exists(l) \/ config_size(l) \/ config_open(l) \/ config_apply(l)
Operator ==
    \/ \E state \in {"usable", "broken"} : write_file(state)
    \/ remove_file

Next ==
    \/ Main \/ Operator \/ restart
    \/ keep_alive \/ other_message
    \/ \E l \in Listeners : Listener(l)

Spec == Init /\ [][Next]_vars

\* Threads are scheduled, and Kubernetes restarts a process that has ended.  Of
\* the others: an E2_TERM_INIT sent again and again gets through, and an E2
\* manager that knows the instance asks it for signs of life.
Fairness ==
    /\ WF_vars(Main) /\ SF_vars(sendTermInit(TRUE))
    /\ WF_vars(restart) /\ WF_vars(keep_alive)
    /\ \A l \in Listeners : WF_vars(Listener(l))
FairSpec == Spec /\ Fairness

-----------------------------------------------------------------------------
\* Properties

Versions == 0 .. MaxWrites
HandshakeOK ==
    /\ main \in {"config", "rmr", "inotify", "port", "threads", "send", "poll", "join", "exit"}
    /\ known \in BOOLEAN /\ heard \in BOOLEAN
    /\ rmrq \in Seq({"keep_alive", "other"})
ListenersOK ==
    /\ lpc \in [Listeners -> {"off", "wait", "events", "rmr", "inotify",
                              "exists", "size", "open", "apply"}]
    /\ batch \in [Listeners -> SUBSET {"rmr", "inotify"}]
    /\ evs \in [Listeners -> 0 .. MaxWrites] /\ conf \in [Listeners -> Versions \cup {NULL}]
ConfigOK ==
    /\ file \in [version : Versions, state : {"usable", "broken", "missing"}]
    /\ inotify \in [writes : 0 .. MaxWrites, others : BOOLEAN]
    /\ applied \subseteq Versions /\ owed \in Versions \cup {NULL}
TypeOK == HandshakeOK /\ ListenersOK /\ ConfigOK

\* The listeners never all wait in rmr_rcv_msg for a message that another one
\* has taken: one of them is left for the other descriptors, although one message
\* wakes them all and may be waited for by several at a time.  (The RMR descriptor
\* is taken to be ready only while a message waits.)
NeverAllBlocked == rmrq = << >> => \E l \in Listeners : lpc[l] # "rmr"

\* A write of the file that the watch has reported is never lost, although the
\* listeners drain one queue into buffers of their own: until its version is
\* applied, the event is still in the queue, or a listener has yet to read the
\* file, has read this version, or has more events in its buffer.
ConfigNotLost ==
    owed # NULL /\ main # "exit" =>
        \/ owed \in applied \/ inotify.writes > 0
        \/ \E l \in Listeners :
            \/ lpc[l] \in {"exists", "size", "open"}
            \/ lpc[l] = "apply" /\ (conf[l] = owed \/ evs[l] > 1)

\* The handshake ends, whatever gets lost, unless the process does.
HandshakeEnds == main = "send" ~> main \in {"join", "exit"}

\* Although listeners that were woken for a message another one has taken block
\* in rmr_rcv_msg, and although several of them read one queue of events, the
\* last version of the file is applied at some time, if it was written after the
\* watch was set up.
LastConfigApplied ==
    \A v \in 1 .. MaxWrites : owed = v ~> (v \in applied \/ owed # v \/ main = "exit")
=============================================================================
