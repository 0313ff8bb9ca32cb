---------------------------- MODULE E2LikeServer ----------------------------
(***************************************************************************)
(* The E2-like xApps (ric-app-ic-e2like/ic.py, ric-app-ml-e2like/app.py):  *)
(* one thread accepts an SCTP association of a base station, asks it for   *)
(* I/Q data, collects chunks until they make a spectrogram, classifies it  *)
(* and sends a command back.  Only an OSError makes it leave the           *)
(* association and accept the next one.                                    *)
(*                                                                         *)
(* Both xApps run this loop.  "ic" asks for data in the first second of an *)
(* association only, and decodes the text before a marker in the data;     *)
(* "ml" asks in every turn, and gives no verdict it is not confident of.   *)
(***************************************************************************)
EXTENDS Integers, Sequences

CONSTANTS
    Assocs,        \* associations; a base station that reconnects makes a new one
    Messages,      \* what a base station sends: [len, bad], in bytes; bad if it has
                   \* a marker after bytes that are no text
    BufferSize,    \* SPEC_SIZE, spectrogram_size
    SampleSize,    \* bytes of a sample (complex64)
    MaxChunks,     \* bound: messages sent on each association
    NULL

ASSUME E2LikeConstants ==
    /\ Messages \subseteq [len : Nat \ {0}, bad : BOOLEAN]
    /\ BufferSize \in Nat \ {0} /\ SampleSize \in Nat \ {0}
    /\ MaxChunks \in [Assocs -> Nat]
    /\ NULL \notin Assocs

VARIABLES
    app,       \* which of the two xApps this is
    link,      \* state of each association, as the server's kernel knows it
    backlog,   \* associations waiting to be accepted
    rx,        \* chunks received and not read yet
    sent,      \* chunks sent on each association
    pc,        \* where entry is
    conn,      \* the association accepted last
    early,     \* is it less than a second since it was accepted?
    data,      \* the chunks collected
    size,      \* len(data)
    verdict,   \* what the classifier says
    got,       \* history: bytes read of each association
    cmds       \* history: commands sent on each association

network == <<link, backlog, rx, sent>>
counters == <<got, cmds>>
vars == <<app, network, pc, conn, early, data, size, verdict, counters>>

\* The k-th message of an association.
Chunk(a, k, m) == [assoc |-> a, seq |-> k, len |-> m.len, bad |-> m.bad]

Init ==
    /\ app \in {"ic", "ml"}
    /\ link = [a \in Assocs |-> "none"] /\ backlog = << >>
    /\ rx = [a \in Assocs |-> << >>] /\ sent = [a \in Assocs |-> 0]
    /\ pc = "accept" /\ conn = NULL /\ early = FALSE
    /\ data = << >> /\ size = 0 /\ verdict = NULL
    /\ got = [a \in Assocs |-> 0] /\ cmds = [a \in Assocs |-> 0]

-----------------------------------------------------------------------------
\* Base stations and the kernel (external)

connect(a) ==
    /\ link[a] = "none" /\ pc # "crashed"
    /\ link' = [link EXCEPT ![a] = "up"]
    /\ backlog' = Append(backlog, a)
    /\ UNCHANGED <<app, rx, sent, pc, conn, early, data, size, verdict, counters>>

send_chunk(a, m) ==
    /\ link[a] = "up" /\ sent[a] < MaxChunks[a]
    /\ sent' = [sent EXCEPT ![a] = @ + 1]
    /\ rx' = [rx EXCEPT ![a] = Append(@, Chunk(a, sent[a] + 1, m))]
    /\ UNCHANGED <<app, link, backlog, pc, conn, early, data, size, verdict, counters>>

\* The base station shuts down or aborts the association; what was received
\* before can still be read.
disconnect(a, how) ==
    /\ link[a] = "up"
    /\ link' = [link EXCEPT ![a] = how]
    /\ UNCHANGED <<app, backlog, rx, sent, pc, conn, early, data, size, verdict, counters>>

second_passes ==
    /\ early
    /\ early' = FALSE
    /\ UNCHANGED <<app, network, pc, conn, data, size, verdict, counters>>

\* Kubernetes starts the xApp again: all associations are gone.
restart ==
    /\ pc = "crashed"
    /\ link' = [a \in Assocs |-> IF link[a] = "none" THEN "none" ELSE "closed"]
    /\ backlog' = << >> /\ rx' = [a \in Assocs |-> << >>]
    /\ pc' = "accept" /\ conn' = NULL /\ early' = FALSE
    /\ data' = << >> /\ size' = 0 /\ verdict' = NULL
    /\ UNCHANGED <<app, sent, counters>>

-----------------------------------------------------------------------------
\* entry

\* The variable conn held the only reference to the association before.
accept ==
    LET a == Head(backlog) IN
    /\ pc = "accept" /\ backlog # << >>
    /\ backlog' = Tail(backlog)
    /\ link' = [b \in Assocs |-> IF b = conn THEN "closed" ELSE link[b]]
    /\ conn' = a /\ early' = TRUE
    /\ pc' = "request"
    /\ UNCHANGED <<app, rx, sent, data, size, verdict, counters>>

\* Mutant: a request is due in the first second only, in both xApps.
request_once ==
    /\ pc = "request"
    /\ pc' = IF early /\ link[conn] # "up" THEN "accept" ELSE "recv"
    /\ UNCHANGED <<app, network, conn, early, data, size, verdict, counters>>

\* Mutant: after the first second the answer to a request is not waited for.
request_unanswered ==
    /\ pc = "request"
    /\ pc' = IF ~early THEN "request" ELSE IF link[conn] # "up" THEN "accept" ELSE "recv"
    /\ UNCHANGED <<app, network, conn, early, data, size, verdict, counters>>

\* Sending raises an OSError on an association that has ended.
request ==
    /\ pc = "request"
    /\ pc' = IF (early \/ app = "ml") /\ link[conn] # "up" THEN "accept" ELSE "recv"
    /\ UNCHANGED <<app, network, conn, early, data, size, verdict, counters>>

\* Mutant: the chunks of the last buffer are kept.
recv_first_appends ==
    LET c == Head(rx[conn]) IN
    /\ pc = "recv" /\ rx[conn] # << >>
    /\ rx' = [rx EXCEPT ![conn] = Tail(@)]
    /\ data' = Append(data, c) /\ size' = size + c.len
    /\ got' = [got EXCEPT ![conn] = @ + c.len]
    /\ pc' = "fill"
    /\ UNCHANGED <<app, link, backlog, sent, conn, early, verdict, cmds>>

recv_first ==
    LET c == Head(rx[conn]) IN
    /\ pc = "recv" /\ rx[conn] # << >>
    /\ rx' = [rx EXCEPT ![conn] = Tail(@)]
    /\ data' = <<c>> /\ size' = c.len
    /\ got' = [got EXCEPT ![conn] = @ + c.len]
    /\ pc' = "fill"
    /\ UNCHANGED <<app, link, backlog, sent, conn, early, verdict, cmds>>

\* Nothing is left to read: recv returns no bytes after a shutdown, and raises
\* an OSError after an abort.
recv_nothing ==
    /\ pc = "recv" /\ rx[conn] = << >> /\ link[conn] # "up"
    /\ pc' = IF link[conn] = "aborted" THEN "accept" ELSE "request"
    /\ UNCHANGED <<app, network, conn, early, data, size, verdict, counters>>

\* Mutant: one more chunk is waited for when the buffer is just full.
recv_more_past_end ==
    LET c == Head(rx[conn]) IN
    /\ pc = "fill" /\ size <= BufferSize /\ rx[conn] # << >>
    /\ rx' = [rx EXCEPT ![conn] = Tail(@)]
    /\ data' = Append(data, c) /\ size' = size + c.len
    /\ got' = [got EXCEPT ![conn] = @ + c.len]
    /\ UNCHANGED <<app, link, backlog, sent, pc, conn, early, verdict, cmds>>

\* While the buffer is short.  After a shutdown this loop adds no bytes for ever.
recv_more ==
    LET c == Head(rx[conn]) IN
    /\ pc = "fill" /\ size < BufferSize /\ rx[conn] # << >>
    /\ rx' = [rx EXCEPT ![conn] = Tail(@)]
    /\ data' = Append(data, c) /\ size' = size + c.len
    /\ got' = [got EXCEPT ![conn] = @ + c.len]
    /\ UNCHANGED <<app, link, backlog, sent, pc, conn, early, verdict, cmds>>

recv_more_aborted ==
    /\ pc = "fill" /\ size < BufferSize /\ rx[conn] = << >> /\ link[conn] = "aborted"
    /\ pc' = "accept"
    /\ UNCHANGED <<app, network, conn, early, data, size, verdict, counters>>

\* Errors that are no OSError, and end the xApp: the bytes before the marker do
\* not decode, or the length is not that of a number of samples.
Malformed == \/ app = "ic" /\ \E k \in DOMAIN data : data[k].bad
             \/ size % SampleSize # 0

\* None means that there is nothing to do.
Verdicts == IF app = "ic" THEN {"interference", "clean"} ELSE {"interference", "clean", NULL}

\* Mutant: the first chunk is enough.
run_prediction_early ==
    /\ pc = "fill"
    /\ pc' = "command" /\ verdict' \in Verdicts
    /\ UNCHANGED <<app, network, conn, early, data, size, counters>>

run_prediction ==
    /\ pc = "fill" /\ size >= BufferSize
    /\ IF Malformed THEN pc' = "crashed" /\ UNCHANGED verdict
                    ELSE pc' = "command" /\ verdict' \in Verdicts
    /\ UNCHANGED <<app, network, conn, early, data, size, counters>>

\* The command that goes with the verdict is sent.
command ==
    /\ pc = "command"
    /\ IF verdict # NULL /\ link[conn] # "up" THEN pc' = "accept" ELSE pc' = "request"
    /\ cmds' = IF verdict # NULL /\ link[conn] = "up"
               THEN [cmds EXCEPT ![conn] = @ + 1] ELSE cmds
    /\ UNCHANGED <<app, network, conn, early, data, size, verdict, got>>

-----------------------------------------------------------------------------
Entry == \/ accept \/ request \/ recv_first \/ recv_nothing \/ recv_more
         \/ recv_more_aborted \/ run_prediction \/ command

Next ==
    \/ Entry \/ second_passes \/ restart
    \/ \E a \in Assocs :
        \/ connect(a)
        \/ \E m \in Messages : send_chunk(a, m)
        \/ \E how \in {"closed", "aborted"} : disconnect(a, how)

Spec == Init /\ [][Next]_vars

\* The thread runs, time passes, and Kubernetes restarts the xApp; base stations
\* owe nothing.
FairSpec == Spec /\ WF_vars(Entry) /\ WF_vars(second_passes) /\ WF_vars(restart)

-----------------------------------------------------------------------------
\* Properties

Chunks == [assoc : Assocs, seq : Nat, len : Nat \ {0}, bad : BOOLEAN]
NetworkOK ==
    /\ link \in [Assocs -> {"none", "up", "closed", "aborted"}]
    /\ backlog \in Seq(Assocs) /\ rx \in [Assocs -> Seq(Chunks)]
    /\ sent \in [Assocs -> Nat]
LoopOK ==
    /\ app \in {"ic", "ml"}
    /\ pc \in {"accept", "request", "recv", "fill", "command", "crashed"}
    /\ conn \in Assocs \cup {NULL} /\ early \in BOOLEAN
    /\ conn = NULL => pc = "accept"
    /\ verdict \in {"interference", "clean", NULL}
\* No chunk is read that the buffer does not need.
DataOK ==
    /\ data \in Seq(Chunks) /\ size \in Nat
    /\ Len(data) > 1 => size - data[Len(data)].len < BufferSize
CountsOK == got \in [Assocs -> Nat] /\ cmds \in [Assocs -> Nat]
TypeOK == NetworkOK /\ LoopOK /\ DataOK /\ CountsOK

\* What is classified comes from the association the command goes to, without a
\* gap and without chunks of a buffer or an association before it: however
\* associations break off and follow each other, the first recv starts afresh.
BufferOfOneAssociation ==
    pc \in {"fill", "command"} =>
        /\ data # << >>
        /\ \A k \in DOMAIN data :
            /\ data[k].assoc = conn
            /\ data[k].seq = data[1].seq + k - 1
        /\ rx[conn] # << >> => Head(rx[conn]).seq = data[Len(data)].seq + 1

\* No bytes are used twice: every command a base station gets rests on a full
\* buffer of its own data.
CommandsEarned ==
    \A a \in Assocs :
        got[a] >= BufferSize * (cmds[a] + (IF pc = "command" /\ conn = a THEN 1 ELSE 0))

\* Data that reaches the server is read, unless the association is left.
DataRead ==
    \A a \in Assocs :
        (conn = a /\ rx[a] # << >>) ~> (conn # a \/ rx[a] = << >> \/ pc = "accept")

\* An association that has ended is left for the next one: whenever it was
\* aborted, and if it was shut down, when that happened between two buffers and
\* the xApp sends a request in every turn.
LeavesClosed ==
    \A a \in Assocs :
        (/\ conn = a
         /\ \/ link[a] = "aborted"
            \/ app = "ml" /\ pc = "request" /\ link[a] = "closed") ~> pc = "accept"

=============================================================================
