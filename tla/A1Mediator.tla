----------------------------- MODULE A1Mediator -----------------------------
(***************************************************************************)
(* The A1 mediator (ric-plt-a1/a1): the policy store of data.py, the HTTP  *)
(* handlers of controller.py and the RMR work loop of a1rmr.py.            *)
(*                                                                         *)
(* Threads and what is atomic.  The gevent server runs one HTTP handler at *)
(* a time to its end (nothing is monkey-patched, so an SDL call does not   *)
(* yield).  Beside it run, as operating system threads, the RMR loop, one  *)
(* sender thread per turn of the loop and one thread per accepted DELETE.  *)
(* Every SDL call is one step.  Consecutive reads of a thread that no      *)
(* other thread's write can tell apart are merged into one step.           *)
(*                                                                         *)
(* A PUT is identified by its number: it stands for the policy payload and *)
(* for its created_at time stamp.  SDL contents survive a restart of the   *)
(* process; threads and queues do not.                                     *)
(***************************************************************************)
EXTENDS Integers, Sequences, FiniteSets

CONSTANTS
    TypeIds,     \* policy type ids
    InstIds,     \* policy instance ids
    Handlers,    \* handler ids of the xApps that answer
    Statuses,    \* what a handler reports
    Queries,     \* the policy types xApps query with A1_POLICY_QUERY
    DelThreads,  \* bound: _delete_after threads alive at a time
    Senders,     \* bound: _handle_sends threads alive at a time
    MaxPuts,     \* bound: PUT requests that reach the store
    MaxJobs,     \* bound: jobs ever queued for the sender threads
    MaxEi,       \* bound: EI results ever posted for delivery
    MaxBatch,    \* bound: messages returned by one call of rcv_func
    MaxFaults,   \* bound: SDL errors, process crashes and EI service errors
    NULL

ASSUME A1Constants ==
    /\ TypeIds # {} /\ InstIds # {}
    /\ Queries \subseteq TypeIds
    /\ MaxPuts \in Nat /\ MaxJobs \in Nat /\ MaxEi \in Nat
    /\ MaxBatch \in Nat /\ MaxFaults \in Nat
    /\ NULL \notin Nat /\ NULL \notin TypeIds \X InstIds
    /\ NULL \notin [created : Nat, deleted : BOOLEAN]
    /\ NULL \notin [s : Statuses, at : Nat]

VARIABLES
    types,   \* SDL: the policy types that have a key
    inst,    \* SDL: number of the PUT whose payload is stored, or NULL
    meta,    \* SDL: instance metadata, or NULL
    hand,    \* SDL: per instance and handler, the status reported, or NULL
    http,    \* the HTTP handler being run
    delt,    \* the _delete_after threads
    loop,    \* the RMR loop thread
    sndr,    \* the _handle_sends threads
    jobs,    \* every job put in instance_send_queue since the beginning
    head,    \* the jobs taken off the queue: jobs[head+1 ..] are waiting
    eiput,   \* the items ever put in ei_job_result_queue
    eigot,   \* the items taken off it
    nsent,   \* how often a sender has handed each job to RMR
    puts,    \* PUT requests that reached the store
    faults,  \* faults so far
    restarted, \* has the process been restarted?
    dropped, \* the jobs lost in a restart, queued or in a sender's hands
    undone   \* the jobs of accepted DELETEs whose last thread was lost

sdl == <<types, inst, meta, hand>>
queues == <<jobs, head, eiput, eigot, nsent>>
restarts == <<restarted, dropped, undone>>
history == <<puts, faults, restarts>>
vars == <<sdl, http, delt, loop, sndr, queues, history>>

Keys == TypeIds \X InstIds
AnyKey == CHOOSE k \in Keys : TRUE
TypeKey(t) == <<t, CHOOSE i \in InstIds : TRUE>>
JobIds == 1 .. MaxJobs
Metadata == [created : Nat, deleted : BOOLEAN]
Status == [s : Statuses, at : Nat]
Operations == {"CREATE", "UPDATE", "DELETE"}
HttpPcs == {"idle", "tdel", "find", "clear", "set", "setmeta", "queue",
            "dget", "dmark", "dstat", "dstart", "sget", "sstat"}
HttpOps == Operations \cup {"none", "TYPE", "STATUS"}

-----------------------------------------------------------------------------
\* data.py: validity checks and handler keys

type_is_valid(t) == t \in types
instance_is_valid(k) == type_is_valid(k[1]) /\ inst[k] # NULL
get_instance_list(t) == {k \in Keys : k[1] = t /\ inst[k] # NULL}
HandlerKeys(k) == {h \in Handlers : hand[k][h] # NULL}
DropHandler(k, h) == hand' = [hand EXCEPT ![k] = [@ EXCEPT ![h] = NULL]]

\* The states of the three kinds of thread that wait for work.
HttpIdle ==
    [pc |-> "idle", op |-> "none", key |-> AnyKey, n |-> 0, todo |-> {}, m |-> NULL]
DelIdle == [pc |-> "none", key |-> AnyKey, todo |-> {}]
LoopAt(pc, left) ==
    [pc |-> pc, left |-> left, key |-> AnyKey, h |-> NULL, s |-> NULL, todo |-> {}]
SenderAt(pc, job) == [pc |-> pc, job |-> job]

Init ==
    /\ types = {}
    /\ inst = [k \in Keys |-> NULL]
    /\ meta = [k \in Keys |-> NULL]
    /\ hand = [k \in Keys |-> [h \in Handlers |-> NULL]]
    /\ http = HttpIdle
    /\ delt = [d \in DelThreads |-> DelIdle]
    /\ loop = LoopAt("top", 0)
    /\ sndr = [s \in Senders |-> SenderAt("idle", 0)]
    /\ jobs = << >> /\ head = 0 /\ eiput = 0 /\ eigot = 0
    /\ nsent = [j \in JobIds |-> 0]
    /\ puts = 0 /\ faults = 0
    /\ restarted = FALSE /\ dropped = {} /\ undone = {}

-----------------------------------------------------------------------------
\* controller.py: policy types

\* The handler returns (its HTTP status code is in the comments).
Return == http' = HttpIdle

\* An id that differs from the body's, or is taken, is refused (400).
create_policy_type(t) ==
    /\ http.pc = "idle"
    /\ \/ /\ t \notin types
          /\ types' = types \cup {t}
          /\ Return
       \/ /\ Return
          /\ UNCHANGED types
    /\ UNCHANGED <<inst, meta, hand, delt, loop, sndr, queues, history>>

\* Mutant: the instance list is not looked at.
delete_policy_type_unchecked(t) ==
    /\ http.pc = "idle"
    /\ http' = IF ~type_is_valid(t) THEN HttpIdle
               ELSE [HttpIdle EXCEPT !.pc = "tdel", !.op = "TYPE", !.key = TypeKey(t)]
    /\ UNCHANGED <<sdl, delt, loop, sndr, queues, history>>

\* An unknown type is 404, one with instances 400; the key is deleted next.
delete_policy_type(t) ==
    /\ http.pc = "idle"
    /\ http' = IF ~type_is_valid(t) THEN HttpIdle
               ELSE IF get_instance_list(t) # {} THEN HttpIdle
               ELSE [HttpIdle EXCEPT !.pc = "tdel", !.op = "TYPE", !.key = TypeKey(t)]
    /\ UNCHANGED <<sdl, delt, loop, sndr, queues, history>>

delete_type_key ==
    /\ http.pc = "tdel"
    /\ types' = types \ {http.key[1]}
    /\ Return
    /\ UNCHANGED <<inst, meta, hand, delt, loop, sndr, queues, history>>

-----------------------------------------------------------------------------
\* controller.py, data.py: PUT of a policy instance

\* A missing type is 404, a body the schema refuses 400; otherwise the key is
\* read to tell a creation from an update.
create_or_replace_policy_instance(k) ==
    /\ http.pc = "idle"
    /\ puts < MaxPuts /\ Len(jobs) < MaxJobs
    /\ \/ /\ Return
          /\ UNCHANGED puts
       \/ /\ type_is_valid(k[1])
          /\ puts' = puts + 1
          /\ http' = [HttpIdle EXCEPT
                        !.pc = IF inst[k] = NULL THEN "set" ELSE "find",
                        !.op = IF inst[k] = NULL THEN "CREATE" ELSE "UPDATE",
                        !.key = k, !.n = puts + 1]
    /\ UNCHANGED <<sdl, delt, loop, sndr, queues, faults, restarts>>

\* Mutant: an UPDATE keeps the statuses of the instance it overwrites.
put_find_handlers_none ==
    /\ http.pc = "find"
    /\ http' = [http EXCEPT !.pc = "set"]
    /\ UNCHANGED <<sdl, delt, loop, sndr, queues, history>>

\* _clear_handlers for an UPDATE: one read, then one delete per key found.
put_find_handlers ==
    /\ http.pc = "find"
    /\ http' = [http EXCEPT !.todo = HandlerKeys(http.key),
                            !.pc = IF HandlerKeys(http.key) = {} THEN "set" ELSE "clear"]
    /\ UNCHANGED <<sdl, delt, loop, sndr, queues, history>>

put_clear_handler(h) ==
    /\ http.pc = "clear" /\ h \in http.todo
    /\ DropHandler(http.key, h)
    /\ http' = [http EXCEPT !.todo = @ \ {h},
                            !.pc = IF http.todo = {h} THEN "set" ELSE "clear"]
    /\ UNCHANGED <<types, inst, meta, delt, loop, sndr, queues, history>>

put_set_instance ==
    /\ http.pc = "set"
    /\ inst' = [inst EXCEPT ![http.key] = http.n]
    /\ http' = [http EXCEPT !.pc = "setmeta"]
    /\ UNCHANGED <<types, meta, hand, delt, loop, sndr, queues, history>>

put_set_metadata ==
    /\ http.pc = "setmeta"
    /\ meta' = [meta EXCEPT ![http.key] = [created |-> http.n, deleted |-> FALSE]]
    /\ http' = [http EXCEPT !.pc = "queue"]
    /\ UNCHANGED <<types, inst, hand, delt, loop, sndr, queues, history>>

\* The last step of an accepted PUT and of an accepted DELETE.
queue_instance_send ==
    /\ http.pc = "queue"
    /\ jobs' = Append(jobs, [op |-> http.op, key |-> http.key, n |-> http.n])
    /\ Return
    /\ UNCHANGED <<sdl, delt, loop, sndr, head, eiput, eigot, nsent, history>>

-----------------------------------------------------------------------------
\* controller.py, data.py: DELETE of a policy instance

\* A missing type or instance is 404.  A DELETE has the number of the last PUT.
delete_policy_instance(k) ==
    /\ http.pc = "idle"
    /\ Len(jobs) < MaxJobs /\ \E d \in DelThreads : delt[d].pc = "none"
    /\ http' = IF ~instance_is_valid(k) THEN HttpIdle
               ELSE [HttpIdle EXCEPT !.pc = "dget", !.op = "DELETE", !.key = k, !.n = puts]
    /\ UNCHANGED <<sdl, delt, loop, sndr, queues, history>>

\* Subscripting the missing metadata raises TypeError, which becomes a 500.
delete_get_metadata ==
    /\ http.pc = "dget"
    /\ http' = IF meta[http.key] = NULL THEN HttpIdle
               ELSE [http EXCEPT !.pc = "dmark", !.m = meta[http.key]]
    /\ UNCHANGED <<sdl, delt, loop, sndr, queues, history>>

\* Mutant: the DELETE removes the instance at once.
delete_mark_at_once ==
    /\ http.pc = "dmark"
    /\ meta' = [meta EXCEPT ![http.key] = [created |-> http.m.created, deleted |-> TRUE]]
    /\ inst' = [inst EXCEPT ![http.key] = NULL]
    /\ http' = [http EXCEPT !.pc = "dstat"]
    /\ UNCHANGED <<types, hand, delt, loop, sndr, queues, history>>

delete_mark ==
    /\ http.pc = "dmark"
    /\ meta' = [meta EXCEPT ![http.key] = [created |-> http.m.created, deleted |-> TRUE]]
    /\ http' = [http EXCEPT !.pc = "dstat"]
    /\ UNCHANGED <<types, inst, hand, delt, loop, sndr, queues, history>>

\* _get_statuses checks the instance again (404, with the mark left behind)
\* before it reads the statuses; these only choose between two time-outs.
delete_get_statuses ==
    /\ http.pc = "dstat"
    /\ http' = IF ~instance_is_valid(http.key) THEN HttpIdle
               ELSE [http EXCEPT !.pc = "dstart"]
    /\ UNCHANGED <<sdl, delt, loop, sndr, queues, history>>

\* Mutant: no thread is started when a handler has answered.
delete_start_thread_no_resp(d) ==
    /\ http.pc = "dstart" /\ delt[d].pc = "none"
    /\ delt' = IF HandlerKeys(http.key) # {} THEN delt
               ELSE [delt EXCEPT ![d] = [pc |-> "start", key |-> http.key, todo |-> {}]]
    /\ http' = [http EXCEPT !.pc = "queue"]
    /\ UNCHANGED <<sdl, loop, sndr, queues, history>>

delete_start_thread(d) ==
    /\ http.pc = "dstart" /\ delt[d].pc = "none"
    /\ delt' = [delt EXCEPT ![d] = [pc |-> "start", key |-> http.key, todo |-> {}]]
    /\ http' = [http EXCEPT !.pc = "queue"]
    /\ UNCHANGED <<sdl, loop, sndr, queues, history>>

-----------------------------------------------------------------------------
\* controller.py, data.py: GET of an instance's status; EI data delivery

get_policy_instance_status(k) ==
    /\ http.pc = "idle"
    /\ http' = IF ~instance_is_valid(k) THEN HttpIdle
               ELSE [HttpIdle EXCEPT !.pc = "sget", !.op = "STATUS", !.key = k]
    /\ UNCHANGED <<sdl, delt, loop, sndr, queues, history>>

\* Assigning into the missing metadata raises TypeError, which becomes a 500.
status_get_metadata ==
    /\ http.pc = "sget"
    /\ http' = IF meta[http.key] = NULL THEN HttpIdle
               ELSE [http EXCEPT !.pc = "sstat"]
    /\ UNCHANGED <<sdl, delt, loop, sndr, queues, history>>

\* 200, or 404 if the instance went away after its metadata was read.
status_get_statuses ==
    /\ http.pc = "sstat"
    /\ Return
    /\ UNCHANGED <<sdl, delt, loop, sndr, queues, history>>

data_delivery ==
    /\ http.pc = "idle" /\ eiput < MaxEi
    /\ eiput' = eiput + 1
    /\ Return
    /\ UNCHANGED <<sdl, delt, loop, sndr, jobs, head, eigot, nsent, history>>

-----------------------------------------------------------------------------
\* data.py: the _delete_after thread

\* Thread d goes on to pc, with the handler keys todo still to be deleted.
Deleter(d, pc, todo) ==
    delt' = [delt EXCEPT ![d] = [pc |-> pc, key |-> delt[d].key, todo |-> todo]]
EndDeleter(d) == delt' = [delt EXCEPT ![d] = DelIdle]

\* A thread that finds its instance gone ends with an exception.
delete_after_check(d) ==
    /\ delt[d].pc = "start"
    /\ IF instance_is_valid(delt[d].key) THEN Deleter(d, "sleep", {}) ELSE EndDeleter(d)
    /\ UNCHANGED <<sdl, http, loop, sndr, queues, history>>

\* Mutant: the thread waits for a handler's answer instead of for the time-out.
delete_after_expire_acked(d) ==
    /\ delt[d].pc = "sleep" /\ HandlerKeys(delt[d].key) # {}
    /\ Deleter(d, "clear", HandlerKeys(delt[d].key))
    /\ UNCHANGED <<sdl, http, loop, sndr, queues, history>>

\* The time-out has expired: read the handler keys, then delete each of them.
delete_after_expire(d) ==
    /\ delt[d].pc = "sleep"
    /\ LET found == HandlerKeys(delt[d].key)
       IN  Deleter(d, IF found = {} THEN "inst" ELSE "clear", found)
    /\ UNCHANGED <<sdl, http, loop, sndr, queues, history>>

delete_after_clear(d, h) ==
    /\ delt[d].pc = "clear" /\ h \in delt[d].todo
    /\ DropHandler(delt[d].key, h)
    /\ Deleter(d, IF delt[d].todo = {h} THEN "inst" ELSE "clear", delt[d].todo \ {h})
    /\ UNCHANGED <<types, inst, meta, http, loop, sndr, queues, history>>

delete_after_instance(d) ==
    /\ delt[d].pc = "inst"
    /\ inst' = [inst EXCEPT ![delt[d].key] = NULL]
    /\ Deleter(d, "meta", {})
    /\ UNCHANGED <<types, meta, hand, http, loop, sndr, queues, history>>

delete_after_metadata(d) ==
    /\ delt[d].pc = "meta"
    /\ meta' = [meta EXCEPT ![delt[d].key] = NULL]
    /\ EndDeleter(d)
    /\ UNCHANGED <<types, inst, hand, http, loop, sndr, queues, history>>

-----------------------------------------------------------------------------
\* a1rmr.py: the RMR loop

\* One turn: start a sender thread, then read a batch of messages.
loop_turn ==
    /\ loop.pc = "top"
    /\ \/ \E s \in Senders :
            /\ sndr[s].pc = "idle"
            /\ sndr' = [sndr EXCEPT ![s] = SenderAt("check", 0)]
       \/ /\ \A s \in Senders : sndr[s].pc # "idle"
          /\ UNCHANGED sndr
    /\ \E n \in 0 .. MaxBatch : loop' = LoopAt("msgs", n)
    /\ UNCHANGED <<sdl, http, delt, queues, history>>

\* The loop after a message: the next one of the batch.
NextMessage == LoopAt("msgs", loop.left - 1)

\* A1_POLICY_RESPONSE: set_policy_instance_status checks type and instance,
\* then writes; a response for what is not there is dropped with a warning.
policy_response(k, h, s) ==
    /\ loop.pc = "msgs" /\ loop.left > 0
    /\ loop' = IF instance_is_valid(k)
               THEN [loop EXCEPT !.pc = "set", !.key = k, !.h = h, !.s = s]
               ELSE NextMessage
    /\ UNCHANGED <<sdl, http, delt, sndr, queues, history>>

set_policy_instance_status ==
    /\ loop.pc = "set"
    /\ hand' = [hand EXCEPT ![loop.key] =
                  [@ EXCEPT ![loop.h] = [s |-> loop.s, at |-> puts]]]
    /\ loop' = NextMessage
    /\ UNCHANGED <<types, inst, meta, http, delt, sndr, queues, history>>

\* A1_POLICY_QUERY: list the instances of a type, then fetch and return each.
policy_query(t) ==
    /\ loop.pc = "msgs" /\ loop.left > 0
    /\ loop' = IF type_is_valid(t) /\ get_instance_list(t) # {}
               THEN [loop EXCEPT !.pc = "query", !.todo = get_instance_list(t)]
               ELSE NextMessage
    /\ UNCHANGED <<sdl, http, delt, sndr, queues, history>>

\* get_policy_instance raises PolicyTypeNotFound, which ends the answer, or
\* PolicyInstanceNotFound, which nothing catches: the loop thread ends.
query_check(k) ==
    /\ loop.pc = "query" /\ k \in loop.todo
    /\ loop' = IF ~type_is_valid(k[1]) THEN NextMessage
               ELSE IF inst[k] = NULL THEN LoopAt("dead", 0)
               ELSE [loop EXCEPT !.pc = "fetch", !.key = k]
    /\ UNCHANGED <<sdl, http, delt, sndr, queues, history>>

\* The second read and the reply to the sender, whatever that read returned.
query_reply ==
    /\ loop.pc = "fetch"
    /\ loop' = IF loop.todo = {loop.key} THEN NextMessage
               ELSE [loop EXCEPT !.pc = "query", !.key = AnyKey, !.todo = @ \ {loop.key}]
    /\ UNCHANGED <<sdl, http, delt, sndr, queues, history>>

\* An EI message is answered with what the EI service returned; the loop has
\* no handler for an exception of that request or of a malformed payload.
ei_message ==
    /\ loop.pc = "msgs" /\ loop.left > 0
    /\ \/ /\ loop' = NextMessage
          /\ UNCHANGED faults
       \/ /\ faults < MaxFaults
          /\ faults' = faults + 1
          /\ loop' = LoopAt("dead", 0)
    /\ UNCHANGED <<sdl, http, delt, sndr, queues, puts, restarts>>

loop_sleep ==
    /\ loop.pc = "msgs" /\ loop.left = 0
    /\ loop' = LoopAt("top", 0)
    /\ UNCHANGED <<sdl, http, delt, sndr, queues, history>>

-----------------------------------------------------------------------------
\* a1rmr.py: a _handle_sends thread

Sender(s, next) == sndr' = [sndr EXCEPT ![s] = next]

sends_empty(s) ==
    /\ sndr[s].pc = "check"
    /\ Sender(s, SenderAt(IF head < Len(jobs) THEN "get" ELSE "eicheck", 0))
    /\ UNCHANGED <<sdl, http, delt, loop, queues, history>>

\* Mutant: the queue is not asked again whether it is empty.
sends_get_unchecked(s) ==
    /\ sndr[s].pc = "get"
    /\ head' = head + 1
    /\ Sender(s, SenderAt("send", head + 1))
    /\ UNCHANGED <<sdl, http, delt, loop, jobs, eiput, eigot, nsent, history>>

\* Mutant: the job is looked at and stays in the queue when another sender is
\* looking at it too.
sends_get_peek(s) ==
    /\ sndr[s].pc = "get"
    /\ IF head < Len(jobs)
       THEN /\ head' = IF \E r \in Senders \ {s} : sndr[r].pc = "get" THEN head ELSE head + 1
            /\ Sender(s, SenderAt("send", head + 1))
       ELSE /\ Sender(s, SenderAt("idle", 0))
            /\ UNCHANGED head
    /\ UNCHANGED <<sdl, http, delt, loop, jobs, eiput, eigot, nsent, history>>

\* get(block=False) raises queue.Empty, which ends the thread, if another
\* sender took the last job after empty() was asked.
sends_get(s) ==
    /\ sndr[s].pc = "get"
    /\ IF head < Len(jobs)
       THEN /\ head' = head + 1
            /\ Sender(s, SenderAt("send", head + 1))
       ELSE /\ Sender(s, SenderAt("idle", 0))
            /\ UNCHANGED head
    /\ UNCHANGED <<sdl, http, delt, loop, jobs, eiput, eigot, nsent, history>>

\* RMR takes the message, or refuses it for good or RETRY_TIMES times: either
\* way the job is not tried again.
send_msg(s) ==
    /\ sndr[s].pc = "send"
    /\ nsent' = [nsent EXCEPT ![sndr[s].job] = @ + 1]
    /\ Sender(s, SenderAt("check", 0))
    /\ UNCHANGED <<sdl, http, delt, loop, jobs, head, eiput, eigot, history>>

sends_ei_empty(s) ==
    /\ sndr[s].pc = "eicheck"
    /\ Sender(s, SenderAt(IF eigot < eiput THEN "eiget" ELSE "idle", 0))
    /\ UNCHANGED <<sdl, http, delt, loop, queues, history>>

\* queue.Empty, or a job id that int() refuses, ends the thread.
sends_ei_get(s) ==
    /\ sndr[s].pc = "eiget"
    /\ \/ /\ eigot < eiput
          /\ eigot' = eigot + 1
          /\ \E pc \in {"eicheck", "idle"} : Sender(s, SenderAt(pc, 0))
       \/ /\ eigot = eiput
          /\ Sender(s, SenderAt("idle", 0))
          /\ UNCHANGED eigot
    /\ UNCHANGED <<sdl, http, delt, loop, jobs, head, eiput, nsent, history>>

-----------------------------------------------------------------------------
\* Faults

\* A thread that has not yet removed the instance of a DELETE is alive.
DeletePending(k) ==
    \E d \in DelThreads : delt[d].key = k /\ delt[d].pc \in {"start", "sleep", "clear", "inst"}
AcceptedDeletes == {j \in 1 .. Len(jobs) : jobs[j].op = "DELETE"}

\* The threads that are lost in a step leave these DELETEs undone.
LoseDeletes ==
    LET lost == {k \in Keys : DeletePending(k) /\ ~DeletePending(k)'}
    IN  undone' = undone \cup {j \in AcceptedDeletes : jobs[j].key \in lost}

\* An SDL call of an HTTP handler fails: 503, and what was done stays done.
http_sdl_error ==
    /\ http.pc \notin {"idle", "queue"} /\ faults < MaxFaults
    /\ Return
    /\ faults' = faults + 1
    /\ UNCHANGED <<sdl, delt, loop, sndr, queues, puts, restarts>>

\* An SDL call of a delete thread or of the loop fails: the thread ends.
thread_sdl_error ==
    /\ faults < MaxFaults
    /\ faults' = faults + 1
    /\ \/ \E d \in DelThreads :
            /\ delt[d].pc # "none"
            /\ EndDeleter(d)
            /\ UNCHANGED loop
            /\ LoseDeletes
       \/ /\ loop.pc \in {"set", "query", "fetch"}
          /\ loop' = LoopAt("dead", 0)
          /\ UNCHANGED <<delt, undone>>
    /\ UNCHANGED <<sdl, http, sndr, queues, puts, restarted, dropped>>

JobsInHand == {sndr[s].job : s \in {x \in Senders : sndr[x].pc = "send"}}

\* The process starts anew: its threads are gone, and so are its queues.
Volatile ==
    /\ http' = HttpIdle
    /\ delt' = [d \in DelThreads |-> DelIdle]
    /\ loop' = LoopAt("top", 0)
    /\ sndr' = [s \in Senders |-> SenderAt("idle", 0)]
    /\ head' = Len(jobs) /\ eigot' = eiput
    /\ restarted' = TRUE
    /\ dropped' = dropped \cup (head + 1 .. Len(jobs)) \cup JobsInHand
    /\ LoseDeletes
    /\ UNCHANGED <<sdl, jobs, eiput, nsent, puts>>

\* Mutant: the health check asks for the SDL only, not for the loop thread.
restart_unhealthy_sdl ==
    /\ loop.pc = "dead" /\ faults > 0
    /\ Volatile
    /\ UNCHANGED faults

\* The health check reports a dead loop thread and Kubernetes restarts A1.
restart_unhealthy ==
    /\ loop.pc = "dead"
    /\ Volatile
    /\ UNCHANGED faults

crash ==
    /\ faults < MaxFaults
    /\ faults' = faults + 1
    /\ Volatile

-----------------------------------------------------------------------------
HttpRequest ==
    \/ \E t \in TypeIds : create_policy_type(t) \/ delete_policy_type(t)
    \/ \E k \in Keys : \/ create_or_replace_policy_instance(k)
                       \/ delete_policy_instance(k)
                       \/ get_policy_instance_status(k)
    \/ data_delivery

HttpStep ==
    \/ delete_type_key
    \/ put_find_handlers
    \/ \E h \in Handlers : put_clear_handler(h)
    \/ put_set_instance \/ put_set_metadata \/ queue_instance_send
    \/ delete_get_metadata \/ delete_mark \/ delete_get_statuses
    \/ \E d \in DelThreads : delete_start_thread(d)
    \/ status_get_metadata \/ status_get_statuses

DeleteAfter(d) ==
    \/ delete_after_check(d) \/ delete_after_expire(d)
    \/ \E h \in Handlers : delete_after_clear(d, h)
    \/ delete_after_instance(d) \/ delete_after_metadata(d)

LoopStep ==
    \/ loop_turn
    \/ \E k \in Keys, h \in Handlers, s \in Statuses : policy_response(k, h, s)
    \/ set_policy_instance_status
    \/ \E t \in Queries : policy_query(t)
    \/ \E k \in Keys : query_check(k)
    \/ query_reply
    \/ ei_message
    \/ loop_sleep

HandleSends(s) ==
    \/ sends_empty(s) \/ sends_get(s) \/ send_msg(s)
    \/ sends_ei_empty(s) \/ sends_ei_get(s)

Fault == http_sdl_error \/ thread_sdl_error \/ crash

Next ==
    \/ HttpRequest \/ HttpStep
    \/ \E d \in DelThreads : DeleteAfter(d)
    \/ LoopStep
    \/ \E s \in Senders : HandleSends(s)
    \/ Fault \/ restart_unhealthy

Spec == Init /\ [][Next]_vars

\* Threads are scheduled, batches are finite and time-outs expire; Kubernetes
\* restarts an unhealthy pod.  No request, message or fault is ever owed.
Fairness ==
    /\ WF_vars(HttpStep)
    /\ WF_vars(LoopStep)
    /\ WF_vars(restart_unhealthy)
    /\ \A d \in DelThreads : WF_vars(DeleteAfter(d))
    /\ \A s \in Senders : WF_vars(HandleSends(s))
-----------------------------------------------------------------------------
\* Properties

SdlOK ==
    /\ types \subseteq TypeIds
    /\ inst \in [Keys -> Nat \cup {NULL}]
    /\ meta \in [Keys -> Metadata \cup {NULL}]
    /\ hand \in [Keys -> [Handlers -> Status \cup {NULL}]]
HttpOK ==
    /\ http \in [pc : HttpPcs, op : HttpOps, key : Keys, n : Nat, todo : SUBSET Handlers,
                 m : Metadata \cup {NULL}]
    /\ http.pc \in {"find", "clear", "set", "setmeta"} => http.op \in {"CREATE", "UPDATE"}
    /\ http.pc \in {"dget", "dmark", "dstat", "dstart"} => http.op = "DELETE"
    /\ http.pc = "queue" => http.op \in Operations
    /\ http.pc = "dmark" => http.m \in Metadata
DeletersOK ==
    delt \in [DelThreads -> [pc : {"none", "start", "sleep", "clear", "inst", "meta"},
                            key : Keys, todo : SUBSET Handlers]]
LoopOK ==
    /\ loop \in [pc : {"top", "msgs", "set", "query", "fetch", "dead"}, left : Nat, key : Keys,
                 h : Handlers \cup {NULL}, s : Statuses \cup {NULL}, todo : SUBSET Keys]
    /\ loop.pc \notin {"top", "dead"} => loop.left \in 0 .. MaxBatch
    /\ loop.pc \in {"set", "query", "fetch"} => loop.left > 0
    /\ loop.pc = "set" => loop.h \in Handlers /\ loop.s \in Statuses
QueuesOK ==
    /\ sndr \in [Senders -> [pc : {"idle", "check", "get", "send", "eicheck", "eiget"},
                             job : 0 .. head]]
    /\ jobs \in Seq([op : Operations, key : Keys, n : Nat])
    /\ head \in 0 .. Len(jobs)
    /\ eiput \in Nat /\ eigot \in 0 .. eiput
    /\ nsent \in [JobIds -> Nat]
HistoryOK ==
    /\ puts \in Nat /\ faults \in Nat /\ restarted \in BOOLEAN
    /\ dropped \subseteq Nat /\ undone \subseteq Nat

\* Every variable has its type; in particular the queue never gives out more
\* jobs than were put in it (a1rmr.py, _handle_sends) and a job held by a
\* sender thread is one that was taken off the queue.
TypeOK == SdlOK /\ HttpOK /\ DeletersOK /\ LoopOK /\ QueuesOK /\ HistoryOK

\* A policy type is never gone while the store holds an instance of it:
\* delete_policy_type reads the instance list and deletes the type's key in two
\* SDL calls, with delete threads and the RMR loop running in between.
InstanceHasType == \A k \in Keys : inst[k] # NULL => k[1] \in types

\* When an UPDATE has stored its payload, no status written before the request
\* began is left: "Reset the statuses because this is a new policy instance"
\* (data.py), although the keys are deleted one by one while the RMR loop and
\* delete threads write and delete handler keys.
UpdateResetsStatuses ==
    http.op = "UPDATE" /\ http.pc \in {"set", "setmeta", "queue"} =>
        \A h \in Handlers : hand[http.key][h] # NULL => hand[http.key][h].at >= http.n

\* The last request accepted for k was a DELETE.
LastAcceptedIsDelete(k) ==
    \E j \in 1 .. Len(jobs) :
        /\ jobs[j].key = k /\ jobs[j].op = "DELETE"
        /\ \A i \in 1 .. Len(jobs) : i > j => jobs[i].key # k

Putting(k) == http.pc # "idle" /\ http.op \in {"CREATE", "UPDATE"} /\ http.key = k

\* An accepted DELETE is not forgotten: as long as no SDL call has failed and
\* the process has not been restarted, the instance is gone or a _delete_after
\* thread that has not yet removed it is still alive, whatever other DELETEs,
\* their threads and status writes did in the meantime.
DeleteNotForgotten ==
    faults = 0 /\ ~restarted =>
        \A k \in Keys : LastAcceptedIsDelete(k) /\ ~Putting(k) =>
                            inst[k] = NULL \/ DeletePending(k)

\* The store as a client knows it: a DELETE is open while its thread lives.
OpenDeletes == {k \in Keys : DeletePending(k)}
Failed == faults > 0 \/ restarted
Store == INSTANCE PolicyStore WITH doomed <- OpenDeletes, failed <- Failed

\* Handlers, delete threads and the RMR loop, with their SDL calls in any order,
\* together implement PolicyStore: types, instances and DELETEs change only as a
\* single client would see it, one whole operation at a time.
ImplementsStore == Store!Spec

\* No job is handed to RMR twice, or still in a sender's hands afterwards,
\* although any number of _handle_sends threads empty the queue together.
JobsSentAtMostOnce ==
    /\ \A j \in JobIds : nsent[j] <= 1
    /\ \A s \in Senders : sndr[s].pc = "send" => nsent[sndr[s].job] = 0

\* Every queued job is handed to RMR, once, or it was lost with the process in a
\* restart, in the queue or in a sender's hands.  Sender threads die of
\* queue.Empty whenever another one outruns them, and a query that overlaps a
\* delete ends the RMR loop, which starts the senders: the health check must
\* then bring it back for the jobs that are queued while the loop is dead.
QueueDrains ==
    \A j \in JobIds : Len(jobs) >= j ~> nsent[j] = 1 \/ j \in dropped

\* If the last job of k is a DELETE, what it found is gone or replaced by a later
\* PUT, or its thread was lost.
DeleteSettled(k) ==
    \E j \in 1 .. Len(jobs) :
        /\ jobs[j].key = k
        /\ \A i \in j + 1 .. Len(jobs) : jobs[i].key # k
        /\ \/ jobs[j].op # "DELETE"
           \/ inst[k] # NULL => inst[k] > jobs[j].n
           \/ j \in undone

\* An accepted DELETE with a live thread takes effect: the instance it found
\* goes, or a later PUT replaces it, unless the thread is lost to an SDL error or
\* to a restart, be it the one that a dead RMR loop brings about.
DeleteTakesEffect ==
    \A k \in Keys : LastAcceptedIsDelete(k) /\ DeletePending(k) ~> DeleteSettled(k)

\* "This loop runs forever" (a1rmr.py, loop): without any fault the RMR thread
\* does not end.
LoopRunsForever == faults = 0 => loop.pc # "dead"

\* No HTTP handler and no delete thread is running.
AtRest == http.pc = "idle" /\ \A d \in DelThreads : delt[d].pc = "none"

\* "should be able to do multiple deletes until it's actually gone" (the tests):
\* DELETE of a stored instance needs its metadata, so at rest every stored
\* instance has metadata.
DeletableAtRest ==
    AtRest /\ faults = 0 /\ ~restarted => \A k \in Keys : inst[k] # NULL => meta[k] # NULL
=============================================================================
