# TLA+ models of the OAIC near-real-time RIC

The repository assembles a near-RT RIC: platform components (the A1 mediator,
the E2 termination), xApps (the KPI monitor and two "E2-like" xApps) and a large
deployment tree. This directory models the parts that hold run-time state and
are concurrent. TLC checks the models on small instances, and TLAPS proves the
most important invariants for every value of the constants.

    tlc -workers 2 -config MCE2Registry.cfg MCE2      # one of the runs below
    tlapm E2TermProofs.tla                            # one of the proof modules

`PROJECT.json` lists the runs, the lines of source each definition stands for,
the hazards and the theorems.

## Inventory

| Part | State | Operations | Hard behaviour | Module |
|---|---|---|---|---|
| A1 mediator, policy store (`ric-plt-a1/a1/data.py`, `controller.py`) | policy types, instances, metadata and handler statuses in SDL | PUT/DELETE types, PUT/DELETE/status of instances, `_delete_after` threads | every SDL call is a separate step; delete threads sleep for up to a time-out and act on what is there then; SDL errors half way | `A1Mediator` |
| A1 mediator, RMR loop (`a1rmr.py`) | job queue, EI queue, loop thread, sender threads | receive responses and queries, one sender thread per turn, restart through the health check | sender threads race for the queue; the loop dies of an uncaught exception; restart loses queues and threads | `A1Mediator` |
| E2 termination (`ric-plt-e2/RIC-E2-TERMINATION/sctpThread.cpp`) | `ConnectedCU_t` peers, `sctpMap`, epoll registrations | accept, read, set up, fail, clear all, forward | several listener threads on one edge-triggered epoll set, no lock around a peer, freed peers, reconnects | `E2Term` |
| E2 termination, start-up and configuration (`sctpThread.cpp`) | the handshake's counter, epoll batches, inotify queue, configuration file | read the configuration, start RMR, the watch, the port and the listeners; repeat `E2_TERM_INIT`; reload the file when it changes | lost messages, restarts; level-triggered descriptors that wake several listeners for one event; a file rewritten, broken or removed at any time | `E2TermStart` |
| KPI monitor, subscriptions (`ric-scp-kpimon/control/control.go`) | `ranList`, `eventCreateExpiredMap`, timers | send with retries, watch, handle answers | answers race timers and the recording of the request | `KpimonSubscription` |
| KPI monitor, indications (`control.go`, `e2ap.go`, `e2sm.go`, the C wrappers) | none between messages; flag and values during one | decode, write points, write a summary per container | panics half way through a message, values left from the previous container, arrays of fixed length, parsers at the edges of ranges | `KpimonIndication`, `KpimonE2sm` |
| E2-like xApps (`ric-app-ic-e2like/ic.py`, `ric-app-ml-e2like/app.py`) | one association, one buffer | accept, request, receive, predict, command | peers that shut down or break off in the middle of a buffer, data that does not decode | `E2LikeServer` |
| A1 mediator in Go (`ric-plt-a1/a1-go`) | policy types in SDL | create, get, list types | - | not modelled: does not compile |
| ASN.1 codecs, InfluxDB client, Helm charts, scripts | - | - | - | not modelled: generated, vendored, or without run-time state |

The A1 mediator talks to xApps over RMR (`A1_POLICY_REQ`, `_RESP`, `_QUERY`); the
E2 termination bridges SCTP associations of E2 nodes and RMR; the KPI monitor
sends RIC subscription requests over RMR, which the E2 termination forwards
(`RmrMessages` of type `"request"`). The components share no memory, so each
has a module of its own, in which the others appear as an environment that may
lose, delay and repeat messages.

## Modules

### A1Mediator (with MCA1, A1MediatorProofs)

gevent runs one HTTP handler at a time (`http`: at which SDL call it is).
Beside it run the loop thread (`loop`), sender threads (`sndr`) and delete threads
(`delt`). `types`, `inst`, `meta` and `hand` are the SDL keys. Each SDL call is an
action, named after the function that makes it (`put_set_instance`,
`put_set_metadata`, `delete_mark`, `delete_after_instance`, ...); consecutive
reads that no other thread's write can tell apart are one step. A PUT is
represented by its number, which is both the payload and `created_at`.
`http_sdl_error` and `thread_sdl_error` make any SDL call fail; `crash` restarts the
process: SDL survives, threads and queues do not; `restart_unhealthy` is the
restart that the failing health check brings about once the loop thread is dead.
`dropped` and `undone` record what a restart or an SDL error takes with it: the jobs
in the queue or in a sender's hands, and the accepted DELETEs whose thread is lost.
GET operations that only read and cannot fail differently are left out, and so are
the JSON schema check and the contents of policies.

### PolicyStore

The policy store without SDL calls, handlers and threads: `CreateType`, `DeleteType`,
`Put`, `Delete`, `Remove`, `Settle` and `Fail`, each one step. A type goes only when it has
no instances; a PUT needs its type and replaces only older PUTs; an instance goes
only because of an open DELETE; a DELETE is settled only with its instance gone,
unless something failed. `A1Mediator` instantiates it with

    doomed <- OpenDeletes    (keys with a delete thread that is still to remove them)
    failed <- Failed         (a fault or a restart so far)

and `ImplementsStore`, checked by `a1_store` and proved in `A1MediatorProofs`, says that
every SDL call is one of these operations or a stutter. Metadata and statuses are
not part of it: the code does not keep them in step with the instance
(`a1_deletable`).

### E2Term (with MCE2, E2TermProofs, E2TermNodesProofs)

An association is a member of `Conns`, with the kernel's view of it (`far`,
`backlog`, `rx`, `ready`), its peer structure (`peer`, `open`, `name`, `built`) and
`map`, the shared `sctpMap`. A listener thread is a record of its program counter,
the peer and `message.enodbName` it holds, and the keys of a
`RIC_SCTP_CLEAR_ALL` it has yet to visit. The actions follow the listener:
`epoll_edge`, `epoll_rmr` and `accept`; `receiveDataFromSctp` (one turn of the read
loop), `collect_memset`, `collect_setkey` and `buildAndSendSetupRequest` for setup
requests; `connection_failure` or `handlepoll_error`, then `close_descriptor` and
`cleanHashEntry` for the end of an association; `receiveXappMessages`,
`sendSctpMsg`, `getKeys`, `clear_peer`, `clear_stale_key` and `clear_map` for RMR.
Events of associations are edge-triggered and taken once; the RMR descriptor is
level-triggered, so several listeners may wake for one message and all but one
then block in `rmr_rcv_msg`.

A step on a freed peer, or on counters that were never built, is undefined
behaviour: it sets `broken`, where the model stops. Invariants
speak of the states before that. `told`, `contended` and `cleared` are history:
what the E2 manager was last told, names two associations or two listeners have
been at work on, and whether a `RIC_SCTP_CLEAR_ALL` came in. PDUs are setup requests,
other PDUs that decode, and PDUs that do not. A setup request carries the identity
that E2AP makes mandatory, and the same one whenever an association repeats it;
requests without one, and a second name on one association, are outside the model.
The events of one `epoll_wait` are taken one by one instead of being held in a
batch: an event that is out of date when the code comes to it finds nothing to read, or a
freed peer, which is `broken` anyway. So is a request forwarded between `setkey` and
`buildPrometheusList`, when the counters it is to be counted in are not there yet.
Descriptor numbers, the
counters' values and `handleEinprogressMessages` (reached
through `EPOLLOUT`, which nothing asks for) are not modelled.

### KpimonSubscription (with MCKpimon, KpimonProofs)

`sender` is the goroutine of `startTimerSubReq`, with `ranList` and the `index` of
`sendRicSubRequest`; `watch[k]` is the goroutine and timer that
`setEventCreateExpiredTimer` starts for the k-th request; `expired` is
`eventCreateExpiredMap` (`"none"`: no entry, `"waiting"`: false, `"answered"`:
true). Every critical section is one action; `rmrSend` and the recording of the
request are two, as in the code. Encoding and sending may fail at every turn.
That the answer is decoded after the flag is set (`control.go:1147`), and what a panic
there would do, is left out. `handleIndication` and the answers to deletions leave this state alone
(`handleOther`); nothing calls `sendRicSubDelRequest`, so its procedure has no
actions. Time is abstracted: a running timer may fire at any moment.

### SubscriptionProcedure

The same procedure without retries, messages, timers and the shortening of
`ranList`: requests are made in the order of the list, each entry once; an answer
counts if a request is recorded; a request is canceled only because of an answer and
expires only while none is recorded. `KpimonSubscription` instantiates it with

    made    <- nreq
    outcome <- [k \in Requests |-> watch[k].pc]
    entry   <- expired

and `ImplementsProcedure`, checked by `kpimon_subscription` and proved in
`KpimonProofs`, says that every step is a request, an answer, a resolution or a
stutter.

### KpimonE2sm and KpimonIndication (with MCIndication, KpimonIndicationProofs)

`KpimonE2sm` has the parsers of `e2sm.go` as operators: PLMN identities and NR cell
identities as sequences of decimal digits, byte counts, slice identities in an
int32, and -1 for an absent number. `KpimonIndication` is `handleIndication`: `pc` goes
from `recv` over `header` and `message` to the loop over the containers (`loop`), the
reports of one container (`odu`, `cuup`) and its `end`. What the message holds is
chosen as the handler comes to it. `flag`, `availPRB` and `pdcp` are the variables the
code keeps across containers and resets at the head of the loop; `seen`,
`written` and `missed` are history. The errors of `WritePoint` are discarded
(`control.go:1111`, `1126`): of the points of a report the database takes any part
(`Kept`), and the handler goes on, so that an indication may be stored in part. Every way out is a step: E2AP that does not decode, an empty
payload or a missing element (`&buffer[0]` of an empty slice), an element that does
not decode (freed twice by `wrapper.c`, so that the allocator may abort), unknown
formats, a header with a node identity (a type assertion that fails), and a message
with more containers than the array of eight holds.

What the decoder does shapes the model: it never fills in a RAN container, so
the branch for them in the handler (`control.go:759-1030`) is dead; and it fills in a
copy of each element of `ServedPlmnPerCells` (`e2sm.go:379`), so that the usage a DU
reports for QoS classes never reaches the loops over it. Of a UE point only the fact
that it is written is kept: which JSON tag stands for which number is not modelled.

### E2LikeServer (with MCE2Like, E2LikeProofs)

Both E2-like xApps run one thread with one loop, `entry`; `app` says which of
the two it is. An association has a state in the kernel (`link`), a receive queue
(`rx`) and a place in the `backlog`. `accept`, `request`, `recv`, `fill` (the inner loop),
`command` and the `OSError` exits follow the code, `data` and `size` are the buffer. Base
stations connect, send chunks (of a whole number of samples or not, decodable
or not), shut down and break off at any time. Sends fail only on an aborted or
closed association, as SCTP reports it. Classification is a choice of a verdict.

### E2TermStart (with MCE2Start, E2TermStartProofs)

`main` goes through configuration, RMR, inotify, port and threads, and then sends
`E2_TERM_INIT` and polls `num_of_XAPP_messages` until a message was counted. The
listeners take turns of `epoll_wait`: `batch` is what a turn returned, `evs` the
inotify events in the listener's own buffer, `conf` the version it has read. The
handler of a change is one step per system call: `exists`, `file_size`, open and
read, apply. A file that disappears between the first two makes `file_size` throw,
and the process exits. RMR messages that the loop counts come from an E2 manager
that knows the instance, or through its routes; other messages (health checks of
the probe, messages for unknown nodes) are not counted. The manager's knowledge
(`known`) outlives a restart of the termination, and its keep-alive may end the
handshake of the new process before an `E2_TERM_INIT` of its own got through; nothing
is claimed against that. The RMR descriptor is taken to be ready only while a message
waits. `E2Term` and `E2TermStart`
describe the same threads, with the state of the other left out: the configuration
holds only the log level and the like, and no association exists before `join`.

## Runs

| Run | Bounds | What it shows |
|---|---|---|
| `a1_store` | 1 type, 2 instances, 1 handler, 2 delete threads, 2 PUTs, 3 jobs, 1 fault | `InstanceHasType`: a type is never removed under an instance. `UpdateResetsStatuses`: after an update no older status is left. `DeleteNotForgotten`: an accepted DELETE is carried out or has a live thread. `ImplementsStore`: the refinement of `PolicyStore` |
| `a1_live` | from `AfterDelete` on, the loop alive or dead; 1 instance, 2 senders, 1 delete thread, 1 more PUT, 2 more jobs, queries, 1 EI result | `TypeOK`, `JobsSentAtMostOnce`; under fairness, although queries end the loop and the process is restarted, `QueueDrains`: every job is handed to RMR or was lost in the restart, and `DeleteTakesEffect`: every accepted DELETE is carried out, or its thread was lost in the restart |
| `a1_loop_forever` | 1 query | violated `LoopRunsForever`: a query that overlaps the end of a delete ends the loop thread |
| `a1_deletable` | 2 PUTs, 1 delete thread | violated `DeletableAtRest`: a PUT between the last two steps of a delete thread loses its metadata; DELETE and status GET then raise `TypeError` |
| `e2_registry` | 2 listeners, 2 associations of one node, 2 PDUs, 1 RMR message, 1 failing call | `TypeOK` (with descriptors), `RegistrySound`, `UpNodesRegistered`, `FreedPeersReportedDown` |
| `e2_data_read` | 3 PDUs | violated `AllDataRead`: a PDU that does not decode strands the ones behind it |
| `e2_accepts_all` | 2 associations | violated `AllAccepted`: one accept per edge strands the second connection |
| `e2_start` | 2 listeners, 2 writes of the file | `TypeOK`, `NeverAllBlocked`: when no RMR message waits, some listener is left that does not wait for one; `ConfigNotLost`: a reported write stays in the queue or in somebody's hands until it is applied; under fairness `HandshakeEnds` and `LastConfigApplied`, although listeners block for messages another one has taken |
| `kpimon_subscription` | 2 RANs, one listed twice, 2 attempts, 2 messages | `TypeOK`, `EntriesWatched`, `AcceptedNotExpired`, `EveryRanRequestedOnce`; the refinement `ImplementsProcedure`; under fairness `EntriesResolved` and `SubscriptionSettles` |
| `kpimon_expired` | 2 RANs, 1 message | violated `ExpiredMeansUnanswered`: an answer handled before the request is recorded is lost, and the request reported as expired |
| `kpimon_indication` | 2 cells, 2 PLMNs, 2 slices, array of 2 and a third container past its end, 2 reports each, writes that fail | `TypeOK`; `SummaryOfContainer`: a summary exists only for a container with a match, is missing there only if a write failed, and holds values of that container |
| `e2like` | both xApps, 2 associations, 3 and 2 chunks, buffer of 2 | `BufferOfOneAssociation`: no buffer mixes associations or skips a chunk; `CommandsEarned`: each command rests on a full buffer of its own; under fairness `DataRead` and `LeavesClosed` |

Why the bounds are enough. The races of the A1 store need two writers of one key
(a handler and a delete thread, or two delete threads) and the type's key; a second
instance makes the list that `delete_policy_type` reads non-trivial. The E2
registry needs two associations of one name (reconnect) and two listeners (the
code starts three; every race found involves two); two PDUs give a setup that is
repeated or followed by data. Different names meet only
in `RIC_SCTP_CLEAR_ALL`; the run has one name, and `RegistryIsSound` is proved for any
number of them. The KPI
monitor needs a list in which an error or a removal can skip an entry, a name
listed twice (two watchers on one key) and two answers (a repeated one). An
indication needs a container after a container (what is left behind), a
report after the one that matches, identities that differ in one place,
and one container more than the array holds; the code's eight is the constant
`PMCapacity`. The E2-like loop needs an association after one that broke
off, and a third chunk after a full buffer. Two listeners and two writes let two
versions be handled at the same time, and one listener block.
`a1_live` starts after a first DELETE, so that two jobs are enough for a PUT, a second
DELETE and a query that overlaps them; from the empty store it takes four jobs,
which is too large with liveness properties.
Symmetry is declared over listeners and over threads, which are
interchangeable, and not in runs with liveness properties. `CHECK_DEADLOCK FALSE`
stands in runs whose system comes to rest when the environment does nothing more.

Windows the invariants exempt, each of which the code really has:
`RegistrySound` allows a freed peer in the map while `RIC_SCTP_CLEAR_ALL` is at work,
or another listener is half way through a repeated setup request.
`UpNodesRegistered` does not speak of contended names: when a node reconnects
before the end of its old association is handled, `cleanHashEntry` erases the new
peer's key and the E2 manager is told that the live node is down.
`FreedPeersReportedDown` does not speak of runs in which a send failed, as nothing is
sent again. The A1 code promises no order between jobs: two sender threads may
send a CREATE and a DELETE of one instance in the wrong order, and the thread of a
DELETE removes the instance that a later PUT has stored, since it looks at the
instance only after its time-out. A KPI monitor watcher whose timer fires just after
the answer was recorded goes on polling. It finds no entry again if the list names its
RAN once; if the RAN is listed twice it may consume the answer to the later request,
which then expires although it was answered. `SubscriptionProcedure` permits that,
`AcceptedNotExpired` is about RANs listed once, and `EntriesResolved` holds in either
case. `LastConfigApplied` is about writes that the watch reports: a write
between `buildConfiguration` and `buildInotify` goes unnoticed, and a listener
that has read an older version may apply it after another one applied the newer.
`QueueDrains` and `DeleteTakesEffect` exempt what a restart takes with it: nothing in
the code queues a lost job, or carries out a lost DELETE, again. `LeavesClosed` leaves out a shutdown in the middle of a
buffer, and in `ic.py` one between two buffers: `recv` then returns nothing for
ever and the loop spins. `SummaryOfContainer` states what the code computes: the last
value from the first match on, which may be another cell's; and it allows for
summaries that the database refused (`missed`).

## Fairness

`a1_live`: weak fairness of each thread's steps (operating system threads are
scheduled), of the delete thread's time-out, and of the restart of an unhealthy
process by Kubernetes. HTTP clients and xApps owe nothing, and send requests,
responses and queries at any time. No SDL error or crash is injected there, but a
query that overlaps a delete ends the loop all the same, and the restart that follows
drops jobs and delete threads. `kpimon_subscription`: weak fairness of the sending goroutine, the
control loop, each watcher and each timer (goroutines run and Go timers
fire). Nothing is assumed of E2 nodes: an answer need not come.
`e2like`: the thread runs, time passes, the xApp is restarted; base stations owe
nothing. `e2_start`: threads are scheduled and an ended process is restarted; of the
other side, an `E2_TERM_INIT` that is sent again and again gets through (strong
fairness), and an E2 manager that knows the instance asks it for signs of life
(`keep_alive`), which also wakes listeners blocked in `rmr_rcv_msg`. The runs of
`E2Term` check safety only.

## Proofs

Assumptions on constants are those named `A1Constants`, `E2Constants`,
`E2TermStartConstants`, `KpimonConstants`, `E2LikeConstants`, `IndicationConstants`,
`IdentitiesDiffer` and `ParsersSucceed`: sets are not empty where the code needs one,
bounds are natural numbers, `NULL` is none of the data. `IdentitiesDiffer` says that
the identities in use are told apart by what the parsers make of them, which is not
so for every bit string (nibbles above 9 make two digits). `ParsersSucceed` says that the
parsers of `KpimonE2sm` return a value for them, and a number for a byte count: ASN.1
fixes the sizes of identities, a slice that parses to the -1 of an absent one and
byte counts of more octets than an int64 holds are left out, and what a parser
computes for every buffer would need an induction over data. TLC evaluates the
assumptions in every run.

- `A1MediatorProofs`:
  - `TypeCorrect` and `InstancesHaveTypes`. `InstanceHasType` is not
    inductive, since the check and the write are different SDL calls. `StoreInv` adds
    what keeps the check good until the write: between the check of a PUT and its
    write the type is there, and while a type is being deleted its list of instances
    is empty, because only the one HTTP handler creates instances and removes types.
    The jobs and DELETEs that are lost are among those queued (`LostLemma`).
  - `JobsAreSentOnce`: by `JobsInv`, a job is in the queue and unsent, in the hands of
    one sender and unsent, or done with.
  - `UpdatesResetStatuses`: by `ResetInv`, a status older than the update is, while its
    handler keys are being deleted, among the keys still to be deleted.
  - `DeletesAreNotForgotten`: by `DoomInv`, an instance whose last accepted request is a
    DELETE, or whose DELETE is about to be queued, is gone or has a thread; threads
    end only when it is gone, which needs `InstanceHasType`.
  - `ImplementsPolicyStore`: the refinement, from `StoreInv` and from `NumberInv`, which
    says that a PUT about to be stored has the largest number so far.
- `E2TermProofs`: `TypeCorrect` and `RegistryIsSound`. `TypeOK` contains `DescriptorsOK`
  and `HoldersOK`, which the argument about freed peers needs: an open descriptor, an
  event and a map entry belong to an allocated peer, and the descriptor is closed
  before `cleanHashEntry`. `RegistrySound` is strengthened to `RegistryInv`:
  the name stored in a registered peer is the key it is registered under, or a
  listener is about to set it, as `cleanHashEntry` erases by the stored name.
- `E2TermNodesProofs`: `UpNodesStayRegistered` and `FreedPeersAreReported`, from `TypeOK` and
  the invariant `NodesInv`. Both relate what the E2 manager was told to peers and
  listeners, so the invariant follows an association through its listener: a
  peer has no name but its own node's, and only once it was registered, and
  a listener that reports does so under that name (`SetupInv`); two registered peers of
  one node that are alive at once leave the name contended (`MarkInv`); a peer that is
  alone is the one in the map, and its node is up once it was set up (`UpInv`); the end of
  an association is reported under its name, unless a repeated setup request has
  zeroed the name, in which case another listener is between `memset` and its own
  report and the name becomes contended or that listener is left with a freed peer
  (`DownInv`). All of it is about the states before undefined behaviour (`broken`).
- `KpimonProofs`: `TypeCorrect`, `EntriesAreWatched`, `AcceptedNeverExpires`,
  `RequestedOnce` and `Implements`. `TypeOK` says that `ranList` is what is left of
  the configured list. `EntriesWatched` is inductive together with it: every step
  that ends a watcher, or uses up its timer, also removes the entry. `AcceptedInv`
  strengthens `AcceptedNotExpired`: an accepted request keeps its entry, marked as
  answered, as long as its watcher's timer is unused. `Implements` is the refinement
  of `SubscriptionProcedure` under the mapping above, from the same invariants.
- `KpimonIndicationProofs`: `TypeCorrect` and `SummariesAreTheContainers`. For the
  summaries, `SummaryInv` says while the reports of a container are
  handled that `flag`, the PRBs and the byte counts kept so far are those of the reports
  seen of this container, and that no summary of it is written yet, whatever part of
  the points before it the database took (`WriteLemma`).
- `E2LikeProofs`: `TypeCorrect`, `OneAssociation` and `CommandsAreEarned`. For the second,
  `Numbered` and `Consecutive` number the chunks of an association from what was sent
  through the queue into the buffer. For the third, `Earned` counts bytes read
  against commands sent, with the bytes in the buffer as the ones not yet spent.
  `TypeOK` contains `DataOK`: the chunk that fills the buffer is the last one read, as
  the inner loop asks for no more once it is full.
- `E2TermStartProofs`: `TypeCorrect`, `ListenersNeverAllBlock` and
  `ReportedWritesAreNotLost`. The events waiting
  are no more than the writes (`Pending`), and a listener that handles an event has it in
  its buffer (`Handling`). For the second, `FreeInv` adds that when no message waits,
  some listener neither is in `rmr_rcv_msg` nor has its event left in its batch: who takes the
  last message has used up his. For the third,
  `OwedInv` adds that the version owed is what the file holds, usable, and that
  listeners are idle until `main` starts them. It is the safety half of
  `LastConfigApplied`.

Each proof has one step per action and one lemma per thread or handler family.

Every invariant and refinement of the passing runs is proved. Only model-checked are
the liveness properties (`QueueDrains`, `DeleteTakesEffect`, `HandshakeEnds`,
`LastConfigApplied`, `EntriesResolved`, `SubscriptionSettles`, `DataRead`, `LeavesClosed`), since TLAPS reasons neither about fairness nor about
ENABLED, and what the parsers of `KpimonE2sm` compute, which are recursive functions
over a buffer.

## Not modelled

- The ASN.1 libraries (`ric-scp-kpimon/e2ap/lib`, `e2sm/lib`), about three
  quarters of the C code of the repository: types generated by asn1c and its run-time
  system. They have no state between calls. The wrappers the handlers call appear as
  steps that may fail, and the encoders of subscription requests as one such step.
- The InfluxDB client: a copy of a third-party library that the xApp does not import.
- The Go mediator: a sketch of three operations, one of which refers to an undefined
  variable, so that the package does not compile; the rest is generated.
- The message formats of the E2 termination (`BuildRunName.h`, `BuildXml.h`,
  `base64.h`), its tests, and its counters' values.
- The watcher of the log level in a config map (`sctpThread.cpp:95-251`): its thread
  reads a file name that its creator frees, so that its behaviour is undefined from
  the start. With fewer than three CPUs `main` stores its three threads past
  the end of a vector (`sctpThread.cpp:614-619`); the model starts the listeners it is
  given.
  `transactionCounter` and the buffer `tx` are shared by all listeners without a lock
  (`sctpThread.cpp:2855`), and what they hold is left out.
- Dead code: the deletion of subscriptions and the RAN containers of the KPI
  monitor, `handleEinprogressMessages` of the E2 termination.
- Helm charts, recipes and scripts: no run-time state of the RIC.

## Plan

1. Done: models of the A1 mediator, the E2 termination with its start-up and
   configuration, the subscriptions and indications of the KPI monitor, and the
   E2-like xApps; the refinements of the policy store and of the subscription
   procedure; proofs of all invariants and refinements the passing runs check.
2. Possible next: an abstract registry that the E2 termination implements (nodes up,
   down and unknown, as the E2 manager sees them), and the safety halves of
   the other liveness properties, as `ConfigNotLost` is for `LastConfigApplied`.
