-------------------------- MODULE A1MediatorProofs --------------------------
(***************************************************************************)
(* Theorems about the A1 mediator, for any sets of types, instances,       *)
(* handlers and threads and any bounds.                                    *)
(***************************************************************************)
EXTENDS A1Mediator, TLAPS

\* The default key of an idle thread, and the key that stands for a type, are keys.
LEMMA KeysLemma ==
    /\ AnyKey \in Keys
    /\ \A t \in TypeIds : TypeKey(t) \in Keys /\ TypeKey(t)[1] = t
<1>1. PICK t \in TypeIds, i \in InstIds : TRUE
  BY A1Constants
<1>2. <<t, i>> \in Keys
  BY DEF Keys
<1>3. AnyKey \in Keys
  BY <1>2, Zenon DEF AnyKey
<1>4. (CHOOSE j \in InstIds : TRUE) \in InstIds
  BY Zenon
<1> QED
  BY <1>3, <1>4 DEF Keys, TypeKey

\* The records of threads at rest have their types.
LEMMA IdleLemma ==
    /\ HttpIdle \in [pc : HttpPcs, op : HttpOps, key : Keys, n : Nat,
                     todo : SUBSET Handlers, m : Metadata \cup {NULL}]
    /\ HttpIdle.pc = "idle" /\ HttpIdle.op = "none"
    /\ DelIdle \in [pc : {"none", "start", "sleep", "clear", "inst", "meta"},
                    key : Keys, todo : SUBSET Handlers]
    /\ DelIdle.pc = "none"
BY KeysLemma DEF HttpIdle, DelIdle, HttpPcs, HttpOps

\* The initial state has its types.
LEMMA TypeInit == Init => TypeOK
<1> SUFFICES ASSUME Init PROVE TypeOK
  OBVIOUS
<1> USE A1Constants, KeysLemma, IdleLemma DEF Init
<1>1. SdlOK
  BY DEF SdlOK
<1>2. HttpOK /\ DeletersOK
  BY DEF HttpOK, DeletersOK
<1>3. LoopOK
  BY DEF LoopOK, LoopAt
<1>4. QueuesOK
  BY DEF QueuesOK, SenderAt
<1>5. HistoryOK
  BY DEF HistoryOK
<1> QED
  BY <1>1, <1>2, <1>3, <1>4, <1>5 DEF TypeOK

\* What a step leaves unchanged keeps its type.
LEMMA KeepLemma ==
    ASSUME TypeOK
    PROVE  /\ UNCHANGED sdl => SdlOK'
           /\ UNCHANGED http => HttpOK'
           /\ UNCHANGED delt => DeletersOK'
           /\ UNCHANGED loop => LoopOK'
           /\ UNCHANGED <<sndr, queues>> => QueuesOK'
           /\ UNCHANGED history => HistoryOK'
BY DEF TypeOK, SdlOK, sdl, HttpOK, DeletersOK, LoopOK, QueuesOK, queues, HistoryOK, history, restarts

\* The loop at the next message of its batch keeps its type.
LEMMA NextMessageLemma ==
    ASSUME TypeOK, loop.left > 0, loop.pc \notin {"top", "dead"}, loop' = NextMessage
    PROVE  LoopOK'
<1>1. loop.left - 1 \in 0 .. MaxBatch
  BY A1Constants DEF TypeOK, LoopOK
<1> QED
  BY <1>1, KeysLemma, A1Constants DEF LoopOK, NextMessage, LoopAt

\* So does the loop thread that ended.
LEMMA DeadLoopLemma ==
    ASSUME loop' = LoopAt("dead", 0)
    PROVE  LoopOK'
BY KeysLemma DEF LoopOK, LoopAt

\* A new HTTP request keeps the types.
LEMMA RequestTypes ==
    ASSUME TypeOK, HttpRequest
    PROVE  TypeOK'
<1> USE A1Constants, KeysLemma, IdleLemma DEF TypeOK
<1>1. ASSUME NEW t \in TypeIds, create_policy_type(t) PROVE TypeOK'
  <2>1. SdlOK'
    BY <1>1 DEF create_policy_type, SdlOK, sdl
  <2>2. HttpOK'
    BY <1>1 DEF create_policy_type, HttpOK, HttpPcs, HttpOps, Operations, Return
  <2> QED
    BY <1>1, <2>1, <2>2, KeepLemma DEF create_policy_type, queues, history, restarts
<1>2. ASSUME NEW t \in TypeIds, delete_policy_type(t) PROVE TypeOK'
  <2>1. HttpOK'
    BY <1>2 DEF delete_policy_type, HttpOK, HttpPcs, HttpOps, Operations
  <2> QED
    BY <1>2, <2>1, KeepLemma DEF delete_policy_type, queues, history, restarts
<1>3. ASSUME NEW k \in Keys, create_or_replace_policy_instance(k) PROVE TypeOK'
  <2>1. HttpOK'
    <3>1. CASE Return
      BY <3>1 DEF Return, HttpOK
    <3>2. CASE ~Return
      <4>1. http' = [HttpIdle EXCEPT
                        !.pc = IF inst[k] = NULL THEN "set" ELSE "find",
                        !.op = IF inst[k] = NULL THEN "CREATE" ELSE "UPDATE",
                        !.key = k, !.n = puts + 1]
        BY <1>3, <3>2 DEF create_or_replace_policy_instance
      <4>2. puts + 1 \in Nat
        BY DEF HistoryOK
      <4> QED
        BY <4>1, <4>2 DEF HttpOK, HttpPcs, HttpOps, Operations
    <3> QED
      BY <3>1, <3>2
  <2>2. HistoryOK'
    BY <1>3 DEF create_or_replace_policy_instance, HistoryOK, history, restarts
  <2> QED
    BY <1>3, <2>1, <2>2, KeepLemma DEF create_or_replace_policy_instance, queues, history, restarts
<1>4. ASSUME NEW k \in Keys, delete_policy_instance(k) PROVE TypeOK'
  <2>1. HttpOK'
    BY <1>4 DEF delete_policy_instance, HttpOK, HttpPcs, HttpOps, Operations, HistoryOK
  <2> QED
    BY <1>4, <2>1, KeepLemma DEF delete_policy_instance, queues, history, restarts
<1>5. ASSUME NEW k \in Keys, get_policy_instance_status(k) PROVE TypeOK'
  <2>1. HttpOK'
    BY <1>5 DEF get_policy_instance_status, HttpOK, HttpPcs, HttpOps, Operations
  <2> QED
    BY <1>5, <2>1, KeepLemma DEF get_policy_instance_status, queues, history, restarts
<1>6. CASE data_delivery
  <2>1. HttpOK'
    BY <1>6 DEF data_delivery, HttpOK, HttpPcs, HttpOps, Operations, Return
  <2>2. QueuesOK'
    BY <1>6 DEF data_delivery, QueuesOK, queues
  <2> QED
    BY <1>6, <2>1, <2>2, KeepLemma DEF data_delivery, queues, history, restarts
<1> QED
  BY <1>1, <1>2, <1>3, <1>4, <1>5, <1>6 DEF HttpRequest

\* A further step of an HTTP handler keeps the types.
LEMMA HttpStepTypes ==
    ASSUME TypeOK, HttpStep
    PROVE  TypeOK'
<1> USE A1Constants, KeysLemma, IdleLemma DEF TypeOK
<1>1. CASE delete_type_key
  <2>1. SdlOK'
    BY <1>1 DEF delete_type_key, SdlOK, sdl
  <2>2. HttpOK'
    BY <1>1 DEF delete_type_key, HttpOK, HttpPcs, HttpOps, Operations, Return
  <2> QED
    BY <1>1, <2>1, <2>2, KeepLemma DEF delete_type_key, queues, history, restarts
<1>2. CASE put_find_handlers
  <2>1. HttpOK'
    BY <1>2 DEF put_find_handlers, HttpOK, HttpPcs, HttpOps, Operations, HandlerKeys
  <2> QED
    BY <1>2, <2>1, KeepLemma DEF put_find_handlers, queues, history, restarts
<1>3. ASSUME NEW h \in Handlers, put_clear_handler(h) PROVE TypeOK'
  <2>1. SdlOK'
    BY <1>3 DEF put_clear_handler, SdlOK, sdl, HttpOK, DropHandler
  <2>2. HttpOK'
    BY <1>3 DEF put_clear_handler, HttpOK, HttpPcs, HttpOps, Operations
  <2> QED
    BY <1>3, <2>1, <2>2, KeepLemma DEF put_clear_handler, queues, history, restarts
<1>4. CASE put_set_instance
  <2>1. SdlOK'
    BY <1>4 DEF put_set_instance, SdlOK, sdl, HttpOK
  <2>2. HttpOK'
    BY <1>4 DEF put_set_instance, HttpOK, HttpPcs, HttpOps, Operations
  <2> QED
    BY <1>4, <2>1, <2>2, KeepLemma DEF put_set_instance, queues, history, restarts
<1>5. CASE put_set_metadata
  <2>1. SdlOK'
    BY <1>5 DEF put_set_metadata, SdlOK, sdl, HttpOK, Metadata
  <2>2. HttpOK'
    BY <1>5 DEF put_set_metadata, HttpOK, HttpPcs, HttpOps, Operations
  <2> QED
    BY <1>5, <2>1, <2>2, KeepLemma DEF put_set_metadata, queues, history, restarts
<1>6. CASE queue_instance_send
  <2>1. HttpOK'
    BY <1>6 DEF queue_instance_send, HttpOK, HttpPcs, HttpOps, Operations, Return
  <2>2. QueuesOK'
    BY <1>6 DEF queue_instance_send, QueuesOK, queues, HttpOK
  <2> QED
    BY <1>6, <2>1, <2>2, KeepLemma DEF queue_instance_send, queues, history, restarts
<1>7. CASE delete_get_metadata
  <2>1. HttpOK'
    BY <1>7 DEF delete_get_metadata, HttpOK, HttpPcs, HttpOps, Operations, SdlOK
  <2> QED
    BY <1>7, <2>1, KeepLemma DEF delete_get_metadata, queues, history, restarts
<1>8. CASE delete_mark
  <2>1. SdlOK'
    BY <1>8 DEF delete_mark, SdlOK, sdl, HttpOK, Metadata
  <2>2. HttpOK'
    BY <1>8 DEF delete_mark, HttpOK, HttpPcs, HttpOps, Operations
  <2> QED
    BY <1>8, <2>1, <2>2, KeepLemma DEF delete_mark, queues, history, restarts
<1>9. CASE delete_get_statuses
  <2>1. HttpOK'
    BY <1>9 DEF delete_get_statuses, HttpOK, HttpPcs, HttpOps, Operations
  <2> QED
    BY <1>9, <2>1, KeepLemma DEF delete_get_statuses, queues, history, restarts
<1>10. ASSUME NEW d \in DelThreads, delete_start_thread(d) PROVE TypeOK'
  <2>1. HttpOK'
    BY <1>10 DEF delete_start_thread, HttpOK, HttpPcs, HttpOps, Operations
  <2>2. DeletersOK'
    BY <1>10 DEF delete_start_thread, DeletersOK, HttpOK
  <2> QED
    BY <1>10, <2>1, <2>2, KeepLemma DEF delete_start_thread, queues, history, restarts
<1>11. CASE status_get_metadata
  <2>1. HttpOK'
    BY <1>11 DEF status_get_metadata, HttpOK, HttpPcs, HttpOps, Operations
  <2> QED
    BY <1>11, <2>1, KeepLemma DEF status_get_metadata, queues, history, restarts
<1>12. CASE status_get_statuses
  <2>1. HttpOK'
    BY <1>12 DEF status_get_statuses, HttpOK, HttpPcs, HttpOps, Operations, Return
  <2> QED
    BY <1>12, <2>1, KeepLemma DEF status_get_statuses, queues, history, restarts
<1> QED
  BY <1>1, <1>2, <1>3, <1>4, <1>5, <1>6, <1>7, <1>8, <1>9, <1>10, <1>11, <1>12 DEF HttpStep

\* A delete thread keeps its type when it moves on and when it ends.
LEMMA DeleterLemma ==
    ASSUME TypeOK
    PROVE  /\ \A d \in DelThreads, pc \in {"none", "start", "sleep", "clear", "inst", "meta"},
                 todo \in SUBSET Handlers : Deleter(d, pc, todo) => DeletersOK'
           /\ \A d \in DelThreads : EndDeleter(d) => DeletersOK'
           /\ UNCHANGED delt => DeletersOK'
BY IdleLemma DEF TypeOK, DeletersOK, Deleter, EndDeleter

\* A step of a delete thread keeps the types.
LEMMA DeleteAfterTypes ==
    ASSUME TypeOK, NEW d \in DelThreads, DeleteAfter(d)
    PROVE  TypeOK'
<1> USE A1Constants, KeysLemma, IdleLemma DEF TypeOK
<1>1. CASE delete_after_check(d)
  <2>1. DeletersOK'
    BY <1>1, DeleterLemma DEF delete_after_check
  <2> QED
    BY <1>1, <2>1, KeepLemma DEF delete_after_check, queues, history, restarts
<1>2. CASE delete_after_expire(d)
  <2>1. DeletersOK'
    BY <1>2, DeleterLemma DEF delete_after_expire, HandlerKeys
  <2> QED
    BY <1>2, <2>1, KeepLemma DEF delete_after_expire, queues, history, restarts
<1>3. ASSUME NEW h \in Handlers, delete_after_clear(d, h) PROVE TypeOK'
  <2>1. SdlOK'
    BY <1>3 DEF delete_after_clear, SdlOK, sdl, DeletersOK, DropHandler
  <2>2. DeletersOK'
    BY <1>3, DeleterLemma DEF delete_after_clear, DeletersOK
  <2> QED
    BY <1>3, <2>1, <2>2, KeepLemma DEF delete_after_clear, queues, history, restarts
<1>4. CASE delete_after_instance(d)
  <2>1. SdlOK'
    BY <1>4 DEF delete_after_instance, SdlOK, sdl, DeletersOK
  <2>2. DeletersOK'
    BY <1>4, DeleterLemma DEF delete_after_instance
  <2> QED
    BY <1>4, <2>1, <2>2, KeepLemma DEF delete_after_instance, queues, history, restarts
<1>5. CASE delete_after_metadata(d)
  <2>1. SdlOK'
    BY <1>5 DEF delete_after_metadata, SdlOK, sdl, DeletersOK
  <2>2. DeletersOK'
    BY <1>5, DeleterLemma DEF delete_after_metadata
  <2> QED
    BY <1>5, <2>1, <2>2, KeepLemma DEF delete_after_metadata, queues, history, restarts
<1> QED
  BY <1>1, <1>2, <1>3, <1>4, <1>5 DEF DeleteAfter

\* A step of the RMR loop keeps the types.
LEMMA LoopTypes ==
    ASSUME TypeOK, LoopStep
    PROVE  TypeOK'
<1> USE A1Constants, KeysLemma, IdleLemma DEF TypeOK
<1>1. CASE loop_turn
  <2>1. LoopOK'
    BY <1>1 DEF loop_turn, LoopOK, LoopAt
  <2>2. QueuesOK'
    <3>1. ASSUME NEW s \in Senders, sndr' = [sndr EXCEPT ![s] = SenderAt("check", 0)]
          PROVE  QueuesOK'
      BY <1>1, <3>1 DEF loop_turn, QueuesOK, queues, SenderAt
    <3>2. CASE UNCHANGED sndr
      BY <1>1, <3>2 DEF loop_turn, QueuesOK, queues
    <3> QED
      BY <1>1, <3>1, <3>2 DEF loop_turn
  <2> QED
    BY <1>1, <2>1, <2>2, KeepLemma DEF loop_turn, queues, history, restarts
<1>2. ASSUME NEW k \in Keys, NEW h \in Handlers, NEW s \in Statuses, policy_response(k, h, s) PROVE TypeOK'
  <2>1. LoopOK'
    <3>1. CASE loop' = NextMessage
      BY <1>2, <3>1, NextMessageLemma DEF policy_response
    <3>2. CASE loop' # NextMessage
      BY <1>2, <3>2 DEF policy_response, LoopOK
    <3> QED
      BY <3>1, <3>2
  <2> QED
    BY <1>2, <2>1, KeepLemma DEF policy_response, queues, history, restarts
<1>3. CASE set_policy_instance_status
  <2>1. SdlOK'
    BY <1>3 DEF set_policy_instance_status, SdlOK, sdl, LoopOK, HistoryOK, Status
  <2>2. LoopOK'
    BY <1>3 DEF set_policy_instance_status, LoopOK, NextMessage, LoopAt
  <2> QED
    BY <1>3, <2>1, <2>2, KeepLemma DEF set_policy_instance_status, queues, history, restarts
<1>4. ASSUME NEW t \in Queries, policy_query(t) PROVE TypeOK'
  <2>1. LoopOK'
    <3>1. CASE loop' = NextMessage
      BY <1>4, <3>1, NextMessageLemma DEF policy_query
    <3>2. CASE loop' # NextMessage
      BY <1>4, <3>2 DEF policy_query, LoopOK, get_instance_list
    <3> QED
      BY <3>1, <3>2
  <2> QED
    BY <1>4, <2>1, KeepLemma DEF policy_query, queues, history, restarts
<1>5. ASSUME NEW k \in Keys, query_check(k) PROVE TypeOK'
  <2>1. LoopOK'
    <3>1. CASE loop' = NextMessage
      BY <1>5, <3>1, NextMessageLemma DEF query_check, LoopOK
    <3>2. CASE loop' = LoopAt("dead", 0)
      BY <3>2, DeadLoopLemma
    <3>3. CASE loop' = [loop EXCEPT !.pc = "fetch", !.key = k]
      BY <1>5, <3>3 DEF query_check, LoopOK
    <3> QED
      BY <1>5, <3>1, <3>2, <3>3 DEF query_check
  <2> QED
    BY <1>5, <2>1, KeepLemma DEF query_check, queues, history, restarts
<1>6. CASE query_reply
  <2>1. LoopOK'
    <3>1. CASE loop' = NextMessage
      BY <1>6, <3>1, NextMessageLemma DEF query_reply, LoopOK
    <3>2. CASE loop' # NextMessage
      BY <1>6, <3>2 DEF query_reply, LoopOK
    <3> QED
      BY <3>1, <3>2
  <2> QED
    BY <1>6, <2>1, KeepLemma DEF query_reply, queues, history, restarts
<1>7. CASE ei_message
  <2>1. LoopOK'
    BY <1>7 DEF ei_message, LoopOK, NextMessage, LoopAt
  <2>2. HistoryOK'
    BY <1>7 DEF ei_message, HistoryOK, history, restarts
  <2> QED
    BY <1>7, <2>1, <2>2, KeepLemma DEF ei_message, queues, history, restarts
<1>8. CASE loop_sleep
  <2>1. LoopOK'
    BY <1>8 DEF loop_sleep, LoopOK, LoopAt
  <2> QED
    BY <1>8, <2>1, KeepLemma DEF loop_sleep, queues, history, restarts
<1> QED
  BY <1>1, <1>2, <1>3, <1>4, <1>5, <1>6, <1>7, <1>8 DEF LoopStep

\* A step of a sender thread keeps the types.
LEMMA SenderTypes ==
    ASSUME TypeOK, NEW s \in Senders, HandleSends(s)
    PROVE  TypeOK'
<1> USE A1Constants, KeysLemma, IdleLemma DEF TypeOK
<1>1. CASE sends_empty(s)
  <2>1. QueuesOK'
    BY <1>1 DEF sends_empty, QueuesOK, queues, Sender, SenderAt
  <2> QED
    BY <1>1, <2>1, KeepLemma DEF sends_empty, queues, history, restarts
<1>2. CASE sends_get(s)
  <2>1. QueuesOK'
    <3>1. CASE head < Len(jobs)
      <4>1. head' = head + 1 /\ head' \in 0 .. Len(jobs) /\ UNCHANGED <<jobs, eiput, eigot, nsent>>
        BY <1>2, <3>1 DEF sends_get, QueuesOK
      <4>2. sndr' = [sndr EXCEPT ![s] = [pc |-> "send", job |-> head + 1]]
        BY <1>2, <3>1 DEF sends_get, Sender, SenderAt
      <4>3. \A r \in Senders : sndr[r].job \in 0 .. head'
        BY <4>1 DEF QueuesOK
      <4> QED
        BY <4>1, <4>2, <4>3 DEF QueuesOK
    <3>2. CASE ~(head < Len(jobs))
      <4>1. sndr' = [sndr EXCEPT ![s] = [pc |-> "idle", job |-> 0]]
        BY <1>2, <3>2 DEF sends_get, Sender, SenderAt
      <4>2. UNCHANGED <<jobs, head, eiput, eigot, nsent>>
        BY <1>2, <3>2 DEF sends_get
      <4> QED
        BY <4>1, <4>2 DEF QueuesOK
    <3> QED
      BY <3>1, <3>2
  <2> QED
    BY <1>2, <2>1, KeepLemma DEF sends_get, queues, history, restarts
<1>3. CASE send_msg(s)
  <2>1. QueuesOK'
    <3>1. nsent' \in [JobIds -> Nat]
      <4>1. nsent \in [JobIds -> Nat]
            /\ nsent' = [nsent EXCEPT ![sndr[s].job] = nsent[sndr[s].job] + 1]
        BY <1>3 DEF send_msg, QueuesOK
      <4>2. \A j \in JobIds : nsent'[j] = nsent[j] \/ nsent'[j] = nsent[j] + 1
        BY <4>1
      <4>3. nsent' = [j \in JobIds |-> nsent'[j]]
        BY <4>1
      <4>4. \A j \in JobIds : nsent'[j] \in Nat
        BY <4>1, <4>2
      <4> QED
        BY <4>3, <4>4
    <3>2. sndr' = [sndr EXCEPT ![s] = [pc |-> "check", job |-> 0]]
          /\ UNCHANGED <<jobs, head, eiput, eigot>>
      BY <1>3 DEF send_msg, Sender, SenderAt
    <3> QED
      BY <3>1, <3>2 DEF QueuesOK
  <2> QED
    BY <1>3, <2>1, KeepLemma DEF send_msg, queues, history, restarts
<1>4. CASE sends_ei_empty(s)
  <2>1. QueuesOK'
    BY <1>4 DEF sends_ei_empty, QueuesOK, queues, Sender, SenderAt
  <2> QED
    BY <1>4, <2>1, KeepLemma DEF sends_ei_empty, queues, history, restarts
<1>5. CASE sends_ei_get(s)
  <2>1. QueuesOK'
    <3>1. sndr' \in [Senders -> [pc : {"idle", "check", "get", "send", "eicheck", "eiget"},
                                 job : 0 .. head]]
      <4>1. ASSUME NEW pc \in {"eicheck", "idle"}, Sender(s, SenderAt(pc, 0))
            PROVE  sndr' \in [Senders -> [pc : {"idle", "check", "get", "send", "eicheck", "eiget"},
                                        job : 0 .. head]]
        BY <4>1 DEF QueuesOK, Sender, SenderAt
      <4> QED
        BY <1>5, <4>1 DEF sends_ei_get
    <3>2. eigot' \in 0 .. eiput
      BY <1>5 DEF sends_ei_get, QueuesOK
    <3> QED
      BY <1>5, <3>1, <3>2 DEF sends_ei_get, QueuesOK
  <2> QED
    BY <1>5, <2>1, KeepLemma DEF sends_ei_get, queues, history, restarts
<1> QED
  BY <1>1, <1>2, <1>3, <1>4, <1>5 DEF HandleSends

\* The jobs that are lost, with the queue or with a thread, are numbers.
LEMMA LostLemma ==
    ASSUME TypeOK
    PROVE  /\ (head + 1 .. Len(jobs)) \cup JobsInHand \subseteq Nat
           /\ LoseDeletes => undone' \subseteq Nat
<1>1. head \in Nat /\ Len(jobs) \in Nat /\ undone \subseteq Nat
  BY DEF TypeOK, QueuesOK, HistoryOK
<1>2. AcceptedDeletes \subseteq Nat
  BY <1>1 DEF AcceptedDeletes
<1>3. LoseDeletes => undone' \subseteq undone \cup AcceptedDeletes
  BY Zenon DEF LoseDeletes
<1>4. head + 1 .. Len(jobs) \subseteq Nat
  BY <1>1
<1>5. JobsInHand \subseteq Nat
  <2>1. \A s \in Senders : sndr[s].job \in Nat
    BY <1>1 DEF TypeOK, QueuesOK
  <2> QED
    BY <2>1 DEF JobsInHand
<1> QED
  BY <1>1, <1>2, <1>3, <1>4, <1>5

\* A fault keeps the types.
LEMMA FaultTypes ==
    ASSUME TypeOK, Fault
    PROVE  TypeOK'
<1> USE A1Constants, KeysLemma, IdleLemma DEF TypeOK
<1>1. CASE http_sdl_error
  <2>1. HttpOK'
    BY <1>1 DEF http_sdl_error, HttpOK, HttpPcs, HttpOps, Operations, Return
  <2>2. HistoryOK'
    BY <1>1 DEF http_sdl_error, HistoryOK, history, restarts
  <2> QED
    BY <1>1, <2>1, <2>2, KeepLemma DEF http_sdl_error, queues, history, restarts
<1>2. CASE thread_sdl_error
  <2>1. DeletersOK'
    BY <1>2, DeleterLemma DEF thread_sdl_error
  <2>2. LoopOK'
    BY <1>2 DEF thread_sdl_error, LoopOK, LoopAt
  <2>3. HistoryOK'
    <3>1. undone' \subseteq Nat
      BY <1>2, LostLemma DEF thread_sdl_error, HistoryOK
    <3>2. faults' \in Nat /\ UNCHANGED <<puts, restarted, dropped>>
      BY <1>2 DEF thread_sdl_error, HistoryOK
    <3> QED
      BY <3>1, <3>2 DEF HistoryOK
  <2> QED
    BY <1>2, <2>1, <2>2, <2>3, KeepLemma DEF thread_sdl_error, queues, history, restarts
<1>3. CASE crash
  <2>1. HttpOK'
    BY <1>3 DEF crash, HttpOK, HttpPcs, HttpOps, Operations, Volatile
  <2>2. DeletersOK'
    BY <1>3 DEF crash, DeletersOK, Volatile
  <2>3. LoopOK'
    BY <1>3 DEF crash, LoopOK, Volatile, LoopAt
  <2>4. QueuesOK'
    BY <1>3 DEF crash, QueuesOK, queues, Volatile, SenderAt
  <2>5. HistoryOK'
    <3>1. undone' \subseteq Nat /\ dropped' \subseteq Nat
      BY <1>3, LostLemma DEF crash, HistoryOK, Volatile, TypeOK
    <3>2. faults' \in Nat /\ UNCHANGED puts /\ restarted' = TRUE
      BY <1>3 DEF crash, HistoryOK, Volatile
    <3> QED
      BY <3>1, <3>2 DEF HistoryOK
  <2> QED
    BY <1>3, <2>1, <2>2, <2>3, <2>4, <2>5, KeepLemma DEF crash, Volatile
<1> QED
  BY <1>1, <1>2, <1>3 DEF Fault

\* Type correctness: no interleaving of handlers, threads and faults takes a
\* variable out of its type; the queue is never overdrawn.
THEOREM TypeCorrect == Spec => []TypeOK
<1>1. TypeOK /\ [Next]_vars => TypeOK'
  <2> SUFFICES ASSUME TypeOK, [Next]_vars PROVE TypeOK'
    OBVIOUS
  <2>1. CASE restart_unhealthy
    <3> USE A1Constants, KeysLemma, IdleLemma DEF TypeOK
    <3>1. HttpOK' /\ DeletersOK'
      BY <2>1 DEF restart_unhealthy, Volatile, HttpOK, DeletersOK
    <3>2. LoopOK'
      BY <2>1 DEF restart_unhealthy, Volatile, LoopOK, LoopAt
    <3>3. QueuesOK'
      BY <2>1 DEF restart_unhealthy, Volatile, QueuesOK, SenderAt
    <3>4. HistoryOK'
      BY <2>1, LostLemma DEF restart_unhealthy, Volatile, HistoryOK
    <3> QED
      BY <2>1, <3>1, <3>2, <3>3, <3>4, KeepLemma DEF restart_unhealthy, Volatile
  <2>2. CASE UNCHANGED vars
    BY <2>2, KeepLemma DEF vars, TypeOK
  <2> QED
    BY <2>1, <2>2, RequestTypes, HttpStepTypes, DeleteAfterTypes, LoopTypes, SenderTypes,
       FaultTypes DEF Next
<1> QED
  BY <1>1, TypeInit, PTL DEF Spec
-----------------------------------------------------------------------------
(***************************************************************************)
(* Instances have their type.  The invariant says why the two-step check   *)
(* of delete_policy_type and the early check of a PUT are still good when  *)
(* they are used: only the HTTP handler, of which there is one, creates    *)
(* instances and removes types.                                            *)
(***************************************************************************)
StoreInv ==
    /\ InstanceHasType
    /\ http.pc \in {"find", "clear", "set"} => http.key[1] \in types
    /\ http.pc = "tdel" => get_instance_list(http.key[1]) = {}

\* Steps that leave types, instances and the HTTP handler alone keep StoreInv,
\* and so do steps that end the HTTP handler.
LEMMA StoreKeep ==
    ASSUME StoreInv, UNCHANGED types, UNCHANGED inst,
           UNCHANGED http \/ http' = HttpIdle
    PROVE  StoreInv'
BY IdleLemma DEF StoreInv, InstanceHasType, get_instance_list

\* A new HTTP request keeps StoreInv: nothing is stored before its checks.
LEMMA StoreRequest ==
    ASSUME TypeOK, StoreInv, HttpRequest
    PROVE  StoreInv'
<1> USE KeysLemma, IdleLemma
<1>1. ASSUME NEW t \in TypeIds, create_policy_type(t) PROVE StoreInv'
  BY <1>1 DEF create_policy_type, Return, StoreInv, InstanceHasType
<1>2. ASSUME NEW t \in TypeIds, delete_policy_type(t) PROVE StoreInv'
  <2>1. CASE http' = HttpIdle
    BY <1>2, <2>1, StoreKeep DEF delete_policy_type, sdl
  <2>2. CASE http' # HttpIdle
    <3>1. /\ get_instance_list(t) = {}
          /\ http'.pc = "tdel" /\ http'.key = TypeKey(t)
      BY <1>2, <2>2 DEF delete_policy_type, HttpIdle
    <3>2. UNCHANGED <<types, inst>>
      BY <1>2 DEF delete_policy_type, sdl
    <3> QED
      BY <3>1, <3>2 DEF StoreInv, InstanceHasType, get_instance_list
  <2> QED
    BY <2>1, <2>2
<1>3. ASSUME NEW k \in Keys, create_or_replace_policy_instance(k) PROVE StoreInv'
  <2>1. CASE Return
    BY <1>3, <2>1, StoreKeep DEF create_or_replace_policy_instance, Return, sdl
  <2>2. CASE ~Return
    <3>1. /\ k[1] \in types
          /\ http'.pc \in {"set", "find"} /\ http'.key = k
      BY <1>3, <2>2 DEF create_or_replace_policy_instance, HttpIdle, type_is_valid
    <3>2. UNCHANGED <<types, inst>>
      BY <1>3 DEF create_or_replace_policy_instance, sdl
    <3> QED
      BY <3>1, <3>2 DEF StoreInv, InstanceHasType
  <2> QED
    BY <2>1, <2>2
<1>4. ASSUME NEW k \in Keys, delete_policy_instance(k) \/ get_policy_instance_status(k)
      PROVE  StoreInv'
  <2>1. /\ UNCHANGED <<types, inst>>
        /\ http'.pc \in {"idle", "dget", "sget"}
    BY <1>4 DEF delete_policy_instance, get_policy_instance_status, HttpIdle, sdl
  <2> QED
    BY <2>1 DEF StoreInv, InstanceHasType
<1>5. ASSUME data_delivery PROVE StoreInv'
  BY <1>5, StoreKeep DEF data_delivery, Return, sdl
<1> QED
  BY <1>1, <1>2, <1>3, <1>4, <1>5 DEF HttpRequest

\* So does a further step of an HTTP handler, the two SDL writes of a PUT and
\* the deletion of a type included.
LEMMA StoreHttpStep ==
    ASSUME TypeOK, StoreInv, HttpStep
    PROVE  StoreInv'
<1> USE IdleLemma DEF TypeOK, HttpOK, SdlOK
<1>1. CASE delete_type_key
  BY <1>1 DEF delete_type_key, Return, StoreInv, InstanceHasType, get_instance_list
<1>2. CASE put_find_handlers
  <2>1. http'.pc \in {"set", "clear"} /\ http'.key = http.key /\ UNCHANGED <<types, inst>>
    BY <1>2 DEF put_find_handlers, sdl
  <2> QED
    BY <1>2, <2>1 DEF put_find_handlers, StoreInv, InstanceHasType
<1>3. ASSUME NEW h \in Handlers, put_clear_handler(h) PROVE StoreInv'
  <2>1. http'.pc \in {"set", "clear"} /\ http'.key = http.key /\ UNCHANGED <<types, inst>>
    BY <1>3 DEF put_clear_handler
  <2> QED
    BY <1>3, <2>1 DEF put_clear_handler, StoreInv, InstanceHasType
<1>4. CASE put_set_instance
  <2>1. http'.pc = "setmeta" /\ http.key[1] \in types /\ UNCHANGED types
    BY <1>4 DEF put_set_instance, StoreInv
  <2>2. InstanceHasType'
    BY <1>4, <2>1 DEF put_set_instance, StoreInv, InstanceHasType
  <2> QED
    BY <2>1, <2>2 DEF StoreInv
<1>5. CASE put_set_metadata \/ delete_get_metadata \/ delete_mark \/ delete_get_statuses
           \/ status_get_metadata
  <2>1. /\ http' = HttpIdle \/ http'.pc \in {"queue", "dmark", "dstat", "dstart", "sstat"}
        /\ UNCHANGED <<types, inst>>
    BY <1>5 DEF put_set_metadata, delete_get_metadata, delete_mark, delete_get_statuses,
                status_get_metadata, sdl
  <2> QED
    BY <2>1 DEF StoreInv, InstanceHasType
<1>6. CASE queue_instance_send \/ status_get_statuses
  BY <1>6, StoreKeep DEF queue_instance_send, status_get_statuses, Return, sdl
<1>7. ASSUME NEW d \in DelThreads, delete_start_thread(d) PROVE StoreInv'
  BY <1>7 DEF delete_start_thread, sdl, StoreInv, InstanceHasType
<1> QED
  BY <1>1, <1>2, <1>3, <1>4, <1>5, <1>6, <1>7 DEF HttpStep

\* StoreInv holds throughout.
LEMMA StoreAlways == Spec => []StoreInv
<1>1. Init => StoreInv
  BY IdleLemma DEF Init, StoreInv, InstanceHasType
<1>2. TypeOK /\ StoreInv /\ [Next]_vars => StoreInv'
  <2> SUFFICES ASSUME TypeOK, StoreInv, [Next]_vars PROVE StoreInv'
    OBVIOUS
  <2>1. ASSUME NEW d \in DelThreads, DeleteAfter(d) PROVE StoreInv'
    <3>1. CASE delete_after_instance(d)
      BY <3>1 DEF delete_after_instance, StoreInv, InstanceHasType, get_instance_list,
                  TypeOK, SdlOK, DeletersOK
    <3>2. CASE ~delete_after_instance(d)
      BY <2>1, <3>2, StoreKeep DEF DeleteAfter, delete_after_check, delete_after_expire,
         delete_after_clear, delete_after_metadata, sdl
    <3> QED
      BY <3>1, <3>2
  <2>2. CASE LoopStep
    BY <2>2, StoreKeep DEF LoopStep, loop_turn, policy_response, set_policy_instance_status,
       policy_query, query_check, query_reply, ei_message, loop_sleep, sdl
  <2>3. ASSUME NEW s \in Senders, HandleSends(s) PROVE StoreInv'
    BY <2>3, StoreKeep DEF HandleSends, sends_empty, sends_get, send_msg, sends_ei_empty,
       sends_ei_get, sdl
  <2>4. CASE Fault \/ restart_unhealthy
    BY <2>4, StoreKeep DEF Fault, http_sdl_error, thread_sdl_error, crash, restart_unhealthy,
       Volatile, Return, sdl
  <2>5. CASE UNCHANGED vars
    BY <2>5, StoreKeep DEF vars, sdl
  <2> QED
    BY <2>1, <2>2, <2>3, <2>4, <2>5, StoreRequest, StoreHttpStep DEF Next
<1> QED
  BY <1>1, <1>2, TypeCorrect, PTL DEF Spec

\* No interleaving leaves an instance in the store without its policy type
\* (data.py, delete_policy_type and store_policy_instance).
THEOREM InstancesHaveTypes == Spec => []InstanceHasType
<1>1. StoreInv => InstanceHasType
  BY DEF StoreInv
<1> QED
  BY <1>1, StoreAlways, PTL
-----------------------------------------------------------------------------
(***************************************************************************)
(* Jobs are sent at most once.  A job is in the queue, in the hands of one *)
(* sender, or done with; a job that is waiting has not been sent, and two  *)
(* senders never hold the same one.                                        *)
(***************************************************************************)
JobBound ==
    /\ Len(jobs) <= MaxJobs
    /\ http.op \in Operations => Len(jobs) < MaxJobs
InHand ==
    \A s \in Senders : sndr[s].pc = "send" =>
        /\ sndr[s].job \in JobIds /\ nsent[sndr[s].job] = 0
        /\ \A r \in Senders \ {s} : sndr[r].pc = "send" => sndr[r].job # sndr[s].job
SentOnce ==
    \A j \in JobIds : nsent[j] <= 1 /\ (j > head => nsent[j] = 0)
JobsInv == JobBound /\ InHand /\ SentOnce

\* The bound on queued jobs is checked when a request is accepted and holds until
\* its job is queued.
LEMMA JobBoundStep ==
    ASSUME TypeOK, JobBound, [Next]_vars
    PROVE  JobBound'
<1> USE IdleLemma DEF JobBound
<1>1. ASSUME UNCHANGED jobs, http'.op = http.op \/ http' = HttpIdle PROVE JobBound'
  BY <1>1 DEF Operations
<1>2. CASE HttpRequest
  <2>1. UNCHANGED jobs /\ (http' = HttpIdle \/ http'.op \notin Operations
                           \/ Len(jobs) < MaxJobs)
    <3>1. ASSUME NEW t \in TypeIds, create_policy_type(t) \/ delete_policy_type(t)
          PROVE  UNCHANGED jobs /\ (http' = HttpIdle \/ http'.op \notin Operations)
      BY <3>1 DEF create_policy_type, delete_policy_type, Return, queues, Operations, HttpIdle
    <3>2. ASSUME NEW k \in Keys,
                 \/ create_or_replace_policy_instance(k)
                 \/ delete_policy_instance(k)
          PROVE  UNCHANGED jobs /\ Len(jobs) < MaxJobs
      BY <3>2 DEF create_or_replace_policy_instance, delete_policy_instance, queues
    <3>3. ASSUME NEW k \in Keys, get_policy_instance_status(k)
          PROVE  UNCHANGED jobs /\ (http' = HttpIdle \/ http'.op \notin Operations)
      BY <3>3 DEF get_policy_instance_status, queues, Operations, HttpIdle
    <3>4. CASE data_delivery
      BY <3>4 DEF data_delivery, Return
    <3> QED
      BY <1>2, <3>1, <3>2, <3>3, <3>4 DEF HttpRequest
  <2> QED
    BY <2>1 DEF Operations
<1>3. CASE HttpStep
  <2>1. CASE queue_instance_send
    <3>1. http.op \in Operations /\ Len(jobs') = Len(jobs) + 1 /\ http' = HttpIdle
      BY <2>1 DEF queue_instance_send, Return, TypeOK, HttpOK, QueuesOK
    <3>2. Len(jobs) \in Nat /\ MaxJobs \in Nat
      BY A1Constants DEF TypeOK, QueuesOK
    <3> QED
      BY <3>1, <3>2 DEF Operations
  <2>2. CASE ~queue_instance_send
    <3>1. UNCHANGED jobs
      BY <1>3, <2>2 DEF HttpStep, delete_type_key, put_find_handlers, put_clear_handler,
         put_set_instance, put_set_metadata, delete_get_metadata, delete_mark,
         delete_get_statuses, delete_start_thread, status_get_metadata,
         status_get_statuses, queues
    <3>2. http'.op = http.op \/ http' = HttpIdle
      BY <1>3, <2>2 DEF HttpStep, delete_type_key, put_find_handlers, put_clear_handler,
         put_set_instance, put_set_metadata, delete_get_metadata, delete_mark,
         delete_get_statuses, delete_start_thread, status_get_metadata,
         status_get_statuses, Return, TypeOK, HttpOK
    <3> QED
      BY <1>1, <3>1, <3>2
  <2> QED
    BY <2>1, <2>2
<1>4. ASSUME NEW d \in DelThreads, DeleteAfter(d) PROVE JobBound'
  BY <1>1, <1>4 DEF DeleteAfter, delete_after_check, delete_after_expire, delete_after_clear,
     delete_after_instance, delete_after_metadata, queues
<1>5. CASE LoopStep
  BY <1>1, <1>5 DEF LoopStep, loop_turn, policy_response, set_policy_instance_status,
     policy_query, query_check, query_reply, ei_message, loop_sleep, queues
<1>6. ASSUME NEW s \in Senders, HandleSends(s) PROVE JobBound'
  BY <1>1, <1>6 DEF HandleSends, sends_empty, sends_get, send_msg, sends_ei_empty,
     sends_ei_get, queues
<1>7. CASE Fault \/ restart_unhealthy
  BY <1>1, <1>7 DEF Fault, http_sdl_error, thread_sdl_error, crash, restart_unhealthy,
     Volatile, Return, queues
<1>8. CASE UNCHANGED vars
  BY <1>1, <1>8 DEF vars, queues
<1> QED
  BY <1>2, <1>3, <1>4, <1>5, <1>6, <1>7, <1>8 DEF Next

\* A sender that goes on without a job, with the queue as it was, holds nothing
\* that another one holds.
LEMMA WithoutJob ==
    ASSUME TypeOK, InHand, SentOnce, NEW s \in Senders,
           NEW pc \in {"idle", "check", "get", "eicheck", "eiget"},
           Sender(s, SenderAt(pc, 0)), UNCHANGED <<head, nsent>>
    PROVE  InHand' /\ SentOnce'
<1>1. /\ sndr'[s].pc = pc
      /\ \A r \in Senders \ {s} : sndr'[r] = sndr[r]
  BY DEF Sender, SenderAt, TypeOK, QueuesOK
<1>2. InHand'
  BY <1>1 DEF InHand
<1> QED
  BY <1>2 DEF SentOnce

\* A step of a sender: get gives a job to one sender only, and a job leaves its
\* hands when it is sent.
LEMMA SenderJobs ==
    ASSUME TypeOK, JobsInv, NEW s \in Senders, HandleSends(s)
    PROVE  InHand' /\ SentOnce'
<1> USE DEF JobsInv
<1>0. /\ sndr \in [Senders -> [pc : {"idle", "check", "get", "send", "eicheck", "eiget"},
                               job : 0 .. head]]
      /\ head \in Nat /\ Len(jobs) \in Nat /\ head <= Len(jobs) /\ nsent \in [JobIds -> Nat]
  BY DEF TypeOK, QueuesOK
<1>1. CASE sends_empty(s) \/ sends_ei_empty(s)
  BY <1>1, WithoutJob DEF sends_empty, sends_ei_empty, queues
<1>2. CASE sends_ei_get(s)
  BY <1>2, WithoutJob DEF sends_ei_get
<1>3. CASE sends_get(s) /\ ~(head < Len(jobs))
  BY <1>3, WithoutJob DEF sends_get
<1>4. CASE sends_get(s) /\ head < Len(jobs)
  <2>1. /\ sndr' = [sndr EXCEPT ![s] = [pc |-> "send", job |-> head + 1]]
        /\ head' = head + 1 /\ nsent' = nsent
    BY <1>4 DEF sends_get, Sender, SenderAt
  <2>2. head + 1 \in JobIds
    BY <1>0, <1>4, A1Constants DEF JobBound, JobIds
  <2>3. nsent[head + 1] = 0
    BY <1>0, <2>2 DEF SentOnce
  <2>4. /\ sndr'[s] = [pc |-> "send", job |-> head + 1]
        /\ \A r \in Senders \ {s} : sndr'[r] = sndr[r] /\ sndr[r].job \in 0 .. head
    BY <1>0, <2>1
  <2>5. \A r \in Senders \ {s} : sndr'[r].job # head + 1
    BY <1>0, <2>4
  <2>6. InHand'
    <3> SUFFICES ASSUME NEW r \in Senders, sndr'[r].pc = "send"
                 PROVE  /\ sndr'[r].job \in JobIds /\ nsent'[sndr'[r].job] = 0
                        /\ \A q \in Senders \ {r} :
                                sndr'[q].pc = "send" => sndr'[q].job # sndr'[r].job
      BY DEF InHand
    <3>1. CASE r = s
      BY <2>1, <2>2, <2>3, <2>4, <2>5, <3>1
    <3>2. CASE r # s
      BY <2>1, <2>4, <2>5, <3>2 DEF InHand
    <3> QED
      BY <3>1, <3>2
  <2>7. SentOnce'
    BY <1>0, <2>1 DEF SentOnce, JobIds
  <2> QED
    BY <2>6, <2>7
<1>5. CASE send_msg(s)
  <2>1. /\ sndr' = [sndr EXCEPT ![s] = [pc |-> "check", job |-> 0]]
        /\ sndr[s].pc = "send" /\ head' = head
    BY <1>5 DEF send_msg, Sender, SenderAt
  <2>2. /\ sndr'[s].pc = "check"
        /\ \A r \in Senders \ {s} : sndr'[r] = sndr[r]
    BY <1>0, <2>1
  <2> DEFINE j == sndr[s].job
  <2>3. j \in JobIds /\ nsent[j] = 0 /\ j \in 0 .. head
    BY <1>0, <2>1 DEF InHand
  <2>4. /\ nsent'[j] = 1
        /\ \A i \in JobIds \ {j} : nsent'[i] = nsent[i]
    BY <1>0, <1>5, <2>3 DEF send_msg
  <2>5. SentOnce'
    BY <1>0, <2>1, <2>3, <2>4 DEF SentOnce, JobIds
  <2>6. InHand'
    BY <2>1, <2>2, <2>3, <2>4 DEF InHand
  <2> QED
    BY <2>5, <2>6
<1> QED
  BY <1>1, <1>2, <1>3, <1>4, <1>5 DEF HandleSends

\* Steps outside the senders leave jobs in the hands they are in, or take them
\* all away with the process.
LEMMA OtherJobs ==
    ASSUME TypeOK, JobsInv,
           \/ UNCHANGED <<sndr, head, nsent>>
           \/ loop_turn
           \/ Volatile
           \/ queue_instance_send
    PROVE  InHand' /\ SentOnce'
<1> USE DEF JobsInv
<1>1. CASE UNCHANGED <<sndr, head, nsent>>
  BY <1>1 DEF InHand, SentOnce
<1>2. CASE loop_turn
  <2>1. UNCHANGED <<head, nsent>>
    BY <1>2 DEF loop_turn, queues
  <2>2. CASE UNCHANGED sndr
    BY <2>1, <2>2 DEF InHand, SentOnce
  <2>3. ASSUME NEW s \in Senders, sndr' = [sndr EXCEPT ![s] = SenderAt("check", 0)]
        PROVE  InHand' /\ SentOnce'
    BY <2>1, <2>3, WithoutJob DEF Sender
  <2> QED
    BY <1>2, <2>2, <2>3 DEF loop_turn
<1>3. CASE Volatile
  <2>1. \A s \in Senders : sndr'[s].pc = "idle"
    BY <1>3 DEF Volatile, SenderAt
  <2>2. nsent' = nsent /\ head' \in Nat /\ head \in Nat /\ head <= head'
    BY <1>3 DEF Volatile, TypeOK, QueuesOK
  <2> QED
    BY <2>1, <2>2 DEF InHand, SentOnce, JobIds
<1>4. CASE queue_instance_send
  BY <1>4, <1>1 DEF queue_instance_send
<1> QED
  BY <1>1, <1>2, <1>3, <1>4

\* Any number of sender threads, started and ended at any time, and restarts of
\* the process: no job goes out twice (a1rmr.py, _handle_sends).
THEOREM JobsAreSentOnce == Spec => []JobsSentAtMostOnce
<1>1. Init => JobsInv
  <2> SUFFICES ASSUME Init PROVE JobsInv
    OBVIOUS
  <2>1. JobBound
    BY A1Constants, IdleLemma DEF Init, JobBound, Operations
  <2>2. InHand
    BY DEF Init, InHand, SenderAt
  <2>3. SentOnce
    BY DEF Init, SentOnce
  <2> QED
    BY <2>1, <2>2, <2>3 DEF JobsInv
<1>2. TypeOK /\ JobsInv /\ [Next]_vars => JobsInv'
  <2> SUFFICES ASSUME TypeOK, JobsInv, [Next]_vars PROVE InHand' /\ SentOnce'
    BY JobBoundStep DEF JobsInv
  <2>1. CASE HttpRequest
    BY <2>1, OtherJobs DEF HttpRequest, create_policy_type, delete_policy_type,
       create_or_replace_policy_instance, delete_policy_instance,
       get_policy_instance_status, data_delivery, queues
  <2>2. CASE HttpStep
    BY <2>2, OtherJobs DEF HttpStep, delete_type_key, put_find_handlers, put_clear_handler,
       put_set_instance, put_set_metadata, delete_get_metadata, delete_mark,
       delete_get_statuses, delete_start_thread, status_get_metadata,
       status_get_statuses, queues
  <2>3. ASSUME NEW d \in DelThreads, DeleteAfter(d) PROVE InHand' /\ SentOnce'
    BY <2>3, OtherJobs DEF DeleteAfter, delete_after_check, delete_after_expire,
       delete_after_clear, delete_after_instance, delete_after_metadata, queues
  <2>4. CASE LoopStep
    BY <2>4, OtherJobs DEF LoopStep, policy_response, set_policy_instance_status,
       policy_query, query_check, query_reply, ei_message, loop_sleep, queues
  <2>5. CASE Fault \/ restart_unhealthy
    BY <2>5, OtherJobs DEF Fault, http_sdl_error, thread_sdl_error, crash,
       restart_unhealthy, queues
  <2>6. CASE UNCHANGED vars
    BY <2>6, OtherJobs DEF vars, queues
  <2> QED
    BY <2>1, <2>2, <2>3, <2>4, <2>5, <2>6, SenderJobs DEF Next
<1>3. JobsInv => JobsSentAtMostOnce
  BY DEF JobsInv, InHand, SentOnce, JobsSentAtMostOnce
<1> QED
  BY <1>1, <1>2, <1>3, TypeCorrect, PTL DEF Spec
-----------------------------------------------------------------------------
(***************************************************************************)
(* An UPDATE resets the statuses.  While its handler runs no other request *)
(* is accepted, so that what the RMR loop writes carries its own number;   *)
(* what was there before is on its list of keys until it is deleted.       *)
(***************************************************************************)
OldStatus(h) == hand[http.key][h] # NULL /\ ~(hand[http.key][h].at >= http.n)
ResetInv ==
    http.op = "UPDATE" =>
        /\ http.n = puts
        /\ http.pc = "clear" => \A h \in Handlers : OldStatus(h) => h \in http.todo
        /\ http.pc \in {"set", "setmeta", "queue"} => \A h \in Handlers : ~OldStatus(h)

\* A step that leaves the handler and the number of requests alone keeps ResetInv
\* if the statuses it writes are new.
LEMMA ResetKeep ==
    ASSUME ResetInv, UNCHANGED http, UNCHANGED puts,
           \A h \in Handlers : OldStatus(h)' => OldStatus(h)
    PROVE  ResetInv'
BY DEF ResetInv

\* A handler that ends keeps it, too.
LEMMA ResetReturn == http' = HttpIdle => ResetInv'
BY IdleLemma DEF ResetInv

\* Deleting a handler key makes no status an old one.
LEMMA DropLemma ==
    ASSUME TypeOK, NEW k \in Keys, NEW h \in Handlers, DropHandler(k, h),
           http'.key = http.key, http'.n = http.n
    PROVE  /\ \A g \in Handlers : OldStatus(g)' => OldStatus(g)
           /\ k = http.key => ~OldStatus(h)'
<1>1. http.key \in Keys
  BY DEF TypeOK, HttpOK
<1>2. hand' = [hand EXCEPT ![k] = [hand[k] EXCEPT ![h] = NULL]]
  BY DEF DropHandler
<1>3. \A g \in Handlers : hand'[http.key][g] = hand[http.key][g] \/ hand'[http.key][g] = NULL
  BY <1>1, <1>2 DEF TypeOK, SdlOK
<1>4. k = http.key => hand'[http.key][h] = NULL
  BY <1>1, <1>2 DEF TypeOK, SdlOK
<1> QED
  BY <1>3, <1>4 DEF OldStatus

\* A step of the HTTP handler.
LEMMA ResetHttpStep ==
    ASSUME TypeOK, ResetInv, HttpStep
    PROVE  ResetInv'
<1>0. http.key \in Keys /\ http.n \in Nat
  BY DEF TypeOK, HttpOK
<1>1. CASE put_find_handlers
  <2>1. /\ http'.op = http.op /\ http'.key = http.key /\ http'.n = http.n
        /\ http'.todo = HandlerKeys(http.key) /\ UNCHANGED <<hand, puts>>
        /\ http'.pc = IF HandlerKeys(http.key) = {} THEN "set" ELSE "clear"
    BY <1>1 DEF put_find_handlers, TypeOK, HttpOK, sdl, history, restarts
  <2>2. \A h \in Handlers : OldStatus(h)' => h \in HandlerKeys(http.key)
    BY <2>1 DEF OldStatus, HandlerKeys
  <2> QED
    BY <2>1, <2>2 DEF ResetInv
<1>2. ASSUME NEW h \in Handlers, put_clear_handler(h) PROVE ResetInv'
  <2>1. /\ http'.op = http.op /\ http'.key = http.key /\ http'.n = http.n
        /\ http'.todo = http.todo \ {h} /\ UNCHANGED puts
        /\ http'.pc = (IF http.todo = {h} THEN "set" ELSE "clear") /\ http.pc = "clear"
    BY <1>2 DEF put_clear_handler, TypeOK, HttpOK, history, restarts
  <2>2. /\ \A g \in Handlers : OldStatus(g)' => OldStatus(g)
        /\ ~OldStatus(h)'
    BY <1>0, <1>2, <2>1, DropLemma DEF put_clear_handler
  <2>3. ASSUME http.op = "UPDATE"
        PROVE  \A g \in Handlers : OldStatus(g)' => g \in http.todo \ {h}
    BY <2>1, <2>2, <2>3 DEF ResetInv
  <2> QED
    BY <2>1, <2>3 DEF ResetInv
<1>3. CASE put_set_instance \/ put_set_metadata
  <2>1. /\ http'.op = http.op /\ http'.key = http.key /\ http'.n = http.n
        /\ UNCHANGED <<puts, hand>>
        /\ http.pc \in {"set", "setmeta"} /\ http'.pc \in {"setmeta", "queue"}
    BY <1>3 DEF put_set_instance, put_set_metadata, TypeOK, HttpOK, history, restarts
  <2>2. \A h \in Handlers : OldStatus(h)' => OldStatus(h)
    BY <2>1 DEF OldStatus
  <2> QED
    BY <2>1, <2>2 DEF ResetInv
<1>4. CASE delete_get_metadata \/ delete_mark \/ delete_get_statuses
           \/ \E d \in DelThreads : delete_start_thread(d)
  <2>1. http.op = "DELETE"
    BY <1>4 DEF delete_get_metadata, delete_mark, delete_get_statuses, delete_start_thread,
       TypeOK, HttpOK
  <2>2. http'.op = http.op \/ http' = HttpIdle
    BY <1>4 DEF delete_get_metadata, delete_mark, delete_get_statuses, delete_start_thread,
       TypeOK, HttpOK
  <2> QED
    BY <2>1, <2>2, ResetReturn DEF ResetInv
<1>5. CASE delete_type_key \/ queue_instance_send \/ status_get_statuses
  BY <1>5, ResetReturn DEF delete_type_key, queue_instance_send, status_get_statuses, Return
<1>6. CASE status_get_metadata
  <2>1. CASE http' = HttpIdle
    BY <2>1, ResetReturn
  <2>2. CASE http' # HttpIdle
    <3>1. /\ http'.op = http.op /\ http'.n = http.n /\ http'.pc = "sstat" /\ UNCHANGED puts
      BY <1>6, <2>2 DEF status_get_metadata, TypeOK, HttpOK, history, restarts
    <3> QED
      BY <3>1 DEF ResetInv
  <2> QED
    BY <2>1, <2>2
<1> QED
  BY <1>1, <1>2, <1>3, <1>4, <1>5, <1>6 DEF HttpStep

\* A step of the RMR loop or of a delete thread.
LEMMA ResetThreads ==
    ASSUME TypeOK, ResetInv, LoopStep \/ \E d \in DelThreads : DeleteAfter(d)
    PROVE  ResetInv'
<1>0. http.key \in Keys /\ http.n \in Nat /\ puts \in Nat
  BY DEF TypeOK, HttpOK, HistoryOK
<1>1. CASE set_policy_instance_status
  <2>1. /\ UNCHANGED <<http, puts>>
        /\ loop.h \in Handlers /\ loop.key \in Keys
        /\ hand' = [hand EXCEPT ![loop.key] =
                       [hand[loop.key] EXCEPT ![loop.h] = [s |-> loop.s, at |-> puts]]]
    BY <1>1 DEF set_policy_instance_status, history, restarts, TypeOK, LoopOK
  <2>2. ASSUME NEW h \in Handlers
        PROVE  \/ hand'[http.key][h] = hand[http.key][h]
               \/ hand'[http.key][h] = [s |-> loop.s, at |-> puts]
    BY <1>0, <2>1 DEF TypeOK, SdlOK
  <2>3. CASE http.op = "UPDATE"
    <3>1. puts >= http.n
      BY <1>0, <2>3 DEF ResetInv
    <3>2. \A h \in Handlers : OldStatus(h)' => OldStatus(h)
      BY <2>1, <2>2, <3>1 DEF OldStatus
    <3> QED
      BY <2>1, <3>2, ResetKeep
  <2>4. CASE http.op # "UPDATE"
    BY <2>1, <2>4 DEF ResetInv
  <2> QED
    BY <2>3, <2>4
<1>2. ASSUME NEW d \in DelThreads, NEW h \in Handlers, delete_after_clear(d, h)
      PROVE  ResetInv'
  <2>1. UNCHANGED <<http, puts>> /\ delt[d].key \in Keys
    BY <1>2 DEF delete_after_clear, history, restarts, TypeOK, DeletersOK
  <2>2. \A g \in Handlers : OldStatus(g)' => OldStatus(g)
    BY <1>2, <2>1, DropLemma DEF delete_after_clear
  <2> QED
    BY <2>1, <2>2, ResetKeep
<1>3. CASE UNCHANGED <<http, hand, puts>>
  BY <1>3, ResetKeep DEF OldStatus
<1> QED
  BY <1>1, <1>2, <1>3 DEF LoopStep, loop_turn, policy_response, policy_query, query_check,
     query_reply, ei_message, loop_sleep, DeleteAfter, delete_after_check,
     delete_after_expire, delete_after_instance, delete_after_metadata, sdl, history, restarts

\* Whatever the RMR loop and any number of delete threads do to the handler keys,
\* an UPDATE leaves no status from before it (data.py, store_policy_instance).
THEOREM UpdatesResetStatuses == Spec => []UpdateResetsStatuses
<1>1. Init => ResetInv
  BY IdleLemma DEF Init, ResetInv
<1>2. TypeOK /\ ResetInv /\ [Next]_vars => ResetInv'
  <2> SUFFICES ASSUME TypeOK, ResetInv, [Next]_vars PROVE ResetInv'
    OBVIOUS
  <2>1. CASE HttpRequest
    <3>1. ASSUME NEW k \in Keys, create_or_replace_policy_instance(k) PROVE ResetInv'
      <4>1. CASE Return
        BY <4>1, ResetReturn DEF Return
      <4>2. CASE ~Return
        <5>1. /\ http'.n = puts' /\ http'.op \in {"CREATE", "UPDATE"}
              /\ http'.op = "UPDATE" => http'.pc = "find"
          BY <3>1, <4>2 DEF create_or_replace_policy_instance, HttpIdle
        <5> QED
          BY <5>1 DEF ResetInv
      <4> QED
        BY <4>1, <4>2
    <3>2. ASSUME \/ http' = HttpIdle
                 \/ http'.op # "UPDATE"
          PROVE  ResetInv'
      BY <3>2, ResetReturn DEF ResetInv
    <3> QED
      BY <2>1, <3>1, <3>2 DEF HttpRequest, create_policy_type, delete_policy_type,
         delete_policy_instance, get_policy_instance_status, data_delivery, Return, HttpIdle
  <2>2. ASSUME NEW s \in Senders, HandleSends(s) PROVE ResetInv'
    BY <2>2, ResetKeep DEF HandleSends, sends_empty, sends_get, send_msg, sends_ei_empty,
       sends_ei_get, sdl, history, restarts, OldStatus
  <2>3. CASE http_sdl_error \/ crash \/ restart_unhealthy
    BY <2>3, ResetReturn DEF http_sdl_error, crash, restart_unhealthy, Volatile, Return
  <2>4. CASE thread_sdl_error
    BY <2>4, ResetKeep DEF thread_sdl_error, sdl, OldStatus
  <2>5. CASE UNCHANGED vars
    BY <2>5, ResetKeep DEF vars, sdl, history, restarts, OldStatus
  <2> QED
    BY <2>1, <2>2, <2>3, <2>4, <2>5, ResetHttpStep, ResetThreads DEF Next, Fault
<1>3. ResetInv => UpdateResetsStatuses
  BY DEF ResetInv, OldStatus, UpdateResetsStatuses
<1> QED
  BY <1>1, <1>2, <1>3, TypeCorrect, PTL DEF Spec
-----------------------------------------------------------------------------
(***************************************************************************)
(* An accepted DELETE is not forgotten.  Between the start of its thread   *)
(* and the queueing of its job the DELETE is not yet accepted; from the    *)
(* start of the thread on the instance is doomed.  A thread that gives up  *)
(* because the type is missing leaves no instance behind, since instances  *)
(* have their types.                                                       *)
(***************************************************************************)
NoFault == faults = 0 /\ ~restarted
Doomed(k) == inst[k] = NULL \/ DeletePending(k)
Accepting(k) == http.pc = "queue" /\ http.op = "DELETE" /\ http.key = k
DoomInv ==
    /\ http.pc \in {"tdel", "sget", "sstat"} => http.op \notin {"CREATE", "UPDATE"}
    /\ NoFault => \A k \in Keys :
         (Accepting(k) \/ (LastAcceptedIsDelete(k) /\ ~Putting(k))) => Doomed(k)

\* Which request was accepted last, after one more job was queued.
LEMMA LastAppended ==
    ASSUME TypeOK, NEW job \in [op : Operations, key : Keys, n : Nat],
           jobs' = Append(jobs, job), NEW k \in Keys, LastAcceptedIsDelete(k)'
    PROVE  \/ job.key = k /\ job.op = "DELETE"
           \/ job.key # k /\ LastAcceptedIsDelete(k)
<1>1. PICK j \in 1 .. Len(jobs') :
          /\ jobs'[j].key = k /\ jobs'[j].op = "DELETE"
          /\ \A i \in 1 .. Len(jobs') : i > j => jobs'[i].key # k
  BY DEF LastAcceptedIsDelete
<1>2. PICK len \in Nat : len = Len(jobs)
  BY DEF TypeOK, QueuesOK
<1>3. /\ Len(jobs') = len + 1 /\ jobs'[len + 1] = job
      /\ \A i \in 1 .. len : jobs'[i] = jobs[i]
  BY <1>2 DEF TypeOK, QueuesOK
<1>4. CASE j = len + 1
  BY <1>1, <1>3, <1>4
<1>5. CASE j # len + 1
  <2>1. j \in 1 .. len /\ len + 1 \in 1 .. Len(jobs') /\ len + 1 > j
    BY <1>2, <1>3, <1>5
  <2>2. job.key # k
    BY <1>1, <1>3, <2>1
  <2>3. LastAcceptedIsDelete(k)
    <3>1. \A i \in 1 .. len : i \in 1 .. Len(jobs')
      BY <1>2, <1>3
    <3> QED
      BY <1>1, <1>2, <1>3, <2>1, <3>1 DEF LastAcceptedIsDelete
  <2> QED
    BY <2>2, <2>3
<1> QED
  BY <1>4, <1>5

\* A step that keeps the jobs and what the handler is about keeps DoomInv, if it
\* keeps every instance doomed that was.
LEMMA DoomKeep ==
    ASSUME DoomInv, UNCHANGED jobs, NoFault' => NoFault,
           http'.pc \in {"tdel", "sget", "sstat"} => http'.op \notin {"CREATE", "UPDATE"},
           \A k \in Keys : /\ Accepting(k)' => Accepting(k)
                           /\ Putting(k) => Putting(k)'
                           /\ (NoFault' /\ ~Putting(k)' /\ Doomed(k)) => Doomed(k)'
    PROVE  DoomInv'
<1>1. \A k \in Keys : LastAcceptedIsDelete(k)' = LastAcceptedIsDelete(k)
  BY DEF LastAcceptedIsDelete
<1>2. \A k \in Keys : Accepting(k) => ~Putting(k)
  BY DEF Accepting, Putting
<1>3. \A k \in Keys : Accepting(k)' => ~Putting(k)'
  BY DEF Accepting, Putting
<1> QED
  BY <1>1, <1>2, <1>3 DEF DoomInv

\* Pending deletions depend on the threads alone.
LEMMA DoomedUnchanged ==
    ASSUME UNCHANGED <<inst, delt>>, NEW k
    PROVE  Doomed(k)' = Doomed(k)
BY DEF Doomed, DeletePending

\* A request that is not accepted, or not yet, keeps DoomInv.
LEMMA DoomRequest ==
    ASSUME TypeOK, DoomInv, HttpRequest
    PROVE  DoomInv'
<1> USE KeysLemma, IdleLemma
<1>1. http.pc = "idle" /\ UNCHANGED <<inst, delt, jobs, faults, restarted>>
  BY DEF HttpRequest, create_policy_type, delete_policy_type,
     create_or_replace_policy_instance, delete_policy_instance,
     get_policy_instance_status, data_delivery, sdl, queues, history, restarts
<1>2. /\ http'.pc # "queue"
      /\ http'.pc \in {"tdel", "sget", "sstat"} => http'.op \notin {"CREATE", "UPDATE"}
  <2>1. ASSUME NEW t \in TypeIds, create_policy_type(t) \/ delete_policy_type(t)
        PROVE  http' = HttpIdle \/ (http'.pc = "tdel" /\ http'.op = "TYPE")
    BY <2>1 DEF create_policy_type, delete_policy_type, Return, HttpIdle
  <2>2. ASSUME NEW k \in Keys, create_or_replace_policy_instance(k)
        PROVE  http' = HttpIdle \/ http'.pc \in {"set", "find"}
    BY <2>2 DEF create_or_replace_policy_instance, Return, HttpIdle
  <2>3. ASSUME NEW k \in Keys, delete_policy_instance(k) \/ get_policy_instance_status(k)
        PROVE  \/ http' = HttpIdle \/ http'.pc = "dget"
               \/ http'.pc = "sget" /\ http'.op = "STATUS"
    BY <2>3 DEF delete_policy_instance, get_policy_instance_status, HttpIdle
  <2>4. CASE data_delivery
    BY <2>4 DEF data_delivery, Return
  <2> QED
    BY <2>1, <2>2, <2>3, <2>4 DEF HttpRequest
<1> QED
  BY <1>1, <1>2, DoomKeep, DoomedUnchanged DEF Accepting, Putting, NoFault

\* A further step of the HTTP handler: a DELETE is accepted with its thread alive.
LEMMA DoomHttpStep ==
    ASSUME TypeOK, DoomInv, HttpStep
    PROVE  DoomInv'
<1> USE IdleLemma
<1>0. /\ http.key \in Keys
      /\ http.pc \in {"find", "clear", "set", "setmeta"} => http.op \in {"CREATE", "UPDATE"}
      /\ http.pc \in {"dget", "dmark", "dstat", "dstart"} => http.op = "DELETE"
  BY DEF TypeOK, HttpOK
<1>1. CASE put_find_handlers \/ (\E h \in Handlers : put_clear_handler(h))
           \/ put_set_instance \/ put_set_metadata
  <2>1. /\ http.op \in {"CREATE", "UPDATE"} /\ http.pc # "idle" /\ http'.op = http.op
        /\ http'.key = http.key /\ http'.pc \in {"clear", "set", "setmeta", "queue"}
    BY <1>0, <1>1 DEF put_find_handlers, put_clear_handler, put_set_instance,
       put_set_metadata, TypeOK, HttpOK
  <2>2. /\ UNCHANGED <<delt, jobs, faults, restarted>>
        /\ UNCHANGED inst \/ inst' = [inst EXCEPT ![http.key] = http.n]
    BY <1>1 DEF put_find_handlers, put_clear_handler, put_set_instance, put_set_metadata,
       sdl, queues, history, restarts
  <2>3. \A k \in Keys : k # http.key => inst'[k] = inst[k]
    BY <1>0, <2>2 DEF TypeOK, SdlOK
  <2>4. \A k \in Keys : ~Putting(k)' /\ Doomed(k) => Doomed(k)'
    BY <2>1, <2>2, <2>3 DEF Putting, Doomed, DeletePending
  <2> QED
    BY <2>1, <2>2, <2>4, DoomKeep DEF Accepting, Putting, NoFault
<1>2. CASE queue_instance_send
  <2> DEFINE job == [op |-> http.op, key |-> http.key, n |-> http.n]
  <2>1. /\ jobs' = Append(jobs, job) /\ http.pc = "queue"
        /\ UNCHANGED <<inst, delt, faults, restarted>> /\ http' = HttpIdle
        /\ job \in [op : Operations, key : Keys, n : Nat]
    BY <1>2 DEF queue_instance_send, Return, sdl, history, restarts, TypeOK, HttpOK
  <2>2. ASSUME NEW k \in Keys, NoFault', LastAcceptedIsDelete(k)'
        PROVE  Doomed(k)'
    <3>1. \/ http.key = k /\ http.op = "DELETE"
          \/ http.key # k /\ LastAcceptedIsDelete(k)
      BY <2>1, <2>2, LastAppended
    <3>2. Accepting(k) \/ (LastAcceptedIsDelete(k) /\ ~Putting(k))
      BY <2>1, <3>1 DEF Accepting, Putting
    <3>3. Doomed(k)
      BY <2>1, <2>2, <3>2 DEF DoomInv, NoFault
    <3> QED
      BY <2>1, <3>3, DoomedUnchanged
  <2> QED
    BY <2>1, <2>2 DEF DoomInv, Accepting
<1>3. CASE delete_get_metadata \/ delete_mark \/ delete_get_statuses
  <2>1. /\ http.op = "DELETE" /\ UNCHANGED <<inst, delt, jobs, faults, restarted>>
        /\ \/ http' = HttpIdle
           \/ http'.op = "DELETE" /\ http'.pc \in {"dmark", "dstat", "dstart"}
    BY <1>0, <1>3 DEF delete_get_metadata, delete_mark, delete_get_statuses, sdl, queues,
       history, restarts, TypeOK, HttpOK
  <2> QED
    BY <2>1, DoomKeep, DoomedUnchanged DEF Accepting, Putting, NoFault
<1>4. ASSUME NEW d \in DelThreads, delete_start_thread(d) PROVE DoomInv'
  <2>1. /\ http.op = "DELETE" /\ http'.op = "DELETE" /\ http'.key = http.key
        /\ http'.pc = "queue" /\ delt[d].pc = "none"
        /\ UNCHANGED <<inst, jobs, faults, restarted>>
    BY <1>0, <1>4 DEF delete_start_thread, sdl, queues, history, restarts, TypeOK, HttpOK
  <2>2. /\ delt'[d].pc = "start" /\ delt'[d].key = http.key
        /\ \A e \in DelThreads \ {d} : delt'[e] = delt[e]
    BY <1>4 DEF delete_start_thread, TypeOK, DeletersOK
  <2>3. \A k \in Keys : Doomed(k) => Doomed(k)'
    BY <2>1, <2>2 DEF Doomed, DeletePending
  <2>4. \A k \in Keys : k = http.key => Doomed(k)'
    BY <2>2 DEF Doomed, DeletePending
  <2>5. \A k \in Keys : LastAcceptedIsDelete(k)' = LastAcceptedIsDelete(k)
    BY <2>1 DEF LastAcceptedIsDelete
  <2> QED
    BY <2>1, <2>3, <2>4, <2>5 DEF DoomInv, Accepting, Putting, NoFault
<1>5. CASE delete_type_key \/ status_get_metadata \/ status_get_statuses
  <2>1. /\ http.op \notin {"CREATE", "UPDATE"}
        /\ UNCHANGED <<inst, delt, jobs, faults, restarted>>
        /\ http' = HttpIdle \/ (http'.pc = "sstat" /\ http'.op = http.op)
    BY <1>5 DEF delete_type_key, status_get_metadata, status_get_statuses, Return, sdl,
       queues, history, restarts, TypeOK, HttpOK, DoomInv
  <2> QED
    BY <2>1, DoomKeep, DoomedUnchanged DEF Accepting, Putting, NoFault
<1> QED
  BY <1>1, <1>2, <1>3, <1>4, <1>5 DEF HttpStep

\* A delete thread goes on until it has removed the instance, or finds it gone.
LEMMA DoomThread ==
    ASSUME TypeOK, InstanceHasType, DoomInv, NEW d \in DelThreads, DeleteAfter(d)
    PROVE  DoomInv'
<1>0. delt[d].key \in Keys
  BY DEF TypeOK, DeletersOK
<1>1. UNCHANGED <<http, jobs, faults, restarted>>
  BY DEF DeleteAfter, delete_after_check, delete_after_expire, delete_after_clear,
     delete_after_instance, delete_after_metadata, queues, history, restarts
<1>2. ASSUME \A k \in Keys : inst'[k] = inst[k] \/ inst'[k] = NULL,
             \A e \in DelThreads \ {d} : delt'[e] = delt[e],
             \/ delt[d].pc \in {"start", "sleep", "clear", "inst"} =>
                   inst'[delt[d].key] = NULL
             \/ delt'[d].key = delt[d].key /\ delt'[d].pc \in {"sleep", "clear", "inst"}
      PROVE  DoomInv'
  <2>1. ASSUME NEW k \in Keys, Doomed(k) PROVE Doomed(k)'
    <3>1. CASE inst[k] = NULL
      BY <1>2, <3>1 DEF Doomed
    <3>2. CASE DeletePending(k)
      <4>1. PICK e \in DelThreads :
                delt[e].key = k /\ delt[e].pc \in {"start", "sleep", "clear", "inst"}
        BY <3>2 DEF DeletePending
      <4>2. CASE e # d
        BY <1>2, <4>1, <4>2 DEF Doomed, DeletePending
      <4>3. CASE e = d
        BY <1>2, <4>1, <4>3 DEF Doomed, DeletePending
      <4> QED
        BY <4>2, <4>3
    <3> QED
      BY <2>1, <3>1, <3>2 DEF Doomed
  <2> QED
    BY <1>1, <2>1, DoomKeep DEF Accepting, Putting, NoFault, DoomInv
<1>3. CASE delete_after_check(d)
  <2>1. UNCHANGED inst /\ \A e \in DelThreads \ {d} : delt'[e] = delt[e]
    BY <1>3 DEF delete_after_check, Deleter, EndDeleter, sdl, TypeOK, DeletersOK
  <2>2. CASE instance_is_valid(delt[d].key)
    <3>1. delt'[d].key = delt[d].key /\ delt'[d].pc = "sleep"
      BY <1>3, <2>2 DEF delete_after_check, Deleter, TypeOK, DeletersOK
    <3> QED
      BY <1>2, <2>1, <3>1
  <2>3. CASE ~instance_is_valid(delt[d].key)
    <3>1. inst[delt[d].key] = NULL
      BY <1>0, <2>3 DEF instance_is_valid, type_is_valid, InstanceHasType
    <3> QED
      BY <1>2, <2>1, <3>1
  <2> QED
    BY <2>2, <2>3
<1>4. CASE delete_after_expire(d) \/ \E h \in Handlers : delete_after_clear(d, h)
  <2>1. UNCHANGED inst
    BY <1>4 DEF delete_after_expire, delete_after_clear, sdl
  <2>2. /\ delt'[d].key = delt[d].key /\ delt'[d].pc \in {"clear", "inst"}
        /\ \A e \in DelThreads \ {d} : delt'[e] = delt[e]
    BY <1>4 DEF delete_after_expire, delete_after_clear, Deleter, TypeOK, DeletersOK
  <2> QED
    BY <1>2, <2>1, <2>2
<1>5. CASE delete_after_instance(d)
  <2>1. /\ \A e \in DelThreads \ {d} : delt'[e] = delt[e]
        /\ inst'[delt[d].key] = NULL
        /\ \A k \in Keys : inst'[k] = inst[k] \/ inst'[k] = NULL
    BY <1>0, <1>5 DEF delete_after_instance, Deleter, TypeOK, DeletersOK, SdlOK
  <2> QED
    BY <1>2, <2>1
<1>6. CASE delete_after_metadata(d)
  <2>1. /\ UNCHANGED inst /\ delt[d].pc = "meta"
        /\ \A e \in DelThreads \ {d} : delt'[e] = delt[e]
    BY <1>6 DEF delete_after_metadata, EndDeleter, TypeOK, DeletersOK
  <2> QED
    BY <1>2, <2>1
<1> QED
  BY <1>3, <1>4, <1>5, <1>6 DEF DeleteAfter

\* Whatever other DELETEs, their threads, PUTs and status writes do: the instance
\* of an accepted DELETE is gone or has a thread that will remove it (data.py,
\* delete_policy_instance and _delete_after).
THEOREM DeletesAreNotForgotten == Spec => []DeleteNotForgotten
<1>1. Init => DoomInv
  <2> SUFFICES ASSUME Init PROVE DoomInv
    OBVIOUS
  <2>1. http.pc = "idle" /\ \A k \in Keys : inst[k] = NULL
    BY IdleLemma DEF Init
  <2> QED
    BY <2>1 DEF DoomInv, Doomed
<1>2. TypeOK /\ InstanceHasType /\ DoomInv /\ [Next]_vars => DoomInv'
  <2> SUFFICES ASSUME TypeOK, InstanceHasType, DoomInv, [Next]_vars PROVE DoomInv'
    OBVIOUS
  <2>1. ASSUME UNCHANGED <<http, inst, delt, jobs, restarted>>, NoFault' => NoFault
        PROVE  DoomInv'
    BY <2>1, DoomKeep, DoomedUnchanged DEF Accepting, Putting, DoomInv
  <2>2. CASE LoopStep
    <3>1. UNCHANGED <<http, inst, delt, jobs, restarted>>
      BY <2>2 DEF LoopStep, loop_turn, policy_response, set_policy_instance_status,
         policy_query, query_check, query_reply, ei_message, loop_sleep, sdl, queues, history, restarts
    <3>2. faults' = faults \/ faults' = faults + 1
      BY <2>2 DEF LoopStep, loop_turn, policy_response, set_policy_instance_status,
         policy_query, query_check, query_reply, ei_message, loop_sleep, history, restarts
    <3> QED
      BY <2>1, <3>1, <3>2 DEF NoFault, TypeOK, HistoryOK
  <2>3. ASSUME NEW s \in Senders, HandleSends(s) PROVE DoomInv'
    BY <2>1, <2>3 DEF HandleSends, sends_empty, sends_get, send_msg, sends_ei_empty,
       sends_ei_get, sdl, queues, history, restarts, NoFault
  <2>4. CASE Fault \/ restart_unhealthy
    <3>1. ~NoFault'
      BY <2>4 DEF Fault, http_sdl_error, thread_sdl_error, crash, restart_unhealthy, Volatile,
         NoFault, TypeOK, HistoryOK
    <3>2. http' = http \/ http' = HttpIdle
      BY <2>4 DEF Fault, http_sdl_error, thread_sdl_error, crash, restart_unhealthy, Volatile,
         Return
    <3> QED
      BY <3>1, <3>2, IdleLemma DEF DoomInv
  <2>5. CASE UNCHANGED vars
    BY <2>1, <2>5 DEF vars, sdl, queues, history, restarts, NoFault
  <2> QED
    BY <2>2, <2>3, <2>4, <2>5, DoomRequest, DoomHttpStep, DoomThread DEF Next
<1>3. DoomInv => DeleteNotForgotten
  BY DEF DoomInv, NoFault, Doomed, DeleteNotForgotten
<1> QED
  BY <1>1, <1>2, <1>3, TypeCorrect, InstancesHaveTypes, PTL DEF Spec
-----------------------------------------------------------------------------
(***************************************************************************)
(* The mediator implements PolicyStore.  Beyond StoreInv this needs that   *)
(* the number of a PUT that is about to be stored is the largest so far,   *)
(* as there is one HTTP handler.                                           *)
(***************************************************************************)
Fresh(n) == n \in 1 .. MaxPuts /\ \A k \in Keys : inst[k] # NULL => inst[k] < n
NumberInv ==
    /\ puts <= MaxPuts
    /\ \A k \in Keys : inst[k] # NULL => inst[k] <= puts
    /\ http.pc \in {"find", "clear", "set"} => http.n = puts /\ Fresh(http.n)

\* Steps that store nothing and take no PUT keep NumberInv.
LEMMA NumberKeep ==
    ASSUME NumberInv, UNCHANGED puts,
           \A k \in Keys : inst'[k] = inst[k] \/ inst'[k] = NULL,
           http'.pc \in {"find", "clear", "set"} =>
               http.pc \in {"find", "clear", "set"} /\ http'.n = http.n
    PROVE  NumberInv'
BY DEF NumberInv, Fresh

\* The handler takes the next number, and stores under it.
LEMMA NumberHttp ==
    ASSUME TypeOK, NumberInv, HttpRequest \/ HttpStep
    PROVE  NumberInv'
<1> USE IdleLemma
<1>0. /\ puts \in Nat /\ MaxPuts \in Nat /\ http.key \in Keys
      /\ \A k \in Keys : inst[k] # NULL => inst[k] \in Nat
  BY A1Constants DEF TypeOK, HistoryOK, HttpOK, SdlOK
<1>1. ASSUME NEW k \in Keys, create_or_replace_policy_instance(k) PROVE NumberInv'
  <2>1. UNCHANGED inst
    BY <1>1 DEF create_or_replace_policy_instance, sdl
  <2>2. CASE Return /\ UNCHANGED puts
    BY <2>1, <2>2, NumberKeep DEF Return
  <2>3. CASE ~(Return /\ UNCHANGED puts)
    <3>1. puts' = puts + 1 /\ puts < MaxPuts /\ http'.n = puts + 1
      BY <1>1, <2>3 DEF create_or_replace_policy_instance, HttpIdle
    <3>2. \A j \in Keys : inst[j] # NULL => inst[j] <= puts
      BY DEF NumberInv
    <3>3. \A j \in Keys : inst'[j] # NULL => inst'[j] < puts + 1 /\ inst'[j] <= puts + 1
      BY <1>0, <2>1, <3>2
    <3>4. puts + 1 \in 1 .. MaxPuts /\ puts + 1 <= MaxPuts
      BY <1>0, <3>1
    <3> QED
      BY <3>1, <3>3, <3>4 DEF NumberInv, Fresh
  <2> QED
    BY <2>2, <2>3
<1>2. CASE put_set_instance
  <2>1. /\ inst' = [inst EXCEPT ![http.key] = http.n] /\ UNCHANGED puts
        /\ http'.pc = "setmeta" /\ http.n = puts
    BY <1>2 DEF put_set_instance, history, restarts, NumberInv, TypeOK, HttpOK
  <2>2. \A k \in Keys : inst'[k] = inst[k] \/ inst'[k] = puts
    BY <2>1 DEF TypeOK, SdlOK
  <2>3. puts <= puts
    BY <1>0
  <2> QED
    BY <2>1, <2>2, <2>3 DEF NumberInv
<1>3. CASE put_find_handlers \/ \E h \in Handlers : put_clear_handler(h)
  <2>1. /\ http.pc \in {"find", "clear"} /\ http'.n = http.n /\ UNCHANGED <<inst, puts>>
    BY <1>3 DEF put_find_handlers, put_clear_handler, sdl, history, restarts, TypeOK, HttpOK
  <2> QED
    BY <2>1, NumberKeep
<1>4. ASSUME NEW t \in TypeIds, create_policy_type(t) \/ delete_policy_type(t)
      PROVE  NumberInv'
  <2>1. http'.pc \in {"idle", "tdel"} /\ UNCHANGED <<inst, puts>>
    BY <1>4 DEF create_policy_type, delete_policy_type, Return, HttpIdle, sdl, history, restarts
  <2> QED
    BY <2>1, NumberKeep
<1>5. ASSUME NEW k \in Keys, delete_policy_instance(k) \/ get_policy_instance_status(k)
      PROVE  NumberInv'
  <2>1. http'.pc \in {"idle", "dget", "sget"} /\ UNCHANGED <<inst, puts>>
    BY <1>5 DEF delete_policy_instance, get_policy_instance_status, HttpIdle, sdl, history, restarts
  <2> QED
    BY <2>1, NumberKeep
<1>6. CASE \/ data_delivery \/ delete_type_key \/ queue_instance_send \/ status_get_statuses
           \/ put_set_metadata \/ delete_get_metadata \/ delete_mark \/ delete_get_statuses
           \/ status_get_metadata \/ \E d \in DelThreads : delete_start_thread(d)
  <2>1. /\ http'.pc \notin {"find", "clear", "set"} /\ UNCHANGED <<inst, puts>>
    BY <1>6 DEF data_delivery, delete_type_key, queue_instance_send, status_get_statuses,
       put_set_metadata, delete_get_metadata, delete_mark, delete_get_statuses,
       status_get_metadata, delete_start_thread, Return, sdl, history, restarts, TypeOK, HttpOK
  <2> QED
    BY <2>1, NumberKeep
<1> QED
  BY <1>1, <1>2, <1>3, <1>4, <1>5, <1>6 DEF HttpRequest, HttpStep

\* NumberInv holds throughout.
LEMMA NumberAlways == Spec => []NumberInv
<1>1. Init => NumberInv
  BY IdleLemma, A1Constants DEF Init, NumberInv
<1>2. TypeOK /\ NumberInv /\ [Next]_vars => NumberInv'
  <2> SUFFICES ASSUME TypeOK, NumberInv, [Next]_vars PROVE NumberInv'
    OBVIOUS
  <2>1. ASSUME NEW d \in DelThreads, DeleteAfter(d) PROVE NumberInv'
    <3>1. /\ UNCHANGED <<http, puts>>
          /\ UNCHANGED inst \/ inst' = [inst EXCEPT ![delt[d].key] = NULL]
      BY <2>1 DEF DeleteAfter, delete_after_check, delete_after_expire, delete_after_clear,
         delete_after_instance, delete_after_metadata, sdl, history, restarts
    <3>2. \A k \in Keys : inst'[k] = inst[k] \/ inst'[k] = NULL
      BY <3>1 DEF TypeOK, SdlOK
    <3> QED
      BY <3>1, <3>2, NumberKeep
  <2>2. CASE \/ LoopStep \/ (\E s \in Senders : HandleSends(s)) \/ UNCHANGED vars
    <3>1. UNCHANGED <<inst, http, puts>>
      BY <2>2 DEF LoopStep, loop_turn, policy_response, set_policy_instance_status,
         policy_query, query_check, query_reply, ei_message, loop_sleep, HandleSends,
         sends_empty, sends_get, send_msg, sends_ei_empty, sends_ei_get, vars, sdl, history, restarts
    <3> QED
      BY <3>1, NumberKeep
  <2>3. CASE Fault \/ restart_unhealthy
    <3>1. UNCHANGED <<inst, puts>> /\ (UNCHANGED http \/ http' = HttpIdle)
      BY <2>3 DEF Fault, http_sdl_error, thread_sdl_error, crash, restart_unhealthy,
         Volatile, Return, sdl
    <3> QED
      BY <3>1, NumberKeep, IdleLemma
  <2> QED
    BY <2>1, <2>2, <2>3, NumberHttp DEF Next
<1> QED
  BY <1>1, <1>2, TypeCorrect, PTL DEF Spec

\* A thread whose instance is still to be removed.
AtWork(d) == delt[d].pc \in {"start", "sleep", "clear", "inst"}

\* What a step of one delete thread does to the open DELETEs.
LEMMA OpenLemma ==
    ASSUME TypeOK, NEW d \in DelThreads, \A e \in DelThreads \ {d} : delt'[e] = delt[e]
    PROVE  /\ AtWork(d) /\ AtWork(d)' /\ delt'[d].key = delt[d].key =>
                  UNCHANGED OpenDeletes
           /\ ~AtWork(d) /\ ~AtWork(d)' => UNCHANGED OpenDeletes
           /\ ~AtWork(d)' => OpenDeletes' \subseteq OpenDeletes
           /\ AtWork(d) /\ ~AtWork(d)' =>
                  /\ delt[d].key \in OpenDeletes
                  /\ OpenDeletes' \in {OpenDeletes, OpenDeletes \ {delt[d].key}}
           /\ ~AtWork(d) /\ AtWork(d)' =>
                  OpenDeletes' = OpenDeletes \cup ({delt'[d].key} \cap Keys)
<1> DEFINE Others == {k \in Keys : \E e \in DelThreads \ {d} : delt[e].key = k /\ AtWork(e)}
<1>1. delt[d].key \in Keys
  BY DEF TypeOK, DeletersOK
<1>2. OpenDeletes = IF AtWork(d) THEN Others \cup {delt[d].key} ELSE Others
  BY <1>1 DEF OpenDeletes, DeletePending, AtWork
<1>3. OpenDeletes' = IF AtWork(d)' THEN Others \cup ({delt'[d].key} \cap Keys) ELSE Others
  BY DEF OpenDeletes, DeletePending, AtWork
<1> HIDE DEF Others
<1> QED
  BY <1>1, <1>2, <1>3

\* A step of the HTTP handler creates or removes a type, stores an instance or
\* opens a DELETE, or a client sees nothing.
LEMMA HttpRefines ==
    ASSUME TypeOK, StoreInv, NumberInv, HttpRequest \/ HttpStep
    PROVE  Store!Next \/ UNCHANGED Store!svars
<1>0. http.key \in Keys /\ http.key[1] \in TypeIds /\ UNCHANGED <<faults, restarted>>
  <2>1. http.key \in Keys
    BY DEF TypeOK, HttpOK
  <2>2. UNCHANGED <<faults, restarted>>
    BY DEF HttpRequest, HttpStep, create_policy_type, delete_policy_type,
       create_or_replace_policy_instance, delete_policy_instance,
       get_policy_instance_status, data_delivery, delete_type_key, put_find_handlers,
       put_clear_handler, put_set_instance, put_set_metadata, queue_instance_send,
       delete_get_metadata, delete_mark, delete_get_statuses, delete_start_thread,
       status_get_metadata, status_get_statuses, history, restarts
  <2> QED
    BY <2>1, <2>2 DEF Keys
<1>1. UNCHANGED Failed /\ (UNCHANGED delt => UNCHANGED OpenDeletes)
  BY <1>0 DEF Failed, OpenDeletes, DeletePending
<1>2. ASSUME UNCHANGED <<types, inst, delt>> PROVE UNCHANGED Store!svars
  BY <1>1, <1>2 DEF Store!svars
<1>3. Store!Instances = Keys
  BY DEF Store!Instances, Keys
<1>4. ASSUME NEW t \in TypeIds, create_policy_type(t) PROVE Store!Next \/ UNCHANGED Store!svars
  <2>1. /\ UNCHANGED <<inst, delt>>
        /\ (t \notin types /\ types' = types \cup {t}) \/ UNCHANGED types
    BY <1>4 DEF create_policy_type
  <2>2. CASE UNCHANGED types
    BY <1>2, <2>1, <2>2
  <2>3. CASE t \notin types /\ types' = types \cup {t}
    <3>1. Store!CreateType(t)
      BY <1>1, <2>1, <2>3 DEF Store!CreateType
    <3> QED
      BY <3>1 DEF Store!Next
  <2> QED
    BY <2>1, <2>2, <2>3
<1>5. CASE delete_type_key
  <2>1. /\ types' = types \ {http.key[1]} /\ UNCHANGED <<inst, delt>>
        /\ get_instance_list(http.key[1]) = {}
    BY <1>5 DEF delete_type_key, StoreInv
  <2>2. \A k \in Keys : k[1] = http.key[1] => inst[k] = NULL
    BY <2>1 DEF get_instance_list
  <2>3. Store!DeleteType(http.key[1])
    BY <1>1, <1>3, <2>1, <2>2 DEF Store!DeleteType
  <2> QED
    BY <1>0, <2>3 DEF Store!Next
<1>6. CASE put_set_instance
  <2>1. /\ inst' = [inst EXCEPT ![http.key] = http.n] /\ UNCHANGED <<types, delt>>
        /\ http.key[1] \in types /\ Fresh(http.n)
    BY <1>6 DEF put_set_instance, StoreInv, NumberInv
  <2>2. Store!Put(http.key, http.n) /\ http.n \in 1 .. MaxPuts
    BY <1>1, <1>3, <2>1 DEF Store!Put, Fresh
  <2> QED
    BY <1>0, <1>3, <2>2 DEF Store!Next
<1>7. ASSUME NEW d \in DelThreads, delete_start_thread(d) PROVE Store!Next
  <2>1. /\ UNCHANGED <<types, inst>> /\ delt[d].pc = "none"
        /\ delt'[d].pc = "start" /\ delt'[d].key = http.key
        /\ \A e \in DelThreads \ {d} : delt'[e] = delt[e]
    BY <1>7 DEF delete_start_thread, sdl, TypeOK, DeletersOK
  <2>2. OpenDeletes' = OpenDeletes \cup {http.key}
    BY <1>0, <2>1, OpenLemma DEF AtWork
  <2>3. Store!Delete(http.key)
    BY <1>1, <2>1, <2>2 DEF Store!Delete
  <2> QED
    BY <1>0, <1>3, <2>3 DEF Store!Next
<1>8. ASSUME NEW k \in Keys, \/ create_or_replace_policy_instance(k)
                             \/ delete_policy_instance(k) \/ get_policy_instance_status(k)
      PROVE  UNCHANGED <<types, inst, delt>>
  BY <1>8 DEF create_or_replace_policy_instance, delete_policy_instance,
     get_policy_instance_status, sdl
<1>9. ASSUME \/ data_delivery \/ (\E t \in TypeIds : delete_policy_type(t))
             \/ put_find_handlers \/ (\E h \in Handlers : put_clear_handler(h))
             \/ put_set_metadata \/ queue_instance_send \/ delete_get_metadata \/ delete_mark
             \/ delete_get_statuses \/ status_get_metadata \/ status_get_statuses
      PROVE  UNCHANGED <<types, inst, delt>>
  BY <1>9 DEF data_delivery, delete_policy_type, put_find_handlers, put_clear_handler,
     put_set_metadata, queue_instance_send, delete_get_metadata, delete_mark,
     delete_get_statuses, status_get_metadata, status_get_statuses, sdl
<1> QED
  BY <1>2, <1>4, <1>5, <1>6, <1>7, <1>8, <1>9 DEF HttpRequest, HttpStep

\* A step of a delete thread removes its instance or settles its DELETE, or a
\* client sees nothing.
LEMMA ThreadRefines ==
    ASSUME TypeOK, InstanceHasType, NEW d \in DelThreads, DeleteAfter(d)
    PROVE  Store!Next \/ UNCHANGED Store!svars
<1> DEFINE k == delt[d].key
<1>0. k \in Keys /\ k \in Store!Instances /\ DelIdle.pc = "none"
  BY IdleLemma DEF TypeOK, DeletersOK, Store!Instances, Keys
<1>1. UNCHANGED Failed /\ UNCHANGED types
  <2>1. UNCHANGED <<types, faults, restarted>>
    BY DEF DeleteAfter, delete_after_check, delete_after_expire, delete_after_clear,
       delete_after_instance, delete_after_metadata, sdl, history, restarts
  <2> QED
    BY <2>1 DEF Failed
<1>2. \A e \in DelThreads \ {d} : delt'[e] = delt[e]
  BY DEF DeleteAfter, delete_after_check, delete_after_expire, delete_after_clear,
     delete_after_instance, delete_after_metadata, Deleter, EndDeleter, TypeOK, DeletersOK
<1>3. CASE delete_after_check(d)
  <2>1. UNCHANGED inst /\ AtWork(d)
    BY <1>3 DEF delete_after_check, sdl, AtWork
  <2>2. CASE instance_is_valid(k)
    <3>1. AtWork(d)' /\ delt'[d].key = k
      BY <1>3, <2>2 DEF delete_after_check, Deleter, AtWork, TypeOK, DeletersOK
    <3>2. UNCHANGED OpenDeletes
      BY <1>2, <2>1, <3>1, OpenLemma
    <3> QED
      BY <1>1, <2>1, <3>2 DEF Store!svars
  <2>3. CASE ~instance_is_valid(k)
    <3>1. inst[k] = NULL
      BY <1>0, <2>3 DEF instance_is_valid, type_is_valid, InstanceHasType
    <3>2. ~AtWork(d)'
      BY <1>0, <1>3, <2>3 DEF delete_after_check, EndDeleter, AtWork, TypeOK, DeletersOK
    <3>3. k \in OpenDeletes /\ OpenDeletes' \in {OpenDeletes, OpenDeletes \ {k}}
      BY <1>2, <2>1, <3>2, OpenLemma
    <3>4. CASE OpenDeletes' = OpenDeletes
      BY <1>1, <2>1, <3>4 DEF Store!svars
    <3>5. CASE OpenDeletes' = OpenDeletes \ {k}
      <4>1. Store!Settle(k)
        BY <1>1, <2>1, <3>1, <3>3, <3>5 DEF Store!Settle
      <4> QED
        BY <1>0, <4>1 DEF Store!Next
    <3> QED
      BY <3>3, <3>4, <3>5
  <2> QED
    BY <2>2, <2>3
<1>4. CASE delete_after_expire(d) \/ \E h \in Handlers : delete_after_clear(d, h)
  <2>1. UNCHANGED inst /\ AtWork(d) /\ AtWork(d)' /\ delt'[d].key = k
    BY <1>4 DEF delete_after_expire, delete_after_clear, Deleter, sdl, AtWork, TypeOK,
       DeletersOK
  <2>2. UNCHANGED OpenDeletes
    BY <1>2, <2>1, OpenLemma
  <2> QED
    BY <1>1, <2>1, <2>2 DEF Store!svars
<1>5. CASE delete_after_instance(d)
  <2>1. inst' = [inst EXCEPT ![k] = NULL] /\ AtWork(d) /\ ~AtWork(d)'
    BY <1>5 DEF delete_after_instance, Deleter, AtWork, TypeOK, DeletersOK
  <2>2. k \in OpenDeletes /\ OpenDeletes' \in {OpenDeletes, OpenDeletes \ {k}}
    BY <1>2, <2>1, OpenLemma
  <2>3. Store!Remove(k)
    BY <1>1, <2>1, <2>2 DEF Store!Remove
  <2> QED
    BY <1>0, <2>3 DEF Store!Next
<1>6. CASE delete_after_metadata(d)
  <2>1. UNCHANGED inst /\ ~AtWork(d) /\ ~AtWork(d)'
    BY <1>0, <1>6 DEF delete_after_metadata, EndDeleter, AtWork, TypeOK, DeletersOK
  <2>2. UNCHANGED OpenDeletes
    BY <1>2, <2>1, OpenLemma
  <2> QED
    BY <1>1, <2>1, <2>2 DEF Store!svars
<1> QED
  BY <1>3, <1>4, <1>5, <1>6 DEF DeleteAfter

\* A failure may end delete threads, and touches neither types nor instances.
LEMMA FaultRefines ==
    ASSUME TypeOK, Fault \/ restart_unhealthy
    PROVE  Store!Fail
<1>1. UNCHANGED <<types, inst>>
  BY DEF Fault, http_sdl_error, thread_sdl_error, crash, restart_unhealthy, Volatile, sdl
<1>2. Failed' = TRUE
  BY DEF Fault, http_sdl_error, thread_sdl_error, crash, restart_unhealthy, Volatile,
     Failed, TypeOK, HistoryOK
<1>3. OpenDeletes' \subseteq OpenDeletes
  <2>1. CASE UNCHANGED delt
    BY <2>1 DEF OpenDeletes, DeletePending
  <2>2. ASSUME NEW d \in DelThreads, EndDeleter(d) PROVE OpenDeletes' \subseteq OpenDeletes
    <3>1. ~AtWork(d)' /\ \A e \in DelThreads \ {d} : delt'[e] = delt[e]
      BY <2>2, IdleLemma DEF EndDeleter, AtWork, TypeOK, DeletersOK
    <3> QED
      BY <3>1, OpenLemma
  <2>3. CASE delt' = [d \in DelThreads |-> DelIdle]
    BY <2>3, IdleLemma DEF OpenDeletes, DeletePending
  <2> QED
    BY <2>1, <2>2, <2>3 DEF Fault, http_sdl_error, thread_sdl_error, crash,
       restart_unhealthy, Volatile
<1> QED
  BY <1>1, <1>2, <1>3 DEF Store!Fail

\* The RMR loop and the senders never touch what a client of the store sees; an
\* exception of the loop counts as a failure.
LEMMA LoopRefines ==
    ASSUME TypeOK, LoopStep \/ \E s \in Senders : HandleSends(s)
    PROVE  Store!Fail \/ UNCHANGED Store!svars
<1>1. UNCHANGED <<types, inst, delt, restarted>> /\ faults' \in {faults, faults + 1}
  BY DEF LoopStep, loop_turn, policy_response, set_policy_instance_status,
     policy_query, query_check, query_reply, ei_message, loop_sleep, HandleSends,
     sends_empty, sends_get, send_msg, sends_ei_empty, sends_ei_get, sdl, history, restarts
<1>2. UNCHANGED OpenDeletes
  BY <1>1 DEF OpenDeletes, DeletePending
<1>3. CASE faults' = faults
  BY <1>1, <1>2, <1>3 DEF Store!svars, Failed
<1>4. CASE faults' = faults + 1
  <2>1. Failed' = TRUE
    BY <1>4 DEF Failed, TypeOK, HistoryOK
  <2> QED
    BY <1>1, <1>2, <2>1 DEF Store!Fail
<1> QED
  BY <1>1, <1>3, <1>4

\* One HTTP handler, any number of delete threads and senders and the RMR loop,
\* one SDL call at a time, implement the store that PolicyStore describes
\* (data.py, with its callers in controller.py and a1rmr.py).
THEOREM ImplementsPolicyStore == Spec => ImplementsStore
<1>1. Init => Store!Init
  <2> SUFFICES ASSUME Init PROVE Store!Init
    OBVIOUS
  <2>1. types = {} /\ inst = [k \in Store!Instances |-> NULL]
    BY DEF Init, Store!Instances, Keys
  <2>2. OpenDeletes = {}
    BY IdleLemma DEF Init, OpenDeletes, DeletePending
  <2>3. Failed = FALSE
    BY DEF Init, Failed
  <2> QED
    BY <2>1, <2>2, <2>3 DEF Store!Init
<1>2. TypeOK /\ StoreInv /\ NumberInv /\ [Next]_vars => [Store!Next]_(Store!svars)
  <2> SUFFICES ASSUME TypeOK, StoreInv, NumberInv, [Next]_vars
               PROVE  Store!Next \/ UNCHANGED Store!svars
    OBVIOUS
  <2>1. InstanceHasType
    BY DEF StoreInv
  <2>2. Store!Fail => Store!Next
    BY DEF Store!Next
  <2>3. CASE UNCHANGED vars
    BY <2>3 DEF vars, sdl, history, restarts, Store!svars, OpenDeletes, DeletePending, Failed
  <2> QED
    BY <2>1, <2>2, <2>3, HttpRefines, ThreadRefines, FaultRefines, LoopRefines DEF Next
<1> QED
  BY <1>1, <1>2, TypeCorrect, StoreAlways, NumberAlways, PTL
     DEF Spec, Store!Spec, ImplementsStore
=============================================================================
