---------------------------- MODULE E2LikeProofs ----------------------------
(***************************************************************************)
(* What E2LikeServer guarantees for any number of associations, messages   *)
(* of any length and a buffer of any size.                                 *)
(***************************************************************************)
EXTENDS E2LikeServer, TLAPS

\* What a step leaves unchanged keeps its type.
LEMMA KeepLemma ==
    ASSUME TypeOK
    PROVE  /\ UNCHANGED network => NetworkOK'
           /\ UNCHANGED <<app, pc, conn, early, verdict>> => LoopOK'
           /\ UNCHANGED <<data, size>> => DataOK'
           /\ UNCHANGED counters => CountsOK'
<1>1. UNCHANGED network => NetworkOK'
  BY DEF TypeOK, NetworkOK, network
<1>2. UNCHANGED <<app, pc, conn, early, verdict>> => LoopOK'
  BY DEF TypeOK, LoopOK
<1>3. UNCHANGED <<data, size>> => DataOK'
  BY DEF TypeOK, DataOK
<1>4. UNCHANGED counters => CountsOK'
  BY DEF TypeOK, CountsOK, counters
<1> QED
  BY <1>1, <1>2, <1>3, <1>4

\* The initial state has its types.
LEMMA TypeInit == Init => TypeOK
<1> SUFFICES ASSUME Init PROVE TypeOK
  OBVIOUS
<1>1. NetworkOK
  BY DEF Init, NetworkOK
<1>2. LoopOK
  BY DEF Init, LoopOK
<1>3. DataOK
  BY DEF Init, DataOK
<1>4. CountsOK
  BY DEF Init, CountsOK
<1> QED
  BY <1>1, <1>2, <1>3, <1>4 DEF TypeOK

\* Outside accept, conn is an association.
LEMMA ConnLemma == TypeOK /\ pc # "accept" => conn \in Assocs
BY DEF TypeOK, LoopOK

\* A chunk that is read: its length, and the type of what is left.
LEMMA ReadLemma ==
    ASSUME TypeOK, conn \in Assocs, rx[conn] # << >>
    PROVE  /\ Head(rx[conn]) \in Chunks
           /\ Head(rx[conn]).len \in Nat
           /\ [rx EXCEPT ![conn] = Tail(@)] \in [Assocs -> Seq(Chunks)]
           /\ \A n \in Nat : [got EXCEPT ![conn] = @ + n] \in [Assocs -> Nat]
<1>1. rx[conn] \in Seq(Chunks) /\ rx \in [Assocs -> Seq(Chunks)]
  BY DEF TypeOK, NetworkOK
<1>2. Head(rx[conn]) \in Chunks /\ Tail(rx[conn]) \in Seq(Chunks)
  BY <1>1
<1>3. Head(rx[conn]).len \in Nat
  BY <1>2 DEF Chunks
<1>4. \A n \in Nat : [got EXCEPT ![conn] = @ + n] \in [Assocs -> Nat]
  BY DEF TypeOK, CountsOK
<1> QED
  BY <1>1, <1>2, <1>3, <1>4

\* A step of the xApp's thread keeps the types.
LEMMA EntryTypes == TypeOK /\ Entry => TypeOK'
<1> SUFFICES ASSUME TypeOK, Entry PROVE TypeOK'
  OBVIOUS
<1>1. CASE accept
  <2>1. NetworkOK' /\ LoopOK'
    BY <1>1, E2LikeConstants DEF accept, TypeOK, NetworkOK, LoopOK
  <2> QED
    BY <1>1, <2>1, KeepLemma DEF accept, TypeOK
<1>2. CASE request
  <2>1. LoopOK'
    BY <1>2, ConnLemma DEF request, TypeOK, LoopOK
  <2> QED
    BY <1>2, <2>1, KeepLemma DEF request, TypeOK
<1>3. CASE recv_first
  <2>0. conn \in Assocs /\ rx[conn] # << >>
    BY <1>3, ConnLemma DEF recv_first
  <2>1. NetworkOK'
    BY <1>3, <2>0, ReadLemma DEF recv_first, TypeOK, NetworkOK
  <2>2. LoopOK'
    BY <1>3, <2>0 DEF recv_first, TypeOK, LoopOK
  <2>3. DataOK'
    BY <1>3, <2>0, ReadLemma DEF recv_first, DataOK
  <2>4. CountsOK'
    BY <1>3, <2>0, ReadLemma DEF recv_first, TypeOK, CountsOK
  <2> QED
    BY <2>1, <2>2, <2>3, <2>4 DEF TypeOK
<1>4. CASE recv_nothing
  <2>1. LoopOK'
    BY <1>4, ConnLemma DEF recv_nothing, TypeOK, LoopOK
  <2> QED
    BY <1>4, <2>1, KeepLemma DEF recv_nothing, TypeOK
<1>5. CASE recv_more
  <2>0. conn \in Assocs /\ rx[conn] # << >>
    BY <1>5, ConnLemma DEF recv_more
  <2>1. NetworkOK'
    BY <1>5, <2>0, ReadLemma DEF recv_more, TypeOK, NetworkOK
  <2>2. LoopOK'
    BY <1>5, <2>0 DEF recv_more, TypeOK, LoopOK
  <2>3. DataOK'
    <3>1. data \in Seq(Chunks) /\ size \in Nat
      BY DEF TypeOK, DataOK
    <3>2. Head(rx[conn]) \in Chunks /\ Head(rx[conn]).len \in Nat
      BY <2>0, ReadLemma
    <3>3. data' = Append(data, Head(rx[conn])) /\ size' = size + Head(rx[conn]).len
      BY <1>5 DEF recv_more
    <3>4. /\ data' \in Seq(Chunks)
          /\ data'[Len(data')] = Head(rx[conn])
      BY <3>1, <3>2, <3>3
    <3>5. size' - data'[Len(data')].len < BufferSize
      <4>1. size < BufferSize
        BY <1>5 DEF recv_more
      <4> QED
        BY <3>1, <3>2, <3>3, <3>4, <4>1
    <3> QED
      BY <3>1, <3>2, <3>3, <3>4, <3>5 DEF DataOK
  <2>4. CountsOK'
    BY <1>5, <2>0, ReadLemma DEF recv_more, TypeOK, CountsOK
  <2> QED
    BY <2>1, <2>2, <2>3, <2>4 DEF TypeOK
<1>6. CASE recv_more_aborted
  <2>1. LoopOK'
    BY <1>6, ConnLemma DEF recv_more_aborted, TypeOK, LoopOK
  <2> QED
    BY <1>6, <2>1, KeepLemma DEF recv_more_aborted, TypeOK
<1>7. CASE run_prediction
  <2>1. LoopOK'
    BY <1>7, ConnLemma DEF run_prediction, Verdicts, TypeOK, LoopOK
  <2> QED
    BY <1>7, <2>1, KeepLemma DEF run_prediction, TypeOK
<1>8. CASE command
  <2>1. LoopOK'
    BY <1>8, ConnLemma DEF command, TypeOK, LoopOK
  <2>2. CountsOK'
    <3>1. cmds' = cmds \/ cmds' = [cmds EXCEPT ![conn] = @ + 1]
      BY <1>8 DEF command
    <3>2. [cmds EXCEPT ![conn] = @ + 1] \in [Assocs -> Nat]
      BY <1>8, ConnLemma DEF command, TypeOK, CountsOK
    <3> QED
      BY <1>8, <3>1, <3>2 DEF command, TypeOK, CountsOK
  <2> QED
    BY <1>8, <2>1, <2>2, KeepLemma DEF command, TypeOK
<1> QED
  BY <1>1, <1>2, <1>3, <1>4, <1>5, <1>6, <1>7, <1>8 DEF Entry

\* A step of a base station, of the clock or of Kubernetes keeps the types.
LEMMA NetworkTypes ==
    ASSUME TypeOK
    PROVE  /\ second_passes => TypeOK'
           /\ restart => TypeOK'
           /\ \A a \in Assocs :
               /\ connect(a) => TypeOK'
               /\ \A m \in Messages : send_chunk(a, m) => TypeOK'
               /\ \A how \in {"closed", "aborted"} : disconnect(a, how) => TypeOK'
<1>1. second_passes => TypeOK'
  <2> SUFFICES ASSUME second_passes PROVE TypeOK'
    OBVIOUS
  <2>1. LoopOK'
    BY DEF second_passes, TypeOK, LoopOK
  <2> QED
    BY <2>1, KeepLemma DEF second_passes, TypeOK
<1>2. restart => TypeOK'
  <2> SUFFICES ASSUME restart PROVE TypeOK'
    OBVIOUS
  <2>1. NetworkOK'
    BY DEF restart, TypeOK, NetworkOK
  <2>2. LoopOK'
    BY DEF restart, TypeOK, LoopOK
  <2>3. DataOK'
    BY DEF restart, DataOK
  <2> QED
    BY <2>1, <2>2, <2>3, KeepLemma DEF restart, TypeOK
<1>3. ASSUME NEW a \in Assocs, connect(a) PROVE TypeOK'
  <2>1. NetworkOK'
    BY <1>3 DEF connect, TypeOK, NetworkOK
  <2> QED
    BY <1>3, <2>1, KeepLemma DEF connect, TypeOK
<1>4. ASSUME NEW a \in Assocs, NEW m \in Messages, send_chunk(a, m) PROVE TypeOK'
  <2>1. Chunk(a, sent[a] + 1, m) \in Chunks
    BY E2LikeConstants DEF Chunk, Chunks, TypeOK, NetworkOK
  <2>2. NetworkOK'
    BY <1>4, <2>1 DEF send_chunk, TypeOK, NetworkOK
  <2> QED
    BY <1>4, <2>2, KeepLemma DEF send_chunk, TypeOK
<1>5. ASSUME NEW a \in Assocs, NEW how \in {"closed", "aborted"}, disconnect(a, how)
      PROVE  TypeOK'
  <2>1. NetworkOK'
    BY <1>5 DEF disconnect, TypeOK, NetworkOK
  <2> QED
    BY <1>5, <2>1, KeepLemma DEF disconnect, TypeOK
<1> QED
  BY <1>1, <1>2, <1>3, <1>4, <1>5

\* Every step keeps the types.
LEMMA TypeStep == TypeOK /\ [Next]_vars => TypeOK'
<1> SUFFICES ASSUME TypeOK, [Next]_vars PROVE TypeOK'
  OBVIOUS
<1>1. CASE Next
  BY <1>1, EntryTypes, NetworkTypes DEF Next
<1>2. CASE UNCHANGED vars
  BY <1>2, KeepLemma DEF vars, network, counters, TypeOK
<1> QED
  BY <1>1, <1>2

\* However associations come, break off and follow each other, the thread is
\* never in the inner loop of entry without an association.
THEOREM TypeCorrect == Spec => []TypeOK
BY TypeInit, TypeStep, PTL DEF Spec

-----------------------------------------------------------------------------
\* The messages of each association that are not read yet are the last ones it
\* has sent, in order.
Numbered ==
    \A a \in Assocs : \A k \in DOMAIN rx[a] :
        rx[a][k].assoc = a /\ rx[a][k].seq = sent[a] - Len(rx[a]) + k

\* The messages in the buffer are the ones before them, of the association that
\* is served.
Consecutive ==
    pc \in {"fill", "command"} =>
        /\ data # << >>
        /\ \A k \in DOMAIN data :
            /\ data[k].assoc = conn
            /\ data[k].seq = sent[conn] - Len(rx[conn]) - Len(data) + k

Inv == TypeOK /\ Numbered /\ Consecutive

\* Numbered speaks of rx and sent only, Consecutive of what a step that is not
\* a recv and not a restart leaves alone.
LEMMA KeepNumbers ==
    ASSUME Inv, UNCHANGED <<rx, sent, data, conn>>,
           pc' \in {"fill", "command"} => pc \in {"fill", "command"}
    PROVE  Numbered' /\ Consecutive'
BY DEF Inv, Numbered, Consecutive

\* Sending a message moves both counts: sent, and the length of rx.
LEMMA SendNumbers ==
    ASSUME Inv, NEW a \in Assocs, NEW m \in Messages, send_chunk(a, m)
    PROVE  Numbered' /\ Consecutive'
<1>1. /\ rx \in [Assocs -> Seq(Chunks)] /\ sent \in [Assocs -> Nat]
      /\ data \in Seq(Chunks) /\ (pc # "accept" => conn \in Assocs)
  BY ConnLemma DEF Inv, TypeOK, NetworkOK, DataOK
<1> DEFINE c == Chunk(a, sent[a] + 1, m)
<1>2. c.assoc = a /\ c.seq = sent[a] + 1
  BY DEF Chunk
<1>3. /\ rx' = [rx EXCEPT ![a] = Append(rx[a], c)]
      /\ sent' = [sent EXCEPT ![a] = sent[a] + 1]
      /\ UNCHANGED <<pc, conn, data>>
  BY DEF send_chunk
<1> HIDE DEF c
<1>4. /\ rx[a] \in Seq(Chunks) /\ Len(rx[a]) \in Nat /\ sent[a] \in Nat
      /\ Len(rx'[a]) = Len(rx[a]) + 1 /\ sent'[a] = sent[a] + 1
      /\ \A b \in Assocs : b # a => rx'[b] = rx[b] /\ sent'[b] = sent[b]
      /\ \A b \in Assocs : Len(rx[b]) \in Nat /\ sent[b] \in Nat
      /\ \A b \in Assocs : sent'[b] - Len(rx'[b]) = sent[b] - Len(rx[b])
  BY <1>1, <1>3
<1>5. ASSUME NEW b \in Assocs, NEW k \in DOMAIN rx'[b]
      PROVE  rx'[b][k].assoc = b /\ rx'[b][k].seq = sent'[b] - Len(rx'[b]) + k
  <2>1. CASE b # a
    BY <1>4, <1>5, <2>1 DEF Inv, Numbered
  <2>2. CASE b = a /\ k = Len(rx[a]) + 1
    <3>1. rx'[b][k] = c
      BY <1>1, <1>3, <1>4, <2>2
    <3> QED
      BY <1>2, <1>4, <2>2, <3>1
  <2>3. CASE b = a /\ k # Len(rx[a]) + 1
    <3>1. rx'[b] = Append(rx[a], c)
      BY <1>1, <1>3, <2>3
    <3>2. k \in DOMAIN rx[a] /\ k \in Nat /\ rx'[b][k] = rx[a][k]
      BY <1>4, <2>3, <3>1
    <3> QED
      BY <1>4, <2>3, <3>2 DEF Inv, Numbered
  <2> QED
    BY <2>1, <2>2, <2>3
<1>6. Consecutive'
  BY <1>1, <1>3, <1>4 DEF Inv, Consecutive
<1> QED
  BY <1>5, <1>6 DEF Numbered

\* Reading a message takes the first one that is not read yet.
LEMMA TailNumbers ==
    ASSUME Inv, conn \in Assocs, rx[conn] # << >>,
           rx' = [rx EXCEPT ![conn] = Tail(@)], UNCHANGED <<sent, conn>>
    PROVE  /\ Numbered'
           /\ Head(rx[conn]).assoc = conn
           /\ Head(rx[conn]).seq = sent[conn] - Len(rx[conn]) + 1
           /\ sent[conn] \in Nat /\ Len(rx[conn]) \in Nat
           /\ Len(rx'[conn]) = Len(rx[conn]) - 1
<1>1. rx \in [Assocs -> Seq(Chunks)] /\ sent \in [Assocs -> Nat]
  BY DEF Inv, TypeOK, NetworkOK
<1>2. /\ rx[conn] \in Seq(Chunks) /\ Len(rx[conn]) \in Nat /\ sent[conn] \in Nat
      /\ rx'[conn] = Tail(rx[conn]) /\ Len(rx'[conn]) = Len(rx[conn]) - 1
      /\ \A b \in Assocs : b # conn => rx'[b] = rx[b]
  BY <1>1
<1>3. 1 \in DOMAIN rx[conn] /\ Head(rx[conn]) = rx[conn][1]
  BY <1>2
<1>4. ASSUME NEW b \in Assocs, NEW k \in DOMAIN rx'[b]
      PROVE  rx'[b][k].assoc = b /\ rx'[b][k].seq = sent'[b] - Len(rx'[b]) + k
  <2>1. CASE b # conn
    BY <1>2, <1>4, <2>1 DEF Inv, Numbered
  <2>2. CASE b = conn
    <3>1. k \in Nat /\ k + 1 \in DOMAIN rx[conn] /\ rx'[b][k] = rx[conn][k + 1]
      BY <1>2, <2>2
    <3>2. rx[conn][k + 1].assoc = conn /\ rx[conn][k + 1].seq = sent[conn] - Len(rx[conn]) + (k + 1)
      BY <3>1 DEF Inv, Numbered
    <3> QED
      BY <1>2, <2>2, <3>1, <3>2
  <2> QED
    BY <2>1, <2>2
<1>5. /\ Head(rx[conn]).assoc = conn
      /\ Head(rx[conn]).seq = sent[conn] - Len(rx[conn]) + 1
  BY <1>3 DEF Inv, Numbered
<1> QED
  BY <1>2, <1>4, <1>5 DEF Numbered

\* The first recv starts the buffer, the others continue it.
LEMMA RecvNumbers ==
    ASSUME Inv, recv_first \/ recv_more
    PROVE  Numbered' /\ Consecutive'
<1>1. /\ conn \in Assocs /\ rx[conn] # << >>
      /\ rx' = [rx EXCEPT ![conn] = Tail(@)] /\ UNCHANGED <<sent, conn>>
  BY ConnLemma DEF Inv, recv_first, recv_more
<1>2. /\ Numbered'
      /\ Head(rx[conn]).assoc = conn
      /\ Head(rx[conn]).seq = sent[conn] - Len(rx[conn]) + 1
      /\ sent[conn] \in Nat /\ Len(rx[conn]) \in Nat
      /\ Len(rx'[conn]) = Len(rx[conn]) - 1
  BY <1>1, TailNumbers
<1> DEFINE c == Head(rx[conn])
<1>3. CASE recv_first
  <2>1. data' = <<c>>
    BY <1>3 DEF recv_first
  <2>2. data' # << >> /\ Len(data') = 1 /\ DOMAIN data' = {1} /\ data'[1] = c
    BY <2>1
  <2> QED
    BY <1>1, <1>2, <2>2 DEF Consecutive
<1>4. CASE recv_more
  <2>1. data' = Append(data, c) /\ data \in Seq(Chunks) /\ pc = "fill"
    BY <1>4 DEF recv_more, Inv, TypeOK, DataOK
  <2> HIDE DEF c
  <2>2. /\ Len(data) \in Nat /\ Len(data') = Len(data) + 1
        /\ data' # << >> /\ data'[Len(data) + 1] = c
        /\ \A k \in DOMAIN data' : (k \in DOMAIN data /\ data'[k] = data[k]) \/ k = Len(data) + 1
        /\ \A k \in DOMAIN data' : k \in Nat
    BY <2>1
  <2>3. ASSUME NEW k \in Nat, k \in DOMAIN data'
        PROVE  /\ data'[k].assoc = conn
               /\ data'[k].seq = sent[conn] - (Len(rx[conn]) - 1) - (Len(data) + 1) + k
    <3>0. /\ sent[conn] \in Nat /\ Len(rx[conn]) \in Nat /\ Len(data) \in Nat /\ k \in Nat
      BY <1>2, <2>2, <2>3
    <3>1. CASE k = Len(data) + 1
      <4>1. data'[k] = c /\ c.assoc = conn /\ c.seq = sent[conn] - Len(rx[conn]) + 1
        BY <1>2, <2>2, <3>1 DEF c
      <4>2. sent[conn] - Len(rx[conn]) + 1
              = sent[conn] - (Len(rx[conn]) - 1) - (Len(data) + 1) + k
        BY <3>0, <3>1
      <4> QED
        BY <4>1, <4>2
    <3>2. CASE k \in DOMAIN data /\ data'[k] = data[k]
      <4>1. /\ data[k].assoc = conn
            /\ data[k].seq = sent[conn] - Len(rx[conn]) - Len(data) + k
        BY <2>1, <3>2 DEF Inv, Consecutive
      <4>2. sent[conn] - Len(rx[conn]) - Len(data) + k
              = sent[conn] - (Len(rx[conn]) - 1) - (Len(data) + 1) + k
        <5>1. PICK s \in Nat, r \in Nat, d \in Nat :
                s = sent[conn] /\ r = Len(rx[conn]) /\ d = Len(data)
          BY <3>0
        <5>2. s - r - d + k = s - (r - 1) - (d + 1) + k
          OBVIOUS
        <5> QED
          BY <5>1, <5>2
      <4> QED
        BY <3>2, <4>1, <4>2
    <3> QED
      BY <2>2, <2>3, <3>1, <3>2
  <2> QED
    BY <1>1, <1>2, <2>2, <2>3 DEF Consecutive
<1> QED
  BY <1>2, <1>3, <1>4

\* Inv is inductive.
LEMMA InvStep == Inv /\ [Next]_vars => Inv'
<1> SUFFICES ASSUME Inv, [Next]_vars PROVE Numbered' /\ Consecutive'
  BY TypeStep DEF Inv
<1>1. CASE recv_first \/ recv_more
  BY <1>1, RecvNumbers
<1>2. CASE \E a \in Assocs, m \in Messages : send_chunk(a, m)
  BY <1>2, SendNumbers
<1>3. CASE restart
  BY <1>3 DEF restart, Numbered, Consecutive
<1>4. CASE accept
  BY <1>4 DEF accept, Inv, Numbered, Consecutive
<1>5. CASE \/ request \/ recv_nothing \/ recv_more_aborted \/ run_prediction \/ command
           \/ second_passes \/ UNCHANGED vars
           \/ \E a \in Assocs : \/ connect(a)
                               \/ \E how \in {"closed", "aborted"} : disconnect(a, how)
  <2>1. /\ UNCHANGED <<rx, sent, data, conn>>
        /\ pc' \in {"fill", "command"} => pc \in {"fill", "command"}
    BY <1>5 DEF request, recv_nothing, recv_more_aborted, run_prediction, command,
       second_passes, connect, disconnect, vars, network
  <2> QED
    BY <2>1, KeepNumbers
<1> QED
  BY <1>1, <1>2, <1>3, <1>4, <1>5 DEF Next, Entry

\* For any number of associations and whenever they break off: what is classified
\* is a gapless run of messages of the association that gets the command.
THEOREM OneAssociation == Spec => []BufferOfOneAssociation
<1>1. Init => Inv
  <2> SUFFICES ASSUME Init PROVE Inv
    OBVIOUS
  <2>1. Numbered /\ Consecutive
    BY DEF Init, Numbered, Consecutive
  <2> QED
    BY <2>1, TypeInit DEF Inv
<1>2. Inv => BufferOfOneAssociation
  <2> SUFFICES ASSUME Inv, pc \in {"fill", "command"}
               PROVE  /\ data # << >>
                      /\ \A k \in DOMAIN data :
                          /\ data[k].assoc = conn
                          /\ data[k].seq = data[1].seq + k - 1
                      /\ rx[conn] # << >> => Head(rx[conn]).seq = data[Len(data)].seq + 1
    BY DEF BufferOfOneAssociation
  <2>1. /\ conn \in Assocs /\ data \in Seq(Chunks) /\ data # << >>
        /\ rx[conn] \in Seq(Chunks) /\ sent[conn] \in Nat
    BY ConnLemma DEF Inv, TypeOK, NetworkOK, DataOK, Consecutive
  <2>2. /\ Len(data) \in Nat \ {0} /\ DOMAIN data = 1 .. Len(data) /\ Len(rx[conn]) \in Nat
        /\ 1 \in DOMAIN data /\ Len(data) \in DOMAIN data
    BY <2>1
  <2>3. \A k \in DOMAIN data :
          /\ data[k].assoc = conn
          /\ data[k].seq = sent[conn] - Len(rx[conn]) - Len(data) + k
    BY DEF Inv, Consecutive
  <2>4. \A k \in DOMAIN data : data[k].seq = data[1].seq + k - 1
    BY <2>1, <2>2, <2>3
  <2>5. rx[conn] # << >> => Head(rx[conn]).seq = sent[conn] - Len(rx[conn]) + 1
    BY <2>1 DEF Inv, Numbered
  <2>6. data[Len(data)].seq = sent[conn] - Len(rx[conn])
    BY <2>1, <2>2, <2>3
  <2> QED
    BY <2>1, <2>2, <2>3, <2>4, <2>5, <2>6
<1> QED
  BY <1>1, <1>2, InvStep, PTL DEF Spec

-----------------------------------------------------------------------------
\* The bytes of the buffer that no command rests on yet.
Unspent(a) == IF conn # a THEN 0
              ELSE IF pc = "fill" THEN size
              ELSE IF pc = "command" THEN BufferSize ELSE 0

\* What was read of an association covers its commands and the buffer.
Earned == \A a \in Assocs : got[a] >= BufferSize * cmds[a] + Unspent(a)

\* The numbers that Earned is about are natural.
LEMMA EarnedTypes ==
    ASSUME TypeOK, NEW a \in Assocs
    PROVE  /\ got[a] \in Nat /\ cmds[a] \in Nat /\ size \in Nat /\ BufferSize \in Nat
           /\ BufferSize * cmds[a] \in Nat /\ Unspent(a) \in Nat
<1>1. got[a] \in Nat /\ cmds[a] \in Nat /\ size \in Nat /\ BufferSize \in Nat
  BY E2LikeConstants DEF TypeOK, CountsOK, DataOK
<1>2. BufferSize * cmds[a] \in Nat
  BY <1>1
<1>3. Unspent(a) \in Nat
  BY <1>1 DEF Unspent
<1> QED
  BY <1>1, <1>2, <1>3

\* A step that reads nothing and sends no command keeps Earned, if it does not
\* add to what is unspent.
LEMMA KeepEarned ==
    ASSUME TypeOK, TypeOK', Earned, UNCHANGED counters,
           \A a \in Assocs : Unspent(a)' <= Unspent(a)
    PROVE  Earned'
<1> SUFFICES ASSUME NEW a \in Assocs
             PROVE  got'[a] >= BufferSize * cmds'[a] + Unspent(a)'
  BY DEF Earned
<1>1. got'[a] = got[a] /\ cmds'[a] = cmds[a]
  BY DEF counters
<1>2. /\ got[a] \in Nat /\ BufferSize * cmds[a] \in Nat /\ Unspent(a) \in Nat
      /\ Unspent(a)' \in Nat
  BY EarnedTypes DEF TypeOK, CountsOK, DataOK, Unspent, NetworkOK, LoopOK
<1>3. got[a] >= BufferSize * cmds[a] + Unspent(a) /\ Unspent(a)' <= Unspent(a)
  BY DEF Earned
<1> QED
  BY <1>1, <1>2, <1>3

\* Reading adds the same to what was read and to what is unspent.
LEMMA RecvEarned ==
    ASSUME TypeOK, Earned, recv_first \/ recv_more
    PROVE  Earned'
<1>1. /\ conn \in Assocs /\ rx[conn] # << >> /\ conn' = conn /\ pc' = "fill" /\ cmds' = cmds
      /\ got' = [got EXCEPT ![conn] = @ + Head(rx[conn]).len]
      /\ \/ pc = "recv" /\ size' = Head(rx[conn]).len
         \/ pc = "fill" /\ size' = size + Head(rx[conn]).len
  BY ConnLemma DEF recv_first, recv_more
<1>2. PICK n \in Nat : n = Head(rx[conn]).len
  BY <1>1, ReadLemma
<1>3. size' = Unspent(conn) + n
  BY <1>1, <1>2, EarnedTypes DEF Unspent
<1> SUFFICES ASSUME NEW a \in Assocs
             PROVE  got'[a] >= BufferSize * cmds'[a] + Unspent(a)'
  BY DEF Earned
<1>4. /\ got[a] \in Nat /\ BufferSize * cmds[a] \in Nat /\ Unspent(a) \in Nat
      /\ got[a] >= BufferSize * cmds[a] + Unspent(a)
  BY EarnedTypes DEF Earned
<1>5. CASE a = conn
  <2>1. Unspent(a)' = Unspent(a) + n
    BY <1>1, <1>3, <1>5 DEF Unspent
  <2>2. got'[a] = got[a] + n
    BY <1>1, <1>2, <1>5 DEF TypeOK, CountsOK
  <2> QED
    BY <1>1, <1>4, <2>1, <2>2
<1>6. CASE a # conn
  <2>1. Unspent(a)' = 0
    BY <1>1, <1>6 DEF Unspent
  <2>2. got'[a] = got[a]
    BY <1>1, <1>6 DEF TypeOK, CountsOK
  <2> QED
    BY <1>1, <1>4, <2>1, <2>2
<1> QED
  BY <1>5, <1>6

\* A command spends one buffer.
LEMMA CommandEarned ==
    ASSUME TypeOK, TypeOK', Earned, command
    PROVE  Earned'
<1>1. conn \in Assocs /\ pc = "command" /\ conn' = conn /\ got' = got /\ pc' \in {"accept", "request"}
  BY ConnLemma DEF command
<1>2. cmds' = cmds \/ cmds' = [cmds EXCEPT ![conn] = @ + 1]
  BY DEF command
<1> SUFFICES ASSUME NEW a \in Assocs
             PROVE  got'[a] >= BufferSize * cmds'[a] + Unspent(a)'
  BY DEF Earned
<1>3. /\ got[a] \in Nat /\ BufferSize * cmds[a] \in Nat /\ Unspent(a) \in Nat
      /\ cmds[a] \in Nat /\ BufferSize \in Nat
      /\ got[a] >= BufferSize * cmds[a] + Unspent(a)
  BY EarnedTypes DEF Earned
<1>4. Unspent(a)' = 0
  BY <1>1 DEF Unspent
<1>5. CASE cmds'[a] = cmds[a]
  BY <1>1, <1>3, <1>4, <1>5
<1>6. CASE a = conn /\ cmds'[a] = cmds[a] + 1
  <2>1. Unspent(a) = BufferSize
    BY <1>1, <1>6 DEF Unspent
  <2>2. BufferSize * cmds'[a] = BufferSize * cmds[a] + BufferSize
    BY <1>3, <1>6
  <2> QED
    BY <1>1, <1>3, <1>4, <2>1, <2>2
<1> QED
  BY <1>1, <1>2, <1>5, <1>6 DEF TypeOK, CountsOK

\* Earned is inductive, on top of the types.
LEMMA EarnedStep == TypeOK /\ Earned /\ [Next]_vars => Earned'
<1> SUFFICES ASSUME TypeOK, Earned, [Next]_vars PROVE Earned'
  OBVIOUS
<1>0. TypeOK'
  BY TypeStep
<1>1. CASE recv_first \/ recv_more
  BY <1>1, RecvEarned
<1>2. CASE command
  BY <1>0, <1>2, CommandEarned
<1>3. CASE run_prediction
  <2>1. /\ UNCHANGED <<counters, conn, size>> /\ pc = "fill" /\ size >= BufferSize
        /\ pc' \in {"crashed", "command"}
    BY <1>3 DEF run_prediction
  <2>2. \A a \in Assocs : Unspent(a)' <= Unspent(a)
    BY <2>1, EarnedTypes DEF Unspent
  <2> QED
    BY <1>0, <2>1, <2>2, KeepEarned
<1>4. ASSUME UNCHANGED counters,
             \/ pc' \notin {"fill", "command"}
             \/ UNCHANGED <<pc, conn, size>>
      PROVE  Earned'
  <2>1. CASE pc' \notin {"fill", "command"}
    <3>1. \A a \in Assocs : Unspent(a)' = 0
      BY <2>1 DEF Unspent
    <3> QED
      BY <1>0, <1>4, <3>1, EarnedTypes, KeepEarned
  <2>2. CASE UNCHANGED <<pc, conn, size>>
    <3>1. \A a \in Assocs : Unspent(a)' = Unspent(a)
      BY <2>2 DEF Unspent
    <3> QED
      BY <1>0, <1>4, <3>1, EarnedTypes, KeepEarned
  <2> QED
    BY <1>4, <2>1, <2>2
<1>5. CASE accept \/ request \/ recv_nothing \/ recv_more_aborted \/ restart \/ second_passes
  BY <1>4, <1>5 DEF accept, request, recv_nothing, recv_more_aborted, restart, second_passes
<1>6. ASSUME NEW a \in Assocs,
             \/ connect(a)
             \/ \E m \in Messages : send_chunk(a, m)
             \/ \E how \in {"closed", "aborted"} : disconnect(a, how)
      PROVE  Earned'
  BY <1>4, <1>6 DEF connect, send_chunk, disconnect
<1>7. CASE UNCHANGED vars
  BY <1>4, <1>7 DEF vars
<1> QED
  BY <1>1, <1>2, <1>3, <1>5, <1>6, <1>7 DEF Next, Entry

\* For any buffer size and any lengths of messages, no command rests on bytes
\* that an earlier one was given for.
THEOREM CommandsAreEarned == Spec => []CommandsEarned
<1>1. Init => TypeOK /\ Earned
  <2> SUFFICES ASSUME Init PROVE Earned
    BY TypeInit
  <2>1. \A a \in Assocs : got[a] = 0 /\ cmds[a] = 0 /\ Unspent(a) = 0
    BY DEF Init, Unspent
  <2>2. 0 >= BufferSize * 0 + 0
    BY E2LikeConstants
  <2>3. ASSUME NEW a \in Assocs PROVE got[a] >= BufferSize * cmds[a] + Unspent(a)
    BY <2>1, <2>2
  <2> QED
    BY <2>3 DEF Earned
<1>2. TypeOK /\ Earned => CommandsEarned
  <2> SUFFICES ASSUME TypeOK, Earned, NEW a \in Assocs
               PROVE  got[a] >= BufferSize * (cmds[a] + (IF pc = "command" /\ conn = a THEN 1 ELSE 0))
    BY DEF CommandsEarned
  <2>1. /\ got[a] \in Nat /\ cmds[a] \in Nat /\ BufferSize \in Nat
        /\ BufferSize * cmds[a] \in Nat /\ Unspent(a) \in Nat
        /\ got[a] >= BufferSize * cmds[a] + Unspent(a)
    BY EarnedTypes DEF Earned
  <2>2. CASE pc = "command" /\ conn = a
    <3>1. Unspent(a) = BufferSize
      BY <2>2 DEF Unspent
    <3>2. BufferSize * (cmds[a] + 1) = BufferSize * cmds[a] + BufferSize
      BY <2>1
    <3> QED
      BY <2>1, <2>2, <3>1, <3>2
  <2>3. CASE ~(pc = "command" /\ conn = a)
    BY <2>1, <2>3
  <2> QED
    BY <2>2, <2>3
<1> QED
  BY <1>1, <1>2, TypeStep, EarnedStep, PTL DEF Spec
=============================================================================
