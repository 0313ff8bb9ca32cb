---------------------------- MODULE E2TermProofs ----------------------------
(***************************************************************************)
(* Theorems about the E2 termination, for any numbers of associations,     *)
(* names and listeners and any bounds.                                     *)
(***************************************************************************)
EXTENDS E2Term, TLAPS

\* The default association of a listener that holds none is an association.
LEMMA AnyConnLemma == AnyConn \in Conns
<1>1. PICK c \in Conns : TRUE
  BY E2Constants
<1> QED
  BY <1>1, Zenon DEF AnyConn

\* A listener that moves on keeps its type, and so do the others.
LEMMA ThreadLemma ==
    ASSUME ThreadsOK, NEW t \in Listeners
    PROVE  /\ Wait(t) => ThreadsOK'
           /\ \A pc \in Pcs, c \in Conns, n \in Names \cup {NoName}, ks \in SUBSET Names :
                thr' = [thr EXCEPT ![t] = Listener(pc, c, n, ks)] => ThreadsOK'
           /\ \A pc \in Pcs, c \in Conns, n \in Names \cup {NoName} :
                Goto(t, pc, c, n) => ThreadsOK'
           /\ thr[t].c \in Conns /\ thr[t].n \in Names \cup {NoName}
           /\ thr[t].keys \subseteq Names
<1> USE AnyConnLemma DEF ThreadsOK
<1>1. Wait(t) => ThreadsOK'
  BY DEF Wait, Waiting, Listener, Pcs
<1>2. ASSUME NEW pc \in Pcs, NEW c \in Conns, NEW n \in Names \cup {NoName},
             NEW ks \in SUBSET Names,
             thr' = [thr EXCEPT ![t] = Listener(pc, c, n, ks)]
      PROVE  ThreadsOK'
  BY <1>2 DEF Listener
<1>3. ASSUME NEW pc \in Pcs, NEW c \in Conns, NEW n \in Names \cup {NoName},
             Goto(t, pc, c, n)
      PROVE  ThreadsOK'
  BY <1>3 DEF Goto, Listener
<1> QED
  BY <1>1, <1>2, <1>3

\* Telling the E2 manager, or failing to, keeps the types.
LEMMA TellLemma ==
    ASSUME HistoryOK, NEW n, NEW what \in {"up", "down"}, Tell(n, what)
    PROVE  /\ told' \in [Names -> {"none", "up", "down"}]
           /\ faults' \in 0 .. MaxFaults
BY E2Constants DEF HistoryOK, Tell, Fails

\* The initial state has its types.
LEMMA TypeInit == Init => TypeOK
<1> SUFFICES ASSUME Init PROVE TypeOK
  OBVIOUS
<1> USE E2Constants, AnyConnLemma DEF Init
<1>1. KernelOK
  BY DEF KernelOK
<1>2. PeersOK
  BY DEF PeersOK
<1>3. ThreadsOK
  BY DEF ThreadsOK, Waiting, Listener, Pcs
<1>4. HistoryOK
  <2>1. 0 \in 0 .. MaxRmr /\ 0 \in 0 .. MaxFaults
    OBVIOUS
  <2> QED
    BY <2>1, Zenon DEF HistoryOK
<1>5. DescriptorsOK
  BY DEF DescriptorsOK
<1>6. HoldersOK
  BY DEF HoldersOK, Waiting, Listener, Touching
<1> QED
  BY <1>1, <1>2, <1>3, <1>4, <1>5, <1>6 DEF TypeOK

\* What a step leaves unchanged keeps its type.
LEMMA KeepLemma ==
    ASSUME TypeOK
    PROVE  /\ UNCHANGED <<env, kernel>> => KernelOK'
           /\ UNCHANGED peers => PeersOK'
           /\ UNCHANGED thr => ThreadsOK'
           /\ UNCHANGED <<history, bounds>> => HistoryOK'
           /\ UNCHANGED <<far, peer, open, backlog, ready>> => DescriptorsOK'
           /\ UNCHANGED <<peer, open, map, thr>> => HoldersOK'
<1> USE DEF TypeOK
<1>1. UNCHANGED <<env, kernel>> => KernelOK'
  BY DEF KernelOK, env, kernel
<1>2. (UNCHANGED peers => PeersOK') /\ (UNCHANGED thr => ThreadsOK')
  BY DEF PeersOK, peers, ThreadsOK
<1>3. UNCHANGED <<history, bounds>> => HistoryOK'
  BY DEF HistoryOK, history, bounds
<1>4. UNCHANGED <<far, peer, open, backlog, ready>> => DescriptorsOK'
  BY DEF DescriptorsOK
<1>5. UNCHANGED <<peer, open, map, thr>> => HoldersOK'
  BY DEF HoldersOK
<1> QED
  BY <1>1, <1>2, <1>3, <1>4, <1>5

\* A listener that moves on holds an allocated peer if the others and the map
\* do, peers stay allocated once and descriptors stay closed.
LEMMA HoldersLemma ==
    ASSUME TypeOK, NEW t \in Listeners, NEW r, thr' = [thr EXCEPT ![t] = r],
           \A c \in Conns : peer[c] # "none" => peer'[c] # "none",
           \A c \in Conns : peer[c] # "none" /\ c \notin open => c \notin open',
           \A n \in Names : map'[n] # NULL => peer'[map'[n]] # "none",
           r.pc \in Touching => peer'[r.c] # "none",
           r.pc = "erase" => r.c \notin open'
    PROVE  HoldersOK'
<1>1. ASSUME NEW s \in Listeners
      PROVE  /\ thr'[s].pc \in Touching => peer'[thr'[s].c] # "none"
             /\ thr'[s].pc = "erase" => thr'[s].c \notin open'
  <2>1. CASE s = t
    BY <2>1 DEF TypeOK, ThreadsOK
  <2>2. CASE s # t
    <3>1. thr'[s] = thr[s] /\ thr[s].c \in Conns
      BY <2>2 DEF TypeOK, ThreadsOK
    <3> QED
      BY <3>1 DEF TypeOK, HoldersOK, Touching
  <2> QED
    BY <2>1, <2>2
<1> QED
  BY <1>1 DEF HoldersOK

\* A step of the nodes, the kernel or the platform keeps the types.
LEMMA EnvironmentTypes ==
    ASSUME TypeOK, Environment
    PROVE  TypeOK'
<1> USE E2Constants, KeepLemma DEF TypeOK
<1>1. ASSUME NEW c \in Conns, connect(c) PROVE TypeOK'
  <2>1. KernelOK'
    BY <1>1 DEF connect, KernelOK
  <2>2. DescriptorsOK'
    <3>1. \A i \in 1 .. Len(backlog) : backlog[i] # c
      BY <1>1 DEF connect, DescriptorsOK
    <3>2. /\ Len(backlog') = Len(backlog) + 1
          /\ \A i \in 1 .. Len(backlog) : backlog'[i] = backlog[i]
          /\ backlog'[Len(backlog) + 1] = c
      BY <1>1 DEF connect, KernelOK
    <3>3. Len(backlog) \in Nat
      BY DEF KernelOK
    <3> QED
      BY <1>1, <3>1, <3>2, <3>3 DEF connect, DescriptorsOK, KernelOK, peers
  <2> QED
    BY <1>1, <2>1, <2>2 DEF connect, peers
<1>2. ASSUME NEW c \in Conns, NEW p \in Pdus, node_sends(c, p) PROVE TypeOK'
  <2>1. Append(rx[c], p) \in Seq(Pdus)
    BY DEF KernelOK
  <2>2. KernelOK'
    BY <1>2, <2>1 DEF node_sends, KernelOK, Wake
  <2>3. DescriptorsOK'
    BY <1>2 DEF node_sends, DescriptorsOK, Wake, peers
  <2> QED
    BY <1>2, <2>2, <2>3 DEF node_sends, peers
<1>3. ASSUME NEW c \in Conns, NEW how \in {"closed", "reset"}, node_ends(c, how)
      PROVE  TypeOK'
  <2>1. KernelOK'
    BY <1>3 DEF node_ends, KernelOK, Wake
  <2>2. DescriptorsOK'
    BY <1>3 DEF node_ends, DescriptorsOK, Wake, peers, KernelOK
  <2> QED
    BY <1>3, <2>1, <2>2 DEF node_ends, peers
<1>4. ASSUME NEW m \in RmrMessages, platform_sends(m) PROVE TypeOK'
  <2>1. Append(rmrq, m) \in Seq(RmrMessages)
    BY DEF KernelOK
  <2>2. KernelOK'
    BY <1>4, <2>1 DEF platform_sends, KernelOK, env
  <2>3. HistoryOK'
    BY <1>4 DEF platform_sends, HistoryOK, history
  <2> QED
    BY <1>4, <2>2, <2>3 DEF platform_sends, env, peers
<1> QED
  BY <1>1, <1>2, <1>3, <1>4 DEF Environment

\* Taking an event and accepting a connection keep the types.
LEMMA EventTypes ==
    ASSUME TypeOK, NEW t \in Listeners,
           \/ UseAfterFree(t) \/ epoll_rmr(t) \/ accept(t)
           \/ \E c \in Conns : epoll_edge(t, c)
    PROVE  TypeOK'
<1> USE E2Constants, KeepLemma, AnyConnLemma DEF TypeOK
<1>1. CASE UseAfterFree(t)
  <2>1. HistoryOK'
    BY <1>1 DEF UseAfterFree, HistoryOK, history
  <2> QED
    BY <1>1, <2>1 DEF UseAfterFree, env, kernel, peers
<1>2. CASE epoll_rmr(t)
  <2>1. ThreadsOK'
    BY <1>2, ThreadLemma DEF epoll_rmr, Pcs
  <2>2. HoldersOK'
    BY <1>2, HoldersLemma DEF epoll_rmr, Goto, Listener, Touching, peers, HoldersOK
  <2> QED
    BY <1>2, <2>1, <2>2 DEF epoll_rmr, env, kernel, peers
<1>3. ASSUME NEW c \in Conns, epoll_edge(t, c) PROVE TypeOK'
  <2>1. KernelOK'
    BY <1>3 DEF epoll_edge, KernelOK, env
  <2>2. ThreadsOK'
    BY <1>3, ThreadLemma DEF epoll_edge, Pcs
  <2>3. DescriptorsOK'
    BY <1>3 DEF epoll_edge, DescriptorsOK, env, peers
  <2>4. peer[c] # "none"
    BY <1>3, "listen" \notin Conns DEF epoll_edge, DescriptorsOK
  <2>5. HoldersOK'
    BY <1>3, <2>4, HoldersLemma DEF epoll_edge, Goto, Listener, peers, HoldersOK
  <2> QED
    BY <1>3, <2>1, <2>2, <2>3, <2>5 DEF epoll_edge
<1>4. CASE accept(t)
  <2>1. Head(backlog) \in Conns /\ Tail(backlog) \in Seq(Conns)
    BY <1>4 DEF accept, KernelOK
  <2>2. KernelOK'
    BY <1>4, <2>1 DEF accept, KernelOK, env
  <2>3. PeersOK'
    BY <1>4, <2>1 DEF accept, PeersOK
  <2>4. HistoryOK'
    BY <1>4 DEF accept, HistoryOK, history, Fails
  <2>5. DescriptorsOK'
    <3>1. CASE backlog' = backlog /\ peer' = peer /\ open' = open /\ ready' \subseteq ready
      BY <1>4, <3>1 DEF accept, DescriptorsOK, env
    <3>2. CASE ~(backlog' = backlog /\ peer' = peer /\ open' = open)
      <4> DEFINE c == Head(backlog)
      <4>1. /\ backlog' = Tail(backlog)
            /\ \/ peer' = [peer EXCEPT ![c] = "alive"] /\ open' = open \cup {c}
               \/ peer' = [peer EXCEPT ![c] = "freed"] /\ open' = open
            /\ ready' \subseteq ready \cup open' /\ open \subseteq open'
            /\ far' = far
        BY <1>4, <3>2 DEF accept, env
      <4>2. /\ backlog # << >> /\ backlog[1] = c
            /\ Len(Tail(backlog)) = Len(backlog) - 1
            /\ \A i \in 1 .. Len(Tail(backlog)) : Tail(backlog)[i] = backlog[i + 1]
        BY <1>4 DEF accept, KernelOK
      <4>3. Len(backlog) \in Nat /\ Len(backlog) > 0
        BY <4>2 DEF KernelOK
      <4>4. peer[c] = "none" /\ far[c] # "off" /\ c \notin open /\ c \in Conns
        BY <2>1, <4>2, <4>3 DEF DescriptorsOK
      <4>5. ASSUME NEW i \in 1 .. Len(backlog')
            PROVE  /\ i + 1 \in 1 .. Len(backlog) /\ backlog'[i] = backlog[i + 1]
                   /\ backlog'[i] # c /\ backlog'[i] \in Conns
        <5>0. Len(backlog') = Len(backlog) - 1
          BY <4>1, <4>2
        <5>1. i \in Nat /\ i + 1 \in 1 .. Len(backlog) /\ backlog'[i] = backlog[i + 1]
          <6>1. i \in 1 .. Len(Tail(backlog)) /\ backlog'[i] = Tail(backlog)[i]
            BY <4>1
          <6>2. i \in Nat /\ i + 1 \in 1 .. Len(backlog)
            BY <5>0, <4>3
          <6> QED
            BY <6>1, <6>2, <4>2
        <5>2. 1 \in 1 .. Len(backlog) /\ i + 1 # 1
          BY <4>3, <5>1
        <5>3. backlog[i + 1] # backlog[1]
          BY <5>1, <5>2 DEF DescriptorsOK
        <5>4. backlog[i + 1] \in Conns
          BY <5>1 DEF KernelOK
        <5> QED
          BY <5>1, <5>3, <5>4, <4>2
      <4>7. \A d \in Conns : d # c => peer'[d] = peer[d]
        BY <4>1, <2>1 DEF PeersOK
      <4>8. \A i, j \in 1 .. Len(backlog') : backlog'[i] = backlog'[j] => i = j
        <5> SUFFICES ASSUME NEW i \in 1 .. Len(backlog'), NEW j \in 1 .. Len(backlog'),
                            backlog'[i] = backlog'[j]
                     PROVE  i = j
          OBVIOUS
        <5>1. i \in Int /\ j \in Int
          OBVIOUS
        <5>2. i + 1 = j + 1
          BY <4>5 DEF DescriptorsOK
        <5> QED
          BY <5>1, <5>2
      <4>9. \A d \in open' : peer'[d] = "alive"
        BY <4>1, <4>4, <4>7 DEF DescriptorsOK, PeersOK
      <4>10. \A i \in 1 .. Len(backlog') : peer'[backlog'[i]] = "none" /\ far'[backlog'[i]] # "off"
        BY <4>1, <4>5, <4>7 DEF DescriptorsOK
      <4>11. \A d \in Conns : far'[d] = "off" => peer'[d] = "none"
        BY <4>1, <4>4, <4>7 DEF DescriptorsOK
      <4>12. ready' \subseteq open' \cup {"listen"}
        BY <4>1 DEF DescriptorsOK
      <4> QED
        BY <4>8, <4>9, <4>10, <4>11, <4>12 DEF DescriptorsOK
    <3>3. ready' \subseteq ready \/ ~(backlog' = backlog /\ peer' = peer /\ open' = open)
      BY <1>4, <2>1 DEF accept, DescriptorsOK, KernelOK, PeersOK
    <3> QED
      BY <3>1, <3>2, <3>3
  <2>6. HoldersOK'
    <3>1. 1 \in 1 .. Len(backlog) /\ Head(backlog) = backlog[1]
      BY <1>4 DEF accept, KernelOK
    <3>2. peer[Head(backlog)] = "none"
      BY <3>1 DEF DescriptorsOK
    <3>3. \A c \in Conns : peer[c] # "none" =>
            peer'[c] # "none" /\ (c \notin open => c \notin open')
      BY <1>4, <2>1, <3>2 DEF accept, PeersOK
    <3>4. thr' = thr /\ map' = map
      BY <1>4 DEF accept
    <3> QED
      BY <3>3, <3>4 DEF HoldersOK, ThreadsOK, PeersOK, Touching
  <2> QED
    BY <1>4, <2>2, <2>3, <2>4, <2>5, <2>6 DEF accept
<1> QED
  BY <1>1, <1>2, <1>3, <1>4

\* Reading from an association and ending it keep the types.
LEMMA DataTypes ==
    ASSUME TypeOK, NEW t \in Listeners,
           \/ receiveDataFromSctp(t) \/ collect_memset(t) \/ collect_setkey(t)
           \/ buildAndSendSetupRequest(t) \/ connection_failure(t)
           \/ handlepoll_error(t) \/ close_descriptor(t) \/ cleanHashEntry(t)
    PROVE  TypeOK'
<1> USE E2Constants, KeepLemma, AnyConnLemma DEF TypeOK
<1> DEFINE c == thr[t].c
<1>c. /\ c \in Conns /\ thr[t].n \in Names \cup {NoName}
      /\ name[c] \in Names \cup {NoName}
      /\ NodeOf[c] \in Names \cup {NoName}
  BY ThreadLemma DEF PeersOK
<1>d. thr[t].pc \in Touching => peer[c] # "none"
  BY DEF HoldersOK
<1>1. CASE receiveDataFromSctp(t)
  <2>0. rx[c] \in Seq(Pdus) /\ (rx[c] # << >> => Tail(rx[c]) \in Seq(Pdus))
    BY <1>c DEF KernelOK
  <2>1. KernelOK'
    <3>1. rx' \in [Conns -> Seq(Pdus)]
      BY <1>1, <1>c, <2>0 DEF receiveDataFromSctp, CountAndForward, KernelOK
    <3> QED
      BY <1>1, <3>1 DEF receiveDataFromSctp, CountAndForward, KernelOK, env
  <2>2. ThreadsOK'
    BY <1>1, <1>c, ThreadLemma DEF receiveDataFromSctp, CountAndForward, Pcs
  <2>3. HistoryOK'
    BY <1>1 DEF receiveDataFromSctp, CountAndForward, HistoryOK, history
  <2>4. UNCHANGED <<far, peer, open, backlog, ready>> /\ UNCHANGED peers
    BY <1>1 DEF receiveDataFromSctp, CountAndForward, env, peers
  <2>5. HoldersOK'
    <3>1. At(t, "read") /\ (Wait(t) \/ \E pc \in {"lost", "memset", "read"} : Goto(t, pc, c, name[c]))
      BY <1>1 DEF receiveDataFromSctp, CountAndForward, Held
    <3> QED
      BY <3>1, <2>4, <1>d, HoldersLemma
      DEF At, Wait, Waiting, Goto, Listener, Touching, HoldersOK, peers
  <2> QED
    BY <2>1, <2>2, <2>3, <2>4, <2>5
<1>2. CASE collect_memset(t)
  <2>1. PeersOK'
    BY <1>2, <1>c DEF collect_memset, PeersOK
  <2>2. ThreadsOK'
    BY <1>2, <1>c, ThreadLemma DEF collect_memset, Pcs
  <2>4. HoldersOK'
    BY <1>2, <1>c, <1>d, HoldersLemma
    DEF collect_memset, Held, At, Goto, Listener, Touching, HoldersOK, peers, PeersOK
  <2> QED
    BY <1>2, <2>1, <2>2, <2>4 DEF collect_memset, env, kernel
<1>3. CASE collect_setkey(t)
  <2>1. PeersOK'
    BY <1>3, <1>c DEF collect_setkey, PeersOK
  <2>2. ThreadsOK'
    BY <1>3, <1>c, ThreadLemma DEF collect_setkey, Pcs
  <2>3. HistoryOK'
    BY <1>3, <1>c DEF collect_setkey, HistoryOK, bounds
  <2>4. HoldersOK'
    BY <1>3, <1>c, <1>d, HoldersLemma
    DEF collect_setkey, Held, At, Goto, Listener, Touching, HoldersOK, peers, PeersOK
  <2> QED
    BY <1>3, <2>1, <2>2, <2>3, <2>4 DEF collect_setkey, env, kernel
<1>4. CASE buildAndSendSetupRequest(t)
  <2>1. PeersOK'
    BY <1>4, <1>c DEF buildAndSendSetupRequest, PeersOK
  <2>2. ThreadsOK'
    BY <1>4, <1>c, ThreadLemma DEF buildAndSendSetupRequest, Pcs
  <2>3. HistoryOK'
    BY <1>4, <1>c, TellLemma DEF buildAndSendSetupRequest, HistoryOK
  <2>4. HoldersOK'
    BY <1>4, <1>c, <1>d, HoldersLemma
    DEF buildAndSendSetupRequest, Held, At, Goto, Listener, Touching, HoldersOK, peers, PeersOK
  <2> QED
    BY <1>4, <2>1, <2>2, <2>3, <2>4 DEF buildAndSendSetupRequest, env, kernel
<1>5. CASE connection_failure(t)
  <2>1. ThreadsOK'
    BY <1>5, <1>c, ThreadLemma DEF connection_failure, Pcs
  <2>2. HistoryOK'
    BY <1>5, <1>c, TellLemma DEF connection_failure, HistoryOK
  <2>4. HoldersOK'
    BY <1>5, <1>c, <1>d, HoldersLemma
    DEF connection_failure, Held, At, Goto, Listener, Touching, HoldersOK, peers, PeersOK
  <2> QED
    BY <1>5, <2>1, <2>2, <2>4 DEF connection_failure, env, kernel, peers
<1>6. CASE handlepoll_error(t)
  <2>1. ThreadsOK'
    BY <1>6, <1>c, ThreadLemma DEF handlepoll_error, Pcs
  <2>2. HistoryOK'
    BY <1>6, <1>c, TellLemma DEF handlepoll_error, HistoryOK
  <2>4. HoldersOK'
    BY <1>6, <1>c, <1>d, HoldersLemma
    DEF handlepoll_error, Held, At, Goto, Listener, Touching, HoldersOK, peers, PeersOK
  <2> QED
    BY <1>6, <2>1, <2>2, <2>4 DEF handlepoll_error, env, kernel, peers
<1>7. CASE close_descriptor(t)
  <2>1. KernelOK' /\ PeersOK'
    BY <1>7, <1>c DEF close_descriptor, KernelOK, PeersOK, env
  <2>2. ThreadsOK'
    BY <1>7, <1>c, ThreadLemma DEF close_descriptor, Pcs
  <2>3. DescriptorsOK'
    BY <1>7 DEF close_descriptor, DescriptorsOK, env
  <2>4. HoldersOK'
    BY <1>7, <1>c, <1>d, HoldersLemma
    DEF close_descriptor, Held, At, Goto, Listener, Touching, HoldersOK, peers, PeersOK
  <2> QED
    BY <1>7, <2>1, <2>2, <2>3, <2>4 DEF close_descriptor
<1>8. CASE cleanHashEntry(t)
  <2>1. PeersOK'
    BY <1>8, <1>c DEF cleanHashEntry, PeersOK
  <2>2. ThreadsOK'
    BY <1>8, ThreadLemma DEF cleanHashEntry
  <2>3. DescriptorsOK'
    <3>1. c \notin open /\ peer[c] # "none"
      BY <1>8, <1>d DEF cleanHashEntry, Held, At, HoldersOK, Touching
    <3>2. peer' = [peer EXCEPT ![c] = "freed"] /\ UNCHANGED <<far, open, ready, backlog>>
      BY <1>8 DEF cleanHashEntry, env, kernel
    <3> QED
      BY <1>c, <3>1, <3>2 DEF DescriptorsOK, KernelOK, PeersOK
  <2>4. HoldersOK'
    BY <1>8, <1>c, <1>d, HoldersLemma
    DEF cleanHashEntry, Held, At, Wait, Waiting, Listener, Touching, HoldersOK, peers, PeersOK
  <2> QED
    BY <1>8, <2>1, <2>2, <2>3, <2>4 DEF cleanHashEntry
<1> QED
  BY <1>1, <1>2, <1>3, <1>4, <1>5, <1>6, <1>7, <1>8

\* Receiving from RMR, RIC_SCTP_CLEAR_ALL included, keeps the types.
LEMMA XappTypes ==
    ASSUME TypeOK, NEW t \in Listeners,
           \/ receiveXappMessages(t) \/ sendSctpMsg(t) \/ getKeys(t) \/ clear_map(t)
           \/ \E n \in Names : clear_peer(t, n) \/ clear_stale_key(t, n)
    PROVE  TypeOK'
<1> USE E2Constants, KeepLemma, AnyConnLemma DEF TypeOK
<1>1. CASE receiveXappMessages(t)
  <2> DEFINE m == Head(rmrq)
  <2>1. m \in RmrMessages /\ Tail(rmrq) \in Seq(RmrMessages)
    BY <1>1 DEF receiveXappMessages, KernelOK
  <2>2. KernelOK'
    BY <1>1, <2>1 DEF receiveXappMessages, KernelOK, env
  <2>3. \/ Wait(t) \/ Goto(t, "keys", AnyConn, NoName)
        \/ m.type = "request" /\ map[m.to] # NULL /\ Goto(t, "send", map[m.to], m.to)
    BY <1>1 DEF receiveXappMessages
  <2>4. m.type = "request" => m.to \in Names
    BY <2>1 DEF RmrMessages
  <2>5. ThreadsOK'
    BY <2>3, <2>4, ThreadLemma DEF PeersOK, Pcs
  <2>6. HistoryOK'
    BY <1>1 DEF receiveXappMessages, HistoryOK, bounds
  <2>7. UNCHANGED peers /\ UNCHANGED <<far, backlog, ready>>
    BY <1>1 DEF receiveXappMessages, env
  <2>8. HoldersOK'
    BY <2>3, <2>4, <2>7, HoldersLemma
    DEF Wait, Waiting, Goto, Listener, Touching, HoldersOK, peers
  <2> QED
    BY <2>2, <2>5, <2>6, <2>7, <2>8 DEF peers
<1>2. CASE sendSctpMsg(t)
  <2>1. ThreadsOK'
    BY <1>2, ThreadLemma DEF sendSctpMsg
  <2>2. HoldersOK'
    BY <1>2, HoldersLemma DEF sendSctpMsg, Wait, Waiting, Listener, Touching, HoldersOK, peers
  <2>3. HistoryOK'
    BY <1>2 DEF sendSctpMsg, CountAndForward, HistoryOK, history
  <2> QED
    BY <1>2, <2>1, <2>2, <2>3 DEF sendSctpMsg, env, kernel, peers
<1>3. CASE getKeys(t)
  <2>1. ThreadsOK'
    <3>1. {n \in Names : map[n] # NULL} \in SUBSET Names
      OBVIOUS
    <3> QED
      BY <1>3, <3>1, ThreadLemma DEF getKeys, Pcs
  <2>2. HoldersOK'
    BY <1>3, HoldersLemma DEF getKeys, Listener, Touching, HoldersOK, peers
  <2> QED
    BY <1>3, <2>1, <2>2 DEF getKeys, env, kernel, peers
<1>4. CASE clear_map(t)
  <2>1. ThreadsOK' /\ PeersOK'
    BY <1>4, ThreadLemma DEF clear_map, PeersOK
  <2>2. HoldersOK'
    BY <1>4, HoldersLemma DEF clear_map, Wait, Waiting, Listener, Touching, HoldersOK
  <2> QED
    BY <1>4, <2>1, <2>2 DEF clear_map, env, kernel
<1>5. ASSUME NEW n \in Names, clear_peer(t, n) PROVE TypeOK'
  <2> DEFINE c == map[n]
  <2>1. c \in Conns /\ peer[c] # "none"
    BY <1>5 DEF clear_peer, PeersOK, HoldersOK
  <2>2. KernelOK' /\ PeersOK'
    BY <1>5, <2>1 DEF clear_peer, KernelOK, PeersOK, env
  <2>3. ThreadsOK'
    <3>1. thr[t].keys \ {n} \in SUBSET Names
      BY ThreadLemma
    <3> QED
      BY <1>5, <3>1, ThreadLemma DEF clear_peer, Pcs
  <2>4. HistoryOK'
    BY <1>5, TellLemma DEF clear_peer, HistoryOK
  <2>5. DescriptorsOK'
    <3>1. /\ peer' = [peer EXCEPT ![c] = "freed"] /\ open' = open \ {c}
          /\ ready' = ready \ {c} /\ UNCHANGED <<far, backlog>>
      BY <1>5 DEF clear_peer, env
    <3> QED
      BY <2>1, <3>1 DEF DescriptorsOK, KernelOK, PeersOK
  <2>6. HoldersOK'
    BY <1>5, <2>1, HoldersLemma DEF clear_peer, Listener, Touching, HoldersOK, PeersOK
  <2> QED
    BY <1>5, <2>2, <2>3, <2>4, <2>5, <2>6 DEF clear_peer
<1>6. ASSUME NEW n \in Names, clear_stale_key(t, n) PROVE TypeOK'
  <2>1. ThreadsOK'
    <3>1. thr[t].keys \ {n} \in SUBSET Names
      BY ThreadLemma
    <3> QED
      BY <1>6, <3>1, ThreadLemma DEF clear_stale_key, Pcs
  <2>2. HistoryOK'
    BY <1>6 DEF clear_stale_key, HistoryOK, history
  <2>3. HoldersOK'
    <3>1. CASE UNCHANGED thr
      BY <1>6, <3>1 DEF clear_stale_key, HoldersOK, peers
    <3>2. CASE thr' = [thr EXCEPT ![t] =
                  Listener("clear", AnyConn, NoName, thr[t].keys \ {n})]
      BY <1>6, <3>2, HoldersLemma DEF clear_stale_key, Listener, Touching, HoldersOK, peers
    <3> QED
      BY <1>6, <3>1, <3>2 DEF clear_stale_key
  <2> QED
    BY <1>6, <2>1, <2>2, <2>3 DEF clear_stale_key, env, kernel, peers
<1> QED
  BY <1>1, <1>2, <1>3, <1>4, <1>5, <1>6

\* The types, and the ties between descriptors, listeners and peers, hold in
\* every reachable state of listener, receiveDataFromSctp and
\* receiveXappMessages: an open descriptor, an event and a map entry always
\* belong to a peer that was allocated, and cleanHashEntry never frees a peer
\* whose descriptor is open.
THEOREM TypeCorrect == Spec => []TypeOK
<1>1. TypeOK /\ [Next]_vars => TypeOK'
  <2> SUFFICES ASSUME TypeOK, [Next]_vars PROVE TypeOK'
    OBVIOUS
  <2>1. CASE Next
    BY <2>1, EnvironmentTypes, EventTypes, DataTypes, XappTypes DEF Next, ListenerStep
  <2>2. CASE UNCHANGED vars
    BY <2>2, KeepLemma DEF vars, TypeOK, env, kernel, peers, history, bounds
  <2> QED
    BY <2>1, <2>2
<1> QED
  BY TypeInit, <1>1, PTL DEF Spec

-----------------------------------------------------------------------------
\* The registry.  RegistrySound is not inductive: cleanHashEntry erases the
\* name it finds in the peer, so the peer's name must be the one it is
\* registered under, unless a repeated setup request has just zeroed it.

BeingSet(c) == \E t \in Listeners : At(t, "setkey") /\ thr[t].c = c

Entry(n) == map[n] # NULL =>
    /\ NodeOf[map[n]] = n
    /\ peer[map[n]] = "alive" \/ Clearing \/ BeingSet(map[n])
    /\ name[map[n]] = n \/ BeingSet(map[n])

RegistryInv == broken \/ \A n \in Names : Entry(n)

\* A listener that is neither at setkey nor clearing takes no exception away.
LEMMA PersistLemma ==
    ASSUME TypeOK, NEW t \in Listeners, NEW r, thr' = [thr EXCEPT ![t] = r],
           thr[t].pc \notin {"setkey", "clear"}
    PROVE  /\ Clearing => Clearing'
           /\ \A c \in Conns : BeingSet(c) => BeingSet(c)'
BY DEF TypeOK, ThreadsOK, Clearing, BeingSet, At

\* Steps that touch neither peers, names nor the map keep the entries.
LEMMA RegistryKeep ==
    ASSUME TypeOK, \A n \in Names : Entry(n), UNCHANGED <<peer, name, map>>,
           Clearing => Clearing',
           \A c \in Conns : BeingSet(c) => BeingSet(c)'
    PROVE  RegistryInv'
<1>1. \A n \in Names : map[n] # NULL => map[n] \in Conns
  BY DEF TypeOK, PeersOK
<1> QED
  BY <1>1 DEF RegistryInv, Entry

\* A step of a listener that handles no RMR message keeps the entries.
LEMMA RegistryData ==
    ASSUME TypeOK, ~broken, \A n \in Names : Entry(n), NEW t \in Listeners,
           \/ UseAfterFree(t) \/ epoll_rmr(t) \/ accept(t)
           \/ \E c \in Conns : epoll_edge(t, c)
           \/ receiveDataFromSctp(t) \/ collect_memset(t) \/ collect_setkey(t)
           \/ buildAndSendSetupRequest(t) \/ connection_failure(t)
           \/ handlepoll_error(t) \/ close_descriptor(t) \/ cleanHashEntry(t)
    PROVE  RegistryInv'
<1> DEFINE c == thr[t].c
<1>c. c \in Conns /\ \A n \in Names : map[n] # NULL => map[n] \in Conns
  BY DEF TypeOK, ThreadsOK, PeersOK
<1>1. CASE UseAfterFree(t)
  BY <1>1 DEF UseAfterFree, RegistryInv
<1>2. CASE epoll_rmr(t)
  BY <1>2, PersistLemma, RegistryKeep DEF epoll_rmr, Goto, At, peers
<1>3. ASSUME NEW d \in Conns, epoll_edge(t, d) PROVE RegistryInv'
  BY <1>3, PersistLemma, RegistryKeep DEF epoll_edge, Goto, At, peers
<1>4. CASE receiveDataFromSctp(t)
  <2>1. UNCHANGED <<peer, name, map>> /\ thr[t].pc = "read"
    BY <1>4 DEF receiveDataFromSctp, CountAndForward, Held, At, peers
  <2>2. \E r : thr' = [thr EXCEPT ![t] = r]
    BY <1>4 DEF receiveDataFromSctp, CountAndForward, Wait, Goto
  <2> QED
    BY <2>1, <2>2, PersistLemma, RegistryKeep
<1>5. CASE buildAndSendSetupRequest(t)
  BY <1>5, PersistLemma, RegistryKeep DEF buildAndSendSetupRequest, Goto, Held, At
<1>6. CASE connection_failure(t)
  BY <1>6, PersistLemma, RegistryKeep DEF connection_failure, Goto, Held, At, peers
<1>7. CASE handlepoll_error(t)
  BY <1>7, PersistLemma, RegistryKeep DEF handlepoll_error, Goto, Held, At, peers
<1>8. CASE close_descriptor(t)
  BY <1>8, PersistLemma, RegistryKeep DEF close_descriptor, Goto, Held, At
<1>9. CASE accept(t)
  <2>1. UNCHANGED <<thr, name, map>> /\ Head(backlog) \in Conns
    BY <1>9 DEF accept, TypeOK, KernelOK
  <2>2. 1 \in 1 .. Len(backlog) /\ Head(backlog) = backlog[1]
    BY <1>9 DEF accept, TypeOK, KernelOK
  <2>3. peer[Head(backlog)] = "none"
    BY <2>2 DEF TypeOK, DescriptorsOK
  <2>4. \A n \in Names : map[n] # NULL => peer'[map[n]] = peer[map[n]]
    BY <1>9, <1>c, <2>1, <2>3 DEF accept, TypeOK, HoldersOK, PeersOK
  <2> QED
    BY <2>1, <2>4 DEF RegistryInv, Entry, Clearing, BeingSet, At
<1>10. CASE collect_memset(t)
  <2>1. /\ name' = [name EXCEPT ![c] = NoName] /\ UNCHANGED <<peer, map>>
        /\ thr[t].pc = "memset"
        /\ NodeOf[c] # NoName => Goto(t, "setkey", c, thr[t].n)
    BY <1>10 DEF collect_memset, Held, At
  <2>2. NodeOf[c] # NoName =>
          \E s \in Listeners : thr'[s].pc = "setkey" /\ thr'[s].c = c
    BY <2>1 DEF Goto, Listener, TypeOK, ThreadsOK
  <2>3. (Clearing => Clearing') /\ \A d \in Conns : BeingSet(d) => BeingSet(d)'
    BY <1>10, <2>1, PersistLemma DEF collect_memset, Goto
  <2>4. \A d \in Conns : d # c => name'[d] = name[d]
    BY <2>1, <1>c DEF TypeOK, PeersOK
  <2>5. ASSUME NEW n \in Names PROVE Entry(n)'
    <3>1. CASE map[n] = c /\ c # NULL
      <4>1. NodeOf[c] = n /\ NodeOf[c] # NoName
        BY <3>1, E2Constants DEF Entry
      <4> QED
        BY <3>1, <4>1, <2>1, <2>2 DEF Entry, BeingSet, At
    <3>2. CASE map[n] # c
      BY <3>2, <1>c, <2>1, <2>3, <2>4 DEF Entry
    <3>3. CASE map[n] = NULL
      BY <3>3, <2>1 DEF Entry
    <3> QED
      BY <3>1, <3>2, <3>3
  <2> QED
    BY <2>5 DEF RegistryInv
<1>11. CASE collect_setkey(t)
  <2>1. /\ name' = [name EXCEPT ![c] = NodeOf[c]] /\ map' = [map EXCEPT ![NodeOf[c]] = c]
        /\ peer' = peer /\ thr[t].pc = "setkey" /\ peer[c] # "freed"
        /\ Goto(t, "report", c, NodeOf[c])
    BY <1>11 DEF collect_setkey, Held, At
  <2>2. peer[c] = "alive"
    BY <2>1, <1>c DEF TypeOK, HoldersOK, Touching, PeersOK
  <2>3. Clearing => Clearing'
    BY <2>1 DEF Goto, Clearing, At, TypeOK, ThreadsOK
  <2>4. \A d \in Conns : d # c => (BeingSet(d) => BeingSet(d)') /\ name'[d] = name[d]
    BY <2>1, <1>c DEF Goto, BeingSet, At, TypeOK, ThreadsOK, PeersOK
  <2>5. name'[c] = NodeOf[c]
    BY <2>1, <1>c DEF TypeOK, PeersOK
  <2>6. ASSUME NEW n \in Names PROVE Entry(n)'
    <3>1. CASE map'[n] = c
      <4>1. NodeOf[c] = n
        BY <2>1, <3>1, <1>c, E2Constants DEF Entry, TypeOK, PeersOK
      <4> QED
        BY <3>1, <4>1, <2>1, <2>2, <2>5 DEF Entry
    <3>2. CASE map'[n] # c
      <4>1. map'[n] = map[n]
        BY <2>1, <3>2 DEF TypeOK, PeersOK
      <4> QED
        BY <3>2, <4>1, <1>c, <2>1, <2>3, <2>4 DEF Entry
    <3> QED
      BY <3>1, <3>2
  <2> QED
    BY <2>6 DEF RegistryInv
<1>12. CASE cleanHashEntry(t)
  <2>1. /\ map' = [n \in Names |-> IF n = name[c] THEN NULL ELSE map[n]]
        /\ peer' = [peer EXCEPT ![c] = "freed"] /\ name' = name
        /\ thr[t].pc = "erase" /\ Wait(t)
    BY <1>12 DEF cleanHashEntry, Held, At
  <2>2. (Clearing => Clearing') /\ \A d \in Conns : BeingSet(d) => BeingSet(d)'
    BY <2>1, PersistLemma DEF Wait
  <2>3. \A d \in Conns : d # c => peer'[d] = peer[d]
    BY <2>1, <1>c DEF TypeOK, PeersOK
  <2>4. ASSUME NEW n \in Names PROVE Entry(n)'
    <3>1. CASE map'[n] # NULL
      <4>1. map'[n] = map[n] /\ n # name[c]
        BY <2>1, <3>1
      <4> QED
        BY <4>1, <3>1, <1>c, <2>1, <2>2, <2>3 DEF Entry
    <3> QED
      BY <3>1 DEF Entry
  <2> QED
    BY <2>4 DEF RegistryInv
<1> QED
  BY <1>1, <1>2, <1>3, <1>4, <1>5, <1>6, <1>7, <1>8, <1>9, <1>10, <1>11, <1>12

\* So does a step that handles an RMR message, RIC_SCTP_CLEAR_ALL included.
LEMMA RegistryXapp ==
    ASSUME TypeOK, ~broken, \A n \in Names : Entry(n), NEW t \in Listeners,
           \/ receiveXappMessages(t) \/ sendSctpMsg(t) \/ getKeys(t) \/ clear_map(t)
           \/ \E n \in Names : clear_peer(t, n) \/ clear_stale_key(t, n)
    PROVE  RegistryInv'
<1>c. \A n \in Names : map[n] # NULL => map[n] \in Conns
  BY DEF TypeOK, PeersOK
<1>1. CASE receiveXappMessages(t)
  <2>1. UNCHANGED <<peer, name, map>> /\ thr[t].pc = "rcv"
    BY <1>1 DEF receiveXappMessages, At, peers
  <2>2. \E r : thr' = [thr EXCEPT ![t] = r]
    BY <1>1 DEF receiveXappMessages, Wait, Goto
  <2> QED
    BY <2>1, <2>2, PersistLemma, RegistryKeep
<1>2. CASE sendSctpMsg(t)
  BY <1>2, PersistLemma, RegistryKeep DEF sendSctpMsg, Wait, Held, At, peers
<1>3. CASE getKeys(t)
  BY <1>3, PersistLemma, RegistryKeep DEF getKeys, At, peers
<1>4. CASE clear_map(t)
  BY <1>4 DEF clear_map, RegistryInv, Entry
<1>5. ASSUME NEW k \in Names, clear_peer(t, k) \/ clear_stale_key(t, k)
      PROVE  RegistryInv'
  <2>1. CASE broken'
    BY <2>1 DEF RegistryInv
  <2>2. CASE ~broken'
    <3>1. /\ thr' = [thr EXCEPT ![t] =
                Listener("clear", AnyConn, NoName, thr[t].keys \ {k})]
          /\ thr[t].pc = "clear" /\ name' = name /\ map' = map
      BY <1>5, <2>2 DEF clear_peer, clear_stale_key, At, peers
    <3>2. thr'[t].pc = "clear" /\ Clearing'
      BY <3>1 DEF Listener, Clearing, At, TypeOK, ThreadsOK
    <3>3. \A d \in Conns : BeingSet(d) => BeingSet(d)'
      BY <3>1 DEF BeingSet, At, TypeOK, ThreadsOK
    <3> QED
      BY <1>c, <3>1, <3>2, <3>3 DEF RegistryInv, Entry
  <2> QED
    BY <2>1, <2>2
<1> QED
  BY <1>1, <1>2, <1>3, <1>4, <1>5

\* For any number of nodes, associations and listeners: a name in sctpMap leads
\* to the peer of its own node, never to a freed one, outside the two windows
\* RegistrySound names (the sleep of RIC_SCTP_CLEAR_ALL, and a repeated setup
\* request between its memset and its setkey).
THEOREM RegistryIsSound == Spec => []RegistrySound
<1>1. Init => RegistryInv
  BY DEF Init, RegistryInv, Entry
<1>2. TypeOK /\ RegistryInv /\ [Next]_vars => RegistryInv'
  <2> SUFFICES ASSUME TypeOK, RegistryInv, [Next]_vars PROVE RegistryInv'
    OBVIOUS
  <2>1. CASE Next
    <3>1. ~broken /\ \A n \in Names : Entry(n)
      BY <2>1 DEF Next, RegistryInv
    <3>2. CASE Environment
      <4>1. UNCHANGED <<peer, name, map, thr>>
        BY <3>2 DEF Environment, connect, node_sends, node_ends, platform_sends, peers
      <4> QED
        BY <3>1, <4>1, RegistryKeep DEF Clearing, BeingSet, At
    <3>3. ASSUME NEW t \in Listeners, ListenerStep(t) PROVE RegistryInv'
      BY <3>1, <3>3, RegistryData, RegistryXapp DEF ListenerStep
    <3> QED
      BY <2>1, <3>2, <3>3 DEF Next
  <2>2. CASE UNCHANGED vars
    BY <2>2 DEF vars, peers, bounds, RegistryInv, Entry, Clearing, BeingSet, At
  <2> QED
    BY <2>1, <2>2
<1>3. RegistryInv => RegistrySound
  BY DEF RegistryInv, RegistrySound, Entry, BeingSet
<1> QED
  BY <1>1, <1>2, <1>3, TypeCorrect, PTL DEF Spec
=============================================================================
