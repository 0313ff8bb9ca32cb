------------------------- MODULE E2TermNodesProofs --------------------------
(***************************************************************************)
(* What the E2 manager knows of the nodes, and where sctpMap leads, for    *)
(* any numbers of associations, names and listeners and any bounds.        *)
(***************************************************************************)
EXTENDS E2TermProofs

\* Some listener has registered c and not reported it yet; c has been registered
\* at least once, which no later step of c takes back; c was freed under the hands
\* of a listener, whose next step is undefined.
Reporting(c) == \E t \in Listeners : At(t, "report") /\ thr[t].c = c
WasSet(c) == c \in built \/ Reporting(c)
Stuck(c) == peer[c] = "freed" /\ \E t \in Listeners : Holds(t, c)

\* A step of listener t that does not end in undefined behaviour.
Step(t) == ~broken /\ ~broken' /\ ListenerStep(t)

-----------------------------------------------------------------------------
\* What the steps of a listener have in common.

\* Where a listener comes from and where it goes to: the steps of a setup request
\* and of the end of an association follow one another.
Moves(t) ==
    /\ \A s \in Listeners : s # t => thr'[s] = thr[s]
    /\ thr'[t].pc = "setkey" =>
          collect_memset(t) /\ thr'[t].c = thr[t].c /\ NodeOf[thr[t].c] # NoName
    /\ thr'[t].pc = "report" =>
          collect_setkey(t) /\ thr'[t].c = thr[t].c /\ thr'[t].n = NodeOf[thr[t].c]
    /\ thr'[t].pc = "lost" =>
          receiveDataFromSctp(t) /\ thr'[t].c = thr[t].c /\ thr'[t].n = name[thr[t].c]
    /\ thr'[t].pc = "close" =>
          (connection_failure(t) \/ handlepoll_error(t)) /\ thr'[t].c = thr[t].c
    /\ thr'[t].pc = "erase" => close_descriptor(t) /\ thr'[t].c = thr[t].c
    /\ thr'[t].pc \in {"keys", "clear"} => cleared' \/ thr[t].pc \in {"keys", "clear"}
    /\ thr[t].pc = "setkey" => collect_setkey(t)
    /\ thr[t].pc = "report" => buildAndSendSetupRequest(t)
    /\ thr[t].pc = "lost" => connection_failure(t)
    /\ thr[t].pc = "close" => close_descriptor(t)
    /\ thr[t].pc = "erase" => cleanHashEntry(t)
    /\ thr[t].pc \in Touching => peer[thr[t].c] = "alive"

\* Every step of a listener is such a move.
LEMMA MovesLemma ==
    ASSUME TypeOK, NEW t \in Listeners, Step(t)
    PROVE  Moves(t)
<1>0. /\ thr \in [Listeners -> [pc : Pcs, c : Conns, n : Names \cup {NoName},
                               keys : SUBSET Names]]
      /\ thr[t].c \in Conns
      /\ thr[t].pc \in Touching => peer[thr[t].c] # "none"
      /\ peer[thr[t].c] \in {"none", "alive", "freed"}
  BY DEF TypeOK, ThreadsOK, HoldersOK, PeersOK
<1> USE DEF Moves
<1>1. CASE UseAfterFree(t)
  BY <1>1 DEF UseAfterFree, Step
<1>2. ASSUME NEW d \in Conns, epoll_edge(t, d) PROVE Moves(t)
  BY <1>0, <1>2 DEF epoll_edge, Goto, Listener, At, Touching
<1>3. CASE epoll_rmr(t)
  BY <1>0, <1>3 DEF epoll_rmr, Goto, Listener, At, Touching
<1>4. CASE accept(t)
  BY <1>0, <1>4 DEF accept, At, Touching
<1>5. CASE receiveDataFromSctp(t)
  <2>1. \/ thr' = [thr EXCEPT ![t] = Waiting]
        \/ \E pc \in {"lost", "memset", "read"} :
              thr' = [thr EXCEPT ![t] = Listener(pc, thr[t].c, name[thr[t].c], {})]
    BY <1>5 DEF receiveDataFromSctp, Wait, Goto
  <2>2. thr[t].pc = "read" /\ peer[thr[t].c] # "freed"
    BY <1>5 DEF receiveDataFromSctp, Held, At
  <2> QED
    BY <1>0, <1>5, <2>1, <2>2 DEF Waiting, Listener, Touching
<1>6. CASE collect_memset(t)
  BY <1>0, <1>6 DEF collect_memset, Goto, Listener, Held, At, Touching
<1>7. CASE collect_setkey(t)
  BY <1>0, <1>7 DEF collect_setkey, Goto, Listener, Held, At, Touching
<1>8. CASE buildAndSendSetupRequest(t)
  BY <1>0, <1>8 DEF buildAndSendSetupRequest, Goto, Listener, Held, At, Touching
<1>9. CASE connection_failure(t)
  BY <1>0, <1>9 DEF connection_failure, Goto, Listener, Held, At, Touching
<1>10. CASE handlepoll_error(t)
  BY <1>0, <1>10 DEF handlepoll_error, Goto, Listener, Held, At, Touching
<1>11. CASE close_descriptor(t)
  BY <1>0, <1>11 DEF close_descriptor, Goto, Listener, Held, At, Touching
<1>12. CASE cleanHashEntry(t)
  BY <1>0, <1>12 DEF cleanHashEntry, Wait, Waiting, Listener, Held, At, Touching
<1>13. CASE receiveXappMessages(t)
  <2>1. /\ thr[t].pc = "rcv"
        /\ \/ thr' = [thr EXCEPT ![t] = Waiting]
           \/ \E c, n : thr' = [thr EXCEPT ![t] = Listener("send", c, n, {})]
           \/ /\ thr' = [thr EXCEPT ![t] = Listener("keys", AnyConn, NoName, {})]
              /\ cleared'
    BY <1>13 DEF receiveXappMessages, Wait, Goto, At
  <2> QED
    BY <1>0, <2>1 DEF Waiting, Listener, Touching
<1>14. CASE sendSctpMsg(t)
  BY <1>0, <1>14 DEF sendSctpMsg, Wait, Waiting, Listener, Held, At, Touching
<1>15. CASE getKeys(t)
  BY <1>0, <1>15 DEF getKeys, Listener, At, Touching
<1>16. CASE clear_map(t)
  BY <1>0, <1>16 DEF clear_map, Wait, Waiting, Listener, At, Touching
<1>17. ASSUME NEW k \in Names, clear_peer(t, k) \/ clear_stale_key(t, k) PROVE Moves(t)
  <2>1. /\ thr' = [thr EXCEPT ![t] = Listener("clear", AnyConn, NoName, thr[t].keys \ {k})]
        /\ thr[t].pc = "clear"
    BY <1>17 DEF clear_peer, clear_stale_key, At, Step
  <2> QED
    BY <1>0, <2>1 DEF Listener, Touching
<1> HIDE DEF Moves
<1> QED
  BY <1>1, <1>2, <1>3, <1>4, <1>5, <1>6, <1>7, <1>8, <1>9, <1>10, <1>11, <1>12, <1>13,
     <1>14, <1>15, <1>16, <1>17 DEF Step, ListenerStep

\* Which steps change what: every other one leaves it alone.
Changes(t) ==
    /\ peer' = peer \/ accept(t) \/ cleanHashEntry(t) \/ \E k \in Names : clear_peer(t, k)
    /\ name' = name \/ collect_memset(t) \/ collect_setkey(t)
    /\ built' = built \/ buildAndSendSetupRequest(t)
    /\ map' = map \/ collect_setkey(t) \/ cleanHashEntry(t) \/ clear_map(t)
    /\ \/ told' = told \/ buildAndSendSetupRequest(t) \/ connection_failure(t)
       \/ handlepoll_error(t) \/ \E k \in Names : clear_peer(t, k)
    /\ contended \subseteq contended'
    /\ cleared => cleared'
    /\ faults' \in {faults, faults + 1}

\* Every step of a listener makes such changes.
LEMMA ChangesLemma ==
    ASSUME TypeOK, NEW t \in Listeners, Step(t)
    PROVE  Changes(t)
<1> USE DEF Changes, peers, history, bounds, Tell, Fails
<1>1. CASE UseAfterFree(t) \/ \E d \in Conns : epoll_edge(t, d)
  BY <1>1 DEF UseAfterFree, epoll_edge
<1>2. CASE epoll_rmr(t) \/ accept(t)
  BY <1>2 DEF epoll_rmr, accept
<1>3. CASE receiveDataFromSctp(t)
  BY <1>3 DEF receiveDataFromSctp, CountAndForward
<1>4. CASE collect_memset(t) \/ collect_setkey(t)
  BY <1>4 DEF collect_memset, collect_setkey
<1>5. CASE buildAndSendSetupRequest(t)
  BY <1>5 DEF buildAndSendSetupRequest
<1>6. CASE connection_failure(t) \/ handlepoll_error(t)
  BY <1>6 DEF connection_failure, handlepoll_error
<1>7. CASE close_descriptor(t) \/ cleanHashEntry(t)
  BY <1>7 DEF close_descriptor, cleanHashEntry
<1>8. CASE receiveXappMessages(t)
  <2>1. cleared' = cleared \/ cleared' = TRUE
    BY <1>8 DEF receiveXappMessages
  <2> QED
    BY <1>8, <2>1 DEF receiveXappMessages
<1>9. CASE sendSctpMsg(t) \/ getKeys(t) \/ clear_map(t)
  BY <1>9 DEF sendSctpMsg, getKeys, clear_map
<1>10. ASSUME NEW k \in Names, clear_peer(t, k) \/ clear_stale_key(t, k) PROVE Changes(t)
  <2>1. CASE clear_peer(t, k)
    <3>1. UNCHANGED <<name, built, map, contended, cleared>> /\ faults' \in {faults, faults + 1}
      BY <2>1 DEF clear_peer
    <3> QED
      BY <2>1, <3>1
  <2>2. CASE clear_stale_key(t, k)
    BY <2>2 DEF clear_stale_key
  <2> QED
    BY <1>10, <2>1, <2>2
<1> HIDE DEF Changes
<1> QED
  BY <1>1, <1>2, <1>3, <1>4, <1>5, <1>6, <1>7, <1>8, <1>9, <1>10 DEF Step, ListenerStep

\* A peer is allocated once and freed once: by cleanHashEntry, or when
\* RIC_SCTP_CLEAR_ALL finds it in the map.
LEMMA PeerSteps ==
    ASSUME TypeOK, NEW t \in Listeners, Step(t), NEW c \in Conns
    PROVE  /\ peer[c] = "freed" => peer'[c] = "freed"
           /\ peer'[c] = "none" => peer[c] = "none"
           /\ peer[c] = "alive" /\ peer'[c] # "alive" =>
                /\ peer'[c] = "freed"
                /\ \/ cleanHashEntry(t) /\ c = thr[t].c
                   \/ \E k \in Names : clear_peer(t, k) /\ c = map[k]
<1>0. peer \in [Conns -> {"none", "alive", "freed"}] /\ thr[t].c \in Conns
  BY DEF TypeOK, PeersOK, ThreadsOK
<1>1. CASE peer' = peer
  BY <1>0, <1>1
<1>2. CASE accept(t)
  <2>1. backlog # << >> /\ backlog \in Seq(Conns)
    BY <1>2 DEF accept, TypeOK, KernelOK
  <2>2. Head(backlog) = backlog[1] /\ 1 \in 1 .. Len(backlog) /\ Head(backlog) \in Conns
    BY <2>1
  <2>3. peer[Head(backlog)] = "none"
    BY <2>2 DEF TypeOK, DescriptorsOK
  <2> QED
    BY <1>0, <1>2, <2>2, <2>3 DEF accept
<1>3. CASE cleanHashEntry(t)
  BY <1>0, <1>3 DEF cleanHashEntry
<1>4. ASSUME NEW k \in Names, clear_peer(t, k)
      PROVE  peer' = [peer EXCEPT ![map[k]] = "freed"] /\ map[k] \in Conns
  BY <1>4 DEF clear_peer, TypeOK, PeersOK
<1> QED
  BY <1>0, <1>1, <1>2, <1>3, <1>4, ChangesLemma DEF Changes

\* The windows in which a listener works on c last until its next step; that c has
\* been registered, and that it was freed under a listener's hands, last for ever.
LEMMA WindowSteps ==
    ASSUME TypeOK, NEW t \in Listeners, Step(t), NEW c \in Conns
    PROVE  /\ BeingSet(c) => BeingSet(c)' \/ (collect_setkey(t) /\ c = thr[t].c)
           /\ Reporting(c) => Reporting(c)' \/ (buildAndSendSetupRequest(t) /\ c = thr[t].c)
           /\ collect_setkey(t) /\ c = thr[t].c => Reporting(c)'
           /\ WasSet(c) => WasSet(c)'
           /\ WasSet(c)' => WasSet(c) \/ (collect_setkey(t) /\ c = thr[t].c)
           /\ Ending(c) => Ending(c)' \/ peer'[c] = "freed"
           /\ Stuck(c) => Stuck(c)'
<1>0. Moves(t) /\ Changes(t)
  BY MovesLemma, ChangesLemma
<1>1. \A s \in Listeners : s # t => thr'[s] = thr[s]
  BY <1>0 DEF Moves
<1>2. thr \in [Listeners -> [pc : Pcs, c : Conns, n : Names \cup {NoName},
                             keys : SUBSET Names]]
  BY DEF TypeOK, ThreadsOK
<1>3. BeingSet(c) => BeingSet(c)' \/ (collect_setkey(t) /\ c = thr[t].c)
  BY <1>0, <1>1 DEF BeingSet, At, Moves
<1>4. Reporting(c) => Reporting(c)' \/ (buildAndSendSetupRequest(t) /\ c = thr[t].c)
  BY <1>0, <1>1 DEF Reporting, At, Moves
<1>5. collect_setkey(t) /\ c = thr[t].c => Reporting(c)'
  BY <1>2 DEF collect_setkey, Goto, Listener, Reporting, At
<1>6. built \subseteq built' /\ (buildAndSendSetupRequest(t) => built' = built \cup {thr[t].c})
  BY <1>0 DEF Changes, buildAndSendSetupRequest
<1>7. WasSet(c) => WasSet(c)'
  BY <1>4, <1>6 DEF WasSet
<1>8. buildAndSendSetupRequest(t) => Reporting(thr[t].c)
  BY DEF buildAndSendSetupRequest, Held, At, Reporting
<1>9. Reporting(c)' => Reporting(c) \/ (collect_setkey(t) /\ c = thr[t].c)
  BY <1>0, <1>1 DEF Reporting, At, Moves
<1>10. WasSet(c)' => WasSet(c) \/ (collect_setkey(t) /\ c = thr[t].c)
  BY <1>0, <1>6, <1>8, <1>9 DEF WasSet, Changes
<1>11. ASSUME Ending(c) PROVE Ending(c)' \/ peer'[c] = "freed"
  <2>1. PICK s \in Listeners : thr[s].c = c /\ thr[s].pc \in {"lost", "close", "erase"}
    BY <1>11 DEF Ending
  <2>2. CASE s # t
    BY <1>1, <2>1, <2>2 DEF Ending
  <2>3. CASE s = t /\ thr[t].pc = "lost"
    <3>1. connection_failure(t)
      BY <1>0, <2>3 DEF Moves
    <3> QED
      BY <1>2, <2>1, <2>3, <3>1 DEF connection_failure, Goto, Listener, Ending
  <2>4. CASE s = t /\ thr[t].pc = "close"
    <3>1. close_descriptor(t)
      BY <1>0, <2>4 DEF Moves
    <3> QED
      BY <1>2, <2>1, <2>4, <3>1 DEF close_descriptor, Goto, Listener, Ending
  <2>5. CASE s = t /\ thr[t].pc = "erase"
    <3>1. cleanHashEntry(t)
      BY <1>0, <2>5 DEF Moves
    <3> QED
      BY <2>1, <2>5, <3>1 DEF cleanHashEntry, TypeOK, PeersOK
  <2> QED
    BY <2>1, <2>2, <2>3, <2>4, <2>5
<1>12. ASSUME Stuck(c) PROVE Stuck(c)'
  <2>1. PICK s \in Listeners : thr[s].c = c /\ thr[s].pc \in Touching
    BY <1>12 DEF Stuck, Holds
  <2>2. s # t
    BY <1>0, <1>12, <2>1 DEF Moves, Stuck
  <2>3. peer'[c] = "freed"
    BY <1>12, PeerSteps DEF Stuck
  <2> QED
    BY <1>1, <2>1, <2>2, <2>3 DEF Stuck, Holds
<1> QED
  BY <1>3, <1>4, <1>5, <1>7, <1>10, <1>11, <1>12

-----------------------------------------------------------------------------
\* What the listeners know of an association: its peer has no name but that of its
\* own node, and only once it has been registered.

SetupOK(c) ==
    /\ peer[c] = "none" => c \notin built
    /\ name[c] # NoName => name[c] = NodeOf[c] /\ WasSet(c)
    /\ WasSet(c) => NodeOf[c] \in Names
HandlerOK(t) ==
    /\ At(t, "setkey") => NodeOf[thr[t].c] \in Names
    /\ At(t, "report") => thr[t].n = NodeOf[thr[t].c]
    /\ At(t, "lost") /\ thr[t].n # NoName =>
          thr[t].n = NodeOf[thr[t].c] /\ WasSet(thr[t].c)
    /\ thr[t].pc \in {"keys", "clear"} => cleared
SetupInv == (\A c \in Conns : SetupOK(c)) /\ (\A t \in Listeners : HandlerOK(t))

\* Registering and reporting keep this.
LEMMA SetupStep ==
    ASSUME TypeOK, SetupInv, NEW t \in Listeners, Step(t)
    PROVE  SetupInv'
<1>0. Moves(t) /\ Changes(t)
  BY MovesLemma, ChangesLemma
<1>1. name \in [Conns -> Names \cup {NoName}] /\ thr[t].c \in Conns
      /\ NodeOf \in [Conns -> Names \cup {NoName}]
  BY E2Constants DEF TypeOK, PeersOK, ThreadsOK
<1>2. ASSUME NEW c \in Conns PROVE SetupOK(c)'
  <2>0. SetupOK(c) /\ HandlerOK(t)
    BY DEF SetupInv
  <2>1. (peer[c] = "none" => c \notin built)'
    <3>1. c \in built' => c \in built \/ peer[c] = "alive"
      BY <1>0 DEF Changes, buildAndSendSetupRequest, Moves, Held, At, Touching
    <3>2. peer'[c] = "none" => peer[c] = "none"
      BY PeerSteps
    <3> QED
      BY <2>0, <3>1, <3>2 DEF SetupOK
  <2>2. name'[c] = name[c] \/ name'[c] = NoName
        \/ (collect_setkey(t) /\ c = thr[t].c /\ name'[c] = NodeOf[c])
    BY <1>0, <1>1 DEF Changes, collect_memset, collect_setkey
  <2>3. (name[c] # NoName => name[c] = NodeOf[c] /\ WasSet(c))'
    BY <2>0, <2>2, WindowSteps DEF SetupOK, WasSet
  <2>4. collect_setkey(t) => NodeOf[thr[t].c] \in Names
    BY <2>0 DEF HandlerOK, collect_setkey, Held
  <2>5. (WasSet(c) => NodeOf[c] \in Names)'
    BY <2>0, <2>4, WindowSteps DEF SetupOK
  <2> QED
    BY <2>1, <2>3, <2>5 DEF SetupOK
<1>3. ASSUME NEW s \in Listeners PROVE HandlerOK(s)'
  <2>0. HandlerOK(s) /\ thr[s].c \in Conns
    BY DEF SetupInv, TypeOK, ThreadsOK
  <2>1. CASE s # t
    <3>1. thr'[s] = thr[s]
      BY <1>0, <2>1 DEF Moves
    <3>2. \A c \in Conns : WasSet(c) => WasSet(c)'
      BY WindowSteps
    <3>3. \A c : c = thr[s].c /\ WasSet(c)' => WasSet(thr[s].c)'
      BY <3>1
    <3>4. cleared => cleared'
      BY <1>0 DEF Changes
    <3> QED
      BY <2>0, <3>1, <3>2, <3>3, <3>4 DEF HandlerOK, At
  <2>2. CASE s = t
    <3>1. PICK c \in Conns : c = thr[t].c
      BY <1>1
    <3>2. thr'[t].pc = "setkey" => NodeOf[thr'[t].c] \in Names
      BY <1>0, <1>1 DEF Moves
    <3>3. thr'[t].pc = "report" => thr'[t].n = NodeOf[thr'[t].c]
      BY <1>0 DEF Moves
    <3>4. ASSUME thr'[t].pc = "lost", thr'[t].n # NoName
          PROVE  thr'[t].n = NodeOf[thr'[t].c] /\ WasSet(thr[t].c)'
      <4>1. thr'[t].c = c /\ thr'[t].n = name[c]
        BY <1>0, <3>1, <3>4 DEF Moves
      <4>2. name[c] = NodeOf[c] /\ WasSet(c)'
        BY <3>4, <4>1, WindowSteps DEF SetupInv, SetupOK
      <4> QED
        BY <4>1, <4>2
    <3>5. thr'[t].pc \in {"keys", "clear"} => cleared'
      BY <1>0, <2>0, <2>2 DEF Moves, Changes, HandlerOK
    <3> QED
      BY <2>2, <3>2, <3>3, <3>4, <3>5 DEF HandlerOK, At
  <2> QED
    BY <2>1, <2>2
<1> QED
  BY <1>2, <1>3 DEF SetupInv

-----------------------------------------------------------------------------
\* Nodes with one association.  Two registered peers of one node that are alive at
\* once leave their mark: the later of them found the other when it was registered.

Alone(c) == peer[c] = "alive" /\ WasSet(c) /\ NodeOf[c] \notin contended
MarkInv == \A c, d \in Conns : Alone(c) /\ NodeOf[d] = NodeOf[c] =>
              d = c \/ peer[d] # "alive" \/ ~WasSet(d)

\* A peer that is alone after a step was so before it, unless it has just been
\* registered.
LEMMA AloneSteps ==
    ASSUME TypeOK, SetupInv, NEW t \in Listeners, Step(t), NEW c \in Conns
    PROVE  /\ peer'[c] = "alive" /\ WasSet(c) => peer[c] = "alive"
           /\ Alone(c)' => Alone(c) \/ (collect_setkey(t) /\ c = thr[t].c)
<1>1. ASSUME peer'[c] = "alive", WasSet(c) PROVE peer[c] = "alive"
  <2>1. peer[c] # "freed"
    BY <1>1, PeerSteps
  <2>2. peer[c] # "none"
    <3>1. c \notin built \/ peer[c] # "none"
      BY DEF SetupInv, SetupOK
    <3>2. Reporting(c) => peer[c] # "none"
      BY DEF Reporting, At, TypeOK, HoldersOK, Touching
    <3> QED
      BY <1>1, <3>1, <3>2 DEF WasSet
  <2> QED
    BY <2>1, <2>2 DEF TypeOK, PeersOK
<1>2. contended \subseteq contended'
  BY ChangesLemma DEF Changes
<1> QED
  BY <1>1, <1>2, WindowSteps DEF Alone

\* A registration finds the other peers of its node.
LEMMA RegistrationMarks ==
    ASSUME NEW t \in Listeners, collect_setkey(t), NEW d \in Conns,
           NodeOf[d] = NodeOf[thr[t].c], d # thr[t].c, peer[d] = "alive"
    PROVE  NodeOf[d] \in contended' /\ peer' = peer
BY DEF collect_setkey

\* The mark is made in time.
LEMMA MarkStep ==
    ASSUME TypeOK, SetupInv, MarkInv, NEW t \in Listeners, Step(t)
    PROVE  MarkInv'
<1> SUFFICES ASSUME NEW c \in Conns, NEW d \in Conns, Alone(c)', NodeOf[d] = NodeOf[c],
                    d # c, peer'[d] = "alive", WasSet(d)'
             PROVE  FALSE
  BY DEF MarkInv
<1>0. thr[t].c \in Conns /\ NodeOf[c] \notin contended' /\ peer'[c] = "alive"
  BY DEF TypeOK, ThreadsOK, Alone
<1>1. CASE collect_setkey(t) /\ (c = thr[t].c \/ d = thr[t].c)
  <2>1. peer' = peer
    BY <1>1 DEF collect_setkey
  <2> QED
    BY <1>0, <1>1, <2>1, RegistrationMarks
<1>2. CASE ~(collect_setkey(t) /\ (c = thr[t].c \/ d = thr[t].c))
  <2>1. Alone(c) /\ WasSet(d)
    BY <1>2, AloneSteps, WindowSteps
  <2>2. peer[d] = "alive"
    BY <2>1, AloneSteps
  <2> QED
    BY <2>1, <2>2 DEF MarkInv
<1> QED
  BY <1>1, <1>2

\* A listener that works under the name of a node works on the peer of that node
\* which is alone, if there is one.
LEMMA NameIsOfAlone ==
    ASSUME TypeOK, SetupInv, MarkInv, NEW c \in Conns, Alone(c), NEW d \in Conns,
           peer[d] = "alive", WasSet(d), NodeOf[d] = NodeOf[c]
    PROVE  d = c
BY DEF MarkInv

-----------------------------------------------------------------------------
\* Nodes that are up.

UpInv == cleared \/ \A c \in Conns : Alone(c) =>
            /\ map[NodeOf[c]] = c
            /\ c \in built /\ ~Ending(c) => told[NodeOf[c]] = "up" \/ faults > 0

\* The entry of a peer that is alone stays.
LEMMA EntryStays ==
    ASSUME TypeOK, SetupInv, MarkInv, NEW t \in Listeners, Step(t), ~cleared,
           NEW c \in Conns, Alone(c), Alone(c)', map[NodeOf[c]] = c
    PROVE  map'[NodeOf[c]] = c
<1> DEFINE d == thr[t].c
<1>0. /\ d \in Conns /\ NodeOf[c] \in Names /\ HandlerOK(t) /\ SetupOK(d)
      /\ map \in [Names -> Conns \cup {NULL}]
      /\ Moves(t)
  BY MovesLemma DEF TypeOK, ThreadsOK, PeersOK, Alone, SetupInv, SetupOK
<1>1. CASE map' = map
  BY <1>1
<1>2. CASE collect_setkey(t)
  <2>1. NodeOf[d] = NodeOf[c] => d = c
    BY <1>0, <1>2, RegistrationMarks DEF Alone
  <2> QED
    BY <1>0, <1>2, <2>1 DEF collect_setkey
<1>3. CASE cleanHashEntry(t)
  <2>1. thr[t].pc = "erase" /\ peer'[d] = "freed" /\ peer[d] = "alive"
    BY <1>0, <1>3 DEF cleanHashEntry, Held, At, TypeOK, PeersOK, Moves, Touching
  <2>2. d # c
    BY <2>1 DEF Alone
  <2>3. name[d] # NodeOf[c]
    <3>1. name[d] = NodeOf[c] => NodeOf[d] = NodeOf[c] /\ WasSet(d)
      BY <1>0, E2Constants DEF SetupOK
    <3> QED
      BY <1>0, <2>1, <2>2, <3>1, NameIsOfAlone
  <2> QED
    BY <1>0, <1>3, <2>3 DEF cleanHashEntry
<1>4. CASE clear_map(t)
  BY <1>0, <1>4 DEF clear_map, At, HandlerOK
<1> QED
  BY <1>1, <1>2, <1>3, <1>4, ChangesLemma DEF Changes

\* As long as a peer is alone and its association does not end, nobody tells the
\* E2 manager that its node is down.
LEMMA UpStays ==
    ASSUME TypeOK, SetupInv, MarkInv, NEW t \in Listeners, Step(t), ~cleared,
           NEW c \in Conns, Alone(c), (~Ending(c))',
           peer'[c] = "alive", told[NodeOf[c]] = "up"
    PROVE  told'[NodeOf[c]] = "up"
<1> DEFINE d == thr[t].c
<1>0. /\ d \in Conns /\ NodeOf[c] \in Names /\ HandlerOK(t) /\ SetupOK(d)
      /\ told \in [Names -> {"none", "up", "down"}]
      /\ thr \in [Listeners -> [pc : Pcs, c : Conns, n : Names \cup {NoName},
                                keys : SUBSET Names]]
      /\ Moves(t)
  BY MovesLemma DEF TypeOK, ThreadsOK, HistoryOK, Alone, SetupInv, SetupOK
<1>1. CASE told' = told
  BY <1>1
<1>2. CASE buildAndSendSetupRequest(t)
  BY <1>0, <1>2 DEF buildAndSendSetupRequest, Tell
<1>3. CASE connection_failure(t) \/ handlepoll_error(t)
  <2> DEFINE n == IF connection_failure(t) THEN thr[t].n ELSE name[d]
  <2>1. Tell(n, "down") /\ thr[t].pc \in {"lost", "err"} /\ peer[d] = "alive"
        /\ (connection_failure(t) => thr[t].pc = "lost")
    BY <1>0, <1>3 DEF connection_failure, handlepoll_error, Held, At, Moves, Touching
  <2>2. d # c
    <3>1. thr'[t].pc = "close" /\ thr'[t].c = d
      BY <1>0, <1>3 DEF connection_failure, handlepoll_error, Goto, Listener
    <3> QED
      BY <3>1 DEF Ending
  <2>3. n = NodeOf[c] => NodeOf[d] = NodeOf[c] /\ WasSet(d)
    BY <1>0, <2>1, E2Constants DEF SetupOK, HandlerOK, At
  <2>4. n # NodeOf[c]
    BY <1>0, <2>1, <2>2, <2>3, NameIsOfAlone
  <2> QED
    BY <1>0, <2>1, <2>4 DEF Tell
<1>4. ASSUME NEW k \in Names, clear_peer(t, k) PROVE FALSE
  BY <1>0, <1>4 DEF clear_peer, At, HandlerOK
<1> QED
  BY <1>1, <1>2, <1>3, <1>4, ChangesLemma DEF Changes

\* Registered, and known to be up.
LEMMA UpStep ==
    ASSUME TypeOK, SetupInv, MarkInv, UpInv, NEW t \in Listeners, Step(t)
    PROVE  UpInv'
<1> SUFFICES ASSUME ~cleared', NEW c \in Conns, Alone(c)'
             PROVE  /\ map'[NodeOf[c]] = c
                    /\ c \in built' /\ (~Ending(c))' =>
                          told'[NodeOf[c]] = "up" \/ faults' > 0
  BY DEF UpInv
<1>0. /\ ~cleared /\ Moves(t) /\ Changes(t) /\ peer'[c] = "alive"
      /\ faults \in Nat /\ faults' \in {faults, faults + 1}
      /\ \A d \in Conns : SetupOK(d)
      /\ map \in [Names -> Conns \cup {NULL}] /\ HandlerOK(t) /\ thr[t].c \in Conns
      /\ told \in [Names -> {"none", "up", "down"}]
  BY MovesLemma, ChangesLemma, E2Constants
     DEF Changes, Alone, TypeOK, HistoryOK, SetupInv, PeersOK, ThreadsOK
<1>1. CASE collect_setkey(t) /\ c = thr[t].c
  <2>1. NodeOf[c] \in Names
    BY <1>0, <1>1 DEF collect_setkey, Held, HandlerOK
  <2>2. map'[NodeOf[c]] = c
    BY <1>0, <1>1, <2>1 DEF collect_setkey
  <2>3. built' = built /\ told' = told
    BY <1>1 DEF collect_setkey
  <2>4. c \in built => Alone(c)
    BY <1>0, <1>1 DEF Alone, WasSet, collect_setkey
  <2>5. (~Ending(c))' => ~Ending(c)
    BY <1>0, WindowSteps
  <2> QED
    BY <1>0, <2>2, <2>3, <2>4, <2>5 DEF UpInv
<1>2. CASE ~(collect_setkey(t) /\ c = thr[t].c)
  <2>1. Alone(c) /\ map[NodeOf[c]] = c
    BY <1>0, <1>2, AloneSteps DEF UpInv
  <2>2. map'[NodeOf[c]] = c
    BY <1>0, <2>1, EntryStays
  <2>3. ASSUME c \in built', (~Ending(c))' PROVE told'[NodeOf[c]] = "up" \/ faults' > 0
    <3>1. CASE c \in built
      <4>1. ~Ending(c)
        BY <1>0, <2>3, WindowSteps
      <4>2. told[NodeOf[c]] = "up" \/ faults > 0
        BY <1>0, <2>1, <3>1, <4>1 DEF UpInv
      <4>3. told[NodeOf[c]] = "up" => told'[NodeOf[c]] = "up"
        BY <1>0, <2>1, <2>3, UpStays
      <4> QED
        BY <1>0, <4>2, <4>3
    <3>2. CASE c \notin built
      <4>1. buildAndSendSetupRequest(t) /\ c = thr[t].c
        BY <1>0, <2>3, <3>2 DEF Changes, buildAndSendSetupRequest
      <4>2. thr[t].n = NodeOf[c] /\ NodeOf[c] \in Names
        BY <1>0, <2>1, <4>1 DEF buildAndSendSetupRequest, Held, HandlerOK, SetupOK, Alone
      <4> QED
        BY <1>0, <4>1, <4>2 DEF buildAndSendSetupRequest, Tell, Fails
    <3> QED
      BY <3>1, <3>2
  <2> QED
    BY <2>2, <2>3
<1> QED
  BY <1>1, <1>2

-----------------------------------------------------------------------------
\* Nodes that are gone.  The name under which the end of an association is reported
\* is read from the peer, where a repeated setup request may have zeroed it; but then
\* a listener is between memset and its report, and either reports side by side with
\* the end, or is left with a freed peer.

Busy(c) == BeingSet(c) \/ Reporting(c)
NameKnown(c) == Alone(c) => name[c] = NodeOf[c] \/ BeingSet(c)
LossNamed(t) == At(t, "lost") /\ Alone(thr[t].c) =>
    thr[t].n = NodeOf[thr[t].c] \/ Busy(thr[t].c)
LossTold(t) == thr[t].pc \in {"close", "erase"} /\ Alone(thr[t].c) =>
    told[NodeOf[thr[t].c]] = "down" \/ Busy(thr[t].c)
GoneTold(c) == c \in built /\ peer[c] = "freed" /\ NodeOf[c] \notin contended =>
    \/ told[NodeOf[c]] = "down"
    \/ \E d \in Conns : /\ NodeOf[d] = NodeOf[c]
                        /\ (peer[d] = "alive" /\ WasSet(d)) \/ Stuck(d)
DownInv == faults > 0 \/
    /\ \A c \in Conns : NameKnown(c) /\ GoneTold(c)
    /\ \A t \in Listeners : LossNamed(t) /\ LossTold(t)

\* A window closes with a report, which marks a node whose association ends.
LEMMA BusySteps ==
    ASSUME TypeOK, NEW t \in Listeners, Step(t), NEW c \in Conns, HandlerOK(t)
    PROVE  /\ collect_setkey(t) /\ c = thr[t].c => Busy(c)'
           /\ Busy(c) /\ Ending(c) => Busy(c)' \/ NodeOf[c] \in contended'
<1>1. buildAndSendSetupRequest(t) /\ c = thr[t].c /\ Ending(c) => NodeOf[c] \in contended'
  BY DEF buildAndSendSetupRequest, Held, HandlerOK
<1> QED
  BY <1>1, WindowSteps DEF Busy

\* The name in the peer.
LEMMA NameStep ==
    ASSUME TypeOK, SetupInv, NEW t \in Listeners, Step(t), NEW c \in Conns, NameKnown(c)
    PROVE  NameKnown(c)'
<1> SUFFICES ASSUME Alone(c)' PROVE name'[c] = NodeOf[c] \/ BeingSet(c)'
  BY DEF NameKnown
<1>0. /\ name \in [Conns -> Names \cup {NoName}] /\ thr[t].c \in Conns
      /\ thr \in [Listeners -> [pc : Pcs, c : Conns, n : Names \cup {NoName},
                                keys : SUBSET Names]]
      /\ Changes(t)
  BY ChangesLemma DEF TypeOK, PeersOK, ThreadsOK
<1>1. CASE collect_setkey(t) /\ c = thr[t].c
  BY <1>0, <1>1 DEF collect_setkey
<1>2. CASE ~(collect_setkey(t) /\ c = thr[t].c)
  <2>1. Alone(c) /\ (name[c] = NodeOf[c] \/ BeingSet(c))
    BY <1>2, AloneSteps DEF NameKnown
  <2>2. CASE BeingSet(c)
    BY <1>2, <2>2, WindowSteps
  <2>3. CASE name[c] = NodeOf[c]
    <3>1. CASE collect_memset(t) /\ c = thr[t].c
      <4>1. NodeOf[c] # NoName
        BY <2>1, E2Constants DEF Alone, SetupInv, SetupOK
      <4>2. thr'[t].pc = "setkey" /\ thr'[t].c = c
        BY <1>0, <3>1, <4>1 DEF collect_memset, Goto, Listener
      <4> QED
        BY <4>2 DEF BeingSet, At
    <3>2. CASE ~(collect_memset(t) /\ c = thr[t].c)
      <4>1. name'[c] = name[c]
        BY <1>0, <1>2, <3>2 DEF Changes, collect_memset, collect_setkey
      <4> QED
        BY <2>3, <4>1
    <3> QED
      BY <3>1, <3>2
  <2> QED
    BY <2>1, <2>2, <2>3
<1> QED
  BY <1>1, <1>2

\* The name the end of an association is going to be reported under.
LEMMA LossNamedStep ==
    ASSUME TypeOK, SetupInv, NEW t \in Listeners, Step(t),
           \A c \in Conns : NameKnown(c), NEW s \in Listeners, LossNamed(s)
    PROVE  LossNamed(s)'
<1> SUFFICES ASSUME thr'[s].pc = "lost", NEW c \in Conns, c = thr'[s].c, Alone(c)'
             PROVE  thr'[s].n = NodeOf[c] \/ Busy(c)'
  <2>1. thr'[s].pc = "lost" => thr'[s].c \in Conns
    BY MovesLemma DEF Moves, TypeOK, ThreadsOK
  <2> QED
    BY <2>1 DEF LossNamed, At
<1>0. Moves(t) /\ HandlerOK(t) /\ NodeOf[c] \notin contended'
  BY MovesLemma DEF SetupInv, Alone
<1>1. CASE collect_setkey(t) /\ c = thr[t].c
  BY <1>0, <1>1, BusySteps
<1>2. CASE ~(collect_setkey(t) /\ c = thr[t].c) /\ s # t
  <2>1. thr'[s] = thr[s] /\ Alone(c)
    BY <1>0, <1>2, AloneSteps DEF Moves
  <2>2. thr[s].n = NodeOf[c] \/ Busy(c)
    BY <2>1 DEF LossNamed, At
  <2>3. Ending(c)
    BY <2>1 DEF Ending
  <2> QED
    BY <1>0, <2>1, <2>2, <2>3, BusySteps
<1>3. CASE ~(collect_setkey(t) /\ c = thr[t].c) /\ s = t
  <2>1. receiveDataFromSctp(t) /\ thr'[t].n = name[c] /\ Alone(c)
    BY <1>0, <1>3, AloneSteps DEF Moves
  <2>2. name[c] = NodeOf[c] \/ BeingSet(c)
    BY <2>1 DEF NameKnown
  <2> QED
    BY <1>3, <2>1, <2>2, WindowSteps DEF Busy
<1> QED
  BY <1>1, <1>2, <1>3

\* Once the end of an association was reported, its node stays down.
LEMMA DownStays ==
    ASSUME TypeOK, SetupInv, MarkInv, NEW t \in Listeners, Step(t), NEW c \in Conns,
           Alone(c), Ending(c), NodeOf[c] \notin contended', told[NodeOf[c]] = "down"
    PROVE  told'[NodeOf[c]] = "down"
<1>0. /\ thr[t].c \in Conns /\ NodeOf[c] \in Names /\ HandlerOK(t)
      /\ told \in [Names -> {"none", "up", "down"}] /\ Changes(t) /\ Moves(t)
  BY ChangesLemma, MovesLemma DEF TypeOK, ThreadsOK, HistoryOK, Alone, SetupInv, SetupOK
<1>1. CASE buildAndSendSetupRequest(t)
  <2>1. thr[t].n = NodeOf[thr[t].c] /\ peer[thr[t].c] = "alive" /\ WasSet(thr[t].c)
    BY <1>0, <1>1 DEF buildAndSendSetupRequest, Held, At, HandlerOK, Moves, Touching,
       WasSet, Reporting
  <2>2. thr[t].c # c
    BY <1>1, <2>1 DEF buildAndSendSetupRequest
  <2>3. thr[t].n # NodeOf[c]
    BY <1>0, <2>1, <2>2, NameIsOfAlone
  <2> QED
    BY <1>0, <1>1, <2>3 DEF buildAndSendSetupRequest, Tell
<1>2. CASE told' = told
  BY <1>2
<1>3. CASE connection_failure(t) \/ handlepoll_error(t)
  BY <1>0, <1>3 DEF connection_failure, handlepoll_error, Tell
<1>4. ASSUME NEW k \in Names, clear_peer(t, k) PROVE told'[NodeOf[c]] = "down"
  BY <1>0, <1>4 DEF clear_peer, Tell
<1> QED
  BY <1>0, <1>1, <1>2, <1>3, <1>4 DEF Changes

\* The end of an association is reported before its peer is freed.
LEMMA LossToldStep ==
    ASSUME TypeOK, SetupInv, MarkInv, NEW t \in Listeners, Step(t), faults = 0, faults' = 0,
           \A c \in Conns : NameKnown(c), \A s \in Listeners : LossNamed(s) /\ LossTold(s),
           NEW s \in Listeners
    PROVE  LossTold(s)'
<1> SUFFICES ASSUME thr'[s].pc \in {"close", "erase"}, NEW c \in Conns, c = thr'[s].c, Alone(c)'
             PROVE  told'[NodeOf[c]] = "down" \/ Busy(c)'
  <2>1. thr'[s].pc \in {"close", "erase"} => thr'[s].c \in Conns
    BY MovesLemma DEF Moves, TypeOK, ThreadsOK
  <2> QED
    BY <2>1 DEF LossTold
<1>0. /\ Moves(t) /\ HandlerOK(t) /\ NodeOf[c] \notin contended'
      /\ told \in [Names -> {"none", "up", "down"}]
  BY MovesLemma DEF SetupInv, Alone, TypeOK, HistoryOK
<1>1. CASE collect_setkey(t) /\ c = thr[t].c
  BY <1>0, <1>1, BusySteps
<1>2. CASE ~(collect_setkey(t) /\ c = thr[t].c)
  <2>0. Alone(c) /\ NodeOf[c] \in Names
    BY <1>2, AloneSteps DEF SetupInv, SetupOK, Alone
  <2>1. CASE thr[s].c = c /\ thr[s].pc \in {"close", "erase"}
    <3>1. Ending(c) /\ (told[NodeOf[c]] = "down" \/ Busy(c))
      BY <2>0, <2>1 DEF Ending, LossTold
    <3> QED
      BY <1>0, <2>0, <3>1, BusySteps, DownStays
  <2>2. CASE s = t /\ connection_failure(t)
    <3>1. thr[t].c = c /\ thr[t].pc = "lost" /\ Tell(thr[t].n, "down")
      BY <1>0, <2>2 DEF Moves, connection_failure, Held, At, Goto, Listener, TypeOK, ThreadsOK
    <3>2. thr[t].n = NodeOf[c] \/ Busy(c)
      BY <2>0, <3>1 DEF LossNamed, At
    <3>3. Ending(c)
      BY <3>1 DEF Ending
    <3>4. thr[t].n = NodeOf[c] => told'[NodeOf[c]] = "down"
      BY <1>0, <2>0, <3>1 DEF Tell, Fails
    <3> QED
      BY <1>0, <3>2, <3>3, <3>4, BusySteps
  <2>3. CASE s = t /\ handlepoll_error(t)
    <3>1. thr[t].c = c /\ thr[t].pc = "err" /\ Tell(name[c], "down")
      BY <1>0, <2>3 DEF Moves, handlepoll_error, Held, At, Goto, Listener, TypeOK, ThreadsOK
    <3>2. name[c] = NodeOf[c] \/ BeingSet(c)
      BY <2>0 DEF NameKnown
    <3>3. name[c] = NodeOf[c] => told'[NodeOf[c]] = "down"
      BY <1>0, <2>0, <3>1 DEF Tell, Fails
    <3> QED
      BY <1>2, <3>2, <3>3, WindowSteps DEF Busy
  <2>4. \/ thr[s].c = c /\ thr[s].pc \in {"close", "erase"}
        \/ s = t /\ (connection_failure(t) \/ handlepoll_error(t))
    <3>1. CASE s # t
      BY <1>0, <3>1 DEF Moves
    <3>2. CASE s = t /\ thr'[t].pc = "close"
      BY <1>0, <3>2 DEF Moves
    <3>3. CASE s = t /\ thr'[t].pc = "erase"
      BY <1>0, <3>3 DEF Moves, close_descriptor, Held, At
    <3> QED
      BY <3>1, <3>2, <3>3
  <2> QED
    BY <2>1, <2>2, <2>3, <2>4
<1> QED
  BY <1>1, <1>2

\* When the last peer of a node is freed, by whatever path, the node has been
\* reported down, or a listener is left with the freed peer.
LEMMA Departs ==
    ASSUME TypeOK, SetupInv, NEW t \in Listeners, Step(t), faults = 0, faults' = 0,
           \A c \in Conns : NameKnown(c), \A s \in Listeners : LossTold(s),
           NEW d \in Conns, Alone(d), peer'[d] # "alive"
    PROVE  told'[NodeOf[d]] = "down" \/ Stuck(d)'
<1>0. /\ peer[d] = "alive" /\ peer'[d] = "freed" /\ NodeOf[d] \in Names
      /\ told \in [Names -> {"none", "up", "down"}]
  BY PeerSteps DEF Alone, SetupInv, SetupOK, TypeOK, HistoryOK
<1>1. ASSUME Busy(d), ~buildAndSendSetupRequest(t), ~collect_setkey(t) PROVE Stuck(d)'
  <2>1. BeingSet(d)' \/ Reporting(d)'
    BY <1>1, WindowSteps DEF Busy
  <2>2. \E s \in Listeners : Holds(s, d)'
    BY <2>1 DEF BeingSet, Reporting, At, Holds, Touching
  <2> QED
    BY <1>0, <2>2 DEF Stuck
<1>2. CASE cleanHashEntry(t) /\ d = thr[t].c
  <2>1. thr[t].pc = "erase" /\ told' = told
    BY <1>2 DEF cleanHashEntry, Held, At, history
  <2>2. told[NodeOf[d]] = "down" \/ Busy(d)
    BY <1>2, <2>1 DEF LossTold
  <2>3. ~buildAndSendSetupRequest(t) /\ ~collect_setkey(t)
    BY <2>1 DEF buildAndSendSetupRequest, collect_setkey, Held, At
  <2> QED
    BY <1>1, <2>1, <2>2, <2>3
<1>3. ASSUME NEW k \in Names, clear_peer(t, k), d = map[k]
      PROVE  told'[NodeOf[d]] = "down" \/ Stuck(d)'
  <2>1. thr[t].pc = "clear" /\ Tell(name[d], "down")
    BY <1>3 DEF clear_peer, At
  <2>2. name[d] = NodeOf[d] \/ Busy(d)
    BY DEF NameKnown, Busy
  <2>3. ~buildAndSendSetupRequest(t) /\ ~collect_setkey(t)
    BY <2>1 DEF buildAndSendSetupRequest, collect_setkey, Held, At
  <2>4. name[d] = NodeOf[d] => told'[NodeOf[d]] = "down"
    BY <1>0, <2>1 DEF Tell, Fails
  <2> QED
    BY <1>1, <2>2, <2>3, <2>4
<1> QED
  BY <1>0, <1>2, <1>3, PeerSteps

\* A node stays down until it is registered again.
LEMMA GoneStep ==
    ASSUME TypeOK, SetupInv, NEW t \in Listeners, Step(t), faults = 0, faults' = 0,
           \A c \in Conns : NameKnown(c), \A s \in Listeners : LossTold(s),
           NEW c \in Conns, GoneTold(c)
    PROVE  GoneTold(c)'
<1> SUFFICES ASSUME c \in built', peer'[c] = "freed", NodeOf[c] \notin contended'
             PROVE  \/ told'[NodeOf[c]] = "down"
                    \/ \E d \in Conns : /\ NodeOf[d] = NodeOf[c]
                                        /\ (peer[d] = "alive" /\ WasSet(d))' \/ Stuck(d)'
  BY DEF GoneTold
<1>0. /\ Moves(t) /\ Changes(t) /\ thr[t].c \in Conns /\ HandlerOK(t)
      /\ told \in [Names -> {"none", "up", "down"}]
      /\ NodeOf[c] \notin contended
  BY MovesLemma, ChangesLemma DEF TypeOK, ThreadsOK, SetupInv, HistoryOK, Changes
<1>1. c \in built
  BY <1>0 DEF Changes, buildAndSendSetupRequest, Moves, Held, At, Touching
<1>2. WasSet(c) /\ peer[c] # "none" /\ NodeOf[c] \in Names
  BY <1>1 DEF WasSet, SetupInv, SetupOK
<1>3. ASSUME NEW d \in Conns, NodeOf[d] = NodeOf[c], peer[d] = "alive", WasSet(d)
      PROVE  \/ told'[NodeOf[c]] = "down"
             \/ (peer[d] = "alive" /\ WasSet(d))' \/ Stuck(d)'
  <2>1. CASE peer'[d] = "alive"
    BY <1>3, <2>1, WindowSteps
  <2>2. CASE peer'[d] # "alive"
    BY <1>0, <1>3, <2>2, Departs DEF Alone
  <2> QED
    BY <2>1, <2>2
<1>4. CASE peer[c] = "alive"
  BY <1>2, <1>3, <1>4
<1>5. CASE peer[c] = "freed" /\ told[NodeOf[c]] = "down"
  <2>1. CASE buildAndSendSetupRequest(t) /\ thr[t].n = NodeOf[c]
    <3>1. PICK d \in Conns : d = thr[t].c
      BY <1>0
    <3>2. NodeOf[d] = NodeOf[c] /\ peer[d] = "alive" /\ WasSet(d)
      BY <1>0, <2>1, <3>1 DEF buildAndSendSetupRequest, Held, At, HandlerOK, Moves,
         Touching, WasSet, Reporting
    <3> QED
      BY <1>3, <3>2
  <2>2. CASE ~(buildAndSendSetupRequest(t) /\ thr[t].n = NodeOf[c])
    <3>1. told'[NodeOf[c]] \in {told[NodeOf[c]], "down"}
      BY <1>0, <1>2, <2>2 DEF Changes, buildAndSendSetupRequest, connection_failure,
         handlepoll_error, clear_peer, Tell
    <3> QED
      BY <1>5, <3>1
  <2> QED
    BY <2>1, <2>2
<1>6. CASE peer[c] = "freed" /\ told[NodeOf[c]] # "down"
  <2>1. PICK d \in Conns : /\ NodeOf[d] = NodeOf[c]
                           /\ (peer[d] = "alive" /\ WasSet(d)) \/ Stuck(d)
    BY <1>0, <1>1, <1>6 DEF GoneTold
  <2> QED
    BY <1>3, <2>1, WindowSteps
<1>7. peer[c] \in {"none", "alive", "freed"}
  BY DEF TypeOK, PeersOK
<1> QED
  BY <1>2, <1>4, <1>5, <1>6, <1>7

-----------------------------------------------------------------------------
\* The theorems.

NodesInv == broken \/ (SetupInv /\ MarkInv /\ UpInv /\ DownInv)

\* A step that leaves the peers, the listeners and the histories alone.
LEMMA NodesKeep ==
    ASSUME UNCHANGED <<peers, thr, history, faults, broken>>, NodesInv
    PROVE  NodesInv'
<1> USE DEF peers, history
<1>1. SetupInv => SetupInv'
  BY DEF SetupInv, SetupOK, HandlerOK, WasSet, Reporting, At
<1>2. /\ \A c \in Conns : (Alone(c)' <=> Alone(c)) /\ (WasSet(c)' <=> WasSet(c))
      /\ \A c \in Conns : (Busy(c)' <=> Busy(c)) /\ (BeingSet(c)' <=> BeingSet(c))
      /\ \A c \in Conns : (Ending(c)' <=> Ending(c)) /\ (Stuck(c)' <=> Stuck(c))
  BY DEF Alone, WasSet, Busy, BeingSet, Reporting, Ending, Stuck, Holds, At
<1>3. (MarkInv => MarkInv') /\ (UpInv => UpInv')
  BY <1>2 DEF MarkInv, UpInv
<1>4. DownInv => DownInv'
  BY DEF DownInv, NameKnown, GoneTold, LossNamed, LossTold, Alone, WasSet, Busy, BeingSet,
     Reporting, Stuck, Holds, At
<1> QED
  BY <1>1, <1>3, <1>4 DEF NodesInv

\* The invariant behind both theorems.
LEMMA NodesInvariant == Spec => []NodesInv
<1>1. Init => NodesInv
  <2> SUFFICES ASSUME Init PROVE SetupInv /\ MarkInv /\ UpInv /\ DownInv
    BY DEF NodesInv
  <2>1. \A c \in Conns : peer[c] = "none" /\ name[c] = NoName /\ c \notin built
    BY DEF Init
  <2>2. \A t \in Listeners : thr[t].pc = "wait"
    BY DEF Init, Waiting, Listener
  <2>3. \A c \in Conns : ~WasSet(c)
    BY <2>1, <2>2 DEF WasSet, Reporting, At
  <2>4. SetupInv
    BY <2>1, <2>2, <2>3 DEF SetupInv, SetupOK, HandlerOK, At
  <2>5. MarkInv /\ UpInv
    BY <2>3 DEF MarkInv, UpInv, Alone
  <2>6. DownInv
    BY <2>1, <2>2, <2>3 DEF DownInv, NameKnown, GoneTold, LossNamed, LossTold, Alone, At
  <2> QED
    BY <2>4, <2>5, <2>6
<1>2. TypeOK /\ NodesInv /\ [Next]_vars => NodesInv'
  <2> SUFFICES ASSUME TypeOK, NodesInv, [Next]_vars PROVE NodesInv'
    OBVIOUS
  <2>1. CASE Environment
    <3>1. UNCHANGED <<peers, thr, history, faults, broken>>
      BY <2>1 DEF Environment, connect, node_sends, node_ends, platform_sends, bounds
    <3> QED
      BY <3>1, NodesKeep
  <2>2. ASSUME NEW t \in Listeners, ListenerStep(t), ~broken, ~broken' PROVE NodesInv'
    <3>1. Step(t) /\ SetupInv /\ MarkInv /\ UpInv /\ DownInv
      BY <2>2 DEF Step, NodesInv
    <3>2. SetupInv' /\ MarkInv' /\ UpInv'
      BY <3>1, SetupStep, MarkStep, UpStep
    <3>3. faults \in Nat /\ faults' \in {faults, faults + 1}
      BY <3>1, ChangesLemma, E2Constants DEF Changes, TypeOK, HistoryOK
    <3>4. CASE faults' > 0
      BY <3>2, <3>4 DEF NodesInv, DownInv
    <3>5. CASE faults = 0 /\ faults' = 0
      <4>1. /\ \A c \in Conns : NameKnown(c) /\ GoneTold(c)
            /\ \A s \in Listeners : LossNamed(s) /\ LossTold(s)
        BY <3>1, <3>5 DEF DownInv
      <4>2. \A c \in Conns : NameKnown(c)'
        BY <3>1, <4>1, NameStep
      <4>3. \A c \in Conns : GoneTold(c)'
        BY <3>1, <3>5, <4>1, GoneStep
      <4>4. \A s \in Listeners : LossNamed(s)'
        BY <3>1, <4>1, LossNamedStep
      <4>5. \A s \in Listeners : LossTold(s)'
        BY <3>1, <3>5, <4>1, LossToldStep
      <4> QED
        BY <3>2, <4>2, <4>3, <4>4, <4>5 DEF NodesInv, DownInv
    <3> QED
      BY <3>3, <3>4, <3>5
  <2>3. CASE UNCHANGED vars
    BY <2>3, NodesKeep DEF vars, bounds
  <2>4. CASE broken'
    BY <2>4 DEF NodesInv
  <2> QED
    BY <2>1, <2>2, <2>3, <2>4 DEF Next
<1> QED
  BY <1>1, <1>2, TypeCorrect, PTL DEF Spec

\* For any numbers of nodes, associations and listeners: a node with one association
\* stays registered under its name, and known to be up, until its own connection
\* ends, whatever the other nodes do.
THEOREM UpNodesStayRegistered == Spec => []UpNodesRegistered
<1>1. TypeOK /\ NodesInv => UpNodesRegistered
  <2> SUFFICES ASSUME TypeOK, NodesInv, ~broken, ~cleared, NEW c \in built,
                      peer[c] = "alive", ~Ending(c), NodeOf[c] \notin contended
               PROVE  map[NodeOf[c]] = c /\ (told[NodeOf[c]] = "up" \/ faults > 0)
    BY DEF UpNodesRegistered
  <2>1. c \in Conns /\ Alone(c)
    BY DEF TypeOK, PeersOK, Alone, WasSet
  <2> QED
    BY <2>1 DEF NodesInv, UpInv
<1> QED
  BY <1>1, NodesInvariant, TypeCorrect, PTL

\* No path through connection_failure, handlepoll_error, cleanHashEntry and
\* RIC_SCTP_CLEAR_ALL frees the peer of a node without a word to the E2 manager, not
\* even while a repeated setup request has zeroed the name the word is sent under.
THEOREM FreedPeersAreReported == Spec => []FreedPeersReportedDown
<1>1. TypeOK /\ NodesInv => FreedPeersReportedDown
  <2> SUFFICES ASSUME TypeOK, NodesInv, ~broken, faults = 0, NEW c \in built,
                      peer[c] = "freed", NodeOf[c] \notin contended,
                      \A d \in Conns : NodeOf[d] = NodeOf[c] =>
                        peer[d] # "alive" /\ \A t \in Listeners : ~Holds(t, d)
               PROVE  told[NodeOf[c]] = "down"
    BY DEF FreedPeersReportedDown
  <2>1. c \in Conns
    BY DEF TypeOK, PeersOK
  <2>2. GoneTold(c)
    BY <2>1 DEF NodesInv, DownInv
  <2> QED
    BY <2>2 DEF GoneTold, Stuck
<1> QED
  BY <1>1, NodesInvariant, TypeCorrect, PTL
=============================================================================
