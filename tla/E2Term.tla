------------------------------- MODULE E2Term -------------------------------
(***************************************************************************)
(* The E2 termination (ric-plt-e2/RIC-E2-TERMINATION/sctpThread.cpp): the  *)
(* listener threads that share one epoll descriptor, the peer structures   *)
(* they allocate and free, and the map from RAN names to peers.            *)
(*                                                                         *)
(* A connection is one SCTP association; NodeOf gives the RAN name its E2  *)
(* node puts in a setup request, NoName when the identity in it cannot be  *)
(* turned into a name.  A node sends its setup request first, with the     *)
(* identity E2AP makes mandatory in it and the same one if it repeats the  *)
(* request; requests without one, or with another, are left out.           *)
(* The listening socket and the associations are edge-triggered, the RMR   *)
(* descriptor is level-triggered.  Each operation of the map is one step,  *)
(* as it runs under the lock of mapWrapper.  A listener takes the events   *)
(* of a batch of epoll_wait one by one; one that is out of date by then    *)
(* finds nothing to read, or a freed peer.                                 *)
(*                                                                         *)
(* A thread that touches a freed peer, or a counter not yet built, may do  *)
(* anything: "broken" is set and the model stops there.                    *)
(***************************************************************************)
EXTENDS Integers, Sequences, FiniteSets

CONSTANTS
    Conns,      \* SCTP associations, each used once
    Names,      \* RAN names
    NodeOf,     \* the name behind each association, or NoName
    Listeners,  \* the listener threads
    MaxPdus,    \* bound: PDUs the E2 nodes send
    MaxRmr,     \* bound: RMR messages sent to the termination
    MaxFaults,  \* bound: failing system and RMR calls
    NULL, NoName

ASSUME E2Constants ==
    /\ Conns # {}
    /\ NodeOf \in [Conns -> Names \cup {NoName}]
    /\ MaxPdus \in Nat /\ MaxRmr \in Nat /\ MaxFaults \in Nat
    /\ NULL \notin Conns /\ NoName \notin Names
    /\ "listen" \notin Conns

VARIABLES
    far,      \* the E2 node's side of each association
    backlog,  \* associations not accepted yet, oldest first
    rx,       \* PDUs received by the kernel and not read
    began,    \* nodes that have sent their setup request
    npdu,     \* PDUs sent so far
    ready,    \* edge-triggered descriptors with an event not yet taken
    rmrq,     \* RMR messages waiting to be received
    peer,     \* the ConnectedCU structure of each association
    open,     \* associations whose descriptor is open
    name,     \* enodbName of each peer
    built,    \* peers whose Prometheus counters are built
    map,      \* sctpMap: the peer registered under each name, or NULL
    thr,      \* the listener threads
    told,     \* what the E2 manager was last told of each name
    contended, \* names two peers, or two listeners, have been at work on
    cleared,  \* has RIC_SCTP_CLEAR_ALL been received?
    nrmr, faults, broken

env == <<far, began, npdu>>
kernel == <<backlog, rx, ready, rmrq>>
peers == <<peer, open, name, built, map>>
history == <<told, contended, cleared>>
bounds == <<nrmr, faults, broken>>
vars == <<env, kernel, peers, thr, history, bounds>>

AnyConn == CHOOSE c \in Conns : TRUE
Pdus == {"setup", "data", "junk"}
RmrMessages == [type : {"request"}, to : Names] \cup
               [type : {"clear", "other"}, to : {NoName}]
Pcs == {"wait", "err", "read", "memset", "setkey", "report", "lost",
        "close", "erase", "rcv", "send", "keys", "clear"}

\* A listener at pc, with the peer, message.enodbName and CLEAR_ALL keys it holds.
Listener(pc, c, n, keys) == [pc |-> pc, c |-> c, n |-> n, keys |-> keys]
Waiting == Listener("wait", AnyConn, NoName, {})

Init ==
    /\ far = [c \in Conns |-> "off"]
    /\ backlog = << >> /\ rmrq = << >>
    /\ rx = [c \in Conns |-> << >>]
    /\ began = {} /\ npdu = 0
    /\ ready = {}
    /\ peer = [c \in Conns |-> "none"]
    /\ open = {} /\ built = {}
    /\ name = [c \in Conns |-> NoName]
    /\ map = [n \in Names |-> NULL]
    /\ thr = [t \in Listeners |-> Waiting]
    /\ told = [n \in Names |-> "none"]
    /\ contended = {} /\ cleared = FALSE
    /\ nrmr = 0 /\ faults = 0 /\ broken = FALSE

-----------------------------------------------------------------------------
\* The E2 nodes, the kernel and the rest of the platform (external)

\* Something happened on c: an edge if its descriptor is in the epoll set.
Wake(c) == ready' = IF c \in open THEN ready \cup {c} ELSE ready

connect(c) ==
    /\ far[c] = "off"
    /\ far' = [far EXCEPT ![c] = "up"]
    /\ backlog' = Append(backlog, c)
    /\ ready' = ready \cup {"listen"}
    /\ UNCHANGED <<began, npdu, rx, rmrq, peers, thr, history, bounds>>

\* The first PDU of an association is its setup request.
node_sends(c, p) ==
    /\ far[c] = "up" /\ npdu < MaxPdus
    /\ c \notin began => p = "setup"
    /\ began' = began \cup {c} /\ npdu' = npdu + 1
    /\ rx' = [rx EXCEPT ![c] = Append(@, p)]
    /\ Wake(c)
    /\ UNCHANGED <<far, backlog, rmrq, peers, thr, history, bounds>>

\* The node closes the association, or it breaks (an error event).
node_ends(c, how) ==
    /\ far[c] = "up"
    /\ far' = [far EXCEPT ![c] = how]
    /\ Wake(c)
    /\ UNCHANGED <<began, npdu, backlog, rx, rmrq, peers, thr, history, bounds>>

platform_sends(m) ==
    /\ nrmr < MaxRmr
    /\ nrmr' = nrmr + 1
    /\ rmrq' = Append(rmrq, m)
    /\ UNCHANGED <<env, backlog, rx, ready, peers, thr, history, faults, broken>>

\* A call that may fail, and a send to RMR: the message arrives, or is lost.
Fails == faults < MaxFaults /\ faults' = faults + 1
Tell(n, what) ==
    \/ /\ told' = [m \in Names |-> IF m = n THEN what ELSE told[m]]
       /\ UNCHANGED faults
    \/ Fails /\ UNCHANGED told

-----------------------------------------------------------------------------
\* listener: taking an event, accepting a connection

At(t, pc) == thr[t].pc = pc
Goto(t, pc, c, n) == thr' = [thr EXCEPT ![t] = Listener(pc, c, n, {})]
Wait(t) == thr' = [thr EXCEPT ![t] = Waiting]

\* Where a listener's next step reads or writes the peer it holds.
Touching == {"err", "read", "memset", "setkey", "report", "lost", "close",
             "erase", "send"}

\* The peer a listener holds has been freed: its next step is undefined.
UseAfterFree(t) ==
    /\ thr[t].pc \in Touching
    /\ peer[thr[t].c] = "freed"
    /\ broken' = TRUE
    /\ UNCHANGED <<env, kernel, peers, thr, history, nrmr, faults>>

\* epoll_wait returns an event of an association.
epoll_edge(t, c) ==
    /\ At(t, "wait") /\ c \in ready
    /\ ready' = ready \ {c}
    /\ Goto(t, IF far[c] = "reset" THEN "err" ELSE "read", c, NoName)
    /\ UNCHANGED <<env, backlog, rx, rmrq, peers, history, bounds>>

\* The RMR descriptor is level-triggered: every waiting listener may see it.
epoll_rmr(t) ==
    /\ At(t, "wait") /\ rmrq # << >>
    /\ Goto(t, "rcv", AnyConn, NoName)
    /\ UNCHANGED <<env, kernel, peers, history, bounds>>

\* One connection is accepted per event of the listening socket; accept or a
\* later call may fail.  (Listeners that take an event each before they accept
\* do the same as one after the other, so the two are one step.)
accept(t) ==
    LET c == Head(backlog) IN
    /\ At(t, "wait") /\ "listen" \in ready /\ backlog # << >>
    /\ \/ /\ backlog' = Tail(backlog)
          /\ peer' = [peer EXCEPT ![c] = "alive"]
          /\ open' = open \cup {c}
          /\ ready' = (ready \ {"listen"}) \cup
                (IF rx[c] # << >> \/ far[c] # "up" THEN {c} ELSE {})
          /\ UNCHANGED faults
       \/ /\ Fails
          /\ backlog' = Tail(backlog)
          /\ peer' = [peer EXCEPT ![c] = "freed"]
          /\ ready' = ready \ {"listen"}
          /\ UNCHANGED open
       \/ /\ Fails
          /\ ready' = ready \ {"listen"}
          /\ UNCHANGED <<backlog, peer, open>>
    /\ UNCHANGED <<thr, env, rx, rmrq, name, built, map, history, nrmr, broken>>

-----------------------------------------------------------------------------
\* receiveDataFromSctp, asnInitiatingRequest, collectSetupRequestData

\* Is some listener closing the association of c?
Ending(c) == \E t \in Listeners :
    thr[t].c = c /\ thr[t].pc \in {"lost", "close", "erase"}

\* A listener's step on a peer that is still allocated.
Held(t, pc) == At(t, pc) /\ peer[thr[t].c] # "freed"

\* A PDU of another procedure, or the outcome of one, is counted and forwarded,
\* and so is a request to the node; the counters are there once the setup request
\* was reported, but the name is in the map before.
CountAndForward(c) == broken' = (c \notin built)

\* One turn of the read loop.  A setup request is handled next; a PDU of
\* another procedure is forwarded, after counting it; a PDU that does not
\* decode ends the loop.
receiveDataFromSctp(t) ==
    LET c == thr[t].c
        lost == c \notin open \/ (rx[c] = << >> /\ far[c] # "up") IN
    /\ Held(t, "read")
    /\ \/ /\ lost
          /\ Goto(t, "lost", c, name[c])
          /\ UNCHANGED <<rx, broken>>
       \/ /\ ~lost /\ rx[c] = << >>
          /\ Wait(t)
          /\ UNCHANGED <<rx, broken>>
       \/ /\ ~lost /\ rx[c] # << >>
          /\ rx' = [rx EXCEPT ![c] = Tail(@)]
          /\ \/ /\ Head(rx[c]) = "setup"
                /\ Goto(t, "memset", c, name[c])
                /\ UNCHANGED broken
             \/ /\ Head(rx[c]) = "data"
                /\ Goto(t, "read", c, name[c])
                /\ CountAndForward(c)
             \/ /\ Head(rx[c]) = "junk"
                /\ Wait(t)
                /\ UNCHANGED broken
    /\ UNCHANGED <<env, backlog, ready, rmrq, peers, history, nrmr, faults>>

collect_memset(t) ==
    LET c == thr[t].c IN
    /\ Held(t, "memset")
    /\ name' = [name EXCEPT ![c] = NoName]
    /\ Goto(t, IF NodeOf[c] = NoName THEN "read" ELSE "setkey", c, thr[t].n)
    /\ UNCHANGED <<env, kernel, peer, open, built, map, history, bounds>>

\* Mutant: setkey is called before the name is built, with the zeroed name.
collect_setkey_early(t) ==
    LET c == thr[t].c IN
    /\ Held(t, "setkey")
    /\ name' = [name EXCEPT ![c] = NodeOf[c]]
    /\ Goto(t, "report", c, NodeOf[c])
    /\ UNCHANGED <<env, kernel, peer, open, built, map, history, bounds>>

collect_setkey(t) ==
    LET c == thr[t].c
        n == NodeOf[c] IN
    /\ Held(t, "setkey")
    /\ name' = [name EXCEPT ![c] = n]
    /\ map' = [map EXCEPT ![n] = c]
    /\ contended' = IF \E d \in Conns \ {c} : peer[d] = "alive" /\ NodeOf[d] = n
                    THEN contended \cup {n} ELSE contended
    /\ Goto(t, "report", c, n)
    /\ UNCHANGED <<env, kernel, peer, open, built, told, cleared, bounds>>

\* The counters are built and the request is sent to the E2 manager.
buildAndSendSetupRequest(t) ==
    LET c == thr[t].c IN
    /\ Held(t, "report")
    /\ built' = built \cup {c}
    /\ Tell(thr[t].n, "up")
    /\ contended' = IF Ending(c) THEN contended \cup {thr[t].n} ELSE contended
    /\ Goto(t, "read", c, thr[t].n)
    /\ UNCHANGED <<env, kernel, peer, open, name, map, cleared, nrmr, broken>>

\* The connection is gone: RIC_SCTP_CONNECTION_FAILURE, close, cleanHashEntry.
connection_failure(t) ==
    LET c == thr[t].c IN
    /\ Held(t, "lost")
    /\ Tell(thr[t].n, "down")
    /\ Goto(t, "close", c, thr[t].n)
    /\ UNCHANGED <<env, kernel, peers, contended, cleared, nrmr, broken>>

handlepoll_error(t) ==
    LET c == thr[t].c IN
    /\ Held(t, "err")
    /\ Tell(name[c], "down")
    /\ Goto(t, "close", c, name[c])
    /\ UNCHANGED <<env, kernel, peers, contended, cleared, nrmr, broken>>

close_descriptor(t) ==
    LET c == thr[t].c IN
    /\ Held(t, "close")
    /\ open' = open \ {c}
    /\ ready' = ready \ {c}
    /\ Goto(t, "erase", c, thr[t].n)
    /\ UNCHANGED <<env, backlog, rx, rmrq, peer, name, built, map, history, bounds>>

\* Mutant: the name stays in the map.
cleanHashEntry_kept(t) ==
    LET c == thr[t].c IN
    /\ Held(t, "erase")
    /\ peer' = [peer EXCEPT ![c] = "freed"]
    /\ Wait(t)
    /\ UNCHANGED <<env, kernel, open, name, built, map, history, bounds>>

\* The key is erased whatever peer is registered under it.
cleanHashEntry(t) ==
    LET c == thr[t].c IN
    /\ Held(t, "erase")
    /\ map' = [n \in Names |-> IF n = name[c] THEN NULL ELSE map[n]]
    /\ peer' = [peer EXCEPT ![c] = "freed"]
    /\ Wait(t)
    /\ UNCHANGED <<env, kernel, open, name, built, history, bounds>>

-----------------------------------------------------------------------------
\* receiveXappMessages

\* rmr_rcv_msg blocks while there is no message.  A request for a name that is
\* not registered, or that PER_FromXML cannot convert, is dropped; keep-alives
\* and health checks are answered at once, and an unknown type is logged.
receiveXappMessages(t) ==
    LET m == Head(rmrq) IN
    /\ At(t, "rcv") /\ rmrq # << >>
    /\ rmrq' = Tail(rmrq)
    /\ \/ /\ m.type = "request" /\ map[m.to] # NULL
          /\ Goto(t, "send", map[m.to], m.to)
          /\ UNCHANGED cleared
       \/ /\ m.type = "clear"
          /\ Goto(t, "keys", AnyConn, NoName)
          /\ cleared' = TRUE
       \/ /\ m.type # "clear"
          /\ Wait(t)
          /\ UNCHANGED cleared
    /\ UNCHANGED <<env, backlog, rx, ready, peers, told, contended, bounds>>

\* Mutant: a failed send ends the connection, as it would if isConnected were set.
sendSctpMsg_cleans(t) ==
    LET c == thr[t].c IN
    /\ Held(t, "send")
    /\ map' = [n \in Names |-> IF n = name[c] /\ far[c] # "up" THEN NULL ELSE map[n]]
    /\ peer' = IF far[c] = "up" THEN peer ELSE [peer EXCEPT ![c] = "freed"]
    /\ open' = IF far[c] = "up" THEN open ELSE open \ {c}
    /\ ready' = IF far[c] = "up" THEN ready ELSE ready \ {c}
    /\ CountAndForward(c)
    /\ Wait(t)
    /\ UNCHANGED <<env, backlog, rx, rmrq, name, built, history, nrmr, faults>>

\* The request is counted and sent.  A send that fails is only logged:
\* isConnected is never set on these peers.
sendSctpMsg(t) ==
    /\ Held(t, "send")
    /\ CountAndForward(thr[t].c)
    /\ Wait(t)
    /\ UNCHANGED <<env, kernel, peers, history, nrmr, faults>>

getKeys(t) ==
    /\ At(t, "keys")
    /\ thr' = [thr EXCEPT ![t] =
          Listener("clear", AnyConn, NoName, {n \in Names : map[n] # NULL})]
    /\ UNCHANGED <<env, kernel, peers, history, bounds>>

\* Mutant: the descriptor is left open.
clear_peer_open(t, n) ==
    LET c == map[n] IN
    /\ At(t, "clear") /\ n \in thr[t].keys
    /\ c # NULL /\ peer[c] # "freed"
    /\ peer' = [peer EXCEPT ![c] = "freed"]
    /\ Tell(name[c], "down")
    /\ thr' = [thr EXCEPT ![t] =
          Listener("clear", AnyConn, NoName, thr[t].keys \ {n})]
    /\ UNCHANGED <<env, kernel, open, name, built, map, contended, cleared, nrmr, broken>>

\* The peer's descriptor is closed, the E2 manager told, the peer freed; the
\* key stays in the map until the end.
clear_peer(t, n) ==
    LET c == map[n] IN
    /\ At(t, "clear") /\ n \in thr[t].keys
    /\ c # NULL /\ peer[c] # "freed"
    /\ peer' = [peer EXCEPT ![c] = "freed"]
    /\ open' = open \ {c} /\ ready' = ready \ {c}
    /\ Tell(name[c], "down")
    /\ thr' = [thr EXCEPT ![t] =
          Listener("clear", AnyConn, NoName, thr[t].keys \ {n})]
    /\ UNCHANGED <<env, backlog, rx, rmrq, name, built, map, contended,
                   cleared, nrmr, broken>>

\* The key was erased meanwhile: v[i] points into a destroyed map node, which
\* still reads as the name, or as anything; or its peer was freed.
clear_stale_key(t, n) ==
    /\ At(t, "clear") /\ n \in thr[t].keys
    /\ \/ /\ map[n] = NULL
          /\ thr' = [thr EXCEPT ![t] =
                Listener("clear", AnyConn, NoName, thr[t].keys \ {n})]
          /\ UNCHANGED broken
       \/ /\ map[n] # NULL => peer[map[n]] = "freed"
          /\ broken' = TRUE
          /\ UNCHANGED thr
    /\ UNCHANGED <<env, kernel, peers, history, nrmr, faults>>

\* After a second's sleep the whole map is emptied.
clear_map(t) ==
    /\ At(t, "clear") /\ thr[t].keys = {}
    /\ map' = [n \in Names |-> NULL]
    /\ Wait(t)
    /\ UNCHANGED <<env, kernel, peer, open, name, built, history, bounds>>

-----------------------------------------------------------------------------
Environment ==
    \/ \E c \in Conns : connect(c)
    \/ \E c \in Conns, p \in Pdus : node_sends(c, p)
    \/ \E c \in Conns, how \in {"closed", "reset"} : node_ends(c, how)
    \/ \E m \in RmrMessages : platform_sends(m)

ListenerStep(t) ==
    \/ UseAfterFree(t)
    \/ \E c \in Conns : epoll_edge(t, c)
    \/ epoll_rmr(t)
    \/ accept(t)
    \/ receiveDataFromSctp(t)
    \/ collect_memset(t) \/ collect_setkey(t) \/ buildAndSendSetupRequest(t)
    \/ connection_failure(t) \/ handlepoll_error(t)
    \/ close_descriptor(t) \/ cleanHashEntry(t)
    \/ receiveXappMessages(t) \/ sendSctpMsg(t)
    \/ getKeys(t) \/ clear_map(t)
    \/ \E n \in Names : clear_peer(t, n) \/ clear_stale_key(t, n)

Next ==
    /\ ~broken
    /\ \/ Environment
       \/ \E t \in Listeners : ListenerStep(t)

Spec == Init /\ [][Next]_vars
-----------------------------------------------------------------------------
\* Properties

Holds(t, c) == thr[t].c = c /\ thr[t].pc \in Touching
Clearing == \E t \in Listeners : At(t, "clear")

KernelOK ==
    /\ far \in [Conns -> {"off", "up", "closed", "reset"}]
    /\ backlog \in Seq(Conns)
    /\ rx \in [Conns -> Seq(Pdus)]
    /\ began \subseteq Conns /\ npdu \in 0 .. MaxPdus
    /\ ready \subseteq Conns \cup {"listen"}
    /\ rmrq \in Seq(RmrMessages)
PeersOK ==
    /\ peer \in [Conns -> {"none", "alive", "freed"}]
    /\ open \subseteq Conns
    /\ name \in [Conns -> Names \cup {NoName}]
    /\ built \subseteq Conns
    /\ map \in [Names -> Conns \cup {NULL}]
ThreadsOK ==
    thr \in [Listeners -> [pc : Pcs, c : Conns, n : Names \cup {NoName},
                          keys : SUBSET Names]]
HistoryOK ==
    /\ told \in [Names -> {"none", "up", "down"}]
    /\ contended \subseteq Names \cup {NoName} /\ cleared \in BOOLEAN
    /\ nrmr \in 0 .. MaxRmr /\ faults \in 0 .. MaxFaults /\ broken \in BOOLEAN

\* Whose descriptors the kernel knows: a connection has no peer before it is
\* accepted, then an allocated one while its descriptor is open, and epoll only
\* reports open descriptors.
DescriptorsOK ==
    /\ \A c \in open : peer[c] = "alive"
    /\ ready \subseteq open \cup {"listen"}
    /\ \A c \in Conns : far[c] = "off" => peer[c] = "none"
    /\ \A i \in 1 .. Len(backlog) :
          peer[backlog[i]] = "none" /\ far[backlog[i]] # "off"
    /\ \A i, j \in 1 .. Len(backlog) : backlog[i] = backlog[j] => i = j

\* A listener and the map only hold peers that have been allocated, and a
\* listener has closed the descriptor when it comes to cleanHashEntry.
HoldersOK ==
    /\ \A n \in Names : map[n] # NULL => peer[map[n]] # "none"
    /\ \A t \in Listeners :
          /\ thr[t].pc \in Touching => peer[thr[t].c] # "none"
          /\ thr[t].pc = "erase" => thr[t].c \notin open

\* The types of the variables, and what descriptors have to do with peers: no
\* path of sctpThread.cpp frees a peer without closing its descriptor.
TypeOK == KernelOK /\ PeersOK /\ ThreadsOK /\ HistoryOK /\ DescriptorsOK /\ HoldersOK

\* A name in sctpMap leads to the peer of the node with that name, and the
\* peer is allocated, except while RIC_SCTP_CLEAR_ALL is at work or another
\* listener is half way through a repeated setup request of that peer.
RegistrySound ==
    broken \/ \A n \in Names : map[n] # NULL =>
        /\ NodeOf[map[n]] = n
        /\ \/ peer[map[n]] = "alive"
           \/ Clearing
           \/ \E t \in Listeners : At(t, "setkey") /\ thr[t].c = map[n]

\* A node that was set up stays registered, and known to be up, until its own
\* connection ends - as long as the node has no second association (whose end
\* erases the first one's key) and no RIC_SCTP_CLEAR_ALL has come in.
UpNodesRegistered ==
    (~broken /\ ~cleared) => \A c \in built :
        (peer[c] = "alive" /\ ~Ending(c) /\ NodeOf[c] \notin contended) =>
            /\ map[NodeOf[c]] = c
            /\ told[NodeOf[c]] = "up" \/ faults > 0

\* When the peer of a node that was set up is freed, by whatever path, the E2
\* manager has been told that the node is down, unless the node is back or two
\* listeners sent the setup and the failure of one association side by side.
FreedPeersReportedDown ==
    (~broken /\ faults = 0) => \A c \in built :
        (/\ peer[c] = "freed"
         /\ NodeOf[c] \notin contended
         /\ \A d \in Conns : NodeOf[d] = NodeOf[c] =>
                peer[d] # "alive" /\ \A t \in Listeners : ~Holds(t, d)) =>
            told[NodeOf[c]] = "down"

\* Nothing is going on: every event was taken and every listener is back in
\* epoll_wait.
AtRest == ~broken /\ ready = {} /\ \A t \in Listeners : At(t, "wait")

\* "We must read whatever data is available completely" (receiveDataFromSctp):
\* no PDU is left unread on an open association.
AllDataRead == AtRest => \A c \in open : rx[c] = << >>

\* "We have processed all incoming connections" (listener): no association is
\* left waiting to be accepted.
AllAccepted == AtRest => backlog = << >>
=============================================================================
