---------------------------- MODULE SyncManager ----------------------------
(***************************************************************************)
(* Block synchronisation between nodes: sync_manager, the parts of         *)
(* connection and dispatch_manager it drives, and the network between      *)
(* them (plugins/net_plugin/net_plugin.cpp).                               *)
(*                                                                         *)
(* Every node runs the same handlers.  A handler is a function from the    *)
(* state of the node to its next state: node[n] is a record with the       *)
(* fields of sync_manager and, for every other node p, the connection      *)
(* object conn[p].  The io_service runs one handler at a time, so an       *)
(* action is a handler: a message read from the socket, the completion of  *)
(* a write, a timer, an accepted or lost connection, a block produced.     *)
(*                                                                         *)
(* The chain is linear: a block is its number, and the last irreversible   *)
(* block of a chain with head h is LibOf(h).                               *)
(***************************************************************************)
EXTENDS Integers, Sequences, FiniteSets

CONSTANTS
    Order,         \* the nodes, in the order std::set<connection_ptr> lists them
    Networks,      \* the networks a behaviour may start with, see IsNetwork
    Producers,     \* the nodes that produce blocks
    MaxHead,       \* bound: block numbers
    LibLag,        \* distance from the head to the last irreversible block
    sync_req_span, \* sync-fetch-span
    None           \* the null connection_ptr

VARIABLES
    net,    \* the network, which never changes
    node,   \* node[n]: the state of node n
    wire,   \* wire[n][p]: what n has sent to p and p has not read
    drops,  \* connections broken so far
    early   \* early timeouts so far

vars == <<net, node, wire, drops, early>>

Nodes == {Order[i] : i \in DOMAIN Order}
Peers(n) == {p \in Nodes : <<n, p>> \in net.dials \/ <<p, n>> \in net.dials}
Position(p) == CHOOSE i \in DOMAIN Order : Order[i] = p
LibOf(h) == IF h > LibLag THEN h - LibLag ELSE 1
Least(a, b) == IF a < b THEN a ELSE b

(* dials: pairs <<n, p>> where p is a p2p-peer-address of n; head: the     *)
(* head block of each node at start; last: the last block produced; drops  *)
(* and early bound the connections the network breaks and the timeouts     *)
(* that expire with an answer in flight.                                   *)
IsNetwork(w) ==
    /\ w.dials \subseteq {d \in Nodes \X Nodes : d[1] # d[2]}
    /\ \A d \in w.dials : <<d[2], d[1]>> \notin w.dials
    /\ w.head \in [Nodes -> 1 .. MaxHead]
    /\ w.last \in 1 .. MaxHead /\ {w.drops, w.early} \subseteq Nat

ASSUME SyncAssumption ==
    /\ \A w \in Networks : IsNetwork(w)
    /\ Producers \subseteq Nodes
    /\ sync_req_span \in Nat \ {0}
    /\ None \notin Nodes

-----------------------------------------------------------------------------
(* Messages.  known_trx and req_trx are left out: they move no block.      *)

Handshake(gen, s) == [type |-> "handshake", gen |-> gen, head |-> s.head, lib |-> LibOf(s.head)]
LibNotice(s)      == [type |-> "lib_notice", lib |-> LibOf(s.head)]
HeadNotice(s)     == [type |-> "head_notice", head |-> s.head]
Request(mode)     == [type |-> "request", mode |-> mode]
SyncRequest(a, b) == [type |-> "sync_request", start |-> a, end |-> b]
Block(num)        == [type |-> "block", num |-> num]
Eof               == [type |-> "eof"]

NoRange == [start |-> 0, end |-> 0, last |-> 0]

(* A connection object: sock is "absent" when the object is not in         *)
(* connections; forkHead and hsLib are fork_head_num and the               *)
(* last_irreversible_block_num of last_handshake_recv, 0 when null.        *)
(* response_expected is armed, and its handler is queued once it expired;  *)
(* ready counts the messages that were received by then, whose handlers    *)
(* may still run first.  writing says an async_write has not called back.  *)
Connection(sock) ==
    [sock |-> sock, connecting |-> FALSE, syncing |-> FALSE, forkHead |-> 0,
     hsLib |-> 0, sentGen |-> 0, sentLib |-> 0, requested |-> NoRange,
     armed |-> FALSE, queued |-> FALSE, ready |-> 0, writing |-> FALSE,
     writeQueue |-> <<>>, syncQueue |-> <<>>, outQueue |-> <<>>]

Connected(s, p) == s.conn[p].sock = "open" /\ ~s.conn[p].connecting
Current(s, p)   == Connected(s, p) /\ ~s.conn[p].syncing
CurrentPeers(s) == {p \in DOMAIN s.conn : Current(s, p)}

-----------------------------------------------------------------------------
(* connection: the write queues                                            *)

DoQueueWrite(c) ==
    IF c.outQueue # <<>> \/ (c.syncQueue = <<>> /\ c.writeQueue = <<>>) THEN c
    ELSE IF c.syncQueue # <<>>
    THEN [c EXCEPT !.outQueue = c.syncQueue, !.syncQueue = <<>>, !.writing = TRUE]
    ELSE [c EXCEPT !.outQueue = c.writeQueue, !.writeQueue = <<>>, !.writing = TRUE]

QueueWrite(c, m) == DoQueueWrite([c EXCEPT !.writeQueue = Append(@, m)])

Enqueue(s, p, m) == [s EXCEPT !.conn[p] = QueueWrite(@, m)]

EnqueueAll(s, ps, m) ==
    [s EXCEPT !.conn = [p \in DOMAIN s.conn |->
        IF p \in ps THEN QueueWrite(s.conn[p], m) ELSE s.conn[p]]]

FlushQueuesMutant(c) == [c EXCEPT !.writeQueue = <<>>, !.syncQueue = <<>>, !.outQueue = <<>>]

FlushQueues(c) == [c EXCEPT !.writeQueue = <<>>, !.syncQueue = <<>>]

(* The next block of the range the peer asked for, sent at once only when  *)
(* it is the first: the others follow the completion of a write.           *)
EnqueueSyncBlock(s, p) ==
    LET c     == s.conn[p]
        num   == c.requested.last + 1
        range == IF num = c.requested.end THEN NoRange ELSE [c.requested EXCEPT !.last = num]
        found == num \in 1 .. s.head
        sent  == [c EXCEPT !.requested = range,
                           !.syncQueue = IF found THEN Append(@, Block(num)) ELSE @]
    IN  IF c.requested = NoRange THEN s
        ELSE [s EXCEPT !.conn[p] =
                 IF found /\ num = c.requested.start THEN DoQueueWrite(sent) ELSE sent]

SendHandshake(s, p) ==
    LET gen == s.conn[p].sentGen + 1
    IN  Enqueue([s EXCEPT !.conn[p].sentGen = IF gen > 2 THEN 2 ELSE gen,
                          !.conn[p].sentLib = LibOf(s.head)],
                p, Handshake(IF gen > 2 THEN 2 ELSE gen, s))

SendHandshakes(s) ==
    [s EXCEPT !.conn = [p \in DOMAIN s.conn |->
        IF Current(s, p) THEN SendHandshake(s, p).conn[p] ELSE s.conn[p]]]

BlkSendBranch(s, p) ==
    LET c     == s.conn[p]
        lib   == IF c.sentGen >= 1 THEN c.sentLib ELSE LibOf(s.head)
        start == IF c.requested = NoRange THEN lib + 1 ELSE Least(c.requested.last + 1, lib + 1)
        end   == IF c.requested.end > s.head THEN c.requested.end ELSE s.head
        asked == [s EXCEPT !.conn[p].requested = [start |-> start, end |-> end, last |-> start - 1]]
    IN  [EnqueueSyncBlock(asked, p) EXCEPT !.conn[p].syncing = FALSE]

SyncWait(s, p)   == [s EXCEPT !.conn[p].armed = TRUE]
CancelWait(s, p) == [s EXCEPT !.conn[p].armed = FALSE]

-----------------------------------------------------------------------------
(* sync_manager                                                            *)

SyncRequired(s) == s.lastReq < s.known \/ s.head < s.lastReq

(* The connection after source, in the order of connections, that can      *)
(* serve; the old source when none can.                                    *)
NextSource(s) ==
    LET present == {p \in DOMAIN s.conn : s.conn[p].sock # "absent"}
        old     == IF s.source \in present THEN s.source ELSE None
        from    == IF old = None THEN 0 ELSE Position(old)
        dist(p) == (Position(p) - from - 1) % Len(Order)
    IN  IF Cardinality(present) = 1
        THEN IF s.source = None THEN CHOOSE p \in present : TRUE ELSE s.source
        ELSE IF CurrentPeers(s) = {} THEN old
        ELSE CHOOSE p \in CurrentPeers(s) :
                 \A q \in CurrentPeers(s) : dist(p) <= dist(q)

RequestNextChunk(s, c) ==
    LET src   == IF c # None /\ c \in CurrentPeers(s) THEN c ELSE NextSource(s)
        moved == [s EXCEPT !.source = src]
        start == s.nextExp
        end   == Least(start + sync_req_span - 1, s.known)
    IN  IF s.head < s.lastReq /\ s.source # None /\ Current(s, s.source) THEN s
        ELSE IF src = None \/ src \notin CurrentPeers(s)
        THEN [moved EXCEPT !.known = LibOf(s.head), !.lastReq = 0, !.state = "in_sync"]
        ELSE IF s.lastReq # s.known /\ end >= start
        THEN [SyncWait(Enqueue(moved, src, SyncRequest(start, end)), src) EXCEPT !.lastReq = end]
        ELSE moved

ResetLibNum(s, p) ==
    LET idle == IF s.state = "in_sync" THEN [s EXCEPT !.source = None] ELSE s
    IN  IF Current(idle, p)
        THEN [idle EXCEPT !.known = IF s.conn[p].hsLib > @ THEN s.conn[p].hsLib ELSE @]
        ELSE IF idle.source = p
        THEN RequestNextChunk([idle EXCEPT !.lastReq = 0], None)
        ELSE idle

(* connection::close: the out queue, fork_head and the object itself stay. *)
Close(s, p) ==
    CancelWait(
        ResetLibNum([s EXCEPT !.conn[p] =
            [FlushQueues(@) EXCEPT !.sock = "closed", !.connecting = FALSE, !.syncing = FALSE,
                                   !.requested = NoRange, !.sentGen = 0, !.sentLib = 0,
                                   !.hsLib = 0]], p), p)

StartSync(s, p, target) ==
    LET told    == [s EXCEPT !.known = IF target > @ THEN target ELSE @]
        started == IF told.state = "in_sync"
                   THEN [told EXCEPT !.state = "lib_catchup", !.nextExp = LibOf(s.head) + 1]
                   ELSE told
    IN  IF SyncRequired(told) THEN RequestNextChunk(started, p) ELSE told

(* cancel_sync(benign_other) asks the peer to stop; on a closed socket the *)
(* write closes the connection again.                                      *)
ReassignFetch(s, p) ==
    LET flushed   == [CancelWait(s, p) EXCEPT !.conn[p] = FlushQueues(@)]
        cancelled == IF s.conn[p].sock = "open" \/ s.conn[p].outQueue # <<>>
                     THEN Enqueue(flushed, p, SyncRequest(0, 0))
                     ELSE Close(flushed, p)
    IN  IF s.source # p THEN s
        ELSE RequestNextChunk([cancelled EXCEPT !.lastReq = 0], None)

VerifyCatchup(s, p, num) ==
    LET other == \E q \in DOMAIN s.conn :
                     s.conn[q].sock # "absent" /\ s.conn[q].forkHead >= num
        told  == [s EXCEPT !.conn[p].forkHead = IF other THEN 0 ELSE num]
    IN  IF other THEN Enqueue(told, p, Request("none"))
        ELSE IF s.state = "lib_catchup" THEN told
        ELSE Enqueue([told EXCEPT !.state = "head_catchup"], p, Request("catch_up"))

(* The five sync checks of recv_handshake, for peers that speak            *)
(* proto_explicit_sync.                                                    *)
RecvHandshake(s, p, m) ==
    LET r == [ResetLibNum(s, p) EXCEPT !.conn[p].syncing = FALSE]
    IN  CASE r.head = m.head -> r
          [] r.head < m.lib -> r
          [] LibOf(r.head) > m.head -> [Enqueue(r, p, LibNotice(r)) EXCEPT !.conn[p].syncing = TRUE]
          [] r.head \in m.lib .. m.head - 1 -> VerifyCatchup(r, p, m.head)
          [] OTHER -> [Enqueue(r, p, HeadNotice(r)) EXCEPT !.conn[p].syncing = TRUE]

RejectedBlock(s, p) ==
    IF s.state = "in_sync" THEN s
    ELSE LET closed == Close([s EXCEPT !.lastReq = 0, !.source = None], p)
         IN  SendHandshakes([closed EXCEPT !.state = "in_sync"])

(* In head_catchup the fork head that a block reaches, or passes, is that  *)
(* of any connection q; the one cleared is that of the sender p.           *)
HeadCaughtUp(s, p, num) ==
    LET ahead(q)  == s.conn[q].forkHead > num
        passed(q) == s.conn[q].forkHead \in 1 .. num
        listed    == {q \in DOMAIN s.conn : s.conn[q].sock # "absent"}
        before    == {q \in listed : Position(q) < Position(p) /\ passed(q)}
        seen      == IF before # {} THEN listed \ {p} ELSE listed
    IN  [s EXCEPT !.source = None,
                  !.state = IF \E q \in seen : ahead(q) THEN "head_catchup" ELSE "in_sync",
                  !.conn[p].forkHead = IF \E q \in listed : passed(q) THEN 0 ELSE @]

RecvBlockNoTimerMutant(s, p, num) ==
    LET next == [s EXCEPT !.nextExp = num + 1]
    IN  CASE s.state = "in_sync" -> s
          [] s.state = "head_catchup" -> HeadCaughtUp(s, p, num)
          [] s.state = "lib_catchup" ->
               IF num # s.nextExp THEN Close(s, p)
               ELSE IF num = s.known THEN SendHandshakes([next EXCEPT !.state = "in_sync"])
               ELSE IF num = s.lastReq THEN RequestNextChunk(next, None)
               ELSE next

RecvBlockEarlyMutant(s, p, num) ==
    LET next == [s EXCEPT !.nextExp = num + 1]
    IN  CASE s.state = "in_sync" -> s
          [] s.state = "head_catchup" -> HeadCaughtUp(s, p, num)
          [] s.state = "lib_catchup" ->
               IF num # s.nextExp THEN Close(s, p)
               ELSE IF num = s.lastReq THEN SendHandshakes([next EXCEPT !.state = "in_sync"])
               ELSE SyncWait(next, p)

RecvBlockNoHandshakeMutant(s, p, num) ==
    LET next == [s EXCEPT !.nextExp = num + 1]
    IN  CASE s.state = "in_sync" -> s
          [] s.state = "head_catchup" -> HeadCaughtUp(s, p, num)
          [] s.state = "lib_catchup" ->
               IF num # s.nextExp THEN Close(s, p)
               ELSE IF num = s.known THEN [next EXCEPT !.state = "in_sync"]
               ELSE IF num = s.lastReq THEN RequestNextChunk(next, None)
               ELSE SyncWait(next, p)

RecvBlock(s, p, num) ==
    LET next == [s EXCEPT !.nextExp = num + 1]
    IN  CASE s.state = "in_sync" -> s
          [] s.state = "head_catchup" -> HeadCaughtUp(s, p, num)
          [] s.state = "lib_catchup" ->
               IF num # s.nextExp THEN Close(s, p)
               ELSE IF num = s.known THEN SendHandshakes([next EXCEPT !.state = "in_sync"])
               ELSE IF num = s.lastReq THEN RequestNextChunk(next, None)
               ELSE SyncWait(next, p)

-----------------------------------------------------------------------------
(* net_plugin_impl::handle_message                                         *)

HandleHandshake(s, p, m) ==
    LET up    == [s EXCEPT !.conn[p].connecting = FALSE]
        hello == IF m.gen = 1 /\ s.conn[p].sentGen = 0 THEN SendHandshake(up, p) ELSE up
    IN  RecvHandshake([hello EXCEPT !.conn[p].hsLib = m.lib], p, m)

HandleNotice(s, p, m) ==
    LET up   == [s EXCEPT !.conn[p].connecting = FALSE]
        told == [up EXCEPT !.conn[p].hsLib = m.lib]
    IN  IF m.type = "head_notice" THEN VerifyCatchup(up, p, m.head)
        ELSE StartSync(ResetLibNum(told, p), p, m.lib)

HandleRequestMutant(s, p, m) == [s EXCEPT !.conn[p].syncing = FALSE]

HandleRequest(s, p, m) ==
    IF m.mode = "catch_up" THEN BlkSendBranch(s, p) ELSE [s EXCEPT !.conn[p].syncing = FALSE]

HandleSyncRequest(s, p, m) ==
    IF m.end = 0 THEN [s EXCEPT !.conn[p] = [FlushQueues(@) EXCEPT !.requested = NoRange]]
    ELSE EnqueueSyncBlock([s EXCEPT !.conn[p].requested =
             [start |-> m.start, end |-> m.end, last |-> m.start - 1]], p)

(* A block that extends the head is accepted and relayed to the current    *)
(* connections it did not come from; one further ahead is unlinkable.      *)
HandleBlock(s, p, m) ==
    LET waited   == CancelWait(s, p)
        accepted == EnqueueAll([waited EXCEPT !.head = m.num], CurrentPeers(s) \ {p}, m)
    IN  IF m.num <= s.head THEN RecvBlock(waited, p, m.num)
        ELSE IF m.num = s.head + 1 THEN RecvBlock(accepted, p, m.num)
        ELSE RejectedBlock(waited, p)

Handle(s, p, m) ==
    CASE m.type = "handshake"                      -> HandleHandshake(s, p, m)
      [] m.type \in {"lib_notice", "head_notice"} -> HandleNotice(s, p, m)
      [] m.type = "request"                        -> HandleRequest(s, p, m)
      [] m.type = "sync_request"                   -> HandleSyncRequest(s, p, m)
      [] m.type = "block"                          -> HandleBlock(s, p, m)
      [] m.type = "eof"                            -> Close(s, p)

-----------------------------------------------------------------------------
(* The sockets.  When n closes its end, what it has sent is still read by  *)
(* the peer, then the end of the stream; what the peer has sent is lost.   *)
Commit(n, s, w) ==
    LET closed == {p \in Peers(n) : node[n].conn[p].sock = "open" /\ s.conn[p].sock # "open"}
    IN  /\ node' = [node EXCEPT ![n] = s]
        /\ wire' = [a \in Nodes |-> [b \in Nodes |->
               IF a = n /\ b \in closed
               THEN IF node[b].conn[n].sock = "open" THEN Append(w[a][b], Eof) ELSE <<>>
               ELSE IF b = n /\ a \in closed THEN <<>>
               ELSE w[a][b]]]

TimeoutQueued(s) == \E p \in DOMAIN s.conn : s.conn[p].queued

Read(n, p) ==
    LET s == [node[n] EXCEPT !.conn[p].ready = IF @ > 0 THEN @ - 1 ELSE 0]
    IN  /\ s.conn[p].sock = "open"
        /\ wire[p][n] # <<>>
        /\ TimeoutQueued(s) => node[n].conn[p].ready > 0
        /\ Commit(n, Handle(s, p, Head(wire[p][n])), [wire EXCEPT ![p][n] = Tail(@)])
        /\ UNCHANGED <<net, drops, early>>

(* The completion handler of async_write: it runs before a timeout that    *)
(* expires later, and what it starts completes after it.                   *)
WriteDone(n, p) ==
    LET c    == node[n].conn[p]
        more == EnqueueSyncBlock([node[n] EXCEPT !.conn[p].outQueue = <<>>,
                                                 !.conn[p].writing = FALSE], p)
        sent == IF node[p].conn[n].sock = "open"
                THEN [wire EXCEPT ![n][p] = @ \o c.outQueue] ELSE wire
    IN  /\ c.sock = "open" /\ c.writing /\ ~TimeoutQueued(node[n])
        /\ Commit(n, [more EXCEPT !.conn[p] = DoQueueWrite(@)], sent)
        /\ UNCHANGED <<net, drops, early>>

(* The same handler called with an error after the socket was closed: it   *)
(* closes the connection once more and returns before clear_out_queue.     *)
WriteFailed(n, p) ==
    /\ node[n].conn[p].sock = "closed" /\ node[n].conn[p].writing
    /\ Commit(n, Close([node[n] EXCEPT !.conn[p].writing = FALSE], p), wire)
    /\ UNCHANGED <<net, drops, early>>

Silent(n, p) ==
    /\ wire[p][n] = <<>> /\ wire[n][p] = <<>>
    /\ ~node[n].conn[p].writing /\ ~node[p].conn[n].writing

(* response_expected expires: its handler is queued behind those of the    *)
(* messages received by now, and a cancel_wait of theirs comes too late.   *)
TimerExpires(n, p) ==
    LET s == node[n]
    IN  /\ s.conn[p].armed /\ ~TimeoutQueued(s)
        /\ Silent(n, p) \/ early < net.early
        /\ early' = IF Silent(n, p) THEN early ELSE early + 1
        /\ node' = [node EXCEPT ![n].conn = [q \in Peers(n) |->
               [s.conn[q] EXCEPT !.armed = @ /\ q # p, !.queued = (q = p),
                                 !.ready = Len(wire[q][n])]]]
        /\ UNCHANGED <<net, wire, drops>>

SyncTimeout(n, p) ==
    LET s == [node[n] EXCEPT !.conn = [q \in Peers(n) |->
                 [node[n].conn[q] EXCEPT !.queued = FALSE, !.ready = 0]]]
    IN  /\ node[n].conn[p].queued
        /\ Commit(n, ReassignFetch(s, p), wire)
        /\ UNCHANGED <<net, drops, early>>

(* connection_monitor: a dialled connection whose socket is closed is      *)
(* connected again; the peer accepts it as a new connection object.        *)
Connect(n, p) ==
    LET c == node[n].conn[p]
    IN  /\ <<n, p>> \in net.dials
        /\ c.sock = "closed" /\ ~c.connecting /\ ~c.writing /\ ~TimeoutQueued(node[n])
        /\ node[p].conn[n].sock # "open" /\ ~node[p].conn[n].writing /\ ~TimeoutQueued(node[p])
        /\ node' = [node EXCEPT
               ![n] = SendHandshake([@ EXCEPT !.conn[p].sock = "open", !.conn[p].connecting = TRUE], p),
               ![p].conn[n] = [Connection("open") EXCEPT !.connecting = TRUE],
               ![p].source = IF @ = n THEN None ELSE @]
        /\ UNCHANGED <<net, wire, drops, early>>

(* connection_monitor: a closed connection that was accepted is erased.    *)
Erase(n, p) ==
    /\ <<p, n>> \in net.dials
    /\ node[n].conn[p].sock = "closed" /\ ~node[n].conn[p].writing /\ ~TimeoutQueued(node[n])
    /\ node' = [node EXCEPT ![n].conn[p] = Connection("absent")]
    /\ UNCHANGED <<net, wire, drops, early>>

(* The network breaks a connection: both ends read the end of the stream.  *)
Drop(n, p) ==
    /\ drops < net.drops
    /\ <<n, p>> \in net.dials
    /\ node[n].conn[p].sock = "open" /\ node[p].conn[n].sock = "open"
    /\ wire' = [wire EXCEPT ![n][p] = <<Eof>>, ![p][n] = <<Eof>>]
    /\ drops' = drops + 1
    /\ UNCHANGED <<net, node, early>>

(* A producer at the tip of the chain produces a block, which              *)
(* accepted_block broadcasts to every current connection.                  *)
Produce(n) ==
    LET s == node[n]
    IN  /\ n \in Producers
        /\ s.head < net.last /\ \A q \in Nodes : node[q].head <= s.head
        /\ node' = [node EXCEPT ![n] =
               EnqueueAll([s EXCEPT !.head = @ + 1], CurrentPeers(s), Block(s.head + 1))]
        /\ UNCHANGED <<net, wire, drops, early>>

InitNode(n) ==
    [head |-> net.head[n], known |-> 0, lastReq |-> 0, nextExp |-> 1,
     source |-> None, state |-> "in_sync",
     conn |-> [p \in Peers(n) |-> Connection(IF <<n, p>> \in net.dials THEN "closed" ELSE "absent")]]

Init ==
    /\ net \in Networks
    /\ node = [n \in Nodes |-> InitNode(n)]
    /\ wire = [n \in Nodes |-> [p \in Nodes |-> <<>>]]
    /\ drops = 0
    /\ early = 0

Handler(n, p) ==
    \/ Read(n, p)
    \/ WriteDone(n, p)
    \/ WriteFailed(n, p)
    \/ TimerExpires(n, p)
    \/ SyncTimeout(n, p)
    \/ Connect(n, p)
    \/ Erase(n, p)

RunHandler == \E n \in Nodes : \E p \in Peers(n) : Handler(n, p)

Next ==
    \/ RunHandler
    \/ \E n \in Nodes : \E p \in Peers(n) : Drop(n, p)
    \/ \E n \in Nodes : Produce(n)

(* The io_service always runs some handler that is ready, in any order; an *)
(* armed timer expires and the monitor connects a closed peer address.     *)
Fairness == WF_vars(RunHandler)

Spec == Init /\ [][Next]_vars
FairSpec == Spec /\ Fairness

-----------------------------------------------------------------------------
(* Properties                                                              *)

Numbers == 0 .. MaxHead
Ranges == [start : Numbers, end : Numbers, last : Numbers]
Messages ==
         [type : {"handshake"}, gen : 1 .. 2, head : Numbers, lib : Numbers]
    \cup [type : {"lib_notice"}, lib : Numbers]
    \cup [type : {"head_notice"}, head : Numbers]
    \cup [type : {"request"}, mode : {"catch_up", "none"}]
    \cup [type : {"sync_request"}, start : Numbers, end : Numbers]
    \cup [type : {"block"}, num : Numbers]
    \cup {Eof}

IsConnection(c) ==
    /\ c.sock \in {"absent", "closed", "open"}
    /\ {c.connecting, c.syncing, c.armed, c.queued, c.writing} \subseteq BOOLEAN
    /\ {c.forkHead, c.hsLib, c.sentLib} \subseteq Numbers
    /\ c.sentGen \in 0 .. 2 /\ c.ready \in Nat /\ c.requested \in Ranges
    /\ \A q \in {c.writeQueue, c.syncQueue, c.outQueue} : \A i \in DOMAIN q : q[i] \in Messages

(* Every variable has the type of the field it stands for, and an          *)
(* async_write is outstanding only while the out queue holds its buffers.  *)
TypeOK ==
    /\ drops \in 0 .. net.drops /\ early \in 0 .. net.early
    /\ \A n \in Nodes :
         /\ node[n].head \in 1 .. MaxHead
         /\ {node[n].known, node[n].lastReq} \subseteq Numbers
         /\ node[n].nextExp \in 1 .. MaxHead + 1
         /\ node[n].state \in {"in_sync", "lib_catchup", "head_catchup"}
         /\ node[n].source \in Peers(n) \cup {None}
         /\ \A p \in Peers(n) : IsConnection(node[n].conn[p])
         /\ \A p \in Peers(n) : node[n].conn[p].writing => node[n].conn[p].outQueue # <<>>
         /\ \A p \in Nodes : \A i \in DOMAIN wire[n][p] : wire[n][p][i] \in Messages

(* While a node is in lib_catchup a range it has asked for is open, from a *)
(* current connection whose timer will wake it: recv_block, close and      *)
(* reassign_fetch always leave a request that somebody answers or that     *)
(* times out.  The next expected block is never beyond the one after the   *)
(* head: recv_block counts a block only after the chain has it.            *)
CatchupIsWatched ==
    \A n \in Nodes : LET s == node[n] IN
        s.state = "lib_catchup" =>
            /\ s.source # None /\ Current(s, s.source)
            /\ s.conn[s.source].armed \/ s.conn[s.source].queued
            /\ s.nextExp <= s.lastReq /\ s.lastReq <= s.known
            /\ s.nextExp <= s.head + 1

(* No message is on its way, no write is outstanding, no timer is running. *)
Quiet ==
    \A n \in Nodes : \A p \in Peers(n) :
        /\ Silent(n, p)
        /\ ~node[n].conn[p].armed /\ ~node[n].conn[p].queued

Reliable == net.drops = 0 /\ net.early = 0

Joined(n, p) == Connected(node[n], p) /\ Connected(node[p], n)

(* When nothing is left to happen, a node has every block of every peer it *)
(* is connected to, also after a lost connection or a late answer: no      *)
(* handshake, notice or request that sync depends on was lost between two  *)
(* handlers.                                                               *)
QuietIsCaughtUp ==
    Quiet => \A n \in Nodes : \A p \in Peers(n) :
        Joined(n, p) => node[n].head >= node[p].head

(* A node leaves lib_catchup only with the last irreversible block it was  *)
(* told of, unless request_next_chunk found no source and forgot it.       *)
LeavesCatchupDone ==
    [][\A n \in Nodes :
          node[n].state = "lib_catchup" /\ node'[n].state = "in_sync"
              => node'[n].head >= node'[n].known]_vars

(* Peers that are connected eventually hold, and keep, the same head, and  *)
(* a node that is connected to all its peers leaves every catch-up, in     *)
(* whatever order the handlers run.  On a reliable network all peers are   *)
(* connected; after a fault they need not be, because a connection object  *)
(* whose last write failed keeps its out queue, and then writes nothing    *)
(* when connection_monitor connects it again.                              *)
EventuallySynced ==
    <>[](\A n \in Nodes :
            /\ \A p \in Peers(n) :
                   /\ Reliable => Joined(n, p)
                   /\ Joined(n, p) => node[n].head = node[p].head
            /\ (\A p \in Peers(n) : Joined(n, p)) => node[n].state = "in_sync")

=============================================================================
