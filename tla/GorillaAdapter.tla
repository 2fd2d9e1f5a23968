--------------------------- MODULE GorillaAdapter ---------------------------
(***************************************************************************)
(* GorillaWebsocketConnectionAdapter (src/unnamed/part_000): one adapter   *)
(* instance, the goroutines that call it, and an abstract peer.            *)
(*                                                                         *)
(*  - the control goroutine calls Dial, Write and Close, which hold        *)
(*    adapter.mu for their whole body (one process: the mutex serialises   *)
(*    them anyway);                                                        *)
(*  - the read-loop goroutine calls Read; the pong and close handlers that *)
(*    Dial installs run inside its ReadMessage;                            *)
(*  - every p in Pingers is a goroutine calling Ping.                      *)
(*                                                                         *)
(* Connections are numbered 1..MaxDials in the order Dial creates them;   *)
(* NoConn stands for nil.  A reply slot (the `pong` channel of one Ping    *)
(* call) is numbered 1..MaxPings in creation order.  The pingRequests      *)
(* channel is the sequence `queue`.  A non-blocking send on an unbuffered  *)
(* slot succeeds exactly when its Ping goroutine is blocked in the final   *)
(* select on it: that is Receptive(s).                                     *)
(***************************************************************************)
EXTENDS Naturals, Sequences, FiniteSets, Functions

CONSTANTS
    Pingers,    \* goroutines that call Ping concurrently
    MaxDials,   \* bound on the connections Dial establishes
    MaxPings,   \* bound on the Ping calls that get past the nil check
    QueueCap    \* capacity of adapter.pingRequests (10 in the code)

ASSUME ConstantsAssumption ==
    /\ MaxDials \in Nat \ {0}
    /\ MaxPings \in Nat \ {0}
    /\ QueueCap \in Nat \ {0}

NoConn == 0
Conns == 1 .. MaxDials
NoSlot == 0
Slots == 1 .. MaxPings

\* What a Ping call returned: still running, nil (pong), a close error, the
\* context error, or the error of WriteControl.
Outcomes == {"none", "pending", "pong", "close", "ctx", "error"}

VARIABLES
    conn,        \* adapter.conn
    dials,       \* connections established so far
    queue,       \* adapter.pingRequests, oldest slot first
    closeSent,   \* connections on which Close wrote the close frame
    peerClosed,  \* connections on which ReadMessage read the peer's close frame
    pongsDue,    \* pings written on a connection and not yet answered
    pingPc,      \* where each Ping goroutine is
    pingConn,    \* Ping's local copy `conn`
    pingSlot,    \* Ping's local `pong` channel
    nextSlot,    \* slots created so far
    outcome,     \* per slot: what its Ping call returned
    slotConn,    \* per slot: the connection its Ping call pinged
    srcConn,     \* per slot: the connection whose pong or close answered it
    readerPc,    \* where the read-loop goroutine is
    readConn,    \* Read's local copy `conn`
    ctlPc,       \* where the control goroutine is
    closeConn,   \* the connection Close wrote its close frame on
    pongsRecv    \* pong frames the read loop has handled

vars == <<conn, dials, queue, closeSent, peerClosed, pongsDue, pingPc,
          pingConn, pingSlot, nextSlot, outcome, slotConn, srcConn,
          readerPc, readConn, ctlPc, closeConn, pongsRecv>>

pingVars == <<pingPc, pingConn, pingSlot, nextSlot, outcome, slotConn, srcConn>>

-----------------------------------------------------------------------------
(* Helpers                                                                 *)

\* adapter.mu is free: the control goroutine holds it for the whole body of
\* Dial, Write and Close; Ping and Read only hold it to copy adapter.conn.
MutexFree == ctlPc = "idle"

\* The slot s accepts a non-blocking send: its Ping is blocked on `<-pong`.
Receptive(s) == \E p \in Pingers : pingPc[p] = "wait" /\ pingSlot[p] = s

WaiterOf(s) == CHOOSE p \in Pingers : pingPc[p] = "wait" /\ pingSlot[p] = s

\* `listener <- notification` succeeds: the waiting Ping returns it.
Deliver(s, note, src) ==
    LET p == WaiterOf(s) IN
    /\ pingPc' = [pingPc EXCEPT ![p] = "idle"]
    /\ pingConn' = [pingConn EXCEPT ![p] = NoConn]
    /\ pingSlot' = [pingSlot EXCEPT ![p] = NoSlot]
    /\ outcome' = [outcome EXCEPT ![s] = note]
    /\ srcConn' = [srcConn EXCEPT ![s] = src]
    /\ UNCHANGED <<nextSlot, slotConn>>

\* Mutant: the pong scan goes on after a listener took the notification.
PropagateFirstNoStop(note, src, Done, Continue) ==
    \/ /\ queue = <<>>
       /\ Done
       /\ UNCHANGED queue /\ UNCHANGED pingVars
    \/ /\ queue # <<>>
       /\ queue' = Tail(queue)
       /\ \/ Receptive(Head(queue)) /\ Deliver(Head(queue), note, src) /\ Continue
          \/ ~Receptive(Head(queue)) /\ Continue /\ UNCHANGED pingVars

\* One iteration of the loop of propagateToFirstActiveListener: the queue
\* is empty (return false), or its head is popped and either takes the
\* notification (return true) or is skipped.  Done and Continue fix the
\* scanning goroutine's next state.
PropagateToFirstActiveListener(note, src, Done, Continue) ==
    \/ /\ queue = <<>>
       /\ Done
       /\ UNCHANGED queue /\ UNCHANGED pingVars
    \/ /\ queue # <<>>
       /\ queue' = Tail(queue)
       /\ \/ Receptive(Head(queue)) /\ Deliver(Head(queue), note, src) /\ Done
          \/ ~Receptive(Head(queue)) /\ Continue /\ UNCHANGED pingVars

\* One iteration of the loop of propagateToAllActiveListener.  As written,
\* it also returns as soon as one listener took the notification.
PropagateToAllActiveListener(note, src, Done, Continue) ==
    \/ /\ queue = <<>>
       /\ Done
       /\ UNCHANGED queue /\ UNCHANGED pingVars
    \/ /\ queue # <<>>
       /\ queue' = Tail(queue)
       /\ \/ Receptive(Head(queue)) /\ Deliver(Head(queue), note, src) /\ Done
          \/ ~Receptive(Head(queue)) /\ Continue /\ UNCHANGED pingVars

-----------------------------------------------------------------------------
Init ==
    /\ conn = NoConn
    /\ dials = 0
    /\ queue = <<>>
    /\ closeSent = {}
    /\ peerClosed = {}
    /\ pongsDue = [c \in Conns |-> 0]
    /\ pingPc = [p \in Pingers |-> "idle"]
    /\ pingConn = [p \in Pingers |-> NoConn]
    /\ pingSlot = [p \in Pingers |-> NoSlot]
    /\ nextSlot = 0
    /\ outcome = [s \in Slots |-> "none"]
    /\ slotConn = [s \in Slots |-> NoConn]
    /\ srcConn = [s \in Slots |-> NoConn]
    /\ readerPc = "idle"
    /\ readConn = NoConn
    /\ ctlPc = "idle"
    /\ closeConn = NoConn
    /\ pongsRecv = 0

-----------------------------------------------------------------------------
(* Control goroutine: Dial, Write, Close                                   *)

\* Dial: under the mutex, fails if a connection is set; otherwise the
\* handshake succeeds and the new connection is stored with its handlers.
\* (A failed handshake or a done context changes nothing.)
Dial ==
    /\ ctlPc = "idle"
    /\ conn = NoConn
    /\ dials < MaxDials
    /\ dials' = dials + 1
    /\ conn' = dials + 1
    /\ UNCHANGED pingVars
    /\ UNCHANGED <<queue, closeSent, peerClosed, pongsDue, readerPc,
                   readConn, ctlPc, closeConn, pongsRecv>>

\* Write, first half: lock, then the nil check passes.
WriteLock ==
    /\ ctlPc = "idle"
    /\ conn # NoConn
    /\ ctlPc' = "writeSend"
    /\ UNCHANGED pingVars
    /\ UNCHANGED <<conn, dials, queue, closeSent, peerClosed, pongsDue,
                   readerPc, readConn, closeConn, pongsRecv>>

\* Write, second half: adapter.conn is read again for WriteMessage; nil
\* there is a nil pointer dereference.
WriteSend ==
    /\ ctlPc = "writeSend"
    /\ ctlPc' = IF conn = NoConn THEN "panic" ELSE "idle"
    /\ UNCHANGED pingVars
    /\ UNCHANGED <<conn, dials, queue, closeSent, peerClosed, pongsDue,
                   readerPc, readConn, closeConn, pongsRecv>>

\* Close, first step: lock, then the nil check passes.
CloseLock ==
    /\ ctlPc = "idle"
    /\ conn # NoConn
    /\ ctlPc' = "closeSend"
    /\ UNCHANGED pingVars
    /\ UNCHANGED <<conn, dials, queue, closeSent, peerClosed, pongsDue,
                   readerPc, readConn, closeConn, pongsRecv>>

\* Close, second step: WriteControl(CloseMessage) on adapter.conn, read
\* again.  Whether or not the frame went out, gorilla fails every later
\* write on that connection.
CloseSend ==
    /\ ctlPc = "closeSend"
    /\ \/ /\ conn = NoConn
          /\ ctlPc' = "panic"
          /\ UNCHANGED <<closeSent, closeConn>>
       \/ /\ conn # NoConn
          /\ closeSent' = closeSent \cup {conn}
          /\ closeConn' = conn
          /\ ctlPc' = "closeScan"
    /\ UNCHANGED pingVars
    /\ UNCHANGED <<conn, dials, queue, peerClosed, pongsDue, readerPc,
                   readConn, pongsRecv>>

\* Close, rest: propagateToAllActiveListener(close error), then
\* adapter.conn = nil and unlock when the loop returns.
CloseScan ==
    /\ ctlPc = "closeScan"
    /\ PropagateToAllActiveListener("close", closeConn,
           /\ ctlPc' = "idle" /\ conn' = NoConn /\ closeConn' = NoConn,
           UNCHANGED <<ctlPc, conn, closeConn>>)
    /\ UNCHANGED <<dials, closeSent, peerClosed, pongsDue, readerPc,
                   readConn, pongsRecv>>

-----------------------------------------------------------------------------
(* Read-loop goroutine: Read and the handlers it runs                      *)

\* Read: copy adapter.conn under the mutex; nil check passes; block in
\* ReadMessage.
ReadStart ==
    /\ readerPc = "idle"
    /\ MutexFree
    /\ conn # NoConn
    /\ readConn' = conn
    /\ readerPc' = "reading"
    /\ UNCHANGED pingVars
    /\ UNCHANGED <<conn, dials, queue, closeSent, peerClosed, pongsDue,
                   ctlPc, closeConn, pongsRecv>>

\* ReadMessage returns a data frame, or an error that is not a close.
ReadReturn ==
    /\ readerPc = "reading"
    /\ readConn \notin peerClosed
    /\ readerPc' = "idle"
    /\ readConn' = NoConn
    /\ UNCHANGED pingVars
    /\ UNCHANGED <<conn, dials, queue, closeSent, peerClosed, pongsDue,
                   ctlPc, closeConn, pongsRecv>>

\* A pong frame answering one of the pings written on the connection:
\* gorilla calls pongHandler.
ReadPong ==
    /\ readerPc = "reading"
    /\ readConn \notin peerClosed
    /\ pongsDue[readConn] > 0
    /\ pongsDue' = [pongsDue EXCEPT ![readConn] = @ - 1]
    /\ pongsRecv' = pongsRecv + 1
    /\ readerPc' = "pongScan"
    /\ UNCHANGED pingVars
    /\ UNCHANGED <<conn, dials, queue, closeSent, peerClosed, readConn,
                   ctlPc, closeConn>>

\* pongHandler: propagateToFirstActiveListener(nil), then ReadMessage
\* goes on reading.
PongHandler ==
    /\ readerPc = "pongScan"
    /\ PropagateToFirstActiveListener("pong", readConn,
           readerPc' = "reading", UNCHANGED readerPc)
    /\ UNCHANGED <<conn, dials, closeSent, peerClosed, pongsDue, readConn,
                   ctlPc, closeConn, pongsRecv>>

\* The peer's close frame (spontaneous, or its answer to ours): gorilla
\* calls closeHandler, then ReadMessage returns a *websocket.CloseError.
ReadPeerClose ==
    /\ readerPc = "reading"
    /\ readConn \notin peerClosed
    /\ peerClosed' = peerClosed \cup {readConn}
    /\ readerPc' = "closeScan"
    /\ UNCHANGED pingVars
    /\ UNCHANGED <<conn, dials, queue, closeSent, pongsDue, readConn,
                   ctlPc, closeConn, pongsRecv>>

\* closeHandler: propagateToAllActiveListener(close error).
CloseHandler ==
    /\ readerPc = "closeScan"
    /\ PropagateToAllActiveListener("close", readConn,
           readerPc' = "closing", UNCHANGED readerPc)
    /\ UNCHANGED <<conn, dials, closeSent, peerClosed, pongsDue, readConn,
                   ctlPc, closeConn, pongsRecv>>

\* Read, close branch: adapter.conn = nil, without the mutex and whatever
\* adapter.conn is by now; return the WebsocketCloseError.
ReadDropConn ==
    /\ readerPc = "closing"
    /\ conn' = NoConn
    /\ readerPc' = "idle"
    /\ readConn' = NoConn
    /\ UNCHANGED pingVars
    /\ UNCHANGED <<dials, queue, closeSent, peerClosed, pongsDue, ctlPc,
                   closeConn, pongsRecv>>

-----------------------------------------------------------------------------
(* Ping goroutines                                                         *)

otherThanPing == <<conn, dials, closeSent, peerClosed, readerPc, readConn,
                   ctlPc, closeConn, pongsRecv>>

\* Mutant: one reply channel shared by the adapter instead of a fresh
\* `pong` per call (only the first call makes it).
PingStartSharedChannel(p) ==
    /\ pingPc[p] = "idle"
    /\ MutexFree
    /\ conn # NoConn
    /\ nextSlot < MaxPings
    /\ LET s == IF nextSlot = 0 THEN 1 ELSE nextSlot IN
       /\ nextSlot' = s
       /\ pingSlot' = [pingSlot EXCEPT ![p] = s]
       /\ pingConn' = [pingConn EXCEPT ![p] = conn]
       /\ slotConn' = [slotConn EXCEPT ![s] = conn]
       /\ outcome' = [outcome EXCEPT ![s] = "pending"]
    /\ pingPc' = [pingPc EXCEPT ![p] = "register"]
    /\ UNCHANGED otherThanPing
    /\ UNCHANGED <<queue, pongsDue, srcConn>>

\* Ping: copy adapter.conn under the mutex; nil check passes; make the
\* unbuffered `pong` channel.
PingStart(p) ==
    /\ pingPc[p] = "idle"
    /\ MutexFree
    /\ conn # NoConn
    /\ nextSlot < MaxPings
    /\ LET s == nextSlot + 1 IN
       /\ nextSlot' = s
       /\ pingSlot' = [pingSlot EXCEPT ![p] = s]
       /\ pingConn' = [pingConn EXCEPT ![p] = conn]
       /\ slotConn' = [slotConn EXCEPT ![s] = conn]
       /\ outcome' = [outcome EXCEPT ![s] = "pending"]
    /\ pingPc' = [pingPc EXCEPT ![p] = "register"]
    /\ UNCHANGED otherThanPing
    /\ UNCHANGED <<queue, pongsDue, srcConn>>

\* Ping returns, its slot abandoned wherever it is.
PingReturn(p, res) ==
    /\ pingPc' = [pingPc EXCEPT ![p] = "idle"]
    /\ pingConn' = [pingConn EXCEPT ![p] = NoConn]
    /\ pingSlot' = [pingSlot EXCEPT ![p] = NoSlot]
    /\ outcome' = [outcome EXCEPT ![pingSlot[p]] = res]
    /\ UNCHANGED <<nextSlot, slotConn, srcConn>>

\* Mutant: pingRequests made without a capacity bound.
PingRegisterUnbounded(p) ==
    /\ pingPc[p] = "register"
    /\ queue' = Append(queue, pingSlot[p])
    /\ pingPc' = [pingPc EXCEPT ![p] = "send"]
    /\ UNCHANGED otherThanPing
    /\ UNCHANGED <<pongsDue, pingConn, pingSlot, nextSlot,
                   outcome, slotConn, srcConn>>

\* `adapter.pingRequests <- pong` when the channel has room.
PingRegister(p) ==
    /\ pingPc[p] = "register"
    /\ Len(queue) < QueueCap
    /\ queue' = Append(queue, pingSlot[p])
    /\ pingPc' = [pingPc EXCEPT ![p] = "send"]
    /\ UNCHANGED otherThanPing
    /\ UNCHANGED <<pongsDue, pingConn, pingSlot, nextSlot,
                   outcome, slotConn, srcConn>>

\* The context ends while Ping is blocked on a full pingRequests.
PingRegisterCancel(p) ==
    /\ pingPc[p] = "register"
    /\ PingReturn(p, "ctx")
    /\ UNCHANGED otherThanPing
    /\ UNCHANGED <<queue, pongsDue>>

\* WriteControl(PingMessage) on the local copy: after a close frame gorilla
\* fails it; otherwise it may succeed or fail with an I/O error.
PingWrite(p) ==
    /\ pingPc[p] = "send"
    /\ \/ /\ pingConn[p] \notin closeSent
          /\ pongsDue' = [pongsDue EXCEPT ![pingConn[p]] = @ + 1]
          /\ pingPc' = [pingPc EXCEPT ![p] = "sent"]
          /\ UNCHANGED <<pingConn, pingSlot, nextSlot, outcome, slotConn, srcConn>>
       \/ /\ PingReturn(p, "error")
          /\ UNCHANGED pongsDue
    /\ UNCHANGED otherThanPing
    /\ UNCHANGED queue

\* Ping enters the final select on ctx.Done() and `<-pong`.
PingWait(p) ==
    /\ pingPc[p] = "sent"
    /\ pingPc' = [pingPc EXCEPT ![p] = "wait"]
    /\ UNCHANGED otherThanPing
    /\ UNCHANGED <<queue, pongsDue, pingConn, pingSlot,
                   nextSlot, outcome, slotConn, srcConn>>

\* The context ends first in the final select.
PingCancel(p) ==
    /\ pingPc[p] = "wait"
    /\ PingReturn(p, "ctx")
    /\ UNCHANGED otherThanPing
    /\ UNCHANGED <<queue, pongsDue>>

Ping(p) ==
    \/ PingStart(p) \/ PingRegister(p) \/ PingRegisterCancel(p)
    \/ PingWrite(p) \/ PingWait(p) \/ PingCancel(p)

-----------------------------------------------------------------------------
Next ==
    \/ Dial \/ WriteLock \/ WriteSend \/ CloseLock \/ CloseSend \/ CloseScan
    \/ ReadStart \/ ReadReturn \/ ReadPong \/ PongHandler
    \/ ReadPeerClose \/ CloseHandler \/ ReadDropConn
    \/ \E p \in Pingers : Ping(p)

Spec == Init /\ [][Next]_vars

-----------------------------------------------------------------------------
(* Properties                                                              *)

\* Every variable has its type; pingRequests never holds more than its
\* capacity (a send on a full channel blocks).
TypeOK ==
    /\ conn \in {NoConn} \cup Conns
    /\ dials \in 0 .. MaxDials
    /\ queue \in Seq(Slots)
    /\ Len(queue) <= QueueCap
    /\ closeSent \subseteq Conns
    /\ peerClosed \subseteq Conns
    /\ pongsDue \in [Conns -> Nat]
    /\ pingPc \in [Pingers -> {"idle", "register", "send", "sent", "wait"}]
    /\ pingConn \in [Pingers -> {NoConn} \cup Conns]
    /\ pingSlot \in [Pingers -> {NoSlot} \cup Slots]
    /\ nextSlot \in 0 .. MaxPings
    /\ outcome \in [Slots -> Outcomes]
    /\ slotConn \in [Slots -> {NoConn} \cup Conns]
    /\ srcConn \in [Slots -> {NoConn} \cup Conns]
    /\ readerPc \in {"idle", "reading", "pongScan", "closeScan", "closing"}
    /\ readConn \in {NoConn} \cup Conns
    /\ ctlPc \in {"idle", "writeSend", "closeSend", "closeScan", "panic"}
    /\ closeConn \in {NoConn} \cup Conns
    /\ pongsRecv \in Nat

\* One pong frame satisfies at most one pending Ping (spec: "exactly one
\* resolves successfully per pong"): pongHandler's scan must stop at the
\* first listener that takes the notification.
PongAccounting ==
    Cardinality({s \in Slots : outcome[s] = "pong"}) <= pongsRecv

\* Each running Ping call owns its reply channel: the `pong` it made is
\* not shared with any other running call, and nothing has been resolved
\* on it yet.  A notification scan may only send on it while the call is
\* blocked in its final select, and the call then returns with what it got;
\* a call that returns early (context, write error) abandons the channel.
\* So no pong or close error is ever delivered to a call that does not
\* return it.
ReplySlotsOwned ==
    \A p \in Pingers : pingPc[p] # "idle" =>
        /\ pingSlot[p] \in Slots
        /\ outcome[pingSlot[p]] = "pending"
        /\ \A q \in Pingers \ {p} :
              pingPc[q] # "idle" => pingSlot[q] # pingSlot[p]

\* A Ping call's result is final: once a slot holds the notification a
\* scan delivered on it, or the error its call returned with, no later step
\* changes it.  A new Ping never reuses the channel of a call that
\* finished, and no scan sends on a channel whose call has returned.
ResultsFinal ==
    [][\A s \in Slots :
         outcome[s] \notin {"none", "pending"} => outcome'[s] = outcome[s]]_vars

\* When a close notification scan (Close, or closeHandler) returns, no
\* Ping still blocked waiting for its reply has its slot left in the queue:
\* every pending Ping is released with the close error (spec 4.1, 4.2, 8).
CloseReleasesAllWaiters ==
    [][(\/ ctlPc = "closeScan" /\ ctlPc' # "closeScan"
        \/ readerPc = "closeScan" /\ readerPc' # "closeScan")
       => \A i \in 1 .. Len(queue'), p \in Pingers :
              ~(pingPc'[p] = "wait" /\ pingSlot'[p] = queue'[i])]_vars

\* A Ping blocked waiting for its reply still has its slot registered, so
\* a later pong or close can reach it: registering before the ping frame is
\* written keeps a fast pong from being dropped (spec 4.1).
WaitingIsRegistered ==
    \A p \in Pingers : pingPc[p] = "wait" => pingSlot[p] \in Range(queue)

\* Every connection the adapter dialed and that is still open on both
\* sides is the bound one: no connection is dropped without a close.
NoLeakedConnection ==
    \A c \in 1 .. dials :
        c \notin closeSent \cup peerClosed => conn = c

\* Write and Close never dereference a nil adapter.conn after their nil
\* check passed.
NoNilDereference == ctlPc # "panic"

\* A Ping succeeds only on a pong of the connection it pinged.
PongFromOwnConnection ==
    \A s \in Slots : outcome[s] = "pong" => srcConn[s] = slotConn[s]

\* pingRequests is full of slots whose Ping calls have already returned,
\* and nothing will pop them: no pong is due on the bound connection and no
\* notification scan is running.  Every later Ping on this connection then
\* blocks in registration until its own context ends.
QueueClogged ==
    /\ conn # NoConn
    /\ Len(queue) = QueueCap
    /\ \A i \in 1 .. Len(queue) : outcome[queue[i]] # "pending"
    /\ pongsDue[conn] = 0
    /\ readerPc \notin {"pongScan", "closeScan"}
    /\ ctlPc # "closeScan"

\* Spec 7: a failed ping send fails only its own call.  But Ping registers
\* its slot before WriteControl and leaves it in pingRequests when the
\* write fails, and only a pong or close scan pops it: QueueCap failed
\* sends with no pong due make every later Ping on the connection fail.
FailedPingFailsOnlyItself == ~QueueClogged

=============================================================================
