------------------------ MODULE GorillaAdapterProofs ------------------------
(***************************************************************************)
(* Proofs about GorillaAdapter for every value of the constants.           *)
(***************************************************************************)
EXTENDS GorillaAdapter, FiniteSetTheorems, TLAPS

(***************************************************************************)
(* TypeOK is not inductive by itself: PingRegister appends pingSlot[p] to  *)
(* the queue, which is a slot only because PingStart gave p one.  TypeInv  *)
(* adds that every Ping goroutine past PingStart owns a slot, and that the *)
(* read loop past ReadStart holds a connection (ReadPeerClose adds it to   *)
(* peerClosed).                                                            *)
(***************************************************************************)
TypeInv ==
    /\ TypeOK
    /\ \A p \in Pingers : pingPc[p] # "idle" => pingSlot[p] \in Slots
    /\ readerPc # "idle" => readConn \in Conns

USE ConstantsAssumption DEF NoConn, Conns, NoSlot, Slots, Outcomes

LEMMA TypeInit == Init => TypeInv
BY DEF Init, TypeInv, TypeOK

\* The steps of a notification scan keep the types, whatever the scanning
\* goroutine does next.
LEMMA ScanType ==
    ASSUME TypeInv,
           NEW note \in Outcomes, NEW src \in {NoConn} \cup Conns,
           NEW Done, NEW Continue,
           \/ PropagateToFirstActiveListener(note, src, Done, Continue)
           \/ PropagateToAllActiveListener(note, src, Done, Continue)
    PROVE  /\ queue' \in Seq(Slots)
           /\ Len(queue') <= QueueCap
           /\ pingPc' \in [Pingers -> {"idle", "register", "send", "sent", "wait"}]
           /\ pingConn' \in [Pingers -> {NoConn} \cup Conns]
           /\ pingSlot' \in [Pingers -> {NoSlot} \cup Slots]
           /\ nextSlot' = nextSlot
           /\ outcome' \in [Slots -> Outcomes]
           /\ slotConn' = slotConn
           /\ srcConn' \in [Slots -> {NoConn} \cup Conns]
           /\ \A p \in Pingers : pingPc'[p] # "idle" => pingSlot'[p] \in Slots
<1>1. CASE queue = <<>>
  BY <1>1 DEF PropagateToFirstActiveListener, PropagateToAllActiveListener,
              pingVars, TypeInv, TypeOK
<1>2. CASE queue # <<>>
  <2>1. /\ queue' = Tail(queue)
        /\ \/ Deliver(Head(queue), note, src)
           \/ UNCHANGED pingVars
    BY <1>2 DEF PropagateToFirstActiveListener, PropagateToAllActiveListener
  <2>2. Head(queue) \in Slots /\ Tail(queue) \in Seq(Slots)
        /\ Len(Tail(queue)) <= QueueCap
    BY <1>2 DEF TypeInv, TypeOK
  <2>3. CASE Deliver(Head(queue), note, src)
    BY <2>1, <2>2, <2>3 DEF Deliver, TypeInv, TypeOK
  <2>4. CASE UNCHANGED pingVars
    BY <2>1, <2>2, <2>4 DEF pingVars, TypeInv, TypeOK
  <2>5. QED BY <2>1, <2>3, <2>4
<1>3. QED BY <1>1, <1>2

LEMMA TypeStep == TypeInv /\ [Next]_vars => TypeInv'
<1> SUFFICES ASSUME TypeInv, [Next]_vars PROVE TypeInv'
  OBVIOUS
<1>1. CASE Dial
  BY <1>1 DEF Dial, pingVars, TypeInv, TypeOK
<1>2. CASE WriteLock \/ WriteSend \/ CloseLock \/ CloseSend
  BY <1>2 DEF WriteLock, WriteSend, CloseLock, CloseSend, pingVars, TypeInv, TypeOK
<1>3. CASE CloseScan
  <2>1. /\ ctlPc' \in {"idle", "closeScan"}
        /\ conn' \in {NoConn} \cup Conns /\ closeConn' \in {NoConn} \cup Conns
        /\ UNCHANGED <<dials, closeSent, peerClosed, pongsDue, readerPc,
                       readConn, pongsRecv>>
    BY <1>3 DEF CloseScan, PropagateToAllActiveListener, TypeInv, TypeOK
  <2>2. closeConn \in {NoConn} \cup Conns
    BY DEF TypeInv, TypeOK
  <2>3. QED BY <1>3, <2>1, <2>2, ScanType DEF CloseScan, TypeInv, TypeOK
<1>4. CASE ReadStart \/ ReadReturn \/ ReadPong \/ ReadPeerClose \/ ReadDropConn
  <2>1. CASE ReadStart
    BY <2>1 DEF ReadStart, pingVars, TypeInv, TypeOK
  <2>2. CASE ReadReturn
    BY <2>2 DEF ReadReturn, pingVars, TypeInv, TypeOK
  <2>3. CASE ReadPong
    <3>1. pongsDue' \in [Conns -> Nat]
      <4>1. CASE readConn \in Conns
        BY <2>3, <4>1 DEF ReadPong, TypeInv, TypeOK
      <4>2. CASE readConn \notin Conns
        BY <2>3, <4>2 DEF ReadPong, TypeInv, TypeOK
      <4>3. QED BY <4>1, <4>2
    <3>2. QED BY <2>3, <3>1, SMTT(30) DEF ReadPong, pingVars, TypeInv, TypeOK
  <2>4. CASE ReadPeerClose
    BY <2>4 DEF ReadPeerClose, pingVars, TypeInv, TypeOK
  <2>5. CASE ReadDropConn
    BY <2>5 DEF ReadDropConn, pingVars, TypeInv, TypeOK
  <2>6. QED BY <1>4, <2>1, <2>2, <2>3, <2>4, <2>5
<1>5. CASE PongHandler \/ CloseHandler
  <2>1. /\ readerPc' \in {"pongScan", "reading", "closeScan", "closing"}
        /\ UNCHANGED <<conn, dials, closeSent, peerClosed, pongsDue, readConn,
                       ctlPc, closeConn, pongsRecv>>
    BY <1>5 DEF PongHandler, CloseHandler, PropagateToFirstActiveListener,
                PropagateToAllActiveListener
  <2>2. readConn \in Conns
    BY <1>5 DEF PongHandler, CloseHandler, TypeInv
  \* What the scan does to the Ping state and the queue.
  <2>3. /\ queue' \in Seq(Slots)
        /\ Len(queue') <= QueueCap
        /\ pingPc' \in [Pingers -> {"idle", "register", "send", "sent", "wait"}]
        /\ pingConn' \in [Pingers -> {NoConn} \cup Conns]
        /\ pingSlot' \in [Pingers -> {NoSlot} \cup Slots]
        /\ nextSlot' = nextSlot
        /\ outcome' \in [Slots -> Outcomes]
        /\ slotConn' = slotConn
        /\ srcConn' \in [Slots -> {NoConn} \cup Conns]
        /\ \A p \in Pingers : pingPc'[p] # "idle" => pingSlot'[p] \in Slots
    <3>1. CASE PongHandler
      <4>1. "pong" \in Outcomes
        OBVIOUS
      <4>2. QED BY <3>1, <4>1, <2>2, ScanType DEF PongHandler
    <3>2. CASE CloseHandler
      <4>1. "close" \in Outcomes
        OBVIOUS
      <4>2. QED BY <3>2, <4>1, <2>2, ScanType DEF CloseHandler
    <3>3. QED BY <1>5, <3>1, <3>2
  <2>4. QED BY <2>1, <2>2, <2>3 DEF TypeInv, TypeOK
<1>6. CASE \E p \in Pingers : Ping(p)
  <2>1. PICK p \in Pingers : Ping(p)
    BY <1>6
  <2>2. CASE PingStart(p)
    BY <2>2 DEF PingStart, otherThanPing, TypeInv, TypeOK
  <2>3. CASE PingRegister(p)
    BY <2>3 DEF PingRegister, otherThanPing, TypeInv, TypeOK
  <2>4. CASE PingRegisterCancel(p) \/ PingCancel(p)
    BY <2>4 DEF PingRegisterCancel, PingCancel, PingReturn, otherThanPing,
                TypeInv, TypeOK
  <2>5. CASE PingWrite(p)
    <3>1. CASE pingConn[p] \notin closeSent
               /\ pongsDue' = [pongsDue EXCEPT ![pingConn[p]] = @ + 1]
               /\ pingPc' = [pingPc EXCEPT ![p] = "sent"]
               /\ UNCHANGED <<pingConn, pingSlot, nextSlot, outcome, slotConn,
                              srcConn>>
      <4>1. pongsDue' \in [Conns -> Nat]
        <5>1. CASE pingConn[p] \in Conns
          BY <3>1, <5>1 DEF TypeInv, TypeOK
        <5>2. CASE pingConn[p] \notin Conns
          BY <3>1, <5>2 DEF TypeInv, TypeOK
        <5>3. QED BY <5>1, <5>2
      <4>2. QED BY <2>5, <3>1, <4>1 DEF PingWrite, otherThanPing, TypeInv, TypeOK
    <3>2. CASE PingReturn(p, "error") /\ UNCHANGED pongsDue
      BY <2>5, <3>2 DEF PingWrite, PingReturn, otherThanPing, TypeInv, TypeOK
    <3>3. QED BY <2>5, <3>1, <3>2 DEF PingWrite
  <2>6. CASE PingWait(p)
    BY <2>6 DEF PingWait, otherThanPing, TypeInv, TypeOK
  <2>7. QED BY <2>1, <2>2, <2>3, <2>4, <2>5, <2>6 DEF Ping
<1>7. CASE UNCHANGED vars
  BY <1>7 DEF vars, TypeInv, TypeOK
<1>8. QED BY <1>1, <1>2, <1>3, <1>4, <1>5, <1>6, <1>7 DEF Next

\* Every reachable state is well typed (TypeOK, checked by every run).
THEOREM TypeCorrect == Spec => []TypeOK
<1>1. Spec => []TypeInv
  BY TypeInit, TypeStep, PTL DEF Spec
<1>2. QED BY <1>1, PTL DEF TypeInv

(***************************************************************************)
(* PongAccounting.  The pong slots only grow in PongHandler, by the one    *)
(* slot its scan delivers to before it returns; the pong that started the *)
(* scan was already counted in pongsRecv by ReadPong.  So the invariant    *)
(* counts, next to the answered slots, the pong being scanned for.         *)
(***************************************************************************)
Ok(o) == {s \in Slots : o[s] = "pong"}

PongInv ==
    Cardinality(Ok(outcome)) + (IF readerPc = "pongScan" THEN 1 ELSE 0)
        <= pongsRecv


LEMMA OkFinite ==
    ASSUME NEW o
    PROVE  IsFiniteSet(Ok(o)) /\ Cardinality(Ok(o)) \in Nat
<1>1. IsFiniteSet(Slots)
  BY FS_Interval
<1>2. IsFiniteSet(Ok(o))
  BY <1>1, FS_Subset DEF Ok
<1>3. QED BY <1>2, FS_CardinalityType

\* A step that gives "pong" to no slot but t adds at most one pong slot.
LEMMA OkAddOne ==
    ASSUME NEW o, NEW o2, NEW t,
           \A s \in Slots : o2[s] = "pong" => o[s] = "pong" \/ s = t
    PROVE  Cardinality(Ok(o2)) <= Cardinality(Ok(o)) + 1
<1>1. Ok(o2) \subseteq Ok(o) \cup {t}
  BY DEF Ok
<1>2. /\ IsFiniteSet(Ok(o) \cup {t})
      /\ Cardinality(Ok(o) \cup {t}) <= Cardinality(Ok(o)) + 1
  BY OkFinite, FS_AddElement
<1>3. Cardinality(Ok(o2)) <= Cardinality(Ok(o) \cup {t})
  BY <1>1, <1>2, FS_Subset
<1>4. QED BY <1>2, <1>3, OkFinite, FS_CardinalityType

\* A step that gives "pong" to no slot adds no pong slot.
LEMMA OkShrink ==
    ASSUME NEW o, NEW o2,
           \A s \in Slots : o2[s] = "pong" => o[s] = "pong"
    PROVE  Cardinality(Ok(o2)) <= Cardinality(Ok(o))
<1>1. Ok(o2) \subseteq Ok(o)
  BY DEF Ok
<1>2. QED BY <1>1, OkFinite, FS_Subset

\* The close scans (Close, closeHandler) and the Ping steps only ever write
\* a value other than "pong" into outcome.
LEMMA NoNewPong ==
    ASSUME TypeInv,
           \/ CloseScan \/ CloseHandler
           \/ \E p \in Pingers : Ping(p)
    PROVE  \A s \in Slots : outcome'[s] = "pong" => outcome[s] = "pong"
<1>1. CASE CloseScan \/ CloseHandler
  <2>1. \/ UNCHANGED outcome
        \/ \E h : outcome' = [outcome EXCEPT ![h] = "close"]
    BY <1>1 DEF CloseScan, CloseHandler, PropagateToAllActiveListener,
                Deliver, pingVars
  <2>2. QED BY <2>1 DEF TypeInv, TypeOK
<1>2. CASE \E p \in Pingers : Ping(p)
  <2>1. PICK p \in Pingers : Ping(p)
    BY <1>2
  <2>2. CASE PingStart(p)
    BY <2>2 DEF PingStart, TypeInv, TypeOK
  <2>3. CASE PingRegister(p) \/ PingWait(p)
    BY <2>3 DEF PingRegister, PingWait
  <2>4. CASE PingRegisterCancel(p) \/ PingCancel(p)
    BY <2>4 DEF PingRegisterCancel, PingCancel, PingReturn, TypeInv, TypeOK
  <2>5. CASE PingWrite(p)
    BY <2>5 DEF PingWrite, PingReturn, TypeInv, TypeOK
  <2>6. QED BY <2>1, <2>2, <2>3, <2>4, <2>5 DEF Ping
<1>3. QED BY <1>1, <1>2

LEMMA PongStep == TypeInv /\ PongInv /\ [Next]_vars => PongInv'
<1> SUFFICES ASSUME TypeInv, PongInv, [Next]_vars PROVE PongInv'
  OBVIOUS
<1> DEFINE C == Cardinality(Ok(outcome))
           C2 == Cardinality(Ok(outcome'))
<1>0. C \in Nat /\ C2 \in Nat /\ pongsRecv \in Nat
  BY OkFinite DEF TypeInv, TypeOK
<1>1. CASE PongHandler
  <2>1. readerPc = "pongScan" /\ C + 1 <= pongsRecv
    BY <1>1 DEF PongHandler, PongInv
  <2>2. UNCHANGED pongsRecv /\ readerPc' \in {"pongScan", "reading"}
    BY <1>1 DEF PongHandler, PropagateToFirstActiveListener
  <2>3. CASE readerPc' = "pongScan"
    <3>1. UNCHANGED outcome
      BY <1>1, <2>3 DEF PongHandler, PropagateToFirstActiveListener, pingVars
    <3>2. C2 = C
      BY <3>1
    <3>3. QED BY <1>0, <2>1, <2>2, <2>3, <3>2 DEF PongInv
  <2>4. CASE readerPc' = "reading"
    <3>1. \E t : \A s \in Slots : outcome'[s] = "pong" => outcome[s] = "pong" \/ s = t
      <4>1. \/ UNCHANGED outcome
            \/ \E h : outcome' = [outcome EXCEPT ![h] = "pong"]
        BY <1>1 DEF PongHandler, PropagateToFirstActiveListener, Deliver, pingVars
      <4>2. QED BY <4>1 DEF TypeInv, TypeOK
    <3>2. C2 <= C + 1
      BY <3>1, OkAddOne
    <3>3. QED BY <1>0, <2>1, <2>2, <2>4, <3>2 DEF PongInv
  <2>5. QED BY <2>2, <2>3, <2>4
<1>2. CASE CloseScan \/ CloseHandler \/ \E p \in Pingers : Ping(p)
  <2>1. C2 <= C
    BY <1>2, NoNewPong, OkShrink
  <2>2. UNCHANGED pongsRecv
    BY <1>2 DEF CloseScan, CloseHandler, Ping, PingStart, PingRegister,
                PingRegisterCancel, PingWrite, PingWait, PingCancel, otherThanPing
  <2>3. readerPc' = "pongScan" => readerPc = "pongScan"
    BY <1>2 DEF CloseScan, CloseHandler, PropagateToAllActiveListener, Ping,
                PingStart, PingRegister, PingRegisterCancel, PingWrite, PingWait,
                PingCancel, otherThanPing
  <2>4. QED BY <1>0, <2>1, <2>2, <2>3 DEF PongInv
<1>3. CASE ReadPong
  BY <1>0, <1>3 DEF ReadPong, PongInv, pingVars
<1>4. CASE \/ Dial \/ WriteLock \/ WriteSend \/ CloseLock \/ CloseSend
           \/ ReadStart \/ ReadReturn \/ ReadPeerClose \/ ReadDropConn
           \/ UNCHANGED vars
  <2>1. /\ UNCHANGED <<outcome, pongsRecv>>
        /\ readerPc' = "pongScan" <=> readerPc = "pongScan"
    BY <1>4 DEF Dial, WriteLock, WriteSend, CloseLock, CloseSend, ReadStart,
                ReadReturn, ReadPeerClose, ReadDropConn, pingVars, vars
  <2>2. QED BY <2>1 DEF PongInv
<1>5. QED BY <1>1, <1>2, <1>3, <1>4 DEF Next

\* One pong frame answers at most one Ping call: the Ping calls that
\* returned nil are never more than the pong frames the read loop handled.
THEOREM PongAccountingHolds == Spec => []PongAccounting
<1>1. Init => PongInv
  <2>1. Init => Ok(outcome) = {}
    BY DEF Init, Ok
  <2>2. Init => Cardinality(Ok(outcome)) = 0
    BY <2>1, FS_EmptySet
  <2>3. QED BY <2>2 DEF Init, PongInv
<1>2. Spec => []TypeInv
  BY TypeInit, TypeStep, PTL DEF Spec
<1>3. Spec => []PongInv
  BY <1>1, <1>2, PongStep, PTL DEF Spec
<1>4. TypeInv /\ PongInv => PongAccounting
  <2> SUFFICES ASSUME TypeInv, PongInv PROVE PongAccounting
    OBVIOUS
  <2>1. Ok(outcome) = {s \in Slots : outcome[s] = "pong"}
    BY DEF Ok
  <2>2. Cardinality(Ok(outcome)) \in Nat /\ pongsRecv \in Nat
    BY OkFinite DEF TypeInv, TypeOK
  <2>3. QED BY <2>1, <2>2 DEF PongInv, PongAccounting
<1>5. QED BY <1>2, <1>3, <1>4, PTL

=============================================================================
