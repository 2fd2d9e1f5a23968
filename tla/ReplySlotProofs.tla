---------------------------- MODULE ReplySlotProofs ----------------------------
(***************************************************************************)
(* The reply slots of GorillaAdapter, for every value of the constants.   *)
(*                                                                         *)
(* Every `pong` channel a Ping call makes is its own: no other running     *)
(* call shares it, nothing is sent on it before the call blocks in its     *)
(* final select, and a result on it is never overwritten.  The inductive   *)
(* invariant SlotInv adds to ReplySlotsOwned that slots past nextSlot are  *)
(* still fresh ("none"), which PingStart needs: the slot it takes must not *)
(* hold an earlier call's result.                                          *)
(***************************************************************************)
EXTENDS GorillaAdapterProofs

USE ConstantsAssumption DEF NoConn, Conns, NoSlot, Slots, Outcomes

SlotInv ==
    /\ \A s \in Slots : s > nextSlot => outcome[s] = "none"
    /\ \A p \in Pingers : pingPc[p] # "idle" =>
          /\ pingSlot[p] \in 1 .. nextSlot
          /\ outcome[pingSlot[p]] = "pending"
    /\ \A p, q \in Pingers :
          pingPc[p] # "idle" /\ pingPc[q] # "idle" /\ pingSlot[p] = pingSlot[q]
              => p = q

LEMMA SlotInit == Init => SlotInv
BY DEF Init, SlotInv

\* A scan's delivery to a receptive slot: the slot is its waiter's, still
\* pending, and SlotInv survives the waiter's return.
LEMMA DeliverSlot ==
    ASSUME TypeInv, SlotInv, NEW s, Receptive(s), NEW note, NEW src,
           Deliver(s, note, src)
    PROVE  /\ s \in Slots
           /\ outcome[s] = "pending"
           /\ outcome' = [outcome EXCEPT ![s] = note]
           /\ SlotInv'
<1> DEFINE w == WaiterOf(s)
<1>1. w \in Pingers /\ pingPc[w] = "wait" /\ pingSlot[w] = s
  BY DEF Receptive, WaiterOf
<1>2. s \in 1 .. nextSlot /\ outcome[s] = "pending"
  BY <1>1 DEF SlotInv
<1>3. /\ pingPc' = [pingPc EXCEPT ![w] = "idle"]
      /\ pingSlot' = [pingSlot EXCEPT ![w] = NoSlot]
      /\ outcome' = [outcome EXCEPT ![s] = note]
      /\ nextSlot' = nextSlot
  BY DEF Deliver
<1>4. \A q \in Pingers : pingPc'[q] # "idle" =>
          /\ q # w
          /\ pingPc'[q] = pingPc[q] /\ pingSlot'[q] = pingSlot[q]
          /\ pingSlot[q] # s
  BY <1>1, <1>3 DEF SlotInv, TypeInv, TypeOK
<1>5. QED BY <1>1, <1>2, <1>3, <1>4 DEF SlotInv, TypeInv, TypeOK

\* A Ping call returning early gives up its slot, which was pending.
LEMMA ReturnSlot ==
    ASSUME TypeInv, SlotInv, NEW p \in Pingers, pingPc[p] # "idle",
           NEW res, PingReturn(p, res)
    PROVE  SlotInv'
<1>1. pingSlot[p] \in 1 .. nextSlot /\ outcome[pingSlot[p]] = "pending"
  BY DEF SlotInv
<1>2. /\ pingPc' = [pingPc EXCEPT ![p] = "idle"]
      /\ pingSlot' = [pingSlot EXCEPT ![p] = NoSlot]
      /\ outcome' = [outcome EXCEPT ![pingSlot[p]] = res]
      /\ nextSlot' = nextSlot
  BY DEF PingReturn
<1>3. \A q \in Pingers : pingPc'[q] # "idle" =>
          /\ q # p
          /\ pingPc'[q] = pingPc[q] /\ pingSlot'[q] = pingSlot[q]
          /\ pingSlot[q] # pingSlot[p]
  BY <1>2 DEF SlotInv, TypeInv, TypeOK
<1>4. QED
  BY <1>1, <1>2, <1>3 DEF SlotInv, TypeInv, TypeOK

\* One iteration of either notification scan keeps SlotInv, and either
\* leaves the outcomes alone or writes its note over one pending slot.
LEMMA ScanSlot ==
    ASSUME TypeInv, SlotInv, NEW note, NEW src, NEW Done, NEW Continue,
           \/ PropagateToFirstActiveListener(note, src, Done, Continue)
           \/ PropagateToAllActiveListener(note, src, Done, Continue)
    PROVE  /\ SlotInv'
           /\ \/ UNCHANGED outcome
              \/ \E s \in Slots : /\ outcome[s] = "pending"
                                  /\ outcome' = [outcome EXCEPT ![s] = note]
<1>1. \/ UNCHANGED pingVars
      \/ Receptive(Head(queue)) /\ Deliver(Head(queue), note, src)
  BY DEF PropagateToFirstActiveListener, PropagateToAllActiveListener
<1>2. CASE UNCHANGED pingVars
  BY <1>2 DEF pingVars, SlotInv
<1>3. CASE Receptive(Head(queue)) /\ Deliver(Head(queue), note, src)
  BY <1>3, DeliverSlot
<1>4. QED BY <1>1, <1>2, <1>3

LEMMA SlotStep == TypeInv /\ SlotInv /\ [Next]_vars => SlotInv'
<1> SUFFICES ASSUME TypeInv, SlotInv, [Next]_vars PROVE SlotInv'
  OBVIOUS
<1>1. CASE CloseScan
  BY <1>1, ScanSlot DEF CloseScan
<1>2. CASE PongHandler \/ CloseHandler
  BY <1>2, ScanSlot DEF PongHandler, CloseHandler
<1>3. CASE \E p \in Pingers : Ping(p)
  <2>1. PICK p \in Pingers : Ping(p)
    BY <1>3
  <2>2. CASE PingStart(p)
    <3> DEFINE s == nextSlot + 1
    <3>1. /\ pingPc[p] = "idle" /\ nextSlot < MaxPings
          /\ nextSlot' = s
          /\ pingSlot' = [pingSlot EXCEPT ![p] = s]
          /\ outcome' = [outcome EXCEPT ![s] = "pending"]
          /\ pingPc' = [pingPc EXCEPT ![p] = "register"]
      BY <2>2 DEF PingStart
    <3>2. \A q \in Pingers : q # p /\ pingPc[q] # "idle" => pingSlot[q] # s
      BY DEF SlotInv, TypeInv, TypeOK
    <3>3. QED BY <3>1, <3>2 DEF SlotInv, TypeInv, TypeOK
  <2>3. CASE PingRegister(p) \/ PingWait(p)
    <3>1. /\ UNCHANGED <<nextSlot, pingSlot, outcome>>
          /\ pingPc[p] # "idle"
          /\ pingPc' = [pingPc EXCEPT ![p] = IF PingWait(p) THEN "wait" ELSE "send"]
      BY <2>3 DEF PingRegister, PingWait
    <3>2. \A q \in Pingers : pingPc'[q] # "idle" <=> pingPc[q] # "idle"
      BY <3>1 DEF TypeInv, TypeOK
    <3>3. QED BY <3>1, <3>2 DEF SlotInv
  <2>4. CASE PingRegisterCancel(p) \/ PingCancel(p)
    <3>1. pingPc[p] # "idle" /\ PingReturn(p, "ctx")
      BY <2>4 DEF PingRegisterCancel, PingCancel
    <3>2. QED BY <3>1, ReturnSlot
  <2>5. CASE PingWrite(p)
    <3>1. CASE PingReturn(p, "error")
      <4>1. pingPc[p] # "idle"
        BY <2>5 DEF PingWrite
      <4>2. QED BY <3>1, <4>1, ReturnSlot
    <3>2. CASE UNCHANGED <<nextSlot, pingSlot, outcome>>
               /\ pingPc' = [pingPc EXCEPT ![p] = "sent"]
      <4>1. \A q \in Pingers : pingPc'[q] # "idle" <=> pingPc[q] # "idle"
        BY <2>5, <3>2 DEF PingWrite, TypeInv, TypeOK
      <4>2. QED BY <3>2, <4>1 DEF SlotInv
    <3>3. QED BY <2>5, <3>1, <3>2 DEF PingWrite
  <2>6. QED BY <2>1, <2>2, <2>3, <2>4, <2>5 DEF Ping
<1>4. CASE \/ Dial \/ WriteLock \/ WriteSend \/ CloseLock \/ CloseSend
           \/ ReadStart \/ ReadReturn \/ ReadPong \/ ReadPeerClose
           \/ ReadDropConn \/ UNCHANGED vars
  BY <1>4 DEF Dial, WriteLock, WriteSend, CloseLock, CloseSend, ReadStart,
              ReadReturn, ReadPong, ReadPeerClose, ReadDropConn, pingVars,
              vars, SlotInv
<1>5. QED BY <1>1, <1>2, <1>3, <1>4 DEF Next

\* SlotInv, with the types, is the property ReplySlotsOwned: a running
\* call's slot is one of 1 .. nextSlot, hence a slot, and pending.
LEMMA SlotInvOwned == TypeInv /\ SlotInv => ReplySlotsOwned
<1> SUFFICES ASSUME TypeInv, SlotInv, NEW p \in Pingers, pingPc[p] # "idle"
             PROVE  /\ pingSlot[p] \in Slots
                    /\ outcome[pingSlot[p]] = "pending"
                    /\ \A q \in Pingers \ {p} :
                          pingPc[q] # "idle" => pingSlot[q] # pingSlot[p]
  BY DEF ReplySlotsOwned
<1>1. pingSlot[p] \in Slots /\ outcome[pingSlot[p]] = "pending"
  BY DEF TypeInv, SlotInv
<1>2. \A q \in Pingers \ {p} : pingPc[q] # "idle" => pingSlot[q] # pingSlot[p]
  BY DEF SlotInv
<1>3. QED BY <1>1, <1>2

\* In every instance, every running Ping call owns its reply channel: no
\* other running call shares it and nothing was resolved on it.  The scans
\* of pongHandler, closeHandler and Close send only to a call blocked on
\* `<-pong`, which returns with the notification in the same step, and a
\* call that returns early abandons its channel.
THEOREM ReplySlotsOwnedHolds == Spec => []ReplySlotsOwned
<1>1. Init => TypeInv /\ SlotInv
  BY TypeInit, SlotInit
<1>2. TypeInv /\ SlotInv /\ [Next]_vars => (TypeInv /\ SlotInv)'
  BY TypeStep, SlotStep
<1>3. QED BY <1>1, <1>2, SlotInvOwned, PTL DEF Spec

\* Every step either leaves the outcomes alone or writes one slot that is
\* still fresh (PingStart) or pending (a delivery, a Ping returning).
LEMMA OpenSlotWrite ==
    ASSUME TypeInv, SlotInv, [Next]_vars
    PROVE  \/ UNCHANGED outcome
           \/ \E s \in Slots :
                 /\ outcome[s] \in {"none", "pending"}
                 /\ outcome' = [outcome EXCEPT ![s] = outcome'[s]]
<1>1. CASE CloseScan
  BY <1>1, ScanSlot DEF CloseScan
<1>2. CASE PongHandler \/ CloseHandler
  BY <1>2, ScanSlot DEF PongHandler, CloseHandler
<1>3. CASE \E p \in Pingers : Ping(p)
  <2>1. PICK p \in Pingers : Ping(p)
    BY <1>3
  <2>2. CASE PingStart(p)
    <3> DEFINE s == nextSlot + 1
    <3>1. /\ nextSlot < MaxPings
          /\ outcome' = [outcome EXCEPT ![s] = "pending"]
      BY <2>2 DEF PingStart
    <3>2. s \in Slots /\ outcome[s] = "none"
      BY <3>1 DEF SlotInv, TypeInv, TypeOK
    <3>3. QED BY <3>1, <3>2 DEF TypeInv, TypeOK
  <2>3. CASE PingRegister(p) \/ PingWait(p)
    BY <2>3 DEF PingRegister, PingWait
  <2>4. ASSUME pingPc[p] # "idle", NEW res, PingReturn(p, res)
        PROVE  \E s \in Slots :
                  /\ outcome[s] \in {"none", "pending"}
                  /\ outcome' = [outcome EXCEPT ![s] = outcome'[s]]
    <3>1. pingSlot[p] \in Slots /\ outcome[pingSlot[p]] = "pending"
      BY <2>4 DEF SlotInv, TypeInv
    <3>2. outcome' = [outcome EXCEPT ![pingSlot[p]] = res]
      BY <2>4 DEF PingReturn
    <3>3. QED BY <3>1, <3>2 DEF TypeInv, TypeOK
  <2>5. CASE PingRegisterCancel(p) \/ PingCancel(p)
    <3>1. pingPc[p] # "idle" /\ PingReturn(p, "ctx")
      BY <2>5 DEF PingRegisterCancel, PingCancel
    <3>2. QED BY <3>1, <2>4
  <2>6. CASE PingWrite(p)
    <3>1. CASE PingReturn(p, "error")
      <4>1. pingPc[p] # "idle"
        BY <2>6 DEF PingWrite
      <4>2. QED BY <3>1, <4>1, <2>4
    <3>2. CASE UNCHANGED outcome
      BY <3>2
    <3>3. QED BY <2>6, <3>1, <3>2 DEF PingWrite
  <2>7. QED BY <2>1, <2>2, <2>3, <2>5, <2>6 DEF Ping
<1>4. CASE \/ Dial \/ WriteLock \/ WriteSend \/ CloseLock \/ CloseSend
           \/ ReadStart \/ ReadReturn \/ ReadPong \/ ReadPeerClose
           \/ ReadDropConn \/ UNCHANGED vars
  BY <1>4 DEF Dial, WriteLock, WriteSend, CloseLock, CloseSend, ReadStart,
              ReadReturn, ReadPong, ReadPeerClose, ReadDropConn, pingVars,
              vars
<1>5. QED BY <1>1, <1>2, <1>3, <1>4 DEF Next

\* In every instance a Ping call's result, once delivered or returned, is
\* never overwritten: PingStart takes a slot no call used, and the scans
\* of pongHandler, closeHandler and Close only send to a blocked caller.
THEOREM ResultsFinalHolds == Spec => ResultsFinal
<1> DEFINE Final == \A s \in Slots :
                      outcome[s] \notin {"none", "pending"}
                          => outcome'[s] = outcome[s]
<1>1. TypeInv /\ SlotInv /\ [Next]_vars => [Final]_vars
  <2> SUFFICES ASSUME TypeInv, SlotInv, [Next]_vars PROVE Final
    OBVIOUS
  <2>1. CASE UNCHANGED outcome
    BY <2>1
  <2>2. CASE \E s \in Slots :
               /\ outcome[s] \in {"none", "pending"}
               /\ outcome' = [outcome EXCEPT ![s] = outcome'[s]]
    <3>1. PICK s \in Slots :
               /\ outcome[s] \in {"none", "pending"}
               /\ outcome' = [outcome EXCEPT ![s] = outcome'[s]]
      BY <2>2
    <3>2. QED BY <3>1 DEF TypeInv, TypeOK
  <2>3. QED BY <2>1, <2>2, OpenSlotWrite
<1>2. Spec => [](TypeInv /\ SlotInv)
  BY TypeInit, SlotInit, TypeStep, SlotStep, PTL DEF Spec
<1>3. QED BY <1>1, <1>2, PTL DEF Spec, ResultsFinal

=============================================================================
