------------------------- MODULE ExampleClientProofs -------------------------
(***************************************************************************)
(* Proofs about ExampleClient for every value of the bounds.               *)
(***************************************************************************)
EXTENDS ExampleClient, TLAPS

USE ClientConstantsAssumption DEF Phases, RestartLimit, RetryLimit,
                                  RetryCountCap, Saturate

\* TypeOK alone is not inductive: OnMessage keeps processedMsgCount within
\* MaxMsgs only because, in a session, it equals the session's message
\* count, which the engine bounds.  So the two invariants are proved
\* together.
CInv == TypeOK /\ SessionCountersFresh

LEMMA ClientInit == Init => CInv
<1> SUFFICES ASSUME Init PROVE CInv
  OBVIOUS
<1>1. processedMsgCount \in 0 .. MaxMsgs /\ restartCount \in 0 .. MaxMsgs + 1
  BY DEF Init
<1>2. sessionMsgs \in 0 .. MaxMsgs /\ retryCount \in 0 .. RetryCountCap
        /\ sessions \in 0 .. MaxSessions /\ consecutiveRestarts \in 0 .. RestartLimit
  BY DEF Init
<1>3. exitCalled \in BOOLEAN /\ phase \in Phases
  BY Zenon DEF Init
<1>5. exitBy \subseteq {"open", "retry"}
  BY Zenon DEF Init
<1>4. QED
  BY <1>1, <1>2, <1>3, <1>5 DEF Init, CInv, TypeOK, SessionCountersFresh

LEMMA ClientStep == CInv /\ [Next]_vars => CInv'
<1> SUFFICES ASSUME CInv, [Next]_vars PROVE CInv'
  OBVIOUS
<1> USE DEF CInv, TypeOK, SessionCountersFresh
<1>1. CASE EngineStart
  <2>1. PICK ok \in BOOLEAN :
          /\ OnOpen(FALSE, ok)
          /\ phase' = IF ok THEN "session" ELSE "stopped"
    BY <1>1, Zenon DEF EngineStart
  <2>2. /\ sessionMsgs' = 0
        /\ UNCHANGED <<retryCount, sessions, consecutiveRestarts>>
    BY <1>1 DEF EngineStart
  <2>3. CASE ok
    BY <2>1, <2>2, <2>3 DEF OnOpen
  <2>4. CASE ~ok
    BY <2>1, <2>2, <2>4 DEF OnOpen
  <2>5. QED
    BY <2>3, <2>4
<1>2. CASE EngineMessage
  BY <1>2 DEF EngineMessage, OnMessage
<1>3. CASE EngineReadError
  BY <1>3 DEF EngineReadError, OnReadError, clientVars
<1>4. CASE EngineTearDown
  <2>1. UNCHANGED clientVars
    BY <1>4, Zenon DEF EngineTearDown, OnClose, OnCloseError
  <2>2. QED
    BY <1>4, <2>1 DEF EngineTearDown, clientVars
<1>5. CASE EngineRedial
  BY <1>5 DEF EngineRedial, clientVars
<1>6. CASE EngineReopen
  BY <1>6 DEF EngineReopen, OnOpen
<1>7. CASE EngineReportFailure
  BY <1>7 DEF EngineReportFailure, OnRestartError
<1>8. CASE EngineExit
  BY <1>8 DEF EngineExit, clientVars
<1>9. CASE UNCHANGED vars
  BY <1>9 DEF vars
<1>10. QED
  BY <1>1, <1>2, <1>3, <1>4, <1>5, <1>6, <1>7, <1>8, <1>9 DEF Next

\* The client's variables always hold values of their types.
THEOREM ClientTypeCorrect == Spec => []TypeOK
<1>1. Init => CInv
  BY ClientInit
<1>2. CInv /\ [][Next]_vars => []CInv
  BY ClientStep, PTL
<1>3. CInv => TypeOK
  BY DEF CInv
<1>4. QED
  BY <1>1, <1>2, <1>3, PTL DEF Spec

\* In every behaviour, while a session runs its restart counter is zero and
\* its message counter counts that session's messages only: OnOpen's reset
\* is never skipped on a path that starts a session.
THEOREM CountersFreshInSessions == Spec => []SessionCountersFresh
<1>1. Init => CInv
  BY ClientInit
<1>2. CInv /\ [][Next]_vars => []CInv
  BY ClientStep, PTL
<1>3. CInv => SessionCountersFresh
  BY DEF CInv
<1>4. QED
  BY <1>1, <1>2, <1>3, PTL DEF Spec

=============================================================================
