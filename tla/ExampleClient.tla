---------------------------- MODULE ExampleClient ----------------------------
(***************************************************************************)
(* ExampleClientImpl (src/example/client/websocket/client.go): the example *)
(* callbacks, driven by the session engine that owns them.                 *)
(*                                                                         *)
(* The client's state is its two counters.  The engine (gowse wscengine,   *)
(* an external library) is the environment: it opens a session with        *)
(* OnOpen, feeds it messages through OnMessage, ends it on a read error or *)
(* on restart(), and then retries: a failed dial or a failed OnOpen is      *)
(* reported to OnRestartError with the number of failed attempts, and a    *)
(* successful one calls OnOpen with restarting = TRUE.  Once a callback    *)
(* has called exit(), the engine calls no further callback and stops.      *)
(* The conn.Write of OnOpen and OnMessage is abstracted to its result.     *)
(***************************************************************************)
EXTENDS Naturals

CONSTANTS
    MaxMsgs,      \* bound on the messages one session delivers
    MaxSessions   \* bound on the sessions the engine ends

ASSUME ClientConstantsAssumption ==
    /\ MaxMsgs \in Nat \ {0}
    /\ MaxSessions \in Nat \ {0}

\* The literals the callbacks compare their counters with.
RestartLimit == 3   \* OnOpen: client.restartCount >= 3
RetryLimit == 5     \* OnRestartError: retryCount >= 5

\* The engine counts failed attempts without bound.  The callbacks only
\* compare counts with the literals above, so a count is kept up to one
\* past its literal: larger values behave alike in every comparison.
RetryCountCap == RetryLimit + 1
Saturate(n, cap) == IF n < cap THEN n ELSE cap

\* Where the engine is: calling OnOpen for Start, running a session, tearing
\* a session down, about to dial again, reporting a failed attempt, calling
\* OnOpen for a restart, stopped.
Phases == {"starting", "session", "restarting", "retrying", "failed",
           "reopening", "stopped"}

VARIABLES
    processedMsgCount,    \* client.processedMsgCount
    restartCount,         \* client.restartCount
    exitCalled,           \* a callback called the engine's exit()
    phase,                \* the engine's position
    retryCount,           \* the engine's failed restart attempts in a row
    sessions,             \* sessions the engine has ended
    consecutiveRestarts,  \* history: OnOpen(restarting) calls since the
                          \*   last OnOpen that returned nil, kept up to
                          \*   RestartLimit
    sessionMsgs,          \* history: messages of the current session
    exitBy                \* history: the callbacks that called exit()

clientVars == <<processedMsgCount, restartCount, exitCalled, exitBy>>
engineVars == <<phase, retryCount, sessions, consecutiveRestarts,
                sessionMsgs>>
vars == <<processedMsgCount, restartCount, exitCalled, phase, retryCount,
          sessions, consecutiveRestarts, sessionMsgs, exitBy>>

\* NewExampleClientImpl: both counters start at zero.
Init ==
    /\ processedMsgCount = 0
    /\ restartCount = 0
    /\ exitCalled = FALSE
    /\ phase = "starting"
    /\ retryCount = 0
    /\ sessions = 0
    /\ consecutiveRestarts = 0
    /\ sessionMsgs = 0
    /\ exitBy = {}

(***************************************************************************)
(* The callbacks.  Each is the whole Go function; writeOk is the result of *)
(* its conn.Write.                                                          *)
(***************************************************************************)

\* Mutant of OnOpen: the success path forgets to reset processedMsgCount.
OnOpenKeepsMsgCount(restarting, writeOk) ==
    LET rc == IF restarting THEN processedMsgCount + 1 ELSE restartCount
        giveUp == restarting /\ rc >= RestartLimit
    IN  /\ restartCount' = IF writeOk THEN 0 ELSE rc
        /\ processedMsgCount' = processedMsgCount
        /\ exitCalled' = (exitCalled \/ giveUp)
        /\ exitBy' = IF giveUp THEN exitBy \cup {"open"} ELSE exitBy

\* OnOpen: on a restart, set the restart counter and call exit() when it
\* reaches the limit; then send the greeting and, if that worked, reset
\* both counters.
OnOpen(restarting, writeOk) ==
    LET rc == IF restarting THEN processedMsgCount + 1 ELSE restartCount
        giveUp == restarting /\ rc >= RestartLimit
    IN  /\ restartCount' = IF writeOk THEN 0 ELSE rc
        /\ processedMsgCount' = IF writeOk THEN 0 ELSE processedMsgCount
        /\ exitCalled' = (exitCalled \/ giveUp)
        /\ exitBy' = IF giveUp THEN exitBy \cup {"open"} ELSE exitBy

\* OnMessage: count the message, then echo; a failed echo calls restart(),
\* which makes the engine tear the session down.
OnMessage(writeOk) ==
    /\ processedMsgCount' = processedMsgCount + 1
    /\ phase' = IF writeOk THEN "session" ELSE "restarting"
    /\ UNCHANGED <<restartCount, exitCalled, exitBy>>

\* OnReadError, OnClose and OnCloseError only trace and log.
OnReadError == UNCHANGED clientVars
OnClose == UNCHANGED clientVars
OnCloseError == UNCHANGED clientVars

\* Mutant of OnRestartError: it tests the client's own restartCount
\* instead of the retry count the engine passed in.
OnRestartErrorOwnCounter(n) ==
    /\ exitCalled' = (exitCalled \/ restartCount >= RetryLimit)
    /\ exitBy' = IF restartCount >= RetryLimit THEN exitBy \cup {"retry"}
                                               ELSE exitBy
    /\ UNCHANGED <<processedMsgCount, restartCount>>

\* OnRestartError: call exit() from the fifth failed attempt on.
OnRestartError(n) ==
    /\ exitCalled' = (exitCalled \/ n >= RetryLimit)
    /\ exitBy' = IF n >= RetryLimit THEN exitBy \cup {"retry"} ELSE exitBy
    /\ UNCHANGED <<processedMsgCount, restartCount>>

(***************************************************************************)
(* The engine.                                                              *)
(***************************************************************************)

\* Start: OnOpen(restarting = FALSE); an error makes Start fail.
EngineStart ==
    /\ phase = "starting"
    /\ \E ok \in BOOLEAN :
        /\ OnOpen(FALSE, ok)
        /\ phase' = IF ok THEN "session" ELSE "stopped"
    /\ sessionMsgs' = 0
    /\ UNCHANGED <<retryCount, sessions, consecutiveRestarts>>

\* The read loop hands a message to OnMessage; a failed echo calls restart().
EngineMessage ==
    /\ phase = "session"
    /\ ~exitCalled
    /\ sessionMsgs < MaxMsgs
    /\ \E ok \in BOOLEAN : OnMessage(ok)
    /\ sessionMsgs' = sessionMsgs + 1
    /\ UNCHANGED <<retryCount, sessions, consecutiveRestarts>>

\* A read fails (the peer closed, the network broke): OnReadError, restart.
EngineReadError ==
    /\ phase = "session"
    /\ ~exitCalled
    /\ OnReadError
    /\ phase' = "restarting"
    /\ UNCHANGED <<retryCount, sessions, consecutiveRestarts, sessionMsgs>>

\* The engine closes the session's connection and starts retrying.
EngineTearDown ==
    /\ phase = "restarting"
    /\ ~exitCalled
    /\ sessions < MaxSessions
    /\ OnClose \/ OnCloseError
    /\ phase' = "retrying"
    /\ sessions' = sessions + 1
    /\ UNCHANGED <<retryCount, consecutiveRestarts, sessionMsgs>>

\* The engine dials again; a failed dial is a failed restart attempt.
EngineRedial ==
    /\ phase = "retrying"
    /\ ~exitCalled
    /\ phase' \in {"failed", "reopening"}
    /\ UNCHANGED <<clientVars, retryCount, sessions, consecutiveRestarts,
                   sessionMsgs>>

\* The new connection is up: OnOpen(restarting = TRUE).  An error from it
\* is a failed restart attempt.
EngineReopen ==
    /\ phase = "reopening"
    /\ ~exitCalled
    /\ \E ok \in BOOLEAN :
        /\ OnOpen(TRUE, ok)
        /\ phase' = IF ok THEN "session" ELSE "failed"
        /\ retryCount' = IF ok THEN 0 ELSE retryCount
        /\ consecutiveRestarts' =
               IF ok THEN 0 ELSE Saturate(consecutiveRestarts + 1, RestartLimit)
        /\ sessionMsgs' = 0
    /\ UNCHANGED sessions

\* The engine reports the failed attempt to OnRestartError, with the number
\* of failed attempts in a row, and retries.
EngineReportFailure ==
    /\ phase = "failed"
    /\ ~exitCalled
    /\ retryCount' = Saturate(retryCount + 1, RetryCountCap)
    /\ OnRestartError(Saturate(retryCount + 1, RetryCountCap))
    /\ phase' = "retrying"
    /\ UNCHANGED <<sessions, consecutiveRestarts, sessionMsgs>>

\* After exit() the engine stops without calling any further callback.
EngineExit ==
    /\ exitCalled
    /\ phase # "stopped"
    /\ phase' = "stopped"
    /\ UNCHANGED <<clientVars, retryCount, sessions, consecutiveRestarts,
                   sessionMsgs>>

Next ==
    \/ EngineStart
    \/ EngineMessage
    \/ EngineReadError
    \/ EngineTearDown
    \/ EngineRedial
    \/ EngineReopen
    \/ EngineReportFailure
    \/ EngineExit

\* The engine's goroutines keep running: a step it can take, it takes.
Fairness == WF_vars(Next)

Spec == Init /\ [][Next]_vars /\ Fairness

(***************************************************************************)
(* Properties.                                                              *)
(***************************************************************************)

\* Every variable holds a value of its type (proved in ExampleClientProofs).
TypeOK ==
    /\ processedMsgCount \in 0 .. MaxMsgs
    /\ restartCount \in 0 .. MaxMsgs + 1
    /\ exitCalled \in BOOLEAN
    /\ phase \in Phases
    /\ retryCount \in 0 .. RetryCountCap
    /\ sessions \in 0 .. MaxSessions
    /\ consecutiveRestarts \in 0 .. RestartLimit
    /\ sessionMsgs \in 0 .. MaxMsgs
    /\ exitBy \subseteq {"open", "retry"}

\* While a session runs, the client's counters describe that session alone:
\* OnOpen's reset has cleared the restart counter and the message count of
\* the sessions before it.
SessionCountersFresh ==
    phase \in {"session", "restarting"} =>
        /\ restartCount = 0
        /\ processedMsgCount = sessionMsgs

\* A restart loop always ends: once the engine retries, it eventually runs
\* a session again or the client has called exit() (OnRestartError's limit).
RetryLoopEnds == (phase = "retrying") ~> (phase = "session" \/ exitCalled)

\* OnOpen's comment: the restart counter counts restarts and the client
\* exits when it reaches 3.  OnOpen calls exit() only on the third
\* consecutive restart without a successful OnOpen, or later.
OpenExitOnlyAtRestartLimit ==
    [][("open" \notin exitBy /\ "open" \in exitBy')
        => consecutiveRestarts + 1 >= RestartLimit]_vars

\* The same comment, the other way: by the third consecutive restart whose
\* OnOpen failed, the client has called exit().
RestartLimitEnforced ==
    consecutiveRestarts >= RestartLimit => exitCalled

\* OnRestartError's comment, "Exit if more than 5 retries": the client
\* calls exit() from OnRestartError only once the engine has reported more
\* than five failed attempts in a row.
ExitOnlyAfterFiveRetries ==
    "retry" \in exitBy => retryCount > RetryLimit

=============================================================================
