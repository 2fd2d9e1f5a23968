# Verification of gowsclient's gorilla/websocket adapter

This directory holds TLA+ models of `GorillaWebsocketConnectionAdapter`
(`src/unnamed/part_000`). It also holds TLC configurations that check the
models on small instances, and TLAPS proofs of their main invariants for
every instance.

## 1. Inventory

### Components

| Component | Source | State | Operations |
|---|---|---|---|
| Connection adapter | `part_000` 17-305 | `conn` (bound connection or nil), `mu`, the dialer and headers (configuration only) | `NewGorillaWebsocketConnectionAdapter`, `Dial`, `Write`, `Read`, `Ping`, `Close`, `GetUnderlyingWebsocketConnection` |
| Notification correlator | `part_000` 30, 60, 311-379 | `pingRequests`: a channel of capacity 10 holding one reply channel (`pong`, unbuffered) per Ping call | `pongHandler` → `propagateToFirstActiveListener`; `closeHandler` and `Close` → `propagateToAllActiveListener` |
| Transport and peer | gorilla `*websocket.Conn` (external) | frames in flight, close frames sent and received | `DialContext`, `WriteMessage`, `WriteControl`, `ReadMessage`, which calls the installed handlers |
| Example client | `src/example/client/websocket/client.go` | `processedMsgCount`, `restartCount` | `OnOpen`, `OnMessage`, `OnReadError`, `OnClose`, `OnCloseError`, `OnRestartError` |
| Example bootstrap | `src/example/client/main.go` | none | fx wiring |
| Session engine | gowse `wscengine` (external library) | retry policy, read loop, ping loop | calls the adapter |

### How they interact

- Several goroutines call the adapter.
  - The engine's control path calls `Dial`, `Write` and `Close`. Each holds `mu` for its whole body.
  - One read-loop goroutine calls `Read` repeatedly.
  - Any number of goroutines call `Ping`.
- `Read` and `Ping` take `mu` only long enough to copy `adapter.conn`, then use the copy without the lock.
- `Read`'s close branch writes `adapter.conn = nil` with no lock at all.
- Control frames are handled inside `ReadMessage` on the read-loop goroutine.
  - A pong frame calls `pongHandler`, which scans `pingRequests` and hands `nil` to the first Ping blocked on its reply channel.
  - A close frame calls `closeHandler`, which scans with a close error, then `ReadMessage` returns a `CloseError`.
- `Close` writes a close frame and then scans `pingRequests` with a close error itself, because the close handler only runs for closes that the peer starts.
- A non-blocking send on an unbuffered channel succeeds only if its receiver is already blocked on it. A "not writeable" reply channel is dropped from the queue.

### What is hard

- **Interleavings.** The pong scan, the close scans and the Ping goroutines all touch the same queue.
- **Stale copies.** `Read` and `Ping` keep a copy of `adapter.conn` across long blocking calls.
- **The unlocked write** of `adapter.conn` in `Read`.
- **Cancellation.** A cancelled Ping leaves its reply channel queued.
- **The capacity bound** of `pingRequests`.

The `hazards` of `PROJECT.json` list each one at its line.

### What makes each component correct

- **Adapter**
  - Write and Close never use a nil connection.
  - A connection is unbound only by its own Close or by a close read from it.
  - No open connection is dropped.
- **Correlator**
  - One pong answers at most one Ping, and only a Ping of the same connection.
  - A close releases every waiting Ping.
  - A registered Ping can always still be answered.
  - The queue respects its capacity, and a Ping that failed does not keep
    later Pings from registering.
- **Example client**
  - The restart counter counts consecutive failed restarts, and the client exits after three.

## 2. Plan

1. **`GorillaAdapter`** (done). One module covers the adapter, the correlator,
   the goroutines that call them and an abstract peer. The correlator is not
   a separate module: its only state is the queue, and its operations are
   called from inside the adapter's actions. Every mapped definition names
   the Go lines it translates.
2. **`GorillaAdapterProofs`, `ReplySlotProofs`** (done). They prove TypeOK,
   PongAccounting, ReplySlotsOwned and ResultsFinal.
3. **A fixed adapter** as a variant module (not done). It would use a buffered reply
   channel (capacity 1), make the close fan-out continue after a delivery,
   and have `Read` unbind only the connection it read, under the lock. The
   violated properties above should pass on it, which would show that they fail
   because of the code and not because of the model.
4. **An abstract contract** (dropped). A contract with Bind, an unguarded
   Unbind and a pong counter was refined by the adapter, but it said
   nothing that PongAccounting and ResultsFinal do not already say. The
   adapter's actual contract (spec 3: unbind only by a close of that
   connection; spec 8: Close releases every pending Ping) does not hold on
   this code. `stale_read_unbind` and `close_releases_all` show that
   directly, so a refinement that fails would add no new result.
5. **Liveness.** The example client has a liveness property: `RetryLoopEnds`,
   under the engine's weak fairness. The adapter has none.
   The saturated queue (`queue_clogged`) is shown as a reachable state, not
   as a liveness failure. Once the state is reached, only a Close or a peer
   close can clear it. Its Ping calls
   wait on the peer's pong and on the caller's context, and the code
   guarantees neither, so any fairness assumed for them would be made up. The
   one liveness failure the code does have, a Ping left waiting forever after
   the lost wakeup, is already shown by the safety run `lost_wakeup`.
6. **`ExampleClient`** (done). The callbacks of `client.go`, driven by the
   engine's session lifecycle. It has two violations at line 75, one at
   line 195, and a proof of the session invariant (§3b, §5b).

## 3. The module `GorillaAdapter`

### State

| Variable | Code |
|---|---|
| `conn` | `adapter.conn` (`NoConn` = nil); connections are numbered in Dial order |
| `queue` | `adapter.pingRequests`; a slot number stands for one Ping call's `pong` channel |
| `pingPc`, `pingConn`, `pingSlot` | a Ping goroutine's position, its local `conn` copy, and its `pong` channel |
| `readerPc`, `readConn` | the read loop's position and its local `conn` copy |
| `ctlPc`, `closeConn` | the control goroutine's position inside Write or Close (`"panic"`: a nil dereference) |
| `closeSent`, `peerClosed`, `pongsDue` | the transport: close frame written by Close, close frame read from the peer, pings not yet answered |
| `outcome`, `slotConn`, `srcConn`, `pongsRecv` | history for the properties: what each Ping call returned, the connection it pinged, the connection whose pong or close answered it, and the pongs handled |

`ctlPc = "idle"` means the mutex is free (`MutexFree`). Ping and Read hold
the mutex only for an atomic copy of `adapter.conn`.

### Actions

Each action is one atomic step of one goroutine. Steps are split wherever
another goroutine can act between them:

- Dial, Write and Close: `Dial`, `WriteLock`/`WriteSend`, and `CloseLock`/`CloseSend`/`CloseScan`. `CloseScan` runs one loop iteration per step, and the iteration that returns also clears `adapter.conn` and unlocks.
- Read: `ReadStart`, then one of:
  - `ReadReturn`: a data frame or an error that is not a close.
  - `ReadPong`, followed by `PongHandler` steps.
  - `ReadPeerClose`, followed by `CloseHandler` steps and then `ReadDropConn`.
- Ping: `PingStart`, then `PingRegister` or `PingRegisterCancel`, then `PingWrite`, `PingWait`, and `PingCancel`, or a delivery by a scan.

`PropagateToFirstActiveListener` and `PropagateToAllActiveListener` model one
loop iteration of the two Go functions. Their bodies are identical because the
Go bodies are identical: both `return` after a successful send.

## 3b. The module `ExampleClient`

`ExampleClientImpl` holds two counters, `processedMsgCount` and
`restartCount`. The session engine (gowse `wscengine`, external) calls its
callbacks. The engine part of the module is written from the callbacks'
contract (it is `spec_modelled` in the map), and the client part from the Go
code:

| Definition | Code |
|---|---|
| `Init` | `NewExampleClientImpl`: both counters 0 |
| `OnOpen(restarting, writeOk)` | lines 61-96: on a restart `restartCount = processedMsgCount + 1` and `exit()` at 3; after a successful `conn.Write` both counters reset |
| `OnMessage(writeOk)` | lines 98-132: count the message; a failed echo calls `restart()` |
| `OnReadError`, `OnClose`, `OnCloseError` | trace and log only, so they change nothing |
| `OnRestartError(n)` | lines 179-199: `exit()` when `n >= 5` |

The engine's phases are: `starting` (Start calls OnOpen with restarting =
FALSE; an error makes Start fail), `session` (OnMessage or a read error),
`restarting` (teardown, OnClose), `retrying` (dial), `failed` (a failed dial
or a failed restarting OnOpen is reported to OnRestartError with the number
of failed attempts in a row), `reopening` (OnOpen with restarting = TRUE) and
`stopped`. After `exit()` the engine calls no further callback. The result of
`conn.Write` is a free choice, so any adapter failure is covered.

The engine counts failed attempts in a row without bound. The callbacks only
compare that count with the literal 5, so the model keeps it up to
`RetryCountCap = 6` (`Saturate`): 6 stands for "six or more". The engine
can therefore fail forever: a retry loop is not cut off by a model bound.
`consecutiveRestarts` is kept up to `RestartLimit` in the same way.

History variables: `sessionMsgs` (messages of the current session),
`consecutiveRestarts` (restarting OnOpen calls since the last OnOpen that
returned nil) and `exitBy` (which callback called exit()).

Fairness: `WF_vars(Next)`. The engine's goroutines keep running, and no
callback blocks forever, so a step the engine can take is eventually taken.
Whether a dial succeeds stays a free choice.

## 4. Runs

All runs use `MC_GorillaAdapter` with the following constants:

- Two Ping goroutines (symmetric).
- `MaxDials = 2`, so the interesting cases involve a second connection.
- `MaxPings = 3`, so one call can be abandoned while two others wait.
- `QueueCap = 2`, so the queue can fill up.

Deadlock checking is off. The adapter really can stop: nothing forces the
engine to call it, and the bounds end every behaviour.

| Run | Expect | What it shows |
|---|---|---|
| `adapter_safety` | pass (1,089,424 states) | TypeOK; **PongAccounting**: Pings that returned nil ≤ pongs handled; **ReplySlotsOwned**: every running Ping call's reply slot is its own and still pending, so a scan's send reaches only a call blocked on `<-pong`, which returns with it; **ResultsFinal** (action property): a slot's result, once delivered or returned, never changes |
| `close_releases_all` | violation | `propagateToAllActiveListener` stops after one delivery, leaving a second waiting Ping registered |
| `lost_wakeup` | violation | Close's scan runs between a Ping's ping write and its select, drops the slot, and the Ping then waits unregistered |
| `stale_read_unbind` | violation | Close(c1), Dial(c2), then c1's close reply makes Read set adapter.conn = nil, and c2 leaks |
| `nil_dereference` | violation | the peer closes while Write or Close sits between its nil check and `adapter.conn.Write…`, causing a nil dereference |
| `stale_pong` | violation | a Ping registered after the peer's close is answered by the next connection's pong |
| `queue_clogged` | violation | two Pings register and their ping writes fail. pingRequests (capacity 2) then holds only dead slots, no pong is due, and every later Ping blocks in registration: a failed ping send fails more than its own call (spec 7). The same needs 10 failed sends in the code. |

The example client's runs use `ExampleClient.cfg` with `MaxMsgs = 3` (a
session can reach two messages, which triggers the early exit),
and `MaxSessions = 3`:

| Run | Expect | What it shows |
|---|---|---|
| `client_counters` | pass (520 states) | **SessionCountersFresh**: a running session has `restartCount = 0` and `processedMsgCount` equal to its own messages; **RetryLoopEnds**: under fairness, `retrying ~> session \/ exit()`, even when every dial fails forever |
| `client_early_exit` | violation | two messages, one restart: OnOpen sets restartCount to 3 and exits on the first restart |
| `client_restart_limit` | violation | after a session with one message, three restarting OnOpens fail and restartCount stays 2: the limit of 3 is never reached |
| `client_retry_comment` | violation | five failed attempts in a row: OnRestartError's `retryCount >= 5` calls exit() at the fifth, while its comment says "Exit if more than 5 retries" |

With `restartCount + 1` at line 75 both violated properties hold on the same
instance (checked by hand on a copy of the module with that one-token
change).

Each property of the passing runs has a mutant that TLC must catch:

- The pong scan does not stop after a delivery.
- `pingRequests` has no capacity bound.
- Ping uses one reply channel shared by the adapter instead of a fresh `pong` per call. This breaks `ReplySlotsOwned`, and `ResultsFinal` too: the next call overwrites the result the last one returned.
- OnOpen's success path does not reset `processedMsgCount`.
- OnRestartError tests the client's own `restartCount` instead of the
  engine's `retryCount`. A loop of failed dials then never ends, which
  breaks `RetryLoopEnds`.

## 5. Proofs (`GorillaAdapterProofs`)

- **TypeCorrect**: `Spec => []TypeOK`.
  - TypeOK is not inductive. The strengthening `TypeInv` adds two facts:
    - A Ping past `PingStart` owns a slot. `PingRegister` appends it to the queue.
    - The read loop past `ReadStart` holds a connection. `ReadPeerClose` adds it to `peerClosed`.
  - Lemma `ScanType` covers one scan iteration, for either propagate function and any continuation.
- **PongAccountingHolds**: `Spec => []PongAccounting`.
  - The inductive invariant counts the pong that the read loop is scanning for: `|pong slots| + (1 if readerPc = "pongScan") <= pongsRecv`.
  - `ReadPong` raises both sides by one.
  - A `PongHandler` step adds at most one pong slot (`OkAddOne`), and only in the step that ends the scan.
  - Close scans and Ping steps only write other outcomes (`NoNewPong`, `OkShrink`).
  - The cardinality facts come from `FiniteSetTheorems`.

The only assumption is `ConstantsAssumption`: the bounds are positive
naturals. Liveness and ENABLED are outside TLAPS and stay with TLC, and so
would any property of a recursive operator.

## 5c. Reply slots (`ReplySlotProofs`)

The inductive invariant `SlotInv` has three conjuncts:

- Slots past `nextSlot` are still `"none"`.
- Every running Ping call owns a slot, numbered at most `nextSlot`, whose
  outcome is `"pending"`.
- No two running calls share a slot.

Before it was proved, `SlotInv` was checked with TLC as an invariant of the
`adapter_safety` instance, and it held. Its lemmas:

- `DeliverSlot`: a scan's delivery keeps `SlotInv`.
- `ReturnSlot`: a Ping returning early keeps `SlotInv`.
- `ScanSlot`: one scan iteration keeps `SlotInv` and writes at most one pending slot.
- `SlotStep`: every step keeps `SlotInv`.

**ReplySlotsOwnedHolds**: `Spec => []ReplySlotsOwned`. The run `adapter_safety`
checks `ReplySlotsOwned` on its instance. The theorem proves it for every value
of the constants. `ReplySlotsOwned` is `SlotInv` without its first conjunct,
which says that slots past `nextSlot` are untouched. `SlotInv` needs that
conjunct to be inductive: `PingStart` marks slot `nextSlot + 1` pending, and
without the conjunct that slot could already hold another call's result.
`SlotInvOwned` derives the property from `TypeInv /\ SlotInv`. The theorem
then follows from `TypeStep` and `SlotStep` by PTL, with no use of `PongInv`.

**ResultsFinalHolds**: `Spec => ResultsFinal`, an action property. The lemma
`OpenSlotWrite` shows that, under `TypeInv /\ SlotInv`, a step either leaves
`outcome` alone or writes a single slot that is still `"none"` or `"pending"`.
`PingStart` writes the fresh slot `nextSlot + 1`. A delivery (`ScanSlot`) or a
return writes its call's own pending slot. A slot that already holds a result
is therefore never the one written.

## 5b. Proofs (`ExampleClientProofs`)

- **ClientTypeCorrect**: `Spec => []TypeOK`.
- **CountersFreshInSessions**: `Spec => []SessionCountersFresh`.
- Both rest on the inductive invariant `CInv == TypeOK /\ SessionCountersFresh`.
  TypeOK alone is not inductive: `OnMessage` keeps `processedMsgCount <=
  MaxMsgs` only because in a session it equals `sessionMsgs`, which the
  engine bounds. The step lemma has one case per engine action.
- The assumption is `ClientConstantsAssumption`: the bounds are positive
  naturals. `RetryLoopEnds` is a liveness property and stays with TLC.
- OnRestartError's retry limit has no theorem. What the code does there
  (exit at the fifth failure) disagrees with its comment, and
  `client_retry_comment` shows that disagreement instead.

## 6. Not modelled

- The abnormal closure. When the TCP connection ends without a close frame,
  gorilla's `ReadMessage` returns a `*CloseError` (1006) without calling
  the close handler. `Read` then unbinds at line 241, and no scan releases
  the waiting Pings. The model unbinds only after a close frame and its
  handler scan. This path cannot turn a violation into a pass. The passing
  properties allow `conn' = NoConn` and concern only the queue's scans, so
  they are unaffected.
- `GetUnderlyingWebsocketConnection`: it reads `adapter.conn` under the lock and changes nothing.
- The payload and type of messages: no property distinguishes them.
- gorilla's sticky write error after an I/O failure: the model lets later writes succeed, which over-approximates. None of the findings needs a write to succeed after an I/O failure.
- The session engine: it is an external library, so the model allows every call order that the adapter's contract allows.
- The fx bootstrap: it has no state.
- The example bootstrap (`main.go`): fx dependency wiring with no state.
- The engine's dial, backoff and context handling: an external library; only
  the order in which it calls the client's callbacks is modelled.
- The example client and the adapter are not composed: the client's
  `conn.Write` is a free choice of success or failure rather than a call into
  `GorillaAdapter`.
