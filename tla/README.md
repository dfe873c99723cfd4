# DSOR_Server in TLA+

DSOR_Server (`src/`) is an offline game server in Python. One process speaks a
RakNet dialect over UDP, runs the commands of every connected client on a pool of
workers, keeps all game state in memory and writes it behind to SQLite. The game
rules are large and mostly sequential. What is hard in it is what several threads
do to the same session, the same trade, the same queue or the same row, and what a
lossy network and a dying process do to that. This directory models those parts.

Contents: 1 the system; 2 the modules; 3 the runs; 4 bounds and fairness;
5 the proofs; 6 where the code and its words differ; 7 what is not modelled;
8 the plan.

To check it: `tlc -config X.cfg M` for the runs of section 3, `tlapm M.tla` for
the modules named `...Proofs`.

## 1. The system

### How the parts meet

```
 client ==UDP==> transport (receive thread) --commands--> input dispatch (queue per session)
    ^                |  ACK/NAK                                  | slices
    |                v                                           v
    +==UDP== outbound sender <--framesets-- handlers on ingress workers, under the
             (thread, queue)                player's gameplay_mutation_lock
                                                | flow_lock (one session) or
                                                | combat lock (one map), guarded
                     deadline scheduler --------+
                     (timers, retirement)       v
                                          in-memory state --snapshots--> account store
                                                                             |
                                             autosaver (15 s) ------------>  v
                                                                    AsyncPlayerDatabase
                                                                    (writer thread, SQLite)
```

The threads are the receive thread, the ingress workers, the deadline workers, the
lifecycle workers (retirement and initialization), the outbound sender, the
retransmit thread (repair, time-outs, failed sessions), the autosaver, the HTTP threads of
the administration, and the writer threads of the database and of the social store.

### The components

For each: the state it keeps; its operations; whom it meets; what is hard; what
makes it correct. The first ten are modelled, in whole or in part.

* **Player database** (`persistence/player_database.py`). State: three
  `_pending_*` dictionaries of documents and `_pending_deletes`, a queued and a
  written revision, two events, the writer thread, the tables. Operations:
  `queue_state`, `queue_profile`, `queue_wallet`, `queue_account_achievements`,
  `queue_delete`, `request_flush`, `flush`, `close`, the writer's loop. It meets the
  account store, which publishes detached snapshots. Hard: the batch is committed
  outside the condition while callers publish; a failed batch is merged back behind
  newer snapshots; the process may die anywhere; the wake event is set from four
  places and cleared in one. Correct when the tables are always one moment of what
  was published, when `flush()` tells the truth, when nothing is lost by a failure,
  and when the writer does not fall asleep on work.
* **Trade exchange** (`services/trade.py`, with the mutation gates of the
  dispatcher, the retirement of `transport.py`, the saves of
  `player_persistence.py`). State: two offers, two acceptances, `busy`, the two bags,
  the gates, what is queued and what is stored for both characters. Operations:
  offer, ready, cancel, the execution in its many steps, retirement. Hard: two
  bags are changed under two locks never held together; the second commit may be
  refused; either player may vanish; saves are ordered against autosaves; the
  process may die between the two saves. Correct when every item stays in one place,
  when what is exchanged is what both accepted, when a trade reported done is durable.
* **Lock-order guard** (`runtime/concurrency.py`). State: the primitive lock, its
  recorded owner and depth, each thread's own records. Operations: acquire (policy,
  try, bounded wait, mark) and release. Hard: the policy reads records kept beside
  the locks, not the locks. Correct when the records are true and the policy excludes
  deadlock.
* **Reliable output** (`runtime/transport.py`, `runtime/outbound.py`). State: the
  counters of datagrams, reliable frames and order indexes, the table of
  unacknowledged datagrams, the sender's queue. Operations: send and fragment,
  drain, ACK, NAK, time-out retransmission, failure and retirement. Hard: a datagram
  can be acknowledged before it is marked as sent; retransmission gives it another
  number; the queue refuses half a message. Correct when the client's application
  sees each channel's messages once and in order, and all of them if the session lives.
* **Input dispatch** (`services/dispatch.py`). State: a queue per session with its
  context and generation, a token for the one callback that may drain it. Operations:
  enqueue with coalescing and overtaking of moves, reserve and schedule, drain a slice,
  finish it, cancel. Hard: token hand-over against enqueue, refusal by a full
  scheduler and retirement; map and match phase change beside the queue. Correct when
  a non-empty queue has exactly one consumer, commands keep their order, nothing
  accepted is lost and nothing runs after the final snapshot.
* **Reliable input** (`runtime/transport.py` 2650-2920). State: windows of seen
  datagrams and reliable frames, partial messages, next index and held frames per
  channel. Operations: accept a datagram, reassemble, hand out in order. Hard: an
  acknowledged datagram is never sent again, so whatever is refused or dropped after
  its acknowledgement is lost for good. Correct when it implements the same ordered
  channel, and loses nothing but what a window or a raising handler took.
* **Gameplay deadline scheduler** (`runtime/gameplay_scheduler.py`). State: a heap of
  handles, counters of them, worker threads with a generation. Operations: timer,
  start, cancel, compact, shutdown, restart. Hard: a cancel races the firing; a worker of
  the old generation outlives a restart; a worker sleeps for a head that has changed.
  Correct when a handle fires at most once and in its generation, always ends, and the
  counters equal the heap. The other models take it as a set of callbacks any of which may
  run and which may refuse a new one.
* **Matchmaking and match state** (`services/matchmaking.py`, `battleground*.py`,
  `gameplay/pvp_match_state.py`). State: the queue, the registry of matches, each match's
  phase, participants, score and timers, and the match each session is bound to.
  Operations: join and abort, form and invite, answer, transfer, arrive, rounds, finish,
  leave, release of a lost session. Hard: four kinds of thread look under a lock and act
  after it; a match goes on only by timers, which need a connected session to hang on.
  Correct when a round is won once, an ended match stays as it ended and is paid once, and
  no match hangs.
* **Groups, friends, guilds** (`services/social.py`, `persistence/social_state.py`). One store
  under one lock, and a writer thread of its own that snapshots the whole store and
  replaces a file. Hard: two indexes, the rosters and a ledger of invitations change
  together; the writer retires when idle and is started again, its revisions are read
  under a second lock, a write fails and is repeated. Correct when indexes, rosters and
  invitations agree, and `flush()` tells the truth.
* **Session registry and life cycle** (`transport.py`, `services/lifecycle.py`,
  `services/login_game.py`, `runtime/gameplay_routes.py`, with `player_initialization.py`,
  `map_transition.py`, `player_persistence.py` and the autosaver of `app.py`). State:
  sessions by endpoint, routes, flags of transfer and retirement, the stored state.
  Operations: open, claim a route, initialize, save, travel, log out, retire. Hard: a
  transfer leaves the old connection alive, and five threads may still save it while the
  new one enters; a reconnect meets a retirement; the autosaver walks an old tuple; a
  full scheduler refuses the retirement. Correct when the new session starts from all
  the old one had, when the old one never overwrites it, and when endpoints come free.
* **Progression queue** (`runtime/progression_queue.py`). A queue with one consumer, started
  and stopped. Correct when jobs run in order and their guards are asked when they
  run. Planned.
* **Resident stores** (`persistence/account_state.py`, `account_registry.py`,
  `character_roster.py`, `services/accounts.py`, `player_persistence.py`). Copies of
  accounts, names and character documents under one lock. Hard: name uniqueness
  through rename and delete; wallets shared by the characters of an account. Planned;
  what they publish is the input of the first two models.
* **Trade invitations** (`services/trade.py` 292-346, 188-217). Two dictionary entries
  per trade. Correct when both name the same trade or neither does. Planned.
* **Map transition and presence** (`services/map_transition.py`, `presence*.py`):
  leaving and entering a map, which are in the models of sessions and of input; who
  sees whom is not modelled.
* **Combat, monsters, maps** (`gameplay/local_*_state.py`, `services/world.py`,
  `map_events.py`): numeric rules over large catalogues. The delayed pickup of
  `map_events.py` is an actor of the trade.
* **Quests, talents, rewards**; **inventory and commerce**; **administration**;
  **chat and world events**; **static content**; **wire formats**; **launcher and
  tools**: see section 7.

## 2. The modules

| Module | Models | Built on |
|---|---|---|
| `PlayerDatabase`, `MCPlayerDatabase` | the write-behind database | - |
| `PlayerDatabaseProofs` | durable cuts, nothing lost, flushed snapshots kept | `PlayerDatabase` |
| `TradeExchange`, `MCTradeExchange` | one trade from offers to durable exchange | - |
| `TradeExchangeProofs` | gates, acceptances, nothing doubled or lost, what is durable | `TradeExchange` |
| `GuardedLocks` | the instrumented locks | - |
| `OrderedChannel` | what a connection promises (abstract) | - |
| `ReliableSend` | output of a session, network, client | instantiates `OrderedChannel` |
| `ReliableSendProofs` | refinement, nothing forgotten | `ReliableSend` |
| `ReliableReceive` | input of a session, network, client | instantiates `OrderedChannel` |
| `ReliableReceiveProofs` | refinement, once each in order, what was acknowledged is kept | `ReliableReceive` |
| `InputDispatch`, `MCInputDispatch` | input queue of a session | - |
| `InputDispatchProofs` | one consumer, order, final snapshot, nothing durable dropped | `InputDispatch` |
| `DeadlineScheduler` | handles, heap, workers, restarts | - |
| `MatchMaking` | the queue, a match and its end | - |
| `MatchMakingProofs` | ends stand, rounds and payouts once | `MatchMaking` |
| `SocialStore`, `MCSocialStore` | groups, guilds, contacts and their file | - |
| `SocialStoreProofs` | sound worlds, what was answered is durable | `SocialStore` |
| `SessionHandover` | sessions of a character, from map to map | - |
| `RuntimeProofs` | true records, no deadlock; nothing left behind; exact counters, generations, ends | `GuardedLocks`, `SessionHandover`, `DeadlineScheduler` |

`MC...` modules only give TLC initial bags, owners and symmetry sets. Definitions
that begin with the comment "Mutant" are plausible slips in the code; no action uses
them. Each was put in the place of the definition it varies, and TLC then finds the
property it is aimed at violated, so that every property below is known to depend on
the code.

### PlayerDatabase

State: `pending`, `pendingDeletes`, `queuedRevision`, `writtenRevision`, `wakeEvent`,
`stopEvent` are the attributes of the class; `rows` is SQLite; `writer` says where the
writer thread stands and `batch`, `batchDeletes`, `batchRevision` are its locals;
`flusher[c]` is the target revision of a caller in `flush()`; `closer` and `joining`
are the thread in `close()`. A document is the number of the publication that made
it, so a row tells how new it is; wallets stand also for account achievements, which
the same code handles. The ghosts `published`, `batchImage`, `durableImage` are what
callers last published now, when the batch was taken, and when the last commit's batch
was taken; `promised` and `acked` are what `flush()` owes and has said.

Actions: `QueueState`, `QueueProfile`, `QueueWallet`, `QueueDelete`, `RequestFlush` are
one critical section each, with the start of the writer and the wake-up they end in.
`flush()` is `FlushBegin`, then `FlushReturn` or `FlushTimeout`; `close()` is
`CloseBegin` .. `CloseReturn` with its two events set one after the other and
without the condition, as in the code. The writer goes `WriterCheck` (reads the stop
event), `WriterTake` (clears the wake event, takes everything), `WriterCommit` or
`WriterFail`, `WriterReport` or `WriterRestore`, and perhaps `WriterExit`. The lock is
free unless the writer is between the first two. `Crash` forgets all but the rows.

### TradeExchange

State: `bag` is a player's inventory and gold; `offer`, `ready`, `busy`, `open` are
`_Side` and `_Trade`; `accept` is a READY under way; `step`, `executor`, `accepted`,
`snapshot`, `saveFailed` are the executor's program counter and locals; `gate` is
the owner of each `gameplay_mutation_lock`; `session` how far a retirement is; `capture`,
`queued`, `rows` what the autosaver holds, what the store has queued and what is
durable. A stack is a token: a full copy of a stack has its own, so the code's
"inventory is snapshot" is equality.

Actions: `Press` is the client; `Offer`, `Ready`, `ReadyIgnored`, `Cancel`, `PartnerAbsent`
the three commands under `_LOCK`; `CommandBegin`/`CommandEnd` any other command under
the gate; `Pickup` the delayed pickup, which takes no gate. The executor runs
`ReserveGates` (or `GateTimeout`, `ParticipantMissing`), `CheckSessions`, two snapshots,
`Build` (or `BuildFails`), two commits (or `FirstChanged`, `SecondChanged`, `Undo`,
`Unready`), two saves each with its flush (`AwaitSaves`, `SavesTimeOut`), the last flush,
`ReportDone` or `Abort`, `ReleaseGates`, `ClearBusy`. A retirement is `Disconnect`,
`RetireGate`, `RetireClose`, `RetireSave`, `RetireEnd`. `AutosaveCapture`, `AutosavePut` and
`Write` are the autosaver and the database, `Crash` a restart.

### GuardedLocks

State: `owner`, `depth` are the primitive; `recOwner`, `recDepth` what the instrumented lock
records; `held` what a thread records; `meta` the metadata lock; `pc`, `want` where a
thread stands. `Request` is the policy check, which in strict mode raises before the
lock is touched; `TryOnce`, `Busy`, `TakeAfterWait`, `Timeout` the acquire; `Mark` and
`Forget` the keeping of records, which lags behind the primitive on both sides;
`Release` the other half of a release. Threads ask for what they like.

### ReliableSend and OrderedChannel

State: `frameSeq`, `orderIdx` and the length of `framed` are the three counters of the
frame builder; `pending` is `pending_reliable` with its keys; `mailbox` the sender's queue;
`marking` the gap between the socket and `_mark_send_attempt`; `resend` the gap between
re-keying under `pending_lock` and queueing after it; `net`, `acks` the network; `got`,
`delivered` the client, which is external.

Actions: `Send`, `SendFails` (the capacity error in the middle of a message), `Refuse`;
`Drain`, `Mark`; `Acknowledge`, `Retransmit` (both NAK and time-out: they make the same
change under the same guard), `QueueRetry`; `RetireFailed`, `Disconnect`; `Lose`,
`Arrive`, `Deliver`. `OrderedChannel` says only that each channel's messages are given
out once each and in the order they were sent; `InOrder` is that specification
with `closed` mapped to "failed or retired".

### InputDispatch

State: `queue`, `queueContext`, `generation`, `token`, `nextToken` are the session's
`gameplay_skill_dispatch_*` fields; `scheduled` the callbacks waiting for a worker;
`pc`, `mine`, `hand`, `handled` each thread's locals; `where`, `leaving`, `connected`,
`failed`, `retired` what `_gameplay_skill_dispatch_session_is_current` reads;
`gate` the mutation gate. Ghosts: `accepted` and `log`, the commands queued and
executed, `epoch`, how often the map was left, `final`, how long the log was when
the final snapshot was taken.

Actions: `Receive` (first check) and `Enqueue`, one hold of the dispatch lock: change
of context (`Renewed`), the place of a move (`Slot`), coalescing or refusal (`Placed`) and
reservation of the token (`Reserve`); `Schedule`, `ScheduleFails`, `RequestRetirement`;
`Start`, `Pop`, `EndSlice`, `TakeGate` (second check), `Execute`, `Finish`;
`ChangePhase`, `ChangeMap`, `StartTransition`, `EndTransition`; `BeginRetirement`,
`RetirementRefused`, `MarkRetired`, `FinalSnapshot`, `CancelSessionActivity`. Positions
are chosen from one-element sets, which keeps CHOOSE out of the proofs.

### ReliableReceive

State: `seen` the history of datagram numbers; `base`, `ahead` are `inbound_reliable_base` and
`inbound_reliable_out_of_order`; `partials` is `split_packets`, oldest first; `expected`,
`seqNext`, `held` the order state of each channel; `handing` the deliveries the receive
thread still has to hand over, `handed` what the application was given. The client
(`msgs`, `framed`, `unacked`) and the network (`net`) are external. The ghosts `skipped`,
`evicted`, `refused` name the three ways in which the code loses a message.

Actions: `Receive` is one datagram under `inbound_lock`: the ACK (`Arrive`), the duplicate
filter (`RepeatedDatagram`, `Note`), the reliable window (`RepeatedFrame`,
`OutsideReliable`, `AcceptFrame`), gathering (`Collect`, `Whole`) and `Dispatch` by order
and sequence, in the order of the code. `Hand` is one turn of the loop over the
deliveries, which runs outside the lock and may raise. The client submits, resends what
is not acknowledged (`Resend`), and the network loses (`Lose`), doubles and delays.

### DeadlineScheduler

State: `st` of a handle and `finished`, its event; `heap`, `pending`, `dead` the heap and
its two counters; for each worker of each generation where it stands; the flags of
`start` and `shutdown`. Actions: `Start`, `Shutdown`, `Joined`; `EnsureStarted` and
`StartFor`, the look and the start of `_ensure_started` with the gap between them;
`PushRefused`, `Push`; `CancelNew`, `Cancel` with compaction; and for a worker `Leave`,
`Wait`, `TimedOut`, `TakeDue` with the discard of cancelled heads, `Finish`. `Tick` is the clock.

### MatchMaking

State: where each client is (`place`) and on which connection (`number`); `bound`, the
`gameplay_match` of its session; `queue`; `registered`; of each match `phase`, `seats`,
`entry` (session, answer, arrived, left), `won`, `winner`, `settled`, `timers`,
`generation`; and `job`, for each thread where it stands in which handler. An action is
one hold of a lock, so between any two of them every other thread may act. The handlers of
one player exclude each other by the mutation gate (`Gate`).

Actions, by handler: `Join`, `Enqueue`, `Form` or `TooFew`, `Invite`, `ArmAccept`; `Abort`;
`Respond`; `CancelClock`, `CancelPhase`, `Retire`, `ReleaseOne`, `Requeue` for `_cancel_match`;
`StartTransfer`, `TransferClock`, `TransferOne`, `TransferFails`, `ArmLoad`; `BindLookup`,
`BindEntry`, `BindSession`; `BeginRound`, `RoundClock`, `ArmCountdown`; `Fire` and `Expire` for
the timers; `StartRound`, `ArmRound`; `Kill`, `ExpireRound`, `Publish`; `Settle`, `PayOne`;
`Leave`, `Forfeit`, `Drop`, `Gone`; `Cut`, `ReleaseSession`, `Lost`.

### SocialStore

State: `world` is what the file holds as well: rosters, leaders, names, next ids, buddies
and ignored characters of the store; `belongs` and `taken` its indexes; `invitations` the ledger;
`queued`, `written` the revisions; `writer`, `snapshot`, `revision` the writer thread; `file`.
A mutation is one hold of the social lock with its `QueueWrite`: `Found`, `Leave`, `Kick`,
`Rename`, `AddBuddy`, `RemoveBuddy`, `Ignore`, `Unignore`, `Issue`, `Expire`, `Decline`,
`Accept`, `AcceptIntoFull`. The writer goes `Look`, `Gather`, `Write` or `WriteFails`, `Note`,
and retires by `Expired`, `RetireIdle`. Each mutation of the code ends in `flush()`, which
answers as soon as `written` has reached its revision. `Crash` reloads the file.

### SessionHandover

State: `registry` is `SessionRegistry`; `sess` the fields of the sessions: `retiring`, `failure`
(`transport_failure_reason`), `sent` (`gameplay_initialization_sent`), `left`
(`gameplay_exit_transition_started`), `bag`, and `from`, the session whose route it claimed;
`route`, the armed route; `gate`, the mutation gates; `job`, where each thread stands in a
save, for which reason, and what it has captured; `row`, the newest state in the store. A
session that another session's route brought in is its destination.

Actions: `Connect` (`OpenSession`, `ClaimRoute`) and `Enter`; `Command`, `MutateAndSave`,
`MutateOnly`; `Travel` by a command of the player, which has the gate, and `Moved` by a match,
a timer or a logout, which has not, then `Arm`; `Disconnect`, `GoesIdle` and `Retry` with
`RetireAccepted` or `RetireRefused`, then `RetireGate` and `Detach`; `Autosave` and
`DeferredSave`. All of them save by `Capture` and `Put`, between which they hold
`gameplay_persist_lock`, or by `SkipSave`, when the reason is `Silenced` after a transfer.
The installation of the stored state is one step: a capture in the middle of it is left out.

## 3. The runs

| Run | Module | Distinct states | Depth |
|---|---|---|---|
| pdb | MCPlayerDatabase | 600,214 | 30 |
| trade_safe | MCTradeExchange | 966,452 | 44 |
| trade_live | MCTradeExchange | 71,306 | 38 |
| locks | GuardedLocks | 43,170 | 25 |
| send | ReliableSend | 154,752 | 28 |
| input | MCInputDispatch | 2,696,529 (up to symmetry) | 35 |
| receive | ReliableReceive | 543,827 | 14 |
| sched | DeadlineScheduler | 257,964 | 23 |
| match | MatchMaking | 237,171 | 88 |
| social | MCSocialStore | 1,344,616 (up to symmetry) | 16 |
| handover | SessionHandover | 424,598 | 31 |

Each is explored completely, in one to three minutes on two cores.

Passing runs:

* **pdb** (`NothingLost`, `DurableIsOneCut`, `FlushedSurvives`, `FlushIsAnswered`,
  `PublishedIsWritten`). Two publications of any sort, a flush, a failed transaction, a
  `close()` and a crash in every order. The tables are always one moment of what
  callers published; what was merged back never hides what is newer; what `flush()`
  reported stays; waiters are answered, and everything is written with nobody asking,
  unless somebody closes the database (or, for the second, the process dies) first.
* **trade_safe** (`FinalRowIsFinal`, `DoneIsDurable`). A sword and a coin, one other command for
  each player, an autosaver, disconnects and crashes.
* **trade_live** (`EverythingOnce`, `BusyEnds`, `RetirementEnds`). Gold and a
  herb that either player may gather beside the trade, without a gate: no token is
  doubled or lost, an election ends, a disconnected session is detached. With one herb
  there is one ungated change at most, of either side, at any moment; two of them
  break `EverythingOnce`, see section 6.
* **locks** (`RecordsTellTheTruth`, `NoWaitCycle`, `EveryAcquireEnds`). Two threads, two locks per domain, recursion two deep, both modes.
* **send** (`KeptUntilReceived`, `QueuedOnce`, `AckRetires`, `InOrder`,
  `EveryMessageArrives`). Two fragments, as two messages or one,
  two attempts each, one fault of the network.
* **input** (`QueueHasOneConsumer`, `InputOrder`, `CommandsSeeTheirMoves`,
  `DurableIsKept`, `FinalSnapshotIsFinal`). Three commands of any kind, two workers,
  slices of two, room for two, one change of map or phase, one refusal.
* **receive** (`AckedIsKept`, `OnceInOrder`, `InOrder`, `EveryMessageArrives`). Three
  messages in up to four frames, numbers that wrap at twelve and start at ten, one fault,
  one raising handler. What is acknowledged is in the server or lost in one of the three
  ways named; nothing is executed twice; the ordered messages of a channel are an
  `OrderedChannel` up to the first that a raising handler took, and all arrive if none is lost.
* **sched** (`CountersExact`, `EveryHandleEnds`). Two handles, two
  workers, room for two, compaction at two, one shutdown and restart.
* **match** (`RoundsAreWonOnce`, `FinalPhaseStays`, `PresentIsPaid`, `StartedMatchEnds`).
  Two players, a second match or a lost connection, best of three, every lock a point at
  which another thread may come between.
* **social** (`IndexesMatch`, `RostersSound`, `InvitationsAreValid`, `FlushedSurvives`). Three characters, two guild names, groups of at most two, two revisions and
  two invitations, one contact, a failed write, a crash.
* **handover** (`NothingLeftBehind`, `SourceStaysSilent`, `EndpointIsFreed`). Two sessions of a
  character, of which the first may leave for the second, two endpoints, one gain, one
  refused retirement. An endpoint comes free only when its session is stored; autosave,
  disconnect and replacement never overwrite a destination; every retirement ends.

One run in which TLC finds the property violated, described in section 6: **match_stuck**
(`LoadingEnds`).

The types (`TypeOK` of every module) are proved for the modules that have a proof module;
they were checked by TLC in the same instances and can be at any time by adding
`INVARIANT TypeOK` (`SessionsTyped` for `handover`) to a configuration.

## 4. Bounds and fairness

Every bound is a CONSTANT named `Max...`, or the size of a set. The proofs do not
depend on any of them, but for one: in `ReliableReceive` the frames and the messages of a session are
at most half as many as there are indexes on the wire.

* *PlayerDatabase.* One character and one account: characters meet only in the
  batch, and the proof covers any number. A failure needs a snapshot in the batch and a
  newer one beside it (two publications); a second failure merges a merge.
* *TradeExchange.* Two players are the whole trade. One item and one coin suffice for
  each way a token can be doubled; two of a kind would only repeat them. The two
  differences of section 6 need one and two items more.
* *GuardedLocks.* Two threads make the smallest circle, two locks per domain every kind
  of violation. Larger circles are covered by the proof.
* *ReliableSend.* Two fragments are the smallest split message and the smallest order.
  Two attempts give one retransmission, after which there are an old and a new copy, an
  ACK for each and a fresh number. `Modulus` is out of reach in `send`. One channel: the runs show no interplay of channels, which the proof of
  `OrderedDelivery` covers.
* *ReliableReceive.* The windows are one and two wide and the client's window is wider, so
  that it can overrun both; the history of datagrams is shorter than what can be repeated;
  one split entry lets a second split message evict the first. Numbers wrap in the middle
  of the run. A third fragment adds nothing: 1,046,099 states were explored with it once.
* *DeadlineScheduler.* Two handles give a head and one behind it, a heap at its limit, and
  a compaction; one shutdown gives two generations. Three handles (7,719,189 states, safety
  only) were explored once without an error.
* *MatchMaking.* Two players are a whole match. `MaxEvents` is shared by matches formed and
  connections lost: either a second match (requeue, stale timers of the first) or a lost
  connection in any phase. Two matches with losses (safety only, 1,864,016 states) and one
  match with any losses (325,550 states) were explored once without an error. One worker
  runs the timers; with two, timers of one match interleave with each other, which the
  proofs cover.
* *SocialStore.* Groups of two are full with one accepted invitation; three characters give
  an inviter, a joiner and one in the way. Two revisions let a mutation fall into a write.
  Three revisions (one name, no failure and no crash, 2,341,997 states) were explored once.
* *InputDispatch.* Slices of two and three commands give a hand-over between slices; room
  for two gives a full queue; two workers let an old callback and a new one run side by
  side; three commands give an actors request that a move passes and a cast behind both.
* *SessionHandover.* Two sessions are a source and a destination, or a session and its
  reconnect, at the same endpoint or another. The saver comes to the first only: it is the one
  that can be stale. With both (1,006,810 states, safety only) no error was found.

Deadlock checking is off where the system may rightly stop (everything said and done, or
a bound reached). In `locks` it is on.

Fairness, and why the code justifies it:

* *PlayerDatabase*: weak for the writer, a daemon thread that runs whenever its event is
  set; strong for `WriterCommit`, because a retry follows every failure without end
  and SQLite does not refuse a valid transaction for ever; weak for callers that may
  return. Publishing is not fair: nobody has to.
* *TradeExchange*: strong for the executor and for retirement, both of which wait for
  locks that others keep taking for moments (the autosaver takes the persist lock once in
  15 s, for microseconds); weak for commands, autosaver and writer. Clients are not
  fair.
* *GuardedLocks*: weak for a thread inside acquire or release: `acquire` has a bound.
  A thread need not release what it holds.
* *ReliableSend*: weak for sender, repair, acknowledgement, delivery, retirement of a failed
  session; arrival is weakly fair because the network's losses are bounded by
  `MaxFaults`, which is the usual meaning of a channel that loses finitely often in a row.
* *ReliableReceive*: weak for the receive thread, for handlers that return, and for a client
  that repeats what is not acknowledged, as RakNet's does. Submitting is not fair.
* *DeadlineScheduler*: weak for workers, for a call that has begun, and for the clock.
  Nobody has to schedule, cancel or shut down.
* *MatchMaking*: weak for each thread inside a handler, for due timers, and for a session that
  is loading or lost, which the initialization and lifecycle workers serve. No client owes an
  answer, a kill or an arrival.
* *SessionHandover*: weak for the threads of the sessions and for maintenance, together, as
  they have only so much to do; strong for their taking of the persist lock, which only the
  autosaver takes again and again. No client owes anything, and the autosaver need not begin.
* *SocialStore* has no liveness run: its writer may lose a wake-up, see section 6.
* *InputDispatch* has no liveness run. That input goes on rests on `QueueHasOneConsumer`,
  which is a safety property: a non-empty queue always has a callback with the token,
  and a callback that has it drains.

## 5. The proofs

All are for any values of the constants that satisfy the ASSUMEs of the module, which
TLC evaluates in its runs. Each follows the scheme Init => I, I /\ [Next]_vars => I',
I => P, with one lemma per action or group of actions.

* **PlayerDatabaseProofs**: `TypeCorrect`, which contains the order of the revisions
  (reported, durable, in a batch, queued); `DurableCut`, `NothingIsLost`. `DurableIsOneCut` alone is not
  inductive: whether the next commit is a cut depends on the batch, and after a failure
  on what is merged back. `CutInv` adds `NothingLost`: the tables, then the batch, then
  the pending documents give what was published. The lemmas about `SetDefaults`, `Without`
  and `Written` carry the argument (overriding is associative, a delete before an upsert).
  `FlushedIsKept` states `FlushedSurvives`: the rows have what a returned flush has promised, or
  something newer. Its `FlushInv` adds that no document is newer than the last publication
  (`Stamped`), that a batch or a commit of the newest revision is of what is published now
  (`Images`), and that what is published, what the batch will make of the rows, and the rows each
  cover the promises of every flush whose target they have reached (`Promises`), over
  failures, merges and crashes.
* **TradeExchangeProofs**: `TypeCorrect`, `GatesHeld`, `FrozenOffers`, `AcceptancesFall` from
  `CoreInv`: types, who holds which gate at which step, the frozen offers, and that what
  `Build` looked up is still deliverable. `TypeOK` needs that last part: gold is a natural
  number only because nothing is taken that is not there. `ExchangedForBothOrNot` says that
  nothing is doubled or lost if the process does not crash and at most one player has a
  writer that takes no gate; `OnceInv` says what the bags are between the two commits and
  during the undo. The assumption is needed: with two such writers an
  exchange can be half made, see section 6. Two theorems are about what lasts. `FinalRows`
  (`FinalRowIsFinal`): once the final snapshot is queued, it is the bag, and so is whatever the
  autosaver has still in hand, as the persist lock keeps it from holding an older
  one; and by `LifeInv` no executor or command works on a session that has got beyond the gate. For
  a player whose bag no delayed pickup reaches. `DoneStaysDurable` (`DoneIsDurable`): when a trade is
  reported as done neither row has what its player gave, and nothing brings it back,
  autosaves, final snapshots and crashes included, with at most one such writer. `OnceWhileAlive`
  is `OnceInv` up to a crash, `SnapInv` says that the two snapshots are of different tokens, and
  `GivenInv` follows what was given out of the bags, then the captures and queues, then the rows.
* **RuntimeProofs** is about three components. Of `GuardedLocks`: `TypesRight`, `RecordsTrue`, `OneLock`,
  `DeadlockFree` from `LocksInv`: how far the records of a thread lag behind the primitive
  at each point, and that a strict thread has no lock while it waits, so that the owner of
  what anyone waits for is not itself waiting. For any set of threads. Of `SessionHandover`:
  `SessionTypes`, `NothingIsLeftBehind` (`NothingLeftBehind`), `SourceIsSilent` (`SourceStaysSilent`) from
  `HandoverInv`: a worker has the gate for all it does and a retirement from its final save to the end,
  so a bag stands still in between; one thread at a time is between its capture and its put of
  a session, so what a retirement or a departure stores is the bag as it is and nothing older
  comes after it (`Stored`); and a route is armed when its source is stored, by when
  nothing that the transfer silences is in hand (`LeftFor`). For any number of sessions and
  endpoints. Of `DeadlineScheduler`: `SchedulerTypes`, `CountersAreExact`, `ScheduledIsInHeap`,
  `GenerationsAreKeptApart`, `EndsOnce` from `SchedulerInv`: the counters are the sizes of the two
  parts of the heap, what is in the heap was pushed in the running generation, and a
  callback in hand belongs to the generation of its worker. Names such as `Handover` and `Scheduler`
  say which component they are of because one module proves things about all three.
* **ReliableSendProofs**: `TypesRight`; `OrderedDelivery`, the refinement of `OrderedChannel`,
  which needs nothing about datagram numbers, only that order indexes are taken once and
  in turn; and, while the datagram counter has not passed the modulus (`[]Unwrapped`, an
  assumption of the theorems), `NumbersKept`, `NothingForgotten`, `OneCopyQueued`,
  `AcknowledgedIsRetired`. Their invariant `IInv` says that a number is taken once, so that
  whatever is queued, under way or acknowledged under an entry's number is that
  entry's. Past the modulus `AckRetires` is false, see section 6.
* **InputDispatchProofs**: `TypesRight`, `QueueIsServed`, `SnapshotIsFinal`, `ExecutionInOrder`,
  `DurableStays`, `MovesComeFirst`: all the properties of the run `input`.
  `Ind` says that every token out has one holder (scheduled, or with one thread), that
  the gate belongs to the worker that executes or to the retirement, and that a worker
  with an old token can only have lost it to the retirement. `OInv` says that log, hand
  and queue, in this order, are in the order of arrival but for moves before requests
  for actors. `KInv` is for the last two, `DurableIsKept` and `CommandsSeeTheirMoves`. Commands
  arrive in the order of the visits and phases they are received in (`Arrivals`). While the
  session is not given up, the queue is of one generation and has the context of the last
  arrival; every command that outlives phases is found in the log, in hand or in the queue
  as long as its visit lasts; so is the last move of the present context; and a command
  that follows a move has the last such move ahead of it wherever it is (`QueueSees`, `HandSees`,
  `LogSees`). The argument is that what a new context clears from the queue, and what the second
  check drops, is stale and stays so. A session that is given up remains given
  up (`GivenUpForGood`), which makes the exception one window, that of section 6.
* **MatchMakingProofs**: `TypeCorrect`, `EndsStand`, `RoundsCount`, `PayoutsCount` from `MatchInv`.
  Besides the types of all jobs it says that rounds are counted (`won` of both sides together
  is at most `started`, and less while a round runs), that a thread that finishes a match
  finds it over, and which participants a payout in progress still owes. That every critical
  section looks at the phase under the lock it changes it under is what `EndsStand` rests on.
* **SocialStoreProofs**: `AnsweredIsDurable`, `CaughtUpIsCurrent` from `SocialInv`, which says which
  revision the snapshot in hand and the file stand for. `SocialTyping`, `IndexesAlwaysMatch`,
  `RostersAlwaysSound`, `InvitationsAlwaysValid`, `FileAlwaysSound` from `MembersInv`: a world is `Sound` when
  nobody is on two rosters, rosters have a leader on them and at most their limit of members,
  and names and ids are taken once; the world of the store, the snapshot in the writer's hand and the
  file are all sound, so that a reload after a crash at any moment rebuilds indexes
  that match.
* **ReliableReceiveProofs**: `ReceiveTypes`, `OnceEachInOrder` (`OnceInOrder`) and `OrderKept`, the
  refinement of `OrderedChannel`, from `ReceiveInv`. The invariant follows every index of the
  wire back to the position it stands for (`At`). Of the frames: `Window` says that what
  is noted ahead of the base are frames sent, so a frame is `Accepted` at most once,
  and `Collected` that each fragment in the table came in an accepted frame, so a
  message is whole at most once. Of the order: `Turns` (a channel expects what the client has reached),
  `Waiting` (what is held is beyond what is expected, one ordered and one sequenced message of an index),
  `Passed` and `Reached` (what came out is behind the channel's position, and every ordered message
  behind it did come out), `InLine` (`OnceInOrder` of what is handed out together with what is
  about to be) and `Serial` (the k-th ordered message shown has the order k). A run of held
  messages is chosen, not computed, so that no step needs induction over data. Nothing is assumed of
  the datagram numbers or of the history. `AckedStaysKept` (`AckedIsKept`) does need them:
  it holds while numbers have not come round (`Unwrapped`, at most `Modulus` datagrams), by `KeptInv`, which
  adds that a number is one datagram's, that what the history knows was kept, and that what was accepted was
  kept. After that a datagram delayed by a whole circle leaves a number in the history with which a
  new one then comes; that one is acknowledged and dropped unread, so the condition is the
  code's and not the proof's.
  The messages and the frames of a session are bounded by half the circle (`ReceiveAssumption`), as
  a copy of a frame may stay under way for ever here, and one that comes half a circle late is
  taken for a new one; `Start` puts the point where the indexes wrap anywhere among them.

Model-checked only: all liveness properties (`FlushIsAnswered`, `PublishedIsWritten`,
`BusyEnds`, `RetirementEnds`, `EveryAcquireEnds`, `EveryMessageArrives`, `EveryHandleEnds`, `PresentIsPaid`,
`StartedMatchEnds`, `EndpointIsFreed`), because TLAPS proves no liveness under fairness and nothing
about ENABLED. Every invariant and every action property that a run checks is stated by a
theorem. No module with a theorem uses a recursive operator; nothing here is proved
by induction over data.

## 6. Where the code and its words differ

Shown by the run `match_stuck`:

* *A match that loads for ever* (`map_transition.py:445`, `matchmaking.py:639`). The transfer to
  the arena fires the presence event `disconnect`, which releases the session from the match it
  travels to (`presence.py:396`, `battleground.py:1092`). When every player has been sent,
  the match has no session, `_arm_match_timer` returns without arming the load timer, and
  the docstring's "the forfeit path owns it" is not so, as nobody has arrived. If a player
  does not arrive, `_expire_match_loading` never runs and the match stays registered; it is
  then what `match_for_character` finds for both players. The tests stub both calls.

Found by TLC, and reproduced by adding the property named to a configuration:

* *A flushed delete comes back* (`player_database.py:468`; `FlushedDeleteIsGone` in `pdb`). A
  snapshot is in a batch that fails; meanwhile its character is deleted; the merge puts
  the snapshot back beside the delete, and a transaction deletes first and writes after.
* *One item, two owners after a crash* (`trade.py:486`; `ReloadedOneOwner` in `trade_safe`): the
  sides are saved one after the other, while `trade.py:6` says "at once for both, or not at all".
* *Half an exchange without a crash* (`trade.py:472`; `EverythingOnce` in `trade_live` with two
  herbs in `Items`): the delayed pickup takes no gate, so both sides can change between
  the commits, and the rollback is skipped.
* *No ACK after the wrap* (`transport.py:1680`; `AckRetires` in `send` with `StartSeq` just below a
  small `Modulus`): a replacement is registered under a number of more than 24 bits, and
  the datagram carries it reduced.
* *A countdown move after the start* (`dispatch.py:372`; `CountdownNeverLeaks` in `input`): the
  phase is checked before the handler and changed without the player's gate, while
  `dispatch.py:172` says "Countdown movement must never execute after the start".
* *A player put back on the old map* (`player_persistence.py:603`; `DestinationStays` in
  `handover`): after a transfer only the reasons "client disconnect", "connection replaced" and
  "interval" are silenced, while the comment below says that a late callback "must not overwrite the
  destination map and entry position after the new session has initialized". The old
  connection usually ends by neither: if its disconnect notification is lost, it is retired after ten
  seconds of silence with the reason "transport idle or ACK timeout" (`transport.py:2209`),
  and that final save puts the source's map and bag over the destination's until the destination
  saves again. Two more ways are a deferred save that has looked at the flag just before
  the transfer (`player_persistence.py:744`), and a command that was in hand when a match, a
  timer or an administrator moved the player without its gate.
* *A pending write without a writer* (`social_state.py:347`; `PendingHasWriter` in `social`): the
  idle wait times out, a mutation is queued before the thread has the condition again and finds
  it alive, and the thread ends. `flush()` then waits its 15 s and fails, though the next
  mutation starts a new writer and nothing is lost.

Seen while modelling, described here and not run:

* `close()` may lose its wake-up: it sets both events without the condition, and when both
  are set between the writer's reading of the stop event (`player_database.py:398`) and
  its clearing of the wake event (417) the writer sleeps and the join times out. The model
  has this behaviour; `FlushIsAnswered` and `PublishedIsWritten` except it. A
  publication during the last moments of a writer (321) is a second one.
* A READY names no offer (`trade.py:272`). If it crosses the partner's change, it
  counts for the changed offer, once the acceptances were taken back.
* `busy` is cleared after the gates are released (`trade.py:286`). A retirement in
  between finds the trade busy, leaves it, and it stays open until the partner's next
  command finds the player gone (`PartnerAbsent`).
* The handlers of matchmaking meet at several more places. The time-out of an
  invitation decides on a phase it has read before (`matchmaking.py:729`), so it can cancel a match
  that is already loading or running. A player taken off the queue by a match while a join
  is between its check and its entry is queued and in a match. An invitation written
  after the cancellation (`matchmaking.py:557`) binds a session to a cancelled match.
  `docs/PVP_MATCHMAKING.md:242` says that retiring a session cancels its match timers; they are
  in `match.timers` on the service's scheduler, and `transport.py:2288` cancels only those
  of the session.
* A session that is being retired can still be moved by a match or an administrator, who ask for
  neither its gate nor its state. Its final save is then skipped as that of a source, its endpoint
  comes free, and a reconnect can begin before the source's own save is stored.
  `NothingLeftBehind` excepts it, and what such a move does to a command in hand.
* An invitation accepted into a group that has filled up (`social_state.py:752`) leaves the old
  group, consumes the invitation, and its exception passes the flush of
  `_durable_mutation` by: the character is in no group and the write is not waited for.
* `_ensure_started` (`gameplay_scheduler.py:294`) looks at the flags under the condition and
  starts after it: a shutdown in between is undone by that start.
* The order window (4096, `transport.py:42`) is half the reliable window (8192, 40), so a frame the one
  accepts the other may refuse (2763), after its datagram was acknowledged.
* A handler that raises ends the loop over the deliveries of its datagram
  (`transport.py:2917`, caught at 2106); the messages behind it were acknowledged and are
  lost. Frames refused for the window (2712) and partial messages evicted (2851) are
  acknowledged too.
* When the ingress scheduler refuses a callback the queue is cleared and the token
  released before the session is marked as failed (`dispatch.py:129`), so a command can
  execute behind the gap. `DurableIsKept` and `CommandsSeeTheirMoves` except that window.

## 7. What is not modelled

Left out of modelled components:

* *PlayerDatabase*: the WAL checkpoint, which changes no row, and the contents of rows.
* *TradeExchange*: item details, slots and full bags (a free failure of `Build`), delivery
  of the trade window's messages, the registry of invitations, a new login after a
  retirement.
* *GuardedLocks*: the plain locks the guard does not cover (mutation gates, persist locks,
  outbound lock). Trades order the gates by session and time out; that is in
  TradeExchange.
* *ReliableSend*: unreliable and sequenced frames, pacing, round-trip estimates, backpressure
  reports, several messages in one datagram. The counter of sequenced frames is not
  reset with the order index (`transport.py:247`), which belongs to the model of
  sequenced frames. A session that a full lifecycle scheduler leaves un-retired is not
  in this model (it is in InputDispatch). A retired session's network is not followed.
* *ReliableReceive*: the search for gaps that become NAKs (`transport.py:2671`), frames that are
  neither reliable nor sequenced, malformed fragments. An acknowledgement that is late comes to
  the same as one that is lost.
* *DeadlineScheduler*: what callbacks do and their exceptions; the names and statistics of
  the service.
* *MatchMaking*: groups in the queue, search windows and the retry of forming (`matchmaking.py:585`),
  objective modes (`battleground_objectives.py`, `battleground_fortress.py`), more than one
  player to a side, bots, the Mortis arena, scores, honour and statistics, all messages;
  leaving during an invitation. A lost session's release dequeues by character, not by session.
* *SocialStore*: officers and the right to invite of members who do not lead (admission is by
  leaders), group names and texts (`edit_group`, `change_guild_message`), the repairs `_load` makes to a
  damaged file, and `services/social.py`, which turns packets into these calls.
* *SessionHandover*: the login service between the two gameplay connections, with a route table
  and a ticket of its own; several accounts on one address; the expiry of routes; a service
  without login enforcement or command off-loading; `!debug_pvp` bots; the reasons of failed
  reliable output, which save like a time-out; the booking guard of the store; shutdown.
* *InputDispatch*: what the handlers do, stall reports, other users of the mutation gate.
  The check that the session is still registered is redundant once it is retired.

Left out altogether: combat, monsters and map rules (numeric, over catalogues, data and
not control); quests, talents, seasons and rankings (one command at a time under the
gate, which TradeExchange has as a command); inventory and commerce (likewise); administration (HTTP; its changes to a bag appear as a command);
chat and events (fan-out); static content (read-only); wire formats (bit layout, covered by
golden tests); launcher and tools (start-up).

## 8. The plan

In the order of what goes wrong most expensively. Done: the database and the trade; the
guard; output and input of a session; the scheduler; matches; the social store; sessions
from map to map. Left:

1. An abstract specification of `SessionHandover`, one owner per character whose last
   snapshot is the stored one, its inductive invariant, and the login service's hop.
2. `AccountStore`: names, renames, deletion, shared wallets; theorem: names are unique.
3. `TradeRegistry`: invitations before `TradeExchange`; theorem: both entries or none.
4. The progression queue beside `DeadlineScheduler`.
5. `Connection`: two endpoints from `ReliableSend` and `ReliableReceive` in place of the
   external client, on a small instance.
6. An abstract write-behind store, "what is stored is one moment of what was published",
   for `PlayerDatabase` and `SocialStore`; groups in the queue and objective modes for `MatchMaking`.
7. The theorems of `ReliableReceive` for any number of frames, under a bound on how late a
   copy may come and on the client's window, and those of both directions composed in `Connection`.

Runs that ask related questions of one module are merged as the list grows.
