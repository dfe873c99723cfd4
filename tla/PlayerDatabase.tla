--------------------------- MODULE PlayerDatabase ---------------------------
(***************************************************************************)
(* AsyncPlayerDatabase (src/persistence/player_database.py): callers       *)
(* publish detached snapshots under one condition variable, a single       *)
(* writer thread takes everything pending as one batch and commits it in   *)
(* one SQLite transaction, a failed batch is merged back and retried.      *)
(*                                                                         *)
(* A snapshot is abstracted to the number of the publication that made it  *)
(* (ghost variable clock), so the value tells how new it is; NoRow is "no  *)
(* row" in a table and "no entry" in a pending dictionary.  Wallet rows    *)
(* and account-achievement rows are written and merged by the same code;   *)
(* wallets stands for both.                                                *)
(***************************************************************************)
EXTENDS Naturals, FiniteSets

CONSTANTS
    Characters,     \* character ids
    Accounts,       \* account ids
    Owner,          \* the account whose wallet a character spends
    Flushers,       \* threads that may wait in flush()
    Deletable,      \* characters some caller may delete
    MaxClock,       \* bound: publications
    MaxFailures,    \* bound: failed transactions
    MaxCrashes,     \* bound: process crashes
    MaxCloses       \* bound: calls of close()

ASSUME CharactersAssumption == IsFiniteSet(Characters)
ASSUME OwnerAssumption == Owner \in [Characters -> Accounts]
ASSUME DeletableAssumption == Deletable \subseteq Characters
ASSUME BoundsAssumption ==
    /\ MaxClock \in Nat
    /\ MaxFailures \in Nat
    /\ MaxCrashes \in Nat
    /\ MaxCloses \in Nat

VARIABLES
    pending,            \* the three _pending_* dictionaries of documents
    pendingDeletes,     \* _pending_deletes
    queuedRevision,     \* _queued_revision
    writtenRevision,    \* _written_revision
    wakeEvent,          \* _wake_event
    stopEvent,          \* _stop_event
    writer,             \* where the writer thread stands in _writer_loop
    generation,         \* which thread object _thread names (0: none yet)
    batch,              \* the documents the writer took
    batchDeletes,       \* the deletes the writer took
    batchRevision,      \* the queued revision it read with them
    rows,               \* the committed tables
    flusher,            \* flush() per caller: the target revision it waits for
    closer,             \* the thread in close(): where it stands
    joining,            \* the thread object close() read before joining it
    clock,              \* ghost: publications so far
    published,          \* ghost: the documents callers last published
    batchImage,         \* ghost: published when the batch was taken
    durableImage,       \* ghost: batchImage of the last committed batch
    durableRevision,    \* ghost: revision of the last committed batch
    promised,           \* ghost: published when each flush() began
    acked,              \* ghost: what returned flushes have promised
    ackedDeletes,       \* ghost: deletions that returned flushes promised
    failures, crashes, closes

queueVars   == <<pending, pendingDeletes, queuedRevision>>
batchVars   == <<batch, batchDeletes, batchRevision, batchImage>>
durableVars == <<rows, durableImage, durableRevision>>
closeVars   == <<closer, joining, closes>>
promiseVars == <<promised, acked, ackedDeletes>>
eventVars   == <<wakeEvent, stopEvent>>
vars == <<queueVars, writtenRevision, eventVars, writer, generation,
          batchVars, durableVars, flusher, closeVars, clock, published,
          promiseVars, failures, crashes>>

-----------------------------------------------------------------------------
(* Documents: three tables of versions. *)

NoRow == 0
Docs  == [states: [Characters -> Nat], profiles: [Characters -> Nat],
          wallets: [Accounts -> Nat]]
NoDocs == [states   |-> [k \in Characters |-> NoRow],
           profiles |-> [k \in Characters |-> NoRow],
           wallets  |-> [a \in Accounts |-> NoRow]]

\* Entries of f, and those of g where f has none.
Over(f, g) == [k \in DOMAIN g |-> IF f[k] # NoRow THEN f[k] ELSE g[k]]

\* dict.setdefault for every entry of the older documents.
SetDefaults(newer, older) ==
    [states   |-> Over(newer.states, older.states),
     profiles |-> Over(newer.profiles, older.profiles),
     wallets  |-> Over(newer.wallets, older.wallets)]

\* pop(key) / DELETE ... WHERE character_id IN deleted, in both tables.
Without(docs, deleted) ==
    [docs EXCEPT
        !.states   = [k \in Characters |-> IF k \in deleted THEN NoRow ELSE @[k]],
        !.profiles = [k \in Characters |-> IF k \in deleted THEN NoRow ELSE @[k]]]

\* The transaction of _write_rows: deletes first, then the upserts.
Written(table, docs, deleted) == SetDefaults(docs, Without(table, deleted))

NothingPending == pending = NoDocs /\ pendingDeletes = {}

-----------------------------------------------------------------------------
(* The writer: "none" no live thread, "wait" in wake_event.wait() or the    *)
(* coalescing sleep, "grab" holding the condition between reading the stop  *)
(* event and clearing the wake event, "write" inside the transaction,       *)
(* "failed"/"written" before re-acquiring the condition, "exiting" past the *)
(* decision to return but still alive.                                      *)

WriterStates == {"none", "wait", "grab", "write", "failed", "written", "exiting"}
CloserStates == {"out", "flush", "stop", "wake", "join"}
Idle == 0

TypeOK ==
    /\ pending \in Docs /\ batch \in Docs /\ rows \in Docs
    /\ published \in Docs /\ batchImage \in Docs /\ durableImage \in Docs
    /\ acked \in Docs
    /\ pendingDeletes \in SUBSET Characters
    /\ batchDeletes \in SUBSET Characters
    /\ queuedRevision \in Nat
    /\ writtenRevision \in 0..durableRevision
    /\ durableRevision \in 0..batchRevision
    /\ batchRevision \in 0..queuedRevision
    /\ wakeEvent \in BOOLEAN /\ stopEvent \in BOOLEAN
    /\ writer \in WriterStates /\ generation \in Nat
    /\ flusher \in [Flushers -> Nat]
    /\ promised \in [Flushers -> [docs: Docs, deleted: SUBSET Characters]]
    /\ ackedDeletes \in SUBSET Characters
    /\ closer \in CloserStates /\ joining \in Nat
    /\ clock \in Nat /\ failures \in Nat /\ crashes \in Nat /\ closes \in Nat

NoPromise == [docs |-> NoDocs, deleted |-> {}]

Init ==
    /\ pending = NoDocs /\ pendingDeletes = {}
    /\ queuedRevision = 0 /\ writtenRevision = 0
    /\ wakeEvent = FALSE /\ stopEvent = FALSE
    /\ writer = "none" /\ generation = 0
    /\ batch = NoDocs /\ batchDeletes = {} /\ batchRevision = 0
    /\ rows = NoDocs
    /\ flusher = [c \in Flushers |-> Idle]
    /\ closer = "out" /\ joining = 0
    /\ clock = 0 /\ published = NoDocs /\ batchImage = NoDocs
    /\ durableImage = NoDocs /\ durableRevision = 0
    /\ promised = [c \in Flushers |-> NoPromise]
    /\ acked = NoDocs /\ ackedDeletes = {}
    /\ failures = 0 /\ crashes = 0 /\ closes = 0

-----------------------------------------------------------------------------
(* Callers.  Every method runs under the condition, which the writer holds  *)
(* in "grab" alone.                                                         *)

LockFree == writer # "grab"

\* _ensure_writer_locked, then wake_event.set().  A thread that is still
\* alive, even one about to return, is taken for a working writer.
EnsureWriterAndWake ==
    /\ wakeEvent' = TRUE
    /\ IF writer = "none"
       THEN /\ stopEvent' = FALSE
            /\ writer' = "wait"
            /\ generation' = generation + 1
       ELSE UNCHANGED <<stopEvent, writer, generation>>

\* What the three publishing methods share: a fresh snapshot number, the next
\* revision, a writer.
Publish ==
    /\ LockFree /\ clock < MaxClock
    /\ clock' = clock + 1
    /\ queuedRevision' = queuedRevision + 1
    /\ EnsureWriterAndWake
    /\ UNCHANGED <<writtenRevision, batchVars, durableVars, flusher, closeVars,
                   failures, crashes>>

\* A republished character is no longer one whose deletion was promised.
Undeleted(k) ==
    /\ ackedDeletes' = ackedDeletes \ {k}
    /\ promised' = [c \in Flushers |->
                        [promised[c] EXCEPT !.deleted = @ \ {k}]]
    /\ UNCHANGED acked

QueueWallet(a) ==
    /\ Publish
    /\ pending' = [pending EXCEPT !.wallets[a] = clock']
    /\ published' = [published EXCEPT !.wallets[a] = clock']
    /\ UNCHANGED <<pendingDeletes, promiseVars>>

\* The entries of one character's snapshot, with those that come along.
Snapshot(docs, k, version, withProfile, withWallet) ==
    [docs EXCEPT
        !.states[k]   = version,
        !.profiles[k] = IF withProfile THEN version ELSE @,
        !.wallets[Owner[k]] = IF withWallet THEN version ELSE @]

QueueState(k) ==
    \E withProfile, withWallet \in BOOLEAN :
        /\ Publish
        /\ pending' = Snapshot(pending, k, clock', withProfile, withWallet)
        /\ published' = Snapshot(published, k, clock', withProfile, withWallet)
        /\ pendingDeletes' = pendingDeletes \ {k}
        /\ Undeleted(k)

QueueProfile(k) ==
    /\ Publish
    /\ pending' = [pending EXCEPT !.profiles[k] = clock']
    /\ published' = [published EXCEPT !.profiles[k] = clock']
    /\ pendingDeletes' = pendingDeletes \ {k}
    /\ Undeleted(k)

QueueDelete(k) ==
    /\ Publish
    /\ pending' = Without(pending, {k})
    /\ published' = Without(published, {k})
    /\ pendingDeletes' = pendingDeletes \cup {k}
    /\ acked' = Without(acked, {k})
    /\ promised' = [c \in Flushers |->
                        [promised[c] EXCEPT !.docs = Without(@, {k})]]
    /\ UNCHANGED ackedDeletes

RequestFlush ==
    /\ LockFree
    /\ ~NothingPending \/ writtenRevision < queuedRevision
    /\ EnsureWriterAndWake
    /\ UNCHANGED <<queueVars, writtenRevision, batchVars, durableVars, flusher,
                   closeVars, clock, published, promiseVars, failures, crashes>>

\* flush() up to its first wait.
FlushBegin(c) ==
    /\ LockFree
    /\ flusher[c] = Idle
    /\ writtenRevision < queuedRevision
    /\ flusher' = [flusher EXCEPT ![c] = queuedRevision]
    /\ promised' = [promised EXCEPT ![c] =
            [docs |-> published,
             deleted |-> {k \in Characters : /\ published.states[k] = NoRow
                                             /\ published.profiles[k] = NoRow}]]
    /\ EnsureWriterAndWake
    /\ UNCHANGED <<queueVars, writtenRevision, batchVars, durableVars, closeVars,
                   clock, published, acked, ackedDeletes, failures, crashes>>

\* The loop of flush() finds its revision written and returns True.
FlushReturn(c) ==
    /\ LockFree
    /\ flusher[c] # Idle
    /\ writtenRevision >= flusher[c]
    /\ flusher' = [flusher EXCEPT ![c] = Idle]
    /\ acked' = SetDefaults(promised[c].docs, acked)
    /\ ackedDeletes' = ackedDeletes \cup promised[c].deleted
    /\ promised' = [promised EXCEPT ![c] = NoPromise]
    /\ UNCHANGED <<queueVars, writtenRevision, eventVars, writer, generation,
                   batchVars, durableVars, closeVars, clock, published,
                   failures, crashes>>

\* The deadline passes first: TimeoutError, nothing is promised.
FlushTimeout(c) ==
    /\ LockFree
    /\ flusher[c] # Idle
    /\ writtenRevision < flusher[c]
    /\ flusher' = [flusher EXCEPT ![c] = Idle]
    /\ promised' = [promised EXCEPT ![c] = NoPromise]
    /\ UNCHANGED <<queueVars, writtenRevision, eventVars, writer, generation,
                   batchVars, durableVars, closeVars, clock, published, acked,
                   ackedDeletes, failures, crashes>>

-----------------------------------------------------------------------------
(* close(): flush (its error is kept and raised at the end, so it goes on    *)
(* either way), set both events without the condition, join the thread.     *)

CloseBegin ==
    /\ LockFree
    /\ closer = "out" /\ closes < MaxCloses
    /\ closes' = closes + 1
    /\ joining' = queuedRevision            \* the target of its flush
    /\ closer' = "flush"
    /\ IF writtenRevision < queuedRevision
       THEN EnsureWriterAndWake
       ELSE UNCHANGED <<eventVars, writer, generation>>
    /\ UNCHANGED <<queueVars, writtenRevision, batchVars, durableVars, flusher,
                   clock, published, promiseVars, failures, crashes>>

CloserStep(from, to) ==
    /\ closer = from /\ closer' = to
    /\ UNCHANGED <<queueVars, writtenRevision, batchVars, durableVars, flusher,
                   writer, generation, closes, clock, published, promiseVars,
                   failures, crashes>>

CloseFlushed ==
    /\ LockFree /\ writtenRevision >= joining
    /\ CloserStep("flush", "stop")
    /\ UNCHANGED <<eventVars, joining>>

CloseFlushTimeout ==
    /\ LockFree /\ writtenRevision < joining
    /\ CloserStep("flush", "stop")
    /\ UNCHANGED <<eventVars, joining>>

CloseSetStop ==
    /\ CloserStep("stop", "wake")
    /\ stopEvent' = TRUE
    /\ UNCHANGED <<wakeEvent, joining>>

CloseSetWake ==
    /\ CloserStep("wake", "join")
    /\ wakeEvent' = TRUE
    /\ joining' = generation
    /\ UNCHANGED stopEvent

JoinedThreadAlive == writer # "none" /\ generation = joining

\* The joined thread has ended; _thread becomes None if it still names it.
CloseReturn ==
    /\ LockFree /\ ~JoinedThreadAlive
    /\ CloserStep("join", "out")
    /\ UNCHANGED <<eventVars, joining>>

CloseJoinTimeout ==
    /\ JoinedThreadAlive
    /\ CloserStep("join", "out")
    /\ UNCHANGED <<eventVars, joining>>

-----------------------------------------------------------------------------
(* The writer thread. *)

WriterFrame == UNCHANGED <<queuedRevision, generation, flusher, closeVars, clock,
                           published, promiseVars, crashes>>

\* Woken, and the condition acquired: return if stopped with nothing pending.
\* The stop event is read here; the wake event is cleared only in WriterTake,
\* and neither of close()'s two set() calls needs the condition.
WriterCheck ==
    /\ writer = "wait" /\ wakeEvent
    /\ writer' = IF stopEvent /\ NothingPending THEN "exiting" ELSE "grab"
    /\ WriterFrame
    /\ UNCHANGED <<pending, pendingDeletes, writtenRevision, eventVars,
                   batchVars, durableVars, failures>>

WriterTake ==
    /\ writer = "grab"
    /\ writer' = "write"
    /\ batch' = pending /\ batchDeletes' = pendingDeletes
    /\ batchRevision' = queuedRevision
    /\ batchImage' = published
    /\ pending' = NoDocs /\ pendingDeletes' = {}
    /\ wakeEvent' = FALSE
    /\ WriterFrame
    /\ UNCHANGED <<writtenRevision, stopEvent, durableVars, failures>>

WriterCommit ==
    /\ writer = "write"
    /\ writer' = "written"
    /\ rows' = Written(rows, batch, batchDeletes)
    /\ durableImage' = batchImage
    /\ durableRevision' = batchRevision
    /\ WriterFrame
    /\ UNCHANGED <<pending, pendingDeletes, writtenRevision, eventVars,
                   batchVars, failures>>

\* Encoding, BEGIN, a statement or the commit raises; the rollback leaves the
\* tables as they were.
WriterFail ==
    /\ writer = "write" /\ failures < MaxFailures
    /\ writer' = "failed"
    /\ failures' = failures + 1
    /\ WriterFrame
    /\ UNCHANGED <<pending, pendingDeletes, writtenRevision, eventVars,
                   batchVars, durableVars>>

\* Mutant: the failed batch overwrites what was published meanwhile (update
\* in the place of setdefault).
RestoreOverwrites ==
    /\ writer = "failed"
    /\ writer' = "wait"
    /\ pending' = SetDefaults(batch, pending)
    /\ pendingDeletes' = pendingDeletes \cup batchDeletes
    /\ wakeEvent' = TRUE
    /\ WriterFrame
    /\ UNCHANGED <<writtenRevision, stopEvent, batchVars, durableVars, failures>>

\* Mutant: the retry is not scheduled.
RestoreWithoutWake ==
    /\ writer = "failed"
    /\ writer' = "wait"
    /\ pending' = SetDefaults(pending, batch)
    /\ pendingDeletes' = pendingDeletes \cup batchDeletes
    /\ WriterFrame
    /\ UNCHANGED <<writtenRevision, eventVars, batchVars, durableVars, failures>>

\* "A newer snapshot always wins over the failed one", then wake up again.
WriterRestore ==
    /\ writer = "failed"
    /\ writer' = "wait"
    /\ pending' = SetDefaults(pending, batch)
    /\ pendingDeletes' = pendingDeletes \cup batchDeletes
    /\ wakeEvent' = TRUE
    /\ WriterFrame
    /\ UNCHANGED <<writtenRevision, stopEvent, batchVars, durableVars, failures>>

\* Mutant: the revision is read after the commit and not with the batch.
ReportQueuedRevision ==
    /\ writer = "written"
    /\ writer' = "wait"
    /\ writtenRevision' = queuedRevision
    /\ wakeEvent' = (wakeEvent \/ ~NothingPending)
    /\ WriterFrame
    /\ UNCHANGED <<pending, pendingDeletes, stopEvent, batchVars, durableVars,
                   failures>>

\* Publish the written revision to the waiters; more work wakes the writer.
WriterReport ==
    /\ writer = "written"
    /\ writer' = "wait"
    /\ writtenRevision' = IF batchRevision > writtenRevision
                          THEN batchRevision ELSE writtenRevision
    /\ wakeEvent' = (wakeEvent \/ ~NothingPending)
    /\ WriterFrame
    /\ UNCHANGED <<pending, pendingDeletes, stopEvent, batchVars, durableVars,
                   failures>>

\* The thread ends after closing its connection, still without the condition.
WriterExit ==
    /\ writer = "exiting"
    /\ writer' = "none"
    /\ WriterFrame
    /\ UNCHANGED <<pending, pendingDeletes, writtenRevision, eventVars,
                   batchVars, durableVars, failures>>

-----------------------------------------------------------------------------
(* The process dies and a new one loads the tables (load_documents).         *)

Crash ==
    /\ crashes < MaxCrashes
    /\ crashes' = crashes + 1
    /\ pending' = NoDocs /\ pendingDeletes' = {}
    /\ queuedRevision' = 0 /\ writtenRevision' = 0
    /\ wakeEvent' = FALSE /\ stopEvent' = FALSE
    /\ writer' = "none" /\ generation' = 0
    /\ batch' = NoDocs /\ batchDeletes' = {} /\ batchRevision' = 0
    /\ flusher' = [c \in Flushers |-> Idle]
    /\ closer' = "out" /\ joining' = 0
    /\ published' = rows /\ batchImage' = rows
    /\ durableImage' = rows /\ durableRevision' = 0
    /\ promised' = [c \in Flushers |-> NoPromise]
    /\ UNCHANGED <<rows, clock, acked, ackedDeletes, failures, closes>>

-----------------------------------------------------------------------------
CallerStep ==
    \/ \E a \in Accounts : QueueWallet(a)
    \/ \E k \in Characters : QueueState(k)
    \/ \E k \in Characters : QueueProfile(k)
    \/ \E k \in Deletable : QueueDelete(k)
    \/ RequestFlush
    \/ \E c \in Flushers : FlushBegin(c)
    \/ \E c \in Flushers : FlushReturn(c)
    \/ \E c \in Flushers : FlushTimeout(c)

CloseStep ==
    \/ CloseBegin
    \/ CloseFlushed
    \/ CloseFlushTimeout
    \/ CloseSetStop
    \/ CloseSetWake
    \/ CloseReturn
    \/ CloseJoinTimeout

WriterStep ==
    \/ WriterCheck
    \/ WriterTake
    \/ WriterCommit
    \/ WriterFail
    \/ WriterRestore
    \/ WriterReport
    \/ WriterExit

Next == CallerStep \/ CloseStep \/ WriterStep \/ Crash

Spec == Init /\ [][Next]_vars

\* The thread runs, SQLite commits again if it is tried again and again, and a
\* caller that can return from flush() or move on in close() does.
Fairness ==
    /\ WF_vars(WriterStep)
    /\ SF_vars(WriterCommit)
    /\ \A c \in Flushers : WF_vars(FlushReturn(c))
    /\ WF_vars(CloseFlushed)
    /\ WF_vars(CloseSetStop)
    /\ WF_vars(CloseSetWake)
    /\ WF_vars(CloseReturn)

FairSpec == Spec /\ Fairness

-----------------------------------------------------------------------------
(* Safety. *)

\* An entry the callers have not deleted is in the table exactly as published.
SameUnlessDeleted(table, image) ==
    \A k \in DOMAIN image : image[k] # NoRow => table[k] = image[k]

Covers(docs, image) ==
    /\ docs.wallets = image.wallets
    /\ SameUnlessDeleted(docs.states, image.states)
    /\ SameUnlessDeleted(docs.profiles, image.profiles)

\* The tables are always one consistent cut of what callers published: every
\* character and wallet as it stood when the last committed batch was taken,
\* whatever failed and was merged back on the way (a crash loses a suffix of
\* the publications and never mixes two moments).  Wallets are exact, and a
\* character row may only outlive its own deletion.
DurableIsOneCut == Covers(rows, durableImage)

AtLeast(table, promise) == \A k \in DOMAIN promise : table[k] >= promise[k]

\* flush() returned: everything published before it is in the tables in that
\* version or a newer one, now and after every later failure and crash
\* (account_state.py: "Wait for all snapshots queued before this call to
\* commit").
FlushedSurvives ==
    /\ AtLeast(rows.states, acked.states)
    /\ AtLeast(rows.profiles, acked.profiles)
    /\ AtLeast(rows.wallets, acked.wallets)

\* Nothing published is ever lost between the dictionaries, the batch in hand
\* and the tables: committing the batch and then everything pending yields what
\* callers last published.
InHand == writer \in {"write", "failed"}
AfterBatch == IF InHand THEN Written(rows, batch, batchDeletes) ELSE rows
NothingLost ==
    /\ Covers(Written(AfterBatch, pending, pendingDeletes), published)
    /\ InHand => Covers(AfterBatch, batchImage)

(* Not true of the code, and checked by no run: TLC refutes it, see README. *)

\* A deletion that was flushed stays deleted (account_state.py: delete() makes
\* the store "Forget a character's profile and state").
FlushedDeleteIsGone ==
    \A k \in ackedDeletes : rows.states[k] = NoRow /\ rows.profiles[k] = NoRow

\* Whoever waits in flush() is answered, through failures, retries and the death of
\* the process, unless somebody closes the database meanwhile.
FlushIsAnswered ==
    \A c \in Flushers : flusher[c] # Idle ~> flusher[c] = Idle \/ closes > 0

\* Every publication reaches the tables without anybody asking for a flush, in a
\* process that is neither killed nor closed.
PublishedIsWritten ==
    \A r \in 1..MaxClock :
        queuedRevision >= r ~> durableRevision >= r \/ closes > 0 \/ crashes > 0

=============================================================================
