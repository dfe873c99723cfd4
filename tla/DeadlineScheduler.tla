------------------------- MODULE DeadlineScheduler -------------------------
(***************************************************************************)
(* The scheduler of delayed gameplay work                                  *)
(* (src/runtime/gameplay_scheduler.py): one heap of deadlines, a fixed set *)
(* of workers on one condition, handles that any thread starts and cancels *)
(* like a threading.Timer, and a shutdown after which a new generation of  *)
(* workers may be started while a callback of the old one still runs.      *)
(*                                                                         *)
(* An action is what happens under one hold of the condition.  A worker is *)
(* named by its generation and its number.  The heap is the set of the     *)
(* handles in it; a handle is pushed at most once.                         *)
(***************************************************************************)
EXTENDS Integers, FiniteSets

CONSTANTS
    Handles,
    WorkerCount,    \* worker_count
    MaxPending,     \* max_pending
    CompactAt,      \* cancelled entries that call for a compaction (256)
    Intervals,      \* intervals of the handles
    MaxTime,        \* bound: the clock
    MaxShutdowns    \* bound: shutdowns, and so restarts

ASSUME SchedulerAssumption ==
    /\ IsFiniteSet(Handles)
    /\ WorkerCount \in Nat \ {0} /\ MaxPending \in Nat \ {0} /\ CompactAt \in Nat \ {0}
    /\ Intervals \subseteq Nat /\ MaxTime \in Nat /\ MaxShutdowns \in Nat

Generations == 1..(MaxShutdowns + 1)
Workers == Generations \X (1..WorkerCount)

VARIABLES
    st,         \* _state of a handle
    order,      \* _sequence of a handle
    deadline,   \* _deadline of a handle
    finished,   \* handles whose finished event is set
    heap,       \* handles in _heap
    sequence,   \* next value of _sequence
    pending,    \* _pending_count
    dead,       \* _cancelled_heap_entries
    shut,       \* _shutdown
    ever,       \* _ever_started
    generation, \* _generation
    threads,    \* _workers
    place,      \* where a worker is
    task,        \* the handle a worker runs
    until,      \* end of a worker's timed wait
    call,       \* where a thread inside handle.start() is
    joining,    \* a shutdown is joining workers
    now,        \* the clock
    shutdowns,
    pushedIn,   \* ghost: generation in which a handle was scheduled
    ranIn       \* ghost: generations of the workers that ran a handle

handleVars == <<st, order, deadline, finished>>
heapVars   == <<heap, sequence, pending, dead>>
lifeVars   == <<shut, ever, generation, threads, joining, shutdowns>>
workerVars == <<place, task, until>>
ghostVars  == <<pushedIn, ranIn>>
schedulerVars == <<handleVars, heapVars, lifeVars, workerVars, call, now, ghostVars>>

States == {"new", "scheduled", "running", "finished", "cancelled"}
Places == {"none", "awake", "waiting", "timed", "running", "leaving", "gone"}

SchedulerTyped ==
    /\ st \in [Handles -> States] /\ order \in [Handles -> Int]
    /\ deadline \in [Handles -> Nat] /\ finished \subseteq Handles
    /\ heap \subseteq Handles /\ sequence \in Nat /\ pending \in Int /\ dead \in Nat
    /\ shut \in BOOLEAN /\ ever \in BOOLEAN /\ generation \in Nat
    /\ threads \subseteq Workers /\ joining \in BOOLEAN /\ shutdowns \in Nat
    /\ place \in [Workers -> Places] /\ task \in [Workers -> SUBSET Handles]
    /\ until \in [Workers -> Nat]
    /\ call \in [Handles -> {"none", "start", "push"}] /\ now \in Nat
    /\ pushedIn \in [Handles -> Nat] /\ ranIn \in [Handles -> SUBSET Nat]

SchedulerInit ==
    /\ st = [h \in Handles |-> "new"] /\ order = [h \in Handles |-> -1]
    /\ deadline = [h \in Handles |-> 0] /\ finished = {}
    /\ heap = {} /\ sequence = 0 /\ pending = 0 /\ dead = 0
    /\ shut = FALSE /\ ever = FALSE /\ generation = 0 /\ threads = {}
    /\ joining = FALSE /\ shutdowns = 0
    /\ place = [w \in Workers |-> "none"] /\ task = [w \in Workers |-> {}]
    /\ until = [w \in Workers |-> 0]
    /\ call = [h \in Handles |-> "none"] /\ now = 0
    /\ pushedIn = [h \in Handles |-> 0] /\ ranIn = [h \in Handles |-> {}]

Scheduled == {h \in Handles : st[h] = "scheduled"}
Alive == {w \in threads : place[w] \notin {"none", "gone"}}

\* notify_all
Woken(places) ==
    [w \in Workers |-> IF places[w] \in {"waiting", "timed"} THEN "awake" ELSE places[w]]

-----------------------------------------------------------------------------
(* GameplayDeadlineScheduler.start and shutdown *)

NewWorkers == {generation + 1} \X (1..WorkerCount)
Startable == Alive = {} \/ shut

\* A worker of the last generation that outlives its shutdown stays on the list.
Launch ==
    /\ shut' = FALSE /\ ever' = TRUE /\ generation' = generation + 1
    /\ threads' = Alive \cup NewWorkers
    /\ place' = [w \in Workers |-> IF w \in NewWorkers THEN "awake" ELSE place[w]]
    /\ UNCHANGED <<joining, shutdowns, task, until>>

Start ==
    /\ Startable
    /\ pending = 0 /\ heap = {}
    /\ Launch
    /\ UNCHANGED <<handleVars, heapVars, call, now, ghostVars>>

Shutdown(cancel) ==
    /\ shutdowns < MaxShutdowns /\ ~joining
    /\ shutdowns' = shutdowns + 1 /\ shut' = TRUE /\ joining' = TRUE
    /\ IF cancel
       THEN /\ st' = [h \in Handles |-> IF h \in heap \cap Scheduled THEN "cancelled" ELSE st[h]]
            /\ finished' = finished \cup (heap \cap Scheduled)
            /\ heap' = {} /\ pending' = 0 /\ dead' = 0
       ELSE UNCHANGED <<st, finished, heap, pending, dead>>
    /\ place' = Woken(place)
    /\ UNCHANGED <<order, deadline, sequence, ever, generation, threads, task, until, call, now,
                   ghostVars>>

\* The joins end, or time out.
Joined ==
    /\ joining /\ joining' = FALSE
    /\ threads' = Alive
    /\ UNCHANGED <<handleVars, heapVars, shut, ever, generation, shutdowns, workerVars, call, now,
                   ghostVars>>

-----------------------------------------------------------------------------
(* _schedule and _cancel, called from any thread *)

\* _ensure_started
EnsureStarted(h) ==
    /\ call[h] = "none" /\ st[h] \in {"new", "cancelled"} /\ order[h] = -1
    /\ \/ Alive # {} /\ call' = [call EXCEPT ![h] = "push"]
       \/ Alive = {} /\ ~(shut /\ ever) /\ call' = [call EXCEPT ![h] = "start"]
    /\ UNCHANGED <<handleVars, heapVars, lifeVars, workerVars, now, ghostVars>>

\* The scheduler is started by the first thread that gets here; a start that finds
\* work in the heap raises.
StartFor(h) ==
    /\ call[h] = "start"
    /\ IF ~Startable
       THEN call' = [call EXCEPT ![h] = "push"] /\ UNCHANGED <<lifeVars, workerVars>>
       ELSE IF pending = 0 /\ heap = {}
       THEN call' = [call EXCEPT ![h] = "push"] /\ Launch
       ELSE call' = [call EXCEPT ![h] = "none"] /\ UNCHANGED <<lifeVars, workerVars>>
    /\ UNCHANGED <<handleVars, heapVars, now, ghostVars>>

\* The call ends without an entry: refused, or cancelled before it was started.
PushRefused(h) ==
    /\ call[h] = "push" /\ call' = [call EXCEPT ![h] = "none"]
    /\ \/ (shut \/ (st[h] = "new" /\ pending >= MaxPending)) /\ UNCHANGED order
       \/ ~shut /\ st[h] = "cancelled" /\ order' = [order EXCEPT ![h] = -2]
    /\ UNCHANGED <<st, deadline, finished, heapVars, lifeVars, workerVars, now, ghostVars>>

\* Mutant: the workers are not told.
PushQuietly(h, interval) ==
    /\ call[h] = "push" /\ call' = [call EXCEPT ![h] = "none"]
    /\ ~shut /\ st[h] = "new" /\ pending < MaxPending /\ now + interval <= MaxTime
    /\ order' = [order EXCEPT ![h] = sequence] /\ sequence' = sequence + 1
    /\ deadline' = [deadline EXCEPT ![h] = now + interval]
    /\ st' = [st EXCEPT ![h] = "scheduled"]
    /\ pending' = pending + 1
    /\ heap' = heap \cup {h}
    /\ pushedIn' = [pushedIn EXCEPT ![h] = generation]
    /\ UNCHANGED <<finished, dead, lifeVars, workerVars, now, ranIn>>

Push(h, interval) ==
    /\ call[h] = "push" /\ call' = [call EXCEPT ![h] = "none"]
    /\ ~shut /\ st[h] = "new" /\ pending < MaxPending /\ now + interval <= MaxTime
    /\ order' = [order EXCEPT ![h] = sequence] /\ sequence' = sequence + 1
    /\ deadline' = [deadline EXCEPT ![h] = now + interval]
    /\ st' = [st EXCEPT ![h] = "scheduled"]
    /\ pending' = pending + 1
    /\ heap' = heap \cup {h}
    /\ place' = Woken(place)
    /\ pushedIn' = [pushedIn EXCEPT ![h] = generation]
    /\ UNCHANGED <<finished, dead, lifeVars, task, until, now, ranIn>>

CancelNew(h) ==
    /\ st[h] = "new"
    /\ st' = [st EXCEPT ![h] = "cancelled"] /\ finished' = finished \cup {h}
    /\ UNCHANGED <<order, deadline, heapVars, lifeVars, workerVars, call, now, ghostVars>>

\* Mutant: a compaction does not reset its counter.
CancelKeepsCount(h) ==
    /\ st[h] = "scheduled"
    /\ st' = [st EXCEPT ![h] = "cancelled"] /\ finished' = finished \cup {h}
    /\ pending' = pending - 1
    /\ dead' = dead + 1
    /\ heap' = IF dead + 1 >= CompactAt /\ 2 * (dead + 1) >= Cardinality(heap)
               THEN heap \cap (Scheduled \ {h}) ELSE heap
    /\ place' = Woken(place)
    /\ UNCHANGED <<order, deadline, sequence, lifeVars, task, until, call, now, ghostVars>>

\* The entry stays in the heap; when half of a large heap is dead it is compacted.
Cancel(h) ==
    /\ st[h] = "scheduled"
    /\ st' = [st EXCEPT ![h] = "cancelled"] /\ finished' = finished \cup {h}
    /\ pending' = pending - 1
    /\ IF dead + 1 >= CompactAt /\ 2 * (dead + 1) >= Cardinality(heap)
       THEN heap' = heap \cap (Scheduled \ {h}) /\ dead' = 0
       ELSE dead' = dead + 1 /\ UNCHANGED heap
    /\ place' = Woken(place)
    /\ UNCHANGED <<order, deadline, sequence, lifeVars, task, until, call, now, ghostVars>>

-----------------------------------------------------------------------------
(* _run: one pass of a worker under the condition *)

Before(g, h) == deadline[g] < deadline[h] \/ (deadline[g] = deadline[h] /\ order[g] <= order[h])
Heads(H) == {h \in H : \A g \in H : Before(h, g)}

\* _discard_cancelled_head_locked: cancelled entries ahead of every live one.
Discarded(H) == {h \in H : \A g \in H : Before(g, h) => st[g] # "scheduled"}
Less(n, k) == IF n > k THEN n - k ELSE 0

\* An old worker retires; the others do when a shutdown has left nothing to do.
Leave(w) ==
    /\ place[w] = "awake"
    /\ \/ w[1] # generation /\ UNCHANGED <<heap, dead>>
       \/ /\ w[1] = generation /\ shut /\ heap = Discarded(heap)
          /\ heap' = {} /\ dead' = Less(dead, Cardinality(heap))
    /\ place' = [place EXCEPT ![w] = "leaving"]
    /\ UNCHANGED <<handleVars, sequence, pending, lifeVars, task, until, call, now, ghostVars>>

Exit(w) ==
    /\ place[w] = "leaving" /\ place' = [place EXCEPT ![w] = "gone"]
    /\ UNCHANGED <<handleVars, heapVars, lifeVars, task, until, call, now, ghostVars>>

Wait(w) ==
    LET live == heap \ Discarded(heap)
    IN  /\ place[w] = "awake" /\ w[1] = generation
        /\ heap' = live /\ dead' = Less(dead, Cardinality(Discarded(heap)))
        /\ \/ /\ live = {} /\ ~shut
              /\ place' = [place EXCEPT ![w] = "waiting"] /\ UNCHANGED until
           \/ \E h \in Heads(live) :
                 /\ deadline[h] > now
                 /\ place' = [place EXCEPT ![w] = "timed"]
                 /\ until' = [until EXCEPT ![w] = deadline[h]]
        /\ UNCHANGED <<handleVars, sequence, pending, lifeVars, task, call, now, ghostVars>>

\* The peers are told when the next entry is due as well.
TakeDue(w, h) ==
    LET live == heap \ Discarded(heap)
        rest == (live \ {h}) \ Discarded(live \ {h})
        due  == \E g \in Heads(rest) : deadline[g] <= now
    IN  /\ place[w] = "awake" /\ w[1] = generation
        /\ h \in Heads(live) /\ deadline[h] <= now
        /\ st' = [st EXCEPT ![h] = "running"] /\ pending' = pending - 1
        /\ heap' = rest /\ dead' = Less(dead, Cardinality(heap \ (rest \cup {h})))
        /\ task' = [task EXCEPT ![w] = {h}]
        /\ place' = [(IF due THEN Woken(place) ELSE place) EXCEPT ![w] = "running"]
        /\ ranIn' = [ranIn EXCEPT ![h] = @ \cup {w[1]}]
        /\ UNCHANGED <<order, deadline, finished, sequence, lifeVars, until, call, now, pushedIn>>

\* The callback returns or raises.
Finish(w) ==
    /\ place[w] = "running"
    /\ st' = [h \in Handles |-> IF h \in task[w] /\ st[h] = "running" THEN "finished" ELSE st[h]]
    /\ finished' = finished \cup task[w]
    /\ task' = [task EXCEPT ![w] = {}]
    /\ place' = [Woken(place) EXCEPT ![w] = "awake"]
    /\ UNCHANGED <<order, deadline, heapVars, lifeVars, until, call, now, ghostVars>>

TimedOut(w) ==
    /\ place[w] = "timed" /\ until[w] <= now
    /\ place' = [place EXCEPT ![w] = "awake"]
    /\ UNCHANGED <<handleVars, heapVars, lifeVars, task, until, call, now, ghostVars>>

Tick ==
    /\ now < MaxTime /\ now' = now + 1
    /\ UNCHANGED <<handleVars, heapVars, lifeVars, workerVars, call, ghostVars>>

-----------------------------------------------------------------------------
WorkerStep(w) ==
    \/ Leave(w) \/ Exit(w) \/ Wait(w) \/ Finish(w) \/ TimedOut(w)
    \/ \E h \in Handles : TakeDue(w, h)

CallStep(h) ==
    \/ StartFor(h) \/ PushRefused(h)
    \/ \E interval \in Intervals : Push(h, interval)

SchedulerNext ==
    \/ \E w \in Workers : WorkerStep(w)
    \/ \E h \in Handles : EnsureStarted(h) \/ CallStep(h) \/ CancelNew(h) \/ Cancel(h)
    \/ Start \/ Joined \/ Tick
    \/ \E cancel \in BOOLEAN : Shutdown(cancel)

Scheduler == SchedulerInit /\ [][SchedulerNext]_schedulerVars

\* Threads go on, callbacks return, time passes.
SchedulerFairness ==
    /\ \A w \in Workers : WF_schedulerVars(WorkerStep(w))
    /\ \A h \in Handles : WF_schedulerVars(CallStep(h))
    /\ WF_schedulerVars(Tick)

FairScheduler == Scheduler /\ SchedulerFairness

-----------------------------------------------------------------------------
\* The two counters are those of the heap in every order of cancel, discard,
\* compaction, shutdown and restart: one that drifts refuses work, blocks a
\* restart or never compacts.
CountersExact ==
    /\ pending = Cardinality(Scheduled)
    /\ dead = Cardinality(heap \ Scheduled)

\* What waits is in the heap, at most max_pending of it.
HeapHoldsScheduled == Scheduled \subseteq heap /\ Cardinality(Scheduled) <= MaxPending

\* A callback runs at most once, on a worker of the generation it was scheduled
\* in: nothing survives a restart, and a worker that outlives a shutdown takes no
\* work of its successors.
GenerationsDoNotMix == \A h \in Handles : ranIn[h] \subseteq {pushedIn[h]}

\* A handle ends once, and join() is released by it: what was cancelled before its
\* callback began never runs, and nothing that ended begins again.
EndIsFinal ==
    [][\A h \in finished : h \in finished' /\ st[h] \in {"finished", "cancelled"}
                            /\ st'[h] = st[h] /\ ranIn'[h] = ranIn[h]]_schedulerVars

\* A scheduled handle runs, or is cancelled, whatever else is cancelled, compacted
\* or shut down meanwhile; no wake-up is lost.
EveryHandleEnds == \A h \in Handles : st[h] = "scheduled" ~> h \in finished
=============================================================================
