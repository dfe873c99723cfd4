---------------------------- MODULE GuardedLocks ----------------------------
(***************************************************************************)
(* The instrumented locks of src/runtime/concurrency.py: every session has *)
(* a session_flow lock, every map a reentrant map_combat lock.  A request  *)
(* is checked against the requesting thread's own records, tried once,     *)
(* waited for with a bound, and then recorded under the lock's metadata    *)
(* lock; a release lets the primitive go inside the metadata section and   *)
(* forgets the record after it.  Threads request and release as they like. *)
(***************************************************************************)
EXTENDS Naturals, FiniteSets

CONSTANTS
    Threads,
    Flow,       \* session_flow locks (InstrumentedLock)
    Combat,     \* map_combat locks (InstrumentedRLock)
    MaxDepth    \* bound: recursion of one thread in one combat lock

Locks == Flow \cup Combat
Nobody == "nobody"

ASSUME LocksAssumption ==
    /\ Flow \cap Combat = {}
    /\ MaxDepth \in Nat \ {0}
    /\ Nobody \notin Threads

VARIABLES
    strict,     \* guard_mode of all locks: "strict", or else "observe"
    owner,      \* _primitive: the thread that has it
    depth,      \* and how often
    recOwner,   \* _owner_token
    recDepth,   \* _depth
    held,       \* _ThreadState.held: recorded depth by lock, 0 for no record
    meta,       \* _metadata_lock, held across the two halves of a release
    pc,         \* where each thread stands in acquire or release
    want        \* the lock it is acquiring or releasing

vars == <<strict, owner, depth, recOwner, recDepth, held, meta, pc, want>>
primitive == <<owner, depth>>
records   == <<recOwner, recDepth, held>>

TypeOK ==
    /\ strict \in BOOLEAN
    /\ owner \in [Locks -> Threads \cup {Nobody}]
    /\ depth \in [Locks -> Nat]
    /\ recOwner \in [Locks -> Threads \cup {Nobody}]
    /\ recDepth \in [Locks -> Nat]
    /\ held \in [Threads -> [Locks -> Nat]]
    /\ meta \in [Locks -> Threads \cup {Nobody}]
    /\ pc \in [Threads -> {"run", "try", "wait", "mark", "forget"}]
    /\ want \in [Threads -> Locks]

Init ==
    /\ strict \in BOOLEAN
    /\ owner = [l \in Locks |-> Nobody] /\ depth = [l \in Locks |-> 0]
    /\ recOwner = [l \in Locks |-> Nobody] /\ recDepth = [l \in Locks |-> 0]
    /\ held = [t \in Threads |-> [l \in Locks |-> 0]]
    /\ meta = [l \in Locks |-> Nobody]
    /\ pc = [t \in Threads |-> "run"]
    /\ want \in [Threads -> Locks]

Reentrant(l) == l \in Combat

-----------------------------------------------------------------------------
(* acquire *)

\* Mutant: two locks of one domain are not looked at.
ViolationAcrossDomains(t, l) ==
    \E h \in Locks :
        /\ held[t][h] > 0
        /\ \/ h = l /\ ~Reentrant(l)
           \/ l \in Flow /\ h \in Combat
           \/ l \in Combat /\ h \in Flow

\* A lock may not be taken beside one of the other domain, beside another one
\* of its own domain, nor twice unless it is reentrant.
Violation(t, l) ==
    \E h \in Locks :
        /\ held[t][h] > 0
        /\ \/ h = l /\ ~Reentrant(l)
           \/ l \in Flow /\ h \in Combat
           \/ l \in Combat /\ h \in Flow
           \/ l \in Flow /\ h \in Flow /\ h # l
           \/ l \in Combat /\ h \in Combat /\ h # l

\* In strict mode a violation raises before the lock is touched, which changes
\* nothing; in observe mode it is logged and permitted.
Request(t, l) ==
    /\ pc[t] = "run"
    /\ strict => ~Violation(t, l)
    /\ depth[l] < MaxDepth \/ owner[l] # t
    /\ pc' = [pc EXCEPT ![t] = "try"]
    /\ want' = [want EXCEPT ![t] = l]
    /\ UNCHANGED <<strict, primitive, records, meta>>

Available(t, l) == owner[l] = Nobody \/ (owner[l] = t /\ Reentrant(l))

Take(t, l) ==
    /\ Available(t, l)
    /\ owner' = [owner EXCEPT ![l] = t]
    /\ depth' = [depth EXCEPT ![l] = @ + 1]
    /\ pc' = [pc EXCEPT ![t] = "mark"]
    /\ UNCHANGED <<strict, records, meta, want>>

TryOnce(t) ==
    /\ pc[t] = "try"
    /\ Take(t, want[t])

\* Not available: acquire(False) returns, a blocking acquire starts to wait.
Busy(t) ==
    /\ pc[t] = "try"
    /\ ~Available(t, want[t])
    /\ \E next \in {"run", "wait"} : pc' = [pc EXCEPT ![t] = next]
    /\ UNCHANGED <<strict, primitive, records, meta, want>>

TakeAfterWait(t) ==
    /\ pc[t] = "wait"
    /\ Take(t, want[t])

\* Mutant: a wait that timed out is tried again.
TimeoutRetries(t) ==
    /\ pc[t] = "wait"
    /\ ~Available(t, want[t])
    /\ pc' = [pc EXCEPT ![t] = "try"]
    /\ UNCHANGED <<strict, primitive, records, meta, want>>

\* LockAcquisitionTimeout.
Timeout(t) ==
    /\ pc[t] = "wait"
    /\ ~Available(t, want[t])
    /\ pc' = [pc EXCEPT ![t] = "run"]
    /\ UNCHANGED <<strict, primitive, records, meta, want>>

\* _mark_acquired.
Mark(t) ==
    LET l == want[t]  mine == recOwner[want[t]] = t
    IN  /\ pc[t] = "mark" /\ meta[l] = Nobody
        /\ recOwner' = [recOwner EXCEPT ![l] = t]
        /\ recDepth' = [recDepth EXCEPT ![l] = IF mine THEN @ + 1 ELSE 1]
        /\ held' = [held EXCEPT ![t][l] = @ + 1]
        /\ pc' = [pc EXCEPT ![t] = "run"]
        /\ UNCHANGED <<strict, primitive, meta, want>>

-----------------------------------------------------------------------------
(* release *)

\* Mutant: the metadata section ends with the primitive; what follows clears
\* whatever is recorded by then.
ReleaseUnguarded(t, l) ==
    /\ pc[t] = "run" /\ owner[l] = t /\ meta[l] = Nobody
    /\ depth' = [depth EXCEPT ![l] = @ - 1]
    /\ owner' = IF depth[l] = 1 THEN [owner EXCEPT ![l] = Nobody] ELSE owner
    /\ pc' = [pc EXCEPT ![t] = "forget"]
    /\ want' = [want EXCEPT ![t] = l]
    /\ UNCHANGED <<strict, records, meta>>

\* The primitive is released inside the metadata section ...
Release(t, l) ==
    /\ pc[t] = "run" /\ owner[l] = t /\ meta[l] = Nobody
    /\ meta' = [meta EXCEPT ![l] = t]
    /\ depth' = [depth EXCEPT ![l] = @ - 1]
    /\ owner' = IF depth[l] = 1 THEN [owner EXCEPT ![l] = Nobody] ELSE owner
    /\ pc' = [pc EXCEPT ![t] = "forget"]
    /\ want' = [want EXCEPT ![t] = l]
    /\ UNCHANGED <<strict, records>>

\* ... and the record of the thread that was registered is dropped after it.
Forget(t) ==
    LET l == want[t]  last == recDepth[want[t]] <= 1
        o == recOwner[want[t]]
    IN  /\ pc[t] = "forget"
        /\ held' = IF o = Nobody THEN held
                   ELSE [held EXCEPT ![o][l] = IF @ <= 1 THEN 0 ELSE @ - 1]
        /\ recDepth' = [recDepth EXCEPT ![l] = IF last THEN 0 ELSE @ - 1]
        /\ recOwner' = IF last THEN [recOwner EXCEPT ![l] = Nobody] ELSE recOwner
        /\ meta' = [meta EXCEPT ![l] = Nobody]
        /\ pc' = [pc EXCEPT ![t] = "run"]
        /\ UNCHANGED <<strict, primitive, want>>

-----------------------------------------------------------------------------
Acquiring(t) == TryOnce(t) \/ Busy(t) \/ TakeAfterWait(t) \/ Timeout(t) \/ Mark(t)
Releasing(t) == (\E l \in Locks : Release(t, l)) \/ Forget(t)

Next == \E t \in Threads : \/ \E l \in Locks : Request(t, l)
                           \/ Acquiring(t)
                           \/ Releasing(t)

Spec == Init /\ [][Next]_vars

\* A thread inside acquire or release is scheduled, and waits end at their bound;
\* no thread need release what it holds.
FairSpec == Spec /\ \A t \in Threads : WF_vars(Acquiring(t)) /\ WF_vars(Forget(t))

-----------------------------------------------------------------------------
(* Between its acquires and releases a thread's records are the locks it      *)
(* has: the policy, which reads nothing else, is told the truth, and so is    *)
(* _is_owned.                                                                 *)
RecordsTellTheTruth ==
    \A t \in Threads, l \in Locks :
        pc[t] = "run" =>
            /\ held[t][l] = IF owner[l] = t THEN depth[l] ELSE 0
            /\ recOwner[l] = t <=> owner[l] = t

\* In strict mode no set of threads is waiting for locks that only threads of
\* the set hold, whatever they request: the guard's reason to exist.
NoWaitCycle ==
    strict =>
        \A S \in (SUBSET Threads) \ {{}} :
            \E t \in S : ~(pc[t] = "wait" /\ owner[want[t]] \in S)

\* In strict mode a thread never has two locks, of whatever domains.
OneLockAtATime ==
    strict => \A t \in Threads, h, l \in Locks : owner[h] = t /\ owner[l] = t => h = l

\* A blocking acquire never waits forever, not even on a cycle that observe mode
\* lets happen: the bound ends it, and the thread goes on.
EveryAcquireEnds == \A t \in Threads : pc[t] # "run" ~> pc[t] = "run"
=============================================================================
