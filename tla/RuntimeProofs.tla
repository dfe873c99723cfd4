---------------------------- MODULE RuntimeProofs ----------------------------
(***************************************************************************)
(* Proofs about three components of the runtime, which share no            *)
(* definition.                                                             *)
(*                                                                         *)
(* GuardedLocks, for any number of threads and locks: the records a thread *)
(* checks its requests against are true whenever it looks at them, so a    *)
(* thread that waits in strict mode has no lock, and no set of threads can *)
(* be waiting for each other.                                              *)
(*                                                                         *)
(* SessionHandover, for any number of sessions and endpoints: with the     *)
(* mutation gate held through a retirement, and the persist lock from a    *)
(* capture to its put, the endpoint is free when all is stored, and what a *)
(* transfer silences never overwrites the destination.                     *)
(*                                                                         *)
(* DeadlineScheduler, for any number of handles, workers, shutdowns and    *)
(* restarts: the two counters of the scheduler are exact, everything       *)
(* scheduled is in the heap, a callback runs in the generation it was      *)
(* scheduled in, and a handle that has ended does not begin again.         *)
(***************************************************************************)
EXTENDS GuardedLocks, SessionHandover, DeadlineScheduler, FiniteSetTheorems, TLAPS

-----------------------------------------------------------------------------
(* The instrumented locks *)

\* What the record of thread t for lock l lags behind the primitive: one short
\* between Take and Mark, one over between Release and Forget.
Has(t, l) == IF owner[l] = t THEN depth[l] ELSE 0
InMark(t, l)   == pc[t] = "mark" /\ want[t] = l
InForget(t, l) == pc[t] = "forget" /\ want[t] = l

PrimitiveInv == \A l \in Locks : owner[l] = Nobody <=> depth[l] = 0

RecordInv ==
    \A t \in Threads, l \in Locks :
        /\ InMark(t, l) => owner[l] = t /\ held[t][l] + 1 = depth[l]
        /\ InForget(t, l) => meta[l] = t /\ held[t][l] = Has(t, l) + 1
        /\ ~InMark(t, l) /\ ~InForget(t, l) => held[t][l] = Has(t, l)
        /\ held[t][l] > 0 <=> recOwner[l] = t
        /\ recOwner[l] = t => recDepth[l] = held[t][l]
        /\ meta[l] = t => InForget(t, l)

\* In strict mode a thread has no lock but the one it is asking for again, and
\* none at all while it waits.
RequestInv ==
    strict => \A t \in Threads, h \in Locks :
        owner[h] = t =>
            /\ pc[t] = "try" => h = want[t] /\ h \in Combat
            /\ pc[t] \in {"mark", "forget"} => h = want[t]
            /\ pc[t] # "wait"

LocksInv == TypeOK /\ PrimitiveInv /\ RecordInv /\ RequestInv /\ OneLockAtATime

LEMMA InitInv == Init => LocksInv
<1> SUFFICES ASSUME Init PROVE LocksInv
  OBVIOUS
<1>1. TypeOK
  BY DEF Init, TypeOK
<1>2. PrimitiveInv /\ RecordInv /\ RequestInv /\ OneLockAtATime
  BY LocksAssumption
     DEF Init, PrimitiveInv, RecordInv, RequestInv, OneLockAtATime, InMark, InForget, Has
<1> QED BY <1>1, <1>2 DEF LocksInv

\* The policy sees every lock of a thread that asks.
LEMMA RequestStep ==
    ASSUME LocksInv, NEW t \in Threads, NEW l \in Locks, Request(t, l)
    PROVE  LocksInv'
<1> USE DEF LocksInv, Request, primitive, records
<1>1. TypeOK' /\ PrimitiveInv'
  BY DEF TypeOK, PrimitiveInv
<1>2. RecordInv'
  BY DEF TypeOK, RecordInv, InMark, InForget, Has
<1>3. OneLockAtATime'
  BY DEF OneLockAtATime
<1>4. ASSUME strict, NEW h \in Locks, owner[h] = t PROVE h = l /\ h \in Combat
  <2>1. depth[h] \in Nat /\ depth[h] # 0
    BY <1>4, LocksAssumption DEF PrimitiveInv, TypeOK
  <2>2. held[t][h] = depth[h]
    BY <1>4 DEF RecordInv, InMark, InForget, Has
  <2>3. held[t][h] > 0
    BY <2>1, <2>2
  <2> QED BY <1>4, <2>3 DEF Violation, Reentrant, Locks
<1>5. RequestInv'
  BY <1>4 DEF RequestInv, TypeOK
<1> QED BY <1>1, <1>2, <1>3, <1>5

LEMMA TakeStep ==
    ASSUME LocksInv, NEW t \in Threads, pc[t] \in {"try", "wait"}, Take(t, want[t])
    PROVE  LocksInv'
<1> USE LocksAssumption DEF LocksInv, Take, Available, records
<1>1. want[t] \in Locks
  BY DEF TypeOK
<1>2. TypeOK'
  BY <1>1 DEF TypeOK
<1>3. PrimitiveInv'
  BY <1>1 DEF TypeOK, PrimitiveInv
<1>4. RecordInv'
  BY <1>1 DEF TypeOK, RecordInv, PrimitiveInv, InMark, InForget, Has
<1>5. RequestInv'
  BY <1>1 DEF TypeOK, RequestInv
<1>6. OneLockAtATime'
  BY <1>1 DEF TypeOK, RequestInv, OneLockAtATime
<1> QED BY <1>2, <1>3, <1>4, <1>5, <1>6

\* A thread that has to wait has nothing: what it had, it would get again.
LEMMA BusyStep ==
    ASSUME LocksInv, NEW t \in Threads, Busy(t) \/ Timeout(t)
    PROVE  LocksInv'
<1> USE DEF LocksInv, Busy, Timeout, Available, Reentrant, primitive, records
<1>1. TypeOK' /\ PrimitiveInv'
  BY DEF TypeOK, PrimitiveInv
<1>2. RecordInv'
  BY DEF TypeOK, RecordInv, InMark, InForget, Has
<1>3. RequestInv'
  BY DEF TypeOK, RequestInv
<1>4. OneLockAtATime'
  BY DEF OneLockAtATime
<1> QED BY <1>1, <1>2, <1>3, <1>4

LEMMA MarkStep ==
    ASSUME LocksInv, NEW t \in Threads, Mark(t)
    PROVE  LocksInv'
<1> USE LocksAssumption DEF LocksInv, Mark, primitive
<1>1. want[t] \in Locks
  BY DEF TypeOK
<1>2. TypeOK' /\ PrimitiveInv'
  BY <1>1 DEF TypeOK, PrimitiveInv
<1>3. ASSUME NEW u \in Threads, u # t PROVE recOwner[want[t]] # u
  BY <1>1, <1>3 DEF TypeOK, RecordInv, InMark, InForget, Has
<1>4. RecordInv'
  BY <1>1, <1>3 DEF TypeOK, RecordInv, InMark, InForget, Has
<1>5. RequestInv' /\ OneLockAtATime'
  BY <1>1 DEF TypeOK, RequestInv, OneLockAtATime
<1> QED BY <1>2, <1>4, <1>5

LEMMA ReleaseStep ==
    ASSUME LocksInv, NEW t \in Threads, NEW l \in Locks, Release(t, l)
    PROVE  LocksInv'
<1> USE LocksAssumption DEF LocksInv, Release, records
<1>a. depth[l] \in Nat \ {0}
  BY DEF TypeOK, PrimitiveInv
<1>b. depth[l] - 1 \in Nat
  BY <1>a
<1>1. TypeOK'
  BY <1>b DEF TypeOK
<1>2. PrimitiveInv'
  <2>2. CASE depth[l] = 1
    BY <2>2 DEF TypeOK, PrimitiveInv
  <2>3. CASE depth[l] > 1
    BY <2>3 DEF TypeOK, PrimitiveInv
  <2> QED BY <1>a, <2>2, <2>3
<1>3. RecordInv'
  BY DEF TypeOK, RecordInv, PrimitiveInv, InMark, InForget, Has
<1>4. RequestInv' /\ OneLockAtATime'
  BY DEF TypeOK, RequestInv, OneLockAtATime
<1> QED BY <1>1, <1>2, <1>3, <1>4

LEMMA ForgetStep ==
    ASSUME LocksInv, NEW t \in Threads, Forget(t)
    PROVE  LocksInv'
<1> USE LocksAssumption DEF LocksInv, Forget, primitive
<1>1. want[t] \in Locks
  BY DEF TypeOK
<1>2. recOwner[want[t]] = t /\ recDepth[want[t]] = held[t][want[t]]
  BY <1>1 DEF TypeOK, RecordInv, InMark, InForget, Has
<1>3. TypeOK' /\ PrimitiveInv'
  BY <1>1, <1>2 DEF TypeOK, PrimitiveInv
<1>4. RecordInv'
  BY <1>1, <1>2 DEF TypeOK, RecordInv, InMark, InForget, Has
<1>5. RequestInv' /\ OneLockAtATime'
  BY <1>1 DEF TypeOK, RequestInv, OneLockAtATime
<1> QED BY <1>3, <1>4, <1>5

LEMMA NextStep == LocksInv /\ [Next]_vars => LocksInv'
<1> SUFFICES ASSUME LocksInv, [Next]_vars PROVE LocksInv'
  OBVIOUS
<1>1. CASE UNCHANGED vars
  BY <1>1 DEF LocksInv, TypeOK, PrimitiveInv, RecordInv, RequestInv, OneLockAtATime,
              InMark, InForget, Has, vars
<1>2. CASE Next
  BY <1>2, RequestStep, TakeStep, BusyStep, MarkStep, ReleaseStep, ForgetStep
     DEF Next, Acquiring, Releasing, TryOnce, TakeAfterWait
<1> QED BY <1>1, <1>2

LEMMA LocksAlways == Spec => []LocksInv
BY InitInv, NextStep, PTL DEF Spec

\* In strict mode no threads ever wait for each other in a circle, whatever
\* locks they ask for and however many there are of either.
THEOREM DeadlockFree == Spec => []NoWaitCycle
<1>1. LocksInv => NoWaitCycle
  <2> SUFFICES ASSUME LocksInv, strict, NEW S \in (SUBSET Threads) \ {{}},
                      \A t \in S : pc[t] = "wait" /\ owner[want[t]] \in S
               PROVE  FALSE
    BY DEF NoWaitCycle
  <2>1. PICK t \in S : TRUE
    OBVIOUS
  <2>2. want[t] \in Locks /\ owner[want[t]] \in Threads
    BY DEF LocksInv, TypeOK
  <2> QED BY <2>2 DEF LocksInv, RequestInv
<1> QED BY <1>1, LocksAlways, PTL

\* A thread that is not inside acquire or release has exactly the locks recorded
\* for it, as deep as recorded, in either mode.
THEOREM RecordsTrue == Spec => []RecordsTellTheTruth
<1>1. LocksInv => RecordsTellTheTruth
  BY LocksAssumption
     DEF LocksInv, TypeOK, PrimitiveInv, RecordInv, RecordsTellTheTruth, InMark, InForget, Has
<1> QED BY <1>1, LocksAlways, PTL

\* In strict mode no thread has two guarded locks at once.
THEOREM OneLock == Spec => []OneLockAtATime
<1>1. LocksInv => OneLockAtATime
  BY DEF LocksInv
<1> QED BY <1>1, LocksAlways, PTL

\* Owners are threads and depths are counts: no release comes from a thread that
\* has not got the lock.
THEOREM TypesRight == Spec => []TypeOK
<1>1. LocksInv => TypeOK
  BY DEF LocksInv
<1> QED BY <1>1, LocksAlways, PTL

-----------------------------------------------------------------------------
(* The sessions of a character: what their saves owe each other *)

\* Storing holds the persist lock, from the capture to the put.
Storing(t, s) == job[t].op = "put" /\ job[t].s = s

\* Who does what, in which session and why.
Roles ==
    /\ \A s \in Sessions :
          /\ job[Worker(s)].op \in {"none", "mutate", "save", "put"}
          /\ job[Leaver(s)].op \in {"none", "save", "put", "arm"}
          /\ job[Retirer(s)].op \in {"none", "gate", "save", "put", "detach"}
    /\ job[Saver].op \in {"none", "save", "put"}
    /\ \A t \in Actors : job[t].op \in {"mutate", "save", "put", "gate"} =>
          /\ job[t].s \in Sessions
          /\ t # Saver => t[2] = job[t].s
          /\ t[1] = "worker" => job[t].why \in {"entry", "command"}
          /\ t[1] = "leaver" => job[t].why = "source"
          /\ t[1] = "retirer" => job[t].why \in Retirements
          /\ t = Saver => job[t].why \in {"interval", "deferred"}

\* One thread at a time stores a session.
OneStores ==
    \A t, u \in Actors : job[t].op = "put" /\ job[u].op = "put" /\ job[t].s = job[u].s => t = u

\* A worker has the gate for all it does, a retirement from the final save to
\* the end.
GatesTaken ==
    \A s \in Sessions :
        /\ ~Resting(Worker(s)) <=> gate[s] = Worker(s)
        /\ job[Retirer(s)].op \in {"save", "put", "detach"} <=> gate[s] = Retirer(s)
        /\ gate[s] = Leaver(s) => ~Resting(Leaver(s))

Life ==
    \A s \in Sessions :
        /\ Registered(s) => sess[s].opened
        /\ sess[s].sent => sess[s].opened
        /\ sess[s].left => sess[s].sent
        /\ ~Resting(Leaver(s)) => sess[s].left
        /\ ~Resting(Worker(s)) => sess[s].sent /\ Registered(s)
        /\ ~Resting(Retirer(s)) => sess[s].retiring
        /\ job[Saver].op \in {"save", "put"} /\ job[Saver].s = s => sess[s].sent

\* What a thread is about to store is the bag as it is, and so is what was
\* stored last.
FreshPut(t, s) == Storing(t, s) => job[t].bag = sess[s].bag
Settled(s)  == saved[s] = sess[s].bag /\ \A t \in Actors : FreshPut(t, s)

\* A bag that can no longer change is stored or will be: by the thread that takes
\* the player away, or else by the retirement.
Stored ==
    \A s \in Sessions :
        /\ sess[s].left /\ s \notin overtaken =>
              /\ Resting(Worker(s)) /\ FreshPut(Leaver(s), s)
              /\ job[Leaver(s)].op \in {"save", "put"} \/ Settled(s)
        /\ FreshPut(Retirer(s), s)
        /\ sess[s].sent /\ ~sess[s].left /\ (job[Retirer(s)].op = "detach" \/ ~Registered(s)) =>
              Settled(s)

\* Whoever armed a route has stored itself, and nothing that its transfer silences
\* was in hand then.
LeftFor ==
    \A s \in Sessions :
        /\ s = route \/ (\E r \in Sessions : sess[r].from = s) =>
              sess[s].left /\ Resting(Leaver(s))
        /\ sess[s].left /\ job[Leaver(s)].op # "save" =>
              \A t \in Actors : Storing(t, s) => job[t].why \notin {"interval", "disconnect"}

HandoverInv ==
    SessionsTyped /\ Roles /\ OneStores /\ GatesTaken /\ Life /\ Stored /\ LeftFor

\* The threads of the sessions are different threads.
LEMMA Cast ==
    /\ Saver \in Actors /\ Saver[1] = "saver" /\ Unheld \notin Actors
    /\ \A s \in Sessions :
          /\ Worker(s) \in Actors /\ Worker(s)[1] = "worker" /\ Worker(s)[2] = s
          /\ Leaver(s) \in Actors /\ Leaver(s)[1] = "leaver" /\ Leaver(s)[2] = s
          /\ Retirer(s) \in Actors /\ Retirer(s)[1] = "retirer" /\ Retirer(s)[2] = s
    /\ \A t \in Actors \ {Saver} :
          t[2] \in Sessions /\ t \in {Worker(t[2]), Leaver(t[2]), Retirer(t[2])}
<1>1. Saver \in Actors /\ Saver[1] = "saver" /\ Unheld \notin Actors
  BY DEF Actors, Saver, Unheld, Kinds, Sessions
<1>2. \A s \in Sessions :
          /\ Worker(s) \in Actors /\ Worker(s)[1] = "worker" /\ Worker(s)[2] = s
          /\ Leaver(s) \in Actors /\ Leaver(s)[1] = "leaver" /\ Leaver(s)[2] = s
          /\ Retirer(s) \in Actors /\ Retirer(s)[1] = "retirer" /\ Retirer(s)[2] = s
  BY DEF Actors, Kinds, Worker, Leaver, Retirer
<1>3. ASSUME NEW t \in Actors \ {Saver}
      PROVE  t[2] \in Sessions /\ t \in {Worker(t[2]), Leaver(t[2]), Retirer(t[2])}
  <2>1. PICK k \in Kinds, s \in Sessions : t = <<k, s>>
    BY DEF Actors
  <2> QED BY <2>1 DEF Kinds, Worker, Leaver, Retirer
<1> QED BY <1>1, <1>2, <1>3

LEMMA HandoverInitInv == HandoverInit => HandoverInv
<1> SUFFICES ASSUME HandoverInit PROVE HandoverInv
  OBVIOUS
<1>1. /\ \A t \in Actors : job[t] = NoJob
      /\ \A s \in Sessions : sess[s] = NewSession /\ gate[s] = Unheld /\ ~Registered(s)
      /\ route = 0
  BY DEF HandoverInit, Registered, Sessions
<1>2. SessionsTyped
  BY HandoverAssumption DEF HandoverInit, SessionsTyped, Session, Job, NewSession, NoJob, Retirements, Ops,
                            Reasons
<1>3. Roles /\ OneStores
  BY <1>1, Cast DEF Roles, OneStores, NoJob
<1>4. GatesTaken /\ Life
  BY <1>1, Cast DEF GatesTaken, Life, Resting, NoJob, NewSession
<1>5. Stored /\ LeftFor
  BY <1>1, Cast DEF Stored, LeftFor, FreshPut, Storing, NoJob, NewSession, Resting, Sessions
<1> QED BY <1>2, <1>3, <1>4, <1>5 DEF HandoverInv

\* What is in a session and a job.
LEMMA Shapes ==
    ASSUME SessionsTyped
    PROVE  /\ \A s \in Sessions :
                /\ sess[s] \in Session
                /\ sess[s].opened \in BOOLEAN /\ sess[s].retiring \in BOOLEAN
                /\ sess[s].failure \in Retirements \cup {NoReason}
                /\ sess[s].sent \in BOOLEAN /\ sess[s].left \in BOOLEAN
                /\ sess[s].bag \in Nat /\ sess[s].from \in 0..MaxSessions
           /\ \A t \in Actors :
                /\ job[t] \in Job
                /\ job[t].op \in Ops /\ job[t].s \in 0..MaxSessions
                /\ job[t].why \in Reasons /\ job[t].bag \in Nat
BY DEF SessionsTyped, Session, Job

\* One session is changed, one job.
LEMMA OneSession ==
    ASSUME SessionsTyped, NEW s \in Sessions, NEW x \in Session, sess' = [sess EXCEPT ![s] = x]
    PROVE  /\ sess' \in [Sessions -> Session] /\ sess'[s] = x
           /\ \A r \in Sessions : r # s => sess'[r] = sess[r]
BY DEF SessionsTyped

LEMMA OneJob ==
    ASSUME SessionsTyped, NEW t \in Actors, NEW x \in Job, job' = [job EXCEPT ![t] = x]
    PROVE  /\ job' \in [Actors -> Job] /\ job'[t] = x
           /\ \A u \in Actors : u # t => job'[u] = job[u]
BY DEF SessionsTyped

LEMMA MaxSessionsNat == MaxSessions \in Nat
BY HandoverAssumption

LEMMA NoJobIs == /\ NoJob \in Job /\ NoJob.op = "none" /\ NoJob.s = 0
                 /\ \A op \in Ops : [NoJob EXCEPT !.op = op] \in Job /\ [NoJob EXCEPT !.op = op].op = op
BY MaxSessionsNat DEF NoJob, Job, Ops, Reasons, NoReason, Retirements

\* A thread begins a job.
LEMMA Begun ==
    ASSUME SessionsTyped, NEW t \in Actors, NEW s \in Sessions, NEW op \in Ops, NEW why \in Reasons,
           Begin(t, s, op, why)
    PROVE  /\ job' \in [Actors -> Job]
           /\ job'[t].op = op /\ job'[t].s = s /\ job'[t].why = why
           /\ \A u \in Actors : u # t => job'[u] = job[u]
<1>1. s \in 0..MaxSessions
  BY MaxSessionsNat DEF Sessions
<1>2. PICK j : j = [NoJob EXCEPT !.op = op, !.s = s, !.why = why]
  OBVIOUS
<1>3. j \in Job /\ j.op = op /\ j.s = s /\ j.why = why
  BY <1>1, <1>2, NoJobIs DEF Job
<1>4. job' = [job EXCEPT ![t] = j]
  BY <1>2 DEF Begin
<1> QED BY <1>3, <1>4, OneJob

\* The jobs that are begun.
LEMMA Beginnings ==
    /\ {"mutate", "save", "gate"} \subseteq Ops
    /\ {"entry", "command", "source", "interval", "deferred"} \cup Retirements \subseteq Reasons
BY DEF Ops, Reasons

LEMMA ConnectKeeps ==
    ASSUME HandoverInv, NEW s \in Sessions, NEW e \in Endpoints, Connect(s, e)
    PROVE  HandoverInv'
<1> USE DEF HandoverInv
<1>1. PICK from \in {route, 0} : sess' = [sess EXCEPT ![s].opened = TRUE, ![s].from = from]
  BY DEF Connect, ClaimRoute
<1>2. /\ ~sess[s].opened /\ registry' = [registry EXCEPT ![e] = s] /\ registry[e] = 0 /\ route' = 0
      /\ UNCHANGED <<gate, job, row, saved, overtaken, refusals>>
  BY DEF Connect, OpenSession, ClaimRoute
<1>3. PICK x : x = [sess[s] EXCEPT !.opened = TRUE, !.from = from]
  OBVIOUS
<1>4. /\ x \in Session /\ sess' = [sess EXCEPT ![s] = x]
      /\ x.opened /\ x.from = from /\ x.sent = sess[s].sent /\ x.left = sess[s].left
      /\ x.bag = sess[s].bag /\ x.retiring = sess[s].retiring
  <2>1. from \in 0..MaxSessions /\ sess[s] \in Session
    BY HandoverAssumption DEF SessionsTyped
  <2>2. x \in Session
    BY <1>3, <2>1 DEF Session
  <2>3. /\ x.opened /\ x.from = from /\ x.sent = sess[s].sent /\ x.left = sess[s].left
        /\ x.bag = sess[s].bag /\ x.retiring = sess[s].retiring
    BY <1>3, <2>1 DEF Session
  <2>4. sess' = [sess EXCEPT ![s] = x]
    BY <1>1, <1>3 DEF SessionsTyped
  <2> QED BY <2>2, <2>3, <2>4
<1>5. /\ sess' \in [Sessions -> Session] /\ sess'[s] = x
      /\ \A r \in Sessions : r # s => sess'[r] = sess[r]
  BY <1>4, OneSession
<1>6. SessionsTyped'
  BY <1>2, <1>5, HandoverAssumption DEF SessionsTyped, Sessions
<1>7. \A r \in Sessions : Registered(r)' => r = s \/ Registered(r)
  BY <1>2 DEF SessionsTyped, Registered
<1>8. \A r \in Sessions : Registered(r) => Registered(r)'
  BY <1>2 DEF SessionsTyped, Registered, Sessions
<1>9. Roles' /\ OneStores'
  BY <1>2 DEF Roles, OneStores
<1>10. GatesTaken' /\ Life'
  BY <1>2, <1>4, <1>5, <1>7, <1>8 DEF GatesTaken, Life, Resting
<1>11. Stored'
  BY <1>2, <1>4, <1>5, <1>7, <1>8 DEF Stored, Settled, FreshPut, Storing, Resting, Life
<1>12. LeftFor'
  BY <1>2, <1>4, <1>5 DEF LeftFor, Storing, Resting, Sessions
<1> QED BY <1>6, <1>9, <1>10, <1>11, <1>12

LEMMA EnterKeeps ==
    ASSUME HandoverInv, NEW s \in Sessions, Enter(s)
    PROVE  HandoverInv'
<1> USE DEF HandoverInv
<1>1. PICK x : x = [sess[s] EXCEPT !.sent = TRUE, !.left = FALSE, !.bag = row.bag]
  OBVIOUS
<1>3. /\ x \in Session /\ x.sent /\ ~x.left /\ x.from = sess[s].from
      /\ x.opened = sess[s].opened /\ x.retiring = sess[s].retiring
  <2>1. sess[s] \in Session /\ row.bag \in Nat
    BY DEF SessionsTyped
  <2> QED BY <1>1, <2>1 DEF Session
<1>5. /\ Registered(s) /\ ~sess[s].retiring /\ gate[s] = Unheld /\ ~sess[s].sent
      /\ sess' = [sess EXCEPT ![s] = x] /\ gate' = [gate EXCEPT ![s] = Worker(s)]
      /\ Begin(Worker(s), s, "save", "entry")
      /\ UNCHANGED <<registry, route, row, saved, overtaken, refusals>>
  BY <1>1 DEF Enter, Listening, Free, SessionsTyped
<1>6. /\ sess' \in [Sessions -> Session] /\ sess'[s] = x
      /\ \A r \in Sessions : r # s => sess'[r] = sess[r]
  BY <1>3, <1>5, OneSession
<1>7. /\ job' \in [Actors -> Job]
      /\ job'[Worker(s)].op = "save" /\ job'[Worker(s)].s = s /\ job'[Worker(s)].why = "entry"
      /\ \A u \in Actors : u # Worker(s) => job'[u] = job[u]
  BY <1>5, Begun, Cast, Beginnings
<1>8. \A r \in Sessions : Registered(r)' <=> Registered(r)
  BY <1>5 DEF Registered
<1>9. SessionsTyped'
  BY <1>5, <1>6, <1>7, Cast DEF SessionsTyped
<1>10. Resting(Worker(s)) /\ Resting(Leaver(s)) /\ Resting(Retirer(s)) /\ ~sess[s].left
  BY <1>5, Cast, Shapes DEF GatesTaken, Life
<1>11. Roles'
  BY <1>7, Cast DEF Roles
<1>12. OneStores'
  BY <1>7 DEF OneStores
<1>13. GatesTaken'
  <2> SUFFICES ASSUME NEW r \in Sessions
               PROVE  /\ job'[Worker(r)].op # "none" <=> gate'[r] = Worker(r)
                      /\ job'[Retirer(r)].op \in {"save", "put", "detach"} <=> gate'[r] = Retirer(r)
                      /\ gate'[r] = Leaver(r) => job'[Leaver(r)].op # "none"
    BY DEF GatesTaken, Resting
  <2>1. /\ Worker(r) # Leaver(r) /\ Worker(r) # Retirer(r) /\ Worker(r) \in Actors
        /\ Leaver(r) \in Actors /\ Retirer(r) \in Actors
        /\ Worker(s) # Leaver(r) /\ Worker(s) # Retirer(r) /\ (Worker(r) = Worker(s) => r = s)
    BY Cast
  <2>2. gate'[r] = IF r = s THEN Worker(s) ELSE gate[r]
    BY <1>5 DEF SessionsTyped
  <2>3. CASE r = s
    BY <1>5, <1>7, <1>10, <2>1, <2>2, <2>3 DEF GatesTaken, Resting
  <2>4. CASE r # s
    BY <1>7, <2>1, <2>2, <2>4 DEF GatesTaken, Resting
  <2> QED BY <2>3, <2>4
<1>14. Life'
  BY <1>3, <1>5, <1>6, <1>7, <1>8, <1>10, Cast DEF Life, Resting
<1>15. \A t \in Actors, r \in Sessions : r # s /\ FreshPut(t, r) => FreshPut(t, r)'
  BY <1>6, <1>7 DEF FreshPut, Storing
<1>16. Stored'
  BY <1>3, <1>5, <1>6, <1>7, <1>8, <1>10, <1>15, Cast
     DEF Stored, Settled, FreshPut, Storing, Resting
<1>17. LeftFor'
  BY <1>3, <1>5, <1>6, <1>7, <1>10, Cast DEF LeftFor, Storing, Resting
<1> QED BY <1>9, <1>11, <1>12, <1>13, <1>14, <1>16, <1>17

LEMMA CommandKeeps ==
    ASSUME HandoverInv, NEW s \in Sessions, Command(s)
    PROVE  HandoverInv'
<1> USE DEF HandoverInv
<1>3. /\ Registered(s) /\ gate[s] = Unheld /\ sess[s].sent /\ ~sess[s].left
      /\ gate' = [gate EXCEPT ![s] = Worker(s)] /\ Begin(Worker(s), s, "mutate", "command")
      /\ UNCHANGED <<registry, sess, route, row, saved, overtaken, refusals>>
  BY DEF Command, Playing, Listening, Free
<1>4. /\ job' \in [Actors -> Job]
      /\ job'[Worker(s)].op = "mutate" /\ job'[Worker(s)].s = s /\ job'[Worker(s)].why = "command"
      /\ \A u \in Actors : u # Worker(s) => job'[u] = job[u]
  BY <1>3, Begun, Cast, Beginnings
<1>5. \A r \in Sessions : Registered(r)' <=> Registered(r)
  BY <1>3 DEF Registered
<1>6. SessionsTyped'
  BY <1>3, <1>4, Cast DEF SessionsTyped
<1>7. Resting(Worker(s)) /\ Resting(Leaver(s))
  BY <1>3, Cast DEF GatesTaken, Life
<1>8. Roles' /\ OneStores'
  BY <1>4, Cast DEF Roles, OneStores
<1>9. GatesTaken'
  BY <1>3, <1>4, <1>7, Cast DEF GatesTaken, Resting, SessionsTyped
<1>10. Life'
  BY <1>3, <1>4, <1>5, <1>7, Cast DEF Life, Resting
<1>11. \A t \in Actors, r \in Sessions : FreshPut(t, r) => FreshPut(t, r)'
  BY <1>3, <1>4 DEF FreshPut, Storing
<1>12. Stored'
  BY <1>3, <1>4, <1>5, <1>11, Cast DEF Stored, Settled, Resting
<1>13. LeftFor'
  BY <1>3, <1>4, Cast DEF LeftFor, Storing, Resting
<1> QED BY <1>6, <1>8, <1>9, <1>10, <1>12, <1>13

\* While a worker gains something nobody counts on the bag: the session has not
\* left, unless it was overtaken, and its retirement is waiting for the gate.
LEMMA GainKeeps ==
    ASSUME HandoverInv, NEW s \in Sessions, MutateAndSave(s) \/ MutateOnly(s)
    PROVE  HandoverInv'
<1> USE DEF HandoverInv
<1>1. PICK x : x = [sess[s] EXCEPT !.bag = @ + 1]
  OBVIOUS
<1>2. /\ x \in Session /\ x.sent = sess[s].sent /\ x.left = sess[s].left /\ x.from = sess[s].from
      /\ x.opened = sess[s].opened /\ x.retiring = sess[s].retiring
  <2>1. sess[s] \in Session /\ sess[s].bag \in Nat
    BY Shapes
  <2> QED BY <1>1, <2>1 DEF Session
<1>3. /\ job[Worker(s)].op = "mutate" /\ sess' = [sess EXCEPT ![s] = x]
      /\ UNCHANGED <<registry, route, row, saved, overtaken, refusals>>
  BY <1>1 DEF MutateAndSave, MutateOnly, Gain, SessionsTyped
<1>4. PICK j : /\ j \in Job /\ job' = [job EXCEPT ![Worker(s)] = j]
               /\ \/ /\ j = [job[Worker(s)] EXCEPT !.op = "save"]
                     /\ j.op = "save" /\ j.s = job[Worker(s)].s /\ j.why = job[Worker(s)].why
                     /\ gate' = gate
                  \/ j.op = "none" /\ gate' = [gate EXCEPT ![s] = Unheld]
  <2>1. CASE MutateAndSave(s)
    <3>1. job[Worker(s)] \in Job
      BY Cast, Shapes
    <3>2. PICK j : j = [job[Worker(s)] EXCEPT !.op = "save"]
      OBVIOUS
    <3>3. j \in Job /\ j.op = "save" /\ j.s = job[Worker(s)].s /\ j.why = job[Worker(s)].why
      BY <3>1, <3>2 DEF Job, Ops
    <3>4. job' = [job EXCEPT ![Worker(s)] = j] /\ gate' = gate
      BY <2>1, <3>2, Cast DEF MutateAndSave, SessionsTyped
    <3> QED BY <3>2, <3>3, <3>4
  <2>2. CASE MutateOnly(s)
    <3> QED BY <2>2, NoJobIs DEF MutateOnly
  <2> QED BY <2>1, <2>2
<1>5. /\ sess' \in [Sessions -> Session] /\ sess'[s] = x
      /\ \A r \in Sessions : r # s => sess'[r] = sess[r]
  BY <1>2, <1>3, OneSession
<1>6. /\ job' \in [Actors -> Job] /\ job'[Worker(s)] = j
      /\ \A u \in Actors : u # Worker(s) => job'[u] = job[u]
  BY <1>4, OneJob, Cast
<1>7. \A r \in Sessions : Registered(r)' <=> Registered(r)
  BY <1>3 DEF Registered
<1>8. SessionsTyped'
  BY <1>3, <1>4, <1>5, <1>6 DEF SessionsTyped
<1>9. gate[s] = Worker(s) /\ ~(job[Retirer(s)].op \in {"save", "put", "detach"})
  BY <1>3, Cast DEF GatesTaken, Resting
<1>10. Roles' /\ OneStores'
  BY <1>3, <1>4, <1>6, Cast DEF Roles, OneStores
<1>11. GatesTaken'
  BY <1>3, <1>4, <1>6, <1>9, Cast DEF GatesTaken, Resting, SessionsTyped
<1>12. Life'
  BY <1>2, <1>3, <1>4, <1>5, <1>6, <1>7, Cast DEF Life, Resting
<1>13. \A t \in Actors, r \in Sessions : r # s /\ FreshPut(t, r) => FreshPut(t, r)'
  BY <1>4, <1>5, <1>6 DEF FreshPut, Storing
<1>14. Registered(s) /\ (sess[s].left => s \in overtaken)
  BY <1>3 DEF Life, Stored, Resting
<1>15. Stored'
  BY <1>2, <1>3, <1>4, <1>5, <1>6, <1>7, <1>9, <1>13, <1>14, Cast
     DEF Stored, Settled, FreshPut, Storing, Resting
<1>16. LeftFor'
  BY <1>2, <1>3, <1>4, <1>5, <1>6, Cast DEF LeftFor, Storing, Resting
<1> QED BY <1>8, <1>10, <1>11, <1>12, <1>15, <1>16

\* A capture is of the bag as it is, and nobody else has an older one in hand; a
\* transfer silences what is captured after it.
LEMMA CaptureKeeps ==
    ASSUME HandoverInv, NEW t \in Actors, Capture(t)
    PROVE  HandoverInv'
<1> USE DEF HandoverInv
<1>1. PICK s \in Sessions : s = job[t].s
  BY DEF Capture, Roles
<1>2. PICK j : j = [job[t] EXCEPT !.op = "put", !.bag = sess[s].bag]
  OBVIOUS
<1>3. /\ j \in Job /\ j.op = "put" /\ j.s = s /\ j.why = job[t].why /\ j.bag = sess[s].bag
  <2>1. job[t] \in Job /\ sess[s].bag \in Nat
    BY Shapes
  <2> QED BY <1>1, <1>2, <2>1 DEF Job, Ops
<1>4. /\ job[t].op = "save" /\ SaveLockFree(s) /\ ~Silenced(s, job[t].why)
      /\ sess[s].sent /\ job' = [job EXCEPT ![t] = j]
      /\ UNCHANGED <<registry, sess, route, gate, row, saved, overtaken, refusals>>
  BY <1>1, <1>2 DEF Capture, HasState, SessionsTyped
<1>5. /\ job' \in [Actors -> Job] /\ job'[t] = j
      /\ \A u \in Actors : u # t => job'[u] = job[u]
  BY <1>3, <1>4, OneJob
<1>6. SessionsTyped'
  BY <1>4, <1>5 DEF SessionsTyped
<1>7. \A r \in Sessions : Registered(r)' <=> Registered(r)
  BY <1>4 DEF Registered
<1>8. \A u \in Actors : ~Storing(u, s)
  BY <1>4 DEF SaveLockFree, Storing
<1>9. Roles'
  BY <1>1, <1>3, <1>4, <1>5, Cast DEF Roles
<1>10. OneStores'
  BY <1>3, <1>5, <1>8 DEF OneStores, Storing
<1>11. GatesTaken' /\ Life'
  BY <1>1, <1>3, <1>4, <1>5, <1>7, Cast DEF GatesTaken, Life, Resting
<1>12. \A u \in Actors, r \in Sessions : FreshPut(u, r) => FreshPut(u, r)'
  BY <1>3, <1>4, <1>5 DEF FreshPut, Storing
<1>13. FreshPut(t, s)'
  BY <1>3, <1>4, <1>5 DEF FreshPut, Storing
<1>14. \A r \in Sessions : /\ job[Leaver(r)].op \in {"save", "put"} <=> job'[Leaver(r)].op \in {"save", "put"}
                           /\ job[Retirer(r)].op = "detach" <=> job'[Retirer(r)].op = "detach"
                           /\ Resting(Worker(r))' <=> Resting(Worker(r))
                           /\ Resting(Leaver(r))' <=> Resting(Leaver(r))
  BY <1>3, <1>4, <1>5, Cast DEF Resting
<1>15. Stored'
  BY <1>4, <1>7, <1>12, <1>14, Cast DEF Stored, Settled
<1>16. LeftFor'
  <2>1. ASSUME NEW r \in Sessions, sess[r].left, job'[Leaver(r)].op # "save",
               NEW u \in Actors, Storing(u, r)'
        PROVE  job'[u].why \notin {"interval", "disconnect"}
    <3>1. CASE r = s
      <4>1. u = t
        BY <1>5, <1>8, <2>1, <3>1 DEF Storing
      <4> QED BY <1>3, <1>4, <1>5, <2>1, <3>1, <4>1 DEF Silenced
    <3>2. CASE r # s
      <4>1. u # t /\ Storing(u, r) /\ t # Leaver(r)
        BY <1>1, <1>3, <1>4, <1>5, <2>1, <3>2, Cast DEF Storing, Roles
      <4> QED BY <1>4, <1>5, <2>1, <4>1, Cast DEF LeftFor
    <3> QED BY <3>1, <3>2
  <2> QED BY <1>4, <1>14, <2>1 DEF LeftFor
<1> QED BY <1>6, <1>9, <1>10, <1>11, <1>15, <1>16

\* What a thread does when its save is done or skipped.
LEMMA SaveOver ==
    ASSUME HandoverInv, NEW t \in Actors, job[t].op \in {"save", "put"}, AfterSave(t)
    PROVE  /\ job' \in [Actors -> Job]
           /\ t[1] = "leaver" => job'[t].op = "arm"
           /\ t[1] = "retirer" => job'[t].op = "detach"
           /\ t[1] \notin {"leaver", "retirer"} => job'[t].op = "none"
           /\ \A u \in Actors : u # t => job'[u] = job[u]
           /\ gate' \in [Sessions -> Actors \cup {Unheld}]
           /\ \A s \in Sessions : gate'[s] = IF t = Worker(s) THEN Unheld ELSE gate[s]
<1> USE DEF HandoverInv
<1>1. PICK j : j = CASE t[1] = "leaver" -> [NoJob EXCEPT !.op = "arm"]
                     [] t[1] = "retirer" -> [NoJob EXCEPT !.op = "detach"]
                     [] OTHER -> NoJob
  OBVIOUS
<1>2. /\ j \in Job
      /\ t[1] = "leaver" => j.op = "arm"
      /\ t[1] = "retirer" => j.op = "detach"
      /\ t[1] \notin {"leaver", "retirer"} => j.op = "none"
  BY <1>1, NoJobIs DEF Ops
<1>3. job' = [job EXCEPT ![t] = j]
  BY <1>1 DEF AfterSave
<1>4. /\ gate' \in [Sessions -> Actors \cup {Unheld}]
      /\ \A s \in Sessions : gate'[s] = IF t = Worker(s) THEN Unheld ELSE gate[s]
  <2>1. CASE t[1] = "worker"
    <3>1. t[2] \in Sessions /\ t = Worker(t[2])
      BY <2>1, Cast
    <3> QED BY <2>1, <3>1, Cast DEF AfterSave, SessionsTyped
  <2>2. CASE t[1] # "worker"
    BY <2>2, Cast DEF AfterSave, SessionsTyped
  <2> QED BY <2>1, <2>2
<1> QED BY <1>2, <1>3, <1>4, OneJob

\* A save is skipped by the autosaver and by a retirement only: of a session that
\* has left, or that never played.
LEMMA SkipSaveKeeps ==
    ASSUME HandoverInv, NEW t \in Actors, SkipSave(t)
    PROVE  HandoverInv'
<1> USE DEF HandoverInv
<1>1. PICK s \in Sessions : s = job[t].s
  BY DEF SkipSave, Roles
<1>2. /\ job[t].op = "save"
      /\ Silenced(s, job[t].why) \/ ~sess[s].sent
      /\ AfterSave(t)
      /\ UNCHANGED <<registry, sess, route, row, saved, overtaken, refusals>>
  BY <1>1 DEF SkipSave, HasState
<1>3. t = Saver \/ t = Retirer(s)
  <2>1. t # Saver => t[2] = s
    BY <1>1, <1>2 DEF Roles
  <2>2. t # Worker(s)
    BY <1>2, Cast DEF Roles, Life, Silenced, Resting
  <2>3. t # Leaver(s)
    BY <1>2, Cast DEF Roles, Life, Silenced, Resting
  <2> QED BY <2>1, <2>2, <2>3, Cast
<1>4. /\ job' \in [Actors -> Job] /\ gate' = gate
      /\ t = Saver => job'[t].op = "none"
      /\ t = Retirer(s) => job'[t].op = "detach"
      /\ \A u \in Actors : u # t => job'[u] = job[u]
  <2>1. gate' = gate
    BY <1>2, <1>3, Cast DEF AfterSave
  <2> QED BY <1>2, <1>3, <2>1, SaveOver, Cast
<1>5. SessionsTyped'
  BY <1>2, <1>4 DEF SessionsTyped
<1>6. \A r \in Sessions : Registered(r)' <=> Registered(r)
  BY <1>2 DEF Registered
<1>7. Roles' /\ OneStores'
  BY <1>2, <1>3, <1>4, Cast DEF Roles, OneStores
<1>8. GatesTaken' /\ Life'
  BY <1>2, <1>3, <1>4, <1>6, Cast DEF GatesTaken, Life, Resting
<1>9. \A u \in Actors, r \in Sessions : FreshPut(u, r) => FreshPut(u, r)'
  BY <1>2, <1>3, <1>4 DEF FreshPut, Storing
<1>10. t = Retirer(s) => sess[s].left \/ ~sess[s].sent
  BY <1>2 DEF Silenced
<1>11. Stored'
  BY <1>2, <1>3, <1>4, <1>6, <1>9, <1>10, Cast DEF Stored, Settled, Resting
<1>12. LeftFor'
  BY <1>2, <1>3, <1>4, Cast DEF LeftFor, Storing, Resting
<1> QED BY <1>5, <1>7, <1>8, <1>11, <1>12

\* What is stored by the one that took the player away, or by the retirement, is
\* the bag as it is, and nobody has another in hand.
LEMMA PutKeeps ==
    ASSUME HandoverInv, NEW t \in Actors, Put(t)
    PROVE  HandoverInv'
<1> USE DEF HandoverInv
<1>1. PICK s \in Sessions : s = job[t].s
  BY DEF Put, Roles
<1>2. /\ job[t].op = "put" /\ job[t].bag \in Nat
      /\ row' = [by |-> s, bag |-> job[t].bag] /\ saved' = [saved EXCEPT ![s] = job[t].bag]
      /\ AfterSave(t)
      /\ UNCHANGED <<registry, sess, route, overtaken, refusals>>
  BY <1>1, Shapes DEF Put
<1>3. /\ job' \in [Actors -> Job]
      /\ t[1] = "leaver" => job'[t].op = "arm"
      /\ t[1] = "retirer" => job'[t].op = "detach"
      /\ t[1] \notin {"leaver", "retirer"} => job'[t].op = "none"
      /\ \A u \in Actors : u # t => job'[u] = job[u]
      /\ gate' \in [Sessions -> Actors \cup {Unheld}]
      /\ \A r \in Sessions : gate'[r] = IF t = Worker(r) THEN Unheld ELSE gate[r]
  BY <1>2, SaveOver
<1>4. SessionsTyped'
  BY <1>2, <1>3, MaxSessionsNat DEF SessionsTyped, Sessions
<1>5. \A r \in Sessions : Registered(r)' <=> Registered(r)
  BY <1>2 DEF Registered
<1>6. t = Saver \/ t \in {Worker(s), Leaver(s), Retirer(s)}
  BY <1>1, <1>2, Cast DEF Roles
<1>7. Roles' /\ OneStores'
  BY <1>3, Cast DEF Roles, OneStores
<1>8. GatesTaken'
  BY <1>2, <1>3, <1>6, Cast DEF GatesTaken, Resting
<1>9. Life'
  BY <1>2, <1>3, <1>5, <1>6, Cast DEF Life, Resting
<1>10. /\ \A u \in Actors : ~Storing(u, s)'
       /\ \A u \in Actors, r \in Sessions : FreshPut(u, r) => FreshPut(u, r)'
       /\ saved'[s] = job[t].bag /\ \A r \in Sessions : r # s => saved'[r] = saved[r]
  BY <1>1, <1>2, <1>3 DEF OneStores, Storing, FreshPut, SessionsTyped
<1>11. FreshPut(t, s) => Settled(s)'
  BY <1>1, <1>2, <1>10 DEF FreshPut, Settled, Storing
<1>12. Stored'
  <2>1. ASSUME NEW r \in Sessions, r # s PROVE Settled(r) => Settled(r)'
    BY <1>2, <1>10, <2>1 DEF Settled
  <2>2. ASSUME NEW r \in Sessions, r # s
        PROVE  /\ t \notin {Worker(r), Leaver(r), Retirer(r)}
               /\ job'[Worker(r)] = job[Worker(r)] /\ job'[Leaver(r)] = job[Leaver(r)]
               /\ job'[Retirer(r)] = job[Retirer(r)]
    BY <1>3, <1>6, <2>2, Cast
  <2>3. Settled(s) => Settled(s)'
    BY <1>11 DEF Settled
  <2>5. sess[s].left /\ s \notin overtaken =>
          /\ Resting(Worker(s))' /\ FreshPut(Leaver(s), s)'
          /\ job'[Leaver(s)].op \in {"save", "put"} \/ Settled(s)'
    <3> SUFFICES ASSUME sess[s].left, s \notin overtaken
                 PROVE  /\ Resting(Worker(s))' /\ FreshPut(Leaver(s), s)'
                        /\ job'[Leaver(s)].op \in {"save", "put"} \/ Settled(s)'
      OBVIOUS
    <3>1. Resting(Worker(s)) /\ t # Worker(s)
      BY <1>2, Cast DEF Stored, Resting
    <3>2. CASE t = Leaver(s)
      BY <1>3, <1>10, <1>11, <3>1, <3>2, Cast DEF Stored, Resting
    <3>3. CASE t # Leaver(s)
      BY <1>3, <1>10, <2>3, <3>1, <3>3, Cast DEF Stored, Resting
    <3> QED BY <3>2, <3>3
  <2>6. /\ FreshPut(Retirer(s), s)'
        /\ sess[s].sent /\ ~sess[s].left /\ (job'[Retirer(s)].op = "detach" \/ ~Registered(s)) =>
              Settled(s)'
    BY <1>3, <1>10, <1>11, <2>3, Cast DEF Stored
  <2>7. ASSUME NEW r \in Sessions, r # s
        PROVE  /\ sess[r].left /\ r \notin overtaken =>
                    /\ Resting(Worker(r))' /\ FreshPut(Leaver(r), r)'
                    /\ job'[Leaver(r)].op \in {"save", "put"} \/ Settled(r)'
               /\ FreshPut(Retirer(r), r)'
               /\ sess[r].sent /\ ~sess[r].left /\ (job'[Retirer(r)].op = "detach" \/ ~Registered(r)) =>
                     Settled(r)'
    BY <1>10, <2>1, <2>2, <2>7, Cast DEF Stored, Resting
  <2> QED BY <1>2, <1>5, <2>5, <2>6, <2>7 DEF Stored
<1>13. LeftFor'
  BY <1>2, <1>3, <1>6, Cast DEF LeftFor, Storing, Resting
<1> QED BY <1>4, <1>7, <1>8, <1>9, <1>12, <1>13

\* Who leaves owes a save, and a worker it has overtaken is on record.
LEMMA LeavingKeeps ==
    ASSUME HandoverInv, NEW s \in Sessions, Travel(s) \/ Moved(s)
    PROVE  HandoverInv'
<1> USE DEF HandoverInv
<1>1. PICK x : x = [sess[s] EXCEPT !.left = TRUE]
  OBVIOUS
<1>2. /\ x \in Session /\ x.sent = sess[s].sent /\ x.left /\ x.from = sess[s].from
      /\ x.opened = sess[s].opened /\ x.retiring = sess[s].retiring /\ x.bag = sess[s].bag
  <2>1. sess[s] \in Session
    BY Shapes
  <2> QED BY <1>1, <2>1 DEF Session
<1>3. /\ sess[s].sent /\ ~sess[s].left /\ Resting(Leaver(s))
      /\ sess' = [sess EXCEPT ![s] = x] /\ Begin(Leaver(s), s, "save", "source")
      /\ UNCHANGED <<registry, route, row, saved, refusals>>
  BY <1>1 DEF Travel, Moved, Leaving, SessionsTyped
<1>4. /\ sess' \in [Sessions -> Session] /\ sess'[s] = x
      /\ \A r \in Sessions : r # s => sess'[r] = sess[r]
  BY <1>2, <1>3, OneSession
<1>5. /\ job' \in [Actors -> Job]
      /\ job'[Leaver(s)].op = "save" /\ job'[Leaver(s)].s = s /\ job'[Leaver(s)].why = "source"
      /\ \A u \in Actors : u # Leaver(s) => job'[u] = job[u]
  BY <1>3, Begun, Cast, Beginnings
<1>6. \A r \in Sessions : Registered(r)' <=> Registered(r)
  BY <1>3 DEF Registered
<1>7. /\ gate' \in [Sessions -> Actors \cup {Unheld}] /\ overtaken' \subseteq Sessions
      /\ \A r \in Sessions : r # s => gate'[r] = gate[r]
      /\ gate'[s] = gate[s] \/ (gate[s] = Unheld /\ gate'[s] = Leaver(s))
      /\ \A r \in Sessions : r \in overtaken => r \in overtaken'
      /\ \A r \in Sessions : r \in overtaken' => r \in overtaken \/ (r = s /\ gate[s] = Worker(s))
      /\ gate[s] = Worker(s) => s \in overtaken'
  <2>1. CASE Travel(s)
    BY <2>1, Cast DEF Travel, Free, SessionsTyped
  <2>2. CASE Moved(s)
    BY <2>2 DEF Moved, SessionsTyped
  <2> QED BY <2>1, <2>2
<1>8. SessionsTyped'
  BY <1>3, <1>4, <1>5, <1>7 DEF SessionsTyped
<1>9. Roles' /\ OneStores'
  BY <1>5, Cast DEF Roles, OneStores
<1>10. GatesTaken'
  BY <1>5, <1>7, Cast DEF GatesTaken, Resting
<1>11. Life'
  <2>1. \A r \in Sessions : /\ sess'[r].sent = sess[r].sent /\ sess'[r].opened = sess[r].opened
                            /\ sess'[r].retiring = sess[r].retiring
                            /\ sess[r].left => sess'[r].left
                            /\ sess'[r].left => sess[r].left \/ r = s
    BY <1>2, <1>4
  <2>2. \A r \in Sessions : /\ job'[Worker(r)] = job[Worker(r)] /\ job'[Retirer(r)] = job[Retirer(r)]
                            /\ r # s => job'[Leaver(r)] = job[Leaver(r)]
    BY <1>5, Cast
  <2>3. job'[Saver] = job[Saver] /\ sess'[s].left
    BY <1>2, <1>4, <1>5, Cast
  <2> QED BY <1>3, <1>6, <2>1, <2>2, <2>3 DEF Life, Resting
<1>12. \A u \in Actors, r \in Sessions : FreshPut(u, r) => FreshPut(u, r)'
  BY <1>2, <1>4, <1>5 DEF FreshPut, Storing
<1>13. \A r \in Sessions : Settled(r) => Settled(r)'
  BY <1>2, <1>3, <1>4, <1>12 DEF Settled
<1>14. s \notin overtaken' => Resting(Worker(s))' /\ FreshPut(Leaver(s), s)'
  BY <1>5, <1>7, Cast DEF GatesTaken, Resting, FreshPut, Storing
<1>15. Stored'
  BY <1>2, <1>4, <1>5, <1>6, <1>7, <1>12, <1>13, <1>14, Cast DEF Stored, Resting
<1>16. LeftFor'
  BY <1>2, <1>3, <1>4, <1>5, Cast DEF LeftFor, Storing, Resting
<1> QED BY <1>8, <1>9, <1>10, <1>11, <1>15, <1>16

\* The route names a session that has left and stored itself.
LEMMA ArmKeeps ==
    ASSUME HandoverInv, NEW s \in Sessions, Arm(s)
    PROVE  HandoverInv'
<1> USE DEF HandoverInv
<1>1. /\ job[Leaver(s)].op = "arm" /\ job' = [job EXCEPT ![Leaver(s)] = NoJob]
      /\ route' \in {s, route}
      /\ UNCHANGED <<registry, sess, row, saved, overtaken, refusals>>
      /\ gate' = IF gate[s] = Leaver(s) THEN [gate EXCEPT ![s] = Unheld] ELSE gate
  BY DEF Arm
<1>2. /\ job' \in [Actors -> Job] /\ job'[Leaver(s)] = NoJob
      /\ \A u \in Actors : u # Leaver(s) => job'[u] = job[u]
  BY <1>1, OneJob, NoJobIs, Cast
<1>3. /\ gate' \in [Sessions -> Actors \cup {Unheld}]
      /\ \A r \in Sessions : r # s => gate'[r] = gate[r]
      /\ gate'[s] = IF gate[s] = Leaver(s) THEN Unheld ELSE gate[s]
  BY <1>1 DEF SessionsTyped
<1>4. SessionsTyped'
  BY <1>1, <1>2, <1>3, MaxSessionsNat DEF SessionsTyped, Sessions
<1>5. \A r \in Sessions : Registered(r)' <=> Registered(r)
  BY <1>1 DEF Registered
<1>6. Roles' /\ OneStores'
  BY <1>2, Cast, NoJobIs DEF Roles, OneStores
<1>7. GatesTaken' /\ Life'
  BY <1>1, <1>2, <1>3, <1>5, Cast, NoJobIs DEF GatesTaken, Life, Resting
<1>8. \A u \in Actors, r \in Sessions : FreshPut(u, r) => FreshPut(u, r)'
  BY <1>1, <1>2, NoJobIs DEF FreshPut, Storing
<1>9. Stored'
  BY <1>1, <1>2, <1>5, <1>8, Cast, NoJobIs DEF Stored, Settled, Resting
<1>10. sess[s].left /\ Resting(Leaver(s))'
  BY <1>1, <1>2, NoJobIs DEF Life, Resting
<1>11. LeftFor'
  BY <1>1, <1>2, <1>10, Cast, NoJobIs DEF LeftFor, Storing, Resting
<1> QED BY <1>4, <1>6, <1>7, <1>9, <1>11

LEMMA RetireSessionKeeps ==
    ASSUME HandoverInv, NEW s \in Sessions, NEW why \in Retirements, RetireSession(s, why)
    PROVE  HandoverInv'
<1> USE DEF HandoverInv
<1>1. PICK x : /\ x \in Session /\ sess' = [sess EXCEPT ![s] = x]
               /\ x.sent = sess[s].sent /\ x.left = sess[s].left /\ x.from = sess[s].from
               /\ x.opened = sess[s].opened /\ x.bag = sess[s].bag
               /\ \/ RetireAccepted(s, why) /\ x.retiring
                  \/ RetireRefused(s, why) /\ x.retiring = sess[s].retiring
  <2>1. sess[s] \in Session
    BY Shapes
  <2>2. CASE RetireAccepted(s, why)
    <3>1. PICK x : x = [sess[s] EXCEPT !.retiring = TRUE, !.failure = NoReason]
      OBVIOUS
    <3>2. /\ x \in Session /\ x.sent = sess[s].sent /\ x.left = sess[s].left /\ x.from = sess[s].from
          /\ x.opened = sess[s].opened /\ x.bag = sess[s].bag /\ x.retiring
      BY <2>1, <3>1 DEF Session
    <3>3. sess' = [sess EXCEPT ![s] = x]
      BY <2>2, <3>1 DEF RetireAccepted, SessionsTyped
    <3> QED BY <2>2, <3>2, <3>3
  <2>3. CASE RetireRefused(s, why)
    <3>1. PICK x : x = [sess[s] EXCEPT !.failure = why]
      OBVIOUS
    <3>2. /\ x \in Session /\ x.sent = sess[s].sent /\ x.left = sess[s].left /\ x.from = sess[s].from
          /\ x.opened = sess[s].opened /\ x.bag = sess[s].bag /\ x.retiring = sess[s].retiring
      BY <2>1, <3>1 DEF Session
    <3>3. sess' = [sess EXCEPT ![s] = x]
      BY <2>3, <3>1 DEF RetireRefused, SessionsTyped
    <3> QED BY <2>3, <3>2, <3>3
  <2> QED BY <2>2, <2>3 DEF RetireSession
<1>2. ~sess[s].retiring /\ UNCHANGED <<registry, route, gate, row, saved, overtaken>> /\ refusals' \in Nat
  BY <1>1 DEF RetireAccepted, RetireRefused, SessionsTyped
<1>3. /\ sess' \in [Sessions -> Session] /\ sess'[s] = x
      /\ \A r \in Sessions : r # s => sess'[r] = sess[r]
  BY <1>1, OneSession
<1>4. /\ job' \in [Actors -> Job]
      /\ \/ job' = job
         \/ /\ job'[Retirer(s)].op = "gate" /\ job'[Retirer(s)].s = s /\ job'[Retirer(s)].why = why
            /\ x.retiring
      /\ \A u \in Actors : u # Retirer(s) => job'[u] = job[u]
  <2>1. CASE RetireAccepted(s, why) /\ x.retiring
    BY <2>1, Begun, Cast, Beginnings DEF RetireAccepted
  <2>2. CASE RetireRefused(s, why)
    BY <2>2 DEF RetireRefused, SessionsTyped
  <2> QED BY <1>1, <2>1, <2>2
<1>5. \A r \in Sessions : Registered(r)' <=> Registered(r)
  BY <1>2 DEF Registered
<1>6. SessionsTyped'
  BY <1>2, <1>3, <1>4 DEF SessionsTyped
<1>7. Resting(Retirer(s))
  BY <1>2 DEF Life
<1>8. Roles' /\ OneStores'
  BY <1>4, Cast DEF Roles, OneStores
<1>9. GatesTaken'
  BY <1>2, <1>4, <1>7, Cast DEF GatesTaken, Resting
<1>10. Life'
  BY <1>1, <1>2, <1>3, <1>4, <1>5, Cast DEF Life, Resting
<1>11. \A u \in Actors, r \in Sessions : FreshPut(u, r) => FreshPut(u, r)'
  BY <1>1, <1>3, <1>4 DEF FreshPut, Storing
<1>12. Stored'
  BY <1>1, <1>2, <1>3, <1>4, <1>5, <1>11, Cast DEF Stored, Settled, Resting
<1>13. LeftFor'
  BY <1>1, <1>2, <1>3, <1>4, Cast DEF LeftFor, Storing, Resting
<1> QED BY <1>6, <1>8, <1>9, <1>10, <1>12, <1>13

LEMMA RetireGateKeeps ==
    ASSUME HandoverInv, NEW s \in Sessions, RetireGate(s)
    PROVE  HandoverInv'
<1> USE DEF HandoverInv
<1>1. PICK j : j = [job[Retirer(s)] EXCEPT !.op = "save"]
  OBVIOUS
<1>2. j \in Job /\ j.op = "save" /\ j.s = job[Retirer(s)].s /\ j.why = job[Retirer(s)].why
  <2>1. job[Retirer(s)] \in Job
    BY Shapes, Cast
  <2> QED BY <1>1, <2>1 DEF Job, Ops
<1>3. /\ job[Retirer(s)].op = "gate" /\ gate[s] = Unheld /\ gate' = [gate EXCEPT ![s] = Retirer(s)]
      /\ job' = [job EXCEPT ![Retirer(s)] = j]
      /\ UNCHANGED <<registry, sess, route, row, saved, overtaken, refusals>>
  BY <1>1, Cast DEF RetireGate, Free, SessionsTyped
<1>4. /\ job' \in [Actors -> Job] /\ job'[Retirer(s)] = j
      /\ \A u \in Actors : u # Retirer(s) => job'[u] = job[u]
  BY <1>2, <1>3, OneJob, Cast
<1>5. SessionsTyped'
  BY <1>3, <1>4, Cast DEF SessionsTyped
<1>6. \A r \in Sessions : Registered(r)' <=> Registered(r)
  BY <1>3 DEF Registered
<1>7. Roles' /\ OneStores'
  BY <1>2, <1>3, <1>4, Cast DEF Roles, OneStores
<1>8. GatesTaken'
  BY <1>2, <1>3, <1>4, Cast DEF GatesTaken, Resting, SessionsTyped
<1>9. Life'
  BY <1>2, <1>3, <1>4, <1>6, Cast DEF Life, Resting
<1>10. \A u \in Actors, r \in Sessions : FreshPut(u, r) => FreshPut(u, r)'
  BY <1>2, <1>3, <1>4 DEF FreshPut, Storing
<1>11. Stored'
  BY <1>2, <1>3, <1>4, <1>6, <1>10, Cast DEF Stored, Settled, Resting
<1>12. LeftFor'
  BY <1>2, <1>3, <1>4, Cast DEF LeftFor, Storing, Resting
<1> QED BY <1>5, <1>7, <1>8, <1>9, <1>11, <1>12

\* The endpoint is given back when everything is stored, and no worker begins at
\* a session that has none.
LEMMA DetachKeeps ==
    ASSUME HandoverInv, NEW s \in Sessions, Detach(s)
    PROVE  HandoverInv'
<1> USE DEF HandoverInv
<1>1. /\ job[Retirer(s)].op = "detach" /\ gate' = [gate EXCEPT ![s] = Unheld]
      /\ job' = [job EXCEPT ![Retirer(s)] = NoJob]
      /\ registry' = [e \in Endpoints |-> IF registry[e] = s THEN 0 ELSE registry[e]]
      /\ UNCHANGED <<sess, route, row, saved, overtaken, refusals>>
  BY DEF Detach
<1>2. /\ job' \in [Actors -> Job] /\ job'[Retirer(s)] = NoJob
      /\ \A u \in Actors : u # Retirer(s) => job'[u] = job[u]
  BY <1>1, OneJob, NoJobIs, Cast
<1>3. SessionsTyped'
  BY <1>1, <1>2, MaxSessionsNat DEF SessionsTyped
<1>4. /\ gate[s] = Retirer(s) /\ gate'[s] = Unheld
      /\ \A r \in Sessions : r # s => gate'[r] = gate[r]
  BY <1>1 DEF GatesTaken, SessionsTyped
<1>5. ~Registered(s)' /\ \A r \in Sessions : r # s => (Registered(r)' <=> Registered(r))
  <2>1. \A e \in Endpoints : registry'[e] = IF registry[e] = s THEN 0 ELSE registry[e]
    BY <1>1
  <2> QED BY <2>1 DEF Registered, Sessions
<1>6. Roles' /\ OneStores'
  BY <1>2, Cast, NoJobIs DEF Roles, OneStores
<1>7. GatesTaken'
  BY <1>2, <1>4, Cast, NoJobIs DEF GatesTaken, Resting
<1>8. Resting(Worker(s))
  BY <1>4, Cast DEF GatesTaken
<1>9. Life'
  BY <1>1, <1>2, <1>5, <1>8, Cast, NoJobIs DEF Life, Resting
<1>10. \A u \in Actors, r \in Sessions : FreshPut(u, r) => FreshPut(u, r)'
  BY <1>1, <1>2, NoJobIs DEF FreshPut, Storing
<1>11. Stored'
  BY <1>1, <1>2, <1>5, <1>10, Cast, NoJobIs DEF Stored, Settled, Resting
<1>12. LeftFor'
  BY <1>1, <1>2, Cast, NoJobIs DEF LeftFor, Storing, Resting
<1> QED BY <1>3, <1>6, <1>7, <1>9, <1>11, <1>12

LEMMA SaverKeeps ==
    ASSUME HandoverInv, NEW s \in Sessions, Autosave(s) \/ DeferredSave(s)
    PROVE  HandoverInv'
<1> USE DEF HandoverInv
<1>1. /\ Resting(Saver) /\ sess[s].sent
      /\ Begin(Saver, s, "save", "interval") \/ Begin(Saver, s, "save", "deferred")
      /\ UNCHANGED <<registry, sess, route, gate, row, saved, overtaken, refusals>>
  BY DEF Autosave, DeferredSave, HasState
<1>2. /\ job' \in [Actors -> Job]
      /\ job'[Saver].op = "save" /\ job'[Saver].s = s /\ job'[Saver].why \in {"interval", "deferred"}
      /\ \A u \in Actors : u # Saver => job'[u] = job[u]
  BY <1>1, Begun, Cast, Beginnings
<1>3. SessionsTyped'
  BY <1>1, <1>2 DEF SessionsTyped
<1>4. \A r \in Sessions : Registered(r)' <=> Registered(r)
  BY <1>1 DEF Registered
<1>5. Roles' /\ OneStores'
  BY <1>2, Cast DEF Roles, OneStores
<1>6. GatesTaken' /\ Life'
  BY <1>1, <1>2, <1>4, Cast DEF GatesTaken, Life, Resting
<1>7. \A u \in Actors, r \in Sessions : FreshPut(u, r) => FreshPut(u, r)'
  BY <1>1, <1>2 DEF FreshPut, Storing
<1>8. Stored'
  BY <1>1, <1>2, <1>4, <1>7, Cast DEF Stored, Settled, Resting
<1>9. LeftFor'
  BY <1>1, <1>2, Cast DEF LeftFor, Storing, Resting
<1> QED BY <1>3, <1>5, <1>6, <1>8, <1>9

LEMMA HandoverStep == HandoverInv /\ [HandoverNext]_handoverVars => HandoverInv'
<1> SUFFICES ASSUME HandoverInv, [HandoverNext]_handoverVars PROVE HandoverInv'
  OBVIOUS
<1>1. CASE UNCHANGED handoverVars
  BY <1>1 DEF handoverVars, HandoverInv, SessionsTyped, Roles, OneStores, GatesTaken, Life, Stored,
              Settled, FreshPut, Storing, LeftFor, Resting, Registered
<1>2. ASSUME NEW s \in Sessions, Disconnect(s) \/ GoesIdle(s) \/ Retry(s) PROVE HandoverInv'
  <2>1. PICK why \in Retirements : RetireSession(s, why)
    BY <1>2, Shapes DEF Disconnect, GoesIdle, Retry, Retirements, HandoverInv
  <2> QED BY <2>1, RetireSessionKeeps
<1>3. CASE HandoverNext
  BY <1>2, <1>3, ConnectKeeps, EnterKeeps, CommandKeeps, GainKeeps, CaptureKeeps, SkipSaveKeeps,
     PutKeeps, LeavingKeeps, ArmKeeps, RetireGateKeeps, DetachKeeps, SaverKeeps
     DEF HandoverNext, Work
<1> QED BY <1>1, <1>3

LEMMA HandoverAlways == Handover => []HandoverInv
BY HandoverInitInv, HandoverStep, PTL DEF Handover

\* The fields of sessions, the jobs, the gates and the rows are of their types,
\* whatever is done in whichever order.
THEOREM SessionTypes == Handover => []SessionsTyped
<1>1. HandoverInv => SessionsTyped
  BY DEF HandoverInv
<1> QED BY <1>1, HandoverAlways, PTL

\* When an endpoint is free for the next connection all that its session had is
\* stored (NothingLeftBehind), for any number of connections, endpoints,
\* gains and refusals, whatever the autosaver comes to.
THEOREM NothingIsLeftBehind == Handover => []NothingLeftBehind
<1>1. HandoverInv => NothingLeftBehind
  BY Cast DEF HandoverInv, NothingLeftBehind, Stored, Settled, Resting
<1> QED BY <1>1, HandoverAlways, PTL

\* Handover => SourceStaysSilent: once the destination has stored itself, what
\* the transfer silences never puts its source back.
THEOREM SourceIsSilent == Handover => SourceStaysSilent
<1>1. HandoverInv /\ HandoverInv' /\ [HandoverNext]_handoverVars =>
        [\A t \in Actors :
            LET s == job[t].s
            IN  Stores(t) /\ row.by > s /\ sess[row.by].from = s =>
                    \/ job[t].why \in {"idle", "deferred"}
                    \/ job[t].why \in {"command", "entry"} /\ s \in overtaken]_handoverVars
  <2> SUFFICES ASSUME HandoverInv, NEW t \in Actors, NEW s, s = job[t].s,
                      Stores(t), row.by > s, sess[row.by].from = s
               PROVE  \/ job[t].why \in {"idle", "deferred"}
                      \/ job[t].why \in {"command", "entry"} /\ s \in overtaken
    OBVIOUS
  <2> USE DEF HandoverInv
  <2>1. job[t].op = "put" /\ s \in Sessions /\ Storing(t, s)
    BY DEF Stores, Roles, Storing
  <2>2. row.by \in Sessions
    BY <2>1, MaxSessionsNat DEF SessionsTyped, Sessions
  <2>3. sess[s].left /\ Resting(Leaver(s))
    BY <2>1, <2>2 DEF LeftFor
  <2>4. job[t].why \notin {"interval", "disconnect"} /\ t # Leaver(s)
    BY <2>1, <2>3 DEF LeftFor, Resting
  <2>5. t = Worker(s) => s \in overtaken
    BY <2>1, <2>3 DEF Stored, Resting
  <2>6. t = Saver \/ t \in {Worker(s), Retirer(s)}
    BY <2>1, <2>4, Cast DEF Roles
  <2> QED BY <2>1, <2>4, <2>5, <2>6, Cast DEF Roles, Retirements
<1> QED BY <1>1, HandoverAlways, HandoverStep, PTL DEF Handover, SourceStaysSilent

-----------------------------------------------------------------------------
(* The deadline scheduler *)

\* The types, by what a step changes together.
HandleTypes ==
    /\ st \in [Handles -> States] /\ order \in [Handles -> Int]
    /\ deadline \in [Handles -> Nat] /\ finished \subseteq Handles
HeapTypes == heap \subseteq Handles /\ sequence \in Nat /\ pending \in Int /\ dead \in Nat
LifeTypes ==
    /\ shut \in BOOLEAN /\ ever \in BOOLEAN /\ generation \in Nat
    /\ threads \subseteq Workers /\ joining \in BOOLEAN /\ shutdowns \in Nat
WorkerTypes ==
    /\ place \in [Workers -> Places] /\ task \in [Workers -> SUBSET Handles]
    /\ until \in [Workers -> Nat]
CallTypes == call \in [Handles -> {"none", "start", "push"}] /\ now \in Nat
GhostTypes == pushedIn \in [Handles -> Nat] /\ ranIn \in [Handles -> SUBSET Nat]

\* What an entry of the heap is: scheduled or cancelled, numbered below the next
\* number, and alone with its number.  A handle inside start() has no number yet.
EntriesInv ==
    /\ \A h \in heap : /\ st[h] \in {"scheduled", "cancelled"}
                       /\ 0 <= order[h] /\ order[h] < sequence
    /\ \A h \in Handles : call[h] # "none" => order[h] = -1
    /\ \A g, h \in heap : order[g] = order[h] => g = h

\* What is scheduled was scheduled in this generation and has not run.
GenerationInv ==
    \A h \in Handles :
        /\ st[h] = "scheduled" => pushedIn[h] = generation
        /\ st[h] \in {"new", "scheduled"} => ranIn[h] = {}

\* A worker's handle is running, and no other worker's; a finished handle has ended.
JobsInv ==
    /\ \A w \in Workers : \A h \in task[w] : st[h] = "running"
    /\ \A v, w \in Workers : v # w => task[v] \cap task[w] = {}
    /\ \A h \in finished : st[h] \in {"finished", "cancelled"}

\* There is a generation for every shutdown and one more, and until it is shut down
\* none of its workers leaves.
LifeInv ==
    /\ shutdowns <= MaxShutdowns /\ generation <= shutdowns + 1 /\ (shut => generation <= shutdowns)
    /\ ~shut /\ generation > 0 =>
         \A i \in 1..WorkerCount :
            /\ <<generation, i>> \in threads
            /\ place[<<generation, i>>] \in {"awake", "waiting", "timed", "running"}

HeapInv == EntriesInv /\ CountersExact /\ HeapHoldsScheduled
SchedulerInv == SchedulerTyped /\ LifeInv /\ HeapInv /\ GenerationInv /\ GenerationsDoNotMix /\ JobsInv

-----------------------------------------------------------------------------
(* Finite sets of handles. *)

\* Every set of handles has a size.
LEMMA Sizes ==
    ASSUME NEW H \in SUBSET Handles
    PROVE  IsFiniteSet(H) /\ Cardinality(H) \in Nat
BY SchedulerAssumption, FS_Subset, FS_CardinalityType

\* What is taken out of a set counts for what the set loses.
LEMMA Fewer ==
    ASSUME NEW H \in SUBSET Handles, NEW D \in SUBSET H
    PROVE  /\ Cardinality(H \ D) = Cardinality(H) - Cardinality(D)
           /\ Less(Cardinality(H), Cardinality(D)) = Cardinality(H \ D)
<1>1. Cardinality(H) \in Nat /\ Cardinality(D) \in Nat /\ Cardinality(H \ D) \in Nat
  BY Sizes
<1>2. IsFiniteSet(H) /\ D = H \cap D
  BY Sizes
<1>3. Cardinality(H \ D) = Cardinality(H) - Cardinality(H \cap D)
  BY <1>2, FS_Difference, Zenon
<1> QED BY <1>1, <1>2, <1>3 DEF Less

\* A cancelled entry is dropped only ahead of the live ones, a live one never.
LEMMA DiscardedIsDead ==
    ASSUME SchedulerTyped, NEW H \in SUBSET Handles
    PROVE  Discarded(H) \in SUBSET H /\ Discarded(H) \cap Scheduled = {}
BY DEF SchedulerTyped, Discarded, Before, Scheduled

\* The head that is left after that is live.
LEMMA HeadIsLive ==
    ASSUME SchedulerTyped, EntriesInv, NEW H \in SUBSET heap, NEW h \in Heads(H \ Discarded(H))
    PROVE  h \in H /\ st[h] = "scheduled"
<1>1. h \in H \ Discarded(H)
  BY DEF Heads
<1>2. PICK g \in H : Before(g, h) /\ st[g] = "scheduled"
  BY <1>1 DEF Discarded
<1>3. g \in H \ Discarded(H)
  BY <1>2 DEF Discarded, Before, SchedulerTyped
<1>4. Before(h, g)
  BY <1>3 DEF Heads
<1>5. g \in Handles /\ h \in Handles /\ deadline[g] \in Nat /\ deadline[h] \in Nat
      /\ order[g] \in Int /\ order[h] \in Int
  BY <1>1, <1>2 DEF SchedulerTyped
<1>6. order[g] = order[h]
  BY <1>2, <1>4, <1>5 DEF Before
<1> QED BY <1>1, <1>2, <1>6 DEF EntriesInv

Groups == HandleTypes /\ HeapTypes /\ LifeTypes /\ WorkerTypes /\ CallTypes /\ GhostTypes

LEMMA TypeGroups == (SchedulerTyped <=> Groups) /\ (SchedulerTyped' <=> Groups')
BY Zenon DEF Groups, SchedulerTyped, HandleTypes, HeapTypes, LifeTypes, WorkerTypes, CallTypes, GhostTypes

-----------------------------------------------------------------------------
LEMMA SchedulerInitInv == SchedulerInit => SchedulerInv
<1> SUFFICES ASSUME SchedulerInit PROVE SchedulerInv
  OBVIOUS
<1>1. SchedulerTyped
  <2>1. HandleTypes /\ HeapTypes
    BY DEF SchedulerInit, HandleTypes, HeapTypes, States
  <2>2. LifeTypes
    BY DEF SchedulerInit, LifeTypes
  <2>3. WorkerTypes /\ CallTypes /\ GhostTypes
    BY DEF SchedulerInit, WorkerTypes, CallTypes, GhostTypes, Places
  <2> QED BY <2>1, <2>2, <2>3, TypeGroups DEF Groups
<1>2. Scheduled = {} /\ heap \ Scheduled = {} /\ Cardinality({}) = 0
  BY FS_EmptySet DEF SchedulerInit, Scheduled
<1>3. HeapInv
  BY <1>2, SchedulerAssumption DEF SchedulerInit, HeapInv, EntriesInv, CountersExact, HeapHoldsScheduled
<1>4. LifeInv
  BY SchedulerAssumption DEF SchedulerInit, LifeInv
<1> QED BY <1>1, <1>3, <1>4 DEF SchedulerInit, SchedulerInv, GenerationInv, GenerationsDoNotMix, JobsInv

\* Steps that touch neither handles nor the heap.
Quiet ==
    /\ UNCHANGED <<handleVars, heapVars, ghostVars, generation, task>>
    /\ \A h \in Handles : call'[h] = "none" \/ order[h] = -1

LEMMA QuietStep ==
    ASSUME SchedulerInv, Quiet, SchedulerTyped', LifeInv'
    PROVE  SchedulerInv'
<1> USE DEF Quiet, handleVars, heapVars, ghostVars
<1>1. HeapInv'
  BY DEF SchedulerInv, HeapInv, EntriesInv, CountersExact, HeapHoldsScheduled, Scheduled
<1>2. (GenerationInv /\ GenerationsDoNotMix /\ JobsInv)'
  BY DEF SchedulerInv, GenerationInv, GenerationsDoNotMix, JobsInv
<1> QED BY <1>1, <1>2 DEF SchedulerInv

\* A new generation begins with nothing scheduled.
LEMMA LaunchStep ==
    ASSUME SchedulerInv, Launch, heap = {}, UNCHANGED <<handleVars, heapVars, ghostVars>>,
           \A h \in Handles : call'[h] = "none" \/ order[h] = -1, SchedulerTyped', LifeInv'
    PROVE  SchedulerInv'
<1> USE DEF Launch, handleVars, heapVars, ghostVars
<1>1. HeapInv'
  BY DEF SchedulerInv, HeapInv, EntriesInv, CountersExact, HeapHoldsScheduled, Scheduled
<1>2. \A h \in Handles : st[h] # "scheduled"
  BY DEF SchedulerInv, HeapInv, HeapHoldsScheduled, Scheduled
<1>3. (GenerationInv /\ GenerationsDoNotMix /\ JobsInv)'
  BY <1>2 DEF SchedulerInv, GenerationInv, GenerationsDoNotMix, JobsInv
<1> QED BY <1>1, <1>3 DEF SchedulerInv

-----------------------------------------------------------------------------
(* Types. *)

LEMMA WokenType == ASSUME SchedulerTyped PROVE Woken(place) \in [Workers -> Places]
BY DEF SchedulerTyped, Woken, Places

LEMMA LaunchTypes ==
    ASSUME SchedulerTyped, LifeInv, Startable, Launch, UNCHANGED <<handleVars, heapVars, now, ghostVars>>,
           call' \in [Handles -> {"none", "start", "push"}]
    PROVE  SchedulerTyped' /\ LifeInv'
<1> USE DEF Launch, handleVars, heapVars, ghostVars
<1>1. generation \in Nat /\ shutdowns \in Nat /\ WorkerCount \in Nat \ {0} /\ MaxShutdowns \in Nat
  BY SchedulerAssumption DEF SchedulerTyped
<1>2. ~shut => generation = 0
  <2>1. SUFFICES ASSUME ~shut, generation # 0 PROVE FALSE
    OBVIOUS
  <2>2. 1 \in 1..WorkerCount /\ generation > 0
    BY <1>1, <2>1
  <2>3. <<generation, 1>> \in Alive
    BY <2>1, <2>2 DEF LifeInv, Alive
  <2> QED BY <2>1, <2>3 DEF Startable
<1>3. generation + 1 \in Generations /\ generation + 1 <= shutdowns + 1
  BY <1>1, <1>2 DEF LifeInv, Generations
<1>4. NewWorkers \subseteq Workers
  BY <1>3 DEF NewWorkers, Workers
<1>5. threads' \subseteq Workers /\ place' \in [Workers -> Places]
  BY <1>4 DEF SchedulerTyped, Alive, Places
<1>6. (HandleTypes /\ HeapTypes /\ CallTypes /\ GhostTypes)'
  BY TypeGroups DEF Groups, HandleTypes, HeapTypes, CallTypes, GhostTypes
<1>7. LifeTypes'
  <2>1. shut' \in BOOLEAN /\ ever' \in BOOLEAN /\ joining' \in BOOLEAN
    BY Zenon, TypeGroups DEF Groups, LifeTypes
  <2> QED BY <1>1, <1>5, <2>1 DEF LifeTypes
<1>8. WorkerTypes'
  BY <1>5, TypeGroups DEF Groups, WorkerTypes
<1>10. SchedulerTyped'
  BY <1>6, <1>7, <1>8, TypeGroups DEF Groups
<1>9. \A i \in 1..WorkerCount : <<generation', i>> \in threads' /\ place'[<<generation', i>>] = "awake"
  BY <1>1, <1>4 DEF NewWorkers
<1> QED BY <1>1, <1>3, <1>9, <1>10 DEF LifeInv

\* Steps that leave the generation and its workers be.
LEMMA LifeStep ==
    ASSUME SchedulerTyped, LifeInv, UNCHANGED <<shut, generation, threads, shutdowns>>,
           \A w \in Workers : place'[w] \in {place[w], "awake", "timed", "waiting", "running"}
    PROVE  LifeInv'
BY DEF LifeInv, SchedulerTyped, Workers, Generations

-----------------------------------------------------------------------------
(* start() and shutdown() *)

LEMMA StartStep == SchedulerInv /\ Start => SchedulerInv'
<1> SUFFICES ASSUME SchedulerInv, Start PROVE SchedulerInv'
  OBVIOUS
<1>1. SchedulerTyped' /\ LifeInv'
  BY LaunchTypes DEF Start, SchedulerInv, SchedulerTyped
<1>2. \A h \in Handles : call'[h] = "none" \/ order[h] = -1
  BY DEF Start, SchedulerInv, HeapInv, EntriesInv
<1> QED BY <1>1, <1>2, LaunchStep DEF Start

LEMMA StartForStep ==
    ASSUME SchedulerInv, NEW h \in Handles, StartFor(h)
    PROVE  SchedulerInv'
<1>1. call' \in [Handles -> {"none", "start", "push"}]
  BY DEF StartFor, SchedulerInv, SchedulerTyped
<1>2. \A g \in Handles : call'[g] = "none" \/ order[g] = -1
  BY DEF StartFor, SchedulerInv, HeapInv, EntriesInv, SchedulerTyped
<1>3. CASE Startable /\ pending = 0 /\ heap = {}
  <2>1. Launch /\ UNCHANGED <<handleVars, heapVars, now, ghostVars>>
    BY <1>3 DEF StartFor
  <2>2. SchedulerTyped' /\ LifeInv'
    BY <1>1, <1>3, <2>1, LaunchTypes DEF SchedulerInv
  <2> QED BY <1>2, <1>3, <2>1, <2>2, LaunchStep
<1>4. CASE ~(Startable /\ pending = 0 /\ heap = {})
  <2>1. UNCHANGED <<handleVars, heapVars, lifeVars, workerVars, now, ghostVars>>
    BY <1>4 DEF StartFor
  <2>2. Groups'
    BY <1>1, <2>1, TypeGroups
       DEF SchedulerInv, Groups, HandleTypes, HeapTypes, LifeTypes, WorkerTypes, CallTypes, GhostTypes,
           handleVars, heapVars, lifeVars, workerVars, ghostVars
  <2>3. LifeInv'
    BY <2>1 DEF SchedulerInv, LifeInv, lifeVars, workerVars
  <2> QED BY <1>2, <2>1, <2>2, <2>3, TypeGroups, QuietStep DEF Quiet, lifeVars, workerVars
<1> QED BY <1>3, <1>4

LEMMA ShutdownStep ==
    ASSUME SchedulerInv, NEW cancel \in BOOLEAN, Shutdown(cancel)
    PROVE  SchedulerInv'
<1> USE DEF Shutdown, ghostVars
<1>1. (HandleTypes /\ HeapTypes)'
  BY TypeGroups DEF SchedulerInv, Groups, HandleTypes, HeapTypes, States
<1>2. LifeTypes'
  BY TypeGroups DEF SchedulerInv, Groups, LifeTypes
<1>3. (WorkerTypes /\ CallTypes /\ GhostTypes)'
  BY TypeGroups, WokenType DEF SchedulerInv, Groups, WorkerTypes, CallTypes, GhostTypes
<1>4. SchedulerTyped'
  BY <1>1, <1>2, <1>3, TypeGroups DEF Groups
<1>5. LifeInv'
  BY SchedulerAssumption DEF SchedulerInv, LifeInv, SchedulerTyped
<1>6. HeapInv'
  <2>1. CASE cancel
    <3>1. \A h \in Handles : st'[h] # "scheduled"
      BY <2>1 DEF SchedulerInv, SchedulerTyped, HeapInv, HeapHoldsScheduled, Scheduled
    <3>2. Scheduled' = {} /\ heap' = {} /\ heap' \ Scheduled' = {}
      BY <2>1, <3>1 DEF Scheduled
    <3> QED BY <2>1, <3>2, FS_EmptySet, SchedulerAssumption
            DEF SchedulerInv, HeapInv, EntriesInv, CountersExact, HeapHoldsScheduled
  <2>2. CASE ~cancel
    BY <2>2 DEF SchedulerInv, HeapInv, EntriesInv, CountersExact, HeapHoldsScheduled, Scheduled
  <2> QED BY <2>1, <2>2
<1>7. (GenerationInv /\ GenerationsDoNotMix)'
  BY DEF SchedulerInv, GenerationInv, GenerationsDoNotMix, SchedulerTyped
<1>8. JobsInv'
  BY DEF SchedulerInv, JobsInv, SchedulerTyped, Scheduled
<1> QED BY <1>4, <1>5, <1>6, <1>7, <1>8 DEF SchedulerInv

LEMMA JoinedStep == SchedulerInv /\ Joined => SchedulerInv'
<1> SUFFICES ASSUME SchedulerInv, Joined PROVE SchedulerInv'
  OBVIOUS
<1> USE DEF Joined
<1>1. Groups'
  <2>1. LifeTypes'
    BY TypeGroups DEF SchedulerInv, Groups, LifeTypes, Alive
  <2> QED BY <2>1, TypeGroups
          DEF SchedulerInv, Groups, HandleTypes, HeapTypes, WorkerTypes, CallTypes, GhostTypes,
              handleVars, heapVars, workerVars, ghostVars
<1>2. LifeInv'
  BY DEF SchedulerInv, LifeInv, Alive, workerVars
<1>3. Quiet
  BY DEF Quiet, SchedulerInv, HeapInv, EntriesInv, workerVars
<1> QED BY <1>1, <1>2, <1>3, TypeGroups, QuietStep

-----------------------------------------------------------------------------
(* handle.start() and handle.cancel() *)

LEMMA EnsureStartedStep ==
    ASSUME SchedulerInv, NEW h \in Handles, EnsureStarted(h)
    PROVE  SchedulerInv'
<1> USE DEF EnsureStarted
<1>1. Groups'
  BY TypeGroups DEF SchedulerInv, Groups, HandleTypes, HeapTypes, LifeTypes, WorkerTypes, CallTypes,
         GhostTypes, handleVars, heapVars, lifeVars, workerVars, ghostVars
<1>2. LifeInv'
  BY DEF SchedulerInv, LifeInv, lifeVars, workerVars
<1>3. Quiet
  BY DEF Quiet, SchedulerInv, HeapInv, EntriesInv, SchedulerTyped, lifeVars, workerVars
<1> QED BY <1>1, <1>2, <1>3, TypeGroups, QuietStep

LEMMA PushRefusedStep ==
    ASSUME SchedulerInv, NEW h \in Handles, PushRefused(h)
    PROVE  SchedulerInv'
<1> USE DEF PushRefused
<1>1. HandleTypes'
  BY TypeGroups DEF SchedulerInv, Groups, HandleTypes
<1>2. Groups'
  BY <1>1, TypeGroups DEF SchedulerInv, Groups, HeapTypes, LifeTypes, WorkerTypes, CallTypes,
         GhostTypes, heapVars, lifeVars, workerVars, ghostVars
<1>3. LifeInv'
  BY DEF SchedulerInv, LifeInv, lifeVars, workerVars
<1>4. order[h] = -1 /\ h \notin heap
  BY DEF SchedulerInv, HeapInv, EntriesInv
<1>5. EntriesInv'
  BY <1>4 DEF SchedulerInv, HeapInv, EntriesInv, SchedulerTyped, heapVars
<1>6. (CountersExact /\ HeapHoldsScheduled)'
  BY DEF SchedulerInv, HeapInv, CountersExact, HeapHoldsScheduled, Scheduled, heapVars
<1>7. (GenerationInv /\ GenerationsDoNotMix /\ JobsInv)'
  BY DEF SchedulerInv, GenerationInv, GenerationsDoNotMix, JobsInv, lifeVars, workerVars, ghostVars
<1> QED BY <1>2, <1>3, <1>5, <1>6, <1>7, TypeGroups DEF SchedulerInv, HeapInv

LEMMA PushStep ==
    ASSUME SchedulerInv, NEW h \in Handles, NEW interval \in Intervals, Push(h, interval)
    PROVE  SchedulerInv'
<1> USE DEF Push
<1>1. now + interval \in Nat /\ sequence \in Nat /\ generation \in Nat
  BY SchedulerAssumption DEF SchedulerInv, SchedulerTyped
<1>2. HandleTypes' /\ HeapTypes'
  BY <1>1, TypeGroups DEF SchedulerInv, Groups, HandleTypes, HeapTypes, States
<1>3. WorkerTypes'
  BY WokenType, TypeGroups DEF SchedulerInv, Groups, WorkerTypes
<1>4. LifeTypes' /\ CallTypes' /\ GhostTypes'
  BY <1>1, TypeGroups DEF SchedulerInv, Groups, LifeTypes, CallTypes, GhostTypes, lifeVars
<1>5. SchedulerTyped'
  BY <1>2, <1>3, <1>4, TypeGroups DEF Groups
<1>6. LifeInv'
  BY LifeStep DEF SchedulerInv, SchedulerTyped, Woken, lifeVars
<1>7. h \notin heap /\ h \notin Scheduled
  BY DEF SchedulerInv, HeapInv, EntriesInv, Scheduled
<1>8. EntriesInv'
  BY <1>1, <1>7 DEF SchedulerInv, HeapInv, EntriesInv, SchedulerTyped
<1>9. Scheduled' = Scheduled \cup {h} /\ heap' \ Scheduled' = heap \ Scheduled
  BY <1>7 DEF SchedulerInv, SchedulerTyped, Scheduled
<1>10. Cardinality(Scheduled \cup {h}) = Cardinality(Scheduled) + 1 /\ Cardinality(Scheduled) \in Nat
  BY <1>7, Sizes, FS_AddElement DEF Scheduled
<1>11. (CountersExact /\ HeapHoldsScheduled)'
  BY <1>9, <1>10, SchedulerAssumption
     DEF SchedulerInv, HeapInv, CountersExact, HeapHoldsScheduled
<1>12. (GenerationInv /\ GenerationsDoNotMix)'
  BY DEF SchedulerInv, GenerationInv, GenerationsDoNotMix, SchedulerTyped, lifeVars
<1>13. JobsInv'
  BY DEF SchedulerInv, JobsInv, SchedulerTyped
<1> QED BY <1>5, <1>6, <1>8, <1>11, <1>12, <1>13 DEF SchedulerInv, HeapInv

LEMMA CancelNewStep ==
    ASSUME SchedulerInv, NEW h \in Handles, CancelNew(h)
    PROVE  SchedulerInv'
<1> USE DEF CancelNew
<1>1. HandleTypes'
  BY TypeGroups DEF SchedulerInv, Groups, HandleTypes, States
<1>2. Groups'
  BY <1>1, TypeGroups DEF SchedulerInv, Groups, HeapTypes, LifeTypes, WorkerTypes, CallTypes,
         GhostTypes, heapVars, lifeVars, workerVars, ghostVars
<1>3. LifeInv'
  BY DEF SchedulerInv, LifeInv, lifeVars, workerVars
<1>4. Scheduled' = Scheduled
  BY DEF SchedulerInv, SchedulerTyped, Scheduled
<1>5. HeapInv'
  BY <1>4 DEF SchedulerInv, HeapInv, EntriesInv, CountersExact, HeapHoldsScheduled, SchedulerTyped, heapVars
<1>6. (GenerationInv /\ GenerationsDoNotMix /\ JobsInv)'
  BY DEF SchedulerInv, GenerationInv, GenerationsDoNotMix, JobsInv, SchedulerTyped, lifeVars, workerVars,
         ghostVars
<1> QED BY <1>2, <1>3, <1>5, <1>6, TypeGroups DEF SchedulerInv

LEMMA CancelStep ==
    ASSUME SchedulerInv, NEW h \in Handles, Cancel(h)
    PROVE  SchedulerInv'
<1> USE DEF Cancel
<1> DEFINE Compacts == dead + 1 >= CompactAt /\ 2 * (dead + 1) >= Cardinality(heap)
<1>1. HandleTypes'
  BY TypeGroups DEF SchedulerInv, Groups, HandleTypes, States
<1>2. HeapTypes'
  BY TypeGroups DEF SchedulerInv, Groups, HeapTypes
<1>3. WorkerTypes'
  BY WokenType, TypeGroups DEF SchedulerInv, Groups, WorkerTypes
<1>4. LifeTypes' /\ CallTypes' /\ GhostTypes'
  BY TypeGroups DEF SchedulerInv, Groups, LifeTypes, CallTypes, GhostTypes, lifeVars, ghostVars
<1>5. SchedulerTyped'
  BY <1>1, <1>2, <1>3, <1>4, TypeGroups DEF Groups
<1>6. LifeInv'
  BY LifeStep DEF SchedulerInv, SchedulerTyped, Woken, lifeVars
<1>7. h \in Scheduled /\ h \in heap
  BY DEF SchedulerInv, HeapInv, HeapHoldsScheduled, Scheduled
<1>8. Scheduled' = Scheduled \ {h}
  BY DEF SchedulerInv, SchedulerTyped, Scheduled
<1>9. Cardinality(Scheduled \ {h}) = Cardinality(Scheduled) - 1 /\ Cardinality(Scheduled) \in Nat
      /\ Cardinality(Scheduled \ {h}) \in Nat
  BY <1>7, Sizes, FS_RemoveElement DEF Scheduled
<1>10. heap' \in SUBSET heap /\ Scheduled \ {h} \subseteq heap'
  BY <1>7 DEF SchedulerInv, HeapInv, HeapHoldsScheduled
<1>11. EntriesInv'
  BY <1>10 DEF SchedulerInv, HeapInv, EntriesInv, SchedulerTyped
<1>12. dead' = Cardinality(heap' \ Scheduled')
  <2>1. CASE Compacts
    <3>1. heap' \ Scheduled' = {} /\ dead' = 0
      BY <1>8, <2>1
    <3> QED BY <3>1, FS_EmptySet
  <2>2. CASE ~Compacts
    <3>1. heap' \ Scheduled' = (heap \ Scheduled) \cup {h} /\ dead' = dead + 1
      BY <1>7, <1>8, <2>2
    <3>2. h \notin heap \ Scheduled /\ IsFiniteSet(heap \ Scheduled)
      BY <1>7, Sizes DEF SchedulerInv, SchedulerTyped
    <3>3. Cardinality((heap \ Scheduled) \cup {h}) = Cardinality(heap \ Scheduled) + 1
      BY <3>2, FS_AddElement
    <3> QED BY <3>1, <3>3 DEF SchedulerInv, HeapInv, CountersExact
  <2> QED BY <2>1, <2>2
<1>13. CountersExact' /\ HeapHoldsScheduled'
  BY <1>8, <1>9, <1>10, <1>12, SchedulerAssumption
     DEF SchedulerInv, HeapInv, CountersExact, HeapHoldsScheduled
<1>14. (GenerationInv /\ GenerationsDoNotMix /\ JobsInv)'
  BY DEF SchedulerInv, GenerationInv, GenerationsDoNotMix, JobsInv, SchedulerTyped, lifeVars, ghostVars
<1> QED BY <1>5, <1>6, <1>11, <1>13, <1>14 DEF SchedulerInv, HeapInv

-----------------------------------------------------------------------------
(* The workers *)

\* A part of the heap that holds everything scheduled keeps the counters exact
\* when the count goes down by what is dropped.
LEMMA DropStep ==
    ASSUME SchedulerInv, NEW D \in SUBSET (heap \ Scheduled)
    PROVE  Less(dead, Cardinality(D)) = Cardinality((heap \ D) \ Scheduled)
<1>1. (heap \ D) \ Scheduled = (heap \ Scheduled) \ D
  OBVIOUS
<1>2. heap \ Scheduled \in SUBSET Handles
  BY DEF SchedulerInv, SchedulerTyped
<1> QED BY <1>1, <1>2, Fewer DEF SchedulerInv, HeapInv, CountersExact

LEMMA LeaveStep ==
    ASSUME SchedulerInv, NEW w \in Workers, Leave(w)
    PROVE  SchedulerInv'
<1> USE DEF Leave
<1>1. heap' \in SUBSET heap /\ (heap' # heap => heap' = {} /\ Scheduled = {})
  <2>1. heap = Discarded(heap) => Scheduled = {}
    BY DiscardedIsDead DEF SchedulerInv, SchedulerTyped, HeapInv, HeapHoldsScheduled
  <2> QED BY <2>1
<1>2. Scheduled' = Scheduled
  BY DEF Scheduled, handleVars
<1>3. dead' = Cardinality(heap' \ Scheduled')
  <2>1. CASE w[1] # generation
    BY <1>2, <2>1 DEF SchedulerInv, HeapInv, CountersExact
  <2>2. CASE w[1] = generation
    <3>1. Scheduled = {} /\ heap' = {} /\ dead' = Less(dead, Cardinality(heap))
      BY <2>2, DiscardedIsDead DEF SchedulerInv, SchedulerTyped, HeapInv, HeapHoldsScheduled
    <3>2. heap \in SUBSET (heap \ Scheduled) /\ (heap \ heap) \ Scheduled = heap' \ Scheduled'
      BY <1>2, <3>1
    <3> QED BY <3>1, <3>2, DropStep
  <2> QED BY <2>1, <2>2
<1>4. HeapTypes'
  <2>1. heap' \in SUBSET Handles /\ Cardinality(heap' \ Scheduled') \in Nat
    BY <1>1, Sizes DEF SchedulerInv, SchedulerTyped
  <2> QED BY <1>3, <2>1, TypeGroups DEF SchedulerInv, Groups, HeapTypes
<1>5. Groups'
  BY <1>4, TypeGroups
     DEF SchedulerInv, Groups, HandleTypes, LifeTypes, WorkerTypes, CallTypes, GhostTypes, Places,
         handleVars, lifeVars, ghostVars
<1>6. LifeInv'
  BY DEF SchedulerInv, LifeInv, SchedulerTyped, lifeVars
<1>7. HeapInv'
  BY <1>1, <1>2, <1>3 DEF SchedulerInv, HeapInv, EntriesInv, CountersExact, HeapHoldsScheduled,
         handleVars
<1>8. (GenerationInv /\ GenerationsDoNotMix /\ JobsInv)'
  BY DEF SchedulerInv, GenerationInv, GenerationsDoNotMix, JobsInv, handleVars, lifeVars, ghostVars
<1> QED BY <1>5, <1>6, <1>7, <1>8, TypeGroups DEF SchedulerInv

LEMMA WaitStep ==
    ASSUME SchedulerInv, NEW w \in Workers, Wait(w)
    PROVE  SchedulerInv'
<1> USE DEF Wait
<1>1. Discarded(heap) \in SUBSET (heap \ Scheduled)
  BY DiscardedIsDead DEF SchedulerInv, SchedulerTyped
<1>2. Scheduled' = Scheduled /\ heap' = heap \ Discarded(heap)
  BY DEF Scheduled, handleVars
<1>3. dead' = Cardinality(heap' \ Scheduled')
  BY <1>1, <1>2, DropStep
<1>4. HeapTypes'
  <2>1. heap' \in SUBSET Handles /\ Cardinality(heap' \ Scheduled') \in Nat
    BY <1>2, Sizes DEF SchedulerInv, SchedulerTyped
  <2> QED BY <1>3, <2>1, TypeGroups DEF SchedulerInv, Groups, HeapTypes
<1>5. WorkerTypes'
  BY TypeGroups DEF SchedulerInv, Groups, WorkerTypes, HandleTypes, HeapTypes, Places, Heads
<1>6. SchedulerTyped'
  BY <1>4, <1>5, TypeGroups
     DEF SchedulerInv, Groups, HandleTypes, LifeTypes, CallTypes, GhostTypes, handleVars, lifeVars,
         ghostVars
<1>7. LifeInv'
  BY LifeStep DEF SchedulerInv, SchedulerTyped, lifeVars
<1>8. HeapInv'
  BY <1>1, <1>2, <1>3 DEF SchedulerInv, HeapInv, EntriesInv, CountersExact, HeapHoldsScheduled,
         handleVars
<1>9. (GenerationInv /\ GenerationsDoNotMix /\ JobsInv)'
  BY DEF SchedulerInv, GenerationInv, GenerationsDoNotMix, JobsInv, handleVars, lifeVars, ghostVars
<1> QED BY <1>6, <1>7, <1>8, <1>9 DEF SchedulerInv

LEMMA TakeDueStep ==
    ASSUME SchedulerInv, NEW w \in Workers, NEW h \in Handles, TakeDue(w, h)
    PROVE  SchedulerInv'
<1> DEFINE live == heap \ Discarded(heap)
           rest == (live \ {h}) \ Discarded(live \ {h})
           D    == heap \ (rest \cup {h})
<1> USE DEF TakeDue
<1>1. h \in heap /\ st[h] = "scheduled"
  BY HeadIsLive DEF SchedulerInv, HeapInv
<1>2. Discarded(heap) \in SUBSET heap /\ Discarded(heap) \cap Scheduled = {}
  BY DiscardedIsDead DEF SchedulerInv, SchedulerTyped
<1>3. Discarded(live \ {h}) \in SUBSET (live \ {h}) /\ Discarded(live \ {h}) \cap Scheduled = {}
  BY DiscardedIsDead DEF SchedulerInv, SchedulerTyped
<1>4. rest \in SUBSET heap /\ h \notin rest /\ Scheduled \ {h} \subseteq rest
  BY <1>2, <1>3 DEF SchedulerInv, HeapInv, HeapHoldsScheduled
<1>5. heap' = rest /\ dead' = Less(dead, Cardinality(D))
  OBVIOUS
<1>6. Scheduled' = Scheduled \ {h}
  BY <1>1 DEF SchedulerInv, SchedulerTyped, Scheduled
<1> HIDE DEF live, rest
<1>7. Cardinality(Scheduled \ {h}) = Cardinality(Scheduled) - 1 /\ Cardinality(Scheduled) \in Nat
      /\ Cardinality(Scheduled \ {h}) \in Nat
  BY <1>1, Sizes, FS_RemoveElement DEF Scheduled
<1>8. dead' = Cardinality(heap' \ Scheduled')
  <2>1. h \in Scheduled
    BY <1>1 DEF Scheduled
  <2>2. D \in SUBSET (heap \ Scheduled) /\ (heap \ D) \ Scheduled = heap' \ Scheduled'
    BY <1>1, <1>4, <1>5, <1>6, <2>1
  <2> QED BY <1>5, <2>2, DropStep
<1>9. HandleTypes'
  BY TypeGroups DEF SchedulerInv, Groups, HandleTypes, States
<1>10. HeapTypes'
  <2>1. heap' \in SUBSET Handles /\ Cardinality(heap' \ Scheduled') \in Nat
    BY <1>4, <1>5, Sizes DEF SchedulerInv, SchedulerTyped
  <2> QED BY <1>8, <2>1, TypeGroups DEF SchedulerInv, Groups, HeapTypes
<1>11. WorkerTypes'
  BY WokenType, TypeGroups DEF SchedulerInv, Groups, WorkerTypes, Places
<1>12. GhostTypes'
  BY TypeGroups DEF SchedulerInv, Groups, GhostTypes, LifeTypes
<1>13. SchedulerTyped'
  BY <1>9, <1>10, <1>11, <1>12, TypeGroups DEF SchedulerInv, Groups, LifeTypes, CallTypes, lifeVars
<1>14. LifeInv'
  BY WokenType, LifeStep DEF SchedulerInv, SchedulerTyped, Woken, lifeVars
<1>15. EntriesInv'
  BY <1>1, <1>4, <1>5 DEF SchedulerInv, HeapInv, EntriesInv, SchedulerTyped
<1>16. (CountersExact /\ HeapHoldsScheduled)'
  <2>1. pending' = Cardinality(Scheduled')
    BY <1>6, <1>7 DEF SchedulerInv, HeapInv, CountersExact
  <2>2. Scheduled' \subseteq heap'
    BY <1>4, <1>5, <1>6
  <2>3. Cardinality(Scheduled) <= MaxPending /\ MaxPending \in Nat
    BY SchedulerAssumption DEF SchedulerInv, HeapInv, HeapHoldsScheduled
  <2>4. Cardinality(Scheduled') <= MaxPending
    BY <1>6, <1>7, <2>3
  <2> QED BY <1>8, <2>1, <2>2, <2>4 DEF CountersExact, HeapHoldsScheduled
<1>17. (GenerationInv /\ GenerationsDoNotMix)'
  BY <1>1 DEF SchedulerInv, GenerationInv, GenerationsDoNotMix, SchedulerTyped, lifeVars
<1>18. JobsInv'
  <2>1. \A v \in Workers : h \notin task[v]
    BY <1>1 DEF SchedulerInv, JobsInv
  <2>2. \A v \in Workers : task'[v] = IF v = w THEN {h} ELSE task[v]
    BY DEF SchedulerInv, SchedulerTyped
  <2>3. \A g \in Handles : st'[g] = IF g = h THEN "running" ELSE st[g]
    BY DEF SchedulerInv, SchedulerTyped
  <2>4. \A v \in Workers : task[v] \in SUBSET Handles
    BY DEF SchedulerInv, SchedulerTyped
  <2>5. \A v \in Workers : \A g \in task'[v] : st'[g] = "running"
    BY <2>1, <2>2, <2>3, <2>4 DEF SchedulerInv, JobsInv
  <2>6. \A u, v \in Workers : u # v => task'[u] \cap task'[v] = {}
    BY <2>1, <2>2 DEF SchedulerInv, JobsInv
  <2>7. \A g \in finished' : st'[g] \in {"finished", "cancelled"}
    BY <1>1, <2>3 DEF SchedulerInv, JobsInv, SchedulerTyped
  <2> QED BY <2>5, <2>6, <2>7 DEF JobsInv
<1> QED BY <1>13, <1>14, <1>15, <1>16, <1>17, <1>18 DEF SchedulerInv, HeapInv

LEMMA FinishStep ==
    ASSUME SchedulerInv, NEW w \in Workers, Finish(w)
    PROVE  SchedulerInv'
<1> USE DEF Finish
<1>1. task[w] \in SUBSET Handles /\ \A h \in task[w] : st[h] = "running"
  BY DEF SchedulerInv, SchedulerTyped, JobsInv
<1>2. HandleTypes'
  BY <1>1, TypeGroups DEF SchedulerInv, Groups, HandleTypes, States
<1>3. WorkerTypes'
  BY WokenType, TypeGroups DEF SchedulerInv, Groups, WorkerTypes, Places
<1>4. SchedulerTyped'
  BY <1>2, <1>3, TypeGroups
     DEF SchedulerInv, Groups, HeapTypes, LifeTypes, CallTypes, GhostTypes, heapVars, lifeVars, ghostVars
<1>5. LifeInv'
  BY WokenType, LifeStep DEF SchedulerInv, SchedulerTyped, Woken, lifeVars
<1>6. Scheduled' = Scheduled
  BY <1>1 DEF SchedulerInv, SchedulerTyped, Scheduled
<1>7. HeapInv'
  BY <1>1, <1>6
     DEF SchedulerInv, SchedulerTyped, HeapInv, EntriesInv, CountersExact, HeapHoldsScheduled, heapVars
<1>8. (GenerationInv /\ GenerationsDoNotMix)'
  BY <1>1 DEF SchedulerInv, SchedulerTyped, GenerationInv, GenerationsDoNotMix, lifeVars, ghostVars
<1>9. JobsInv'
  <2>1. \A v \in Workers : task'[v] = IF v = w THEN {} ELSE task[v]
    BY DEF SchedulerInv, SchedulerTyped
  <2>2. \A v \in Workers : v # w => task[v] \cap task[w] = {}
    BY DEF SchedulerInv, JobsInv
  <2>3. \A h \in Handles : st'[h] = IF h \in task[w] THEN "finished" ELSE st[h]
    BY <1>1
  <2>4. \A v \in Workers : \A h \in task'[v] : st'[h] = "running"
    BY <2>1, <2>2, <2>3 DEF SchedulerInv, SchedulerTyped, JobsInv
  <2>5. \A u, v \in Workers : u # v => task'[u] \cap task'[v] = {}
    BY <2>1 DEF SchedulerInv, JobsInv
  <2>6. \A h \in finished' : st'[h] \in {"finished", "cancelled"}
    BY <1>1, <2>3 DEF SchedulerInv, SchedulerTyped, JobsInv
  <2> QED BY <2>4, <2>5, <2>6 DEF JobsInv
<1> QED BY <1>4, <1>5, <1>7, <1>8, <1>9 DEF SchedulerInv

\* A worker that ends or whose wait is over, and the clock.
LEMMA PlaceStep ==
    ASSUME SchedulerInv, \/ \E w \in Workers : Exit(w) \/ TimedOut(w)
                         \/ Tick
    PROVE  SchedulerInv'
<1> USE DEF Exit, TimedOut, Tick
<1>1. Groups'
  BY TypeGroups
     DEF SchedulerInv, Groups, HandleTypes, HeapTypes, LifeTypes, WorkerTypes, CallTypes, GhostTypes,
         Places, handleVars, heapVars, lifeVars, workerVars, ghostVars
<1>2. LifeInv'
  BY DEF SchedulerInv, LifeInv, SchedulerTyped, lifeVars, workerVars
<1>3. Quiet
  BY DEF Quiet, SchedulerInv, HeapInv, EntriesInv, lifeVars, workerVars
<1> QED BY <1>1, <1>2, <1>3, TypeGroups, QuietStep

-----------------------------------------------------------------------------
LEMMA SchedulerStep == SchedulerInv /\ [SchedulerNext]_schedulerVars => SchedulerInv'
<1> SUFFICES ASSUME SchedulerInv, [SchedulerNext]_schedulerVars PROVE SchedulerInv'
  OBVIOUS
<1>1. ASSUME NEW w \in Workers, WorkerStep(w) PROVE SchedulerInv'
  BY <1>1, LeaveStep, WaitStep, FinishStep, TakeDueStep, PlaceStep DEF WorkerStep
<1>2. ASSUME NEW h \in Handles, EnsureStarted(h) \/ CallStep(h) \/ CancelNew(h) \/ Cancel(h)
      PROVE  SchedulerInv'
  BY <1>2, EnsureStartedStep, StartForStep, PushRefusedStep, PushStep, CancelNewStep, CancelStep
     DEF CallStep
<1>3. ASSUME NEW cancel \in BOOLEAN, Shutdown(cancel) PROVE SchedulerInv'
  BY <1>3, ShutdownStep
<1>4. CASE UNCHANGED schedulerVars
  <2>1. Groups' /\ LifeInv' /\ Quiet
    BY <1>4, TypeGroups
       DEF SchedulerInv, Groups, HandleTypes, HeapTypes, LifeTypes, WorkerTypes, CallTypes, GhostTypes,
           LifeInv, Quiet, HeapInv, EntriesInv, schedulerVars, handleVars, heapVars, lifeVars, workerVars,
           ghostVars
  <2> QED BY <2>1, TypeGroups, QuietStep
<1> QED BY <1>1, <1>2, <1>3, <1>4, StartStep, JoinedStep, PlaceStep DEF SchedulerNext

LEMMA SchedulerAlways == Scheduler => []SchedulerInv
BY SchedulerInitInv, SchedulerStep, PTL DEF Scheduler

\* The types of the whole state, whatever is started, cancelled and shut down.
THEOREM SchedulerTypes == Scheduler => []SchedulerTyped
<1>1. SchedulerInv => SchedulerTyped
  BY DEF SchedulerInv
<1> QED BY <1>1, SchedulerAlways, PTL

\* The count of what is scheduled and the count of the dead entries are those of the
\* heap after every cancel, compaction, discard, shutdown and restart.
THEOREM CountersAreExact == Scheduler => []CountersExact
<1>1. SchedulerInv => CountersExact
  BY DEF SchedulerInv, HeapInv
<1> QED BY <1>1, SchedulerAlways, PTL

\* Everything scheduled has its entry in the heap, and there is no more of it than
\* max_pending.
THEOREM ScheduledIsInHeap == Scheduler => []HeapHoldsScheduled
<1>1. SchedulerInv => HeapHoldsScheduled
  BY DEF SchedulerInv, HeapInv
<1> QED BY <1>1, SchedulerAlways, PTL

\* A callback runs at most once, and on a worker of the generation in which its
\* handle was scheduled.
THEOREM GenerationsAreKeptApart == Scheduler => []GenerationsDoNotMix
<1>1. SchedulerInv => GenerationsDoNotMix
  BY DEF SchedulerInv
<1> QED BY <1>1, SchedulerAlways, PTL

\* Whoever join() has released never begins again: a handle that was cancelled in
\* time does not run, and one that has run is not run a second time.
THEOREM EndsOnce == Scheduler => EndIsFinal
<1> DEFINE Ends == \A h \in finished : h \in finished' /\ st[h] \in {"finished", "cancelled"}
                            /\ st'[h] = st[h] /\ ranIn'[h] = ranIn[h]
<1>1. SchedulerInv /\ [SchedulerNext]_schedulerVars => Ends
  <2> SUFFICES ASSUME SchedulerInv, [SchedulerNext]_schedulerVars, NEW h \in finished
               PROVE  h \in finished' /\ st[h] \in {"finished", "cancelled"}
                        /\ st'[h] = st[h] /\ ranIn'[h] = ranIn[h]
    OBVIOUS
  <2>1. h \in Handles /\ st[h] \in {"finished", "cancelled"} /\ st \in [Handles -> States]
        /\ ranIn \in [Handles -> SUBSET Nat]
    BY DEF SchedulerInv, JobsInv, SchedulerTyped
  <2>2. ASSUME NEW w \in Workers, WorkerStep(w)
        PROVE  h \in finished' /\ st'[h] = st[h] /\ ranIn'[h] = ranIn[h]
    <3>1. ASSUME NEW g \in Handles, TakeDue(w, g) PROVE g # h
      BY <2>1, <3>1, HeadIsLive DEF TakeDue, SchedulerInv, HeapInv
    <3> QED BY <2>1, <2>2, <3>1
            DEF WorkerStep, Leave, Exit, Wait, Finish, TimedOut, TakeDue, handleVars, ghostVars
  <2>3. ASSUME NEW g \in Handles, EnsureStarted(g) \/ CallStep(g) \/ CancelNew(g) \/ Cancel(g)
        PROVE  h \in finished' /\ st'[h] = st[h] /\ ranIn'[h] = ranIn[h]
    BY <2>1, <2>3 DEF EnsureStarted, CallStep, StartFor, PushRefused, Push, CancelNew, Cancel,
                      handleVars, ghostVars
  <2>4. CASE Start \/ Joined \/ Tick \/ UNCHANGED schedulerVars
    <3>1. UNCHANGED <<handleVars, ghostVars>>
      BY <2>4 DEF Start, Joined, Tick, schedulerVars
    <3> QED BY <2>1, <3>1 DEF handleVars, ghostVars
  <2>5. ASSUME NEW cancel \in BOOLEAN, Shutdown(cancel)
        PROVE  h \in finished' /\ st'[h] = st[h] /\ ranIn'[h] = ranIn[h]
    BY <2>1, <2>5 DEF Shutdown, Scheduled, ghostVars
  <2> QED BY <2>1, <2>2, <2>3, <2>4, <2>5 DEF SchedulerNext
<1> QED BY <1>1, SchedulerAlways, PTL DEF Scheduler, EndIsFinal
=============================================================================
