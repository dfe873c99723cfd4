-------------------------- MODULE MatchMakingProofs --------------------------
(***************************************************************************)
(* For any number of players, matches, workers, connections and rounds: a  *)
(* match that has ended keeps its end and its winner, no round is won      *)
(* twice, and nobody is paid twice, although the timers, the kills, the    *)
(* arrivals and the departures that lead there decide under a lock and act *)
(* after it.                                                               *)
(***************************************************************************)
EXTENDS MatchMaking, TLAPS

JobsInv == \A a \in Actors : job[a].op \in MatchOps => job[a].m \in Matches

\* Whoever is about to finish a match does it because it has been decided.
FinalInv ==
    /\ \A m \in Matches : "over" \in timers[m] => phase[m] = "over"
    /\ \A a \in Actors :
         job[a].op = "over" \/ (job[a].op = "publish" /\ job[a].flag) => phase[job[a].m] = "over"

\* A running round is still to be won.
RoundsInv ==
    \A m \in Matches : \A p, q \in Players :
        p # q => won[m][p] + won[m][q] + (IF phase[m] = "running" THEN 1 ELSE 0) <= started[m]

\* One thread pays, and whom it has left is not paid.
Paying(a, m) == job[a].op = "pay" /\ job[a].flag /\ job[a].m = m
PayInv ==
    \A m \in Matches :
        /\ ~ settled[m] => \A p \in Players : paid[m][p] = 0
        /\ \A p \in Players : paid[m][p] <= 1
        /\ \A a \in Actors : Paying(a, m) => settled[m] /\ \A p \in job[a].todo : paid[m][p] = 0
        /\ \A a, b \in Actors : Paying(a, m) /\ Paying(b, m) => a = b

MatchInv == TypeOK /\ JobsInv /\ FinalInv /\ RoundsInv /\ PayInv

PlaceNames == {"away", "hub", "travelling", "loading", "arena", "cut"}
PlayerTypes ==
    /\ place \in [Players -> PlaceNames] /\ number \in [Players -> Nat]
    /\ bound \in [Players -> Matches \cup {0}] /\ queue \in [Players -> Nat]
    /\ cuts \in Nat
PhaseTypes ==
    /\ phase \in [Matches -> Phases] /\ winner \in [Matches -> Players \cup {None}]
    /\ settled \in [Matches -> BOOLEAN] /\ started \in [Matches -> Nat]
SeatTypes ==
    /\ seats \in [Matches -> SUBSET Players] /\ entry \in [Matches -> [Players -> Entries]]
    /\ won \in [Matches -> [Players -> Nat]]
ClockTypes == timers \in [Matches -> SUBSET Keys] /\ generation \in [Matches -> Nat]
PaidTypes == registered \subseteq Matches /\ paid \in [Matches -> [Players -> Nat]]
JobTypes == job \in [Actors -> Jobs]

Groups == PlayerTypes /\ PhaseTypes /\ SeatTypes /\ ClockTypes /\ PaidTypes /\ JobTypes

LEMMA TypeGroups == (TypeOK <=> Groups) /\ (TypeOK' <=> Groups')
BY Zenon DEF Groups, TypeOK, PlaceNames, PlayerTypes, PhaseTypes, SeatTypes, ClockTypes, PaidTypes, JobTypes

-----------------------------------------------------------------------------
(* The job of a thread after a step. *)

LEMMA EndJob ==
    ASSUME JobTypes, JobsInv, NEW a \in Actors, End(a)
    PROVE  JobTypes' /\ JobsInv'
<1>1. Idle \in Jobs
  BY DEF Idle, Jobs, Ops
<1>2. Idle.op \notin MatchOps
  BY DEF Idle, MatchOps, Keys
<1> QED BY <1>1, <1>2 DEF JobTypes, JobsInv, End

LEMMA GotoJob ==
    ASSUME JobTypes, JobsInv, NEW a \in Actors, NEW op \in Ops, Goto(a, op),
           op \in MatchOps => job[a].m \in Matches
    PROVE  JobTypes' /\ JobsInv'
BY DEF JobTypes, Jobs, JobsInv, Goto

LEMMA BeginJob ==
    ASSUME JobTypes, JobsInv, NEW a \in Actors, NEW op \in Ops,
           NEW m \in Matches \cup {0}, NEW p \in Players \cup {None}, Begin(a, op, m, p),
           op \in MatchOps => m \in Matches
    PROVE  JobTypes' /\ JobsInv'
BY DEF JobTypes, Jobs, JobsInv, Begin, Idle

\* A step inside a loop.
LEMMA LoopJob ==
    ASSUME JobTypes, JobsInv, NEW a \in Actors, NEW op \in Ops, NEW todo \in SUBSET Players,
           job' = [job EXCEPT ![a].op = op, ![a].todo = todo],
           op \in MatchOps => job[a].m \in Matches
    PROVE  JobTypes' /\ JobsInv'
<1> DEFINE r == [job[a] EXCEPT !.op = op, !.todo = todo]
<1>1. job' = [job EXCEPT ![a] = r]
  OBVIOUS
<1>2. r \in Jobs /\ r.op = op /\ r.m = job[a].m
  BY DEF JobTypes, Jobs
<1> HIDE DEF r
<1> QED BY <1>1, <1>2 DEF JobTypes, JobsInv

\* Any other change of one job.
LEMMA SetJob ==
    ASSUME JobTypes, JobsInv, NEW a \in Actors, NEW r \in Jobs, job' = [job EXCEPT ![a] = r],
           r.op \in MatchOps => r.m \in Matches
    PROVE  JobTypes' /\ JobsInv'
BY DEF JobTypes, JobsInv

\* Whoever works for a match has one.
LEMMA AtMatch ==
    ASSUME JobTypes, JobsInv, NEW a \in Actors
    PROVE  job[a] \in Jobs /\ (job[a].op \in MatchOps => job[a].m \in Matches)
BY DEF JobTypes, JobsInv

-----------------------------------------------------------------------------
(* Types, action by action. *)

Typed == TypeOK /\ JobsInv
JobTyped == JobTypes /\ JobsInv

LEMMA Regroup ==
    /\ Typed <=> PlayerTypes /\ PhaseTypes /\ SeatTypes /\ ClockTypes /\ PaidTypes /\ JobTyped
    /\ Typed' <=> PlayerTypes' /\ PhaseTypes' /\ SeatTypes' /\ ClockTypes' /\ PaidTypes' /\ JobTyped'
BY Zenon, TypeGroups DEF Typed, JobTyped, Groups

\* What a step leaves alone keeps its types.
LEMMA SamePlayers == PlayerTypes /\ UNCHANGED players => PlayerTypes'
BY DEF PlayerTypes, players
LEMMA SameMatch == PhaseTypes /\ SeatTypes /\ UNCHANGED match => PhaseTypes' /\ SeatTypes'
BY DEF PhaseTypes, SeatTypes, match
LEMMA SamePhase == PhaseTypes /\ UNCHANGED <<phase, winner, settled, started>> => PhaseTypes'
BY DEF PhaseTypes
LEMMA SameSeats == SeatTypes /\ UNCHANGED <<seats, entry, won>> => SeatTypes'
BY DEF SeatTypes
LEMMA SameClock == ClockTypes /\ UNCHANGED clock => ClockTypes'
BY DEF ClockTypes, clock
LEMMA SamePaid == PaidTypes /\ UNCHANGED <<registered, paid>> => PaidTypes'
BY DEF PaidTypes
LEMMA SameJob == JobTyped /\ UNCHANGED job => JobTyped'
BY DEF JobTyped, JobTypes, JobsInv

\* A timer is armed, all timers are cancelled.
LEMMA ArmType ==
    ASSUME ClockTypes, NEW m, NEW key \in Keys, Arm(m, key)
    PROVE  ClockTypes'
BY DEF ClockTypes, Arm
LEMMA CancelTimersType ==
    ASSUME ClockTypes, NEW m \in Matches, CancelTimers(m)
    PROVE  ClockTypes'
BY DEF ClockTypes, CancelTimers

\* Whoever is on the move comes from, and gets to, one of the places, and sits
\* on a session of his own.
LEMMA ClientTypes ==
    ASSUME Typed, NEW p \in Players,
           Connect(p) \/ Join(p) \/ Abort(p) \/ Leave(p) \/ Cut(p)
    PROVE  Typed'
<1>1. PhaseTypes' /\ SeatTypes' /\ ClockTypes' /\ PaidTypes'
  BY Regroup, SameMatch, SameClock, SamePaid DEF Connect, Join, Abort, Leave, Cut
<1>2. PlayerTypes'
  BY Regroup, MatchesAssumption
     DEF PlayerTypes, PlaceNames, players, Connect, Join, Abort, Leave, Cut
<1>3. JobTyped'
  <2>1. CASE Connect(p) \/ Abort(p) \/ Cut(p)
    BY <2>1, Regroup, SameJob DEF Connect, Abort, Cut
  <2>2. CASE Join(p)
    BY <2>2, Regroup, BeginJob DEF Join, JobTyped, Ops, MatchOps, Keys, Actors
  <2>3. CASE Leave(p)
    <3>1. bound[p] \in Matches
      BY <2>3, Regroup DEF Leave, PlayerTypes
    <3> QED BY <2>3, <3>1, Regroup, BeginJob DEF Leave, JobTyped, Ops, MatchOps, Actors
  <2> QED BY <2>1, <2>2, <2>3
<1> QED BY <1>1, <1>2, <1>3, Regroup

LEMMA EnqueueTypes ==
    ASSUME Typed, NEW a \in Actors, Enqueue(a)
    PROVE  Typed'
<1>1. PhaseTypes' /\ SeatTypes' /\ ClockTypes' /\ PaidTypes'
  BY Regroup, SameMatch, SameClock, SamePaid DEF Enqueue
<1>2. PlayerTypes'
  BY Regroup, MatchesAssumption DEF PlayerTypes, Enqueue
<1>3. JobTyped'
  BY Regroup, GotoJob DEF Enqueue, JobTyped, Ops, MatchOps, Keys
<1> QED BY <1>1, <1>2, <1>3, Regroup

LEMMA FormTypes ==
    ASSUME Typed, NEW a \in Actors, Form(a)
    PROVE  Typed'
<1>1. PICK m \in NextMatch, pair \in SUBSET Queued : Form(a)!2!(m, pair)
  BY DEF Form
<1>2. m \in Matches /\ pair \in SUBSET Players
  BY <1>1 DEF NextMatch, Queued
<1>3. PlayerTypes'
  BY <1>1, Regroup, MatchesAssumption DEF PlayerTypes, Form
<1>4. PhaseTypes'
  BY <1>1, Regroup DEF PhaseTypes, Form, Phases
<1>5. SeatTypes'
  <2>1. Vacant \in Entries
    BY MatchesAssumption DEF Vacant, Entries
  <2>2. \A p \in Players : [Vacant EXCEPT !.session = queue[p]] \in Entries
    BY <2>1, Regroup DEF Entries, PlayerTypes
  <2> QED BY <1>1, <1>2, <2>1, <2>2, Regroup DEF SeatTypes, Form
<1>6. ClockTypes' /\ PaidTypes'
  BY <1>1, <1>2, Regroup, SameClock DEF Form, PaidTypes
<1>7. JobTyped'
  <2> DEFINE r == [job[a] EXCEPT !.op = "invite", !.m = m, !.todo = pair]
  <2>1. job' = [job EXCEPT ![a] = r]
    BY <1>1
  <2>2. "invite" \in Ops /\ job[a] \in Jobs
    BY Regroup DEF JobTyped, JobTypes, Ops, MatchOps
  <2>3. r \in Jobs /\ r.m = m
    BY <1>2, <2>2 DEF Jobs
  <2> HIDE DEF r
  <2> QED BY <1>2, <2>1, <2>3, Regroup DEF JobTyped, JobTypes, JobsInv
<1> QED BY <1>3, <1>4, <1>5, <1>6, <1>7, Regroup

\* Steps that change a job alone, or a job and the clock.
LEMMA JobOnlyTypes ==
    ASSUME Typed, NEW a \in Actors, TooFew(a) \/ TransferFails(a)
    PROVE  Typed'
<1>1. PlayerTypes' /\ PhaseTypes' /\ SeatTypes' /\ ClockTypes' /\ PaidTypes'
  BY Regroup, SamePlayers, SameMatch, SameClock, SamePaid DEF TooFew, TransferFails
<1>2. JobTyped'
  <2>1. CASE TooFew(a)
    BY <2>1, Regroup, EndJob DEF TooFew, JobTyped
  <2>2. CASE TransferFails(a)
    <3>1. job[a].m \in Matches /\ "cancel" \in Ops
      BY <2>2, Regroup DEF TransferFails, JobTyped, JobsInv, At, Ops, MatchOps
    <3>2. job' = [job EXCEPT ![a].op = "cancel", ![a].todo = {}]
      BY <2>2 DEF TransferFails
    <3> QED BY <3>1, <3>2, Regroup, LoopJob DEF JobTyped
  <2> QED BY <2>1, <2>2
<1> QED BY <1>1, <1>2, Regroup

LEMMA InviteTypes ==
    ASSUME Typed, NEW a \in Actors, Invite(a)
    PROVE  Typed'
<1>1. PICK p \in job[a].todo : Invite(a)!2!(p)
  BY DEF Invite
<1>2. job[a] \in Jobs /\ job[a].op = "invite" /\ job[a].m \in Matches /\ "arm accept" \in Ops
  BY Regroup, AtMatch DEF JobTyped, Invite, At, Ops, MatchOps
<1>3. p \in Players
  BY <1>1, <1>2 DEF Jobs
<1>4. PhaseTypes' /\ SeatTypes' /\ ClockTypes' /\ PaidTypes'
  BY Regroup, SameMatch, SameClock, SamePaid DEF Invite
<1>5. PlayerTypes'
  BY <1>1, <1>2, <1>3, Regroup DEF PlayerTypes, Invite
<1>6. JobTyped'
  <2> DEFINE r == [job[a] EXCEPT !.todo = @ \ {p},
                                 !.op = IF job[a].todo = {p} THEN "arm accept" ELSE @]
  <2>1. job' = [job EXCEPT ![a] = r]
    BY <1>1
  <2>2. r \in Jobs /\ r.m = job[a].m
    BY <1>2 DEF Jobs
  <2> HIDE DEF r
  <2> QED BY <1>2, <2>1, <2>2, Regroup, SetJob DEF JobTyped
<1> QED BY <1>4, <1>5, <1>6, Regroup

\* Steps that arm or cancel timers and go on or end.
LEMMA ClockTypesKept ==
    ASSUME Typed, NEW a \in Actors,
           ArmAccept(a) \/ CancelClock(a) \/ ArmLoad(a) \/ RoundClock(a) \/ ArmCountdown(a)
             \/ ArmRound(a) \/ Publish(a)
    PROVE  Typed'
<1>1. PlayerTypes' /\ PhaseTypes' /\ SeatTypes' /\ PaidTypes'
  BY Regroup, SamePlayers, SameMatch, SamePaid
     DEF ArmAccept, CancelClock, ArmLoad, RoundClock, ArmCountdown, ArmRound, Publish
<1>2. job[a] \in Jobs /\ job[a].m \in Matches
  BY Regroup, AtMatch
     DEF JobTyped, At, MatchOps,
         ArmAccept, CancelClock, ArmLoad, RoundClock, ArmCountdown, ArmRound, Publish
<1>3. CASE CancelClock(a) \/ RoundClock(a)
  <2>1. ClockTypes'
    BY <1>2, <1>3, Regroup, CancelTimersType DEF CancelClock, RoundClock
  <2>2. JobTyped'
    <3>1. "cancel phase" \in Ops /\ "arm countdown" \in Ops
      BY DEF Ops, MatchOps
    <3> QED BY <1>2, <1>3, <3>1, Regroup, GotoJob DEF CancelClock, RoundClock, JobTyped
  <2> QED BY <1>1, <2>1, <2>2, Regroup
<1>4. CASE ArmAccept(a) \/ ArmLoad(a) \/ ArmCountdown(a) \/ ArmRound(a) \/ Publish(a)
  <2>1. End(a) /\ \E key \in Keys : Arm(job[a].m, key)
    BY <1>4 DEF ArmAccept, ArmLoad, ArmCountdown, ArmRound, Publish, Keys
  <2>2. ClockTypes'
    BY <2>1, Regroup, ArmType
  <2> QED BY <1>1, <2>1, <2>2, Regroup, EndJob DEF JobTyped
<1> QED BY <1>3, <1>4

LEMMA RespondTypes ==
    ASSUME Typed, NEW p \in Players, NEW accepted \in BOOLEAN, Respond(p, accepted)
    PROVE  Typed'
<1> DEFINE answered(m) == [entry[m] EXCEPT ![p].session = number[p],
                                           ![p].answer = IF accepted THEN "yes" ELSE "no"]
<1>1. PICK m \in MatchesOf(p) : Respond(p, accepted)!3!(m)
  BY DEF Respond
<1>2. m \in Matches
  BY Regroup DEF MatchesOf, Held, PaidTypes
<1>3. PlayerTypes' /\ PhaseTypes' /\ ClockTypes' /\ PaidTypes'
  BY Regroup, SamePlayers, SamePhase, SameClock, SamePaid DEF Respond
<1>4. SeatTypes'
  <2>1. number[p] \in Nat /\ entry[m] \in [Players -> Entries]
    BY <1>2, Regroup DEF PlayerTypes, SeatTypes
  <2>2. answered(m) \in [Players -> Entries]
    BY <2>1 DEF Entries
  <2>3. entry' = [entry EXCEPT ![m] = answered(m)] /\ UNCHANGED <<seats, won>>
    BY <1>1 DEF Respond
  <2> QED BY <2>2, <2>3, Regroup DEF SeatTypes
<1>5. JobTyped'
  <2>1. \/ Begin("receive", "cancel", m, p)
        \/ Begin("receive", "transfer", m, p)
        \/ UNCHANGED job
    BY <1>1
  <2>2. "cancel" \in Ops /\ "transfer" \in Ops /\ "receive" \in Actors
    BY DEF Ops, MatchOps, Actors
  <2> QED BY <1>2, <2>1, <2>2, Regroup, BeginJob, SameJob DEF JobTyped
<1> QED BY <1>3, <1>4, <1>5, Regroup

\* Steps that decide on the phase of their match and go on or end.
LEMMA PhaseTypesKept ==
    ASSUME Typed, NEW a \in Actors, CancelPhase(a) \/ StartTransfer(a) \/ BeginRound(a)
    PROVE  Typed'
<1>1. PlayerTypes' /\ SeatTypes' /\ ClockTypes' /\ PaidTypes'
  BY Regroup, SamePlayers, SameSeats, SameClock, SamePaid DEF CancelPhase, StartTransfer, BeginRound
<1>2. PhaseTypes'
  BY Regroup DEF PhaseTypes, Phases, CancelPhase, StartTransfer, BeginRound
<1>3. job[a] \in Jobs /\ job[a].m \in Matches
  BY Regroup, AtMatch DEF JobTyped, At, MatchOps, CancelPhase, StartTransfer, BeginRound
<1>4. "retire" \in Ops /\ "transfer clock" \in Ops /\ "round clock" \in Ops
  BY DEF Ops, MatchOps
<1>5. End(a) \/ \E op \in Ops : Goto(a, op)
  BY <1>4 DEF CancelPhase, StartTransfer, BeginRound
<1>6. JobTyped'
  BY <1>3, <1>5, Regroup, EndJob, GotoJob DEF JobTyped
<1> QED BY <1>1, <1>2, <1>6, Regroup

LEMMA RetireTypes ==
    ASSUME Typed, NEW a \in Actors, Retire(a)
    PROVE  Typed'
<1>1. PlayerTypes' /\ PhaseTypes' /\ SeatTypes' /\ ClockTypes'
  BY Regroup, SamePlayers, SameMatch, SameClock DEF Retire
<1>2. PaidTypes'
  BY Regroup DEF PaidTypes, Retire
<1>3. job[a].m \in Matches /\ "release" \in Ops
  BY Regroup, AtMatch DEF JobTyped, At, Ops, MatchOps, Retire
<1>4. seats[job[a].m] \in SUBSET Players
  BY <1>3, Regroup DEF SeatTypes
<1>5. job' = [job EXCEPT ![a].op = "release", ![a].todo = seats[job[a].m]]
  BY DEF Retire
<1>6. JobTyped'
  BY <1>3, <1>4, <1>5, Regroup, LoopJob DEF JobTyped
<1> QED BY <1>1, <1>2, <1>6, Regroup

LEMMA AfterReleaseJob ==
    ASSUME JobTypes, JobsInv, NEW a \in Actors, job[a].m \in Matches,
           NEW rest \in SUBSET Players, NEW again \in BOOLEAN, AfterRelease(a, rest, again)
    PROVE  JobTypes' /\ JobsInv'
<1>1. CASE rest # {}
  <2> DEFINE r == [job[a] EXCEPT !.op = "release", !.todo = rest, !.flag = again, !.q = None, !.n = 0]
  <2>1. job' = [job EXCEPT ![a] = r]
    BY <1>1 DEF AfterRelease
  <2>2. "release" \in Ops /\ job[a] \in Jobs
    BY AtMatch DEF Ops, MatchOps
  <2>3. r \in Jobs /\ r.m = job[a].m
    BY <2>2 DEF Jobs
  <2> HIDE DEF r
  <2> QED BY <2>1, <2>3, SetJob
<1>2. CASE rest = {} /\ again
  <2>1. job[a].p \in Players \cup {None} /\ "form" \in Ops /\ "form" \notin MatchOps
    BY AtMatch DEF Jobs, Ops, MatchOps, Keys
  <2> QED BY <1>2, <2>1, BeginJob DEF AfterRelease
<1>3. CASE rest = {} /\ ~again
  BY <1>3, EndJob DEF AfterRelease
<1> QED BY <1>1, <1>2, <1>3

LEMMA ReleaseOneTypes ==
    ASSUME Typed, NEW a \in Actors, ReleaseOne(a)
    PROVE  Typed'
<1>1. PICK p \in job[a].todo : ReleaseOne(a)!2!(p)
  BY DEF ReleaseOne
<1>2. job[a] \in Jobs /\ job[a].m \in Matches /\ "requeue" \in Ops
  BY Regroup, AtMatch DEF JobTyped, ReleaseOne, At, Ops, MatchOps
<1>3. p \in Players /\ job[a].todo \in SUBSET Players /\ job[a].flag \in BOOLEAN
  BY <1>1, <1>2 DEF Jobs
<1>4. PhaseTypes' /\ SeatTypes' /\ ClockTypes' /\ PaidTypes'
  BY Regroup, SameMatch, SameClock, SamePaid DEF ReleaseOne
<1>5. PlayerTypes'
  BY <1>1, Regroup DEF PlayerTypes, ReleaseOne
<1>6. JobTyped'
  <2> DEFINE e == entry[job[a].m][p]
             r == [job[a] EXCEPT !.op = "requeue", !.todo = @ \ {p}, !.q = p, !.n = e.session]
  <2>1. e.session \in Nat
    BY <1>2, <1>3, Regroup, MatchesAssumption DEF SeatTypes, Entries
  <2>2. CASE job' = [job EXCEPT ![a] = r]
    <3>1. r \in Jobs /\ r.m = job[a].m
      BY <1>2, <1>3, <2>1 DEF Jobs
    <3> HIDE DEF r
    <3> QED BY <1>2, <2>2, <3>1, Regroup, SetJob DEF JobTyped
  <2>3. CASE AfterRelease(a, job[a].todo \ {p}, job[a].flag)
    BY <1>2, <1>3, <2>3, Regroup, AfterReleaseJob DEF JobTyped
  <2> QED BY <1>1, <2>2, <2>3
<1> QED BY <1>4, <1>5, <1>6, Regroup

LEMMA RequeueTypes ==
    ASSUME Typed, NEW a \in Actors, Requeue(a)
    PROVE  Typed'
<1>1. job[a] \in Jobs /\ job[a].m \in Matches
  BY Regroup, AtMatch DEF JobTyped, Requeue, At, MatchOps
<1>2. PhaseTypes' /\ SeatTypes' /\ ClockTypes' /\ PaidTypes'
  BY Regroup, SameMatch, SameClock, SamePaid DEF Requeue
<1>3. PlayerTypes'
  BY <1>1, Regroup DEF PlayerTypes, Jobs, Requeue
<1>4. JobTyped'
  BY <1>1, Regroup, AfterReleaseJob DEF JobTyped, Jobs, Requeue
<1> QED BY <1>2, <1>3, <1>4, Regroup

LEMMA TransferTypes ==
    ASSUME Typed, NEW a \in Actors, TransferClock(a) \/ TransferOne(a)
    PROVE  Typed'
<1>1. job[a] \in Jobs /\ job[a].m \in Matches /\ {"transfer one", "arm load"} \subseteq Ops
  BY Regroup, AtMatch DEF JobTyped, TransferClock, TransferOne, At, Ops, MatchOps
<1>2. PhaseTypes' /\ PaidTypes'
  BY Regroup, SameMatch, SamePhase, SamePaid DEF TransferClock, TransferOne
<1>3. CASE TransferClock(a)
  <2>1. PlayerTypes' /\ SeatTypes'
    BY <1>3, Regroup, SamePlayers, SameMatch DEF TransferClock
  <2>2. ClockTypes'
    BY <1>1, <1>3, Regroup, CancelTimersType DEF TransferClock
  <2>3. seats[job[a].m] \in SUBSET Players
    BY <1>1, Regroup DEF SeatTypes
  <2>4. job' = [job EXCEPT ![a].op = "transfer one", ![a].todo = seats[job[a].m]]
    BY <1>3 DEF TransferClock
  <2>5. JobTyped'
    BY <1>1, <2>3, <2>4, Regroup, LoopJob DEF JobTyped
  <2> QED BY <1>2, <2>1, <2>2, <2>5, Regroup
<1>4. CASE TransferOne(a)
  <2>1. PICK p \in job[a].todo : TransferOne(a)!2!(p)
    BY <1>4 DEF TransferOne
  <2>2. p \in Players
    BY <1>1, <2>1 DEF Jobs
  <2>3. PlayerTypes'
    BY <1>4, <2>1, Regroup DEF PlayerTypes, PlaceNames, TransferOne
  <2>4. ClockTypes'
    BY <1>4, Regroup, SameClock DEF TransferOne
  <2>5. SeatTypes'
    <3>1. entry' \in [Matches -> [Players -> Entries]]
      <4>1. entry' = entry \/ entry' = [entry EXCEPT ![bound[p]][p].session = 0]
        BY <2>1
      <4>2. \A e \in Entries : [e EXCEPT !.session = 0] \in Entries
        BY DEF Entries
      <4>3. entry \in [Matches -> [Players -> Entries]]
        BY Regroup DEF SeatTypes
      <4>4. \A m \in Matches : [entry[m] EXCEPT ![p].session = 0] \in [Players -> Entries]
        BY <2>2, <4>2, <4>3
      <4>5. entry' = entry \/ entry' = [entry EXCEPT ![bound[p]] = [entry[bound[p]] EXCEPT ![p].session = 0]]
        BY <4>1
      <4> QED BY <4>3, <4>4, <4>5
    <3> QED BY <1>4, <3>1, Regroup DEF SeatTypes, TransferOne
  <2>6. JobTyped'
    <3> DEFINE r == [job[a] EXCEPT !.todo = @ \ {p},
                                   !.op = IF job[a].todo = {p} THEN "arm load" ELSE @]
    <3>1. job' = [job EXCEPT ![a] = r]
      BY <2>1
    <3>2. r \in Jobs /\ r.m = job[a].m
      BY <1>1 DEF Jobs
    <3> HIDE DEF r
    <3> QED BY <1>1, <3>1, <3>2, Regroup, SetJob DEF JobTyped
  <2> QED BY <1>2, <2>3, <2>4, <2>5, <2>6, Regroup
<1> QED BY <1>3, <1>4

LEMMA BindLookupTypes ==
    ASSUME Typed, NEW p \in Players, BindLookup(p)
    PROVE  Typed'
<1>1. PhaseTypes' /\ SeatTypes' /\ ClockTypes' /\ PaidTypes'
  BY Regroup, SameMatch, SameClock, SamePaid DEF BindLookup
<1>2. PlayerTypes'
  BY Regroup DEF PlayerTypes, PlaceNames, BindLookup
<1>3. "bind" \in Ops /\ "init" \in Actors /\ MatchesOf(p) \subseteq Matches
  BY Regroup DEF Ops, MatchOps, Actors, MatchesOf, Held, PaidTypes
<1>4. JobTyped'
  BY <1>3, Regroup, SameJob, BeginJob DEF JobTyped, BindLookup
<1> QED BY <1>1, <1>2, <1>4, Regroup

LEMMA BindEntryTypes ==
    ASSUME Typed, NEW a \in Actors, BindEntry(a)
    PROVE  Typed'
<1> DEFINE m == job[a].m
           p == job[a].p
           e == [entry[m] EXCEPT ![p].session = number[p], ![p].arrived = TRUE]
<1>1. job[a] \in Jobs /\ m \in Matches /\ "bind session" \in Ops
  BY Regroup, AtMatch DEF JobTyped, BindEntry, At, Ops, MatchOps
<1>2. PlayerTypes' /\ PhaseTypes' /\ ClockTypes' /\ PaidTypes'
  BY Regroup, SamePlayers, SamePhase, SameClock, SamePaid DEF BindEntry
<1>3. SeatTypes'
  <2>1. e \in [Players -> Entries]
    <3>1. entry[m] \in [Players -> Entries]
      BY <1>1, Regroup DEF SeatTypes
    <3>2. number \in [Players -> Nat]
      BY Regroup DEF PlayerTypes
    <3>3. p \in Players => [entry[m][p] EXCEPT !.session = number[p], !.arrived = TRUE] \in Entries
      BY <3>1, <3>2 DEF Entries
    <3> QED BY <3>1, <3>3
  <2>2. entry' = [entry EXCEPT ![m] = e] /\ UNCHANGED <<seats, won>>
    BY DEF BindEntry
  <2> QED BY <2>1, <2>2, Regroup DEF SeatTypes
<1>4. JobTyped'
  <2> DEFINE r == [job[a] EXCEPT !.op = "bind session",
                                 !.flag = EveryoneArrived(e, m) /\ phase[m] = "loading"]
  <2>1. job' = [job EXCEPT ![a] = r]
    BY DEF BindEntry
  <2>2. (EveryoneArrived(e, m) /\ phase[m] = "loading") \in BOOLEAN
    BY Zenon DEF EveryoneArrived
  <2>3. r \in Jobs /\ r.m = job[a].m
    BY <1>1, <2>2 DEF Jobs
  <2> HIDE DEF r
  <2> QED BY <1>1, <2>1, <2>3, Regroup, SetJob DEF JobTyped
<1> QED BY <1>2, <1>3, <1>4, Regroup

LEMMA BindSessionTypes ==
    ASSUME Typed, NEW a \in Actors, BindSession(a)
    PROVE  Typed'
<1>1. job[a] \in Jobs /\ job[a].m \in Matches /\ job[a].p \in Players \cup {None}
      /\ "begin round" \in Ops
  BY Regroup, AtMatch DEF JobTyped, BindSession, At, Ops, MatchOps, Jobs
<1>2. PhaseTypes' /\ SeatTypes' /\ ClockTypes' /\ PaidTypes'
  BY Regroup, SameMatch, SameClock, SamePaid DEF BindSession
<1>3. PlayerTypes'
  BY <1>1, Regroup DEF PlayerTypes, BindSession
<1>4. JobTyped'
  BY <1>1, Regroup, BeginJob, EndJob DEF JobTyped, BindSession
<1> QED BY <1>2, <1>3, <1>4, Regroup

LEMMA FireTypes ==
    ASSUME Typed, NEW w \in Workers, NEW m \in Matches, NEW key \in Keys, Fire(w, m, key)
    PROVE  Typed'
<1>1. PlayerTypes' /\ PhaseTypes' /\ SeatTypes' /\ PaidTypes'
  BY Regroup, SamePlayers, SameMatch, SamePaid DEF Fire
<1>2. ClockTypes'
  BY Regroup DEF ClockTypes, Fire
<1>3. JobTyped'
  <2> DEFINE r == [Idle EXCEPT !.op = key, !.m = m,
                               !.n = IF key = "countdown" THEN generation[m] ELSE 0]
  <2>1. job' = [job EXCEPT ![w] = r]
    BY DEF Fire
  <2>2. key \in Ops /\ Idle \in Jobs /\ generation[m] \in Nat /\ w \in Actors
    BY Regroup DEF Ops, MatchOps, Idle, Jobs, ClockTypes, Actors
  <2>3. r \in Jobs /\ r.m = m
    BY <2>2 DEF Jobs
  <2> HIDE DEF r
  <2> QED BY <2>1, <2>2, <2>3, Regroup, SetJob DEF JobTyped
<1> QED BY <1>1, <1>2, <1>3, Regroup

LEMMA ExpireTypes ==
    ASSUME Typed, NEW w \in Workers, Expire(w) \/ RoundIsOver(w)
    PROVE  Typed'
<1>1. PlayerTypes' /\ PhaseTypes' /\ SeatTypes' /\ ClockTypes' /\ PaidTypes'
  BY Regroup, SamePlayers, SameMatch, SameClock, SamePaid DEF Expire, RoundIsOver
<1>2. job[w] \in Jobs /\ job[w].m \in Matches /\ w \in Actors
  BY Regroup, AtMatch DEF JobTyped, At, MatchOps, Keys, Expire, Expected, RoundIsOver, Actors
<1>3. "begin round" \in Ops /\ "cancel" \in Ops
  BY DEF Ops, MatchOps
<1>4. End(w) \/ \E op \in Ops : Goto(w, op)
  BY <1>3 DEF Expire, RoundIsOver
<1>5. JobTyped'
  BY <1>2, <1>4, Regroup, EndJob, GotoJob DEF JobTyped
<1> QED BY <1>1, <1>5, Regroup

LEMMA StartRoundTypes ==
    ASSUME Typed, NEW w \in Workers, StartRound(w)
    PROVE  Typed'
<1>1. job[w] \in Jobs /\ job[w].m \in Matches /\ w \in Actors /\ "arm round" \in Ops
  BY Regroup, AtMatch DEF JobTyped, At, Ops, MatchOps, Keys, StartRound, Actors
<1>2. PlayerTypes' /\ SeatTypes' /\ ClockTypes' /\ PaidTypes'
  BY Regroup, SamePlayers, SameSeats, SameClock, SamePaid DEF StartRound
<1>3. PhaseTypes'
  <2>1. phase' \in [Matches -> Phases]
    BY <1>1, Regroup DEF PhaseTypes, Phases, StartRound
  <2>2. started' \in [Matches -> Nat]
    <3>1. started' = started \/ started' = [started EXCEPT ![job[w].m] = @ + 1]
      BY DEF StartRound
    <3>2. started \in [Matches -> Nat]
      BY Regroup DEF PhaseTypes
    <3>3. \A m \in Matches : [started EXCEPT ![m] = @ + 1] \in [Matches -> Nat]
      BY <3>2
    <3>4. [started EXCEPT ![job[w].m] = @ + 1] \in [Matches -> Nat]
      BY Zenon, <1>1, <3>3
    <3> QED BY Zenon, <3>1, <3>2, <3>4
  <2> QED BY <2>1, <2>2, Regroup DEF PhaseTypes, StartRound
<1>4. JobTyped'
  <2> DEFINE r == [job[w] EXCEPT !.op = "arm round", !.n = 0]
  <2>1. r \in Jobs /\ r.m = job[w].m
    BY <1>1 DEF Jobs
  <2>2. job' = [job EXCEPT ![w] = r] \/ End(w)
    BY DEF StartRound
  <2> HIDE DEF r
  <2> QED BY <1>1, <2>1, <2>2, Regroup, SetJob, EndJob DEF JobTyped
<1> QED BY <1>2, <1>3, <1>4, Regroup

LEMMA ClaimTypes ==
    ASSUME Typed, NEW w \in Workers, NEW m \in Matches, NEW p \in Players, Claim(w, m, p)
    PROVE  Typed'
<1>1. PlayerTypes' /\ PaidTypes'
  BY Regroup, SamePlayers, SamePaid DEF Claim
<1>2. PhaseTypes'
  BY Regroup DEF PhaseTypes, Phases, Claim
<1>3. SeatTypes'
  BY Regroup DEF SeatTypes, Claim
<1>4. ClockTypes'
  BY Regroup, CancelTimersType DEF Claim
<1>5. JobTyped'
  <2> DEFINE over == won[m][p] + 1 >= RoundsToWin
             r == [Idle EXCEPT !.op = "publish", !.m = m, !.flag = over]
  <2>1. job' = [job EXCEPT ![w] = r]
    BY DEF Claim
  <2>2. "publish" \in Ops /\ Idle \in Jobs /\ w \in Actors
    BY DEF Ops, MatchOps, Idle, Jobs, Actors
  <2>3. over \in BOOLEAN
    BY Regroup, MatchesAssumption DEF SeatTypes
  <2> HIDE DEF over
  <2>4. r \in Jobs /\ r.m = m
    BY <2>2, <2>3 DEF Jobs
  <2> HIDE DEF r
  <2> QED BY <2>1, <2>2, <2>4, Regroup, SetJob DEF JobTyped
<1> QED BY <1>1, <1>2, <1>3, <1>4, <1>5, Regroup

LEMMA WonTypes ==
    ASSUME Typed, NEW w \in Workers,
           ExpireRound(w) \/ \E m \in Matches, p \in Players : Kill(w, m, p)
    PROVE  \E m \in Matches, p \in Players : p \in seats[m] /\ Claim(w, m, p)
<1>1. CASE ExpireRound(w)
  <2>1. job[w].m \in Matches
    BY <1>1, Regroup, AtMatch DEF JobTyped, At, MatchOps, Keys, ExpireRound, Actors
  <2>2. InMatch(job[w].m) \subseteq seats[job[w].m] /\ seats[job[w].m] \subseteq Players
    BY <2>1, Regroup DEF InMatch, SeatTypes
  <2> QED BY <1>1, <2>1, <2>2 DEF ExpireRound
<1>2. CASE \E m \in Matches, p \in Players : Kill(w, m, p)
  BY <1>2 DEF Kill
<1> QED BY <1>1, <1>2

LEMMA SettleTypes ==
    ASSUME Typed, NEW a \in Actors, Settle(a)
    PROVE  Typed'
<1>1. job[a] \in Jobs /\ job[a].m \in Matches /\ "pay" \in Ops
  BY Regroup, AtMatch DEF JobTyped, At, Ops, MatchOps, Keys, Settle
<1>2. PlayerTypes' /\ SeatTypes' /\ PaidTypes'
  BY Regroup, SamePlayers, SameSeats, SamePaid DEF Settle
<1>3. PhaseTypes'
  BY <1>1, Regroup DEF PhaseTypes, Phases, Settle
<1>4. ClockTypes'
  BY <1>1, Regroup, CancelTimersType DEF Settle
<1>5. JobTyped'
  <2> DEFINE m == job[a].m
             r == [job[a] EXCEPT !.op = "pay", !.todo = seats[m], !.flag = ~ settled[m]]
  <2>1. job' = [job EXCEPT ![a] = r]
    BY DEF Settle
  <2>2. (~ settled[m]) \in BOOLEAN
    OBVIOUS
  <2>3. seats[m] \in SUBSET Players
    BY <1>1, Regroup DEF SeatTypes
  <2>4. r \in Jobs /\ r.m = job[a].m
    BY <1>1, <2>2, <2>3 DEF Jobs
  <2> HIDE DEF r
  <2> QED BY <1>1, <2>1, <2>4, Regroup, SetJob DEF JobTyped
<1> QED BY <1>2, <1>3, <1>4, <1>5, Regroup

LEMMA PayOneTypes ==
    ASSUME Typed, NEW a \in Actors, PayOne(a)
    PROVE  Typed'
<1>1. PICK p \in job[a].todo : PayOne(a)!2!(p)
  BY DEF PayOne
<1>2. job[a] \in Jobs /\ job[a].m \in Matches /\ job[a].op = "pay"
  BY Regroup, AtMatch DEF JobTyped, At, MatchOps, PayOne
<1>3. PlayerTypes' /\ PhaseTypes' /\ SeatTypes' /\ ClockTypes'
  BY Regroup, SamePlayers, SameMatch, SameClock DEF PayOne
<1>4. PaidTypes'
  <2>1. p \in Players
    BY <1>1, <1>2 DEF Jobs
  <2>2. paid \in [Matches -> [Players -> Nat]]
    BY Regroup DEF PaidTypes
  <2>3. paid' = paid \/ paid' = [paid EXCEPT ![job[a].m][p] = @ + 1]
    BY <1>1
  <2>4. paid' \in [Matches -> [Players -> Nat]]
    BY <1>2, <2>1, <2>2, <2>3
  <2> QED BY <2>4, Regroup DEF PaidTypes, PayOne
<1>5. JobTyped'
  <2> DEFINE r == [job[a] EXCEPT !.todo = @ \ {p}]
  <2>1. r \in Jobs /\ r.m = job[a].m
    BY <1>2 DEF Jobs
  <2>2. \/ job' = [job EXCEPT ![a] = r]
        \/ End(a)
        \/ Begin(a, job[a].after, job[a].m, job[a].p) /\ job[a].after # "idle"
    BY <1>1
  <2>3. job[a].after \in Ops /\ job[a].p \in Players \cup {None}
    BY <1>2 DEF Jobs, Ops, MatchOps
  <2> HIDE DEF r
  <2> QED BY <1>2, <2>1, <2>2, <2>3, Regroup, SetJob, EndJob, BeginJob DEF JobTyped
<1> QED BY <1>3, <1>4, <1>5, Regroup

\* A slot is given up.
LEMMA LeftTypes ==
    ASSUME NEW table \in [Matches -> [Players -> Entries]], NEW m \in Matches, NEW p
    PROVE  [[table EXCEPT ![m][p].left = TRUE] EXCEPT ![m][p].session = 0]
             \in [Matches -> [Players -> Entries]]
<1>1. \A e \in Entries : [e EXCEPT !.left = TRUE] \in Entries /\ [e EXCEPT !.session = 0] \in Entries
  BY DEF Entries
<1> DEFINE left == [table EXCEPT ![m] = [table[m] EXCEPT ![p] = [table[m][p] EXCEPT !.left = TRUE]]]
<1>2. [table EXCEPT ![m][p].left = TRUE] = left
  OBVIOUS
<1>3. left \in [Matches -> [Players -> Entries]]
  BY <1>1
<1> HIDE DEF left
<1>4. [left EXCEPT ![m][p].session = 0]
        = [left EXCEPT ![m] = [left[m] EXCEPT ![p] = [left[m][p] EXCEPT !.session = 0]]]
  OBVIOUS
<1>5. [left EXCEPT ![m][p].session = 0] \in [Matches -> [Players -> Entries]]
  BY <1>1, <1>3, <1>4
<1> QED BY <1>2, <1>5

LEMMA ForfeitTypes ==
    ASSUME Typed, NEW a \in Actors, Forfeit(a)
    PROVE  Typed'
<1> DEFINE m == job[a].m
           p == job[a].p
           remaining == InMatch(m) \ {p}
           anyone == \E q \in seats[m] \ {p} : entry[m][q].session # 0 /\ ~ entry[m][q].left
           after == IF anyone THEN "gone" ELSE "drop"
           decided == phase[m] \in {"over", "cancelled"}
<1>1. job[a] \in Jobs /\ m \in Matches /\ {"over", "gone", "drop"} \subseteq Ops
  BY Regroup, AtMatch DEF JobTyped, At, Ops, MatchOps, Keys, Forfeit
<1>2. remaining \subseteq Players
  BY <1>1, Regroup DEF InMatch, SeatTypes
<1>3. after \in {"gone", "drop"}
  OBVIOUS
<1>4. /\ entry' = [entry EXCEPT ![m][p].left = TRUE, ![m][p].session = 0]
      /\ phase' = [phase EXCEPT ![m] = IF decided THEN @
                                       ELSE IF remaining = {} THEN "cancelled" ELSE "over"]
      /\ \/ Goto(a, after) /\ UNCHANGED winner
         \/ /\ remaining # {}
            /\ winner' = [winner EXCEPT ![m] = CHOOSE q \in remaining : TRUE]
            /\ job' = [job EXCEPT ![a].op = "over", ![a].after = after]
      /\ UNCHANGED <<players, registered, seats, won, settled, started, clock, paid>>
  BY DEF Forfeit
<1> HIDE DEF remaining, after
<1>5. PlayerTypes' /\ ClockTypes' /\ PaidTypes'
  BY <1>4, Regroup, SamePlayers, SameClock, SamePaid
<1>6. PhaseTypes'
  <2>1. winner' \in [Matches -> Players \cup {None}]
    BY <1>1, <1>2, <1>4, Regroup DEF PhaseTypes
  <2> QED BY <1>1, <1>4, <2>1, Regroup DEF PhaseTypes, Phases
<1>7. SeatTypes'
  <2>1. entry' = [[entry EXCEPT ![m][p].left = TRUE] EXCEPT ![m][p].session = 0]
    BY <1>4
  <2>2. entry \in [Matches -> [Players -> Entries]]
    BY Regroup DEF SeatTypes
  <2>3. entry' \in [Matches -> [Players -> Entries]]
    BY <1>1, <2>1, <2>2, LeftTypes
  <2> QED BY <1>4, <2>3, Regroup DEF SeatTypes
<1>8. JobTyped'
  <2> DEFINE r == [job[a] EXCEPT !.op = "over", !.after = after]
  <2>1. r \in Jobs /\ r.m = job[a].m
    BY <1>1, <1>3 DEF Jobs
  <2>2. job' = [job EXCEPT ![a] = r] \/ Goto(a, after)
    BY <1>4
  <2> HIDE DEF r
  <2> QED BY <1>1, <1>3, <2>1, <2>2, Regroup, SetJob, GotoJob DEF JobTyped
<1> QED BY <1>5, <1>6, <1>7, <1>8, Regroup

\* The steps of a player who goes.
LEMMA GoneTypes ==
    ASSUME Typed, NEW a \in Actors, Drop(a) \/ Gone(a)
    PROVE  Typed'
<1>1. job[a] \in Jobs /\ "gone" \in Ops /\ "gone" \notin MatchOps
  BY Regroup DEF JobTyped, JobTypes, Ops, MatchOps, Keys
<1>2. CASE Drop(a)
  <2>1. job[a].m \in Matches
    BY <1>2, Regroup, AtMatch DEF JobTyped, At, MatchOps, Drop
  <2>2. PlayerTypes' /\ PhaseTypes' /\ SeatTypes' /\ ClockTypes' /\ PaidTypes'
    BY <1>2, <2>1, Regroup, SamePlayers, SameMatch, CancelTimersType DEF Drop, PaidTypes
  <2> QED BY <1>1, <1>2, <2>2, Regroup, GotoJob DEF Drop, JobTyped
<1>3. CASE Gone(a)
  <2>1. PhaseTypes' /\ SeatTypes' /\ ClockTypes' /\ PaidTypes'
    BY <1>3, Regroup, SameMatch, SameClock, SamePaid DEF Gone
  <2>2. PlayerTypes'
    BY <1>3, Regroup DEF PlayerTypes, PlaceNames, Gone
  <2> QED BY <1>3, <2>1, <2>2, Regroup, EndJob DEF Gone, JobTyped
<1> QED BY <1>2, <1>3

LEMMA ReleaseSessionTypes ==
    ASSUME Typed, NEW p \in Players, ReleaseSession(p)
    PROVE  Typed'
<1>1. PhaseTypes' /\ SeatTypes' /\ ClockTypes' /\ PaidTypes'
  BY Regroup, SameMatch, SameClock, SamePaid DEF ReleaseSession
<1>2. PlayerTypes' /\ bound[p] \in Matches \cup {0}
  BY Regroup DEF PlayerTypes, ReleaseSession
<1>3. {"gone", "lost"} \subseteq Ops /\ "gone" \notin MatchOps /\ "lifecycle" \in Actors
  BY DEF Ops, MatchOps, Keys, Actors
<1>4. JobTyped'
  BY <1>2, <1>3, Regroup, BeginJob DEF JobTyped, ReleaseSession
<1> QED BY <1>1, <1>2, <1>4, Regroup

LEMMA LostTypes ==
    ASSUME Typed, NEW a \in Actors, Lost(a)
    PROVE  Typed'
<1> DEFINE m == job[a].m
           p == job[a].p
<1>1. job[a] \in Jobs /\ m \in Matches /\ {"gone", "forfeit"} \subseteq Ops
  BY Regroup, AtMatch DEF JobTyped, At, Ops, MatchOps, Lost
<1>2. PlayerTypes' /\ PhaseTypes' /\ ClockTypes' /\ PaidTypes'
  BY Regroup, SamePlayers, SamePhase, SameClock, SamePaid DEF Lost
<1>3. SeatTypes'
  <2> DEFINE e == [entry[m] EXCEPT ![p] = [entry[m][p] EXCEPT !.session = 0]]
  <2>1. entry' = [entry EXCEPT ![m] = e] \/ entry' = entry
    BY DEF Lost
  <2>2. entry[m] \in [Players -> Entries]
    BY <1>1, Regroup DEF SeatTypes
  <2>3. \A x \in Entries : [x EXCEPT !.session = 0] \in Entries
    BY DEF Entries
  <2>4. e \in [Players -> Entries]
    BY <2>2, <2>3
  <2> HIDE DEF e
  <2> QED BY <1>1, <2>1, <2>4, Regroup DEF SeatTypes, Lost
<1>4. JobTyped'
  BY <1>1, Regroup, GotoJob DEF JobTyped, Lost
<1> QED BY <1>2, <1>3, <1>4, Regroup

LEMMA StepTypes ==
    ASSUME Typed, NEW a \in Actors, Step(a)
    PROVE  Typed'
BY EnqueueTypes, FormTypes, JobOnlyTypes, InviteTypes, ClockTypesKept, PhaseTypesKept, RetireTypes,
   ReleaseOneTypes, RequeueTypes, TransferTypes, BindEntryTypes, BindSessionTypes, SettleTypes,
   PayOneTypes, ForfeitTypes, GoneTypes, LostTypes DEF Step

LEMMA WorkTypes ==
    ASSUME Typed, NEW w \in Workers, Work(w)
    PROVE  Typed'
BY ExpireTypes, StartRoundTypes, ClockTypesKept, WonTypes, ClaimTypes DEF Work, Actors

LEMMA NextTypes == Typed /\ [Next]_vars => Typed'
<1> SUFFICES ASSUME Typed, [Next]_vars PROVE Typed'
  OBVIOUS
<1>1. CASE \E p \in Players : Client(p) \/ Arrives(p)
  BY <1>1, ClientTypes, RespondTypes, BindLookupTypes, ReleaseSessionTypes DEF Client, Arrives
<1>2. CASE \E a \in Actors : Step(a)
  BY <1>2, StepTypes
<1>3. CASE \E w \in Workers : Work(w)
  BY <1>3, WorkTypes
<1>4. CASE \E m \in Matches : Fires(m)
  BY <1>4, FireTypes DEF Fires
<1>5. CASE \E w \in Workers, m \in Matches, p \in Players : Kill(w, m, p)
  BY <1>5, WonTypes, ClaimTypes
<1>6. CASE UNCHANGED vars
  BY <1>6, Regroup, SamePlayers, SameMatch, SameClock, SamePaid, SameJob DEF vars
<1> QED BY <1>1, <1>2, <1>3, <1>4, <1>5, <1>6 DEF Next

LEMMA InitTypes == Init => Typed
<1> SUFFICES ASSUME Init PROVE Typed
  OBVIOUS
<1>1. Vacant \in Entries /\ Idle \in Jobs /\ Idle.op \notin MatchOps
  BY DEF Vacant, Entries, Idle, Jobs, Ops, MatchOps, Keys
<1>2. PlayerTypes
  BY DEF PlayerTypes, PlaceNames, Init
<1>3. PhaseTypes
  BY DEF PhaseTypes, Phases, Init
<1>4. SeatTypes
  BY <1>1 DEF SeatTypes, Init
<1>5. ClockTypes /\ PaidTypes
  BY DEF ClockTypes, PaidTypes, Init
<1>6. JobTyped
  BY <1>1 DEF JobTyped, JobTypes, JobsInv, Init
<1> QED BY <1>2, <1>3, <1>4, <1>5, <1>6, Regroup

-----------------------------------------------------------------------------
(* What an action must leave alone for the invariants to survive it. *)

Finishing(a) == job[a].op = "over" \/ (job[a].op = "publish" /\ job[a].flag)

FinalStep ==
    \A m \in Matches : phase[m] \in {"over", "cancelled"} =>
        phase'[m] = phase[m] /\ winner'[m] = winner[m]
OverClock == \A m \in Matches : "over" \in timers'[m] => "over" \in timers[m] \/ phase'[m] = "over"
OverJobs == \A a \in Actors : job'[a] = job[a] \/ (Finishing(a)' => phase'[job'[a].m] = "over")
QuietRounds ==
    /\ UNCHANGED <<won, started>>
    /\ \A m \in Matches : phase'[m] = "running" => phase[m] = "running"
NobodyPays ==
    /\ UNCHANGED <<settled, paid>>
    /\ \A a \in Actors : job'[a] = job[a] \/ job'[a].op # "pay"
Quiet == FinalStep /\ OverClock /\ OverJobs /\ QuietRounds /\ NobodyPays

LEMMA FinalKept == Typed /\ FinalInv /\ FinalStep /\ OverClock /\ OverJobs => FinalInv'
<1> SUFFICES ASSUME Typed, FinalInv, FinalStep, OverClock, OverJobs PROVE FinalInv'
  OBVIOUS
<1>1. ASSUME NEW m \in Matches, "over" \in timers'[m] PROVE phase'[m] = "over"
  BY <1>1 DEF FinalInv, FinalStep, OverClock
<1>2. ASSUME NEW a \in Actors, Finishing(a)' PROVE phase'[job'[a].m] = "over"
  <2>1. CASE job'[a] = job[a]
    <3>1. job[a].m \in Matches /\ phase[job[a].m] = "over"
      BY <1>2, <2>1, Regroup, AtMatch DEF JobTyped, MatchOps, Keys, Finishing, FinalInv
    <3> QED BY <2>1, <3>1 DEF FinalStep
  <2>2. CASE job'[a] # job[a]
    BY <1>2, <2>2 DEF OverJobs
  <2> QED BY <2>1, <2>2
<1> QED BY <1>1, <1>2 DEF FinalInv, Finishing

LEMMA RoundsKept == Typed /\ RoundsInv /\ QuietRounds => RoundsInv'
<1> SUFFICES ASSUME Typed, RoundsInv, QuietRounds,
                    NEW m \in Matches, NEW p \in Players, NEW q \in Players, p # q
             PROVE  (won[m][p] + won[m][q] + (IF phase[m] = "running" THEN 1 ELSE 0) <= started[m])'
  BY DEF RoundsInv
<1>1. won[m][p] \in Nat /\ won[m][q] \in Nat /\ started[m] \in Nat
  BY Regroup DEF SeatTypes, PhaseTypes
<1>2. won[m][p] + won[m][q] + (IF phase[m] = "running" THEN 1 ELSE 0) <= started[m]
  BY DEF RoundsInv
<1> QED BY <1>1, <1>2 DEF QuietRounds

LEMMA PayKept == PayInv /\ NobodyPays => PayInv'
<1> SUFFICES ASSUME PayInv, NobodyPays PROVE PayInv'
  OBVIOUS
<1>1. ASSUME NEW m, NEW a \in Actors, Paying(a, m)' PROVE Paying(a, m) /\ job'[a] = job[a]
  BY <1>1 DEF NobodyPays, Paying
<1> QED BY <1>1 DEF PayInv, NobodyPays

LEMMA QuietKeeps == MatchInv /\ Typed' /\ Quiet => MatchInv' /\ FinalStep
BY FinalKept, RoundsKept, PayKept DEF MatchInv, Typed, Quiet

\* The job of a thread that goes on with something harmless.
Harmless == OverJobs /\ \A b \in Actors : job'[b] = job[b] \/ job'[b].op # "pay"

LEMMA HarmlessJob ==
    ASSUME Typed, NEW a \in Actors, NEW r, job' = [job EXCEPT ![a] = r],
           r.op \notin {"over", "publish", "pay"}
    PROVE  Harmless
BY Regroup DEF JobTyped, JobTypes, Harmless, OverJobs, Finishing
LEMMA HarmlessEnd ==
    ASSUME Typed, NEW a \in Actors, End(a)
    PROVE  Harmless
BY HarmlessJob DEF End, Idle
LEMMA HarmlessBegin ==
    ASSUME Typed, NEW a \in Actors, NEW op, NEW m, NEW p, Begin(a, op, m, p),
           op \notin {"over", "publish", "pay"}
    PROVE  Harmless
BY HarmlessJob DEF Begin, Idle
LEMMA HarmlessGoto ==
    ASSUME Typed, NEW a \in Actors, NEW op, Goto(a, op), op \notin {"over", "publish", "pay"}
    PROVE  Harmless
<1> DEFINE r == [job[a] EXCEPT !.op = op]
<1>1. job' = [job EXCEPT ![a] = r]
  BY DEF Goto
<1>2. r.op = op
  BY Regroup DEF JobTyped, JobTypes, Jobs
<1> HIDE DEF r
<1> QED BY <1>1, <1>2, HarmlessJob
LEMMA HarmlessLoop ==
    ASSUME Typed, NEW a \in Actors, NEW op, NEW todo, job' = [job EXCEPT ![a].op = op, ![a].todo = todo],
           op \notin {"over", "publish", "pay"}
    PROVE  Harmless
<1> DEFINE r == [job[a] EXCEPT !.op = op, !.todo = todo]
<1>1. job' = [job EXCEPT ![a] = r]
  OBVIOUS
<1>2. r.op = op
  BY Regroup DEF JobTyped, JobTypes, Jobs
<1> HIDE DEF r
<1> QED BY <1>1, <1>2, HarmlessJob
LEMMA HarmlessSame ==
    UNCHANGED job => Harmless
BY DEF Harmless, OverJobs

\* Most steps leave the matches alone, or the clock, or only cancel or arm
\* timers other than the last.
LEMMA SamePhases == UNCHANGED match => FinalStep /\ QuietRounds /\ settled' = settled
BY DEF match, FinalStep, QuietRounds
LEMMA SameTimers == UNCHANGED clock => OverClock
BY DEF clock, OverClock
LEMMA ArmOther ==
    ASSUME Typed, NEW m, NEW key, Arm(m, key), key # "over" \/ phase'[m] = "over"
    PROVE  OverClock
BY Regroup DEF ClockTypes, Arm, OverClock
LEMMA CancelAll ==
    ASSUME Typed, NEW m, CancelTimers(m)
    PROVE  OverClock
BY Regroup DEF ClockTypes, CancelTimers, OverClock

LEMMA QuietClients ==
    ASSUME Typed, NEW p \in Players,
           \/ Connect(p) \/ Join(p) \/ Abort(p) \/ Leave(p) \/ Cut(p)
           \/ BindLookup(p) \/ ReleaseSession(p)
    PROVE  Quiet
<1>1. UNCHANGED <<match, clock, paid>>
  BY DEF Connect, Join, Abort, Leave, Cut, BindLookup, ReleaseSession
<1>2. \/ UNCHANGED job
      \/ \E a \in Actors, op \in {"enqueue", "forfeit", "bind", "gone", "lost"} :
            \E m, q : Begin(a, op, m, q)
  <2>1. {"receive", "lifecycle", "init"} \subseteq Actors
    BY DEF Actors
  <2> QED BY <2>1 DEF Connect, Join, Abort, Leave, Cut, BindLookup, ReleaseSession
<1>3. Harmless
  BY <1>2, HarmlessBegin, HarmlessSame
<1> QED BY <1>1, <1>3, SamePhases, SameTimers DEF Quiet, NobodyPays, Harmless

LEMMA QuietAnswer ==
    ASSUME Typed, NEW p \in Players, NEW accepted \in BOOLEAN, Respond(p, accepted)
    PROVE  Quiet
<1>1. UNCHANGED <<phase, winner, won, settled, started, clock, paid>>
  BY DEF Respond
<1>2. UNCHANGED job \/ \E op \in {"cancel", "transfer"} : \E m : Begin("receive", op, m, p)
  BY DEF Respond
<1>3. Harmless
  BY <1>2, HarmlessBegin, HarmlessSame DEF Actors
<1> QED BY <1>1, <1>3, SameTimers DEF Quiet, NobodyPays, Harmless, FinalStep, QuietRounds

\* The steps of a thread that leave the matches and the clock alone.
LEMMA QuietJobs ==
    ASSUME Typed, NEW a \in Actors,
           \/ Enqueue(a) \/ TooFew(a) \/ Invite(a) \/ Retire(a) \/ ReleaseOne(a) \/ Requeue(a)
           \/ TransferFails(a) \/ BindSession(a) \/ Gone(a)
    PROVE  Quiet
<1>1. UNCHANGED <<match, clock, paid>>
  BY DEF Enqueue, TooFew, Invite, Retire, ReleaseOne, Requeue, TransferFails, BindSession, Gone
<1>2. job[a] \in Jobs
  BY Regroup DEF JobTyped, JobTypes
<1>3. ASSUME NEW rest, NEW again, AfterRelease(a, rest, again) PROVE Harmless
  <2> DEFINE r == [job[a] EXCEPT !.op = "release", !.todo = rest, !.flag = again, !.q = None, !.n = 0]
  <2>1. r.op = "release"
    BY <1>2 DEF Jobs
  <2>2. \/ job' = [job EXCEPT ![a] = r]
        \/ Begin(a, "form", 0, job[a].p)
        \/ End(a)
    BY <1>3 DEF AfterRelease
  <2> HIDE DEF r
  <2> QED BY <2>1, <2>2, HarmlessJob, HarmlessBegin, HarmlessEnd
<1>4. Harmless
  <2>1. CASE Enqueue(a)
    BY <2>1, HarmlessGoto DEF Enqueue
  <2>2. CASE TooFew(a) \/ Gone(a)
    BY <2>2, HarmlessEnd DEF TooFew, Gone
  <2>3. CASE Retire(a) \/ TransferFails(a)
    <3>1. \E op \in {"release", "cancel"} :
            \E todo : job' = [job EXCEPT ![a].op = op, ![a].todo = todo]
      BY <2>3, Zenon DEF Retire, TransferFails
    <3> QED BY <3>1, HarmlessLoop
  <2>4. CASE BindSession(a)
    <3>1. End(a) \/ Begin(a, "begin round", job[a].m, job[a].p)
      BY <2>4 DEF BindSession
    <3>2. "begin round" \notin {"over", "publish", "pay"}
      OBVIOUS
    <3>3. \A m, p : Begin(a, "begin round", m, p) => Harmless
      BY Zenon, <3>2, HarmlessBegin
    <3> QED BY <3>1, <3>3, HarmlessEnd
  <2>5. CASE Invite(a)
    <3>1. PICK p \in job[a].todo : Invite(a)!2!(p)
      BY <2>5 DEF Invite
    <3> DEFINE r == [job[a] EXCEPT !.todo = @ \ {p},
                                   !.op = IF job[a].todo = {p} THEN "arm accept" ELSE @]
    <3>2. job' = [job EXCEPT ![a] = r]
      BY <3>1
    <3>3. r.op \in {"invite", "arm accept"}
      BY <1>2, <2>5 DEF Jobs, Invite, At
    <3> HIDE DEF r
    <3> QED BY <3>2, <3>3, HarmlessJob
  <2>6. CASE ReleaseOne(a)
    <3>1. PICK p \in job[a].todo : ReleaseOne(a)!2!(p)
      BY <2>6 DEF ReleaseOne
    <3> DEFINE r == [job[a] EXCEPT !.op = "requeue", !.todo = @ \ {p}, !.q = p,
                                   !.n = entry[job[a].m][p].session]
    <3>2. job' = [job EXCEPT ![a] = r] \/ AfterRelease(a, job[a].todo \ {p}, job[a].flag)
      BY <3>1
    <3>3. r.op = "requeue"
      BY <1>2 DEF Jobs
    <3> HIDE DEF r
    <3> QED BY <3>2, <3>3, <1>3, HarmlessJob
  <2>7. CASE Requeue(a)
    BY <2>7, <1>3 DEF Requeue
  <2> QED BY <2>1, <2>2, <2>3, <2>4, <2>5, <2>6, <2>7
<1> QED BY <1>1, <1>4, SamePhases, SameTimers DEF Quiet, NobodyPays, Harmless

LEMMA QuietForm ==
    ASSUME Typed, NEW a \in Actors, Form(a)
    PROVE  Quiet
<1>1. PICK m \in NextMatch, pair \in SUBSET Queued : Form(a)!2!(m, pair)
  BY DEF Form
<1>2. m \in Matches /\ phase[m] = "unformed"
  BY <1>1 DEF NextMatch
<1>3. FinalStep /\ QuietRounds
  BY <1>1, <1>2, Regroup DEF Form, PhaseTypes, FinalStep, QuietRounds
<1>4. Harmless
  <2> DEFINE r == [job[a] EXCEPT !.op = "invite", !.m = m, !.todo = pair]
  <2>1. job' = [job EXCEPT ![a] = r]
    BY <1>1
  <2>2. r.op = "invite"
    BY Regroup DEF JobTyped, JobTypes, Jobs
  <2> HIDE DEF r
  <2> QED BY <2>1, <2>2, HarmlessJob
<1> QED BY <1>3, <1>4, SameTimers DEF Form, Quiet, NobodyPays, Harmless

\* Timers armed or cancelled by steps that leave the matches alone.
LEMMA QuietClock ==
    ASSUME Typed, NEW a \in Actors,
           \/ ArmAccept(a) \/ CancelClock(a) \/ TransferClock(a) \/ ArmLoad(a) \/ RoundClock(a)
           \/ ArmCountdown(a) \/ ArmRound(a) \/ Drop(a)
    PROVE  Quiet
<1>1. UNCHANGED <<match, paid>>
  BY DEF ArmAccept, CancelClock, TransferClock, ArmLoad, RoundClock, ArmCountdown, ArmRound, Drop
<1>2. OverClock
  BY ArmOther, CancelAll
     DEF ArmAccept, CancelClock, TransferClock, ArmLoad, RoundClock, ArmCountdown, ArmRound, Drop
<1>3. Harmless
  <2>1. CASE TransferClock(a)
    <3>1. job' = [job EXCEPT ![a].op = "transfer one", ![a].todo = seats[job[a].m]]
      BY <2>1 DEF TransferClock
    <3>2. "transfer one" \notin {"over", "publish", "pay"}
      OBVIOUS
    <3> QED BY Zenon, <3>1, <3>2, HarmlessLoop
  <2>2. CASE ~ TransferClock(a)
    <3>1. End(a) \/ \E op \in {"cancel phase", "arm countdown", "gone"} : Goto(a, op)
      BY <2>2 DEF ArmAccept, CancelClock, ArmLoad, RoundClock, ArmCountdown, ArmRound, Drop
    <3> QED BY <3>1, HarmlessEnd, HarmlessGoto
  <2> QED BY <2>1, <2>2
<1> QED BY <1>1, <1>2, <1>3, SamePhases DEF Quiet, NobodyPays, Harmless

\* Steps that decide on the phase of a match that has not ended.
LEMMA QuietPhases ==
    ASSUME Typed, NEW a \in Actors, CancelPhase(a) \/ StartTransfer(a) \/ BeginRound(a)
    PROVE  Quiet
<1>1. UNCHANGED <<winner, won, started, settled, clock, paid>>
  BY DEF CancelPhase, StartTransfer, BeginRound
<1>2. FinalStep /\ QuietRounds
  BY <1>1, Regroup DEF CancelPhase, StartTransfer, BeginRound, PhaseTypes, FinalStep, QuietRounds
<1>3. Harmless
  BY HarmlessEnd, HarmlessGoto DEF CancelPhase, StartTransfer, BeginRound
<1> QED BY <1>1, <1>2, <1>3, SameTimers DEF Quiet, NobodyPays, Harmless

\* Steps on the slot of one player.
LEMMA QuietSlots ==
    ASSUME Typed, NEW a \in Actors, TransferOne(a) \/ BindEntry(a) \/ Lost(a)
    PROVE  Quiet
<1>1. UNCHANGED <<phase, winner, won, started, settled, clock, paid>>
  BY DEF TransferOne, BindEntry, Lost
<1>2. FinalStep /\ QuietRounds
  BY <1>1 DEF FinalStep, QuietRounds
<1>3. job[a] \in Jobs
  BY Regroup DEF JobTyped, JobTypes
<1>4. Harmless
  <2>1. CASE TransferOne(a)
    <3>1. PICK p \in job[a].todo : TransferOne(a)!2!(p)
      BY <2>1 DEF TransferOne
    <3> DEFINE r == [job[a] EXCEPT !.todo = @ \ {p},
                                   !.op = IF job[a].todo = {p} THEN "arm load" ELSE @]
    <3>2. job' = [job EXCEPT ![a] = r]
      BY <3>1
    <3>3. r.op \in {"transfer one", "arm load"}
      BY <1>3, <2>1 DEF Jobs, TransferOne, At
    <3> HIDE DEF r
    <3> QED BY <3>2, <3>3, HarmlessJob
  <2>2. CASE BindEntry(a)
    <3>1. PICK flag : job' = [job EXCEPT ![a].op = "bind session", ![a].flag = flag]
      BY <2>2 DEF BindEntry
    <3> DEFINE r == [job[a] EXCEPT !.op = "bind session", !.flag = flag]
    <3>2. job' = [job EXCEPT ![a] = r]
      BY <3>1
    <3>3. r.op = "bind session"
      BY <1>3 DEF Jobs
    <3> HIDE DEF r
    <3> QED BY <3>2, <3>3, HarmlessJob
  <2>3. CASE Lost(a)
    BY <2>3, HarmlessGoto DEF Lost
  <2> QED BY <2>1, <2>2, <2>3
<1> QED BY <1>1, <1>2, <1>4, SameTimers DEF Quiet, NobodyPays, Harmless

LEMMA QuietWorkers ==
    ASSUME Typed, NEW w \in Workers, Expire(w) \/ RoundIsOver(w)
    PROVE  Quiet
<1>1. UNCHANGED <<match, clock, paid>>
  BY DEF Expire, RoundIsOver
<1>2. Harmless
  BY HarmlessEnd, HarmlessGoto DEF Expire, RoundIsOver, Actors
<1> QED BY <1>1, <1>2, SamePhases, SameTimers DEF Quiet, NobodyPays, Harmless

-----------------------------------------------------------------------------
(* The steps that play, decide and pay. *)

LEMMA FireKeeps ==
    ASSUME MatchInv, Typed', NEW w \in Workers, NEW m \in Matches, NEW key \in Keys, Fire(w, m, key)
    PROVE  MatchInv' /\ FinalStep
<1> DEFINE r == [Idle EXCEPT !.op = key, !.m = m,
                             !.n = IF key = "countdown" THEN generation[m] ELSE 0]
<1>1. job' = [job EXCEPT ![w] = r] /\ w \in Actors /\ UNCHANGED <<match, paid>> /\ Typed
  BY DEF Fire, Actors, MatchInv, Typed
<1>2. r.op = key /\ r.m = m /\ key # "pay" /\ key # "publish"
  BY DEF Idle, Keys
<1> HIDE DEF r
<1>3. key = "over" => phase'[m] = "over"
  BY <1>1 DEF Fire, MatchInv, FinalInv, match
<1>4. OverJobs /\ NobodyPays
  BY <1>1, <1>2, <1>3, Regroup DEF JobTyped, JobTypes, OverJobs, Finishing, NobodyPays, match
<1>5. OverClock
  BY <1>1, Regroup DEF Fire, ClockTypes, OverClock
<1> QED BY <1>1, <1>4, <1>5, SamePhases, QuietKeeps DEF Quiet

LEMMA PublishKeeps ==
    ASSUME MatchInv, Typed', NEW w \in Workers, Publish(w)
    PROVE  MatchInv' /\ FinalStep
<1>1. Typed /\ UNCHANGED <<match, paid>> /\ w \in Actors /\ job[w].op = "publish"
  BY DEF MatchInv, Typed, Publish, Actors, At
<1>2. Harmless
  BY <1>1, HarmlessEnd DEF Publish
<1>3. job[w].flag => phase'[job[w].m] = "over"
  BY <1>1 DEF MatchInv, FinalInv, match
<1>4. OverClock
  BY <1>1, <1>3, ArmOther DEF Publish
<1> QED BY <1>1, <1>2, <1>4, SamePhases, QuietKeeps DEF Quiet, NobodyPays, Harmless

LEMMA StartRoundKeeps ==
    ASSUME MatchInv, Typed', NEW w \in Workers, StartRound(w)
    PROVE  MatchInv' /\ FinalStep
<1>1. Typed /\ UNCHANGED <<winner, won, settled, clock, paid>> /\ w \in Actors
  BY DEF MatchInv, Typed, StartRound, Actors
<1>2. job[w] \in Jobs /\ job[w].m \in Matches
  BY <1>1, Regroup, AtMatch DEF JobTyped, At, MatchOps, Keys, StartRound
<1>3. Harmless
  <2> DEFINE r == [job[w] EXCEPT !.op = "arm round", !.n = 0]
  <2>1. r.op = "arm round"
    BY <1>2 DEF Jobs
  <2>2. job' = [job EXCEPT ![w] = r] \/ End(w)
    BY DEF StartRound
  <2> HIDE DEF r
  <2> QED BY <1>1, <2>1, <2>2, HarmlessJob, HarmlessEnd
<1>4. FinalStep
  BY <1>1, <1>2, Regroup DEF StartRound, PhaseTypes, FinalStep
<1>5. RoundsInv'
  <2>1. CASE UNCHANGED <<phase, started>>
    BY <1>1, <2>1, RoundsKept DEF MatchInv, QuietRounds
  <2>2. CASE /\ phase[job[w].m] = "countdown"
             /\ phase' = [phase EXCEPT ![job[w].m] = "running"]
             /\ started' = [started EXCEPT ![job[w].m] = @ + 1]
    <3> SUFFICES ASSUME NEW m \in Matches, NEW p \in Players, NEW q \in Players, p # q
                 PROVE  (won[m][p] + won[m][q]
                           + (IF phase[m] = "running" THEN 1 ELSE 0) <= started[m])'
      BY DEF RoundsInv
    <3>1. won[m][p] \in Nat /\ won[m][q] \in Nat /\ started[m] \in Nat
      BY <1>1, Regroup DEF SeatTypes, PhaseTypes
    <3>2. won[m][p] + won[m][q] + (IF phase[m] = "running" THEN 1 ELSE 0) <= started[m]
      BY DEF MatchInv, RoundsInv
    <3>3. CASE m = job[w].m
      <4>1. phase[m] # "running" /\ started'[m] = started[m] + 1
        BY <1>1, <1>2, <2>2, <3>3, Regroup DEF PhaseTypes
      <4> QED BY <1>1, <3>1, <3>2, <4>1
    <3>4. CASE m # job[w].m
      <4>1. phase'[m] = phase[m] /\ started'[m] = started[m]
        BY <1>1, <2>2, <3>4, Regroup DEF PhaseTypes
      <4> QED BY <1>1, <3>1, <3>2, <4>1
    <3> QED BY <3>3, <3>4
  <2> QED BY <2>1, <2>2 DEF StartRound
<1> QED BY <1>1, <1>3, <1>4, <1>5, FinalKept, PayKept, SameTimers
        DEF MatchInv, Typed, Harmless, NobodyPays

LEMMA ClaimKeeps ==
    ASSUME MatchInv, Typed', NEW w \in Workers, NEW m \in Matches, NEW p \in Players, Claim(w, m, p)
    PROVE  MatchInv' /\ FinalStep
<1> DEFINE over == won[m][p] + 1 >= RoundsToWin
           r == [Idle EXCEPT !.op = "publish", !.m = m, !.flag = over]
<1>1. /\ Typed /\ w \in Actors /\ CancelTimers(m) /\ phase[m] = "running"
      /\ UNCHANGED <<settled, started, paid>>
      /\ won' = [won EXCEPT ![m][p] = @ + 1]
      /\ phase' = [phase EXCEPT ![m] = IF over THEN "over" ELSE "intermission"]
      /\ winner' = IF over THEN [winner EXCEPT ![m] = p] ELSE winner
      /\ job' = [job EXCEPT ![w] = r]
  BY DEF MatchInv, Typed, Claim, Actors
<1>2. r.op = "publish" /\ r.m = m /\ (r.flag => over)
  BY DEF Idle
<1> HIDE DEF over, r
<1>3. FinalStep /\ (over => phase'[m] = "over")
  BY <1>1, Regroup DEF PhaseTypes, FinalStep
<1>4. OverJobs /\ NobodyPays
  BY <1>1, <1>2, <1>3, Regroup DEF JobTyped, JobTypes, OverJobs, Finishing, NobodyPays
<1>5. OverClock
  BY <1>1, CancelAll
<1>6. RoundsInv'
  <2> SUFFICES ASSUME NEW n \in Matches, NEW x \in Players, NEW y \in Players, x # y
               PROVE  (won[n][x] + won[n][y]
                         + (IF phase[n] = "running" THEN 1 ELSE 0) <= started[n])'
    BY DEF RoundsInv
  <2>1. won[n][x] \in Nat /\ won[n][y] \in Nat /\ started[n] \in Nat /\ started' = started
    BY <1>1, Regroup DEF SeatTypes, PhaseTypes
  <2>2. won[n][x] + won[n][y] + (IF phase[n] = "running" THEN 1 ELSE 0) <= started[n]
    BY DEF MatchInv, RoundsInv
  <2>3. CASE n = m
    <3>1. phase[n] = "running" /\ phase'[n] # "running"
      BY <1>1, <2>3, Regroup DEF PhaseTypes
    <3>2. /\ won'[n][x] = won[n][x] \/ (x = p /\ won'[n][x] = won[n][x] + 1)
          /\ won'[n][y] = won[n][y] \/ (y = p /\ won'[n][y] = won[n][y] + 1)
      BY <1>1, <2>3, Regroup DEF SeatTypes
    <3> QED BY <2>1, <2>2, <3>1, <3>2
  <2>4. CASE n # m
    <3>1. phase'[n] = phase[n] /\ won'[n] = won[n]
      BY <1>1, <2>4, Regroup DEF PhaseTypes, SeatTypes
    <3> QED BY <2>1, <2>2, <3>1
  <2> QED BY <2>3, <2>4
<1> QED BY <1>1, <1>3, <1>4, <1>5, <1>6, FinalKept, PayKept DEF MatchInv, Typed

LEMMA SettleKeeps ==
    ASSUME MatchInv, Typed', NEW a \in Actors, Settle(a)
    PROVE  MatchInv' /\ FinalStep
<1> DEFINE m == job[a].m
           r == [job[a] EXCEPT !.op = "pay", !.todo = seats[m], !.flag = ~ settled[m]]
<1>1. /\ Typed /\ job[a].op = "over" /\ CancelTimers(m)
      /\ UNCHANGED <<winner, won, started, paid>>
      /\ settled' = [settled EXCEPT ![m] = TRUE]
      /\ phase' = [phase EXCEPT ![m] = "over"]
      /\ job' = [job EXCEPT ![a] = r]
  BY DEF MatchInv, Typed, Settle, At
<1>2. job[a] \in Jobs /\ m \in Matches /\ phase[m] = "over"
  BY <1>1, Regroup, AtMatch DEF JobTyped, MatchOps, Keys, MatchInv, FinalInv
<1>3. seats[m] \subseteq Players
  BY <1>1, <1>2, Regroup DEF SeatTypes
<1>4. r.op = "pay" /\ r.m = m /\ (r.flag <=> ~ settled[m]) /\ r.todo = seats[m]
  BY <1>2 DEF Jobs
<1> HIDE DEF r
<1>5. phase' = phase
  BY <1>1, <1>2, Regroup DEF PhaseTypes
<1>6. FinalStep /\ QuietRounds
  BY <1>1, <1>5 DEF FinalStep, QuietRounds
<1>7. OverJobs /\ OverClock
  BY <1>1, <1>4, Regroup, CancelAll DEF JobTyped, JobTypes, OverJobs, Finishing
<1>8. PayInv'
  <2>1. \A n \in Matches, b \in Actors : Paying(b, n)' => Paying(b, n) \/ (b = a /\ n = m /\ ~ settled[m])
    BY <1>1, <1>4, Regroup DEF JobTyped, JobTypes, Paying
  <2>2. \A b \in Actors : b # a => job'[b] = job[b]
    BY <1>1, Regroup DEF JobTyped, JobTypes
  <2>3. job'[a] = r /\ ~ Paying(a, m)
    BY <1>1, Regroup DEF JobTyped, JobTypes, Paying
  <2>4. \A n \in Matches : settled'[n] <=> (settled[n] \/ n = m)
    BY <1>1, Regroup DEF PhaseTypes
  <2> SUFFICES ASSUME NEW n \in Matches
               PROVE  /\ ~ settled'[n] => \A p \in Players : paid'[n][p] = 0
                      /\ \A p \in Players : paid'[n][p] <= 1
                      /\ \A b \in Actors : Paying(b, n)' =>
                           settled'[n] /\ \A p \in job'[b].todo : paid'[n][p] = 0
                      /\ \A b, c \in Actors : Paying(b, n)' /\ Paying(c, n)' => b = c
    BY DEF PayInv
  <2>5. PayInv
    BY DEF MatchInv
  <2>6. (~ settled'[n] => \A p \in Players : paid'[n][p] = 0) /\ \A p \in Players : paid'[n][p] <= 1
    BY <1>1, <2>4, <2>5 DEF PayInv
  <2>7. ASSUME NEW b \in Actors, Paying(b, n)'
        PROVE  settled'[n] /\ \A p \in job'[b].todo : paid'[n][p] = 0
    <3>1. CASE b = a
      <4>1. n = m
        BY <1>4, <2>3, <2>7, <3>1 DEF Paying
      <4>2. ~ settled[m]
        BY <2>1, <2>3, <2>7, <3>1, <4>1
      <4> QED BY <1>1, <1>3, <1>4, <2>3, <2>4, <2>5, <3>1, <4>1, <4>2 DEF PayInv
    <3>2. CASE b # a
      <4>1. Paying(b, n) /\ job'[b] = job[b]
        BY <2>1, <2>2, <2>7, <3>2
      <4> QED BY <1>1, <2>4, <2>5, <4>1 DEF PayInv
    <3> QED BY <3>1, <3>2
  <2>8. ASSUME NEW b \in Actors, NEW c \in Actors, Paying(b, n)', Paying(c, n)'
        PROVE  b = c
    <3>1. CASE n = m /\ ~ settled[m]
      BY <2>1, <2>5, <2>8, <3>1 DEF PayInv
    <3>2. CASE ~ (n = m /\ ~ settled[m])
      BY <2>1, <2>5, <2>8, <3>2 DEF PayInv
    <3> QED BY <3>1, <3>2
  <2> QED BY <2>6, <2>7, <2>8
<1> QED BY <1>1, <1>6, <1>7, <1>8, FinalKept, RoundsKept DEF MatchInv, Typed

LEMMA PayOneKeeps ==
    ASSUME MatchInv, Typed', NEW a \in Actors, PayOne(a)
    PROVE  MatchInv' /\ FinalStep
<1> DEFINE m == job[a].m
<1>1. PICK p \in job[a].todo : PayOne(a)!2!(p)
  BY DEF PayOne
<1>2. Typed /\ UNCHANGED <<match, clock>> /\ job[a].op = "pay"
  BY DEF MatchInv, Typed, PayOne, At
<1>3. job[a] \in Jobs /\ m \in Matches /\ job[a].todo \subseteq Players
  BY <1>2, Regroup, AtMatch DEF JobTyped, MatchOps, Jobs
<1>4. \E r : /\ job' = [job EXCEPT ![a] = r]
             /\ \/ r.op \in {"idle", "gone", "drop"}
                \/ r.op = "pay" /\ r.m = m /\ r.flag = job[a].flag /\ r.todo = job[a].todo \ {p}
  <2> DEFINE r == [job[a] EXCEPT !.todo = @ \ {p}]
  <2>1. r.op = "pay" /\ r.m = m /\ r.flag = job[a].flag /\ r.todo = job[a].todo \ {p}
    BY <1>2, <1>3 DEF Jobs
  <2>2. \/ job' = [job EXCEPT ![a] = r]
        \/ End(a)
        \/ Begin(a, job[a].after, m, job[a].p)
    BY <1>1
  <2>3. End(a) => job' = [job EXCEPT ![a] = Idle] /\ Idle.op = "idle"
    BY DEF End, Idle
  <2> DEFINE g == [Idle EXCEPT !.op = job[a].after, !.m = m, !.p = job[a].p]
  <2>5. Begin(a, job[a].after, m, job[a].p) => job' = [job EXCEPT ![a] = g]
    BY DEF Begin
  <2>6. g.op \in {"idle", "gone", "drop"}
    BY <1>3 DEF Idle, Jobs
  <2> HIDE DEF r, g
  <2> QED BY <2>1, <2>2, <2>3, <2>5, <2>6
<1>5. PICK r : /\ job' = [job EXCEPT ![a] = r]
               /\ \/ r.op \in {"idle", "gone", "drop"}
                  \/ r.op = "pay" /\ r.m = m /\ r.flag = job[a].flag /\ r.todo = job[a].todo \ {p}
  BY <1>4
<1>6. job'[a] = r /\ \A b \in Actors : b # a => job'[b] = job[b]
  BY <1>2, <1>5, Regroup DEF JobTyped, JobTypes
<1>7. OverJobs
  BY <1>5, <1>6 DEF OverJobs, Finishing
<1>8. PayInv'
  <2>1. \A n \in Matches, b \in Actors :
          Paying(b, n)' => /\ Paying(b, n)
                           /\ job'[b].todo = IF b = a THEN job[a].todo \ {p} ELSE job[b].todo
    BY <1>2, <1>5, <1>6 DEF Paying
  <2>2. paid' = paid \/ (job[a].flag /\ paid' = [paid EXCEPT ![m][p] = @ + 1])
    BY <1>1
  <2>3. PayInv /\ settled' = settled
    BY <1>2 DEF MatchInv, match
  <2>4. paid \in [Matches -> [Players -> Nat]]
    BY <1>2, Regroup DEF PaidTypes
  <2>5. CASE paid' = paid
    <3>1. ASSUME NEW n \in Matches, NEW b \in Actors, Paying(b, n)'
          PROVE  settled'[n] /\ \A x \in job'[b].todo : paid'[n][x] = 0
      BY <2>1, <2>3, <2>5, <3>1 DEF PayInv
    <3>2. ASSUME NEW n \in Matches, NEW b \in Actors, NEW c \in Actors, Paying(b, n)', Paying(c, n)'
          PROVE  b = c
      BY <2>1, <2>3, <3>2 DEF PayInv
    <3> QED BY <2>3, <2>5, <3>1, <3>2 DEF PayInv
  <2>6. CASE job[a].flag /\ paid' = [paid EXCEPT ![m][p] = @ + 1]
    <3>1. Paying(a, m)
      BY <1>2, <2>6 DEF Paying
    <3>2. settled[m] /\ paid[m][p] = 0 /\ \A b \in Actors : Paying(b, m) => b = a
      BY <1>1, <1>3, <2>3, <3>1 DEF PayInv
    <3>3. /\ paid'[m][p] = 1
          /\ \A x \in Players : x # p => paid'[m][x] = paid[m][x]
          /\ \A n \in Matches : n # m => paid'[n] = paid[n]
      BY <1>3, <2>4, <2>6, <3>2
    <3>4. ASSUME NEW n \in Matches
          PROVE  (~ settled'[n] => \A x \in Players : paid'[n][x] = 0)
                 /\ \A x \in Players : paid'[n][x] <= 1
      <4>1. CASE n = m
        <5>1. \A x \in Players : paid[m][x] <= 1
          BY <1>3, <2>3 DEF PayInv
        <5>2. \A x \in Players : paid'[m][x] <= 1
          BY <3>3, <5>1
        <5> QED BY <2>3, <3>2, <4>1, <5>2
      <4>2. CASE n # m
        BY <2>3, <3>3, <4>2 DEF PayInv
      <4> QED BY <4>1, <4>2
    <3>5. ASSUME NEW n \in Matches, NEW b \in Actors, Paying(b, n)'
          PROVE  settled'[n] /\ \A x \in job'[b].todo : paid'[n][x] = 0
      <4>1. settled[n] /\ \A x \in job[b].todo : paid[n][x] = 0
        BY <2>1, <2>3, <3>5 DEF PayInv
      <4>2. CASE n = m
        <5>1. b = a
          BY <2>1, <3>2, <3>5, <4>2
        <5>2. job'[b].todo = job[a].todo \ {p}
          BY <2>1, <3>5, <5>1
        <5> QED BY <1>3, <2>3, <3>3, <4>1, <4>2, <5>1, <5>2
      <4>3. CASE n # m
        <5>1. job'[b].todo \subseteq job[b].todo
          BY <2>1, <3>5
        <5> QED BY <2>3, <3>3, <4>1, <4>3, <5>1
      <4> QED BY <4>2, <4>3
    <3>6. ASSUME NEW n \in Matches, NEW b \in Actors, NEW c \in Actors, Paying(b, n)', Paying(c, n)'
          PROVE  b = c
      BY <2>1, <2>3, <3>6 DEF PayInv
    <3> QED BY <3>4, <3>5, <3>6 DEF PayInv
  <2> QED BY <2>2, <2>5, <2>6
<1> QED BY <1>2, <1>7, <1>8, SamePhases, SameTimers, FinalKept, RoundsKept DEF MatchInv, Typed

LEMMA ForfeitKeeps ==
    ASSUME MatchInv, Typed', NEW a \in Actors, Forfeit(a)
    PROVE  MatchInv' /\ FinalStep
<1> DEFINE m == job[a].m
           decided == phase[m] \in {"over", "cancelled"}
<1>1. Typed /\ UNCHANGED <<won, started, settled, clock, paid>>
  BY DEF MatchInv, Typed, Forfeit
<1>2. job[a] \in Jobs /\ m \in Matches
  BY <1>1, Regroup, AtMatch DEF JobTyped, At, MatchOps, Forfeit
<1> DEFINE remaining == InMatch(m) \ {job[a].p}
           anyone == \E q \in seats[m] \ {job[a].p} : entry[m][q].session # 0 /\ ~ entry[m][q].left
           after == IF anyone THEN "gone" ELSE "drop"
<1>3. /\ phase' = [phase EXCEPT ![m] = IF decided THEN @
                                       ELSE IF remaining = {} THEN "cancelled" ELSE "over"]
      /\ \/ Goto(a, after) /\ UNCHANGED winner
         \/ /\ ~ decided /\ remaining # {}
            /\ winner' = [winner EXCEPT ![m] = CHOOSE q \in remaining : TRUE]
            /\ job' = [job EXCEPT ![a].op = "over", ![a].after = after]
      /\ after \in {"gone", "drop"}
  BY DEF Forfeit
<1> HIDE DEF remaining, after
<1> HIDE DEF decided
<1>4. FinalStep /\ QuietRounds
  <2>1. \A n \in Matches : n # m => phase'[n] = phase[n] /\ winner'[n] = winner[n]
    BY <1>1, <1>3, Regroup DEF PhaseTypes
  <2>2. decided => phase'[m] = phase[m] /\ winner' = winner
    <3>1. CASE UNCHANGED winner
      BY <1>1, <1>2, <1>3, <3>1, Regroup DEF PhaseTypes
    <3>2. CASE ~ decided
      BY <3>2
    <3> QED BY <1>3, <3>1, <3>2
  <2>3. ~ decided => phase'[m] # "running"
    BY <1>1, <1>2, <1>3, Regroup DEF PhaseTypes
  <2> QED BY <1>1, <2>1, <2>2, <2>3 DEF decided, FinalStep, QuietRounds
<1>5. Harmless \/ (OverJobs /\ \A b \in Actors : job'[b] = job[b] \/ job'[b].op # "pay")
  <2>1. CASE Goto(a, after)
    BY <1>1, <1>3, <2>1, HarmlessGoto
  <2>2. CASE ~ decided /\ remaining # {} /\ job' = [job EXCEPT ![a].op = "over", ![a].after = after]
    <3> DEFINE r == [job[a] EXCEPT !.op = "over", !.after = after]
    <3>1. job' = [job EXCEPT ![a] = r]
      BY <2>2
    <3>2. r.op = "over" /\ r.m = m
      BY <1>2 DEF Jobs
    <3>3. phase'[m] = "over"
      BY <1>1, <1>2, <1>3, <2>2, Regroup DEF PhaseTypes
    <3> HIDE DEF r
    <3> QED BY <1>1, <3>1, <3>2, <3>3, Regroup DEF JobTyped, JobTypes, OverJobs, Finishing
  <2> QED BY <1>3, <2>1, <2>2
<1> QED BY <1>1, <1>4, <1>5, SameTimers, QuietKeeps DEF Quiet, NobodyPays, Harmless

-----------------------------------------------------------------------------
(* The invariant, and the theorems. *)

LEMMA StepKeeps ==
    ASSUME MatchInv, Typed', NEW a \in Actors, Step(a)
    PROVE  MatchInv' /\ FinalStep
<1>1. Typed
  BY DEF MatchInv, Typed
<1>2. CASE Settle(a) \/ PayOne(a) \/ Forfeit(a)
  BY <1>2, SettleKeeps, PayOneKeeps, ForfeitKeeps
<1>3. CASE ~ (Settle(a) \/ PayOne(a) \/ Forfeit(a))
  <2>1. Quiet
    BY <1>1, <1>3, QuietJobs, QuietForm, QuietClock, QuietPhases, QuietSlots DEF Step
  <2> QED BY <2>1, QuietKeeps
<1> QED BY <1>2, <1>3

LEMMA NextKeeps == MatchInv /\ [Next]_vars => MatchInv' /\ FinalStep
<1> SUFFICES ASSUME MatchInv, [Next]_vars PROVE MatchInv' /\ FinalStep
  OBVIOUS
<1>1. Typed /\ Typed'
  BY NextTypes DEF MatchInv, Typed
<1>2. CASE \E p \in Players : Client(p) \/ Arrives(p)
  <2>1. Quiet
    BY <1>1, <1>2, QuietClients, QuietAnswer DEF Client, Arrives
  <2> QED BY <1>1, <2>1, QuietKeeps
<1>3. CASE \E a \in Actors : Step(a)
  BY <1>1, <1>3, StepKeeps
<1>4. CASE \E w \in Workers : Work(w)
  <2>1. PICK w \in Workers : Work(w)
    BY <1>4
  <2>2. w \in Actors
    BY DEF Actors
  <2>3. CASE Expire(w) \/ RoundIsOver(w) \/ ArmRound(w)
    BY <1>1, <2>2, <2>3, QuietWorkers, QuietClock, QuietKeeps
  <2>4. CASE StartRound(w) \/ Publish(w)
    BY <1>1, <2>4, StartRoundKeeps, PublishKeeps
  <2>5. CASE ExpireRound(w)
    BY <1>1, <2>5, WonTypes, ClaimKeeps
  <2> QED BY <2>1, <2>3, <2>4, <2>5 DEF Work
<1>5. CASE \E m \in Matches : Fires(m)
  BY <1>1, <1>5, FireKeeps DEF Fires
<1>6. CASE \E w \in Workers, m \in Matches, p \in Players : Kill(w, m, p)
  BY <1>1, <1>6, WonTypes, ClaimKeeps
<1>7. CASE UNCHANGED vars
  <2>1. UNCHANGED <<match, clock, paid, job>>
    BY <1>7 DEF vars
  <2> QED BY <1>1, <2>1, SamePhases, SameTimers, HarmlessSame, QuietKeeps DEF Quiet, NobodyPays, Harmless
<1> QED BY <1>2, <1>3, <1>4, <1>5, <1>6, <1>7 DEF Next

LEMMA InitKeeps == Init => MatchInv
<1> SUFFICES ASSUME Init PROVE MatchInv
  OBVIOUS
<1>1. Typed
  BY InitTypes
<1>2. \A a \in Actors : job[a].op = "idle"
  BY DEF Init, Idle
<1>3. FinalInv
  BY <1>2 DEF Init, FinalInv
<1>4. RoundsInv
  BY DEF Init, RoundsInv
<1>5. PayInv
  BY <1>2 DEF Init, PayInv, Paying
<1> QED BY <1>1, <1>3, <1>4, <1>5 DEF MatchInv, Typed

LEMMA Invariant == Spec => []MatchInv
BY InitKeeps, NextKeeps, PTL DEF Spec

\* Every value has its type.
THEOREM TypeCorrect == Spec => []TypeOK
<1>1. MatchInv => TypeOK
  BY DEF MatchInv
<1> QED BY <1>1, Invariant, PTL

\* A match that is over or cancelled stays so and keeps its winner: every
\* thread that decides on a match looks at its phase under the lock it changes
\* it under, and who finishes it does so because it was over already.
THEOREM EndsStand == Spec => FinalPhaseStays
<1>1. MatchInv /\ [Next]_vars =>
        [\A m \in Matches : phase[m] \in {"over", "cancelled"} =>
           phase'[m] = phase[m] /\ winner'[m] = winner[m]]_vars
  BY NextKeeps DEF FinalStep
<1> QED BY <1>1, Invariant, PTL DEF Spec, FinalPhaseStays

\* No round is won twice, by a kill and its timer or by two kills.
THEOREM RoundsCount == Spec => []RoundsAreWonOnce
<1>1. MatchInv => RoundsAreWonOnce
  <2> SUFFICES ASSUME MatchInv, NEW m \in Matches, NEW p \in seats[m], NEW q \in seats[m], p # q
               PROVE  won[m][p] + won[m][q] <= started[m]
    BY DEF RoundsAreWonOnce
  <2>1. Typed
    BY DEF MatchInv, Typed
  <2>2. p \in Players /\ q \in Players
    BY <2>1, Regroup DEF SeatTypes
  <2>3. won[m][p] \in Nat /\ won[m][q] \in Nat /\ started[m] \in Nat
    BY <2>1, <2>2, Regroup DEF SeatTypes, PhaseTypes
  <2> QED BY <2>2, <2>3 DEF MatchInv, RoundsInv
<1> QED BY <1>1, Invariant, PTL

\* Nobody is paid twice for a match, whether its last round, a departure or
\* both together end it.
PaidAtMostOnce == \A m \in Matches, p \in Players : paid[m][p] <= 1
THEOREM PayoutsCount == Spec => []PaidAtMostOnce
<1>1. MatchInv => PaidAtMostOnce
  BY DEF MatchInv, PayInv, PaidAtMostOnce
<1> QED BY <1>1, Invariant, PTL
=============================================================================
