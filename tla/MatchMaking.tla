----------------------------- MODULE MatchMaking -----------------------------
(***************************************************************************)
(* The one against one queue and the matches it produces, from the join    *)
(* command to the payout: services/matchmaking.py, the completion half of  *)
(* services/battleground.py and the shared state of                        *)
(* gameplay/pvp_match_state.py.                                            *)
(*                                                                         *)
(* Four kinds of thread run this code at once and take a lock only for     *)
(* single reads and writes: the receive thread (client commands), the      *)
(* deadline workers (match timers and kills), the thread that retires lost *)
(* sessions and the one that initialises a session on a new map.  A thread *)
(* is a job, a record that says where in a handler it stands; one action   *)
(* is one hold of the registry's, a match's or a session's lock.           *)
(*                                                                         *)
(* Each side is one player, so a side is named by its player and the first *)
(* kill decides a round.  Search windows, parties, objectives, bots and    *)
(* every message to a client are left out.                                 *)
(***************************************************************************)
EXTENDS Naturals, FiniteSets

CONSTANTS
    Players,        \* characters
    Workers,        \* threads of the deadline scheduler
    RoundsToWin,    \* MATCH_ROUNDS_TO_WIN
    MaxMatches,     \* bound: matches formed
    MaxSessions,    \* bound: connections of one player
    MaxEvents,      \* bound: matches formed and connections lost, together
    None            \* no player

ASSUME MatchesAssumption ==
    /\ MaxMatches \in Nat
    /\ RoundsToWin \in Nat \ {0}
    /\ MaxSessions \in Nat
    /\ MaxEvents \in Nat
    /\ None \notin Players

Matches == 1 .. MaxMatches
Phases == {"unformed", "inviting", "loading", "countdown", "running",
           "intermission", "over", "cancelled"}
Keys == {"accept", "load", "countdown", "round", "intermission", "over"}
Actors == {"receive", "lifecycle", "init"} \cup Workers

VARIABLES
    place,       \* where the client of a player is
    number,      \* which of its connections a player is on
    bound,       \* the gameplay_match of that session, 0 for None
    queue,       \* the session in a player's queue entry, 0 without an entry
    registered,  \* keys of MatchmakingRegistry.matches
    phase, seats, entry, won, winner, settled, timers, generation,
    started,     \* rounds started, for the properties
    cuts,        \* connections lost so far
    paid,        \* credits of the end of a match, for the properties
    job

players == <<place, number, bound, queue, cuts>>
match == <<phase, seats, entry, won, winner, settled, started>>
clock == <<timers, generation>>
vars == <<players, registered, match, clock, paid, job>>

\* op is the next step, m the match it is for, p the player whose gate the
\* thread holds, todo the participants a loop has left, q and n the participant
\* and the session (or the generation) in hand, flag and after what was decided.
Idle == [op |-> "idle", m |-> 0, p |-> None, todo |-> {}, q |-> None, n |-> 0,
         flag |-> FALSE, after |-> "idle"]
Vacant == [session |-> 0, answer |-> "none", arrived |-> FALSE, left |-> FALSE]

Init ==
    /\ place = [p \in Players |-> "away"]
    /\ number = [p \in Players |-> 0]
    /\ bound = [p \in Players |-> 0]
    /\ queue = [p \in Players |-> 0]
    /\ cuts = 0
    /\ registered = {}
    /\ phase = [m \in Matches |-> "unformed"]
    /\ seats = [m \in Matches |-> {}]
    /\ entry = [m \in Matches |-> [p \in Players |-> Vacant]]
    /\ won = [m \in Matches |-> [p \in Players |-> 0]]
    /\ winner = [m \in Matches |-> None]
    /\ settled = [m \in Matches |-> FALSE]
    /\ timers = [m \in Matches |-> {}]
    /\ generation = [m \in Matches |-> 0]
    /\ started = [m \in Matches |-> 0]
    /\ paid = [m \in Matches |-> [p \in Players |-> 0]]
    /\ job = [a \in Actors |-> Idle]

-----------------------------------------------------------------------------
(* What the handlers read.                                                 *)

Connected(p, n) == n = number[p] /\ place[p] \in {"hub", "loading", "arena"}

\* live_sessions, filtered by _arm_match_timer to those still connected
Hosts(m) == {p \in seats[m] :
               ~ entry[m][p].left /\ entry[m][p].session # 0
               /\ Connected(p, entry[m][p].session)}

InMatch(m) == {p \in seats[m] : entry[m][p].arrived /\ ~ entry[m][p].left}
EveryoneArrived(e, m) == \A p \in seats[m] : e[p].left \/ e[p].arrived

\* match_for_character: the oldest registered match that still holds a player
Held(p) == {m \in registered : p \in seats[m] /\ ~ entry[m][p].left}
MatchesOf(p) == {m \in Held(p) : \A other \in Held(p) : m <= other}

\* The handlers of a session and its retirement exclude each other
\* (gameplay_mutation_lock).
Gate(p) == \A a \in {"receive", "lifecycle", "init"} : job[a].p # p

Spent == cuts + Cardinality({m \in Matches : phase[m] # "unformed"})

-----------------------------------------------------------------------------
(* Steps of a thread.                                                      *)

At(a, op) == job[a].op = op
Goto(a, op) == job' = [job EXCEPT ![a].op = op]
End(a) == job' = [job EXCEPT ![a] = Idle]
Begin(a, op, m, p) == job' = [job EXCEPT ![a] = [Idle EXCEPT !.op = op, !.m = m, !.p = p]]

\* _arm_match_timer: without a connected session no timer is armed
Arm(m, key) ==
    /\ timers' = [timers EXCEPT ![m] = IF Hosts(m) = {} THEN @ ELSE @ \cup {key}]
    /\ UNCHANGED generation

\* _cancel_match_timers
CancelTimers(m) ==
    /\ generation' = [generation EXCEPT ![m] = @ + 1]
    /\ timers' = [timers EXCEPT ![m] = {}]

-----------------------------------------------------------------------------
(* The client.                                                             *)

\* A login, or the new connection that a map transfer ends in: the receive
\* thread opens it between two commands.
Connect(p) ==
    /\ At("receive", "idle")
    /\ place[p] \in {"away", "travelling"}
    /\ number[p] < MaxSessions
    /\ number' = [number EXCEPT ![p] = @ + 1]
    /\ place' = [place EXCEPT ![p] = IF @ = "away" THEN "hub" ELSE "loading"]
    /\ bound' = [bound EXCEPT ![p] = 0]
    /\ UNCHANGED <<cuts, queue, registered, match, clock, paid, job>>

\* _handle_join_match_queue, up to the last of its refusals
Join(p) ==
    /\ At("receive", "idle") /\ place[p] = "hub" /\ Gate(p)
    /\ bound[p] = 0
    /\ Begin("receive", "enqueue", 0, p)
    /\ UNCHANGED <<players, registered, match, clock, paid>>

Enqueue(a) ==
    /\ At(a, "enqueue")
    /\ queue' = [queue EXCEPT ![job[a].p] = number[job[a].p]]
    /\ Goto(a, "form")
    /\ UNCHANGED <<cuts, place, number, bound, registered, match, clock, paid>>

\* _handle_abort_match_queue
Abort(p) ==
    /\ At("receive", "idle") /\ place[p] = "hub" /\ Gate(p)
    /\ queue[p] # 0
    /\ queue' = [queue EXCEPT ![p] = 0]
    /\ UNCHANGED <<cuts, place, number, bound, registered, match, clock, paid, job>>

-----------------------------------------------------------------------------
(* Forming a match and inviting its players: _try_form_match.              *)

Queued == {p \in Players : queue[p] # 0}
NextMatch == {m \in Matches : /\ phase[m] = "unformed" /\ Spent < MaxEvents
                             /\ \A n \in 1 .. m - 1 : phase[n] # "unformed"}

\* form_match takes the players off the queue and registers their match
Form(a) ==
    /\ At(a, "form")
    /\ \E m \in NextMatch, pair \in SUBSET Queued :
         /\ Cardinality(pair) = 2
         /\ phase' = [phase EXCEPT ![m] = "inviting"]
         /\ seats' = [seats EXCEPT ![m] = pair]
         /\ entry' = [entry EXCEPT ![m] = [p \in Players |->
                        IF p \in pair THEN [Vacant EXCEPT !.session = queue[p]] ELSE Vacant]]
         /\ queue' = [p \in Players |-> IF p \in pair THEN 0 ELSE queue[p]]
         /\ registered' = registered \cup {m}
         /\ job' = [job EXCEPT ![a].op = "invite", ![a].m = m, ![a].todo = pair]
    /\ UNCHANGED <<cuts, place, number, bound, won, winner, settled, started, clock, paid>>

TooFew(a) ==
    /\ At(a, "form")
    /\ NextMatch = {} \/ Cardinality(Queued) < 2
    /\ End(a)
    /\ UNCHANGED <<players, registered, match, clock, paid>>

\* the loop over the participants, one flow_lock at a time
Invite(a) ==
    /\ At(a, "invite")
    /\ \E p \in job[a].todo :
         LET m == job[a].m IN
         /\ bound' = IF entry[m][p].session = number[p] THEN [bound EXCEPT ![p] = m] ELSE bound
         /\ job' = [job EXCEPT ![a].todo = @ \ {p},
                               ![a].op = IF job[a].todo = {p} THEN "arm accept" ELSE @]
    /\ UNCHANGED <<cuts, place, number, queue, registered, match, clock, paid>>

ArmAccept(a) ==
    /\ At(a, "arm accept")
    /\ Arm(job[a].m, "accept")
    /\ End(a)
    /\ UNCHANGED <<players, registered, match, paid>>

-----------------------------------------------------------------------------
(* The answer to an invitation: _handle_join_battleground_response.  A     *)
(* client answers only what it was asked.                                  *)

Respond(p, accepted) ==
    /\ At("receive", "idle") /\ place[p] = "hub" /\ Gate(p)
    /\ bound[p] # 0
    /\ \E m \in MatchesOf(p) :
       LET e == [entry[m] EXCEPT ![p].session = number[p],
                                 ![p].answer = IF accepted THEN "yes" ELSE "no"]
       IN
       /\ phase[m] = "inviting"
       /\ entry' = [entry EXCEPT ![m] = e]
       /\ IF \E q \in seats[m] : e[q].answer = "no" THEN Begin("receive", "cancel", m, p)
          ELSE IF \A q \in seats[m] : e[q].answer = "yes" THEN Begin("receive", "transfer", m, p)
          ELSE UNCHANGED job
    /\ UNCHANGED <<players, registered, phase, seats, won, winner, settled, started, clock, paid>>

-----------------------------------------------------------------------------
(* _cancel_match, from any thread: "Abandon a match that never started;    *)
(* requeue willing players."                                               *)

CancelClock(a) ==
    /\ At(a, "cancel")
    /\ CancelTimers(job[a].m)
    /\ Goto(a, "cancel phase")
    /\ UNCHANGED <<players, registered, match, paid>>

CancelPhase(a) ==
    /\ At(a, "cancel phase")
    /\ LET m == job[a].m IN
       IF phase[m] \in {"over", "cancelled"}
         THEN End(a) /\ UNCHANGED phase
         ELSE /\ phase' = [phase EXCEPT ![m] = "cancelled"]
              /\ Goto(a, "retire")
    /\ UNCHANGED <<players, registered, seats, entry, won, winner, settled, started, clock, paid>>

Retire(a) ==
    /\ At(a, "retire")
    /\ registered' = registered \ {job[a].m}
    /\ job' = [job EXCEPT ![a].op = "release", ![a].todo = seats[job[a].m]]
    /\ UNCHANGED <<players, match, clock, paid>>

\* After the last participant, look for new opponents if anyone was requeued.
AfterRelease(a, rest, again) ==
    IF rest # {} THEN job' = [job EXCEPT ![a].op = "release", ![a].todo = rest, ![a].flag = again,
                                         ![a].q = None, ![a].n = 0]
    ELSE IF again THEN Begin(a, "form", 0, job[a].p)
    ELSE End(a)

\* A participant whose session is gone is passed over.
ReleaseOne(a) ==
    /\ At(a, "release")
    /\ \E p \in job[a].todo :
         LET e == entry[job[a].m][p] IN
         /\ bound' = IF e.session = number[p] THEN [bound EXCEPT ![p] = 0] ELSE bound
         /\ IF e.session # 0 /\ e.answer = "yes"
              THEN job' = [job EXCEPT ![a].op = "requeue", ![a].todo = @ \ {p},
                                      ![a].q = p, ![a].n = e.session]
              ELSE AfterRelease(a, job[a].todo \ {p}, job[a].flag)
    /\ UNCHANGED <<cuts, place, number, queue, registered, match, clock, paid>>

Requeue(a) ==
    /\ At(a, "requeue")
    /\ queue' = [queue EXCEPT ![job[a].q] = job[a].n]
    /\ AfterRelease(a, job[a].todo, TRUE)
    /\ UNCHANGED <<cuts, place, number, bound, registered, match, clock, paid>>

-----------------------------------------------------------------------------
(* Sending the players to the arena: _start_battleground_transfer.         *)

StartTransfer(a) ==
    /\ At(a, "transfer")
    /\ LET m == job[a].m IN
       IF phase[m] # "inviting"
         THEN End(a) /\ UNCHANGED phase
         ELSE /\ phase' = [phase EXCEPT ![m] = "loading"]
              /\ Goto(a, "transfer clock")
    /\ UNCHANGED <<players, registered, seats, entry, won, winner, settled, started, clock, paid>>

TransferClock(a) ==
    /\ At(a, "transfer clock")
    /\ CancelTimers(job[a].m)
    /\ job' = [job EXCEPT ![a].op = "transfer one", ![a].todo = seats[job[a].m]]
    /\ UNCHANGED <<players, registered, match, paid>>

\* _begin_map_transfer takes the player out of the source map with the presence
\* event 'disconnect', and that event runs _release_matchmaking_session: the
\* participant keeps its slot and loses its session.
TransferOne(a) ==
    /\ At(a, "transfer one")
    /\ \E p \in job[a].todo :
         LET n == entry[job[a].m][p].session
             moves == n # 0 /\ n = number[p] /\ place[p] \in {"hub", "cut"}
         IN
         /\ place' = IF moves /\ place[p] = "hub" THEN [place EXCEPT ![p] = "travelling"] ELSE place
         /\ queue' = IF moves THEN [queue EXCEPT ![p] = 0] ELSE queue
         /\ bound' = IF moves THEN [bound EXCEPT ![p] = 0] ELSE bound
         /\ entry' = IF moves /\ bound[p] # 0 /\ entry[bound[p]][p].session = n
                       THEN [entry EXCEPT ![bound[p]][p].session = 0] ELSE entry
         /\ job' = [job EXCEPT ![a].todo = @ \ {p},
                               ![a].op = IF job[a].todo = {p} THEN "arm load" ELSE @]
    /\ UNCHANGED <<cuts, number, registered, phase, seats, won, winner, settled, started, clock, paid>>

\* The map is unavailable or cannot be read: an exception or False.
TransferFails(a) ==
    /\ At(a, "transfer one")
    /\ \E p \in job[a].todo : entry[job[a].m][p].session # 0
    /\ job' = [job EXCEPT ![a].op = "cancel", ![a].todo = {}]
    /\ UNCHANGED <<players, registered, match, clock, paid>>

ArmLoad(a) ==
    /\ At(a, "arm load")
    /\ Arm(job[a].m, "load")
    /\ End(a)
    /\ UNCHANGED <<players, registered, match, paid>>

-----------------------------------------------------------------------------
(* Arriving in the arena: _bind_battleground_session, run by the thread    *)
(* that initialises the new session.                                       *)

BindLookup(p) ==
    /\ At("init", "idle") /\ place[p] = "loading" /\ Gate(p)
    /\ place' = [place EXCEPT ![p] = "arena"]
    /\ IF MatchesOf(p) = {} THEN UNCHANGED job
       ELSE \E m \in MatchesOf(p) : Begin("init", "bind", m, p)
    /\ UNCHANGED <<cuts, number, bound, queue, registered, match, clock, paid>>

BindEntry(a) ==
    /\ At(a, "bind")
    /\ LET m == job[a].m
           p == job[a].p
           e == [entry[m] EXCEPT ![p].session = number[p], ![p].arrived = TRUE]
       IN
       /\ entry' = [entry EXCEPT ![m] = e]
       /\ job' = [job EXCEPT ![a].op = "bind session",
                             ![a].flag = EveryoneArrived(e, m) /\ phase[m] = "loading"]
    /\ UNCHANGED <<players, registered, phase, seats, won, winner, settled, started, clock, paid>>

BindSession(a) ==
    /\ At(a, "bind session")
    /\ bound' = [bound EXCEPT ![job[a].p] = job[a].m]
    /\ IF job[a].flag THEN Begin(a, "begin round", job[a].m, job[a].p) ELSE End(a)
    /\ UNCHANGED <<cuts, place, number, queue, registered, match, clock, paid>>

-----------------------------------------------------------------------------
(* Rounds.                                                                 *)

\* Mutant: a round begins whatever became of the match meanwhile.
BeginRoundAnyway(a) ==
    /\ At(a, "begin round")
    /\ phase' = [phase EXCEPT ![job[a].m] = "countdown"]
    /\ Goto(a, "round clock")
    /\ UNCHANGED <<players, registered, seats, entry, won, winner, settled, started, clock, paid>>

\* _begin_match_round
BeginRound(a) ==
    /\ At(a, "begin round")
    /\ LET m == job[a].m IN
       IF phase[m] \in {"over", "cancelled"}
         THEN End(a) /\ UNCHANGED phase
         ELSE /\ phase' = [phase EXCEPT ![m] = "countdown"]
              /\ Goto(a, "round clock")
    /\ UNCHANGED <<players, registered, seats, entry, won, winner, settled, started, clock, paid>>

RoundClock(a) ==
    /\ At(a, "round clock")
    /\ CancelTimers(job[a].m)
    /\ Goto(a, "arm countdown")
    /\ UNCHANGED <<players, registered, match, paid>>

ArmCountdown(a) ==
    /\ At(a, "arm countdown")
    /\ Arm(job[a].m, "countdown")
    /\ End(a)
    /\ UNCHANGED <<players, registered, match, paid>>

\* A worker takes a due timer; its generation is still the match's.
Fire(w, m, key) ==
    /\ At(w, "idle") /\ key \in timers[m]
    /\ timers' = [timers EXCEPT ![m] = @ \ {key}]
    /\ job' = [job EXCEPT ![w] = [Idle EXCEPT !.op = key, !.m = m,
                                              !.n = IF key = "countdown" THEN generation[m] ELSE 0]]
    /\ UNCHANGED <<players, registered, match, generation, paid>>

\* _expire_match_acceptance, _expire_match_loading and _resume_match_rounds read
\* the phase under the lock and act after it.
Expected == [accept |-> "inviting", load |-> "loading", intermission |-> "intermission"]

Expire(w) ==
    /\ job[w].op \in DOMAIN Expected
    /\ IF phase[job[w].m] = Expected[job[w].op]
         THEN Goto(w, IF job[w].op = "intermission" THEN "begin round" ELSE "cancel")
         ELSE End(w)
    /\ UNCHANGED <<players, registered, match, clock, paid>>

\* _start_match_round
StartRound(w) ==
    /\ At(w, "countdown")
    /\ LET m == job[w].m IN
       IF phase[m] = "countdown" /\ generation[m] = job[w].n
         THEN /\ phase' = [phase EXCEPT ![m] = "running"]
              /\ started' = [started EXCEPT ![m] = @ + 1]
              /\ job' = [job EXCEPT ![w].op = "arm round", ![w].n = 0]
         ELSE End(w) /\ UNCHANGED <<phase, started>>
    /\ UNCHANGED <<players, registered, seats, entry, won, winner, settled, clock, paid>>

ArmRound(w) ==
    /\ At(w, "arm round")
    /\ Arm(job[w].m, "round")
    /\ End(w)
    /\ UNCHANGED <<players, registered, match, paid>>

\* Mutant: a second result is taken during the intermission.
ClaimAgain(w, m, p) ==
    /\ phase[m] \in {"running", "intermission"}
    /\ CancelTimers(m)
    /\ won' = [won EXCEPT ![m][p] = @ + 1]
    /\ LET over == won[m][p] + 1 >= RoundsToWin IN
       /\ phase' = [phase EXCEPT ![m] = IF over THEN "over" ELSE "intermission"]
       /\ winner' = IF over THEN [winner EXCEPT ![m] = p] ELSE winner
       /\ job' = [job EXCEPT ![w] = [Idle EXCEPT !.op = "publish", !.m = m, !.flag = over]]
    /\ UNCHANGED <<players, registered, seats, entry, settled, started, paid>>

\* _claim_match_round with award_round: commits one result of a running round
Claim(w, m, p) ==
    /\ phase[m] = "running"
    /\ CancelTimers(m)
    /\ won' = [won EXCEPT ![m][p] = @ + 1]
    /\ LET over == won[m][p] + 1 >= RoundsToWin IN
       /\ phase' = [phase EXCEPT ![m] = IF over THEN "over" ELSE "intermission"]
       /\ winner' = IF over THEN [winner EXCEPT ![m] = p] ELSE winner
       /\ job' = [job EXCEPT ![w] = [Idle EXCEPT !.op = "publish", !.m = m, !.flag = over]]
    /\ UNCHANGED <<players, registered, seats, entry, settled, started, paid>>

\* _report_match_kill: the victim and the killer are bound to the same match
Kill(w, m, p) ==
    /\ At(w, "idle") /\ p \in seats[m]
    /\ InMatch(m) = seats[m] /\ \A q \in seats[m] : bound[q] = m
    /\ Claim(w, m, p)

\* _expire_match_round: the side that dealt more damage takes the round
ExpireRound(w) ==
    /\ At(w, "round")
    /\ \E p \in InMatch(job[w].m) : Claim(w, job[w].m, p)

RoundIsOver(w) ==
    /\ At(w, "round")
    /\ phase[job[w].m] # "running" \/ InMatch(job[w].m) = {}
    /\ End(w)
    /\ UNCHANGED <<players, registered, match, clock, paid>>

\* Mutant: the intermission gets no timer.
PublishOnlyTheEnd(w) ==
    /\ At(w, "publish")
    /\ IF job[w].flag THEN Arm(job[w].m, "over") ELSE UNCHANGED clock
    /\ End(w)
    /\ UNCHANGED <<players, registered, match, paid>>

\* _publish_match_round_result
Publish(w) ==
    /\ At(w, "publish")
    /\ Arm(job[w].m, IF job[w].flag THEN "over" ELSE "intermission")
    /\ End(w)
    /\ UNCHANGED <<players, registered, match, paid>>

-----------------------------------------------------------------------------
(* The end of a match.                                                     *)

\* _finish_match: claims the payout and then closes the match
Settle(a) ==
    /\ At(a, "over")
    /\ LET m == job[a].m IN
       /\ CancelTimers(m)
       /\ settled' = [settled EXCEPT ![m] = TRUE]
       /\ phase' = [phase EXCEPT ![m] = "over"]
       /\ job' = [job EXCEPT ![a].op = "pay", ![a].todo = seats[m], ![a].flag = ~ settled[m]]
    /\ UNCHANGED <<players, registered, seats, entry, won, winner, started, paid>>

\* one row of the loop; a participant without a session is passed over
PayOne(a) ==
    /\ At(a, "pay")
    /\ \E p \in job[a].todo :
         LET m == job[a].m IN
         /\ paid' = IF job[a].flag /\ entry[m][p].session # 0
                      THEN [paid EXCEPT ![m][p] = @ + 1] ELSE paid
         /\ IF job[a].todo # {p} THEN job' = [job EXCEPT ![a].todo = @ \ {p}]
            ELSE IF job[a].after = "idle" THEN End(a)
            ELSE Begin(a, job[a].after, m, job[a].p)
    /\ UNCHANGED <<players, registered, match, clock>>

\* _leave_battleground: the arena's leave button
Leave(p) ==
    /\ At("receive", "idle") /\ place[p] = "arena" /\ Gate(p)
    /\ bound[p] # 0
    /\ bound' = [bound EXCEPT ![p] = 0]
    /\ Begin("receive", "forfeit", bound[p], p)
    /\ UNCHANGED <<cuts, place, number, queue, registered, match, clock, paid>>

\* Mutant: a match decided by a departure is not finished.
ForfeitUnpaid(a) ==
    /\ At(a, "forfeit")
    /\ LET m == job[a].m
           p == job[a].p
           remaining == InMatch(m) \ {p}
           anyone == \E q \in seats[m] \ {p} : entry[m][q].session # 0 /\ ~ entry[m][q].left
           decided == phase[m] \in {"over", "cancelled"}
       IN
       /\ entry' = [entry EXCEPT ![m][p].left = TRUE, ![m][p].session = 0]
       /\ phase' = [phase EXCEPT ![m] = IF decided THEN @
                                        ELSE IF remaining = {} THEN "cancelled" ELSE "over"]
       /\ winner' = IF decided \/ remaining = {} THEN winner
                     ELSE [winner EXCEPT ![m] = CHOOSE q \in remaining : TRUE]
       /\ Goto(a, IF anyone THEN "gone" ELSE "drop")
    /\ UNCHANGED <<players, registered, seats, won, settled, started, clock, paid>>

\* _forfeit_battleground with forfeit, under the match's lock
Forfeit(a) ==
    /\ At(a, "forfeit")
    /\ LET m == job[a].m
           p == job[a].p
           remaining == InMatch(m) \ {p}
           anyone == \E q \in seats[m] \ {p} : entry[m][q].session # 0 /\ ~ entry[m][q].left
           after == IF anyone THEN "gone" ELSE "drop"
           decided == phase[m] \in {"over", "cancelled"}
       IN
       /\ entry' = [entry EXCEPT ![m][p].left = TRUE, ![m][p].session = 0]
       /\ phase' = [phase EXCEPT ![m] = IF decided THEN @
                                        ELSE IF remaining = {} THEN "cancelled" ELSE "over"]
       /\ IF decided \/ remaining = {}
            THEN Goto(a, after) /\ UNCHANGED winner
            ELSE /\ winner' = [winner EXCEPT ![m] = CHOOSE q \in remaining : TRUE]
                 /\ job' = [job EXCEPT ![a].op = "over", ![a].after = after]
    /\ UNCHANGED <<players, registered, seats, won, settled, started, clock, paid>>

\* the last participant takes the match with it
Drop(a) ==
    /\ At(a, "drop")
    /\ CancelTimers(job[a].m)
    /\ registered' = registered \ {job[a].m}
    /\ Goto(a, "gone")
    /\ UNCHANGED <<players, match, paid>>

\* the session is detached, or on its way back to the hub
Gone(a) ==
    /\ At(a, "gone")
    /\ place' = [place EXCEPT ![job[a].p] = "away"]
    /\ queue' = [queue EXCEPT ![job[a].p] = 0]
    /\ End(a)
    /\ UNCHANGED <<cuts, number, bound, registered, match, clock, paid>>

-----------------------------------------------------------------------------
(* A lost connection: _release_matchmaking_session.                        *)

\* The session is marked retired at once; its release waits for its handler.
Cut(p) ==
    /\ place[p] \in {"hub", "loading", "arena"}
    /\ Spent < MaxEvents
    /\ cuts' = cuts + 1
    /\ place' = [place EXCEPT ![p] = "cut"]
    /\ UNCHANGED <<number, bound, queue, registered, match, clock, paid, job>>

ReleaseSession(p) ==
    /\ At("lifecycle", "idle") /\ place[p] = "cut" /\ Gate(p)
    /\ queue' = [queue EXCEPT ![p] = 0]
    /\ bound' = [bound EXCEPT ![p] = 0]
    /\ Begin("lifecycle", IF bound[p] = 0 THEN "gone" ELSE "lost", bound[p], p)
    /\ UNCHANGED <<cuts, place, number, registered, match, clock, paid>>

\* A newer socket may own the slot; one that has not arrived keeps it.
Lost(a) ==
    /\ At(a, "lost")
    /\ LET m == job[a].m
           p == job[a].p
           mine == entry[m][p].session = number[p]
           arrived == entry[m][p].arrived
       IN
       /\ entry' = IF mine /\ ~ arrived THEN [entry EXCEPT ![m][p].session = 0] ELSE entry
       /\ Goto(a, IF mine /\ arrived THEN "forfeit" ELSE "gone")
    /\ UNCHANGED <<players, registered, phase, seats, won, winner, settled, started, clock, paid>>

-----------------------------------------------------------------------------
Client(p) ==
    \/ Connect(p)
    \/ Join(p)
    \/ Abort(p)
    \/ \E accepted \in BOOLEAN : Respond(p, accepted)
    \/ Leave(p)
    \/ Cut(p)

Step(a) ==
    \/ Enqueue(a) \/ Form(a) \/ TooFew(a) \/ Invite(a) \/ ArmAccept(a)
    \/ CancelClock(a) \/ CancelPhase(a) \/ Retire(a) \/ ReleaseOne(a) \/ Requeue(a)
    \/ StartTransfer(a) \/ TransferClock(a) \/ TransferOne(a) \/ TransferFails(a) \/ ArmLoad(a)
    \/ BindEntry(a) \/ BindSession(a)
    \/ BeginRound(a) \/ RoundClock(a) \/ ArmCountdown(a)
    \/ Settle(a) \/ PayOne(a) \/ Forfeit(a) \/ Drop(a) \/ Gone(a) \/ Lost(a)

Work(w) ==
    \/ Expire(w) \/ StartRound(w) \/ ArmRound(w) \/ ExpireRound(w) \/ RoundIsOver(w) \/ Publish(w)

Fires(m) == \E w \in Workers, key \in Keys : Fire(w, m, key)
Arrives(p) == BindLookup(p) \/ ReleaseSession(p)

Next ==
    \/ \E p \in Players : Client(p) \/ Arrives(p)
    \/ \E a \in Actors : Step(a)
    \/ \E w \in Workers : Work(w)
    \/ \E m \in Matches : Fires(m)
    \/ \E w \in Workers, m \in Matches, p \in Players : Kill(w, m, p)

Spec == Init /\ [][Next]_vars

\* Every thread goes on, every due timer is taken and every session that is
\* loading or lost is served; no client owes the server anything.
FairSpec ==
    /\ Spec
    /\ \A a \in Actors : WF_vars(Step(a))
    /\ \A w \in Workers : WF_vars(Work(w))
    /\ \A m \in Matches : WF_vars(Fires(m))
    /\ \A p \in Players : WF_vars(Arrives(p))

-----------------------------------------------------------------------------
\* The steps that are for a match, and all.
MatchOps == {"invite", "arm accept", "cancel", "cancel phase", "retire", "release", "requeue",
             "transfer", "transfer clock", "transfer one", "arm load", "bind", "bind session",
             "begin round", "round clock", "arm countdown", "arm round", "publish",
             "pay", "forfeit", "drop", "lost"} \cup Keys
Ops == {"idle", "enqueue", "form", "gone"} \cup MatchOps

Jobs == [op : Ops, m : Matches \cup {0}, p : Players \cup {None}, todo : SUBSET Players,
         q : Players \cup {None}, n : Nat, flag : BOOLEAN, after : {"idle", "gone", "drop"}]
Entries == [session : Nat, answer : {"none", "yes", "no"},
            arrived : BOOLEAN, left : BOOLEAN]

\* Types of the whole state.
TypeOK ==
    /\ place \in [Players -> {"away", "hub", "travelling", "loading", "arena", "cut"}]
    /\ number \in [Players -> Nat]
    /\ bound \in [Players -> Matches \cup {0}]
    /\ queue \in [Players -> Nat]
    /\ cuts \in Nat
    /\ registered \subseteq Matches
    /\ phase \in [Matches -> Phases]
    /\ seats \in [Matches -> SUBSET Players]
    /\ entry \in [Matches -> [Players -> Entries]]
    /\ won \in [Matches -> [Players -> Nat]]
    /\ winner \in [Matches -> Players \cup {None}]
    /\ settled \in [Matches -> BOOLEAN]
    /\ timers \in [Matches -> SUBSET Keys]
    /\ generation \in [Matches -> Nat]
    /\ started \in [Matches -> Nat]
    /\ paid \in [Matches -> [Players -> Nat]]
    /\ job \in [Actors -> Jobs]

\* A match that is over or cancelled stays so and keeps its winner, whatever
\* timer, kill, arrival or departure was decided on before it ended.
FinalPhaseStays ==
    [][\A m \in Matches : phase[m] \in {"over", "cancelled"} =>
         phase'[m] = phase[m] /\ winner'[m] = winner[m]]_vars

\* A round that was started is won at most once: by a kill or by its timer.
RoundsAreWonOnce ==
    \A m \in Matches : \A p, q \in seats[m] : p # q => won[m][p] + won[m][q] <= started[m]

\* Whoever still stands in the arena when a match is over is paid.
PresentIsPaid ==
    \A m \in Matches, p \in Players :
      (phase[m] = "over" /\ p \in InMatch(m)) ~> (paid[m][p] = 1 \/ entry[m][p].left)

\* A match whose rounds have begun comes to an end.
StartedMatchEnds ==
    \A m \in Matches : phase[m] = "countdown" ~> phase[m] \in {"over", "cancelled"}

\* A match that sends its players to the arena begins its rounds or is given
\* up: that is what the timer of _start_battleground_transfer is for.
LoadingEnds == \A m \in Matches : phase[m] = "loading" ~> phase[m] # "loading"
=============================================================================
