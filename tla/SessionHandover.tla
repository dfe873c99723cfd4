-------------------------- MODULE SessionHandover --------------------------
(***************************************************************************)
(* The sessions of one character: how a connection gets its endpoint, is   *)
(* initialized from the store, leaves for another map and is retired, and  *)
(* who saves it meanwhile (SessionRegistry and the life cycle of           *)
(* src/runtime/transport.py, src/services/map_transition.py,               *)
(* lifecycle.py, player_initialization.py, player_persistence.py and the   *)
(* autosaver of src/app.py), with login enforced and commands off-loaded.  *)
(*                                                                         *)
(* A session has three threads: a worker that holds its mutation gate for  *)
(* a command or for the initialization, one that takes it to another map   *)
(* or to the character selection, and one that retires it.  The autosaver  *)
(* and the progression worker serve all, here as one actor, "saver".      *)
(* What is saved is a bag, of which only the number of gains matters.  The *)
(* store is what its readers see: that it reaches the disk is the subject  *)
(* of PlayerDatabase.  The client and the character selection are external.*)
(***************************************************************************)
EXTENDS Integers

CONSTANTS
    NumEndpoints,   \* addresses the client connects from
    MaxSessions,    \* bound: connections
    MaxGains,       \* bound: gains of a bag
    MaxRefusals,    \* bound: cleanups refused by a full scheduler
    Served          \* bound: sessions that "saver" comes to

ASSUME HandoverAssumption ==
    \A n \in {NumEndpoints, MaxSessions, MaxGains, MaxRefusals} : n \in Nat

Endpoints == 1..NumEndpoints
Sessions  == 1..MaxSessions
Kinds     == {"worker", "leaver", "retirer"}
Worker(s)  == <<"worker", s>>
Leaver(s)  == <<"leaver", s>>
Retirer(s) == <<"retirer", s>>
Saver    == <<"saver", 0>>
Actors   == (Kinds \X Sessions) \cup {Saver}
Unheld   == <<"nobody", 0>>
NoReason == "none"

VARIABLES
    registry,   \* SessionRegistry: the session at an endpoint, or 0
    sess,       \* the fields of the sessions
    route,      \* the session that left and armed the route that is there, or 0
    gate,       \* gameplay_mutation_lock: the thread that has it
    job,        \* where a thread stands, in which session, and why it saves
    row,        \* the store: the newest bag and the session it is of
    saved,      \* ghost: the bag a session stored last
    overtaken,  \* ghost: sessions sent away while a command was in hand
    refusals

handoverVars == <<registry, sess, route, gate, job, row, saved, overtaken, refusals>>

\* "disconnect" stands for "connection replaced" as well: they are treated alike.
Retirements == {"disconnect", "idle"}
Reasons == Retirements \cup {NoReason, "entry", "command", "source", "interval", "deferred"}
Ops == {"none", "mutate", "save", "put", "arm", "gate", "detach"}

Session ==
    [opened : BOOLEAN, retiring : BOOLEAN, failure : Retirements \cup {NoReason},
     sent : BOOLEAN, left : BOOLEAN, bag : Nat, from : 0..MaxSessions]
Job == [op : Ops, s : 0..MaxSessions, why : Reasons, bag : Nat]

SessionsTyped ==
    /\ registry \in [Endpoints -> 0..MaxSessions]
    /\ sess \in [Sessions -> Session]
    /\ route \in 0..MaxSessions
    /\ gate \in [Sessions -> Actors \cup {Unheld}]
    /\ job \in [Actors -> Job]
    /\ row \in [by : 0..MaxSessions, bag : Nat]
    /\ saved \in [Sessions -> Nat] /\ overtaken \subseteq Sessions /\ refusals \in Nat

NewSession ==
    [opened |-> FALSE, retiring |-> FALSE, failure |-> NoReason, sent |-> FALSE,
     left |-> FALSE, bag |-> 0, from |-> 0]
NoJob == [op |-> "none", s |-> 0, why |-> NoReason, bag |-> 0]

HandoverInit ==
    /\ registry = [e \in Endpoints |-> 0]
    /\ sess = [s \in Sessions |-> NewSession]
    /\ route = 0
    /\ gate = [s \in Sessions |-> Unheld]
    /\ job = [t \in Actors |-> NoJob]
    /\ row = [by |-> 0, bag |-> 0]
    /\ saved = [s \in Sessions |-> 0] /\ overtaken = {} /\ refusals = 0

Registered(s) == \E e \in Endpoints : registry[e] = s
\* _dispatch hands on what arrives for such a session.
Listening(s) == Registered(s) /\ ~sess[s].retiring /\ sess[s].failure = NoReason
\* _gameplay_skill_dispatch_session_is_current
Playing(s) == Listening(s) /\ sess[s].sent /\ ~sess[s].left
Resting(t) == job[t].op = "none"
Free(s)    == gate[s] = Unheld

Begin(t, s, op, why) == job' = [job EXCEPT ![t] = [NoJob EXCEPT !.op = op, !.s = s, !.why = why]]

-----------------------------------------------------------------------------
(* The client arrives. *)

\* A session is opened at an endpoint that has none; which of them, is the same.
OpenSession(s, e) ==
    /\ registry[e] = 0 /\ \A d \in 1..(e - 1) : registry[d] # 0
    /\ registry' = [registry EXCEPT ![e] = s]

\* Its hello claims the route: the one a session armed when it left, or one that
\* the character selection armed since, in its place.
ClaimRoute(s) ==
    /\ \E from \in {route, 0} : sess' = [sess EXCEPT ![s].opened = TRUE, ![s].from = from]
    /\ route' = 0

\* A hello that finds no route is refused, and its session never plays.
Connect(s, e) ==
    /\ ~sess[s].opened /\ \A r \in 1..(s - 1) : sess[r].opened
    /\ OpenSession(s, e) /\ ClaimRoute(s)
    /\ UNCHANGED <<gate, job, row, saved, overtaken, refusals>>

\* Initialization claims itself, reads the stored state under the gate, installs
\* it and saves it as that of the new map.  The client's 0x006f and the delayed
\* fallback both call it: the second finds it claimed.
Enter(s) ==
    /\ Listening(s) /\ Free(s) /\ ~sess[s].sent
    /\ sess' = [sess EXCEPT ![s].sent = TRUE, ![s].left = FALSE, ![s].bag = row.bag]
    /\ gate' = [gate EXCEPT ![s] = Worker(s)]
    /\ Begin(Worker(s), s, "save", "entry")
    /\ UNCHANGED <<registry, route, row, saved, overtaken, refusals>>

-----------------------------------------------------------------------------
(* It plays: a command holds the gate, gains something, and may save.         *)

Command(s) ==
    /\ Playing(s) /\ Free(s) /\ sess[s].bag < MaxGains
    /\ gate' = [gate EXCEPT ![s] = Worker(s)]
    /\ Begin(Worker(s), s, "mutate", "command")
    /\ UNCHANGED <<registry, sess, route, row, saved, overtaken, refusals>>

Gain(s) ==
    /\ job[Worker(s)].op = "mutate"
    /\ sess' = [sess EXCEPT ![s].bag = @ + 1]
    /\ UNCHANGED <<registry, route, row, saved, overtaken, refusals>>

MutateAndSave(s) ==
    /\ Gain(s)
    /\ job' = [job EXCEPT ![Worker(s)].op = "save"]
    /\ UNCHANGED gate

\* What regenerates or is saved with the next snapshot.
MutateOnly(s) ==
    /\ Gain(s)
    /\ job' = [job EXCEPT ![Worker(s)] = NoJob]
    /\ gate' = [gate EXCEPT ![s] = Unheld]

-----------------------------------------------------------------------------
(* PlayerPersistenceService._persist_gameplay_session                         *)

\* gameplay_persist_lock, held from the capture to the put.
SaveLockFree(s) == \A t \in Actors : ~(job[t].op = "put" /\ job[t].s = s)

\* Mutant: the autosaver is forgotten.
SilencedForDisconnects(s, why) == sess[s].left /\ why = "disconnect"

\* "A late disconnect/interval callback from the old socket must not overwrite".
Silenced(s, why) == sess[s].left /\ why \in {"disconnect", "interval"}
HasState(s) == sess[s].sent

\* What follows a save: the worker is done with its command, the others go on.
AfterSave(t) ==
    /\ job' = [job EXCEPT ![t] =
                  CASE t[1] = "leaver" -> [NoJob EXCEPT !.op = "arm"]
                    [] t[1] = "retirer" -> [NoJob EXCEPT !.op = "detach"]
                    [] OTHER -> NoJob]
    /\ gate' = IF t[1] = "worker" THEN [gate EXCEPT ![t[2]] = Unheld] ELSE gate

\* Takes the lock and captures the session.
Capture(t) ==
    LET s == job[t].s
    IN  /\ job[t].op = "save" /\ SaveLockFree(s)
        /\ ~Silenced(s, job[t].why) /\ HasState(s)
        /\ job' = [job EXCEPT ![t].op = "put", ![t].bag = sess[s].bag]
        /\ UNCHANGED <<registry, sess, route, gate, row, saved, overtaken, refusals>>

SkipSave(t) ==
    LET s == job[t].s
    IN  /\ job[t].op = "save" /\ SaveLockFree(s)
        /\ Silenced(s, job[t].why) \/ ~HasState(s)
        /\ AfterSave(t)
        /\ UNCHANGED <<registry, sess, route, row, saved, overtaken, refusals>>

Put(t) ==
    LET s == job[t].s
    IN  /\ job[t].op = "put"
        /\ row' = [by |-> s, bag |-> job[t].bag]
        /\ saved' = [saved EXCEPT ![s] = job[t].bag]
        /\ AfterSave(t)
        /\ UNCHANGED <<registry, sess, route, overtaken, refusals>>

-----------------------------------------------------------------------------
(* It leaves: _begin_map_transfer and _switch_character.                      *)

Leaving(s) ==
    /\ sess[s].sent /\ ~sess[s].left /\ Resting(Leaver(s))
    /\ s < MaxSessions     \* bound: after the last nobody could arrive
    /\ sess' = [sess EXCEPT ![s].left = TRUE]
    /\ Begin(Leaver(s), s, "save", "source")
    /\ UNCHANGED <<registry, route, row, saved, refusals>>

\* By a command of its own, which has the gate.
Travel(s) ==
    /\ Playing(s) /\ Free(s) /\ Leaving(s)
    /\ gate' = [gate EXCEPT ![s] = Leaver(s)]
    /\ UNCHANGED overtaken

\* By a thread of others - the last to accept a match, a map's timer - or by the
\* countdown of a logout, none of which takes the gate.
Moved(s) ==
    /\ Registered(s) /\ Leaving(s)
    /\ overtaken' = IF gate[s] = Worker(s) THEN overtaken \cup {s} ELSE overtaken
    /\ UNCHANGED gate

\* The route to the destination is armed after the source was saved.  A logout
\* arms none.
Arm(s) ==
    /\ job[Leaver(s)].op = "arm"
    /\ route' = s \/ (gate[s] # Leaver(s) /\ UNCHANGED route)
    /\ job' = [job EXCEPT ![Leaver(s)] = NoJob]
    /\ gate' = IF gate[s] = Leaver(s) THEN [gate EXCEPT ![s] = Unheld] ELSE gate
    /\ UNCHANGED <<registry, sess, row, saved, overtaken, refusals>>

-----------------------------------------------------------------------------
(* It is retired. *)

\* _retire_session claims the session and leaves the work to the scheduler.  The
\* reason of an earlier refusal has no readers from then on.
RetireAccepted(s, why) ==
    /\ Registered(s) /\ ~sess[s].retiring
    /\ sess' = [sess EXCEPT ![s].retiring = TRUE, ![s].failure = NoReason]
    /\ Begin(Retirer(s), s, "gate", why)
    /\ UNCHANGED <<registry, route, gate, row, saved, overtaken, refusals>>

\* Mutant: the claim is not taken back.
RefusedWhileRetiring(s, why) ==
    /\ Registered(s) /\ ~sess[s].retiring
    /\ refusals < MaxRefusals
    /\ refusals' = refusals + 1
    /\ sess' = [sess EXCEPT ![s].retiring = TRUE, ![s].failure = why]
    /\ UNCHANGED <<registry, route, gate, job, row, saved, overtaken>>

\* A full scheduler: the endpoint stays reserved and maintenance tries again.
RetireRefused(s, why) ==
    /\ Registered(s) /\ ~sess[s].retiring
    /\ refusals < MaxRefusals
    /\ refusals' = refusals + 1
    /\ sess' = [sess EXCEPT ![s].failure = why]
    /\ UNCHANGED <<registry, route, gate, job, row, saved, overtaken>>

RetireSession(s, why) == RetireAccepted(s, why) \/ RetireRefused(s, why)

\* The client says it leaves, or opens a new connection from the same endpoint.
Disconnect(s) == Listening(s) /\ RetireSession(s, "disconnect")
\* Maintenance finds it silent, or retries what was refused.
GoesIdle(s)   == sess[s].failure = NoReason /\ RetireSession(s, "idle")
Retry(s)      == sess[s].failure # NoReason /\ RetireSession(s, sess[s].failure)

\* Mutant: does not wait for the gate.
RetireUngated(s) ==
    /\ job[Retirer(s)].op = "gate"
    /\ job' = [job EXCEPT ![Retirer(s)].op = "save"]
    /\ UNCHANGED <<registry, sess, route, gate, row, saved, overtaken, refusals>>

\* _retire_session_now, on a worker of the lifecycle scheduler: it saves under
\* the gate, and only then gives the endpoint back.
RetireGate(s) ==
    /\ job[Retirer(s)].op = "gate" /\ Free(s)
    /\ gate' = [gate EXCEPT ![s] = Retirer(s)]
    /\ job' = [job EXCEPT ![Retirer(s)].op = "save"]
    /\ UNCHANGED <<registry, sess, route, row, saved, overtaken, refusals>>

Detach(s) ==
    /\ job[Retirer(s)].op = "detach"
    /\ gate' = [gate EXCEPT ![s] = Unheld]
    /\ registry' = [e \in Endpoints |-> IF registry[e] = s THEN 0 ELSE registry[e]]
    /\ job' = [job EXCEPT ![Retirer(s)] = NoJob]
    /\ UNCHANGED <<sess, route, row, saved, overtaken, refusals>>

-----------------------------------------------------------------------------
\* PeriodicAccountSaver.save_once walks a copy of the registry: a session of it
\* is saved later, when it may have left or be gone.
Autosave(s) ==
    /\ s \in Served /\ Resting(Saver) /\ Registered(s) /\ HasState(s)
    /\ Begin(Saver, s, "save", "interval")
    /\ UNCHANGED <<registry, sess, route, gate, row, saved, overtaken, refusals>>

\* A loose save that a command has asked for: it looks at the session, and saves.
DeferredSave(s) ==
    /\ s \in Served /\ Resting(Saver) /\ Registered(s) /\ HasState(s)
    /\ ~sess[s].left /\ ~sess[s].retiring
    /\ Begin(Saver, s, "save", "deferred")
    /\ UNCHANGED <<registry, sess, route, gate, row, saved, overtaken, refusals>>

-----------------------------------------------------------------------------
Work(s) ==
    \/ MutateAndSave(s)
    \/ MutateOnly(s)
    \/ Arm(s)
    \/ RetireGate(s)
    \/ Detach(s)

HandoverNext ==
    \/ \E s \in Sessions :
          \/ \E e \in Endpoints : Connect(s, e)
          \/ Enter(s)
          \/ Command(s)
          \/ Travel(s)
          \/ Moved(s)
          \/ Disconnect(s)
          \/ GoesIdle(s)
          \/ Retry(s)
          \/ Autosave(s)
          \/ DeferredSave(s)
          \/ Work(s)
    \/ \E t \in Actors : Capture(t) \/ SkipSave(t) \/ Put(t)

Handover == HandoverInit /\ [][HandoverNext]_handoverVars

\* As long as a thread of the sessions or maintenance can go on, one does: there
\* is only so much they do.  The save lock is fair to them: the autosaver, the only
\* one that takes it for ever, has it for a moment every few seconds.
Fairness ==
    /\ WF_handoverVars(\/ \E s \in Sessions : Work(s) \/ Retry(s)
                       \/ \E t \in Actors \ {Saver} : Put(t))
    /\ SF_handoverVars(\E t \in Actors \ {Saver} : Capture(t) \/ SkipSave(t))
    /\ WF_handoverVars(Put(Saver))

FairHandover == Handover /\ Fairness

-----------------------------------------------------------------------------
Stores(t) == job[t].op = "put" /\ job'[t].op # "put"

\* Once a session that arrived over a route has saved itself, the session that
\* armed the route saves no more by any of the ways the code guards: autosave,
\* disconnect, replacement.  What remains is a retirement for another reason, a
\* deferred save that has looked already, and a command or entry that was in hand
\* when another thread sent its player away.
SourceStaysSilent ==
    [][\A t \in Actors :
          LET s == job[t].s
          IN  Stores(t) /\ row.by > s /\ sess[row.by].from = s =>
                  \/ job[t].why \in {"idle", "deferred"}
                  \/ job[t].why \in {"command", "entry"} /\ s \in overtaken]_handoverVars

\* When an endpoint is free for the next connection, everything its session had
\* is stored: a reconnect never begins from an older snapshot of it.  Excepted is
\* one that another thread was sending away when it was retired, whose own save is
\* still to come.
NothingLeftBehind ==
    \A s \in Sessions :
        sess[s].sent /\ ~Registered(s) /\ s \notin overtaken /\ Resting(Leaver(s)) =>
            saved[s] = sess[s].bag

\* A session whose retirement began, or was refused, gives its endpoint back.
EndpointIsFreed ==
    \A s \in Sessions : sess[s].retiring \/ sess[s].failure # NoReason ~> ~Registered(s)

\* Not true of the code: the source never overwrites its destination ("A late
\* disconnect/interval callback from the old socket must not overwrite the
\* destination map and entry position after the new session has initialized").
DestinationStays ==
    [][\A t \in Actors : Stores(t) => ~(row.by > job[t].s /\ sess[row.by].from = job[t].s)]_handoverVars
=============================================================================
