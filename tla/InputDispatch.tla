--------------------------- MODULE InputDispatch ---------------------------
(***************************************************************************)
(* The input FIFO of one session in the game (src/services/dispatch.py):   *)
(* the thread that receives datagrams checks and queues commands, and a    *)
(* pool of workers executes them in slices.  A token names the one         *)
(* callback that may drain the queue; every slice ends by releasing the    *)
(* token or by scheduling a successor under a new one.  Beside them run    *)
(* changes of map and of arena phase and the retirement of the session.    *)
(*                                                                         *)
(* Commands are numbered in the order the queue accepted them.  There are  *)
(* four kinds: moves and casts, which belong to one phase of one map       *)
(* (spatial), requests for actors, which a move may overtake, and the      *)
(* others, "durable" for short.  What a command does is abstracted.        *)
(***************************************************************************)
EXTENDS Naturals, Sequences, SequencesExt

CONSTANTS
    Workers,        \* threads of the ingress scheduler
    Receiver,       \* the thread that reads the socket
    Retirer,        \* the thread of the lifecycle scheduler
    Free, None,
    Maps,
    BatchLimit,     \* _GAMEPLAY_SKILL_DISPATCH_BATCH_LIMIT
    QueueLimit,     \* _GAMEPLAY_SKILL_DISPATCH_QUEUE_LIMIT
    MaxInputs,      \* bound: commands accepted
    MaxChanges,     \* bound: changes of phase and departures
    MaxFaults       \* bound: callbacks a scheduler refuses

ASSUME DispatchAssumption ==
    /\ Receiver \notin Workers /\ Retirer \notin Workers /\ Receiver # Retirer
    /\ Free \notin Workers \cup {Receiver, Retirer}
    /\ BatchLimit \in Nat \ {0} /\ QueueLimit \in Nat \ {0}
    /\ None \notin Nat
    /\ MaxInputs \in Nat /\ MaxChanges \in Nat /\ MaxFaults \in Nat

VARIABLES
    where,       \* the context: map (with its combat state and match), phase
    epoch,       \* ghost: how often the player has left a map
    leaving,     \* gameplay_exit_transition_started
    connected, failed, retired,
    retirement,  \* progress of _retire_session
    gate,        \* owner of gameplay_mutation_lock
    queue, queueContext, generation, token, nextToken,
    scheduled,   \* tokens of the callbacks the ingress scheduler has yet to run
    pc, mine,    \* per thread: what it is doing, and with which token
    hand,        \* per thread: the command it has received or taken
    handled,     \* per worker: commands of this slice
    accepted,    \* ghost: the commands queued so far
    log,         \* ghost: the commands executed, with the context they met
    final,       \* ghost: length of log when the final snapshot was taken
    faults

worldVars   == <<where, epoch, leaving>>
sessionVars == <<connected, failed, retired, retirement>>
queueVars   == <<queue, queueContext, generation, token, nextToken>>
threadVars  == <<pc, mine, hand, handled>>
ghostVars   == <<accepted, log, final>>
vars == <<worldVars, sessionVars, gate, queueVars, scheduled, threadVars, ghostVars, faults>>

Threads == Workers \cup {Receiver}
Kinds   == {"move", "cast", "actors", "durable"}
Contexts == [map: Maps, phase: Nat]
Command == [id: Nat, kind: Kinds, context: Contexts, generation: Nat, epoch: Nat]
Arrival == [kind: Kinds, context: Contexts, epoch: Nat]
Execution == [id: Nat, at: Contexts, epoch: Nat]

ASSUME NoneAssumption == None \notin Command /\ None \notin Contexts

\* _spatial_input
SpatialInput(kind) == kind \in {"move", "cast"}

TypeOK ==
    /\ where \in Contexts /\ epoch \in Nat /\ leaving \in BOOLEAN
    /\ connected \in BOOLEAN /\ failed \in BOOLEAN /\ retired \in BOOLEAN
    /\ retirement \in {"no", "queued", "waiting", "closing", "done"}
    /\ gate \in Workers \cup {Retirer, Free}
    /\ queue \in Seq(Command)
    /\ queueContext \in Contexts \cup {None}
    /\ generation \in Nat /\ token \in Nat /\ nextToken \in Nat
    /\ scheduled \subseteq Nat
    /\ pc \in [Threads -> {"idle", "enqueue", "pop", "gate", "run", "finish",
                           "schedule", "refused"}]
    /\ mine \in [Threads -> Nat]
    /\ hand \in [Threads -> Command \cup {None}]
    /\ handled \in [Threads -> Nat]
    /\ accepted \in Seq(Arrival)
    /\ log \in Seq(Execution)
    /\ final \in Nat \cup {None}
    /\ faults \in Nat

Init ==
    /\ where \in [map: Maps, phase: {0}] /\ epoch = 0 /\ leaving = FALSE
    /\ connected = TRUE /\ failed = FALSE /\ retired = FALSE
    /\ retirement = "no" /\ gate = Free
    /\ queue = <<>> /\ queueContext = None /\ generation = 0
    /\ token = 0 /\ nextToken = 0 /\ scheduled = {}
    /\ pc = [t \in Threads |-> "idle"] /\ mine = [t \in Threads |-> 0]
    /\ hand = [t \in Threads |-> None] /\ handled = [t \in Threads |-> 0]
    /\ accepted = <<>> /\ log = <<>> /\ final = None /\ faults = 0

\* _gameplay_skill_dispatch_session_is_current.  A session is detached from the
\* registry after it is retired, which makes its last condition redundant.
IsCurrent(kind, context) ==
    /\ connected /\ ~retired /\ ~failed /\ ~leaving
    /\ IF SpatialInput(kind) THEN where = context ELSE where.map = context.map

Fault == faults < MaxFaults /\ faults' = faults + 1

-----------------------------------------------------------------------------
(* The receiving thread *)

\* A command whose session is not current is dropped without a trace.
Receive(kind) ==
    /\ pc[Receiver] = "idle"
    /\ Len(accepted) < MaxInputs
    /\ IsCurrent(kind, where)
    /\ hand' = [hand EXCEPT ![Receiver] =
           [id |-> Len(accepted) + 1, kind |-> kind, context |-> where,
            generation |-> generation, epoch |-> epoch]]
    /\ pc' = [pc EXCEPT ![Receiver] = "enqueue"]
    /\ UNCHANGED <<worldVars, sessionVars, gate, queueVars, scheduled, mine, handled,
                   ghostVars, faults>>

\* Mutant: a change of phase clears the whole queue.
RenewedByClearing(context) ==
    IF queueContext = context
    THEN {[queue |-> queue, generation |-> generation]}
    ELSE {[queue |-> <<>>, generation |-> generation + 1]}

\* A set of positions listed in order, as the one element of a set.
Listed(S) ==
    UNION {{at \in [1..n -> S] : /\ \A i, j \in 1..n : i < j => at[i] < at[j]
                                 /\ \A k \in S : \E i \in 1..n : at[i] = k}
           : n \in 0..Cardinality(S)}

\* The queue and the generation when input of a context arrives, likewise: the
\* commands that are not spatial stay through a change of phase.
Renewed(context) ==
    LET stay == IF queueContext # None /\ queueContext.map = context.map
                THEN {i \in DOMAIN queue : ~SpatialInput(queue[i].kind)} ELSE {}
    IN  IF queueContext = context
        THEN {[queue |-> queue, generation |-> generation]}
        ELSE {[queue |-> [i \in DOMAIN at |->
                            [queue[at[i]] EXCEPT !.generation = generation + 1]],
               generation |-> generation + 1] : at \in Listed(stay)}

Alike(e, f) == e.generation = f.generation /\ e.context = f.context

\* Mutant: a move passes whatever is queued.
SlotAnywhere(q, e) == IF e.kind = "move" THEN {0} ELSE {Len(q)}

\* After how many commands a new one goes: a move before the requests for
\* actors at the end of the queue, any other at the end.
Slot(q, e) ==
    LET passes(j) == Alike(q[j], e) /\ q[j].kind = "actors"
    IN  IF e.kind = "move"
        THEN {i \in 0..Len(q) : /\ \A j \in i + 1 .. Len(q) : passes(j)
                                /\ i > 0 => ~passes(i)}
        ELSE {Len(q)}

Coalesces(q, i, e) == i > 0 /\ e.kind = "move" /\ q[i].kind = "move" /\ Alike(q[i], e)

\* Mutant: the older of two moves stays.
PlacedBehindOlder(q, e) ==
    {IF Coalesces(q, i, e) THEN q ELSE InsertAt(q, i + 1, e) :
        i \in {k \in Slot(q, e) : Coalesces(q, k, e) \/ Len(q) < QueueLimit}}

\* The queue with a command added, as the element of a set; none when it is full.
Placed(q, e) ==
    {IF Coalesces(q, i, e) THEN ReplaceAt(q, i, e) ELSE InsertAt(q, i + 1, e) :
        i \in {k \in Slot(q, e) : Coalesces(q, k, e) \/ Len(q) < QueueLimit}}

\* The thread has nothing more to do for the session; its locals are forgotten.
Leave(t) ==
    /\ pc' = [pc EXCEPT ![t] = "idle"] /\ mine' = [mine EXCEPT ![t] = 0]
    /\ handled' = [handled EXCEPT ![t] = 0]

\* _reserve_gameplay_skill_dispatch_locked
Reserve(t) ==
    /\ nextToken' = nextToken + 1 /\ token' = nextToken + 1
    /\ mine' = [mine EXCEPT ![t] = nextToken + 1]
    /\ pc' = [pc EXCEPT ![t] = "schedule"]

\* One hold of gameplay_skill_dispatch_lock, from the context to the token.
Enqueue ==
    LET input == hand[Receiver] IN
    /\ pc[Receiver] = "enqueue"
    /\ \E renewed \in Renewed(input.context) :
        LET entry == [input EXCEPT !.generation = renewed.generation] IN
        /\ generation' = renewed.generation
        /\ \/ /\ queue' \in Placed(renewed.queue, entry)
              /\ accepted' = Append(accepted, [kind |-> input.kind, context |-> input.context,
                                              epoch |-> input.epoch])
              /\ IF token = 0 THEN Reserve(Receiver)
                 ELSE /\ pc' = [pc EXCEPT ![Receiver] = "idle"]
                      /\ UNCHANGED <<token, nextToken, mine>>
           \/ /\ Placed(renewed.queue, entry) = {} /\ queue' = renewed.queue
              /\ pc' = [pc EXCEPT ![Receiver] = "refused"]
              /\ UNCHANGED <<token, nextToken, mine, accepted>>
    /\ queueContext' = input.context
    /\ hand' = [hand EXCEPT ![Receiver] = None]
    /\ UNCHANGED <<worldVars, sessionVars, gate, scheduled, handled, log, final, faults>>

-----------------------------------------------------------------------------
(* _schedule_gameplay_skill_dispatch, by the thread that reserved the token *)

Schedule(t) ==
    /\ pc[t] = "schedule"
    /\ scheduled' = scheduled \cup {mine[t]}
    /\ Leave(t)
    /\ UNCHANGED <<worldVars, sessionVars, gate, queueVars, hand, ghostVars, faults>>

\* The scheduler is full or stopped.
ScheduleFails(t) ==
    /\ pc[t] = "schedule" /\ Fault
    /\ IF token = mine[t] THEN token' = 0 /\ queue' = <<>>
       ELSE UNCHANGED <<token, queue>>
    /\ pc' = [pc EXCEPT ![t] = "refused"]
    /\ UNCHANGED <<worldVars, sessionVars, gate, queueContext, generation, nextToken,
                   scheduled, mine, hand, handled, ghostVars>>

\* request_session_retirement
RequestRetirement(t) ==
    /\ pc[t] = "refused"
    /\ failed' = (failed \/ ~retired)
    /\ Leave(t)
    /\ UNCHANGED <<worldVars, connected, retired, retirement, gate, queueVars, scheduled,
                   hand, ghostVars, faults>>

-----------------------------------------------------------------------------
(* _drain_gameplay_skill_dispatch, on a worker *)

Start(w, t) ==
    /\ pc[w] = "idle" /\ t \in scheduled
    /\ scheduled' = scheduled \ {t}
    /\ pc' = [pc EXCEPT ![w] = "pop"] /\ mine' = [mine EXCEPT ![w] = t]
    /\ UNCHANGED <<worldVars, sessionVars, gate, queueVars, hand, handled, ghostVars, faults>>

\* The first check is not made under the lock, but a later one decides.
Pop(w) ==
    LET entry == Head(queue)
        valid == entry.generation = generation /\ IsCurrent(entry.kind, entry.context)
    IN
    /\ pc[w] = "pop"
    /\ handled[w] < BatchLimit /\ token = mine[w] /\ queue # <<>>
    /\ queue' = Tail(queue)
    /\ IF valid THEN /\ hand' = [hand EXCEPT ![w] = entry]
                     /\ pc' = [pc EXCEPT ![w] = "gate"]
                     /\ UNCHANGED handled
       ELSE /\ handled' = [handled EXCEPT ![w] = @ + 1]
            /\ UNCHANGED <<hand, pc>>
    /\ UNCHANGED <<worldVars, sessionVars, gate, queueContext, generation, token, nextToken,
                   scheduled, mine, ghostVars, faults>>

EndSlice(w) ==
    /\ pc[w] = "pop"
    /\ handled[w] >= BatchLimit \/ token # mine[w] \/ queue = <<>>
    /\ pc' = [pc EXCEPT ![w] = "finish"]
    /\ UNCHANGED <<worldVars, sessionVars, gate, queueVars, scheduled, mine, hand, handled,
                   ghostVars, faults>>

\* Mutant: the command is not checked again under the gate.
TakeGateUnchecked(w) ==
    /\ pc[w] = "gate" /\ gate = Free
    /\ gate' = w /\ pc' = [pc EXCEPT ![w] = "run"]
    /\ UNCHANGED <<worldVars, sessionVars, queueVars, scheduled, mine, hand, handled,
                   ghostVars, faults>>

\* The gate is taken and the command checked again; it is kept for the handler.
TakeGate(w) ==
    /\ pc[w] = "gate" /\ gate = Free
    /\ IF IsCurrent(hand[w].kind, hand[w].context)
       THEN /\ gate' = w /\ pc' = [pc EXCEPT ![w] = "run"]
            /\ UNCHANGED <<hand, handled>>
       ELSE /\ hand' = [hand EXCEPT ![w] = None]
            /\ handled' = [handled EXCEPT ![w] = @ + 1]
            /\ pc' = [pc EXCEPT ![w] = "pop"]
            /\ UNCHANGED gate
    /\ UNCHANGED <<worldVars, sessionVars, queueVars, scheduled, mine, ghostVars, faults>>

\* The handler takes effect, or raises, which is caught; the gate is released.
Execute(w) ==
    /\ pc[w] = "run"
    /\ log' = Append(log, [id |-> hand[w].id, at |-> where, epoch |-> epoch])
    /\ gate' = Free
    /\ hand' = [hand EXCEPT ![w] = None]
    /\ handled' = [handled EXCEPT ![w] = @ + 1]
    /\ pc' = [pc EXCEPT ![w] = "pop"]
    /\ UNCHANGED <<worldVars, sessionVars, queueVars, scheduled, mine, accepted, final, faults>>

\* Mutant: the token is released when the head is stale, whatever follows it.
FinishAtStaleHead(w) ==
    /\ pc[w] = "finish"
    /\ IF token # mine[w]
       THEN Leave(w) /\ UNCHANGED <<queue, token, nextToken>>
       ELSE IF queue = <<>> \/ ~IsCurrent(Head(queue).kind, Head(queue).context)
       THEN token' = 0 /\ Leave(w) /\ UNCHANGED <<queue, nextToken>>
       ELSE Reserve(w) /\ UNCHANGED <<queue, handled>>
    /\ UNCHANGED <<worldVars, sessionVars, gate, queueContext, generation, scheduled, hand,
                   ghostVars, faults>>

\* _finish_gameplay_skill_dispatch_slice: stale commands at the head are dropped.
Finish(w) ==
    LET live == {i \in DOMAIN queue : IsCurrent(queue[i].kind, queue[i].context)} IN
    /\ pc[w] = "finish"
    /\ \/ token # mine[w] /\ Leave(w) /\ UNCHANGED <<queue, token, nextToken>>
       \/ /\ token = mine[w] /\ live = {}
          /\ queue' = <<>> /\ token' = 0 /\ Leave(w) /\ UNCHANGED nextToken
       \/ /\ token = mine[w]
          /\ \E first \in live :
                 (\A i \in live : first <= i) /\ queue' = SubSeq(queue, first, Len(queue))
          /\ Reserve(w) /\ UNCHANGED handled
    /\ UNCHANGED <<worldVars, sessionVars, gate, queueContext, generation, scheduled, hand,
                   ghostVars, faults>>

-----------------------------------------------------------------------------
(* The world around the queue *)

\* The timers of a match change its round and phase without the player's gate.
ChangePhase ==
    /\ epoch + where.phase < MaxChanges
    /\ where' = [where EXCEPT !.phase = @ + 1]
    /\ UNCHANGED <<epoch, leaving, sessionVars, gate, queueVars, scheduled, threadVars,
                   ghostVars, faults>>

\* A map may be entered again, with the same shared combat state.
ChangeMap(m) ==
    /\ epoch + where.phase < MaxChanges
    /\ where' = [map |-> m, phase |-> 0] /\ epoch' = epoch + 1
    /\ UNCHANGED <<leaving, sessionVars, gate, queueVars, scheduled, threadVars, ghostVars,
                   faults>>

StartTransition ==
    /\ epoch + where.phase < MaxChanges /\ ~leaving
    /\ leaving' = TRUE /\ epoch' = epoch + 1
    /\ UNCHANGED <<where, sessionVars, gate, queueVars, scheduled, threadVars, ghostVars, faults>>

\* The player's state is initialized again.
EndTransition ==
    /\ leaving /\ leaving' = FALSE
    /\ UNCHANGED <<where, epoch, sessionVars, gate, queueVars, scheduled, threadVars,
                   ghostVars, faults>>

-----------------------------------------------------------------------------
(* Retirement: of a failed session, of an idle one or on a disconnect *)

BeginRetirement ==
    /\ retirement = "no"
    /\ retirement' = "queued" /\ connected' = FALSE
    /\ UNCHANGED <<worldVars, failed, retired, gate, queueVars, scheduled,
                   threadVars, ghostVars, faults>>

\* The lifecycle scheduler is full: the session is left to a later attempt.
RetirementRefused ==
    /\ retirement = "queued" /\ Fault
    /\ retirement' = "no" /\ connected' = TRUE /\ failed' = TRUE
    /\ UNCHANGED <<worldVars, retired, gate, queueVars, scheduled, threadVars,
                   ghostVars>>

MarkRetired ==
    /\ retirement = "queued"
    /\ retirement' = "waiting" /\ retired' = TRUE
    /\ UNCHANGED <<worldVars, connected, failed, gate, queueVars, scheduled,
                   threadVars, ghostVars, faults>>

FinalSnapshot ==
    /\ retirement = "waiting" /\ gate = Free
    /\ retirement' = "closing" /\ gate' = Retirer /\ final' = Len(log)
    /\ UNCHANGED <<worldVars, connected, failed, retired, queueVars, scheduled,
                   threadVars, accepted, log, faults>>

CancelSessionActivity ==
    /\ retirement = "closing"
    /\ retirement' = "done" /\ gate' = Free
    /\ generation' = generation + 1 /\ queue' = <<>> /\ token' = 0
    /\ UNCHANGED <<worldVars, connected, failed, retired, queueContext, nextToken,
                   scheduled, threadVars, ghostVars, faults>>

-----------------------------------------------------------------------------

ReceiverStep == (\E kind \in Kinds : Receive(kind)) \/ Enqueue
HandOver(t)  == Schedule(t) \/ ScheduleFails(t) \/ RequestRetirement(t)
Drain(w)     == (\E t \in scheduled : Start(w, t)) \/ Pop(w) \/ EndSlice(w)
                \/ TakeGate(w) \/ Execute(w) \/ Finish(w)
World        == ChangePhase \/ (\E m \in Maps : ChangeMap(m)) \/ StartTransition \/ EndTransition
Retire       == BeginRetirement \/ RetirementRefused \/ MarkRetired \/ FinalSnapshot
                \/ CancelSessionActivity

Next == ReceiverStep \/ (\E t \in Threads : HandOver(t)) \/ (\E w \in Workers : Drain(w))
        \/ World \/ Retire

Spec == Init /\ [][Next]_vars

-----------------------------------------------------------------------------
(* Properties *)

Draining(w) == pc[w] \in {"pop", "gate", "run", "finish"}

\* The callbacks alive with a token: reserved, scheduled, or running.
Scheduling(t) == {u \in Threads : pc[u] = "schedule" /\ mine[u] = t}
Running(t)    == {w \in Workers : Draining(w) /\ mine[w] = t}

\* The queue never waits for nobody, and never has two consumers: while it
\* holds a command the token is out and exactly one callback has it, being
\* scheduled, waiting for a worker, or draining.  A token that is lost stops
\* the session's input until it is retired.
QueueHasOneConsumer ==
    queue # <<>> =>
        /\ token # 0
        /\ IF token \in scheduled THEN Scheduling(token) \cup Running(token) = {}
           ELSE \E u \in Threads : Scheduling(token) \cup Running(token) = {u}

\* Commands execute in the order of their arrival, except that a move may come
\* before requests for actors, although callbacks of an old token may still be
\* under way when a new one is scheduled.
InputOrder ==
    \A i, j \in DOMAIN log : i < j /\ log[i].id > log[j].id =>
        accepted[log[i].id].kind = "move" /\ accepted[log[j].id].kind = "actors"

\* The moves received before a command, in the phase and on the visit to the
\* map in which it was received.
MovesBefore(id) ==
    {m \in 1 .. id - 1 : /\ accepted[m].kind = "move"
                         /\ accepted[m].context = accepted[id].context
                         /\ accepted[m].epoch = accepted[id].epoch}

\* A cast or another command that executes where it was received finds the
\* player where the last move before it led: that move is not lost to a later
\* one, to the capacity or to a change of generation, unless the session is
\* given up.
CommandsSeeTheirMoves ==
    connected /\ ~failed /\ (\A t \in Threads : pc[t] # "refused") => \A k \in DOMAIN log :
        LET id == log[k].id IN
        /\ accepted[id].kind \in {"cast", "durable"}
        /\ log[k].at = accepted[id].context /\ log[k].epoch = accepted[id].epoch
        /\ MovesBefore(id) # {}
        => \E j \in 1 .. k - 1 : \A m \in MovesBefore(id) :
               log[j].id \in MovesBefore(id) /\ m <= log[j].id

Waiting(id) ==
    \/ \E i \in DOMAIN queue : queue[i].id = id
    \/ \E w \in Workers : hand[w] # None /\ hand[w].id = id

\* A command accepted from a player who has not left the map since is not lost,
\* whatever phases the match goes through, unless the session is given up.
DurableIsKept ==
    connected /\ ~failed /\ (\A t \in Threads : pc[t] # "refused") =>
        \A id \in DOMAIN accepted :
            ~SpatialInput(accepted[id].kind) /\ accepted[id].epoch = epoch =>
                Waiting(id) \/ \E k \in DOMAIN log : log[k].id = id

\* Nothing executes after the final snapshot of the session: what a command
\* did to the character is in it.
FinalSnapshotIsFinal == final # None => Len(log) = final

(* Not true of the code, and checked by no run: TLC refutes it, see README. *)

\* A spatial command takes effect in the phase it was received in: "Countdown
\* movement must never execute after the start" (dispatch.py:172).
CountdownNeverLeaks ==
    \A k \in DOMAIN log :
        SpatialInput(accepted[log[k].id].kind) /\ log[k].epoch = accepted[log[k].id].epoch
            => log[k].at = accepted[log[k].id].context

=============================================================================
