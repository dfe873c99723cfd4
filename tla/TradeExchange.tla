---------------------------- MODULE TradeExchange ----------------------------
(***************************************************************************)
(* One open trade of src/services/trade.py from its two offers to the      *)
(* exchange: the offer, ready and cancel commands of both players, the one *)
(* executor that their acceptances elect, the mutation gates it reserves,  *)
(* the commits under one flow_lock at a time with their rollback, both     *)
(* saves, and the disconnects, pickups and crashes that run beside it.     *)
(*                                                                         *)
(* An inventory is a set of item tokens and an amount of gold: a copy of a *)
(* whole stack has its own token, so the identity test of the code (the    *)
(* inventory "is" the snapshot) is equality here.                          *)
(***************************************************************************)
EXTENDS Naturals, FiniteSets

CONSTANTS
    Items,          \* item tokens, the ones lying on the ground included
    StartItems,     \* what each player carries at first
    StartGold,      \* the gold of each player at first
    Gatherers,      \* players for whom a delayed auto-pickup may fire
    Autosaved,      \* players whose periodic save may fall into the trade
    Crashing,       \* whether the process may die and reload its tables
    MaxCommands     \* bound: other gated commands per player

Players == {"requester", "invited"}
Other(p) == IF p = "requester" THEN "invited" ELSE "requester"

ASSUME StartAssumption ==
    /\ IsFiniteSet(Items)
    /\ StartItems \in [Players -> SUBSET Items]
    /\ StartItems["requester"] \cap StartItems["invited"] = {}
    /\ StartGold \in [Players -> Nat]
    /\ Gatherers \subseteq Players /\ Autosaved \subseteq Players
    /\ Crashing \in BOOLEAN
    /\ MaxCommands \in Nat

VARIABLES
    bag,        \* gameplay_inventory and gameplay_currency_state
    offer,      \* _Side.items and _Side.gold
    ready,      \* _Side.ready
    busy,       \* _Trade.busy
    open,       \* both _TRADES entries still name this trade
    accept,     \* the READY command under way from each client
    step,       \* where the elected executor stands
    executor,   \* whose READY handler executes
    accepted,   \* the frozen _AcceptedSide of both
    snapshot,   \* what the executor read under each flow_lock
    gate,       \* gameplay_mutation_lock of each session
    session,    \* the session's life: retirement flag, cleanup, detached
    capture,    \* what the autosaver captured, holding gameplay_persist_lock
    saveFailed, \* persistence_errors is not empty
    queued,     \* the row the account store has queued for each character
    rows,       \* the durable row of each character
    reported,   \* ghost: the trade was reported done (PHASE_DONE)
    ground,     \* gatherables not yet picked up
    used,       \* ghost: items and gold that commands have consumed
    commands    \* ghost: gated commands so far, per player

vars == <<bag, offer, ready, busy, open, accept, step, executor, accepted,
          snapshot, gate, session, capture, saveFailed, queued, rows,
          reported, ground, used, commands>>

Bag     == [items: SUBSET Items, gold: Nat]
NoOffer == [items |-> {}, gold |-> 0]
Nobody  == "nobody"

\* A READY command on its way: it carries a Boolean and nothing of the offers.
Accept  == {"none", "ready", "revoke"}
NoAccept == "none"

Steps == {"idle", "gate", "check", "snap1", "snap2", "build", "commit1", "commit2",
          "undo", "unready", "save1", "saved1", "save2", "saved2", "flush",
          "done", "abort", "ungate", "unbusy"}
Gates == {"free", "command", "executor", "retirement"}
SessionStates == {"in", "retiring", "closing", "saving", "flushing", "gone"}

TypeOK ==
    /\ bag \in [Players -> Bag] /\ offer \in [Players -> Bag]
    /\ ready \in [Players -> BOOLEAN] /\ busy \in BOOLEAN /\ open \in BOOLEAN
    /\ accept \in [Players -> Accept]
    /\ step \in Steps /\ executor \in Players \cup {Nobody}
    /\ accepted \in [Players -> Bag] /\ snapshot \in [Players -> Bag]
    /\ gate \in [Players -> Gates] /\ session \in [Players -> SessionStates]
    /\ queued \in [Players -> SUBSET Bag]
    /\ rows \in [Players -> Bag]
    /\ capture \in [Players -> SUBSET Bag] /\ saveFailed \in BOOLEAN
    /\ reported \in BOOLEAN /\ used \in Bag /\ ground \subseteq Items
    /\ commands \in [Players -> Nat]

Init ==
    /\ bag = [p \in Players |-> [items |-> StartItems[p], gold |-> StartGold[p]]]
    /\ offer = [p \in Players |-> NoOffer]
    /\ ready = [p \in Players |-> FALSE]
    /\ busy = FALSE /\ open = TRUE
    /\ accept = [p \in Players |-> NoAccept]
    /\ step = "idle" /\ executor = Nobody
    /\ accepted = [p \in Players |-> NoOffer]
    /\ snapshot = [p \in Players |-> NoOffer]
    /\ gate = [p \in Players |-> "free"]
    /\ session = [p \in Players |-> "in"]
    /\ queued = [p \in Players |-> {}]
    /\ rows = bag
    /\ capture = [p \in Players |-> {}] /\ saveFailed = FALSE
    /\ reported = FALSE /\ used = NoOffer
    /\ ground = Items \ UNION {StartItems[p] : p \in Players}
    /\ commands = [p \in Players |-> 0]

tradeVars   == <<offer, ready, busy, open>>
clientVars  == <<accept>>
executeVars == <<step, executor, accepted, snapshot, saveFailed, reported>>
storeVars   == <<capture, queued, rows>>
bagVars     == <<bag, ground, used>>
sessionVars == <<gate, session, commands>>

-----------------------------------------------------------------------------
(* The clients. *)

\* A client's commands are handled in the order it sent them.
NothingSent(p) == accept[p] = NoAccept

\* The player presses accept, or takes the acceptance back.
Press(p) ==
    /\ open /\ session[p] = "in" /\ NothingSent(p)
    /\ accept' = [accept EXCEPT ![p] = IF ready[p] THEN "revoke" ELSE "ready"]
    /\ UNCHANGED <<bagVars, tradeVars, executeVars, storeVars, sessionVars>>

-----------------------------------------------------------------------------
(* Commands.  The dispatcher runs a session's commands one at a time, each   *)
(* under the session's mutation gate; one that touches nothing between two   *)
(* steps is one step.                                                        *)

Runs(p) == session[p] = "in" /\ gate[p] = "free"

\* Clamped to what the player carries.
Clamped(p) == [items: SUBSET bag[p].items, gold: 0..bag[p].gold]
OfferFrame == UNCHANGED <<bagVars, busy, open, clientVars, executeVars, storeVars, sessionVars>>

\* _trade_offer: any change takes both acceptances back.
Offer(p) ==
    /\ Runs(p) /\ NothingSent(p)
    /\ open /\ ~busy
    /\ \E o \in Clamped(p) : offer' = [offer EXCEPT ![p] = o]
    /\ ready' = [q \in Players |-> FALSE]
    /\ OfferFrame

\* The READY command finds the trade gone, busy or its session retiring.
ReadyIgnored(p) ==
    /\ ~NothingSent(p)
    /\ gate[p] = "free"
    /\ ~open \/ busy \/ session[p] # "in"
    /\ accept' = [accept EXCEPT ![p] = NoAccept]
    /\ UNCHANGED <<bagVars, tradeVars, executeVars, storeVars, sessionVars>>

\* The command loop of READY, up to the release of the registry lock: with both
\* acceptances this handler becomes the executor and freezes both offers.
Ready(p) ==
    /\ Runs(p) /\ ~NothingSent(p)
    /\ open /\ ~busy
    /\ ready' = [ready EXCEPT ![p] = accept[p] = "ready"]
    /\ accept' = [accept EXCEPT ![p] = NoAccept]
    /\ busy' = (\A q \in Players : ready'[q])
    /\ IF busy'
       THEN /\ accepted' = offer /\ step' = "gate" /\ executor' = p
            /\ gate' = [gate EXCEPT ![p] = "executor"]
       ELSE UNCHANGED <<accepted, step, executor, gate>>
    /\ UNCHANGED <<bagVars, offer, open, snapshot, saveFailed,
                   reported, storeVars, session, commands>>

\* _trade_close on a cancel: refused while an executor is at work.
Cancel(p) ==
    /\ Runs(p) /\ NothingSent(p)
    /\ open /\ ~busy
    /\ open' = FALSE
    /\ UNCHANGED <<bagVars, offer, ready, busy, clientVars, executeVars, storeVars, sessionVars>>

\* A command that finds the partner gone closes the trade, unless it is busy;
\* one that looked just before he left goes on, so the others do not test it.
PartnerAbsent(p) ==
    /\ Runs(p)
    /\ session[Other(p)] # "in"
    /\ accept' = [accept EXCEPT ![p] = NoAccept]
    /\ open' = (open /\ busy)
    /\ UNCHANGED <<bagVars, offer, ready, busy, executeVars, storeVars, sessionVars>>

\* Any other gated command: it holds the gate for a while, and at its end may
\* have sold or used an item or spent gold.
CommandBegin(p) ==
    /\ Runs(p) /\ commands[p] < MaxCommands
    /\ gate' = [gate EXCEPT ![p] = "command"]
    /\ commands' = [commands EXCEPT ![p] = @ + 1]
    /\ UNCHANGED <<bagVars, tradeVars, clientVars, executeVars, storeVars, session>>

CommandEnd(p) ==
    /\ gate[p] = "command"
    /\ gate' = [gate EXCEPT ![p] = "free"]
    /\ \/ \E i \in bag[p].items :
             /\ bag' = [bag EXCEPT ![p].items = @ \ {i}]
             /\ used' = [used EXCEPT !.items = @ \cup {i}] /\ UNCHANGED ground
       \/ /\ bag[p].gold > 0
          /\ bag' = [bag EXCEPT ![p].gold = @ - 1]
          /\ used' = [used EXCEPT !.gold = @ + 1] /\ UNCHANGED ground
       \/ UNCHANGED bagVars
    /\ UNCHANGED <<tradeVars, clientVars, executeVars, storeVars, session, commands>>

\* A delayed auto-pickup of a gatherable (map_events.py) runs on a deadline
\* worker: it changes the inventory under the flow_lock and takes no gate.  Only
\* the end of a retirement calls it off.
Pickup(p) ==
    /\ p \in Gatherers /\ session[p] # "gone"
    /\ \E i \in ground :
         /\ bag' = [bag EXCEPT ![p].items = @ \cup {i}]
         /\ ground' = ground \ {i}
    /\ UNCHANGED <<used, tradeVars, clientVars, executeVars, storeVars, sessionVars>>

-----------------------------------------------------------------------------
(* The executor.  "first" and "second" are the order of the sides in         *)
(* _trade_execute_locked: the requester before the invited player.           *)

first  == "requester"
second == "invited"

At(from) == step = from
Goto(to) == step' = to
ExecutorFrame == UNCHANGED <<executor, accepted, offer, clientVars, reported,
                             session, commands, ground, used>>
Quiet == UNCHANGED <<bag, snapshot, saveFailed, storeVars, gate, ready, busy, open>>

\* The executor's own gate is reentrant; the partner's must come free.
ReserveGates ==
    /\ At("gate") /\ Goto("check")
    /\ gate[Other(executor)] = "free"
    /\ gate' = [gate EXCEPT ![Other(executor)] = "executor"]
    /\ ExecutorFrame
    /\ UNCHANGED <<bag, snapshot, saveFailed, storeVars, ready, busy, open>>

\* The partner's gate stays taken for 15 seconds: the exception closes the
\* trade by force.
GateTimeout ==
    /\ At("gate") /\ Goto("abort")
    /\ gate[Other(executor)] # "free"
    /\ ExecutorFrame /\ Quiet

\* The lookup before any gate finds the partner's session gone.
ParticipantMissing ==
    /\ At("gate") /\ Goto("abort")
    /\ session[Other(executor)] # "in"
    /\ ExecutorFrame /\ Quiet

\* Both participants must still be connected once the gates are held.
CheckSessions ==
    /\ At("check")
    /\ Goto(IF \A p \in Players : session[p] = "in" THEN "snap1" ELSE "abort")
    /\ ExecutorFrame /\ Quiet

TakeSnapshot(p, from, to) ==
    /\ At(from) /\ Goto(to)
    /\ snapshot' = [snapshot EXCEPT ![p] = bag[p]]
    /\ ExecutorFrame
    /\ UNCHANGED <<bag, saveFailed, storeVars, gate, ready, busy, open>>

SnapshotFirst  == TakeSnapshot(first, "snap1", "snap2")
SnapshotSecond == TakeSnapshot(second, "snap2", "build")

Result(p) ==
    [items |-> (snapshot[p].items \ accepted[p].items) \cup accepted[Other(p)].items,
     gold  |-> (snapshot[p].gold - accepted[p].gold) + accepted[Other(p)].gold]

Deliverable ==
    \A p \in Players : /\ accepted[p].items \subseteq snapshot[p].items
                       /\ accepted[p].gold <= snapshot[p].gold

\* Both mutations computed from the snapshots.
Build ==
    /\ At("build") /\ Goto("commit1") /\ Deliverable
    /\ ExecutorFrame /\ Quiet

\* An offered item is gone, the gold is short, or the bags would be full: both
\* acceptances are taken back and the trade goes on.
BuildFails ==
    /\ At("build") /\ Goto("ungate")
    /\ ready' = [p \in Players |-> FALSE]
    /\ ExecutorFrame
    /\ UNCHANGED <<bag, snapshot, saveFailed, storeVars, gate, busy, open>>

Commit(p, from, to) ==
    /\ At(from) /\ Goto(to)
    /\ bag[p] = snapshot[p]
    /\ bag' = [bag EXCEPT ![p] = Result(p)]
    /\ ExecutorFrame
    /\ UNCHANGED <<snapshot, saveFailed, storeVars, gate, ready, busy, open>>

CommitFirst  == Commit(first, "commit1", "commit2")
CommitSecond == Commit(second, "commit2", "save1")

FirstChanged ==
    /\ At("commit1") /\ Goto("unready")
    /\ bag[first] # snapshot[first]
    /\ ExecutorFrame /\ Quiet

SecondChanged ==
    /\ At("commit2") /\ Goto("undo")
    /\ bag[second] # snapshot[second]
    /\ ExecutorFrame /\ Quiet

\* Mutant: the first side is not put back.
NoUndo ==
    /\ At("undo") /\ Goto("unready")
    /\ ExecutorFrame /\ Quiet

\* "Put back the side already committed, if it is still ours."
Undo ==
    /\ At("undo") /\ Goto("unready")
    /\ bag' = [bag EXCEPT ![first] = IF @ = Result(first) THEN snapshot[first] ELSE @]
    /\ ExecutorFrame
    /\ UNCHANGED <<snapshot, saveFailed, storeVars, gate, ready, busy, open>>

Unready ==
    /\ At("unready") /\ Goto("ungate")
    /\ ready' = [p \in Players |-> FALSE]
    /\ ExecutorFrame
    /\ UNCHANGED <<bag, snapshot, saveFailed, storeVars, gate, busy, open>>

\* gameplay_persist_lock: an autosave holds it from its capture to its put, a
\* flushed save until the flush ends.
PersistLockFree(p) ==
    /\ capture[p] = {}
    /\ session[p] # "flushing"
    /\ step # (IF p = first THEN "saved1" ELSE "saved2")

\* _request_account_save(flush=True): capture and queue under the persist lock.
Save(p, from, to) ==
    /\ At(from) /\ Goto(to)
    /\ PersistLockFree(p)
    /\ queued' = [queued EXCEPT ![p] = {bag[p]}]
    /\ ExecutorFrame
    /\ UNCHANGED <<bag, snapshot, saveFailed, capture, rows, gate, ready, busy, open>>

\* store.flush() inside the save; its TimeoutError is kept for later.
SaveFlushed(p, from, to) ==
    /\ At(from) /\ Goto(to)
    /\ queued[p] = {}
    /\ ExecutorFrame /\ Quiet

SaveTimeout(p, from, to) ==
    /\ At(from) /\ Goto(to)
    /\ queued[p] # {}
    /\ saveFailed' = TRUE
    /\ ExecutorFrame
    /\ UNCHANGED <<bag, snapshot, storeVars, gate, ready, busy, open>>

SaveFirst  == Save(first, "save1", "saved1")
SaveSecond == Save(second, "save2", "saved2")

\* Mutant: the second save is queued and its flush not awaited.
SecondNotAwaited ==
    \/ SaveFlushed(first, "saved1", "save2")
    \/ At("saved2") /\ Goto("done") /\ ExecutorFrame /\ Quiet

AwaitSaves ==
    \/ SaveFlushed(first, "saved1", "save2")
    \/ SaveFlushed(second, "saved2", "flush")

SavesTimeOut ==
    \/ SaveTimeout(first, "saved1", "save2")
    \/ SaveTimeout(second, "saved2", "flush")

\* The last store.flush(); the first error is raised once both saves have been
\* attempted.
Flushed ==
    /\ At("flush") /\ \A p \in Players : queued[p] = {}
    /\ Goto(IF saveFailed THEN "abort" ELSE "done")
    /\ ExecutorFrame /\ Quiet

FlushTimeout ==
    /\ At("flush") /\ \E p \in Players : queued[p] # {}
    /\ Goto("abort")
    /\ ExecutorFrame /\ Quiet

ReportDone ==
    /\ At("done") /\ Goto("ungate")
    /\ open' = FALSE
    /\ reported' = TRUE
    /\ UNCHANGED <<executor, accepted, offer, clientVars, session, commands, ground, used>>
    /\ UNCHANGED <<bag, snapshot, saveFailed, storeVars, gate, ready, busy>>

\* _trade_close(force=True), on a vanished participant or an exception.
Abort ==
    /\ At("abort") /\ Goto("ungate")
    /\ open' = FALSE
    /\ ExecutorFrame
    /\ UNCHANGED <<bag, snapshot, saveFailed, storeVars, gate, ready, busy>>

\* Mutant: the ExitStack forgets the partner's gate.
KeepPartnersGate ==
    /\ At("ungate") /\ Goto("unbusy")
    /\ ExecutorFrame /\ Quiet

\* The gates are released (the partner's on leaving _trade_execute, the
\* executor's own when its handler returns) before anyone looks at busy again.
ReleaseGates ==
    /\ At("ungate") /\ Goto("unbusy")
    /\ gate' = [p \in Players |-> IF gate[p] = "executor" /\ p # executor
                                  THEN "free" ELSE gate[p]]
    /\ ExecutorFrame
    /\ UNCHANGED <<bag, snapshot, saveFailed, storeVars, ready, busy, open>>

\* The handler returns; its locals go with it (accepted stays, as history, when
\* the trade was made).
Return ==
    /\ At("unbusy") /\ Goto("idle")
    /\ executor' = Nobody
    /\ gate' = [gate EXCEPT ![executor] = "free"]
    /\ snapshot' = [p \in Players |-> NoOffer] /\ saveFailed' = FALSE
    /\ accepted' = IF reported THEN accepted ELSE [p \in Players |-> NoOffer]
    /\ UNCHANGED <<bagVars, reported, offer, ready, open, clientVars, storeVars, session, commands>>

\* Mutant: the finally clause is lost.
ReturnBusy == Return /\ UNCHANGED busy

\* finally: busy = False.
ClearBusy == Return /\ busy' = FALSE

-----------------------------------------------------------------------------
(* Disconnect (transport.py): the session is marked at once, the cleanup      *)
(* waits for its gate, closes the trade, then persists the final snapshot.    *)

RetireFrame == UNCHANGED <<bagVars, offer, ready, busy, clientVars,
                           executeVars, commands>>

Disconnect(p) ==
    /\ session[p] = "in"
    /\ session' = [session EXCEPT ![p] = "retiring"]
    /\ RetireFrame
    /\ UNCHANGED <<open, gate, storeVars>>

RetireGate(p) ==
    /\ session[p] = "retiring" /\ gate[p] = "free"
    /\ session' = [session EXCEPT ![p] = "closing"]
    /\ gate' = [gate EXCEPT ![p] = "retirement"]
    /\ RetireFrame
    /\ UNCHANGED <<open, storeVars>>

\* _trade_retire_session: _trade_close without force leaves a busy trade alone.
RetireClose(p) ==
    /\ session[p] = "closing"
    /\ session' = [session EXCEPT ![p] = "saving"]
    /\ open' = (open /\ busy)
    /\ RetireFrame
    /\ UNCHANGED <<gate, storeVars>>

\* Mutant: the persist lock is not taken.
RetireSaveUnserialised(p) ==
    /\ session[p] = "saving"
    /\ session' = [session EXCEPT ![p] = "flushing"]
    /\ queued' = [queued EXCEPT ![p] = {bag[p]}]
    /\ RetireFrame
    /\ UNCHANGED <<open, gate, capture, rows>>

\* The final snapshot is taken and queued under the persist lock.
RetireSave(p) ==
    /\ session[p] = "saving" /\ PersistLockFree(p)
    /\ session' = [session EXCEPT ![p] = "flushing"]
    /\ queued' = [queued EXCEPT ![p] = {bag[p]}]
    /\ RetireFrame
    /\ UNCHANGED <<open, gate, capture, rows>>

\* The flush is over, or given up; the endpoint is detached.
RetireEnd(p) ==
    /\ session[p] = "flushing"
    /\ session' = [session EXCEPT ![p] = "gone"]
    /\ gate' = [gate EXCEPT ![p] = "free"]
    /\ RetireFrame
    /\ UNCHANGED <<open, storeVars>>

-----------------------------------------------------------------------------
(* The account store.  The autosaver captures a session under its flow_lock   *)
(* and queues the capture later, holding the session's persist lock between.  *)

StoreFrame == UNCHANGED <<bagVars, tradeVars, clientVars, executeVars, sessionVars>>

\* The sessions come from a tuple taken earlier, so a session may be gone.
AutosaveCapture(p) ==
    /\ p \in Autosaved /\ PersistLockFree(p)
    /\ capture' = [capture EXCEPT ![p] = {bag[p]}]
    /\ StoreFrame /\ UNCHANGED <<queued, rows>>

AutosavePut(p) ==
    /\ capture[p] # {}
    /\ queued' = [queued EXCEPT ![p] = capture[p]]
    /\ capture' = [capture EXCEPT ![p] = {}]
    /\ StoreFrame /\ UNCHANGED rows

\* The database writer commits everything queued as one batch.
Newest(p) == IF queued[p] = {} THEN rows[p] ELSE CHOOSE b \in queued[p] : TRUE
Write ==
    /\ \E p \in Players : queued[p] # {}
    /\ rows' = [p \in Players |-> Newest(p)]
    /\ queued' = [p \in Players |-> {}]
    /\ StoreFrame /\ UNCHANGED capture

\* The process dies; what it loads again is in the tables.
Crash ==
    /\ Crashing
    /\ bag' = rows
    /\ session' = [p \in Players |-> "gone"]
    /\ gate' = [p \in Players |-> "free"]
    /\ open' = FALSE /\ busy' = FALSE /\ step' = "idle" /\ executor' = Nobody
    /\ capture' = [p \in Players |-> {}] /\ queued' = [p \in Players |-> {}]
    /\ UNCHANGED <<ground, used, offer, ready, clientVars, accepted, snapshot,
                   saveFailed, reported, rows, commands>>

-----------------------------------------------------------------------------
ClientStep == \E p \in Players : Press(p)

CommandStep ==
    \E p \in Players :
        \/ Offer(p)
        \/ ReadyIgnored(p)
        \/ Ready(p)
        \/ Cancel(p)
        \/ PartnerAbsent(p)
        \/ CommandBegin(p)
        \/ CommandEnd(p)

ExecutorStep ==
    \/ ReserveGates
    \/ GateTimeout
    \/ ParticipantMissing
    \/ CheckSessions
    \/ SnapshotFirst
    \/ SnapshotSecond
    \/ Build
    \/ BuildFails
    \/ CommitFirst
    \/ CommitSecond
    \/ FirstChanged
    \/ SecondChanged
    \/ Undo
    \/ Unready
    \/ SaveFirst
    \/ SaveSecond
    \/ AwaitSaves
    \/ SavesTimeOut
    \/ Flushed
    \/ FlushTimeout
    \/ ReportDone
    \/ Abort
    \/ ReleaseGates
    \/ ClearBusy

Retire(p) ==
    \/ RetireGate(p)
    \/ RetireClose(p)
    \/ RetireSave(p)
    \/ RetireEnd(p)

RetireStep == \E p \in Players : Disconnect(p) \/ Retire(p)

StoreStep ==
    \/ \E p \in Players : AutosaveCapture(p)
    \/ \E p \in Players : AutosavePut(p)
    \/ Write

Next ==
    \/ ClientStep
    \/ CommandStep
    \/ \E p \in Players : Pickup(p)
    \/ ExecutorStep
    \/ RetireStep
    \/ StoreStep
    \/ Crash

Spec == Init /\ [][Next]_vars

\* Threads that can go on do; clients need not send anything.  Fairness is strong
\* where the autosaver takes the persist lock between two attempts: it does so
\* once in 15 seconds, for microseconds.
Fairness ==
    /\ SF_vars(ExecutorStep)
    /\ WF_vars(Write)
    /\ \A p \in Players :
          /\ WF_vars(CommandEnd(p))
          /\ SF_vars(Retire(p))
          /\ WF_vars(AutosavePut(p))

FairSpec == Spec /\ Fairness

-----------------------------------------------------------------------------
(* Safety. *)

\* An executor exchanges what both are ready for, whatever commands arrive
\* while it works: the frozen offers are the offers.
FrozenIsCurrent == busy => accepted = offer

\* An acceptance never outlives the offers it was given for ("any change takes
\* both acceptances back").
AcceptanceIsOfOffers ==
    [][\A p \in Players : ready[p] /\ ready'[p] => offer' = offer]_vars

\* Outside a half-made commit every item token is in one place only - one bag,
\* used up, or on the ground - and no gold is made or lost, through failed
\* executions, roll-backs and disconnects ("for both, or not at all").
HalfMade == step \in {"commit2", "undo"}
GoldTotal == bag[first].gold + bag[second].gold + used.gold
OneOwner == bag[first].items \cap bag[second].items = {}
EverythingOnce ==
    ~HalfMade =>
        /\ OneOwner
        /\ \A p \in Players : bag[p].items \cap used.items = {}
        /\ UNION {StartItems[p] : p \in Players} \subseteq
              bag[first].items \cup bag[second].items \cup used.items
        /\ GoldTotal = StartGold[first] + StartGold[second]

\* A trade reported as done survives a crash: neither table row still holds
\* what its player gave, although autosaves with older captures run beside it.
DoneIsDurable ==
    reported => \A p \in Players : rows[p].items \cap accepted[p].items = {}

\* Once a session's final snapshot is queued no exchange touches its bag again:
\* the row that will be loaded at the next login is the bag.
FinalRowIsFinal ==
    \A p \in Players : session[p] \in {"flushing", "gone"} => Newest(p) = bag[p]

\* One executor at a time, and it alone works on reserved bags: while a commit
\* is half made both gates are its own.
CommitHoldsBothGates ==
    HalfMade => \A p \in Players : gate[p] = "executor"

(* Not true of the code, and checked by no run: TLC refutes it, see README. *)

\* After a crash and reload, an exchange was made for both or not at all.
ReloadedOneOwner ==
    (\A p \in Players : session[p] = "gone") => OneOwner

(* Liveness. *)

\* An election ends: the trade does not stay busy, whatever fails on the way.
BusyEnds == busy ~> ~busy

\* Gates are not kept: every disconnected session is eventually detached.
RetirementEnds == \A p \in Players : session[p] # "in" ~> session[p] = "gone"

=============================================================================
