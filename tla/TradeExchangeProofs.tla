------------------------- MODULE TradeExchangeProofs -------------------------
(***************************************************************************)
(* For any items, gold, gatherers and number of commands:                  *)
(*                                                                         *)
(*  - both mutation gates belong to the executor while a commit is half    *)
(*    made, and what it exchanges is what both players accepted            *)
(*    (GatesHeld, FrozenOffers, AcceptancesFall);                          *)
(*  - nothing is doubled or lost as long as one side at most has a writer  *)
(*    that takes no gate (ExchangedForBothOrNot); with two of them an      *)
(*    exchange can be half made;                                           *)
(*  - the row read at the next login is the bag at the end, for whoever    *)
(*    has no such writer (FinalRows);                                      *)
(*  - what is reported as done survives autosaves, retirements and crashes *)
(*    (DoneStaysDurable).                                                  *)
(***************************************************************************)
EXTENDS TradeExchange, TLAPS

\* Steps at which the executor holds both gates for certain.
Exclusive == {"check", "snap1", "snap2", "build", "commit1", "commit2", "undo"}

GateInv ==
    /\ busy <=> step # "idle"
    /\ step # "idle" => executor \in Players /\ gate[executor] = "executor"
    /\ step \in Exclusive => gate[Other(executor)] = "executor"
    /\ \A p \in Players :
          session[p] \in {"closing", "saving", "flushing"} => gate[p] = "retirement"

\* Checked by Build, and nothing it looked at changes until the second commit.
StillDeliverable == step \in {"commit1", "commit2"} => Deliverable

LEMMA TwoPlayers ==
    /\ first \in Players /\ second \in Players /\ first # second
    /\ Players = {first, second}
    /\ Other(first) = second /\ Other(second) = first
    /\ \A p \in Players : Other(p) \in Players /\ Other(p) # p /\ Players = {p, Other(p)}
BY DEF Players, Other, first, second

-----------------------------------------------------------------------------
(* Types. *)

LEMMA TypeInit == Init => TypeOK
<1> SUFFICES ASSUME Init PROVE TypeOK
  OBVIOUS
<1>1. NoOffer \in Bag /\ NoAccept \in Accept
  BY DEF NoOffer, Bag, NoAccept, Accept
<1>2. bag \in [Players -> Bag]
  BY StartAssumption DEF Init, Bag
<1>3. ground \subseteq Items
  BY DEF Init
<1>4. step \in Steps /\ gate \in [Players -> Gates] /\ session \in [Players -> SessionStates]
  BY DEF Init, Steps, Gates, SessionStates
<1> QED BY <1>1, <1>2, <1>3, <1>4 DEF Init, TypeOK

LEMMA TypeClients ==
    ASSUME TypeOK, NEW p \in Players,
           Press(p) \/ Offer(p) \/ ReadyIgnored(p) \/ Ready(p) \/ Cancel(p) \/ PartnerAbsent(p)
    PROVE  TypeOK'
<1> USE TwoPlayers
<1>1. CASE Press(p)
  BY <1>1 DEF Press, NothingSent, TypeOK, Accept, bagVars, tradeVars, executeVars, storeVars, sessionVars
<1>2. CASE Offer(p)
  <2>1. Clamped(p) \subseteq Bag
    BY DEF Clamped, Bag, TypeOK
  <2> QED BY <1>2, <2>1 DEF Offer, OfferFrame, TypeOK, bagVars, clientVars, executeVars, storeVars, sessionVars
<1>3. CASE ReadyIgnored(p)
  BY <1>3 DEF ReadyIgnored, TypeOK, Accept, NoAccept, bagVars, tradeVars, executeVars, storeVars, sessionVars
<1>4. CASE Ready(p)
  BY <1>4 DEF Ready, TypeOK, Accept, NoAccept, Steps, Gates, bagVars, storeVars
<1>5. CASE Cancel(p)
  BY <1>5 DEF Cancel, TypeOK, bagVars, clientVars, executeVars, storeVars, sessionVars
<1>6. CASE PartnerAbsent(p)
  BY <1>6 DEF PartnerAbsent, TypeOK, Accept, NoAccept, bagVars, executeVars, storeVars, sessionVars
<1> QED BY <1>1, <1>2, <1>3, <1>4, <1>5, <1>6

LEMMA TypeWorld ==
    ASSUME TypeOK, NEW p \in Players,
           \/ CommandBegin(p) \/ CommandEnd(p) \/ Pickup(p) \/ Disconnect(p) \/ Retire(p)
           \/ AutosaveCapture(p) \/ AutosavePut(p) \/ Write \/ Crash
    PROVE  TypeOK'
<1> USE TwoPlayers DEF TypeOK, bagVars, tradeVars, clientVars, executeVars, storeVars, sessionVars
<1>1. CASE CommandBegin(p)
  BY <1>1 DEF CommandBegin, Gates
<1>2. CASE CommandEnd(p)
  <2>1. bag' \in [Players -> Bag] /\ used' \in Bag
    BY <1>2 DEF CommandEnd, Bag
  <2> QED BY <1>2, <2>1 DEF CommandEnd, Gates
<1>3. CASE Pickup(p)
  <2>1. bag' \in [Players -> Bag] /\ ground' \subseteq Items
    BY <1>3 DEF Pickup, Bag
  <2> QED BY <1>3, <2>1 DEF Pickup
<1>4. CASE Disconnect(p)
  BY <1>4 DEF Disconnect, RetireFrame, SessionStates
<1>5. CASE Retire(p)
  BY <1>5 DEF Retire, RetireGate, RetireClose, RetireSave, RetireEnd, RetireFrame, SessionStates, Gates
<1>6. CASE AutosaveCapture(p)
  BY <1>6 DEF AutosaveCapture, StoreFrame
<1>7. CASE AutosavePut(p)
  BY <1>7 DEF AutosavePut, StoreFrame
<1>8. CASE Write
  <2>1. \A q \in Players : Newest(q) \in Bag
    BY DEF Newest
  <2> QED BY <1>8, <2>1 DEF Write, StoreFrame
<1>9. CASE Crash
  BY <1>9 DEF Crash, SessionStates, Gates, Steps, Nobody
<1> QED BY <1>1, <1>2, <1>3, <1>4, <1>5, <1>6, <1>7, <1>8, <1>9

\* What a player is given is a bag again: he gives no more than he had.
LEMMA ResultType ==
    ASSUME TypeOK, Deliverable, NEW p \in Players
    PROVE  Result(p) \in Bag
BY TwoPlayers DEF TypeOK, Deliverable, Result, Bag

LEMMA TypeExecutor ==
    ASSUME TypeOK, StillDeliverable, ExecutorStep
    PROVE  TypeOK'
<1> USE TwoPlayers DEF TypeOK, ExecutorFrame, At, Goto, Steps
<1>1. ASSUME Quiet, ExecutorFrame, step' \in Steps PROVE TypeOK'
  BY <1>1 DEF Quiet, clientVars, storeVars
<1>2. CASE ReserveGates
  BY <1>2 DEF ReserveGates, Gates, clientVars, storeVars
<1>3. CASE GateTimeout \/ ParticipantMissing \/ CheckSessions \/ Build \/ FirstChanged
           \/ SecondChanged \/ Flushed \/ FlushTimeout
  BY <1>1, <1>3 DEF GateTimeout, ParticipantMissing, CheckSessions, Build, FirstChanged,
                    SecondChanged, Flushed, FlushTimeout
<1>4. CASE SnapshotFirst \/ SnapshotSecond
  BY <1>4 DEF SnapshotFirst, SnapshotSecond, TakeSnapshot, clientVars, storeVars
<1>5. CASE BuildFails \/ Unready
  BY <1>5 DEF BuildFails, Unready, clientVars, storeVars
<1>6. CASE CommitFirst \/ CommitSecond
  BY <1>6, ResultType DEF CommitFirst, CommitSecond, Commit, StillDeliverable, clientVars, storeVars
<1>7. CASE Undo
  BY <1>7 DEF Undo, clientVars, storeVars
<1>8. CASE SaveFirst \/ SaveSecond
  BY <1>8 DEF SaveFirst, SaveSecond, Save, clientVars
<1>9. CASE AwaitSaves
  BY <1>1, <1>9 DEF AwaitSaves, SaveFlushed
<1>10. CASE SavesTimeOut
  BY <1>10 DEF SavesTimeOut, SaveTimeout, clientVars, storeVars
<1>11. CASE ReportDone \/ Abort
  BY <1>11 DEF ReportDone, Abort, clientVars, storeVars
<1>12. CASE ReleaseGates
  BY <1>12 DEF ReleaseGates, Gates, clientVars, storeVars
<1>13. CASE ClearBusy
  <2>1. NoOffer \in Bag
    BY DEF NoOffer, Bag
  <2> QED BY <1>13, <2>1 DEF ClearBusy, Return, Nobody, Gates, bagVars, clientVars, storeVars
<1> QED BY <1>2, <1>3, <1>4, <1>5, <1>6, <1>7, <1>8, <1>9, <1>10, <1>11, <1>12, <1>13
        DEF ExecutorStep

-----------------------------------------------------------------------------
(* The gates and the frozen offers. *)

CoreInv == TypeOK /\ GateInv /\ FrozenIsCurrent /\ StillDeliverable

LEMMA CoreInit == Init => CoreInv
<1> SUFFICES ASSUME Init PROVE CoreInv
  OBVIOUS
<1>1. GateInv /\ FrozenIsCurrent /\ StillDeliverable
  BY DEF Init, GateInv, FrozenIsCurrent, StillDeliverable, Exclusive
<1> QED BY <1>1, TypeInit DEF CoreInv

\* Commands need a free gate, and only Ready lets the executor have one.
LEMMA CoreClients ==
    ASSUME CoreInv, NEW p \in Players,
           Press(p) \/ Offer(p) \/ ReadyIgnored(p) \/ Ready(p) \/ Cancel(p) \/ PartnerAbsent(p)
    PROVE  (GateInv /\ FrozenIsCurrent /\ StillDeliverable)'
<1> USE TwoPlayers DEF CoreInv, GateInv, FrozenIsCurrent, StillDeliverable, Deliverable, Exclusive
<1>1. CASE Press(p) \/ ReadyIgnored(p) \/ Cancel(p) \/ PartnerAbsent(p)
  BY <1>1 DEF Press, ReadyIgnored, Cancel, PartnerAbsent, tradeVars, executeVars, sessionVars
<1>2. CASE Offer(p)
  BY <1>2 DEF Offer, OfferFrame, executeVars, sessionVars
<1>3. CASE Ready(p) /\ busy'
  BY <1>3 DEF Ready, Runs, TypeOK
<1>4. CASE Ready(p) /\ ~busy'
  BY <1>4 DEF Ready
<1> QED BY <1>1, <1>2, <1>3, <1>4

LEMMA CoreWorld ==
    ASSUME CoreInv, NEW p \in Players,
           \/ CommandBegin(p) \/ CommandEnd(p) \/ Pickup(p) \/ Disconnect(p) \/ Retire(p)
           \/ AutosaveCapture(p) \/ AutosavePut(p) \/ Write \/ Crash
    PROVE  (GateInv /\ FrozenIsCurrent /\ StillDeliverable)'
<1> USE TwoPlayers DEF CoreInv, GateInv, FrozenIsCurrent, StillDeliverable, Deliverable, Exclusive,
                       tradeVars, executeVars, sessionVars
<1>1. CASE CommandBegin(p) \/ CommandEnd(p)
  BY <1>1 DEF CommandBegin, CommandEnd, Runs, TypeOK
<1>2. CASE Pickup(p)
  BY <1>2 DEF Pickup
<1>3. CASE Disconnect(p)
  BY <1>3 DEF Disconnect, RetireFrame, TypeOK
<1>4. CASE Retire(p)
  BY <1>4 DEF Retire, RetireGate, RetireClose, RetireSave, RetireEnd, RetireFrame, TypeOK
<1>5. CASE AutosaveCapture(p) \/ AutosavePut(p) \/ Write
  BY <1>5 DEF AutosaveCapture, AutosavePut, Write, StoreFrame
<1>6. CASE Crash
  BY <1>6 DEF Crash
<1> QED BY <1>1, <1>2, <1>3, <1>4, <1>5, <1>6

LEMMA CoreExecutor ==
    ASSUME CoreInv, ExecutorStep
    PROVE  (GateInv /\ FrozenIsCurrent /\ StillDeliverable)'
<1> USE TwoPlayers DEF CoreInv, GateInv, FrozenIsCurrent, StillDeliverable, Deliverable, Exclusive,
                       ExecutorFrame, At, Goto
<1>1. CASE ReserveGates
  BY <1>1 DEF ReserveGates, TypeOK
<1>2. CASE GateTimeout \/ ParticipantMissing \/ CheckSessions \/ FirstChanged \/ SecondChanged
           \/ Flushed \/ FlushTimeout
  BY <1>2 DEF GateTimeout, ParticipantMissing, CheckSessions, FirstChanged, SecondChanged,
              Flushed, FlushTimeout, Quiet
<1>3. CASE Build
  BY <1>3 DEF Build, Quiet
<1>4. CASE SnapshotFirst \/ SnapshotSecond
  BY <1>4 DEF SnapshotFirst, SnapshotSecond, TakeSnapshot
<1>5. CASE BuildFails \/ Unready \/ Undo
  BY <1>5 DEF BuildFails, Unready, Undo
<1>6. CASE CommitFirst \/ CommitSecond
  BY <1>6 DEF CommitFirst, CommitSecond, Commit
<1>7. CASE SaveFirst \/ SaveSecond
  BY <1>7 DEF SaveFirst, SaveSecond, Save
<1>8. CASE AwaitSaves \/ SavesTimeOut
  BY <1>8 DEF AwaitSaves, SavesTimeOut, SaveFlushed, SaveTimeout, Quiet
<1>9. CASE ReportDone \/ Abort
  BY <1>9 DEF ReportDone, Abort
<1>10. CASE ReleaseGates
  BY <1>10 DEF ReleaseGates, TypeOK
<1>11. CASE ClearBusy
  BY <1>11 DEF ClearBusy, Return, TypeOK
<1> QED BY <1>1, <1>2, <1>3, <1>4, <1>5, <1>6, <1>7, <1>8, <1>9, <1>10, <1>11 DEF ExecutorStep

\* The steps of Next, by the lemmas that treat them.
LEMMA NextCases ==
    ASSUME Next
    PROVE  \/ \E p \in Players : \/ Press(p) \/ Offer(p) \/ ReadyIgnored(p) \/ Ready(p)
                                 \/ Cancel(p) \/ PartnerAbsent(p)
           \/ \E p \in Players : \/ CommandBegin(p) \/ CommandEnd(p) \/ Pickup(p)
                                 \/ Disconnect(p) \/ Retire(p)
                                 \/ AutosaveCapture(p) \/ AutosavePut(p) \/ Write \/ Crash
           \/ ExecutorStep
BY TwoPlayers DEF Next, ClientStep, CommandStep, RetireStep, StoreStep

LEMMA CoreStep == CoreInv /\ [Next]_vars => CoreInv'
<1> SUFFICES ASSUME CoreInv, [Next]_vars PROVE CoreInv'
  OBVIOUS
<1>1. CASE UNCHANGED vars
  BY <1>1 DEF CoreInv, TypeOK, GateInv, FrozenIsCurrent, StillDeliverable, Deliverable, vars
<1>2. CASE Next
  BY <1>2, NextCases, TypeClients, TypeWorld, TypeExecutor, CoreClients, CoreWorld, CoreExecutor
     DEF CoreInv
<1> QED BY <1>1, <1>2

LEMMA CoreAlways == Spec => []CoreInv
BY CoreInit, CoreStep, PTL DEF Spec

\* Every value stays of its type: no trade ever makes a player's gold negative,
\* because a built exchange stays deliverable until both sides are committed.
THEOREM TypeCorrect == Spec => []TypeOK
<1>1. CoreInv => TypeOK
  BY DEF CoreInv
<1> QED BY <1>1, CoreAlways, PTL

\* Whatever commands, retirements and crashes come in between, both mutation
\* gates are the executor's while only one side of an exchange is committed.
THEOREM GatesHeld == Spec => []CommitHoldsBothGates
<1>1. CoreInv => CommitHoldsBothGates
  BY TwoPlayers DEF CoreInv, GateInv, CommitHoldsBothGates, HalfMade, Exclusive
<1> QED BY <1>1, CoreAlways, PTL

\* What the executor exchanges is what both players accepted, to the end.
THEOREM FrozenOffers == Spec => []FrozenIsCurrent
<1>1. CoreInv => FrozenIsCurrent
  BY DEF CoreInv
<1> QED BY <1>1, CoreAlways, PTL

\* No step changes an offer and leaves an acceptance standing.
THEOREM AcceptancesFall == Spec => AcceptanceIsOfOffers
<1> DEFINE Kept == \A p \in Players : ready[p] /\ ready'[p] => offer' = offer
<1>1. ASSUME CoreInv, [Next]_vars PROVE [Kept]_vars
  <2>1. CASE UNCHANGED vars
    BY <2>1
  <2>2. ASSUME NEW p \in Players, Offer(p) PROVE Kept
    BY <2>2 DEF Offer
  <2>3. ASSUME NEW p \in Players,
               Press(p) \/ ReadyIgnored(p) \/ Ready(p) \/ Cancel(p) \/ PartnerAbsent(p)
        PROVE  offer' = offer
    BY <2>3 DEF Press, ReadyIgnored, Ready, Cancel, PartnerAbsent, tradeVars
  <2>4. ASSUME NEW p \in Players,
               \/ CommandBegin(p) \/ CommandEnd(p) \/ Pickup(p) \/ Disconnect(p) \/ Retire(p)
               \/ AutosaveCapture(p) \/ AutosavePut(p) \/ Write \/ Crash
        PROVE  offer' = offer
    BY <2>4 DEF CommandBegin, CommandEnd, Pickup, Disconnect, Retire, RetireGate, RetireClose,
                RetireSave, RetireEnd, RetireFrame, AutosaveCapture, AutosavePut, Write,
                StoreFrame, Crash, tradeVars
  <2>5. ASSUME ExecutorStep PROVE offer' = offer
    BY <2>5 DEF ExecutorStep, ReserveGates, GateTimeout, ParticipantMissing, CheckSessions,
                SnapshotFirst, SnapshotSecond, TakeSnapshot, Build, BuildFails, CommitFirst,
                CommitSecond, Commit, FirstChanged, SecondChanged, Undo, Unready, SaveFirst,
                SaveSecond, Save, AwaitSaves, SaveFlushed, SavesTimeOut, SaveTimeout, Flushed,
                FlushTimeout, ReportDone, Abort, ReleaseGates, ClearBusy, Return, ExecutorFrame
  <2>6. CASE Next
    BY <2>6, <2>2, <2>3, <2>4, <2>5, NextCases
  <2> QED BY <1>1, <2>1, <2>6
<1> QED BY <1>1, CoreAlways, PTL DEF Spec, AcceptanceIsOfOffers

-----------------------------------------------------------------------------
(* Nothing doubled, nothing lost. *)

\* Two bags x and y with what is used up and what lies on the ground: every
\* token in one place, every starting token and all gold somewhere.
Whole(x, y) ==
    /\ x.items \cap y.items = {}
    /\ (x.items \cup y.items) \cap (used.items \cup ground) = {}
    /\ used.items \cap ground = {}
    /\ StartItems[first] \cup StartItems[second] \subseteq x.items \cup y.items \cup used.items
    /\ x.gold + y.gold + used.gold = StartGold[first] + StartGold[second]

\* While half made, the exchange can go on or go back: on if nobody but the
\* executor can have touched the second bag, back if nobody can have touched
\* the first.
OnceInv ==
    /\ ~HalfMade => Whole(bag[first], bag[second])
    /\ step \in {"build", "commit1", "commit2"} /\ second \notin Gatherers =>
          bag[second] = snapshot[second]
    /\ step = "commit2" /\ second \notin Gatherers => Whole(bag[first], Result(second))
    /\ HalfMade /\ first \notin Gatherers =>
          bag[first] = Result(first) /\ Whole(snapshot[first], bag[second])
    /\ step = "undo" => first \notin Gatherers

\* Exchanging what both have keeps two bags whole.
LEMMA ExchangeKeepsWhole ==
    ASSUME TypeOK, Deliverable, Whole(snapshot[first], snapshot[second])
    PROVE  Whole(Result(first), Result(second))
<1>1. /\ snapshot[first].gold \in Nat /\ snapshot[second].gold \in Nat
      /\ accepted[first].gold \in Nat /\ accepted[second].gold \in Nat /\ used.gold \in Nat
  BY TwoPlayers DEF TypeOK, Bag
<1>2. /\ accepted[first].items \subseteq snapshot[first].items
      /\ accepted[second].items \subseteq snapshot[second].items
  BY TwoPlayers DEF Deliverable
<1>3. Result(first).gold + Result(second).gold = snapshot[first].gold + snapshot[second].gold
  BY <1>1, TwoPlayers DEF Result
<1>4. /\ Result(first).items \cap Result(second).items = {}
      /\ Result(first).items \cup Result(second).items =
           snapshot[first].items \cup snapshot[second].items
  BY <1>2, TwoPlayers DEF Result, Whole
<1> QED BY <1>3, <1>4 DEF Whole

LEMMA OnceInit == Init => OnceInv
<1> SUFFICES ASSUME Init PROVE OnceInv
  OBVIOUS
<1>1. Whole(bag[first], bag[second])
  BY StartAssumption, TwoPlayers DEF Init, Whole, NoOffer, first, second
<1> QED BY <1>1 DEF Init, OnceInv, HalfMade

\* A step that leaves bags, ground, used items, snapshots and frozen offers alone
\* and stays on the same side of the half-made commit.
LEMMA OnceFrame ==
    ASSUME OnceInv, UNCHANGED <<bag, ground, used>>,
           \/ UNCHANGED <<step, snapshot, accepted>>
           \/ ~HalfMade /\ step' \notin {"build", "commit1", "commit2", "undo"}
    PROVE  OnceInv'
BY DEF OnceInv, Whole, HalfMade, Result

LEMMA OnceCommandEnd ==
    ASSUME CoreInv, OnceInv, NEW p \in Players, CommandEnd(p)
    PROVE  OnceInv'
<1>1. step \notin Exclusive
  BY TwoPlayers DEF CommandEnd, CoreInv, GateInv, Exclusive
<1>2. step' = step
  BY DEF CommandEnd, executeVars
<1>3. Whole(bag[first], bag[second])
  BY <1>1 DEF OnceInv, HalfMade, Exclusive
<1>4. /\ bag[first].gold \in Nat /\ bag[second].gold \in Nat /\ used.gold \in Nat
  BY TwoPlayers DEF CoreInv, TypeOK, Bag
<1>5. ground' = ground
  BY DEF CommandEnd, bagVars
<1>6. CASE UNCHANGED bagVars
  BY <1>1, <1>2, <1>3, <1>6 DEF OnceInv, HalfMade, Exclusive, bagVars, Whole
<1>7. ASSUME NEW i \in bag[p].items, bag' = [bag EXCEPT ![p].items = @ \ {i}],
             used' = [used EXCEPT !.items = @ \cup {i}]
      PROVE  Whole(bag[first], bag[second])'
  <2>1. /\ bag'[p].items = bag[p].items \ {i} /\ bag'[p].gold = bag[p].gold
        /\ bag'[Other(p)] = bag[Other(p)]
        /\ used'.items = used.items \cup {i} /\ used'.gold = used.gold
    BY <1>7, TwoPlayers DEF CoreInv, TypeOK, Bag
  <2>2. CASE p = first
    BY <2>1, <2>2, <1>3, <1>5, <1>7, TwoPlayers DEF Whole
  <2>3. CASE p = second
    BY <2>1, <2>3, <1>3, <1>5, <1>7, TwoPlayers DEF Whole
  <2> QED BY <2>2, <2>3, TwoPlayers
<1>8. ASSUME bag[p].gold > 0, bag' = [bag EXCEPT ![p].gold = @ - 1],
             used' = [used EXCEPT !.gold = @ + 1]
      PROVE  Whole(bag[first], bag[second])'
  <2>1. /\ bag'[p].items = bag[p].items /\ bag'[p].gold = bag[p].gold - 1
        /\ bag'[Other(p)] = bag[Other(p)]
        /\ used'.items = used.items /\ used'.gold = used.gold + 1
    BY <1>8, TwoPlayers DEF CoreInv, TypeOK, Bag
  <2>2. CASE p = first
    BY <2>1, <2>2, <1>3, <1>4, <1>5, TwoPlayers DEF Whole
  <2>3. CASE p = second
    BY <2>1, <2>3, <1>3, <1>4, <1>5, TwoPlayers DEF Whole
  <2> QED BY <2>2, <2>3, TwoPlayers
<1> QED BY <1>1, <1>2, <1>6, <1>7, <1>8 DEF CommandEnd, OnceInv, HalfMade, Exclusive

\* A pickup takes a token off the ground; the side that does not gather stays
\* as the executor left it.
LEMMA OncePickup ==
    ASSUME CoreInv, OnceInv, NEW p \in Players, Gatherers \subseteq {p}, Pickup(p)
    PROVE  OnceInv'
<1>1. PICK i \in ground : /\ bag' = [bag EXCEPT ![p].items = @ \cup {i}]
                          /\ ground' = ground \ {i}
  BY DEF Pickup
<1>2. /\ p \in Gatherers /\ Other(p) \notin Gatherers
      /\ UNCHANGED <<used, step, snapshot, accepted>>
  BY TwoPlayers DEF Pickup, executeVars
<1>3. /\ bag'[p].items = bag[p].items \cup {i} /\ bag'[p].gold = bag[p].gold
      /\ bag'[Other(p)] = bag[Other(p)]
  BY <1>1, TwoPlayers DEF CoreInv, TypeOK, Bag
<1>4. ASSUME NEW x, NEW y, NEW z, z.items = x.items \cup {i}, z.gold = x.gold,
             ground' = ground \ {i}, used' = used
      PROVE  /\ Whole(x, y) => Whole(z, y)'
             /\ Whole(y, x) => Whole(y, z)'
  <2>1. i \in ground
    BY <1>1
  <2> QED BY <1>4, <2>1 DEF Whole
<1>5. CASE p = first
  BY <1>1, <1>2, <1>3, <1>5, TwoPlayers DEF OnceInv, Whole, HalfMade, Result
<1>6. CASE p = second
  BY <1>1, <1>2, <1>3, <1>6, TwoPlayers DEF OnceInv, Whole, HalfMade, Result
<1> QED BY <1>5, <1>6, TwoPlayers

LEMMA OnceExecutor ==
    ASSUME CoreInv, OnceInv, NEW g \in Players, Gatherers \subseteq {g}, ExecutorStep
    PROVE  OnceInv'
<1> USE DEF ExecutorFrame, At, Goto
<1>1. CASE \/ ReserveGates \/ GateTimeout \/ ParticipantMissing \/ CheckSessions \/ SnapshotFirst
           \/ BuildFails \/ FirstChanged \/ Unready \/ SaveFirst \/ SaveSecond \/ AwaitSaves
           \/ SavesTimeOut \/ Flushed \/ FlushTimeout \/ ReportDone \/ Abort \/ ReleaseGates
           \/ ClearBusy
  BY <1>1, OnceFrame
     DEF ReserveGates, GateTimeout, ParticipantMissing, CheckSessions, SnapshotFirst, TakeSnapshot,
         BuildFails, FirstChanged, Unready, SaveFirst, SaveSecond, Save, AwaitSaves, SaveFlushed,
         SavesTimeOut, SaveTimeout, Flushed, FlushTimeout, ReportDone, Abort, ReleaseGates,
         ClearBusy, Return, Quiet, bagVars, HalfMade
<1>2. CASE SnapshotSecond
  BY <1>2, TwoPlayers DEF SnapshotSecond, TakeSnapshot, OnceInv, Whole, HalfMade, CoreInv, TypeOK
<1>3. CASE Build
  BY <1>3 DEF Build, Quiet, OnceInv, Whole, HalfMade
<1>4. CASE CommitFirst
  <2>1. /\ bag[first] = snapshot[first] /\ Whole(bag[first], bag[second]) /\ Deliverable
        /\ bag'[first] = Result(first) /\ bag'[second] = bag[second]
        /\ UNCHANGED <<ground, used, snapshot, accepted>> /\ step = "commit1" /\ step' = "commit2"
    BY <1>4, TwoPlayers
       DEF CommitFirst, Commit, OnceInv, HalfMade, CoreInv, TypeOK, StillDeliverable
  <2>2. UNCHANGED <<Result(first), Result(second)>>
    BY <2>1 DEF Result
  <2>3. ASSUME second \notin Gatherers PROVE Whole(Result(first), Result(second))
    BY <2>1, <2>3, ExchangeKeepsWhole DEF OnceInv, CoreInv
  <2> QED BY <2>1, <2>2, <2>3 DEF OnceInv, Whole, HalfMade
<1>5. CASE CommitSecond
  <2>1. /\ bag[second] = snapshot[second] /\ Deliverable
        /\ bag'[second] = Result(second) /\ bag'[first] = bag[first]
        /\ UNCHANGED <<ground, used>> /\ step = "commit2" /\ step' = "save1"
    BY <1>5, TwoPlayers DEF CommitSecond, Commit, CoreInv, TypeOK, StillDeliverable
  <2>2. Whole(bag[first], Result(second))
    <3>1. CASE second \notin Gatherers
      BY <2>1, <3>1 DEF OnceInv
    <3>2. CASE first \notin Gatherers
      BY <2>1, <3>2, ExchangeKeepsWhole DEF OnceInv, HalfMade, CoreInv
    <3> QED BY <3>1, <3>2, TwoPlayers
  <2> QED BY <2>1, <2>2 DEF OnceInv, Whole, HalfMade
<1>6. CASE SecondChanged
  <2>1. second \in Gatherers /\ first \notin Gatherers
    BY <1>6, TwoPlayers DEF SecondChanged, OnceInv
  <2> QED BY <1>6, <2>1 DEF SecondChanged, Quiet, OnceInv, Whole, HalfMade, Result
<1>7. CASE Undo
  <2>1. /\ bag'[first] = snapshot[first] /\ bag'[second] = bag[second]
        /\ Whole(snapshot[first], bag[second])
        /\ UNCHANGED <<ground, used>> /\ step' = "unready"
    BY <1>7, TwoPlayers DEF Undo, OnceInv, HalfMade, CoreInv, TypeOK
  <2> QED BY <2>1 DEF OnceInv, Whole, HalfMade
<1> QED BY <1>1, <1>2, <1>3, <1>4, <1>5, <1>6, <1>7 DEF ExecutorStep

LEMMA OnceStep ==
    ASSUME NEW g \in Players, Gatherers \subseteq {g}
    PROVE  CoreInv /\ OnceInv /\ [Next]_vars /\ ~Crash => OnceInv'
<1> SUFFICES ASSUME CoreInv, OnceInv, [Next]_vars, ~Crash PROVE OnceInv'
  OBVIOUS
<1>1. CASE UNCHANGED vars
  BY <1>1, OnceFrame DEF vars
<1>2. ASSUME NEW p \in Players,
             \/ Press(p) \/ Offer(p) \/ ReadyIgnored(p) \/ Cancel(p) \/ PartnerAbsent(p)
             \/ CommandBegin(p) \/ Disconnect(p) \/ Retire(p)
             \/ AutosaveCapture(p) \/ AutosavePut(p) \/ Write
      PROVE  OnceInv'
  BY <1>2, OnceFrame
     DEF Press, Offer, OfferFrame, ReadyIgnored, Cancel, PartnerAbsent, CommandBegin, Disconnect,
         Retire, RetireGate, RetireClose, RetireSave, RetireEnd, RetireFrame, AutosaveCapture,
         AutosavePut, Write, StoreFrame, bagVars, executeVars
<1>3. ASSUME NEW p \in Players, Ready(p) PROVE OnceInv'
  <2>1. ~HalfMade /\ step = "idle"
    BY <1>3 DEF Ready, CoreInv, GateInv, HalfMade
  <2>2. UNCHANGED <<bag, ground, used>> /\ step' \in {"idle", "gate"}
    BY <1>3, <2>1 DEF Ready, bagVars
  <2> QED BY <2>1, <2>2, OnceFrame
<1>4. ASSUME NEW p \in Players, Pickup(p) PROVE OnceInv'
  <2>1. p = g
    BY <1>4 DEF Pickup
  <2> QED BY <1>4, <2>1, OncePickup
<1>5. CASE Next
  BY <1>5, <1>2, <1>3, <1>4, NextCases, OnceCommandEnd, OnceExecutor
<1> QED BY <1>1, <1>5

\* If at most one of the two has a writer that takes no mutation gate, every
\* exchange is made for both or not at all: no token is ever in two places or
\* in none, and no gold appears or vanishes, through every roll-back.
THEOREM ExchangedForBothOrNot ==
    ASSUME ~Crashing, NEW g \in Players, Gatherers \subseteq {g}
    PROVE  Spec => []EverythingOnce
<1>1. OnceInv => EverythingOnce
  <2>1. UNION {StartItems[p] : p \in Players} = StartItems[first] \cup StartItems[second]
    BY TwoPlayers
  <2> QED BY <2>1, TwoPlayers DEF OnceInv, EverythingOnce, Whole, OneOwner, GoldTotal
<1>2. CoreInv /\ OnceInv /\ [Next]_vars => OnceInv'
  BY OnceStep DEF Crash
<1> QED BY <1>1, <1>2, OnceInit, CoreAlways, PTL DEF Spec
-----------------------------------------------------------------------------
(* Who may still be at work.  Retirement waits for the gate, so a session    *)
(* whose gate an executor or a command holds has got no further than         *)
(* "retiring".                                                               *)

Up == {"in", "retiring"}

LifeInv ==
    /\ step # "idle" => session[executor] \in Up
    /\ step \in Exclusive \ {"check"} => \A p \in Players : session[p] \in Up
    /\ \A p \in Players : gate[p] = "command" => session[p] \in Up

LEMMA LifeInit == Init => LifeInv
BY DEF Init, LifeInv, Exclusive

LEMMA LifeClients ==
    ASSUME CoreInv, LifeInv, NEW p \in Players,
           Press(p) \/ Offer(p) \/ ReadyIgnored(p) \/ Ready(p) \/ Cancel(p) \/ PartnerAbsent(p)
    PROVE  LifeInv'
<1>1. CASE Press(p) \/ Offer(p) \/ ReadyIgnored(p) \/ Cancel(p) \/ PartnerAbsent(p)
  BY <1>1 DEF Press, Offer, OfferFrame, ReadyIgnored, Cancel, PartnerAbsent, executeVars,
              sessionVars, LifeInv
<1>2. CASE Ready(p)
  BY <1>2, TwoPlayers DEF Ready, Runs, CoreInv, TypeOK, GateInv, LifeInv, Up, Exclusive
<1> QED BY <1>1, <1>2

LEMMA LifeWorld ==
    ASSUME CoreInv, LifeInv, NEW p \in Players,
           \/ CommandBegin(p) \/ CommandEnd(p) \/ Pickup(p) \/ Disconnect(p) \/ Retire(p)
           \/ AutosaveCapture(p) \/ AutosavePut(p) \/ Write \/ Crash
    PROVE  LifeInv'
<1> USE TwoPlayers DEF CoreInv, TypeOK, LifeInv, executeVars, sessionVars
<1>1. CASE CommandBegin(p) \/ CommandEnd(p)
  BY <1>1 DEF CommandBegin, CommandEnd, Runs, Up
<1>2. CASE Pickup(p) \/ AutosaveCapture(p) \/ AutosavePut(p) \/ Write
  BY <1>2 DEF Pickup, AutosaveCapture, AutosavePut, Write, StoreFrame
<1>3. CASE Disconnect(p)
  BY <1>3 DEF Disconnect, RetireFrame, Up
<1>4. CASE RetireGate(p)
  BY <1>4 DEF RetireGate, RetireFrame, GateInv, Exclusive
<1>5. CASE RetireClose(p) \/ RetireSave(p) \/ RetireEnd(p)
  <2>1. /\ session[p] \notin Up /\ step' = step /\ executor' = executor
        /\ \A q \in Players : q # p => session'[q] = session[q]
        /\ gate' = gate \/ gate' = [gate EXCEPT ![p] = "free"]
    BY <1>5 DEF RetireClose, RetireSave, RetireEnd, RetireFrame, Up
  <2>2. step # "idle" => executor \in Players
    BY DEF GateInv
  <2>3. \A q \in Players : gate'[q] = "command" => gate[q] = "command"
    BY <2>1
  <2> QED BY <2>1, <2>2, <2>3
<1>6. CASE Crash
  BY <1>6 DEF Crash, Exclusive
<1> QED BY <1>1, <1>2, <1>3, <1>4, <1>5, <1>6 DEF Retire

\* Where the executor may go from each step, in the order of the handler.
LEMMA ExecutorMoves ==
    ASSUME TypeOK, ExecutorStep
    PROVE  /\ session' = session
           /\ \A p \in Players : gate'[p] = "command" => gate[p] = "command"
           /\ \/ executor' = executor /\ step # "idle"
              \/ step' = "idle"
           /\ step' \in Exclusive \ {"check"} =>
                 \/ step \in Exclusive \ {"check"}
                 \/ step = "check" /\ \A p \in Players : session[p] = "in"
<1> USE TwoPlayers DEF TypeOK, ExecutorFrame, At, Goto, Exclusive
<1>1. CASE ReserveGates \/ ReleaseGates
  BY <1>1 DEF ReserveGates, ReleaseGates
<1>2. CASE GateTimeout \/ ParticipantMissing \/ CheckSessions \/ FirstChanged \/ SecondChanged
           \/ Flushed \/ FlushTimeout \/ Build
  BY <1>2 DEF GateTimeout, ParticipantMissing, CheckSessions, FirstChanged, SecondChanged,
              Flushed, FlushTimeout, Build, Quiet
<1>3. CASE SnapshotFirst \/ SnapshotSecond
  BY <1>3 DEF SnapshotFirst, SnapshotSecond, TakeSnapshot
<1>4. CASE BuildFails \/ Unready \/ Undo
  BY <1>4 DEF BuildFails, Unready, Undo
<1>5. CASE CommitFirst \/ CommitSecond
  BY <1>5 DEF CommitFirst, CommitSecond, Commit
<1>6. CASE SaveFirst \/ SaveSecond
  BY <1>6 DEF SaveFirst, SaveSecond, Save
<1>7. CASE AwaitSaves \/ SavesTimeOut
  BY <1>7 DEF AwaitSaves, SavesTimeOut, SaveFlushed, SaveTimeout, Quiet
<1>8. CASE ReportDone \/ Abort
  BY <1>8 DEF ReportDone, Abort
<1>9. CASE ClearBusy
  BY <1>9 DEF ClearBusy, Return
<1> QED BY <1>1, <1>2, <1>3, <1>4, <1>5, <1>6, <1>7, <1>8, <1>9 DEF ExecutorStep

LEMMA LifeExecutor == ASSUME CoreInv, LifeInv, ExecutorStep PROVE LifeInv'
BY ExecutorMoves DEF CoreInv, LifeInv, Up, Exclusive

LEMMA LifeStep == CoreInv /\ LifeInv /\ [Next]_vars => LifeInv'
<1> SUFFICES ASSUME CoreInv, LifeInv, [Next]_vars PROVE LifeInv'
  OBVIOUS
<1>1. CASE UNCHANGED vars
  BY <1>1 DEF LifeInv, vars, sessionVars, executeVars
<1> QED BY <1>1, NextCases, LifeClients, LifeWorld, LifeExecutor

-----------------------------------------------------------------------------
(* The row of a session that has gone.                                       *)

\* What holds from the moment the final snapshot is queued: an autosave that
\* comes later captures the same bag.
FinalRow(p) ==
    session[p] \in {"flushing", "gone"} =>
        Newest(p) = bag[p] /\ capture[p] \subseteq {bag[p]}

LEMMA NewestOfOne ==
    ASSUME NEW p \in Players
    PROVE  /\ queued[p] = {} => Newest(p) = rows[p]
           /\ \A b : queued[p] = {b} => Newest(p) = b
BY DEF Newest

\* A step that leaves the rows and captures of p alone, and his bag unless he
\* is still up.
LEMMA FinalFrame ==
    ASSUME NEW p \in Players, FinalRow(p),
           session'[p] \in {"flushing", "gone"} => session[p] \in {"flushing", "gone"} /\ bag'[p] = bag[p],
           queued'[p] = queued[p], rows'[p] = rows[p], capture'[p] = capture[p]
    PROVE  FinalRow(p)'
BY DEF FinalRow, Newest

LEMMA FinalClients ==
    ASSUME NEW q \in Players, FinalRow(q), NEW p \in Players,
           Press(p) \/ Offer(p) \/ ReadyIgnored(p) \/ Ready(p) \/ Cancel(p) \/ PartnerAbsent(p)
    PROVE  FinalRow(q)'
<1>1. UNCHANGED <<bag, session, queued, rows, capture>>
  BY DEF Press, Offer, OfferFrame, ReadyIgnored, Ready, Cancel, PartnerAbsent, bagVars, sessionVars,
         storeVars
<1> QED BY <1>1, FinalFrame

LEMMA FinalWorld ==
    ASSUME CoreInv, LifeInv, NEW q \in Players, q \notin Gatherers, FinalRow(q), NEW p \in Players,
           \/ CommandBegin(p) \/ CommandEnd(p) \/ Pickup(p) \/ Disconnect(p) \/ Retire(p)
           \/ AutosaveCapture(p) \/ AutosavePut(p) \/ Write \/ Crash
    PROVE  FinalRow(q)'
<1> USE DEF bagVars, storeVars, sessionVars
<1>0. /\ bag \in [Players -> Bag] /\ session \in [Players -> SessionStates]
      /\ queued \in [Players -> SUBSET Bag] /\ capture \in [Players -> SUBSET Bag]
      /\ rows \in [Players -> Bag] /\ gate \in [Players -> Gates]
  BY DEF CoreInv, TypeOK
<1>1. CASE CommandBegin(p) \/ Disconnect(p) \/ RetireGate(p) \/ RetireClose(p)
  <2>1. UNCHANGED <<bag, queued, rows, capture>>
    BY <1>1 DEF CommandBegin, Disconnect, RetireGate, RetireClose, RetireFrame
  <2>2. session'[q] \in {"flushing", "gone"} => session[q] \in {"flushing", "gone"}
    BY <1>0, <1>1 DEF CommandBegin, Disconnect, RetireGate, RetireClose
  <2> QED BY <2>1, <2>2, FinalFrame
<1>2. CASE CommandEnd(p)
  <2>1. session[p] \in Up /\ UNCHANGED <<session, queued, rows, capture>>
    BY <1>2 DEF CommandEnd, LifeInv
  <2>2. q # p => bag'[q] = bag[q]
    BY <1>0, <1>2 DEF CommandEnd
  <2> QED BY <2>1, <2>2, FinalFrame DEF Up
<1>3. CASE Pickup(p)
  <2>1. q # p /\ bag'[q] = bag[q] /\ UNCHANGED <<session, queued, rows, capture>>
    BY <1>0, <1>3 DEF Pickup
  <2> QED BY <2>1, FinalFrame
<1>4. CASE RetireSave(p)
  <2>1. /\ UNCHANGED <<bag, rows, capture>> /\ queued' = [queued EXCEPT ![p] = {bag[p]}]
        /\ session' = [session EXCEPT ![p] = "flushing"] /\ capture[p] = {}
    BY <1>4 DEF RetireSave, RetireFrame, PersistLockFree
  <2>2. CASE q = p
    <3>1. queued'[q] = {bag'[q]} /\ capture'[q] = {}
      BY <1>0, <2>1, <2>2
    <3> QED BY <3>1 DEF FinalRow, Newest
  <2>3. CASE q # p
    BY <1>0, <2>1, <2>3, FinalFrame
  <2> QED BY <2>2, <2>3
<1>5. CASE RetireEnd(p)
  <2>1. /\ UNCHANGED <<bag, queued, rows, capture>> /\ session[p] = "flushing"
        /\ session' = [session EXCEPT ![p] = "gone"]
    BY <1>5 DEF RetireEnd, RetireFrame
  <2> QED BY <1>0, <2>1, FinalFrame
<1>6. CASE AutosaveCapture(p)
  <2>1. /\ UNCHANGED <<bag, session, queued, rows>>
        /\ capture' = [capture EXCEPT ![p] = {bag[p]}]
    BY <1>6 DEF AutosaveCapture, StoreFrame
  <2>2. capture'[q] \in {capture[q], {bag[q]}}
    BY <1>0, <2>1
  <2> QED BY <2>1, <2>2 DEF FinalRow, Newest
<1>7. CASE AutosavePut(p)
  <2>1. /\ UNCHANGED <<bag, session, rows>> /\ capture[p] # {}
        /\ capture' = [capture EXCEPT ![p] = {}]
        /\ queued' = [queued EXCEPT ![p] = capture[p]]
    BY <1>7 DEF AutosavePut, StoreFrame
  <2>2. CASE q # p
    BY <1>0, <2>1, <2>2, FinalFrame
  <2>3. CASE q = p
    <3> SUFFICES ASSUME session[q] \in {"flushing", "gone"} PROVE FinalRow(q)'
      BY <2>1 DEF FinalRow
    <3>1. capture[q] = {bag[q]}
      BY <2>1, <2>3 DEF FinalRow
    <3>2. queued'[q] = {bag'[q]} /\ capture'[q] = {}
      BY <1>0, <2>1, <2>3, <3>1
    <3> QED BY <3>2 DEF FinalRow, Newest
  <2> QED BY <2>2, <2>3
<1>8. CASE Write
  <2>1. /\ UNCHANGED <<bag, session, capture>>
        /\ rows'[q] = Newest(q) /\ queued'[q] = {}
    BY <1>8 DEF Write, StoreFrame
  <2>2. Newest(q)' = Newest(q)
    BY <2>1 DEF Newest
  <2> QED BY <2>1, <2>2 DEF FinalRow
<1>9. CASE Crash
  <2>1. bag'[q] = rows'[q] /\ queued'[q] = {} /\ capture'[q] = {}
    BY <1>9 DEF Crash
  <2> QED BY <2>1 DEF FinalRow, Newest
<1> QED BY <1>1, <1>2, <1>3, <1>4, <1>5, <1>6, <1>7, <1>8, <1>9 DEF Retire

\* Commits and roll-backs touch bags whose sessions are up; the executor's own
\* saves queue the bag as it is.
LEMMA FinalExecutor ==
    ASSUME CoreInv, LifeInv, NEW q \in Players, FinalRow(q), ExecutorStep
    PROVE  FinalRow(q)'
<1> USE TwoPlayers DEF ExecutorFrame, At, Goto, storeVars
<1>0. /\ bag \in [Players -> Bag] /\ queued \in [Players -> SUBSET Bag]
      /\ capture \in [Players -> SUBSET Bag] /\ rows \in [Players -> Bag]
  BY DEF CoreInv, TypeOK
<1>1. CASE \/ ReserveGates \/ GateTimeout \/ ParticipantMissing \/ CheckSessions \/ SnapshotFirst
           \/ SnapshotSecond \/ Build \/ BuildFails \/ FirstChanged \/ SecondChanged \/ Unready
           \/ AwaitSaves \/ SavesTimeOut \/ Flushed \/ FlushTimeout \/ ReportDone \/ Abort
           \/ ReleaseGates \/ ClearBusy
  <2>1. UNCHANGED <<bag, session, queued, rows, capture>>
    BY <1>1
       DEF ReserveGates, GateTimeout, ParticipantMissing, CheckSessions, SnapshotFirst,
           SnapshotSecond, TakeSnapshot, Build, BuildFails, FirstChanged, SecondChanged, Unready,
           AwaitSaves, SaveFlushed, SavesTimeOut, SaveTimeout, Flushed, FlushTimeout, ReportDone,
           Abort, ReleaseGates, ClearBusy, Return, Quiet, bagVars
  <2> QED BY <2>1, FinalFrame
<1>2. CASE CommitFirst \/ CommitSecond \/ Undo
  <2>1. /\ UNCHANGED <<session, queued, rows, capture>>
        /\ session[q] \in Up
    BY <1>2 DEF CommitFirst, CommitSecond, Commit, Undo, LifeInv, Exclusive
  <2> QED BY <2>1, FinalFrame DEF Up
<1>3. ASSUME NEW p \in Players,
             /\ queued' = [queued EXCEPT ![p] = {bag[p]}]
             /\ UNCHANGED <<bag, session, rows, capture>>
      PROVE  FinalRow(q)'
  <2>1. CASE q = p
    <3>1. queued'[q] = {bag'[q]}
      BY <1>0, <1>3, <2>1
    <3> QED BY <1>3, <3>1 DEF FinalRow, Newest
  <2>2. CASE q # p
    BY <1>0, <1>3, <2>2, FinalFrame
  <2> QED BY <2>1, <2>2
<1>4. CASE SaveFirst \/ SaveSecond
  BY <1>3, <1>4 DEF SaveFirst, SaveSecond, Save
<1> QED BY <1>1, <1>2, <1>4 DEF ExecutorStep

\* Spec => []FinalRow of everyone whose bag no delayed pickup reaches: the row
\* that is loaded at the next login is the bag as the final snapshot took it.
LEMMA FinalAlways == Spec => [](\A q \in Players \ Gatherers : FinalRow(q))
<1> DEFINE Final == \A q \in Players \ Gatherers : FinalRow(q)
           Inv == CoreInv /\ LifeInv /\ Final
<1>1. Init => Inv
  <2>1. Init => Final
    BY DEF Init, FinalRow
  <2> QED BY <2>1, CoreInit, LifeInit
<1>2. Inv /\ [Next]_vars => Inv'
  <2> SUFFICES ASSUME Inv, [Next]_vars PROVE Inv'
    OBVIOUS
  <2>1. CoreInv' /\ LifeInv'
    BY CoreStep, LifeStep
  <2>2. ASSUME NEW q \in Players \ Gatherers PROVE FinalRow(q)'
    <3>1. CASE UNCHANGED vars
      BY <3>1, FinalFrame DEF vars
    <3>2. CASE Next
      BY <3>2, NextCases, FinalClients, FinalWorld, FinalExecutor
    <3> QED BY <3>1, <3>2
  <2> QED BY <2>1, <2>2
<1> QED BY <1>1, <1>2, PTL DEF Spec

\* Spec => []FinalRowIsFinal where no delayed pickup runs, with autosaves that
\* captured before, exchanges under way and crashes around it.
THEOREM FinalRows ==
    ASSUME Gatherers = {}
    PROVE  Spec => []FinalRowIsFinal
<1>1. (\A q \in Players \ Gatherers : FinalRow(q)) => FinalRowIsFinal
  BY DEF FinalRow, FinalRowIsFinal
<1> QED BY <1>1, FinalAlways, PTL

-----------------------------------------------------------------------------
(* What was exchanged is durable.  The exchange is of goods that are in one  *)
(* place, which a crash may end for good; but a crash ends the trade too.    *)

Alive == \E p \in Players : session[p] # "gone"

\* OnceInv up to the first crash: nobody trades after it.
OnceWhileAlive == Alive => OnceInv

LEMMA ElectedAlive == CoreInv /\ LifeInv /\ step # "idle" => Alive
BY DEF CoreInv, GateInv, LifeInv, Alive, Up

LEMMA AliveStep ==
    ASSUME NEW g \in Players, Gatherers \subseteq {g}
    PROVE  CoreInv /\ OnceWhileAlive /\ [Next]_vars => OnceWhileAlive'
<1> SUFFICES ASSUME CoreInv, OnceWhileAlive, [Next]_vars, Alive' PROVE OnceInv'
  BY DEF OnceWhileAlive
<1>1. ~Crash
  BY DEF Crash, Alive
<1>2. Alive
  <2>1. ASSUME NEW p \in Players, Disconnect(p) \/ Retire(p)
        PROVE  \A q \in Players : session'[q] # "gone" => session[q] # "gone"
    BY <2>1 DEF Disconnect, Retire, RetireGate, RetireClose, RetireSave, RetireEnd, CoreInv, TypeOK
  <2>2. ASSUME NEW p \in Players,
               \/ Press(p) \/ Offer(p) \/ ReadyIgnored(p) \/ Ready(p) \/ Cancel(p)
               \/ PartnerAbsent(p) \/ CommandBegin(p) \/ CommandEnd(p) \/ Pickup(p)
               \/ AutosaveCapture(p) \/ AutosavePut(p) \/ Write
        PROVE  session' = session
    BY <2>2 DEF Press, Offer, OfferFrame, ReadyIgnored, Ready, Cancel, PartnerAbsent, CommandBegin,
                CommandEnd, Pickup, AutosaveCapture, AutosavePut, Write, StoreFrame, sessionVars
  <2>3. CASE UNCHANGED vars
    BY <2>3 DEF vars, sessionVars, Alive
  <2>4. CASE Next
    BY <1>1, <2>1, <2>2, <2>4, NextCases, ExecutorMoves DEF Alive, CoreInv
  <2> QED BY <2>3, <2>4
<1>3. OnceInv
  BY <1>2 DEF OnceWhileAlive
<1> QED BY <1>1, <1>3, OnceStep

\* What p gave is not among the items of b.
Clean(b, p) == b.items \cap accepted[p].items = {}

\* The snapshots are of different tokens, none of them on the ground: the first
\* from the moment it is taken, since its bag only grows until the second.
SnapInv ==
    /\ step = "snap2" =>
          /\ snapshot[first].items \subseteq bag[first].items
          /\ snapshot[first].items \cap ground = {}
    /\ step \in {"build", "commit1", "commit2"} =>
          /\ snapshot[first].items \cap snapshot[second].items = {}
          /\ \A p \in Players : snapshot[p].items \cap ground = {}

Exchanged == step \in {"save1", "saved1", "save2", "saved2", "flush", "done"} \/ reported

\* p's bag has been queued since the exchange.
Saved(p) ==
    \/ reported \/ step \in {"saved2", "flush", "done"}
    \/ p = first /\ step \in {"saved1", "save2"}

\* Whatever is captured, queued or will be read from the tables of p.
CleanStore(p) ==
    /\ \A b \in queued[p] \cup capture[p] : Clean(b, p)
    /\ queued[p] = {} => Clean(rows[p], p)

GivenInv ==
    /\ step = "commit2" => Clean(bag[first], first)
    /\ Exchanged => \A p \in Players : Clean(bag[p], p) /\ ground \cap accepted[p].items = {}
    /\ \A p \in Players : Saved(p) => CleanStore(p)
    /\ step = "done" \/ reported => \A p \in Players : Clean(rows[p], p)
    /\ reported => ~open /\ step \in {"ungate", "unbusy", "idle"}

DoneInv == SnapInv /\ GivenInv

LEMMA DoneInit == Init => DoneInv
BY DEF Init, DoneInv, SnapInv, GivenInv, Exchanged, Saved

\* Where a built exchange stands, no offer names a thing on the ground, and the
\* two name different things.
LEMMA OffersApart ==
    ASSUME StillDeliverable, SnapInv, step \in {"commit1", "commit2"}
    PROVE  /\ accepted[first].items \cap accepted[second].items = {}
           /\ \A p \in Players : ground \cap accepted[p].items = {}
BY TwoPlayers DEF StillDeliverable, Deliverable, SnapInv

\* What clients, commands, pickups, retirements and the store do between two
\* steps of the executor.
LEMMA GivenFrame ==
    ASSUME StillDeliverable, DoneInv,
           UNCHANGED <<step, accepted, reported>>, open' => open, ground' \subseteq ground,
           \A p \in Players :
              /\ bag'[p].items \subseteq bag[p].items \cup ground
              /\ queued'[p] \cup capture'[p] \subseteq queued[p] \cup capture[p] \cup {bag[p]}
              /\ \/ rows'[p] = rows[p] /\ (queued'[p] = {} => queued[p] = {})
                 \/ rows'[p] \in queued[p]
    PROVE  GivenInv'
<1>1. (step = "commit2" => Clean(bag[first], first))'
  BY OffersApart, TwoPlayers DEF DoneInv, GivenInv, Clean
<1>2. Exchanged' = Exchanged /\ \A p \in Players : Saved(p)' = Saved(p)
  BY DEF Exchanged, Saved
<1>3. (Exchanged => \A p \in Players : Clean(bag[p], p) /\ ground \cap accepted[p].items = {})'
  BY <1>2 DEF DoneInv, GivenInv, Clean
<1>4. ASSUME NEW p \in Players, Saved(p) PROVE CleanStore(p)'
  <2>1. Clean(bag[p], p) /\ CleanStore(p)
    BY <1>4 DEF DoneInv, GivenInv, Saved, Exchanged
  <2>2. \A b \in queued'[p] \cup capture'[p] : Clean(b, p)
    BY <2>1 DEF CleanStore
  <2>3. queued'[p] = {} => Clean(rows'[p], p)
    BY <2>1 DEF CleanStore
  <2> QED BY <2>2, <2>3 DEF CleanStore, Clean
<1>5. (step = "done" \/ reported => \A p \in Players : Clean(rows[p], p))'
  <2> SUFFICES ASSUME step = "done" \/ reported, NEW p \in Players PROVE Clean(rows[p], p)'
    OBVIOUS
  <2>1. Clean(rows[p], p) /\ CleanStore(p)
    BY DEF DoneInv, GivenInv, Saved
  <2>2. Clean(rows'[p], p)
    BY <2>1 DEF CleanStore
  <2> QED BY <2>2 DEF Clean
<1>6. (reported => ~open /\ step \in {"ungate", "unbusy", "idle"})'
  <2>1. reported => ~open /\ step \in {"ungate", "unbusy", "idle"}
    BY DEF DoneInv, GivenInv
  <2>2. (reported' => reported) /\ step' = step /\ (open' => open)
    OBVIOUS
  <2> QED BY <2>1, <2>2, Zenon
<1> QED BY <1>1, <1>2, <1>3, <1>4, <1>5, <1>6 DEF GivenInv

LEMMA SnapFrame ==
    ASSUME SnapInv, \/ step' \notin {"snap2", "build", "commit1", "commit2"}
                    \/ /\ UNCHANGED <<step, snapshot>> /\ ground' \subseteq ground
                       /\ bag[first].items \subseteq bag'[first].items
    PROVE  SnapInv'
BY DEF SnapInv

LEMMA DoneClients ==
    ASSUME CoreInv, DoneInv, NEW p \in Players,
           Press(p) \/ Offer(p) \/ ReadyIgnored(p) \/ Ready(p) \/ Cancel(p) \/ PartnerAbsent(p)
    PROVE  DoneInv'
<1>0. UNCHANGED <<bag, ground, snapshot, queued, capture, rows, reported>>
  BY DEF Press, Offer, OfferFrame, ReadyIgnored, Ready, Cancel, PartnerAbsent, bagVars, tradeVars,
         executeVars, storeVars
<1>1. /\ UNCHANGED <<bag, ground, snapshot, queued, capture, rows, reported>>
      /\ open' => open
  <2>1. CASE PartnerAbsent(p)
    BY <1>0, <2>1, Zenon DEF PartnerAbsent
  <2>2. CASE Press(p) \/ Offer(p) \/ ReadyIgnored(p) \/ Ready(p)
    <3>1. open' = open
      BY <2>2 DEF Press, Offer, OfferFrame, ReadyIgnored, Ready, tradeVars
    <3> QED BY <1>0, <3>1
  <2>3. CASE Cancel(p)
    BY <1>0, <2>3 DEF Cancel
  <2> QED BY <2>1, <2>2, <2>3
<1>2. CASE Ready(p) /\ busy'
  <2>1. ~reported /\ step' = "gate"
    BY <1>2 DEF Ready, DoneInv, GivenInv
  <2>2. SnapInv'
    BY <2>1, SnapFrame DEF DoneInv
  <2>3. GivenInv'
    BY <1>1, <2>1 DEF GivenInv, Exchanged, Saved
  <2> QED BY <2>2, <2>3 DEF DoneInv
<1>3. CASE ~(Ready(p) /\ busy')
  <2>1. UNCHANGED <<step, accepted>>
    BY <1>3 DEF Press, Offer, OfferFrame, ReadyIgnored, Ready, Cancel, PartnerAbsent, executeVars
  <2>2. SnapInv'
    BY <1>1, <2>1, SnapFrame DEF DoneInv
  <2>3. GivenInv'
    BY <1>1, <2>1, GivenFrame DEF CoreInv
  <2> QED BY <2>2, <2>3 DEF DoneInv
<1> QED BY <1>2, <1>3

LEMMA DoneWorld ==
    ASSUME CoreInv, DoneInv, NEW p \in Players,
           \/ CommandBegin(p) \/ CommandEnd(p) \/ Pickup(p) \/ Disconnect(p) \/ Retire(p)
           \/ AutosaveCapture(p) \/ AutosavePut(p) \/ Write \/ Crash
    PROVE  DoneInv'
<1> USE DEF bagVars, storeVars, sessionVars, executeVars, tradeVars
<1>0. /\ bag \in [Players -> Bag] /\ queued \in [Players -> SUBSET Bag]
      /\ capture \in [Players -> SUBSET Bag] /\ rows \in [Players -> Bag]
      /\ gate \in [Players -> Gates]
  BY DEF CoreInv, TypeOK
<1>1. ASSUME UNCHANGED <<step, accepted, snapshot, reported, queued, capture, rows>>, open' => open,
             ground' \subseteq ground,
             \A q \in Players : bag'[q].items \subseteq bag[q].items \cup ground,
             \/ step \notin {"snap2", "build", "commit1", "commit2"}
             \/ bag[first].items \subseteq bag'[first].items
      PROVE  DoneInv'
  <2>1. SnapInv'
    BY <1>1, SnapFrame DEF DoneInv
  <2>2. GivenInv'
    BY <1>1, GivenFrame DEF CoreInv
  <2> QED BY <2>1, <2>2 DEF DoneInv
<1>2. CASE CommandBegin(p) \/ Disconnect(p) \/ RetireGate(p) \/ RetireClose(p) \/ RetireEnd(p)
  <2>1. UNCHANGED <<step, accepted, snapshot, reported, queued, capture, rows, bag, ground>>
    BY <1>2 DEF CommandBegin, Disconnect, RetireGate, RetireClose, RetireEnd, RetireFrame
  <2>2. open' => open
    <3>1. CASE RetireClose(p)
      BY <3>1, Zenon DEF RetireClose
    <3>2. CASE ~RetireClose(p)
      BY <1>2, <3>2 DEF CommandBegin, Disconnect, RetireGate, RetireEnd, RetireFrame
    <3> QED BY <3>1, <3>2
  <2> QED BY <1>1, <2>1, <2>2
<1>3. CASE CommandEnd(p)
  <2>1. step \notin Exclusive
    BY <1>3, TwoPlayers DEF CommandEnd, CoreInv, GateInv, Exclusive
  <2>2. \A q \in Players : bag'[q].items \subseteq bag[q].items
    BY <1>0, <1>3 DEF CommandEnd, Bag
  <2>3. /\ UNCHANGED <<step, accepted, snapshot, reported, queued, capture, rows, ground, open>>
    BY <1>3 DEF CommandEnd
  <2> QED BY <1>1, <2>1, <2>2, <2>3 DEF Exclusive
<1>4. CASE Pickup(p)
  <2>1. PICK i \in ground : /\ bag' = [bag EXCEPT ![p].items = @ \cup {i}]
                            /\ ground' = ground \ {i}
    BY <1>4 DEF Pickup
  <2>2. \A q \in Players : /\ bag[q].items \subseteq bag'[q].items
                           /\ bag'[q].items \subseteq bag[q].items \cup ground
    BY <1>0, <2>1 DEF Bag
  <2>3. UNCHANGED <<step, accepted, snapshot, reported, queued, capture, rows, open>>
    BY <1>4 DEF Pickup
  <2> QED BY <1>1, <2>1, <2>2, <2>3, TwoPlayers
<1>5. ASSUME UNCHANGED <<step, accepted, snapshot, reported, open, bag, ground>>,
             \A q \in Players :
                /\ queued'[q] \cup capture'[q] \subseteq queued[q] \cup capture[q] \cup {bag[q]}
                /\ \/ rows'[q] = rows[q] /\ (queued'[q] = {} => queued[q] = {})
                   \/ rows'[q] \in queued[q]
      PROVE  DoneInv'
  <2>1. SnapInv'
    BY <1>5, SnapFrame DEF DoneInv
  <2>2. GivenInv'
    BY <1>5, GivenFrame DEF CoreInv
  <2> QED BY <2>1, <2>2 DEF DoneInv
<1>6. CASE RetireSave(p)
  <2>1. /\ UNCHANGED <<step, accepted, snapshot, reported, open, bag, ground, capture, rows>>
        /\ queued' = [queued EXCEPT ![p] = {bag[p]}]
    BY <1>6 DEF RetireSave, RetireFrame
  <2>2. \A q \in Players : queued'[q] \in {queued[q], {bag[q]}}
    BY <1>0, <2>1
  <2> QED BY <1>5, <2>1, <2>2
<1>7. CASE AutosaveCapture(p)
  <2>1. /\ UNCHANGED <<step, accepted, snapshot, reported, open, bag, ground, queued, rows>>
        /\ capture' = [capture EXCEPT ![p] = {bag[p]}]
    BY <1>7 DEF AutosaveCapture, StoreFrame
  <2>2. \A q \in Players : capture'[q] \in {capture[q], {bag[q]}}
    BY <1>0, <2>1
  <2> QED BY <1>5, <2>1, <2>2
<1>8. CASE AutosavePut(p)
  <2>1. /\ UNCHANGED <<step, accepted, snapshot, reported, open, bag, ground, rows>>
        /\ queued' = [queued EXCEPT ![p] = capture[p]] /\ capture[p] # {}
        /\ capture' = [capture EXCEPT ![p] = {}]
    BY <1>8 DEF AutosavePut, StoreFrame
  <2>2. \A q \in Players : /\ queued'[q] \in {queued[q], capture[q]} /\ capture'[q] \subseteq capture[q]
                           /\ queued'[q] = {} => queued[q] = {}
    BY <1>0, <2>1
  <2> QED BY <1>5, <2>1, <2>2
<1>9. CASE Write
  <2>1. /\ UNCHANGED <<step, accepted, snapshot, reported, open, bag, ground, capture>>
        /\ \A q \in Players : rows'[q] = Newest(q) /\ queued'[q] = {}
    BY <1>9 DEF Write, StoreFrame
  <2>2. \A q \in Players : IF queued[q] = {} THEN Newest(q) = rows[q] ELSE Newest(q) \in queued[q]
    BY DEF Newest
  <2> QED BY <1>5, <2>1, <2>2
<1>10. CASE Crash
  <2>1. /\ UNCHANGED <<accepted, reported, rows, ground>> /\ bag' = rows /\ ~open'
        /\ step' = "idle"
        /\ \A q \in Players : queued'[q] = {} /\ capture'[q] = {}
    BY <1>10 DEF Crash
  <2>2. SnapInv'
    BY <2>1, SnapFrame DEF DoneInv
  <2>3. reported => \A q \in Players : Clean(rows[q], q) /\ ground \cap accepted[q].items = {}
    BY DEF DoneInv, GivenInv, Exchanged
  <2>4. GivenInv'
    BY <2>1, <2>3 DEF GivenInv, Exchanged, Saved, CleanStore, Clean
  <2> QED BY <2>2, <2>4 DEF DoneInv
<1> QED BY <1>2, <1>3, <1>4, <1>6, <1>7, <1>8, <1>9, <1>10 DEF Retire

\* A step that ends in a place where nothing is claimed.
LEMMA NothingClaimed ==
    ASSUME ~reported', step' \in Steps,
           step' \notin {"commit2", "save1", "saved1", "save2", "saved2", "flush", "done"}
    PROVE  GivenInv'
BY DEF GivenInv, Exchanged, Saved

\* Exchanging different things leaves nobody with what he gave.
LEMMA ResultIsClean ==
    ASSUME accepted[first].items \cap accepted[second].items = {}, NEW p \in Players
    PROVE  Clean(Result(p), p)
BY TwoPlayers DEF Clean, Result

LEMMA DoneExecutor ==
    ASSUME CoreInv, LifeInv, OnceWhileAlive, DoneInv, ExecutorStep
    PROVE  DoneInv'
<1> USE TwoPlayers DEF ExecutorFrame, At, Goto, storeVars
<1>0. /\ bag \in [Players -> Bag] /\ queued \in [Players -> SUBSET Bag]
      /\ capture \in [Players -> SUBSET Bag] /\ rows \in [Players -> Bag]
      /\ snapshot \in [Players -> Bag]
  BY DEF CoreInv, TypeOK
<1>1. /\ step = "commit2" => Clean(bag[first], first)
      /\ Exchanged => \A p \in Players : Clean(bag[p], p) /\ ground \cap accepted[p].items = {}
      /\ \A p \in Players : Saved(p) => CleanStore(p)
      /\ step = "done" \/ reported => \A p \in Players : Clean(rows[p], p)
      /\ reported => ~open /\ step \in {"ungate", "unbusy", "idle"}
  BY DEF DoneInv, GivenInv
<1>2. CASE ReserveGates \/ GateTimeout \/ ParticipantMissing \/ CheckSessions \/ BuildFails
           \/ FirstChanged \/ SecondChanged \/ Undo \/ Unready \/ FlushTimeout \/ Abort
  <2>1. /\ ~reported /\ reported' = reported
        /\ step' \in {"check", "abort", "snap1", "ungate", "unready", "undo"}
    BY <1>1, <1>2 DEF ReserveGates, GateTimeout, ParticipantMissing, CheckSessions, BuildFails,
           FirstChanged, SecondChanged, Undo, Unready, FlushTimeout, Abort
  <2>2. SnapInv'
    BY <2>1, SnapFrame DEF DoneInv
  <2> QED BY <2>1, <2>2, NothingClaimed DEF DoneInv, Steps
<1>3. CASE SnapshotFirst \/ SnapshotSecond \/ Build
  <2>1. /\ ~reported /\ reported' = reported
        /\ step' \in {"snap2", "build", "commit1"}
    BY <1>1, <1>3 DEF SnapshotFirst, SnapshotSecond, TakeSnapshot, Build
  <2>2. step \in {"snap1", "snap2", "build"}
    BY <1>3 DEF SnapshotFirst, SnapshotSecond, TakeSnapshot, Build
  <2>3. Whole(bag[first], bag[second])
    BY <2>2, ElectedAlive DEF OnceWhileAlive, OnceInv, HalfMade
  <2>4. SnapInv'
    <3>1. CASE SnapshotFirst
      <4>1. /\ snapshot'[first] = bag[first] /\ UNCHANGED <<bag, ground>> /\ step' = "snap2"
        BY <1>0, <3>1 DEF SnapshotFirst, TakeSnapshot
      <4> QED BY <2>3, <4>1 DEF SnapInv, Whole
    <3>2. CASE SnapshotSecond
      <4>1. /\ snapshot'[first] = snapshot[first] /\ snapshot'[second] = bag[second]
            /\ UNCHANGED <<bag, ground>> /\ step' = "build" /\ step = "snap2"
        BY <1>0, <3>2 DEF SnapshotSecond, TakeSnapshot
      <4> QED BY <2>3, <4>1 DEF DoneInv, SnapInv, Whole
    <3>3. CASE Build
      BY <3>3 DEF Build, Quiet, DoneInv, SnapInv
    <3> QED BY <1>3, <3>1, <3>2, <3>3
  <2> QED BY <2>1, <2>4, NothingClaimed DEF DoneInv, Steps
<1>4. CASE CommitFirst
  <2>1. /\ step = "commit1" /\ step' = "commit2" /\ ~reported /\ reported' = reported
        /\ bag'[first] = Result(first) /\ UNCHANGED <<accepted, snapshot, ground>>
    BY <1>0, <1>1, <1>4 DEF CommitFirst, Commit
  <2>2. SnapInv'
    BY <2>1 DEF DoneInv, SnapInv
  <2>3. Clean(Result(first), first)
    BY <2>1, OffersApart, ResultIsClean DEF CoreInv, DoneInv
  <2>4. GivenInv'
    BY <2>1, <2>3 DEF GivenInv, Exchanged, Saved, Clean
  <2> QED BY <2>2, <2>4 DEF DoneInv
<1>5. CASE CommitSecond
  <2>1. /\ step = "commit2" /\ step' = "save1" /\ ~reported /\ reported' = reported
        /\ bag'[second] = Result(second) /\ bag'[first] = bag[first]
        /\ UNCHANGED <<accepted, ground>>
    BY <1>0, <1>1, <1>5 DEF CommitSecond, Commit
  <2>2. SnapInv'
    BY <2>1, SnapFrame DEF DoneInv
  <2>3. Clean(Result(second), second) /\ \A p \in Players : ground \cap accepted[p].items = {}
    BY <2>1, OffersApart, ResultIsClean DEF CoreInv, DoneInv
  <2>4. \A p \in Players : Clean(bag[p], p)'
    BY <1>1, <2>1, <2>3 DEF Clean
  <2>5. GivenInv'
    BY <2>1, <2>3, <2>4 DEF GivenInv, Saved
  <2> QED BY <2>2, <2>5 DEF DoneInv
<1>6. ASSUME NEW p \in Players, Save(p, step, step'),
             \/ p = first /\ step = "save1" /\ step' = "saved1"
             \/ p = second /\ step = "save2" /\ step' = "saved2"
      PROVE  DoneInv'
  <2>1. /\ UNCHANGED <<bag, ground, capture, rows, accepted, reported>> /\ ~reported
        /\ capture[p] = {} /\ queued' = [queued EXCEPT ![p] = {bag[p]}]
    BY <1>1, <1>6 DEF Save, PersistLockFree
  <2>2. SnapInv'
    BY <1>6, SnapFrame DEF DoneInv
  <2>3. \A q \in Players : Clean(bag[q], q) /\ ground \cap accepted[q].items = {}
    BY <1>1, <1>6 DEF Exchanged
  <2>4. CleanStore(p)'
    <3>1. queued'[p] \cup capture'[p] = {bag[p]} /\ queued'[p] # {}
      BY <1>0, <2>1
    <3> QED BY <2>1, <2>3, <3>1 DEF CleanStore, Clean
  <2>5. ASSUME NEW q \in Players, q # p, Saved(q)' PROVE CleanStore(q)'
    <3>1. Saved(q)
      BY <1>6, <2>1, <2>5 DEF Saved
    <3>2. queued'[q] = queued[q]
      BY <1>0, <2>1, <2>5
    <3> QED BY <1>1, <2>1, <3>1, <3>2 DEF CleanStore, Clean
  <2>6. GivenInv'
    BY <1>6, <2>1, <2>3, <2>4, <2>5 DEF GivenInv, Clean
  <2> QED BY <2>2, <2>6 DEF DoneInv
<1>7. CASE SaveFirst \/ SaveSecond
  BY <1>6, <1>7 DEF SaveFirst, SaveSecond, Save
<1>8. CASE AwaitSaves \/ SavesTimeOut
  <2>1. /\ UNCHANGED <<bag, ground, capture, queued, rows, accepted, reported>> /\ ~reported
        /\ \/ step = "saved1" /\ step' = "save2"
           \/ step = "saved2" /\ step' = "flush"
    BY <1>1, <1>8 DEF AwaitSaves, SaveFlushed, SavesTimeOut, SaveTimeout, Quiet
  <2>2. SnapInv'
    BY <2>1, SnapFrame DEF DoneInv
  <2>3. \A p \in Players : Saved(p)' => CleanStore(p)'
    BY <1>1, <2>1 DEF Saved, CleanStore, Clean
  <2>4. \A p \in Players : Clean(bag[p], p)' /\ (ground \cap accepted[p].items = {})'
    BY <1>1, <2>1 DEF Exchanged, Clean
  <2>5. GivenInv'
    BY <2>1, <2>3, <2>4 DEF GivenInv
  <2> QED BY <2>2, <2>5 DEF DoneInv
<1>9. CASE Flushed
  <2>1. /\ UNCHANGED <<bag, ground, capture, queued, rows, accepted, reported>> /\ ~reported
        /\ step = "flush" /\ step' \in {"abort", "done"}
        /\ \A p \in Players : queued[p] = {}
    BY <1>1, <1>9 DEF Flushed, Quiet
  <2>2. SnapInv'
    BY <2>1, SnapFrame DEF DoneInv
  <2>3. \A p \in Players : CleanStore(p) /\ Clean(rows[p], p)
    BY <1>1, <2>1 DEF Saved, CleanStore
  <2>4. \A p \in Players : Clean(bag[p], p)' /\ (ground \cap accepted[p].items = {})'
    BY <1>1, <2>1 DEF Exchanged, Clean
  <2>5. \A p \in Players : CleanStore(p)' /\ Clean(rows[p], p)'
    BY <2>1, <2>3 DEF CleanStore, Clean
  <2>6. GivenInv'
    BY <2>1, <2>4, <2>5 DEF GivenInv
  <2> QED BY <2>2, <2>6 DEF DoneInv
<1>10. CASE ReportDone
  <2>1. /\ UNCHANGED <<bag, ground, capture, queued, rows, accepted>> /\ ~open'
        /\ step = "done" /\ step' = "ungate"
    BY <1>10 DEF ReportDone
  <2>2. SnapInv'
    BY <2>1, SnapFrame DEF DoneInv
  <2>3. \A p \in Players : /\ Clean(bag[p], p) /\ ground \cap accepted[p].items = {}
                           /\ CleanStore(p) /\ Clean(rows[p], p)
    BY <1>1, <2>1 DEF Saved, Exchanged
  <2>4. \A p \in Players : /\ Clean(bag[p], p)' /\ (ground \cap accepted[p].items = {})'
                           /\ CleanStore(p)' /\ Clean(rows[p], p)'
    BY <2>1, <2>3 DEF CleanStore, Clean
  <2>5. GivenInv'
    BY <2>1, <2>4 DEF GivenInv
  <2> QED BY <2>2, <2>5 DEF DoneInv
<1>11. CASE ReleaseGates \/ ClearBusy
  <2>1. /\ UNCHANGED <<bag, ground, capture, queued, rows, reported>> /\ open' = open
        /\ step' \in {"unbusy", "idle"} /\ (reported => accepted' = accepted)
    BY <1>11 DEF ReleaseGates, ClearBusy, Return, bagVars
  <2>2. SnapInv'
    BY <2>1, SnapFrame DEF DoneInv
  <2>3. CASE ~reported
    BY <2>1, <2>2, <2>3, NothingClaimed DEF DoneInv, Steps
  <2>4. CASE reported
    <3>1. \A p \in Players : /\ Clean(bag[p], p) /\ ground \cap accepted[p].items = {}
                             /\ CleanStore(p) /\ Clean(rows[p], p)
      BY <1>1, <2>4 DEF Saved, Exchanged
    <3>2. \A p \in Players : /\ Clean(bag[p], p)' /\ (ground \cap accepted[p].items = {})'
                             /\ CleanStore(p)' /\ Clean(rows[p], p)'
      BY <2>1, <2>4, <3>1 DEF CleanStore, Clean
    <3>3. GivenInv'
      BY <1>1, <2>1, <2>4, <3>2 DEF GivenInv
    <3> QED BY <2>2, <3>3 DEF DoneInv
  <2> QED BY <2>3, <2>4
<1> QED BY <1>2, <1>3, <1>4, <1>5, <1>7, <1>8, <1>9, <1>10, <1>11 DEF ExecutorStep

\* Spec => []DoneIsDurable: a trade is reported as done only when neither
\* table row holds what its player gave, and no autosave, final snapshot,
\* command or crash brings it back, as long as one side at most has a writer
\* that takes no mutation gate.
THEOREM DoneStaysDurable ==
    ASSUME NEW g \in Players, Gatherers \subseteq {g}
    PROVE  Spec => []DoneIsDurable
<1> DEFINE Inv == CoreInv /\ LifeInv /\ OnceWhileAlive /\ DoneInv
<1>1. Init => Inv
  BY CoreInit, LifeInit, OnceInit, DoneInit DEF OnceWhileAlive
<1>2. Inv /\ [Next]_vars => Inv'
  <2> SUFFICES ASSUME Inv, [Next]_vars PROVE Inv'
    OBVIOUS
  <2>1. CoreInv' /\ LifeInv' /\ OnceWhileAlive'
    BY CoreStep, LifeStep, AliveStep
  <2> SUFFICES DoneInv'
    BY <2>1
  <2>2. CASE UNCHANGED vars
    <3>1. /\ UNCHANGED <<step, accepted, reported, snapshot, open, ground, bag, queued, capture, rows>>
          /\ StillDeliverable
      BY <2>2 DEF vars, CoreInv
    <3>2. SnapInv'
      BY <3>1, SnapFrame DEF DoneInv
    <3>3. GivenInv'
      BY <3>1, GivenFrame
    <3> QED BY <3>2, <3>3 DEF DoneInv
  <2>3. CASE Next
    <3>1. ASSUME NEW p \in Players,
                 \/ Press(p) \/ Offer(p) \/ ReadyIgnored(p) \/ Ready(p) \/ Cancel(p)
                 \/ PartnerAbsent(p)
          PROVE  DoneInv'
      BY <3>1, DoneClients
    <3>2. ASSUME NEW p \in Players,
                 \/ CommandBegin(p) \/ CommandEnd(p) \/ Pickup(p) \/ Disconnect(p) \/ Retire(p)
                 \/ AutosaveCapture(p) \/ AutosavePut(p) \/ Write \/ Crash
          PROVE  DoneInv'
      BY <3>2, DoneWorld
    <3>3. ASSUME ExecutorStep PROVE DoneInv'
      BY <3>3, DoneExecutor
    <3> QED BY <2>3, <3>1, <3>2, <3>3, NextCases
  <2> QED BY <2>2, <2>3
<1>3. Inv => DoneIsDurable
  BY DEF DoneInv, GivenInv, Clean, DoneIsDurable
<1> QED BY <1>1, <1>2, <1>3, PTL DEF Spec
=============================================================================
