------------------------- MODULE InputDispatchProofs -------------------------
(***************************************************************************)
(* Proofs about InputDispatch.  Three arguments: every token out is held   *)
(* by one callback, and a callback of an old token is harmless because a   *)
(* token is only taken from a drain that is under way when the session is  *)
(* already retired; what is in the log, in hand and in the queue is, taken *)
(* together in this order, in the order of arrival; and in a session that  *)
(* is not given up commands arrive in the order of the visits and phases   *)
(* they are received in, so the queue is never cleared of, and no check    *)
(* ever drops, a command that is still of use to the player.               *)
(***************************************************************************)
EXTENDS InputDispatch, TLAPS

\* A thread that has, or is about to hand over, a token.
Busy(t) == pc[t] \in {"pop", "gate", "run", "finish", "schedule"}

\* Who does what: what a thread has in hand goes with what it is doing.
Roles ==
    /\ pc[Receiver] \in {"idle", "enqueue", "schedule", "refused"}
    /\ \A w \in Workers : pc[w] # "enqueue"
    /\ pc[Receiver] = "enqueue" =>
           hand[Receiver] \in Command /\ hand[Receiver].id = Len(accepted) + 1
    /\ \A w \in Workers : hand[w] # None <=> pc[w] \in {"gate", "run"}

\* Tokens are numbered; one callback has one, and the one that is out has one.
TokensHeld ==
    /\ token <= nextToken
    /\ \A t \in Threads : Busy(t) => mine[t] \in 1..nextToken /\ mine[t] \notin scheduled
    /\ \A t, u \in Threads : Busy(t) /\ Busy(u) /\ mine[t] = mine[u] => t = u
    /\ scheduled \subseteq 1..nextToken
    /\ token # 0 => \/ token \in scheduled
                     \/ \E t \in Threads : Busy(t) /\ mine[t] = token
    /\ queue # <<>> => token # 0

\* The gate, and how far the retirement is.
Gates ==
    /\ \A w \in Workers : pc[w] = "run" <=> gate = w
    /\ retirement = "closing" <=> gate = Retirer
    /\ retired <=> retirement \in {"waiting", "closing", "done"}
    /\ retirement # "no" => ~connected
    /\ final # None <=> retirement \in {"closing", "done"}
    /\ retirement = "done" => \A w \in Workers : pc[w] # "run"
    /\ final # None => Len(log) = final

\* A callback that has lost the token can only have lost it to the retirement.
OldTokens == \A w \in Workers : pc[w] \in {"gate", "run"} /\ mine[w] # token => retirement = "done"

\* Commands known by their numbers.
Named ==
    /\ \A i \in DOMAIN queue : /\ queue[i].id \in DOMAIN accepted
                              /\ queue[i].kind = accepted[queue[i].id].kind
    /\ \A w \in Workers : hand[w] # None => /\ hand[w].id \in DOMAIN accepted
                                          /\ hand[w].kind = accepted[hand[w].id].kind
    /\ \A k \in DOMAIN log : log[k].id \in DOMAIN accepted

\* A command may come before another one, given what has been accepted.
Before(all, m, n) == m <= n \/ (all[m].kind = "move" /\ all[n].kind = "actors")
MayPrecede(m, n)  == Before(accepted, m, n)

Ordered ==
    /\ \A i, j \in DOMAIN queue : i < j => MayPrecede(queue[i].id, queue[j].id)
    /\ \A w \in Workers : hand[w] # None /\ mine[w] = token =>
           \A i \in DOMAIN queue : MayPrecede(hand[w].id, queue[i].id)
    /\ retirement # "done" =>
           \A w \in Workers : hand[w] # None =>
               \A k \in DOMAIN log : MayPrecede(log[k].id, hand[w].id)
    /\ retirement # "done" =>
           \A k \in DOMAIN log, i \in DOMAIN queue : MayPrecede(log[k].id, queue[i].id)
    /\ \A k, l \in DOMAIN log : k < l => MayPrecede(log[k].id, log[l].id)

OInv == Named /\ Ordered

-----------------------------------------------------------------------------
(* What the operations on the queue return. *)

\* A command keeps all but its generation.
LEMMA StampedFacts ==
    ASSUME NEW c \in Command, NEW g \in Nat
    PROVE  LET d == [c EXCEPT !.generation = g] IN
           d \in Command /\ d.id = c.id /\ d.kind = c.kind /\ d.context = c.context
  BY DEF Command

\* Positions are listed once each and in order.
LEMMA ListedFacts ==
    ASSUME NEW S, S \subseteq Nat, NEW at \in Listed(S)
    PROVE  \E n \in Nat : /\ at \in [1..n -> S]
                          /\ \A i, j \in 1..n : i < j => at[i] < at[j]
  BY DEF Listed

\* Every command that stays was queued, and the order is kept.
LEMMA RenewedFacts ==
    ASSUME TypeOK, NEW context, NEW r \in Renewed(context)
    PROVE  /\ r.queue \in Seq(Command) /\ r.generation \in Nat
           /\ \A i \in DOMAIN r.queue : \E k \in DOMAIN queue :
                  r.queue[i].id = queue[k].id /\ r.queue[i].kind = queue[k].kind
           /\ \A i, j \in DOMAIN r.queue : i < j =>
                  \E k, l \in DOMAIN queue : /\ k < l /\ r.queue[i].id = queue[k].id
                                             /\ r.queue[j].id = queue[l].id
  <1>1. CASE queueContext = context
    <2>1. r.queue = queue /\ r.generation = generation
      BY <1>1 DEF Renewed
    <2> QED BY <2>1 DEF TypeOK
  <1>2. CASE queueContext # context
    <2> DEFINE stay == IF queueContext # None /\ queueContext.map = context.map
                       THEN {i \in DOMAIN queue : ~SpatialInput(queue[i].kind)} ELSE {}
    <2>1. PICK at \in Listed(stay) :
              r = [queue |-> [i \in DOMAIN at |->
                                 [queue[at[i]] EXCEPT !.generation = generation + 1]],
                   generation |-> generation + 1]
      BY <1>2, Zenon DEF Renewed
    <2>2. stay \subseteq DOMAIN queue /\ DOMAIN queue \subseteq Nat /\ queue \in Seq(Command) /\ generation \in Nat
      BY DEF TypeOK
    <2> HIDE DEF stay
    <2>3. PICK n \in Nat : /\ at \in [1..n -> stay]
                           /\ \A i, j \in 1..n : i < j => at[i] < at[j]
      BY <2>1, <2>2, ListedFacts
    <2> DEFINE moved(k) == [queue[k] EXCEPT !.generation = generation + 1]
    <2>4. \A k \in DOMAIN queue : /\ moved(k) \in Command /\ moved(k).id = queue[k].id
                                 /\ moved(k).kind = queue[k].kind
      <3>1. \A k \in DOMAIN queue : queue[k] \in Command
        BY <2>2
      <3> QED BY <2>2, <3>1, StampedFacts
    <2>5. /\ r.queue = [i \in 1..n |-> moved(at[i])]
          /\ r.generation = generation + 1
      BY <2>1, <2>3
    <2> HIDE DEF moved
    <2>6. \A i \in 1..n : at[i] \in DOMAIN queue /\ r.queue[i] = moved(at[i])
      BY <2>2, <2>3, <2>5
    <2>7. r.queue \in Seq(Command) /\ DOMAIN r.queue = 1..n
      BY <2>4, <2>5, <2>6
    <2>8. \A i \in DOMAIN r.queue : /\ at[i] \in DOMAIN queue
                                   /\ r.queue[i].id = queue[at[i]].id
                                   /\ r.queue[i].kind = queue[at[i]].kind
      BY <2>4, <2>6, <2>7
    <2>9. \A i, j \in DOMAIN r.queue : i < j => at[i] < at[j]
      BY <2>3, <2>7
    <2>10. r.generation \in Nat
      BY <2>2, <2>5
    <2> QED BY <2>7, <2>8, <2>9, <2>10
  <1> QED BY <1>1, <1>2

\* What a queue holds behind a position.
LEMMA BackFacts ==
    ASSUME NEW S, NEW q \in Seq(S), NEW s \in 0..Len(q)
    PROVE  /\ SubSeq(q, s + 1, Len(q)) \in Seq(S)
           /\ Len(SubSeq(q, s + 1, Len(q))) = Len(q) - s
           /\ \A i \in 1..(Len(q) - s) : SubSeq(q, s + 1, Len(q))[i] = q[s + i]
  <1>1. CASE s + 1 <= Len(q)
    BY <1>1, SMTT(30)
  <1>2. CASE ~(s + 1 <= Len(q))
    BY <1>2, SMTT(30)
  <1> QED BY <1>1, <1>2, Zenon

\* A queue with a command put behind its first s.
LEMMA InsertFacts ==
    ASSUME NEW q \in Seq(Command), NEW e \in Command, NEW s \in 0..Len(q)
    PROVE  LET r == InsertAt(q, s + 1, e) IN
           /\ r \in Seq(Command) /\ DOMAIN r = 1..(Len(q) + 1)
           /\ \A i \in 1..(Len(q) + 1) :
                  r[i] = IF i <= s THEN q[i] ELSE IF i = s + 1 THEN e ELSE q[i - 1]
  <1> DEFINE r     == InsertAt(q, s + 1, e)
             front == SubSeq(q, 1, s)
             back  == SubSeq(q, s + 1, Len(q))
  <1>1. s \in 0..Len(q) /\ Len(q) \in Nat /\ DOMAIN q = 1..Len(q)
    OBVIOUS
  <1>2. r = front \o <<e>> \o back
    <2>1. (s + 1) - 1 = s
      BY <1>1
    <2>2. InsertAt(q, s + 1, e) = SubSeq(q, 1, (s + 1) - 1) \o <<e>> \o SubSeq(q, s + 1, Len(q))
      BY DEF InsertAt
    <2> QED BY <2>1, <2>2, Zenon
  <1>3. /\ front \in Seq(Command) /\ Len(front) = s
        /\ \A i \in 1..s : front[i] = q[i]
    BY <1>1
  <1>4. /\ back \in Seq(Command) /\ Len(back) = Len(q) - s
        /\ \A i \in 1..(Len(q) - s) : back[i] = q[s + i]
    BY <1>1, BackFacts
  <1> HIDE DEF r, front, back
  <1>5. /\ front \o <<e>> \in Seq(Command) /\ Len(front \o <<e>>) = s + 1
        /\ \A i \in 1..(s + 1) : (front \o <<e>>)[i] = IF i <= s THEN q[i] ELSE e
    BY <1>1, <1>3
  <1>6. r \in Seq(Command) /\ DOMAIN r = 1..(Len(q) + 1)
    BY <1>1, <1>2, <1>4, <1>5
  <1>7. \A i \in 1..(Len(q) + 1) :
            r[i] = IF i <= s THEN q[i] ELSE IF i = s + 1 THEN e ELSE q[i - 1]
    <2> SUFFICES ASSUME NEW i \in 1..(Len(q) + 1)
                 PROVE  r[i] = IF i <= s THEN q[i] ELSE IF i = s + 1 THEN e ELSE q[i - 1]
      OBVIOUS
    <2>1. CASE i <= s + 1
      BY <1>1, <1>2, <1>4, <1>5, <2>1
    <2>2. CASE i > s + 1
      <3>1. i - (s + 1) \in 1..(Len(q) - s)
        BY <1>1, <2>2
      <3>2. r[i] = back[i - (s + 1)]
        BY <1>1, <1>2, <1>4, <1>5, <2>2, <3>1
      <3>3. r[i] = q[s + (i - (s + 1))] /\ s + (i - (s + 1)) = i - 1
        BY <1>1, <1>4, <3>1, <3>2
      <3> QED BY <1>1, <2>2, <3>3
    <2> QED BY <1>1, <2>1, <2>2
  <1> QED BY <1>6, <1>7 DEF r

\* The new command is somewhere; what was queued is in its order, less one
\* command perhaps; what comes after a new command that is not last may do so.
LEMMA PlacedFacts ==
    ASSUME NEW q \in Seq(Command), NEW e \in Command, NEW r \in Placed(q, e)
    PROVE  /\ r \in Seq(Command)
           /\ \A i \in DOMAIN r : r[i] = e \/ \E k \in DOMAIN q : r[i] = q[k]
           /\ \A i, j \in DOMAIN r : i < j =>
                  \/ \E k, l \in DOMAIN q : k < l /\ r[i] = q[k] /\ r[j] = q[l]
                  \/ r[j] = e /\ \E k \in DOMAIN q : r[i] = q[k]
                  \/ /\ r[i] = e /\ e.kind = "move"
                     /\ \E l \in DOMAIN q : r[j] = q[l] /\ q[l].kind = "actors"
  <1>1. PICK s \in Slot(q, e) :
            r = IF Coalesces(q, s, e) THEN ReplaceAt(q, s, e) ELSE InsertAt(q, s + 1, e)
    BY Zenon DEF Placed
  <1>2. s \in 0..Len(q) /\ Len(q) \in Nat /\ DOMAIN q = 1..Len(q)
    BY DEF Slot
  <1>3. \A j \in s + 1 .. Len(q) : e.kind = "move" /\ q[j].kind = "actors"
    <2>1. CASE e.kind = "move"
      BY <1>2, <2>1 DEF Slot
    <2>2. CASE e.kind # "move"
      BY <1>2, <2>2 DEF Slot
    <2> QED BY <2>1, <2>2
  <1>4. CASE Coalesces(q, s, e)
    <2>1. r = [q EXCEPT ![s] = e] /\ s \in DOMAIN q
      BY <1>1, <1>2, <1>4 DEF ReplaceAt, Coalesces
    <2>2. r \in Seq(Command) /\ DOMAIN r = DOMAIN q
      BY <2>1
    <2>3. \A i \in DOMAIN q : r[i] = IF i = s THEN e ELSE q[i]
      BY <2>1
    <2>4. \A i \in DOMAIN q : i > s => i \in s + 1 .. Len(q)
      BY <1>2
    <2> QED BY <1>2, <1>3, <2>2, <2>3, <2>4
  <1>5. CASE ~Coalesces(q, s, e)
    <2>1. r = InsertAt(q, s + 1, e)
      BY <1>1, <1>5
    <2>2. r \in Seq(Command) /\ DOMAIN r = 1..(Len(q) + 1)
      BY <1>2, <2>1, InsertFacts
    <2>3. \A i \in 1..(Len(q) + 1) :
              r[i] = IF i <= s THEN q[i] ELSE IF i = s + 1 THEN e ELSE q[i - 1]
      BY <1>2, <2>1, InsertFacts
    <2>4. \A i \in DOMAIN r : i <= s => i \in DOMAIN q /\ r[i] = q[i]
      BY <1>2, <2>2, <2>3
    <2>5. \A i \in DOMAIN r : i > s + 1 => /\ i - 1 \in DOMAIN q /\ r[i] = q[i - 1]
                                           /\ i - 1 \in s + 1 .. Len(q)
      BY <1>2, <2>2, <2>3
    <2>6. \A i \in DOMAIN r : i = s + 1 => r[i] = e
      BY <1>2, <2>2, <2>3
    <2>7. DOMAIN r \subseteq Int /\ s \in Int
      BY <1>2, <2>2
    <2>8. \A i \in DOMAIN r : r[i] = e \/ \E k \in DOMAIN q : r[i] = q[k]
      BY <2>4, <2>5, <2>6, <2>7
    <2>9. ASSUME NEW i \in DOMAIN r, NEW j \in DOMAIN r, i < j
           PROVE  \/ \E k, l \in DOMAIN q : k < l /\ r[i] = q[k] /\ r[j] = q[l]
                  \/ r[j] = e /\ \E k \in DOMAIN q : r[i] = q[k]
                  \/ /\ r[i] = e /\ e.kind = "move"
                     /\ \E l \in DOMAIN q : r[j] = q[l] /\ q[l].kind = "actors"
      <3>1. CASE j <= s
        BY <2>4, <2>7, <2>9, <3>1
      <3>2. CASE j = s + 1
        BY <2>4, <2>6, <2>7, <2>9, <3>2
      <3>3. CASE j > s + 1 /\ i <= s
        <4>1. i < j - 1
          BY <2>7, <3>3
        <4> QED BY <2>4, <2>5, <2>7, <3>3, <4>1
      <3>4. CASE j > s + 1 /\ i = s + 1
        BY <1>3, <2>5, <2>6, <2>7, <3>4
      <3>5. CASE j > s + 1 /\ i > s + 1
        <4>1. i - 1 < j - 1
          BY <2>7, <2>9
        <4> QED BY <2>5, <2>7, <3>5, <4>1
      <3> QED BY <2>7, <3>1, <3>2, <3>3, <3>4, <3>5
    <2> QED BY <2>2, <2>8, <2>9
  <1> QED BY <1>4, <1>5

\* A queue from one of its commands on.
LEMMA SuffixFacts ==
    ASSUME NEW q \in Seq(Command), NEW n \in DOMAIN q
    PROVE  /\ SubSeq(q, n, Len(q)) \in Seq(Command)
           /\ \A i \in DOMAIN SubSeq(q, n, Len(q)) :
                  /\ n + i - 1 \in DOMAIN q
                  /\ SubSeq(q, n, Len(q))[i] = q[n + i - 1]
  OBVIOUS

\* A queue without its first command.
LEMMA TailFacts ==
    ASSUME NEW q \in Seq(Command), q # <<>>
    PROVE  /\ Tail(q) \in Seq(Command)
           /\ Head(q) = q[1] /\ 1 \in DOMAIN q /\ Head(q) \in Command
           /\ \A i \in DOMAIN Tail(q) : /\ i + 1 \in DOMAIN q /\ 1 < i + 1
                                        /\ Tail(q)[i] = q[i + 1]
  OBVIOUS

\* A sequence with one more element.
LEMMA AppendFacts ==
    ASSUME NEW S, NEW s \in Seq(S), NEW x \in S
    PROVE  /\ Append(s, x) \in Seq(S) /\ Len(Append(s, x)) = Len(s) + 1
           /\ DOMAIN Append(s, x) = DOMAIN s \cup {Len(s) + 1}
           /\ \A i \in DOMAIN s : Append(s, x)[i] = s[i]
           /\ Append(s, x)[Len(s) + 1] = x
  OBVIOUS

-----------------------------------------------------------------------------
(* Types *)

TypeInv == TypeOK /\ Roles

\* What a constant of the module may be compared with.
LEMMA Distinct ==
    /\ Receiver \in Threads /\ Workers \subseteq Threads /\ Receiver \notin Workers
    /\ Retirer \notin Threads /\ Free \notin Threads /\ Free # Retirer
    /\ \A t \in Threads : t \in Workers \/ t = Receiver
  BY DispatchAssumption DEF Threads

\* A command received is one, numbered next.
LEMMA ReceiveTyped ==
    ASSUME TypeInv, NEW kind \in Kinds, Receive(kind)
    PROVE  TypeInv'
  <1>1. Len(accepted) \in Nat /\ where \in Contexts /\ generation \in Nat /\ epoch \in Nat
    BY DEF TypeInv, TypeOK
  <1> DEFINE new == [id |-> Len(accepted) + 1, kind |-> kind, context |-> where,
                     generation |-> generation, epoch |-> epoch]
  <1>2. new \in Command /\ new.id = Len(accepted) + 1
    BY <1>1 DEF Command
  <1>3. hand' = [hand EXCEPT ![Receiver] = new]
    BY DEF Receive
  <1> HIDE DEF new
  <1>4. TypeOK'
    BY <1>2, <1>3, Distinct DEF TypeInv, TypeOK, Receive, worldVars, sessionVars, queueVars, ghostVars
  <1>5. Roles'
    BY <1>2, <1>3, Distinct DEF TypeInv, TypeOK, Roles, Receive, worldVars, sessionVars, queueVars, ghostVars
  <1> QED BY <1>4, <1>5 DEF TypeInv

\* What Enqueue does, without its choices.
LEMMA EnqueueFacts ==
    ASSUME TypeInv, Enqueue
    PROVE  /\ hand[Receiver] \in Command /\ hand[Receiver].id = Len(accepted) + 1
           /\ pc[Receiver] = "enqueue"
           /\ generation' \in Nat
           /\ \E renewed \in Renewed(hand[Receiver].context),
                 entry \in Command :
                  /\ entry.id = hand[Receiver].id /\ entry.kind = hand[Receiver].kind
                  /\ \/ /\ queue' \in Placed(renewed.queue, entry)
                        /\ accepted' = Append(accepted, [kind |-> entry.kind,
                              context |-> hand[Receiver].context, epoch |-> hand[Receiver].epoch])
                        /\ \/ /\ token = 0
                              /\ nextToken' = nextToken + 1 /\ token' = nextToken + 1
                              /\ mine' = [mine EXCEPT ![Receiver] = nextToken + 1]
                              /\ pc' = [pc EXCEPT ![Receiver] = "schedule"]
                           \/ /\ token # 0
                              /\ pc' = [pc EXCEPT ![Receiver] = "idle"]
                              /\ UNCHANGED <<token, nextToken, mine>>
                     \/ /\ queue' = renewed.queue
                        /\ pc' = [pc EXCEPT ![Receiver] = "refused"]
                        /\ UNCHANGED <<token, nextToken, mine, accepted>>
           /\ queueContext' = hand[Receiver].context
           /\ hand' = [hand EXCEPT ![Receiver] = None]
           /\ UNCHANGED <<worldVars, sessionVars, gate, scheduled, handled, log, final, faults>>
  <1> DEFINE input == hand[Receiver]
  <1>1. input \in Command /\ input.id = Len(accepted) + 1
    BY DEF TypeInv, Roles, Enqueue
  <1>2. PICK renewed \in Renewed(input.context) :
            /\ generation' = renewed.generation
            /\ \/ /\ queue' \in Placed(renewed.queue, [input EXCEPT !.generation = renewed.generation])
                  /\ accepted' = Append(accepted, [kind |-> input.kind, context |-> input.context,
                                                  epoch |-> input.epoch])
                  /\ IF token = 0 THEN Reserve(Receiver)
                     ELSE /\ pc' = [pc EXCEPT ![Receiver] = "idle"]
                          /\ UNCHANGED <<token, nextToken, mine>>
               \/ /\ queue' = renewed.queue
                  /\ pc' = [pc EXCEPT ![Receiver] = "refused"]
                  /\ UNCHANGED <<token, nextToken, mine, accepted>>
    BY Zenon DEF Enqueue
  <1>3. renewed.generation \in Nat
    BY <1>2, RenewedFacts DEF TypeInv
  <1> DEFINE entry == [input EXCEPT !.generation = renewed.generation]
  <1>4. entry \in Command /\ entry.id = input.id /\ entry.kind = input.kind
    BY <1>1, <1>3, StampedFacts
  <1>5. /\ pc[Receiver] = "enqueue"
        /\ queueContext' = input.context
        /\ hand' = [hand EXCEPT ![Receiver] = None]
        /\ UNCHANGED <<worldVars, sessionVars, gate, scheduled, handled, log, final, faults>>
    BY Zenon DEF Enqueue
  <1> HIDE DEF entry
  <1>6. \/ /\ queue' \in Placed(renewed.queue, entry)
           /\ accepted' = Append(accepted, [kind |-> entry.kind,
                 context |-> input.context, epoch |-> input.epoch])
           /\ \/ /\ token = 0
                 /\ nextToken' = nextToken + 1 /\ token' = nextToken + 1
                 /\ mine' = [mine EXCEPT ![Receiver] = nextToken + 1]
                 /\ pc' = [pc EXCEPT ![Receiver] = "schedule"]
              \/ /\ token # 0
                 /\ pc' = [pc EXCEPT ![Receiver] = "idle"]
                 /\ UNCHANGED <<token, nextToken, mine>>
        \/ /\ queue' = renewed.queue
           /\ pc' = [pc EXCEPT ![Receiver] = "refused"]
           /\ UNCHANGED <<token, nextToken, mine, accepted>>
    <2> USE DEF entry
    <2>1. CASE token = 0
      BY <1>2, <1>4, <2>1, Zenon DEF Reserve
    <2>2. CASE token # 0
      BY <1>2, <1>4, <2>2, Zenon
    <2> QED BY <2>1, <2>2
  <1> QED BY <1>1, <1>2, <1>3, <1>4, <1>5, <1>6, Zenon

\* A command queued is one.
LEMMA EnqueueTyped ==
    ASSUME TypeInv, Enqueue
    PROVE  TypeInv'
  <1>1. /\ hand[Receiver] \in Command /\ pc[Receiver] = "enqueue" /\ generation' \in Nat
        /\ queueContext' = hand[Receiver].context
        /\ hand' = [hand EXCEPT ![Receiver] = None]
        /\ UNCHANGED <<worldVars, sessionVars, gate, scheduled, handled, log, final, faults>>
    BY EnqueueFacts, Zenon
  <1>2. PICK renewed \in Renewed(hand[Receiver].context), entry \in Command :
                  /\ entry.id = hand[Receiver].id /\ entry.kind = hand[Receiver].kind
                  /\ \/ /\ queue' \in Placed(renewed.queue, entry)
                        /\ accepted' = Append(accepted, [kind |-> entry.kind,
                              context |-> hand[Receiver].context, epoch |-> hand[Receiver].epoch])
                        /\ \/ /\ token = 0
                              /\ nextToken' = nextToken + 1 /\ token' = nextToken + 1
                              /\ mine' = [mine EXCEPT ![Receiver] = nextToken + 1]
                              /\ pc' = [pc EXCEPT ![Receiver] = "schedule"]
                           \/ /\ token # 0
                              /\ pc' = [pc EXCEPT ![Receiver] = "idle"]
                              /\ UNCHANGED <<token, nextToken, mine>>
                     \/ /\ queue' = renewed.queue
                        /\ pc' = [pc EXCEPT ![Receiver] = "refused"]
                        /\ UNCHANGED <<token, nextToken, mine, accepted>>
    BY EnqueueFacts, Zenon
  <1>3. renewed.queue \in Seq(Command)
    BY RenewedFacts DEF TypeInv
  <1>4. queue' \in Seq(Command)
    BY <1>2, <1>3, PlacedFacts
  <1>5. hand[Receiver].context \in Contexts /\ hand[Receiver].epoch \in Nat /\ entry.kind \in Kinds
    BY <1>1 DEF Command
  <1>6. accepted' \in Seq(Arrival)
    <2>1. accepted \in Seq(Arrival)
      BY DEF TypeInv, TypeOK
    <2> DEFINE new == [kind |-> entry.kind, context |-> hand[Receiver].context,
                       epoch |-> hand[Receiver].epoch]
    <2>2. new \in Arrival
      BY <1>5 DEF Arrival
    <2>3. accepted' = Append(accepted, new) \/ accepted' = accepted
      BY <1>2
    <2> HIDE DEF new
    <2> QED BY <2>1, <2>2, <2>3, AppendFacts
  <1>7. token' \in Nat /\ nextToken' \in Nat
    BY <1>2 DEF TypeInv, TypeOK
  <1>8. mine' \in [Threads -> Nat]
    <2>1. CASE UNCHANGED mine
      BY <2>1 DEF TypeInv, TypeOK
    <2>2. CASE mine' = [mine EXCEPT ![Receiver] = nextToken + 1]
      BY <2>2, Distinct DEF TypeInv, TypeOK
    <2> QED BY <1>2, <2>1, <2>2
  <1>9. /\ pc' \in [Threads -> {"idle", "enqueue", "pop", "gate", "run", "finish",
                               "schedule", "refused"}]
        /\ pc'[Receiver] \in {"idle", "schedule", "refused"}
        /\ \A w \in Workers : pc'[w] = pc[w]
    BY <1>2, Distinct DEF TypeInv, TypeOK
  <1>10. hand' \in [Threads -> Command \cup {None}] /\ \A w \in Workers : hand'[w] = hand[w]
    BY <1>1, Distinct DEF TypeInv, TypeOK
  <1>11. TypeOK'
    BY <1>1, <1>4, <1>5, <1>6, <1>7, <1>8, <1>9, <1>10
       DEF TypeInv, TypeOK, worldVars, sessionVars
  <1>12. Roles'
    BY <1>9, <1>10 DEF TypeInv, Roles
  <1> QED BY <1>11, <1>12 DEF TypeInv

\* Handing a token over.
LEMMA HandOverTyped ==
    ASSUME TypeInv, NEW t \in Threads, HandOver(t)
    PROVE  TypeInv'
  <1> USE DEF TypeInv, TypeOK, Roles, Leave, worldVars, sessionVars, queueVars, ghostVars
  <1>1. CASE Schedule(t)
    BY <1>1, Distinct, ZenonT(30) DEF Schedule
  <1>2. CASE ScheduleFails(t)
    <2>1. CASE token = mine[t]
      <3>1. queue' = <<>> /\ token' = 0
        BY <1>2, <2>1 DEF ScheduleFails
      <3>2. queue' \in Seq(Command)
        BY <3>1
      <3> QED BY <1>2, <3>1, <3>2, Distinct DEF ScheduleFails, Fault
    <2>2. CASE token # mine[t]
      BY <1>2, <2>2, Distinct DEF ScheduleFails, Fault
    <2> QED BY <2>1, <2>2
  <1>3. CASE RequestRetirement(t)
    BY <1>3, Distinct DEF RequestRetirement
  <1> QED BY <1>1, <1>2, <1>3 DEF HandOver

\* A worker in a slice.
LEMMA DrainTyped ==
    ASSUME TypeInv, NEW w \in Workers, Drain(w)
    PROVE  TypeInv'
  <1>0. w \in Threads
    BY Distinct
  <1> USE DEF TypeInv, TypeOK, Roles, worldVars, sessionVars, queueVars, ghostVars
  <1>1. ASSUME NEW t \in scheduled, Start(w, t)
        PROVE  TypeInv'
    BY <1>1, Distinct DEF Start
  <1>2. CASE Pop(w)
    <2>1. /\ Tail(queue) \in Seq(Command) /\ Head(queue) \in Command
          /\ Head(queue) # None
      BY <1>2, TailFacts, NoneAssumption DEF Pop
    <2> DEFINE entry == Head(queue)
               valid == entry.generation = generation /\ IsCurrent(entry.kind, entry.context)
    <2>2. /\ pc[w] = "pop" /\ queue' = Tail(queue)
          /\ UNCHANGED <<worldVars, sessionVars, gate, queueContext, generation, token, nextToken,
                         scheduled, mine, ghostVars, faults>>
      BY <1>2 DEF Pop
    <2>3. CASE valid
      <3>1. /\ hand' = [hand EXCEPT ![w] = entry] /\ pc' = [pc EXCEPT ![w] = "gate"]
            /\ UNCHANGED handled
        BY <1>2, <2>3 DEF Pop
      <3> HIDE DEF entry, valid
      <3>2. entry \in Command /\ entry # None
        BY <2>1 DEF entry
      <3>3. queue' \in Seq(Command)
        BY <2>1, <2>2
      <3> QED BY <2>2, <3>1, <3>2, <3>3, Distinct
    <2>4. CASE ~valid
      <3>1. handled' = [handled EXCEPT ![w] = @ + 1] /\ UNCHANGED <<hand, pc>>
        BY <1>2, <2>4 DEF Pop
      <3> HIDE DEF entry, valid
      <3>3. queue' \in Seq(Command)
        BY <2>1, <2>2
      <3> QED BY <2>2, <3>1, <3>3, Distinct
    <2> QED BY <2>3, <2>4
  <1>3. CASE EndSlice(w)
    BY <1>3, Distinct DEF EndSlice
  <1>4. CASE TakeGate(w)
    <2>1. CASE IsCurrent(hand[w].kind, hand[w].context)
      <3>1. /\ gate' = w /\ pc' = [pc EXCEPT ![w] = "run"] /\ UNCHANGED <<hand, handled>>
            /\ pc[w] = "gate"
            /\ UNCHANGED <<worldVars, sessionVars, queueVars, scheduled, mine, ghostVars, faults>>
        BY <1>4, <2>1 DEF TakeGate
      <3> QED BY <3>1, Distinct
    <2>2. CASE ~IsCurrent(hand[w].kind, hand[w].context)
      <3>1. /\ hand' = [hand EXCEPT ![w] = None] /\ handled' = [handled EXCEPT ![w] = @ + 1]
            /\ pc' = [pc EXCEPT ![w] = "pop"] /\ UNCHANGED gate
            /\ UNCHANGED <<worldVars, sessionVars, queueVars, scheduled, mine, ghostVars, faults>>
        BY <1>4, <2>2 DEF TakeGate
      <3> QED BY <3>1, Distinct
    <2> QED BY <2>1, <2>2
  <1>5. CASE Execute(w)
    <2> DEFINE new == [id |-> hand[w].id, at |-> where, epoch |-> epoch]
    <2>1. new \in Execution
      BY <1>5, Distinct DEF Execute, Command, Execution
    <2>2. log' = Append(log, new)
      BY <1>5 DEF Execute
    <2> HIDE DEF new
    <2>3. log' \in Seq(Execution)
      BY <2>1, <2>2, AppendFacts
    <2> QED BY <1>5, <2>3, Distinct, SMTT(30) DEF Execute
  <1>6. CASE Finish(w)
    <2>1. /\ pc[w] = "finish"
          /\ UNCHANGED <<worldVars, sessionVars, gate, queueContext, generation, scheduled, hand,
                         ghostVars, faults>>
      BY <1>6 DEF Finish
    <2>2. CASE Leave(w) /\ UNCHANGED <<queue, token, nextToken>>
      BY <2>1, <2>2, Distinct DEF Leave
    <2>3. CASE queue' = <<>> /\ token' = 0 /\ Leave(w) /\ UNCHANGED nextToken
      <3>1. queue' \in Seq(Command)
        BY <2>3
      <3> QED BY <2>1, <2>3, <3>1, Distinct DEF Leave
    <2>4. ASSUME NEW first \in DOMAIN queue, queue' = SubSeq(queue, first, Len(queue)),
                 Reserve(w), UNCHANGED handled
          PROVE  TypeInv'
      <3>1. queue' \in Seq(Command)
        BY <2>4, SuffixFacts
      <3>2. nextToken' \in Nat /\ token' \in Nat /\ mine' \in [Threads -> Nat]
        BY <2>4, Distinct DEF Reserve
      <3> QED BY <2>1, <2>4, <3>1, <3>2, Distinct, SMTT(30) DEF Reserve
    <2> QED BY <1>6, <2>2, <2>3, <2>4 DEF Finish
  <1> QED BY <1>1, <1>2, <1>3, <1>4, <1>5, <1>6 DEF Drain

\* What goes on around the queue.
LEMMA WorldTyped ==
    ASSUME TypeInv, World
    PROVE  TypeInv'
  <1>1. \A c \in Contexts : /\ [c EXCEPT !.phase = @ + 1] \in Contexts
                           /\ \A m \in Maps : [map |-> m, phase |-> 0] \in Contexts
    BY DEF Contexts
  <1>2. where' \in Contexts
    BY <1>1 DEF World, ChangePhase, ChangeMap, StartTransition, EndTransition, TypeInv, TypeOK
  <1>3. epoch' \in Nat /\ leaving' \in BOOLEAN
    <2>1. epoch \in Nat /\ leaving \in BOOLEAN
      BY DEF TypeInv, TypeOK
    <2>2. CASE ChangePhase
      BY <2>1, <2>2 DEF ChangePhase
    <2>3. ASSUME NEW m \in Maps, ChangeMap(m)
          PROVE  epoch' \in Nat /\ leaving' \in BOOLEAN
      BY <2>1, <2>3 DEF ChangeMap
    <2>4. CASE StartTransition
      BY <2>1, <2>4 DEF StartTransition
    <2>5. CASE EndTransition
      BY <2>1, <2>5 DEF EndTransition
    <2> QED BY <2>2, <2>3, <2>4, <2>5 DEF World
  <1>4. UNCHANGED <<sessionVars, gate, queueVars, scheduled, threadVars, ghostVars, faults>>
    BY DEF World, ChangePhase, ChangeMap, StartTransition, EndTransition
  <1>5. TypeOK'
    BY <1>2, <1>3, <1>4 DEF TypeInv, TypeOK, sessionVars, queueVars, threadVars, ghostVars
  <1>6. Roles'
    BY <1>4 DEF TypeInv, Roles, threadVars, ghostVars
  <1> QED BY <1>5, <1>6 DEF TypeInv

\* A retirement.
LEMMA RetireTyped ==
    ASSUME TypeInv, Retire
    PROVE  TypeInv'
  <1> USE DEF TypeInv, TypeOK, Roles, worldVars, queueVars, threadVars, ghostVars
  <1>1. CASE BeginRetirement
    BY <1>1 DEF BeginRetirement
  <1>2. CASE RetirementRefused
    BY <1>2 DEF RetirementRefused, Fault
  <1>3. CASE MarkRetired
    BY <1>3 DEF MarkRetired
  <1>4. CASE FinalSnapshot
    BY <1>4 DEF FinalSnapshot
  <1>5. CASE CancelSessionActivity
    <2>1. queue' = <<>> /\ generation' \in Nat
      BY <1>5 DEF CancelSessionActivity
    <2>2. queue' \in Seq(Command)
      BY <2>1
    <2> QED BY <1>5, <2>1, <2>2 DEF CancelSessionActivity
  <1> QED BY <1>1, <1>2, <1>3, <1>4, <1>5 DEF Retire

\* Nothing has happened yet.
LEMMA InitTyped == Init => TypeInv
  <1> SUFFICES ASSUME Init PROVE TypeInv
    OBVIOUS
  <1>1. queue \in Seq(Command)
    BY DEF Init
  <1>2. log \in Seq(Execution)
    BY DEF Init
  <1>3. accepted \in Seq(Arrival)
    BY DEF Init
  <1>4. where \in Contexts
    BY DEF Init, Contexts
  <1>5. TypeOK
    BY <1>1, <1>2, <1>3, <1>4 DEF Init, TypeOK
  <1>6. Roles
    BY Distinct DEF Init, Roles
  <1> QED BY <1>5, <1>6 DEF TypeInv

\* Every step keeps the types and the roles.
LEMMA TypeInvInductive == TypeInv /\ [Next]_vars => TypeInv'
  <1> SUFFICES ASSUME TypeInv, [Next]_vars PROVE TypeInv'
    OBVIOUS
  <1>1. CASE UNCHANGED vars
    BY <1>1 DEF vars, worldVars, sessionVars, queueVars, threadVars, ghostVars,
                TypeInv, TypeOK, Roles
  <1>2. CASE Next
    BY <1>2, ReceiveTyped, EnqueueTyped, HandOverTyped, DrainTyped, WorldTyped, RetireTyped
       DEF Next, ReceiverStep
  <1> QED BY <1>1, <1>2

\* TypeOK holds in every reachable state: every variable keeps its type, and
\* with it the roles of the threads.
THEOREM TypesRight == Spec => []TypeOK
  <1>1. TypeInv => TypeOK
    BY DEF TypeInv
  <1> QED BY <1>1, InitTyped, TypeInvInductive, PTL DEF Spec

-----------------------------------------------------------------------------
(* Tokens, the gate and the retirement *)

\* The inductive invariant.
Ind == TypeInv /\ TokensHeld /\ Gates /\ OldTokens

\* A command received disturbs nothing.
LEMMA ReceiveKeeps ==
    ASSUME Ind, NEW kind \in Kinds, Receive(kind)
    PROVE  TokensHeld' /\ Gates' /\ OldTokens'
  <1>1. /\ pc[Receiver] = "idle" /\ pc' = [pc EXCEPT ![Receiver] = "enqueue"]
        /\ UNCHANGED <<sessionVars, gate, queueVars, scheduled, mine, ghostVars>>
    BY DEF Receive
  <1>2. pc' = [pc EXCEPT ![Receiver] = "enqueue"] /\ DOMAIN pc = Threads /\ Receiver \in Threads
    BY <1>1, Distinct DEF Ind, TypeInv, TypeOK
  <1>3. \A t \in Threads : Busy(t)' <=> Busy(t)
    BY <1>1, <1>2 DEF Busy
  <1>4. TokensHeld'
    BY <1>1, <1>3 DEF Ind, TokensHeld, queueVars
  <1>5. Gates'
    BY <1>1, <1>2, Distinct DEF Ind, Gates, sessionVars, ghostVars
  <1>6. OldTokens'
    BY <1>1, <1>2, Distinct DEF Ind, OldTokens, sessionVars, queueVars
  <1> QED BY <1>4, <1>5, <1>6

\* A queue that was empty is empty when it is renewed.
LEMMA EnqueueKeeps ==
    ASSUME Ind, Enqueue
    PROVE  TokensHeld' /\ Gates' /\ OldTokens'
  <1>1. /\ pc[Receiver] = "enqueue"
        /\ UNCHANGED <<worldVars, sessionVars, gate, scheduled, log, final>>
    BY DEF Enqueue
  <1>2. PICK renewed \in Renewed(hand[Receiver].context), entry \in Command :
            \/ /\ queue' \in Placed(renewed.queue, entry)
               /\ \/ /\ token = 0
                     /\ nextToken' = nextToken + 1 /\ token' = nextToken + 1
                     /\ mine' = [mine EXCEPT ![Receiver] = nextToken + 1]
                     /\ pc' = [pc EXCEPT ![Receiver] = "schedule"]
                  \/ /\ token # 0
                     /\ pc' = [pc EXCEPT ![Receiver] = "idle"]
                     /\ UNCHANGED <<token, nextToken, mine>>
            \/ /\ queue' = renewed.queue
               /\ pc' = [pc EXCEPT ![Receiver] = "refused"]
               /\ UNCHANGED <<token, nextToken, mine, accepted>>
    BY EnqueueFacts, Zenon DEF Ind
  <1>3. queue = <<>> => renewed.queue = <<>>
    <2>1. /\ renewed.queue \in Seq(Command)
          /\ \A i \in DOMAIN renewed.queue : \E k \in DOMAIN queue : TRUE
      BY RenewedFacts DEF Ind, TypeInv
    <2>2. queue = <<>> => DOMAIN queue = {}
      OBVIOUS
    <2>3. renewed.queue # <<>> => 1 \in DOMAIN renewed.queue
      BY <2>1
    <2> QED BY <2>1, <2>2, <2>3
  <1>4. /\ Receiver \in Threads /\ \A w \in Workers : w # Receiver /\ w \in Threads
        /\ DOMAIN pc = Threads /\ mine \in [Threads -> Nat]
        /\ token \in Nat /\ nextToken \in Nat /\ scheduled \subseteq Nat
    BY Distinct DEF Ind, TypeInv, TypeOK
  <1>5. CASE token = 0 /\ token' = nextToken + 1
    <2>1. /\ nextToken' = nextToken + 1
          /\ mine' = [mine EXCEPT ![Receiver] = nextToken + 1]
          /\ pc' = [pc EXCEPT ![Receiver] = "schedule"]
      BY <1>2, <1>4, <1>5
    <2>2. \A t \in Threads : /\ Busy(t)' <=> Busy(t) \/ t = Receiver
                             /\ mine'[t] = IF t = Receiver THEN nextToken + 1 ELSE mine[t]
      BY <1>4, <2>1 DEF Busy
    <2>3. /\ Busy(Receiver)' /\ mine'[Receiver] = nextToken + 1
          /\ \A t \in Threads : t # Receiver /\ Busy(t)' => Busy(t) /\ mine'[t] = mine[t]
      BY <1>4, <2>2
    <2>4. TokensHeld'
      <3>1. \A t \in Threads : Busy(t)' => mine'[t] \in 1..nextToken' /\ mine'[t] \notin scheduled'
        BY <1>1, <1>4, <2>1, <2>3 DEF Ind, TokensHeld
      <3>2. \A t, u \in Threads : Busy(t)' /\ Busy(u)' /\ mine'[t] = mine'[u] => t = u
        BY <1>4, <2>3 DEF Ind, TokensHeld
      <3>3. scheduled' \subseteq 1..nextToken' /\ token' <= nextToken' /\ token' # 0
        BY <1>1, <1>4, <1>5, <2>1 DEF Ind, TokensHeld
      <3>4. \E t \in Threads : Busy(t)' /\ mine'[t] = token'
        BY <1>4, <1>5, <2>3
      <3> QED BY <3>1, <3>2, <3>3, <3>4 DEF TokensHeld, Busy
    <2>5. Gates'
      BY <1>1, <1>4, <2>1 DEF Ind, Gates, sessionVars
    <2>6. OldTokens'
      BY <1>1, <1>4, <1>5, <2>1, <2>2 DEF Ind, OldTokens, TokensHeld, Busy, sessionVars
    <2> QED BY <2>4, <2>5, <2>6
  <1>6. CASE UNCHANGED <<token, nextToken, mine>>
    <2>1. /\ queue' # <<>> => token # 0
          /\ \E p \in {"idle", "refused"} : pc' = [pc EXCEPT ![Receiver] = p]
      BY <1>2, <1>3, <1>4, <1>6 DEF Ind, TokensHeld
    <2>2. \A t \in Threads : Busy(t)' <=> Busy(t)
      BY <1>1, <1>4, <2>1 DEF Busy
    <2>3. \A w \in Workers : pc'[w] = pc[w]
      BY <1>4, <2>1
    <2>4. TokensHeld'
      BY <1>1, <1>6, <2>1, <2>2 DEF Ind, TokensHeld
    <2>5. Gates'
      BY <1>1, <2>3 DEF Ind, Gates, sessionVars
    <2>6. OldTokens'
      BY <1>1, <1>6, <2>3 DEF Ind, OldTokens, sessionVars
    <2> QED BY <2>4, <2>5, <2>6
  <1> QED BY <1>2, <1>5, <1>6

\* A token handed over is in one place; one that is not handed over is void.
LEMMA HandOverKeeps ==
    ASSUME Ind, NEW t \in Threads, HandOver(t)
    PROVE  TokensHeld' /\ Gates' /\ OldTokens'
  <1>1. /\ pc[t] \in {"schedule", "refused"}
        /\ pc' \in {[pc EXCEPT ![t] = "idle"], [pc EXCEPT ![t] = "refused"]}
        /\ UNCHANGED <<connected, retired, retirement, gate, nextToken, log, final>>
    BY DEF HandOver, Schedule, ScheduleFails, RequestRetirement, Leave, sessionVars, queueVars,
           ghostVars
  <1>2. /\ DOMAIN pc = Threads /\ mine \in [Threads -> Nat]
        /\ token \in Nat /\ nextToken \in Nat /\ scheduled \subseteq Nat
        /\ \A w \in Workers : w \in Threads
    BY Distinct DEF Ind, TypeInv, TypeOK
  <1>3. \A u \in Threads : u # t => pc'[u] = pc[u]
    BY <1>1, <1>2
  <1>4. pc'[t] \in {"idle", "refused"}
    BY <1>1, <1>2
  <1>5. Gates'
    BY <1>1, <1>2, <1>3, <1>4 DEF Ind, Gates
  <1>6. \A u \in Threads : Busy(u)' => Busy(u) /\ u # t
    BY <1>3, <1>4 DEF Busy
  <1>7. \A u \in Threads : Busy(u) /\ u # t => Busy(u)'
    BY <1>3 DEF Busy
  <1>8. CASE Schedule(t)
    <2>1. /\ pc[t] = "schedule" /\ Busy(t) /\ scheduled' = scheduled \cup {mine[t]}
          /\ mine' = [mine EXCEPT ![t] = 0] /\ UNCHANGED <<queue, token>>
      BY <1>8 DEF Schedule, Leave, Busy, queueVars
    <2>2. \A u \in Threads : u # t => mine'[u] = mine[u]
      BY <1>2, <2>1
    <2>3. TokensHeld'
      <3>1. \A u \in Threads : Busy(u)' => mine'[u] \in 1..nextToken' /\ mine'[u] \notin scheduled'
        BY <1>1, <1>6, <2>1, <2>2 DEF Ind, TokensHeld
      <3>2. \A u, v \in Threads : Busy(u)' /\ Busy(v)' /\ mine'[u] = mine'[v] => u = v
        BY <1>6, <2>2 DEF Ind, TokensHeld
      <3>3. scheduled' \subseteq 1..nextToken' /\ token' <= nextToken'
        BY <1>1, <2>1 DEF Ind, TokensHeld
      <3>4. token' # 0 => token' \in scheduled' \/ \E u \in Threads : Busy(u)' /\ mine'[u] = token'
        BY <1>7, <2>1, <2>2 DEF Ind, TokensHeld
      <3>5. queue' # <<>> => token' # 0
        BY <2>1 DEF Ind, TokensHeld
      <3> QED BY <3>1, <3>2, <3>3, <3>4, <3>5 DEF TokensHeld, Busy
    <2>4. OldTokens'
      BY <1>1, <1>2, <1>3, <1>4, <2>1, <2>2 DEF Ind, OldTokens
    <2> QED BY <1>5, <2>3, <2>4
  <1>9. CASE ScheduleFails(t)
    <2>1. /\ pc[t] = "schedule" /\ Busy(t) /\ UNCHANGED <<mine, scheduled>>
          /\ token = mine[t] => token' = 0 /\ queue' = <<>>
          /\ token # mine[t] => UNCHANGED <<token, queue>>
      BY <1>9 DEF ScheduleFails, Busy
    <2>2. TokensHeld'
      <3>1. \A u \in Threads : Busy(u)' => mine'[u] \in 1..nextToken' /\ mine'[u] \notin scheduled'
        BY <1>1, <1>6, <2>1 DEF Ind, TokensHeld
      <3>2. \A u, v \in Threads : Busy(u)' /\ Busy(v)' /\ mine'[u] = mine'[v] => u = v
        BY <1>6, <2>1 DEF Ind, TokensHeld
      <3>3. scheduled' \subseteq 1..nextToken' /\ token' <= nextToken'
        BY <1>1, <1>2, <2>1 DEF Ind, TokensHeld
      <3>4. token' # 0 => token' \in scheduled' \/ \E u \in Threads : Busy(u)' /\ mine'[u] = token'
        BY <1>7, <2>1 DEF Ind, TokensHeld
      <3>5. queue' # <<>> => token' # 0
        BY <2>1 DEF Ind, TokensHeld
      <3> QED BY <3>1, <3>2, <3>3, <3>4, <3>5 DEF TokensHeld, Busy
    <2>3. OldTokens'
      <3> SUFFICES ASSUME NEW w \in Workers, pc'[w] \in {"gate", "run"}, mine'[w] # token'
                   PROVE  retirement' = "done"
        BY DEF OldTokens
      <3>1. w # t /\ pc[w] \in {"gate", "run"} /\ mine'[w] = mine[w] /\ Busy(w) /\ w \in Threads
        BY <1>2, <1>3, <1>4, <2>1 DEF Busy
      <3>2. token # mine[t] => mine[w] # token
        BY <2>1, <3>1
      <3>3. token = mine[t] => mine[w] # token
        BY <2>1, <3>1 DEF Ind, TokensHeld
      <3> QED BY <1>1, <3>1, <3>2, <3>3 DEF Ind, OldTokens
    <2> QED BY <1>5, <2>2, <2>3
  <1>10. CASE RequestRetirement(t)
    <2>1. /\ pc[t] = "refused" /\ ~Busy(t) /\ mine' = [mine EXCEPT ![t] = 0]
          /\ UNCHANGED <<queue, token, scheduled>>
      BY <1>10 DEF RequestRetirement, Leave, Busy, queueVars
    <2>2. \A u \in Threads : u # t => mine'[u] = mine[u]
      BY <1>2, <2>1
    <2>3. TokensHeld'
      <3>1. \A u \in Threads : Busy(u)' => mine'[u] \in 1..nextToken' /\ mine'[u] \notin scheduled'
        BY <1>1, <1>6, <2>1, <2>2 DEF Ind, TokensHeld
      <3>2. \A u, v \in Threads : Busy(u)' /\ Busy(v)' /\ mine'[u] = mine'[v] => u = v
        BY <1>6, <2>2 DEF Ind, TokensHeld
      <3>3. scheduled' \subseteq 1..nextToken' /\ token' <= nextToken'
        BY <1>1, <2>1 DEF Ind, TokensHeld
      <3>4. token' # 0 => token' \in scheduled' \/ \E u \in Threads : Busy(u)' /\ mine'[u] = token'
        BY <1>7, <2>1, <2>2 DEF Ind, TokensHeld
      <3>5. queue' # <<>> => token' # 0
        BY <2>1 DEF Ind, TokensHeld
      <3> QED BY <3>1, <3>2, <3>3, <3>4, <3>5 DEF TokensHeld, Busy
    <2>4. OldTokens'
      BY <1>1, <1>2, <1>3, <1>4, <2>1, <2>2 DEF Ind, OldTokens
    <2> QED BY <1>5, <2>3, <2>4
  <1> QED BY <1>8, <1>9, <1>10 DEF HandOver

\* What Ind says of a worker.
LEMMA WorkerHas ==
    ASSUME Ind, NEW w \in Workers
    PROVE  /\ w \in Threads /\ DOMAIN pc = Threads /\ DOMAIN mine = Threads
           /\ mine[w] \in Nat /\ token \in Nat /\ nextToken \in Nat /\ scheduled \subseteq Nat
           /\ Workers \subseteq Threads /\ w # Retirer /\ w # Free /\ Free # Retirer
           /\ Busy(w) => mine[w] # 0
  BY Distinct DEF Ind, TypeInv, TypeOK, TokensHeld

\* A slice holds its token to its end, and executes under the gate.
LEMMA DrainKeeps ==
    ASSUME Ind, NEW w \in Workers, Drain(w)
    PROVE  TokensHeld' /\ Gates' /\ OldTokens'
  <1>1. ASSUME NEW t \in scheduled, Start(w, t)
        PROVE  TokensHeld' /\ Gates' /\ OldTokens'
    <2>1. /\ pc[w] = "idle" /\ pc' = [pc EXCEPT ![w] = "pop"] /\ mine' = [mine EXCEPT ![w] = t]
          /\ scheduled' = scheduled \ {t}
          /\ UNCHANGED <<sessionVars, gate, queue, token, nextToken, log, final>>
      BY <1>1 DEF Start, queueVars, ghostVars
    <2>2. \A u \in Threads : u # w => pc'[u] = pc[u] /\ mine'[u] = mine[u]
      BY <2>1, WorkerHas
    <2>3. pc'[w] = "pop" /\ mine'[w] = t
      BY <2>1, WorkerHas
    <2>4. /\ \A u \in Threads : u # w => (Busy(u)' <=> Busy(u)) /\ mine'[u] = mine[u]
          /\ Busy(w)' /\ ~Busy(w) /\ mine'[w] = t
      BY <2>1, <2>2, <2>3 DEF Busy
    <2>5. TokensHeld'
      <3>1. \A u \in Threads : Busy(u)' => mine'[u] \in 1..nextToken' /\ mine'[u] \notin scheduled'
        BY <2>1, <2>4 DEF Ind, TokensHeld
      <3>2. \A u, v \in Threads : Busy(u)' /\ Busy(v)' /\ mine'[u] = mine'[v] => u = v
        BY <2>4 DEF Ind, TokensHeld
      <3>3. scheduled' \subseteq 1..nextToken' /\ token' <= nextToken'
        BY <2>1 DEF Ind, TokensHeld
      <3>4. token' # 0 => token' \in scheduled' \/ \E u \in Threads : Busy(u)' /\ mine'[u] = token'
        BY <2>1, <2>4, WorkerHas DEF Ind, TokensHeld
      <3>5. queue' # <<>> => token' # 0
        BY <2>1 DEF Ind, TokensHeld
      <3> QED BY <3>1, <3>2, <3>3, <3>4, <3>5 DEF TokensHeld, Busy
    <2>6. Gates'
      BY <2>1, <2>2, <2>3, WorkerHas DEF Ind, Gates, sessionVars
    <2>7. OldTokens'
      BY <2>1, <2>2, <2>3, WorkerHas DEF Ind, OldTokens, sessionVars
    <2> QED BY <2>5, <2>6, <2>7
  <1>2. ASSUME UNCHANGED <<mine, token, nextToken, scheduled, connected, retired, retirement, final>>,
               Busy(w), NEW p \in {"pop", "gate", "run", "finish"}, pc' = [pc EXCEPT ![w] = p],
               queue' # <<>> => queue # <<>>,
               p \in {"gate", "run"} => pc[w] \in {"gate", "run"} \/ mine[w] = token
        PROVE  TokensHeld' /\ OldTokens'
    <2>1. \A u \in Threads : (Busy(u)' <=> Busy(u)) /\ (u # w => pc'[u] = pc[u])
      BY <1>2, WorkerHas DEF Busy
    <2>2. TokensHeld'
      BY <1>2, <2>1 DEF Ind, TokensHeld
    <2>3. pc'[w] = p /\ Workers \subseteq Threads
      BY <1>2, WorkerHas
    <2>4. OldTokens'
      BY <1>2, <2>1, <2>3 DEF Ind, OldTokens
    <2> QED BY <2>2, <2>4
  <1>3. CASE Pop(w)
    <2>1. /\ pc[w] = "pop" /\ token = mine[w] /\ queue # <<>>
          /\ pc' \in {pc, [pc EXCEPT ![w] = "gate"]}
          /\ UNCHANGED <<sessionVars, gate, token, nextToken, scheduled, mine, log, final>>
      BY <1>3 DEF Pop, ghostVars
    <2>2. pc = [pc EXCEPT ![w] = "pop"]
      BY <2>1 DEF Ind, TypeInv, TypeOK
    <2>3. PICK p \in {"pop", "gate"} : pc' = [pc EXCEPT ![w] = p]
      BY <2>1, <2>2
    <2>4. TokensHeld' /\ OldTokens'
      BY <1>2, <2>1, <2>3 DEF Busy, sessionVars
    <2>5. Gates'
      BY <2>1, <2>3, WorkerHas DEF Ind, Gates, sessionVars
    <2> QED BY <2>4, <2>5
  <1>4. CASE EndSlice(w)
    <2>1. /\ pc[w] = "pop" /\ pc' = [pc EXCEPT ![w] = "finish"]
          /\ UNCHANGED <<sessionVars, gate, queue, token, nextToken, scheduled, mine, log, final>>
      BY <1>4 DEF EndSlice, queueVars, ghostVars
    <2>2. TokensHeld' /\ OldTokens'
      BY <1>2, <2>1 DEF Busy, sessionVars
    <2>3. Gates'
      BY <2>1, WorkerHas DEF Ind, Gates, sessionVars
    <2> QED BY <2>2, <2>3
  <1>5. CASE TakeGate(w)
    <2>1. /\ pc[w] = "gate" /\ gate = Free
          /\ UNCHANGED <<sessionVars, queue, token, nextToken, scheduled, mine, log, final>>
      BY <1>5 DEF TakeGate, queueVars, ghostVars
    <2>2. CASE gate' = w /\ pc' = [pc EXCEPT ![w] = "run"] /\ connected
      <3>1. TokensHeld' /\ OldTokens'
        BY <1>2, <2>1, <2>2 DEF Busy, sessionVars
      <3>2. retirement = "no"
        BY <2>2 DEF Ind, Gates
      <3>3. Gates'
        BY <2>1, <2>2, <3>2, WorkerHas DEF Ind, Gates, sessionVars
      <3> QED BY <3>1, <3>3
    <2>3. CASE pc' = [pc EXCEPT ![w] = "pop"] /\ UNCHANGED gate
      <3>1. TokensHeld' /\ OldTokens'
        BY <1>2, <2>1, <2>3 DEF Busy, sessionVars
      <3>2. Gates'
        BY <2>1, <2>3, WorkerHas DEF Ind, Gates, sessionVars
      <3> QED BY <3>1, <3>2
    <2> QED BY <1>5, <2>2, <2>3 DEF TakeGate, IsCurrent
  <1>6. CASE Execute(w)
    <2>1. /\ pc[w] = "run" /\ gate' = Free /\ pc' = [pc EXCEPT ![w] = "pop"]
          /\ UNCHANGED <<sessionVars, queue, token, nextToken, scheduled, mine, final>>
      BY <1>6 DEF Execute, queueVars, ghostVars
    <2>2. TokensHeld' /\ OldTokens'
      BY <1>2, <2>1 DEF Busy, sessionVars
    <2>3. gate = w /\ retirement # "closing" /\ retirement # "done" /\ final = None
      BY <2>1, WorkerHas DEF Ind, Gates
    <2>4. \A v \in Workers : pc'[v] # "run" /\ v # Free
      BY <2>1, <2>3, WorkerHas DEF Ind, Gates
    <2>5. Gates'
      BY <2>1, <2>3, <2>4, WorkerHas DEF Ind, Gates, sessionVars
    <2> QED BY <2>2, <2>5
  <1>7. CASE Finish(w)
    <2>1. /\ pc[w] = "finish" /\ Busy(w)
          /\ UNCHANGED <<sessionVars, gate, scheduled, log, final>>
      BY <1>7 DEF Finish, Busy, ghostVars
    <2>2. CASE Leave(w) /\ UNCHANGED nextToken /\ (token' = 0 \/ (token # mine[w] /\ token' = token))
               /\ (queue' # <<>> => token' = token /\ queue' = queue)
      <3>1. /\ pc' = [pc EXCEPT ![w] = "idle"] /\ mine' = [mine EXCEPT ![w] = 0]
        BY <2>2 DEF Leave
      <3>2. /\ \A u \in Threads : u # w => (Busy(u)' <=> Busy(u)) /\ mine'[u] = mine[u]
                                        /\ pc'[u] = pc[u]
            /\ ~Busy(w)' /\ pc'[w] = "idle"
        BY <3>1, WorkerHas DEF Busy
      <3>3. TokensHeld'
        <4>1. \A u \in Threads : Busy(u)' => mine'[u] \in 1..nextToken' /\ mine'[u] \notin scheduled'
          BY <2>1, <2>2, <3>2 DEF Ind, TokensHeld
        <4>2. \A u, v \in Threads : Busy(u)' /\ Busy(v)' /\ mine'[u] = mine'[v] => u = v
          BY <3>2 DEF Ind, TokensHeld
        <4>3. scheduled' \subseteq 1..nextToken' /\ token' <= nextToken'
          BY <2>1, <2>2, WorkerHas DEF Ind, TokensHeld
        <4>4. token' # 0 => token' \in scheduled' \/ \E u \in Threads : Busy(u)' /\ mine'[u] = token'
          BY <2>1, <2>2, <3>2 DEF Ind, TokensHeld
        <4>5. queue' # <<>> => token' # 0
          BY <2>2 DEF Ind, TokensHeld
        <4> QED BY <4>1, <4>2, <4>3, <4>4, <4>5 DEF TokensHeld, Busy
      <3>4. OldTokens'
        <4> SUFFICES ASSUME NEW v \in Workers, pc'[v] \in {"gate", "run"}, mine'[v] # token'
                     PROVE  retirement' = "done"
          BY DEF OldTokens
        <4>1. v # w /\ v \in Threads /\ pc[v] \in {"gate", "run"} /\ mine'[v] = mine[v] /\ Busy(v)
          BY <3>2, WorkerHas DEF Busy
        <4>2. mine[w] # mine[v]
          BY <2>1, <4>1, WorkerHas DEF Ind, TokensHeld
        <4>3. token' = 0 \/ token' = token
          BY <2>2
        <4>4. CASE mine[v] # token
          BY <2>1, <4>1, <4>4 DEF Ind, OldTokens, sessionVars
        <4>5. CASE mine[v] = token
          BY <1>7, <2>1, <2>2, <4>1, <4>2, <4>3, <4>5 DEF Finish
        <4> QED BY <4>4, <4>5
      <3>5. Gates'
        BY <2>1, <3>2, WorkerHas DEF Ind, Gates, sessionVars
      <3> QED BY <3>3, <3>4, <3>5
    <2>3. CASE token = mine[w] /\ Reserve(w)
      <3>1. /\ nextToken' = nextToken + 1 /\ token' = nextToken + 1
            /\ mine' = [mine EXCEPT ![w] = nextToken + 1]
            /\ pc' = [pc EXCEPT ![w] = "schedule"]
        BY <2>3 DEF Reserve
      <3>2. /\ \A u \in Threads : u # w => (Busy(u)' <=> Busy(u)) /\ mine'[u] = mine[u]
                                        /\ pc'[u] = pc[u]
            /\ Busy(w)' /\ pc'[w] = "schedule" /\ mine'[w] = nextToken + 1
        BY <3>1, WorkerHas DEF Busy
      <3>3. TokensHeld'
        <4>1. \A u \in Threads : Busy(u)' => mine'[u] \in 1..nextToken' /\ mine'[u] \notin scheduled'
          BY <2>1, <3>1, <3>2, WorkerHas DEF Ind, TokensHeld
        <4>2. \A u, v \in Threads : Busy(u)' /\ Busy(v)' /\ mine'[u] = mine'[v] => u = v
          BY <3>2, WorkerHas DEF Ind, TokensHeld
        <4>3. scheduled' \subseteq 1..nextToken' /\ token' <= nextToken' /\ token' # 0
          BY <2>1, <3>1, WorkerHas DEF Ind, TokensHeld
        <4>4. \E u \in Threads : Busy(u)' /\ mine'[u] = token'
          BY <3>1, <3>2, WorkerHas
        <4> QED BY <4>1, <4>2, <4>3, <4>4 DEF TokensHeld, Busy
      <3>4. OldTokens'
        <4> SUFFICES ASSUME NEW v \in Workers, pc'[v] \in {"gate", "run"}, mine'[v] # token'
                     PROVE  retirement' = "done"
          BY DEF OldTokens
        <4>1. v # w /\ v \in Threads /\ pc[v] \in {"gate", "run"} /\ mine'[v] = mine[v] /\ Busy(v)
          BY <3>2, WorkerHas DEF Busy
        <4>2. mine[w] # mine[v]
          BY <2>1, <4>1, WorkerHas DEF Ind, TokensHeld
        <4> QED BY <2>1, <2>3, <4>1, <4>2 DEF Ind, OldTokens, sessionVars
      <3>5. Gates'
        BY <2>1, <3>2, WorkerHas DEF Ind, Gates, sessionVars
      <3> QED BY <3>3, <3>4, <3>5
    <2>4. \/ token # mine[w] /\ Leave(w) /\ UNCHANGED <<queue, token, nextToken>>
          \/ token = mine[w] /\ queue' = <<>> /\ token' = 0 /\ Leave(w) /\ UNCHANGED nextToken
          \/ token = mine[w] /\ Reserve(w)
      BY <1>7, Zenon DEF Finish
    <2>5. CASE token # mine[w] /\ Leave(w) /\ UNCHANGED <<queue, token, nextToken>>
      BY <2>2, <2>5
    <2>6. CASE token = mine[w] /\ queue' = <<>> /\ token' = 0 /\ Leave(w) /\ UNCHANGED nextToken
      BY <2>2, <2>6, Zenon
    <2> QED BY <2>3, <2>4, <2>5, <2>6
  <1> QED BY <1>1, <1>3, <1>4, <1>5, <1>6, <1>7 DEF Drain

\* The world does not touch the queue; a retirement closes it under the gate.
LEMMA RetireKeeps ==
    ASSUME Ind, World \/ Retire
    PROVE  TokensHeld' /\ Gates' /\ OldTokens'
  <1>0. \A w \in Workers : w # Retirer /\ w # Free /\ Free # Retirer
    BY Distinct
  <1>1. CASE World
    <2>1. UNCHANGED <<sessionVars, gate, queueVars, scheduled, threadVars, ghostVars>>
      BY <1>1 DEF World, ChangePhase, ChangeMap, StartTransition, EndTransition
    <2>2. TokensHeld'
      BY <2>1 DEF Ind, TokensHeld, Busy, queueVars, threadVars
    <2>3. Gates'
      BY <2>1 DEF Ind, Gates, sessionVars, threadVars, ghostVars
    <2>4. OldTokens'
      BY <2>1 DEF Ind, OldTokens, sessionVars, queueVars, threadVars
    <2> QED BY <2>2, <2>3, <2>4
  <1>2. CASE BeginRetirement \/ RetirementRefused \/ MarkRetired
    <2>1. /\ UNCHANGED <<gate, queueVars, scheduled, threadVars, ghostVars>>
          /\ retirement \in {"no", "queued"} /\ retirement' \in {"no", "queued", "waiting"}
          /\ retired' <=> retirement' = "waiting"
          /\ retirement' # "no" => ~connected'
      BY <1>2 DEF BeginRetirement, RetirementRefused, MarkRetired, Ind, Gates
    <2>2. TokensHeld'
      BY <2>1 DEF Ind, TokensHeld, Busy, queueVars, threadVars
    <2>3. Gates'
      BY <2>1 DEF Ind, Gates, threadVars, ghostVars
    <2>4. OldTokens'
      BY <2>1 DEF Ind, OldTokens, queueVars, threadVars
    <2> QED BY <2>2, <2>3, <2>4
  <1>3. CASE FinalSnapshot
    <2>1. /\ UNCHANGED <<connected, retired, queueVars, scheduled, threadVars, log>>
          /\ retirement = "waiting" /\ retirement' = "closing" /\ gate = Free /\ gate' = Retirer
          /\ final' = Len(log)
      BY <1>3 DEF FinalSnapshot
    <2>2. TokensHeld'
      BY <2>1 DEF Ind, TokensHeld, Busy, queueVars, threadVars
    <2>3. Len(log) # None
      BY NoneAssumption, DispatchAssumption DEF Ind, TypeInv, TypeOK
    <2>4. Gates'
      BY <1>0, <2>1, <2>3 DEF Ind, Gates, threadVars
    <2>5. OldTokens'
      BY <2>1 DEF Ind, OldTokens, queueVars, threadVars
    <2> QED BY <2>2, <2>4, <2>5
  <1>4. CASE CancelSessionActivity
    <2>1. /\ UNCHANGED <<connected, retired, nextToken, scheduled, threadVars, ghostVars>>
          /\ retirement = "closing" /\ retirement' = "done" /\ gate' = Free
          /\ queue' = <<>> /\ token' = 0
      BY <1>4 DEF CancelSessionActivity
    <2>2. TokensHeld'
      <3>1. 0 <= nextToken
        BY DEF Ind, TypeInv, TypeOK
      <3> QED BY <2>1, <3>1 DEF Ind, TokensHeld, Busy, threadVars
    <2>3. Gates'
      <3>1. \A w \in Workers : pc'[w] # "run" /\ gate' # w
        BY <1>0, <2>1 DEF Ind, Gates, threadVars
      <3>2. retired' /\ ~connected' /\ gate' # Retirer
        BY <1>0, <2>1, DispatchAssumption DEF Ind, Gates
      <3>3. final' # None /\ Len(log)' = final'
        BY <2>1 DEF Ind, Gates, ghostVars
      <3> QED BY <2>1, <3>1, <3>2, <3>3 DEF Gates
    <2>4. OldTokens'
      BY <2>1 DEF OldTokens
    <2> QED BY <2>2, <2>3, <2>4
  <1> QED BY <1>1, <1>2, <1>3, <1>4 DEF Retire

\* Nobody has a token, and nothing is under way.
LEMMA InitInd == Init => Ind
  <1> SUFFICES ASSUME Init PROVE Ind
    OBVIOUS
  <1>1. TypeInv
    BY InitTyped
  <1>2. \A t \in Threads : pc[t] = "idle"
    BY DEF Init
  <1>3. TokensHeld
    BY <1>2 DEF Init, TokensHeld, Busy
  <1>4. \A w \in Workers : w # Free /\ pc[w] = "idle"
    BY <1>2, Distinct
  <1>5. Gates
    BY <1>4, Distinct DEF Init, Gates
  <1>6. OldTokens
    BY <1>4 DEF OldTokens
  <1> QED BY <1>1, <1>3, <1>5, <1>6 DEF Ind

\* Every step keeps the tokens, the gate and the progress of the retirement.
LEMMA IndInductive == Ind /\ [Next]_vars => Ind'
  <1> SUFFICES ASSUME Ind, [Next]_vars PROVE Ind'
    OBVIOUS
  <1>1. TypeInv'
    BY TypeInvInductive DEF Ind
  <1>2. CASE UNCHANGED vars
    <2>1. UNCHANGED <<sessionVars, gate, queueVars, scheduled, threadVars, ghostVars>>
      BY <1>2 DEF vars
    <2>2. TokensHeld'
      BY <2>1 DEF Ind, TokensHeld, Busy, queueVars, threadVars
    <2>3. Gates'
      BY <2>1 DEF Ind, Gates, sessionVars, threadVars, ghostVars
    <2>4. OldTokens'
      BY <2>1 DEF Ind, OldTokens, sessionVars, queueVars, threadVars
    <2> QED BY <1>1, <2>2, <2>3, <2>4 DEF Ind
  <1>3. CASE Next
    <2>1. TokensHeld' /\ Gates' /\ OldTokens'
      BY <1>3, ReceiveKeeps, EnqueueKeeps, HandOverKeeps, DrainKeeps, RetireKeeps
         DEF Next, ReceiverStep
    <2> QED BY <1>1, <2>1 DEF Ind
  <1> QED BY <1>2, <1>3

\* One callback has the token that is out.
LEMMA OneConsumer == Ind => QueueHasOneConsumer
  <1> SUFFICES ASSUME Ind, queue # <<>>
               PROVE  /\ token # 0
                      /\ IF token \in scheduled THEN Scheduling(token) \cup Running(token) = {}
                         ELSE \E u \in Threads : Scheduling(token) \cup Running(token) = {u}
    BY DEF QueueHasOneConsumer
  <1>1. token # 0 /\ (token \in scheduled \/ \E t \in Threads : Busy(t) /\ mine[t] = token)
    BY DEF Ind, TokensHeld
  <1>2. \A t \in Scheduling(token) \cup Running(token) : t \in Threads /\ Busy(t) /\ mine[t] = token
    BY Distinct DEF Scheduling, Running, Draining, Busy
  <1>3. \A t \in Threads : Busy(t) /\ mine[t] = token => t \in Scheduling(token) \cup Running(token)
    BY Distinct DEF Scheduling, Running, Draining, Busy, Ind, TypeInv, Roles
  <1>4. CASE token \in scheduled
    BY <1>1, <1>2, <1>4 DEF Ind, TokensHeld
  <1>5. CASE token \notin scheduled
    <2>1. PICK u \in Threads : Busy(u) /\ mine[u] = token
      BY <1>1, <1>5
    <2>2. Scheduling(token) \cup Running(token) = {u}
      BY <1>2, <1>3, <2>1 DEF Ind, TokensHeld
    <2> QED BY <1>1, <1>5, <2>2
  <1> QED BY <1>4, <1>5

\* A queue that holds commands has one consumer, whatever becomes of callbacks
\* of old tokens, full schedulers and retirements: no token is lost or doubled.
THEOREM QueueIsServed == Spec => []QueueHasOneConsumer
  <1> QED BY OneConsumer, InitInd, IndInductive, PTL DEF Spec

\* Nothing executes after the final snapshot of a session.
THEOREM SnapshotIsFinal == Spec => []FinalSnapshotIsFinal
  <1>1. Ind => FinalSnapshotIsFinal
    BY DEF Ind, Gates, FinalSnapshotIsFinal
  <1> QED BY <1>1, InitInd, IndInductive, PTL DEF Spec

-----------------------------------------------------------------------------
(* The order of the commands *)

\* The queue less its first n commands.
Dropped(n) == \A i \in DOMAIN queue' : i + n \in DOMAIN queue /\ queue'[i] = queue[i + n]

\* No worker has a command it did not have, nor the token if it did not.
NothingTaken == \A w \in Workers : hand'[w] # None =>
                    hand'[w] = hand[w] /\ (mine'[w] = token' => mine[w] = token)

\* Commands lost at the head of the queue or from a hand disturb no order.
LEMMA LessIsOrdered ==
    ASSUME Ind, OInv, NEW n \in Nat, Dropped(n), NothingTaken, UNCHANGED <<accepted, log>>,
           DOMAIN queue' \subseteq Nat, retirement = "done" => retirement' = "done"
    PROVE  OInv'
  <1>1. Named'
    <2>1. \A i \in DOMAIN queue' : /\ queue'[i].id \in DOMAIN accepted
                                  /\ queue'[i].kind = accepted[queue'[i].id].kind
      BY DEF Dropped, OInv, Named
    <2>2. \A w \in Workers : hand'[w] # None => /\ hand'[w].id \in DOMAIN accepted
                                             /\ hand'[w].kind = accepted[hand'[w].id].kind
      BY DEF NothingTaken, OInv, Named
    <2>3. \A k \in DOMAIN log : log[k].id \in DOMAIN accepted
      BY DEF OInv, Named
    <2> QED BY <2>1, <2>2, <2>3 DEF Named
  <1>2. \A a, b : MayPrecede(a, b)' <=> MayPrecede(a, b)
    BY DEF MayPrecede, Before
  <1>3. Ordered'
    <2>1. \A i, j \in DOMAIN queue' : i < j => MayPrecede(queue'[i].id, queue'[j].id)
      <3> SUFFICES ASSUME NEW i \in DOMAIN queue', NEW j \in DOMAIN queue', i < j
                   PROVE  MayPrecede(queue'[i].id, queue'[j].id)
        OBVIOUS
      <3>1. i \in Nat /\ j \in Nat
        OBVIOUS
      <3>2. i + n < j + n
        BY <3>1
      <3> QED BY <3>2 DEF Dropped, OInv, Ordered
    <2>2. \A w \in Workers : hand'[w] # None /\ mine'[w] = token' =>
              \A i \in DOMAIN queue' : MayPrecede(hand'[w].id, queue'[i].id)
      BY DEF Dropped, NothingTaken, OInv, Ordered
    <2>3. retirement' # "done" => \A w \in Workers : hand'[w] # None =>
              \A k \in DOMAIN log : MayPrecede(log[k].id, hand'[w].id)
      BY DEF NothingTaken, OInv, Ordered
    <2>4. retirement' # "done" =>
              \A k \in DOMAIN log, i \in DOMAIN queue' : MayPrecede(log[k].id, queue'[i].id)
      BY DEF Dropped, OInv, Ordered
    <2>5. \A k, l \in DOMAIN log : k < l => MayPrecede(log[k].id, log[l].id)
      BY DEF OInv, Ordered
    <2> QED BY <1>2, <2>1, <2>2, <2>3, <2>4, <2>5 DEF Ordered
  <1> QED BY <1>1, <1>3 DEF OInv

\* What the order rests on: two workers with a command and the token are one.
LEMMA HandFacts ==
    ASSUME Ind
    PROVE  /\ \A w \in Workers : hand[w] # None => Busy(w) /\ mine[w] # 0 /\ mine[w] <= nextToken
           /\ \A v, w \in Workers : hand[v] # None /\ mine[v] = token /\ Busy(w) /\ mine[w] = token
                  => v = w
           /\ \A w \in Workers : hand[w] # None /\ retirement # "done" => mine[w] = token
           /\ DOMAIN hand = Threads /\ DOMAIN mine = Threads /\ Workers \subseteq Threads
           /\ queue \in Seq(Command) /\ DOMAIN queue \subseteq Nat
           /\ token \in Nat /\ nextToken \in Nat
           /\ accepted \in Seq(Arrival) /\ log \in Seq(Execution)
  <1>1. /\ queue \in Seq(Command) /\ accepted \in Seq(Arrival) /\ log \in Seq(Execution)
        /\ token \in Nat /\ nextToken \in Nat
        /\ DOMAIN hand = Threads /\ DOMAIN mine = Threads
    BY DEF Ind, TypeInv, TypeOK
  <1>2. DOMAIN queue \subseteq Nat
    BY <1>1
  <1>3. \A w \in Workers : hand[w] # None => Busy(w) /\ pc[w] \in {"gate", "run"} /\ w \in Threads
    BY Distinct DEF Ind, TypeInv, Roles, Busy
  <1>4. \A w \in Workers : hand[w] # None => mine[w] # 0 /\ mine[w] <= nextToken
    BY <1>1, <1>3 DEF Ind, TokensHeld
  <1>5. \A v, w \in Workers : hand[v] # None /\ mine[v] = token /\ Busy(w) /\ mine[w] = token => v = w
    BY <1>3, Distinct DEF Ind, TokensHeld
  <1>6. \A w \in Workers : hand[w] # None /\ retirement # "done" => mine[w] = token
    BY <1>3 DEF Ind, OldTokens
  <1> QED BY <1>1, <1>2, <1>3, <1>4, <1>5, <1>6, Distinct

\* The queue as it was, emptied, or from a command on.
LEMMA QueueLess ==
    ASSUME Ind
    PROVE  /\ queue' = queue => Dropped(0) /\ DOMAIN queue' \subseteq Nat
           /\ queue' = <<>> => Dropped(0) /\ DOMAIN queue' \subseteq Nat
           /\ queue' = Tail(queue) /\ queue # <<>> => Dropped(1) /\ DOMAIN queue' \subseteq Nat
           /\ \A first \in DOMAIN queue : queue' = SubSeq(queue, first, Len(queue)) =>
                  first - 1 \in Nat /\ Dropped(first - 1) /\ DOMAIN queue' \subseteq Nat
  <1>1. queue \in Seq(Command) /\ DOMAIN queue \subseteq Nat
    BY HandFacts
  <1>2. ASSUME queue' = queue
        PROVE  Dropped(0) /\ DOMAIN queue' \subseteq Nat
    <2>1. \A i \in DOMAIN queue : i + 0 = i
      BY <1>1
    <2> QED BY <1>1, <1>2, <2>1 DEF Dropped
  <1>3. ASSUME queue' = <<>>
        PROVE  Dropped(0) /\ DOMAIN queue' \subseteq Nat
    <2>1. DOMAIN queue' = {}
      BY <1>3
    <2> QED BY <2>1 DEF Dropped
  <1>4. ASSUME queue' = Tail(queue), queue # <<>>
        PROVE  Dropped(1) /\ DOMAIN queue' \subseteq Nat
    <2>1. Tail(queue) \in Seq(Command)
      BY <1>1, <1>4, TailFacts
    <2>2. Dropped(1)
      BY <1>1, <1>4, TailFacts DEF Dropped
    <2> QED BY <1>4, <2>1, <2>2
  <1>5. ASSUME NEW first \in DOMAIN queue, queue' = SubSeq(queue, first, Len(queue))
        PROVE  first - 1 \in Nat /\ Dropped(first - 1) /\ DOMAIN queue' \subseteq Nat
    <2>1. first - 1 \in Nat
      BY <1>1, <1>5
    <2>2. queue' \in Seq(Command)
      BY <1>1, <1>5, SuffixFacts
    <2>3. \A i \in DOMAIN queue' : i + (first - 1) = first + i - 1
      BY <1>1, <1>5, <2>2
    <2>4. Dropped(first - 1)
      BY <1>1, <1>5, <2>3, SuffixFacts DEF Dropped
    <2> QED BY <2>1, <2>2, <2>4
  <1> QED BY <1>2, <1>3, <1>4, <1>5

\* The worker takes the head of the queue.
LEMMA PopOrders ==
    ASSUME Ind, OInv, NEW w \in Workers, Pop(w)
    PROVE  OInv'
  <1>1. /\ pc[w] = "pop" /\ token = mine[w] /\ queue # <<>> /\ queue' = Tail(queue)
        /\ UNCHANGED <<retirement, token, mine, accepted, log>>
    BY DEF Pop, sessionVars, ghostVars
  <1>2. Dropped(1) /\ DOMAIN queue' \subseteq Nat
    BY <1>1, QueueLess
  <1>3. CASE UNCHANGED hand
    <2>1. NothingTaken
      BY <1>1, <1>3 DEF NothingTaken
    <2> QED BY <1>1, <1>2, <2>1, LessIsOrdered
  <1>4. CASE hand' = [hand EXCEPT ![w] = Head(queue)]
    <2>1. /\ hand'[w] = queue[1] /\ 1 \in DOMAIN queue
          /\ \A v \in Workers : v # w => hand'[v] = hand[v]
          /\ \A i \in DOMAIN queue' : i + 1 \in DOMAIN queue /\ 1 < i + 1 /\ queue'[i] = queue[i + 1]
      BY <1>1, <1>4, HandFacts, TailFacts
    <2>2. Busy(w)
      BY <1>1 DEF Busy
    <2>3. \A v \in Workers : hand[v] # None /\ mine[v] = token => v = w
      BY <1>1, <2>2, HandFacts
    <2>4. \A a, b : MayPrecede(a, b)' <=> MayPrecede(a, b)
      BY <1>1 DEF MayPrecede, Before
    <2>5. Named'
      <3>1. \A i \in DOMAIN queue' : /\ queue'[i].id \in DOMAIN accepted
                                    /\ queue'[i].kind = accepted[queue'[i].id].kind
        BY <2>1 DEF OInv, Named
      <3>2. \A v \in Workers : hand'[v] # None => /\ hand'[v].id \in DOMAIN accepted
                                               /\ hand'[v].kind = accepted[hand'[v].id].kind
        BY <2>1 DEF OInv, Named
      <3> QED BY <1>1, <3>1, <3>2 DEF OInv, Named
    <2>6. \A i, j \in DOMAIN queue' : i < j => MayPrecede(queue'[i].id, queue'[j].id)
      <3> SUFFICES ASSUME NEW i \in DOMAIN queue', NEW j \in DOMAIN queue', i < j
                   PROVE  MayPrecede(queue'[i].id, queue'[j].id)
        OBVIOUS
      <3>1. i + 1 < j + 1
        BY <1>2
      <3> QED BY <2>1, <3>1 DEF OInv, Ordered
    <2>7. \A v \in Workers : hand'[v] # None /\ mine'[v] = token' =>
              \A i \in DOMAIN queue' : MayPrecede(hand'[v].id, queue'[i].id)
      BY <1>1, <2>1, <2>3 DEF OInv, Ordered
    <2>8. retirement' # "done" => \A v \in Workers : hand'[v] # None =>
              \A k \in DOMAIN log : MayPrecede(log[k].id, hand'[v].id)
      BY <1>1, <2>1 DEF OInv, Ordered
    <2>9. retirement' # "done" =>
              \A k \in DOMAIN log, i \in DOMAIN queue' : MayPrecede(log[k].id, queue'[i].id)
      BY <1>1, <2>1 DEF OInv, Ordered
    <2>10. \A k, l \in DOMAIN log : k < l => MayPrecede(log[k].id, log[l].id)
      BY DEF OInv, Ordered
    <2>11. Ordered'
      BY <1>1, <2>4, <2>6, <2>7, <2>8, <2>9, <2>10 DEF Ordered
    <2> QED BY <2>5, <2>11 DEF OInv
  <1> QED BY <1>3, <1>4 DEF Pop

\* What is executed was in the one hand with the token: it comes after all that
\* was executed and before all that is queued.
LEMMA ExecuteOrders ==
    ASSUME Ind, OInv, NEW w \in Workers, Execute(w)
    PROVE  OInv'
  <1>1. /\ pc[w] = "run" /\ hand' = [hand EXCEPT ![w] = None]
        /\ UNCHANGED <<retirement, token, mine, queue, accepted>>
    BY DEF Execute, sessionVars, queueVars
  <1> DEFINE new == [id |-> hand[w].id, at |-> where, epoch |-> epoch]
  <1>2. log' = Append(log, new) /\ new.id = hand[w].id
    BY DEF Execute
  <1>3. hand[w] # None /\ hand[w] \in Command /\ retirement # "done" /\ Busy(w)
    BY <1>1, Distinct DEF Ind, TypeInv, TypeOK, Roles, Gates, Busy
  <1>4. new \in Execution
    BY <1>3 DEF Command, Execution, Ind, TypeInv, TypeOK
  <1> HIDE DEF new
  <1>5. /\ DOMAIN log' = DOMAIN log \cup {Len(log) + 1}
        /\ \A k \in DOMAIN log : log'[k] = log[k]
        /\ log'[Len(log) + 1].id = hand[w].id
        /\ DOMAIN log = 1..Len(log) /\ Len(log) \in Nat
    BY <1>2, <1>4, AppendFacts, HandFacts
  <1>6. mine[w] = token
    BY <1>3, HandFacts
  <1>7. \A v \in Workers : hand'[v] = IF v = w THEN None ELSE hand[v]
    BY <1>1, HandFacts
  <1>8. \A v \in Workers : hand'[v] = None
    BY <1>3, <1>6, <1>7, HandFacts
  <1>9. \A a, b : MayPrecede(a, b)' <=> MayPrecede(a, b)
    BY <1>1 DEF MayPrecede, Before
  <1>10. Named'
    <2>1. \A k \in DOMAIN log' : log'[k].id \in DOMAIN accepted
      BY <1>3, <1>5 DEF OInv, Named
    <2> QED BY <1>1, <1>8, <2>1 DEF OInv, Named
  <1>11. \A i \in DOMAIN queue : \A k \in DOMAIN log' : MayPrecede(log'[k].id, queue[i].id)
    BY <1>3, <1>5, <1>6 DEF OInv, Ordered
  <1>12. \A k, l \in DOMAIN log' : k < l => MayPrecede(log'[k].id, log'[l].id)
    <2> SUFFICES ASSUME NEW k \in DOMAIN log', NEW l \in DOMAIN log', k < l
                 PROVE  MayPrecede(log'[k].id, log'[l].id)
      OBVIOUS
    <2>1. k \in DOMAIN log
      BY <1>5
    <2>2. CASE l \in DOMAIN log
      BY <1>5, <2>1, <2>2 DEF OInv, Ordered
    <2>3. CASE l = Len(log) + 1
      BY <1>3, <1>5, <2>1, <2>3 DEF OInv, Ordered
    <2> QED BY <1>5, <2>2, <2>3
  <1>13. Ordered'
    <2>1. \A i, j \in DOMAIN queue : i < j => MayPrecede(queue[i].id, queue[j].id)
      BY DEF OInv, Ordered
    <2> QED BY <1>1, <1>8, <1>9, <1>11, <1>12, <2>1 DEF Ordered
  <1> QED BY <1>10, <1>13 DEF OInv

\* The new command has the largest number, or is a move before requests for
\* actors.
LEMMA EnqueueOrders ==
    ASSUME Ind, OInv, Enqueue
    PROVE  OInv'
  <1>1. PICK renewed \in Renewed(hand[Receiver].context), entry \in Command :
            /\ entry.id = Len(accepted) + 1
            /\ \/ /\ queue' \in Placed(renewed.queue, entry)
                  /\ accepted' = Append(accepted, [kind |-> entry.kind,
                        context |-> hand[Receiver].context, epoch |-> hand[Receiver].epoch])
                  /\ \/ /\ token = 0
                        /\ nextToken' = nextToken + 1 /\ token' = nextToken + 1
                        /\ mine' = [mine EXCEPT ![Receiver] = nextToken + 1]
                        /\ pc' = [pc EXCEPT ![Receiver] = "schedule"]
                     \/ /\ token # 0
                        /\ pc' = [pc EXCEPT ![Receiver] = "idle"]
                        /\ UNCHANGED <<token, nextToken, mine>>
               \/ /\ queue' = renewed.queue
                  /\ pc' = [pc EXCEPT ![Receiver] = "refused"]
                  /\ UNCHANGED <<token, nextToken, mine, accepted>>
    BY EnqueueFacts, Zenon DEF Ind
  <1>2. /\ hand' = [hand EXCEPT ![Receiver] = None] /\ UNCHANGED <<retirement, log>>
        /\ hand[Receiver] \in Command
    BY EnqueueFacts DEF Ind, sessionVars
  <1>3. \A w \in Workers : hand'[w] = hand[w]
    BY <1>2, HandFacts, Distinct
  <1>4. \A w \in Workers : hand'[w] # None /\ mine'[w] = token' => mine[w] = token
    <2>1. CASE UNCHANGED <<token, mine>>
      BY <1>3, <2>1
    <2>2. CASE token' = nextToken + 1 /\ mine' = [mine EXCEPT ![Receiver] = nextToken + 1]
      <3>1. \A w \in Workers : mine'[w] = mine[w]
        BY <2>2, HandFacts, Distinct
      <3>2. \A w \in Workers : hand[w] # None => mine[w] # nextToken + 1
        BY HandFacts
      <3> QED BY <1>3, <2>2, <3>1, <3>2
    <2> QED BY <1>1, <2>1, <2>2
  <1> DEFINE r == renewed.queue
  <1>5. /\ r \in Seq(Command)
        /\ \A i \in DOMAIN r : \E k \in DOMAIN queue :
               r[i].id = queue[k].id /\ r[i].kind = queue[k].kind
        /\ \A i, j \in DOMAIN r : i < j =>
               \E k, l \in DOMAIN queue : /\ k < l /\ r[i].id = queue[k].id
                                          /\ r[j].id = queue[l].id
    BY RenewedFacts DEF Ind, TypeInv
  <1> HIDE DEF r
  <1>6. /\ accepted \in Seq(Arrival) /\ DOMAIN accepted = 1..Len(accepted) /\ Len(accepted) \in Nat
        /\ \A a \in DOMAIN accepted : a \in DOMAIN accepted' /\ accepted'[a] = accepted[a]
    <2>1. accepted \in Seq(Arrival)
      BY HandFacts
    <2> DEFINE new == [kind |-> entry.kind, context |-> hand[Receiver].context,
                       epoch |-> hand[Receiver].epoch]
    <2>2. new \in Arrival
      BY <1>2 DEF Command, Arrival
    <2>3. accepted' = accepted \/ accepted' = Append(accepted, new)
      BY <1>1
    <2> HIDE DEF new
    <2> QED BY <2>1, <2>2, <2>3, AppendFacts
  <1>7. \A a, b \in DOMAIN accepted : MayPrecede(a, b) => Before(accepted', a, b)
    BY <1>6 DEF MayPrecede, Before
  <1>8. /\ \A i \in DOMAIN r : /\ r[i].id \in DOMAIN accepted
                              /\ r[i].kind = accepted[r[i].id].kind
        /\ \A i, j \in DOMAIN r : i < j => MayPrecede(r[i].id, r[j].id)
        /\ \A w \in Workers : hand[w] # None => /\ hand[w].id \in DOMAIN accepted
                                              /\ hand[w].kind = accepted[hand[w].id].kind
        /\ \A w \in Workers : hand[w] # None /\ mine[w] = token =>
               \A i \in DOMAIN r : MayPrecede(hand[w].id, r[i].id)
        /\ retirement # "done" =>
               \A k \in DOMAIN log, i \in DOMAIN r : MayPrecede(log[k].id, r[i].id)
        /\ \A k \in DOMAIN log : log[k].id \in DOMAIN accepted
    BY <1>5 DEF OInv, Named, Ordered
  <1>9. SUFFICES
          /\ \A i \in DOMAIN queue' : /\ queue'[i].id \in DOMAIN accepted'
                                     /\ queue'[i].kind = accepted'[queue'[i].id].kind
          /\ \A i, j \in DOMAIN queue' : i < j => Before(accepted', queue'[i].id, queue'[j].id)
          /\ \A w \in Workers : hand[w] # None /\ mine[w] = token =>
                 \A i \in DOMAIN queue' : Before(accepted', hand[w].id, queue'[i].id)
          /\ retirement # "done" =>
                 \A k \in DOMAIN log, i \in DOMAIN queue' : Before(accepted', log[k].id, queue'[i].id)
    <2>1. Named'
      BY <1>2, <1>3, <1>6, <1>8, <1>9 DEF Named
    <2>2. /\ retirement # "done" => \A w \in Workers : hand[w] # None =>
                 \A k \in DOMAIN log : Before(accepted', log[k].id, hand[w].id)
          /\ \A k, l \in DOMAIN log : k < l => Before(accepted', log[k].id, log[l].id)
      BY <1>7, <1>8 DEF OInv, Ordered
    <2>3. Ordered'
      BY <1>2, <1>3, <1>4, <1>9, <2>2 DEF Ordered, MayPrecede
    <2> QED BY <2>1, <2>3 DEF OInv
  <1>10. CASE queue' = r
    BY <1>6, <1>7, <1>8, <1>10
  <1>11. CASE /\ queue' \in Placed(r, entry)
              /\ accepted' = Append(accepted, [kind |-> entry.kind,
                     context |-> hand[Receiver].context, epoch |-> hand[Receiver].epoch])
    <2>1. /\ \A i \in DOMAIN queue' : queue'[i] = entry \/ \E k \in DOMAIN r : queue'[i] = r[k]
          /\ \A i, j \in DOMAIN queue' : i < j =>
                 \/ \E k, l \in DOMAIN r : k < l /\ queue'[i] = r[k] /\ queue'[j] = r[l]
                 \/ queue'[j] = entry /\ \E k \in DOMAIN r : queue'[i] = r[k]
                 \/ /\ queue'[i] = entry /\ entry.kind = "move"
                    /\ \E l \in DOMAIN r : queue'[j] = r[l] /\ r[l].kind = "actors"
      BY <1>5, <1>11, PlacedFacts
    <2>2. entry.id \in DOMAIN accepted' /\ accepted'[entry.id].kind = entry.kind
      <3> DEFINE new == [kind |-> entry.kind, context |-> hand[Receiver].context,
                         epoch |-> hand[Receiver].epoch]
      <3>1. new \in Arrival /\ new.kind = entry.kind
        BY <1>2 DEF Command, Arrival
      <3>2. accepted' = Append(accepted, new)
        BY <1>11
      <3> HIDE DEF new
      <3>3. /\ DOMAIN accepted' = DOMAIN accepted \cup {Len(accepted) + 1}
            /\ accepted'[Len(accepted) + 1] = new
        BY <1>6, <3>1, <3>2, AppendFacts
      <3>4. entry.id = Len(accepted) + 1
        BY <1>1
      <3> QED BY <3>1, <3>3, <3>4
    <2>3. \A a \in DOMAIN accepted : Before(accepted', a, entry.id)
      BY <1>1, <1>6 DEF MayPrecede, Before
    <2>4. \A i \in DOMAIN queue' : /\ queue'[i].id \in DOMAIN accepted'
                                  /\ queue'[i].kind = accepted'[queue'[i].id].kind
      BY <1>6, <1>8, <2>1, <2>2
    <2>5. \A l \in DOMAIN r : entry.kind = "move" /\ r[l].kind = "actors" =>
              Before(accepted', entry.id, r[l].id)
      BY <1>6, <1>8, <2>2 DEF MayPrecede, Before
    <2>6. \A k \in DOMAIN r : Before(accepted', r[k].id, entry.id)
      BY <1>8, <2>3
    <2>7. \A k, l \in DOMAIN r : k < l => Before(accepted', r[k].id, r[l].id)
      BY <1>7, <1>8
    <2>8. \A i, j \in DOMAIN queue' : i < j => Before(accepted', queue'[i].id, queue'[j].id)
      <3> SUFFICES ASSUME NEW i \in DOMAIN queue', NEW j \in DOMAIN queue', i < j
                   PROVE  Before(accepted', queue'[i].id, queue'[j].id)
        OBVIOUS
      <3>1. CASE \E k, l \in DOMAIN r : k < l /\ queue'[i] = r[k] /\ queue'[j] = r[l]
        BY <2>7, <3>1
      <3>2. CASE queue'[j] = entry /\ \E k \in DOMAIN r : queue'[i] = r[k]
        BY <2>6, <3>2
      <3>3. CASE /\ queue'[i] = entry /\ entry.kind = "move"
                 /\ \E l \in DOMAIN r : queue'[j] = r[l] /\ r[l].kind = "actors"
        BY <2>5, <3>3
      <3> QED BY <2>1, <3>1, <3>2, <3>3
    <2>9. \A w \in Workers : hand[w] # None /\ mine[w] = token =>
              \A i \in DOMAIN queue' : Before(accepted', hand[w].id, queue'[i].id)
      BY <1>7, <1>8, <2>1, <2>3
    <2>10. retirement # "done" =>
              \A k \in DOMAIN log, i \in DOMAIN queue' : Before(accepted', log[k].id, queue'[i].id)
      BY <1>7, <1>8, <2>1, <2>3
    <2> QED BY <2>4, <2>8, <2>9, <2>10
  <1> QED BY <1>1, <1>10, <1>11 DEF r

\* The other steps only drop commands.
LEMMA HandOverOrders ==
    ASSUME Ind, OInv, NEW t \in Threads, HandOver(t)
    PROVE  OInv'
  <1>1. UNCHANGED <<retirement, hand, accepted, log>>
    BY DEF HandOver, Schedule, ScheduleFails, RequestRetirement, sessionVars, queueVars, ghostVars
  <1>2. pc[t] \in {"schedule", "refused"} /\ (mine' = mine \/ mine' = [mine EXCEPT ![t] = 0])
    BY DEF HandOver, Schedule, ScheduleFails, RequestRetirement, Leave
  <1>3. \A w \in Workers : hand[w] # None => w # t
    BY <1>2 DEF Ind, TypeInv, Roles
  <1>4. \A w \in Workers : hand[w] # None => mine'[w] = mine[w]
    BY <1>2, <1>3, HandFacts
  <1>5. CASE Schedule(t) \/ RequestRetirement(t)
    <2>1. UNCHANGED <<queue, token>>
      BY <1>5 DEF Schedule, RequestRetirement, queueVars
    <2>2. NothingTaken
      BY <1>1, <1>4, <2>1 DEF NothingTaken
    <2> QED BY <1>1, <2>1, <2>2, QueueLess, LessIsOrdered
  <1>6. CASE ScheduleFails(t)
    <2>1. CASE token = mine[t]
      <3>1. token' = 0 /\ queue' = <<>>
        BY <1>6, <2>1 DEF ScheduleFails
      <3>2. NothingTaken
        BY <1>1, <1>4, <3>1, HandFacts DEF NothingTaken
      <3>3. Dropped(0) /\ DOMAIN queue' \subseteq Nat
        BY <3>1, QueueLess
      <3> QED BY <1>1, <3>2, <3>3, LessIsOrdered
    <2>2. CASE token # mine[t]
      <3>1. UNCHANGED <<queue, token>>
        BY <1>6, <2>2 DEF ScheduleFails
      <3>2. NothingTaken
        BY <1>1, <1>4, <3>1 DEF NothingTaken
      <3> QED BY <1>1, <3>1, <3>2, QueueLess, LessIsOrdered
    <2> QED BY <2>1, <2>2
  <1> QED BY <1>5, <1>6 DEF HandOver

\* A worker's steps: all but a pop and an execution drop commands, or nothing.
LEMMA DrainOrders ==
    ASSUME Ind, OInv, NEW w \in Workers, Drain(w)
    PROVE  OInv'
  <1>1. ASSUME NEW t \in scheduled, Start(w, t)
        PROVE  OInv'
    <2>1. /\ pc[w] = "idle" /\ mine' = [mine EXCEPT ![w] = t]
          /\ UNCHANGED <<retirement, token, queue, hand, accepted, log>>
      BY <1>1 DEF Start, sessionVars, queueVars, ghostVars
    <2>2. hand[w] = None
      BY <2>1 DEF Ind, TypeInv, Roles
    <2>3. NothingTaken
      BY <2>1, <2>2, HandFacts DEF NothingTaken
    <2> QED BY <2>1, <2>3, QueueLess, LessIsOrdered
  <1>2. CASE EndSlice(w)
    <2>1. UNCHANGED <<retirement, token, mine, queue, hand, accepted, log>>
      BY <1>2 DEF EndSlice, sessionVars, queueVars, ghostVars
    <2>2. NothingTaken
      BY <2>1 DEF NothingTaken
    <2> QED BY <2>1, <2>2, QueueLess, LessIsOrdered
  <1>3. CASE TakeGate(w)
    <2>1. /\ UNCHANGED <<retirement, token, mine, queue, accepted, log>>
          /\ hand' = hand \/ hand' = [hand EXCEPT ![w] = None]
      BY <1>3 DEF TakeGate, sessionVars, queueVars, ghostVars
    <2>2. NothingTaken
      BY <2>1, HandFacts DEF NothingTaken
    <2> QED BY <2>1, <2>2, QueueLess, LessIsOrdered
  <1>4. CASE Finish(w)
    <2>1. /\ pc[w] = "finish"
          /\ UNCHANGED <<retirement, hand, accepted, log>>
      BY <1>4 DEF Finish, sessionVars, ghostVars
    <2>2. hand[w] = None
      BY <2>1 DEF Ind, TypeInv, Roles
    <2>3. CASE Leave(w) /\ UNCHANGED <<queue, token, nextToken>>
      <3>1. NothingTaken
        BY <2>1, <2>2, <2>3, HandFacts DEF NothingTaken, Leave
      <3> QED BY <2>1, <2>3, <3>1, QueueLess, LessIsOrdered
    <2>4. CASE queue' = <<>> /\ token' = 0 /\ Leave(w)
      <3>1. NothingTaken
        BY <2>1, <2>2, <2>4, HandFacts DEF NothingTaken, Leave
      <3>2. Dropped(0) /\ DOMAIN queue' \subseteq Nat
        BY <2>4, QueueLess
      <3> QED BY <2>1, <3>1, <3>2, LessIsOrdered
    <2>5. ASSUME NEW first \in DOMAIN queue, queue' = SubSeq(queue, first, Len(queue)), Reserve(w)
          PROVE  OInv'
      <3>1. NothingTaken
        <4>1. token' = nextToken + 1 /\ mine' = [mine EXCEPT ![w] = nextToken + 1]
          BY <2>5 DEF Reserve
        <4>2. \A v \in Workers : hand[v] # None => mine'[v] = mine[v] /\ mine[v] # nextToken + 1
          BY <2>2, <4>1, HandFacts
        <4> QED BY <2>1, <4>1, <4>2 DEF NothingTaken
      <3>2. first - 1 \in Nat /\ Dropped(first - 1) /\ DOMAIN queue' \subseteq Nat
        BY <2>5, QueueLess
      <3> QED BY <2>1, <3>1, <3>2, LessIsOrdered
    <2> QED BY <1>4, <2>3, <2>4, <2>5 DEF Finish
  <1> QED BY <1>1, <1>2, <1>3, <1>4, PopOrders, ExecuteOrders DEF Drain

\* What goes on elsewhere: at most the queue is closed.
LEMMA OtherOrders ==
    ASSUME Ind, OInv, (\E kind \in Kinds : Receive(kind)) \/ World \/ Retire \/ UNCHANGED vars
    PROVE  OInv'
  <1>1. CASE CancelSessionActivity
    <2>1. /\ retirement' = "done" /\ queue' = <<>> /\ token' = 0
          /\ UNCHANGED <<mine, hand, accepted, log>>
      BY <1>1 DEF CancelSessionActivity, threadVars, ghostVars
    <2>2. NothingTaken
      BY <2>1, HandFacts DEF NothingTaken
    <2>3. Dropped(0) /\ DOMAIN queue' \subseteq Nat
      BY <2>1, QueueLess
    <2> QED BY <2>1, <2>2, <2>3, LessIsOrdered
  <1>2. CASE ~CancelSessionActivity
    <2>1. /\ UNCHANGED <<token, mine, queue, accepted, log>>
          /\ retirement = "done" => retirement' = "done"
          /\ hand' = hand \/ \E c : hand' = [hand EXCEPT ![Receiver] = c]
      <3>1. CASE \E kind \in Kinds : Receive(kind)
        BY <3>1 DEF Receive, sessionVars, queueVars, ghostVars
      <3>2. CASE World
        BY <3>2 DEF World, ChangePhase, ChangeMap, StartTransition, EndTransition,
                    sessionVars, queueVars, threadVars, ghostVars
      <3>3. CASE Retire
        BY <1>2, <3>3 DEF Retire, BeginRetirement, RetirementRefused, MarkRetired, FinalSnapshot,
                          queueVars, threadVars, ghostVars
      <3>4. CASE UNCHANGED vars
        BY <3>4 DEF vars, sessionVars, queueVars, threadVars, ghostVars
      <3> QED BY <3>1, <3>2, <3>3, <3>4
    <2>2. \A w \in Workers : hand'[w] = hand[w]
      BY <2>1, HandFacts, Distinct
    <2>3. NothingTaken
      BY <2>1, <2>2 DEF NothingTaken
    <2> QED BY <2>1, <2>3, QueueLess, LessIsOrdered
  <1> QED BY <1>1, <1>2

\* Nothing has been accepted.
LEMMA InitOInv == Init => OInv
  <1> SUFFICES ASSUME Init PROVE OInv
    OBVIOUS
  <1>1. DOMAIN queue = {} /\ DOMAIN log = {}
    BY DEF Init
  <1>2. \A w \in Workers : hand[w] = None
    BY Distinct DEF Init
  <1> QED BY <1>1, <1>2 DEF OInv, Named, Ordered

\* Every step keeps the order.
LEMMA OInvInductive == Ind /\ OInv /\ [Next]_vars => OInv'
  BY EnqueueOrders, HandOverOrders, DrainOrders, OtherOrders DEF Next, ReceiverStep

\* Commands execute in the order of their arrival, a move before requests for
\* actors perhaps, however the drain is cut into slices, whatever tokens are
\* void and whenever the session ends.
THEOREM ExecutionInOrder == Spec => []InputOrder
  <1>1. Ind /\ OInv => InputOrder
    <2> SUFFICES ASSUME Ind, OInv, NEW i \in DOMAIN log, NEW j \in DOMAIN log, i < j,
                        log[i].id > log[j].id
                 PROVE  accepted[log[i].id].kind = "move" /\ accepted[log[j].id].kind = "actors"
      BY DEF InputOrder
    <2>1. log[i].id \in Nat /\ log[j].id \in Nat
      <3>1. DOMAIN accepted \subseteq Nat
        BY HandFacts
      <3> QED BY <3>1 DEF OInv, Named
    <2> QED BY <2>1 DEF OInv, Ordered, MayPrecede, Before
  <1> QED BY <1>1, InitOInv, OInvInductive, InitInd, IndInductive, PTL DEF Spec

-----------------------------------------------------------------------------
(* What is not lost *)

\* A session that is not given up, and no thread is about to give it up.
Live == connected /\ ~failed /\ \A t \in Threads : pc[t] # "refused"

\* Of two moments in the life of the player, b is not before a: on a later visit
\* to a map, or on the same one in no earlier phase.
Since(a, b) ==
    \/ a.epoch < b.epoch
    \/ /\ a.epoch = b.epoch /\ a.context.map = b.context.map
       /\ a.context.phase <= b.context.phase

Now == [context |-> where, epoch |-> epoch]

\* Commands arrive in the order of the moments they are received in, and a
\* player who is leaving has been sent none of this visit.
Arrivals ==
    /\ \A i \in DOMAIN accepted : Since(accepted[i], Now)
    /\ \A i, j \in DOMAIN accepted : i <= j => Since(accepted[i], accepted[j])
    /\ leaving => \A i \in DOMAIN accepted : accepted[i].epoch < epoch
    /\ pc[Receiver] = "enqueue" =>
           /\ Since(hand[Receiver], Now)
           /\ \A i \in DOMAIN accepted : Since(accepted[i], hand[Receiver])
           /\ leaving => hand[Receiver].epoch < epoch

\* A command is what it was when it was accepted; the queue is of one generation.
Carries(c) == c.context = accepted[c.id].context /\ c.epoch = accepted[c.id].epoch

Carried ==
    /\ \A i \in DOMAIN queue : Carries(queue[i]) /\ queue[i].generation = generation
    /\ \A w \in Workers : hand[w] # None => Carries(hand[w])

\* Where a command is.
Done(m)      == \E k \in DOMAIN log : log[k].id = m
Held(m)      == \E w \in Workers : hand[w] # None /\ hand[w].id = m
Ahead(m, i)  == \E j \in DOMAIN queue : j < i /\ queue[j].id = m
Found(m)     == Waiting(m) \/ Done(m)

Fresh(id)    == accepted[id].context = where /\ accepted[id].epoch = epoch
FreshMoves   == {m \in DOMAIN accepted : accepted[m].kind = "move" /\ Fresh(m)}
Follows(id)  == accepted[id].kind \in {"cast", "durable"} /\ MovesBefore(id) # {}
Latest(S, m)   == m \in S /\ \A x \in S : x <= m

\* A session that is not given up has the context of the last command, every
\* command that outlives phases, and the last move before what follows it.
LastContext == accepted # <<>> => queueContext = accepted[Len(accepted)].context
DurableFound ==
    \A id \in DOMAIN accepted :
        ~SpatialInput(accepted[id].kind) /\ accepted[id].epoch = epoch => Found(id)
LatestFound == FreshMoves # {} => \E m : Latest(FreshMoves, m) /\ Found(m)
QueueSees ==
    \A i \in DOMAIN queue : Follows(queue[i].id) /\ Fresh(queue[i].id) =>
        \E m : /\ Latest(MovesBefore(queue[i].id), m)
               /\ Done(m) \/ Held(m) \/ Ahead(m, i)
HandSees ==
    \A w \in Workers : hand[w] # None /\ Follows(hand[w].id) /\ Fresh(hand[w].id) =>
        \E m : Latest(MovesBefore(hand[w].id), m) /\ Done(m)
LogSees ==
    \A k \in DOMAIN log :
        LET id == log[k].id IN
        Follows(id) /\ log[k].at = accepted[id].context /\ log[k].epoch = accepted[id].epoch =>
            \E j \in DOMAIN log : j < k /\ Latest(MovesBefore(id), log[j].id)

Kept == LastContext /\ DurableFound /\ LatestFound /\ QueueSees /\ HandSees /\ LogSees

KInv == Arrivals /\ (Live => Carried /\ Kept)

\* What the records of the module are made of.
LEMMA Fields ==
    ASSUME TypeInv
    PROVE  /\ accepted \in Seq(Arrival) /\ DOMAIN accepted = 1..Len(accepted) /\ Len(accepted) \in Nat
           /\ \A i \in DOMAIN accepted : /\ accepted[i].epoch \in Nat
                                         /\ accepted[i].context \in Contexts
                                         /\ accepted[i].context.phase \in Nat
           /\ \A c \in Command : c.epoch \in Nat /\ c.context \in Contexts /\ c.context.phase \in Nat
           /\ where \in Contexts /\ where.phase \in Nat /\ epoch \in Nat
           /\ Now.context = where /\ Now.epoch = epoch
  <1>1. /\ accepted \in Seq(Arrival) /\ where \in Contexts /\ epoch \in Nat
    BY DEF TypeInv, TypeOK
  <1>2. \A c \in Contexts : c.phase \in Nat
    BY DEF Contexts
  <1>3. \A a \in Arrival : a.epoch \in Nat /\ a.context \in Contexts
    BY DEF Arrival
  <1>4. \A i \in DOMAIN accepted : accepted[i] \in Arrival
    BY <1>1
  <1>5. \A c \in Command : c.epoch \in Nat /\ c.context \in Contexts
    BY DEF Command
  <1>6. Now.context = where /\ Now.epoch = epoch
    BY DEF Now
  <1>7. DOMAIN accepted = 1..Len(accepted) /\ Len(accepted) \in Nat
    BY <1>1
  <1> QED BY <1>1, <1>2, <1>3, <1>4, <1>5, <1>6, <1>7

\* A session given up stays given up: the only retirement that is taken back
\* fails the session.
LEMMA GivenUpForGood ==
    ASSUME Ind, [Next]_vars, Live'
    PROVE  Live
  <1>1. connected
    <2>1. connected' => connected \/ failed'
      BY DEF Next, vars, ReceiverStep, HandOver, Drain, World, Retire, Receive, Enqueue, Schedule,
             ScheduleFails, RequestRetirement, Start, Pop, EndSlice, TakeGate, Execute, Finish,
             ChangePhase, ChangeMap, StartTransition, EndTransition, BeginRetirement,
             RetirementRefused, MarkRetired, FinalSnapshot, CancelSessionActivity, sessionVars
    <2> QED BY <2>1 DEF Live
  <1>2. ~failed
    <2>1. failed => failed'
      BY DEF Next, vars, ReceiverStep, HandOver, Drain, World, Retire, Receive, Enqueue, Schedule,
             ScheduleFails, RequestRetirement, Start, Pop, EndSlice, TakeGate, Execute, Finish,
             ChangePhase, ChangeMap, StartTransition, EndTransition, BeginRetirement,
             RetirementRefused, MarkRetired, FinalSnapshot, CancelSessionActivity, sessionVars
    <2> QED BY <2>1 DEF Live
  <1>3. ASSUME NEW t \in Threads, pc[t] = "refused"
        PROVE  FALSE
    <2>1. pc'[t] # "refused" /\ DOMAIN pc = Threads
      BY DEF Live, Ind, TypeInv, TypeOK
    <2>2. ASSUME NEW u \in Threads, pc[u] # "refused", NEW p, pc' = [pc EXCEPT ![u] = p]
          PROVE  FALSE
      BY <1>3, <2>1, <2>2
    <2>3. CASE UNCHANGED pc
      BY <1>3, <2>1, <2>3
    <2>4. CASE ReceiverStep
      <3>1. pc[Receiver] # "refused" /\ \E p : pc' = [pc EXCEPT ![Receiver] = p]
        BY <2>4 DEF ReceiverStep, Receive, Enqueue, Reserve
      <3> QED BY <2>2, <3>1, Distinct
    <2>5. ASSUME NEW u \in Threads, HandOver(u)
          PROVE  FALSE
      <3>1. CASE Schedule(u) \/ ScheduleFails(u)
        <4>1. pc[u] # "refused" /\ \E p : pc' = [pc EXCEPT ![u] = p]
          BY <3>1 DEF Schedule, ScheduleFails, Leave
        <4> QED BY <2>2, <4>1
      <3>2. CASE RequestRetirement(u)
        <4>1. failed' \/ retired
          BY <3>2 DEF RequestRetirement
        <4>2. retired => ~connected
          BY DEF Ind, Gates
        <4> QED BY <1>1, <4>1, <4>2 DEF Live
      <3> QED BY <2>5, <3>1, <3>2 DEF HandOver
    <2>6. ASSUME NEW w \in Workers, Drain(w)
          PROVE  FALSE
      <3>1. pc[w] # "refused" /\ (UNCHANGED pc \/ \E p : pc' = [pc EXCEPT ![w] = p])
        BY <2>6 DEF Drain, Start, Pop, EndSlice, TakeGate, Execute, Finish, Reserve, Leave
      <3> QED BY <2>2, <2>3, <3>1, Distinct
    <2>7. CASE World \/ Retire \/ UNCHANGED vars
      BY <2>3, <2>7 DEF World, ChangePhase, ChangeMap, StartTransition, EndTransition, Retire,
           BeginRetirement, RetirementRefused, MarkRetired, FinalSnapshot, CancelSessionActivity,
           vars, threadVars
    <2> QED BY <2>4, <2>5, <2>6, <2>7 DEF Next
  <1> QED BY <1>1, <1>2, <1>3 DEF Live

\* Moments are ordered.
LEMMA SinceOrder ==
    ASSUME NEW a, NEW b, NEW c, a.epoch \in Nat, b.epoch \in Nat, c.epoch \in Nat,
           a.context.phase \in Nat, b.context.phase \in Nat, c.context.phase \in Nat
    PROVE  /\ Since(a, a)
           /\ Since(a, b) /\ Since(b, c) => Since(a, c)
  BY DEF Since

\* A command received now is not before one received earlier.
LEMMA ReceiveArrives ==
    ASSUME Ind, Arrivals, NEW kind \in Kinds, Receive(kind)
    PROVE  Arrivals'
  <1> DEFINE new == [id |-> Len(accepted) + 1, kind |-> kind, context |-> where,
                     generation |-> generation, epoch |-> epoch]
  <1>1. /\ UNCHANGED <<accepted, where, epoch, leaving>> /\ ~leaving
        /\ hand' = [hand EXCEPT ![Receiver] = new]
    BY DEF Receive, IsCurrent, worldVars, ghostVars
  <1>2. hand'[Receiver] = new
    BY <1>1, HandFacts, Distinct
  <1>3. hand'[Receiver].epoch = Now.epoch /\ hand'[Receiver].context = Now.context
    BY <1>2 DEF Now
  <1> HIDE DEF new
  <1>4. Now' = Now /\ Now.epoch \in Nat /\ Now.context.phase \in Nat
    BY <1>1, Fields DEF Now, Ind
  <1>5. Since(hand'[Receiver], Now')
    BY <1>3, <1>4 DEF Since
  <1>6. \A i \in DOMAIN accepted : Since(accepted[i], hand'[Receiver])
    BY <1>3 DEF Arrivals, Since
  <1> QED BY <1>1, <1>4, <1>5, <1>6 DEF Arrivals

\* What Enqueue does to a session that is not given up.
LEMMA EnqueueAdds ==
    ASSUME Ind, Enqueue, Live'
    PROVE  \E renewed \in Renewed(hand[Receiver].context), entry \in Command :
               /\ entry.id = Len(accepted) + 1 /\ entry.kind = hand[Receiver].kind
               /\ entry.context = hand[Receiver].context /\ entry.epoch = hand[Receiver].epoch
               /\ entry.generation = generation' /\ generation' = renewed.generation
               /\ queue' \in Placed(renewed.queue, entry)
               /\ accepted' = Append(accepted, [kind |-> entry.kind, context |-> entry.context,
                                               epoch |-> entry.epoch])
  <1> DEFINE input == hand[Receiver]
  <1>1. input \in Command /\ input.id = Len(accepted) + 1
    BY DEF Ind, TypeInv, Roles, Enqueue
  <1>2. PICK renewed \in Renewed(input.context) :
            /\ generation' = renewed.generation
            /\ \/ /\ queue' \in Placed(renewed.queue, [input EXCEPT !.generation = renewed.generation])
                  /\ accepted' = Append(accepted, [kind |-> input.kind, context |-> input.context,
                                                  epoch |-> input.epoch])
               \/ pc' = [pc EXCEPT ![Receiver] = "refused"]
    BY Zenon DEF Enqueue
  <1>3. renewed.generation \in Nat
    BY <1>2, RenewedFacts DEF Ind, TypeInv
  <1> DEFINE entry == [input EXCEPT !.generation = renewed.generation]
  <1>4. /\ entry \in Command /\ entry.id = input.id /\ entry.kind = input.kind
        /\ entry.context = input.context
    BY <1>1, <1>3, StampedFacts
  <1>5. entry.epoch = input.epoch /\ entry.generation = renewed.generation
    BY <1>1, <1>3 DEF Command
  <1>6. pc' # [pc EXCEPT ![Receiver] = "refused"]
    BY Distinct DEF Live, Ind, TypeInv, TypeOK
  <1> HIDE DEF entry
  <1>7. /\ queue' \in Placed(renewed.queue, entry)
        /\ accepted' = Append(accepted, [kind |-> entry.kind, context |-> entry.context,
                                        epoch |-> entry.epoch])
    BY <1>2, <1>4, <1>5, <1>6, Zenon DEF entry
  <1> QED BY <1>1, <1>2, <1>4, <1>5, <1>7, Zenon

\* The command that is queued is the latest.
LEMMA EnqueueArrives ==
    ASSUME Ind, Arrivals, Enqueue
    PROVE  Arrivals'
  <1>1. /\ pc[Receiver] = "enqueue" /\ hand[Receiver] \in Command
        /\ UNCHANGED <<where, epoch, leaving>>
        /\ pc'[Receiver] # "enqueue"
        /\ \/ accepted' = accepted
           \/ \E kind \in Kinds : accepted' = Append(accepted,
                  [kind |-> kind, context |-> hand[Receiver].context, epoch |-> hand[Receiver].epoch])
    <2>1. /\ pc[Receiver] = "enqueue" /\ hand[Receiver] \in Command
          /\ UNCHANGED <<where, epoch, leaving>>
      BY EnqueueFacts DEF Ind, worldVars
    <2>2. \E p \in {"schedule", "idle", "refused"} : pc' = [pc EXCEPT ![Receiver] = p]
      BY DEF Enqueue, Reserve
    <2>3. pc'[Receiver] # "enqueue"
      BY <2>2, Distinct DEF Ind, TypeInv, TypeOK
    <2>4. hand[Receiver].kind \in Kinds
      BY <2>1 DEF Command
    <2>5. \/ accepted' = accepted
          \/ accepted' = Append(accepted, [kind |-> hand[Receiver].kind,
                 context |-> hand[Receiver].context, epoch |-> hand[Receiver].epoch])
      BY Zenon DEF Enqueue
    <2> QED BY <2>1, <2>3, <2>4, <2>5
  <1>2. Now' = Now
    BY <1>1 DEF Now
  <1>3. CASE accepted' = accepted
    BY <1>1, <1>2, <1>3 DEF Arrivals
  <1>4. ASSUME NEW kind \in Kinds,
               accepted' = Append(accepted,
                  [kind |-> kind, context |-> hand[Receiver].context, epoch |-> hand[Receiver].epoch])
        PROVE  Arrivals'
    <2> DEFINE new == [kind |-> kind, context |-> hand[Receiver].context,
                       epoch |-> hand[Receiver].epoch]
    <2>1. new \in Arrival
      BY <1>1, <1>4 DEF Arrival, Command
    <2>2. new.context = hand[Receiver].context /\ new.epoch = hand[Receiver].epoch
      OBVIOUS
    <2>3. accepted' = Append(accepted, new)
      BY <1>4
    <2> HIDE DEF new
    <2>4. /\ accepted \in Seq(Arrival) /\ DOMAIN accepted = 1..Len(accepted) /\ Len(accepted) \in Nat
      BY Fields DEF Ind
    <2>5. /\ DOMAIN accepted' = DOMAIN accepted \cup {Len(accepted) + 1}
          /\ \A i \in DOMAIN accepted : accepted'[i] = accepted[i]
          /\ accepted'[Len(accepted) + 1] = new
      BY <2>1, <2>3, <2>4, AppendFacts
    <2>6. /\ Since(new, Now) /\ \A i \in DOMAIN accepted : Since(accepted[i], new)
          /\ leaving => new.epoch < epoch
      BY <1>1, <2>2 DEF Arrivals, Since
    <2>7. Since(new, new)
      <3>1. new.epoch \in Nat /\ new.context.phase \in Nat
        BY <2>1 DEF Arrival, Contexts
      <3> QED BY <3>1 DEF Since
    <2>8. \A i, j \in DOMAIN accepted' : i <= j => Since(accepted'[i], accepted'[j])
      <3> SUFFICES ASSUME NEW i \in DOMAIN accepted', NEW j \in DOMAIN accepted', i <= j
                   PROVE  Since(accepted'[i], accepted'[j])
        OBVIOUS
      <3>1. CASE j \in DOMAIN accepted
        <4>1. i \in DOMAIN accepted
          BY <2>4, <2>5, <3>1
        <4> QED BY <2>5, <3>1, <4>1 DEF Arrivals
      <3>2. CASE j = Len(accepted) + 1
        BY <2>5, <2>6, <2>7, <3>2
      <3> QED BY <2>5, <3>1, <3>2
    <2>9. \A i \in DOMAIN accepted' : /\ Since(accepted'[i], Now')
                                      /\ leaving' => accepted'[i].epoch < epoch'
      <3> SUFFICES ASSUME NEW i \in DOMAIN accepted'
                   PROVE  Since(accepted'[i], Now) /\ (leaving => accepted'[i].epoch < epoch)
        BY <1>1, <1>2
      <3>1. CASE i \in DOMAIN accepted
        BY <2>5, <3>1 DEF Arrivals
      <3>2. CASE i = Len(accepted) + 1
        BY <2>5, <2>6, <3>2
      <3> QED BY <2>5, <3>1, <3>2
    <2>10. pc'[Receiver] # "enqueue"
      BY <1>1
    <2>11. \A i \in DOMAIN accepted' : Since(accepted'[i], Now')
      BY <2>9
    <2>12. leaving' => \A i \in DOMAIN accepted' : accepted'[i].epoch < epoch'
      BY <2>9
    <2> QED BY <2>8, <2>10, <2>11, <2>12, Zenon DEF Arrivals
  <1> QED BY <1>1, <1>3, <1>4

\* The player goes on.
LEMMA WorldArrives ==
    ASSUME Ind, Arrivals, World
    PROVE  Arrivals'
  <1>1. UNCHANGED <<accepted, pc, hand>>
    BY DEF World, ChangePhase, ChangeMap, StartTransition, EndTransition, threadVars, ghostVars
  <1>2. pc[Receiver] = "enqueue" => hand[Receiver] \in Command
    BY DEF Ind, TypeInv, Roles
  <1>3. \A a : a.epoch \in Nat /\ a.context.phase \in Nat /\ Since(a, Now) =>
            Since(a, Now') /\ (leaving' /\ (leaving => a.epoch < epoch) => a.epoch < epoch')
    <2> SUFFICES ASSUME NEW a, a.epoch \in Nat, a.context.phase \in Nat, Since(a, Now)
                 PROVE  Since(a, Now') /\ (leaving' /\ (leaving => a.epoch < epoch) => a.epoch < epoch')
      OBVIOUS
    <2>1. where.phase \in Nat /\ epoch \in Nat /\ where \in Contexts
      BY Fields DEF Ind
    <2>2. a.epoch < epoch \/ (a.epoch = epoch /\ a.context.map = where.map /\ a.context.phase <= where.phase)
      BY DEF Since, Now
    <2>3. SUFFICES /\ \/ a.epoch < epoch'
                      \/ a.epoch = epoch' /\ a.context.map = where'.map /\ a.context.phase <= where'.phase
                   /\ leaving' /\ (leaving => a.epoch < epoch) => a.epoch < epoch'
      BY DEF Since, Now
    <2>4. CASE ChangePhase
      <3>1. where' = [where EXCEPT !.phase = @ + 1] /\ epoch' = epoch /\ leaving' = leaving
        BY <2>4 DEF ChangePhase
      <3>2. where'.map = where.map /\ where'.phase = where.phase + 1
        BY <2>1, <3>1 DEF Contexts
      <3> QED BY <2>1, <2>2, <3>1, <3>2
    <2>5. CASE epoch' = epoch + 1
      BY <2>1, <2>2, <2>5
    <2>6. CASE EndTransition
      BY <2>2, <2>6 DEF EndTransition
    <2> QED BY <2>4, <2>5, <2>6 DEF World, ChangeMap, StartTransition
  <1>4. \A i \in DOMAIN accepted : accepted[i].epoch \in Nat /\ accepted[i].context.phase \in Nat
    BY Fields DEF Ind
  <1>5. \A i \in DOMAIN accepted : /\ Since(accepted[i], Now')
                                   /\ leaving' => accepted[i].epoch < epoch'
    BY <1>3, <1>4 DEF Arrivals
  <1>6. pc[Receiver] = "enqueue" => /\ Since(hand[Receiver], Now')
                                    /\ leaving' => hand[Receiver].epoch < epoch'
    <2>1. pc[Receiver] = "enqueue" => /\ hand[Receiver].epoch \in Nat
                                      /\ hand[Receiver].context.phase \in Nat
      BY <1>2, Fields DEF Ind
    <2> QED BY <1>3, <2>1 DEF Arrivals
  <1> QED BY <1>1, <1>5, <1>6 DEF Arrivals

\* No other step receives a command or moves the player.
LEMMA ArrivalsKept == Ind /\ Arrivals /\ [Next]_vars => Arrivals'
  <1> SUFFICES ASSUME Ind, Arrivals, [Next]_vars PROVE Arrivals'
    OBVIOUS
  <1>1. ASSUME UNCHANGED <<accepted, where, epoch, leaving>>,
               pc'[Receiver] = "enqueue" => pc[Receiver] = "enqueue" /\ hand'[Receiver] = hand[Receiver]
        PROVE  Arrivals'
    <2>1. Now' = Now
      BY <1>1 DEF Now
    <2> QED BY <1>1, <2>1 DEF Arrivals
  <1>2. DOMAIN pc = Threads /\ DOMAIN hand = Threads
    BY DEF Ind, TypeInv, TypeOK
  <1>3. ASSUME NEW t \in Threads, HandOver(t)
        PROVE  Arrivals'
    <2>1. /\ UNCHANGED <<accepted, where, epoch, leaving, hand>>
          /\ \E p \in {"idle", "refused"} : pc' = [pc EXCEPT ![t] = p]
      BY <1>3 DEF HandOver, Schedule, ScheduleFails, RequestRetirement, Leave, worldVars, ghostVars
    <2> QED BY <1>1, <1>2, <2>1
  <1>4. ASSUME NEW w \in Workers, Drain(w)
        PROVE  Arrivals'
    <2>1. UNCHANGED <<accepted, where, epoch, leaving>>
      BY <1>4 DEF Drain, Start, Pop, EndSlice, TakeGate, Execute, Finish, worldVars, ghostVars
    <2>2. pc' = pc \/ \E p : pc' = [pc EXCEPT ![w] = p]
      BY <1>4 DEF Drain, Start, Pop, EndSlice, TakeGate, Execute, Finish, Leave, Reserve
    <2>3. hand' = hand \/ \E c : hand' = [hand EXCEPT ![w] = c]
      BY <1>4 DEF Drain, Start, Pop, EndSlice, TakeGate, Execute, Finish
    <2>4. pc'[Receiver] = pc[Receiver] /\ hand'[Receiver] = hand[Receiver]
      BY <1>2, <2>2, <2>3, Distinct
    <2> QED BY <1>1, <2>1, <2>4
  <1>5. CASE Retire \/ UNCHANGED vars
    <2>1. UNCHANGED <<accepted, where, epoch, leaving, pc, hand>>
      BY <1>5 DEF Retire, BeginRetirement, RetirementRefused, MarkRetired, FinalSnapshot,
           CancelSessionActivity, vars, worldVars, threadVars, ghostVars
    <2> QED BY <1>1, <2>1
  <1> QED BY <1>3, <1>4, <1>5, ReceiveArrives, EnqueueArrives, WorldArrives DEF Next, ReceiverStep

\* A command that is dropped when its turn comes.
Stale(c) == ~IsCurrent(c.kind, c.context)

\* A step that accepts nothing: the first n commands leave the queue and each is
\* stale or in a hand, what leaves a hand is stale or executed, and where the
\* player is now, no other visit and phase has come back.
Passes(n) ==
    /\ UNCHANGED <<accepted, queueContext, generation>>
    /\ Dropped(n) /\ DOMAIN queue' \subseteq Nat
    /\ \A i \in DOMAIN queue :
           IF i > n THEN i - n \in DOMAIN queue'
           ELSE Stale(queue[i]) \/ \E w \in Workers : hand'[w] = queue[i]
    /\ \A w \in Workers :
           \/ hand[w] = None \/ Stale(hand[w]) \/ hand'[w] = hand[w]
           \/ \E k \in DOMAIN log' : log'[k].id = hand[w].id
    /\ \A w \in Workers : hand'[w] # None =>
           hand'[w] = hand[w] \/ \E i \in DOMAIN queue : hand'[w] = queue[i]
    /\ \A k \in DOMAIN log : k \in DOMAIN log' /\ log'[k] = log[k]
    /\ \A id \in DOMAIN accepted :
           /\ accepted[id].epoch = epoch' => accepted[id].epoch = epoch
           /\ Fresh(id)' => Fresh(id)

\* A command of this visit that a change of phase does not touch, or of this
\* phase of it, is not stale.
LEMMA NotStale ==
    ASSUME Ind, Arrivals, Live, NEW c, c.id \in DOMAIN accepted, c.kind = accepted[c.id].kind,
           Carries(c),
           (~SpatialInput(c.kind) /\ accepted[c.id].epoch = epoch) \/ Fresh(c.id)
    PROVE  ~Stale(c)
  <1>1. connected /\ ~retired /\ ~failed
    BY DEF Live, Ind, Gates
  <1>2. accepted[c.id].epoch = epoch /\ accepted[c.id].epoch \in Nat
    BY Fields DEF Fresh, Ind
  <1>3. ~leaving
    BY <1>2 DEF Arrivals
  <1>4. accepted[c.id].context.map = where.map
    <2>1. Since(accepted[c.id], Now) /\ Now.epoch = epoch /\ Now.context = where
      BY Fields DEF Arrivals, Ind
    <2> QED BY <1>2, <2>1 DEF Since
  <1>5. c.context = accepted[c.id].context
    BY DEF Carries
  <1>6. CASE ~SpatialInput(c.kind)
    BY <1>1, <1>3, <1>4, <1>5, <1>6 DEF Stale, IsCurrent
  <1>7. CASE SpatialInput(c.kind)
    BY <1>1, <1>3, <1>5, <1>7 DEF Stale, IsCurrent, Fresh
  <1> QED BY <1>6, <1>7

\* What stays behind the first n commands.
LEMMA Behind ==
    ASSUME Ind
    PROVE  /\ queue' = queue => Dropped(0) /\ DOMAIN queue' \subseteq Nat
                                /\ \A i \in DOMAIN queue : i > 0 /\ i - 0 \in DOMAIN queue'
           /\ queue' = Tail(queue) /\ queue # <<>> =>
                  /\ Dropped(1) /\ DOMAIN queue' \subseteq Nat
                  /\ \A i \in DOMAIN queue : IF i > 1 THEN i - 1 \in DOMAIN queue' ELSE i = 1
           /\ \A first \in DOMAIN queue : queue' = SubSeq(queue, first, Len(queue)) =>
                  /\ first - 1 \in Nat /\ Dropped(first - 1) /\ DOMAIN queue' \subseteq Nat
                  /\ \A i \in DOMAIN queue : IF i > first - 1 THEN i - (first - 1) \in DOMAIN queue'
                                             ELSE i < first
  <1>1. queue \in Seq(Command) /\ DOMAIN queue = 1..Len(queue) /\ Len(queue) \in Nat
    BY HandFacts
  <1>2. queue' = queue => \A i \in DOMAIN queue : i > 0 /\ i - 0 \in DOMAIN queue'
    BY <1>1
  <1>3. ASSUME queue' = Tail(queue), queue # <<>>
        PROVE  \A i \in DOMAIN queue : IF i > 1 THEN i - 1 \in DOMAIN queue' ELSE i = 1
    <2>1. DOMAIN queue' = 1..(Len(queue) - 1)
      BY <1>1, <1>3
    <2> QED BY <1>1, <2>1
  <1>4. ASSUME NEW first \in DOMAIN queue, queue' = SubSeq(queue, first, Len(queue))
        PROVE  \A i \in DOMAIN queue : IF i > first - 1 THEN i - (first - 1) \in DOMAIN queue'
                                       ELSE i < first
    <2>1. DOMAIN queue' = 1..(Len(queue) - first + 1)
      BY <1>1, <1>4
    <2> QED BY <1>1, <2>1
  <1> QED BY <1>2, <1>3, <1>4, QueueLess

\* Every step but Enqueue passes commands on, in a session not given up.
LEMMA StepPasses ==
    ASSUME Ind, Arrivals, Carried, Live, Live', [Next]_vars, ~Enqueue
    PROVE  \E n \in Nat : Passes(n)
  <1>0. DOMAIN hand = Threads /\ DOMAIN pc = Threads /\ Workers \subseteq Threads
    BY HandFacts DEF Ind, TypeInv, TypeOK
  <1>1. ASSUME UNCHANGED <<accepted, queueContext, generation, queue, log>>,
               \A w \in Workers : hand'[w] = hand[w],
               \A id \in DOMAIN accepted :
                   /\ accepted[id].epoch = epoch' => accepted[id].epoch = epoch
                   /\ Fresh(id)' => Fresh(id)
        PROVE  Passes(0)
    <2>1. /\ Dropped(0) /\ DOMAIN queue' \subseteq Nat
          /\ \A i \in DOMAIN queue : i > 0 /\ i - 0 \in DOMAIN queue'
      BY <1>1, Behind
    <2> QED BY <1>1, <2>1 DEF Passes
  <1>2. ASSUME UNCHANGED <<accepted, where, epoch>>
        PROVE  \A id \in DOMAIN accepted :
                   /\ accepted[id].epoch = epoch' => accepted[id].epoch = epoch
                   /\ Fresh(id)' => Fresh(id)
    BY <1>2 DEF Fresh
  <1>3. ASSUME NEW kind \in Kinds, Receive(kind)
        PROVE  Passes(0)
    <2>1. /\ UNCHANGED <<accepted, queueContext, generation, queue, log, where, epoch>>
          /\ \E c : hand' = [hand EXCEPT ![Receiver] = c]
      BY <1>3 DEF Receive, worldVars, queueVars, ghostVars
    <2>2. \A w \in Workers : hand'[w] = hand[w]
      BY <1>0, <2>1, Distinct
    <2> QED BY <1>1, <1>2, <2>1, <2>2
  <1>4. ASSUME NEW t \in Threads, HandOver(t)
        PROVE  Passes(0)
    <2>1. CASE ScheduleFails(t)
      BY <1>0, <2>1 DEF ScheduleFails, Live
    <2>2. CASE Schedule(t) \/ RequestRetirement(t)
      <3>1. UNCHANGED <<accepted, queueContext, generation, queue, log, where, epoch, hand>>
        BY <2>2 DEF Schedule, RequestRetirement, worldVars, queueVars, ghostVars
      <3> QED BY <1>1, <1>2, <3>1
    <2> QED BY <1>4, <2>1, <2>2 DEF HandOver
  <1>5. CASE World
    <2>1. UNCHANGED <<accepted, queueContext, generation, queue, log, hand>>
      BY <1>5 DEF World, ChangePhase, ChangeMap, StartTransition, EndTransition,
                  queueVars, threadVars, ghostVars
    <2>2. \A id \in DOMAIN accepted :
              /\ accepted[id].epoch = epoch' => accepted[id].epoch = epoch
              /\ Fresh(id)' => Fresh(id)
      <3> SUFFICES ASSUME NEW id \in DOMAIN accepted
                   PROVE  /\ accepted[id].epoch = epoch' => accepted[id].epoch = epoch
                          /\ Fresh(id)' => Fresh(id)
        OBVIOUS
      <3>1. /\ accepted[id].epoch \in Nat /\ epoch \in Nat /\ where.phase \in Nat
            /\ where \in Contexts /\ accepted[id].context.phase \in Nat
        BY Fields DEF Ind
      <3>2. /\ accepted[id].epoch <= epoch
            /\ accepted[id].epoch = epoch => accepted[id].context.phase <= where.phase
        <4>1. Since(accepted[id], Now) /\ Now.epoch = epoch /\ Now.context = where
          BY Fields DEF Arrivals, Ind
        <4> QED BY <3>1, <4>1 DEF Since
      <3>3. CASE ChangePhase
        <4>1. where' = [where EXCEPT !.phase = @ + 1] /\ epoch' = epoch
          BY <3>3 DEF ChangePhase
        <4>2. where'.phase = where.phase + 1
          BY <3>1, <4>1 DEF Contexts
        <4>3. ~Fresh(id)'
          <5>1. Fresh(id)' => accepted[id].context = where' /\ accepted[id].epoch = epoch
            BY <2>1, <4>1 DEF Fresh
          <5>2. accepted[id].epoch = epoch => accepted[id].context.phase # where'.phase
            BY <3>1, <3>2, <4>2
          <5> QED BY <5>1, <5>2
        <4> QED BY <4>1, <4>3
      <3>4. CASE epoch' = epoch + 1
        BY <2>1, <3>1, <3>2, <3>4 DEF Fresh
      <3>5. CASE EndTransition
        BY <2>1, <3>5 DEF EndTransition, Fresh
      <3> QED BY <1>5, <3>3, <3>4, <3>5 DEF World, ChangeMap, StartTransition
    <2> QED BY <1>1, <2>1, <2>2
  <1>6. CASE Retire
    <2>1. ~CancelSessionActivity
      BY DEF CancelSessionActivity, Live, Ind, Gates
    <2>2. UNCHANGED <<accepted, queueContext, generation, queue, log, where, epoch, hand>>
      BY <1>6, <2>1 DEF Retire, BeginRetirement, RetirementRefused, MarkRetired, FinalSnapshot,
           worldVars, queueVars, threadVars, ghostVars
    <2> QED BY <1>1, <1>2, <2>2
  <1>7. CASE UNCHANGED vars
    <2>1. UNCHANGED <<accepted, queueContext, generation, queue, log, where, epoch, hand>>
      BY <1>7 DEF vars, worldVars, queueVars, threadVars, ghostVars
    <2> QED BY <1>1, <1>2, <2>1
  <1>8. ASSUME NEW w \in Workers, Drain(w)
        PROVE  \E n \in Nat : Passes(n)
    <2>0. UNCHANGED <<accepted, queueContext, generation, where, epoch>>
      BY <1>8 DEF Drain, Start, Pop, EndSlice, TakeGate, Execute, Finish, worldVars, queueVars,
                  ghostVars
    <2>1. CASE (\E t \in scheduled : Start(w, t)) \/ EndSlice(w)
      <3>1. UNCHANGED <<queue, log, hand>>
        BY <2>1 DEF Start, EndSlice, queueVars, ghostVars
      <3> QED BY <1>1, <1>2, <2>0, <3>1
    <2>2. CASE Pop(w)
      <3>1. pc[w] = "pop" /\ queue # <<>> /\ queue' = Tail(queue) /\ log' = log
        BY <2>2 DEF Pop, ghostVars
      <3>2. Head(queue) = queue[1] /\ 1 \in DOMAIN queue /\ queue[1].generation = generation
        BY <3>1, TailFacts, HandFacts DEF Carried
      <3>3. hand' = [hand EXCEPT ![w] = queue[1]] \/ (hand' = hand /\ Stale(queue[1]))
        BY <2>2, <3>2 DEF Pop, Stale
      <3>4. hand[w] = None
        BY <3>1 DEF Ind, TypeInv, Roles
      <3>5. \A v \in Workers : v # w => hand'[v] = hand[v]
        BY <1>0, <3>3
      <3>6. hand'[w] = queue[1] \/ (hand'[w] = None /\ Stale(queue[1]))
        BY <1>0, <3>3, <3>4
      <3>7. /\ Dropped(1) /\ DOMAIN queue' \subseteq Nat
            /\ \A i \in DOMAIN queue : IF i > 1 THEN i - 1 \in DOMAIN queue' ELSE i = 1
        BY <3>1, Behind
      <3>8. Passes(1)
        BY <1>2, <2>0, <3>1, <3>2, <3>4, <3>5, <3>6, <3>7 DEF Passes
      <3> QED BY <3>8
    <2>3. CASE TakeGate(w)
      <3>1. /\ UNCHANGED <<queue, log>>
            /\ hand' = hand \/ (hand' = [hand EXCEPT ![w] = None] /\ Stale(hand[w]))
        BY <2>3 DEF TakeGate, Stale, queueVars, ghostVars
      <3>2. \A v \in Workers : hand'[v] = hand[v] \/ (hand'[v] = None /\ Stale(hand[v]))
        BY <1>0, <3>1
      <3>3. /\ Dropped(0) /\ DOMAIN queue' \subseteq Nat
            /\ \A i \in DOMAIN queue : i > 0 /\ i - 0 \in DOMAIN queue'
        BY <3>1, Behind
      <3>4. Passes(0)
        BY <1>2, <2>0, <3>1, <3>2, <3>3 DEF Passes
      <3> QED BY <3>4
    <2>4. CASE Execute(w)
      <3>1. /\ pc[w] = "run" /\ hand' = [hand EXCEPT ![w] = None] /\ queue' = queue
        BY <2>4 DEF Execute, queueVars
      <3> DEFINE new == [id |-> hand[w].id, at |-> where, epoch |-> epoch]
      <3>2. log' = Append(log, new) /\ new.id = hand[w].id
        BY <2>4 DEF Execute
      <3>3. hand[w] \in Command
        BY <3>1, Distinct DEF Ind, TypeInv, TypeOK, Roles
      <3>4. new \in Execution
        BY <3>3 DEF Command, Execution, Ind, TypeInv, TypeOK
      <3> HIDE DEF new
      <3>5. /\ \A k \in DOMAIN log : k \in DOMAIN log' /\ log'[k] = log[k]
            /\ \E k \in DOMAIN log' : log'[k].id = hand[w].id
        BY <3>2, <3>4, AppendFacts, HandFacts
      <3>6. \A v \in Workers : hand'[v] = IF v = w THEN None ELSE hand[v]
        BY <1>0, <3>1
      <3>7. /\ Dropped(0) /\ DOMAIN queue' \subseteq Nat
            /\ \A i \in DOMAIN queue : i > 0 /\ i - 0 \in DOMAIN queue'
        BY <3>1, Behind
      <3>8. Passes(0)
        BY <1>2, <2>0, <3>5, <3>6, <3>7 DEF Passes
      <3> QED BY <3>8
    <2>5. CASE Finish(w)
      <3>1. UNCHANGED <<log, hand>>
        BY <2>5 DEF Finish, ghostVars
      <3> DEFINE live == {i \in DOMAIN queue : IsCurrent(queue[i].kind, queue[i].context)}
      <3>2. \A i \in DOMAIN queue : i \notin live => Stale(queue[i])
        BY DEF Stale
      <3>3. CASE queue' = queue
        BY <1>1, <1>2, <2>0, <3>1, <3>3
      <3>4. CASE live = {} /\ queue' = <<>>
        <4>1. DOMAIN queue' = {} /\ Len(queue) \in Nat /\ \A i \in DOMAIN queue : ~(i > Len(queue))
          BY <3>4, HandFacts
        <4>2. Dropped(Len(queue))
          BY <4>1 DEF Dropped
        <4>3. Passes(Len(queue))
          BY <1>2, <2>0, <3>1, <3>2, <3>4, <4>1, <4>2 DEF Passes
        <4> QED BY <4>1, <4>3
      <3>5. ASSUME NEW first \in live, \A i \in live : first <= i,
                   queue' = SubSeq(queue, first, Len(queue))
            PROVE  \E n \in Nat : Passes(n)
        <4>1. /\ first - 1 \in Nat /\ Dropped(first - 1) /\ DOMAIN queue' \subseteq Nat
              /\ \A i \in DOMAIN queue : IF i > first - 1 THEN i - (first - 1) \in DOMAIN queue'
                                         ELSE i < first
          BY <3>5, Behind
        <4>2. \A i \in DOMAIN queue : i < first => Stale(queue[i])
          <5>1. DOMAIN queue \subseteq Nat
            BY HandFacts
          <5> QED BY <3>2, <3>5, <5>1
        <4> HIDE DEF live
        <4>3. Passes(first - 1)
          BY <1>2, <2>0, <3>1, <4>1, <4>2 DEF Passes
        <4> QED BY <4>1, <4>3
      <3>6. \/ queue' = queue
            \/ live = {} /\ queue' = <<>>
            \/ \E first \in live : /\ \A i \in live : first <= i
                                   /\ queue' = SubSeq(queue, first, Len(queue))
        BY <2>5, Zenon DEF Finish
      <3> QED BY <3>3, <3>4, <3>5, <3>6
    <2> QED BY <1>8, <2>1, <2>2, <2>3, <2>4, <2>5 DEF Drain
  <1> QED BY <1>3, <1>4, <1>5, <1>6, <1>7, <1>8 DEF Next, ReceiverStep

\* What is found stays found, and ahead of what is behind it.
LEMMA PassesFinds ==
    ASSUME Ind, OInv, Arrivals, Carried, Live, NEW n \in Nat, Passes(n), NEW m \in DOMAIN accepted,
           (~SpatialInput(accepted[m].kind) /\ accepted[m].epoch = epoch) \/ Fresh(m)
    PROVE  /\ Found(m) => Found(m)'
           /\ \A i \in DOMAIN queue' :
                  Done(m) \/ Held(m) \/ Ahead(m, i + n) => (Done(m) \/ Held(m) \/ Ahead(m, i))'
  <1>1. \A i \in DOMAIN queue : queue[i].id = m => ~Stale(queue[i]) /\ queue[i] # None
    <2> SUFFICES ASSUME NEW i \in DOMAIN queue, queue[i].id = m
                 PROVE  ~Stale(queue[i]) /\ queue[i] # None
      OBVIOUS
    <2>1. /\ queue[i].id \in DOMAIN accepted /\ queue[i].kind = accepted[queue[i].id].kind
          /\ Carries(queue[i])
      BY DEF OInv, Named, Carried
    <2>2. queue[i] \in Command
      BY HandFacts
    <2> QED BY <2>1, <2>2, NotStale, NoneAssumption
  <1>2. \A w \in Workers : hand[w] # None /\ hand[w].id = m => ~Stale(hand[w])
    <2> SUFFICES ASSUME NEW w \in Workers, hand[w] # None, hand[w].id = m
                 PROVE  ~Stale(hand[w])
      OBVIOUS
    <2>1. /\ hand[w].id \in DOMAIN accepted /\ hand[w].kind = accepted[hand[w].id].kind
          /\ Carries(hand[w])
      BY DEF OInv, Named, Carried
    <2> QED BY <2>1, NotStale
  <1>3. Done(m) => Done(m)'
    BY DEF Done, Passes
  <1>4. Held(m) => Held(m)' \/ Done(m)'
    BY <1>2 DEF Held, Done, Passes
  <1>5. ASSUME NEW j \in DOMAIN queue, queue[j].id = m
        PROVE  (j > n /\ j - n \in DOMAIN queue' /\ queue'[j - n].id = m) \/ Held(m)'
    <2>1. CASE j > n
      <3>1. j \in Nat
        BY HandFacts
      <3>2. j - n \in DOMAIN queue'
        BY <2>1 DEF Passes
      <3>3. queue'[j - n] = queue[(j - n) + n] /\ (j - n) + n = j
        BY <3>1, <3>2 DEF Passes, Dropped
      <3> QED BY <1>5, <2>1, <3>2, <3>3
    <2>2. CASE ~(j > n)
      <3>1. PICK w \in Workers : hand'[w] = queue[j]
        BY <1>1, <1>5, <2>2 DEF Passes
      <3> QED BY <1>1, <1>5, <3>1 DEF Held
    <2> QED BY <2>1, <2>2
  <1>6. Found(m) => Found(m)'
    <2>1. Waiting(m) <=> Held(m) \/ \E j \in DOMAIN queue : queue[j].id = m
      BY DEF Waiting, Held
    <2>2. Waiting(m)' <=> Held(m)' \/ \E j \in DOMAIN queue' : queue'[j].id = m
      BY DEF Waiting, Held
    <2> QED BY <1>3, <1>4, <1>5, <2>1, <2>2 DEF Found
  <1>7. ASSUME NEW i \in DOMAIN queue', Ahead(m, i + n)
        PROVE  Ahead(m, i)' \/ Held(m)'
    <2>1. PICK j \in DOMAIN queue : j < i + n /\ queue[j].id = m
      BY <1>7 DEF Ahead
    <2>2. j \in Nat /\ i \in Nat
      BY HandFacts DEF Passes
    <2>3. j > n => j - n < i
      BY <2>1, <2>2
    <2> QED BY <1>5, <2>1, <2>3 DEF Ahead
  <1> QED BY <1>3, <1>4, <1>6, <1>7

\* What a step that accepts nothing keeps.
LEMMA PassesKeeps ==
    ASSUME Ind, OInv, Arrivals, Carried, Live, Kept, NEW n \in Nat, Passes(n)
    PROVE  Carried' /\ LastContext' /\ DurableFound' /\ LatestFound' /\ QueueSees'
  <1>1. /\ UNCHANGED <<accepted, queueContext, generation>>
        /\ \A id \in DOMAIN accepted : /\ accepted[id].epoch = epoch' => accepted[id].epoch = epoch
                                       /\ Fresh(id)' => Fresh(id)
        /\ \A i \in DOMAIN queue' : i + n \in DOMAIN queue /\ queue'[i] = queue[i + n]
    BY DEF Passes, Dropped
  <1>2. Carried'
    <2>1. \A i \in DOMAIN queue' : /\ queue'[i].context = accepted'[queue'[i].id].context
                                   /\ queue'[i].epoch = accepted'[queue'[i].id].epoch
                                   /\ queue'[i].generation = generation'
      BY <1>1 DEF Carried, Carries
    <2>2. \A w \in Workers : hand'[w] # None =>
              /\ hand'[w].context = accepted'[hand'[w].id].context
              /\ hand'[w].epoch = accepted'[hand'[w].id].epoch
      BY DEF Carried, Carries, Passes
    <2> QED BY <2>1, <2>2 DEF Carried, Carries
  <1>3. LastContext'
    BY <1>1 DEF Kept, LastContext
  <1>4. DurableFound'
    <2> SUFFICES ASSUME NEW id \in DOMAIN accepted, ~SpatialInput(accepted[id].kind),
                        accepted[id].epoch = epoch'
                 PROVE  Found(id)'
      BY <1>1 DEF DurableFound, SpatialInput
    <2>1. Found(id)
      BY <1>1 DEF Kept, DurableFound
    <2> QED BY <1>1, <2>1, PassesFinds
  <1>5. LatestFound'
    <2> SUFFICES ASSUME NEW x \in FreshMoves'
                 PROVE  \E m : Latest(FreshMoves', m) /\ Found(m)'
      BY DEF LatestFound, Latest
    <2>1. x \in DOMAIN accepted /\ Fresh(x)' /\ Fresh(x) /\ accepted[x].kind = "move"
      BY <1>1 DEF FreshMoves
    <2>2. where' = where /\ epoch' = epoch
      BY <1>1, <2>1 DEF Fresh
    <2>3. FreshMoves' = FreshMoves /\ x \in FreshMoves
      BY <1>1, <2>1, <2>2 DEF FreshMoves, Fresh
    <2>4. PICK m : Latest(FreshMoves, m) /\ Found(m)
      BY <2>3 DEF Kept, LatestFound
    <2>5. m \in DOMAIN accepted /\ Fresh(m)
      BY <2>4 DEF Latest, FreshMoves
    <2>6. Found(m)'
      BY <2>4, <2>5, PassesFinds
    <2> QED BY <2>3, <2>4, <2>6
  <1>6. QueueSees'
    <2>1. \A id : MovesBefore(id)' = MovesBefore(id) /\ (Follows(id)' <=> Follows(id))
      BY <1>1 DEF MovesBefore, Follows
    <2> SUFFICES ASSUME NEW i \in DOMAIN queue', Follows(queue'[i].id), Fresh(queue[i].id)'
                 PROVE  \E m : /\ Latest(MovesBefore(queue'[i].id), m)
                               /\ (Done(m) \/ Held(m) \/ Ahead(m, i))'
      BY <2>1 DEF QueueSees, Latest, Follows
    <2>2. /\ i + n \in DOMAIN queue /\ queue'[i] = queue[i + n]
          /\ queue[i + n].id \in DOMAIN accepted
      BY <1>1 DEF OInv, Named
    <2>3. Fresh(queue[i + n].id)
      <3>1. Fresh(queue'[i].id)
        BY <1>1, <2>2 DEF Fresh
      <3> QED BY <2>2, <3>1
    <2>4. PICK m : /\ Latest(MovesBefore(queue[i + n].id), m)
                   /\ Done(m) \/ Held(m) \/ Ahead(m, i + n)
      BY <2>2, <2>3 DEF Kept, QueueSees
    <2>5. m \in DOMAIN accepted /\ Fresh(m)
      <3>1. /\ m \in 1 .. queue[i + n].id - 1
            /\ accepted[m].context = accepted[queue[i + n].id].context
            /\ accepted[m].epoch = accepted[queue[i + n].id].epoch
        BY <2>4 DEF Latest, MovesBefore
      <3>2. m \in DOMAIN accepted
        BY <2>2, <3>1, Fields DEF Ind
      <3> QED BY <2>3, <3>1, <3>2 DEF Fresh
    <2>6. (Done(m) \/ Held(m) \/ Ahead(m, i))'
      BY <2>4, <2>5, PassesFinds
    <2> QED BY <2>2, <2>4, <2>6
  <1> QED BY <1>2, <1>3, <1>4, <1>5, <1>6

\* What is taken from the queue has the last move before it done: nothing is
\* ahead of it, and no other command is in hand.
LEMMA HandsSee ==
    ASSUME Ind, OInv, Carried, Live, Live', Kept, NEW n \in Nat, Passes(n), [Next]_vars, ~Enqueue
    PROVE  HandSees'
  <1>1. \A id : /\ MovesBefore(id)' = MovesBefore(id) /\ (Follows(id)' <=> Follows(id))
                /\ (Done(id) => Done(id)')
    BY DEF MovesBefore, Follows, Done, Passes
  <1>2. \A id, m : Latest(MovesBefore(id), m)' <=> Latest(MovesBefore(id), m)
    BY <1>1 DEF Latest
  <1> SUFFICES ASSUME NEW w \in Workers, hand'[w] # None, Follows(hand'[w].id), Fresh(hand[w].id)'
               PROVE  \E m : Latest(MovesBefore(hand'[w].id), m) /\ Done(m)
    BY <1>1, <1>2 DEF HandSees, Latest, Follows
  <1>3. CASE hand'[w] = hand[w]
    <2>1. hand[w].id \in DOMAIN accepted
      BY <1>3 DEF OInv, Named
    <2>2. Fresh(hand[w].id)
      BY <1>3, <2>1 DEF Passes
    <2> QED BY <1>3, <2>2 DEF Kept, HandSees
  <1>4. CASE hand'[w] # hand[w]
    <2>0. DOMAIN hand = Threads /\ Workers \subseteq Threads
      BY HandFacts
    <2>1. Pop(w)
      <3>1. ASSUME NEW v \in Workers, Drain(v)
            PROVE  Pop(w)
        <4>1. Pop(v) \/ hand' = hand \/ hand' = [hand EXCEPT ![v] = None]
          BY <3>1 DEF Drain, Start, EndSlice, TakeGate, Execute, Finish
        <4>2. Pop(v)
          BY <1>4, <2>0, <4>1
        <4>3. hand' = hand \/ \E c : hand' = [hand EXCEPT ![v] = c]
          BY <4>2 DEF Pop
        <4>4. v = w
          BY <1>4, <2>0, <4>3
        <4> QED BY <4>2, <4>4
      <3>2. CASE \E kind \in Kinds : Receive(kind)
        <4>1. \E c : hand' = [hand EXCEPT ![Receiver] = c]
          BY <3>2 DEF Receive
        <4> QED BY <1>4, <2>0, <4>1, Distinct
      <3>3. CASE (\E t \in Threads : HandOver(t)) \/ World \/ Retire \/ UNCHANGED vars
        <4>1. hand' = hand
          BY <3>3 DEF HandOver, Schedule, ScheduleFails, RequestRetirement, World, ChangePhase,
               ChangeMap, StartTransition, EndTransition, Retire, BeginRetirement, RetirementRefused,
               MarkRetired, FinalSnapshot, CancelSessionActivity, vars, threadVars
        <4> QED BY <1>4, <4>1
      <3> QED BY <3>1, <3>2, <3>3 DEF Next, ReceiverStep
    <2>2. pc[w] = "pop" /\ mine[w] = token /\ queue # <<>>
      BY <2>1 DEF Pop
    <2>3. Head(queue) = queue[1] /\ 1 \in DOMAIN queue
      BY <2>2, TailFacts, HandFacts
    <2>4. hand'[w] = queue[1]
      <3>1. hand' = hand \/ hand' = [hand EXCEPT ![w] = queue[1]]
        BY <2>1, <2>3 DEF Pop
      <3> QED BY <1>4, <2>0, <3>1
    <2>5. queue[1].id \in DOMAIN accepted
      BY <2>3 DEF OInv, Named
    <2>6. Fresh(queue[1].id)
      BY <2>4, <2>5 DEF Passes
    <2>7. PICK m : Latest(MovesBefore(queue[1].id), m) /\ (Done(m) \/ Held(m) \/ Ahead(m, 1))
      BY <2>3, <2>4, <2>6 DEF Kept, QueueSees
    <2>8. ~Ahead(m, 1)
      BY HandFacts DEF Ahead
    <2>9. ~Held(m)
      <3> SUFFICES ASSUME NEW v \in Workers, hand[v] # None PROVE FALSE
        BY DEF Held
      <3>1. retirement = "no"
        BY DEF Live, Ind, Gates
      <3>2. mine[v] = token /\ Busy(w)
        BY <2>2, <3>1, HandFacts DEF Busy
      <3>3. v = w
        BY <2>2, <3>2, HandFacts
      <3> QED BY <2>2, <3>3 DEF Ind, TypeInv, Roles
    <2> QED BY <2>4, <2>7, <2>8, <2>9
  <1> QED BY <1>3, <1>4

\* What is accepted stays accepted, as it was.
LEMMA EnqueueExtends ==
    ASSUME Ind, Enqueue
    PROVE  \A i \in DOMAIN accepted : i \in DOMAIN accepted' /\ accepted'[i] = accepted[i]
  <1> DEFINE new == [kind |-> hand[Receiver].kind, context |-> hand[Receiver].context,
                     epoch |-> hand[Receiver].epoch]
  <1>1. hand[Receiver] \in Command
    BY EnqueueFacts DEF Ind
  <1>2. new \in Arrival
    BY <1>1 DEF Command, Arrival
  <1>3. accepted' = accepted \/ accepted' = Append(accepted, new)
    BY Zenon DEF Enqueue
  <1> HIDE DEF new
  <1> QED BY <1>2, <1>3, AppendFacts, HandFacts

\* What is behind another command in the queue is behind it when a queue is
\* renewed in the same context; in the same map the commands that are not
\* spatial stay.
LEMMA RenewedKeeps ==
    ASSUME TypeOK, NEW context, NEW r \in Renewed(context)
    PROVE  /\ \A i \in DOMAIN r.queue : \E k \in DOMAIN queue :
                  /\ r.queue[i].id = queue[k].id
                  /\ r.queue[i].context = queue[k].context
                  /\ r.queue[i].epoch = queue[k].epoch
                  /\ queue[k].generation = generation => r.queue[i].generation = r.generation
           /\ queueContext = context => r.queue = queue
           /\ queueContext # None /\ queueContext.map = context.map =>
                  \A k \in DOMAIN queue : ~SpatialInput(queue[k].kind) =>
                      \E i \in DOMAIN r.queue : r.queue[i].id = queue[k].id
  <1>1. CASE queueContext = context
    <2>1. r.queue = queue /\ r.generation = generation
      BY <1>1 DEF Renewed
    <2> QED BY <2>1
  <1>2. CASE queueContext # context
    <2> DEFINE stay == IF queueContext # None /\ queueContext.map = context.map
                       THEN {i \in DOMAIN queue : ~SpatialInput(queue[i].kind)} ELSE {}
    <2>1. PICK at \in Listed(stay) :
              r = [queue |-> [i \in DOMAIN at |->
                                 [queue[at[i]] EXCEPT !.generation = generation + 1]],
                   generation |-> generation + 1]
      BY <1>2, Zenon DEF Renewed
    <2>2. stay \subseteq DOMAIN queue /\ queue \in Seq(Command) /\ generation \in Nat
      BY DEF TypeOK
    <2>3. queueContext # None /\ queueContext.map = context.map =>
              stay = {i \in DOMAIN queue : ~SpatialInput(queue[i].kind)}
      OBVIOUS
    <2> HIDE DEF stay
    <2>4. PICK n \in Nat : /\ at \in [1..n -> stay]
                           /\ \A k \in stay : \E i \in 1..n : at[i] = k
      BY <2>1 DEF Listed
    <2> DEFINE moved(k) == [queue[k] EXCEPT !.generation = generation + 1]
    <2>5. \A k \in DOMAIN queue : /\ moved(k).id = queue[k].id
                                  /\ moved(k).context = queue[k].context
                                  /\ moved(k).epoch = queue[k].epoch
                                  /\ moved(k).generation = generation + 1
      <3>1. \A k \in DOMAIN queue : queue[k] \in Command
        BY <2>2
      <3> QED BY <2>2, <3>1 DEF Command
    <2>6. r.queue = [i \in 1..n |-> moved(at[i])] /\ r.generation = generation + 1
      BY <2>1, <2>4
    <2> HIDE DEF moved
    <2>7. /\ DOMAIN r.queue = 1..n
          /\ \A i \in 1..n : at[i] \in stay /\ at[i] \in DOMAIN queue /\ r.queue[i] = moved(at[i])
      BY <2>2, <2>4, <2>6
    <2>8. \A i \in DOMAIN r.queue : /\ at[i] \in DOMAIN queue
                                    /\ r.queue[i].id = queue[at[i]].id
                                    /\ r.queue[i].context = queue[at[i]].context
                                    /\ r.queue[i].epoch = queue[at[i]].epoch
                                    /\ r.queue[i].generation = r.generation
      BY <2>5, <2>6, <2>7
    <2>9. \A k \in stay : \E i \in DOMAIN r.queue : r.queue[i].id = queue[k].id
      BY <2>4, <2>7, <2>8
    <2> QED BY <1>2, <2>3, <2>8, <2>9
  <1> QED BY <1>1, <1>2

\* The new command is in the queue, and all that was there unless it is a move
\* for a move; what follows moves has before it all that it had before it.
LEMMA PlacedKeeps ==
    ASSUME NEW q \in Seq(Command), NEW e \in Command, NEW r \in Placed(q, e)
    PROVE  /\ \E i \in DOMAIN r : r[i] = e
           /\ \A k \in DOMAIN q : e.kind # "move" \/ q[k].kind # "move" =>
                  \E i \in DOMAIN r : r[i] = q[k]
           /\ \A i \in DOMAIN r : r[i].kind \in {"cast", "durable"} =>
                  \/ /\ r[i] = e
                     /\ \A k \in DOMAIN q : \E h \in DOMAIN r : h < i /\ r[h] = q[k]
                  \/ \E j \in DOMAIN q :
                         /\ r[i] = q[j]
                         /\ \A k \in DOMAIN q : k < j => \E h \in DOMAIN r : h < i /\ r[h] = q[k]
  <1>1. PICK s \in Slot(q, e) :
            r = IF Coalesces(q, s, e) THEN ReplaceAt(q, s, e) ELSE InsertAt(q, s + 1, e)
    BY Zenon DEF Placed
  <1>2. s \in 0..Len(q) /\ Len(q) \in Nat /\ DOMAIN q = 1..Len(q)
    BY DEF Slot
  <1>3. /\ \A j \in s + 1 .. Len(q) : e.kind = "move" /\ q[j].kind = "actors"
        /\ e.kind # "move" => s = Len(q)
    <2>1. CASE e.kind = "move"
      BY <1>2, <2>1 DEF Slot
    <2>2. CASE e.kind # "move"
      BY <1>2, <2>2 DEF Slot
    <2> QED BY <2>1, <2>2
  <1>4. CASE Coalesces(q, s, e)
    <2>1. r = [q EXCEPT ![s] = e] /\ s \in DOMAIN q /\ e.kind = "move" /\ q[s].kind = "move"
      BY <1>1, <1>2, <1>4 DEF ReplaceAt, Coalesces
    <2>2. DOMAIN r = DOMAIN q /\ \A i \in DOMAIN q : r[i] = IF i = s THEN e ELSE q[i]
      BY <2>1
    <2>3. ASSUME NEW i \in DOMAIN r, r[i].kind \in {"cast", "durable"}
          PROVE  \E j \in DOMAIN q :
                     /\ r[i] = q[j]
                     /\ \A k \in DOMAIN q : k < j => \E h \in DOMAIN r : h < i /\ r[h] = q[k]
      <3>1. i \in DOMAIN q /\ i # s /\ r[i] = q[i] /\ i \notin s + 1 .. Len(q)
        BY <1>3, <2>1, <2>2, <2>3
      <3>2. i < s
        BY <1>2, <3>1
      <3>3. \A k \in DOMAIN q : k < i => k \in DOMAIN r /\ r[k] = q[k]
        BY <1>2, <2>2, <3>1, <3>2
      <3> QED BY <3>1, <3>3
    <2>4. \A k \in DOMAIN q : q[k].kind # "move" => k \in DOMAIN r /\ r[k] = q[k]
      BY <2>1, <2>2
    <2> QED BY <2>1, <2>2, <2>3, <2>4
  <1>5. CASE ~Coalesces(q, s, e)
    <2>1. r = InsertAt(q, s + 1, e)
      BY <1>1, <1>5
    <2>2. /\ DOMAIN r = 1..(Len(q) + 1)
          /\ \A i \in 1..(Len(q) + 1) :
                 r[i] = IF i <= s THEN q[i] ELSE IF i = s + 1 THEN e ELSE q[i - 1]
      BY <1>2, <2>1, InsertFacts
    <2>3. s + 1 \in DOMAIN r /\ r[s + 1] = e
      BY <1>2, <2>2
    <2>4. \A k \in DOMAIN q : /\ k <= s => k \in DOMAIN r /\ r[k] = q[k]
                              /\ ~(k <= s) => k + 1 \in DOMAIN r /\ r[k + 1] = q[k]
      BY <1>2, <2>2
    <2>5. ASSUME NEW i \in DOMAIN r, r[i].kind \in {"cast", "durable"}
          PROVE  \/ /\ r[i] = e
                    /\ \A k \in DOMAIN q : \E h \in DOMAIN r : h < i /\ r[h] = q[k]
                 \/ \E j \in DOMAIN q :
                        /\ r[i] = q[j]
                        /\ \A k \in DOMAIN q : k < j => \E h \in DOMAIN r : h < i /\ r[h] = q[k]
      <3>1. CASE i <= s
        <4>1. i \in DOMAIN q /\ r[i] = q[i]
          BY <1>2, <2>2, <3>1
        <4>2. \A k \in DOMAIN q : k < i => k \in DOMAIN r /\ r[k] = q[k]
          BY <1>2, <2>4, <3>1, <4>1
        <4> QED BY <4>1, <4>2
      <3>2. CASE i = s + 1
        <4>1. r[i] = e /\ e.kind # "move" /\ s = Len(q)
          BY <1>3, <2>3, <2>5, <3>2
        <4>2. \A k \in DOMAIN q : k < i /\ k \in DOMAIN r /\ r[k] = q[k]
          BY <1>2, <2>4, <3>2, <4>1
        <4> QED BY <4>1, <4>2
      <3>3. CASE i > s + 1
        <4>1. i - 1 \in s + 1 .. Len(q) /\ r[i] = q[i - 1]
          BY <1>2, <2>2, <3>3
        <4> QED BY <1>3, <2>5, <4>1
      <3> QED BY <1>2, <2>2, <3>1, <3>2, <3>3
    <2>6. \A k \in DOMAIN q : \E i \in DOMAIN r : r[i] = q[k]
      BY <2>4
    <2> QED BY <2>3, <2>5, <2>6
  <1> QED BY <1>4, <1>5

\* What is executed has the last move before it executed already.
LEMMA LogSeesNext ==
    ASSUME Ind, OInv, Live, Kept, [Next]_vars
    PROVE  LogSees'
  <1>1. LogSees /\ HandSees
    BY DEF Kept
  <1>2. accepted \in Seq(Arrival) /\ DOMAIN accepted = 1..Len(accepted) /\ Len(accepted) \in Nat
    BY Fields DEF Ind
  <1>3. CASE UNCHANGED <<accepted, log>>
    BY <1>1, <1>3 DEF LogSees, Latest, Follows, MovesBefore
  <1>4. ASSUME NEW w \in Workers, Execute(w)
        PROVE  LogSees'
    <2>1. pc[w] = "run" /\ UNCHANGED <<accepted, where, epoch>>
      BY <1>4 DEF Execute, worldVars
    <2> DEFINE new == [id |-> hand[w].id, at |-> where, epoch |-> epoch]
    <2>2. log' = Append(log, new) /\ new.id = hand[w].id /\ new.at = where /\ new.epoch = epoch
      BY <1>4 DEF Execute
    <2>3. hand[w] \in Command /\ hand[w] # None
      BY <2>1, Distinct, NoneAssumption DEF Ind, TypeInv, TypeOK, Roles
    <2>4. new \in Execution
      BY <2>3 DEF Command, Execution, Ind, TypeInv, TypeOK
    <2> HIDE DEF new
    <2>5. /\ DOMAIN log' = DOMAIN log \cup {Len(log) + 1}
          /\ \A k \in DOMAIN log : log'[k] = log[k] /\ k < Len(log) + 1
          /\ log'[Len(log) + 1] = new
      BY <2>2, <2>4, AppendFacts, HandFacts
    <2>6. \A id : MovesBefore(id)' = MovesBefore(id)
      BY <2>1 DEF MovesBefore
    <2> SUFFICES ASSUME NEW k \in DOMAIN log', NEW id, id = log'[k].id, Follows(id),
                        log'[k].at = accepted[id].context, log'[k].epoch = accepted[id].epoch
                 PROVE  \E j \in DOMAIN log' : j < k /\ Latest(MovesBefore(id), log'[j].id)
      BY <2>1, <2>6 DEF LogSees, Latest, Follows
    <2>7. CASE k \in DOMAIN log
      <3>1. \E j \in DOMAIN log : j < k /\ Latest(MovesBefore(id), log[j].id)
        BY <1>1, <2>5, <2>7 DEF LogSees
      <3> QED BY <2>5, <3>1
    <2>8. CASE k = Len(log) + 1
      <3>1. id = hand[w].id /\ Fresh(id)
        BY <2>2, <2>5, <2>8 DEF Fresh
      <3>2. PICK m : Latest(MovesBefore(id), m) /\ Done(m)
        BY <1>1, <2>3, <3>1 DEF HandSees
      <3>3. PICK j \in DOMAIN log : log[j].id = m
        BY <3>2 DEF Done
      <3> QED BY <2>5, <2>8, <3>2, <3>3
    <2> QED BY <2>5, <2>7, <2>8
  <1>5. CASE Enqueue
    <2>1. log' = log
      BY <1>5 DEF Enqueue
    <2>2. \A i \in DOMAIN accepted : i \in DOMAIN accepted' /\ accepted'[i] = accepted[i]
      BY <1>5, EnqueueExtends
    <2>3. \A k \in DOMAIN log : log[k].id \in DOMAIN accepted
      BY DEF OInv, Named
    <2>4. \A id \in DOMAIN accepted : /\ MovesBefore(id)' = MovesBefore(id)
                                      /\ Follows(id)' <=> Follows(id)
      BY <1>2, <2>2 DEF MovesBefore, Follows
    <2> QED BY <1>1, <2>1, <2>2, <2>3, <2>4 DEF LogSees, Latest
  <1>6. CASE ~Enqueue /\ \A w \in Workers : ~Execute(w)
    <2>1. UNCHANGED <<accepted, log>>
      <3>1. CASE \E kind \in Kinds : Receive(kind)
        BY <3>1 DEF Receive, ghostVars
      <3>2. CASE \E t \in Threads : HandOver(t)
        BY <3>2 DEF HandOver, Schedule, ScheduleFails, RequestRetirement, ghostVars
      <3>3. CASE \E w \in Workers : Drain(w)
        BY <1>6, <3>3 DEF Drain, Start, Pop, EndSlice, TakeGate, Finish, ghostVars
      <3>4. CASE World \/ Retire \/ UNCHANGED vars
        BY <3>4 DEF World, ChangePhase, ChangeMap, StartTransition, EndTransition, Retire,
             BeginRetirement, RetirementRefused, MarkRetired, FinalSnapshot, CancelSessionActivity,
             vars, ghostVars
      <3> QED BY <1>6, <3>1, <3>2, <3>3, <3>4 DEF Next, ReceiverStep
    <2> QED BY <1>3, <2>1
  <1> QED BY <1>4, <1>5, <1>6

\* The context of the queue when a command arrives: while a command of this
\* visit is accepted, the map the player is on; while one of this phase is, the
\* context the player is in, and the command that arrives is of it as well.
LEMMA ArrivalContext ==
    ASSUME Ind, Arrivals, LastContext, Enqueue, NEW a \in DOMAIN accepted,
           accepted[a].epoch = epoch
    PROVE  /\ hand[Receiver].epoch = epoch
           /\ queueContext # None /\ queueContext.map = hand[Receiver].context.map
           /\ Fresh(a) => queueContext = where /\ hand[Receiver].context = where
  <1> DEFINE L == Len(accepted)
             h == hand[Receiver]
  <1>1. /\ L \in DOMAIN accepted /\ a <= L /\ accepted # <<>>
        /\ where \in Contexts /\ epoch \in Nat
        /\ accepted[L].context \in Contexts /\ accepted[L].epoch \in Nat
        /\ accepted[a].context \in Contexts
    BY Fields DEF Ind
  <1>2. pc[Receiver] = "enqueue" /\ h \in Command
    BY EnqueueFacts DEF Ind
  <1>3. h.context \in Contexts /\ h.epoch \in Nat
    BY <1>2, Fields DEF Ind
  <1>4. queueContext = accepted[L].context
    BY <1>1 DEF LastContext
  <1> HIDE DEF L
  <1>5. /\ Since(accepted[a], accepted[L]) /\ Since(accepted[L], h) /\ Since(h, Now)
        /\ Now.context = where /\ Now.epoch = epoch
    BY <1>1, <1>2, Fields DEF Arrivals, Ind
  <1> HIDE DEF h
  <1>6. \A c \in Contexts : c.phase \in Nat /\ c = [map |-> c.map, phase |-> c.phase]
    BY DEF Contexts
  <1>7. /\ accepted[L].epoch = epoch /\ h.epoch = epoch
        /\ accepted[L].context.map = where.map /\ h.context.map = where.map
        /\ accepted[a].context.phase <= accepted[L].context.phase
        /\ accepted[L].context.phase <= h.context.phase
        /\ h.context.phase <= where.phase
    BY <1>1, <1>3, <1>5 DEF Since
  <1>8. Fresh(a) => accepted[L].context = where /\ h.context = where
    <2> SUFFICES ASSUME Fresh(a) PROVE accepted[L].context = where /\ h.context = where
      OBVIOUS
    <2>1. accepted[a].context = where
      BY DEF Fresh
    <2>2. accepted[L].context.phase = where.phase /\ h.context.phase = where.phase
      BY <1>1, <1>3, <1>6, <1>7, <2>1
    <2> QED BY <1>1, <1>3, <1>6, <1>7, <2>2
  <1>9. queueContext # None
    BY <1>1, <1>4, NoneAssumption
  <1> QED BY <1>4, <1>7, <1>8, <1>9 DEF h

\* A command accepted is kept, and so is what was: the queue is only cleared of
\* commands of another map or phase.
LEMMA EnqueueSaves ==
    ASSUME Ind, OInv, Arrivals, Carried, Kept, Live', Enqueue
    PROVE  Carried' /\ LastContext' /\ DurableFound' /\ LatestFound' /\ QueueSees' /\ HandSees'
  <1>1. PICK renewed \in Renewed(hand[Receiver].context), entry \in Command :
            /\ entry.id = Len(accepted) + 1
            /\ entry.context = hand[Receiver].context /\ entry.epoch = hand[Receiver].epoch
            /\ entry.generation = generation' /\ generation' = renewed.generation
            /\ queue' \in Placed(renewed.queue, entry)
            /\ accepted' = Append(accepted, [kind |-> entry.kind, context |-> entry.context,
                                            epoch |-> entry.epoch])
    BY EnqueueAdds
  <1> DEFINE q == renewed.queue
  <1>0. PICK N \in Nat : N = Len(accepted) + 1
    BY HandFacts
  <1>2. /\ UNCHANGED <<where, epoch, log>> /\ hand' = [hand EXCEPT ![Receiver] = None]
        /\ queueContext' = hand[Receiver].context
    BY EnqueueFacts DEF Ind, worldVars
  <1>3. \A w \in Workers : hand'[w] = hand[w]
    BY <1>2, HandFacts, Distinct
  <1>4. /\ accepted' \in Seq(Arrival) /\ DOMAIN accepted' = DOMAIN accepted \cup {N}
        /\ \A a \in DOMAIN accepted : accepted'[a] = accepted[a] /\ a < N
        /\ accepted'[N].kind = entry.kind /\ accepted'[N].context = entry.context
        /\ accepted'[N].epoch = entry.epoch
        /\ Len(accepted') = N /\ DOMAIN accepted = 1..Len(accepted) /\ Len(accepted) \in Nat
    <2> DEFINE new == [kind |-> entry.kind, context |-> entry.context, epoch |-> entry.epoch]
    <2>1. new \in Arrival
      BY <1>1 DEF Command, Arrival
    <2>2. /\ accepted' = Append(accepted, new) /\ new.kind = entry.kind
          /\ new.context = entry.context /\ new.epoch = entry.epoch
      BY <1>1
    <2> HIDE DEF new
    <2>3. accepted \in Seq(Arrival) /\ DOMAIN accepted = 1..Len(accepted) /\ Len(accepted) \in Nat
      BY HandFacts
    <2> QED BY <1>0, <2>1, <2>2, <2>3, AppendFacts
  <1>5. /\ q \in Seq(Command)
        /\ \A i \in DOMAIN q : \E k \in DOMAIN queue :
               q[i].id = queue[k].id /\ q[i].kind = queue[k].kind
        /\ \A i \in DOMAIN q : \E k \in DOMAIN queue :
               /\ q[i].id = queue[k].id
               /\ q[i].context = queue[k].context
               /\ q[i].epoch = queue[k].epoch
               /\ queue[k].generation = generation => q[i].generation = renewed.generation
        /\ queueContext = hand[Receiver].context => q = queue
        /\ queueContext # None /\ queueContext.map = hand[Receiver].context.map =>
               \A k \in DOMAIN queue : ~SpatialInput(queue[k].kind) =>
                   \E i \in DOMAIN q : q[i].id = queue[k].id
    BY <1>1, RenewedFacts, RenewedKeeps DEF Ind, TypeInv
  <1> HIDE DEF q
  <1>6. /\ \A i \in DOMAIN queue' : queue'[i] = entry \/ \E k \in DOMAIN q : queue'[i] = q[k]
        /\ \E i \in DOMAIN queue' : queue'[i] = entry
        /\ \A k \in DOMAIN q : entry.kind # "move" \/ q[k].kind # "move" =>
               \E i \in DOMAIN queue' : queue'[i] = q[k]
        /\ \A i \in DOMAIN queue' : queue'[i].kind \in {"cast", "durable"} =>
               \/ /\ queue'[i] = entry
                  /\ \A k \in DOMAIN q : \E h \in DOMAIN queue' : h < i /\ queue'[h] = q[k]
               \/ \E j \in DOMAIN q :
                      /\ queue'[i] = q[j]
                      /\ \A k \in DOMAIN q : k < j =>
                             \E h \in DOMAIN queue' : h < i /\ queue'[h] = q[k]
    BY <1>1, <1>5, PlacedFacts, PlacedKeeps DEF q
  <1>7. entry.id = N /\ N \in Nat
    BY <1>0, <1>1
  <1>8. OInv'
    BY EnqueueOrders
  <1>9. \A i \in DOMAIN q : q[i].id \in DOMAIN accepted /\ q[i].kind = accepted[q[i].id].kind
    BY <1>5 DEF OInv, Named
  <1>10. Carried'
    <2>1. \A i \in DOMAIN q : /\ q[i].context = accepted[q[i].id].context
                              /\ q[i].epoch = accepted[q[i].id].epoch
                              /\ q[i].generation = generation'
      BY <1>1, <1>5 DEF Carried, Carries
    <2>2. \A i \in DOMAIN queue' : /\ queue'[i].context = accepted'[queue'[i].id].context
                                   /\ queue'[i].epoch = accepted'[queue'[i].id].epoch
                                   /\ queue'[i].generation = generation'
      BY <1>1, <1>4, <1>6, <1>7, <1>9, <2>1
    <2>3. \A w \in Workers : hand'[w] # None =>
              /\ hand'[w].context = accepted'[hand'[w].id].context
              /\ hand'[w].epoch = accepted'[hand'[w].id].epoch
      BY <1>3, <1>4 DEF Carried, Carries, OInv, Named
    <2> QED BY <2>2, <2>3 DEF Carried, Carries
  <1>11. LastContext'
    BY <1>1, <1>2, <1>4 DEF LastContext
  <1>12. \A a \in DOMAIN accepted : accepted[a].epoch = epoch =>
             \A k \in DOMAIN queue : ~SpatialInput(queue[k].kind) =>
                 \E i \in DOMAIN q : q[i].id = queue[k].id
    BY <1>5, ArrivalContext DEF Kept
  <1>13. \A a \in DOMAIN accepted : Fresh(a) =>
             q = queue /\ entry.context = where /\ entry.epoch = epoch
    <2> SUFFICES ASSUME NEW a \in DOMAIN accepted, Fresh(a)
                 PROVE  q = queue /\ entry.context = where /\ entry.epoch = epoch
      OBVIOUS
    <2>1. accepted[a].epoch = epoch
      BY DEF Fresh
    <2>2. /\ hand[Receiver].epoch = epoch
          /\ queueContext = where /\ hand[Receiver].context = where
      BY <2>1, ArrivalContext DEF Kept
    <2> QED BY <1>1, <1>5, <2>2
  <1>14. \A m : (Done(m) => Done(m)') /\ (Held(m) => Held(m)')
    BY <1>2, <1>3 DEF Done, Held
  <1>15. \A m : /\ Found(m) <=> Done(m) \/ Held(m) \/ \E k \in DOMAIN queue : queue[k].id = m
                /\ Found(m)' <=> Done(m)' \/ Held(m)' \/ \E k \in DOMAIN queue' : queue'[k].id = m
    BY DEF Found, Waiting, Held
  <1>16. Found(N)'
    BY <1>6, <1>7, <1>15
  <1>17. \A a \in DOMAIN accepted : Fresh(a)' <=> Fresh(a)
    BY <1>2, <1>4 DEF Fresh
  <1>18. DurableFound'
    <2> SUFFICES ASSUME NEW id \in DOMAIN accepted', ~SpatialInput(accepted'[id].kind),
                        accepted'[id].epoch = epoch
                 PROVE  Found(id)'
      BY <1>2 DEF DurableFound, SpatialInput
    <2>1. CASE id = N
      BY <1>16, <2>1
    <2>2. CASE id \in DOMAIN accepted
      <3>1. ~SpatialInput(accepted[id].kind) /\ accepted[id].epoch = epoch
        BY <1>4, <2>2
      <3>2. Found(id)
        BY <2>2, <3>1 DEF Kept, DurableFound
      <3>3. ASSUME NEW k \in DOMAIN queue, queue[k].id = id
            PROVE  \E i \in DOMAIN queue' : queue'[i].id = id
        <4>1. ~SpatialInput(queue[k].kind)
          BY <3>1, <3>3 DEF OInv, Named
        <4>2. PICK i \in DOMAIN q : q[i].id = id
          BY <1>12, <2>2, <3>1, <3>3, <4>1
        <4>3. q[i].kind # "move"
          BY <1>9, <3>1, <4>2 DEF SpatialInput
        <4> QED BY <1>6, <4>2, <4>3
      <3> QED BY <1>14, <1>15, <3>2, <3>3
    <2> QED BY <1>4, <2>1, <2>2
  <1>19. ASSUME FreshMoves # {}
         PROVE  /\ q = queue /\ entry.context = where /\ entry.epoch = epoch
                /\ \E m : Latest(FreshMoves, m) /\ Found(m)
    BY <1>13, <1>19 DEF FreshMoves, Kept, LatestFound
  <1>20. LatestFound'
    <2> SUFFICES ASSUME FreshMoves' # {}
                 PROVE  \E m : Latest(FreshMoves', m) /\ Found(m)'
      BY DEF LatestFound, Latest
    <2>1. CASE N \in FreshMoves'
      <3>1. \A x \in FreshMoves' : x <= N
        <4>1. FreshMoves' \subseteq DOMAIN accepted'
          BY DEF FreshMoves
        <4> QED BY <1>4, <1>7, <4>1
      <3> QED BY <1>16, <2>1, <3>1 DEF Latest
    <2>2. CASE N \notin FreshMoves'
      <3>1. FreshMoves' = FreshMoves
        BY <1>4, <1>17, <2>2 DEF FreshMoves
      <3>2. PICK m : Latest(FreshMoves, m) /\ Found(m)
        BY <1>19, <3>1
      <3>3. entry.kind # "move" /\ q = queue
        <4>1. entry.context = where /\ entry.epoch = epoch /\ q = queue
          BY <1>19, <3>1
        <4>2. Fresh(N)'
          BY <1>2, <1>4, <4>1 DEF Fresh
        <4> QED BY <1>4, <2>2, <4>1, <4>2 DEF FreshMoves
      <3>4. Found(m)'
        BY <1>6, <1>14, <1>15, <3>2, <3>3
      <3> QED BY <3>1, <3>2, <3>4
    <2> QED BY <2>1, <2>2
  <1>21. \A id \in DOMAIN accepted : /\ MovesBefore(id)' = MovesBefore(id)
                                     /\ Follows(id)' <=> Follows(id)
    BY <1>4 DEF MovesBefore, Follows
  <1>22. HandSees'
    <2> SUFFICES ASSUME NEW w \in Workers, hand'[w] # None, Follows(hand[w].id)', Fresh(hand[w].id)'
                 PROVE  \E m : Latest(MovesBefore(hand[w].id)', m) /\ Done(m)'
      BY DEF HandSees, Latest
    <2>1. hand'[w] = hand[w] /\ hand[w].id \in DOMAIN accepted
      BY <1>3 DEF OInv, Named
    <2>2. Follows(hand[w].id) /\ Fresh(hand[w].id) /\ MovesBefore(hand[w].id)' = MovesBefore(hand[w].id)
      BY <1>2, <1>4, <2>1 DEF Follows, Fresh, MovesBefore
    <2>3. PICK m : Latest(MovesBefore(hand[w].id), m) /\ Done(m)
      BY <2>1, <2>2 DEF Kept, HandSees
    <2> QED BY <1>14, <2>2, <2>3
  <1>23. QueueSees'
    <2> SUFFICES ASSUME NEW i \in DOMAIN queue', NEW id, id = queue'[i].id, Follows(id)', Fresh(id)'
                 PROVE  \E m : Latest(MovesBefore(id)', m) /\ (Done(m)' \/ Held(m)' \/ Ahead(m, i)')
      BY DEF QueueSees, Latest, Follows, Fresh, MovesBefore
    <2>1. queue'[i].kind \in {"cast", "durable"}
      BY <1>8 DEF OInv, Named, Follows
    <2>2. CASE /\ queue'[i] = entry
               /\ \A k \in DOMAIN q : \E h \in DOMAIN queue' : h < i /\ queue'[h] = q[k]
      <3>1. id = N
        BY <1>7, <2>2
      <3>2. MovesBefore(id)' = FreshMoves
        <4>1. accepted'[N].context = where /\ accepted'[N].epoch = epoch
          BY <1>2, <3>1 DEF Fresh
        <4>2. 1 .. N - 1 = DOMAIN accepted
          BY <1>0, <1>4
        <4> QED BY <1>4, <3>1, <4>1, <4>2 DEF MovesBefore, FreshMoves, Fresh
      <3>3. FreshMoves # {}
        BY <3>2 DEF Follows
      <3>4. PICK m : Latest(FreshMoves, m) /\ Found(m)
        BY <1>19, <3>3
      <3>5. q = queue
        BY <1>19, <3>3
      <3>6. (\E k \in DOMAIN queue : queue[k].id = m) => Ahead(m, i)'
        BY <2>2, <3>5 DEF Ahead
      <3> QED BY <1>14, <1>15, <3>2, <3>4, <3>6
    <2>3. ASSUME NEW j \in DOMAIN q, queue'[i] = q[j],
                 \A k \in DOMAIN q : k < j => \E h \in DOMAIN queue' : h < i /\ queue'[h] = q[k]
          PROVE  \E m : Latest(MovesBefore(id)', m) /\ (Done(m)' \/ Held(m)' \/ Ahead(m, i)')
      <3>1. id \in DOMAIN accepted /\ id = q[j].id
        BY <1>9, <2>3
      <3>2. Fresh(id) /\ Follows(id) /\ MovesBefore(id)' = MovesBefore(id)
        BY <1>17, <1>21, <3>1
      <3>3. q = queue
        BY <1>13, <3>1, <3>2
      <3>4. PICK m : Latest(MovesBefore(id), m) /\ (Done(m) \/ Held(m) \/ Ahead(m, j))
        BY <2>3, <3>1, <3>2, <3>3 DEF Kept, QueueSees
      <3>5. Ahead(m, j) => Ahead(m, i)'
        BY <2>3, <3>3 DEF Ahead
      <3> QED BY <1>14, <3>2, <3>4, <3>5
    <2> QED BY <1>6, <2>1, <2>2, <2>3
  <1> QED BY <1>10, <1>11, <1>18, <1>20, <1>22, <1>23

\* Every step keeps what is found and what it must see.
LEMMA KInvInductive == Ind /\ OInv /\ KInv /\ [Next]_vars => KInv'
  <1> SUFFICES ASSUME Ind, OInv, KInv, [Next]_vars PROVE KInv'
    OBVIOUS
  <1>1. Arrivals'
    BY ArrivalsKept DEF KInv
  <1>2. ASSUME Live'
        PROVE  Carried' /\ Kept'
    <2>1. Live /\ Arrivals /\ Carried /\ Kept
      BY <1>2, GivenUpForGood DEF KInv
    <2>2. LogSees'
      BY <2>1, LogSeesNext
    <2>3. CASE Enqueue
      <3>1. Carried' /\ LastContext' /\ DurableFound' /\ LatestFound' /\ QueueSees' /\ HandSees'
        BY <1>2, <2>1, <2>3, EnqueueSaves
      <3> QED BY <2>2, <3>1 DEF Kept
    <2>4. CASE ~Enqueue
      <3>1. PICK n \in Nat : Passes(n)
        BY <1>2, <2>1, <2>4, StepPasses
      <3>2. Carried' /\ LastContext' /\ DurableFound' /\ LatestFound' /\ QueueSees'
        BY <2>1, <3>1, PassesKeeps
      <3>3. HandSees'
        BY <1>2, <2>1, <2>4, <3>1, HandsSee
      <3> QED BY <2>2, <3>2, <3>3 DEF Kept
    <2> QED BY <2>3, <2>4
  <1> QED BY <1>1, <1>2 DEF KInv

\* Nothing has arrived.
LEMMA InitKInv == Init => KInv
  <1> SUFFICES ASSUME Init PROVE KInv
    OBVIOUS
  <1>1. DOMAIN queue = {} /\ DOMAIN log = {} /\ DOMAIN accepted = {} /\ accepted = <<>>
    BY DEF Init
  <1>2. \A w \in Workers : hand[w] = None
    BY Distinct DEF Init
  <1>3. pc[Receiver] # "enqueue"
    BY Distinct DEF Init
  <1>4. Arrivals
    BY <1>1, <1>3 DEF Arrivals
  <1>5. Carried
    BY <1>1, <1>2 DEF Carried
  <1>6. FreshMoves = {}
    BY <1>1 DEF FreshMoves
  <1>7. Kept
    BY <1>1, <1>2, <1>6 DEF Kept, LastContext, DurableFound, LatestFound, QueueSees, HandSees, LogSees
  <1> QED BY <1>4, <1>5, <1>7 DEF KInv

\* The invariant of everything kept, with what it rests on.
LEMMA AllKept == Spec => [](Ind /\ OInv /\ KInv)
  <1>1. Init => Ind /\ OInv /\ KInv
    BY InitInd, InitOInv, InitKInv
  <1>2. Ind /\ OInv /\ KInv /\ [Next]_vars => (Ind /\ OInv /\ KInv)'
    BY IndInductive, OInvInductive, KInvInductive
  <1> QED BY <1>1, <1>2, PTL DEF Spec

\* A request for actors or another command that is not spatial, accepted from a
\* player who has not left the map since, waits in the queue or in a worker's
\* hand or is executed: no change of phase, no stale head, no full batch and no
\* renewal of the queue loses it, unless the session is given up.
THEOREM DurableStays == Spec => []DurableIsKept
  <1>1. KInv => DurableIsKept
    BY DEF KInv, Live, Kept, DurableFound, Found, Done, DurableIsKept
  <1> QED BY <1>1, AllKept, PTL

\* A cast or another command executed where it was received comes after the
\* last move received before it there: the place it takes effect at is the one
\* the player sent it from, unless the session is given up.
THEOREM MovesComeFirst == Spec => []CommandsSeeTheirMoves
  <1>1. Ind /\ KInv => CommandsSeeTheirMoves
    <2> SUFFICES ASSUME Ind, KInv, Live, NEW k \in DOMAIN log, NEW id, id = log[k].id,
                        accepted[id].kind \in {"cast", "durable"},
                        log[k].at = accepted[id].context, log[k].epoch = accepted[id].epoch,
                        MovesBefore(id) # {}
                 PROVE  \E j \in 1 .. k - 1 : \A m \in MovesBefore(id) :
                            log[j].id \in MovesBefore(id) /\ m <= log[j].id
      BY DEF Live, CommandsSeeTheirMoves
    <2>1. PICK j \in DOMAIN log : j < k /\ Latest(MovesBefore(id), log[j].id)
      BY DEF KInv, Kept, LogSees, Follows
    <2>2. j \in 1 .. k - 1
      BY <2>1, HandFacts
    <2> QED BY <2>1, <2>2 DEF Latest
  <1> QED BY <1>1, AllKept, PTL
=============================================================================
