------------------------ MODULE ReliableReceiveProofs ------------------------
(***************************************************************************)
(* Proofs about ReliableReceive, for any windows, histories, limits and    *)
(* channels, and any number of messages that is at most half the circle of *)
(* indexes.  The frame and order indexes of the wire are followed back to  *)
(* the positions they stand for: what is behind the base was accepted, and *)
(* what a channel has gone past was handed out.  That nothing is executed  *)
(* twice or out of turn needs nothing of the datagram numbers; that what   *)
(* was acknowledged is kept holds while they have not been used up.        *)
(***************************************************************************)
EXTENDS ReliableReceive, FiniteSetTheorems, TLAPS

\* The datagrams have not used up the numbers of the wire.
Unwrapped == numbered <= Modulus

\* The position an index stands for: how many indexes it is beyond Start.
At(w) == Distance(w, Start)

-----------------------------------------------------------------------------
(* The invariant *)

\* An ordered message has its order index for itself, and orders and sequence
\* numbers of a channel grow with the stamps.
Fits(s) ==
    /\ msgs[s].order < MaxMessages /\ msgs[s].seq < MaxMessages
    /\ msgs[s].order <= OrdersSent(Chan(s))
    /\ msgs[s].kind = "ordered" => msgs[s].order < OrdersSent(Chan(s))
    /\ (msgs[s].kind = "sequenced" /\ msgs[s].order = OrdersSent(Chan(s)))
         => msgs[s].seq < SequencedSince(Chan(s))

Numbering == Len(msgs) <= MaxMessages /\ \A s \in DOMAIN msgs : Fits(s)

Precedes(s, t) ==
    /\ msgs[s].order <= msgs[t].order
    /\ msgs[s].kind = "ordered" => msgs[s].order < msgs[t].order
    /\ (msgs[s].kind = "sequenced" /\ msgs[t].kind = "sequenced" /\ msgs[s].order = msgs[t].order)
         => msgs[s].seq < msgs[t].seq

Monotone == \A s, t \in DOMAIN msgs : s < t /\ Chan(s) = Chan(t) => Precedes(s, t)

\* A frame is one part of one reliable message, and a datagram carries what it says.
Framing ==
    /\ Len(framed) <= MaxFrames
    /\ \A f \in DOMAIN framed :
         /\ framed[f].stamp \in DOMAIN msgs
         /\ framed[f].part \in 1..msgs[framed[f].stamp].parts
         /\ msgs[framed[f].stamp].kind # "sequenced"
    /\ \A f, g \in DOMAIN framed : framed[f] = framed[g] => f = g

Carried ==
    \A d \in net :
        /\ d.stamp \in DOMAIN msgs
        /\ d.frame # 0 => d.frame \in DOMAIN framed /\ framed[d.frame].stamp = d.stamp
        /\ d.frame = 0 => msgs[d.stamp].kind = "sequenced"

\* Frames behind the base, and those noted ahead of it, were accepted.
Accepted(f) == f <= At(base) \/ Wire(Start + (f - 1)) \in ahead

Window ==
    /\ At(base) <= Len(framed)
    /\ \A w \in ahead : \E f \in DOMAIN framed : f >= At(base) + 2 /\ w = Wire(Start + (f - 1))

\* What is collected of a message came in accepted frames.
Backed(x) ==
    /\ x.stamp \in DOMAIN msgs /\ x.have # {}
    /\ \A p \in x.have :
          \E f \in DOMAIN framed :
             Accepted(f) /\ framed[f].stamp = x.stamp /\ framed[f].part = p

Collected == \A i \in DOMAIN partials : Backed(partials[i])

\* A channel expects an order index that the client has reached, and holds only what
\* is beyond it, at most one ordered and one sequenced message of an index.
Turns == \A c \in Channels : At(expected[c]) <= OrdersSent(c) /\ seqNext[c] <= MaxMessages

Waiting ==
    /\ \A h \in held : /\ h.stamp \in DOMAIN msgs /\ h.channel = Chan(h.stamp)
                       /\ h.kind = msgs[h.stamp].kind /\ h.kind # "plain"
                       /\ h.index = Order(h.stamp)
                       /\ At(expected[h.channel]) < msgs[h.stamp].order
    /\ \A g, h \in held : g.channel = h.channel /\ g.index = h.index /\ g.kind = h.kind => g = h

\* A message its channel has gone past.
Below(s) ==
    \/ msgs[s].order < At(expected[Chan(s)])
    \/ /\ msgs[s].kind = "sequenced" /\ msgs[s].order = At(expected[Chan(s)])
       /\ msgs[s].seq < seqNext[Chan(s)]

Out == Range(handed) \cup Range(handing) \cup skipped

\* What came out was one whole message: its channel has gone past it, or, if it has no
\* order, all its frames are accepted.
Passed ==
    \A s \in Out :
        /\ s \in DOMAIN msgs
        /\ msgs[s].kind # "plain" => Below(s)
        /\ msgs[s].kind = "plain" =>
              \A f \in DOMAIN framed : framed[f].stamp = s => Accepted(f)

\* Every ordered message that a channel has gone past has come out.
Reached ==
    \A c \in Channels, k \in Nat :
        k < At(expected[c]) =>
            \E s \in Out : msgs[s].channel = c /\ msgs[s].kind = "ordered" /\ msgs[s].order = k

\* OnceInOrder, of what was handed out and what is about to be.
Follows(s, t) ==
    /\ s # t
    /\ (msgs[s].channel = msgs[t].channel /\ msgs[s].kind # "plain" /\ msgs[t].kind # "plain") => s < t

Lined(q) == \A i, j \in DOMAIN q : i < j => Follows(q[i], q[j])

InLine ==
    /\ Lined(handed) /\ Lined(handing)
    /\ \A s \in Range(handed) \cup skipped, t \in Range(handing) : Follows(s, t)

\* The ordered messages shown to the application are the first ones, each at its place.
Serial ==
    \A c \in Channels :
        /\ \A i \in Shown(c) : msgs[handed[i]].order = Cardinality({j \in Shown(c) : j < i})
        /\ \A k \in 0..(Cardinality(Shown(c)) - 1) : \E i \in Shown(c) : msgs[handed[i]].order = k

Behind == TypeOK /\ Numbering /\ Monotone /\ Framing /\ Carried
ReceiveInv ==
    /\ Behind /\ Window /\ Collected /\ Turns /\ Waiting /\ Passed /\ Reached /\ InLine /\ Serial

\* A number is one datagram's, and what is in the history was one.
Numbered ==
    /\ \A d \in net : d.number \in 1..numbered
    /\ \A d, e \in net : d.number = e.number => d = e
    /\ \A i \in DOMAIN seen : \E n \in 1..numbered : seen[i] = Wire(Start + n)

Kept(s) == s \in InHand \cup Lost

KeptInv ==
    /\ Numbered
    /\ \A f \in DOMAIN framed : Accepted(f) => Kept(framed[f].stamp)
    /\ \A d \in net : Seen(d) /\ d.frame # 0 => Kept(d.stamp)
    /\ AckedIsKept

-----------------------------------------------------------------------------
(* The circle of indexes *)

LEMMA ModulusIs == Modulus \in Nat /\ Modulus > 0 /\ Start \in Nat
  BY ReceiveAssumption

LEMMA RemainderIs ==
    ASSUME NEW n \in Int
    PROVE  /\ n % Modulus \in 0..(Modulus - 1) /\ n \div Modulus \in Int
           /\ n = Modulus * (n \div Modulus) + (n % Modulus)
  BY ReceiveAssumption

LEMMA RemainderUnique ==
    ASSUME NEW n \in Int, NEW q \in Int, NEW r \in 0..(Modulus - 1), n = Modulus * q + r
    PROVE  n % Modulus = r
  <1>1. PICK k \in Int, m \in Int : m = n % Modulus /\ m \in 0..(Modulus - 1) /\ n = Modulus * k + m
    BY RemainderIs
  <1>2. Modulus * (k - q) = r - m
    BY <1>1, ModulusIs
  <1>3. CASE k - q >= 1
    <2>1. Modulus * (k - q) >= Modulus
      BY <1>1, <1>3, ModulusIs
    <2> QED BY <1>1, <1>2, <2>1, ModulusIs
  <1>4. CASE k - q <= -1
    <2>1. Modulus * (k - q) <= -Modulus
      BY <1>1, <1>4, ModulusIs
    <2> QED BY <1>1, <1>2, <2>1, ModulusIs
  <1>5. CASE k - q = 0
    BY <1>1, <1>2, <1>5, ModulusIs
  <1> QED BY <1>1, <1>3, <1>4, <1>5

LEMMA WireIs ==
    ASSUME NEW n \in Int
    PROVE  Wire(n) \in 0..(Modulus - 1) /\ \E k \in Int : Wire(n) = n - Modulus * k
  <1>1. PICK k \in Int, r \in Int : n % Modulus = r /\ r \in 0..(Modulus - 1) /\ n = Modulus * k + r
    BY RemainderIs
  <1> QED BY <1>1, ModulusIs DEF Wire

LEMMA WireForm ==
    ASSUME NEW n \in Nat
    PROVE  \E k \in Int : Wire(Start + n) = Start + n - Modulus * k
  <1>1. PICK m \in Int : m = Start + n
    BY ModulusIs
  <1>2. PICK k \in Int : Wire(m) = m - Modulus * k
    BY WireIs
  <1>3. Wire(Start + n) = Start + n - Modulus * k
    BY <1>1, <1>2, ModulusIs
  <1> QED BY <1>3

\* An index and its position say the same, short of a whole turn.
LEMMA AtWire ==
    ASSUME NEW n \in 0..(Modulus - 1) PROVE At(Wire(Start + n)) = n
  <1>1. PICK k \in Int : Wire(Start + n) = Start + n - Modulus * k
    BY WireForm
  <1>2. Wire(Start + n) - Start = Modulus * (-k) + n /\ -k \in Int
    BY <1>1, ModulusIs
  <1> QED BY <1>2, RemainderUnique, ModulusIs DEF At, Distance

LEMMA WireAt ==
    ASSUME NEW w \in 0..(Modulus - 1)
    PROVE  At(w) \in 0..(Modulus - 1) /\ Wire(Start + At(w)) = w
  <1>1. PICK k \in Int, r \in Int : At(w) = r /\ r \in 0..(Modulus - 1) /\ w - Start = Modulus * k + r
    BY RemainderIs, ModulusIs DEF At, Distance
  <1>2. Start + r = Modulus * (-k) + w /\ -k \in Int /\ Start + r \in Int
    BY <1>1, ModulusIs
  <1> QED BY <1>1, <1>2, RemainderUnique DEF Wire

LEMMA WireOneToOne ==
    ASSUME NEW a \in 0..(Modulus - 1), NEW b \in 0..(Modulus - 1), Wire(Start + a) = Wire(Start + b)
    PROVE  a = b
  BY AtWire

LEMMA WireOn ==
    ASSUME NEW w \in 0..(Modulus - 1), NEW k \in Nat
    PROVE  Wire(w + k) = Wire(Start + (At(w) + k))
  <1>1. PICK a \in 0..(Modulus - 1) : a = At(w) /\ Wire(Start + a) = w
    BY WireAt
  <1>2. PICK p \in Int : w = Start + a - Modulus * p
    BY <1>1, WireForm
  <1>3. PICK q \in Int, r \in 0..(Modulus - 1) :
          Wire(Start + (a + k)) = r /\ r = Start + (a + k) - Modulus * q
    <2>1. PICK m \in Int : m = Start + (a + k)
      BY ModulusIs
    <2>2. Wire(m) \in 0..(Modulus - 1) /\ \E q \in Int : Wire(m) = m - Modulus * q
      BY WireIs
    <2> QED BY <2>1, <2>2, ModulusIs
  <1>4. w + k = Modulus * (q - p) + r /\ q - p \in Int /\ w + k \in Int
    BY <1>2, <1>3, ModulusIs
  <1>5. (w + k) % Modulus = r
    BY <1>4, RemainderUnique
  <1> QED BY <1>1, <1>3, <1>5 DEF Wire

LEMMA HalfIs == Half \in Nat /\ 2 * Half <= Modulus /\ Modulus <= 2 * Half + 1
  BY ModulusIs DEF Half

\* Less than half the circle ahead is ahead, the rest is behind.
LEMMA CloseIs ==
    ASSUME NEW N \in Nat, 2 * N <= Modulus, NEW a \in 0..(N - 1), NEW b \in 0..N,
           NEW x \in Int, NEW k \in Int, x = a - b - Modulus * k
    PROVE  /\ a >= b => x % Modulus = a - b /\ a - b < Half
           /\ a < b => x % Modulus >= Half
  <1>1. ASSUME a >= b PROVE x % Modulus = a - b /\ a - b < Half
    <2>1. x = Modulus * (-k) + (a - b) /\ -k \in Int /\ a - b \in 0..(Modulus - 1)
      BY <1>1, ModulusIs
    <2> QED BY <2>1, RemainderUnique, HalfIs, ModulusIs
  <1>2. ASSUME a < b PROVE x % Modulus >= Half
    <2>1. x = Modulus * (-k - 1) + (a - b + Modulus) /\ -k - 1 \in Int
          /\ a - b + Modulus \in 0..(Modulus - 1)
      BY <1>2, ModulusIs
    <2>2. x % Modulus = a - b + Modulus
      BY <2>1, RemainderUnique
    <2> QED BY <2>2, HalfIs, ModulusIs
  <1> QED BY <1>1, <1>2, ModulusIs

LEMMA Ahead ==
    ASSUME NEW N \in Nat, 2 * N <= Modulus, NEW a \in 0..(N - 1), NEW b \in 0..N
    PROVE  LET D == Distance(Wire(Start + a), Wire(Start + b))
           IN  /\ D \in 0..(Modulus - 1)
               /\ a >= b => D = a - b /\ D < Half
               /\ a < b => D >= Half
  <1>1. PICK p \in Int : Wire(Start + a) = Start + a - Modulus * p
    BY WireForm
  <1>2. PICK q \in Int : Wire(Start + b) = Start + b - Modulus * q
    BY WireForm
  <1>3. PICK x \in Int : x = Wire(Start + a) - Wire(Start + b)
    BY <1>1, <1>2, ModulusIs
  <1>4. x = a - b - Modulus * (p - q) /\ p - q \in Int
    BY <1>1, <1>2, <1>3, ModulusIs
  <1>5. (a >= b => x % Modulus = a - b /\ a - b < Half) /\ (a < b => x % Modulus >= Half)
    BY <1>4, CloseIs
  <1> QED BY <1>3, <1>5, RemainderIs DEF Distance

LEMMA AheadPlain ==
    ASSUME NEW N \in Nat, 2 * N <= Modulus, NEW a \in 0..(N - 1), NEW b \in 0..N
    PROVE  /\ Distance(a, b) \in 0..(Modulus - 1)
           /\ a >= b => Distance(a, b) = a - b /\ Distance(a, b) < Half
           /\ a < b => Distance(a, b) >= Half
  <1>1. PICK x \in Int : x = a - b
    OBVIOUS
  <1>2. x = a - b - Modulus * 0
    BY <1>1, ModulusIs
  <1>3. (a >= b => x % Modulus = a - b /\ a - b < Half) /\ (a < b => x % Modulus >= Half)
    BY <1>2, CloseIs
  <1> QED BY <1>1, <1>3, RemainderIs DEF Distance

LEMMA Bounds ==
    /\ MaxMessages \in Nat /\ 2 * MaxMessages <= Modulus /\ MaxMessages < Modulus
    /\ MaxFrames \in Nat /\ 2 * MaxFrames <= Modulus /\ MaxFrames < Modulus
  BY ReceiveAssumption

-----------------------------------------------------------------------------
(* Sequences *)

LEMMA AppendIs ==
    ASSUME NEW S, NEW q \in Seq(S), NEW x \in S
    PROVE  /\ Append(q, x) \in Seq(S)
           /\ Len(Append(q, x)) = Len(q) + 1
           /\ DOMAIN Append(q, x) = 1..(Len(q) + 1) /\ DOMAIN q = 1..Len(q) /\ Len(q) \in Nat
           /\ \A i \in DOMAIN q : Append(q, x)[i] = q[i]
           /\ Append(q, x)[Len(q) + 1] = x
           /\ Range(Append(q, x)) = Range(q) \cup {x}
  <1>1. /\ Append(q, x) \in Seq(S)
        /\ Len(Append(q, x)) = Len(q) + 1
        /\ DOMAIN Append(q, x) = 1..(Len(q) + 1) /\ DOMAIN q = 1..Len(q) /\ Len(q) \in Nat
        /\ \A i \in DOMAIN q : Append(q, x)[i] = q[i]
        /\ Append(q, x)[Len(q) + 1] = x
    OBVIOUS
  <1>2. \A i \in 1..(Len(q) + 1) : i \in 1..Len(q) \/ i = Len(q) + 1
    BY <1>1
  <1>3. Range(Append(q, x)) = Range(q) \cup {x}
    BY <1>1, <1>2 DEF Range
  <1> QED BY <1>1, <1>3

LEMMA TailIs ==
    ASSUME NEW S, NEW q \in Seq(S), q # <<>>
    PROVE  /\ Tail(q) \in Seq(S) /\ Len(Tail(q)) = Len(q) - 1 /\ Len(q) \in Nat /\ Len(q) > 0
           /\ DOMAIN q = 1..Len(q) /\ DOMAIN Tail(q) = 1..(Len(q) - 1)
           /\ \A i \in DOMAIN Tail(q) : i + 1 \in DOMAIN q /\ Tail(q)[i] = q[i + 1]
           /\ Head(q) = q[1] /\ Head(q) \in S /\ 1 \in DOMAIN q
           /\ Range(q) = {Head(q)} \cup Range(Tail(q))
  <1>1. /\ Tail(q) \in Seq(S) /\ Len(Tail(q)) = Len(q) - 1 /\ Len(q) \in Nat /\ Len(q) > 0
        /\ DOMAIN q = 1..Len(q) /\ DOMAIN Tail(q) = 1..(Len(q) - 1)
        /\ \A i \in DOMAIN Tail(q) : i + 1 \in DOMAIN q /\ Tail(q)[i] = q[i + 1]
        /\ Head(q) = q[1] /\ Head(q) \in S /\ 1 \in DOMAIN q
    OBVIOUS
  <1>2. \A i \in 1..Len(q) : i = 1 \/ (i - 1 \in 1..(Len(q) - 1) /\ (i - 1) + 1 = i)
    BY <1>1
  <1>3. Range(q) \subseteq {Head(q)} \cup Range(Tail(q))
    <2> SUFFICES ASSUME NEW i \in DOMAIN q PROVE q[i] \in {Head(q)} \cup Range(Tail(q))
      BY DEF Range
    <2>1. CASE i = 1
      BY <1>1, <2>1
    <2>2. CASE i - 1 \in 1..(Len(q) - 1) /\ (i - 1) + 1 = i
      <3>1. Tail(q)[i - 1] = q[i]
        BY <1>1, <2>2
      <3> QED BY <1>1, <2>2, <3>1 DEF Range
    <2> QED BY <1>1, <1>2, <2>1, <2>2
  <1>4. {Head(q)} \cup Range(Tail(q)) \subseteq Range(q)
    BY <1>1 DEF Range
  <1> QED BY <1>1, <1>3, <1>4

LEMMA RangeIs ==
    ASSUME NEW S, NEW q \in Seq(S)
    PROVE  Range(q) = {q[i] : i \in 1..Len(q)} /\ Range(q) \subseteq S /\ DOMAIN q = 1..Len(q)
  BY DEF Range

-----------------------------------------------------------------------------
(* The client's messages and their numbers *)

LEMMA MessageIs ==
    ASSUME TypeOK, NEW s \in DOMAIN msgs
    PROVE  /\ msgs[s] \in Message /\ msgs[s].channel \in Channels /\ msgs[s].kind \in Kinds
           /\ msgs[s].order \in Nat /\ msgs[s].seq \in Nat /\ msgs[s].parts \in Nat
           /\ s \in 1..Len(msgs) /\ Len(msgs) \in Nat /\ s \in Nat
  <1>1. msgs \in Seq(Message)
    BY DEF TypeOK
  <1>2. msgs[s] \in Message /\ s \in 1..Len(msgs) /\ Len(msgs) \in Nat /\ s \in Nat
    BY <1>1
  <1> QED BY <1>2 DEF Message

LEMMA UpTo ==
    ASSUME NEW n \in Nat, NEW T \in SUBSET (1..n)
    PROVE  IsFiniteSet(T) /\ Cardinality(T) \in Nat /\ Cardinality(T) <= n
  <1>1. IsFiniteSet(1..n) /\ Cardinality(1..n) = IF 1 > n THEN 0 ELSE n - 1 + 1
    BY FS_Interval
  <1>2. Cardinality(1..n) = n
    BY <1>1
  <1> QED BY <1>1, <1>2, FS_Subset, FS_CardinalityType

LEMMA SentIs ==
    ASSUME msgs \in Seq(Message), NEW c
    PROVE  /\ \A k : IsFiniteSet(OnChannel(c, k)) /\ OnChannel(c, k) \subseteq DOMAIN msgs
           /\ OrdersSent(c) \in Nat /\ OrdersSent(c) <= Len(msgs)
           /\ SequencedSince(c) \in Nat /\ SequencedSince(c) <= Len(msgs)
  <1>1. Len(msgs) \in Nat /\ DOMAIN msgs = 1..Len(msgs)
    OBVIOUS
  <1>2. \A k : OnChannel(c, k) \in SUBSET (1..Len(msgs))
    BY <1>1 DEF OnChannel
  <1>3. {i \in OnChannel(c, "sequenced") : msgs[i].order = OrdersSent(c)} \in SUBSET (1..Len(msgs))
    BY <1>2
  <1> QED BY <1>1, <1>2, <1>3, UpTo DEF OrdersSent, SequencedSince

LEMMA SentNext ==
    ASSUME msgs' \in Seq(Message), NEW c
    PROVE  OrdersSent(c)' \in Nat /\ SequencedSince(c)' \in Nat
  <1>1. Len(msgs') \in Nat /\ DOMAIN msgs' = 1..Len(msgs')
    OBVIOUS
  <1>2. \A k : OnChannel(c, k)' \in SUBSET (1..Len(msgs'))
    BY <1>1 DEF OnChannel
  <1>3. {i \in OnChannel(c, "sequenced") : msgs[i].order = OrdersSent(c)}' \in SUBSET (1..Len(msgs'))
    BY <1>2
  <1> QED BY <1>1, <1>2, <1>3, UpTo DEF OrdersSent, SequencedSince

\* One more message: its channel has one more of its kind.
LEMMA OneMore ==
    ASSUME TypeOK, NEW m \in Message, msgs' = Append(msgs, m), NEW c
    PROVE  /\ OrdersSent(c)' = IF m.channel = c /\ m.kind = "ordered" THEN OrdersSent(c) + 1
                               ELSE OrdersSent(c)
           /\ (m.channel = c /\ m.kind = "sequenced" /\ m.order = OrdersSent(c))
                => SequencedSince(c)' = SequencedSince(c) + 1
           /\ ~(m.channel = c /\ m.kind = "ordered") => SequencedSince(c)' >= SequencedSince(c)
  <1> DEFINE n == Len(msgs) + 1
  <1>1. /\ msgs \in Seq(Message) /\ msgs' \in Seq(Message) /\ DOMAIN msgs = 1..Len(msgs)
        /\ DOMAIN msgs' = 1..n /\ msgs'[n] = m /\ \A i \in DOMAIN msgs : msgs'[i] = msgs[i]
        /\ Len(msgs) \in Nat
    BY AppendIs DEF TypeOK
  <1>2. DOMAIN msgs' = DOMAIN msgs \cup {n} /\ n \notin DOMAIN msgs
    BY <1>1
  <1> HIDE DEF n
  <1>3. ASSUME NEW kind
        PROVE  OnChannel(c, kind)' = IF m.channel = c /\ m.kind = kind THEN OnChannel(c, kind) \cup {n}
                                     ELSE OnChannel(c, kind)
    BY <1>1, <1>2 DEF OnChannel
  <1>4. ASSUME NEW kind
        PROVE  /\ IsFiniteSet(OnChannel(c, kind)) /\ n \notin OnChannel(c, kind)
               /\ Cardinality(OnChannel(c, kind)) \in Nat
    <2>1. IsFiniteSet(OnChannel(c, kind)) /\ OnChannel(c, kind) \subseteq DOMAIN msgs
      BY <1>1, SentIs
    <2> QED BY <1>2, <2>1, FS_CardinalityType
  <1>5. OrdersSent(c)' = IF m.channel = c /\ m.kind = "ordered" THEN OrdersSent(c) + 1
                         ELSE OrdersSent(c)
    BY <1>3, <1>4, FS_AddElement DEF OrdersSent
  <1> DEFINE since == {i \in OnChannel(c, "sequenced") : msgs[i].order = OrdersSent(c)}
  <1>6. IsFiniteSet(since) /\ n \notin since /\ Cardinality(since) \in Nat
    <2>1. since \in SUBSET OnChannel(c, "sequenced")
      OBVIOUS
    <2> QED BY <2>1, <1>4, FS_Subset, FS_CardinalityType
  <1>7. ASSUME ~(m.channel = c /\ m.kind = "ordered")
        PROVE  {i \in OnChannel(c, "sequenced")' : msgs'[i].order = OrdersSent(c)'}
                 = since \cup (IF m.channel = c /\ m.kind = "sequenced" /\ m.order = OrdersSent(c)
                               THEN {n} ELSE {})
    <2>1. OrdersSent(c)' = OrdersSent(c)
      BY <1>5, <1>7
    <2>2. \A i \in OnChannel(c, "sequenced") : i \in DOMAIN msgs
      BY DEF OnChannel
    <2>3. CASE m.channel = c /\ m.kind = "sequenced"
      <3>1. OnChannel(c, "sequenced")' = OnChannel(c, "sequenced") \cup {n}
        BY <1>3, <2>3
      <3> QED BY <1>1, <2>1, <2>2, <2>3, <3>1
    <2>4. CASE ~(m.channel = c /\ m.kind = "sequenced")
      <3>1. OnChannel(c, "sequenced")' = OnChannel(c, "sequenced")
        BY <1>3, <2>4
      <3> QED BY <1>1, <2>1, <2>2, <2>4, <3>1
    <2> QED BY <2>3, <2>4
  <1> HIDE DEF since
  <1>8. ASSUME ~(m.channel = c /\ m.kind = "ordered")
        PROVE  SequencedSince(c)' = IF m.channel = c /\ m.kind = "sequenced" /\ m.order = OrdersSent(c)
                                    THEN SequencedSince(c) + 1 ELSE SequencedSince(c)
    <2>1. SequencedSince(c) = Cardinality(since)
      BY DEF SequencedSince, since
    <2>2. SequencedSince(c)' = Cardinality(since \cup (IF m.channel = c /\ m.kind = "sequenced"
                                  /\ m.order = OrdersSent(c) THEN {n} ELSE {}))
      BY <1>7, <1>8 DEF SequencedSince
    <2>3. Cardinality(since \cup {n}) = Cardinality(since) + 1
      BY <1>6, FS_AddElement
    <2>4. since \cup {} = since
      OBVIOUS
    <2> QED BY <2>1, <2>2, <2>3, <2>4
  <1>9. SequencedSince(c) \in Nat
    BY <1>1, SentIs
  <1> QED BY <1>5, <1>8, <1>9

LEMMA SubmitNumbers ==
    ASSUME TypeOK, Numbering, Monotone, NEW c \in Channels, NEW kind \in Kinds, NEW parts \in Nat,
           Len(msgs) < MaxMessages, msgs' = Append(msgs, NewMessage(c, kind, parts))
    PROVE  /\ msgs' \in Seq(Message) /\ Len(msgs') = Len(msgs) + 1
           /\ DOMAIN msgs' = DOMAIN msgs \cup {Len(msgs) + 1} /\ Len(msgs) + 1 \notin DOMAIN msgs
           /\ \A s \in DOMAIN msgs : msgs'[s] = msgs[s]
           /\ msgs'[Len(msgs) + 1] = NewMessage(c, kind, parts)
           /\ \A d : OrdersSent(d)' >= OrdersSent(d)
           /\ Numbering' /\ Monotone'
  <1> DEFINE m == NewMessage(c, kind, parts)
  <1>0. PICK n \in Nat : n = Len(msgs) + 1
    BY DEF TypeOK
  <1>1. /\ m \in Message /\ m.channel = c /\ m.kind = kind /\ m.order = OrdersSent(c)
        /\ m.seq = SequencedSince(c) /\ OrdersSent(c) < MaxMessages /\ SequencedSince(c) < MaxMessages
        /\ OrdersSent(c) \in Nat /\ SequencedSince(c) \in Nat
    <2>1. /\ OrdersSent(c) \in Nat /\ SequencedSince(c) \in Nat
          /\ OrdersSent(c) <= Len(msgs) /\ SequencedSince(c) <= Len(msgs) /\ Len(msgs) \in Nat
      <3>1. msgs \in Seq(Message)
        BY DEF TypeOK
      <3>2. Len(msgs) \in Nat
        BY <3>1
      <3> QED BY <3>1, <3>2, SentIs
    <2>2. m \in Message
      BY <2>1 DEF NewMessage, Message
    <2> QED BY <2>1, <2>2, Bounds DEF NewMessage
  <1> HIDE DEF m
  <1>2. /\ msgs \in Seq(Message) /\ msgs' \in Seq(Message) /\ Len(msgs') = n /\ DOMAIN msgs = 1..Len(msgs)
        /\ DOMAIN msgs' = 1..n /\ msgs'[n] = m /\ \A i \in DOMAIN msgs : msgs'[i] = msgs[i]
        /\ Len(msgs) \in Nat
    BY <1>0, <1>1, AppendIs DEF TypeOK, m
  <1>3. DOMAIN msgs' = DOMAIN msgs \cup {n} /\ n \notin DOMAIN msgs /\ \A s \in DOMAIN msgs : s < n
    BY <1>2
  <1>4. ASSUME NEW d
        PROVE  /\ OrdersSent(d)' = IF c = d /\ kind = "ordered" THEN OrdersSent(d) + 1 ELSE OrdersSent(d)
               /\ (c = d /\ kind = "sequenced") => SequencedSince(d)' = SequencedSince(d) + 1
               /\ ~(c = d /\ kind = "ordered") => SequencedSince(d)' >= SequencedSince(d)
               /\ OrdersSent(d) \in Nat /\ SequencedSince(d) \in Nat /\ SequencedSince(d)' \in Nat
    <2>1. msgs' = Append(msgs, m)
      BY DEF m
    <2>2. OrdersSent(d) \in Nat /\ SequencedSince(d) \in Nat
      BY <1>2, SentIs
    <2>3. SequencedSince(d)' \in Nat
      BY <1>2, SentNext
    <2> QED BY <1>1, <2>1, <2>2, <2>3, OneMore
  <1>5. \A d : OrdersSent(d)' >= OrdersSent(d)
    BY <1>4
  <1>6. Numbering'
    <2>1. Len(msgs') <= MaxMessages
      BY <1>2, Bounds
    <2>2. ASSUME NEW s \in DOMAIN msgs PROVE Fits(s)'
      <3>1. msgs'[s] = msgs[s] /\ msgs[s].order \in Nat /\ msgs[s].seq \in Nat
        BY <1>2, MessageIs
      <3>2. PICK d : d = msgs[s].channel
        OBVIOUS
      <3>3. /\ msgs[s].order < MaxMessages /\ msgs[s].seq < MaxMessages
            /\ msgs[s].order <= OrdersSent(d)
            /\ msgs[s].kind = "ordered" => msgs[s].order < OrdersSent(d)
            /\ (msgs[s].kind = "sequenced" /\ msgs[s].order = OrdersSent(d))
                 => msgs[s].seq < SequencedSince(d)
        BY <3>2 DEF Numbering, Fits, Chan
      <3>4. /\ OrdersSent(d)' = OrdersSent(d) \/ OrdersSent(d)' = OrdersSent(d) + 1
            /\ OrdersSent(d)' = OrdersSent(d) => SequencedSince(d)' >= SequencedSince(d)
            /\ OrdersSent(d) \in Nat /\ SequencedSince(d) \in Nat /\ SequencedSince(d)' \in Nat
        <4>1. SequencedSince(d)' = SequencedSince(d) + 1 => SequencedSince(d)' >= SequencedSince(d)
          BY <1>4
        <4>2. OrdersSent(d)' # OrdersSent(d) + 1 => SequencedSince(d)' >= SequencedSince(d)
          BY <1>4
        <4> QED BY <1>4, <4>2
      <3>5. /\ msgs[s].order <= OrdersSent(d)'
            /\ msgs[s].kind = "ordered" => msgs[s].order < OrdersSent(d)'
            /\ (msgs[s].kind = "sequenced" /\ msgs[s].order = OrdersSent(d)')
                 => msgs[s].seq < SequencedSince(d)'
        BY <3>1, <3>3, <3>4
      <3>6. Chan(s)' = d
        BY <3>1, <3>2 DEF Chan
      <3> QED BY <3>1, <3>3, <3>5, <3>6 DEF Fits
    <2>3. Fits(n)'
      <3>1. msgs'[n] = m /\ Chan(n)' = c
        BY <1>1, <1>2 DEF Chan
      <3> QED BY <1>1, <1>4, <3>1 DEF Fits
    <2> QED BY <1>3, <2>1, <2>2, <2>3 DEF Numbering
  <1>7. Monotone'
    <2>1. SUFFICES ASSUME NEW s \in DOMAIN msgs', NEW t \in DOMAIN msgs', s < t,
                          msgs'[s].channel = msgs'[t].channel
                   PROVE  Precedes(s, t)'
      BY DEF Monotone, Chan
    <2>2. s \in DOMAIN msgs
      BY <1>2, <1>3, <2>1
    <2>3. CASE t \in DOMAIN msgs
      BY <1>2, <2>1, <2>2, <2>3 DEF Monotone, Precedes, Chan
    <2>4. CASE t = n
      <3>1. /\ msgs'[s] = msgs[s] /\ msgs'[t] = m /\ msgs[s].channel = c
            /\ msgs[s].order \in Nat /\ msgs[s].seq \in Nat
        BY <1>1, <1>2, <2>1, <2>2, <2>4, MessageIs
      <3> QED BY <1>1, <2>2, <3>1 DEF Numbering, Fits, Precedes, Chan
    <2> QED BY <1>3, <2>1, <2>3, <2>4
  <1> QED BY <1>0, <1>2, <1>3, <1>5, <1>6, <1>7 DEF m

\* An order index of a channel is one ordered message's.
LEMMA OneOrdered ==
    ASSUME TypeOK, Monotone, NEW s \in DOMAIN msgs, NEW t \in DOMAIN msgs, Chan(s) = Chan(t),
           msgs[s].kind = "ordered", msgs[t].kind = "ordered", msgs[s].order = msgs[t].order
    PROVE  s = t
  <1>1. s \in Nat /\ t \in Nat /\ msgs[s].order \in Nat /\ msgs[t].order \in Nat
    BY MessageIs
  <1>2. ~(s < t) /\ ~(t < s)
    BY <1>1 DEF Monotone, Precedes
  <1> QED BY <1>1, <1>2

LEMMA PositionIs ==
    ASSUME TypeOK
    PROVE  /\ At(base) \in 0..(Modulus - 1) /\ Wire(Start + At(base)) = base
           /\ \A c \in Channels : /\ At(expected[c]) \in 0..(Modulus - 1)
                                  /\ Wire(Start + At(expected[c])) = expected[c]
  BY WireAt DEF TypeOK

-----------------------------------------------------------------------------
(* The client and the network *)

\* What a step of theirs does to what the server knows: messages and frames are
\* added, the added frames are of added messages.
Grown ==
    /\ \A s \in DOMAIN msgs : s \in DOMAIN msgs' /\ msgs'[s] = msgs[s]
    /\ \A f \in DOMAIN framed : f \in DOMAIN framed' /\ framed'[f] = framed[f]
    /\ \A f \in DOMAIN framed' : f \notin DOMAIN framed => framed'[f].stamp \notin DOMAIN msgs
    /\ Len(framed) <= Len(framed')
    /\ \A c : OrdersSent(c)' >= OrdersSent(c)
    /\ ClientFrame

Progress == Window /\ Collected /\ Turns /\ Waiting /\ Passed /\ Reached /\ InLine /\ Serial

LEMMA OutIs ==
    ASSUME TypeOK, Passed
    PROVE  /\ \A i \in DOMAIN handed : handed[i] \in DOMAIN msgs
           /\ \A i \in DOMAIN handing : handing[i] \in DOMAIN msgs
           /\ skipped \subseteq DOMAIN msgs
  BY DEF Passed, Out, Range

LEMMA GrownKeeps ==
    ASSUME TypeOK, TypeOK', Progress, Grown
    PROVE  Progress'
  <1>1. /\ seen' = seen /\ base' = base /\ ahead' = ahead /\ partials' = partials
        /\ expected' = expected /\ seqNext' = seqNext /\ held' = held
        /\ handing' = handing /\ handed' = handed /\ skipped' = skipped
    BY DEF Grown, ClientFrame, frameVars, orderVars, handVars
  <1>2. \A s \in DOMAIN msgs : /\ s \in DOMAIN msgs' /\ msgs'[s] = msgs[s] /\ Chan(s)' = Chan(s)
                               /\ Order(s)' = Order(s)
    BY DEF Grown, Chan, Order
  <1>3. \A f \in DOMAIN framed : f \in DOMAIN framed' /\ framed'[f] = framed[f]
    BY DEF Grown
  <1>4. \A f : Accepted(f)' <=> Accepted(f)
    BY <1>1 DEF Accepted
  <1>5. Window'
    <2>1. Len(framed) \in Nat /\ Len(framed') \in Nat /\ Len(framed) <= Len(framed')
          /\ At(base) \in Nat
      <3>1. framed \in Seq(Frame) /\ framed' \in Seq(Frame)
        BY DEF TypeOK
      <3>2. At(base) \in 0..(Modulus - 1)
        BY PositionIs
      <3> QED BY <3>1, <3>2, ModulusIs DEF Grown
    <2> QED BY <1>1, <1>3, <2>1 DEF Progress, Window
  <1>6. Collected'
    BY <1>1, <1>2, <1>3, <1>4 DEF Progress, Collected, Backed
  <1>7. Turns'
    <2> SUFFICES ASSUME NEW c \in Channels PROVE At(expected[c]) <= OrdersSent(c)' /\ seqNext[c] <= MaxMessages
      BY <1>1 DEF Turns
    <2>1. msgs \in Seq(Message) /\ msgs' \in Seq(Message)
      BY DEF TypeOK
    <2>2. OrdersSent(c) \in Nat /\ At(expected[c]) \in Nat
      <3>1. At(expected[c]) \in 0..(Modulus - 1)
        BY PositionIs
      <3> QED BY <2>1, <3>1, SentIs, ModulusIs
    <2>3. OrdersSent(c)' \in Nat
      BY <2>1, SentNext
    <2> QED BY <2>2, <2>3 DEF Progress, Turns, Grown
  <1>8. Waiting'
    BY <1>1, <1>2 DEF Progress, Waiting
  <1>9. \A s \in Out : s \in DOMAIN msgs /\ (Below(s)' <=> Below(s))
    BY <1>1, <1>2 DEF Progress, Passed, Below
  <1>10. Out' = Out
    BY <1>1 DEF Out
  <1>11. Passed'
    <2> SUFFICES ASSUME NEW s \in Out
                 PROVE  /\ s \in DOMAIN msgs'
                        /\ msgs'[s].kind # "plain" => Below(s)'
                        /\ msgs'[s].kind = "plain" =>
                             \A f \in DOMAIN framed' : framed'[f].stamp = s => Accepted(f)'
      BY <1>10 DEF Passed
    <2>1. s \in DOMAIN msgs /\ msgs'[s] = msgs[s] /\ s \in DOMAIN msgs'
      BY <1>2, <1>9
    <2>2. \A f \in DOMAIN framed' : framed'[f].stamp = s => f \in DOMAIN framed /\ framed[f].stamp = s
      BY <2>1, <1>3 DEF Grown
    <2> QED BY <1>4, <1>9, <2>1, <2>2 DEF Progress, Passed
  <1>12. Reached'
    BY <1>1, <1>2, <1>9, <1>10 DEF Progress, Reached
  <1>13. \A s, t \in Out : Follows(s, t)' <=> Follows(s, t)
    BY <1>2, <1>9 DEF Follows
  <1>14. InLine'
    <2>1. /\ \A i \in DOMAIN handed : handed[i] \in Out
          /\ \A i \in DOMAIN handing : handing[i] \in Out
          /\ Range(handed) \cup skipped \subseteq Out /\ Range(handing) \subseteq Out
      BY DEF Out, Range
    <2> QED BY <1>1, <1>13, <2>1 DEF Progress, InLine, Lined
  <1>15. Serial'
    <2>1. \A i \in DOMAIN handed : handed[i] \in DOMAIN msgs
      BY OutIs DEF Progress
    <2>2. skipped \subseteq DOMAIN msgs
      BY OutIs DEF Progress
    <2>3. \A c : Taken(c)' = Taken(c)
      BY <1>1, <1>2, <2>2 DEF Taken
    <2>4. \A c : Shown(c)' = Shown(c)
      BY <1>1, <1>2, <2>1, <2>3 DEF Shown
    <2>5. \A c : \A i \in Shown(c) : msgs'[handed[i]] = msgs[handed[i]]
      BY <1>2, <2>1 DEF Shown
    <2> QED BY <1>1, <2>4, <2>5 DEF Progress, Serial
  <1> QED BY <1>5, <1>6, <1>7, <1>8, <1>11, <1>12, <1>14, <1>15 DEF Progress

LEMMA JoinIs ==
    ASSUME NEW S, NEW q \in Seq(S), NEW n \in Nat, NEW r \in [1..n -> S]
    PROVE  /\ q \o r \in Seq(S) /\ Len(q \o r) = Len(q) + n
           /\ DOMAIN (q \o r) = 1..(Len(q) + n)
           /\ \A i \in DOMAIN q : (q \o r)[i] = q[i]
           /\ \A i \in 1..n : (q \o r)[Len(q) + i] = r[i]
  <1>1. r \in Seq(S) /\ Len(r) = n
    OBVIOUS
  <1> QED BY <1>1

LEMMA JoinedIs ==
    ASSUME NEW S, NEW q \in Seq(S), NEW r \in Seq(S)
    PROVE  /\ q \o r \in Seq(S) /\ Len(q \o r) = Len(q) + Len(r)
           /\ DOMAIN (q \o r) = 1..(Len(q) + Len(r))
           /\ \A i \in DOMAIN q : (q \o r)[i] = q[i]
           /\ \A i \in 1..Len(r) : (q \o r)[Len(q) + i] = r[i]
  OBVIOUS

LEMMA ClientTypes ==
    ASSUME TypeOK, ClientFrame, msgs' \in Seq(Message), framed' \in Seq(Frame),
           unacked' \subseteq DOMAIN framed', numbered' \in Nat, net' \subseteq Datagram, faults' \in Nat
    PROVE  TypeOK'
  <1>1. /\ seen' = seen /\ base' = base /\ ahead' = ahead /\ partials' = partials
        /\ expected' = expected /\ seqNext' = seqNext /\ held' = held
        /\ handing' = handing /\ raises' = raises /\ handed' = handed /\ skipped' = skipped
        /\ evicted' = evicted /\ refused' = refused
    BY DEF ClientFrame, frameVars, orderVars, handVars, lostVars
  <1> QED BY <1>1 DEF TypeOK

LEMMA SubmitReliableGrows ==
    ASSUME Behind, NEW c \in Channels, NEW kind \in {"ordered", "plain"}, NEW parts \in 1..MaxParts,
           SubmitReliable(c, kind, parts)
    PROVE  Behind' /\ Grown
  <1>0. /\ TypeOK /\ Numbering /\ Monotone /\ Framing /\ Carried /\ parts \in Nat /\ kind \in Kinds
        /\ kind # "sequenced"
    BY ReceiveAssumption DEF Behind, Kinds
  <1>1. PICK n \in Nat : n = Len(msgs) + 1
    BY <1>0 DEF TypeOK
  <1>2. PICK k \in Nat : k = Len(framed)
    BY <1>0 DEF TypeOK
  <1>3. PICK v \in Nat : v = numbered
    BY <1>0 DEF TypeOK
  <1> DEFINE new == [p \in 1..parts |-> [stamp |-> n, part |-> p]]
  <1>4. /\ Len(msgs) < MaxMessages /\ k + parts <= MaxFrames
        /\ msgs' = Append(msgs, NewMessage(c, kind, parts))
        /\ framed' = framed \o new
        /\ unacked' = unacked \cup (k + 1)..(k + parts)
        /\ numbered' = v + parts
        /\ net' = net \cup {Copy(v + p, k + p, n) : p \in 1..parts}
        /\ ClientFrame /\ faults' = faults
    BY <1>1, <1>2, <1>3 DEF SubmitReliable
  <1>5. /\ msgs' \in Seq(Message) /\ Len(msgs') = Len(msgs) + 1
        /\ DOMAIN msgs' = DOMAIN msgs \cup {n} /\ n \notin DOMAIN msgs
        /\ \A s \in DOMAIN msgs : msgs'[s] = msgs[s]
        /\ msgs'[n] = NewMessage(c, kind, parts)
        /\ \A d : OrdersSent(d)' >= OrdersSent(d)
        /\ Numbering' /\ Monotone'
    BY <1>0, <1>1, <1>4, SubmitNumbers
  <1>6. framed \in Seq(Frame) /\ new \in [1..parts -> Frame]
    BY <1>0 DEF TypeOK, Frame
  <1>7. /\ framed' \in Seq(Frame) /\ Len(framed') = k + parts
        /\ DOMAIN framed' = 1..(k + parts) /\ DOMAIN framed = 1..k
        /\ \A f \in DOMAIN framed : framed'[f] = framed[f]
        /\ \A p \in 1..parts : framed'[k + p].stamp = n /\ framed'[k + p].part = p
    <2>1. \A p \in 1..parts : new[p].stamp = n /\ new[p].part = p
      OBVIOUS
    <2> HIDE DEF new
    <2>2. framed \in Seq(Frame) /\ parts \in Nat /\ new \in [1..parts -> Frame]
      BY <1>0, <1>6
    <2>3. /\ framed' \in Seq(Frame) /\ Len(framed') = Len(framed) + parts
          /\ DOMAIN framed' = 1..(Len(framed) + parts)
          /\ \A i \in DOMAIN framed : framed'[i] = framed[i]
          /\ \A i \in 1..parts : framed'[Len(framed) + i] = new[i]
      BY <1>4, <2>2, JoinIs
    <2>4. DOMAIN framed = 1..k
      BY <1>2, <2>2
    <2>5. \A p \in 1..parts : framed'[k + p].stamp = n /\ framed'[k + p].part = p
      BY <1>2, <2>1, <2>3
    <2> QED BY <1>2, <2>3, <2>4, <2>5
  <1>8. \A f \in DOMAIN framed' : f \in DOMAIN framed \/ \E p \in 1..parts : f = k + p
    <2> SUFFICES ASSUME NEW f \in DOMAIN framed', f \notin DOMAIN framed
                 PROVE  \E p \in 1..parts : f = k + p
      OBVIOUS
    <2>1. f - k \in 1..parts /\ f = k + (f - k)
      BY <1>0, <1>7
    <2> QED BY <2>1
  <1>9. Grown
    <2>1. \A f \in DOMAIN framed' : f \notin DOMAIN framed => framed'[f].stamp \notin DOMAIN msgs
      <3> SUFFICES ASSUME NEW f \in DOMAIN framed', f \notin DOMAIN framed
                   PROVE  framed'[f].stamp \notin DOMAIN msgs
        OBVIOUS
      <3>1. PICK p \in 1..parts : f = k + p
        BY <1>8
      <3> QED BY <1>5, <1>7, <3>1
    <2>2. \A f \in DOMAIN framed : f \in DOMAIN framed'
      BY <1>0, <1>7
    <2>3. Len(framed) <= Len(framed')
      BY <1>0, <1>2, <1>7
    <2> QED BY <1>4, <1>5, <1>7, <2>1, <2>2, <2>3 DEF Grown
  <1>10. TypeOK'
    <2>1. numbered' \in Nat /\ faults' \in Nat
      BY <1>0, <1>4 DEF TypeOK
    <2>2. unacked' \subseteq DOMAIN framed'
      BY <1>0, <1>4, <1>7 DEF TypeOK
    <2>3. net' \subseteq Datagram
      <3>1. \A p \in 1..parts : Copy(v + p, k + p, n) \in Datagram
        BY <1>0 DEF Copy, Datagram
      <3> QED BY <1>0, <1>4, <3>1 DEF TypeOK
    <2> QED BY <1>0, <1>4, <1>5, <1>7, <2>1, <2>2, <2>3, ClientTypes
  <1>11. Framing'
    <2>1. Len(framed') <= MaxFrames
      BY <1>4, <1>7
    <2>2. ASSUME NEW f \in DOMAIN framed'
          PROVE  /\ framed'[f].stamp \in DOMAIN msgs'
                 /\ framed'[f].part \in 1..msgs'[framed'[f].stamp].parts
                 /\ msgs'[framed'[f].stamp].kind # "sequenced"
      <3>1. CASE f \in DOMAIN framed
        BY <1>0, <1>5, <1>7, <3>1 DEF Framing
      <3>2. CASE f \notin DOMAIN framed
        <4>1. PICK p \in 1..parts : f = k + p
          BY <1>8, <3>2
        <4>2. framed'[f].stamp = n /\ framed'[f].part = p
          BY <1>7, <4>1
        <4>3. msgs'[n].parts = parts /\ msgs'[n].kind = kind
          BY <1>5 DEF NewMessage
        <4> QED BY <1>0, <1>5, <4>2, <4>3
      <3> QED BY <3>1, <3>2
    <2>3. ASSUME NEW f \in DOMAIN framed', NEW g \in DOMAIN framed', framed'[f] = framed'[g]
          PROVE  f = g
      <3>1. \A h \in DOMAIN framed : framed'[h].stamp # n
        BY <1>0, <1>5, <1>7 DEF Framing
      <3>2. \A p \in 1..parts : framed'[k + p].stamp = n /\ framed'[k + p].part = p
        BY <1>7
      <3>3. CASE f \in DOMAIN framed
        <4>1. framed'[g] = framed[f] /\ framed'[g].stamp # n
          BY <1>7, <2>3, <3>1, <3>3
        <4>2. g \in DOMAIN framed
          BY <1>8, <3>2, <4>1
        <4>3. framed[g] = framed[f]
          BY <1>7, <4>1, <4>2
        <4> QED BY <1>0, <3>3, <4>2, <4>3 DEF Framing
      <3>4. CASE f \notin DOMAIN framed
        BY <1>8, <2>3, <3>1, <3>2, <3>4
      <3> QED BY <3>3, <3>4
    <2> QED BY <2>1, <2>2, <2>3 DEF Framing
  <1>12. Carried'
    <2> SUFFICES ASSUME NEW d \in net'
                 PROVE  /\ d.stamp \in DOMAIN msgs'
                        /\ d.frame # 0 => d.frame \in DOMAIN framed' /\ framed'[d.frame].stamp = d.stamp
                        /\ d.frame = 0 => msgs'[d.stamp].kind = "sequenced"
      BY DEF Carried
    <2>1. CASE d \in net
      BY <1>0, <1>5, <1>7, <1>9, <2>1 DEF Carried, Grown
    <2>2. ASSUME NEW p \in 1..parts, d = Copy(v + p, k + p, n) PROVE d.stamp = n /\ d.frame = k + p
      BY <2>2 DEF Copy
    <2>3. \A p \in 1..parts : k + p # 0 /\ k + p \in DOMAIN framed'
      BY <1>0, <1>7
    <2>4. CASE d \notin net
      <3>1. PICK p \in 1..parts : d = Copy(v + p, k + p, n)
        BY <1>4, <2>4
      <3>2. d.stamp = n /\ d.frame = k + p /\ d.frame # 0 /\ d.frame \in DOMAIN framed'
        BY <2>2, <2>3, <3>1
      <3> QED BY <1>5, <1>7, <3>2
    <2> QED BY <2>1, <2>4
  <1> QED BY <1>5, <1>9, <1>10, <1>11, <1>12 DEF Behind

\* One datagram more for a frame or a sequenced message there is.
LEMMA OneCopy ==
    ASSUME NEW n \in Nat, NEW f \in Nat, NEW s \in Nat
    PROVE  Copy(n, f, s) \in Datagram /\ Copy(n, f, s).frame = f /\ Copy(n, f, s).stamp = s
           /\ Copy(n, f, s).number = n
  BY DEF Copy, Datagram

LEMMA SubmitSequencedGrows ==
    ASSUME Behind, NEW c \in Channels, SubmitSequenced(c)
    PROVE  Behind' /\ Grown
  <1>0. /\ TypeOK /\ Numbering /\ Monotone /\ Framing /\ Carried /\ "sequenced" \in Kinds /\ 1 \in Nat
    BY DEF Behind, Kinds
  <1>1. PICK n \in Nat : n = Len(msgs) + 1
    BY <1>0 DEF TypeOK
  <1>2. numbered \in Nat /\ framed \in Seq(Frame)
    BY <1>0 DEF TypeOK
  <1> DEFINE d == Copy(numbered + 1, 0, n)
  <1>3. /\ Len(msgs) < MaxMessages /\ msgs' = Append(msgs, NewMessage(c, "sequenced", 1))
        /\ numbered' = numbered + 1 /\ net' = net \cup {d}
        /\ ClientFrame /\ framed' = framed /\ unacked' = unacked /\ faults' = faults
    BY <1>1 DEF SubmitSequenced
  <1>4. /\ msgs' \in Seq(Message) /\ Len(msgs') = Len(msgs) + 1
        /\ DOMAIN msgs' = DOMAIN msgs \cup {n} /\ n \notin DOMAIN msgs
        /\ \A s \in DOMAIN msgs : msgs'[s] = msgs[s]
        /\ msgs'[n] = NewMessage(c, "sequenced", 1)
        /\ \A e : OrdersSent(e)' >= OrdersSent(e)
        /\ Numbering' /\ Monotone'
    BY <1>0, <1>1, <1>3, SubmitNumbers
  <1>5. d \in Datagram /\ d.frame = 0 /\ d.stamp = n
    BY <1>2, OneCopy
  <1> HIDE DEF d
  <1>6. Grown
    <2>1. Len(framed) \in Nat
      BY <1>2
    <2> QED BY <1>3, <1>4, <2>1 DEF Grown
  <1>7. TypeOK'
    <2>1. unacked' \subseteq DOMAIN framed' /\ net' \subseteq Datagram /\ faults' \in Nat
      BY <1>0, <1>3, <1>5 DEF TypeOK
    <2>2. numbered' \in Nat /\ framed' \in Seq(Frame)
      BY <1>2, <1>3
    <2> QED BY <1>0, <1>3, <1>4, <2>1, <2>2, ClientTypes
  <1>8. Framing'
    BY <1>0, <1>3, <1>4 DEF Framing
  <1>9. Carried'
    BY <1>0, <1>3, <1>4, <1>5 DEF Carried, NewMessage
  <1> QED BY <1>4, <1>6, <1>7, <1>8, <1>9 DEF Behind

LEMMA SameMessages ==
    ASSUME msgs' = msgs
    PROVE  /\ \A c : OrdersSent(c)' = OrdersSent(c) /\ SequencedSince(c)' = SequencedSince(c)
           /\ Numbering => Numbering'
           /\ Monotone => Monotone'
  <1>1. \A c, k : OnChannel(c, k)' = OnChannel(c, k)
    BY DEF OnChannel
  <1>2. \A c : OrdersSent(c)' = OrdersSent(c) /\ SequencedSince(c)' = SequencedSince(c)
    BY <1>1 DEF OrdersSent, SequencedSince
  <1>3. \A s : Fits(s)' <=> Fits(s)
    BY <1>2 DEF Fits, Chan
  <1>4. \A s, t : Precedes(s, t)' <=> Precedes(s, t)
    BY DEF Precedes
  <1> QED BY <1>2, <1>3, <1>4 DEF Numbering, Monotone, Chan

LEMMA ResendGrows ==
    ASSUME Behind, NEW f \in unacked, NEW early \in BOOLEAN, Resend(f, early)
    PROVE  Behind' /\ Grown
  <1>0. /\ TypeOK /\ Numbering /\ Monotone /\ Framing /\ Carried
    BY DEF Behind
  <1>1. /\ numbered \in Nat /\ faults \in Nat /\ framed \in Seq(Frame) /\ f \in DOMAIN framed
        /\ msgs \in Seq(Message) /\ unacked \subseteq DOMAIN framed
    BY <1>0 DEF TypeOK
  <1>2. framed[f].stamp \in Nat /\ f \in Nat /\ f # 0
    <2>1. framed[f] \in Frame /\ f \in 1..Len(framed)
      BY <1>1
    <2> QED BY <2>1 DEF Frame
  <1> DEFINE d == Copy(numbered + 1, f, framed[f].stamp)
  <1>3. /\ numbered' = numbered + 1 /\ net' = net \cup {d} /\ ClientFrame
        /\ msgs' = msgs /\ framed' = framed /\ unacked' = unacked /\ faults' \in Nat
    BY <1>1 DEF Resend
  <1>4. d \in Datagram /\ d.frame = f /\ d.stamp = framed[f].stamp
    <2>1. numbered + 1 \in Nat
      BY <1>1
    <2> QED BY <1>2, <2>1, OneCopy
  <1> HIDE DEF d
  <1>5. (\A c : OrdersSent(c)' = OrdersSent(c)) /\ Numbering' /\ Monotone'
    BY <1>0, <1>3, SameMessages
  <1>6. Grown
    <2>1. Len(framed) \in Nat /\ \A c : OrdersSent(c) \in Nat
      BY <1>1, SentIs
    <2>2. \A c : OrdersSent(c)' >= OrdersSent(c)
      BY <1>5, <2>1
    <2> QED BY <1>3, <2>1, <2>2 DEF Grown
  <1>7. TypeOK'
    <2>1. net' \subseteq Datagram
      BY <1>0, <1>3, <1>4 DEF TypeOK
    <2>2. numbered' \in Nat
      BY <1>1, <1>3
    <2> QED BY <1>0, <1>1, <1>3, <2>1, <2>2, ClientTypes
  <1>8. Framing'
    BY <1>0, <1>3 DEF Framing
  <1>9. Carried'
    BY <1>0, <1>1, <1>2, <1>3, <1>4 DEF Carried, Framing
  <1> QED BY <1>5, <1>6, <1>7, <1>8, <1>9 DEF Behind

LEMMA LoseGrows ==
    ASSUME Behind, Lose PROVE Behind' /\ Grown
  <1>0. /\ TypeOK /\ Numbering /\ Monotone /\ Framing /\ Carried
    BY DEF Behind
  <1>1. /\ faults \in Nat /\ msgs \in Seq(Message) /\ framed \in Seq(Frame)
        /\ unacked \subseteq DOMAIN framed /\ numbered \in Nat
    BY <1>0 DEF TypeOK
  <1>2. /\ net' \subseteq net /\ faults' \in Nat /\ ClientFrame
        /\ msgs' = msgs /\ framed' = framed /\ unacked' = unacked /\ numbered' = numbered
    BY <1>1 DEF Lose, clientVars
  <1>3. (\A c : OrdersSent(c)' = OrdersSent(c)) /\ Numbering' /\ Monotone'
    BY <1>0, <1>2, SameMessages
  <1>4. Grown
    <2>1. Len(framed) \in Nat /\ \A c : OrdersSent(c) \in Nat
      BY <1>1, SentIs
    <2>2. \A c : OrdersSent(c)' >= OrdersSent(c)
      BY <1>3, <2>1
    <2> QED BY <1>2, <2>1, <2>2 DEF Grown
  <1>5. TypeOK'
    BY <1>0, <1>1, <1>2, ClientTypes DEF TypeOK
  <1> QED BY <1>0, <1>2, <1>3, <1>4, <1>5 DEF Behind, Framing, Carried

LEMMA ClientKeeps ==
    ASSUME ReceiveInv, ClientStep PROVE ReceiveInv'
  <1>1. Behind /\ Progress
    BY DEF ReceiveInv, Progress
  <1>2. Behind' /\ Grown
    BY <1>1, SubmitReliableGrows, SubmitSequencedGrows, ResendGrows, LoseGrows DEF ClientStep
  <1>3. Progress'
    BY <1>1, <1>2, GrownKeeps DEF Behind
  <1> QED BY <1>2, <1>3 DEF ReceiveInv, Progress

-----------------------------------------------------------------------------
(* The window of frames *)

LEMMA FrameIs ==
    ASSUME TypeOK, Framing, NEW f \in DOMAIN framed
    PROVE  /\ f \in Nat /\ f >= 1 /\ f <= Len(framed) /\ Len(framed) \in Nat /\ Len(framed) <= MaxFrames
           /\ f - 1 \in 0..(MaxFrames - 1) /\ f - 1 \in 0..(Modulus - 1)
           /\ framed[f] \in Frame /\ framed[f].stamp \in Nat /\ framed[f].part \in Nat
  <1>1. framed \in Seq(Frame) /\ Len(framed) <= MaxFrames
    BY DEF TypeOK, Framing
  <1>2. framed[f] \in Frame /\ f \in 1..Len(framed) /\ Len(framed) \in Nat
    BY <1>1
  <1>3. f - 1 \in 0..(MaxFrames - 1) /\ f - 1 \in 0..(Modulus - 1)
    BY <1>1, <1>2, Bounds, ModulusIs
  <1> QED BY <1>1, <1>2, <1>3 DEF Frame

LEMMA FrameOneToOne ==
    ASSUME TypeOK, Framing, NEW f \in DOMAIN framed, NEW n \in 0..(Modulus - 1),
           Wire(Start + (f - 1)) = Wire(Start + n)
    PROVE  f = n + 1
  <1>1. f - 1 \in 0..(Modulus - 1) /\ f \in Nat
    BY FrameIs
  <1>2. PICK m \in 0..(Modulus - 1) : m = f - 1
    BY <1>1
  <1>3. m = n
    BY <1>2, WireOneToOne
  <1> QED BY <1>1, <1>2, <1>3, ModulusIs

\* A frame within the window is ahead of the base by its distance.
LEMMA ReachIs ==
    ASSUME TypeOK, Framing, Carried, Window, NEW d \in net, d.frame # 0
    PROVE  /\ d.frame \in DOMAIN framed /\ framed[d.frame].stamp = d.stamp
           /\ d.frame \in Nat /\ At(base) \in Nat /\ At(base) <= MaxFrames /\ Reach(d) \in Nat
           /\ Index(d) = Wire(Start + (d.frame - 1))
           /\ d.frame - 1 >= At(base) => Reach(d) = d.frame - 1 - At(base) /\ Reach(d) < Half
           /\ d.frame - 1 < At(base) => Reach(d) >= Half
  <1>1. d.frame \in DOMAIN framed /\ framed[d.frame].stamp = d.stamp
    BY DEF Carried
  <1>2. PICK a \in Nat : a = d.frame - 1 /\ a \in 0..(MaxFrames - 1) /\ d.frame = a + 1
    BY <1>1, FrameIs
  <1>3. PICK b \in Nat : b = At(base) /\ b \in 0..MaxFrames /\ Wire(Start + b) = base
    <2>1. At(base) \in 0..(Modulus - 1) /\ Wire(Start + At(base)) = base
      BY PositionIs
    <2>2. Len(framed) \in Nat /\ Len(framed) <= MaxFrames /\ At(base) <= Len(framed)
      BY <1>1, FrameIs DEF Window
    <2> QED BY <2>1, <2>2, ModulusIs, Bounds
  <1>4. Index(d) = Wire(Start + a)
    <2>1. Start + d.frame - 1 = Start + a
      BY <1>2, ModulusIs
    <2> QED BY <2>1 DEF Index
  <1>5. /\ Distance(Wire(Start + a), Wire(Start + b)) \in 0..(Modulus - 1)
        /\ a >= b => Distance(Wire(Start + a), Wire(Start + b)) = a - b
                     /\ Distance(Wire(Start + a), Wire(Start + b)) < Half
        /\ a < b => Distance(Wire(Start + a), Wire(Start + b)) >= Half
    BY <1>2, <1>3, Ahead, Bounds
  <1>6. Reach(d) = Distance(Wire(Start + a), Wire(Start + b))
    BY <1>3, <1>4 DEF Reach
  <1>7. Reach(d) \in Nat /\ (a >= b => Reach(d) = a - b /\ Reach(d) < Half) /\ (a < b => Reach(d) >= Half)
    BY <1>5, <1>6, ModulusIs
  <1> HIDE DEF Reach, Index
  <1>8. Index(d) = Wire(Start + (d.frame - 1))
    BY <1>2, <1>4
  <1>9. d.frame - 1 = a /\ b <= MaxFrames
    BY <1>2, <1>3, Bounds
  <1> QED BY <1>1, <1>2, <1>3, <1>7, <1>8, <1>9

Moves(d) ==
    /\ base' \in 0..(Modulus - 1) /\ ahead' \subseteq 0..(Modulus - 1)
    /\ Window'
    /\ \A f \in DOMAIN framed : Accepted(f) => Accepted(f)'
    /\ \A f \in DOMAIN framed : Accepted(f)' => Accepted(f) \/ f = d.frame
    /\ d.frame # 0 => d.frame \in DOMAIN framed /\ ~Accepted(d.frame) /\ Accepted(d.frame)'

LEMMA NotedAhead ==
    ASSUME TypeOK, Framing, Carried, Window, NEW d \in net, d.frame # 0, AcceptFrame(d),
           Reach(d) # 0, framed' = framed
    PROVE  Moves(d)
  <1>1. /\ d.frame \in DOMAIN framed /\ d.frame \in Nat /\ At(base) \in Nat
        /\ Index(d) = Wire(Start + (d.frame - 1))
        /\ d.frame - 1 >= At(base) => Reach(d) = d.frame - 1 - At(base)
        /\ d.frame - 1 < At(base) => Reach(d) >= Half
    BY ReachIs
  <1>2. /\ Reach(d) < Half /\ Index(d) \notin ahead
        /\ ahead' = ahead \cup {Wire(Start + (d.frame - 1))} /\ base' = base
    BY <1>1 DEF AcceptFrame
  <1>3. d.frame >= At(base) + 2
    <2>1. Reach(d) \in Nat
      BY ReachIs
    <2> QED BY <1>1, <1>2, <2>1, HalfIs
  <1>4. ahead' \subseteq 0..(Modulus - 1) /\ base' \in 0..(Modulus - 1)
    <2>1. PICK m \in Int : m = Start + (d.frame - 1)
      BY <1>1, ModulusIs
    <2>2. Wire(m) \in 0..(Modulus - 1)
      BY WireIs
    <2> QED BY <1>2, <2>1, <2>2 DEF TypeOK
  <1>5. Window'
    BY <1>1, <1>2, <1>3 DEF Window
  <1>6. ASSUME NEW f \in DOMAIN framed, Wire(Start + (f - 1)) = Wire(Start + (d.frame - 1))
        PROVE  f = d.frame
    <2>1. PICK n \in 0..(Modulus - 1) : n = d.frame - 1
      BY <1>1, FrameIs
    <2>2. f = n + 1
      BY <1>6, <2>1, FrameOneToOne
    <2> QED BY <1>1, <2>1, <2>2
  <1>7. /\ \A f \in DOMAIN framed : Accepted(f) => Accepted(f)'
        /\ \A f \in DOMAIN framed : Accepted(f)' => Accepted(f) \/ f = d.frame
    BY <1>2, <1>6 DEF Accepted
  <1>8. ~Accepted(d.frame) /\ Accepted(d.frame)'
    BY <1>1, <1>2, <1>3 DEF Accepted
  <1> QED BY <1>1, <1>4, <1>5, <1>7, <1>8 DEF Moves

LEMMA BaseMoves ==
    ASSUME TypeOK, Framing, Carried, Window, NEW d \in net, d.frame # 0, AcceptFrame(d),
           Reach(d) = 0, framed' = framed
    PROVE  Moves(d)
  <1>1. PICK b \in Nat : b = At(base) /\ b <= MaxFrames /\ base \in 0..(Modulus - 1)
    BY ReachIs DEF TypeOK
  <1>2. /\ d.frame \in DOMAIN framed /\ d.frame \in Nat /\ Index(d) = Wire(Start + (d.frame - 1))
        /\ d.frame - 1 >= b => Reach(d) = d.frame - 1 - b
        /\ d.frame - 1 < b => Reach(d) >= Half
    BY <1>1, ReachIs
  <1>3. Reach(d) < Half /\ Index(d) \notin ahead /\ Advance
    BY DEF AcceptFrame
  <1>4. d.frame = b + 1
    BY <1>1, <1>2, <1>3, HalfIs
  <1>5. PICK L \in Nat : L = Len(framed) /\ L <= MaxFrames /\ b + 1 <= L /\ DOMAIN framed = 1..L
    <2>1. d.frame <= Len(framed) /\ Len(framed) \in Nat /\ Len(framed) <= MaxFrames
      BY <1>2, FrameIs
    <2>2. framed \in Seq(Frame) /\ DOMAIN framed = 1..Len(framed)
      BY DEF TypeOK
    <2> QED BY <1>4, <2>1, <2>2
  <1>6. PICK n \in 1..Modulus :
          /\ Wire(base + n) \notin ahead
          /\ \A k \in 1..(n - 1) : Wire(base + k) \in ahead
          /\ base' = Wire(base + n)
          /\ ahead' = ahead \ {Wire(base + k) : k \in 1..(n - 1)}
    BY <1>3 DEF Advance, RunEnds
  <1>7. \A k \in Nat : Wire(base + k) = Wire(Start + (b + k))
    BY <1>1, WireOn
  <1>8. n \in Nat /\ \A k \in 1..(n - 1) : k \in Nat
    BY <1>6, ModulusIs
  <1>9. b + n <= L
    <2> SUFFICES ASSUME b + n > L PROVE FALSE
      BY <1>5, <1>8
    <2>1. PICK k \in 1..(n - 1) : b + k = L
      <3>1. L - b \in 1..(n - 1) /\ b + (L - b) = L
        BY <1>1, <1>5, <1>8
      <3> QED BY <3>1
    <2>2. Wire(Start + L) \in ahead
      <3>1. Wire(base + k) \in ahead /\ Wire(base + k) = Wire(Start + (b + k))
        BY <1>6, <1>7, <1>8
      <3> QED BY <2>1, <3>1
    <2>3. PICK f \in DOMAIN framed : Wire(Start + L) = Wire(Start + (f - 1))
      BY <2>2 DEF Window
    <2>4. L \in 0..(Modulus - 1)
      BY <1>5, Bounds, ModulusIs
    <2>5. f = L + 1
      BY <2>3, <2>4, FrameOneToOne
    <2> QED BY <1>5, <2>5
  <1>10. At(base') = b + n
    <2>1. PICK m \in 0..(Modulus - 1) : m = b + n
      BY <1>5, <1>8, <1>9, Bounds, ModulusIs
    <2> QED BY <1>6, <1>7, <1>8, <2>1, AtWire
  <1>11. /\ base' = Wire(Start + (b + n)) /\ Wire(Start + (b + n)) \notin ahead
         /\ \A k \in 1..(n - 1) : Wire(Start + (b + k)) \in ahead
         /\ ahead' = ahead \ {Wire(Start + (b + k)) : k \in 1..(n - 1)}
    <2>1. {Wire(base + k) : k \in 1..(n - 1)} = {Wire(Start + (b + k)) : k \in 1..(n - 1)}
      BY <1>7, <1>8
    <2> QED BY <1>6, <1>7, <1>8, <2>1
  <1>12. base' \in 0..(Modulus - 1) /\ ahead' \subseteq 0..(Modulus - 1)
    <2>1. PICK m \in Int : m = Start + (b + n)
      BY <1>1, <1>8, ModulusIs
    <2>2. Wire(m) \in 0..(Modulus - 1)
      BY WireIs
    <2> QED BY <1>11, <2>1, <2>2 DEF TypeOK
  <1>13. ASSUME NEW f \in DOMAIN framed, Wire(Start + (f - 1)) \in ahead
         PROVE  f \in Nat /\ f >= b + 2
    <2>1. PICK g \in DOMAIN framed : g >= b + 2 /\ Wire(Start + (f - 1)) = Wire(Start + (g - 1))
      BY <1>1, <1>13 DEF Window
    <2>2. PICK m \in 0..(Modulus - 1) : m = g - 1 /\ g \in Nat
      BY FrameIs
    <2>3. f = m + 1
      BY <2>1, <2>2, FrameOneToOne
    <2> QED BY <2>1, <2>2, <2>3
  <1>14. Window'
    <2> SUFFICES ASSUME NEW w \in ahead'
                 PROVE  \E f \in DOMAIN framed : f >= b + n + 2 /\ w = Wire(Start + (f - 1))
      BY <1>5, <1>9, <1>10 DEF Window
    <2>1. PICK f \in DOMAIN framed : w = Wire(Start + (f - 1)) /\ w \in ahead
      BY <1>11 DEF Window
    <2>2. f \in Nat /\ f >= b + 2
      BY <1>13, <2>1
    <2>3. PICK k \in Nat : f - 1 = b + k /\ k >= 1
      <3>1. f - 1 - b \in Nat /\ f - 1 = b + (f - 1 - b) /\ f - 1 - b >= 1
        BY <1>1, <2>2
      <3> QED BY <3>1
    <2>4. k \notin 1..(n - 1) /\ k # n
      BY <1>11, <2>1, <2>3
    <2> QED BY <1>1, <1>8, <2>1, <2>2, <2>3, <2>4
  <1>15. ASSUME NEW f \in DOMAIN framed, Accepted(f) PROVE Accepted(f)'
    <2>1. CASE f <= b
      <3>1. f \in Nat
        BY FrameIs
      <3> QED BY <1>1, <1>8, <1>10, <2>1, <3>1 DEF Accepted
    <2>2. CASE Wire(Start + (f - 1)) \in ahead
      <3>1. f \in Nat /\ f >= b + 2
        BY <1>13, <2>2
      <3>2. CASE f <= b + n
        BY <1>10, <3>2 DEF Accepted
      <3>3. CASE f > b + n
        <4>1. ASSUME NEW k \in 1..(n - 1), Wire(Start + (f - 1)) = Wire(Start + (b + k)) PROVE FALSE
          <5>1. PICK m \in 0..(Modulus - 1) : m = b + k
            BY <1>5, <1>8, <1>9, Bounds, ModulusIs
          <5>2. f = m + 1
            BY <4>1, <5>1, FrameOneToOne
          <5> QED BY <1>1, <1>8, <3>1, <3>3, <5>1, <5>2
        <4>2. Wire(Start + (f - 1)) \in ahead'
          BY <1>11, <2>2, <4>1
        <4> QED BY <4>2 DEF Accepted
      <3> QED BY <1>1, <1>8, <3>1, <3>2, <3>3
    <2> QED BY <1>1, <1>15, <2>1, <2>2 DEF Accepted
  <1>16. ASSUME NEW f \in DOMAIN framed, Accepted(f)' PROVE Accepted(f) \/ f = d.frame
    <2>0. f \in Nat /\ f >= 1
      BY FrameIs
    <2>1. CASE Wire(Start + (f - 1)) \in ahead'
      BY <1>11, <2>1 DEF Accepted
    <2>2. CASE f <= b + n /\ f > b + 1
      <3>1. PICK k \in 1..(n - 1) : f - 1 = b + k
        <4>1. f - 1 - b \in 1..(n - 1) /\ f - 1 = b + (f - 1 - b)
          BY <1>1, <1>8, <2>0, <2>2
        <4> QED BY <4>1
      <3> QED BY <1>11, <3>1 DEF Accepted
    <2>3. CASE f <= b + 1
      BY <1>1, <1>4, <2>0, <2>3 DEF Accepted
    <2>4. f <= b + n \/ Wire(Start + (f - 1)) \in ahead'
      BY <1>10, <1>16 DEF Accepted
    <2> QED BY <1>1, <1>8, <2>0, <2>1, <2>2, <2>3, <2>4
  <1>17. ~Accepted(d.frame)
    BY <1>1, <1>2, <1>3, <1>4 DEF Accepted
  <1>18. Accepted(d.frame)'
    BY <1>1, <1>4, <1>6, <1>8, <1>10 DEF Accepted
  <1> QED BY <1>2, <1>12, <1>14, <1>15, <1>16, <1>17, <1>18 DEF Moves

LEMMA AcceptMoves ==
    ASSUME TypeOK, Framing, Carried, Window, NEW d \in net, AcceptFrame(d), framed' = framed
    PROVE  Moves(d)
  <1>1. CASE d.frame = 0
    <2>1. base' = base /\ ahead' = ahead
      BY <1>1 DEF AcceptFrame
    <2>2. \A f : Accepted(f)' <=> Accepted(f)
      BY <2>1 DEF Accepted
    <2> QED BY <1>1, <2>1, <2>2 DEF Moves, Window, TypeOK
  <1> QED BY <1>1, NotedAhead, BaseMoves

-----------------------------------------------------------------------------
(* The turns of a channel *)

\* An order index is ahead of the expected one by its distance.
LEMMA GapIs ==
    ASSUME TypeOK, Numbering, Turns, NEW s \in DOMAIN msgs
    PROVE  /\ Chan(s) \in Channels /\ At(expected[Chan(s)]) \in Nat
           /\ At(expected[Chan(s)]) <= MaxMessages
           /\ msgs[s].order \in Nat /\ Gap(s) \in Nat
           /\ msgs[s].order >= At(expected[Chan(s)]) =>
                Gap(s) = msgs[s].order - At(expected[Chan(s)]) /\ Gap(s) < Half
           /\ msgs[s].order < At(expected[Chan(s)]) => Gap(s) >= Half
  <1>1. Chan(s) \in Channels /\ msgs[s].order \in Nat
    BY MessageIs DEF Chan
  <1>2. PICK a \in Nat : a = msgs[s].order /\ a \in 0..(MaxMessages - 1)
    BY <1>1, Bounds DEF Numbering, Fits
  <1>3. PICK b \in Nat : /\ b = At(expected[Chan(s)]) /\ b \in 0..MaxMessages
                         /\ Wire(Start + b) = expected[Chan(s)]
    <2>1. At(expected[Chan(s)]) \in 0..(Modulus - 1)
          /\ Wire(Start + At(expected[Chan(s)])) = expected[Chan(s)]
      BY <1>1, PositionIs
    <2>2. msgs \in Seq(Message) /\ Len(msgs) \in Nat /\ Len(msgs) <= MaxMessages
      BY MessageIs DEF TypeOK, Numbering
    <2>3. OrdersSent(Chan(s)) \in Nat /\ OrdersSent(Chan(s)) <= Len(msgs)
      BY <2>2, SentIs
    <2>4. At(expected[Chan(s)]) <= OrdersSent(Chan(s))
      BY <1>1 DEF Turns
    <2> QED BY <2>1, <2>2, <2>3, <2>4, ModulusIs, Bounds
  <1> DEFINE D == Distance(Wire(Start + a), Wire(Start + b))
  <1>4. /\ D \in 0..(Modulus - 1)
        /\ a >= b => D = a - b /\ D < Half
        /\ a < b => D >= Half
    BY <1>2, <1>3, Ahead, Bounds
  <1>5. Gap(s) = D
    BY <1>2, <1>3 DEF Gap, Order
  <1> HIDE DEF D, Gap
  <1> QED BY <1>1, <1>2, <1>3, <1>4, <1>5, ModulusIs

LEMMA SentBound ==
    ASSUME TypeOK, Numbering, NEW c
    PROVE  OrdersSent(c) \in Nat /\ OrdersSent(c) <= MaxMessages /\ OrdersSent(c) \in 0..(Modulus - 1)
  <1>1. msgs \in Seq(Message) /\ Len(msgs) <= MaxMessages
    BY DEF TypeOK, Numbering
  <1>2. Len(msgs) \in Nat /\ OrdersSent(c) \in Nat /\ OrdersSent(c) <= Len(msgs)
    BY <1>1, SentIs
  <1> QED BY <1>1, <1>2, Bounds, ModulusIs

\* What waits in a bucket has its order.
LEMMA WaitingIs ==
    ASSUME TypeOK, Numbering, Turns, Waiting, NEW h \in held
    PROVE  /\ h.stamp \in DOMAIN msgs /\ h.stamp \in Nat /\ h.channel = Chan(h.stamp)
           /\ h.channel \in Channels /\ h.kind = msgs[h.stamp].kind
           /\ h.kind \in {"ordered", "sequenced"}
           /\ msgs[h.stamp].order \in Nat /\ msgs[h.stamp].order < MaxMessages
           /\ msgs[h.stamp].order < OrdersSent(h.channel) \/ h.kind = "sequenced"
           /\ At(expected[h.channel]) < msgs[h.stamp].order
           /\ \A m \in 0..(Modulus - 1) : h.index = Wire(Start + m) <=> msgs[h.stamp].order = m
  <1>1. /\ h.stamp \in DOMAIN msgs /\ h.channel = Chan(h.stamp)
        /\ h.kind = msgs[h.stamp].kind /\ h.kind # "plain"
        /\ h.index = Wire(Start + msgs[h.stamp].order)
        /\ At(expected[h.channel]) < msgs[h.stamp].order
    BY DEF Waiting, Order
  <1>2. msgs[h.stamp].kind \in Kinds /\ msgs[h.stamp].channel \in Channels /\ h.stamp \in Nat
    BY <1>1, MessageIs
  <1>3. PICK n \in 0..(Modulus - 1) : n = msgs[h.stamp].order /\ n < MaxMessages /\ n \in Nat
    <2>1. msgs[h.stamp].order \in Nat /\ msgs[h.stamp].order < MaxMessages
      BY <1>1, MessageIs DEF Numbering, Fits
    <2> QED BY <2>1, Bounds, ModulusIs
  <1>4. \A m \in 0..(Modulus - 1) : Wire(Start + n) = Wire(Start + m) <=> n = m
    BY WireOneToOne
  <1>5. n < OrdersSent(h.channel) \/ h.kind = "sequenced"
    BY <1>1, <1>2, <1>3 DEF Numbering, Fits, Kinds
  <1> QED BY <1>1, <1>2, <1>3, <1>4, <1>5 DEF Kinds, Chan

\* What a channel has gone past was sent before what it has not.
LEMMA BelowFirst ==
    ASSUME TypeOK, Monotone, Turns, NEW t \in DOMAIN msgs, NEW u \in DOMAIN msgs, Chan(t) = Chan(u),
           msgs[t].kind # "plain", msgs[u].kind # "plain", Below(t), ~Below(u)
    PROVE  t < u
  <1>1. /\ t \in Nat /\ u \in Nat /\ msgs[t].order \in Nat /\ msgs[u].order \in Nat
        /\ msgs[t].seq \in Nat /\ msgs[u].seq \in Nat /\ Chan(u) \in Channels
        /\ msgs[u].kind \in {"ordered", "sequenced"}
    BY MessageIs DEF Chan, Kinds
  <1>2. PICK e \in Nat, n \in Nat : e = At(expected[Chan(u)]) /\ n = seqNext[Chan(u)]
    <2>1. At(expected[Chan(u)]) \in 0..(Modulus - 1)
      BY <1>1, PositionIs
    <2> QED BY <1>1, <2>1, ModulusIs DEF TypeOK
  <1>3. \/ msgs[t].order < e
        \/ msgs[t].kind = "sequenced" /\ msgs[t].order = e /\ msgs[t].seq < n
    BY <1>2 DEF Below
  <1>4. /\ msgs[u].order >= e
        /\ msgs[u].kind = "sequenced" /\ msgs[u].order = e => msgs[u].seq >= n
    BY <1>1, <1>2 DEF Below
  <1>5. ~(u < t)
    <2> SUFFICES ASSUME u < t PROVE FALSE
      OBVIOUS
    <2>1. Precedes(u, t)
      BY DEF Monotone
    <2> QED BY <1>1, <1>3, <1>4, <2>1 DEF Precedes
  <1>6. t # u
    OBVIOUS
  <1> QED BY <1>1, <1>5, <1>6

\* What Dispatch does with message s.
Ordering ==
    /\ Turns /\ Waiting /\ Reached /\ InLine
    /\ \A t \in Out : t \in DOMAIN msgs /\ (msgs[t].kind # "plain" => Below(t))

OrderTypes ==
    /\ expected \in [Channels -> 0..(Modulus - 1)] /\ seqNext \in [Channels -> Nat]
    /\ held \subseteq Held /\ handing \in Seq(Nat)

Stamps(H) == {h.stamp : h \in H}
InOrderHeld == {h \in held : h.kind = "ordered"}

Dispatched(s) ==
    /\ OrderTypes' /\ Ordering'
    /\ Out \subseteq Out'
    /\ \A t \in Out' : msgs[t].kind = "plain" => t \in Out \cup {s}
    /\ \A h \in InOrderHeld : h.stamp \in Out' \cup Stamps(held')
    /\ evicted' = evicted /\ refused \subseteq refused' /\ refused' \subseteq refused \cup {s}
    /\ msgs[s].kind # "sequenced" => s \in Out' \cup Stamps(held') \cup refused'

Dispatching(s) ==
    /\ TypeOK /\ Numbering /\ Monotone /\ Ordering /\ Idle
    /\ s \in DOMAIN msgs /\ (msgs[s].kind = "plain" => s \notin Out)
    /\ msgs' = msgs /\ handed' = handed /\ skipped' = skipped

LEMMA IdleOut ==
    ASSUME Idle PROVE Out = Range(handed) \cup skipped /\ Range(handing) = {}
  BY DEF Idle, Out, Range

LEMMA UnmovedOrder ==
    ASSUME NEW s, Dispatching(s), orderVars' = orderVars, handing' = handing
    PROVE  OrderTypes' /\ Ordering' /\ Out' = Out /\ Stamps(held') = Stamps(held)
  <1>1. /\ expected' = expected /\ seqNext' = seqNext /\ held' = held /\ handing' = handing
        /\ handed' = handed /\ skipped' = skipped /\ msgs' = msgs
    BY DEF orderVars, Dispatching
  <1>2. \A c : OrdersSent(c)' = OrdersSent(c)
    BY <1>1, SameMessages
  <1>3. Out' = Out
    BY <1>1 DEF Out
  <1>4. \A t : Below(t)' <=> Below(t)
    BY <1>1 DEF Below, Chan
  <1>5. \A t, u : Follows(t, u)' <=> Follows(t, u)
    BY <1>1 DEF Follows
  <1>6. Turns' /\ Waiting' /\ Reached' /\ InLine'
    BY <1>1, <1>2, <1>3, <1>5
       DEF Dispatching, Ordering, Turns, Waiting, Chan, Order, Reached, InLine, Lined
  <1> QED BY <1>1, <1>3, <1>4, <1>6 DEF Dispatching, Ordering, OrderTypes, TypeOK

LEMMA StampIs ==
    ASSUME NEW s, Dispatching(s)
    PROVE  /\ s \in DOMAIN msgs /\ s \in Nat /\ Chan(s) \in Channels /\ msgs[s].channel = Chan(s)
           /\ msgs[s].kind \in {"ordered", "sequenced", "plain"}
           /\ msgs[s].order \in Nat /\ msgs[s].seq \in Nat
  BY MessageIs DEF Dispatching, Chan, Kinds

\* One message is handed out: it follows all that came out before.
LEMMA OneInHand ==
    ASSUME NEW s, Dispatching(s), handing' = <<s>>, \A t \in Out : Follows(t, s)
    PROVE  InLine' /\ Out' = Out \cup {s} /\ handing' \in Seq(Nat)
  <1>1. Out = Range(handed) \cup skipped
    BY IdleOut DEF Dispatching
  <1>2. s \in Nat /\ handing' \in Seq(Nat) /\ DOMAIN handing' = {1} /\ handing'[1] = s
    <2>1. s \in Nat
      BY StampIs
    <2> QED BY <2>1
  <1>3. Range(handing') = {s}
    BY <1>2 DEF Range
  <1>4. Out' = Out \cup {s}
    BY <1>1, <1>3 DEF Dispatching, Out
  <1>5. \A t, u : Follows(t, u)' <=> Follows(t, u)
    BY DEF Follows, Dispatching
  <1>6. Lined(handed)' /\ Lined(handing)'
    BY <1>2, <1>5 DEF Dispatching, Ordering, InLine, Lined
  <1>7. \A t \in Range(handed') \cup skipped', u \in Range(handing') : Follows(t, u)'
    BY <1>1, <1>3, <1>5 DEF Dispatching
  <1> QED BY <1>2, <1>4, <1>6, <1>7 DEF InLine

LEMMA PlainDispatch ==
    ASSUME NEW s, Dispatching(s), msgs[s].kind = "plain", handing' = <<s>>,
           UNCHANGED <<orderVars, lostVars>>
    PROVE  Dispatched(s)
  <1>1. /\ expected' = expected /\ seqNext' = seqNext /\ held' = held /\ msgs' = msgs
        /\ evicted' = evicted /\ refused' = refused
    BY DEF orderVars, lostVars, Dispatching
  <1>2. \A t \in Out : Follows(t, s)
    BY DEF Dispatching, Follows
  <1>3. InLine' /\ Out' = Out \cup {s} /\ handing' \in Seq(Nat)
    BY <1>2, OneInHand
  <1>4. \A c : OrdersSent(c)' = OrdersSent(c)
    BY <1>1, SameMessages
  <1>5. \A t : Below(t)' <=> Below(t)
    BY <1>1 DEF Below, Chan
  <1>6. Turns' /\ Waiting'
    BY <1>1, <1>4 DEF Dispatching, Ordering, Turns, Waiting, Chan, Order
  <1>7. Reached'
    BY <1>1, <1>3 DEF Dispatching, Ordering, Reached
  <1>8. \A t \in Out' : t \in DOMAIN msgs' /\ (msgs'[t].kind # "plain" => Below(t)')
    BY <1>1, <1>3, <1>5 DEF Dispatching, Ordering
  <1>9. OrderTypes' /\ Ordering'
    BY <1>1, <1>3, <1>6, <1>7, <1>8 DEF Dispatching, OrderTypes, Ordering, TypeOK
  <1> QED BY <1>1, <1>3, <1>9 DEF Dispatched, InOrderHeld, Stamps

LEMMA StaleDispatch ==
    ASSUME NEW s, Dispatching(s), msgs[s].kind # "plain", Stale(s),
           UNCHANGED <<orderVars, handing, lostVars>>
    PROVE  Dispatched(s)
  <1>1. OrderTypes' /\ Ordering' /\ Out' = Out /\ Stamps(held') = Stamps(held)
    BY UnmovedOrder
  <1>2. evicted' = evicted /\ refused' = refused
    BY DEF lostVars
  <1>3. ASSUME msgs[s].kind # "sequenced" PROVE s \in Out
    <2>1. msgs[s].kind = "ordered" /\ msgs[s].channel = Chan(s)
      BY <1>3, StampIs
    <2>2. Gap(s) >= Half
      BY DEF Stale
    <2>3. msgs[s].order < At(expected[Chan(s)]) /\ Chan(s) \in Channels /\ msgs[s].order \in Nat
      <3>1. /\ Chan(s) \in Channels /\ At(expected[Chan(s)]) \in Nat /\ msgs[s].order \in Nat
            /\ Gap(s) \in Nat
            /\ msgs[s].order >= At(expected[Chan(s)]) => Gap(s) < Half
        BY GapIs DEF Dispatching, Ordering
      <3> QED BY <2>2, <3>1, HalfIs
    <2>4. PICK t \in Out : msgs[t].channel = Chan(s) /\ msgs[t].kind = "ordered"
                           /\ msgs[t].order = msgs[s].order
      BY <2>3 DEF Dispatching, Ordering, Reached
    <2>5. s = t
      BY <2>1, <2>4, OneOrdered DEF Dispatching, Ordering, Chan
    <2> QED BY <2>4, <2>5
  <1>4. InOrderHeld \subseteq held
    BY DEF InOrderHeld
  <1> QED BY <1>1, <1>2, <1>3, <1>4 DEF Dispatched, Stamps

LEMMA RefusedDispatch ==
    ASSUME NEW s, Dispatching(s), refused' = refused \cup {s},
           UNCHANGED <<orderVars, handing, evicted>>
    PROVE  Dispatched(s)
  <1>1. OrderTypes' /\ Ordering' /\ Out' = Out /\ Stamps(held') = Stamps(held)
    BY UnmovedOrder
  <1>2. InOrderHeld \subseteq held
    BY DEF InOrderHeld
  <1> QED BY <1>1, <1>2 DEF Dispatched, Stamps

\* A message ahead of its turn joins its bucket.
LEMMA HoldDispatch ==
    ASSUME NEW s, Dispatching(s), msgs[s].kind # "plain", ~Stale(s), Gap(s) > 0, Hold(s),
           UNCHANGED <<expected, seqNext, handing, lostVars>>
    PROVE  Dispatched(s)
  <1> DEFINE e == [channel |-> Chan(s), index |-> Order(s), kind |-> msgs[s].kind, stamp |-> s]
             same == BucketOf(Chan(s), Order(s), msgs[s].kind)
  <1>1. /\ expected' = expected /\ seqNext' = seqNext /\ handing' = handing /\ handed' = handed
        /\ skipped' = skipped /\ msgs' = msgs /\ evicted' = evicted /\ refused' = refused
    BY DEF lostVars, Dispatching
  <1>2. /\ s \in DOMAIN msgs /\ s \in Nat /\ Chan(s) \in Channels /\ msgs[s].order \in Nat
        /\ msgs[s].kind \in {"ordered", "sequenced"}
    BY StampIs
  <1>3. At(expected[Chan(s)]) < msgs[s].order
    <2>1. /\ At(expected[Chan(s)]) \in Nat /\ msgs[s].order \in Nat /\ Gap(s) \in Nat
          /\ msgs[s].order >= At(expected[Chan(s)]) => Gap(s) = msgs[s].order - At(expected[Chan(s)])
          /\ msgs[s].order < At(expected[Chan(s)]) => Gap(s) >= Half
      BY <1>2, GapIs DEF Dispatching, Ordering
    <2> QED BY <2>1, HalfIs DEF Stale
  <1>4. Order(s) \in Nat /\ Order(s) = Wire(Start + msgs[s].order)
    <2>1. PICK m \in Int : m = Start + msgs[s].order
      BY <1>2, ModulusIs
    <2>2. Wire(m) \in 0..(Modulus - 1)
      BY WireIs
    <2> QED BY <2>1, <2>2, ModulusIs DEF Order
  <1>5. \A h : h \in same <=> /\ h \in held /\ h.channel = Chan(s) /\ h.index = Order(s)
                              /\ h.kind = msgs[s].kind
    BY DEF BucketOf, Bucket
  <1>6. \/ same = {} /\ held' = held \cup {e}
        \/ same # {} /\ msgs[s].kind = "sequenced" /\ held' = (held \ same) \cup {e}
        \/ same # {} /\ held' = held
    <2>1. \/ held' = (held \ same) \cup {e} /\ (same = {} \/ msgs[s].kind = "sequenced")
          \/ held' = held /\ same # {}
      BY DEF Hold
    <2>2. same = {} => held \ same = held
      OBVIOUS
    <2> QED BY <2>1, <2>2
  <1>7. /\ e \in Held /\ e.channel = Chan(s) /\ e.index = Order(s) /\ e.kind = msgs[s].kind
        /\ e.stamp = s
    BY <1>2, <1>4 DEF Held, Kinds
  <1> HIDE DEF e, same
  <1>8. \A h \in held' : h \in held \/ h = e
    BY <1>6
  <1>9. \A c : OrdersSent(c)' = OrdersSent(c)
    BY <1>1, SameMessages
  <1>10. Out' = Out
    BY <1>1 DEF Out
  <1>11. \A t : Below(t)' <=> Below(t)
    BY <1>1 DEF Below, Chan
  <1>12. \A t, u : Follows(t, u)' <=> Follows(t, u)
    BY <1>1 DEF Follows
  <1>13. Turns' /\ Reached' /\ InLine'
    BY <1>1, <1>9, <1>10, <1>12 DEF Dispatching, Ordering, Turns, Chan, Reached, InLine, Lined
  <1>14. Waiting'
    <2>1. ASSUME NEW h \in held'
          PROVE  /\ h.stamp \in DOMAIN msgs' /\ h.channel = Chan(h.stamp)'
                 /\ h.kind = msgs'[h.stamp].kind /\ h.kind # "plain" /\ h.index = Order(h.stamp)'
                 /\ At(expected'[h.channel]) < msgs'[h.stamp].order
      <3>1. CASE h \in held
        BY <1>1, <3>1 DEF Dispatching, Ordering, Waiting, Chan, Order
      <3>2. CASE h = e
        BY <1>1, <1>2, <1>3, <1>7, <3>2 DEF Chan, Order
      <3> QED BY <1>8, <3>1, <3>2
    <2>2. ASSUME NEW g \in held', NEW h \in held', g.channel = h.channel, g.index = h.index, g.kind = h.kind
          PROVE  g = h
      <3>1. CASE g \in held /\ h \in held
        BY <2>2, <3>1 DEF Dispatching, Ordering, Waiting
      <3>2. ASSUME NEW f \in held, f.channel = e.channel, f.index = e.index, f.kind = e.kind
            PROVE  f \in same
        BY <1>5, <1>7, <3>2
      <3>3. e \in held' /\ e \notin held => held' \ {e} \subseteq held \ same
        BY <1>6
      <3>4. CASE g = e \/ h = e
        BY <1>8, <2>2, <3>1, <3>2, <3>3, <3>4
      <3> QED BY <1>8, <3>1, <3>4
    <2> QED BY <2>1, <2>2 DEF Waiting
  <1>15. ASSUME NEW h \in InOrderHeld PROVE h \in held'
    <2>1. h \in held /\ h.kind = "ordered"
      BY DEF InOrderHeld
    <2>2. msgs[s].kind = "sequenced" => h \notin same
      BY <1>5, <2>1
    <2> QED BY <1>6, <2>1, <2>2
  <1>16. ASSUME msgs[s].kind # "sequenced" PROVE s \in Stamps(held')
    <2>1. CASE same = {}
      <3>1. e \in held' /\ e.stamp = s
        BY <1>6, <1>7, <2>1
      <3> QED BY <3>1 DEF Stamps
    <2>2. CASE same # {}
      <3>1. PICK h \in held : h.channel = Chan(s) /\ h.index = Order(s) /\ h.kind = msgs[s].kind
        BY <1>5, <2>2
      <3>2. msgs[s].order \in 0..(Modulus - 1)
        BY <1>2, Bounds, ModulusIs DEF Dispatching, Numbering, Fits
      <3>3. /\ h.stamp \in DOMAIN msgs /\ Chan(h.stamp) = Chan(s)
            /\ msgs[h.stamp].kind = "ordered" /\ msgs[h.stamp].order = msgs[s].order
        BY <1>2, <1>4, <1>16, <3>1, <3>2, WaitingIs DEF Dispatching, Ordering
      <3>4. h.stamp = s
        BY <1>2, <1>16, <3>3, OneOrdered DEF Dispatching
      <3>5. held' = held
        BY <1>6, <1>16, <2>2
      <3> QED BY <3>4, <3>5 DEF Stamps
    <2> QED BY <2>1, <2>2
  <1>17. OrderTypes'
    <2>1. held' \subseteq Held
      BY <1>6, <1>7 DEF Dispatching, TypeOK
    <2> QED BY <1>1, <2>1 DEF Dispatching, OrderTypes, TypeOK
  <1>18. \A t \in Out' : t \in DOMAIN msgs' /\ (msgs'[t].kind # "plain" => Below(t)')
    BY <1>1, <1>10, <1>11 DEF Dispatching, Ordering
  <1>19. Ordering'
    BY <1>13, <1>14, <1>18 DEF Ordering
  <1>20. \A h \in InOrderHeld : h.stamp \in Out' \cup Stamps(held')
    BY <1>15 DEF Stamps
  <1> QED BY <1>1, <1>10, <1>16, <1>17, <1>19, <1>20 DEF Dispatched

\* A sequenced message of the index in turn.
LEMMA SequencedDispatch ==
    ASSUME NEW s, Dispatching(s), msgs[s].kind = "sequenced", Gap(s) = 0,
           InSequence(s, seqNext[Chan(s)]), handing' = <<s>>,
           seqNext' = [seqNext EXCEPT ![Chan(s)] = msgs[s].seq + 1],
           UNCHANGED <<expected, held, lostVars>>
    PROVE  Dispatched(s)
  <1>1. PICK c \in Channels : c = Chan(s) /\ msgs[s].channel = c
    BY StampIs
  <1>2. /\ expected' = expected /\ held' = held /\ msgs' = msgs /\ evicted' = evicted
        /\ refused' = refused /\ seqNext \in [Channels -> Nat]
        /\ \A d \in Channels : seqNext'[d] = IF d = c THEN msgs[s].seq + 1 ELSE seqNext[d]
        /\ seqNext' = [seqNext EXCEPT ![c] = msgs[s].seq + 1]
    BY <1>1 DEF lostVars, Dispatching, TypeOK
  <1>3. PICK n \in Nat, q \in Nat, o \in Nat, x \in Nat :
            /\ n = seqNext[c] /\ q = msgs[s].seq /\ o = msgs[s].order /\ x = At(expected[c])
            /\ s \in DOMAIN msgs
    <2>1. msgs[s].seq \in Nat /\ msgs[s].order \in Nat /\ s \in DOMAIN msgs
      BY StampIs
    <2>2. At(expected[c]) \in Nat
      BY <1>1, GapIs DEF Dispatching, Ordering
    <2> QED BY <1>2, <2>1, <2>2
  <1>4. o = x
    <2>1. (o >= x => Gap(s) = o - x) /\ (o < x => Gap(s) >= Half) /\ Half > 0
      <3>1. 2 * MaxMessages <= Modulus /\ MaxMessages \in Nat /\ o < MaxMessages
        BY <1>3, Bounds DEF Dispatching, Numbering, Fits
      <3>2. Half > 0
        BY <1>3, <3>1, HalfIs, ModulusIs
      <3>3. /\ msgs[s].order >= At(expected[Chan(s)]) =>
                 Gap(s) = msgs[s].order - At(expected[Chan(s)])
            /\ msgs[s].order < At(expected[Chan(s)]) => Gap(s) >= Half
        BY <1>3, GapIs DEF Dispatching, Ordering
      <3> QED BY <1>1, <1>3, <3>2, <3>3
    <2> QED BY <2>1, <1>3, HalfIs
  <1>5. q < MaxMessages /\ n <= MaxMessages
    BY <1>3 DEF Dispatching, Numbering, Fits, Ordering, Turns
  <1>6. n <= q
    <2>1. Distance(q, n) < Half
      BY <1>1, <1>3 DEF InSequence
    <2>2. q \in 0..(MaxMessages - 1) /\ n \in 0..MaxMessages
      BY <1>5, <1>3, Bounds
    <2>3. (q < n => Distance(q, n) >= Half) /\ Distance(q, n) \in 0..(Modulus - 1)
      BY <2>2, AheadPlain, Bounds
    <2> QED BY <1>3, <2>1, <2>3, HalfIs, ModulusIs
  <1>7. ~Below(s) /\ \A t \in Out : Below(t) \/ msgs[t].kind = "plain"
    <2>1. ~Below(s)
      BY <1>1, <1>3, <1>4, <1>6 DEF Below
    <2> QED BY <2>1 DEF Dispatching, Ordering
  <1>8. \A t \in Out : Follows(t, s)
    <2> SUFFICES ASSUME NEW t \in Out PROVE Follows(t, s)
      OBVIOUS
    <2>1. t \in DOMAIN msgs /\ t # s
      BY <1>7 DEF Dispatching, Ordering
    <2>2. ASSUME msgs[s].channel = msgs[t].channel, msgs[t].kind # "plain" PROVE t < s
      BY <1>3, <1>7, <2>1, <2>2, BelowFirst DEF Dispatching, Ordering, Chan
    <2> QED BY <2>1, <2>2 DEF Follows
  <1>9. InLine' /\ Out' = Out \cup {s} /\ handing' \in Seq(Nat)
    BY <1>8, OneInHand
  <1>10. ASSUME NEW t \in DOMAIN msgs, Below(t) PROVE Below(t)'
    <2>1. Chan(t) \in Channels /\ msgs[t].seq \in Nat
      BY MessageIs DEF Dispatching, Chan
    <2>2. Below(t)' <=> \/ msgs[t].order < At(expected[Chan(t)])
                        \/ /\ msgs[t].kind = "sequenced" /\ msgs[t].order = At(expected[Chan(t)])
                           /\ msgs[t].seq < seqNext'[Chan(t)]
      BY <1>2 DEF Below, Chan
    <2>3. CASE Chan(t) # c
      BY <1>2, <1>10, <2>1, <2>2, <2>3 DEF Below
    <2>4. CASE Chan(t) = c
      BY <1>2, <1>3, <1>6, <1>10, <2>1, <2>2, <2>4 DEF Below
    <2> QED BY <2>3, <2>4
  <1>11. Below(s)'
    <2>1. Below(s)' <=> \/ msgs[s].order < At(expected[Chan(s)])
                        \/ /\ msgs[s].kind = "sequenced" /\ msgs[s].order = At(expected[Chan(s)])
                           /\ msgs[s].seq < seqNext'[Chan(s)]
      BY <1>2 DEF Below, Chan
    <2>2. seqNext'[Chan(s)] = q + 1 /\ msgs[s].order = At(expected[Chan(s)]) /\ msgs[s].seq = q
      BY <1>1, <1>2, <1>3, <1>4
    <2> QED BY <1>3, <2>1, <2>2
  <1>12. \A d : OrdersSent(d)' = OrdersSent(d)
    BY <1>2, SameMessages
  <1>13. Turns'
    <2>1. \A d \in Channels : seqNext'[d] <= MaxMessages
      BY <1>2, <1>3, <1>5, Bounds DEF Dispatching, Ordering, Turns
    <2> QED BY <1>2, <1>12, <2>1 DEF Dispatching, Ordering, Turns
  <1>14. Waiting'
    BY <1>2 DEF Dispatching, Ordering, Waiting, Chan, Order
  <1>15. Reached'
    BY <1>2, <1>9 DEF Dispatching, Ordering, Reached
  <1>16. \A t \in Out' : t \in DOMAIN msgs' /\ (msgs'[t].kind # "plain" => Below(t)')
    BY <1>2, <1>3, <1>7, <1>9, <1>10, <1>11 DEF Dispatching, Ordering
  <1>17. OrderTypes'
    <2>1. seqNext' \in [Channels -> Nat]
      <3>1. q + 1 \in Nat
        BY <1>3
      <3> QED BY <1>2, <1>3, <3>1
    <2>2. expected' \in [Channels -> 0..(Modulus - 1)] /\ held' \subseteq Held
      BY <1>2 DEF Dispatching, TypeOK
    <2> QED BY <1>9, <2>1, <2>2 DEF OrderTypes
  <1>18. Ordering'
    BY <1>9, <1>13, <1>14, <1>15, <1>16 DEF Ordering
  <1> QED BY <1>2, <1>9, <1>17, <1>18 DEF Dispatched, InOrderHeld, Stamps

LEMMA PassedOver ==
    ASSUME NEW s, Dispatching(s), msgs[s].kind = "sequenced",
           UNCHANGED <<orderVars, handing, lostVars>>
    PROVE  Dispatched(s)
  <1>1. OrderTypes' /\ Ordering' /\ Out' = Out /\ Stamps(held') = Stamps(held)
    BY UnmovedOrder
  <1>2. InOrderHeld \subseteq held
    BY DEF InOrderHeld
  <1> QED BY <1>1, <1>2 DEF Dispatched, Stamps, lostVars

-----------------------------------------------------------------------------
(* An ordered message in turn sets free what waits behind it. *)

\* How far the run of held messages goes, by the orders of the messages.
LEMMA RunIs ==
    ASSUME NEW s, Dispatching(s), msgs[s].kind = "ordered", Gap(s) = 0,
           NEW c \in Channels, c = Chan(s), NEW e \in Nat, e = At(expected[c]), NEW n \in Runs(c)
    PROVE  /\ n \in Nat /\ n >= 1 /\ e + n <= OrdersSent(c) /\ msgs[s].order = e
           /\ Wire(expected[c] + n) \in 0..(Modulus - 1) /\ At(Wire(expected[c] + n)) = e + n
           /\ \A h : h \in Freed(c, n) <=> /\ h \in held /\ h.channel = c
                                           /\ msgs[h.stamp].order <= e + n
           /\ \A k \in Nat : e < k /\ k < e + n =>
                 \E h \in held : h.channel = c /\ h.kind = "ordered" /\ msgs[h.stamp].order = k
           /\ \A h \in held : h.channel = c /\ h.kind = "ordered" => msgs[h.stamp].order # e + n
           /\ \A h : h \in BucketOf(c, Wire(expected[c] + n), "sequenced") <=>
                        /\ h \in held /\ h.channel = c /\ h.kind = "sequenced"
                        /\ msgs[h.stamp].order = e + n
  <1>1. /\ n \in Nat /\ n >= 1
        /\ BucketOf(c, Wire(expected[c] + n), "ordered") = {}
        /\ \A k \in 1..(n - 1) : BucketOf(c, Wire(expected[c] + k), "ordered") # {}
    BY ReceiveAssumption DEF Runs
  <1>2. expected[c] \in 0..(Modulus - 1)
    BY DEF Dispatching, TypeOK
  <1>3. \A k \in Nat : Wire(expected[c] + k) = Wire(Start + (e + k))
    BY <1>2, WireOn
  <1>4. PICK m \in Nat : m = OrdersSent(c) /\ m \in 0..(Modulus - 1)
    BY SentBound DEF Dispatching
  <1>5. msgs[s].order = e /\ e < m
    <2>1. /\ s \in DOMAIN msgs /\ msgs[s].order \in Nat
          /\ msgs[s].order >= e => Gap(s) = msgs[s].order - e
          /\ msgs[s].order < e => Gap(s) >= Half
      BY StampIs, GapIs DEF Dispatching, Ordering
    <2>2. msgs[s].order < m /\ msgs[s].order < MaxMessages
      BY <1>4, <2>1 DEF Dispatching, Numbering, Fits
    <2>3. Half > 0
      BY <2>1, <2>2, HalfIs, Bounds, ModulusIs
    <2> QED BY <2>1, <2>2, <2>3, HalfIs
  <1>6. ASSUME NEW h \in held, h.channel = c
        PROVE  /\ msgs[h.stamp].order \in Nat /\ msgs[h.stamp].order > e
               /\ h.kind = "ordered" => msgs[h.stamp].order < m
               /\ \A k \in Nat : e + k <= m =>
                     (h.index = Wire(expected[c] + k) <=> msgs[h.stamp].order = e + k)
    <2>1. /\ msgs[h.stamp].order \in Nat /\ msgs[h.stamp].order > e
          /\ h.kind = "ordered" => msgs[h.stamp].order < m
          /\ \A i \in 0..(Modulus - 1) : h.index = Wire(Start + i) <=> msgs[h.stamp].order = i
      BY <1>4, <1>6, WaitingIs DEF Dispatching, Ordering
    <2>2. ASSUME NEW k \in Nat, e + k <= m
          PROVE  h.index = Wire(expected[c] + k) <=> msgs[h.stamp].order = e + k
      <3>1. PICK i \in 0..(Modulus - 1) : i = e + k
        BY <1>4, <2>2, ModulusIs
      <3> QED BY <1>3, <2>1, <3>1
    <2> QED BY <2>1, <2>2
  <1>7. e + n <= m
    <2> SUFFICES ASSUME e + n > m PROVE FALSE
      BY <1>1, <1>4
    <2>1. PICK k \in 1..(n - 1) : k \in Nat /\ e + k = m
      <3>1. m - e \in 1..(n - 1) /\ m - e \in Nat /\ e + (m - e) = m
        BY <1>1, <1>4, <1>5
      <3> QED BY <3>1
    <2>2. PICK h \in BucketOf(c, Wire(expected[c] + k), "ordered") : TRUE
      BY <1>1
    <2>3. h \in held /\ h.channel = c /\ h.index = Wire(expected[c] + k) /\ h.kind = "ordered"
      BY <2>2 DEF BucketOf, Bucket
    <2> QED BY <1>4, <1>6, <2>1, <2>3
  <1>8. Wire(expected[c] + n) \in 0..(Modulus - 1) /\ At(Wire(expected[c] + n)) = e + n
    <2>1. PICK i \in 0..(Modulus - 1) : i = e + n
      BY <1>1, <1>4, <1>7, ModulusIs
    <2>2. PICK j \in Int : j = expected[c] + n
      BY <1>1, <1>2, ModulusIs
    <2> QED BY <1>1, <1>3, <2>1, <2>2, AtWire, WireIs
  <1>9. ASSUME NEW h
        PROVE  h \in Freed(c, n) <=> h \in held /\ h.channel = c /\ msgs[h.stamp].order <= e + n
    <2>1. h \in Freed(c, n) <=> /\ h \in held /\ h.channel = c
                                /\ \E k \in 1..n : h.index = Wire(expected[c] + k)
      BY DEF Freed, Bucket
    <2>2. ASSUME h \in held, h.channel = c
          PROVE  (\E k \in 1..n : h.index = Wire(expected[c] + k)) <=> msgs[h.stamp].order <= e + n
      <3>1. ASSUME NEW k \in 1..n, h.index = Wire(expected[c] + k) PROVE msgs[h.stamp].order <= e + n
        <4>1. k \in Nat /\ k <= n /\ e + k <= m
          BY <1>1, <1>4, <1>7
        <4> QED BY <1>1, <1>6, <2>2, <3>1, <4>1
      <3>2. ASSUME msgs[h.stamp].order <= e + n PROVE \E k \in 1..n : h.index = Wire(expected[c] + k)
        <4>1. PICK k \in Nat : k \in 1..n /\ e + k = msgs[h.stamp].order
          <5>1. msgs[h.stamp].order \in Nat /\ msgs[h.stamp].order > e
            BY <1>6, <2>2
          <5>2. msgs[h.stamp].order - e \in Nat /\ msgs[h.stamp].order - e \in 1..n
                /\ e + (msgs[h.stamp].order - e) = msgs[h.stamp].order
            BY <1>1, <3>2, <5>1
          <5> QED BY <5>2
        <4>2. e + k <= m
          BY <1>1, <1>4, <1>7, <4>1
        <4> QED BY <1>6, <2>2, <4>1, <4>2
      <3> QED BY <3>1, <3>2
    <2> QED BY <2>1, <2>2
  <1>10. ASSUME NEW k \in Nat, e < k, k < e + n
         PROVE  \E h \in held : h.channel = c /\ h.kind = "ordered" /\ msgs[h.stamp].order = k
    <2>1. PICK i \in 1..(n - 1) : i \in Nat /\ e + i = k
      <3>1. k - e \in 1..(n - 1) /\ k - e \in Nat /\ e + (k - e) = k
        BY <1>1, <1>10
      <3> QED BY <3>1
    <2>2. PICK h \in BucketOf(c, Wire(expected[c] + i), "ordered") : TRUE
      BY <1>1
    <2>3. h \in held /\ h.channel = c /\ h.index = Wire(expected[c] + i) /\ h.kind = "ordered"
      BY <2>2 DEF BucketOf, Bucket
    <2>4. e + i <= m
      BY <1>1, <1>4, <1>7, <1>10, <2>1
    <2> QED BY <1>6, <2>1, <2>3, <2>4
  <1>11. ASSUME NEW h \in held, h.channel = c, h.kind = "ordered" PROVE msgs[h.stamp].order # e + n
    BY <1>1, <1>6, <1>7, <1>11 DEF BucketOf, Bucket
  <1>12. ASSUME NEW h
         PROVE  h \in BucketOf(c, Wire(expected[c] + n), "sequenced") <=>
                   /\ h \in held /\ h.channel = c /\ h.kind = "sequenced"
                   /\ msgs[h.stamp].order = e + n
    BY <1>1, <1>6, <1>7 DEF BucketOf, Bucket
  <1> QED BY <1>1, <1>4, <1>5, <1>7, <1>8, <1>9, <1>10, <1>11, <1>12

\* What is due: messages that the channel has not gone past, in the order of their stamps.
LEMMA DueIs ==
    ASSUME NEW s, Dispatching(s), msgs[s].kind = "ordered", Gap(s) = 0,
           NEW c \in Channels, c = Chan(s), NEW e \in Nat, e = At(expected[c]), NEW n \in Runs(c)
    PROVE  /\ s \in Due(c, s, n) /\ \A h \in Freed(c, n) : h.stamp \in Due(c, s, n)
           /\ \A t \in Due(c, s, n) :
                 /\ t \in DOMAIN msgs /\ Chan(t) = c /\ msgs[t].kind # "plain" /\ ~Below(t)
                 /\ \/ msgs[t].order < e + n
                    \/ \E h \in BucketOf(c, Wire(expected[c] + n), "sequenced") :
                          h.stamp = t /\ msgs[t].order = e + n /\ msgs[t].kind = "sequenced"
           /\ \A q \in InTurn(Due(c, s, n)) :
                 /\ q \in Seq(Nat) /\ Range(q) = Due(c, s, n)
                 /\ \A i, j \in DOMAIN q : i < j => q[i] < q[j]
  <1>1. /\ n \in Nat /\ n >= 1 /\ msgs[s].order = e
        /\ \A h : h \in Freed(c, n) <=> /\ h \in held /\ h.channel = c
                                        /\ msgs[h.stamp].order <= e + n
        /\ \A h \in held : h.channel = c /\ h.kind = "ordered" => msgs[h.stamp].order # e + n
        /\ \A h : h \in BucketOf(c, Wire(expected[c] + n), "sequenced") <=>
                     /\ h \in held /\ h.channel = c /\ h.kind = "sequenced"
                     /\ msgs[h.stamp].order = e + n
    BY RunIs
  <1>2. s \in Due(c, s, n) /\ \A h \in Freed(c, n) : h.stamp \in Due(c, s, n)
    BY DEF Due
  <1>3. ASSUME NEW t \in Due(c, s, n)
        PROVE  /\ t \in DOMAIN msgs /\ Chan(t) = c /\ msgs[t].kind # "plain" /\ ~Below(t)
               /\ \/ msgs[t].order < e + n
                  \/ \E h \in BucketOf(c, Wire(expected[c] + n), "sequenced") :
                        h.stamp = t /\ msgs[t].order = e + n /\ msgs[t].kind = "sequenced"
    <2>1. CASE t = s
      <3>1. s \in DOMAIN msgs
        BY StampIs
      <3> QED BY <1>1, <2>1, <3>1 DEF Below
    <2>2. ASSUME NEW h \in Freed(c, n), t = h.stamp
          PROVE  /\ t \in DOMAIN msgs /\ Chan(t) = c /\ msgs[t].kind # "plain" /\ ~Below(t)
                 /\ \/ msgs[t].order < e + n
                    \/ \E g \in BucketOf(c, Wire(expected[c] + n), "sequenced") :
                          g.stamp = t /\ msgs[t].order = e + n /\ msgs[t].kind = "sequenced"
      <3>1. h \in held /\ h.channel = c /\ msgs[t].order <= e + n
        BY <1>1, <2>2
      <3>2. /\ t \in DOMAIN msgs /\ c = Chan(t) /\ h.kind = msgs[t].kind
            /\ h.kind \in {"ordered", "sequenced"} /\ msgs[t].order \in Nat /\ e < msgs[t].order
        BY <2>2, <3>1, WaitingIs DEF Dispatching, Ordering
      <3>3. ~Below(t)
        BY <3>2 DEF Below
      <3>4. msgs[t].order < e + n \/ msgs[t].order = e + n
        BY <1>1, <3>1, <3>2
      <3>5. ASSUME msgs[t].order = e + n
            PROVE  h \in BucketOf(c, Wire(expected[c] + n), "sequenced") /\ msgs[t].kind = "sequenced"
        BY <1>1, <2>2, <3>1, <3>2, <3>5
      <3> QED BY <2>2, <3>2, <3>3, <3>4, <3>5
    <2>3. t = s \/ \E h \in Freed(c, n) : t = h.stamp
      BY DEF Due
    <2> QED BY <2>1, <2>2, <2>3
  <1> DEFINE D == Due(c, s, n)
  <1>4. D \in SUBSET (1..Len(msgs)) /\ Len(msgs) \in Nat
    <2>1. \A t \in D : t \in DOMAIN msgs
      BY <1>3
    <2>2. msgs \in Seq(Message)
      BY DEF Dispatching, TypeOK
    <2> QED BY <2>1, <2>2
  <1> HIDE DEF D
  <1>5. Cardinality(D) \in Nat /\ D \subseteq Nat
    BY <1>4, UpTo
  <1>6. ASSUME NEW q \in InTurn(D)
        PROVE  /\ q \in Seq(Nat) /\ Range(q) = D /\ \A i, j \in DOMAIN q : i < j => q[i] < q[j]
    <2>1. q \in [1..Cardinality(D) -> D] /\ Range(q) = D /\ \A i, j \in DOMAIN q : i < j => q[i] < q[j]
      BY DEF InTurn
    <2>2. PICK k \in Nat : k = Cardinality(D)
      BY <1>5
    <2>3. q \in [1..k -> Nat]
      BY <1>5, <2>1, <2>2
    <2>4. q \in Seq(Nat)
      BY <2>3
    <2> QED BY <2>1, <2>4
  <1> QED BY <1>2, <1>3, <1>6 DEF D

\* The next sequence number is beyond those of the last bucket.
LEMMA NextIs ==
    ASSUME TypeOK, Numbering, Turns, Waiting, NEW c, NEW index,
           NEW next \in NextAfter(BucketOf(c, index, "sequenced"))
    PROVE  /\ next \in Nat /\ next <= MaxMessages
           /\ \A h \in BucketOf(c, index, "sequenced") : msgs[h.stamp].seq < next
  <1> DEFINE last == BucketOf(c, index, "sequenced")
  <1>1. \A h \in last : h \in held /\ h.channel = c /\ h.index = index /\ h.kind = "sequenced"
    BY DEF BucketOf, Bucket
  <1>2. next \in NextAfter(last)
    OBVIOUS
  <1> HIDE DEF last
  <1>3. \A g, h \in last : g = h
    BY <1>1 DEF Waiting
  <1>4. ASSUME NEW h \in last PROVE msgs[h.stamp].seq \in Nat /\ msgs[h.stamp].seq < MaxMessages
    <2>1. h.stamp \in DOMAIN msgs
      BY <1>1 DEF Waiting
    <2> QED BY <2>1, MessageIs DEF Numbering, Fits
  <1>5. CASE last = {}
    BY <1>2, <1>5, Bounds DEF NextAfter, last
  <1>6. CASE last # {}
    <2>1. PICK h \in last : next = msgs[h.stamp].seq + 1
      BY <1>2, <1>6 DEF NextAfter
    <2>2. \A g \in last : msgs[g.stamp].seq < next
      BY <1>3, <1>4, <2>1
    <2> QED BY <1>4, <2>1, <2>2, Bounds DEF last
  <1> QED BY <1>5, <1>6

LEMMA ReleaseDispatch ==
    ASSUME NEW s, Dispatching(s), msgs[s].kind = "ordered", Gap(s) = 0, Release(s), UNCHANGED lostVars
    PROVE  Dispatched(s)
  <1>1. PICK c \in Channels : c = Chan(s) /\ msgs[s].channel = c
    BY StampIs
  <1>2. PICK e \in Nat : e = At(expected[c])
    BY <1>1, StampIs, GapIs DEF Dispatching, Ordering
  <1>3. PICK n \in Runs(c) :
          /\ handing' \in InTurn(Due(c, s, n))
          /\ expected' = [expected EXCEPT ![c] = Wire(@ + n)]
          /\ \E next \in NextAfter(BucketOf(c, Wire(expected[c] + n), "sequenced")) :
                 seqNext' = [seqNext EXCEPT ![c] = next]
          /\ held' = held \ Freed(c, n)
    BY <1>1 DEF Release
  <1> DEFINE last == BucketOf(c, Wire(expected[c] + n), "sequenced")
             D == Due(c, s, n)
             F == Freed(c, n)
  <1>4. PICK next \in NextAfter(last) : seqNext' = [seqNext EXCEPT ![c] = next]
    BY <1>3
  <1>5. next \in Nat /\ next <= MaxMessages /\ \A h \in last : msgs[h.stamp].seq < next
    BY NextIs DEF Dispatching, Ordering
  <1>6. /\ n \in Nat /\ n >= 1 /\ e + n <= OrdersSent(c) /\ msgs[s].order = e
        /\ Wire(expected[c] + n) \in 0..(Modulus - 1) /\ At(Wire(expected[c] + n)) = e + n
        /\ \A h : h \in F <=> h \in held /\ h.channel = c /\ msgs[h.stamp].order <= e + n
        /\ \A k \in Nat : e < k /\ k < e + n =>
              \E h \in held : h.channel = c /\ h.kind = "ordered" /\ msgs[h.stamp].order = k
    BY <1>1, <1>2, RunIs
  <1>7. /\ s \in D /\ \A h \in F : h.stamp \in D
        /\ \A t \in D :
              /\ t \in DOMAIN msgs /\ Chan(t) = c /\ msgs[t].kind # "plain" /\ ~Below(t)
              /\ \/ msgs[t].order < e + n
                 \/ \E h \in last : h.stamp = t /\ msgs[t].order = e + n /\ msgs[t].kind = "sequenced"
        /\ handing' \in Seq(Nat) /\ Range(handing') = D
        /\ \A i, j \in DOMAIN handing' : i < j => handing'[i] < handing'[j]
    BY <1>1, <1>2, <1>3, DueIs
  <1> HIDE DEF last, D, F
  <1>8. /\ msgs' = msgs /\ handed' = handed /\ skipped' = skipped /\ evicted' = evicted
        /\ refused' = refused /\ held' = held \ F
    BY <1>3 DEF Dispatching, lostVars, F
  <1>9. /\ expected' \in [Channels -> 0..(Modulus - 1)] /\ seqNext' \in [Channels -> Nat]
        /\ At(expected'[c]) = e + n /\ seqNext'[c] = next
        /\ \A d \in Channels : d # c => expected'[d] = expected[d] /\ seqNext'[d] = seqNext[d]
    <2>1. expected \in [Channels -> 0..(Modulus - 1)] /\ seqNext \in [Channels -> Nat]
      BY DEF Dispatching, TypeOK
    <2>2. PICK w \in 0..(Modulus - 1) : w = Wire(expected[c] + n) /\ At(w) = e + n
      BY <1>6
    <2>3. expected' = [expected EXCEPT ![c] = w]
      BY <1>3, <2>2
    <2> QED BY <1>4, <1>5, <2>1, <2>2, <2>3
  <1>10. Out = Range(handed) \cup skipped /\ Out' = Out \cup D
    BY <1>7, <1>8, IdleOut DEF Dispatching, Out
  <1>11. \A t \in Out : t \in DOMAIN msgs /\ (msgs[t].kind # "plain" => Below(t))
    BY DEF Dispatching, Ordering
  <1>12. ASSUME NEW t \in DOMAIN msgs
         PROVE  /\ Chan(t) # c => (Below(t)' <=> Below(t))
                /\ Chan(t) = c =>
                     (Below(t)' <=> \/ msgs[t].order < e + n
                                    \/ /\ msgs[t].kind = "sequenced" /\ msgs[t].order = e + n
                                       /\ msgs[t].seq < next)
    <2>1. Chan(t) \in Channels
      BY MessageIs DEF Dispatching, Chan
    <2>2. Below(t)' <=> \/ msgs[t].order < At(expected'[Chan(t)])
                        \/ /\ msgs[t].kind = "sequenced" /\ msgs[t].order = At(expected'[Chan(t)])
                           /\ msgs[t].seq < seqNext'[Chan(t)]
      BY <1>8 DEF Below, Chan
    <2>3. CASE Chan(t) = c
      BY <1>9, <2>2, <2>3
    <2>4. CASE Chan(t) # c
      BY <1>9, <2>1, <2>2, <2>4 DEF Below
    <2> QED BY <2>3, <2>4
  <1>13. ASSUME NEW t \in DOMAIN msgs, Below(t) PROVE Below(t)'
    <2>1. CASE Chan(t) = c
      <3>1. msgs[t].order \in Nat
        BY MessageIs DEF Dispatching
      <3>2. msgs[t].order <= e
        BY <1>2, <1>13, <2>1, <3>1 DEF Below
      <3> QED BY <1>6, <1>12, <2>1, <3>1, <3>2
    <2> QED BY <1>12, <1>13, <2>1
  <1>14. ASSUME NEW t \in D PROVE Below(t)'
    BY <1>5, <1>7, <1>12
  <1>15. \A t \in Out' : t \in DOMAIN msgs' /\ (msgs'[t].kind # "plain" => Below(t)')
    BY <1>7, <1>8, <1>10, <1>11, <1>13, <1>14
  <1>16. \A t \in Out, u \in D : Follows(t, u)
    <2> SUFFICES ASSUME NEW t \in Out, NEW u \in D PROVE Follows(t, u)
      OBVIOUS
    <2>1. t # u
      BY <1>7, <1>11
    <2>2. ASSUME msgs[t].channel = msgs[u].channel, msgs[t].kind # "plain" PROVE t < u
      BY <1>7, <1>11, <2>2, BelowFirst DEF Dispatching, Ordering, Chan
    <2> QED BY <2>1, <2>2 DEF Follows
  <1>17. \A t, u : Follows(t, u)' <=> Follows(t, u)
    BY <1>8 DEF Follows
  <1>18. InLine'
    <2>1. Lined(handed)'
      BY <1>8, <1>17 DEF Dispatching, Ordering, InLine, Lined
    <2>2. Lined(handing)'
      <3>1. SUFFICES ASSUME NEW i \in DOMAIN handing', NEW j \in DOMAIN handing', i < j
                     PROVE  Follows(handing'[i], handing'[j])
        BY <1>17 DEF Lined
      <3>2. handing'[i] < handing'[j] /\ handing'[i] \in Nat /\ handing'[j] \in Nat
        BY <1>7, <3>1
      <3> QED BY <3>2 DEF Follows
    <2>3. \A t \in Range(handed') \cup skipped', u \in Range(handing') : Follows(t, u)'
      BY <1>7, <1>8, <1>10, <1>16, <1>17
    <2> QED BY <2>1, <2>2, <2>3 DEF InLine
  <1>19. Turns'
    <2>1. \A d : OrdersSent(d)' = OrdersSent(d)
      BY <1>8, SameMessages
    <2> SUFFICES ASSUME NEW d \in Channels
                 PROVE  At(expected'[d]) <= OrdersSent(d) /\ seqNext'[d] <= MaxMessages
      BY <2>1 DEF Turns
    <2>2. CASE d = c
      BY <1>5, <1>6, <1>9, <2>2
    <2>3. CASE d # c
      BY <1>9, <2>3 DEF Dispatching, Ordering, Turns
    <2> QED BY <2>2, <2>3
  <1>20. Waiting'
    <2>1. ASSUME NEW h \in held'
          PROVE  /\ h.stamp \in DOMAIN msgs /\ h.channel = Chan(h.stamp) /\ h.channel \in Channels
                 /\ h.kind = msgs[h.stamp].kind /\ h.kind # "plain" /\ h.index = Order(h.stamp)
                 /\ At(expected'[h.channel]) < msgs[h.stamp].order
      <3>1. h \in held /\ h \notin F
        BY <1>8
      <3>2. /\ h.stamp \in DOMAIN msgs /\ h.channel = Chan(h.stamp) /\ h.channel \in Channels
            /\ h.kind = msgs[h.stamp].kind /\ h.kind # "plain"
            /\ msgs[h.stamp].order \in Nat /\ At(expected[h.channel]) < msgs[h.stamp].order
        BY <3>1, WaitingIs DEF Dispatching, Ordering
      <3>3. h.index = Order(h.stamp)
        BY <3>1 DEF Dispatching, Ordering, Waiting
      <3>4. CASE h.channel = c
        BY <1>6, <1>9, <3>1, <3>2, <3>3, <3>4
      <3>5. CASE h.channel # c
        BY <1>9, <3>2, <3>3, <3>5
      <3> QED BY <3>4, <3>5
    <2>2. \A g, h \in held' : g.channel = h.channel /\ g.index = h.index /\ g.kind = h.kind => g = h
      BY <1>8 DEF Dispatching, Ordering, Waiting
    <2> QED BY <1>8, <2>1, <2>2 DEF Waiting, Chan, Order
  <1>21. Reached'
    <2> SUFFICES ASSUME NEW d \in Channels, NEW k \in Nat, k < At(expected'[d])
                 PROVE  \E t \in Out' : /\ msgs[t].channel = d /\ msgs[t].kind = "ordered"
                                        /\ msgs[t].order = k
      BY <1>8 DEF Reached
    <2>1. CASE k < At(expected[d])
      <3>1. PICK t \in Out : msgs[t].channel = d /\ msgs[t].kind = "ordered" /\ msgs[t].order = k
        BY <2>1 DEF Dispatching, Ordering, Reached
      <3> QED BY <1>10, <3>1
    <2>2. CASE d = c /\ k = e
      BY <1>1, <1>6, <1>7, <1>10, <2>2
    <2>3. CASE d = c /\ e < k
      <3>1. k < e + n
        BY <1>9, <2>3
      <3>2. PICK h \in held : h.channel = c /\ h.kind = "ordered" /\ msgs[h.stamp].order = k
        BY <1>6, <2>3, <3>1
      <3>3. h \in F
        BY <1>6, <3>1, <3>2
      <3>4. msgs[h.stamp].kind = "ordered" /\ msgs[h.stamp].channel = c
        BY <3>2, WaitingIs DEF Dispatching, Ordering, Chan
      <3> QED BY <1>7, <1>10, <2>3, <3>2, <3>3, <3>4
    <2> QED BY <1>2, <1>9, <2>1, <2>2, <2>3
  <1>22. Ordering'
    BY <1>15, <1>18, <1>19, <1>20, <1>21 DEF Ordering
  <1>23. OrderTypes'
    BY <1>7, <1>8, <1>9 DEF Dispatching, TypeOK, OrderTypes
  <1>24. ASSUME NEW h \in InOrderHeld PROVE h.stamp \in Out' \cup Stamps(held')
    BY <1>7, <1>8, <1>10 DEF InOrderHeld, Stamps
  <1> QED BY <1>7, <1>8, <1>10, <1>22, <1>23, <1>24 DEF Dispatched

LEMMA DispatchKeeps ==
    ASSUME NEW s, Dispatching(s), Dispatch(s)
    PROVE  Dispatched(s)
  <1>1. /\ msgs[s].kind \in {"ordered", "sequenced", "plain"} /\ Gap(s) \in Nat
        /\ Half \in Nat /\ Half > 0
    <2>1. /\ msgs[s].kind \in {"ordered", "sequenced", "plain"} /\ Gap(s) \in Nat
          /\ msgs[s].order \in Nat /\ msgs[s].order < MaxMessages
      BY StampIs, GapIs DEF Dispatching, Ordering, Numbering, Fits
    <2> QED BY <2>1, HalfIs, Bounds, ModulusIs
  <1>2. CASE msgs[s].kind = "plain"
    BY <1>2, PlainDispatch DEF Dispatch
  <1>3. CASE msgs[s].kind # "plain" /\ Stale(s)
    <2>1. UNCHANGED <<orderVars, handing, lostVars>>
      BY <1>1, <1>3 DEF Dispatch, Stale
    <2> QED BY <1>3, <2>1, StaleDispatch
  <1>4. CASE msgs[s].kind # "plain" /\ ~Stale(s) /\ OutsideOrder(s)
    <2>1. refused' = refused \cup {s} /\ UNCHANGED <<orderVars, handing, evicted>>
      BY <1>1, <1>4 DEF Dispatch, OutsideOrder
    <2> QED BY <2>1, RefusedDispatch
  <1>5. CASE msgs[s].kind # "plain" /\ ~Stale(s) /\ ~OutsideOrder(s) /\ Gap(s) > 0
    BY <1>5, HoldDispatch DEF Dispatch
  <1> DEFINE inTurn == msgs[s].kind # "plain" /\ ~Stale(s) /\ ~OutsideOrder(s) /\ ~(Gap(s) > 0)
  <1>6. CASE inTurn /\ msgs[s].kind = "sequenced"
    <2>1. Gap(s) = 0
      BY <1>1, <1>6
    <2>2. \/ /\ InSequence(s, seqNext[Chan(s)]) /\ handing' = <<s>>
             /\ seqNext' = [seqNext EXCEPT ![Chan(s)] = msgs[s].seq + 1]
             /\ UNCHANGED <<expected, held, lostVars>>
          \/ UNCHANGED <<orderVars, handing, lostVars>>
      BY <1>6, <2>1 DEF Dispatch
    <2> QED BY <1>6, <2>1, <2>2, SequencedDispatch, PassedOver
  <1>7. CASE inTurn /\ msgs[s].kind # "sequenced"
    <2>1. Gap(s) = 0 /\ msgs[s].kind = "ordered"
      BY <1>1, <1>7
    <2>2. Release(s) /\ UNCHANGED lostVars
      BY <1>7, <2>1 DEF Dispatch
    <2> QED BY <2>1, <2>2, ReleaseDispatch
  <1> QED BY <1>2, <1>3, <1>4, <1>5, <1>6, <1>7

-----------------------------------------------------------------------------
(* A datagram is taken in *)

LEMMA WithoutIs ==
    ASSUME NEW S, NEW ps \in Seq(S), NEW s
    PROVE  /\ Without(ps, s) \in Seq(S)
           /\ \A i \in DOMAIN Without(ps, s) : \E j \in DOMAIN ps : Without(ps, s)[i] = ps[j]
           /\ \A j \in DOMAIN ps : ps[j].stamp # s =>
                 \E i \in DOMAIN Without(ps, s) : Without(ps, s)[i] = ps[j]
  <1>1. CASE ~\E i \in DOMAIN ps : ps[i].stamp = s
    BY <1>1 DEF Without
  <1>2. CASE \E i \in DOMAIN ps : ps[i].stamp = s
    <2>1. PICK p \in DOMAIN ps : /\ p = CHOOSE i \in DOMAIN ps : ps[i].stamp = s
                                 /\ ps[p].stamp = s
      BY <1>2
    <2>2. PICK n \in Nat : n = Len(ps) /\ DOMAIN ps = 1..n
      OBVIOUS
    <2>3. p \in Nat /\ p >= 1 /\ p <= n
      BY <2>1, <2>2
    <2> DEFINE t == Without(ps, s)
               a == SubSeq(ps, 1, p - 1)
               b == SubSeq(ps, p + 1, n)
    <2>4. t = a \o b
      BY <1>2, <2>1, <2>2 DEF Without, RemoveAt
    <2>5. a \in Seq(S) /\ Len(a) = p - 1 /\ \A x \in 1..(p - 1) : a[x] = ps[x]
      BY <2>2, <2>3
    <2>6. b \in Seq(S) /\ Len(b) = n - p /\ \A x \in 1..(n - p) : b[x] = ps[p + x]
      BY <2>2, <2>3
    <2> HIDE DEF a, b, t
    <2>7. /\ t \in Seq(S) /\ Len(t) = n - 1 /\ DOMAIN t = 1..(n - 1)
          /\ \A x \in 1..(n - 1) : t[x] = IF x < p THEN ps[x] ELSE ps[x + 1]
      <3>1. /\ t \in Seq(S) /\ Len(t) = n - 1 /\ DOMAIN t = 1..(n - 1)
            /\ \A x \in 1..(p - 1) : t[x] = a[x]
            /\ \A x \in 1..(n - p) : t[(p - 1) + x] = b[x]
        <4>1. a \in Seq(S) /\ b \in Seq(S) /\ t = a \o b
          BY <2>4, <2>5, <2>6
        <4>2. /\ t \in Seq(S) /\ Len(t) = Len(a) + Len(b)
              /\ DOMAIN t = 1..(Len(a) + Len(b))
              /\ \A i \in DOMAIN a : t[i] = a[i]
              /\ \A i \in 1..Len(b) : t[Len(a) + i] = b[i]
          BY <4>1, JoinedIs
        <4>3. /\ Len(a) = p - 1 /\ Len(b) = n - p /\ Len(a) + Len(b) = n - 1
              /\ DOMAIN a = 1..(p - 1)
          BY <2>3, <2>5, <2>6
        <4> QED BY <4>2, <4>3
      <3>2. ASSUME NEW x \in 1..(n - 1) PROVE t[x] = IF x < p THEN ps[x] ELSE ps[x + 1]
        <4>1. CASE x < p
          BY <2>3, <2>5, <3>1, <4>1
        <4>2. CASE ~(x < p)
          <5>1. PICK y \in 1..(n - p) : (p - 1) + y = x /\ p + y = x + 1
            <6>1. x - (p - 1) \in 1..(n - p) /\ p + (x - (p - 1)) = x + 1 /\ (p - 1) + (x - (p - 1)) = x
              BY <2>3, <4>2
            <6> QED BY <6>1
          <5>2. t[x] = b[y] /\ b[y] = ps[x + 1]
            BY <2>6, <3>1, <5>1
          <5> QED BY <4>2, <5>2
        <4> QED BY <4>1, <4>2
      <3> QED BY <3>1, <3>2
    <2>8. \A i \in DOMAIN t : \E j \in DOMAIN ps : t[i] = ps[j]
      <3> SUFFICES ASSUME NEW i \in 1..(n - 1) PROVE \E j \in 1..n : t[i] = ps[j]
        BY <2>2, <2>7
      <3>1. i \in 1..n /\ i + 1 \in 1..n /\ (t[i] = ps[i] \/ t[i] = ps[i + 1])
        BY <2>2, <2>7
      <3> QED BY <3>1
    <2>9. ASSUME NEW j \in DOMAIN ps, ps[j].stamp # s PROVE \E i \in DOMAIN t : t[i] = ps[j]
      <3>1. CASE j < p
        BY <2>2, <2>3, <2>7, <3>1
      <3>2. CASE j > p
        <4>1. j - 1 \in 1..(n - 1) /\ ~(j - 1 < p) /\ (j - 1) + 1 = j
          BY <2>2, <2>3, <3>2
        <4> QED BY <2>7, <4>1
      <3> QED BY <2>1, <2>2, <2>3, <2>9, <3>1, <3>2
    <2> QED BY <2>7, <2>8, <2>9 DEF t
  <1> QED BY <1>1, <1>2

LEMMA ArriveIs ==
    ASSUME Behind, NEW d \in net, NEW again \in BOOLEAN, NEW acked \in BOOLEAN, Arrive(d, again, acked)
    PROVE  /\ Idle /\ net' \subseteq net /\ unacked' \subseteq unacked /\ faults' \in Nat
           /\ \A f \in unacked : f \notin unacked' => f = d.frame
           /\ msgs' = msgs /\ framed' = framed /\ numbered' = numbered /\ raises' = raises
           /\ handed' = handed /\ skipped' = skipped
           /\ Numbering' /\ Monotone' /\ Framing' /\ Carried'
  <1>1. /\ Idle /\ net' \subseteq net /\ unacked' \subseteq unacked
        /\ \A f \in unacked : f \notin unacked' => f = d.frame
        /\ faults' = faults + Cardinality({x \in {1} : again}) + Cardinality({x \in {1} : ~acked})
        /\ msgs' = msgs /\ framed' = framed /\ numbered' = numbered /\ raises' = raises
        /\ handed' = handed /\ skipped' = skipped
    BY DEF Arrive
  <1>2. faults' \in Nat
    <2>1. \A T \in SUBSET {1} : Cardinality(T) \in Nat
      <3>1. {1} = 1..1
        OBVIOUS
      <3> QED BY <3>1, UpTo
    <2>2. faults \in Nat
      BY DEF Behind, TypeOK
    <2>3. {x \in {1} : again} \in SUBSET {1} /\ {x \in {1} : ~acked} \in SUBSET {1}
      OBVIOUS
    <2> QED BY <1>1, <2>1, <2>2, <2>3
  <1>3. \A c : OrdersSent(c)' = OrdersSent(c) /\ SequencedSince(c)' = SequencedSince(c)
    BY <1>1, SameMessages
  <1>4. Numbering' /\ Monotone'
    BY <1>1, <1>3 DEF Behind, Numbering, Fits, Chan, Monotone, Precedes
  <1>5. Framing' /\ Carried'
    BY <1>1 DEF Behind, Framing, Carried
  <1> QED BY <1>1, <1>2, <1>4, <1>5

LEMMA NoteIs ==
    ASSUME TypeOK, NEW d \in net, Note(d)
    PROVE  /\ seen' \in Seq(Nat)
           /\ \A i \in DOMAIN seen' : seen'[i] = Number(d) \/ \E j \in DOMAIN seen : seen'[i] = seen[j]
           /\ \E i \in DOMAIN seen' : seen'[i] = Number(d)
  <1>1. seen \in Seq(Nat) /\ Len(seen) \in Nat
    BY DEF TypeOK
  <1>2. Number(d) \in Nat
    <2>1. d.number \in Nat
      BY DEF TypeOK, Datagram
    <2>2. PICK m \in Int : m = Start + d.number
      BY <2>1, ModulusIs
    <2> QED BY <2>2, WireIs, ModulusIs DEF Number
  <1>3. ASSUME NEW q \in Seq(Nat), \A i \in DOMAIN q : \E j \in DOMAIN seen : q[i] = seen[j],
               seen' = Append(q, Number(d))
        PROVE  /\ seen' \in Seq(Nat)
               /\ \A i \in DOMAIN seen' : seen'[i] = Number(d) \/ \E j \in DOMAIN seen : seen'[i] = seen[j]
               /\ \E i \in DOMAIN seen' : seen'[i] = Number(d)
    <2>1. /\ seen' \in Seq(Nat) /\ DOMAIN seen' = 1..(Len(q) + 1) /\ DOMAIN q = 1..Len(q)
          /\ Len(q) \in Nat /\ (\A i \in DOMAIN q : seen'[i] = q[i]) /\ seen'[Len(q) + 1] = Number(d)
      BY <1>2, <1>3, AppendIs
    <2>2. \A i \in DOMAIN seen' : i \in DOMAIN q \/ i = Len(q) + 1
      BY <2>1
    <2>3. Len(q) + 1 \in DOMAIN seen'
      BY <2>1
    <2> QED BY <1>3, <2>1, <2>2, <2>3
  <1>4. CASE Len(seen) < History
    BY <1>1, <1>3, <1>4 DEF Note
  <1>5. CASE ~(Len(seen) < History)
    <2>1. seen # <<>>
      BY <1>1, <1>5, ReceiveAssumption
    <2>2. /\ Tail(seen) \in Seq(Nat)
          /\ \A i \in DOMAIN Tail(seen) : i + 1 \in DOMAIN seen /\ Tail(seen)[i] = seen[i + 1]
      BY <1>1, <2>1, TailIs
    <2>3. seen' = Append(Tail(seen), Number(d))
      BY <1>5 DEF Note
    <2> QED BY <1>3, <2>2, <2>3
  <1> QED BY <1>4, <1>5

\* Nothing comes out: the frames accepted and the fragments collected may grow.
LEMMA NoneOut ==
    ASSUME TypeOK, Progress, msgs' = msgs, framed' = framed, orderVars' = orderVars,
           handing' = handing, handed' = handed, skipped' = skipped, Window', Collected',
           \A f \in DOMAIN framed : Accepted(f) => Accepted(f)'
    PROVE  Progress'
  <1>1. expected' = expected /\ seqNext' = seqNext /\ held' = held
    BY DEF orderVars
  <1>2. \A c : OrdersSent(c)' = OrdersSent(c)
    BY SameMessages
  <1>3. Out' = Out /\ \A t : Below(t)' <=> Below(t)
    BY <1>1 DEF Out, Below, Chan
  <1>4. \A t, u : Follows(t, u)' <=> Follows(t, u)
    BY DEF Follows
  <1>5. Turns' /\ Waiting'
    BY <1>1, <1>2 DEF Progress, Turns, Waiting, Chan, Order
  <1>6. Passed' /\ Reached' /\ InLine'
    BY <1>1, <1>3, <1>4 DEF Progress, Passed, Reached, InLine, Lined
  <1>7. Serial'
    BY DEF Progress, Serial, Shown, Taken
  <1> QED BY <1>5, <1>6, <1>7 DEF Progress

\* The same of an entry when the frame in hand has been accepted.
BackedAfter(x) ==
    /\ x.stamp \in DOMAIN msgs /\ x.have # {}
    /\ \A p \in x.have :
          \E f \in DOMAIN framed :
             Accepted(f)' /\ framed[f].stamp = x.stamp /\ framed[f].part = p

LEMMA CollectedAfter ==
    ASSUME msgs' = msgs, framed' = framed, \A i \in DOMAIN partials' : BackedAfter(partials'[i])
    PROVE  Collected'
  BY DEF Collected, Backed, BackedAfter

LEMMA EntryIs ==
    ASSUME TypeOK, NEW i \in DOMAIN partials
    PROVE  partials[i].stamp \in Nat /\ partials[i].have \subseteq Nat /\ partials[i] \in Partial
  <1>1. partials \in Seq(Partial)
    BY DEF TypeOK
  <1>2. partials[i] \in Partial
    BY <1>1
  <1> QED BY <1>2 DEF Partial

\* The part of the frame in hand is backed by it.
LEMMA BackedBy ==
    ASSUME TypeOK, Framing, Carried, Collected, NEW d \in net, d.frame # 0, Moves(d),
           msgs' = msgs, framed' = framed
    PROVE  /\ \A x : Backed(x) => BackedAfter(x)
           /\ \A x : /\ x.stamp = d.stamp
                     /\ x.have = Have(d.stamp) \cup {Part(d)}
                     => BackedAfter(x)
           /\ Have(d.stamp) \cup {Part(d)} \subseteq Nat
  <1>1. /\ d.stamp \in DOMAIN msgs /\ d.frame \in DOMAIN framed
        /\ framed[d.frame].stamp = d.stamp /\ framed[d.frame].part = Part(d)
        /\ Accepted(d.frame)'
    BY DEF Carried, Moves, Part
  <1>2. \A f \in DOMAIN framed : Accepted(f) => Accepted(f)'
    BY DEF Moves
  <1>3. ASSUME NEW x, Backed(x) PROVE BackedAfter(x)
    BY <1>2, <1>3 DEF Backed, BackedAfter
  <1>4. ASSUME NEW p \in Have(d.stamp)
        PROVE  \E f \in DOMAIN framed : Accepted(f) /\ framed[f].stamp = d.stamp /\ framed[f].part = p
    <2>1. PICK i \in DOMAIN partials : partials[i].stamp = d.stamp /\ p \in partials[i].have
      BY DEF Have
    <2> QED BY <2>1 DEF Collected, Backed
  <1>5. ASSUME NEW x, x.stamp = d.stamp, x.have = Have(d.stamp) \cup {Part(d)} PROVE BackedAfter(x)
    <2>1. x.stamp \in DOMAIN msgs /\ x.have # {}
      BY <1>1, <1>5
    <2>2. ASSUME NEW p \in x.have
          PROVE \E f \in DOMAIN framed : Accepted(f)' /\ framed[f].stamp = x.stamp /\ framed[f].part = p
      <3>1. CASE p = Part(d)
        BY <1>1, <1>5, <3>1
      <3>2. CASE p \in Have(d.stamp)
        BY <1>2, <1>4, <1>5, <3>2
      <3> QED BY <1>5, <2>2, <3>1, <3>2
    <2> QED BY <2>1, <2>2 DEF BackedAfter
  <1>6. Have(d.stamp) \subseteq Nat
    <2>1. \A i \in DOMAIN partials : partials[i].have \subseteq Nat
      BY EntryIs
    <2> QED BY <2>1 DEF Have
  <1>7. Part(d) \in Nat
    BY <1>1, FrameIs
  <1> QED BY <1>3, <1>5, <1>6, <1>7

LEMMA CollectKeeps ==
    ASSUME TypeOK, Framing, Carried, Collected, NEW d \in net, Moves(d), Collect(d),
           msgs' = msgs, framed' = framed
    PROVE  /\ partials' \in Seq(Partial) /\ Collected' /\ d.frame # 0
           /\ evicted' \subseteq Nat /\ refused' = refused
           /\ orderVars' = orderVars /\ handing' = handing
  <1> DEFINE new == [stamp |-> d.stamp, have |-> Have(d.stamp) \cup {Part(d)}]
             full == Len(partials) >= SplitLimit
  <1>1. /\ d.frame # 0 /\ refused' = refused /\ orderVars' = orderVars /\ handing' = handing
        /\ \/ /\ partials' = [i \in DOMAIN partials |->
                                 IF partials[i].stamp = d.stamp THEN new ELSE partials[i]]
              /\ evicted' = evicted
           \/ /\ partials' = Append(IF full THEN Tail(partials) ELSE partials, new)
              /\ evicted' = IF full THEN evicted \cup Oldest ELSE evicted
    BY DEF Collect, Complete
  <1>2. partials \in Seq(Partial) /\ evicted \subseteq Nat
    BY DEF TypeOK
  <1>3. /\ \A x : Backed(x) => BackedAfter(x)
        /\ \A x : x.stamp = d.stamp /\ x.have = Have(d.stamp) \cup {Part(d)} => BackedAfter(x)
        /\ Have(d.stamp) \cup {Part(d)} \subseteq Nat
    BY <1>1, BackedBy
  <1>4. new \in Partial /\ BackedAfter(new)
    <2>1. d.stamp \in Nat
      BY DEF TypeOK, Datagram
    <2>2. new.stamp = d.stamp /\ new.have = Have(d.stamp) \cup {Part(d)}
      OBVIOUS
    <2>3. new \in Partial
      BY <1>3, <2>1 DEF Partial
    <2> HIDE DEF new
    <2> QED BY <1>3, <2>2, <2>3
  <1> HIDE DEF new
  <1>5. \A i \in DOMAIN partials : BackedAfter(partials[i])
    BY <1>3 DEF Collected
  <1>6. ASSUME partials' = [i \in DOMAIN partials |->
                              IF partials[i].stamp = d.stamp THEN new ELSE partials[i]]
        PROVE  partials' \in Seq(Partial) /\ Collected'
    <2>1. partials' \in Seq(Partial)
      BY <1>2, <1>4, <1>6
    <2>2. \A i \in DOMAIN partials' : i \in DOMAIN partials /\ (partials'[i] = new \/ partials'[i] = partials[i])
      BY <1>6
    <2>3. \A i \in DOMAIN partials' : BackedAfter(partials'[i])
      BY <1>4, <1>5, <2>2
    <2>4. Collected'
      BY <2>3, CollectedAfter
    <2> QED BY <2>1, <2>4
  <1>7. ASSUME NEW q \in Seq(Partial), \A i \in DOMAIN q : \E j \in DOMAIN partials : q[i] = partials[j],
               partials' = Append(q, new)
        PROVE  partials' \in Seq(Partial) /\ Collected'
    <2>1. /\ partials' \in Seq(Partial) /\ DOMAIN partials' = 1..(Len(q) + 1) /\ DOMAIN q = 1..Len(q)
          /\ Len(q) \in Nat /\ (\A i \in DOMAIN q : partials'[i] = q[i]) /\ partials'[Len(q) + 1] = new
      BY <1>4, <1>7, AppendIs
    <2>2. \A i \in DOMAIN partials' : i \in DOMAIN q \/ i = Len(q) + 1
      BY <2>1
    <2>3. \A i \in DOMAIN partials' : BackedAfter(partials'[i])
      BY <1>4, <1>5, <1>7, <2>1, <2>2
    <2> QED BY <2>1, <2>3, CollectedAfter
  <1>8. full => partials # <<>>
    BY <1>2, ReceiveAssumption
  <1>9. ASSUME partials' = Append(IF full THEN Tail(partials) ELSE partials, new)
        PROVE  partials' \in Seq(Partial) /\ Collected'
    <2>1. CASE full
      <3>1. /\ Tail(partials) \in Seq(Partial)
            /\ \A i \in DOMAIN Tail(partials) : i + 1 \in DOMAIN partials /\ Tail(partials)[i] = partials[i + 1]
        BY <1>2, <1>8, <2>1, TailIs
      <3>2. partials' = Append(Tail(partials), new)
        BY <1>9, <2>1
      <3> QED BY <1>7, <3>1, <3>2
    <2>2. CASE ~full
      <3>1. partials' = Append(partials, new)
        BY <1>9, <2>2
      <3> QED BY <1>2, <1>7, <3>1
    <2> QED BY <2>1, <2>2
  <1>10. evicted' \subseteq Nat
    <2>1. full => Oldest \subseteq Nat
      <3>1. full => 1 \in DOMAIN partials
        BY <1>2, <1>8
      <3>2. \A i \in DOMAIN partials : partials[i].stamp \in Nat
        BY EntryIs
      <3> QED BY <3>1, <3>2 DEF Oldest
    <2> QED BY <1>1, <1>2, <2>1
  <1> QED BY <1>1, <1>6, <1>9, <1>10

\* The last frame of a message completes it: all its frames are accepted.
LEMMA WholeIs ==
    ASSUME TypeOK, Framing, Carried, Collected, NEW d \in net, Moves(d), Complete(d)
    PROVE  \A f \in DOMAIN framed : framed[f].stamp = d.stamp => Accepted(f)'
  <1> SUFFICES ASSUME NEW f \in DOMAIN framed, framed[f].stamp = d.stamp PROVE Accepted(f)'
    OBVIOUS
  <1>1. d.frame # 0
    BY DEF Carried, Framing
  <1>2. /\ d.frame \in DOMAIN framed /\ framed[d.frame].stamp = d.stamp
        /\ framed[d.frame].part = Part(d) /\ Accepted(d.frame)'
        /\ \A g \in DOMAIN framed : Accepted(g) => Accepted(g)'
    BY <1>1 DEF Carried, Moves, Part
  <1>3. ASSUME NEW g \in DOMAIN framed, framed[g].stamp = d.stamp, framed[g].part = framed[f].part
        PROVE  f = g
    <2>1. framed[f] \in Frame /\ framed[g] \in Frame
      BY FrameIs
    <2>2. framed[f] = framed[g]
      BY <1>3, <2>1 DEF Frame
    <2> QED BY <2>2 DEF Framing
  <1>4. framed[f].part \in Have(d.stamp) \cup {Part(d)}
    BY <1>1 DEF Complete, Framing
  <1>5. CASE framed[f].part = Part(d)
    BY <1>2, <1>3, <1>5
  <1>6. CASE framed[f].part \in Have(d.stamp)
    <2>1. PICK i \in DOMAIN partials : partials[i].stamp = d.stamp /\ framed[f].part \in partials[i].have
      BY <1>6 DEF Have
    <2>2. PICK g \in DOMAIN framed : Accepted(g) /\ framed[g].stamp = d.stamp
                                     /\ framed[g].part = framed[f].part
      BY <2>1 DEF Collected, Backed
    <2> QED BY <1>2, <1>3, <2>2
  <1> QED BY <1>4, <1>5, <1>6

LEMMA WholeKeeps ==
    ASSUME Behind, Progress, Idle, NEW d \in net, Moves(d), Whole(d),
           msgs' = msgs, framed' = framed, handed' = handed, skipped' = skipped
    PROVE  /\ Dispatched(d.stamp) /\ Out \subseteq Out'
           /\ partials' \in Seq(Partial) /\ Progress'
  <1> USE DEF Behind
  <1>1. PICK s \in DOMAIN msgs : s = d.stamp
    BY DEF Carried
  <1>2. Complete(d) /\ partials' = Without(partials, s) /\ Dispatch(s)
    BY <1>1 DEF Whole
  <1>3. Ordering
    BY DEF Progress, Ordering, Passed
  <1>4. ASSUME msgs[s].kind = "plain" PROVE s \notin Out
    <2>1. d.frame # 0
      BY <1>1, <1>4 DEF Carried
    <2>2. d.frame \in DOMAIN framed /\ framed[d.frame].stamp = s /\ ~Accepted(d.frame)
      BY <1>1, <2>1 DEF Moves, Carried
    <2> QED BY <1>4, <2>2 DEF Progress, Passed
  <1>5. Dispatching(s)
    BY <1>3, <1>4 DEF Dispatching
  <1>6. Dispatched(s)
    BY <1>2, <1>5, DispatchKeeps
  <1>7. /\ partials' \in Seq(Partial)
        /\ \A i \in DOMAIN partials' : \E j \in DOMAIN partials : partials'[i] = partials[j]
    <2>1. partials \in Seq(Partial)
      BY DEF TypeOK
    <2> QED BY <1>2, <2>1, WithoutIs
  <1>8. \A f \in DOMAIN framed : Accepted(f) => Accepted(f)'
    BY DEF Moves
  <1>9. Collected'
    <2>1. \A i \in DOMAIN partials : BackedAfter(partials[i])
      BY <1>8 DEF Progress, Collected, Backed, BackedAfter
    <2> QED BY <1>7, <2>1, CollectedAfter
  <1>10. Passed'
    <2> SUFFICES ASSUME NEW t \in Out'
                 PROVE  /\ t \in DOMAIN msgs /\ (msgs[t].kind # "plain" => Below(t)')
                        /\ msgs[t].kind = "plain" =>
                             \A f \in DOMAIN framed : framed[f].stamp = t => Accepted(f)'
      BY DEF Passed
    <2>1. t \in DOMAIN msgs /\ (msgs[t].kind # "plain" => Below(t)')
      BY <1>6 DEF Dispatched, Ordering
    <2>2. ASSUME msgs[t].kind = "plain", NEW f \in DOMAIN framed, framed[f].stamp = t
          PROVE  Accepted(f)'
      <3>1. t \in Out \/ t = s
        BY <1>6, <2>2 DEF Dispatched
      <3>2. CASE t \in Out
        BY <1>8, <2>2, <3>2 DEF Progress, Passed
      <3>3. CASE t = s
        BY <1>1, <1>2, <2>2, <3>3, WholeIs DEF Progress
      <3> QED BY <3>1, <3>2, <3>3
    <2> QED BY <2>1, <2>2
  <1>11. Serial'
    BY DEF Progress, Serial, Shown, Taken
  <1>12. Window' /\ Turns' /\ Waiting' /\ Reached' /\ InLine'
    BY <1>6 DEF Moves, Dispatched, Ordering
  <1> QED BY <1>1, <1>6, <1>7, <1>9, <1>10, <1>11, <1>12 DEF Progress, Dispatched

LEMMA ReceiveKeeps ==
    ASSUME ReceiveInv, NEW d \in net, NEW again \in BOOLEAN, NEW acked \in BOOLEAN,
           Receive(d, again, acked)
    PROVE  ReceiveInv'
  <1>1. Behind /\ Progress
    BY DEF ReceiveInv, Progress
  <1>2. /\ Idle /\ net' \subseteq net /\ unacked' \subseteq unacked /\ faults' \in Nat
        /\ msgs' = msgs /\ framed' = framed /\ numbered' = numbered /\ raises' = raises
        /\ handed' = handed /\ skipped' = skipped
        /\ Numbering' /\ Monotone' /\ Framing' /\ Carried'
    BY <1>1, ArriveIs DEF Receive
  <1>3. d.stamp \in Nat /\ TypeOK /\ Framing /\ Carried /\ Window /\ Collected
    <2>1. d \in Datagram
      BY <1>1 DEF Behind, TypeOK
    <2> QED BY <1>1, <2>1 DEF Datagram, Behind, Progress
  <1> DEFINE Types == /\ seen' \in Seq(Nat)
                      /\ base' \in 0..(Modulus - 1) /\ ahead' \subseteq 0..(Modulus - 1)
                      /\ partials' \in Seq(Partial) /\ OrderTypes'
                      /\ evicted' \subseteq Nat /\ refused' \subseteq Nat
  <1>4. Types /\ Progress'
    <2>0. /\ seen \in Seq(Nat) /\ base \in 0..(Modulus - 1) /\ ahead \subseteq 0..(Modulus - 1)
          /\ partials \in Seq(Partial) /\ OrderTypes /\ evicted \subseteq Nat /\ refused \subseteq Nat
      BY <1>3 DEF TypeOK, OrderTypes
    <2>1. ASSUME base' = base, ahead' = ahead, partials' = partials, orderVars' = orderVars,
                 handing' = handing, evicted' = evicted, seen' \in Seq(Nat),
                 refused' \subseteq refused \cup {d.stamp}
          PROVE  Types /\ Progress'
      <3>1. \A f : Accepted(f)' <=> Accepted(f)
        BY <2>1 DEF Accepted
      <3>2. Window' /\ Collected'
        BY <1>2, <1>3, <2>1, <3>1 DEF Window, Collected, Backed
      <3>3. Progress'
        BY <1>1, <1>2, <1>3, <2>1, <3>1, <3>2, NoneOut
      <3>4. Types
        BY <1>3, <2>0, <2>1 DEF orderVars, OrderTypes
      <3> QED BY <3>3, <3>4
    <2>2. CASE RepeatedDatagram(d)
      BY <2>0, <2>1, <2>2 DEF RepeatedDatagram, frameVars, lostVars
    <2>3. CASE Note(d) /\ (RepeatedFrame(d) \/ OutsideReliable(d))
      <3>1. seen' \in Seq(Nat)
        BY <1>3, <2>3, NoteIs
      <3> QED BY <2>1, <2>3, <3>1 DEF RepeatedFrame, OutsideReliable, lostVars
    <2>4. CASE Note(d) /\ AcceptFrame(d) /\ (Collect(d) \/ Whole(d))
      <3>1. seen' \in Seq(Nat)
        BY <1>3, <2>4, NoteIs
      <3>2. Moves(d)
        BY <1>2, <1>3, <2>4, AcceptMoves
      <3>3. /\ base' \in 0..(Modulus - 1) /\ ahead' \subseteq 0..(Modulus - 1) /\ Window'
            /\ \A f \in DOMAIN framed : Accepted(f) => Accepted(f)'
        BY <3>2 DEF Moves
      <3>4. CASE Collect(d)
        <4>1. /\ partials' \in Seq(Partial) /\ Collected' /\ evicted' \subseteq Nat /\ refused' = refused
              /\ orderVars' = orderVars /\ handing' = handing
          BY <1>2, <1>3, <3>2, <3>4, CollectKeeps
        <4>2. Progress'
          BY <1>1, <1>2, <1>3, <3>3, <4>1, NoneOut
        <4>3. OrderTypes'
          BY <2>0, <4>1 DEF orderVars, OrderTypes
        <4> QED BY <2>0, <3>1, <3>3, <4>1, <4>2, <4>3
      <3>5. CASE Whole(d)
        <4>1. Dispatched(d.stamp) /\ partials' \in Seq(Partial) /\ Progress'
          BY <1>1, <1>2, <3>2, <3>5, WholeKeeps
        <4> QED BY <1>3, <2>0, <3>1, <3>3, <4>1 DEF Dispatched
      <3> QED BY <2>4, <3>4, <3>5
    <2> QED BY <2>2, <2>3, <2>4 DEF Receive
  <1>5. TypeOK'
    BY <1>2, <1>3, <1>4 DEF TypeOK, OrderTypes
  <1>6. Behind'
    BY <1>2, <1>5 DEF Behind
  <1> QED BY <1>4, <1>6 DEF ReceiveInv, Progress

-----------------------------------------------------------------------------
(* A message is handed out *)

\* The rest of what is in hand, and whether the callback took it along.
HandIs(h, q, rest) ==
    /\ handing # <<>> /\ h = Head(handing) /\ rest = Tail(handing)
    /\ handed' = Append(handed, h)
    /\ \/ handing' = <<>> /\ skipped' = skipped \cup Range(rest)
       \/ handing' = rest /\ skipped' = skipped
    /\ q = Len(handed) + 1

LEMMA HeadFirst ==
    ASSUME TypeOK, InLine, handing # <<>>
    PROVE  /\ \A t \in Range(Tail(handing)) : Follows(Head(handing), t) /\ t \in Range(handing)
           /\ Head(handing) \in Range(handing) /\ Lined(Tail(handing))
           /\ Range(handing) = {Head(handing)} \cup Range(Tail(handing))
           /\ \A t \in Range(handed) \cup skipped : Follows(t, Head(handing))
  <1>1. handing \in Seq(Nat)
    BY DEF TypeOK
  <1>2. /\ DOMAIN handing = 1..Len(handing) /\ DOMAIN Tail(handing) = 1..(Len(handing) - 1)
        /\ Len(handing) \in Nat
        /\ \A i \in DOMAIN Tail(handing) : i + 1 \in DOMAIN handing /\ Tail(handing)[i] = handing[i + 1]
        /\ Head(handing) = handing[1] /\ 1 \in DOMAIN handing
        /\ Range(handing) = {Head(handing)} \cup Range(Tail(handing))
    BY <1>1, TailIs
  <1>3. \A i, j \in DOMAIN handing : i < j => Follows(handing[i], handing[j])
    BY DEF InLine, Lined
  <1>4. ASSUME NEW t \in Range(Tail(handing)) PROVE Follows(Head(handing), t)
    <2>1. PICK i \in DOMAIN Tail(handing) : t = Tail(handing)[i]
      BY DEF Range
    <2>2. i + 1 \in DOMAIN handing /\ t = handing[i + 1] /\ 1 < i + 1
      BY <1>2, <2>1
    <2> QED BY <1>2, <1>3, <2>2
  <1>5. Lined(Tail(handing))
    <2> SUFFICES ASSUME NEW i \in DOMAIN Tail(handing), NEW j \in DOMAIN Tail(handing), i < j
                 PROVE  Follows(Tail(handing)[i], Tail(handing)[j])
      BY DEF Lined
    <2>1. i + 1 < j + 1
      BY <1>2
    <2> QED BY <1>2, <1>3, <2>1
  <1> QED BY <1>2, <1>4, <1>5 DEF InLine

LEMMA HandTypes ==
    ASSUME TypeOK, NEW raise \in BOOLEAN, Hand(raise)
    PROVE  /\ TypeOK' /\ \E h, q, rest : HandIs(h, q, rest)
           /\ UNCHANGED <<clientVars, networkVars, frameVars, orderVars, lostVars>>
  <1>1. handing \in Seq(Nat) /\ handed \in Seq(Nat) /\ skipped \subseteq Nat /\ raises \in Nat
    BY DEF TypeOK
  <1>2. /\ handing # <<>> /\ handed' = Append(handed, Head(handing))
        /\ \/ handing' = <<>> /\ skipped' = skipped \cup Range(Tail(handing)) /\ raises' = raises + 1
           \/ handing' = Tail(handing) /\ skipped' = skipped /\ raises' = raises
        /\ UNCHANGED <<clientVars, networkVars, frameVars, orderVars, lostVars>>
    BY DEF Hand
  <1>3. Tail(handing) \in Seq(Nat) /\ Head(handing) \in Nat /\ Range(Tail(handing)) \subseteq Nat
    <2>1. Tail(handing) \in Seq(Nat) /\ Head(handing) \in Nat
      BY <1>1, <1>2, TailIs
    <2> QED BY <2>1, RangeIs
  <1>4. /\ handed' \in Seq(Nat) /\ handing' \in Seq(Nat) /\ skipped' \subseteq Nat /\ raises' \in Nat
    <2>1. handed' \in Seq(Nat)
      BY <1>1, <1>2, <1>3, AppendIs
    <2>2. handing' \in Seq(Nat)
      <3>1. <<>> \in Seq(Nat)
        OBVIOUS
      <3>2. handing' = <<>> \/ handing' = Tail(handing)
        BY <1>2
      <3> QED BY <1>3, <3>1, <3>2
    <2>3. skipped' \subseteq Nat /\ raises' \in Nat
      <3>1. skipped' = skipped \cup Range(Tail(handing)) \/ skipped' = skipped
        BY <1>2
      <3>2. raises' = raises + 1 \/ raises' = raises
        BY <1>2
      <3>3. raises' \in Nat
        BY <1>1, <3>2
      <3>4. skipped' \subseteq Nat
        BY <1>1, <1>3, <3>1
      <3> QED BY <3>3, <3>4
    <2> QED BY <2>1, <2>2, <2>3
  <1>5. TypeOK'
    BY <1>2, <1>4 DEF TypeOK, clientVars, networkVars, frameVars, orderVars, lostVars
  <1>6. HandIs(Head(handing), Len(handed) + 1, Tail(handing))
    BY <1>2 DEF HandIs
  <1> QED BY <1>2, <1>5, <1>6

\* Of a channel, one more message is shown if it is ordered and none was taken along.
LEMMA ShownNext ==
    ASSUME TypeOK, Passed, InLine, NEW h, NEW q, NEW rest, HandIs(h, q, rest), msgs' = msgs, NEW c
    PROVE  Shown(c)' = IF msgs[h].channel = c /\ msgs[h].kind = "ordered" /\ Taken(c) = {}
                       THEN Shown(c) \cup {q} ELSE Shown(c)
  <1>1. /\ handed \in Seq(Nat) /\ handing \in Seq(Nat) /\ handing # <<>> /\ h = Head(handing)
        /\ rest = Tail(handing) /\ handed' = Append(handed, h)
        /\ \/ skipped' = skipped \cup Range(rest)
           \/ skipped' = skipped
    BY DEF HandIs, TypeOK
  <1>2. /\ \A t \in Range(rest) : Follows(h, t) /\ t \in Range(handing)
        /\ h \in Range(handing) /\ \A t \in Range(handed) \cup skipped : Follows(t, h)
    BY <1>1, HeadFirst
  <1>3. h \in Nat
    BY <1>1, TailIs
  <1>4. /\ DOMAIN handed' = DOMAIN handed \cup {q} /\ q \notin DOMAIN handed
        /\ handed'[q] = h /\ \A i \in DOMAIN handed : handed'[i] = handed[i] /\ handed[i] \in Nat
    <2>1. /\ DOMAIN handed' = 1..(Len(handed) + 1) /\ DOMAIN handed = 1..Len(handed) /\ Len(handed) \in Nat
          /\ handed'[Len(handed) + 1] = h /\ \A i \in DOMAIN handed : handed'[i] = handed[i]
      BY <1>1, <1>3, AppendIs
    <2>2. q = Len(handed) + 1
      BY DEF HandIs
    <2>3. \A i \in DOMAIN handed : handed[i] \in Nat
      BY <1>1
    <2> QED BY <2>1, <2>2, <2>3
  <1>5. \A i \in DOMAIN handed, t \in Range(rest) : Follows(handed[i], t)
    BY <1>2 DEF InLine, Range
  <1>6. Taken(c)' \subseteq Taken(c) \cup Range(rest) /\ Taken(c) \subseteq Taken(c)'
    BY <1>1 DEF Taken
  <1>7. \A t \in Taken(c) : t \in skipped /\ msgs[t].channel = c /\ msgs[t].kind = "ordered"
    BY DEF Taken
  <1>8. \A t \in Taken(c)' : msgs[t].channel = c /\ msgs[t].kind = "ordered"
    BY DEF Taken
  <1>9. ASSUME NEW i \in DOMAIN handed PROVE i \in Shown(c)' <=> i \in Shown(c)
    <2>1. i \in Shown(c)' <=> /\ msgs[handed[i]].channel = c /\ msgs[handed[i]].kind = "ordered"
                              /\ \A t \in Taken(c)' : handed[i] < t
      BY <1>4 DEF Shown
    <2>2. i \in Shown(c) <=> /\ msgs[handed[i]].channel = c /\ msgs[handed[i]].kind = "ordered"
                             /\ \A t \in Taken(c) : handed[i] < t
      BY DEF Shown
    <2>3. ASSUME msgs[handed[i]].channel = c, msgs[handed[i]].kind = "ordered",
                 NEW t \in Taken(c)', t \in Range(rest)
          PROVE  handed[i] < t
      BY <1>5, <1>8, <2>3 DEF Follows
    <2> QED BY <1>6, <2>1, <2>2, <2>3
  <1>10. q \in Shown(c)' <=> msgs[h].channel = c /\ msgs[h].kind = "ordered" /\ Taken(c) = {}
    <2>1. q \in Shown(c)' <=> /\ msgs[h].channel = c /\ msgs[h].kind = "ordered"
                              /\ \A t \in Taken(c)' : h < t
      BY <1>4 DEF Shown
    <2>2. ASSUME msgs[h].channel = c, msgs[h].kind = "ordered", NEW t \in Taken(c)', t \in Range(rest)
          PROVE  h < t
      BY <1>2, <1>8, <2>2 DEF Follows
    <2>3. ASSUME msgs[h].channel = c, msgs[h].kind = "ordered", NEW t \in Taken(c) PROVE ~(h < t)
      <3>1. t < h
        BY <1>2, <1>7, <2>3 DEF Follows
      <3>2. t \in Nat
        BY <1>7 DEF TypeOK
      <3> QED BY <1>3, <3>1, <3>2
    <2> QED BY <1>6, <2>1, <2>2, <2>3
  <1>11. Shown(c)' \subseteq DOMAIN handed' /\ Shown(c) \subseteq DOMAIN handed
    BY DEF Shown
  <1> QED BY <1>4, <1>9, <1>10, <1>11

\* The next ordered message of a channel without gaps has the next order.
LEMMA NextInTurn ==
    ASSUME ReceiveInv, handing # <<>>, NEW c \in Channels, Taken(c) = {}, NEW h, h = Head(handing),
           msgs[h].channel = c, msgs[h].kind = "ordered"
    PROVE  /\ h \in DOMAIN msgs /\ IsFiniteSet(Shown(c)) /\ Cardinality(Shown(c)) \in Nat
           /\ msgs[h].order = Cardinality(Shown(c))
  <1> USE DEF ReceiveInv, Behind
  <1>1. /\ h \in Range(handing) /\ Range(handing) = {h} \cup Range(Tail(handing))
        /\ \A t \in Range(Tail(handing)) : Follows(h, t)
        /\ \A t \in Range(handed) : Follows(t, h)
    BY HeadFirst
  <1>2. /\ \A t \in Out : t \in DOMAIN msgs /\ (msgs[t].kind # "plain" => Below(t))
        /\ h \in Out
    BY <1>1 DEF Passed, Out
  <1>3. h \in DOMAIN msgs /\ msgs[h].order \in Nat /\ h \in Nat
    BY <1>2, MessageIs
  <1>4. IsFiniteSet(Shown(c)) /\ Cardinality(Shown(c)) \in Nat
    <2>1. handed \in Seq(Nat)
      BY DEF TypeOK
    <2>2. Shown(c) \in SUBSET (1..Len(handed)) /\ Len(handed) \in Nat
      BY <2>1 DEF Shown
    <2> QED BY <2>2, UpTo
  <1>5. PICK m \in Nat, o \in Nat : m = Cardinality(Shown(c)) /\ o = msgs[h].order
    BY <1>3, <1>4
  <1>6. \A i \in Shown(c) : /\ i \in DOMAIN handed /\ handed[i] \in Range(handed)
                            /\ msgs[handed[i]].channel = c /\ msgs[handed[i]].kind = "ordered"
    BY DEF Shown, Range
  <1>7. ~(o < m)
    <2> SUFFICES ASSUME o < m PROVE FALSE
      OBVIOUS
    <2>1. PICK i \in Shown(c) : msgs[handed[i]].order = o
      BY <1>5 DEF Serial
    <2>2. handed[i] \in DOMAIN msgs /\ Follows(handed[i], h)
      BY <1>1, <1>2, <1>6 DEF Out
    <2>3. handed[i] = h
      BY <1>3, <1>5, <1>6, <2>1, <2>2, OneOrdered DEF Chan
    <2> QED BY <2>2, <2>3 DEF Follows
  <1>8. ~(m < o)
    <2> SUFFICES ASSUME m < o PROVE FALSE
      OBVIOUS
    <2>1. At(expected[c]) \in Nat /\ o < At(expected[c])
      <3>1. At(expected[c]) \in 0..(Modulus - 1)
        BY PositionIs
      <3>2. Below(h)
        BY <1>2
      <3> QED BY <1>5, <3>1, <3>2, ModulusIs DEF Below, Chan
    <2>2. m < At(expected[c])
      BY <2>1
    <2>3. PICK s \in Out : msgs[s].channel = c /\ msgs[s].kind = "ordered" /\ msgs[s].order = m
      BY <2>2 DEF Reached
    <2>4. s \notin skipped
      BY <2>3 DEF Taken
    <2>5. CASE s \in Range(handed)
      <3>1. PICK i \in DOMAIN handed : s = handed[i] /\ i \in Nat
        <4>1. handed \in Seq(Nat)
          BY DEF TypeOK
        <4> QED BY <4>1, <2>5 DEF Range
      <3>2. i \in Shown(c)
        BY <2>3, <3>1 DEF Shown
      <3>3. m = Cardinality({j \in Shown(c) : j < i})
        BY <2>3, <3>1, <3>2 DEF Serial
      <3>4. {j \in Shown(c) : j < i} \in SUBSET (Shown(c) \ {i})
        BY <3>1
      <3>5. /\ IsFiniteSet(Shown(c) \ {i}) /\ Cardinality(Shown(c) \ {i}) = m - 1
        BY <1>4, <1>5, <3>2, FS_RemoveElement
      <3>6. m <= m - 1
        BY <3>3, <3>4, <3>5, FS_Subset
      <3> QED BY <3>6
    <2>6. CASE s \in Range(Tail(handing))
      <3>1. Follows(h, s) /\ s \in DOMAIN msgs
        BY <1>1, <1>2, <2>6
      <3>2. h < s
        BY <2>3, <3>1 DEF Follows
      <3>3. msgs[h].order < msgs[s].order
        BY <1>3, <2>3, <3>1, <3>2 DEF Monotone, Precedes, Chan
      <3> QED BY <1>5, <2>3, <3>3
    <2>7. s # h
      BY <1>5, <2>3
    <2> QED BY <1>1, <2>4, <2>5, <2>6, <2>7 DEF Out
  <1> QED BY <1>3, <1>4, <1>5, <1>7, <1>8

LEMMA SerialNext ==
    ASSUME ReceiveInv, NEW h, NEW q, NEW rest, HandIs(h, q, rest), msgs' = msgs
    PROVE  Serial'
  <1> USE DEF ReceiveInv, Behind
  <1> SUFFICES ASSUME NEW c \in Channels
               PROVE  /\ \A i \in Shown(c)' : msgs[handed'[i]].order = Cardinality({j \in Shown(c)' : j < i})
                      /\ \A k \in 0..(Cardinality(Shown(c)') - 1) :
                            \E i \in Shown(c)' : msgs[handed'[i]].order = k
    BY DEF Serial
  <1>1. Shown(c)' = IF msgs[h].channel = c /\ msgs[h].kind = "ordered" /\ Taken(c) = {}
                    THEN Shown(c) \cup {q} ELSE Shown(c)
    BY ShownNext
  <1>2. /\ q = Len(handed) + 1 /\ q \in Nat /\ Shown(c) \subseteq 1..Len(handed)
        /\ Len(handed) \in Nat
        /\ handed'[q] = h /\ \A i \in Shown(c) : handed'[i] = handed[i]
    <2>1. handed \in Seq(Nat) /\ handing \in Seq(Nat) /\ handing # <<>> /\ h = Head(handing)
          /\ handed' = Append(handed, h) /\ q = Len(handed) + 1
      BY DEF HandIs, TypeOK
    <2>2. h \in Nat
      BY <2>1, TailIs
    <2>3. /\ DOMAIN handed = 1..Len(handed) /\ Len(handed) \in Nat
          /\ handed'[Len(handed) + 1] = h /\ \A i \in DOMAIN handed : handed'[i] = handed[i]
      BY <2>1, <2>2, AppendIs
    <2>4. Shown(c) \subseteq DOMAIN handed
      BY DEF Shown
    <2> QED BY <2>1, <2>3, <2>4
  <1>3. /\ \A i \in Shown(c) : msgs[handed[i]].order = Cardinality({j \in Shown(c) : j < i})
        /\ \A k \in 0..(Cardinality(Shown(c)) - 1) : \E i \in Shown(c) : msgs[handed[i]].order = k
    BY DEF Serial
  <1>4. CASE ~(msgs[h].channel = c /\ msgs[h].kind = "ordered" /\ Taken(c) = {})
    <2>1. Shown(c)' = Shown(c)
      BY <1>1, <1>4
    <2> QED BY <1>2, <1>3, <2>1
  <1>5. CASE msgs[h].channel = c /\ msgs[h].kind = "ordered" /\ Taken(c) = {}
    <2>1. /\ IsFiniteSet(Shown(c)) /\ Cardinality(Shown(c)) \in Nat
          /\ msgs[h].order = Cardinality(Shown(c))
      BY <1>5, NextInTurn DEF HandIs
    <2>2. Shown(c)' = Shown(c) \cup {q} /\ q \notin Shown(c)
      BY <1>1, <1>2, <1>5
    <2>3. Cardinality(Shown(c)') = Cardinality(Shown(c)) + 1
      BY <2>1, <2>2, FS_AddElement
    <2>4. {j \in Shown(c)' : j < q} = Shown(c)
      BY <1>2, <2>2
    <2>5. \A i \in Shown(c) : {j \in Shown(c)' : j < i} = {j \in Shown(c) : j < i}
      BY <1>2, <2>2
    <2>6. \A i \in Shown(c)' : msgs[handed'[i]].order = Cardinality({j \in Shown(c)' : j < i})
      <3> SUFFICES ASSUME NEW i \in Shown(c)'
                   PROVE  msgs[handed'[i]].order = Cardinality({j \in Shown(c)' : j < i})
        OBVIOUS
      <3>1. CASE i = q
        BY <1>2, <2>1, <2>4, <3>1
      <3>2. CASE i \in Shown(c)
        <4>1. handed'[i] = handed[i]
          BY <1>2, <3>2
        <4> QED BY <1>3, <2>5, <3>2, <4>1
      <3> QED BY <2>2, <3>1, <3>2
    <2>7. ASSUME NEW k \in 0..(Cardinality(Shown(c)') - 1)
          PROVE  \E i \in Shown(c)' : msgs[handed'[i]].order = k
      <3>1. k \in 0..(Cardinality(Shown(c)) - 1) \/ k = Cardinality(Shown(c))
        BY <2>1, <2>3, <2>7
      <3> QED BY <1>2, <1>3, <2>1, <2>2, <3>1
    <2> QED BY <2>6, <2>7
  <1> QED BY <1>4, <1>5

LEMMA HandKeeps ==
    ASSUME ReceiveInv, NEW raise \in BOOLEAN, Hand(raise)
    PROVE  ReceiveInv' /\ Out' = Out
  <1> USE DEF ReceiveInv, Behind
  <1>1. /\ TypeOK' /\ UNCHANGED <<clientVars, networkVars, frameVars, orderVars, lostVars>>
    BY HandTypes
  <1>2. PICK h, q, rest : HandIs(h, q, rest)
    BY HandTypes
  <1>3. /\ msgs' = msgs /\ framed' = framed /\ net' = net /\ base' = base /\ ahead' = ahead
        /\ partials' = partials /\ expected' = expected /\ seqNext' = seqNext /\ held' = held
    BY <1>1 DEF clientVars, networkVars, frameVars, orderVars
  <1>4. /\ \A t \in Range(rest) : Follows(h, t) /\ t \in Range(handing)
        /\ Lined(rest) /\ h \in Range(handing)
        /\ Range(handing) = {h} \cup Range(rest)
        /\ \A t \in Range(handed) \cup skipped : Follows(t, h)
    BY <1>2, HeadFirst DEF HandIs
  <1>5. /\ Range(handed') = Range(handed) \cup {h} /\ handed' = Append(handed, h)
        /\ handed \in Seq(Nat) /\ h \in Nat
        /\ \/ handing' = <<>> /\ skipped' = skipped \cup Range(rest)
           \/ handing' = rest /\ skipped' = skipped
    <2>1. /\ handed \in Seq(Nat) /\ handing \in Seq(Nat) /\ handing # <<>> /\ h = Head(handing)
          /\ handed' = Append(handed, h)
      BY <1>2 DEF HandIs, TypeOK
    <2>2. h \in Nat
      BY <2>1, TailIs
    <2> QED BY <1>2, <2>1, <2>2, AppendIs DEF HandIs
  <1>6. Range(<<>>) = {}
    BY DEF Range
  <1>7. Out' = Out
    BY <1>4, <1>5, <1>6 DEF Out
  <1>8. \A c : OrdersSent(c)' = OrdersSent(c) /\ SequencedSince(c)' = SequencedSince(c)
    BY <1>3, SameMessages
  <1>9. Numbering' /\ Monotone' /\ Framing' /\ Carried'
    BY <1>3, <1>8 DEF Numbering, Fits, Chan, Monotone, Precedes, Framing, Carried
  <1>10. Window' /\ Collected' /\ Turns' /\ Waiting'
    BY <1>3, <1>8 DEF Window, Collected, Backed, Accepted, Turns, Waiting, Chan, Order
  <1>11. Passed' /\ Reached'
    BY <1>3, <1>7 DEF Passed, Reached, Below, Chan, Accepted
  <1>12. InLine'
    <2>1. \A t, u : Follows(t, u)' <=> Follows(t, u)
      BY <1>3 DEF Follows
    <2>2. \A i \in DOMAIN handed : Follows(handed[i], h)
      BY <1>4 DEF Range
    <2>3. /\ DOMAIN handed' = 1..(Len(handed) + 1) /\ DOMAIN handed = 1..Len(handed) /\ Len(handed) \in Nat
          /\ handed'[Len(handed) + 1] = h /\ \A i \in DOMAIN handed : handed'[i] = handed[i]
      BY <1>5, AppendIs
    <2>4. \A i, j \in DOMAIN handed' : i < j =>
             i \in DOMAIN handed /\ (j \in DOMAIN handed \/ j = Len(handed) + 1)
      BY <2>3
    <2>5. \A i, j \in DOMAIN handed' : i < j => Follows(handed'[i], handed'[j])
      BY <2>2, <2>3, <2>4 DEF InLine, Lined
    <2>6. Lined(handed)'
      BY <2>1, <2>5 DEF Lined
    <2>7. \A i, j \in DOMAIN handing' : i < j => Follows(handing'[i], handing'[j])
      BY <1>4, <1>5 DEF Lined
    <2>8. Lined(handing)'
      BY <2>1, <2>7 DEF Lined
    <2>9. \A t \in Range(handed') \cup skipped', u \in Range(handing') : Follows(t, u)
      BY <1>4, <1>5, <1>6 DEF InLine
    <2> QED BY <2>1, <2>6, <2>8, <2>9 DEF InLine
  <1>13. Serial'
    BY <1>2, <1>3, SerialNext
  <1> QED BY <1>1, <1>7, <1>9, <1>10, <1>11, <1>12, <1>13

-----------------------------------------------------------------------------
(* The specification *)

LEMMA InitInv == Init => ReceiveInv
  <1> SUFFICES ASSUME Init PROVE ReceiveInv
    OBVIOUS
  <1>1. /\ msgs = <<>> /\ framed = <<>> /\ unacked = {} /\ numbered = 0 /\ net = {} /\ faults = 0
        /\ seen = <<>> /\ base = Wire(Start) /\ ahead = {} /\ partials = <<>>
        /\ expected = [c \in Channels |-> Wire(Start)] /\ seqNext = [c \in Channels |-> 0]
        /\ held = {} /\ handing = <<>> /\ handed = <<>> /\ raises = 0 /\ skipped = {}
        /\ evicted = {} /\ refused = {}
    BY DEF Init
  <1>2. Wire(Start) \in 0..(Modulus - 1) /\ At(Wire(Start)) = 0
    <2>1. Start + 0 = Start /\ Start \in Int /\ 0 \in 0..(Modulus - 1)
      BY ModulusIs
    <2> QED BY <2>1, WireIs, AtWire
  <1>3. TypeOK
    BY <1>1, <1>2 DEF TypeOK
  <1>4. /\ DOMAIN msgs = {} /\ Len(msgs) = 0 /\ DOMAIN framed = {} /\ Len(framed) = 0
        /\ DOMAIN handed = {} /\ DOMAIN handing = {} /\ DOMAIN partials = {}
    BY <1>1
  <1>5. Numbering /\ Monotone /\ Framing /\ Carried
    BY <1>1, <1>4, Bounds DEF Numbering, Monotone, Framing, Carried
  <1>6. Out = {} /\ Range(handed) = {} /\ Range(handing) = {}
    BY <1>1, <1>4 DEF Out, Range
  <1>7. Window /\ Collected
    BY <1>1, <1>2, <1>4 DEF Window, Collected
  <1>8. Turns
    <2> SUFFICES ASSUME NEW c \in Channels
                 PROVE  At(expected[c]) <= OrdersSent(c) /\ seqNext[c] <= MaxMessages
      BY DEF Turns
    <2>1. OrdersSent(c) \in Nat
      BY <1>3, <1>5, SentBound
    <2>2. At(expected[c]) = 0 /\ seqNext[c] = 0
      BY <1>1, <1>2
    <2> QED BY <2>1, <2>2, Bounds
  <1>9. Waiting /\ Passed
    BY <1>1, <1>6 DEF Waiting, Passed
  <1>10. Reached
    <2>1. \A c \in Channels : At(expected[c]) = 0
      BY <1>1, <1>2
    <2> QED BY <2>1 DEF Reached
  <1>11. InLine
    BY <1>1, <1>4, <1>6 DEF InLine, Lined
  <1>12. Serial
    <2>1. \A c : Shown(c) = {}
      BY <1>4 DEF Shown
    <2> QED BY <2>1, FS_EmptySet DEF Serial
  <1> QED BY <1>3, <1>5, <1>7, <1>8, <1>9, <1>10, <1>11, <1>12 DEF ReceiveInv, Behind

LEMMA StillKeeps == ReceiveInv /\ UNCHANGED vars => ReceiveInv'
  <1> SUFFICES ASSUME ReceiveInv, UNCHANGED vars PROVE ReceiveInv'
    OBVIOUS
  <1>1. /\ msgs' = msgs /\ framed' = framed /\ unacked' = unacked /\ numbered' = numbered
        /\ net' = net /\ faults' = faults
        /\ seen' = seen /\ base' = base /\ ahead' = ahead /\ partials' = partials
        /\ expected' = expected /\ seqNext' = seqNext /\ held' = held
        /\ handing' = handing /\ raises' = raises /\ handed' = handed /\ skipped' = skipped
        /\ evicted' = evicted /\ refused' = refused
    BY DEF vars, clientVars, networkVars, frameVars, orderVars, handVars, lostVars
  <1>2. \A c : OrdersSent(c)' = OrdersSent(c) /\ SequencedSince(c)' = SequencedSince(c)
    BY <1>1, SameMessages
  <1>3. Behind'
    BY <1>1, <1>2
       DEF ReceiveInv, Behind, TypeOK, Numbering, Fits, Chan, Monotone, Precedes, Framing, Carried
  <1>4. Window' /\ Collected' /\ \A f \in DOMAIN framed : Accepted(f) => Accepted(f)'
    BY <1>1 DEF ReceiveInv, Window, Collected, Backed, Accepted
  <1>5. Progress'
    BY <1>1, <1>4, NoneOut DEF ReceiveInv, Behind, Progress, orderVars
  <1> QED BY <1>3, <1>5 DEF ReceiveInv, Progress

LEMMA NextKeeps == ReceiveInv /\ [Next]_vars => ReceiveInv'
  <1> SUFFICES ASSUME ReceiveInv, [Next]_vars PROVE ReceiveInv'
    OBVIOUS
  <1>1. CASE ClientStep
    BY <1>1, ClientKeeps
  <1>2. ASSUME NEW d \in net, NEW again \in BOOLEAN, NEW acked \in BOOLEAN, Receive(d, again, acked)
        PROVE  ReceiveInv'
    BY <1>2, ReceiveKeeps
  <1>3. ASSUME NEW raise \in BOOLEAN, Hand(raise) PROVE ReceiveInv'
    BY <1>3, HandKeeps
  <1>4. CASE UNCHANGED vars
    BY <1>4, StillKeeps
  <1> QED BY <1>1, <1>2, <1>3, <1>4 DEF Next

LEMMA ReceiveAlways == Spec => []ReceiveInv
  <1> QED BY InitInv, NextKeeps, PTL DEF Spec

\* All variables of the receiving side keep their types in every step: the indexes
\* stay on the wire's circle through every release and every completed run
\* (_handle_frameset, _accept_inbound_reliable_locked, _queue_or_deliver_inbound_order_locked).
THEOREM ReceiveTypes == Spec => []TypeOK
  <1>1. ReceiveInv => TypeOK
    BY DEF ReceiveInv, Behind
  <1> QED BY <1>1, ReceiveAlways, PTL

\* No message is handed out twice, and the ordered and sequenced messages of a channel
\* are handed out in the order in which they were sent, for every loss, repetition and
\* reordering of datagrams, whatever the history of datagrams has forgotten.
THEOREM OnceEachInOrder == Spec => []OnceInOrder
  <1>1. ReceiveInv => OnceInOrder
    <2> SUFFICES ASSUME ReceiveInv, NEW i \in DOMAIN handed, NEW j \in DOMAIN handed, i < j
                 PROVE  /\ handed[i] # handed[j]
                        /\ (/\ msgs[handed[i]].channel = msgs[handed[j]].channel
                            /\ "plain" \notin {msgs[handed[i]].kind, msgs[handed[j]].kind})
                           => handed[i] < handed[j]
      BY DEF OnceInOrder
    <2>1. Follows(handed[i], handed[j])
      BY DEF ReceiveInv, InLine, Lined
    <2> QED BY <2>1 DEF Follows
  <1> QED BY <1>1, ReceiveAlways, PTL

-----------------------------------------------------------------------------
(* The ordered channel *)

\* The application is given the orders one after the other.
LEMMA GivenIs ==
    ReceiveInv => \A c \in Channels :
        /\ IsFiniteSet(Shown(c)) /\ Cardinality(Shown(c)) \in Nat
        /\ Given(c) = [k \in 1..Cardinality(Shown(c)) |-> k]
  <1> SUFFICES ASSUME ReceiveInv, NEW c \in Channels
               PROVE  /\ IsFiniteSet(Shown(c)) /\ Cardinality(Shown(c)) \in Nat
                      /\ Given(c) = [k \in 1..Cardinality(Shown(c)) |-> k]
    OBVIOUS
  <1>1. handed \in Seq(Nat)
    BY DEF ReceiveInv, Behind, TypeOK
  <1>2. IsFiniteSet(Shown(c)) /\ Cardinality(Shown(c)) \in Nat /\ Shown(c) \subseteq Nat
    <2>1. Shown(c) \in SUBSET (1..Len(handed)) /\ Len(handed) \in Nat
      BY <1>1 DEF Shown
    <2> QED BY <2>1, UpTo
  <1>3. PICK m \in Nat : m = Cardinality(Shown(c))
    BY <1>2
  <1>4. /\ \A i \in Shown(c) : msgs[handed[i]].order = Cardinality({j \in Shown(c) : j < i})
        /\ \A k \in 0..(m - 1) : \E i \in Shown(c) : msgs[handed[i]].order = k
    BY <1>3 DEF ReceiveInv, Serial
  <1>5. ASSUME NEW i \in Shown(c)
        PROVE  /\ Cardinality({j \in Shown(c) : j < i}) \in Nat
               /\ Cardinality({j \in Shown(c) : j <= i}) = Cardinality({j \in Shown(c) : j < i}) + 1
    <2>1. {j \in Shown(c) : j <= i} = {j \in Shown(c) : j < i} \cup {i}
      BY <1>2
    <2>2. i \notin {j \in Shown(c) : j < i}
      BY <1>2
    <2>3. IsFiniteSet({j \in Shown(c) : j < i})
      BY <1>2, FS_Subset
    <2> QED BY <2>1, <2>2, <2>3, FS_AddElement, FS_CardinalityType
  <1>6. ASSUME NEW k \in 1..m PROVE msgs[handed[Nth(Shown(c), k)]].order + 1 = k
    <2>1. PICK i \in Shown(c) : msgs[handed[i]].order = k - 1
      <3>1. k - 1 \in 0..(m - 1)
        BY <1>3
      <3> QED BY <1>4, <3>1
    <2>2. Cardinality({j \in Shown(c) : j <= i}) = k
      <3>1. PICK a \in Nat : a = Cardinality({j \in Shown(c) : j < i})
                              /\ Cardinality({j \in Shown(c) : j <= i}) = a + 1
        BY <1>5
      <3>2. a = k - 1
        BY <1>4, <2>1, <3>1
      <3> QED BY <3>1, <3>2
    <2>3. PICK n \in Shown(c) : n = Nth(Shown(c), k) /\ Cardinality({j \in Shown(c) : j <= n}) = k
      BY <2>2 DEF Nth
    <2>4. PICK a \in Nat : a = Cardinality({j \in Shown(c) : j < n})
                            /\ Cardinality({j \in Shown(c) : j <= n}) = a + 1
      BY <1>5
    <2>5. msgs[handed[n]].order = a /\ a + 1 = k
      BY <1>4, <2>3, <2>4
    <2> QED BY <2>3, <2>5
  <1>7. Given(c) = [k \in 1..m |-> k]
    BY <1>3, <1>6 DEF Given
  <1> QED BY <1>2, <1>3, <1>7

LEMMA GivenNext ==
    ReceiveInv' => \A c \in Channels :
        /\ Cardinality(Shown(c)') \in Nat
        /\ Given(c)' = [k \in 1..Cardinality(Shown(c)') |-> k]
  <1>1. (ReceiveInv => \A c \in Channels :
           /\ IsFiniteSet(Shown(c)) /\ Cardinality(Shown(c)) \in Nat
           /\ Given(c) = [k \in 1..Cardinality(Shown(c)) |-> k])'
    BY GivenIs, PTL
  <1> QED BY <1>1

LEMMA PromiseInit == Init => Promise!Init
  <1> SUFFICES ASSUME Init PROVE Promise!Init
    OBVIOUS
  <1>1. ReceiveInv
    BY InitInv
  <1>2. msgs = <<>> /\ handed = <<>> /\ DOMAIN msgs = {} /\ DOMAIN handed = {}
    BY DEF Init
  <1>3. ASSUME NEW c \in Channels PROVE OrdersSent(c) = 0 /\ Given(c) = <<>>
    <2>1. OnChannel(c, "ordered") = {} /\ Shown(c) = {}
      BY <1>2 DEF OnChannel, Shown
    <2>2. OrdersSent(c) = 0 /\ Cardinality(Shown(c)) = 0
      BY <2>1, FS_EmptySet DEF OrdersSent
    <2>3. Given(c) = [k \in 1..0 |-> k]
      BY <1>1, <2>2, GivenIs
    <2> QED BY <2>2, <2>3
  <1> QED BY <1>3 DEF Promise!Init

\* Nothing shown, nothing given.
LEMMA SameShown ==
    ASSUME ReceiveInv, ReceiveInv', NEW c \in Channels, Shown(c)' = Shown(c)
    PROVE  Given(c)' = Given(c)
  BY GivenIs, GivenNext

LEMMA ClientGivesNothing ==
    ASSUME ReceiveInv, Grown, NEW c
    PROVE  Shown(c)' = Shown(c)
  <1>1. handed' = handed /\ skipped' = skipped
    BY DEF Grown, ClientFrame, handVars
  <1>2. \A s \in DOMAIN msgs : msgs'[s] = msgs[s]
    BY DEF Grown
  <1>3. (\A i \in DOMAIN handed : handed[i] \in DOMAIN msgs) /\ skipped \subseteq DOMAIN msgs
    BY OutIs DEF ReceiveInv, Behind
  <1>4. Taken(c)' = Taken(c)
    BY <1>1, <1>2, <1>3 DEF Taken
  <1> QED BY <1>1, <1>2, <1>3, <1>4 DEF Shown

\* The client's step sends one ordered message or none.
LEMMA ClientSends ==
    ASSUME ReceiveInv, ClientStep
    PROVE  /\ Grown
           /\ \/ \E c \in Channels : \A d \in Channels :
                    OrdersSent(d)' = IF d = c THEN OrdersSent(d) + 1 ELSE OrdersSent(d)
              \/ \A d \in Channels : OrdersSent(d)' = OrdersSent(d)
  <1>1. TypeOK /\ Behind
    BY DEF ReceiveInv, Behind
  <1>2. Grown
    BY <1>1, SubmitReliableGrows, SubmitSequencedGrows, ResendGrows, LoseGrows DEF ClientStep
  <1>3. ASSUME NEW c \in Channels, NEW kind \in Kinds, NEW parts \in Nat,
               msgs' = Append(msgs, NewMessage(c, kind, parts))
        PROVE  \/ \A d \in Channels :
                     OrdersSent(d)' = IF d = c THEN OrdersSent(d) + 1 ELSE OrdersSent(d)
               \/ \A d \in Channels : OrdersSent(d)' = OrdersSent(d)
    <2>1. PICK m \in Message : m = NewMessage(c, kind, parts) /\ m.channel = c /\ m.kind = kind
      <3>1. msgs \in Seq(Message)
        BY <1>1 DEF TypeOK
      <3>2. OrdersSent(c) \in Nat /\ SequencedSince(c) \in Nat
        BY <3>1, SentIs
      <3>3. /\ NewMessage(c, kind, parts) \in Message
            /\ NewMessage(c, kind, parts).channel = c /\ NewMessage(c, kind, parts).kind = kind
        BY <3>2 DEF NewMessage, Message
      <3> QED BY <3>3
    <2>2. \A d : OrdersSent(d)' = IF m.channel = d /\ m.kind = "ordered" THEN OrdersSent(d) + 1
                                  ELSE OrdersSent(d)
      BY <1>1, <1>3, <2>1, OneMore
    <2> QED BY <2>1, <2>2
  <1>4. ASSUME NEW c \in Channels, NEW kind \in {"ordered", "plain"}, NEW n \in 1..MaxParts,
               SubmitReliable(c, kind, n)
        PROVE  msgs' = Append(msgs, NewMessage(c, kind, n)) /\ kind \in Kinds /\ n \in Nat
    BY <1>4, ReceiveAssumption DEF SubmitReliable, Kinds
  <1>5. ASSUME NEW c \in Channels, SubmitSequenced(c)
        PROVE  msgs' = Append(msgs, NewMessage(c, "sequenced", 1)) /\ "sequenced" \in Kinds /\ 1 \in Nat
    BY <1>5 DEF SubmitSequenced, Kinds
  <1>6. CASE msgs' = msgs
    BY <1>2, <1>6, SameMessages
  <1>7. \/ \E c \in Channels, kind \in {"ordered", "plain"}, n \in 1..MaxParts : SubmitReliable(c, kind, n)
        \/ \E c \in Channels : SubmitSequenced(c)
        \/ msgs' = msgs
    BY DEF ClientStep, Resend, Lose, clientVars
  <1> QED BY <1>2, <1>3, <1>4, <1>5, <1>6, <1>7

LEMMA ClientPromise ==
    ASSUME ReceiveInv, ReceiveInv', ClientStep
    PROVE  Promise!Next \/ UNCHANGED Promise!vars
  <1>1. Grown
    BY ClientSends
  <1>2. \A c \in Channels : Given(c)' = Given(c)
    BY <1>1, ClientGivesNothing, SameShown
  <1>3. [c \in Channels |-> Given(c)]' = [c \in Channels |-> Given(c)]
    BY <1>2
  <1>4. CASE \E c \in Channels : \A d \in Channels :
                OrdersSent(d)' = IF d = c THEN OrdersSent(d) + 1 ELSE OrdersSent(d)
    <2>1. PICK c \in Channels : \A d \in Channels :
                OrdersSent(d)' = IF d = c THEN OrdersSent(d) + 1 ELSE OrdersSent(d)
      BY <1>4
    <2>2. Promise!Send(c)
      BY <1>3, <2>1 DEF Promise!Send
    <2> QED BY <2>2 DEF Promise!Next
  <1>5. CASE \A d \in Channels : OrdersSent(d)' = OrdersSent(d)
    BY <1>3, <1>5 DEF Promise!vars
  <1> QED BY <1>4, <1>5, ClientSends

LEMMA HandPromise ==
    ASSUME ReceiveInv, ReceiveInv', NEW raise \in BOOLEAN, Hand(raise)
    PROVE  Promise!Next \/ UNCHANGED Promise!vars
  <1>0. TypeOK /\ Passed /\ InLine /\ Numbering
    BY DEF ReceiveInv, Behind
  <1>1. PICK h, q, rest : HandIs(h, q, rest)
    BY <1>0, HandTypes
  <1>2. msgs' = msgs
    BY <1>0, HandTypes DEF clientVars
  <1>3. \A c : OrdersSent(c)' = OrdersSent(c)
    BY <1>2, SameMessages
  <1>4. \A c : Shown(c)' = IF msgs[h].channel = c /\ msgs[h].kind = "ordered" /\ Taken(c) = {}
                           THEN Shown(c) \cup {q} ELSE Shown(c)
    BY <1>0, <1>1, <1>2, ShownNext
  <1>5. CASE \E c \in Channels : msgs[h].channel = c /\ msgs[h].kind = "ordered" /\ Taken(c) = {}
    <2>1. PICK c \in Channels : msgs[h].channel = c /\ msgs[h].kind = "ordered" /\ Taken(c) = {}
      BY <1>5
    <2>2. /\ h \in DOMAIN msgs /\ IsFiniteSet(Shown(c)) /\ Cardinality(Shown(c)) \in Nat
          /\ msgs[h].order = Cardinality(Shown(c))
      BY <1>1, <2>1, NextInTurn DEF HandIs
    <2>3. PICK m \in Nat : m = Cardinality(Shown(c))
      BY <2>2
    <2>4. Shown(c)' = Shown(c) \cup {q} /\ q \notin Shown(c)
      <3>1. Shown(c) \subseteq DOMAIN handed
        BY DEF Shown
      <3>2. q \notin DOMAIN handed
        BY <1>0, <1>1 DEF HandIs, TypeOK
      <3> QED BY <1>4, <2>1, <3>1, <3>2
    <2>5. Cardinality(Shown(c)') = m + 1
      BY <2>2, <2>3, <2>4, FS_AddElement
    <2>6. Given(c) = [k \in 1..m |-> k] /\ Given(c)' = [k \in 1..(m + 1) |-> k]
      BY <2>3, <2>5, GivenIs, GivenNext
    <2>7. Given(c)' = Append(Given(c), m + 1) /\ Len(Given(c)) = m
      BY <2>6
    <2>8. m + 1 <= OrdersSent(c)
      <3>1. m < OrdersSent(c)
        BY <1>0, <2>1, <2>2, <2>3 DEF Numbering, Fits, Chan
      <3>2. OrdersSent(c) \in Nat
        BY <1>0, SentBound
      <3> QED BY <3>1, <3>2
    <2>9. \A d \in Channels : d # c => Given(d)' = Given(d)
      BY <1>4, <2>1, SameShown
    <2>10. Promise!Deliver(c)
      <3>1. Promise!NextUp(c) = m + 1
        BY <2>7 DEF Promise!NextUp
      <3>2. [d \in Channels |-> Given(d)]' = [[d \in Channels |-> Given(d)] EXCEPT ![c] = Append(@, m + 1)]
        BY <2>7, <2>9
      <3> QED BY <1>3, <2>8, <3>1, <3>2 DEF Promise!Deliver
    <2> QED BY <2>10 DEF Promise!Next
  <1>6. CASE ~\E c \in Channels : msgs[h].channel = c /\ msgs[h].kind = "ordered" /\ Taken(c) = {}
    <2>1. \A c \in Channels : Given(c)' = Given(c)
      BY <1>4, <1>6, SameShown
    <2> QED BY <1>3, <2>1 DEF Promise!vars
  <1> QED BY <1>5, <1>6

LEMMA PromiseNext == ReceiveInv /\ ReceiveInv' /\ [Next]_vars => [Promise!Next]_(Promise!vars)
  <1> SUFFICES ASSUME ReceiveInv, ReceiveInv', [Next]_vars
               PROVE  Promise!Next \/ UNCHANGED Promise!vars
    OBVIOUS
  <1>1. ASSUME msgs' = msgs, handed' = handed, skipped' = skipped PROVE UNCHANGED Promise!vars
    <2>1. \A c : OrdersSent(c)' = OrdersSent(c)
      BY <1>1, SameMessages
    <2>2. \A c \in Channels : Shown(c)' = Shown(c)
      BY <1>1 DEF Shown, Taken
    <2>3. \A c \in Channels : Given(c)' = Given(c)
      BY <2>2, SameShown
    <2> QED BY <2>1, <2>3 DEF Promise!vars
  <1>2. CASE ClientStep
    BY <1>2, ClientPromise
  <1>3. ASSUME NEW d \in net, NEW again \in BOOLEAN, NEW acked \in BOOLEAN, Receive(d, again, acked)
        PROVE  UNCHANGED Promise!vars
    <2>1. Arrive(d, again, acked)
      BY <1>3 DEF Receive
    <2> QED BY <1>1, <2>1 DEF Arrive
  <1>4. ASSUME NEW raise \in BOOLEAN, Hand(raise) PROVE Promise!Next \/ UNCHANGED Promise!vars
    BY <1>4, HandPromise
  <1>5. CASE UNCHANGED vars
    BY <1>1, <1>5 DEF vars, clientVars, handVars
  <1> QED BY <1>2, <1>3, <1>4, <1>5 DEF Next

\* The server's application sees an ordered channel: of each channel's ordered messages
\* it is given the first, the second and so on, up to the first that a raising callback
\* took along (_handle_frameset's loop over the deliveries).
THEOREM OrderKept == Spec => InOrder
  <1>1. Init => Promise!Init
    BY PromiseInit
  <1>2. ReceiveInv /\ ReceiveInv' /\ [Next]_vars => [Promise!Next]_(Promise!vars)
    BY PromiseNext
  <1> QED BY <1>1, <1>2, ReceiveAlways, PTL DEF Spec, InOrder, Promise!Spec

-----------------------------------------------------------------------------
(* What was acknowledged is kept, while the numbers of the datagrams last. *)

LEMMA NumberOneToOne ==
    ASSUME Unwrapped, TypeOK, NEW a \in 1..numbered, NEW b \in 1..numbered,
           Wire(Start + a) = Wire(Start + b)
    PROVE  a = b
  <1>1. PICK n \in Nat : n = numbered /\ n <= Modulus /\ a \in 1..n /\ b \in 1..n
    BY DEF TypeOK, Unwrapped
  <1>2. PICK p \in Int : Wire(Start + a) = Start + a - Modulus * p
    BY <1>1, WireForm
  <1>3. PICK q \in Int : Wire(Start + b) = Start + b - Modulus * q
    BY <1>1, WireForm
  <1>4. Modulus * (p - q) = a - b
    BY <1>1, <1>2, <1>3, ModulusIs
  <1>5. CASE p - q >= 1
    <2>1. Modulus * (p - q) >= Modulus
      BY <1>5, ModulusIs
    <2> QED BY <1>1, <1>4, <2>1, ModulusIs
  <1>6. CASE p - q <= -1
    <2>1. Modulus * (p - q) <= -Modulus
      BY <1>6, ModulusIs
    <2> QED BY <1>1, <1>4, <2>1, ModulusIs
  <1>7. CASE p - q = 0
    BY <1>1, <1>4, <1>7, ModulusIs
  <1> QED BY <1>5, <1>6, <1>7

LEMMA NumbersAre ==
    Unwrapped /\ TypeOK =>
        \A a, b \in 1..numbered : Wire(Start + a) = Wire(Start + b) => a = b
  BY NumberOneToOne

LEMMA NumbersNext ==
    Unwrapped' /\ TypeOK' =>
        \A a, b \in 1..numbered' : Wire(Start + a) = Wire(Start + b) => a = b
  <1>1. (Unwrapped /\ TypeOK =>
           \A a, b \in 1..numbered : Wire(Start + a) = Wire(Start + b) => a = b)'
    BY NumbersAre, PTL
  <1> QED BY <1>1

Collects(s) == \E i \in DOMAIN partials : partials[i].stamp = s

LEMMA KeptIs ==
    ASSUME NEW s
    PROVE  /\ Kept(s) <=> \/ s \in Out \/ s \in Stamps(held) \/ Collects(s)
                          \/ s \in evicted \/ s \in refused
           /\ Kept(s)' <=> \/ s \in Out' \/ s \in Stamps(held') \/ Collects(s)'
                           \/ s \in evicted' \/ s \in refused'
  <1>1. Kept(s) <=> \/ s \in Out \/ s \in Stamps(held) \/ Collects(s)
                    \/ s \in evicted \/ s \in refused
    BY DEF Kept, InHand, Lost, Out, Stamps, Collects
  <1>2. Kept(s)' <=> \/ s \in Out' \/ s \in Stamps(held') \/ Collects(s)'
                     \/ s \in evicted' \/ s \in refused'
    BY DEF Kept, InHand, Lost, Out, Stamps, Collects
  <1> QED BY <1>1, <1>2

\* The client's step numbers its new datagrams one after the other, and the frames it
\* adds are not acknowledged.
Counted ==
    /\ numbered \in Nat /\ numbered' \in Nat /\ numbered <= numbered'
    /\ \A d \in net' : d \in net \/ d.number \in (numbered + 1)..numbered'
    /\ \A d, e \in net' : d \notin net /\ e \notin net /\ d.number = e.number => d = e
    /\ \A f \in DOMAIN framed' : f \notin unacked' => f \in DOMAIN framed /\ f \notin unacked

LEMMA SubmitReliableCounts ==
    ASSUME Behind, NEW c \in Channels, NEW kind \in {"ordered", "plain"}, NEW parts \in 1..MaxParts,
           SubmitReliable(c, kind, parts)
    PROVE  Counted
  <1>1. PICK v \in Nat, k \in Nat, n \in Nat :
            v = numbered /\ k = Len(framed) /\ n = Len(msgs) + 1 /\ parts \in Nat
    <2>1. msgs \in Seq(Message) /\ framed \in Seq(Frame) /\ numbered \in Nat
      BY DEF Behind, TypeOK
    <2>2. Len(msgs) + 1 \in Nat /\ Len(framed) \in Nat
      BY <2>1
    <2>3. parts \in Nat
      BY ReceiveAssumption
    <2> QED BY <2>1, <2>2, <2>3
  <1> DEFINE new == [p \in 1..parts |-> [stamp |-> n, part |-> p]]
  <1>2. /\ framed' = framed \o new /\ unacked' = unacked \cup (k + 1)..(k + parts)
        /\ numbered' = v + parts
        /\ net' = net \cup {Copy(v + p, k + p, n) : p \in 1..parts}
    BY <1>1 DEF SubmitReliable
  <1>3. framed \in Seq(Frame) /\ new \in [1..parts -> Frame]
    BY <1>1 DEF Behind, TypeOK, Frame
  <1> HIDE DEF new
  <1>4. DOMAIN framed' = 1..(k + parts) /\ DOMAIN framed = 1..k
    <2>1. new \in Seq(Frame) /\ Len(new) = parts
      BY <1>1, <1>3
    <2>2. DOMAIN (framed \o new) = 1..(Len(framed) + Len(new))
      BY <1>3, <2>1
    <2> QED BY <1>1, <1>2, <1>3, <2>1, <2>2
  <1>5. \A p \in 1..parts : Copy(v + p, k + p, n).number = v + p
    BY DEF Copy
  <1>6. \A d \in net' : d \in net \/ \E p \in 1..parts : d = Copy(v + p, k + p, n)
    BY <1>2
  <1>7. \A d \in net' : d \in net \/ d.number \in (v + 1)..(v + parts)
    <2>1. \A p \in 1..parts : v + p \in (v + 1)..(v + parts)
      BY <1>1
    <2> QED BY <1>5, <1>6, <2>1
  <1>8. ASSUME NEW d \in net', NEW e \in net', d \notin net, e \notin net, d.number = e.number
        PROVE  d = e
    <2>1. PICK p \in 1..parts : d = Copy(v + p, k + p, n)
      BY <1>6, <1>8
    <2>2. PICK r \in 1..parts : e = Copy(v + r, k + r, n)
      BY <1>6, <1>8
    <2>3. v + p = v + r
      BY <1>5, <1>8, <2>1, <2>2
    <2>4. p = r
      BY <1>1, <2>3
    <2> QED BY <2>1, <2>2, <2>4
  <1>9. \A f \in DOMAIN framed' : f \notin unacked' => f \in DOMAIN framed /\ f \notin unacked
    BY <1>1, <1>2, <1>4
  <1>10. numbered' \in Nat /\ numbered <= numbered'
    BY <1>1, <1>2
  <1> QED BY <1>1, <1>2, <1>7, <1>8, <1>9, <1>10 DEF Counted

\* One more datagram, and no more frames.
LEMMA OneCounts ==
    ASSUME TypeOK, NEW d, d.number = numbered + 1, numbered' = numbered + 1, net' = net \cup {d},
           framed' = framed, unacked' = unacked
    PROVE  Counted
  <1>1. PICK v \in Nat : v = numbered
    BY DEF TypeOK
  <1> QED BY <1>1 DEF Counted

LEMMA ClientCounts ==
    ASSUME Behind, ClientStep
    PROVE  Counted
  <1>0. TypeOK
    BY DEF Behind
  <1>1. ASSUME NEW c \in Channels, NEW kind \in {"ordered", "plain"}, NEW n \in 1..MaxParts,
               SubmitReliable(c, kind, n)
        PROVE  Counted
    BY <1>1, SubmitReliableCounts
  <1>2. ASSUME NEW c \in Channels, SubmitSequenced(c) PROVE Counted
    <2> DEFINE d == Copy(numbered + 1, 0, Len(msgs) + 1)
    <2>1. d.number = numbered + 1
      BY DEF Copy
    <2>2. numbered' = numbered + 1 /\ net' = net \cup {d} /\ framed' = framed /\ unacked' = unacked
      BY <1>2 DEF SubmitSequenced
    <2> HIDE DEF d
    <2> QED BY <1>0, <2>1, <2>2, OneCounts
  <1>3. ASSUME NEW f \in unacked, NEW early \in BOOLEAN, Resend(f, early) PROVE Counted
    <2> DEFINE d == Copy(numbered + 1, f, framed[f].stamp)
    <2>1. d.number = numbered + 1
      BY DEF Copy
    <2>2. numbered' = numbered + 1 /\ net' = net \cup {d} /\ framed' = framed /\ unacked' = unacked
      BY <1>3 DEF Resend
    <2> HIDE DEF d
    <2> QED BY <1>0, <2>1, <2>2, OneCounts
  <1>4. CASE Lose
    <2>1. net' \subseteq net /\ framed' = framed /\ unacked' = unacked /\ numbered' = numbered
      BY <1>4 DEF Lose, clientVars
    <2>2. numbered \in Nat
      BY <1>0 DEF TypeOK
    <2> QED BY <2>1, <2>2 DEF Counted
  <1> QED BY <1>1, <1>2, <1>3, <1>4 DEF ClientStep

LEMMA ClientKeepsKept ==
    ASSUME ReceiveInv, ReceiveInv', ClientStep, Unwrapped', KeptInv
    PROVE  KeptInv'
  <1>1. Grown
    BY ClientSends
  <1>2. Counted
    BY ClientCounts DEF ReceiveInv
  <1>3. /\ seen' = seen /\ base' = base /\ ahead' = ahead /\ partials' = partials /\ held' = held
        /\ handing' = handing /\ handed' = handed /\ skipped' = skipped
        /\ evicted' = evicted /\ refused' = refused
    BY <1>1 DEF Grown, ClientFrame, frameVars, orderVars, handVars, lostVars
  <1>4. InHand' \cup Lost' = InHand \cup Lost
    BY <1>3 DEF InHand, Lost
  <1>5. PICK v \in Nat, w \in Nat : v = numbered /\ w = numbered' /\ v <= w
    BY <1>2 DEF Counted
  <1>6. TypeOK' /\ Framing' /\ TypeOK /\ Framing /\ Window
    BY DEF ReceiveInv, Behind
  <1>7. \A d \in net : d.number \in 1..v /\ d.number \in 1..w
    BY <1>5 DEF KeptInv, Numbered
  <1>8. \A d \in net' : d \notin net => d.number \in (v + 1)..w
    BY <1>2, <1>5 DEF Counted
  <1>9. Numbered'
    <2>1. \A d \in net' : d.number \in 1..w
      BY <1>5, <1>7, <1>8
    <2>2. ASSUME NEW d \in net', NEW e \in net', d.number = e.number PROVE d = e
      <3>1. CASE d \in net /\ e \in net
        BY <2>2, <3>1 DEF KeptInv, Numbered
      <3>2. CASE d \notin net /\ e \notin net
        BY <1>2, <2>2, <3>2 DEF Counted
      <3>3. CASE d \in net /\ e \notin net
        BY <1>5, <1>7, <1>8, <2>2, <3>3
      <3>4. CASE d \notin net /\ e \in net
        BY <1>5, <1>7, <1>8, <2>2, <3>4
      <3> QED BY <3>1, <3>2, <3>3, <3>4
    <2>3. \A i \in DOMAIN seen : \E n \in 1..w : seen[i] = Wire(Start + n)
      <3>1. \A n \in 1..v : n \in 1..w
        BY <1>5
      <3> QED BY <1>5, <3>1 DEF KeptInv, Numbered
    <2> QED BY <1>3, <1>5, <2>1, <2>2, <2>3 DEF Numbered
  <1>10. ASSUME NEW f \in DOMAIN framed', Accepted(f)' PROVE framed'[f].stamp \in InHand' \cup Lost'
    <2>1. f \in DOMAIN framed
      <3>1. framed \in Seq(Frame) /\ framed' \in Seq(Frame) /\ Len(framed') <= MaxFrames
        BY <1>6 DEF TypeOK, Framing
      <3>2. f \in Nat /\ f >= 1 /\ f <= MaxFrames /\ DOMAIN framed = 1..Len(framed) /\ Len(framed) \in Nat
        BY <3>1, Bounds
      <3>3. CASE f <= At(base)
        <4>1. At(base) \in Nat /\ At(base) <= Len(framed)
          <5>1. At(base) \in 0..(Modulus - 1)
            BY <1>6, PositionIs
          <5> QED BY <1>6, <5>1, ModulusIs DEF Window
        <4> QED BY <3>2, <3>3, <4>1
      <3>4. CASE Wire(Start + (f - 1)) \in ahead
        <4>1. PICK g \in DOMAIN framed : Wire(Start + (g - 1)) = Wire(Start + (f - 1))
          BY <1>6, <3>4 DEF Window
        <4>2. PICK m \in 0..(Modulus - 1) : m = f - 1
          BY <3>2, Bounds, ModulusIs
        <4>3. g = m + 1
          BY <1>6, <4>1, <4>2, FrameOneToOne
        <4> QED BY <3>2, <4>1, <4>2, <4>3
      <3> QED BY <1>3, <1>10, <3>3, <3>4 DEF Accepted
    <2>2. Accepted(f)
      BY <1>3, <1>10 DEF Accepted
    <2>3. framed'[f] = framed[f]
      BY <1>1, <2>1 DEF Grown
    <2> QED BY <1>4, <2>1, <2>2, <2>3 DEF KeptInv, Kept
  <1>11. ASSUME NEW d \in net', Seen(d)', d.frame # 0 PROVE d.stamp \in InHand' \cup Lost'
    <2>1. PICK i \in DOMAIN seen : seen[i] = Wire(Start + d.number)
      BY <1>3, <1>11 DEF Seen, Number
    <2>2. CASE d \in net
      BY <1>4, <1>11, <2>1, <2>2 DEF KeptInv, Kept, Seen, Number
    <2>3. CASE d \notin net
      <3>1. PICK n \in 1..v : seen[i] = Wire(Start + n)
        BY <1>5, <2>1 DEF KeptInv, Numbered
      <3>2. d.number \in (v + 1)..w /\ d.number \in 1..w /\ n \in 1..w
        BY <1>5, <1>8, <2>3
      <3>3. \A a, b \in 1..numbered' : Wire(Start + a) = Wire(Start + b) => a = b
        BY <1>6, NumbersNext
      <3>4. n = d.number
        BY <1>5, <2>1, <3>1, <3>2, <3>3
      <3> QED BY <1>5, <3>1, <3>2, <3>4
    <2> QED BY <2>2, <2>3
  <1>12. AckedIsKept'
    <2> SUFFICES ASSUME NEW f \in DOMAIN framed', f \notin unacked' PROVE framed'[f].stamp \in InHand' \cup Lost'
      BY DEF AckedIsKept
    <2>1. f \in DOMAIN framed /\ f \notin unacked
      BY <1>2 DEF Counted
    <2>2. framed'[f] = framed[f]
      BY <1>1, <2>1 DEF Grown
    <2>3. framed[f].stamp \in InHand \cup Lost
      BY <2>1 DEF KeptInv, AckedIsKept
    <2> QED BY <1>4, <2>2, <2>3
  <1> QED BY <1>9, <1>10, <1>11, <1>12 DEF KeptInv, Kept

\* Nothing reliable is dropped when a fragment is collected or a message dispatched.
KeepsAll ==
    \A s : (s \in DOMAIN msgs => msgs[s].kind # "sequenced") /\ Kept(s) => Kept(s)'

LEMMA NothingMoved ==
    ASSUME Out \subseteq Out', held' = held, partials' = partials,
           evicted \subseteq evicted', refused \subseteq refused'
    PROVE  KeepsAll
  <1>1. \A s : Collects(s)' <=> Collects(s)
    BY DEF Collects
  <1> QED BY <1>1, KeptIs DEF KeepsAll

LEMMA CollectKeepsAll ==
    ASSUME TypeOK, Framing, Carried, Collected, NEW d \in net, Moves(d), Collect(d),
           msgs' = msgs, framed' = framed, handed' = handed, skipped' = skipped
    PROVE  KeepsAll /\ Kept(d.stamp)'
  <1> DEFINE new == [stamp |-> d.stamp, have |-> Have(d.stamp) \cup {Part(d)}]
             full == Len(partials) >= SplitLimit
  <1>1. /\ d.frame # 0 /\ refused' = refused /\ held' = held /\ handing' = handing
        /\ \/ /\ Have(d.stamp) # {} /\ evicted' = evicted
              /\ partials' = [i \in DOMAIN partials |->
                                 IF partials[i].stamp = d.stamp THEN new ELSE partials[i]]
           \/ /\ partials' = Append(IF full THEN Tail(partials) ELSE partials, new)
              /\ evicted' = IF full THEN evicted \cup Oldest ELSE evicted
    BY DEF Collect, Complete, orderVars
  <1>2. partials \in Seq(Partial) /\ new.stamp = d.stamp /\ new \in Partial
    <2>1. d.stamp \in Nat /\ partials \in Seq(Partial)
      BY DEF TypeOK, Datagram
    <2>2. Have(d.stamp) \cup {Part(d)} \subseteq Nat
      BY <1>1, BackedBy
    <2> QED BY <2>1, <2>2 DEF Partial
  <1>3. Out' = Out
    BY <1>1 DEF Out
  <1>4. full => partials # <<>>
    BY <1>2, ReceiveAssumption
  <1> HIDE DEF new
  <1>5. /\ evicted \subseteq evicted' /\ Collects(d.stamp)'
        /\ \A s : Collects(s) => Collects(s)' \/ s \in evicted'
    <2>1. CASE /\ Have(d.stamp) # {} /\ evicted' = evicted
               /\ partials' = [i \in DOMAIN partials |->
                                  IF partials[i].stamp = d.stamp THEN new ELSE partials[i]]
      <3>1. DOMAIN partials' = DOMAIN partials /\ \A i \in DOMAIN partials : partials'[i].stamp = partials[i].stamp
        BY <1>2, <2>1
      <3>2. \E i \in DOMAIN partials : partials[i].stamp = d.stamp
        BY <2>1 DEF Have
      <3> QED BY <2>1, <3>1, <3>2 DEF Collects
    <2>2. ASSUME NEW q \in Seq(Partial), partials' = Append(q, new),
                 \A i \in DOMAIN partials : partials[i].stamp \in evicted' \/ \E j \in DOMAIN q : q[j] = partials[i]
          PROVE  Collects(d.stamp)' /\ \A s : Collects(s) => Collects(s)' \/ s \in evicted'
      <3>1. /\ DOMAIN partials' = 1..(Len(q) + 1) /\ DOMAIN q = 1..Len(q) /\ Len(q) \in Nat
            /\ (\A i \in DOMAIN q : partials'[i] = q[i]) /\ partials'[Len(q) + 1] = new
        BY <1>2, <2>2, AppendIs
      <3>2. Len(q) + 1 \in DOMAIN partials' /\ \A i \in DOMAIN q : i \in DOMAIN partials'
        BY <3>1
      <3> QED BY <1>2, <2>2, <3>1, <3>2 DEF Collects
    <2>3. CASE /\ full /\ partials' = Append(Tail(partials), new) /\ evicted' = evicted \cup Oldest
      <3>1. /\ Tail(partials) \in Seq(Partial) /\ DOMAIN partials = 1..Len(partials) /\ Len(partials) \in Nat
            /\ DOMAIN Tail(partials) = 1..(Len(partials) - 1)
            /\ \A i \in DOMAIN Tail(partials) : Tail(partials)[i] = partials[i + 1]
        BY <1>2, <1>4, <2>3, TailIs
      <3>2. ASSUME NEW i \in DOMAIN partials
            PROVE  partials[i].stamp \in evicted' \/ \E j \in DOMAIN Tail(partials) : Tail(partials)[j] = partials[i]
        <4>1. CASE i = 1
          BY <2>3, <4>1 DEF Oldest
        <4>2. CASE i # 1
          <5>1. i - 1 \in DOMAIN Tail(partials) /\ (i - 1) + 1 = i
            BY <3>1, <4>2
          <5> QED BY <3>1, <5>1
        <4> QED BY <4>1, <4>2
      <3> QED BY <2>2, <2>3, <3>1, <3>2
    <2>4. CASE partials' = Append(partials, new) /\ evicted' = evicted
      BY <1>2, <2>2, <2>4
    <2>5. full \/ ~full
      OBVIOUS
    <2> QED BY <1>1, <2>1, <2>3, <2>4, <2>5
  <1> QED BY <1>1, <1>3, <1>5, KeptIs DEF KeepsAll

LEMMA WholeKeepsAll ==
    ASSUME TypeOK, Carried, Waiting, NEW d \in net, d.frame # 0, Framing,
           Whole(d), Dispatched(d.stamp), handed' = handed
    PROVE  KeepsAll /\ Kept(d.stamp)'
  <1>1. PICK s \in DOMAIN msgs : s = d.stamp /\ msgs[s].kind # "sequenced"
    BY DEF Carried, Framing
  <1>2. /\ Out \subseteq Out' /\ evicted' = evicted /\ refused \subseteq refused'
        /\ \A h \in InOrderHeld : h.stamp \in Out' \cup Stamps(held')
        /\ s \in Out' \cup Stamps(held') \cup refused'
    BY <1>1 DEF Dispatched
  <1>3. Kept(s)'
    BY <1>2, KeptIs
  <1>4. ASSUME NEW t, t # s, Collects(t) PROVE Collects(t)'
    <2>1. PICK j \in DOMAIN partials : partials[j].stamp = t
      BY <1>4 DEF Collects
    <2>2. partials \in Seq(Partial) /\ partials' = Without(partials, s)
      BY <1>1 DEF TypeOK, Whole
    <2>3. \E i \in DOMAIN partials' : partials'[i] = partials[j]
      BY <1>4, <2>1, <2>2, WithoutIs
    <2> QED BY <2>1, <2>3 DEF Collects
  <1>5. ASSUME NEW t, t \in DOMAIN msgs => msgs[t].kind # "sequenced", t \in Stamps(held)
        PROVE  t \in Out' \cup Stamps(held')
    <2>1. PICK h \in held : h.stamp = t
      BY <1>5 DEF Stamps
    <2>2. t \in DOMAIN msgs /\ h.kind = msgs[t].kind /\ h.kind # "plain" /\ msgs[t].kind \in Kinds
      BY <2>1, MessageIs DEF Waiting
    <2>3. h \in InOrderHeld
      BY <1>5, <2>2 DEF InOrderHeld, Kinds
    <2> QED BY <1>2, <2>1, <2>3
  <1>6. ASSUME NEW t, t \in DOMAIN msgs => msgs[t].kind # "sequenced", Kept(t) PROVE Kept(t)'
    BY <1>2, <1>3, <1>4, <1>5, <1>6, KeptIs
  <1> QED BY <1>1, <1>3, <1>6 DEF KeepsAll

LEMMA SequencedKeepsAll ==
    ASSUME TypeOK, Carried, Waiting, NEW d \in net, d.frame = 0,
           Whole(d), Dispatched(d.stamp), handed' = handed
    PROVE  KeepsAll
  <1>1. PICK s \in DOMAIN msgs : s = d.stamp /\ msgs[s].kind = "sequenced"
    BY DEF Carried
  <1>2. /\ Out \subseteq Out' /\ evicted' = evicted /\ refused \subseteq refused'
        /\ \A h \in InOrderHeld : h.stamp \in Out' \cup Stamps(held')
    BY <1>1 DEF Dispatched
  <1>3. ASSUME NEW t, t # s, Collects(t) PROVE Collects(t)'
    <2>1. PICK j \in DOMAIN partials : partials[j].stamp = t
      BY <1>3 DEF Collects
    <2>2. partials \in Seq(Partial) /\ partials' = Without(partials, s)
      BY <1>1 DEF TypeOK, Whole
    <2>3. \E i \in DOMAIN partials' : partials'[i] = partials[j]
      BY <1>3, <2>1, <2>2, WithoutIs
    <2> QED BY <2>1, <2>3 DEF Collects
  <1>4. ASSUME NEW t, t \in DOMAIN msgs => msgs[t].kind # "sequenced", t \in Stamps(held)
        PROVE  t \in Out' \cup Stamps(held')
    <2>1. PICK h \in held : h.stamp = t
      BY <1>4 DEF Stamps
    <2>2. t \in DOMAIN msgs /\ h.kind = msgs[t].kind /\ h.kind # "plain" /\ msgs[t].kind \in Kinds
      BY <2>1, MessageIs DEF Waiting
    <2>3. h \in InOrderHeld
      BY <1>4, <2>2 DEF InOrderHeld, Kinds
    <2> QED BY <1>2, <2>1, <2>3
  <1>5. ASSUME NEW t, t \in DOMAIN msgs => msgs[t].kind # "sequenced", Kept(t) PROVE Kept(t)'
    BY <1>1, <1>2, <1>3, <1>4, <1>5, KeptIs
  <1> QED BY <1>5 DEF KeepsAll

\* Once a datagram is taken in, nothing reliable has gone and its message is kept.
LEMMA TakenKeeps ==
    ASSUME ReceiveInv, KeptInv, NEW d \in net, NEW again \in BOOLEAN, NEW acked \in BOOLEAN,
           Receive(d, again, acked)
    PROVE  KeepsAll /\ (d.frame # 0 => Kept(d.stamp)')
  <1>1. Behind /\ Progress
    BY DEF ReceiveInv, Progress
  <1>2. TypeOK /\ Framing /\ Carried /\ Window /\ Collected /\ Waiting
    BY DEF ReceiveInv, Behind
  <1>3. /\ Idle /\ msgs' = msgs /\ framed' = framed /\ handed' = handed /\ skipped' = skipped
    BY <1>1, ArriveIs DEF Receive
  <1>4. ASSUME d.frame # 0
        PROVE  /\ d.frame \in DOMAIN framed /\ framed[d.frame].stamp = d.stamp
               /\ msgs[d.stamp].kind # "sequenced"
    BY <1>2, <1>4 DEF Carried, Framing
  <1>5. ASSUME partials' = partials, held' = held, handing' = handing,
               evicted' = evicted, refused \subseteq refused',
               d.frame # 0 => Kept(d.stamp) \/ d.stamp \in refused'
        PROVE  KeepsAll /\ (d.frame # 0 => Kept(d.stamp)')
    <2>1. Out' = Out
      BY <1>3, <1>5 DEF Out
    <2>2. KeepsAll
      BY <1>5, <2>1, NothingMoved
    <2>3. ASSUME d.frame # 0 PROVE Kept(d.stamp)'
      <3>1. CASE Kept(d.stamp)
        BY <1>4, <2>2, <2>3, <3>1 DEF KeepsAll
      <3>2. CASE d.stamp \in refused'
        BY <3>2, KeptIs
      <3> QED BY <1>5, <2>3, <3>1, <3>2
    <2> QED BY <2>2, <2>3
  <1>6. CASE RepeatedDatagram(d)
    <2>1. /\ partials' = partials /\ held' = held /\ handing' = handing
          /\ evicted' = evicted /\ refused' = refused /\ Seen(d)
      BY <1>6 DEF RepeatedDatagram, frameVars, orderVars, lostVars
    <2>2. d.frame # 0 => Kept(d.stamp)
      BY <2>1 DEF KeptInv
    <2> QED BY <1>5, <2>1, <2>2
  <1>7. CASE RepeatedFrame(d)
    <2>1. /\ partials' = partials /\ held' = held /\ handing' = handing
          /\ evicted' = evicted /\ refused' = refused
          /\ d.frame # 0 /\ (Reach(d) >= Half \/ Index(d) \in ahead)
      BY <1>7 DEF RepeatedFrame, orderVars, lostVars
    <2>2. /\ d.frame \in Nat /\ At(base) \in Nat /\ Reach(d) \in Nat
          /\ Index(d) = Wire(Start + (d.frame - 1))
          /\ d.frame - 1 >= At(base) => Reach(d) < Half
      BY <1>2, <2>1, ReachIs
    <2>3. Accepted(d.frame)
      <3>1. CASE Reach(d) >= Half
        <4>1. ~(d.frame - 1 >= At(base))
          BY <2>2, <3>1, HalfIs
        <4>2. d.frame <= At(base)
          BY <2>2, <4>1
        <4> QED BY <4>2 DEF Accepted
      <3>2. CASE Index(d) \in ahead
        BY <2>2, <3>2 DEF Accepted
      <3> QED BY <2>1, <3>1, <3>2
    <2>4. Kept(d.stamp)
      BY <1>4, <2>1, <2>3 DEF KeptInv
    <2> QED BY <1>5, <2>1, <2>4
  <1>8. CASE OutsideReliable(d)
    <2>1. /\ partials' = partials /\ held' = held /\ handing' = handing
          /\ evicted' = evicted /\ refused' = refused \cup {d.stamp}
      BY <1>8 DEF OutsideReliable, orderVars
    <2> QED BY <1>5, <2>1
  <1>9. CASE AcceptFrame(d) /\ (Collect(d) \/ Whole(d))
    <2>1. Moves(d)
      BY <1>2, <1>3, <1>9, AcceptMoves
    <2>2. CASE Collect(d)
      BY <1>2, <1>3, <2>1, <2>2, CollectKeepsAll
    <2>3. CASE Whole(d)
      <3>1. Dispatched(d.stamp)
        BY <1>1, <1>3, <2>1, <2>3, WholeKeeps
      <3>2. CASE d.frame = 0
        BY <1>2, <1>3, <2>3, <3>1, <3>2, SequencedKeepsAll
      <3>3. CASE d.frame # 0
        BY <1>2, <1>3, <2>3, <3>1, <3>3, WholeKeepsAll
      <3> QED BY <3>2, <3>3
    <2> QED BY <1>9, <2>2, <2>3
  <1> QED BY <1>6, <1>7, <1>8, <1>9 DEF Receive

\* What the step does to the numbers it has seen and the frames it has accepted.
LEMMA TakenNotes ==
    ASSUME ReceiveInv, NEW d \in net, NEW again \in BOOLEAN, NEW acked \in BOOLEAN,
           Receive(d, again, acked)
    PROVE  /\ \A i \in DOMAIN seen' : seen'[i] = Number(d) \/ \E j \in DOMAIN seen : seen'[i] = seen[j]
           /\ \A f \in DOMAIN framed : Accepted(f)' => Accepted(f) \/ f = d.frame
  <1>1. TypeOK /\ Framing /\ Carried /\ Window /\ Behind
    BY DEF ReceiveInv, Behind
  <1>2. framed' = framed
    BY <1>1, ArriveIs DEF Receive
  <1>3. \/ seen' = seen
        \/ Note(d)
    BY DEF Receive, RepeatedDatagram, frameVars
  <1>4. \A i \in DOMAIN seen' : seen'[i] = Number(d) \/ \E j \in DOMAIN seen : seen'[i] = seen[j]
    BY <1>1, <1>3, NoteIs
  <1>5. CASE base' = base /\ ahead' = ahead
    BY <1>4, <1>5 DEF Accepted
  <1>6. CASE AcceptFrame(d)
    BY <1>1, <1>2, <1>4, <1>6, AcceptMoves DEF Moves
  <1>7. (base' = base /\ ahead' = ahead) \/ AcceptFrame(d)
    BY DEF Receive, RepeatedDatagram, RepeatedFrame, OutsideReliable, frameVars
  <1> QED BY <1>5, <1>6, <1>7

LEMMA ReceiveKeepsKept ==
    ASSUME ReceiveInv, ReceiveInv', NEW d \in net, NEW again \in BOOLEAN, NEW acked \in BOOLEAN,
           Receive(d, again, acked), Unwrapped, KeptInv
    PROVE  KeptInv'
  <1>1. TypeOK /\ Framing /\ Carried /\ Behind
    BY DEF ReceiveInv, Behind
  <1>2. /\ net' \subseteq net /\ msgs' = msgs /\ framed' = framed /\ numbered' = numbered
        /\ \A f \in unacked : f \notin unacked' => f = d.frame
    BY <1>1, ArriveIs DEF Receive
  <1>3. KeepsAll /\ (d.frame # 0 => Kept(d.stamp)')
    BY TakenKeeps
  <1>4. /\ \A i \in DOMAIN seen' : seen'[i] = Number(d) \/ \E j \in DOMAIN seen : seen'[i] = seen[j]
        /\ \A f \in DOMAIN framed : Accepted(f)' => Accepted(f) \/ f = d.frame
    BY TakenNotes
  <1>5. Numbered'
    <2>1. \A e \in net' : e.number \in 1..numbered
      BY <1>2 DEF KeptInv, Numbered
    <2>2. \A e, g \in net' : e.number = g.number => e = g
      BY <1>2 DEF KeptInv, Numbered
    <2>3. d.number \in 1..numbered
      BY DEF KeptInv, Numbered
    <2>4. \A i \in DOMAIN seen' : \E n \in 1..numbered : seen'[i] = Wire(Start + n)
      BY <1>4, <2>3 DEF KeptInv, Numbered, Number
    <2> QED BY <1>2, <2>1, <2>2, <2>4 DEF Numbered
  <1>6. ASSUME NEW f \in DOMAIN framed, Kept(framed[f].stamp)
        PROVE  framed'[f].stamp \in InHand' \cup Lost'
    <2>1. PICK s : s = framed[f].stamp
      OBVIOUS
    <2>2. msgs[s].kind # "sequenced" /\ Kept(s)
      BY <1>1, <1>6, <2>1 DEF Framing
    <2>3. s \in InHand' \cup Lost'
      BY <1>3, <2>2 DEF KeepsAll, Kept
    <2> QED BY <1>2, <2>1, <2>3
  <1>7. ASSUME NEW f \in DOMAIN framed, f = d.frame
        PROVE  framed'[f].stamp \in InHand' \cup Lost'
    <2>1. f # 0
      BY <1>1, FrameIs
    <2>2. framed[f].stamp = d.stamp
      BY <1>1, <1>7, <2>1 DEF Carried
    <2> QED BY <1>2, <1>3, <1>7, <2>1, <2>2 DEF Kept
  <1>8. \A f \in DOMAIN framed' : Accepted(f)' => framed'[f].stamp \in InHand' \cup Lost'
    BY <1>2, <1>4, <1>6, <1>7 DEF KeptInv
  <1>9. ASSUME NEW e \in net', Seen(e)', e.frame # 0 PROVE e.stamp \in InHand' \cup Lost'
    <2>1. e \in net /\ e.frame \in DOMAIN framed /\ framed[e.frame].stamp = e.stamp
      BY <1>1, <1>2, <1>9 DEF Carried
    <2>2. PICK i \in DOMAIN seen' : seen'[i] = Number(e)
      BY <1>9 DEF Seen, Number
    <2>3. CASE seen'[i] = Number(d)
      <3>1. e.number \in 1..numbered /\ d.number \in 1..numbered
        BY <2>1 DEF KeptInv, Numbered
      <3>2. e.number = d.number
        BY <1>1, <2>2, <2>3, <3>1, NumbersAre DEF Number
      <3>3. e = d
        BY <2>1, <3>2 DEF KeptInv, Numbered
      <3> QED BY <1>3, <1>9, <3>3 DEF Kept
    <2>4. CASE \E j \in DOMAIN seen : seen'[i] = seen[j]
      <3>1. Seen(e)
        BY <2>2, <2>4 DEF Seen
      <3>2. Kept(e.stamp)
        BY <1>9, <2>1, <3>1 DEF KeptInv
      <3> QED BY <1>2, <1>6, <2>1, <3>2
    <2> QED BY <1>4, <2>3, <2>4
  <1>10. AckedIsKept'
    <2> SUFFICES ASSUME NEW f \in DOMAIN framed, f \notin unacked'
                 PROVE  framed'[f].stamp \in InHand' \cup Lost'
      BY <1>2 DEF AckedIsKept
    <2>1. CASE f \in unacked
      BY <1>2, <1>7, <2>1
    <2>2. CASE f \notin unacked
      <3>1. Kept(framed[f].stamp)
        BY <2>2 DEF KeptInv, AckedIsKept, Kept
      <3> QED BY <1>6, <3>1
    <2> QED BY <2>1, <2>2
  <1> QED BY <1>5, <1>8, <1>9, <1>10 DEF KeptInv, Kept

\* A step that moves none of the frames, and lets nothing out or in, keeps all.
LEMMA SameKeepsKept ==
    ASSUME KeptInv, Out' = Out,
           UNCHANGED <<clientVars, networkVars, frameVars, orderVars, lostVars>>
    PROVE  KeptInv'
  <1>1. /\ framed' = framed /\ unacked' = unacked /\ numbered' = numbered /\ net' = net
        /\ seen' = seen /\ base' = base /\ ahead' = ahead /\ partials' = partials /\ held' = held
        /\ evicted' = evicted /\ refused' = refused
    BY DEF clientVars, networkVars, frameVars, orderVars, lostVars
  <1>2. \A s : s \in InHand' \cup Lost' <=> s \in InHand \cup Lost
    <2>1. \A s : Kept(s)' <=> Kept(s)
      <3>1. \A s : Collects(s)' <=> Collects(s)
        BY <1>1 DEF Collects
      <3> QED BY <1>1, <3>1, KeptIs
    <2> QED BY <2>1 DEF Kept
  <1>3. Numbered'
    BY <1>1 DEF KeptInv, Numbered
  <1>4. \A f : Accepted(f)' <=> Accepted(f)
    BY <1>1 DEF Accepted
  <1>5. \A d : Seen(d)' <=> Seen(d)
    BY <1>1 DEF Seen, Number
  <1>6. AckedIsKept'
    BY <1>1, <1>2 DEF KeptInv, AckedIsKept
  <1>7. \A f \in DOMAIN framed' : Accepted(f)' => framed'[f].stamp \in InHand' \cup Lost'
    BY <1>1, <1>2, <1>4 DEF KeptInv, Kept
  <1>8. \A d \in net' : Seen(d)' /\ d.frame # 0 => d.stamp \in InHand' \cup Lost'
    BY <1>1, <1>2, <1>5 DEF KeptInv, Kept
  <1> QED BY <1>3, <1>6, <1>7, <1>8 DEF KeptInv, Kept

WhileNumbered == ReceiveInv /\ (Unwrapped => KeptInv)

LEMMA KeptInit == Init => WhileNumbered
  <1> SUFFICES ASSUME Init PROVE WhileNumbered
    OBVIOUS
  <1>1. ReceiveInv
    BY InitInv
  <1>2. framed = <<>> /\ DOMAIN framed = {} /\ net = {} /\ seen = <<>> /\ DOMAIN seen = {}
    BY DEF Init
  <1>3. KeptInv
    BY <1>2 DEF KeptInv, Numbered, AckedIsKept
  <1> QED BY <1>1, <1>3 DEF WhileNumbered

LEMMA KeptNext == WhileNumbered /\ [Next]_vars => WhileNumbered'
  <1> SUFFICES ASSUME WhileNumbered, [Next]_vars PROVE WhileNumbered'
    OBVIOUS
  <1>1. ReceiveInv /\ ReceiveInv' /\ (Unwrapped => KeptInv)
    BY NextKeeps DEF WhileNumbered
  <1>2. ASSUME ClientStep, Unwrapped' PROVE KeptInv'
    <2>1. numbered \in Nat /\ numbered' \in Nat /\ numbered <= numbered' /\ numbered' <= Modulus
      BY <1>1, <1>2, ClientCounts DEF Counted, ReceiveInv, Unwrapped
    <2>2. Unwrapped
      BY <2>1, ModulusIs DEF Unwrapped
    <2> QED BY <1>1, <1>2, <2>2, ClientKeepsKept
  <1>3. ASSUME NEW d \in net, NEW again \in BOOLEAN, NEW acked \in BOOLEAN, Receive(d, again, acked),
               Unwrapped'
        PROVE  KeptInv'
    <2>1. numbered' = numbered
      BY <1>1, <1>3, ArriveIs DEF Receive, ReceiveInv
    <2>2. Unwrapped
      BY <1>3, <2>1 DEF Unwrapped
    <2> QED BY <1>1, <1>3, <2>2, ReceiveKeepsKept
  <1>4. ASSUME NEW raise \in BOOLEAN, Hand(raise), Unwrapped' PROVE KeptInv'
    <2>1. Out' = Out
      BY <1>1, <1>4, HandKeeps
    <2>2. UNCHANGED <<clientVars, networkVars, frameVars, orderVars, lostVars>>
      BY <1>4 DEF Hand
    <2>3. Unwrapped
      BY <1>4, <2>2 DEF Unwrapped, clientVars
    <2> QED BY <1>1, <2>1, <2>2, <2>3, SameKeepsKept
  <1>5. ASSUME UNCHANGED vars, Unwrapped' PROVE KeptInv'
    <2>1. UNCHANGED <<clientVars, networkVars, frameVars, orderVars, handVars, lostVars>>
      BY <1>5 DEF vars
    <2>2. Out' = Out
      BY <2>1 DEF Out, handVars
    <2>3. Unwrapped
      BY <1>5, <2>1 DEF Unwrapped, clientVars
    <2> QED BY <1>1, <2>1, <2>2, <2>3, SameKeepsKept
  <1>6. Unwrapped' => KeptInv'
    BY <1>2, <1>3, <1>4, <1>5 DEF Next
  <1> QED BY <1>1, <1>6 DEF WhileNumbered

\* What was acknowledged is never lost without a trace.  _handle_frameset acknowledges a
\* datagram before it looks into it, so its message is handed out, in hand, waiting for
\* its turn or being collected, or is one of those that the code gives up: refused at a
\* window, evicted by newer fragments, or dropped with a callback that raised.  It holds
\* while no datagram number has come round, which at 2^24 of them can hide a new
\* datagram behind an old one of the same number.
THEOREM AckedStaysKept == Spec => [](Unwrapped => AckedIsKept)
  <1>1. WhileNumbered => (Unwrapped => AckedIsKept)
    BY DEF WhileNumbered, KeptInv
  <1> QED BY <1>1, KeptInit, KeptNext, PTL DEF Spec
=============================================================================
