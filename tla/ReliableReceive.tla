-------------------------- MODULE ReliableReceive --------------------------
(***************************************************************************)
(* Inbound side of one session (src/runtime/transport.py): the receive     *)
(* thread acknowledges a datagram before it looks into it, drops a repeated *)
(* datagram and a repeated reliable frame, collects the fragments of split *)
(* messages, holds messages that are ahead of their ordering channel, and  *)
(* hands out what is due after inbound_lock is released.                   *)
(*                                                                         *)
(* A message is named by the position of its sending (its stamp), a        *)
(* reliable frame by its reliable index; both are counted from 0 or 1 here *)
(* and wrapped where the code wraps them, with Start frames and messages   *)
(* behind the session already.  A datagram carries one frame.  The client  *)
(* (external) sends a frame again, in a fresh datagram, until one of its   *)
(* datagrams is acknowledged.  NAKs only make it do so sooner.             *)
(***************************************************************************)
EXTENDS Integers, Sequences, FiniteSets, SequencesExt

CONSTANTS
    Channels,       \* ordering channels in use
    Modulus,        \* indexes on the wire (2^24)
    Start,          \* indexes used up before the first message
    ReliableWindow, \* _INBOUND_RELIABLE_WINDOW
    OrderWindow,    \* _INBOUND_ORDER_WINDOW
    History,        \* _INBOUND_DATAGRAM_HISTORY
    SplitLimit,     \* _INBOUND_SPLIT_LIMIT
    ClientWindow,   \* frames the client sends ahead of an unacknowledged one
    MaxMessages,    \* bound: messages sent
    MaxFrames,      \* bound: reliable frames sent
    MaxParts,       \* bound: fragments of a message
    MaxFaults,      \* bound: datagrams lost, doubled or sent again too early, ACKs lost
    MaxRaises       \* bound: application callbacks that raise

ASSUME ReceiveAssumption ==
    /\ Modulus \in Nat \ {0} /\ Start \in Nat
    /\ ReliableWindow \in Nat /\ OrderWindow \in Nat /\ ClientWindow \in Nat
    /\ History \in Nat \ {0} /\ SplitLimit \in Nat \ {0}
    /\ MaxMessages \in Nat /\ MaxFrames \in Nat /\ MaxParts \in Nat
    /\ MaxFaults \in Nat /\ MaxRaises \in Nat
    /\ 2 * MaxMessages <= Modulus /\ 2 * MaxFrames <= Modulus

VARIABLES
    msgs,       \* client: messages sent, by stamp
    framed,     \* client: the reliable frames, in order
    unacked,    \* client: positions in framed not acknowledged
    numbered,   \* client: datagrams sent so far
    net,        \* datagrams under way
    faults,
    seen,       \* inbound_datagram_history, whose set is inbound_datagram_seen
    base,       \* inbound_reliable_base
    ahead,      \* inbound_reliable_out_of_order
    partials,   \* split_packets in insertion order
    expected,   \* inbound_order_expected, by channel
    seqNext,    \* inbound_sequence_next, by channel
    held,       \* inbound_order_pending: what waits, with its order index
    handing,    \* deliveries of the datagram in hand
    raises,     \* callbacks that raised
    handed,     \* ghost: stamps handed out, in order
    skipped,    \* ghost: stamps dropped with a callback that raised
    evicted,    \* ghost: stamps whose fragments were thrown away
    refused     \* ghost: stamps of acknowledged frames outside a window

clientVars  == <<msgs, framed, unacked, numbered>>
networkVars == <<net, faults>>
frameVars   == <<seen, base, ahead, partials>>
orderVars   == <<expected, seqNext, held>>
handVars    == <<handing, raises, handed, skipped>>
lostVars    == <<evicted, refused>>
vars == <<clientVars, networkVars, frameVars, orderVars, handVars, lostVars>>

Wire(n) == n % Modulus
Half == Modulus \div 2

\* _u24_forward_distance
Distance(index, from) == (index - from) % Modulus

Kinds == {"ordered", "sequenced", "plain"}

\* order counts the ordered messages before it on its channel, seq the sequenced
\* ones since the last of these.
Message == [channel: Channels, kind: Kinds, order: Nat, seq: Nat, parts: Nat]
Frame == [stamp: Nat, part: Nat]
\* frame is a position in framed, or 0 for a sequenced message, which is not reliable.
Datagram == [number: Nat, frame: Nat, stamp: Nat]
Partial == [stamp: Nat, have: SUBSET Nat]
Held == [channel: Channels, index: Nat, kind: Kinds, stamp: Nat]

TypeOK ==
    /\ msgs \in Seq(Message) /\ framed \in Seq(Frame)
    /\ unacked \subseteq DOMAIN framed /\ numbered \in Nat
    /\ net \subseteq Datagram /\ faults \in Nat
    /\ seen \in Seq(Nat) /\ base \in 0..(Modulus - 1) /\ ahead \subseteq 0..(Modulus - 1)
    /\ partials \in Seq(Partial)
    /\ expected \in [Channels -> 0..(Modulus - 1)] /\ seqNext \in [Channels -> Nat]
    /\ held \subseteq Held
    /\ handing \in Seq(Nat) /\ handed \in Seq(Nat) /\ raises \in Nat
    /\ skipped \subseteq Nat /\ evicted \subseteq Nat /\ refused \subseteq Nat

Init ==
    /\ msgs = <<>> /\ framed = <<>> /\ unacked = {} /\ numbered = 0
    /\ net = {} /\ faults = 0
    /\ seen = <<>> /\ base = Wire(Start) /\ ahead = {} /\ partials = <<>>
    /\ expected = [c \in Channels |-> Wire(Start)] /\ seqNext = [c \in Channels |-> 0]
    /\ held = {} /\ handing = <<>> /\ handed = <<>> /\ raises = 0 /\ skipped = {}
    /\ evicted = {} /\ refused = {}

-----------------------------------------------------------------------------
(* The client and the network (external). *)

OnChannel(c, kind) == {i \in DOMAIN msgs : msgs[i].channel = c /\ msgs[i].kind = kind}
OrdersSent(c) == Cardinality(OnChannel(c, "ordered"))
SequencedSince(c) == Cardinality({i \in OnChannel(c, "sequenced") : msgs[i].order = OrdersSent(c)})

NewMessage(c, kind, parts) ==
    [channel |-> c, kind |-> kind, order |-> OrdersSent(c), seq |-> SequencedSince(c),
     parts |-> parts]

Copy(n, f, s) == [number |-> n, frame |-> f, stamp |-> s]

ClientFrame == UNCHANGED <<frameVars, orderVars, handVars, lostVars>>

\* A frame waits until it is within the client's window.
SubmitReliable(c, kind, parts) ==
    /\ Len(msgs) < MaxMessages /\ Len(framed) + parts <= MaxFrames
    /\ \A u \in unacked : Len(framed) + parts - u <= ClientWindow
    /\ msgs' = Append(msgs, NewMessage(c, kind, parts))
    /\ framed' = framed \o [p \in 1..parts |-> [stamp |-> Len(msgs) + 1, part |-> p]]
    /\ unacked' = unacked \cup (Len(framed) + 1)..(Len(framed) + parts)
    /\ numbered' = numbered + parts
    /\ net' = net \cup {Copy(numbered + p, Len(framed) + p, Len(msgs) + 1) : p \in 1..parts}
    /\ ClientFrame /\ UNCHANGED faults

SubmitSequenced(c) ==
    /\ Len(msgs) < MaxMessages
    /\ msgs' = Append(msgs, NewMessage(c, "sequenced", 1))
    /\ numbered' = numbered + 1
    /\ net' = net \cup {Copy(numbered + 1, 0, Len(msgs) + 1)}
    /\ ClientFrame /\ UNCHANGED <<framed, unacked, faults>>

\* A copy still under way makes it too early.
Resend(f, early) ==
    /\ f \in unacked
    /\ early = (\E d \in net : d.frame = f)
    /\ early => faults < MaxFaults
    /\ faults' = IF early THEN faults + 1 ELSE faults
    /\ numbered' = numbered + 1
    /\ net' = net \cup {Copy(numbered + 1, f, framed[f].stamp)}
    /\ ClientFrame /\ UNCHANGED <<msgs, framed, unacked>>

Lose ==
    /\ faults < MaxFaults /\ faults' = faults + 1
    /\ \E d \in net : net' = net \ {d}
    /\ ClientFrame /\ UNCHANGED clientVars

-----------------------------------------------------------------------------
(* _handle_frameset: ACK and duplicate filter of the datagram. *)

Idle == handing = <<>>

\* s.ack(seq), before anything else.  The ACK gets through or is lost (one that is
\* late comes to the same as a lost one); a copy of the datagram may stay under way.
Arrive(d, again, acked) ==
    /\ Idle
    /\ d \in net
    /\ net' = IF again THEN net ELSE net \ {d}
    /\ unacked' = IF acked THEN unacked \ {d.frame} ELSE unacked
    /\ faults' = faults + Cardinality({x \in {1} : again}) + Cardinality({x \in {1} : ~acked})
    /\ faults' <= MaxFaults
    /\ UNCHANGED <<msgs, framed, numbered, raises, handed, skipped>>

Number(d) == Wire(Start + d.number)
Seen(d) == \E i \in DOMAIN seen : seen[i] = Number(d)

\* The oldest number is forgotten beyond the history's length.
Note(d) ==
    seen' = IF Len(seen) < History THEN Append(seen, Number(d))
            ELSE Append(Tail(seen), Number(d))

RepeatedDatagram(d) ==
    /\ Seen(d)
    /\ UNCHANGED <<frameVars, orderVars, handing, lostVars>>

-----------------------------------------------------------------------------
(* _accept_inbound_reliable_locked *)

Index(d) == Wire(Start + d.frame - 1)
Reach(d) == Distance(Index(d), base)

\* A frame behind the base, or noted ahead of it, was here before.
RepeatedFrame(d) ==
    /\ d.frame # 0
    /\ Reach(d) >= Half \/ Index(d) \in ahead
    /\ UNCHANGED <<base, ahead, partials, orderVars, handing, lostVars>>

OutsideReliable(d) ==
    /\ d.frame # 0
    /\ Reach(d) < Half /\ Reach(d) > ReliableWindow
    /\ refused' = refused \cup {d.stamp}
    /\ UNCHANGED <<base, ahead, partials, orderVars, handing, evicted>>

\* The frame at the base completes the run of frames behind it.
RunEnds == {n \in 1..Modulus : /\ Wire(base + n) \notin ahead
                               /\ \A k \in 1..(n - 1) : Wire(base + k) \in ahead}

Advance ==
    \E n \in RunEnds :
        /\ base' = Wire(base + n)
        /\ ahead' = ahead \ {Wire(base + k) : k \in 1..(n - 1)}

\* Mutant: a frame ahead of the base is not noted.
AcceptFrameForgets(d) ==
    IF d.frame = 0 \/ Reach(d) # 0 THEN UNCHANGED <<base, ahead>>
    ELSE Advance

AcceptFrame(d) ==
    IF d.frame = 0 THEN UNCHANGED <<base, ahead>>
    ELSE /\ Reach(d) < Half /\ Reach(d) <= ReliableWindow /\ Index(d) \notin ahead
         /\ IF Reach(d) # 0
            THEN ahead' = ahead \cup {Index(d)} /\ UNCHANGED base
            ELSE Advance

-----------------------------------------------------------------------------
(* _reassemble_inbound_split_locked *)

Have(stamp) == UNION {partials[i].have : i \in {j \in DOMAIN partials : partials[j].stamp = stamp}}
Without(ps, stamp) ==
    IF \E i \in DOMAIN ps : ps[i].stamp = stamp
    THEN RemoveAt(ps, CHOOSE i \in DOMAIN ps : ps[i].stamp = stamp)
    ELSE ps
Oldest == {partials[1].stamp}

Part(d) == framed[d.frame].part
Complete(d) ==
    IF d.frame = 0 THEN TRUE
    ELSE Have(d.stamp) \cup {Part(d)} = 1..msgs[d.stamp].parts

\* Mutant: a fragment does not open an entry when all are in use.
CollectFull(d) ==
    /\ ~Complete(d)
    /\ IF Have(d.stamp) = {} /\ Len(partials) >= SplitLimit
       THEN UNCHANGED partials
       ELSE partials' = Append(Without(partials, d.stamp),
                               [stamp |-> d.stamp, have |-> Have(d.stamp) \cup {Part(d)}])
    /\ UNCHANGED <<orderVars, handing, lostVars>>

\* The first fragment of a message evicts the oldest entry when all are in use; a
\* further one leaves its entry where it is in the dictionary.
Collect(d) ==
    LET entry == [stamp |-> d.stamp, have |-> Have(d.stamp) \cup {Part(d)}]
        full  == Len(partials) >= SplitLimit
    IN  /\ ~Complete(d)
        /\ IF Have(d.stamp) # {}
           THEN /\ partials' = [i \in DOMAIN partials |->
                                  IF partials[i].stamp = d.stamp THEN entry ELSE partials[i]]
                /\ UNCHANGED evicted
           ELSE /\ partials' = Append(IF full THEN Tail(partials) ELSE partials, entry)
                /\ evicted' = IF full THEN evicted \cup Oldest ELSE evicted
        /\ UNCHANGED <<orderVars, handing, refused>>

-----------------------------------------------------------------------------
(* _queue_or_deliver_inbound_order_locked, _accept_inbound_sequence_locked *)

Chan(s) == msgs[s].channel
Order(s) == Wire(Start + msgs[s].order)
Gap(s) == Distance(Order(s), expected[Chan(s)])

Bucket(c, index) == {h \in held : h.channel = c /\ h.index = index}
BucketOf(c, index, kind) == {h \in Bucket(c, index) : h.kind = kind}
Buckets(c) == {h.index : h \in {g \in held : g.channel = c}}

InSequence(s, next) == Distance(msgs[s].seq, next) < Half

\* An ordered message keeps its place; a sequenced one gives way to a newer one.
Hold(s) ==
    LET c == Chan(s)
        same == BucketOf(c, Order(s), msgs[s].kind)
        newer == msgs[s].kind = "sequenced"
                   /\ \A h \in same : Distance(msgs[s].seq, msgs[h.stamp].seq) \in 1..(Half - 1)
    IN  held' = IF same = {} \/ newer
                THEN (held \ same) \cup {[channel |-> c, index |-> Order(s),
                                          kind |-> msgs[s].kind, stamp |-> s]}
                ELSE held

\* The last held bucket that the message at distance 0 sets free: the first one
\* without an ordered message, which goes if there is a sequenced one in it.
Runs(c) == {n \in 1..(OrderWindow + 1) :
              /\ BucketOf(c, Wire(expected[c] + n), "ordered") = {}
              /\ \A k \in 1..(n - 1) : BucketOf(c, Wire(expected[c] + k), "ordered") # {}}

Freed(c, n) == UNION {Bucket(c, Wire(expected[c] + k)) : k \in 1..n}
Due(c, s, n) == {s} \cup {h.stamp : h \in Freed(c, n)}

\* In the order of the buckets, a sequenced message before the ordered one of its
\* index: the order of their stamps.
InTurn(S) == {q \in [1..Cardinality(S) -> S] :
                 Range(q) = S /\ \A i, j \in DOMAIN q : i < j => q[i] < q[j]}

\* The next sequenced message follows the one in the last bucket.
NextAfter(last) == IF last = {} THEN {0} ELSE {msgs[h.stamp].seq + 1 : h \in last}

\* Mutant: a message is handed out at once when its index is the expected one, and
\* what waits for it stays.
ReleaseOnlyIt(s) ==
    LET c == Chan(s)
    IN  /\ handing' = <<s>>
        /\ expected' = [expected EXCEPT ![c] = Wire(@ + 1)]
        /\ seqNext' = [seqNext EXCEPT ![c] = 0]
        /\ UNCHANGED held

Release(s) ==
    LET c == Chan(s)
    IN  \E n \in Runs(c) :
            /\ handing' \in InTurn(Due(c, s, n))
            /\ expected' = [expected EXCEPT ![c] = Wire(@ + n)]
            /\ \E next \in NextAfter(BucketOf(c, Wire(expected[c] + n), "sequenced")) :
                   seqNext' = [seqNext EXCEPT ![c] = next]
            /\ held' = held \ Freed(c, n)

Stale(s) == Gap(s) >= Half
OutsideOrder(s) ==
    /\ Gap(s) > 0
    /\ \/ Gap(s) > OrderWindow
       \/ Order(s) \notin Buckets(Chan(s)) /\ Cardinality(Buckets(Chan(s))) >= OrderWindow

\* Mutant: a message is handed out when it arrives, ahead of its turn or not.
DispatchAtOnce(s) ==
    /\ handing' = <<s>>
    /\ UNCHANGED <<orderVars, lostVars>>

Dispatch(s) ==
    CASE msgs[s].kind = "plain" -> handing' = <<s>> /\ UNCHANGED <<orderVars, lostVars>>
      [] msgs[s].kind # "plain" /\ Stale(s) -> UNCHANGED <<orderVars, handing, lostVars>>
      [] msgs[s].kind # "plain" /\ ~Stale(s) /\ OutsideOrder(s) ->
           refused' = refused \cup {s} /\ UNCHANGED <<orderVars, handing, evicted>>
      [] msgs[s].kind # "plain" /\ ~Stale(s) /\ ~OutsideOrder(s) /\ Gap(s) > 0 ->
           Hold(s) /\ UNCHANGED <<expected, seqNext, handing, lostVars>>
      [] msgs[s].kind = "sequenced" /\ Gap(s) = 0 ->
           IF InSequence(s, seqNext[Chan(s)])
           THEN /\ handing' = <<s>>
                /\ seqNext' = [seqNext EXCEPT ![Chan(s)] = msgs[s].seq + 1]
                /\ UNCHANGED <<expected, held, lostVars>>
           ELSE UNCHANGED <<orderVars, handing, lostVars>>
      [] OTHER -> Release(s) /\ UNCHANGED lostVars

Whole(d) ==
    /\ Complete(d)
    /\ partials' = Without(partials, d.stamp)
    /\ Dispatch(d.stamp)

-----------------------------------------------------------------------------
(* _handle_frameset as a whole, and its loop over the deliveries *)

Receive(d, again, acked) ==
    /\ Arrive(d, again, acked)
    /\ \/ RepeatedDatagram(d)
       \/ /\ ~Seen(d)
          /\ Note(d)
          /\ \/ RepeatedFrame(d)
             \/ OutsideReliable(d)
             \/ AcceptFrame(d) /\ (Collect(d) \/ Whole(d))

\* A callback that raises takes the rest of the datagram's deliveries with it.
Hand(raise) ==
    /\ handing # <<>>
    /\ handed' = Append(handed, Head(handing))
    /\ IF raise
       THEN /\ raises < MaxRaises /\ raises' = raises + 1
            /\ handing' = <<>> /\ skipped' = skipped \cup Range(Tail(handing))
       ELSE handing' = Tail(handing) /\ UNCHANGED <<raises, skipped>>
    /\ UNCHANGED <<clientVars, networkVars, frameVars, orderVars, lostVars>>

ClientStep ==
    \/ \E c \in Channels, kind \in {"ordered", "plain"}, n \in 1..MaxParts : SubmitReliable(c, kind, n)
    \/ \E c \in Channels : SubmitSequenced(c)
    \/ \E f \in unacked, early \in BOOLEAN : Resend(f, early)
    \/ Lose

Next ==
    \/ ClientStep
    \/ \E d \in net, again, acked \in BOOLEAN : Receive(d, again, acked)
    \/ \E raise \in BOOLEAN : Hand(raise)

Spec == Init /\ [][Next]_vars

\* The receive thread goes on, the client repeats what is not acknowledged, and the
\* network loses only so many datagrams.
Fairness ==
    /\ WF_vars(\E d \in net : Receive(d, FALSE, TRUE))
    /\ WF_vars(Hand(FALSE))
    /\ WF_vars(\E f \in unacked : Resend(f, FALSE))

FairSpec == Spec /\ Fairness

-----------------------------------------------------------------------------
InHand == Range(handing) \cup Range(handed) \cup {h.stamp : h \in held}
            \cup {partials[i].stamp : i \in DOMAIN partials}
Lost == skipped \cup evicted \cup refused

\* The datagram is acknowledged before the server knows what it will do with it,
\* so whatever was acknowledged must still be here: handed out, in hand, held for
\* its turn or collected, or else lost in one of the three ways the code has.
AckedIsKept ==
    \A f \in DOMAIN framed :
        f \notin unacked => framed[f].stamp \in InHand \cup Lost

\* No command of the client is executed twice, whatever the network doubles and
\* the client repeats after the history has forgotten it; ordered and sequenced
\* messages of a channel run in the order in which they were sent, also when a
\* held newer one is released between two ordered ones.
OnceInOrder ==
    \A i, j \in DOMAIN handed : i < j =>
        /\ handed[i] # handed[j]
        /\ LET a == msgs[handed[i]]  b == msgs[handed[j]]
           IN  (a.channel = b.channel /\ "plain" \notin {a.kind, b.kind}) => handed[i] < handed[j]

\* What the application is given of a channel's ordered messages, up to the first
\* that a raising callback took along.
Taken(c) == {s \in skipped : msgs[s].channel = c /\ msgs[s].kind = "ordered"}
Shown(c) ==
    {i \in DOMAIN handed : /\ msgs[handed[i]].channel = c /\ msgs[handed[i]].kind = "ordered"
                           /\ \A t \in Taken(c) : handed[i] < t}
Nth(P, k) == CHOOSE i \in P : Cardinality({j \in P : j <= i}) = k
Given(c) ==
    [k \in 1..Cardinality(Shown(c)) |-> msgs[handed[Nth(Shown(c), k)]].order + 1]

\* The application sees an ordered channel.
Promise == INSTANCE OrderedChannel WITH
    sent <- [c \in Channels |-> OrdersSent(c)],
    delivered <- [c \in Channels |-> Given(c)],
    closed <- FALSE
InOrder == Promise!Spec

\* Every ordered message reaches the application, unless one was lost on the way.
EveryMessageArrives ==
    \A c \in Channels, n \in 1..MaxMessages :
        OrdersSent(c) >= n ~> Len(Given(c)) >= n \/ Lost # {}
=============================================================================
