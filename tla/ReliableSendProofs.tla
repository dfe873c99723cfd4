------------------------- MODULE ReliableSendProofs -------------------------
(***************************************************************************)
(* Proofs about ReliableSend.  That the client's application sees an       *)
(* ordered channel holds whatever the numbers do.  What keeps a fragment   *)
(* registered until it is received is an argument about datagram numbers:  *)
(* a number is taken once, so that what is queued, under way or            *)
(* acknowledged under the number of an entry is that entry's datagram.  It *)
(* needs numbers that have not wrapped, which is therefore an assumption.  *)
(***************************************************************************)
EXTENDS ReliableSend, SequenceTheorems, TLAPS

\* The session has not used up the numbers of the wire.
Unwrapped == frameSeq <= Modulus

\* Every fragment spoken of has been framed, and the order index a message went
\* out with says its place on the channel.
Known ==
    /\ \A e \in pending : e.data.fragment \in DOMAIN framed
    /\ \A d \in Waiting \cup net : d.fragment \in DOMAIN framed
    /\ \A r \in DOMAIN framed : framed[r].order + 1 = framed[r].message
    /\ orderIdx = sent

TypeInv == TypeOK /\ Known

\* Numbers are taken in order and once.
Numbered ==
    /\ \A e \in pending : e.key = e.data.number
    /\ \A e, f \in pending : e.key = f.key \/ e.data.fragment = f.data.fragment => e = f
    /\ \A d \in Waiting \cup net : d.number < frameSeq
    /\ \A n \in acks : n < frameSeq

\* What goes under an entry's number is the entry's.
Matched ==
    /\ \A e \in pending, d \in Waiting \cup net : d.number = e.key => d = e.data
    /\ \A e \in pending, n \in acks : e.key = n => e.data.fragment \in got

\* A datagram waits in one place; the sender has one in hand.
Apart ==
    /\ \A i, j \in DOMAIN mailbox : mailbox[i] = mailbox[j] => i = j
    /\ \A i \in DOMAIN mailbox : mailbox[i] \notin resend \cup marking
    /\ resend \cap marking = {}
    /\ \A x, y \in marking : x = y

\* QueuedOnce, one entry and one datagram at a time.
QueuedEach ==
    \A e \in pending :
        /\ e.sent => \A d \in Waiting : d.fragment # e.data.fragment
        /\ ~e.sent => /\ e.data \in Waiting
                      /\ \A d \in Waiting : d.fragment = e.data.fragment => d = e.data

IInv == Numbered /\ Matched /\ Apart /\ KeptUntilReceived /\ (Alive => QueuedEach)

-----------------------------------------------------------------------------
\* A number short of the modulus is its own remainder.
LEMMA WireIsPlain == ASSUME NEW n \in Nat, n < Modulus PROVE Wire(n) = n
  BY SendAssumption DEF Wire

LEMMA WireIsNat == ASSUME NEW n \in Nat PROVE Wire(n) \in Nat /\ Wire(n) <= n
  <1>1. Modulus \in Nat /\ Modulus > 0
    BY SendAssumption
  <1>2. CASE n < Modulus
    BY <1>2, WireIsPlain
  <1>3. CASE n >= Modulus
    <2>1. n % Modulus \in 0..(Modulus - 1)
      BY <1>1
    <2> QED BY <1>1, <1>3, <2>1 DEF Wire
  <1> QED BY <1>1, <1>2, <1>3

\* What a queue holds after one of its operations.
LEMMA AppendedRange ==
    ASSUME NEW S, NEW s \in Seq(S), NEW x \in S
    PROVE  /\ Append(s, x) \in Seq(S)
           /\ DOMAIN Append(s, x) = DOMAIN s \cup {Len(s) + 1}
           /\ \A i \in DOMAIN s : Append(s, x)[i] = s[i]
           /\ Append(s, x)[Len(s) + 1] = x
  OBVIOUS

LEMMA FunctionSeq ==
    ASSUME NEW S, NEW n \in Nat, NEW f \in [1..n -> S]
    PROVE  f \in Seq(S) /\ Len(f) = n
  BY SeqDef

LEMMA JoinedRange ==
    ASSUME NEW S, NEW s \in Seq(S), NEW n \in Nat, NEW t \in Seq(S), Len(t) = n
    PROVE  /\ s \o t \in Seq(S)
           /\ DOMAIN (s \o t) = 1..(Len(s) + n)
           /\ \A i \in 1..Len(s) : (s \o t)[i] = s[i]
           /\ \A i \in 1..n : (s \o t)[Len(s) + i] = t[i]
  OBVIOUS

LEMMA TailRange ==
    ASSUME NEW S, NEW s \in Seq(S), s # <<>>
    PROVE  /\ Tail(s) \in Seq(S)
           /\ Head(s) = s[1] /\ 1 \in DOMAIN s /\ Head(s) \in S
           /\ \A i \in DOMAIN Tail(s) : i + 1 \in DOMAIN s /\ i + 1 # 1 /\ Tail(s)[i] = s[i + 1]
  OBVIOUS

-----------------------------------------------------------------------------
(* Types, and what is known of fragments and order indexes. *)

LEMMA TypeInit == Init => TypeInv
  <1> SUFFICES ASSUME Init PROVE TypeInv
    OBVIOUS
  <1>1. framed \in Seq(Frame) /\ mailbox \in Seq(Datagram) /\ DOMAIN framed = {}
        /\ DOMAIN mailbox = {}
    BY DEF Init
  <1>2. delivered \in [Channels -> Seq(Nat)]
    BY DEF Init
  <1>3. TypeOK
    BY <1>1, <1>2, SendAssumption DEF Init, TypeOK
  <1> QED BY <1>1, <1>3 DEF Init, TypeInv, Known, Waiting

\* What one transmission does to the queue, to pending and to the frames.
LEMMA TransmitFacts ==
    ASSUME TypeInv, NEW c \in Channels, NEW parts \in 1..2,
           NEW queued \in 0..parts, NEW registered \in 0..parts,
           Transmit(c, parts, orderIdx[c], queued, registered)
    PROVE  /\ framed' \in Seq(Frame) /\ DOMAIN framed' = 1..(Len(framed) + parts)
           /\ \A r \in DOMAIN framed : framed'[r] = framed[r]
           /\ \A i \in 1..parts : /\ framed'[Len(framed) + i].order = orderIdx[c]
                                  /\ framed'[Len(framed) + i].message = sent[c] + 1
           /\ mailbox' \in Seq(Datagram) /\ DOMAIN mailbox' = 1..(Len(mailbox) + queued)
           /\ \A j \in DOMAIN mailbox : mailbox'[j] = mailbox[j]
           /\ \A j \in 1..queued : mailbox'[Len(mailbox) + j] = FirstDatagram(j)
           /\ pending' \subseteq pending \cup {FirstEntry(i) : i \in 1..registered}
           /\ \A i \in 1..parts : FirstDatagram(i) \in Datagram /\ FirstEntry(i) \in Entry
           /\ \A i \in 1..parts : FirstEntry(i).key <= FirstNumber(i)
  <1> DEFINE frames == [i \in 1..parts |-> [channel |-> c, order |-> orderIdx[c],
                                           message |-> sent'[c], parts |-> parts]]
             datagrams == [i \in 1..queued |-> FirstDatagram(i)]
  <1>0. /\ frameSeq \in Nat /\ orderIdx \in [Channels -> Nat] /\ sent \in [Channels -> Nat]
        /\ framed \in Seq(Frame) /\ mailbox \in Seq(Datagram)
        /\ Len(framed) \in Nat /\ parts \in Nat /\ queued \in Nat
    BY DEF TypeInv, TypeOK
  <1>1. sent'[c] = sent[c] + 1 /\ sent'[c] \in Nat
    BY <1>0 DEF Transmit
  <1>2. \A i \in 1..parts : FirstNumber(i) \in Nat
    BY <1>0 DEF FirstNumber
  <1>3. \A i \in 1..parts : FirstDatagram(i) \in Datagram /\ FirstEntry(i) \in Entry
                            /\ FirstEntry(i).key <= FirstNumber(i)
    <2> TAKE i \in 1..parts
    <2>1. Wire(FirstNumber(i)) \in Nat /\ Wire(FirstNumber(i)) <= FirstNumber(i)
      BY <1>2, WireIsNat
    <2>2. FirstDatagram(i) \in Datagram
      BY <1>0, <2>1 DEF FirstDatagram, Datagram
    <2> QED BY <2>1, <2>2 DEF FirstEntry, Entry
  <1>4. frames \in Seq(Frame) /\ Len(frames) = parts
    <2>1. \A i \in 1..parts : frames[i] \in Frame
      BY <1>0, <1>1 DEF Frame
    <2>2. frames \in [1..parts -> Frame]
      BY <2>1
    <2> HIDE DEF frames
    <2> QED BY <1>0, <2>2, FunctionSeq
  <1>5. datagrams \in Seq(Datagram) /\ Len(datagrams) = queued
    BY <1>0, <1>3
  <1>6. framed' = framed \o frames /\ mailbox' = mailbox \o datagrams
    BY DEF Transmit
  <1> HIDE DEF frames, datagrams
  <1>7. /\ framed' \in Seq(Frame) /\ DOMAIN framed' = 1..(Len(framed) + parts)
        /\ \A r \in 1..Len(framed) : framed'[r] = framed[r]
        /\ \A i \in 1..parts : framed'[Len(framed) + i] = frames[i]
    <2>1. frames \in Seq(Frame) /\ Len(frames) = parts /\ framed \in Seq(Frame) /\ parts \in Nat
      BY <1>0, <1>4
    <2> QED BY <1>6, <2>1, JoinedRange
  <1>8. /\ mailbox' \in Seq(Datagram) /\ DOMAIN mailbox' = 1..(Len(mailbox) + queued)
        /\ \A j \in 1..Len(mailbox) : mailbox'[j] = mailbox[j]
        /\ \A j \in 1..queued : mailbox'[Len(mailbox) + j] = datagrams[j]
    BY <1>0, <1>5, <1>6, JoinedRange, SMTT(30)
  <1>9. pending' \subseteq pending \cup {FirstEntry(i) : i \in 1..registered}
    BY DEF Register, Transmit
  <1>10. \A i \in 1..parts : frames[i].order = orderIdx[c] /\ frames[i].message = sent[c] + 1
    BY <1>1 DEF frames
  <1>11. \A i \in 1..queued : datagrams[i] = FirstDatagram(i)
    BY DEF datagrams
  <1>12. DOMAIN framed = 1..Len(framed) /\ DOMAIN mailbox = 1..Len(mailbox)
    BY <1>0
  <1> QED
    BY <1>3, <1>7, <1>8, <1>9, <1>10, <1>11, <1>12, ZenonT(30)

LEMMA TransmitKeepsTypes ==
    ASSUME TypeInv, NEW c \in Channels, NEW parts \in 1..2,
           NEW queued \in 0..parts, NEW registered \in 0..parts,
           Transmit(c, parts, orderIdx[c], queued, registered),
           orderIdx' = [orderIdx EXCEPT ![c] = @ + 1]
    PROVE  TypeInv'
  <1> DEFINE new == {FirstEntry(i) : i \in 1..registered}
  <1>0. /\ TypeOK /\ Known /\ frameSeq \in Nat /\ sent \in [Channels -> Nat]
        /\ framed \in Seq(Frame) /\ DOMAIN framed = 1..Len(framed) /\ Len(framed) \in Nat
        /\ mailbox \in Seq(Datagram) /\ DOMAIN mailbox = 1..Len(mailbox) /\ Len(mailbox) \in Nat
    BY DEF TypeInv, TypeOK
  <1>1. /\ frameSeq' = frameSeq + parts /\ sent' = [sent EXCEPT ![c] = @ + 1]
        /\ failed' \in BOOLEAN
        /\ UNCHANGED <<marking, resend, retired, net, acks, faults, got, delivered>>
    BY DEF Transmit, networkVars, clientVars
  <1> DEFINE Facts ==
        /\ framed' \in Seq(Frame) /\ DOMAIN framed' = 1..(Len(framed) + parts)
        /\ \A r \in DOMAIN framed : framed'[r] = framed[r]
        /\ \A i \in 1..parts : /\ framed'[Len(framed) + i].order = orderIdx[c]
                               /\ framed'[Len(framed) + i].message = sent[c] + 1
        /\ mailbox' \in Seq(Datagram) /\ DOMAIN mailbox' = 1..(Len(mailbox) + queued)
        /\ \A j \in DOMAIN mailbox : mailbox'[j] = mailbox[j]
        /\ \A j \in 1..queued : mailbox'[Len(mailbox) + j] = FirstDatagram(j)
        /\ pending' \subseteq pending \cup new
        /\ \A i \in 1..parts : FirstDatagram(i) \in Datagram /\ FirstEntry(i) \in Entry
        /\ \A i \in 1..parts : FirstEntry(i).key <= FirstNumber(i)
  <1>2. Facts
    BY TransmitFacts
  <1>3. \A i \in 1..parts : FirstDatagram(i).fragment \in DOMAIN framed'
    BY <1>0, <1>2 DEF FirstDatagram
  <1>4. \A e \in new : e \in Entry /\ e.key < frameSeq' /\ e.data.fragment \in DOMAIN framed'
    <2> TAKE e \in new
    <2>1. PICK i \in 1..registered : e = FirstEntry(i)
      OBVIOUS
    <2>2. i \in 1..parts /\ FirstNumber(i) < frameSeq'
      BY <1>0, <1>1 DEF FirstNumber
    <2>3. e.data = FirstDatagram(i)
      BY <2>1 DEF FirstEntry
    <2>4. e.key \in Nat /\ FirstNumber(i) \in Nat /\ frameSeq' \in Nat
      <3>1. FirstEntry(i) \in Entry
        BY <1>2, <2>2
      <3> QED BY <1>0, <1>1, <2>1, <3>1 DEF Entry, FirstNumber
    <2>5. e \in Entry /\ e.key <= FirstNumber(i)
      BY <1>2, <2>1, <2>2
    <2>6. e.data.fragment \in DOMAIN framed'
      BY <1>3, <2>2, <2>3
    <2> QED BY <2>2, <2>4, <2>5, <2>6
  <1> HIDE DEF new
  <1>5. pending' \subseteq Entry /\ \A e \in pending' : e.key < frameSeq'
    <2>1. \A e \in pending : e \in Entry /\ e.key \in Nat /\ e.key < frameSeq
      BY <1>0 DEF TypeOK, Entry
    <2> QED BY <1>0, <1>1, <1>2, <1>4, <2>1
  <1>6. got' \subseteq DOMAIN framed'
    BY <1>0, <1>1, <1>2 DEF TypeOK
  <1>7. TypeOK'
    <2>1. framed' \in Seq(Frame) /\ mailbox' \in Seq(Datagram)
      BY <1>2
    <2>2. frameSeq' \in Nat /\ orderIdx' \in [Channels -> Nat] /\ sent' \in [Channels -> Nat]
      BY <1>0, <1>1 DEF TypeOK
    <2> QED BY <1>0, <1>1, <1>5, <1>6, <2>1, <2>2 DEF TypeOK
  <1>8. \A e \in pending' : e.data.fragment \in DOMAIN framed'
    BY <1>0, <1>2, <1>4 DEF Known
  <1>9. \A j \in DOMAIN mailbox' : mailbox'[j].fragment \in DOMAIN framed'
    <2> TAKE j \in DOMAIN mailbox'
    <2>1. CASE j \in DOMAIN mailbox
      BY <1>0, <1>2, <2>1, SMTT(30) DEF Known, Waiting
    <2>2. CASE j \notin DOMAIN mailbox
      <3>1. PICK i \in 1..queued : j = Len(mailbox) + i
        <4>1. j - Len(mailbox) \in 1..queued /\ j = Len(mailbox) + (j - Len(mailbox))
          BY <1>0, <1>2, <2>2
        <4> QED BY <4>1
      <3> QED BY <1>2, <1>3, <3>1
    <2> QED BY <2>1, <2>2
  <1>10. \A d \in (Waiting \cup net)' : d.fragment \in DOMAIN framed'
    BY <1>0, <1>1, <1>2, <1>9 DEF Known, Waiting
  <1>11. \A r \in DOMAIN framed' : framed'[r].order + 1 = framed'[r].message
    <2> TAKE r \in DOMAIN framed'
    <2>1. CASE r \in DOMAIN framed
      BY <1>0, <1>2, <2>1 DEF Known
    <2>2. CASE r \notin DOMAIN framed
      <3>1. PICK i \in 1..parts : r = Len(framed) + i
        <4>1. r - Len(framed) \in 1..parts /\ r = Len(framed) + (r - Len(framed))
          BY <1>0, <1>2, <2>2
        <4> QED BY <4>1
      <3> QED BY <1>0, <1>2, <3>1 DEF Known
    <2> QED BY <2>1, <2>2
  <1>12. orderIdx' = sent'
    BY <1>0, <1>1 DEF Known
  <1> QED BY <1>7, <1>8, <1>10, <1>11, <1>12 DEF TypeInv, Known

\* A replacement is an entry for the same fragment under a fresh number.
LEMMA RekeyedFacts ==
    ASSUME TypeInv, NEW e \in pending
    PROVE  /\ Rekeyed(e) \in Entry /\ Rekeyed(e).key = frameSeq
           /\ Rekeyed(e).data \in Datagram
           /\ Rekeyed(e).data.fragment = e.data.fragment
           /\ Rekeyed(e).data.number = Wire(frameSeq)
           /\ Rekeyed(e).sent = FALSE
  <1>0. frameSeq \in Nat /\ e \in Entry
    BY DEF TypeInv, TypeOK
  <1>1. Wire(frameSeq) \in Nat /\ e.data \in Datagram /\ e.attempts \in Nat
    BY <1>0, WireIsNat DEF Entry
  <1>2. /\ Rekeyed(e).data \in Datagram
        /\ Rekeyed(e).data.fragment = e.data.fragment
        /\ Rekeyed(e).data.number = Wire(frameSeq)
    BY <1>1 DEF Rekeyed, Datagram
  <1>3. Rekeyed(e) \in Entry /\ Rekeyed(e).key = frameSeq /\ Rekeyed(e).sent = FALSE
    <2> DEFINE data == [e.data EXCEPT !.number = Wire(frameSeq)]
    <2>1. data \in Datagram /\ Rekeyed(e) = [key |-> frameSeq, data |-> data, sent |-> FALSE,
                                              attempts |-> e.attempts + 1]
      BY <1>2 DEF Rekeyed
    <2> HIDE DEF data
    <2> QED BY <1>0, <1>1, <2>1 DEF Entry
  <1> QED BY <1>2, <1>3

LEMMA TypeNext == TypeInv /\ [Next]_vars => TypeInv'
  <1> SUFFICES ASSUME TypeInv, [Next]_vars PROVE TypeInv'
    OBVIOUS
  <1>0. /\ TypeOK /\ Known /\ frameSeq \in Nat
        /\ DOMAIN framed = 1..Len(framed) /\ mailbox \in Seq(Datagram)
        /\ \A e \in pending : e \in Entry /\ e.key \in Nat /\ e.data \in Datagram
    BY DEF TypeInv, TypeOK, Entry
  <1> USE DEF TypeInv, sendVars, queueVars, networkVars, clientVars
  <1>1. ASSUME NEW c \in Channels, NEW parts \in 1..2, Send(c, parts)
        PROVE  TypeInv'
    <2>1. parts \in 0..parts
      OBVIOUS
    <2> QED BY <1>1, <2>1, TransmitKeepsTypes DEF Send
  <1>2. ASSUME NEW c \in Channels, NEW parts \in 1..2, SendFails(c, parts)
        PROVE  TypeInv'
    <2>1. PICK queued \in 0..(parts - 1) : \E registered \in {queued, queued + 1} :
                 Transmit(c, parts, orderIdx[c], queued, registered)
      BY <1>2 DEF SendFails
    <2>2. PICK registered \in {queued, queued + 1} :
                 Transmit(c, parts, orderIdx[c], queued, registered)
      BY <2>1
    <2>3. queued \in 0..parts /\ registered \in 0..parts
      OBVIOUS
    <2> QED BY <1>2, <2>2, <2>3, TransmitKeepsTypes DEF SendFails
  <1>3. CASE Refuse
    BY <1>0, <1>3 DEF Refuse, TypeOK, Known, Waiting
  <1>4. CASE Drain
    <2>1. mailbox # <<>> /\ mailbox' = Tail(mailbox)
      BY <1>4 DEF Drain
    <2>2. /\ mailbox' \in Seq(Datagram) /\ Head(mailbox) \in Datagram
          /\ Head(mailbox) = mailbox[1] /\ 1 \in DOMAIN mailbox
          /\ \A i \in DOMAIN mailbox' : i + 1 \in DOMAIN mailbox
                                        /\ mailbox'[i] = mailbox[i + 1]
      BY <1>0, <2>1, TailRange
    <2>3. /\ marking' \subseteq marking \cup {Head(mailbox)}
          /\ net' \subseteq net \cup {Head(mailbox)}
          /\ UNCHANGED <<sendVars, pending, resend, failed, retired, acks, faults, clientVars>>
      BY <1>4 DEF Drain
    <2>4. TypeOK'
      BY <1>0, <2>2, <2>3 DEF TypeOK
    <2>5. \A d \in (Waiting \cup net)' : d \in Waiting \cup net
      BY <2>2, <2>3 DEF Waiting
    <2> QED BY <1>0, <2>3, <2>4, <2>5 DEF Known
  <1>5. CASE Mark
    <2>1. PICK d \in marking :
             /\ marking' = {}
             /\ pending' = {IF e.key = d.number THEN [e EXCEPT !.sent = TRUE] ELSE e : e \in pending}
             /\ UNCHANGED <<sendVars, mailbox, resend, failed, retired, networkVars, clientVars>>
      BY <1>5 DEF Mark
    <2>2. \A e \in pending' : \E f \in pending : /\ e.key = f.key /\ e.data = f.data
                                                 /\ e \in Entry
      <3> TAKE e \in pending'
      <3>1. PICK f \in pending : e = IF f.key = d.number THEN [f EXCEPT !.sent = TRUE] ELSE f
        BY <2>1
      <3> QED BY <1>0, <3>1 DEF Entry
    <2>3. TypeOK'
      BY <1>0, <2>1, <2>2 DEF TypeOK
    <2>4. \A x \in (Waiting \cup net)' : x \in Waiting \cup net
      BY <2>1 DEF Waiting
    <2> QED BY <1>0, <2>1, <2>2, <2>3, <2>4 DEF Known
  <1>6. ASSUME NEW d \in resend, QueueRetry(d)
        PROVE  TypeInv'
    <2>1. CASE mailbox' = Append(mailbox, d)
      <3>1. d \in Datagram
        BY <1>0 DEF TypeOK
      <3>2. /\ mailbox' \in Seq(Datagram)
            /\ DOMAIN mailbox' = DOMAIN mailbox \cup {Len(mailbox) + 1}
            /\ \A i \in DOMAIN mailbox : mailbox'[i] = mailbox[i]
            /\ mailbox'[Len(mailbox) + 1] = d
        BY <1>0, <2>1, <3>1, AppendedRange
      <3>3. TypeOK'
        BY <1>0, <1>6, <3>2 DEF QueueRetry, TypeOK
      <3>4. \A x \in (Waiting \cup net)' : x \in Waiting \cup net
        BY <1>6, <3>2 DEF QueueRetry, Waiting
      <3> QED BY <1>0, <1>6, <3>3, <3>4 DEF QueueRetry, Known
    <2>2. CASE UNCHANGED mailbox /\ failed' = TRUE
      BY <1>0, <1>6, <2>2 DEF QueueRetry, TypeOK, Known, Waiting
    <2> QED BY <1>6, <2>1, <2>2 DEF QueueRetry
  <1>7. ASSUME NEW n \in acks, Acknowledge(n)
        PROVE  TypeInv'
    BY <1>0, <1>7 DEF Acknowledge, TypeOK, Known, Waiting
  <1>8. ASSUME NEW e \in pending, Retransmit(e)
        PROVE  TypeInv'
    <2>1. /\ Rekeyed(e) \in Entry /\ Rekeyed(e).key = frameSeq
          /\ Rekeyed(e).data \in Datagram
          /\ Rekeyed(e).data.fragment = e.data.fragment
      BY RekeyedFacts
    <2>2. /\ frameSeq' = frameSeq + 1
          /\ pending' \subseteq pending \cup {Rekeyed(e)}
          /\ resend' = resend \cup {Rekeyed(e).data}
          /\ UNCHANGED <<orderIdx, framed, sent, mailbox, marking, failed, retired,
                         networkVars, clientVars>>
      BY <1>8 DEF Retransmit, RetryFrame
    <2>3. pending' \subseteq Entry /\ \A f \in pending' : f.key < frameSeq'
      <3> SUFFICES ASSUME NEW f \in pending' PROVE f \in Entry /\ f.key < frameSeq'
        OBVIOUS
      <3>1. CASE f \in pending
        BY <1>0, <2>2, <3>1 DEF TypeOK
      <3>2. CASE f = Rekeyed(e)
        BY <1>0, <2>1, <2>2, <3>2
      <3> QED BY <2>2, <3>1, <3>2
    <2>4. TypeOK'
      <3>1. frameSeq' \in Nat /\ resend' \subseteq Datagram
        BY <1>0, <2>1, <2>2 DEF TypeOK
      <3>2. pending' \subseteq Entry
        BY <2>3
      <3> QED BY <1>0, <2>2, <2>3, <3>1, <3>2 DEF TypeOK
    <2>5. \A f \in pending' : f.data.fragment \in DOMAIN framed'
      BY <1>0, <2>1, <2>2 DEF Known
    <2>6. \A x \in (Waiting \cup net)' : x \in Waiting \cup net \cup {Rekeyed(e).data}
      BY <2>2 DEF Waiting
    <2>7. \A x \in (Waiting \cup net)' : x.fragment \in DOMAIN framed'
      BY <1>0, <2>1, <2>2, <2>6 DEF Known
    <2> QED BY <1>0, <2>2, <2>4, <2>5, <2>7 DEF Known
  <1>9. CASE Retire
    <2>1. mailbox' \in Seq(Datagram) /\ DOMAIN mailbox' = {}
      BY <1>9 DEF Retire
    <2>2. TypeOK'
      BY <1>0, <1>9, <2>1 DEF Retire, TypeOK
    <2> QED BY <1>0, <1>9, <2>1, <2>2 DEF Retire, Known, Waiting
  <1>10. CASE Lose
    <2>1. /\ net' \subseteq net /\ acks' \subseteq acks /\ faults' = faults + 1
          /\ UNCHANGED <<sendVars, pending, queueVars, failed, retired, clientVars>>
      BY <1>10 DEF Lose, NetworkFrame
    <2>2. TypeOK'
      BY <1>0, <2>1 DEF TypeOK
    <2> QED BY <1>0, <2>1, <2>2 DEF Known, Waiting
  <1>11. ASSUME NEW d \in net, NEW again \in BOOLEAN, Arrive(d, again)
         PROVE  TypeInv'
    <2>1. d.number \in Nat /\ d.fragment \in DOMAIN framed
      BY <1>0 DEF TypeOK, Known, Datagram
    <2>2. /\ acks' = acks \cup {d.number} /\ got' = got \cup {d.fragment}
          /\ net' \subseteq net /\ faults' \in Nat
          /\ UNCHANGED <<sendVars, pending, queueVars, failed, retired, delivered>>
      BY <1>0, <1>11 DEF Arrive, NetworkFrame, TypeOK
    <2> QED BY <1>0, <2>1, <2>2 DEF TypeOK, Known, Waiting
  <1>12. ASSUME NEW c \in Channels, Deliver(c)
         PROVE  TypeInv'
    <2>1. PICK m \in 1..sent[c] : delivered' = [delivered EXCEPT ![c] = Append(@, m)]
      BY <1>12 DEF Deliver
    <2>2. delivered' \in [Channels -> Seq(Nat)]
      BY <1>0, <2>1 DEF TypeOK
    <2> QED BY <1>0, <1>12, <2>2 DEF Deliver, NetworkFrame, TypeOK, Known, Waiting
  <1>13. CASE UNCHANGED vars
    BY <1>0, <1>13 DEF vars, TypeOK, Known, Waiting
  <1> QED
    BY <1>1, <1>2, <1>3, <1>4, <1>5, <1>6, <1>7, <1>8, <1>9, <1>10, <1>11, <1>12, <1>13
    DEF Next, SendStep, QueueStep, RepairStep, EndStep, ClientStep, RetireFailed, Disconnect

\* The types are right in every reachable state, and with them what is known of
\* fragments and indexes.
THEOREM TypeCorrect == Spec => []TypeInv
  <1>1. TypeInv /\ [Next]_vars => TypeInv'
    BY TypeNext
  <1> QED BY <1>1, TypeInit, PTL DEF Spec

THEOREM TypesRight == Spec => []TypeOK
  <1>1. TypeInv => TypeOK
    BY DEF TypeInv
  <1> QED BY <1>1, TypeCorrect, PTL

-----------------------------------------------------------------------------
(* The ordered channel. *)

LEMMA OrderInit == Init => Promise!Init
  BY DEF Init, Promise!Init

\* A delivered message is the one next up: its frames carry the client's read
\* index, and the order index of a frame is its message's place on the channel.
LEMMA DeliversNextUp ==
    ASSUME TypeInv, NEW c \in Channels, Deliver(c)
    PROVE  Promise!Deliver(c)
  <1>0. /\ TypeOK /\ Known /\ sent[c] \in Nat /\ Len(delivered[c]) \in Nat
        /\ \A r \in DOMAIN framed : framed[r] \in Frame
    BY DEF TypeInv, TypeOK
  <1>1. PICK m \in 1..sent[c] :
             /\ Complete(c, m)
             /\ \A r \in FragmentsOf(c, m) : framed[r].order = Len(delivered[c])
             /\ delivered' = [delivered EXCEPT ![c] = Append(@, m)]
    BY DEF Deliver
  <1>2. PICK r \in FragmentsOf(c, m) : TRUE
    BY <1>1 DEF Complete
  <1>3. m = Len(delivered[c]) + 1
    BY <1>0, <1>1, <1>2 DEF FragmentsOf, Known, Frame
  <1>4. UNCHANGED <<sent, failed, retired>>
    BY DEF Deliver, NetworkFrame, sendVars
  <1> QED
    BY <1>0, <1>1, <1>3, <1>4 DEF Promise!Deliver, Promise!NextUp

LEMMA OrderNext == TypeInv /\ [Next]_vars => [Promise!Next]_(Promise!vars)
  <1> SUFFICES ASSUME TypeInv, [Next]_vars
               PROVE  Promise!Next \/ UNCHANGED <<sent, delivered, failed \/ retired>>
    BY DEF Promise!vars
  <1>0. failed \in BOOLEAN /\ retired \in BOOLEAN
    BY DEF TypeInv, TypeOK
  <1> USE DEF sendVars, queueVars, networkVars, clientVars
  <1>1. ASSUME NEW c \in Channels, NEW parts \in 1..2, Send(c, parts) \/ SendFails(c, parts)
        PROVE  Promise!Next
    <2>1. /\ ~failed /\ ~retired /\ UNCHANGED <<retired, delivered>>
          /\ sent' = [sent EXCEPT ![c] = @ + 1] /\ failed' \in BOOLEAN
      <3>1. CASE Send(c, parts)
        BY <3>1 DEF Send, Transmit
      <3>2. CASE SendFails(c, parts)
        BY <3>2 DEF SendFails, Transmit
      <3> QED BY <1>1, <3>1, <3>2
    <2>2. Promise!Send(c)
      BY <2>1 DEF Promise!Send
    <2> QED BY <2>2 DEF Promise!Next
  <1>2. ASSUME NEW c \in Channels, Deliver(c)
        PROVE  Promise!Next
    BY <1>2, DeliversNextUp DEF Promise!Next
  <1>3. CASE Refuse \/ Retire
    BY <1>3 DEF Refuse, Retire, Promise!Next, Promise!Close
  <1>4. ASSUME NEW d \in resend, QueueRetry(d)
        PROVE  Promise!Next \/ UNCHANGED <<sent, delivered, failed \/ retired>>
    BY <1>4 DEF QueueRetry, Promise!Next, Promise!Close
  <1>5. CASE \/ Drain \/ Mark \/ Lose
             \/ \E n \in acks : Acknowledge(n)
             \/ \E e \in pending : Retransmit(e)
             \/ \E d \in net, again \in BOOLEAN : Arrive(d, again)
             \/ UNCHANGED vars
    BY <1>5 DEF Drain, Mark, Lose, Acknowledge, Retransmit, RetryFrame, Arrive, NetworkFrame, vars
  <1> QED
    BY <1>1, <1>2, <1>3, <1>4, <1>5
    DEF Next, SendStep, QueueStep, RepairStep, EndStep, ClientStep, RetireFailed, Disconnect

\* Whatever is lost, repeated or refused, and whatever the numbers do, the
\* client's application is given each channel's messages once and in order.
THEOREM OrderedDelivery == Spec => InOrder
  <1>1. Init => Promise!Init
    BY OrderInit
  <1>2. TypeInv /\ [Next]_vars => [Promise!Next]_(Promise!vars)
    BY OrderNext
  <1> QED BY <1>1, <1>2, TypeCorrect, PTL DEF Spec, InOrder, Promise!Spec

-----------------------------------------------------------------------------
(* Datagram numbers, and what they keep. *)

LEMMA NumbersInit == Init => IInv
  <1> SUFFICES ASSUME Init PROVE IInv
    OBVIOUS
  <1>1. DOMAIN mailbox = {} /\ DOMAIN framed = {} /\ Waiting = {}
    BY DEF Init, Waiting
  <1> QED BY <1>1 DEF Init, IInv, Numbered, Matched, Apart, KeptUntilReceived, QueuedEach

\* What the steps of the proof use of the types.
Plain ==
    /\ frameSeq \in Nat /\ Len(framed) \in Nat /\ DOMAIN framed = 1..Len(framed)
    /\ mailbox \in Seq(Datagram) /\ Len(mailbox) \in Nat /\ DOMAIN mailbox = 1..Len(mailbox)
    /\ \A e \in pending : /\ e.key \in Nat /\ e.key < frameSeq /\ e.data \in Datagram
                          /\ e.data.fragment \in 1..Len(framed)
                          /\ e.sent \in BOOLEAN
    /\ \A d \in Waiting \cup net : /\ d \in Datagram /\ d.number \in Nat
                                   /\ d.fragment \in 1..Len(framed)
    /\ acks \subseteq Nat

LEMMA PlainTypes == TypeInv => Plain
  <1> SUFFICES ASSUME TypeInv PROVE Plain
    OBVIOUS
  <1>1. TypeOK /\ Known
    BY DEF TypeInv
  <1>2. \A e \in pending : e \in Entry
    BY <1>1 DEF TypeOK
  <1>3. Waiting \cup net \subseteq Datagram
    BY <1>1 DEF TypeOK, Waiting
  <1> QED BY <1>1, <1>2, <1>3 DEF TypeOK, Known, Entry, Datagram, Plain

\* The numbers and fragments of a new message are beyond all there were.
LEMMA TransmitKeepsNumbers ==
    ASSUME TypeInv, IInv, Unwrapped', NEW c \in Channels, NEW parts \in 1..2,
           NEW queued \in 0..parts, NEW registered \in queued..parts,
           Transmit(c, parts, orderIdx[c], queued, registered)
    PROVE  IInv'
  <1> DEFINE new == {FirstEntry(i) : i \in 1..registered}
             out == {FirstDatagram(i) : i \in 1..queued}
  <1>0. Plain /\ parts \in Nat /\ queued \in Nat /\ registered \in Nat
    BY PlainTypes
  <1>1. /\ frameSeq' = frameSeq + parts /\ failed' = (queued < parts)
        /\ ~failed /\ ~retired
        /\ UNCHANGED <<marking, resend, retired, net, acks, got>>
    BY DEF Transmit, networkVars, clientVars
  <1>2. \A i \in 1..parts : /\ FirstNumber(i) \in Nat /\ FirstNumber(i) >= frameSeq
                            /\ FirstNumber(i) < frameSeq' /\ Wire(FirstNumber(i)) = FirstNumber(i)
    <2> TAKE i \in 1..parts
    <2>1. FirstNumber(i) \in Nat /\ FirstNumber(i) >= frameSeq /\ FirstNumber(i) < frameSeq'
      BY <1>0, <1>1 DEF FirstNumber, Plain
    <2>2. FirstNumber(i) < Modulus
      BY <1>0, <1>1, <2>1, SendAssumption DEF Unwrapped, Plain
    <2> QED BY <2>1, <2>2, WireIsPlain
  <1>3. \A i \in 1..parts : /\ FirstDatagram(i).number = FirstNumber(i)
                            /\ FirstDatagram(i).fragment = Len(framed) + i
                            /\ FirstEntry(i).key = FirstNumber(i)
                            /\ FirstEntry(i).data = FirstDatagram(i)
                            /\ FirstEntry(i).sent = FALSE
    BY <1>2 DEF FirstDatagram, FirstEntry
  <1>4. \A i, j \in 1..parts : FirstNumber(i) = FirstNumber(j) => i = j
    BY <1>0 DEF FirstNumber, Plain
  <1>5. \A e \in new : \E i \in 1..parts : e = FirstEntry(i)
    BY <1>0
  <1>6. \A d \in out : \E i \in 1..parts : d = FirstDatagram(i)
    BY <1>0
  <1>7. pending' = pending \cup new
    <2>1. \A e \in pending, n \in new : n.key # e.key
      <3> TAKE e \in pending, n \in new
      <3>1. PICK i \in 1..parts : n = FirstEntry(i)
        BY <1>5
      <3> QED BY <1>0, <1>2, <1>3, <3>1 DEF Plain
    <2>2. Register(new)
      BY DEF Transmit
    <2> QED BY <2>1, <2>2 DEF Register
  <1>8. /\ DOMAIN mailbox' = 1..(Len(mailbox) + queued)
        /\ \A j \in DOMAIN mailbox : mailbox'[j] = mailbox[j]
        /\ \A j \in 1..queued : mailbox'[Len(mailbox) + j] = FirstDatagram(j)
        /\ DOMAIN framed' = 1..(Len(framed) + parts)
    BY <1>0, TransmitFacts
  <1>9. \A j \in DOMAIN mailbox' : \/ j \in DOMAIN mailbox
                                   \/ \E i \in 1..queued : j = Len(mailbox) + i
    <2> SUFFICES ASSUME NEW j \in DOMAIN mailbox', j \notin DOMAIN mailbox
                 PROVE  \E i \in 1..queued : j = Len(mailbox) + i
      OBVIOUS
    <2>1. j - Len(mailbox) \in 1..queued /\ j = Len(mailbox) + (j - Len(mailbox))
      BY <1>0, <1>8 DEF Plain
    <2> QED BY <2>1
  <1>10. Waiting' = Waiting \cup out
    <2>1. \A i \in 1..queued : Len(mailbox) + i \in DOMAIN mailbox'
      BY <1>0, <1>8 DEF Plain
    <2>2. DOMAIN mailbox \subseteq DOMAIN mailbox'
      BY <1>0, <1>8 DEF Plain
    <2>3. {mailbox'[j] : j \in DOMAIN mailbox'} = {mailbox[j] : j \in DOMAIN mailbox} \cup out
      BY <1>8, <1>9, <2>1, <2>2, SMTT(30)
    <2> HIDE DEF out
    <2> QED BY <1>1, <2>3 DEF Waiting
  <1>11. \A d \in Waiting \cup net, i \in 1..parts :
             d.number < FirstNumber(i) /\ d.fragment < Len(framed) + i
    <2> TAKE d \in Waiting \cup net, i \in 1..parts
    <2>1. d.number < frameSeq
      BY DEF IInv, Numbered
    <2> QED BY <1>0, <1>2, <2>1 DEF Plain
  <1>12. \A e \in pending, i \in 1..parts :
             e.key < FirstNumber(i) /\ e.data.fragment < Len(framed) + i
    BY <1>0, <1>2 DEF Plain
  <1> HIDE DEF new, out
  <1>13. Numbered'
    <2>1. \A e \in pending' : e.key = e.data.number
      BY <1>3, <1>5, <1>7 DEF IInv, Numbered
    <2>2. \A e, f \in pending' : e.key = f.key \/ e.data.fragment = f.data.fragment => e = f
      <3> SUFFICES ASSUME NEW e \in pending', NEW f \in pending',
                          e.key = f.key \/ e.data.fragment = f.data.fragment
                   PROVE  e = f
        OBVIOUS
      <3>1. CASE e \in pending /\ f \in pending
        BY <3>1 DEF IInv, Numbered
      <3>2. CASE e \in new /\ f \in new
        <4>1. PICK i \in 1..parts : e = FirstEntry(i)
          BY <1>5, <3>2
        <4>2. PICK j \in 1..parts : f = FirstEntry(j)
          BY <1>5, <3>2
        <4> QED BY <1>0, <1>3, <1>4, <4>1, <4>2 DEF Plain
      <3>3. CASE e \in pending /\ f \in new
        <4>1. PICK j \in 1..parts : f = FirstEntry(j)
          BY <1>5, <3>3
        <4> QED BY <1>0, <1>2, <1>3, <1>12, <3>3, <4>1 DEF Plain
      <3>4. CASE e \in new /\ f \in pending
        <4>1. PICK j \in 1..parts : e = FirstEntry(j)
          BY <1>5, <3>4
        <4> QED BY <1>0, <1>2, <1>3, <1>12, <3>4, <4>1 DEF Plain
      <3> QED BY <1>7, <3>1, <3>2, <3>3, <3>4
    <2>3. \A d \in (Waiting \cup net)' : d.number < frameSeq'
      <3> TAKE d \in (Waiting \cup net)'
      <3>1. CASE d \in Waiting \cup net
        BY <1>0, <1>1, <3>1 DEF IInv, Numbered, Plain
      <3>2. CASE d \in out
        BY <1>2, <1>3, <1>6, <3>2
      <3> QED BY <1>1, <1>10, <3>1, <3>2
    <2>4. \A n \in acks' : n < frameSeq'
      BY <1>0, <1>1 DEF IInv, Numbered, Plain
    <2> QED BY <2>1, <2>2, <2>3, <2>4 DEF Numbered
  <1>14. Matched'
    <2>1. \A e \in pending', d \in (Waiting \cup net)' : d.number = e.key => d = e.data
      <3> SUFFICES ASSUME NEW e \in pending', NEW d \in (Waiting \cup net)', d.number = e.key
                   PROVE  d = e.data
        OBVIOUS
      <3>1. CASE e \in pending /\ d \in Waiting \cup net
        BY <3>1 DEF IInv, Matched
      <3>2. CASE e \in new /\ d \in Waiting \cup net
        BY <1>0, <1>2, <1>3, <1>5, <1>11, <3>2 DEF Plain
      <3>3. CASE e \in pending /\ d \in out
        BY <1>0, <1>2, <1>3, <1>6, <1>12, <3>3 DEF Plain
      <3>4. CASE e \in new /\ d \in out
        <4>1. PICK i \in 1..parts : e = FirstEntry(i)
          BY <1>5, <3>4
        <4>2. PICK j \in 1..parts : d = FirstDatagram(j)
          BY <1>6, <3>4
        <4> QED BY <1>3, <1>4, <4>1, <4>2
      <3> QED BY <1>1, <1>7, <1>10, <3>1, <3>2, <3>3, <3>4
    <2>2. \A e \in pending', n \in acks' : e.key = n => e.data.fragment \in got'
      <3> SUFFICES ASSUME NEW e \in pending', NEW n \in acks', e.key = n
                   PROVE  e.data.fragment \in got'
        OBVIOUS
      <3>1. n \in acks /\ n \in Nat /\ n < frameSeq
        BY <1>0, <1>1 DEF IInv, Numbered, Plain
      <3>2. CASE e \in pending
        BY <1>1, <3>1, <3>2 DEF IInv, Matched
      <3>3. CASE e \in new
        BY <1>0, <1>2, <1>3, <1>5, <3>1, <3>3 DEF Plain
      <3> QED BY <1>7, <3>2, <3>3
    <2> QED BY <2>1, <2>2 DEF Matched
  <1>15. Apart'
    <2>1. \A i \in DOMAIN mailbox : mailbox[i] \in Waiting
      BY DEF Waiting
    <2>2. ASSUME NEW i \in DOMAIN mailbox', NEW j \in DOMAIN mailbox', mailbox'[i] = mailbox'[j]
          PROVE  i = j
      <3>1. CASE i \in DOMAIN mailbox /\ j \in DOMAIN mailbox
        BY <1>8, <2>2, <3>1 DEF IInv, Apart
      <3>2. CASE i \notin DOMAIN mailbox /\ j \notin DOMAIN mailbox
        <4>1. PICK a \in 1..queued : i = Len(mailbox) + a
          BY <1>9, <3>2
        <4>2. PICK b \in 1..queued : j = Len(mailbox) + b
          BY <1>9, <3>2
        <4>3. a \in 1..parts /\ b \in 1..parts
          BY <1>0
        <4>4. FirstDatagram(a) = FirstDatagram(b)
          BY <1>8, <2>2, <4>1, <4>2
        <4> QED BY <1>3, <1>4, <4>1, <4>2, <4>3, <4>4
      <3>3. \A k \in DOMAIN mailbox, a \in 1..queued : mailbox[k] # FirstDatagram(a)
        <4> TAKE k \in DOMAIN mailbox, a \in 1..queued
        <4>1. a \in 1..parts /\ mailbox[k] \in Waiting \cup net
          BY <1>0, <2>1
        <4> QED BY <1>0, <1>2, <1>3, <1>11, <4>1, SMTT(30) DEF Plain
      <3>4. CASE i \in DOMAIN mailbox /\ j \notin DOMAIN mailbox
        BY <1>8, <1>9, <2>2, <3>3, <3>4
      <3>5. CASE i \notin DOMAIN mailbox /\ j \in DOMAIN mailbox
        BY <1>8, <1>9, <2>2, <3>3, <3>5
      <3> QED BY <3>1, <3>2, <3>4, <3>5
    <2>3. \A i \in DOMAIN mailbox' : mailbox'[i] \notin (resend \cup marking)'
      <3> TAKE i \in DOMAIN mailbox'
      <3>1. CASE i \in DOMAIN mailbox
        BY <1>1, <1>8, <3>1 DEF IInv, Apart
      <3>2. CASE i \notin DOMAIN mailbox
        <4>1. PICK a \in 1..queued : i = Len(mailbox) + a
          BY <1>9, <3>2
        <4>2. a \in 1..parts /\ mailbox'[i] = FirstDatagram(a)
          BY <1>0, <1>8, <4>1
        <4>3. \A d \in resend \cup marking : d # FirstDatagram(a)
          <5> TAKE d \in resend \cup marking
          <5>1. d \in Waiting \cup net
            BY DEF Waiting
          <5> QED BY <1>0, <1>2, <1>3, <1>11, <4>2, <5>1 DEF Plain
        <4> QED BY <1>1, <4>2, <4>3
      <3> QED BY <3>1, <3>2
    <2>4. (resend \cap marking)' = {} /\ \A x, y \in marking' : x = y
      BY <1>1 DEF IInv, Apart
    <2> QED BY <2>2, <2>3, <2>4 DEF Apart
  <1>16. ASSUME Alive'
         PROVE  queued = parts /\ registered = parts /\ Alive
    <2>1. ~failed' /\ Alive
      BY <1>1, <1>16 DEF Alive
    <2>2. failed' = (queued < parts)
      BY <1>1
    <2>3. ~(queued < parts)
      BY <2>1, <2>2
    <2> QED BY <1>0, <2>1, <2>3
  <1>17. KeptUntilReceived'
    <2> SUFFICES ASSUME Alive', NEW r \in DOMAIN framed'
                 PROVE  r \in got' \/ \E e \in pending' : e.data.fragment = r
      BY DEF KeptUntilReceived
    <2>1. CASE r \in DOMAIN framed
      BY <1>1, <1>7, <1>16, <2>1 DEF IInv, KeptUntilReceived
    <2>2. CASE r \notin DOMAIN framed
      <3>1. r - Len(framed) \in 1..parts /\ r = Len(framed) + (r - Len(framed))
        BY <1>0, <1>8, <2>2 DEF Plain
      <3>2. FirstEntry(r - Len(framed)) \in pending'
        BY <1>7, <1>16, <3>1 DEF new
      <3>3. FirstEntry(r - Len(framed)).data.fragment = r
        BY <1>3, <3>1
      <3> QED BY <3>2, <3>3
    <2> QED BY <2>1, <2>2
  <1>18. ASSUME Alive' PROVE QueuedEach'
    <2> SUFFICES ASSUME NEW e \in pending'
                 PROVE  /\ e.sent => \A d \in Waiting' : d.fragment # e.data.fragment
                        /\ ~e.sent => /\ e.data \in Waiting'
                                      /\ \A d \in Waiting' :
                                            d.fragment = e.data.fragment => d = e.data
      BY DEF QueuedEach
    <2>1. CASE e \in pending
      <3>1. \A d \in out : d.fragment # e.data.fragment
        BY <1>0, <1>3, <1>6, <1>12, <2>1 DEF Plain
      <3> QED BY <1>10, <1>16, <1>18, <2>1, <3>1 DEF IInv, QueuedEach
    <2>2. CASE e \in new
      <3>1. PICK i \in 1..parts : e = FirstEntry(i)
        BY <1>5, <2>2
      <3>2. e.data \in out
        BY <1>3, <1>16, <1>18, <3>1 DEF out
      <3>3. \A d \in Waiting : d.fragment # e.data.fragment
        BY <1>0, <1>3, <1>11, <3>1 DEF Plain
      <3>4. \A d \in out : d.fragment = e.data.fragment => d = e.data
        <4> TAKE d \in out
        <4>1. PICK j \in 1..parts : d = FirstDatagram(j)
          BY <1>6
        <4> QED BY <1>0, <1>3, <3>1, <4>1 DEF Plain
      <3> QED BY <1>3, <1>10, <3>1, <3>2, <3>3, <3>4
    <2> QED BY <1>7, <2>1, <2>2
  <1> QED BY <1>13, <1>14, <1>15, <1>17, <1>18 DEF IInv

\* What has been dropped from the queue is dropped only from a session that is
\* going; what is sent moves to the socket.
LEMMA DrainKeepsNumbers ==
    ASSUME TypeInv, IInv, Drain
    PROVE  IInv'
  <1>0. /\ Plain /\ mailbox # <<>> /\ marking = {} /\ mailbox' = Tail(mailbox)
        /\ UNCHANGED <<frameSeq, framed, pending, resend, failed, retired, acks, got>>
        /\ \/ ~Alive /\ UNCHANGED <<marking, net>>
           \/ marking' = {Head(mailbox)} /\ net' = net \cup {Head(mailbox)}
    BY PlainTypes DEF Drain, sendVars, clientVars, Alive
  <1>1. /\ mailbox' \in Seq(Datagram) /\ Head(mailbox) = mailbox[1] /\ 1 \in DOMAIN mailbox
        /\ \A i \in DOMAIN mailbox' : /\ i + 1 \in DOMAIN mailbox /\ i + 1 # 1
                                      /\ mailbox'[i] = mailbox[i + 1]
        /\ DOMAIN mailbox' \subseteq Nat
    BY <1>0, TailRange DEF Plain
  <1>2. \A i \in DOMAIN mailbox : i = 1 \/ i - 1 \in DOMAIN mailbox'
    BY <1>0, <1>1 DEF Plain
  <1>3. Head(mailbox) \in Waiting
    BY <1>1 DEF Waiting
  <1>4. Waiting' \subseteq Waiting
    BY <1>0, <1>1 DEF Waiting
  <1>5. Alive' => Alive /\ Waiting' = Waiting
    <2> SUFFICES ASSUME Alive', NEW d \in Waiting PROVE Alive /\ d \in Waiting'
      BY <1>4
    <2>1. Alive /\ marking' = {Head(mailbox)}
      BY <1>0 DEF Alive
    <2>2. CASE d \in resend
      BY <1>0, <2>1, <2>2 DEF Waiting
    <2>3. CASE d \notin resend
      <3>1. PICK i \in DOMAIN mailbox : d = mailbox[i]
        BY <1>0, <2>3 DEF Waiting
      <3>2. CASE i = 1
        BY <1>1, <2>1, <3>1, <3>2 DEF Waiting
      <3>3. CASE i # 1
        <4>1. i - 1 \in DOMAIN mailbox' /\ (i - 1) + 1 = i
          BY <1>0, <1>2, <3>3 DEF Plain
        <4>2. mailbox'[i - 1] = d
          BY <1>1, <3>1, <4>1
        <4> QED BY <2>1, <4>1, <4>2 DEF Waiting
      <3> QED BY <3>2, <3>3
    <2> QED BY <2>2, <2>3
  <1>6. (Waiting \cup net)' \subseteq Waiting \cup net
    BY <1>0, <1>3, <1>4
  <1>7. Numbered' /\ Matched'
    BY <1>0, <1>6 DEF IInv, Numbered, Matched
  <1>8. Apart'
    <2>1. \A i, j \in DOMAIN mailbox' : mailbox'[i] = mailbox'[j] => i = j
      <3> TAKE i, j \in DOMAIN mailbox'
      <3>1. mailbox[i + 1] = mailbox[j + 1] => i + 1 = j + 1
        BY <1>1 DEF IInv, Apart
      <3> QED BY <1>1, <3>1
    <2>2. \A i \in DOMAIN mailbox' : mailbox'[i] \notin resend \cup {Head(mailbox)}
      BY <1>1 DEF IInv, Apart
    <2>3. Head(mailbox) \notin resend /\ marking' \subseteq {Head(mailbox)}
      BY <1>0, <1>1 DEF IInv, Apart
    <2> QED BY <1>0, <2>1, <2>2, <2>3 DEF Apart
  <1>9. KeptUntilReceived' /\ (Alive' => QueuedEach')
    BY <1>0, <1>5 DEF IInv, KeptUntilReceived, QueuedEach
  <1> QED BY <1>7, <1>8, <1>9 DEF IInv

\* The datagram that has just been sent is, by its number, the one its entry
\* waits for.
LEMMA MarkKeepsNumbers ==
    ASSUME TypeInv, IInv, Mark
    PROVE  IInv'
  <1>0. Plain /\ \A e \in pending : e \in Entry
    BY PlainTypes DEF TypeInv, TypeOK
  <1>1. PICK d \in marking :
             /\ marking' = {}
             /\ pending' = {IF e.key = d.number THEN [e EXCEPT !.sent = TRUE] ELSE e : e \in pending}
             /\ UNCHANGED <<frameSeq, framed, mailbox, resend, failed, retired, net, acks, got>>
    BY DEF Mark, sendVars, networkVars, clientVars
  <1>2. \A e \in pending' : \E f \in pending :
             /\ e.key = f.key /\ e.data = f.data
             /\ IF f.key = d.number THEN e = [f EXCEPT !.sent = TRUE] /\ e.sent = TRUE ELSE e = f
    <2> TAKE e \in pending'
    <2>1. PICK f \in pending : e = IF f.key = d.number THEN [f EXCEPT !.sent = TRUE] ELSE f
      BY <1>1
    <2> QED BY <1>0, <2>1 DEF Entry
  <1>3. d \in Waiting /\ Waiting' \subseteq Waiting
    BY <1>1 DEF Waiting
  <1>4. d \notin Waiting'
    BY <1>1 DEF Waiting, IInv, Apart
  <1>5. \A x \in Waiting : x = d \/ x \in Waiting' \/ x \in marking
    BY <1>1 DEF Waiting
  <1>6. Numbered' /\ Matched'
    <2>1. \A e, f \in pending' : e.key = f.key \/ e.data.fragment = f.data.fragment => e = f
      <3> TAKE e, f \in pending'
      <3>1. PICK a \in pending : /\ e.key = a.key /\ e.data = a.data
                                 /\ IF a.key = d.number THEN e = [a EXCEPT !.sent = TRUE] ELSE e = a
        BY <1>2
      <3>2. PICK b \in pending : /\ f.key = b.key /\ f.data = b.data
                                 /\ IF b.key = d.number THEN f = [b EXCEPT !.sent = TRUE] ELSE f = b
        BY <1>2
      <3>3. e.key = f.key \/ e.data.fragment = f.data.fragment => a = b
        BY <3>1, <3>2 DEF IInv, Numbered
      <3> QED BY <3>1, <3>2, <3>3
    <2>2. \A e \in pending' : e.key = e.data.number
      BY <1>2 DEF IInv, Numbered
    <2>3. (Waiting \cup net)' \subseteq Waiting \cup net
      BY <1>1, <1>3
    <2>4. Numbered'
      BY <1>1, <2>1, <2>2, <2>3 DEF IInv, Numbered
    <2>5. Matched'
      BY <1>1, <1>2, <2>3 DEF IInv, Matched
    <2> QED BY <2>4, <2>5
  <1>7. Apart'
    BY <1>1 DEF IInv, Apart
  <1>8. KeptUntilReceived'
    <2>1. \A f \in pending : \E e \in pending' : e.data = f.data
      <3> TAKE f \in pending
      <3>1. (IF f.key = d.number THEN [f EXCEPT !.sent = TRUE] ELSE f) \in pending'
        BY <1>1
      <3>2. [f EXCEPT !.sent = TRUE].data = f.data
        BY <1>0 DEF Entry
      <3> QED BY <3>1, <3>2
    <2> SUFFICES ASSUME Alive', NEW r \in DOMAIN framed
                 PROVE  r \in got \/ \E e \in pending' : e.data.fragment = r
      BY <1>1 DEF KeptUntilReceived
    <2>2. Alive
      BY <1>1 DEF Alive
    <2>3. r \in got \/ \E f \in pending : f.data.fragment = r
      BY <2>2 DEF IInv, KeptUntilReceived
    <2> QED BY <2>1, <2>3
  <1>9. ASSUME Alive' PROVE QueuedEach'
    <2>1. Alive /\ QueuedEach
      BY <1>1, <1>9 DEF IInv, Alive
    <2> SUFFICES ASSUME NEW e \in pending'
                 PROVE  /\ e.sent => \A x \in Waiting' : x.fragment # e.data.fragment
                        /\ ~e.sent => /\ e.data \in Waiting'
                                      /\ \A x \in Waiting' :
                                            x.fragment = e.data.fragment => x = e.data
      BY DEF QueuedEach
    <2>2. PICK f \in pending :
             /\ e.key = f.key /\ e.data = f.data
             /\ IF f.key = d.number THEN e.sent = TRUE ELSE e = f
      BY <1>2
    <2>3. CASE f.key = d.number
      <3>1. d = f.data
        BY <1>3, <2>3 DEF IInv, Matched
      <3>2. ~f.sent
        BY <1>3, <2>1, <3>1 DEF QueuedEach
      <3>3. \A x \in Waiting' : x.fragment # e.data.fragment
        BY <1>3, <1>4, <2>1, <2>2, <3>1, <3>2 DEF QueuedEach
      <3> QED BY <2>2, <2>3, <3>3
    <2>4. CASE f.key # d.number
      <3>1. e = f
        BY <2>2, <2>4
      <3>2. d # e.data
        BY <2>4, <3>1 DEF IInv, Numbered
      <3>3. ~e.sent => e.data \in Waiting'
        <4>1. \A x \in marking : x = d
          BY DEF IInv, Apart
        <4> QED BY <1>5, <2>1, <3>1, <3>2, <4>1 DEF QueuedEach
      <3> QED BY <1>3, <2>1, <3>1, <3>3 DEF QueuedEach
    <2> QED BY <2>3, <2>4
  <1> QED BY <1>6, <1>7, <1>8, <1>9 DEF IInv

\* A retransmission that fails to be queued ends the session.
LEMMA QueueRetryKeepsNumbers ==
    ASSUME TypeInv, IInv, NEW d \in resend, QueueRetry(d)
    PROVE  IInv'
  <1>0. /\ Plain /\ resend' = resend \ {d}
        /\ UNCHANGED <<frameSeq, framed, pending, marking, retired, net, acks, got>>
        /\ \/ ~failed /\ mailbox' = Append(mailbox, d) /\ UNCHANGED failed
           \/ failed' = TRUE /\ UNCHANGED mailbox
    BY PlainTypes DEF QueueRetry, sendVars, networkVars, clientVars
  <1>1. CASE failed' = TRUE /\ UNCHANGED mailbox
    <2>1. Waiting' \subseteq Waiting /\ ~Alive'
      BY <1>0, <1>1 DEF Waiting, Alive
    <2> QED BY <1>0, <1>1, <2>1 DEF IInv, Numbered, Matched, Apart, KeptUntilReceived
  <1>2. CASE ~failed /\ mailbox' = Append(mailbox, d) /\ UNCHANGED failed
    <2>1. d \in Datagram
      BY <1>0 DEF Plain, Waiting
    <2>2. /\ DOMAIN mailbox' = DOMAIN mailbox \cup {Len(mailbox) + 1}
          /\ \A i \in DOMAIN mailbox : mailbox'[i] = mailbox[i]
          /\ mailbox'[Len(mailbox) + 1] = d
          /\ Len(mailbox) + 1 \notin DOMAIN mailbox
      <3>1. mailbox \in Seq(Datagram) /\ Len(mailbox) + 1 \notin DOMAIN mailbox
        BY <1>0 DEF Plain
      <3> QED BY <1>2, <2>1, <3>1, AppendedRange
    <2>3. Waiting' = Waiting
      <3>1. {mailbox'[i] : i \in DOMAIN mailbox'} = {mailbox[i] : i \in DOMAIN mailbox} \cup {d}
        BY <2>2
      <3> QED BY <1>0, <3>1 DEF Waiting
    <2>4. Apart'
      <3>1. \A i \in DOMAIN mailbox : mailbox[i] # d
        BY DEF IInv, Apart
      <3>2. \A i, j \in DOMAIN mailbox' : mailbox'[i] = mailbox'[j] => i = j
        BY <2>2, <3>1 DEF IInv, Apart
      <3>3. \A i \in DOMAIN mailbox' : mailbox'[i] \notin (resend \cup marking)'
        BY <1>0, <2>2 DEF IInv, Apart
      <3> QED BY <1>0, <3>2, <3>3 DEF IInv, Apart
    <2>5. (Alive' => QueuedEach') /\ KeptUntilReceived'
      <3>1. Alive' => Alive
        BY <1>0, <1>2 DEF Alive
      <3>2. KeptUntilReceived'
        BY <1>0, <3>1 DEF IInv, KeptUntilReceived
      <3> QED BY <1>0, <2>3, <3>1, <3>2 DEF IInv, QueuedEach
    <2> QED BY <1>0, <2>3, <2>4, <2>5 DEF IInv, Numbered, Matched
  <1> QED BY <1>0, <1>1, <1>2

\* The entry re-keyed had nothing waiting; its new number is nobody's.
LEMMA RetransmitKeepsNumbers ==
    ASSUME TypeInv, IInv, Unwrapped', NEW e \in pending, Retransmit(e)
    PROVE  IInv'
  <1> DEFINE n == Rekeyed(e)
  <1>0. /\ Plain /\ e.sent /\ frameSeq' = frameSeq + 1
        /\ pending' = {f \in pending : f.key \notin {e.key, frameSeq}} \cup {n}
        /\ resend' = resend \cup {n.data}
        /\ UNCHANGED <<framed, mailbox, marking, failed, retired, net, acks, got>>
    BY PlainTypes DEF Retransmit, RetryFrame, networkVars, clientVars
  <1>1. Wire(frameSeq) = frameSeq
    BY <1>0, WireIsPlain, SendAssumption DEF Plain, Unwrapped
  <1>2. /\ n.key = frameSeq /\ n.data.number = frameSeq /\ n.sent = FALSE
        /\ n.data.fragment = e.data.fragment
    BY <1>1, RekeyedFacts
  <1> HIDE DEF n
  <1>3. pending' = (pending \ {e}) \cup {n}
    <2>1. \A f \in pending : f.key = e.key => f = e
      BY DEF IInv, Numbered
    <2>2. \A f \in pending : f.key # frameSeq
      BY <1>0 DEF Plain
    <2> QED BY <1>0, <2>1, <2>2
  <1>4. Waiting' = Waiting \cup {n.data}
    BY <1>0 DEF Waiting
  <1>5. \A d \in Waiting \cup net : d.number # frameSeq /\ d.number < frameSeq'
    BY <1>0 DEF IInv, Numbered, Plain
  <1>6. n.data \notin Waiting
    BY <1>2, <1>5
  <1>7. Numbered'
    <2>1. \A f \in pending' : f.key = f.data.number
      BY <1>2, <1>3 DEF IInv, Numbered
    <2>2. \A f, g \in pending' : f.key = g.key \/ f.data.fragment = g.data.fragment => f = g
      <3>1. \A f \in pending \ {e} : f.key # n.key /\ f.data.fragment # n.data.fragment
        BY <1>0, <1>2 DEF IInv, Numbered, Plain
      <3> QED BY <1>3, <3>1 DEF IInv, Numbered
    <2>3. \A d \in (Waiting \cup net)' : d.number < frameSeq'
      BY <1>0, <1>2, <1>4, <1>5 DEF Plain
    <2>4. \A k \in acks' : k < frameSeq'
      BY <1>0 DEF IInv, Numbered, Plain
    <2> QED BY <2>1, <2>2, <2>3, <2>4 DEF Numbered
  <1>8. Matched'
    <2>1. \A f \in pending', d \in (Waiting \cup net)' : d.number = f.key => d = f.data
      <3> SUFFICES ASSUME NEW f \in pending', NEW d \in (Waiting \cup net)', d.number = f.key
                   PROVE  d = f.data
        OBVIOUS
      <3>1. CASE f = n
        BY <1>0, <1>2, <1>4, <1>5, <3>1
      <3>2. CASE f \in pending /\ d \in Waiting \cup net
        BY <3>2 DEF IInv, Matched
      <3>3. CASE f \in pending /\ d = n.data
        BY <1>0, <1>2, <3>3 DEF Plain
      <3> QED BY <1>0, <1>3, <1>4, <3>1, <3>2, <3>3
    <2>2. \A f \in pending', k \in acks' : f.key = k => f.data.fragment \in got'
      BY <1>0, <1>2, <1>3 DEF IInv, Numbered, Matched, Plain
    <2> QED BY <2>1, <2>2 DEF Matched
  <1>9. Apart'
    <2>1. \A i \in DOMAIN mailbox : mailbox[i] # n.data
      BY <1>6 DEF Waiting
    <2>2. n.data \notin marking
      BY <1>6 DEF Waiting
    <2> QED BY <1>0, <2>1, <2>2 DEF IInv, Apart
  <1>10. KeptUntilReceived'
    <2>1. \A f \in pending : \E g \in pending' : g.data.fragment = f.data.fragment
      BY <1>2, <1>3
    <2> SUFFICES ASSUME Alive', NEW r \in DOMAIN framed
                 PROVE  r \in got \/ \E g \in pending' : g.data.fragment = r
      BY <1>0 DEF KeptUntilReceived
    <2>2. Alive
      BY <1>0 DEF Alive
    <2>3. r \in got \/ \E f \in pending : f.data.fragment = r
      BY <2>2 DEF IInv, KeptUntilReceived
    <2> QED BY <2>1, <2>3
  <1>11. ASSUME Alive' PROVE QueuedEach'
    <2>1. QueuedEach
      BY <1>0, <1>11 DEF IInv, Alive
    <2> SUFFICES ASSUME NEW f \in pending'
                 PROVE  /\ f.sent => \A x \in Waiting' : x.fragment # f.data.fragment
                        /\ ~f.sent => /\ f.data \in Waiting'
                                      /\ \A x \in Waiting' :
                                            x.fragment = f.data.fragment => x = f.data
      BY DEF QueuedEach
    <2>2. CASE f = n
      <3>1. \A x \in Waiting : x.fragment # n.data.fragment
        BY <1>0, <1>2, <2>1 DEF QueuedEach
      <3> QED BY <1>2, <1>4, <2>2, <3>1
    <2>3. CASE f \in pending \ {e}
      <3>1. f.data.fragment # n.data.fragment
        BY <1>2, <2>3 DEF IInv, Numbered
      <3> QED BY <1>4, <2>1, <2>3, <3>1 DEF QueuedEach
    <2> QED BY <1>3, <2>2, <2>3
  <1> QED BY <1>7, <1>8, <1>9, <1>10, <1>11 DEF IInv

LEMMA NumbersNext == TypeInv /\ IInv /\ Unwrapped' /\ [Next]_vars => IInv'
  <1> SUFFICES ASSUME TypeInv, IInv, Unwrapped', [Next]_vars PROVE IInv'
    OBVIOUS
  <1>0. Plain /\ Numbered /\ Matched /\ Apart
    BY PlainTypes DEF IInv
  <1>1. ASSUME NEW c \in Channels, NEW parts \in 1..2, Send(c, parts)
        PROVE  IInv'
    <2>1. parts \in 0..parts /\ parts \in parts..parts
      OBVIOUS
    <2> QED BY <1>1, <2>1, TransmitKeepsNumbers DEF Send
  <1>2. ASSUME NEW c \in Channels, NEW parts \in 1..2, SendFails(c, parts)
        PROVE  IInv'
    <2>1. PICK queued \in 0..(parts - 1) : \E registered \in {queued, queued + 1} :
                 Transmit(c, parts, orderIdx[c], queued, registered)
      BY <1>2 DEF SendFails
    <2>2. PICK registered \in {queued, queued + 1} :
                 Transmit(c, parts, orderIdx[c], queued, registered)
      BY <2>1
    <2>3. queued \in 0..parts /\ registered \in queued..parts
      OBVIOUS
    <2> QED BY <2>2, <2>3, TransmitKeepsNumbers
  <1>3. CASE Refuse
    <2>1. ~Alive' /\ Waiting' = Waiting
      BY <1>3 DEF Refuse, Alive, Waiting, queueVars
    <2> QED BY <1>0, <1>3, <2>1 DEF IInv, Refuse, Numbered, Matched, Apart, KeptUntilReceived,
               sendVars, queueVars, networkVars, clientVars
  <1>4. CASE Drain
    BY <1>4, DrainKeepsNumbers
  <1>5. CASE Mark
    BY <1>5, MarkKeepsNumbers
  <1>6. ASSUME NEW d \in resend, QueueRetry(d)
        PROVE  IInv'
    BY <1>6, QueueRetryKeepsNumbers
  <1>7. ASSUME NEW n \in acks, Acknowledge(n)
        PROVE  IInv'
    <2>1. /\ pending' = {e \in pending : e.key # n} /\ acks' = acks \ {n}
          /\ UNCHANGED <<frameSeq, framed, mailbox, marking, resend, failed, retired, net, got>>
      BY <1>7 DEF Acknowledge, sendVars, queueVars, clientVars
    <2>2. Waiting' = Waiting /\ (Alive' => Alive)
      BY <2>1 DEF Waiting, Alive
    <2>3. \A e \in pending : e.data.fragment \in got' \/ e \in pending'
      BY <1>0, <2>1 DEF Matched
    <2>4. KeptUntilReceived'
      BY <2>1, <2>2, <2>3 DEF IInv, KeptUntilReceived
    <2>5. Alive' => QueuedEach'
      BY <2>1, <2>2 DEF IInv, QueuedEach
    <2> QED BY <1>0, <2>1, <2>2, <2>4, <2>5 DEF IInv, Numbered, Matched, Apart
  <1>8. ASSUME NEW e \in pending, Retransmit(e)
        PROVE  IInv'
    BY <1>8, RetransmitKeepsNumbers
  <1>9. CASE Retire
    <2>1. mailbox' = <<>> /\ ~Alive'
          /\ UNCHANGED <<frameSeq, framed, pending, marking, resend, net, acks, got>>
      BY <1>9 DEF Retire, Alive, sendVars, networkVars, clientVars
    <2>2. DOMAIN mailbox' = {}
      BY <2>1
    <2>3. Waiting' \subseteq Waiting
      BY <2>1, <2>2 DEF Waiting
    <2> QED BY <1>0, <2>1, <2>2, <2>3 DEF IInv, Numbered, Matched, Apart, KeptUntilReceived
  <1>10. ASSUME Lose \/ (\E c \in Channels : Deliver(c)) \/ UNCHANGED vars
         PROVE  IInv'
    <2>1. /\ net' \subseteq net /\ acks' \subseteq acks
          /\ UNCHANGED <<frameSeq, framed, pending, mailbox, marking, resend, failed, retired, got>>
      BY <1>10 DEF Lose, Deliver, NetworkFrame, vars, sendVars, queueVars, networkVars, clientVars
    <2>2. Waiting' = Waiting /\ (Alive' => Alive)
      BY <2>1 DEF Waiting, Alive
    <2>3. KeptUntilReceived' /\ (Alive' => QueuedEach')
      BY <2>1, <2>2 DEF IInv, KeptUntilReceived, QueuedEach
    <2> QED BY <1>0, <2>1, <2>2, <2>3 DEF IInv, Numbered, Matched, Apart
  <1>11. ASSUME NEW d \in net, NEW again \in BOOLEAN, Arrive(d, again)
         PROVE  IInv'
    <2>1. /\ acks' = acks \cup {d.number} /\ got' = got \cup {d.fragment} /\ net' \subseteq net
          /\ UNCHANGED <<frameSeq, framed, pending, mailbox, marking, resend, failed, retired>>
      BY <1>11 DEF Arrive, NetworkFrame, sendVars, queueVars
    <2>2. Waiting' = Waiting /\ (Alive' => Alive)
      BY <2>1 DEF Waiting, Alive
    <2>3. \A e \in pending : e.key = d.number => e.data.fragment \in got'
      BY <1>0, <2>1 DEF Matched
    <2>4. Matched'
      BY <1>0, <2>1, <2>2, <2>3 DEF Matched
    <2>5. Numbered'
      BY <1>0, <2>1, <2>2 DEF Numbered
    <2>6. KeptUntilReceived' /\ (Alive' => QueuedEach')
      BY <2>1, <2>2 DEF IInv, KeptUntilReceived, QueuedEach
    <2> QED BY <1>0, <2>1, <2>4, <2>5, <2>6 DEF IInv, Apart
  <1> QED
    BY <1>1, <1>2, <1>3, <1>4, <1>5, <1>6, <1>7, <1>8, <1>9, <1>10, <1>11
    DEF Next, SendStep, QueueStep, RepairStep, EndStep, ClientStep, RetireFailed, Disconnect

THEOREM NumbersKept == Spec /\ []Unwrapped => []IInv
  <1>1. TypeInv /\ IInv /\ Unwrapped' /\ [Next]_vars => IInv'
    BY NumbersNext
  <1> QED BY <1>1, NumbersInit, TypeCorrect, PTL DEF Spec

\* While the numbers last, a fragment of a live session is registered until the
\* client has it: acknowledge and the two repairs forget nothing too early.
THEOREM NothingForgotten == Spec /\ []Unwrapped => []KeptUntilReceived
  <1>1. IInv => KeptUntilReceived
    BY DEF IInv
  <1> QED BY <1>1, NumbersKept, PTL

\* While the numbers last, an entry is queued exactly when it is not marked sent:
\* none is stranded by the race of sender, acknowledgement and repair.
THEOREM OneCopyQueued == Spec /\ []Unwrapped => []QueuedOnce
  <1>1. IInv => QueuedOnce
    <2> SUFFICES ASSUME IInv, Alive, NEW e \in pending
                 PROVE  {d \in Waiting : d.fragment = e.data.fragment}
                          = IF e.sent THEN {} ELSE {e.data}
      BY DEF QueuedOnce
    <2>1. CASE e.sent
      BY <2>1 DEF IInv, QueuedEach
    <2>2. CASE ~e.sent
      BY <2>2 DEF IInv, QueuedEach
    <2> QED BY <2>1, <2>2
  <1> QED BY <1>1, NumbersKept, PTL

\* While the numbers last, an ACK of the datagram an entry last went out with
\* retires that entry.
THEOREM AcknowledgedIsRetired == Spec /\ []Unwrapped => AckRetires
  <1>1. ASSUME IInv PROVE \A n \in acks : Acknowledge(n) => \A e \in pending' : e.data.number # n
    BY <1>1 DEF IInv, Numbered, Acknowledge
  <1>2. IInv => [\A n \in acks : Acknowledge(n) => \A e \in pending' : e.data.number # n]_vars
    BY <1>1
  <1> QED BY <1>2, NumbersKept, PTL DEF AckRetires
=============================================================================
