---------------------------- MODULE ReliableSend ----------------------------
(***************************************************************************)
(* Reliable-ordered output of one session (src/runtime/transport.py and    *)
(* outbound.py): a message is framed into fragments with one order index,  *)
(* every fragment is registered as pending under the number of its         *)
(* datagram and queued for the sender thread; a fragment that a NAK names  *)
(* or that is overdue is put in a datagram with a fresh number and         *)
(* registered under that one, until an ACK names it.                       *)
(*                                                                         *)
(* A fragment is named by its reliable index, a message by its number on   *)
(* its channel; what is packed into one datagram counts as one message.    *)
(* The network loses, delays, duplicates and reorders; the client          *)
(* (external) acknowledges every datagram and delivers each channel in     *)
(* order of the order indexes.  Time is abstracted: whatever is timed may  *)
(* happen at any moment its other conditions hold.                         *)
(***************************************************************************)
EXTENDS Naturals, Sequences, FiniteSets

CONSTANTS
    Channels,       \* ordering channels in use
    Modulus,        \* datagram numbers on the wire (2^24)
    StartSeq,       \* datagrams numbered before, unreliable ones for instance
    MaxFragments,   \* bound: fragments framed
    MaxAttempts,    \* bound: transmissions of one fragment
    MaxFaults       \* bound: datagrams lost or doubled, ACKs lost

ASSUME SendAssumption ==
    /\ Modulus \in Nat \ {0} /\ StartSeq \in Nat
    /\ MaxFragments \in Nat /\ MaxAttempts \in Nat /\ MaxFaults \in Nat

VARIABLES
    frameSeq,   \* fb.frame_seq, which is never wrapped
    orderIdx,   \* fb.order_idx, fb.channel_order_idx
    framed,     \* frame of each fragment; fb.reliable_idx is its length
    pending,    \* pending_reliable: entries with their dictionary key
    mailbox,    \* the session's queue in BoundedOutboundSender
    marking,    \* sent to the socket, _mark_send_attempt still to come
    resend,     \* retransmissions re-keyed and not yet queued
    failed,     \* transport_failure_reason
    retired,    \* retiring
    net,        \* datagrams under way
    acks,       \* datagram numbers acknowledged by ACKs under way
    got,        \* client: fragments received
    delivered,  \* client: messages delivered, per channel
    sent,       \* ghost: messages sent, per channel
    faults

sendVars    == <<frameSeq, orderIdx, framed, sent>>
queueVars   == <<mailbox, marking, resend>>
networkVars == <<net, acks, faults>>
clientVars  == <<got, delivered>>
vars == <<sendVars, pending, queueVars, failed, retired, networkVars, clientVars>>

Wire(n) == n % Modulus

Datagram == [number: Nat, fragment: Nat]
Frame    == [channel: Channels, order: Nat, message: Nat, parts: Nat]
\* sent tells whether sent_at is set: the datagram is out and its age is known.
Entry    == [key: Nat, data: Datagram, sent: BOOLEAN, attempts: Nat]

TypeOK ==
    /\ frameSeq \in Nat /\ orderIdx \in [Channels -> Nat]
    /\ framed \in Seq(Frame)
    /\ pending \subseteq Entry /\ \A e \in pending : e.key < frameSeq
    /\ mailbox \in Seq(Datagram)
    /\ marking \subseteq Datagram /\ resend \subseteq Datagram /\ net \subseteq Datagram
    /\ failed \in BOOLEAN /\ retired \in BOOLEAN
    /\ acks \subseteq Nat
    /\ got \subseteq DOMAIN framed
    /\ delivered \in [Channels -> Seq(Nat)]
    /\ sent \in [Channels -> Nat]
    /\ faults \in Nat

Init ==
    /\ frameSeq = StartSeq /\ orderIdx = [c \in Channels |-> 0]
    /\ framed = <<>> /\ sent = [c \in Channels |-> 0]
    /\ pending = {}
    /\ mailbox = <<>> /\ marking = {} /\ resend = {}
    /\ failed = FALSE /\ retired = FALSE
    /\ net = {} /\ acks = {} /\ faults = 0
    /\ got = {} /\ delivered = [c \in Channels |-> <<>>]

-----------------------------------------------------------------------------
(* Sending, one transaction under outbound_lock.  The threads that drain and    *)
(* acknowledge do not take that lock, but meet a fragment only once it is       *)
(* registered and queued, so that the fragments may be taken together.          *)

FirstNumber(i) == frameSeq + i - 1
FirstDatagram(i) == [number |-> Wire(FirstNumber(i)), fragment |-> Len(framed) + i]
FirstEntry(i) == [key |-> Wire(FirstNumber(i)), data |-> FirstDatagram(i),
                  sent |-> FALSE, attempts |-> 1]

\* dict assignment: an older entry under one of the keys is replaced.
Register(entries) ==
    pending' = {e \in pending : \A n \in entries : n.key # e.key} \cup entries

\* All fragments, or those before the one that finds the pending limit or the
\* queue's capacity reached; that one may have been registered already.
Transmit(c, parts, order, queued, registered) ==
    /\ ~failed /\ ~retired
    /\ Len(framed) + parts <= MaxFragments
    /\ sent' = [sent EXCEPT ![c] = @ + 1]
    /\ framed' = framed \o [i \in 1..parts |->
           [channel |-> c, order |-> order, message |-> sent'[c], parts |-> parts]]
    /\ frameSeq' = frameSeq + parts
    /\ Register({FirstEntry(i) : i \in 1..registered})
    /\ mailbox' = mailbox \o [i \in 1..queued |-> FirstDatagram(i)]
    /\ failed' = (queued < parts)
    /\ UNCHANGED <<marking, resend, retired, networkVars, clientVars>>

\* Mutant: a message that fits one datagram does not move its channel's index.
SendReusesOrder(c, parts) ==
    /\ Transmit(c, parts, orderIdx[c], parts, parts)
    /\ orderIdx' = [orderIdx EXCEPT ![c] = IF parts = 1 THEN @ ELSE @ + 1]

Send(c, parts) ==
    /\ Transmit(c, parts, orderIdx[c], parts, parts)
    /\ orderIdx' = [orderIdx EXCEPT ![c] = @ + 1]

\* OutboundCapacityError: the index is taken and the message never complete, so
\* the session is marked for retirement and sends nothing more.
SendFails(c, parts) ==
    /\ \E queued \in 0..(parts - 1) : \E registered \in {queued, queued + 1} :
            Transmit(c, parts, orderIdx[c], queued, registered)
    /\ orderIdx' = [orderIdx EXCEPT ![c] = @ + 1]

\* The budget check of a split message, an unreliable send that finds the queue
\* full, a scheduler that has stopped: nothing is framed, the session is marked.
Refuse ==
    /\ ~failed /\ ~retired
    /\ failed' = TRUE
    /\ UNCHANGED <<sendVars, pending, queueVars, retired, networkVars, clientVars>>

-----------------------------------------------------------------------------
(* The sender's drain. *)

\* Datagrams of a session that is going are dropped.
Drain ==
    /\ mailbox # <<>> /\ marking = {}
    /\ mailbox' = Tail(mailbox)
    /\ IF failed \/ retired
       THEN UNCHANGED <<marking, net>>
       ELSE marking' = {Head(mailbox)} /\ net' = net \cup {Head(mailbox)}
    /\ UNCHANGED <<sendVars, pending, resend, failed, retired, acks, faults, clientVars>>

\* _mark_send_attempt looks the number up that it finds in the datagram.
Mark ==
    \E d \in marking :
        /\ marking' = {}
        /\ pending' = {IF e.key = d.number THEN [e EXCEPT !.sent = TRUE] ELSE e : e \in pending}
        /\ UNCHANGED <<sendVars, mailbox, resend, failed, retired, networkVars, clientVars>>

-----------------------------------------------------------------------------
(* Acknowledgement and repair. *)

Acknowledge(n) ==
    /\ n \in acks /\ ~retired
    /\ acks' = acks \ {n}
    /\ pending' = {e \in pending : e.key # n}
    /\ UNCHANGED <<sendVars, queueVars, failed, retired, net, faults, clientVars>>

Rekeyed(e) ==
    [key |-> frameSeq, data |-> [e.data EXCEPT !.number = Wire(frameSeq)],
     sent |-> FALSE, attempts |-> e.attempts + 1]

RetryFrame == UNCHANGED <<orderIdx, framed, sent, mailbox, marking, failed, retired,
                          networkVars, clientVars>>

\* Mutant: a replacement still in the queue is replaced again.
RetransmitQueued(e) ==
    /\ ~retired /\ e.attempts < MaxAttempts
    /\ frameSeq' = frameSeq + 1
    /\ pending' = {f \in pending : f.key \notin {e.key, frameSeq}} \cup {Rekeyed(e)}
    /\ resend' = resend \cup {Rekeyed(e).data}
    /\ RetryFrame

\* Mutant: the replacement is registered under the number of the lost datagram.
RetransmitSameKey(e) ==
    /\ ~retired /\ e.attempts < MaxAttempts
    /\ e.sent
    /\ frameSeq' = frameSeq + 1
    /\ pending' = (pending \ {e}) \cup {[Rekeyed(e) EXCEPT !.key = e.key]}
    /\ resend' = resend \cup {Rekeyed(e).data}
    /\ RetryFrame

\* Mutant: the second copy is the last and its entry is given up.
RetransmitForgets(e) ==
    /\ ~retired /\ e.attempts < MaxAttempts
    /\ e.sent
    /\ frameSeq' = frameSeq + 1
    /\ pending' = pending \ {e}
    /\ resend' = resend \cup {Rekeyed(e).data}
    /\ RetryFrame

\* retransmit (a NAK names the datagram) and due_retransmissions (it is overdue)
\* under pending_lock; both leave alone what has not been sent.
Retransmit(e) ==
    /\ ~retired /\ e.attempts < MaxAttempts
    /\ e.sent
    /\ frameSeq' = frameSeq + 1
    /\ pending' = {f \in pending : f.key \notin {e.key, frameSeq}} \cup {Rekeyed(e)}
    /\ resend' = resend \cup {Rekeyed(e).data}
    /\ RetryFrame

\* Session.send after the lock is released; it fails like any other send.
QueueRetry(d) ==
    /\ d \in resend
    /\ resend' = resend \ {d}
    /\ \/ ~failed /\ mailbox' = Append(mailbox, d) /\ UNCHANGED failed
       \/ failed' = TRUE /\ UNCHANGED mailbox
    /\ UNCHANGED <<sendVars, pending, marking, retired, networkVars, clientVars>>

-----------------------------------------------------------------------------
(* The end of the session. *)

Retire ==
    /\ ~retired /\ retired' = TRUE
    /\ mailbox' = <<>>
    /\ UNCHANGED <<sendVars, pending, marking, resend, failed, networkVars, clientVars>>

\* The maintenance pass finds a failure reason.
RetireFailed == failed /\ Retire

\* The client leaves, is silent, or leaves ACKs out for too long.
Disconnect == Retire

-----------------------------------------------------------------------------
(* The network and the client (external); what still happens to a retired    *)
(* session's datagrams is of no interest.                                    *)

NetworkFrame == ~retired /\ UNCHANGED <<sendVars, pending, queueVars, failed, retired>>

Lose ==
    /\ faults < MaxFaults /\ faults' = faults + 1
    /\ \/ \E d \in net : net' = net \ {d} /\ UNCHANGED acks
       \/ \E n \in acks : acks' = acks \ {n} /\ UNCHANGED net
    /\ NetworkFrame /\ UNCHANGED clientVars

\* A copy may stay under way and arrive again.
Arrive(d, again) ==
    /\ d \in net
    /\ IF again
       THEN faults < MaxFaults /\ faults' = faults + 1 /\ UNCHANGED net
       ELSE net' = net \ {d} /\ UNCHANGED faults
    /\ acks' = acks \cup {d.number}
    /\ got' = got \cup {d.fragment}
    /\ NetworkFrame /\ UNCHANGED delivered

FragmentsOf(c, m) == {r \in DOMAIN framed : framed[r].channel = c /\ framed[r].message = m}
Complete(c, m) ==
    LET have == FragmentsOf(c, m) \cap got
    IN  have # {} /\ \A r \in have : Cardinality(have) = framed[r].parts

\* The client's ordered queue gives out the message at its read index.
Deliver(c) ==
    /\ \E m \in 1..sent[c] :
         /\ Complete(c, m)
         /\ \A r \in FragmentsOf(c, m) : framed[r].order = Len(delivered[c])
         /\ delivered' = [delivered EXCEPT ![c] = Append(@, m)]
    /\ NetworkFrame /\ UNCHANGED <<networkVars, got>>

-----------------------------------------------------------------------------
SendStep ==
    \/ \E c \in Channels, parts \in 1..2 : Send(c, parts) \/ SendFails(c, parts)
    \/ Refuse

QueueStep ==
    \/ Drain
    \/ Mark
    \/ \E d \in resend : QueueRetry(d)

RepairStep ==
    \/ \E n \in acks : Acknowledge(n)
    \/ \E e \in pending : Retransmit(e)

EndStep == RetireFailed \/ Disconnect

ClientStep ==
    \/ Lose
    \/ \E d \in net, again \in BOOLEAN : Arrive(d, again)
    \/ \E c \in Channels : Deliver(c)

Next == SendStep \/ QueueStep \/ RepairStep \/ EndStep \/ ClientStep

Spec == Init /\ [][Next]_vars

\* The server's threads go on; the network loses only so many datagrams in a row,
\* and the client is there.
Fairness ==
    /\ WF_vars(Drain) /\ WF_vars(Mark) /\ WF_vars(RetireFailed)
    /\ WF_vars(\E d \in resend : QueueRetry(d))
    /\ WF_vars(\E e \in pending : Retransmit(e))
    /\ WF_vars(\E n \in acks : Acknowledge(n))
    /\ WF_vars(\E d \in net : Arrive(d, FALSE))
    /\ \A c \in Channels : WF_vars(Deliver(c))

FairSpec == Spec /\ Fairness

-----------------------------------------------------------------------------
Alive == ~failed /\ ~retired
Waiting == {mailbox[i] : i \in DOMAIN mailbox} \cup resend \cup marking

\* A fragment of a live session stays registered until the client has it,
\* through losses, repairs and ACKs of older copies: nothing that holds the
\* client's ordered stream is forgotten.
KeptUntilReceived ==
    Alive => \A r \in DOMAIN framed : r \in got \/ \E e \in pending : e.data.fragment = r

\* An entry that is not marked sent has its datagram on the way to the socket,
\* exactly one; one that is marked has none and so can be repaired again.  No
\* entry is stranded and no frame is queued twice.
QueuedOnce ==
    Alive => \A e \in pending :
        {d \in Waiting : d.fragment = e.data.fragment} = IF e.sent THEN {} ELSE {e.data}

\* An ACK of the datagram an entry last went out with retires the entry ("Keep
\* its sequence mapping intact so a late ACK can still retire it").
AckRetires ==
    [][\A n \in acks : Acknowledge(n) => \A e \in pending' : e.data.number # n]_vars

\* The client's application sees an ordered channel.
Promise == INSTANCE OrderedChannel WITH closed <- failed \/ retired
InOrder == Promise!Spec

\* Every message of a session that lives on reaches the client's application: no
\* gap in the order indexes, no entry that is never sent again.
EveryMessageArrives ==
    \A c \in Channels, m \in 1..MaxFragments :
        sent[c] >= m ~> Len(delivered[c]) >= m \/ failed \/ retired

=============================================================================
