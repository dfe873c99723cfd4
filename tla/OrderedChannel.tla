--------------------------- MODULE OrderedChannel ---------------------------
(***************************************************************************)
(* What a connection promises to either side (RakNet's reliable-ordered    *)
(* delivery): on each ordering channel the messages arrive once each and   *)
(* in the order they were sent, up to some point; a channel does not wait  *)
(* for another one.  Messages are numbered by the order of their sending.  *)
(***************************************************************************)
EXTENDS Naturals, Sequences

CONSTANT Channels

VARIABLES
    sent,       \* messages sent so far, by channel
    delivered,  \* what the application at the other end was given, in order
    closed      \* the sender has given the connection up

vars == <<sent, delivered, closed>>

Init ==
    /\ sent = [c \in Channels |-> 0]
    /\ delivered = [c \in Channels |-> <<>>]
    /\ closed = FALSE

\* The connection may break in the middle of a message.
Send(c) ==
    /\ ~closed
    /\ sent' = [sent EXCEPT ![c] = @ + 1]
    /\ closed' \in BOOLEAN
    /\ UNCHANGED delivered

NextUp(c) == Len(delivered[c]) + 1

Deliver(c) ==
    /\ NextUp(c) <= sent[c]
    /\ delivered' = [delivered EXCEPT ![c] = Append(@, NextUp(c))]
    /\ UNCHANGED <<sent, closed>>

Close ==
    /\ closed' = TRUE
    /\ UNCHANGED <<sent, delivered>>

Next == Close \/ \E c \in Channels : Send(c) \/ Deliver(c)

Spec == Init /\ [][Next]_vars
=============================================================================
