----------------------------- MODULE SocialStore -----------------------------
(***************************************************************************)
(* Groups, guilds, buddies and ignore lists                                *)
(* (src/persistence/social_state.py): rosters with two indexes beside them, *)
(* invitations that live in memory only, all under one lock, and a writer  *)
(* thread that stores the newest state as one file, retires when idle and  *)
(* is started again by the next mutation.                                  *)
(*                                                                         *)
(* A mutation is one action: it runs under the lock.  Its caller then waits *)
(* in flush until written has reached its revision, or gives up.  world is *)
(* what a file holds.  Members stand in the order in which they joined.    *)
(* can_invite and the officer's rank are given to nobody but leaders by    *)
(* this code, so the leader alone admits and removes.                      *)
(***************************************************************************)
EXTENDS Integers, Sequences, FiniteSets, SequencesExt

CONSTANTS
    Characters,
    Names,          \* guild names
    None,           \* no name, no character
    Starts,         \* sequences of founders whose groups the first file may hold
    Ids,            \* bound: collections founded, an initial segment of the numbers from 1
    MemberLimit,    \* GROUP_MEMBER_LIMIT
    MaxRevisions,   \* bound: mutations that a file holds
    MaxInvitations, \* bound: pending invitations
    MaxContacts,    \* bound: buddies and ignored characters at a time
    MaxFailures,    \* bound: writes that fail
    MaxCrashes      \* bound: crashes

ASSUME SocialAssumption ==
    /\ \A s \in Starts : s \in Seq(Characters) /\ IsInjective(s) /\ DOMAIN s \subseteq Ids
    /\ Ids \subseteq Nat \ {0} /\ IsFiniteSet(Characters)
    /\ None \notin Characters \cup Names
    /\ MemberLimit \in Nat \ {0} /\ MaxRevisions \in Nat /\ MaxInvitations \in Nat /\ MaxContacts \in Nat
    /\ MaxFailures \in Nat /\ MaxCrashes \in Nat

Kinds == {"group", "guild"}

VARIABLES
    world,          \* guilds, groups, buddies, ignored, next_*_id
    belongs,        \* _group_memberships and _guild_memberships, 0 for no entry
    taken,          \* _guild_names
    invitations,    \* _invitations
    queued,         \* _queued_revision
    written,        \* _written_revision
    writer,         \* where the writer thread is, "none" without one
    snapshot,       \* what the writer is about to write
    revision,       \* and the revision it stands for
    file,           \* the file
    closed,         \* _closed
    stop,           \* _stop
    failures,
    crashes,
    fileRevision    \* ghost: revision the file holds

memory     == <<belongs, taken, invitations>>
writerVars == <<written, writer, snapshot, revision, file, failures, fileRevision>>
closeVars  == <<closed, stop>>
vars == <<world, memory, queued, writerVars, closeVars, crashes>>

World ==
    [roster: [Kinds -> [Ids -> Seq(Characters)]], leader: [Kinds -> [Ids -> Characters \cup {None}]],
     name: [Ids -> Names \cup {None}], next: [Kinds -> Nat],
     buddies: [Characters -> SUBSET Characters], ignored: [Characters -> SUBSET Characters]]

Invitation ==
    [kind: Kinds \cup {"group-request"}, source: Characters, target: Characters, id: Ids,
     leave: BOOLEAN]

\* A file that holds a group of each founder.
FileOf(s) ==
    [roster  |-> [k \in Kinds |-> [i \in Ids |-> IF k = "group" /\ i \in DOMAIN s THEN <<s[i]>> ELSE <<>>]],
     leader  |-> [k \in Kinds |-> [i \in Ids |-> IF k = "group" /\ i \in DOMAIN s THEN s[i] ELSE None]],
     name    |-> [i \in Ids |-> None],
     next    |-> [k \in Kinds |-> IF k = "group" THEN Len(s) + 1 ELSE 1],
     buddies |-> [c \in Characters |-> {}], ignored |-> [c \in Characters |-> {}]]

IndexOf(w) ==
    [k \in Kinds |-> [c \in Characters |->
        IF \E i \in Ids : c \in Range(w.roster[k][i])
        THEN CHOOSE i \in Ids : c \in Range(w.roster[k][i]) ELSE 0]]
NamesOf(w) == {w.name[i] : i \in Ids} \ {None}

TypeOK ==
    /\ world \in World /\ belongs \in [Kinds -> [Characters -> Ids \cup {0}]] /\ taken \subseteq Names
    /\ invitations \subseteq Invitation
    /\ queued \in Nat /\ written \in Nat /\ revision \in Nat /\ snapshot \in World /\ file \in World
    /\ writer \in {"none", "look", "idle", "expired", "write", "note"}
    /\ closed \in BOOLEAN /\ stop \in BOOLEAN
    /\ failures \in Nat /\ crashes \in Nat /\ fileRevision \in Nat

Init ==
    /\ file \in {FileOf(s) : s \in Starts} /\ world = file /\ snapshot = file
    /\ belongs = IndexOf(file) /\ taken = NamesOf(file) /\ invitations = {}
    /\ queued = 0 /\ written = 0 /\ revision = 0 /\ writer = "none"
    /\ closed = FALSE /\ stop = FALSE /\ failures = 0 /\ crashes = 0
    /\ fileRevision = 0

-----------------------------------------------------------------------------
(* _durable_mutation and _queue_write_locked *)

\* A thread that is there is told; one is started when there is none.
QueueWrite(n) ==
    /\ queued + n <= MaxRevisions
    /\ queued' = queued + n
    /\ writer' = IF writer \in {"none", "idle"} THEN "look" ELSE writer
    /\ UNCHANGED <<written, snapshot, revision, file, failures, fileRevision>>

Mutation == ~closed /\ UNCHANGED <<closeVars, crashes>>

Members(k, i) == Range(world.roster[k][i])
Group(c) == belongs["group"][c]
Leads(c, k, i) == i # 0 /\ world.leader[k][i] = c

Joined(w, k, i, c) == [w EXCEPT !.roster[k][i] = Append(@, c)]

\* The members but c, in their order (nobody stands in a roster twice).
Without(s, c) == IF c \in Range(s) THEN RemoveAt(s, CHOOSE p \in DOMAIN s : s[p] = c) ELSE s

\* Mutant: the leader's place is not passed on.
GoneLeaderless(w, k, i, c) ==
    [w EXCEPT !.roster[k][i] = Without(@, c)]

\* The longest-standing member inherits; the last one takes the collection along.
Gone(w, k, i, c) ==
    LET rest == Without(w.roster[k][i], c)
    IN  [w EXCEPT !.roster[k][i] = rest,
                  !.leader[k][i] = IF rest = <<>> THEN None ELSE IF @ = c THEN Head(rest) ELSE @,
                  !.name[i] = IF rest = <<>> /\ k = "guild" THEN None ELSE @]

Found(k, c, name) ==
    /\ Mutation /\ QueueWrite(1)
    /\ belongs[k][c] = 0 /\ world.next[k] \in Ids
    /\ k = "guild" => name \notin taken
    /\ world' = [Joined(world, k, world.next[k], c) EXCEPT
                   !.leader[k][world.next[k]] = c, !.next[k] = @ + 1,
                   !.name[world.next[k]] = IF k = "guild" THEN name ELSE @]
    /\ belongs' = [belongs EXCEPT ![k][c] = world.next[k]]
    /\ taken' = IF k = "guild" THEN taken \cup {name} ELSE taken
    /\ UNCHANGED invitations

IssuedBy(k, c, i) == {v \in invitations : v.kind = k /\ v.source = c /\ v.id = i}

\* Asking to join a group that is gone is void as well.
VoidWith(k, c, i) ==
    IssuedBy(k, c, i) \cup
    {v \in invitations : k = "group" /\ v.kind # "guild" /\ v.id = i /\ Gone(world, k, i, c).roster[k][i] = <<>>}

Leave(k, c) ==
    LET i == belongs[k][c]
        w == Gone(world, k, i, c)
    IN  /\ Mutation /\ QueueWrite(1)
        /\ i # 0
        /\ world' = w
        /\ belongs' = [belongs EXCEPT ![k][c] = 0]
        /\ taken' = IF k = "guild" /\ w.roster[k][i] = <<>> THEN taken \ {world.name[i]} ELSE taken
        /\ invitations' = invitations \ VoidWith(k, c, i)

\* Mutant: the index of members is not told of a removal.
KickKeepsIndex(k, actor, c) ==
    LET i == belongs[k][actor]
    IN  /\ Mutation /\ QueueWrite(1)
        /\ Leads(actor, k, i) /\ c # actor /\ c \in Members(k, i)
        /\ world' = Gone(world, k, i, c)
        /\ invitations' = invitations \ IssuedBy(k, c, i)
        /\ UNCHANGED <<belongs, taken>>

Kick(k, actor, c) ==
    LET i == belongs[k][actor]
    IN  /\ Mutation /\ QueueWrite(1)
        /\ Leads(actor, k, i) /\ c # actor /\ c \in Members(k, i)
        /\ world' = Gone(world, k, i, c)
        /\ belongs' = [belongs EXCEPT ![k][c] = 0]
        /\ invitations' = invitations \ IssuedBy(k, c, i)
        /\ UNCHANGED taken

Rename(c, name) ==
    LET i == belongs["guild"][c]
    IN  /\ Mutation /\ QueueWrite(1)
        /\ Leads(c, "guild", i) /\ name \notin taken
        /\ world' = [world EXCEPT !.name[i] = name]
        /\ taken' = (taken \ {world.name[i]}) \cup {name}
        /\ UNCHANGED <<belongs, invitations>>

-----------------------------------------------------------------------------
(* Buddies and ignored characters *)

Contacts == {q \in Characters \X Characters : q[2] \in world.buddies[q[1]] \cup world.ignored[q[1]]}
Blocked(a, b) == b \in world.ignored[a] \/ a \in world.ignored[b]

AddBuddy(c, b) ==
    /\ Mutation /\ QueueWrite(1)
    /\ Cardinality(Contacts) < MaxContacts
    /\ c # b /\ ~Blocked(c, b) /\ b \notin world.buddies[c]
    /\ world' = [world EXCEPT !.buddies[c] = @ \cup {b}]
    /\ UNCHANGED memory

RemoveBuddy(c, b) ==
    /\ Mutation /\ QueueWrite(1)
    /\ b \in world.buddies[c]
    /\ world' = [world EXCEPT !.buddies[c] = @ \ {b}]
    /\ UNCHANGED memory

\* Mutant: only what the ignoring character sent is withdrawn.
IgnoreOneWay(c, b) ==
    /\ Mutation /\ QueueWrite(1)
    /\ Cardinality(Contacts) < MaxContacts
    /\ c # b /\ b \notin world.ignored[c] \cup world.buddies[c]
    /\ world' = [world EXCEPT !.ignored[c] = @ \cup {b}]
    /\ invitations' = {v \in invitations : <<v.source, v.target>> # <<c, b>>}
    /\ UNCHANGED <<belongs, taken>>

Ignore(c, b) ==
    /\ Mutation /\ QueueWrite(1)
    /\ Cardinality(Contacts) < MaxContacts
    /\ c # b /\ b \notin world.ignored[c] \cup world.buddies[c]
    /\ world' = [world EXCEPT !.ignored[c] = @ \cup {b}]
    /\ invitations' = {v \in invitations : {v.source, v.target} # {c, b}}
    /\ UNCHANGED <<belongs, taken>>

Unignore(c, b) ==
    /\ Mutation /\ QueueWrite(1)
    /\ b \in world.ignored[c]
    /\ world' = [world EXCEPT !.ignored[c] = @ \ {b}]
    /\ UNCHANGED memory

-----------------------------------------------------------------------------
(* The ledger of invitations *)

Collection(v) == IF v.kind = "guild" THEN "guild" ELSE "group"
Admitting(v) == IF v.kind = "group-request" THEN v.target ELSE v.source
Joining(v) == IF v.kind = "group-request" THEN v.source ELSE v.target

Authorized(v) == Leads(Admitting(v), Collection(v), v.id)
Full(v) == v.kind # "guild" /\ Len(world.roster["group"][v.id]) >= MemberLimit

InMemory == UNCHANGED <<world, belongs, taken, queued, writerVars, closeVars, crashes>>

\* issue_invitation
Issue(v) ==
    /\ ~closed /\ Cardinality(invitations) < MaxInvitations
    /\ v.source # v.target /\ ~Blocked(v.source, v.target)
    /\ Authorized(v) /\ Joining(v) \notin Members(Collection(v), v.id) /\ ~Full(v)
    /\ v.leave => v.kind = "group-request"
    /\ ~\E u \in invitations : [u EXCEPT !.leave = v.leave] = v
    /\ invitations' = invitations \cup {v}
    /\ InMemory

\* An entry that has run out is dropped when the ledger is next looked at.
Expire(v) == v \in invitations /\ invitations' = invitations \ {v} /\ InMemory

\* The joining character leaves a group of its own first, or any group when its
\* request says so.
Previous(v) == IF Collection(v) = "group" /\ Group(Joining(v)) # v.id THEN Group(Joining(v)) ELSE 0
Leaves(v) ==
    /\ Previous(v) # 0
    /\ v.leave \/ Len(world.roster["group"][Previous(v)]) <= 1
Free(v) == belongs[Collection(v)][Joining(v)] = 0 \/ Leaves(v)

After(v) == IF Leaves(v) THEN Gone(world, "group", Previous(v), Joining(v)) ELSE world
Withdrawn(v) == {v} \cup IF Leaves(v) THEN VoidWith("group", Joining(v), Previous(v)) ELSE {}

\* answer_invitation: the entry is consumed first, so it admits at most once.
Decline(v) ==
    /\ ~closed /\ v \in invitations
    /\ invitations' = invitations \ {v}
    /\ InMemory

Accept(v) ==
    /\ Mutation /\ v \in invitations
    /\ ~Blocked(v.source, v.target) /\ Authorized(v) /\ Free(v) /\ ~Full(v)
    /\ QueueWrite(IF Leaves(v) THEN 2 ELSE 1)
    /\ world' = Joined(After(v), Collection(v), v.id, Joining(v))
    /\ belongs' = [belongs EXCEPT ![Collection(v)][Joining(v)] = v.id]
    /\ invitations' = invitations \ Withdrawn(v)
    /\ UNCHANGED taken

\* The group has filled up meanwhile: the old group is left, the new one is not
\* joined, and the exception passes the flush by.
AcceptIntoFull(v) ==
    /\ Mutation /\ v \in invitations
    /\ ~Blocked(v.source, v.target) /\ Authorized(v) /\ Leaves(v) /\ Full(v)
    /\ QueueWrite(1)
    /\ world' = After(v)
    /\ belongs' = [belongs EXCEPT !["group"][Joining(v)] = 0]
    /\ invitations' = invitations \ Withdrawn(v)
    /\ UNCHANGED taken

-----------------------------------------------------------------------------
(* _writer_loop *)

WriterFrame == UNCHANGED <<world, memory, queued, closeVars, crashes>>

\* written >= queued: wait for a second, or end when asked to.
Look ==
    /\ writer = "look" /\ written >= queued
    /\ writer' = IF stop THEN "none" ELSE "idle"
    /\ UNCHANGED <<written, snapshot, revision, file, failures, fileRevision>> /\ WriterFrame

\* The wait has timed out, but the thread does not hold the condition yet.
Expired ==
    /\ writer = "idle" /\ writer' = "expired"
    /\ UNCHANGED <<written, snapshot, revision, file, failures, fileRevision>> /\ WriterFrame

\* It does not look at the revisions again.
RetireIdle ==
    /\ writer = "expired" /\ writer' = "none"
    /\ UNCHANGED <<written, snapshot, revision, file, failures, fileRevision>> /\ WriterFrame

\* Under both locks, so that state and revision belong together.
Gather ==
    /\ writer = "look" /\ written < queued
    /\ writer' = "write"
    /\ snapshot' = world /\ revision' = queued
    /\ UNCHANGED <<written, file, failures, fileRevision>> /\ WriterFrame

\* The file is replaced as a whole.
Write ==
    /\ writer = "write" /\ writer' = "note"
    /\ file' = snapshot /\ fileRevision' = revision
    /\ UNCHANGED <<written, snapshot, revision, failures>> /\ WriterFrame

\* It waits a moment and tries again.
WriteFails ==
    /\ writer = "write" /\ failures < MaxFailures
    /\ failures' = failures + 1 /\ writer' = "look"
    /\ UNCHANGED <<written, snapshot, revision, file, fileRevision>> /\ WriterFrame

\* Mutant: what has been queued by now counts as written.
NoteAll ==
    /\ writer = "note" /\ writer' = "look"
    /\ written' = queued
    /\ UNCHANGED <<snapshot, revision, file, failures, fileRevision>> /\ WriterFrame

Note ==
    /\ writer = "note" /\ writer' = "look"
    /\ written' = IF revision > written THEN revision ELSE written
    /\ UNCHANGED <<snapshot, revision, file, failures, fileRevision>> /\ WriterFrame

-----------------------------------------------------------------------------
(* flush, close, and the end of the process *)

Close ==
    /\ ~closed /\ closed' = TRUE
    /\ UNCHANGED <<world, memory, queued, writerVars, stop, crashes>>

CloseDrained ==
    /\ closed /\ ~stop /\ written = queued
    /\ stop' = TRUE
    /\ writer' = IF writer = "idle" THEN "look" ELSE writer
    /\ UNCHANGED <<world, memory, queued, written, snapshot, revision, file, failures, fileRevision,
                   closed, crashes>>

\* _load: the file is all there is; the indexes are built from it.  Revisions are
\* counted on here, from that of the file.
Crash ==
    /\ crashes < MaxCrashes /\ crashes' = crashes + 1
    /\ world' = file /\ belongs' = IndexOf(file) /\ taken' = NamesOf(file) /\ invitations' = {}
    /\ queued' = fileRevision /\ written' = fileRevision
    /\ writer' = "none" /\ snapshot' = file /\ revision' = fileRevision
    /\ closed' = FALSE /\ stop' = FALSE
    /\ UNCHANGED <<file, failures, fileRevision>>

-----------------------------------------------------------------------------
Membership ==
    \E k \in Kinds, c \in Characters :
        \/ \E name \in (IF k = "guild" THEN Names ELSE {None}) : Found(k, c, name)
        \/ Leave(k, c)
        \/ \E d \in Characters : Kick(k, c, d)

Naming ==
    \E c \in Characters :
        \/ \E name \in Names : Rename(c, name)
        \/ \E b \in Characters : AddBuddy(c, b) \/ RemoveBuddy(c, b) \/ Ignore(c, b) \/ Unignore(c, b)

Ledger ==
    \/ \E v \in Invitation : Issue(v)
    \/ \E v \in invitations : Expire(v) \/ Decline(v) \/ Accept(v) \/ AcceptIntoFull(v)

WriterStep ==
    Look \/ Expired \/ RetireIdle \/ Gather \/ Write \/ WriteFails \/ Note

Next ==
    \/ Membership \/ Naming \/ Ledger \/ WriterStep
    \/ Close \/ CloseDrained \/ Crash

Spec == Init /\ [][Next]_vars

-----------------------------------------------------------------------------
\* The two indexes say what the rosters say, after every sequence of joining,
\* leaving, removal, renaming and reloading; a name that is in no use is free.
IndexesMatch ==
    /\ \A k \in Kinds, c \in Characters, i \in Ids : belongs[k][c] = i <=> c \in Members(k, i)
    /\ taken = NamesOf(world)

\* Every collection has a leader among its members, no member twice, and no group
\* is larger than the limit.
RostersSound ==
    \A k \in Kinds, i \in Ids :
        /\ world.roster[k][i] # <<>> => world.leader[k][i] \in Members(k, i)
        /\ IsInjective(world.roster[k][i])
        /\ k = "group" => Len(world.roster[k][i]) <= MemberLimit

\* An invitation is void with its reason: its sender leads the collection it is
\* for, and neither side ignores the other.  (A request to join may be left with a
\* leader who has gone; the answer is checked again.)
InvitationsAreValid ==
    \A v \in invitations :
        /\ ~Blocked(v.source, v.target)
        /\ v.kind # "group-request" => Leads(v.source, v.kind, v.id)

\* What flush answers for is in the file, whatever was mutated while the writer
\* worked: a crash takes no mutation whose caller was told that it is durable.
FlushedSurvives == written <= fileRevision

(* Not true of the code, and checked by no run: TLC refutes it, see README. *)

\* A writer retires only when there is nothing to write ("Idle stores should not
\* retain a daemon forever").
PendingHasWriter == written < queued => writer # "none"
=============================================================================
