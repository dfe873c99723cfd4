-------------------------- MODULE SocialStoreProofs --------------------------
(***************************************************************************)
(* For any number of characters, names, mutations and crashes: what flush  *)
(* answers for is in the file, and when the writer has caught up the file  *)
(* is the memory; the indexes match the rosters, rosters are sound and     *)
(* invitations valid.  The second part needs that every world spoken of is *)
(* sound, that of the file included: a crash makes it the world in memory. *)
(***************************************************************************)
EXTENDS SocialStore, SequenceTheorems, TLAPS

-----------------------------------------------------------------------------
(* The file and its revisions *)

Revisions == queued \in Nat /\ written \in Nat /\ revision \in Nat /\ fileRevision \in Nat

\* A revision that is the newest stands for the present world, in the file and
\* in the writer's hands.
Numbered ==
    /\ written <= fileRevision /\ fileRevision <= queued
    /\ fileRevision = queued => file = world
    /\ writer \in {"write", "note"} =>
         written <= revision /\ revision <= queued /\ (revision = queued => snapshot = world)
    /\ writer = "note" => fileRevision = revision

SocialInv == Revisions /\ Numbered

-----------------------------------------------------------------------------
LEMMA InitNumbered == Init => SocialInv
BY DEF Init, SocialInv, Revisions, Numbered

\* A mutation makes what is in the file, and what the writer holds, an older
\* revision, whatever it changes.
LEMMA QueueKeeps ==
    ASSUME SocialInv, NEW n \in Nat \ {0}, QueueWrite(n)
    PROVE  SocialInv'
<1>1. /\ queued' = queued + n
      /\ UNCHANGED <<written, snapshot, revision, file, failures, fileRevision>>
      /\ writer' = IF writer \in {"none", "idle"} THEN "look" ELSE writer
  BY DEF QueueWrite
<1>2. Revisions'
  BY <1>1 DEF SocialInv, Revisions
<1>3. Numbered'
  BY <1>1 DEF SocialInv, Revisions, Numbered
<1> QED BY <1>2, <1>3 DEF SocialInv

LEMMA SameWriter ==
    ASSUME SocialInv, UNCHANGED <<world, queued, writerVars>>
    PROVE  SocialInv'
BY DEF SocialInv, Revisions, Numbered, writerVars

LEMMA MembershipKeeps == SocialInv /\ Membership => SocialInv'
<1> SUFFICES ASSUME SocialInv, Membership PROVE SocialInv'
  OBVIOUS
<1>1. PICK k \in Kinds, c \in Characters :
         (\E name : Found(k, c, name)) \/ Leave(k, c) \/ \E d \in Characters : Kick(k, c, d)
  BY DEF Membership
<1>2. QueueWrite(1)
  BY <1>1, Zenon DEF Found, Leave, Kick
<1> QED BY <1>2, QueueKeeps

LEMMA NamingKeeps == SocialInv /\ Naming => SocialInv'
<1> SUFFICES ASSUME SocialInv, Naming PROVE SocialInv'
  OBVIOUS
<1>1. QueueWrite(1)
  BY DEF Naming, Rename, AddBuddy, RemoveBuddy, Ignore, Unignore
<1> QED BY <1>1, QueueKeeps

LEMMA LedgerKeeps == SocialInv /\ Ledger => SocialInv'
<1> SUFFICES ASSUME SocialInv, Ledger PROVE SocialInv'
  OBVIOUS
<1>1. QueueWrite(1) \/ QueueWrite(2) \/ InMemory
  BY DEF Ledger, Issue, Expire, Decline, Accept, AcceptIntoFull
<1>2. CASE InMemory
  BY <1>2, SameWriter DEF InMemory
<1> QED BY <1>1, <1>2, QueueKeeps

LEMMA WriterKeeps == SocialInv /\ WriterStep => SocialInv'
<1> SUFFICES ASSUME SocialInv, WriterStep PROVE SocialInv'
  OBVIOUS
<1>1. Revisions /\ Numbered /\ UNCHANGED <<world, queued>>
  BY DEF SocialInv, WriterStep, Look, Expired, RetireIdle, Gather, Write, WriteFails, Note, WriterFrame
<1>2. CASE Look \/ Expired \/ RetireIdle \/ WriteFails
  BY <1>1, <1>2 DEF Look, Expired, RetireIdle, WriteFails, SocialInv, Revisions, Numbered
<1>3. CASE Gather
  BY <1>1, <1>3 DEF Gather, SocialInv, Revisions, Numbered
<1>4. CASE Write
  BY <1>1, <1>4 DEF Write, SocialInv, Revisions, Numbered
<1>5. CASE Note
  BY <1>1, <1>5 DEF Note, SocialInv, Revisions, Numbered
<1> QED BY <1>2, <1>3, <1>4, <1>5 DEF WriterStep

LEMMA EndKeeps == SocialInv /\ (Close \/ CloseDrained \/ Crash) => SocialInv'
BY DEF Close, CloseDrained, Crash, SocialInv, Revisions, Numbered, writerVars

LEMMA Invariant == Spec => []SocialInv
<1>1. SocialInv /\ [Next]_vars => SocialInv'
  <2> SUFFICES ASSUME SocialInv, [Next]_vars PROVE SocialInv'
    OBVIOUS
  <2>1. CASE UNCHANGED vars
    BY <2>1, SameWriter DEF vars
  <2> QED BY <2>1, MembershipKeeps, NamingKeeps, LedgerKeeps, WriterKeeps, EndKeeps DEF Next
<1> QED BY <1>1, InitNumbered, PTL DEF Spec

-----------------------------------------------------------------------------
\* A crash takes no mutation whose caller was told that it is durable.
THEOREM AnsweredIsDurable == Spec => []FlushedSurvives
<1>1. SocialInv => FlushedSurvives
  BY DEF SocialInv, Numbered, FlushedSurvives
<1> QED BY <1>1, Invariant, PTL

\* When written has reached the last mutation, as close() waits for, the file
\* holds the guilds, groups and contacts that are in memory, and no older ones:
\* mutations that were made while the writer wrote are not taken for written.
CaughtUp == written = queued => file = world
THEOREM CaughtUpIsCurrent == Spec => []CaughtUp
<1>1. SocialInv => CaughtUp
  BY DEF SocialInv, Revisions, Numbered, CaughtUp
<1> QED BY <1>1, Invariant, PTL

-----------------------------------------------------------------------------
(* Rosters as sequences *)

LEMMA RangeIs ==
    ASSUME NEW S, NEW s \in Seq(S)
    PROVE  Range(s) = {s[p] : p \in 1 .. Len(s)} /\ DOMAIN s = 1 .. Len(s) /\ Range(s) \subseteq S
BY DEF Range

LEMMA InjectiveIs ==
    ASSUME NEW S, NEW s \in Seq(S)
    PROVE  IsInjective(s) <=> \A p \in 1 .. Len(s), q \in 1 .. Len(s) : s[p] = s[q] => p = q
BY DEF IsInjective

\* A newcomer is added to the members, and stands in the roster once.
LEMMA AppendedRoster ==
    ASSUME NEW S, NEW s \in Seq(S), NEW c \in S, IsInjective(s), c \notin Range(s)
    PROVE  /\ Append(s, c) \in Seq(S) /\ Append(s, c) # <<>>
           /\ Len(Append(s, c)) = Len(s) + 1
           /\ Range(Append(s, c)) = Range(s) \cup {c}
           /\ IsInjective(Append(s, c))
<1> DEFINE t == Append(s, c)
<1>1. /\ t \in Seq(S) /\ t # <<>> /\ Len(t) = Len(s) + 1
      /\ \A p \in 1 .. Len(s) : t[p] = s[p]
      /\ t[Len(s) + 1] = c
  BY AppendProperties
<1>2. Len(s) \in Nat
  BY LenProperties
<1> HIDE DEF t
<1>3. \A p \in 1 .. Len(t) : p \in 1 .. Len(s) \/ p = Len(s) + 1
  BY <1>1, <1>2
<1>4. Range(t) = Range(s) \cup {c}
  <2>1. Range(t) = {t[p] : p \in 1 .. Len(t)} /\ Range(s) = {s[p] : p \in 1 .. Len(s)}
    BY <1>1, RangeIs
  <2>2. 1 .. Len(t) = (1 .. Len(s)) \cup {Len(s) + 1}
    BY <1>1, <1>2
  <2> QED BY <2>1, <2>2, <1>1
<1>5. IsInjective(t)
  <2>1. SUFFICES ASSUME NEW p \in 1 .. Len(t), NEW q \in 1 .. Len(t), t[p] = t[q] PROVE p = q
    BY <1>1, InjectiveIs
  <2>2. \A r \in 1 .. Len(s) : s[r] # c
    BY RangeIs
  <2>3. \A x \in 1 .. Len(s), y \in 1 .. Len(s) : s[x] = s[y] => x = y
    BY InjectiveIs
  <2> QED BY <2>1, <2>2, <2>3, <1>1, <1>3
<1> QED BY <1>1, <1>4, <1>5 DEF t

\* One member leaves the roster, the others stay in it.
LEMMA ShortenedRoster ==
    ASSUME NEW S, NEW s \in Seq(S), NEW c \in Range(s), IsInjective(s)
    PROVE  /\ Without(s, c) \in Seq(S)
           /\ Len(Without(s, c)) = Len(s) - 1
           /\ Range(Without(s, c)) = Range(s) \ {c}
           /\ IsInjective(Without(s, c))
<1>1. Len(s) \in Nat /\ \A p \in 1 .. Len(s) : s[p] \in S
  BY LenProperties, ElementOfSeq
<1>2. PICK p \in 1 .. Len(s) : p = CHOOSE q \in DOMAIN s : s[q] = c
  <2>1. \E q \in DOMAIN s : s[q] = c
    BY DEF Range
  <2> QED BY <2>1, RangeIs
<1>3. s[p] = c
  <2>1. \E q \in DOMAIN s : s[q] = c
    BY DEF Range
  <2> QED BY <2>1, <1>2
<1> DEFINE t == Without(s, c)
           a == SubSeq(s, 1, p - 1)
           b == SubSeq(s, p + 1, Len(s))
<1>4. t = a \o b
  BY <1>2 DEF Without, RemoveAt
<1>5. /\ a \in Seq(S) /\ Len(a) = p - 1
      /\ \A x \in 1 .. p - 1 : a[x] = s[x]
  <2>1. \A x \in 1 .. p - 1 : s[x] \in S
    BY <1>1
  <2> QED BY <2>1, <1>1, SubSeqProperties
<1>6. /\ b \in Seq(S) /\ Len(b) = Len(s) - p
      /\ \A x \in 1 .. Len(s) - p : b[x] = s[p + x]
  <2>1. \A x \in p + 1 .. Len(s) : s[x] \in S
    BY <1>1
  <2> QED BY <2>1, <1>1, SubSeqProperties
<1> HIDE DEF a, b, t
<1>7. /\ t \in Seq(S) /\ Len(t) = Len(s) - 1
      /\ \A x \in 1 .. Len(s) - 1 : t[x] = IF x < p THEN s[x] ELSE s[x + 1]
  <2>1. /\ t \in Seq(S) /\ Len(t) = Len(a) + Len(b)
        /\ \A x \in 1 .. Len(a) + Len(b) : t[x] = IF x <= Len(a) THEN a[x] ELSE b[x - Len(a)]
    BY <1>4, <1>5, <1>6, ConcatProperties
  <2>2. Len(a) + Len(b) = Len(s) - 1 /\ Len(a) = p - 1
    BY <1>1, <1>5, <1>6
  <2>3. ASSUME NEW x \in 1 .. Len(s) - 1 PROVE t[x] = IF x < p THEN s[x] ELSE s[x + 1]
    <3>1. CASE x < p
      <4>1. x \in 1 .. p - 1 /\ x <= Len(a)
        BY <3>1, <2>2, <1>1
      <4> QED BY <4>1, <3>1, <2>1, <2>2, <1>5
    <3>2. CASE ~(x < p)
      <4>1. x - Len(a) \in 1 .. Len(s) - p /\ ~(x <= Len(a)) /\ p + (x - Len(a)) = x + 1
        BY <3>2, <2>2, <1>1
      <4> QED BY <4>1, <3>2, <2>1, <2>2, <1>6
    <3> QED BY <3>1, <3>2
  <2> QED BY <2>1, <2>2, <2>3
<1>8. \A x \in 1 .. Len(s), y \in 1 .. Len(s) : s[x] = s[y] => x = y
  BY InjectiveIs
<1>9. IsInjective(t)
  <2>1. SUFFICES ASSUME NEW x \in 1 .. Len(t), NEW y \in 1 .. Len(t), t[x] = t[y] PROVE x = y
    BY <1>7, InjectiveIs
  <2>2. x \in 1 .. Len(s) /\ y \in 1 .. Len(s) /\ x + 1 \in 1 .. Len(s) /\ y + 1 \in 1 .. Len(s)
    BY <1>1, <1>7
  <2> QED BY <2>1, <2>2, <1>7, <1>8
<1>10. Range(t) = Range(s) \ {c}
  <2>1. Range(t) = {t[x] : x \in 1 .. Len(t)} /\ Range(s) = {s[x] : x \in 1 .. Len(s)}
    BY <1>7, RangeIs
  <2>2. ASSUME NEW x \in 1 .. Len(t) PROVE t[x] \in Range(s) /\ t[x] # c
    <3>1. x \in 1 .. Len(s) /\ x + 1 \in 1 .. Len(s)
      BY <1>1, <1>7
    <3> QED BY <3>1, <2>1, <1>3, <1>7, <1>8
  <2>3. ASSUME NEW x \in 1 .. Len(s), s[x] # c PROVE s[x] \in Range(t)
    <3>1. CASE x < p
      BY <3>1, <2>1, <1>1, <1>7
    <3>2. CASE x > p
      <4>1. x - 1 \in 1 .. Len(t) /\ ~(x - 1 < p) /\ (x - 1) + 1 = x
        BY <3>2, <1>1, <1>7
      <4>2. t[x - 1] = s[x]
        BY <4>1, <1>7
      <4> QED BY <4>1, <4>2, <2>1
    <3> QED BY <2>3, <3>1, <3>2, <1>1, <1>3
  <2> QED BY <2>1, <2>2, <2>3
<1> QED BY <1>7, <1>9, <1>10 DEF t

-----------------------------------------------------------------------------
(* Sound worlds *)

\* Every collection has members, of whom one leads it, or neither; nobody stands in
\* a roster twice; a group is within the limit; an id that is still to be given is
\* in no use.
Standing(w) ==
    \A k \in Kinds, i \in Ids :
        /\ IsInjective(w.roster[k][i])
        /\ w.roster[k][i] = <<>> => w.leader[k][i] = None
        /\ w.roster[k][i] # <<>> => w.leader[k][i] \in Range(w.roster[k][i])
        /\ k = "group" => Len(w.roster[k][i]) <= MemberLimit
        /\ i >= w.next[k] => w.roster[k][i] = <<>>

\* Nobody is in two collections of a kind.
OneEach(w) ==
    \A k \in Kinds, c \in Characters, i \in Ids, j \in Ids :
        c \in Range(w.roster[k][i]) /\ c \in Range(w.roster[k][j]) => i = j

\* The guilds there are have names, no two the same.
Named(w) ==
    /\ \A i \in Ids : w.roster["guild"][i] = <<>> <=> w.name[i] = None
    /\ \A i \in Ids, j \in Ids : w.name[i] = w.name[j] /\ w.name[i] # None => i = j

Sound(w) == w \in World /\ Standing(w) /\ OneEach(w) /\ Named(w)

-----------------------------------------------------------------------------
\* The parts of a world.
LEMMA WorldHas ==
    ASSUME NEW w \in World
    PROVE  /\ w.roster \in [Kinds -> [Ids -> Seq(Characters)]]
           /\ w.leader \in [Kinds -> [Ids -> Characters \cup {None}]]
           /\ w.name \in [Ids -> Names \cup {None}]
           /\ w.next \in [Kinds -> Nat]
           /\ w.buddies \in [Characters -> SUBSET Characters]
           /\ w.ignored \in [Characters -> SUBSET Characters]
BY DEF World

\* Who joins is added to the one roster, and nothing else changes.
LEMMA JoinedIs ==
    ASSUME NEW w \in World, NEW k \in Kinds, NEW i \in Ids, NEW c \in Characters
    PROVE  /\ Joined(w, k, i, c) \in World
           /\ \A l \in Kinds, j \in Ids :
                Joined(w, k, i, c).roster[l][j] =
                    IF l = k /\ j = i THEN Append(w.roster[k][i], c) ELSE w.roster[l][j]
           /\ Joined(w, k, i, c).leader = w.leader
           /\ Joined(w, k, i, c).name = w.name
           /\ Joined(w, k, i, c).next = w.next
           /\ Joined(w, k, i, c).buddies = w.buddies
           /\ Joined(w, k, i, c).ignored = w.ignored
<1>1. Append(w.roster[k][i], c) \in Seq(Characters)
  BY WorldHas, AppendProperties
<1> QED BY <1>1, WorldHas DEF Joined, World

\* Who goes is taken from the one roster; the place of a leader, and the name of a
\* guild, follow.
LEMMA GoneIs ==
    ASSUME NEW w \in World, NEW k \in Kinds, NEW i \in Ids, NEW c,
           Without(w.roster[k][i], c) \in Seq(Characters)
    PROVE  LET rest == Without(w.roster[k][i], c)
           IN  /\ Gone(w, k, i, c) \in World
               /\ \A l \in Kinds, j \in Ids :
                    Gone(w, k, i, c).roster[l][j] = IF l = k /\ j = i THEN rest ELSE w.roster[l][j]
               /\ \A l \in Kinds, j \in Ids :
                    Gone(w, k, i, c).leader[l][j] =
                        IF l = k /\ j = i
                        THEN IF rest = <<>> THEN None ELSE IF w.leader[k][i] = c THEN Head(rest) ELSE w.leader[k][i]
                        ELSE w.leader[l][j]
               /\ \A j \in Ids :
                    Gone(w, k, i, c).name[j] = IF rest = <<>> /\ k = "guild" /\ j = i THEN None ELSE w.name[j]
               /\ Gone(w, k, i, c).next = w.next
               /\ Gone(w, k, i, c).buddies = w.buddies
               /\ Gone(w, k, i, c).ignored = w.ignored
<1> DEFINE rest == Without(w.roster[k][i], c)
           first == IF rest = <<>> THEN None ELSE IF w.leader[k][i] = c THEN Head(rest) ELSE w.leader[k][i]
           name == IF rest = <<>> /\ k = "guild" THEN None ELSE w.name[i]
<1>1. first \in Characters \cup {None}
  BY WorldHas, HeadTailProperties
<1>2. name \in Names \cup {None}
  BY WorldHas
<1>3. Gone(w, k, i, c) = [w EXCEPT !.roster[k][i] = rest, !.leader[k][i] = first, !.name[i] = name]
  BY DEF Gone
<1> HIDE DEF rest, first, name
<1>4. /\ Gone(w, k, i, c) \in World
      /\ Gone(w, k, i, c).roster = [w.roster EXCEPT ![k][i] = rest]
      /\ Gone(w, k, i, c).leader = [w.leader EXCEPT ![k][i] = first]
      /\ Gone(w, k, i, c).name = [w.name EXCEPT ![i] = name]
      /\ Gone(w, k, i, c).next = w.next
      /\ Gone(w, k, i, c).buddies = w.buddies
      /\ Gone(w, k, i, c).ignored = w.ignored
  <2>1. rest \in Seq(Characters)
    BY DEF rest
  <2>2. /\ Gone(w, k, i, c).roster = [w.roster EXCEPT ![k][i] = rest]
        /\ Gone(w, k, i, c).leader = [w.leader EXCEPT ![k][i] = first]
        /\ Gone(w, k, i, c).name = [w.name EXCEPT ![i] = name]
        /\ Gone(w, k, i, c).next = w.next
        /\ Gone(w, k, i, c).buddies = w.buddies
        /\ Gone(w, k, i, c).ignored = w.ignored
        /\ Gone(w, k, i, c) = [roster |-> Gone(w, k, i, c).roster, leader |-> Gone(w, k, i, c).leader,
                               name |-> Gone(w, k, i, c).name, next |-> Gone(w, k, i, c).next,
                               buddies |-> Gone(w, k, i, c).buddies, ignored |-> Gone(w, k, i, c).ignored]
    BY <1>3 DEF World
  <2>3. /\ [w.roster EXCEPT ![k][i] = rest] \in [Kinds -> [Ids -> Seq(Characters)]]
        /\ [w.leader EXCEPT ![k][i] = first] \in [Kinds -> [Ids -> Characters \cup {None}]]
        /\ [w.name EXCEPT ![i] = name] \in [Ids -> Names \cup {None}]
    BY <2>1, <1>1, <1>2, WorldHas
  <2>4. Gone(w, k, i, c) \in World
    BY <2>2, <2>3, WorldHas DEF World
  <2> QED BY <2>2, <2>4
<1>5. /\ \A l \in Kinds, j \in Ids : Gone(w, k, i, c).roster[l][j] = IF l = k /\ j = i THEN rest ELSE w.roster[l][j]
      /\ \A l \in Kinds, j \in Ids : Gone(w, k, i, c).leader[l][j] = IF l = k /\ j = i THEN first ELSE w.leader[l][j]
      /\ \A j \in Ids : Gone(w, k, i, c).name[j] = IF j = i THEN name ELSE w.name[j]
  BY <1>4, WorldHas
<1> QED BY <1>4, <1>5 DEF rest, first, name

\* A world stays sound when a member who is in no collection of the kind joins one
\* that is there and is not full.
LEMMA JoinKeepsSound ==
    ASSUME NEW w, Sound(w), NEW k \in Kinds, NEW i \in Ids, NEW c \in Characters,
           w.roster[k][i] # <<>>,
           \A j \in Ids : c \notin Range(w.roster[k][j]),
           k = "group" => Len(w.roster[k][i]) < MemberLimit
    PROVE  Sound(Joined(w, k, i, c))
<1> DEFINE u == Joined(w, k, i, c)
<1>1. w \in World /\ Standing(w) /\ OneEach(w) /\ Named(w)
  BY DEF Sound
<1>2. /\ u \in World
      /\ \A l \in Kinds, j \in Ids :
           u.roster[l][j] = IF l = k /\ j = i THEN Append(w.roster[k][i], c) ELSE w.roster[l][j]
      /\ u.leader = w.leader /\ u.name = w.name /\ u.next = w.next
  BY <1>1, JoinedIs
<1> HIDE DEF u
<1>3. /\ w.roster[k][i] \in Seq(Characters) /\ Len(w.roster[k][i]) \in Nat
      /\ IsInjective(w.roster[k][i])
  BY <1>1, WorldHas, LenProperties DEF Standing
<1>4. /\ Append(w.roster[k][i], c) # <<>>
      /\ Len(Append(w.roster[k][i], c)) = Len(w.roster[k][i]) + 1
      /\ Range(Append(w.roster[k][i], c)) = Range(w.roster[k][i]) \cup {c}
      /\ IsInjective(Append(w.roster[k][i], c))
  BY <1>3, AppendedRoster
<1>5. Standing(u)
  <2> SUFFICES ASSUME NEW l \in Kinds, NEW j \in Ids
               PROVE  /\ IsInjective(u.roster[l][j])
                      /\ u.roster[l][j] = <<>> => u.leader[l][j] = None
                      /\ u.roster[l][j] # <<>> => u.leader[l][j] \in Range(u.roster[l][j])
                      /\ l = "group" => Len(u.roster[l][j]) <= MemberLimit
                      /\ j >= u.next[l] => u.roster[l][j] = <<>>
    BY DEF Standing
  <2>1. CASE l = k /\ j = i
    <3>1. /\ u.roster[l][j] = Append(w.roster[k][i], c) /\ u.leader[l][j] = w.leader[k][i]
          /\ u.next[l] = w.next[k]
      BY <2>1, <1>2
    <3>2. /\ w.leader[k][i] \in Range(w.roster[k][i])
          /\ ~(i >= w.next[k])
      BY <1>1 DEF Standing
    <3>3. k = "group" => Len(w.roster[k][i]) + 1 <= MemberLimit
      BY <1>3, SocialAssumption
    <3> QED BY <2>1, <3>1, <3>2, <3>3, <1>4
  <2>2. CASE ~(l = k /\ j = i)
    BY <2>2, <1>1, <1>2 DEF Standing
  <2> QED BY <2>1, <2>2
<1>6. OneEach(u)
  BY <1>1, <1>2, <1>4 DEF OneEach
<1>7. Named(u)
  <2>1. ASSUME NEW j \in Ids PROVE u.roster["guild"][j] = <<>> <=> u.name[j] = None
    <3>1. "guild" \in Kinds
      BY DEF Kinds
    <3>2. u.roster["guild"][j] = <<>> <=> w.roster["guild"][j] = <<>>
      BY <3>1, <1>2, <1>4
    <3> QED BY <3>2, <1>1, <1>2 DEF Named
  <2> QED BY <2>1, <1>1, <1>2 DEF Named
<1> QED BY <1>2, <1>5, <1>6, <1>7 DEF Sound, u

\* A world stays sound when a member goes.
LEMMA GoneKeepsSound ==
    ASSUME NEW w, Sound(w), NEW k \in Kinds, NEW i \in Ids, NEW c \in Range(w.roster[k][i])
    PROVE  Sound(Gone(w, k, i, c))
<1> DEFINE u == Gone(w, k, i, c)
           rest == Without(w.roster[k][i], c)
<1>1. w \in World /\ Standing(w) /\ OneEach(w) /\ Named(w)
  BY DEF Sound
<1>2. w.roster[k][i] \in Seq(Characters) /\ Len(w.roster[k][i]) \in Nat /\ IsInjective(w.roster[k][i])
  BY <1>1, WorldHas, LenProperties DEF Standing
<1>3. /\ rest \in Seq(Characters) /\ Len(rest) = Len(w.roster[k][i]) - 1
      /\ Range(rest) = Range(w.roster[k][i]) \ {c} /\ IsInjective(rest)
  BY <1>2, ShortenedRoster
<1>4. /\ u \in World
      /\ \A l \in Kinds, j \in Ids : u.roster[l][j] = IF l = k /\ j = i THEN rest ELSE w.roster[l][j]
      /\ \A l \in Kinds, j \in Ids :
           u.leader[l][j] = IF l = k /\ j = i
                            THEN IF rest = <<>> THEN None ELSE IF w.leader[k][i] = c THEN Head(rest) ELSE w.leader[k][i]
                            ELSE w.leader[l][j]
      /\ \A j \in Ids : u.name[j] = IF rest = <<>> /\ k = "guild" /\ j = i THEN None ELSE w.name[j]
      /\ u.next = w.next
  BY <1>1, <1>3, GoneIs
<1>5. rest # <<>> => Head(rest) \in Range(rest)
  <2>1. rest # <<>> => 1 \in 1 .. Len(rest) /\ Head(rest) = rest[1]
    BY <1>3, LenProperties
  <2> QED BY <2>1, <1>3, RangeIs
<1>6. w.roster[k][i] # <<>>
  BY <1>2, RangeIs
<1> HIDE DEF u, rest
<1>7. Standing(u)
  <2> SUFFICES ASSUME NEW l \in Kinds, NEW j \in Ids
               PROVE  /\ IsInjective(u.roster[l][j])
                      /\ u.roster[l][j] = <<>> => u.leader[l][j] = None
                      /\ u.roster[l][j] # <<>> => u.leader[l][j] \in Range(u.roster[l][j])
                      /\ l = "group" => Len(u.roster[l][j]) <= MemberLimit
                      /\ j >= u.next[l] => u.roster[l][j] = <<>>
    BY DEF Standing
  <2>1. CASE l = k /\ j = i
    BY <2>1, <1>1, <1>2, <1>3, <1>4, <1>5, <1>6, SocialAssumption DEF Standing
  <2>2. CASE ~(l = k /\ j = i)
    BY <2>2, <1>1, <1>4 DEF Standing
  <2> QED BY <2>1, <2>2
<1>8. OneEach(u)
  BY <1>1, <1>3, <1>4 DEF OneEach
<1>9. Named(u)
  <2>1. ASSUME NEW j \in Ids PROVE u.roster["guild"][j] = <<>> <=> u.name[j] = None
    BY <1>1, <1>4, <1>6 DEF Named, Kinds
  <2> QED BY <2>1, <1>1, <1>4 DEF Named
<1> QED BY <1>4, <1>7, <1>8, <1>9 DEF Sound, u

-----------------------------------------------------------------------------
(* The indexes of a world, and its leaders *)

\* belongs as an index of the rosters.
Index == [Kinds -> [Characters -> Ids \cup {0}]]
Indexed(w, b) == \A k \in Kinds, c \in Characters, i \in Ids : b[k][c] = i <=> c \in Range(w.roster[k][i])

\* No entry in the index, no place in a roster.
LEMMA UnindexedIsOut ==
    ASSUME NEW w, NEW b, Indexed(w, b), NEW k \in Kinds, NEW c \in Characters, b[k][c] = 0
    PROVE  \A j \in Ids : c \notin Range(w.roster[k][j])
<1>1. 0 \notin Ids
  BY SocialAssumption
<1>2. \A j \in Ids : b[k][c] = j <=> c \in Range(w.roster[k][j])
  BY DEF Indexed
<1> QED BY <1>1, <1>2

LEMMA IndexedJoined ==
    ASSUME NEW w, Sound(w), NEW b \in Index, Indexed(w, b),
           NEW k \in Kinds, NEW i \in Ids, NEW c \in Characters, b[k][c] = 0
    PROVE  Indexed(Joined(w, k, i, c), [b EXCEPT ![k][c] = i])
<1> DEFINE u == Joined(w, k, i, c)
           d == [b EXCEPT ![k][c] = i]
<1>1. w \in World /\ w.roster[k][i] \in Seq(Characters) /\ IsInjective(w.roster[k][i])
  BY WorldHas DEF Sound, Standing
<1>2. \A j \in Ids : c \notin Range(w.roster[k][j])
  BY UnindexedIsOut
<1>3. Range(Append(w.roster[k][i], c)) = Range(w.roster[k][i]) \cup {c}
  BY <1>1, <1>2, AppendedRoster
<1>4. \A l \in Kinds, j \in Ids : u.roster[l][j] = IF l = k /\ j = i THEN Append(w.roster[k][i], c) ELSE w.roster[l][j]
  BY <1>1, JoinedIs
<1>5. \A l \in Kinds, e \in Characters : d[l][e] = IF l = k /\ e = c THEN i ELSE b[l][e]
  BY DEF Index
<1> HIDE DEF u, d
<1>6. ASSUME NEW l \in Kinds, NEW e \in Characters, NEW j \in Ids
      PROVE  d[l][e] = j <=> e \in Range(u.roster[l][j])
  <2>1. CASE l = k /\ e = c
    BY <2>1, <1>2, <1>3, <1>4, <1>5
  <2>2. CASE ~(l = k /\ e = c)
    <3>1. d[l][e] = j <=> e \in Range(w.roster[l][j])
      BY <2>2, <1>5 DEF Indexed
    <3> QED BY <3>1, <2>2, <1>3, <1>4
  <2> QED BY <2>1, <2>2
<1> QED BY <1>6 DEF Indexed, u, d

LEMMA IndexedGone ==
    ASSUME NEW w, Sound(w), NEW b \in Index, Indexed(w, b),
           NEW k \in Kinds, NEW i \in Ids, NEW c \in Characters, b[k][c] = i
    PROVE  Indexed(Gone(w, k, i, c), [b EXCEPT ![k][c] = 0])
<1> DEFINE u == Gone(w, k, i, c)
           d == [b EXCEPT ![k][c] = 0]
           rest == Without(w.roster[k][i], c)
<1>1. /\ w \in World /\ w.roster[k][i] \in Seq(Characters) /\ IsInjective(w.roster[k][i])
      /\ c \in Range(w.roster[k][i])
  BY WorldHas DEF Sound, Standing, Indexed
<1>2. rest \in Seq(Characters) /\ Range(rest) = Range(w.roster[k][i]) \ {c}
  BY <1>1, ShortenedRoster
<1>3. \A l \in Kinds, j \in Ids : u.roster[l][j] = IF l = k /\ j = i THEN rest ELSE w.roster[l][j]
  BY <1>1, <1>2, GoneIs
<1>4. \A l \in Kinds, e \in Characters : d[l][e] = IF l = k /\ e = c THEN 0 ELSE b[l][e]
  BY DEF Index
<1> HIDE DEF u, d, rest
<1>5. ASSUME NEW l \in Kinds, NEW e \in Characters, NEW j \in Ids
      PROVE  d[l][e] = j <=> e \in Range(u.roster[l][j])
  <2>1. CASE l = k /\ e = c
    <3>1. d[l][e] # j
      BY <2>1, <1>4, SocialAssumption
    <3>2. e \notin Range(u.roster[l][j])
      BY <2>1, <1>2, <1>3 DEF Indexed
    <3> QED BY <3>1, <3>2
  <2>2. CASE ~(l = k /\ e = c)
    <3>1. d[l][e] = j <=> e \in Range(w.roster[l][j])
      BY <2>2, <1>4 DEF Indexed
    <3> QED BY <3>1, <2>2, <1>2, <1>3
  <2> QED BY <2>1, <2>2
<1> QED BY <1>5 DEF Indexed, u, d

\* What _load builds from a sound file is an index of it.
LEMMA IndexOfIsIndex ==
    ASSUME NEW w, Sound(w)
    PROVE  IndexOf(w) \in Index /\ Indexed(w, IndexOf(w)) /\ NamesOf(w) \subseteq Names
<1>1. ASSUME NEW k \in Kinds, NEW c \in Characters
      PROVE  /\ IndexOf(w)[k][c] \in Ids \cup {0}
             /\ \A i \in Ids : IndexOf(w)[k][c] = i <=> c \in Range(w.roster[k][i])
  <2>1. CASE \E i \in Ids : c \in Range(w.roster[k][i])
    <3>1. PICK i \in Ids : c \in Range(w.roster[k][i])
      BY <2>1
    <3>2. \A j \in Ids : c \in Range(w.roster[k][j]) <=> j = i
      BY <3>1 DEF Sound, OneEach
    <3>3. (CHOOSE j \in Ids : c \in Range(w.roster[k][j])) = i
      BY <3>2
    <3>4. IndexOf(w)[k][c] = i
      BY <2>1, <3>3 DEF IndexOf
    <3> QED BY <3>2, <3>4
  <2>2. CASE ~\E i \in Ids : c \in Range(w.roster[k][i])
    <3>1. IndexOf(w)[k][c] = 0
      BY <2>2 DEF IndexOf
    <3> QED BY <3>1, <2>2, SocialAssumption
  <2> QED BY <2>1, <2>2
<1>2. IndexOf(w) \in Index
  <2>1. \A k \in Kinds : IndexOf(w)[k] = [c \in Characters |-> IndexOf(w)[k][c]]
    BY DEF IndexOf
  <2>2. IndexOf(w) = [k \in Kinds |-> IndexOf(w)[k]]
    BY DEF IndexOf
  <2>3. \A k \in Kinds : IndexOf(w)[k] \in [Characters -> Ids \cup {0}]
    BY <1>1, <2>1
  <2> QED BY <2>2, <2>3 DEF Index
<1>3. Indexed(w, IndexOf(w))
  BY <1>1 DEF Indexed
<1>4. NamesOf(w) \subseteq Names
  BY WorldHas DEF NamesOf, Sound
<1> QED BY <1>2, <1>3, <1>4

\* Only the place of the one who goes is given to another.
LEMMA LeadersStay ==
    ASSUME NEW w, Sound(w), NEW k \in Kinds, NEW i \in Ids, NEW c \in Range(w.roster[k][i]),
           NEW l \in Kinds, NEW j \in Ids, NEW d \in Characters, w.leader[l][j] = d,
           <<l, j, d>> # <<k, i, c>>
    PROVE  Gone(w, k, i, c).leader[l][j] = d
<1> DEFINE rest == Without(w.roster[k][i], c)
<1>1. /\ w \in World /\ w.roster[k][i] \in Seq(Characters) /\ IsInjective(w.roster[k][i])
      /\ w.roster[k][i] # <<>> => w.leader[k][i] \in Range(w.roster[k][i])
      /\ w.roster[k][i] = <<>> => w.leader[k][i] = None
  BY WorldHas DEF Sound, Standing
<1>2. rest \in Seq(Characters) /\ Range(rest) = Range(w.roster[k][i]) \ {c}
  BY <1>1, ShortenedRoster
<1>3. \A m \in Kinds, n \in Ids :
        Gone(w, k, i, c).leader[m][n] = IF m = k /\ n = i
                         THEN IF rest = <<>> THEN None ELSE IF w.leader[k][i] = c THEN Head(rest) ELSE w.leader[k][i]
                         ELSE w.leader[m][n]
  BY <1>1, <1>2, GoneIs
<1> HIDE DEF rest
<1>4. CASE l = k /\ j = i
  <2>1. d # c /\ d \in Range(rest)
    BY <1>1, <1>2, <1>4, SocialAssumption
  <2>2. rest # <<>>
    BY <2>1, <1>2, RangeIs
  <2> QED BY <1>3, <1>4, <2>1, <2>2
<1>5. CASE ~(l = k /\ j = i)
  BY <1>3, <1>5
<1> QED BY <1>4, <1>5

\* The name of a guild is given back with its last member.
LEMMA GoneNames ==
    ASSUME NEW w, Sound(w), NEW k \in Kinds, NEW i \in Ids, NEW c \in Range(w.roster[k][i])
    PROVE  NamesOf(Gone(w, k, i, c)) =
               IF k = "guild" /\ Gone(w, k, i, c).roster[k][i] = <<>> THEN NamesOf(w) \ {w.name[i]} ELSE NamesOf(w)
<1> DEFINE u == Gone(w, k, i, c)
           rest == Without(w.roster[k][i], c)
<1>1. w \in World /\ w.roster[k][i] \in Seq(Characters) /\ IsInjective(w.roster[k][i])
  BY WorldHas DEF Sound, Standing
<1>2. rest \in Seq(Characters)
  BY <1>1, ShortenedRoster
<1>3. /\ u.roster[k][i] = rest
      /\ \A j \in Ids : u.name[j] = IF rest = <<>> /\ k = "guild" /\ j = i THEN None ELSE w.name[j]
  BY <1>1, <1>2, GoneIs
<1>4. \A j \in Ids : w.name[j] = w.name[i] /\ w.name[j] # None => j = i
  BY DEF Sound, Named
<1> HIDE DEF u, rest
<1>5. CASE k = "guild" /\ rest = <<>>
  BY <1>3, <1>4, <1>5 DEF NamesOf, u
<1>6. CASE ~(k = "guild" /\ rest = <<>>)
  BY <1>3, <1>6 DEF NamesOf, u
<1> QED BY <1>3, <1>5, <1>6 DEF u

LEMMA JoinedNames ==
    ASSUME NEW w \in World, NEW k \in Kinds, NEW i \in Ids, NEW c \in Characters
    PROVE  NamesOf(Joined(w, k, i, c)) = NamesOf(w)
BY JoinedIs DEF NamesOf

LEMMA FileIsSound ==
    ASSUME NEW s \in Starts, NEW w, w = FileOf(s)
    PROVE  Sound(w)
<1>1. s \in Seq(Characters) /\ IsInjective(s) /\ DOMAIN s \subseteq Ids /\ DOMAIN s = 1 .. Len(s) /\ Len(s) \in Nat
  BY SocialAssumption, LenProperties
<1>2. \A i \in DOMAIN s : s[i] \in Characters /\ <<s[i]>> \in Seq(Characters)
  BY <1>1, ElementOfSeq
<1>3. <<>> \in Seq(Characters)
  BY EmptySeq
<1>4. /\ w.roster = [k \in Kinds |-> [i \in Ids |-> IF k = "group" /\ i \in DOMAIN s THEN <<s[i]>> ELSE <<>>]]
      /\ w.leader = [k \in Kinds |-> [i \in Ids |-> IF k = "group" /\ i \in DOMAIN s THEN s[i] ELSE None]]
      /\ w.name = [i \in Ids |-> None]
      /\ w.next = [k \in Kinds |-> IF k = "group" THEN Len(s) + 1 ELSE 1]
      /\ w.buddies = [c \in Characters |-> {}] /\ w.ignored = [c \in Characters |-> {}]
  BY DEF FileOf
<1>5. w \in World
  <2>1. /\ w.roster \in [Kinds -> [Ids -> Seq(Characters)]]
        /\ w.leader \in [Kinds -> [Ids -> Characters \cup {None}]]
        /\ w.name \in [Ids -> Names \cup {None}] /\ w.next \in [Kinds -> Nat]
        /\ w.buddies \in [Characters -> SUBSET Characters] /\ w.ignored \in [Characters -> SUBSET Characters]
    BY <1>1, <1>2, <1>3, <1>4
  <2>2. w = [roster |-> w.roster, leader |-> w.leader, name |-> w.name, next |-> w.next,
             buddies |-> w.buddies, ignored |-> w.ignored]
    BY DEF FileOf
  <2> QED BY <2>1, <2>2 DEF World
<1>6. /\ \A x : IsInjective(<<x>>) /\ Range(<<x>>) = {x} /\ Len(<<x>>) = 1 /\ <<x>> # <<>>
      /\ IsInjective(<<>>) /\ Range(<<>>) = {} /\ Len(<<>>) = 0
  BY DEF IsInjective, Range
<1>7. Standing(w)
  <2>1. ASSUME NEW k \in Kinds, NEW i \in Ids
        PROVE  /\ IsInjective(w.roster[k][i])
               /\ w.roster[k][i] = <<>> => w.leader[k][i] = None
               /\ w.roster[k][i] # <<>> => w.leader[k][i] \in Range(w.roster[k][i])
               /\ Len(w.roster[k][i]) <= MemberLimit
               /\ i >= w.next[k] => w.roster[k][i] = <<>>
    <3>1. CASE k = "group" /\ i \in DOMAIN s
      BY <3>1, <1>1, <1>4, <1>6, SocialAssumption
    <3>2. CASE ~(k = "group" /\ i \in DOMAIN s)
      BY <3>2, <1>4, <1>6, SocialAssumption
    <3> QED BY <3>1, <3>2
  <2> QED BY <2>1 DEF Standing
<1>8. OneEach(w)
  <2>1. \A k \in Kinds, i \in Ids, c \in Characters :
          c \in Range(w.roster[k][i]) => i \in DOMAIN s /\ s[i] = c
    BY <1>4, <1>6
  <2> QED BY <2>1, <1>1 DEF OneEach, IsInjective
<1>9. Named(w)
  BY <1>4 DEF Named, Kinds
<1> QED BY <1>5, <1>7, <1>8, <1>9 DEF Sound

-----------------------------------------------------------------------------
(* Mutations *)

\* What memory, the writer's hands and the file hold is sound, and memory's indexes
\* and invitations are those of its world.
AllSound == Sound(world) /\ Sound(snapshot) /\ Sound(file)
MembersInv == TypeOK /\ AllSound /\ IndexesMatch /\ InvitationsAreValid

LEMMA MatchIsIndexed == IndexesMatch <=> Indexed(world, belongs) /\ taken = NamesOf(world)
BY DEF IndexesMatch, Indexed, Members

\* What the writer and the file hold is left to it by a mutation.
LEMMA MutationKeeps ==
    ASSUME MembersInv, NEW n \in Nat, Mutation, QueueWrite(n),
           Sound(world'), Indexed(world', belongs'), taken' = NamesOf(world'),
           belongs' \in Index, taken' \subseteq Names, invitations' \subseteq Invitation,
           InvitationsAreValid'
    PROVE  MembersInv'
<1>1. TypeOK'
  BY DEF TypeOK, MembersInv, Mutation, QueueWrite, closeVars, Sound, Index
<1>2. AllSound'
  BY DEF AllSound, MembersInv, Sound, QueueWrite, Standing, OneEach, Named
<1>3. IndexesMatch'
  BY DEF IndexesMatch, Indexed, Members, NamesOf
<1> QED BY <1>1, <1>2, <1>3 DEF MembersInv

LEMMA MembersHas ==
    ASSUME MembersInv
    PROVE  /\ Sound(world) /\ world \in World /\ belongs \in Index /\ Indexed(world, belongs)
           /\ taken = NamesOf(world) /\ taken \subseteq Names /\ invitations \subseteq Invitation
           /\ InvitationsAreValid
BY MatchIsIndexed DEF MembersInv, AllSound, TypeOK, Index

\* Invitations stay valid when those that are left keep their leaders and nobody is
\* ignored.
LEMMA StillValid ==
    ASSUME InvitationsAreValid, invitations' \subseteq invitations, world'.ignored = world.ignored,
           \A v \in invitations' : v.kind # "group-request" => Leads(v.source, v.kind, v.id)'
    PROVE  InvitationsAreValid'
BY DEF InvitationsAreValid, Blocked

LEMMA FoundKeeps ==
    ASSUME MembersInv, NEW k \in Kinds, NEW c \in Characters,
           NEW name \in (IF k = "guild" THEN Names ELSE {None}), Found(k, c, name)
    PROVE  MembersInv'
<1> DEFINE n == world.next[k]
           u == Joined(world, k, n, c)
           s == <<c>>
<1>1. /\ Sound(world) /\ world \in World /\ belongs \in Index /\ Indexed(world, belongs)
      /\ taken = NamesOf(world) /\ taken \subseteq Names /\ invitations \subseteq Invitation
      /\ InvitationsAreValid
  BY MembersHas
<1>2. /\ belongs[k][c] = 0 /\ n \in Ids /\ (k = "guild" => name \notin taken)
      /\ world' = [u EXCEPT !.leader[k][n] = c, !.next[k] = @ + 1,
                            !.name[n] = IF k = "guild" THEN name ELSE @]
      /\ belongs' = [belongs EXCEPT ![k][c] = n]
      /\ taken' = IF k = "guild" THEN taken \cup {name} ELSE taken
      /\ invitations' = invitations
      /\ Mutation /\ QueueWrite(1)
  BY DEF Found
<1>3. Standing(world) /\ OneEach(world) /\ Named(world)
  BY <1>1 DEF Sound
<1>4. world.roster[k][n] = <<>> /\ world.leader[k][n] = None /\ n \in Nat
  BY <1>1, <1>2, <1>3, SocialAssumption, WorldHas DEF Standing
<1>5. /\ s \in Seq(Characters) /\ s # <<>> /\ Len(s) = 1 /\ Range(s) = {c} /\ IsInjective(s)
  BY DEF IsInjective, Range
<1>6. /\ u \in World
      /\ \A l \in Kinds, j \in Ids : u.roster[l][j] = IF l = k /\ j = n THEN s ELSE world.roster[l][j]
      /\ u.leader = world.leader /\ u.name = world.name /\ u.next = world.next
      /\ u.buddies = world.buddies /\ u.ignored = world.ignored
  <2>1. Append(world.roster[k][n], c) = s
    BY <1>4
  <2> HIDE DEF s
  <2>2. n \in Ids
    BY <1>2
  <2> HIDE DEF n
  <2>3. /\ u \in World
        /\ \A l \in Kinds, j \in Ids :
             u.roster[l][j] = IF l = k /\ j = n THEN Append(world.roster[k][n], c) ELSE world.roster[l][j]
        /\ u.leader = world.leader /\ u.name = world.name /\ u.next = world.next
        /\ u.buddies = world.buddies /\ u.ignored = world.ignored
    BY <2>2, <1>1, JoinedIs
  <2> HIDE DEF u
  <2> QED BY <2>1, <2>3
<1>7. Indexed(u, belongs')
  BY <1>1, <1>2, IndexedJoined
<1>8. belongs' \in Index
  BY <1>1, <1>2 DEF Index
<1> HIDE DEF u, n, s
<1>9. /\ world' \in World
      /\ world'.roster = u.roster
      /\ world'.leader = [u.leader EXCEPT ![k][n] = c]
      /\ world'.next = [u.next EXCEPT ![k] = @ + 1]
      /\ world'.name = [u.name EXCEPT ![n] = IF k = "guild" THEN name ELSE @]
      /\ world'.ignored = u.ignored
  <2>1. /\ [u.leader EXCEPT ![k][n] = c] \in [Kinds -> [Ids -> Characters \cup {None}]]
        /\ [u.next EXCEPT ![k] = @ + 1] \in [Kinds -> Nat]
        /\ [u.name EXCEPT ![n] = IF k = "guild" THEN name ELSE @] \in [Ids -> Names \cup {None}]
    BY <1>2, <1>6, WorldHas
  <2>2. world' = [u EXCEPT !.leader = [u.leader EXCEPT ![k][n] = c], !.next = [u.next EXCEPT ![k] = @ + 1],
                           !.name = [u.name EXCEPT ![n] = IF k = "guild" THEN name ELSE @]]
    BY <1>2
  <2> HIDE <1>2
  <2> QED BY <2>1, <2>2, <1>6, WorldHas DEF World
<1>10. /\ \A l \in Kinds, j \in Ids : world'.roster[l][j] = IF l = k /\ j = n THEN s ELSE world.roster[l][j]
       /\ \A l \in Kinds, j \in Ids : world'.leader[l][j] = IF l = k /\ j = n THEN c ELSE world.leader[l][j]
       /\ \A l \in Kinds : world'.next[l] = IF l = k THEN n + 1 ELSE world.next[l]
       /\ \A j \in Ids : world'.name[j] = IF j = n /\ k = "guild" THEN name ELSE world.name[j]
  BY <1>1, <1>2, <1>6, <1>9, WorldHas DEF n
<1>11. Standing(world')
  <2> SUFFICES ASSUME NEW l \in Kinds, NEW j \in Ids
               PROVE  /\ IsInjective(world'.roster[l][j])
                      /\ world'.roster[l][j] = <<>> => world'.leader[l][j] = None
                      /\ world'.roster[l][j] # <<>> => world'.leader[l][j] \in Range(world'.roster[l][j])
                      /\ l = "group" => Len(world'.roster[l][j]) <= MemberLimit
                      /\ j >= world'.next[l] => world'.roster[l][j] = <<>>
    BY DEF Standing
  <2>1. CASE l = k /\ j = n
    <3>1. /\ world'.roster[l][j] = s /\ world'.leader[l][j] = c /\ world'.next[l] = n + 1
      BY <2>1, <1>10
    <3>2. ~(j >= world'.next[l])
      BY <2>1, <3>1, <1>4
    <3> QED BY <3>1, <3>2, <1>5, SocialAssumption
  <2>2. CASE ~(l = k /\ j = n)
    <3>1. /\ world'.roster[l][j] = world.roster[l][j] /\ world'.leader[l][j] = world.leader[l][j]
          /\ j >= world'.next[l] => j >= world.next[l]
      BY <2>2, <1>1, <1>4, <1>10, SocialAssumption, WorldHas DEF n
    <3> QED BY <3>1, <1>3 DEF Standing
  <2> QED BY <2>1, <2>2
<1>12. OneEach(world')
  <2>1. \A j \in Ids : c \notin Range(world.roster[k][j])
    BY <1>1, <1>2, UnindexedIsOut
  <2> QED BY <2>1, <1>3, <1>5, <1>10 DEF OneEach
<1>13. Named(world')
  <2>1. "guild" \in Kinds /\ name \in Names \cup {None} /\ (k = "guild" => name # None)
    BY SocialAssumption DEF Kinds
  <2>2. k = "guild" => \A j \in Ids : world.name[j] # name
    BY <2>1, <1>1, <1>2 DEF NamesOf
  <2>3. ASSUME NEW j \in Ids PROVE world'.roster["guild"][j] = <<>> <=> world'.name[j] = None
    BY <2>1, <1>3, <1>5, <1>10 DEF Named
  <2>4. ASSUME NEW i \in Ids, NEW j \in Ids, world'.name[i] = world'.name[j], world'.name[i] # None PROVE i = j
    BY <2>2, <2>4, <1>3, <1>10 DEF Named
  <2> QED BY <2>3, <2>4 DEF Named
<1>14. Sound(world')
  BY <1>9, <1>11, <1>12, <1>13 DEF Sound
<1>15. taken' = NamesOf(world') /\ taken' \subseteq Names
  <2>1. CASE k = "guild"
    <3>1. name \in Names /\ name # None /\ world.name[n] = None
      BY <2>1, <1>2, <1>3, <1>4, SocialAssumption DEF Named
    <3>2. {world'.name[j] : j \in Ids} \ {None} = ({world.name[j] : j \in Ids} \ {None}) \cup {name}
      BY <2>1, <3>1, <1>2, <1>10
    <3> QED BY <2>1, <3>1, <3>2, <1>1, <1>2 DEF NamesOf
  <2>2. CASE k # "guild"
    BY <2>2, <1>1, <1>2, <1>10 DEF NamesOf
  <2> QED BY <2>1, <2>2
<1>16. InvitationsAreValid'
  <2>1. ASSUME NEW v \in invitations, v.kind # "group-request" PROVE Leads(v.source, v.kind, v.id)'
    <3>1. v.kind \in Kinds /\ v.id \in Ids /\ v.source \in Characters
      BY <2>1, <1>1 DEF Invitation
    <3>2. v.id # 0 /\ world.leader[v.kind][v.id] = v.source
      BY <2>1, <1>1 DEF InvitationsAreValid, Leads
    <3>3. ~(v.kind = k /\ v.id = n)
      BY <3>1, <3>2, <1>4, SocialAssumption
    <3> QED BY <3>1, <3>2, <3>3, <1>10 DEF Leads
  <2> QED BY <2>1, <1>1, <1>2, <1>6, <1>9, StillValid
<1>17. Indexed(world', belongs')
  BY <1>7, <1>9 DEF Indexed
<1> QED BY <1>1, <1>2, <1>8, <1>14, <1>15, <1>16, <1>17, MutationKeeps

\* What a member's going does to the world, the index of members and what the
\* leaders have issued.
LEMMA Departure ==
    ASSUME MembersInv, NEW k \in Kinds, NEW i \in Ids, NEW c \in Characters, belongs[k][c] = i
    PROVE  LET u == Gone(world, k, i, c)
           IN  /\ Sound(u)
               /\ Indexed(u, [belongs EXCEPT ![k][c] = 0]) /\ [belongs EXCEPT ![k][c] = 0] \in Index
               /\ NamesOf(u) = IF k = "guild" /\ u.roster[k][i] = <<>> THEN NamesOf(world) \ {world.name[i]} ELSE NamesOf(world)
               /\ u.ignored = world.ignored
               /\ \A v \in invitations \ IssuedBy(k, c, i) :
                    v.kind # "group-request" => v.id # 0 /\ u.leader[v.kind][v.id] = v.source
<1> DEFINE u == Gone(world, k, i, c)
<1>1. /\ Sound(world) /\ world \in World /\ belongs \in Index /\ Indexed(world, belongs)
      /\ invitations \subseteq Invitation /\ InvitationsAreValid
  BY MembersHas
<1>2. c \in Range(world.roster[k][i])
  BY <1>1 DEF Indexed
<1>3. Sound(u) /\ Indexed(u, [belongs EXCEPT ![k][c] = 0])
  BY <1>1, <1>2, GoneKeepsSound, IndexedGone
<1>4. [belongs EXCEPT ![k][c] = 0] \in Index
  BY <1>1 DEF Index
<1>5. u.ignored = world.ignored
  <2>1. world.roster[k][i] \in Seq(Characters) /\ IsInjective(world.roster[k][i])
    BY <1>1, WorldHas DEF Sound, Standing
  <2>2. Without(world.roster[k][i], c) \in Seq(Characters)
    BY <2>1, <1>2, ShortenedRoster
  <2> QED BY <2>2, <1>1, GoneIs
<1>6. ASSUME NEW v \in invitations \ IssuedBy(k, c, i), v.kind # "group-request"
      PROVE  v.id # 0 /\ u.leader[v.kind][v.id] = v.source
  <2>1. v.kind \in Kinds /\ v.id \in Ids /\ v.source \in Characters
    BY <1>1, <1>6 DEF Invitation
  <2>2. v.id # 0 /\ world.leader[v.kind][v.id] = v.source
    BY <1>1, <1>6 DEF InvitationsAreValid, Leads
  <2>3. <<v.kind, v.id, v.source>> # <<k, i, c>>
    BY DEF IssuedBy
  <2> HIDE DEF u
  <2> QED BY <2>1, <2>2, <2>3, <1>1, <1>2, LeadersStay DEF u
<1>7. NamesOf(u) = IF k = "guild" /\ u.roster[k][i] = <<>> THEN NamesOf(world) \ {world.name[i]} ELSE NamesOf(world)
  BY <1>1, <1>2, GoneNames
<1> QED BY <1>3, <1>4, <1>5, <1>6, <1>7

LEMMA LeaveKeeps ==
    ASSUME MembersInv, NEW k \in Kinds, NEW c \in Characters, Leave(k, c)
    PROVE  MembersInv'
<1> DEFINE i == belongs[k][c]
           u == Gone(world, k, i, c)
<1>1. /\ taken = NamesOf(world) /\ taken \subseteq Names /\ invitations \subseteq Invitation
      /\ belongs \in Index /\ InvitationsAreValid
  BY MembersHas
<1>2. /\ Mutation /\ QueueWrite(1) /\ i \in Ids /\ world' = u /\ belongs' = [belongs EXCEPT ![k][c] = 0]
      /\ taken' = IF k = "guild" /\ u.roster[k][i] = <<>> THEN taken \ {world.name[i]} ELSE taken
      /\ invitations' = invitations \ VoidWith(k, c, i)
  BY <1>1 DEF Leave, Index
<1>3. /\ Sound(u) /\ Indexed(u, belongs') /\ belongs' \in Index
      /\ NamesOf(u) = IF k = "guild" /\ u.roster[k][i] = <<>> THEN NamesOf(world) \ {world.name[i]} ELSE NamesOf(world)
      /\ u.ignored = world.ignored
      /\ \A v \in invitations \ IssuedBy(k, c, i) : v.kind # "group-request" => v.id # 0 /\ u.leader[v.kind][v.id] = v.source
  BY <1>2, Departure
<1> HIDE DEF u, i
<1>4. InvitationsAreValid'
  <2>1. invitations' \subseteq invitations \ IssuedBy(k, c, i)
    BY <1>2 DEF VoidWith
  <2>2. \A v \in invitations' : v.kind # "group-request" => Leads(v.source, v.kind, v.id)'
    BY <2>1, <1>2, <1>3 DEF Leads
  <2> QED BY <2>1, <2>2, <1>1, <1>2, <1>3, StillValid
<1>5. taken' = NamesOf(world') /\ taken' \subseteq Names /\ invitations' \subseteq Invitation
  BY <1>1, <1>2, <1>3
<1> QED BY <1>2, <1>3, <1>4, <1>5, MutationKeeps

\* A member who is removed leads nothing, and the remover stays.
LEMMA KickKeeps ==
    ASSUME MembersInv, NEW k \in Kinds, NEW actor \in Characters, NEW c \in Characters, Kick(k, actor, c)
    PROVE  MembersInv'
<1> DEFINE i == belongs[k][actor]
           u == Gone(world, k, i, c)
<1>1. /\ taken = NamesOf(world) /\ taken \subseteq Names /\ invitations \subseteq Invitation
      /\ belongs \in Index /\ Indexed(world, belongs) /\ Sound(world) /\ world \in World /\ InvitationsAreValid
  BY MembersHas
<1>2. /\ Mutation /\ QueueWrite(1) /\ i \in Ids /\ world' = u /\ belongs' = [belongs EXCEPT ![k][c] = 0]
      /\ taken' = taken /\ invitations' = invitations \ IssuedBy(k, c, i)
      /\ world.leader[k][i] = actor /\ c # actor /\ c \in Range(world.roster[k][i])
  BY <1>1 DEF Kick, Leads, Members, Index
<1>3. belongs[k][c] = i
  BY <1>1, <1>2 DEF Indexed
<1>4. /\ Sound(u) /\ Indexed(u, belongs') /\ belongs' \in Index
      /\ NamesOf(u) = IF k = "guild" /\ u.roster[k][i] = <<>> THEN NamesOf(world) \ {world.name[i]} ELSE NamesOf(world)
      /\ u.ignored = world.ignored
      /\ \A v \in invitations \ IssuedBy(k, c, i) : v.kind # "group-request" => v.id # 0 /\ u.leader[v.kind][v.id] = v.source
  BY <1>2, <1>3, Departure
<1>5. u.roster[k][i] # <<>>
  <2>1. u.leader[k][i] = actor
    BY <1>1, <1>2, LeadersStay
  <2> HIDE DEF u
  <2> QED BY <2>1, <1>2, <1>4, SocialAssumption DEF Sound, Standing
<1> HIDE DEF u, i
<1>6. InvitationsAreValid'
  <2>1. \A v \in invitations' : v.kind # "group-request" => Leads(v.source, v.kind, v.id)'
    BY <1>2, <1>4 DEF Leads
  <2>2. invitations' \subseteq invitations
    BY <1>2
  <2> QED BY <2>1, <2>2, <1>1, <1>2, <1>4, StillValid
<1>7. taken' = NamesOf(world') /\ taken' \subseteq Names /\ invitations' \subseteq Invitation
  BY <1>1, <1>2, <1>4, <1>5
<1> QED BY <1>2, <1>4, <1>6, <1>7, MutationKeeps

LEMMA RenameKeeps ==
    ASSUME MembersInv, NEW c \in Characters, NEW name \in Names, Rename(c, name)
    PROVE  MembersInv'
<1> DEFINE i == belongs["guild"][c]
<1>1. /\ Sound(world) /\ world \in World /\ belongs \in Index /\ Indexed(world, belongs)
      /\ taken = NamesOf(world) /\ taken \subseteq Names /\ invitations \subseteq Invitation
      /\ InvitationsAreValid
  BY MembersHas
<1>2. /\ Mutation /\ QueueWrite(1) /\ i \in Ids /\ name \notin taken
      /\ world.leader["guild"][i] = c
      /\ world' = [world EXCEPT !.name = [world.name EXCEPT ![i] = name]]
      /\ taken' = (taken \ {world.name[i]}) \cup {name}
      /\ UNCHANGED <<belongs, invitations>>
  BY <1>1 DEF Rename, Leads, Index, Kinds
<1>3. /\ world'.roster = world.roster /\ world'.leader = world.leader /\ world'.next = world.next
      /\ world'.buddies = world.buddies /\ world'.ignored = world.ignored
      /\ world'.name = [world.name EXCEPT ![i] = name]
      /\ world' \in World
  <2>1. [world.name EXCEPT ![i] = name] \in [Ids -> Names \cup {None}]
    BY <1>1, <1>2, WorldHas
  <2> QED BY <2>1, <1>1, <1>2, WorldHas DEF World
<1>4. \A j \in Ids : world'.name[j] = IF j = i THEN name ELSE world.name[j]
  BY <1>1, <1>2, <1>3, WorldHas
<1>5. Standing(world) /\ OneEach(world) /\ Named(world)
  BY <1>1 DEF Sound
<1>6. world.roster["guild"][i] # <<>> /\ name # None /\ \A j \in Ids : world.name[j] # name
  <2>1. "guild" \in Kinds
    BY DEF Kinds
  <2>2. name # None /\ world.leader["guild"][i] # None
    BY <1>2, SocialAssumption
  <2> QED BY <2>1, <2>2, <1>1, <1>2, <1>5 DEF Standing, NamesOf
<1>7. Sound(world')
  <2>1. Named(world')
    BY <1>3, <1>4, <1>5, <1>6 DEF Named
  <2> QED BY <2>1, <1>3, <1>5 DEF Sound, Standing, OneEach
<1>8. taken' = NamesOf(world') /\ taken' \subseteq Names
  <2>1. world.name[i] # None /\ \A j \in Ids : world.name[j] = world.name[i] => j = i
    BY <1>5, <1>6, <1>2 DEF Named
  <2>2. {world'.name[j] : j \in Ids} = ({world.name[j] : j \in Ids} \ {world.name[i]}) \cup {name}
    BY <2>1, <1>2, <1>4, <1>6
  <2> QED BY <2>1, <2>2, <1>1, <1>2, <1>6 DEF NamesOf
<1>9. InvitationsAreValid'
  BY <1>1, <1>2, <1>3 DEF InvitationsAreValid, Leads, Blocked
<1>10. Indexed(world', belongs') /\ belongs' \in Index
  BY <1>1, <1>2, <1>3 DEF Indexed
<1> QED BY <1>1, <1>2, <1>7, <1>8, <1>9, <1>10, MutationKeeps

\* Contacts are apart from rosters.
LEMMA ContactsKeep ==
    ASSUME MembersInv, Mutation, QueueWrite(1), UNCHANGED <<belongs, taken>>,
           NEW B \in [Characters -> SUBSET Characters], NEW I \in [Characters -> SUBSET Characters],
           world' = [world EXCEPT !.buddies = B, !.ignored = I],
           invitations' \subseteq invitations,
           \A v \in invitations' : v.target \notin I[v.source] /\ v.source \notin I[v.target]
    PROVE  MembersInv'
<1>1. /\ Sound(world) /\ world \in World /\ belongs \in Index /\ Indexed(world, belongs)
      /\ taken = NamesOf(world) /\ taken \subseteq Names /\ invitations \subseteq Invitation
      /\ InvitationsAreValid
  BY MembersHas
<1>2. /\ world'.roster = world.roster /\ world'.leader = world.leader /\ world'.next = world.next
      /\ world'.name = world.name /\ world'.ignored = I /\ world' \in World
  BY <1>1, WorldHas DEF World
<1>3. Sound(world')
  BY <1>1, <1>2 DEF Sound, Standing, OneEach, Named
<1>4. Indexed(world', belongs') /\ taken' = NamesOf(world')
  BY <1>1, <1>2 DEF Indexed, NamesOf
<1>5. InvitationsAreValid'
  BY <1>1, <1>2 DEF InvitationsAreValid, Leads, Blocked
<1> QED BY <1>1, <1>3, <1>4, <1>5, MutationKeeps

LEMMA NamingKeepsMembers == MembersInv /\ Naming => MembersInv'
<1> SUFFICES ASSUME MembersInv, Naming PROVE MembersInv'
  OBVIOUS
<1>1. PICK c \in Characters :
        \/ \E name \in Names : Rename(c, name)
        \/ \E b \in Characters : AddBuddy(c, b) \/ RemoveBuddy(c, b) \/ Ignore(c, b) \/ Unignore(c, b)
  BY DEF Naming
<1>2. /\ world \in World /\ invitations \subseteq Invitation /\ InvitationsAreValid
      /\ world.buddies \in [Characters -> SUBSET Characters] /\ world.ignored \in [Characters -> SUBSET Characters]
  BY MembersHas, WorldHas
<1>3. \A v \in invitations : /\ v.target \notin world.ignored[v.source] /\ v.source \notin world.ignored[v.target]
                             /\ v.source \in Characters /\ v.target \in Characters
  BY <1>2 DEF InvitationsAreValid, Blocked, Invitation
<1>4. CASE \E name \in Names : Rename(c, name)
  BY <1>4, RenameKeeps
<1>5. ASSUME NEW b \in Characters, AddBuddy(c, b) \/ RemoveBuddy(c, b) \/ Ignore(c, b) \/ Unignore(c, b)
      PROVE  MembersInv'
  <2>1. ASSUME NEW S \in SUBSET Characters, Mutation, QueueWrite(1), UNCHANGED memory,
               world' = [world EXCEPT !.buddies[c] = S]
        PROVE  MembersInv'
    <3>1. [world.buddies EXCEPT ![c] = S] \in [Characters -> SUBSET Characters]
      BY <1>2
    <3>2. world' = [world EXCEPT !.buddies = [world.buddies EXCEPT ![c] = S], !.ignored = world.ignored]
      BY <1>2, <2>1 DEF World
    <3>3. invitations' = invitations /\ UNCHANGED <<belongs, taken>>
      BY <2>1 DEF memory
    <3> QED BY <1>2, <1>3, <2>1, <3>1, <3>2, <3>3, ContactsKeep
  <2>2. ASSUME NEW S \in SUBSET Characters, Mutation, QueueWrite(1), UNCHANGED <<belongs, taken>>,
               world' = [world EXCEPT !.ignored[c] = S], invitations' \subseteq invitations,
               \A v \in invitations' : (v.source = c => v.target \notin S) /\ (v.target = c => v.source \notin S)
        PROVE  MembersInv'
    <3> DEFINE I == [world.ignored EXCEPT ![c] = S]
    <3>1. I \in [Characters -> SUBSET Characters]
      BY <1>2
    <3>2. world' = [world EXCEPT !.buddies = world.buddies, !.ignored = I]
      BY <1>2, <2>2 DEF World
    <3>3. \A v \in invitations' : v.target \notin I[v.source] /\ v.source \notin I[v.target]
      BY <1>2, <1>3, <2>2
    <3> QED BY <1>2, <2>2, <3>1, <3>2, <3>3, ContactsKeep
  <2>3. CASE AddBuddy(c, b)
    BY <1>2, <2>1, <2>3 DEF AddBuddy
  <2>4. CASE RemoveBuddy(c, b)
    BY <1>2, <2>1, <2>4 DEF RemoveBuddy
  <2>5. CASE Ignore(c, b)
    <3>1. world' = [world EXCEPT !.ignored[c] = world.ignored[c] \cup {b}]
      BY <2>5 DEF Ignore
    <3>2. /\ Mutation /\ QueueWrite(1) /\ UNCHANGED <<belongs, taken>> /\ invitations' \subseteq invitations
          /\ \A v \in invitations' : {v.source, v.target} # {c, b}
      BY <2>5 DEF Ignore
    <3>3. \A v \in invitations' : /\ v.source = c => v.target \notin world.ignored[c] \cup {b}
                                  /\ v.target = c => v.source \notin world.ignored[c] \cup {b}
      BY <1>3, <3>2
    <3> QED BY <1>2, <3>1, <3>2, <3>3, <2>2
  <2>6. CASE Unignore(c, b)
    <3>1. world' = [world EXCEPT !.ignored[c] = world.ignored[c] \ {b}]
      BY <2>6 DEF Unignore
    <3>2. Mutation /\ QueueWrite(1) /\ UNCHANGED <<belongs, taken>> /\ invitations' = invitations
      BY <2>6 DEF Unignore, memory
    <3>3. \A v \in invitations' : /\ v.source = c => v.target \notin world.ignored[c] \ {b}
                                  /\ v.target = c => v.source \notin world.ignored[c] \ {b}
      BY <1>3, <3>2
    <3> QED BY <1>2, <3>1, <3>2, <3>3, <2>2
  <2> QED BY <1>5, <2>3, <2>4, <2>5, <2>6
<1> QED BY <1>1, <1>4, <1>5

LEMMA InMemoryKeeps ==
    ASSUME MembersInv, InMemory, invitations' \subseteq Invitation, InvitationsAreValid'
    PROVE  MembersInv'
BY DEF MembersInv, AllSound, IndexesMatch, InMemory, writerVars, closeVars, TypeOK, Members, NamesOf,
       Sound, Standing, OneEach, Named

LEMMA IssueKeeps ==
    ASSUME MembersInv, NEW v \in Invitation, Issue(v)
    PROVE  MembersInv'
<1>1. invitations \subseteq Invitation /\ InvitationsAreValid
  BY MembersHas
<1>2. /\ InMemory /\ invitations' = invitations \cup {v} /\ world' = world
      /\ ~Blocked(v.source, v.target) /\ Authorized(v)
  BY DEF Issue, InMemory
<1>3. v.kind # "group-request" => Leads(v.source, v.kind, v.id)
  BY <1>2 DEF Authorized, Admitting, Collection, Invitation, Kinds
<1>4. InvitationsAreValid'
  BY <1>1, <1>2, <1>3 DEF InvitationsAreValid, Blocked, Leads
<1> QED BY <1>1, <1>2, <1>4, InMemoryKeeps

LEMMA DroppedKeeps ==
    ASSUME MembersInv, NEW v \in invitations, Expire(v) \/ Decline(v)
    PROVE  MembersInv'
<1>1. invitations \subseteq Invitation /\ InvitationsAreValid
  BY MembersHas
<1>2. InMemory /\ invitations' = invitations \ {v} /\ world' = world
  BY DEF Expire, Decline, InMemory
<1>3. InvitationsAreValid'
  BY <1>1, <1>2 DEF InvitationsAreValid, Blocked, Leads
<1> QED BY <1>1, <1>2, <1>3, InMemoryKeeps

LEMMA InvitationIs ==
    ASSUME MembersInv, NEW v \in invitations
    PROVE  /\ v \in Invitation /\ Collection(v) \in Kinds /\ Joining(v) \in Characters /\ Admitting(v) \in Characters
           /\ v.id \in Ids
BY MembersHas DEF Invitation, Collection, Joining, Admitting, Kinds

\* The world after the joining character has left its group, if it has to.
LEMMA Left ==
    ASSUME MembersInv, NEW v \in invitations, Free(v)
    PROVE  LET b == IF Leaves(v) THEN [belongs EXCEPT !["group"][Joining(v)] = 0] ELSE belongs
           IN  /\ Sound(After(v)) /\ b \in Index /\ Indexed(After(v), b)
               /\ b[Collection(v)][Joining(v)] = 0
               /\ NamesOf(After(v)) = NamesOf(world)
               /\ After(v).ignored = world.ignored
               /\ \A u \in invitations \ Withdrawn(v) :
                    u.kind # "group-request" => u.id # 0 /\ After(v).leader[u.kind][u.id] = u.source
               /\ \A j \in Ids : ~(Leaves(v) /\ j = Previous(v)) =>
                    /\ After(v).roster["group"][j] = world.roster["group"][j]
                    /\ After(v).leader["group"][j] = world.leader["group"][j]
               /\ ~Leaves(v) => After(v) = world
<1> DEFINE c == Joining(v)
           i == Previous(v)
<1>1. c \in Characters /\ Collection(v) \in Kinds /\ v.id \in Ids
  BY InvitationIs
<1>2. /\ Sound(world) /\ world \in World /\ belongs \in Index /\ Indexed(world, belongs)
      /\ invitations \subseteq Invitation /\ InvitationsAreValid
  BY MembersHas
<1>3. CASE Leaves(v)
  <2>1. i # 0 /\ belongs["group"][c] = i /\ i \in Ids /\ Collection(v) = "group" /\ "group" \in Kinds
    BY <1>1, <1>2, <1>3 DEF Leaves, Previous, Group, Index, Kinds
  <2>2. After(v) = Gone(world, "group", i, c) /\ IssuedBy("group", c, i) \subseteq Withdrawn(v)
    BY <1>3 DEF After, Withdrawn, VoidWith
  <2>3. [belongs EXCEPT !["group"][c] = 0]["group"][c] = 0
    BY <1>1, <1>2, <2>1 DEF Index
  <2>4. LET u == Gone(world, "group", i, c)
        IN  /\ Sound(u) /\ Indexed(u, [belongs EXCEPT !["group"][c] = 0])
            /\ [belongs EXCEPT !["group"][c] = 0] \in Index
            /\ NamesOf(u) = NamesOf(world) /\ u.ignored = world.ignored
            /\ \A x \in invitations \ IssuedBy("group", c, i) :
                 x.kind # "group-request" => x.id # 0 /\ u.leader[x.kind][x.id] = x.source
    <3> HIDE DEF c, i
    <3> QED BY <1>1, <2>1, Departure
  <2>5. \A j \in Ids : j # i => /\ After(v).roster["group"][j] = world.roster["group"][j]
                                /\ After(v).leader["group"][j] = world.leader["group"][j]
    <3>1. c \in Range(world.roster["group"][i]) /\ world.roster["group"][i] \in Seq(Characters) /\ IsInjective(world.roster["group"][i])
      BY <1>1, <1>2, <2>1, WorldHas DEF Indexed, Sound, Standing
    <3>2. Without(world.roster["group"][i], c) \in Seq(Characters)
      BY <3>1, ShortenedRoster
    <3> HIDE DEF c, i
    <3> QED BY <3>2, <1>2, <2>1, <2>2, GoneIs
  <2> HIDE DEF c, i
  <2> QED BY <1>3, <2>1, <2>2, <2>3, <2>4, <2>5 DEF c, i
<1>4. CASE ~Leaves(v)
  <2>1. After(v) = world /\ belongs[Collection(v)][c] = 0 /\ Withdrawn(v) = {v}
    BY <1>4 DEF After, Free, Withdrawn
  <2>2. \A u \in invitations : u.kind # "group-request" => u.id # 0 /\ world.leader[u.kind][u.id] = u.source
    BY <1>2 DEF InvitationsAreValid, Leads
  <2> QED BY <1>2, <1>4, <2>1, <2>2
<1> QED BY <1>3, <1>4

LEMMA AcceptKeeps ==
    ASSUME MembersInv, NEW v \in invitations, Accept(v)
    PROVE  MembersInv'
<1> DEFINE k == Collection(v)
           i == v.id
           c == Joining(v)
           b == IF Leaves(v) THEN [belongs EXCEPT !["group"][c] = 0] ELSE belongs
           w == After(v)
<1>1. c \in Characters /\ k \in Kinds /\ i \in Ids /\ Admitting(v) \in Characters
  BY InvitationIs
<1>2. /\ Sound(world) /\ world \in World /\ belongs \in Index /\ Indexed(world, belongs)
      /\ taken = NamesOf(world) /\ taken \subseteq Names /\ invitations \subseteq Invitation
      /\ InvitationsAreValid
  BY MembersHas
<1>3. /\ Mutation /\ Authorized(v) /\ Free(v) /\ ~Full(v)
      /\ QueueWrite(IF Leaves(v) THEN 2 ELSE 1)
      /\ world' = Joined(w, k, i, c)
      /\ belongs' = [belongs EXCEPT ![k][c] = i]
      /\ invitations' = invitations \ Withdrawn(v) /\ taken' = taken
  BY DEF Accept
<1>4. /\ Sound(w) /\ b \in Index /\ Indexed(w, b) /\ b[k][c] = 0
      /\ NamesOf(w) = NamesOf(world) /\ w.ignored = world.ignored
      /\ \A u \in invitations \ Withdrawn(v) :
           u.kind # "group-request" => u.id # 0 /\ w.leader[u.kind][u.id] = u.source
      /\ \A j \in Ids : ~(Leaves(v) /\ j = Previous(v)) =>
           /\ w.roster["group"][j] = world.roster["group"][j]
           /\ w.leader["group"][j] = world.leader["group"][j]
      /\ ~Leaves(v) => w = world
  BY <1>3, Left
<1>5. w.roster[k][i] = world.roster[k][i] /\ w.leader[k][i] = world.leader[k][i]
  <2>1. CASE Leaves(v)
    BY <2>1, <1>1, <1>4 DEF Leaves, Previous
  <2>2. CASE ~Leaves(v)
    BY <2>2, <1>4
  <2> QED BY <2>1, <2>2
<1>6. belongs' = [b EXCEPT ![k][c] = i]
  <2>1. CASE Leaves(v)
    <3>1. k = "group"
      BY <2>1, <1>1 DEF Leaves, Previous
    <3> QED BY <2>1, <3>1, <1>1, <1>2, <1>3 DEF Index
  <2>2. CASE ~Leaves(v)
    BY <2>2, <1>3
  <2> QED BY <2>1, <2>2
<1>7. world.roster[k][i] # <<>> /\ (k = "group" => Len(world.roster[k][i]) < MemberLimit)
  <2>1. world.leader[k][i] # None
    BY <1>1, <1>3, SocialAssumption DEF Authorized, Leads
  <2>2. k = "group" => ~(Len(world.roster[k][i]) >= MemberLimit)
    BY <1>3 DEF Full, Collection
  <2>3. Len(world.roster[k][i]) \in Nat
    BY <1>1, <1>2, WorldHas, LenProperties
  <2>4. world.roster[k][i] # <<>>
    BY <2>1, <1>1, <1>2 DEF Sound, Standing
  <2>5. k = "group" => Len(world.roster[k][i]) < MemberLimit
    BY <2>2, <2>3, SocialAssumption
  <2> QED BY <2>4, <2>5
<1> HIDE DEF k, i, c, b, w
<1>8. Sound(world')
  <2>1. \A j \in Ids : c \notin Range(w.roster[k][j])
    BY <1>1, <1>4, UnindexedIsOut
  <2> QED BY <2>1, <1>1, <1>3, <1>4, <1>5, <1>7, JoinKeepsSound
<1>9. Indexed(world', belongs') /\ belongs' \in Index
  <2>1. Indexed(world', belongs')
    <3>1. Indexed(Joined(w, k, i, c), [b EXCEPT ![k][c] = i])
      BY <1>1, <1>4, IndexedJoined
    <3> QED BY <3>1, <1>3, <1>6
  <2> QED BY <2>1, <1>1, <1>2, <1>3 DEF Index
<1>10. /\ taken' = NamesOf(world') /\ world'.ignored = world.ignored
       /\ world'.leader = w.leader
  <2>1. w \in World
    BY <1>4 DEF Sound
  <2>2. /\ NamesOf(world') = NamesOf(w) /\ world'.ignored = w.ignored /\ world'.leader = w.leader
    BY <2>1, <1>1, <1>3, JoinedIs, JoinedNames
  <2> QED BY <2>2, <1>2, <1>3, <1>4
<1>11. InvitationsAreValid'
  <2>1. \A u \in invitations' : u.kind # "group-request" => Leads(u.source, u.kind, u.id)'
    BY <1>3, <1>4, <1>10 DEF Leads
  <2>2. invitations' \subseteq invitations
    BY <1>3
  <2> QED BY <2>1, <2>2, <1>2, <1>10, StillValid
<1>12. (IF Leaves(v) THEN 2 ELSE 1) \in Nat /\ invitations' \subseteq Invitation /\ taken' \subseteq Names
  BY <1>2, <1>3
<1> QED BY <1>3, <1>8, <1>9, <1>10, <1>11, <1>12, MutationKeeps

LEMMA AcceptIntoFullKeeps ==
    ASSUME MembersInv, NEW v \in invitations, AcceptIntoFull(v)
    PROVE  MembersInv'
<1> DEFINE c == Joining(v)
           d == [belongs EXCEPT !["group"][c] = 0]
           w == After(v)
<1>1. /\ belongs \in Index /\ taken = NamesOf(world) /\ taken \subseteq Names /\ invitations \subseteq Invitation
      /\ InvitationsAreValid
  BY MembersHas
<1>2. /\ Mutation /\ Leaves(v) /\ QueueWrite(1) /\ world' = w /\ belongs' = d
      /\ invitations' = invitations \ Withdrawn(v) /\ taken' = taken
  BY DEF AcceptIntoFull
<1>3. Free(v)
  BY <1>2 DEF Free
<1>4. /\ Sound(w) /\ d \in Index /\ Indexed(w, d)
      /\ NamesOf(w) = NamesOf(world) /\ w.ignored = world.ignored
      /\ \A u \in invitations \ Withdrawn(v) :
           u.kind # "group-request" => u.id # 0 /\ w.leader[u.kind][u.id] = u.source
  BY <1>2, <1>3, Left
<1> HIDE DEF c, d, w
<1>5. InvitationsAreValid'
  <2>1. \A u \in invitations' : u.kind # "group-request" => Leads(u.source, u.kind, u.id)'
    BY <1>2, <1>4 DEF Leads
  <2>2. invitations' \subseteq invitations
    BY <1>2
  <2> QED BY <2>1, <2>2, <1>1, <1>2, <1>4, StillValid
<1>6. invitations' \subseteq Invitation /\ taken' = NamesOf(world') /\ taken' \subseteq Names
  BY <1>1, <1>2, <1>4
<1> QED BY <1>2, <1>4, <1>5, <1>6, MutationKeeps

LEMMA WriterKeepsMembers == MembersInv /\ (WriterStep \/ Close \/ CloseDrained) => MembersInv'
<1> SUFFICES ASSUME MembersInv, WriterStep \/ Close \/ CloseDrained PROVE MembersInv'
  OBVIOUS
<1>1. UNCHANGED <<world, belongs, taken, invitations>>
  BY DEF WriterStep, Look, Expired, RetireIdle, Gather, Write, WriteFails, Note, WriterFrame, Close, CloseDrained, memory
<1>2. TypeOK'
  <2>1. TypeOK
    BY DEF MembersInv
  <2>2. CASE Look \/ Expired \/ RetireIdle \/ Gather
    BY <2>1, <2>2 DEF TypeOK, Look, Expired, RetireIdle, Gather, WriterFrame, memory, closeVars
  <2>3. CASE Write \/ WriteFails \/ Note
    BY <2>1, <2>3 DEF TypeOK, Write, WriteFails, Note, WriterFrame, memory, closeVars
  <2>4. CASE Close \/ CloseDrained
    BY <2>1, <2>4 DEF TypeOK, Close, CloseDrained, memory, writerVars
  <2> QED BY <2>2, <2>3, <2>4 DEF WriterStep
<1>3. snapshot' \in {snapshot, world} /\ file' \in {file, snapshot}
  BY DEF WriterStep, Look, Expired, RetireIdle, Gather, Write, WriteFails, Note, WriterFrame, Close, CloseDrained, writerVars
<1>4. AllSound'
  BY <1>1, <1>3 DEF MembersInv, AllSound, Sound, Standing, OneEach, Named
<1>5. IndexesMatch' /\ InvitationsAreValid'
  BY <1>1 DEF MembersInv, IndexesMatch, InvitationsAreValid, Members, NamesOf, Blocked, Leads
<1> QED BY <1>2, <1>4, <1>5 DEF MembersInv

\* After a crash memory is what the file holds, which is sound.
LEMMA CrashKeepsMembers == MembersInv /\ Crash => MembersInv'
<1> SUFFICES ASSUME MembersInv, Crash PROVE MembersInv'
  OBVIOUS
<1>1. /\ world' = file /\ file' = file /\ snapshot' = file
      /\ belongs' = IndexOf(file) /\ taken' = NamesOf(file) /\ invitations' = {}
  BY DEF Crash
<1>2. Sound(file)
  BY DEF MembersInv, AllSound
<1>3. IndexOf(file) \in Index /\ Indexed(file, IndexOf(file)) /\ NamesOf(file) \subseteq Names
  BY <1>2, IndexOfIsIndex
<1>4. TypeOK'
  <2>1. TypeOK
    BY DEF MembersInv
  <2>2. /\ queued' \in Nat /\ written' \in Nat /\ revision' \in Nat /\ fileRevision' \in Nat /\ failures' \in Nat
        /\ crashes' \in Nat /\ writer' = "none" /\ closed' = FALSE /\ stop' = FALSE
    BY <2>1 DEF Crash, TypeOK
  <2>3. /\ world' \in World /\ snapshot' \in World /\ file' \in World /\ taken' \subseteq Names
        /\ belongs' \in [Kinds -> [Characters -> Ids \cup {0}]] /\ invitations' \subseteq Invitation
    BY <2>1, <1>1, <1>3 DEF TypeOK, Index
  <2> QED BY <2>2, <2>3 DEF TypeOK
<1>5. AllSound'
  BY <1>1, <1>2 DEF AllSound, Sound, Standing, OneEach, Named
<1>6. IndexesMatch'
  BY <1>1, <1>3 DEF IndexesMatch, Indexed, Members, NamesOf
<1>7. InvitationsAreValid'
  BY <1>1 DEF InvitationsAreValid
<1> QED BY <1>4, <1>5, <1>6, <1>7 DEF MembersInv

LEMMA InitMembers == Init => MembersInv
<1> SUFFICES ASSUME Init PROVE MembersInv
  OBVIOUS
<1>1. PICK s \in Starts : file = FileOf(s)
  BY DEF Init
<1>2. /\ world = file /\ snapshot = file /\ belongs = IndexOf(file) /\ taken = NamesOf(file) /\ invitations = {}
  BY DEF Init
<1>3. Sound(file)
  BY <1>1, FileIsSound
<1>4. IndexOf(file) \in Index /\ Indexed(file, IndexOf(file)) /\ NamesOf(file) \subseteq Names
  BY <1>3, IndexOfIsIndex
<1>5. TypeOK
  BY <1>2, <1>3, <1>4 DEF Init, TypeOK, Index, Sound
<1>6. AllSound
  BY <1>2, <1>3 DEF AllSound
<1>7. IndexesMatch
  BY <1>2, <1>4, MatchIsIndexed
<1>8. InvitationsAreValid
  BY <1>2 DEF InvitationsAreValid
<1> QED BY <1>5, <1>6, <1>7, <1>8 DEF MembersInv

LEMMA MembersInvariant == Spec => []MembersInv
<1>1. MembersInv /\ [Next]_vars => MembersInv'
  <2> SUFFICES ASSUME MembersInv, [Next]_vars PROVE MembersInv'
    OBVIOUS
  <2>1. CASE UNCHANGED vars
    BY <2>1 DEF vars, memory, writerVars, closeVars, MembersInv, TypeOK, AllSound, Sound, Standing, OneEach, Named,
                IndexesMatch, InvitationsAreValid, Members, NamesOf, Blocked, Leads
  <2>2. CASE Membership
    BY <2>2, FoundKeeps, LeaveKeeps, KickKeeps DEF Membership
  <2>3. CASE Ledger
    BY <2>3, IssueKeeps, DroppedKeeps, AcceptKeeps, AcceptIntoFullKeeps DEF Ledger
  <2> QED BY <2>1, <2>2, <2>3, NamingKeepsMembers, WriterKeepsMembers, CrashKeepsMembers DEF Next
<1> QED BY <1>1, InitMembers, PTL DEF Spec

-----------------------------------------------------------------------------
\* Every value of the state is of its kind, the file and what the writer holds
\* being worlds.
THEOREM SocialTyping == Spec => []TypeOK
<1>1. MembersInv => TypeOK
  BY DEF MembersInv
<1> QED BY <1>1, MembersInvariant, PTL

\* Whatever has joined, left, been removed or renamed, and however often memory was
\* rebuilt from the file: the two indexes say what the rosters say.
THEOREM IndexesAlwaysMatch == Spec => []IndexesMatch
<1>1. MembersInv => IndexesMatch
  BY DEF MembersInv
<1> QED BY <1>1, MembersInvariant, PTL

\* Every collection has its leader among its members, nobody twice, and a group
\* does not grow over the limit, however many invitations are out.
THEOREM RostersAlwaysSound == Spec => []RostersSound
<1>1. MembersInv => RostersSound
  BY DEF MembersInv, AllSound, Sound, Standing, RostersSound, Members
<1> QED BY <1>1, MembersInvariant, PTL

\* An invitation goes with what its sender led it by, and with the first of the two
\* to ignore the other.
THEOREM InvitationsAlwaysValid == Spec => []InvitationsAreValid
<1>1. MembersInv => InvitationsAreValid
  BY DEF MembersInv
<1> QED BY <1>1, MembersInvariant, PTL

\* What a restart finds is sound, whenever the crash comes: the same holds of the
\* world in the file as of that in memory.
FileSound == Sound(file)
THEOREM FileAlwaysSound == Spec => []FileSound
<1>1. MembersInv => FileSound
  BY DEF MembersInv, AllSound, FileSound
<1> QED BY <1>1, MembersInvariant, PTL
=============================================================================
