------------------------ MODULE PlayerDatabaseProofs ------------------------
(***************************************************************************)
(* For any characters, accounts, callers and bounds: the tables are always *)
(* one consistent cut of what the callers published, and hold whatever a   *)
(* returned flush() promised.                                              *)
(*                                                                         *)
(* DurableIsOneCut is not inductive: whether the next commit is a cut      *)
(* depends on the batch in hand and on what is pending, and after a failed *)
(* transaction on both.  NothingLost says of these what is needed.         *)
(***************************************************************************)
EXTENDS PlayerDatabase, TLAPS

\* The documents and deletes a step may move about; the rest of TypeOK takes
\* no part in the argument.
DocsOK ==
    /\ pending \in Docs /\ batch \in Docs /\ rows \in Docs
    /\ published \in Docs /\ batchImage \in Docs /\ durableImage \in Docs
    /\ clock \in Nat

CutInv == DocsOK /\ NothingLost /\ DurableIsOneCut

-----------------------------------------------------------------------------
(* The operators on documents. *)

\* Overriding one table by another of the same keys.
LEMMA OverType ==
    ASSUME NEW K, NEW f \in [K -> Nat], NEW g \in [K -> Nat]
    PROVE  /\ Over(f, g) \in [K -> Nat]
           /\ \A k \in K : Over(f, g)[k] = IF f[k] # NoRow THEN f[k] ELSE g[k]
BY DEF Over, NoRow

\* _pending dictionaries and tables stay documents under setdefault, deletion
\* and the transaction, and what each of them holds afterwards.
LEMMA DocsClosed ==
    ASSUME NEW d \in Docs, NEW e \in Docs, NEW D
    PROVE  /\ SetDefaults(d, e) \in Docs
           /\ Without(d, D) \in Docs
           /\ Written(e, d, D) \in Docs
<1>1. SetDefaults(d, e) \in Docs
  BY OverType DEF Docs, SetDefaults
<1>2. ASSUME NEW c \in Docs PROVE Without(c, D) \in Docs
  BY <1>2 DEF Docs, Without, NoRow
<1>3. Written(e, d, D) \in Docs
  BY <1>2, OverType DEF Docs, SetDefaults, Written
<1> QED BY <1>1, <1>2, <1>3
LEMMA NoDocsType == NoDocs \in Docs
BY DEF NoDocs, Docs, NoRow

\* What the transaction leaves in each table, key by key.
LEMMA WrittenRows ==
    ASSUME NEW t \in Docs, NEW d \in Docs, NEW D
    PROVE  /\ \A k \in Characters :
                /\ Written(t, d, D).states[k] =
                      IF d.states[k] # NoRow THEN d.states[k]
                      ELSE IF k \in D THEN NoRow ELSE t.states[k]
                /\ Written(t, d, D).profiles[k] =
                      IF d.profiles[k] # NoRow THEN d.profiles[k]
                      ELSE IF k \in D THEN NoRow ELSE t.profiles[k]
           /\ \A a \in Accounts :
                Written(t, d, D).wallets[a] =
                      IF d.wallets[a] # NoRow THEN d.wallets[a] ELSE t.wallets[a]
<1>1. Without(t, D) \in Docs
  BY DocsClosed
<1>2. /\ \A k \in Characters :
           /\ Without(t, D).states[k] = IF k \in D THEN NoRow ELSE t.states[k]
           /\ Without(t, D).profiles[k] = IF k \in D THEN NoRow ELSE t.profiles[k]
      /\ Without(t, D).wallets = t.wallets
  BY DEF Without, Docs
<1> QED BY <1>1, <1>2, OverType DEF Written, SetDefaults, Docs

\* What queue_state puts into a set of documents, key by key.
LEMMA SnapshotEntries ==
    ASSUME NEW d \in Docs, NEW k \in Characters, NEW v \in Nat,
           NEW p \in BOOLEAN, NEW w \in BOOLEAN
    PROVE  /\ Snapshot(d, k, v, p, w) \in Docs
           /\ \A c \in Characters :
                /\ Snapshot(d, k, v, p, w).states[c] =
                       IF c = k THEN v ELSE d.states[c]
                /\ Snapshot(d, k, v, p, w).profiles[c] =
                       IF c = k /\ p THEN v ELSE d.profiles[c]
           /\ \A a \in Accounts :
                Snapshot(d, k, v, p, w).wallets[a] =
                       IF a = Owner[k] /\ w THEN v ELSE d.wallets[a]
BY OwnerAssumption DEF Snapshot, Docs

-----------------------------------------------------------------------------
(* What the steps do to a cover. *)

\* An empty batch leaves what it is written over.
LEMMA WriteNothing ==
    ASSUME NEW t \in Docs, NEW image
    PROVE  Covers(Written(t, NoDocs, {}), image) <=> Covers(t, image)
<1>1. Written(t, NoDocs, {}) \in Docs
  BY DocsClosed, NoDocsType
<1>2. /\ \A k \in Characters : /\ Written(t, NoDocs, {}).states[k] = t.states[k]
                               /\ Written(t, NoDocs, {}).profiles[k] = t.profiles[k]
      /\ \A a \in Accounts : Written(t, NoDocs, {}).wallets[a] = t.wallets[a]
  BY WrittenRows, NoDocsType DEF NoDocs
<1>3. /\ Written(t, NoDocs, {}).states = t.states
      /\ Written(t, NoDocs, {}).profiles = t.profiles
      /\ Written(t, NoDocs, {}).wallets = t.wallets
  BY <1>1, <1>2 DEF Docs
<1> QED BY <1>3 DEF Covers

\* Merging a failed batch b back under what was published meanwhile covers
\* what writing the one after the other would have: this is the line "A newer
\* snapshot always wins over the failed one".
LEMMA MergeKeepsCover ==
    ASSUME NEW t \in Docs, NEW b \in Docs, NEW p \in Docs, NEW image \in Docs,
           NEW D, NEW E, Covers(Written(Written(t, b, D), p, E), image)
    PROVE  Covers(Written(t, SetDefaults(p, b), E \cup D), image)
<1> DEFINE one == Written(t, b, D)
           two == Written(one, p, E)
           merged == SetDefaults(p, b)
           new == Written(t, merged, E \cup D)
<1>1. one \in Docs /\ two \in Docs /\ merged \in Docs /\ new \in Docs
  BY DocsClosed
<1>2. /\ \A k \in Characters :
            /\ merged.states[k] = IF p.states[k] # NoRow THEN p.states[k] ELSE b.states[k]
            /\ merged.profiles[k] = IF p.profiles[k] # NoRow THEN p.profiles[k] ELSE b.profiles[k]
      /\ \A a \in Accounts :
            merged.wallets[a] = IF p.wallets[a] # NoRow THEN p.wallets[a] ELSE b.wallets[a]
  BY OverType DEF SetDefaults, Docs
<1> HIDE DEF one, two, merged, new
<1>3. \A k \in Characters : image.states[k] # NoRow => new.states[k] = image.states[k]
  <2> SUFFICES ASSUME NEW k \in Characters, image.states[k] # NoRow
               PROVE  new.states[k] = image.states[k]
    OBVIOUS
  <2>1. two.states[k] = image.states[k]
    BY DEF Covers, SameUnlessDeleted, two, one, Docs
  <2>2. /\ one.states[k] = IF b.states[k] # NoRow THEN b.states[k]
                           ELSE IF k \in D THEN NoRow ELSE t.states[k]
        /\ two.states[k] = IF p.states[k] # NoRow THEN p.states[k]
                           ELSE IF k \in E THEN NoRow ELSE one.states[k]
        /\ new.states[k] = IF merged.states[k] # NoRow THEN merged.states[k]
                           ELSE IF k \in E \cup D THEN NoRow ELSE t.states[k]
    BY <1>1, WrittenRows DEF one, two, new
  <2> QED BY <2>1, <2>2, <1>2
<1>4. \A k \in Characters : image.profiles[k] # NoRow => new.profiles[k] = image.profiles[k]
  <2> SUFFICES ASSUME NEW k \in Characters, image.profiles[k] # NoRow
               PROVE  new.profiles[k] = image.profiles[k]
    OBVIOUS
  <2>1. two.profiles[k] = image.profiles[k]
    BY DEF Covers, SameUnlessDeleted, two, one, Docs
  <2>2. /\ one.profiles[k] = IF b.profiles[k] # NoRow THEN b.profiles[k]
                             ELSE IF k \in D THEN NoRow ELSE t.profiles[k]
        /\ two.profiles[k] = IF p.profiles[k] # NoRow THEN p.profiles[k]
                             ELSE IF k \in E THEN NoRow ELSE one.profiles[k]
        /\ new.profiles[k] = IF merged.profiles[k] # NoRow THEN merged.profiles[k]
                             ELSE IF k \in E \cup D THEN NoRow ELSE t.profiles[k]
    BY <1>1, WrittenRows DEF one, two, new
  <2> QED BY <2>1, <2>2, <1>2
<1>5. \A a \in Accounts : new.wallets[a] = image.wallets[a]
  <2> SUFFICES ASSUME NEW a \in Accounts
               PROVE  new.wallets[a] = image.wallets[a]
    OBVIOUS
  <2>1. two.wallets[a] = image.wallets[a]
    BY DEF Covers, two, one
  <2>2. /\ one.wallets[a] = IF b.wallets[a] # NoRow THEN b.wallets[a] ELSE t.wallets[a]
        /\ two.wallets[a] = IF p.wallets[a] # NoRow THEN p.wallets[a] ELSE one.wallets[a]
        /\ new.wallets[a] = IF merged.wallets[a] # NoRow THEN merged.wallets[a] ELSE t.wallets[a]
    BY <1>1, WrittenRows DEF one, two, new
  <2> QED BY <2>1, <2>2, <1>2
<1>6. new.wallets = image.wallets
  BY <1>1, <1>5 DEF Docs
<1>7. Covers(new, image)
  BY <1>3, <1>4, <1>6 DEF Covers, SameUnlessDeleted, Docs
<1> QED BY <1>7 DEF new, merged

\* A publication changes the pending documents and the image alike: where
\* pending moved from p to q, the image moved from i to j, and the deletes only
\* shrink at keys that are rewritten or whose image was already covered.
LEMMA PublicationKeepsCover ==
    ASSUME NEW t \in Docs, NEW p \in Docs, NEW q \in Docs,
           NEW i \in Docs, NEW j \in Docs, NEW D, NEW E,
           Covers(Written(t, p, D), i),
           \A k \in Characters :
               /\ \/ q.states[k] # NoRow /\ q.states[k] = j.states[k]
                  \/ j.states[k] = NoRow
                  \/ /\ q.states[k] = p.states[k] /\ j.states[k] = i.states[k]
                     /\ k \in E => k \in D
               /\ \/ q.profiles[k] # NoRow /\ q.profiles[k] = j.profiles[k]
                  \/ j.profiles[k] = NoRow
                  \/ /\ q.profiles[k] = p.profiles[k] /\ j.profiles[k] = i.profiles[k]
                     /\ k \in E => k \in D,
           \A a \in Accounts :
               \/ q.wallets[a] # NoRow /\ q.wallets[a] = j.wallets[a]
               \/ q.wallets[a] = p.wallets[a] /\ j.wallets[a] = i.wallets[a]
    PROVE  Covers(Written(t, q, E), j)
<1> DEFINE old == Written(t, p, D)
           new == Written(t, q, E)
<1>1. old \in Docs /\ new \in Docs
  BY DocsClosed
<1>2. \A k \in Characters : j.states[k] # NoRow => new.states[k] = j.states[k]
  <2> SUFFICES ASSUME NEW k \in Characters, j.states[k] # NoRow
               PROVE  new.states[k] = j.states[k]
    OBVIOUS
  <2>1. i.states[k] # NoRow => old.states[k] = i.states[k]
    BY DEF Covers, SameUnlessDeleted, Docs
  <2>2. /\ old.states[k] = IF p.states[k] # NoRow THEN p.states[k]
                           ELSE IF k \in D THEN NoRow ELSE t.states[k]
        /\ new.states[k] = IF q.states[k] # NoRow THEN q.states[k]
                           ELSE IF k \in E THEN NoRow ELSE t.states[k]
    BY WrittenRows
  <2> HIDE DEF old, new
  <2> QED BY <2>1, <2>2
<1>3. \A k \in Characters : j.profiles[k] # NoRow => new.profiles[k] = j.profiles[k]
  <2> SUFFICES ASSUME NEW k \in Characters, j.profiles[k] # NoRow
               PROVE  new.profiles[k] = j.profiles[k]
    OBVIOUS
  <2>1. i.profiles[k] # NoRow => old.profiles[k] = i.profiles[k]
    BY DEF Covers, SameUnlessDeleted, Docs
  <2>2. /\ old.profiles[k] = IF p.profiles[k] # NoRow THEN p.profiles[k]
                             ELSE IF k \in D THEN NoRow ELSE t.profiles[k]
        /\ new.profiles[k] = IF q.profiles[k] # NoRow THEN q.profiles[k]
                             ELSE IF k \in E THEN NoRow ELSE t.profiles[k]
    BY WrittenRows
  <2> HIDE DEF old, new
  <2> QED BY <2>1, <2>2
<1>4. \A a \in Accounts : new.wallets[a] = j.wallets[a]
  <2> SUFFICES ASSUME NEW a \in Accounts PROVE new.wallets[a] = j.wallets[a]
    OBVIOUS
  <2>1. old.wallets[a] = i.wallets[a]
    BY DEF Covers
  <2>2. /\ old.wallets[a] = IF p.wallets[a] # NoRow THEN p.wallets[a] ELSE t.wallets[a]
        /\ new.wallets[a] = IF q.wallets[a] # NoRow THEN q.wallets[a] ELSE t.wallets[a]
    BY WrittenRows
  <2> HIDE DEF old, new
  <2> QED BY <2>1, <2>2
<1> HIDE DEF old, new
<1>5. Covers(new, j)
  BY <1>1, <1>2, <1>3, <1>4 DEF Covers, SameUnlessDeleted, Docs
<1> QED BY <1>5 DEF new

-----------------------------------------------------------------------------
(* The invariant. *)

LEMMA InitCut == Init => CutInv
<1> SUFFICES ASSUME Init PROVE CutInv
  OBVIOUS
<1>1. DocsOK
  BY NoDocsType DEF Init, DocsOK
<1>2. Covers(NoDocs, NoDocs)
  BY DEF Covers, SameUnlessDeleted
<1>3. NothingLost
  BY <1>2, NoDocsType, WriteNothing DEF Init, NothingLost, InHand, AfterBatch
<1> QED BY <1>1, <1>2, <1>3 DEF CutInv, DurableIsOneCut, Init

\* A step that neither publishes nor moves documents.
QuietStep ==
    /\ UNCHANGED <<pending, pendingDeletes, rows, batch, batchDeletes,
                   published, batchImage, durableImage, clock>>
    /\ InHand' = InHand

LEMMA QuietKeeps == CutInv /\ QuietStep => CutInv'
<1> SUFFICES ASSUME CutInv, QuietStep PROVE CutInv'
  OBVIOUS
<1>1. DocsOK' /\ DurableIsOneCut'
  BY DEF CutInv, QuietStep, DocsOK, DurableIsOneCut
<1>2. AfterBatch' = AfterBatch
  BY DEF QuietStep, AfterBatch
<1>3. NothingLost'
  BY <1>2 DEF CutInv, QuietStep, NothingLost
<1> QED BY <1>1, <1>3 DEF CutInv

\* A publication: the documents published and pending change together.
PublicationStep ==
    /\ clock' \in Nat /\ clock' # NoRow
    /\ pending' \in Docs /\ published' \in Docs
    /\ UNCHANGED <<rows, batch, batchDeletes, batchImage, durableImage>>
    /\ InHand' = InHand
    /\ \A k \in Characters :
         /\ \/ pending'.states[k] # NoRow /\ pending'.states[k] = published'.states[k]
            \/ published'.states[k] = NoRow
            \/ /\ pending'.states[k] = pending.states[k]
               /\ published'.states[k] = published.states[k]
               /\ k \in pendingDeletes' => k \in pendingDeletes
         /\ \/ pending'.profiles[k] # NoRow /\ pending'.profiles[k] = published'.profiles[k]
            \/ published'.profiles[k] = NoRow
            \/ /\ pending'.profiles[k] = pending.profiles[k]
               /\ published'.profiles[k] = published.profiles[k]
               /\ k \in pendingDeletes' => k \in pendingDeletes
    /\ \A a \in Accounts :
         \/ pending'.wallets[a] # NoRow /\ pending'.wallets[a] = published'.wallets[a]
         \/ /\ pending'.wallets[a] = pending.wallets[a]
            /\ published'.wallets[a] = published.wallets[a]

LEMMA PublicationKeeps == CutInv /\ PublicationStep => CutInv'
<1> SUFFICES ASSUME CutInv, PublicationStep PROVE CutInv'
  OBVIOUS
<1>1. DocsOK'
  BY DEF CutInv, DocsOK, PublicationStep
<1>2. AfterBatch \in Docs /\ AfterBatch' = AfterBatch
  BY DocsClosed DEF CutInv, DocsOK, PublicationStep, AfterBatch
<1>3. Covers(Written(AfterBatch, pending', pendingDeletes'), published')
  <2>1. /\ pending \in Docs /\ pending' \in Docs
        /\ published \in Docs /\ published' \in Docs
        /\ Covers(Written(AfterBatch, pending, pendingDeletes), published)
    BY DEF CutInv, DocsOK, NothingLost, PublicationStep
  <2> QED BY <1>2, <2>1, PublicationKeepsCover DEF PublicationStep
<1>4. NothingLost'
  BY <1>2, <1>3 DEF CutInv, NothingLost, PublicationStep
<1>5. DurableIsOneCut'
  BY DEF CutInv, DurableIsOneCut, PublicationStep
<1> QED BY <1>1, <1>4, <1>5 DEF CutInv

\* _ensure_writer_locked only ever starts a writer with nothing in hand.
LEMMA EnsureWriterInHand == EnsureWriterAndWake => InHand' = InHand
BY DEF EnsureWriterAndWake, InHand

LEMMA PublishersKeep ==
    ASSUME CutInv,
           \/ \E a \in Accounts : QueueWallet(a)
           \/ \E k \in Characters : QueueState(k)
           \/ \E k \in Characters : QueueProfile(k)
           \/ \E k \in Deletable : QueueDelete(k)
    PROVE  CutInv'
<1>1. Publish
  BY DEF QueueWallet, QueueState, QueueProfile, QueueDelete
<1>2. /\ clock' \in Nat /\ clock' # NoRow
      /\ UNCHANGED <<rows, batch, batchDeletes, batchImage, durableImage>>
      /\ InHand' = InHand
  BY <1>1, EnsureWriterInHand
     DEF Publish, CutInv, DocsOK, NoRow, batchVars, durableVars
<1>3. CASE \E a \in Accounts : QueueWallet(a)
  <2>1. PICK a \in Accounts : QueueWallet(a)
    BY <1>3
  <2>2. PublicationStep
    BY <1>2, <2>1 DEF QueueWallet, PublicationStep, CutInv, DocsOK, Docs
  <2> QED BY <2>2, PublicationKeeps
<1>4. CASE \E k \in Characters : QueueState(k)
  <2>1. PICK k \in Characters : QueueState(k)
    BY <1>4
  <2>2. PICK p \in BOOLEAN, w \in BOOLEAN :
            /\ pending' = Snapshot(pending, k, clock', p, w)
            /\ published' = Snapshot(published, k, clock', p, w)
            /\ pendingDeletes' = pendingDeletes \ {k}
    BY <2>1 DEF QueueState
  <2>3. /\ pending \in Docs /\ published \in Docs
    BY DEF CutInv, DocsOK
  <2>4. /\ pending' \in Docs /\ published' \in Docs
    BY <1>2, <2>2, <2>3, SnapshotEntries
  <2>5. ASSUME NEW c \in Characters
        PROVE  /\ \/ pending'.states[c] # NoRow /\ pending'.states[c] = published'.states[c]
                  \/ /\ pending'.states[c] = pending.states[c]
                     /\ published'.states[c] = published.states[c]
                     /\ c \in pendingDeletes' => c \in pendingDeletes
               /\ \/ pending'.profiles[c] # NoRow /\ pending'.profiles[c] = published'.profiles[c]
                  \/ /\ pending'.profiles[c] = pending.profiles[c]
                     /\ published'.profiles[c] = published.profiles[c]
                     /\ c \in pendingDeletes' => c \in pendingDeletes
    BY <1>2, <2>2, <2>3, SnapshotEntries
  <2>6. ASSUME NEW a \in Accounts
        PROVE  \/ pending'.wallets[a] # NoRow /\ pending'.wallets[a] = published'.wallets[a]
               \/ /\ pending'.wallets[a] = pending.wallets[a]
                  /\ published'.wallets[a] = published.wallets[a]
    BY <1>2, <2>2, <2>3, SnapshotEntries
  <2>7. PublicationStep
    BY <1>2, <2>4, <2>5, <2>6 DEF PublicationStep
  <2> QED BY <2>7, PublicationKeeps
<1>5. CASE \E k \in Characters : QueueProfile(k)
  <2>1. PICK k \in Characters : QueueProfile(k)
    BY <1>5
  <2>2. PublicationStep
    BY <1>2, <2>1 DEF QueueProfile, PublicationStep, CutInv, DocsOK, Docs
  <2> QED BY <2>2, PublicationKeeps
<1>6. CASE \E k \in Deletable : QueueDelete(k)
  <2>1. PICK k \in Deletable : QueueDelete(k)
    BY <1>6
  <2>2. /\ pending' \in Docs /\ published' \in Docs
        /\ pendingDeletes' = pendingDeletes \cup {k}
    BY <2>1, DocsClosed DEF QueueDelete, CutInv, DocsOK
  <2>3. /\ \A c \in Characters :
             /\ c = k => published'.states[c] = NoRow /\ published'.profiles[c] = NoRow
             /\ c # k => /\ published'.states[c] = published.states[c]
                         /\ published'.profiles[c] = published.profiles[c]
                         /\ pending'.states[c] = pending.states[c]
                         /\ pending'.profiles[c] = pending.profiles[c]
        /\ pending'.wallets = pending.wallets /\ published'.wallets = published.wallets
    BY <2>1 DEF QueueDelete, Without, CutInv, DocsOK, Docs
  <2>4. PublicationStep
    BY <1>2, <2>2, <2>3 DEF PublicationStep
  <2> QED BY <2>4, PublicationKeeps
<1> QED BY <1>3, <1>4, <1>5, <1>6

LEMMA WriterKeeps == ASSUME CutInv, WriterStep PROVE CutInv'
<1> USE DEF WriterFrame, batchVars, durableVars
<1>1. CASE WriterCheck
  BY <1>1, QuietKeeps DEF WriterCheck, QuietStep, InHand
<1>2. CASE WriterTake
  <2>1. /\ batch' = pending /\ batchDeletes' = pendingDeletes
        /\ pending' = NoDocs /\ pendingDeletes' = {}
        /\ batchImage' = published /\ published' = published
        /\ rows' = rows /\ durableImage' = durableImage /\ clock' = clock
        /\ ~InHand /\ InHand'
    BY <1>2 DEF WriterTake, InHand
  <2>2. DocsOK'
    BY <2>1, NoDocsType DEF CutInv, DocsOK
  <2>3. Covers(Written(rows, pending, pendingDeletes), published)
    BY <2>1 DEF CutInv, NothingLost, AfterBatch
  <2>4. Written(rows, pending, pendingDeletes) \in Docs
    BY DocsClosed DEF CutInv, DocsOK
  <2>5. AfterBatch' = Written(rows, pending, pendingDeletes)
    BY <2>1 DEF AfterBatch
  <2>6. NothingLost'
    BY <2>1, <2>3, <2>4, <2>5, WriteNothing DEF NothingLost
  <2> QED BY <2>1, <2>2, <2>6 DEF CutInv, DurableIsOneCut
<1>3. CASE WriterCommit
  <2>1. /\ rows' = Written(rows, batch, batchDeletes)
        /\ durableImage' = batchImage
        /\ UNCHANGED <<pending, pendingDeletes, published, batch, batchDeletes, batchImage, clock>>
        /\ InHand /\ ~InHand'
    BY <1>3 DEF WriterCommit, InHand
  <2>2. DocsOK'
    BY <2>1, DocsClosed DEF CutInv, DocsOK
  <2>3. AfterBatch' = AfterBatch /\ rows' = AfterBatch
    BY <2>1 DEF AfterBatch
  <2>4. NothingLost' /\ DurableIsOneCut'
    BY <2>1, <2>3 DEF CutInv, NothingLost, DurableIsOneCut
  <2> QED BY <2>2, <2>4 DEF CutInv
<1>4. CASE WriterFail
  BY <1>4, QuietKeeps DEF WriterFail, QuietStep, InHand
<1>5. CASE WriterRestore
  <2>1. /\ pending' = SetDefaults(pending, batch)
        /\ pendingDeletes' = pendingDeletes \cup batchDeletes
        /\ UNCHANGED <<rows, durableImage, published, batch, batchDeletes, batchImage, clock>>
        /\ InHand /\ ~InHand'
    BY <1>5 DEF WriterRestore, InHand
  <2>2. DocsOK'
    BY <2>1, DocsClosed DEF CutInv, DocsOK
  <2>3. Covers(Written(Written(rows, batch, batchDeletes), pending, pendingDeletes), published)
    BY <2>1 DEF CutInv, NothingLost, AfterBatch
  <2>4. Covers(Written(rows, pending', pendingDeletes'), published)
    BY <2>1, <2>3, MergeKeepsCover DEF CutInv, DocsOK
  <2>5. NothingLost'
    BY <2>1, <2>4 DEF NothingLost, AfterBatch
  <2> QED BY <2>1, <2>2, <2>5 DEF CutInv, DurableIsOneCut
<1>6. CASE WriterReport
  BY <1>6, QuietKeeps DEF WriterReport, QuietStep, InHand
<1>7. CASE WriterExit
  BY <1>7, QuietKeeps DEF WriterExit, QuietStep, InHand
<1> QED BY <1>1, <1>2, <1>3, <1>4, <1>5, <1>6, <1>7 DEF WriterStep

LEMMA CrashKeeps == ASSUME CutInv, Crash PROVE CutInv'
<1>1. /\ pending' = NoDocs /\ pendingDeletes' = {}
      /\ published' = rows /\ durableImage' = rows /\ batchImage' = rows
      /\ batch' = NoDocs /\ rows' = rows /\ clock' = clock /\ ~InHand'
  BY DEF Crash, InHand
<1>2. rows \in Docs /\ DocsOK'
  BY <1>1, NoDocsType DEF CutInv, DocsOK
<1>3. Covers(rows, rows)
  BY DEF Covers, SameUnlessDeleted
<1>4. NothingLost'
  BY <1>1, <1>2, <1>3, WriteNothing DEF NothingLost, AfterBatch
<1> QED BY <1>1, <1>2, <1>3, <1>4 DEF CutInv, DurableIsOneCut

LEMMA OthersKeep ==
    ASSUME CutInv,
           \/ RequestFlush
           \/ \E c \in Flushers : FlushBegin(c) \/ FlushReturn(c) \/ FlushTimeout(c)
           \/ CloseStep
           \/ UNCHANGED vars
    PROVE  CutInv'
<1> USE DEF queueVars, batchVars, durableVars, eventVars, closeVars, promiseVars
<1>1. QuietStep
  BY EnsureWriterInHand
     DEF RequestFlush, FlushBegin, FlushReturn, FlushTimeout, CloseStep, CloseBegin,
         CloseFlushed, CloseFlushTimeout, CloseSetStop, CloseSetWake, CloseReturn,
         CloseJoinTimeout, CloserStep, vars, QuietStep, InHand
<1> QED BY <1>1, QuietKeeps

\* Spec => []DurableIsOneCut: whatever callers publish and delete, whatever
\* transactions fail and whenever the process dies, the tables hold every
\* character and wallet as published at one moment, up to rows whose character
\* was deleted.
THEOREM DurableCut == Spec => []DurableIsOneCut
<1>1. Init => CutInv
  BY InitCut
<1>2. CutInv /\ [Next]_vars => CutInv'
  BY PublishersKeep, WriterKeeps, CrashKeeps, OthersKeep DEF Next, CallerStep
<1>3. CutInv => DurableIsOneCut
  BY DEF CutInv
<1> QED BY <1>1, <1>2, <1>3, PTL DEF Spec

\* Spec => []NothingLost: between the dictionaries, the batch in hand and the
\* tables, no publication is ever lost, failed transactions included.
THEOREM NothingIsLost == Spec => []NothingLost
<1>1. Init => CutInv
  BY InitCut
<1>2. CutInv /\ [Next]_vars => CutInv'
  BY PublishersKeep, WriterKeeps, CrashKeeps, OthersKeep DEF Next, CallerStep
<1>3. CutInv => NothingLost
  BY DEF CutInv
<1> QED BY <1>1, <1>2, <1>3, PTL DEF Spec

-----------------------------------------------------------------------------
(* The types, and with them the order of the revisions. *)

\* Between its commit and its report the writer's batch is the durable one.
TypeInv == TypeOK /\ (writer = "written" => durableRevision = batchRevision)

\* The part publishers see to themselves.
DocTypes ==
    /\ pending \in Docs /\ published \in Docs /\ acked \in Docs
    /\ pendingDeletes \in SUBSET Characters
    /\ ackedDeletes \in SUBSET Characters
    /\ promised \in [Flushers -> [docs: Docs, deleted: SUBSET Characters]]

\* The revisions are those of TypeOK, spelled out.
LEMMA Revisions ==
    TypeInv => /\ queuedRevision \in Nat /\ batchRevision \in Nat
               /\ durableRevision \in Nat /\ writtenRevision \in Nat
               /\ writtenRevision <= durableRevision /\ durableRevision <= batchRevision
               /\ batchRevision <= queuedRevision
BY DEF TypeInv, TypeOK

LEMMA NoPromises == [c \in Flushers |-> NoPromise] \in [Flushers -> [docs: Docs, deleted: SUBSET Characters]]
BY NoDocsType DEF NoPromise

LEMMA InitTypes == Init => TypeInv
<1> SUFFICES ASSUME Init PROVE TypeInv
  OBVIOUS
<1>1. DocTypes
  BY NoDocsType, NoPromises DEF Init, DocTypes
<1>2. /\ batch \in Docs /\ rows \in Docs /\ batchImage \in Docs /\ durableImage \in Docs
      /\ batchDeletes \in SUBSET Characters
  BY NoDocsType DEF Init
<1>3. /\ queuedRevision = 0 /\ batchRevision = 0 /\ durableRevision = 0 /\ writtenRevision = 0
      /\ 0 \in Nat /\ 0 \in 0..0
  BY DEF Init
<1>4. wakeEvent \in BOOLEAN /\ stopEvent \in BOOLEAN
  BY Zenon DEF Init
<1>5. /\ writer \in WriterStates /\ closer \in CloserStates /\ writer # "written"
      /\ generation \in Nat /\ joining \in Nat /\ flusher \in [Flushers -> Nat]
  BY DEF Init, WriterStates, CloserStates, Idle
<1>6. clock \in Nat /\ failures \in Nat /\ crashes \in Nat /\ closes \in Nat
  BY DEF Init
<1> QED BY <1>1, <1>2, <1>3, <1>4, <1>5, <1>6, Zenon DEF TypeInv, TypeOK, DocTypes

\* A promise less one character.
LEMMA LessPromised ==
    ASSUME TypeOK, NEW k \in Characters
    PROVE  [c \in Flushers |-> [promised[c] EXCEPT !.docs = Without(@, {k})]]
               \in [Flushers -> [docs: Docs, deleted: SUBSET Characters]]
BY DocsClosed DEF TypeOK

\* A writer that is started, or woken.
LEMMA EnsureTyped ==
    ASSUME TypeInv, EnsureWriterAndWake
    PROVE  /\ wakeEvent' \in BOOLEAN /\ stopEvent' \in BOOLEAN /\ generation' \in Nat
           /\ writer' \in WriterStates /\ (writer' = "written" => writer = "written")
<1>1. wakeEvent' \in BOOLEAN
  BY Zenon DEF EnsureWriterAndWake
<1>2. stopEvent' \in BOOLEAN
  BY Zenon DEF EnsureWriterAndWake, TypeInv, TypeOK
<1>3. generation' \in Nat
  BY DEF EnsureWriterAndWake, TypeInv, TypeOK
<1>4. writer' \in WriterStates /\ (writer' = "written" => writer = "written")
  BY DEF EnsureWriterAndWake, TypeInv, TypeOK, WriterStates
<1> QED BY <1>1, <1>2, <1>3, <1>4

\* The part of the types that publications leave to Publish.
LEMMA PublishTypes ==
    ASSUME TypeInv, Publish
    PROVE  /\ clock' \in Nat /\ queuedRevision' \in Nat
           /\ writtenRevision' \in 0..durableRevision' /\ durableRevision' \in 0..batchRevision'
           /\ batchRevision' \in 0..queuedRevision'
           /\ batch' \in Docs /\ rows' \in Docs /\ batchImage' \in Docs /\ durableImage' \in Docs
           /\ batchDeletes' \in SUBSET Characters
           /\ wakeEvent' \in BOOLEAN /\ stopEvent' \in BOOLEAN
           /\ writer' \in WriterStates /\ generation' \in Nat
           /\ flusher' \in [Flushers -> Nat]
           /\ closer' \in CloserStates /\ joining' \in Nat
           /\ failures' \in Nat /\ crashes' \in Nat /\ closes' \in Nat
           /\ (writer' = "written" => durableRevision' = batchRevision')
<1>1. writer' \in WriterStates /\ (writer' = "written" => writer = "written")
  BY DEF Publish, EnsureWriterAndWake, TypeInv, TypeOK, WriterStates
<1>2. generation' \in Nat /\ wakeEvent' \in BOOLEAN /\ stopEvent' \in BOOLEAN
  BY EnsureTyped DEF Publish
<1>3. queuedRevision' \in Nat /\ batchRevision' \in 0..queuedRevision'
  BY Revisions DEF Publish, batchVars
<1> QED
  BY <1>1, <1>2, <1>3 DEF Publish, TypeInv, TypeOK, batchVars, durableVars, closeVars

LEMMA PublishersTyped ==
    ASSUME TypeInv,
           \/ \E a \in Accounts : QueueWallet(a)
           \/ \E k \in Characters : QueueState(k) \/ QueueProfile(k)
           \/ \E k \in Deletable : QueueDelete(k)
    PROVE  TypeInv'
<1>0. Publish
  BY DEF QueueWallet, QueueState, QueueProfile, QueueDelete
<1>1. clock' \in Nat /\ DocTypes
  BY <1>0, PublishTypes DEF TypeInv, TypeOK, DocTypes
<1>2. SUFFICES DocTypes'
  BY <1>0, PublishTypes DEF TypeInv, TypeOK, DocTypes
<1>3. ASSUME NEW k \in Characters, Undeleted(k)
      PROVE  /\ acked' \in Docs /\ ackedDeletes' \in SUBSET Characters
             /\ promised' \in [Flushers -> [docs: Docs, deleted: SUBSET Characters]]
  BY <1>1, <1>3 DEF Undeleted, DocTypes
<1>4. ASSUME NEW a \in Accounts, QueueWallet(a) PROVE DocTypes'
  <2>1. pending' \in Docs /\ published' \in Docs
    BY <1>1, <1>4 DEF QueueWallet, DocTypes, Docs
  <2> QED BY <1>1, <1>4, <2>1 DEF QueueWallet, DocTypes, promiseVars
<1>5. ASSUME NEW k \in Characters, QueueState(k) PROVE DocTypes'
  <2>1. pending' \in Docs /\ published' \in Docs
    BY <1>1, <1>5, SnapshotEntries DEF QueueState, DocTypes
  <2>2. Undeleted(k) /\ pendingDeletes' \in SUBSET Characters
    BY <1>1, <1>5 DEF QueueState, DocTypes
  <2> QED BY <1>3, <2>1, <2>2 DEF DocTypes
<1>6. ASSUME NEW k \in Characters, QueueProfile(k) PROVE DocTypes'
  <2>1. pending' \in Docs /\ published' \in Docs
    BY <1>1, <1>6 DEF QueueProfile, DocTypes, Docs
  <2>2. Undeleted(k) /\ pendingDeletes' \in SUBSET Characters
    BY <1>1, <1>6 DEF QueueProfile, DocTypes
  <2> QED BY <1>3, <2>1, <2>2 DEF DocTypes
<1>7. ASSUME NEW k \in Deletable, QueueDelete(k) PROVE DocTypes'
  <2>1. k \in Characters
    BY DeletableAssumption
  <2>2. pending' \in Docs /\ published' \in Docs /\ acked' \in Docs
    BY <1>1, <1>7, DocsClosed DEF QueueDelete, DocTypes
  <2>3. promised' \in [Flushers -> [docs: Docs, deleted: SUBSET Characters]]
    BY <1>7, <2>1, LessPromised DEF QueueDelete, TypeInv
  <2>4. pendingDeletes' \in SUBSET Characters /\ ackedDeletes' \in SUBSET Characters
    BY <1>1, <1>7, <2>1 DEF QueueDelete, DocTypes
  <2> QED BY <2>2, <2>3, <2>4 DEF DocTypes
<1> QED BY <1>4, <1>5, <1>6, <1>7

\* flush() and close() move no document.
LEMMA CallersTyped ==
    ASSUME TypeInv,
           \/ RequestFlush
           \/ \E c \in Flushers : FlushBegin(c) \/ FlushReturn(c) \/ FlushTimeout(c)
           \/ CloseStep
    PROVE  TypeInv'
<1> USE DEF TypeInv, TypeOK, queueVars, batchVars, durableVars, closeVars, eventVars
<1>1. EnsureWriterAndWake =>
          /\ wakeEvent' \in BOOLEAN /\ stopEvent' \in BOOLEAN /\ generation' \in Nat
          /\ writer' \in WriterStates /\ (writer' = "written" => writer = "written")
  BY EnsureTyped
<1>2. CASE RequestFlush
  BY <1>1, <1>2 DEF RequestFlush, promiseVars
<1>3. ASSUME NEW c \in Flushers, FlushBegin(c) PROVE TypeInv'
  BY <1>1, <1>3 DEF FlushBegin
<1>4. ASSUME NEW c \in Flushers, FlushReturn(c) PROVE TypeInv'
  <2>1. promised[c].docs \in Docs /\ promised[c].deleted \in SUBSET Characters
    OBVIOUS
  <2>2. acked' \in Docs /\ ackedDeletes' \in SUBSET Characters
    BY <1>4, <2>1, DocsClosed DEF FlushReturn
  <2>3. promised' \in [Flushers -> [docs: Docs, deleted: SUBSET Characters]]
    BY <1>4, NoDocsType DEF FlushReturn, NoPromise
  <2> QED BY <1>4, <2>2, <2>3 DEF FlushReturn, Idle
<1>5. ASSUME NEW c \in Flushers, FlushTimeout(c) PROVE TypeInv'
  <2>1. promised' \in [Flushers -> [docs: Docs, deleted: SUBSET Characters]]
    BY <1>5, NoDocsType DEF FlushTimeout, NoPromise
  <2> QED BY <1>5, <2>1 DEF FlushTimeout, Idle
<1>6. CASE CloseBegin
  BY <1>1, <1>6 DEF CloseBegin, CloserStates, promiseVars
<1>7. CASE CloseStep /\ ~CloseBegin
  BY <1>7 DEF CloseStep, CloseFlushed, CloseFlushTimeout, CloseSetStop, CloseSetWake, CloseReturn,
              CloseJoinTimeout, CloserStep, CloserStates, promiseVars
<1> QED BY <1>2, <1>3, <1>4, <1>5, <1>6, <1>7

LEMMA WriterTyped == ASSUME TypeInv, WriterStep PROVE TypeInv'
<1> USE DEF TypeInv, TypeOK, WriterFrame, WriterStates, batchVars, durableVars, closeVars,
            eventVars, promiseVars
<1>1. CASE WriterCheck
  BY <1>1 DEF WriterCheck
<1>2. CASE WriterTake
  <2>1. wakeEvent' \in BOOLEAN /\ writer' \in WriterStates /\ writer' # "written"
    BY <1>2 DEF WriterTake
  <2>2. /\ batchRevision' \in 0..queuedRevision' /\ durableRevision' \in 0..batchRevision'
        /\ writtenRevision' \in 0..durableRevision' /\ queuedRevision' \in Nat
    BY <1>2, Revisions DEF WriterTake
  <2>3. pending' \in Docs /\ pendingDeletes' \in SUBSET Characters
    BY <1>2, NoDocsType DEF WriterTake
  <2> QED BY <1>2, <2>1, <2>2, <2>3 DEF WriterTake
<1>3. CASE WriterCommit
  <2>1. rows' \in Docs
    BY <1>3, DocsClosed DEF WriterCommit
  <2> QED BY <1>3, <2>1, Revisions DEF WriterCommit
<1>4. CASE WriterFail
  BY <1>4 DEF WriterFail
<1>5. CASE WriterRestore
  <2>1. pending' \in Docs
    BY <1>5, DocsClosed DEF WriterRestore
  <2> QED BY <1>5, <2>1 DEF WriterRestore
<1>6. CASE WriterReport
  BY <1>6, Revisions DEF WriterReport
<1>7. CASE WriterExit
  BY <1>7 DEF WriterExit
<1> QED BY <1>1, <1>2, <1>3, <1>4, <1>5, <1>6, <1>7 DEF WriterStep

LEMMA CrashTyped == ASSUME TypeInv, Crash PROVE TypeInv'
<1>1. DocTypes'
  BY NoDocsType, NoPromises DEF Crash, TypeInv, TypeOK, DocTypes
<1>2. /\ batch' \in Docs /\ rows' \in Docs /\ batchImage' \in Docs /\ durableImage' \in Docs
      /\ batchDeletes' \in SUBSET Characters
  BY NoDocsType DEF Crash, TypeInv, TypeOK
<1>3. /\ queuedRevision' = 0 /\ batchRevision' = 0 /\ durableRevision' = 0 /\ writtenRevision' = 0
      /\ 0 \in Nat /\ 0 \in 0..0
  BY DEF Crash
<1>4. wakeEvent' \in BOOLEAN /\ stopEvent' \in BOOLEAN
  BY Zenon DEF Crash
<1>5. /\ writer' \in WriterStates /\ closer' \in CloserStates /\ writer' # "written"
      /\ generation' \in Nat /\ joining' \in Nat /\ flusher' \in [Flushers -> Nat]
  BY DEF Crash, WriterStates, CloserStates, Idle
<1>6. clock' \in Nat /\ failures' \in Nat /\ crashes' \in Nat /\ closes' \in Nat
  BY DEF Crash, TypeInv, TypeOK
<1> QED BY <1>1, <1>2, <1>3, <1>4, <1>5, <1>6, Zenon DEF TypeInv, TypeOK, DocTypes

\* The types are right, and what is reported as written is durable, what is
\* durable was in a batch, and a batch was queued: the revisions stay in order
\* through failures, closings and crashes.
THEOREM TypeCorrect == Spec => []TypeOK
<1>1. TypeInv /\ [Next]_vars => TypeInv'
  <2> SUFFICES ASSUME TypeInv, [Next]_vars PROVE TypeInv'
    OBVIOUS
  <2>1. CASE UNCHANGED vars
    BY <2>1 DEF vars, TypeInv, TypeOK, queueVars, batchVars, durableVars, closeVars, eventVars,
                promiseVars
  <2>2. CASE Next
    BY <2>2, PublishersTyped, CallersTyped, WriterTyped, CrashTyped DEF Next, CallerStep
  <2> QED BY <2>1, <2>2
<1>2. TypeInv => TypeOK
  BY DEF TypeInv
<1> QED BY <1>1, <1>2, InitTypes, PTL DEF Spec
-----------------------------------------------------------------------------
(* What flush() promised.  FlushedSurvives speaks of flushes that have       *)
(* returned; its induction needs those still waiting (a promise is kept by   *)
(* the tables once the durable revision has reached its target, and by the   *)
(* batch in hand once the revision taken with the batch has) and, because a  *)
(* flush may begin while the batch it needs is already being written, that a *)
(* batch or a commit of the newest revision holds what is published now.     *)

AtLeastDocs(d, e) ==
    /\ AtLeast(d.states, e.states)
    /\ AtLeast(d.profiles, e.profiles)
    /\ AtLeast(d.wallets, e.wallets)

\* No document is newer than the number n.
AtMost(d, n) ==
    /\ \A k \in Characters : d.states[k] <= n /\ d.profiles[k] <= n
    /\ \A a \in Accounts : d.wallets[a] <= n

Stamped ==
    /\ AtMost(pending, clock) /\ AtMost(batch, clock)
    /\ AtMost(rows, clock) /\ AtMost(published, clock)

Images ==
    /\ InHand /\ batchRevision = queuedRevision => batchImage = published
    /\ durableRevision = queuedRevision => durableImage = published

\* docs hold what the returned flushes have promised, and the waiting ones
\* whose target is not beyond revision.
Kept(docs, revision) ==
    /\ AtLeastDocs(docs, acked)
    /\ \A c \in Flushers :
           flusher[c] # Idle /\ flusher[c] <= revision
               => AtLeastDocs(docs, promised[c].docs)

Promises ==
    /\ Kept(published, queuedRevision)
    /\ \A c \in Flushers : flusher[c] <= queuedRevision
    /\ InHand => Kept(AfterBatch, batchRevision)
    /\ Kept(rows, durableRevision)

FlushInv == TypeInv /\ CutInv /\ Stamped /\ Images /\ Promises

\* The comparison, key by key.
LEMMA AtLeastKeys ==
    ASSUME NEW d \in Docs, NEW e \in Docs
    PROVE  AtLeastDocs(d, e) <=>
             /\ \A k \in Characters : /\ d.states[k] >= e.states[k]
                                      /\ d.profiles[k] >= e.profiles[k]
             /\ \A a \in Accounts : d.wallets[a] >= e.wallets[a]
BY DEF AtLeastDocs, AtLeast, Docs

LEMMA EntryTypes ==
    ASSUME NEW d \in Docs
    PROVE  /\ \A k \in Characters : d.states[k] \in Nat /\ d.profiles[k] \in Nat
           /\ \A a \in Accounts : d.wallets[a] \in Nat
BY DEF Docs

\* Documents that cover an image hold every promise the image holds: where
\* the image has no row, nothing was promised.
LEMMA CoverCarries ==
    ASSUME NEW d \in Docs, NEW image \in Docs, NEW e \in Docs,
           Covers(d, image), AtLeastDocs(image, e)
    PROVE  AtLeastDocs(d, e)
<1>1. /\ \A k \in Characters : /\ image.states[k] >= e.states[k]
                               /\ image.profiles[k] >= e.profiles[k]
      /\ \A a \in Accounts : image.wallets[a] >= e.wallets[a]
  BY AtLeastKeys
<1>2. /\ \A k \in Characters :
            /\ image.states[k] # NoRow => d.states[k] = image.states[k]
            /\ image.profiles[k] # NoRow => d.profiles[k] = image.profiles[k]
      /\ d.wallets = image.wallets
  BY DEF Covers, SameUnlessDeleted, Docs
<1>3. \A k \in Characters : d.states[k] >= e.states[k] /\ d.profiles[k] >= e.profiles[k]
  BY <1>1, <1>2, EntryTypes DEF NoRow
<1> QED BY <1>1, <1>2, <1>3, AtLeastKeys

LEMMA AtLeastItself == ASSUME NEW d \in Docs PROVE AtLeastDocs(d, d)
BY AtLeastKeys, EntryTypes

LEMMA AtLeastNoDocs == ASSUME NEW d \in Docs PROVE AtLeastDocs(d, NoDocs)
BY AtLeastKeys, EntryTypes, NoDocsType DEF NoDocs, NoRow

\* Two promises in one.
LEMMA BothPromises ==
    ASSUME NEW d \in Docs, NEW e \in Docs, NEW f \in Docs,
           AtLeastDocs(d, e), AtLeastDocs(d, f)
    PROVE  AtLeastDocs(d, SetDefaults(e, f))
<1> DEFINE both == SetDefaults(e, f)
<1>1. both \in Docs
  BY DocsClosed
<1>2. /\ \A k \in Characters :
            /\ both.states[k] = IF e.states[k] # NoRow THEN e.states[k] ELSE f.states[k]
            /\ both.profiles[k] = IF e.profiles[k] # NoRow THEN e.profiles[k] ELSE f.profiles[k]
      /\ \A a \in Accounts :
            both.wallets[a] = IF e.wallets[a] # NoRow THEN e.wallets[a] ELSE f.wallets[a]
  BY OverType DEF SetDefaults, Docs
<1> HIDE DEF both
<1>3. AtLeastDocs(d, both)
  BY <1>1, <1>2, AtLeastKeys
<1> QED BY <1>3 DEF both

\* Forgetting a character lessens a promise, and weighs on nothing else.
LEMMA LessIsPromised ==
    ASSUME NEW d \in Docs, NEW e \in Docs, NEW D, AtLeastDocs(d, e)
    PROVE  AtLeastDocs(d, Without(e, D)) /\ AtLeastDocs(Without(d, D), Without(e, D))
<1> DEFINE less == Without(e, D)
           kept == Without(d, D)
<1>1. less \in Docs /\ kept \in Docs
  BY DocsClosed
<1>2. /\ \A k \in Characters :
           /\ less.states[k] = IF k \in D THEN NoRow ELSE e.states[k]
           /\ less.profiles[k] = IF k \in D THEN NoRow ELSE e.profiles[k]
           /\ kept.states[k] = IF k \in D THEN NoRow ELSE d.states[k]
           /\ kept.profiles[k] = IF k \in D THEN NoRow ELSE d.profiles[k]
      /\ less.wallets = e.wallets /\ kept.wallets = d.wallets
  BY DEF Without, Docs
<1>3. /\ \A k \in Characters : d.states[k] >= e.states[k] /\ d.profiles[k] >= e.profiles[k]
      /\ \A a \in Accounts : d.wallets[a] >= e.wallets[a]
  BY AtLeastKeys
<1> HIDE DEF less, kept
<1>4. /\ \A k \in Characters : /\ d.states[k] >= less.states[k]
                               /\ d.profiles[k] >= less.profiles[k]
                               /\ kept.states[k] >= less.states[k]
                               /\ kept.profiles[k] >= less.profiles[k]
      /\ \A a \in Accounts : /\ d.wallets[a] >= less.wallets[a]
                             /\ kept.wallets[a] >= less.wallets[a]
  BY <1>2, <1>3, EntryTypes DEF NoRow
<1>5. AtLeastDocs(d, less) /\ AtLeastDocs(kept, less)
  BY <1>1, <1>4, AtLeastKeys
<1> QED BY <1>5 DEF less, kept

\* The transaction and the merge write nothing newer than what they are given.
LEMMA WrittenStamps ==
    ASSUME NEW t \in Docs, NEW d \in Docs, NEW D, NEW n \in Nat, AtMost(t, n), AtMost(d, n)
    PROVE  AtMost(Written(t, d, D), n) /\ AtMost(SetDefaults(d, t), n)
<1>1. AtMost(Written(t, d, D), n)
  BY WrittenRows DEF AtMost, NoRow
<1> DEFINE both == SetDefaults(d, t)
<1>2. /\ \A k \in Characters :
            /\ both.states[k] = IF d.states[k] # NoRow THEN d.states[k] ELSE t.states[k]
            /\ both.profiles[k] = IF d.profiles[k] # NoRow THEN d.profiles[k] ELSE t.profiles[k]
      /\ \A a \in Accounts :
            both.wallets[a] = IF d.wallets[a] # NoRow THEN d.wallets[a] ELSE t.wallets[a]
  BY OverType DEF SetDefaults, Docs
<1> HIDE DEF both
<1>3. AtMost(both, n)
  BY <1>2 DEF AtMost
<1> QED BY <1>1, <1>3 DEF both

-----------------------------------------------------------------------------
(* The steps. *)

LEMMA InitFlush == Init => FlushInv
<1> SUFFICES ASSUME Init PROVE FlushInv
  OBVIOUS
<1>1. AtMost(NoDocs, 0)
  BY DEF AtMost, NoDocs, NoRow
<1>2. Stamped /\ Images
  BY <1>1 DEF Init, Stamped, Images
<1>3. \A c \in Flushers : flusher[c] = Idle /\ flusher[c] <= queuedRevision
  BY DEF Init, Idle
<1>4. AtLeastDocs(NoDocs, NoDocs)
  BY NoDocsType, AtLeastItself
<1>5. ASSUME NEW r PROVE Kept(NoDocs, r)
  BY <1>3, <1>4 DEF Init, Kept
<1>6. published = NoDocs /\ rows = NoDocs /\ ~InHand
  BY DEF Init, InHand
<1>7. Promises
  <2>1. Kept(published, queuedRevision) /\ Kept(rows, durableRevision)
    BY <1>5, <1>6, Zenon
  <2> QED BY <1>3, <1>6, <2>1, Zenon DEF Promises
<1> QED BY <1>2, <1>7, InitTypes, InitCut DEF FlushInv

\* The types this part of the argument uses.
LEMMA FlushTypes ==
    FlushInv => /\ pending \in Docs /\ batch \in Docs /\ rows \in Docs
                /\ published \in Docs /\ batchImage \in Docs /\ durableImage \in Docs
                /\ acked \in Docs /\ AfterBatch \in Docs
                /\ \A c \in Flushers : promised[c].docs \in Docs
                /\ promised \in [Flushers -> [docs: Docs, deleted: SUBSET Characters]]
                /\ flusher \in [Flushers -> Nat] /\ clock \in Nat
                /\ queuedRevision \in Nat /\ batchRevision \in Nat /\ durableRevision \in Nat
                /\ writtenRevision \in Nat /\ writtenRevision <= durableRevision
                /\ durableRevision <= batchRevision /\ batchRevision <= queuedRevision
<1> SUFFICES ASSUME FlushInv PROVE /\ AfterBatch \in Docs
                                   /\ \A c \in Flushers : promised[c].docs \in Docs
  BY Revisions DEF FlushInv, TypeInv, TypeOK
<1> QED BY DocsClosed DEF FlushInv, TypeInv, TypeOK, AfterBatch

\* Documents in which an entry is as it was or newer than all there were.
LEMMA NewerIsMore ==
    ASSUME NEW i \in Docs, NEW j \in Docs, NEW n \in Nat, AtMost(i, n),
           /\ \A k \in Characters : /\ j.states[k] \in {i.states[k], n + 1}
                                    /\ j.profiles[k] \in {i.profiles[k], n + 1}
           /\ \A a \in Accounts : j.wallets[a] \in {i.wallets[a], n + 1}
    PROVE  /\ AtMost(j, n + 1)
           /\ \A e \in Docs : AtLeastDocs(i, e) => AtLeastDocs(j, e)
<1>1. /\ \A k \in Characters : /\ j.states[k] >= i.states[k] /\ j.states[k] <= n + 1
                               /\ j.profiles[k] >= i.profiles[k] /\ j.profiles[k] <= n + 1
      /\ \A a \in Accounts : j.wallets[a] >= i.wallets[a] /\ j.wallets[a] <= n + 1
  BY EntryTypes DEF AtMost
<1>2. ASSUME NEW e \in Docs, AtLeastDocs(i, e) PROVE AtLeastDocs(j, e)
  <2>1. /\ \A k \in Characters : i.states[k] >= e.states[k] /\ i.profiles[k] >= e.profiles[k]
        /\ \A a \in Accounts : i.wallets[a] >= e.wallets[a]
    BY <1>2, AtLeastKeys
  <2>2. /\ \A k \in Characters : j.states[k] >= e.states[k] /\ j.profiles[k] >= e.profiles[k]
        /\ \A a \in Accounts : j.wallets[a] >= e.wallets[a]
    BY <1>1, <2>1, EntryTypes
  <2> QED BY <2>2, AtLeastKeys
<1> QED BY <1>1, <1>2 DEF AtMost

LEMMA AtMostMore ==
    ASSUME NEW d \in Docs, NEW n \in Nat, AtMost(d, n) PROVE AtMost(d, n + 1)
BY EntryTypes DEF AtMost

\* What every publication leaves, and what it makes vacuous: neither the batch
\* in hand nor the last committed one is of the newest revision any more.
LEMMA PublishFlush ==
    ASSUME FlushInv, Publish
    PROVE  /\ clock' = clock + 1 /\ queuedRevision' = queuedRevision + 1
           /\ AfterBatch' = AfterBatch /\ InHand' = InHand
           /\ UNCHANGED <<rows, batch, batchRevision, durableRevision, flusher>>
           /\ Images'
<1>1. /\ clock' = clock + 1 /\ queuedRevision' = queuedRevision + 1
      /\ UNCHANGED <<rows, batch, batchDeletes, batchRevision, durableRevision, flusher>>
      /\ InHand' = InHand
  BY EnsureWriterInHand DEF Publish, batchVars, durableVars
<1>2. AfterBatch' = AfterBatch
  BY <1>1 DEF AfterBatch
<1>3. batchRevision' # queuedRevision' /\ durableRevision' # queuedRevision'
  BY <1>1, FlushTypes
<1> QED BY <1>1, <1>2, <1>3 DEF Images

\* A publication that adds: queue_wallet, queue_state, queue_profile.
AddingStep ==
    /\ Publish
    /\ \A k \in Characters :
         /\ published'.states[k] \in {published.states[k], clock + 1}
         /\ published'.profiles[k] \in {published.profiles[k], clock + 1}
         /\ pending'.states[k] \in {pending.states[k], clock + 1}
         /\ pending'.profiles[k] \in {pending.profiles[k], clock + 1}
    /\ \A a \in Accounts :
         /\ published'.wallets[a] \in {published.wallets[a], clock + 1}
         /\ pending'.wallets[a] \in {pending.wallets[a], clock + 1}
    /\ acked' = acked
    /\ \A c \in Flushers : promised'[c].docs = promised[c].docs

LEMMA AddingKeeps ==
    ASSUME FlushInv, AddingStep, pending' \in Docs, published' \in Docs
    PROVE  Stamped' /\ Images' /\ Promises'
<1>1. /\ clock' = clock + 1 /\ queuedRevision' = queuedRevision + 1
      /\ AfterBatch' = AfterBatch /\ InHand' = InHand
      /\ UNCHANGED <<rows, batch, batchRevision, durableRevision, flusher>>
      /\ Images'
  BY PublishFlush DEF AddingStep
<1>2. /\ AtMost(published', clock + 1) /\ AtMost(pending', clock + 1)
      /\ \A e \in Docs : AtLeastDocs(published, e) => AtLeastDocs(published', e)
  BY FlushTypes, NewerIsMore DEF AddingStep, FlushInv, Stamped
<1>3. Stamped'
  BY <1>1, <1>2, FlushTypes, AtMostMore DEF FlushInv, Stamped
<1>4. /\ acked' = acked
      /\ \A c \in Flushers : promised'[c].docs = promised[c].docs
  BY DEF AddingStep
<1>5. Kept(published, queuedRevision) /\ \A c \in Flushers : flusher[c] <= queuedRevision
  BY DEF FlushInv, Promises
<1>6. Kept(published, queuedRevision)'
  <2>1. AtLeastDocs(published', acked')
    BY <1>2, <1>4, <1>5, FlushTypes DEF Kept
  <2>2. \A c \in Flushers : flusher'[c] # Idle => AtLeastDocs(published', promised'[c].docs)
    BY <1>1, <1>2, <1>4, <1>5, FlushTypes DEF Kept
  <2> QED BY <2>1, <2>2 DEF Kept
<1>7. \A c \in Flushers : flusher'[c] <= queuedRevision'
  BY <1>1, <1>5, FlushTypes
<1>8. InHand' => Kept(AfterBatch, batchRevision)'
  <2>1. InHand => Kept(AfterBatch, batchRevision)
    BY DEF FlushInv, Promises
  <2>2. Kept(AfterBatch, batchRevision) => Kept(AfterBatch, batchRevision)'
    BY <1>1, <1>4 DEF Kept
  <2> QED BY <1>1, <2>1, <2>2
<1>9. Kept(rows, durableRevision)'
  <2>1. Kept(rows, durableRevision)
    BY DEF FlushInv, Promises
  <2> QED BY <1>1, <1>4, <2>1 DEF Kept
<1> QED BY <1>1, <1>3, <1>6, <1>7, <1>8, <1>9 DEF Promises

LEMMA PublishersKeepFlush ==
    ASSUME FlushInv, TypeInv', CutInv',
           \/ \E a \in Accounts : QueueWallet(a)
           \/ \E k \in Characters : QueueState(k)
           \/ \E k \in Characters : QueueProfile(k)
           \/ \E k \in Deletable : QueueDelete(k)
    PROVE  FlushInv'
<1>0. pending' \in Docs /\ published' \in Docs /\ acked' \in Docs
  BY DEF TypeInv, TypeOK
<1>1. SUFFICES Stamped' /\ Images' /\ Promises'
  BY DEF FlushInv
<1>2. CASE \E a \in Accounts : QueueWallet(a)
  <2>1. PICK a \in Accounts : QueueWallet(a)
    BY <1>2
  <2>2. /\ Publish /\ clock' = clock + 1 /\ acked' = acked /\ promised' = promised
        /\ pending' = [pending EXCEPT !.wallets[a] = clock + 1]
        /\ published' = [published EXCEPT !.wallets[a] = clock + 1]
    BY <2>1 DEF QueueWallet, Publish, promiseVars
  <2>3. /\ pending'.states = pending.states /\ pending'.profiles = pending.profiles
        /\ published'.states = published.states /\ published'.profiles = published.profiles
        /\ pending'.wallets = [pending.wallets EXCEPT ![a] = clock + 1]
        /\ published'.wallets = [published.wallets EXCEPT ![a] = clock + 1]
    BY <2>2, FlushTypes DEF Docs
  <2>4. pending.wallets \in [Accounts -> Nat] /\ published.wallets \in [Accounts -> Nat]
    BY FlushTypes DEF Docs
  <2>5. AddingStep
    BY <2>2, <2>3, <2>4 DEF AddingStep
  <2> QED BY <1>0, <2>5, AddingKeeps
<1>3. CASE \E k \in Characters : QueueState(k)
  <2>1. PICK k \in Characters : QueueState(k)
    BY <1>3
  <2>2. PICK p \in BOOLEAN, w \in BOOLEAN :
            /\ Publish /\ clock' = clock + 1 /\ Undeleted(k)
            /\ pending' = Snapshot(pending, k, clock + 1, p, w)
            /\ published' = Snapshot(published, k, clock + 1, p, w)
    BY <2>1 DEF QueueState, Publish
  <2>3. acked' = acked /\ \A c \in Flushers : promised'[c].docs = promised[c].docs
    BY <2>2, FlushTypes DEF Undeleted
  <2>4. clock + 1 \in Nat
    BY FlushTypes
  <2>5. /\ \A c \in Characters :
              /\ published'.states[c] \in {published.states[c], clock + 1}
              /\ published'.profiles[c] \in {published.profiles[c], clock + 1}
        /\ \A a \in Accounts : published'.wallets[a] \in {published.wallets[a], clock + 1}
    <3>1. published \in Docs
      BY FlushTypes
    <3>2. /\ \A c \in Characters :
               /\ published'.states[c] = IF c = k THEN clock + 1 ELSE published.states[c]
               /\ published'.profiles[c] = IF c = k /\ p THEN clock + 1 ELSE published.profiles[c]
          /\ \A a \in Accounts :
               published'.wallets[a] = IF a = Owner[k] /\ w THEN clock + 1 ELSE published.wallets[a]
      BY <2>2, <2>4, <3>1, SnapshotEntries
    <3> QED BY <3>2
  <2>6. /\ \A c \in Characters :
              /\ pending'.states[c] \in {pending.states[c], clock + 1}
              /\ pending'.profiles[c] \in {pending.profiles[c], clock + 1}
        /\ \A a \in Accounts : pending'.wallets[a] \in {pending.wallets[a], clock + 1}
    <3>1. pending \in Docs
      BY FlushTypes
    <3>2. /\ \A c \in Characters :
               /\ pending'.states[c] = IF c = k THEN clock + 1 ELSE pending.states[c]
               /\ pending'.profiles[c] = IF c = k /\ p THEN clock + 1 ELSE pending.profiles[c]
          /\ \A a \in Accounts :
               pending'.wallets[a] = IF a = Owner[k] /\ w THEN clock + 1 ELSE pending.wallets[a]
      BY <2>2, <2>4, <3>1, SnapshotEntries
    <3> QED BY <3>2
  <2>7. AddingStep
    BY <2>2, <2>3, <2>5, <2>6 DEF AddingStep
  <2> QED BY <1>0, <2>7, AddingKeeps
<1>4. CASE \E k \in Characters : QueueProfile(k)
  <2>1. PICK k \in Characters : QueueProfile(k)
    BY <1>4
  <2>2. /\ Publish /\ clock' = clock + 1 /\ Undeleted(k)
        /\ pending' = [pending EXCEPT !.profiles[k] = clock + 1]
        /\ published' = [published EXCEPT !.profiles[k] = clock + 1]
    BY <2>1 DEF QueueProfile, Publish
  <2>3. acked' = acked /\ \A c \in Flushers : promised'[c].docs = promised[c].docs
    BY <2>2, FlushTypes DEF Undeleted
  <2>4. /\ pending'.states = pending.states /\ pending'.wallets = pending.wallets
        /\ published'.states = published.states /\ published'.wallets = published.wallets
        /\ pending'.profiles = [pending.profiles EXCEPT ![k] = clock + 1]
        /\ published'.profiles = [published.profiles EXCEPT ![k] = clock + 1]
    BY <2>2, FlushTypes DEF Docs
  <2>5. pending.profiles \in [Characters -> Nat] /\ published.profiles \in [Characters -> Nat]
    BY FlushTypes DEF Docs
  <2>6. AddingStep
    BY <2>2, <2>3, <2>4, <2>5 DEF AddingStep
  <2> QED BY <1>0, <2>6, AddingKeeps
<1>5. CASE \E k \in Deletable : QueueDelete(k)
  <2>1. PICK k \in Deletable : QueueDelete(k)
    BY <1>5
  <2>2. /\ Publish
        /\ pending' = Without(pending, {k}) /\ published' = Without(published, {k})
        /\ acked' = Without(acked, {k})
        /\ promised' = [c \in Flushers |-> [promised[c] EXCEPT !.docs = Without(@, {k})]]
    BY <2>1 DEF QueueDelete
  <2>3. \A c \in Flushers : promised'[c].docs = Without(promised[c].docs, {k})
    BY <2>2, FlushTypes
  <2>4. /\ clock' = clock + 1 /\ queuedRevision' = queuedRevision + 1
        /\ AfterBatch' = AfterBatch /\ InHand' = InHand
        /\ UNCHANGED <<rows, batch, batchRevision, durableRevision, flusher>>
        /\ Images'
    BY <2>2, PublishFlush
  <2>5. \A d \in Docs : AtMost(d, clock) => AtMost(Without(d, {k}), clock + 1)
    BY FlushTypes, EntryTypes DEF AtMost, Without, Docs, NoRow
  <2>6. Stamped'
    BY <2>2, <2>4, <2>5, FlushTypes, AtMostMore DEF FlushInv, Stamped
  <2>7. \A c \in Flushers : flusher[c] <= queuedRevision /\ flusher'[c] <= queuedRevision'
    BY <2>4, FlushTypes DEF FlushInv, Promises
  <2>8. Kept(published, queuedRevision)'
    <3>1. Kept(published, queuedRevision)
      BY DEF FlushInv, Promises
    <3>2. AtLeastDocs(published', acked')
      BY <2>2, <3>1, FlushTypes, LessIsPromised DEF Kept
    <3>3. \A c \in Flushers : flusher'[c] # Idle => AtLeastDocs(published', promised'[c].docs)
      BY <2>2, <2>3, <2>4, <2>7, <3>1, FlushTypes, LessIsPromised DEF Kept
    <3> QED BY <3>2, <3>3 DEF Kept
  <2>9. ASSUME NEW d \in Docs, NEW r, Kept(d, r)
        PROVE  /\ AtLeastDocs(d, acked')
               /\ \A c \in Flushers : flusher'[c] # Idle /\ flusher'[c] <= r
                                          => AtLeastDocs(d, promised'[c].docs)
    BY <2>2, <2>3, <2>4, <2>9, FlushTypes, LessIsPromised DEF Kept
  <2>10. InHand' => Kept(AfterBatch, batchRevision)'
    <3>1. InHand' => Kept(AfterBatch, batchRevision)
      BY <2>4 DEF FlushInv, Promises
    <3> QED BY <2>4, <2>9, <3>1, FlushTypes DEF Kept
  <2>11. Kept(rows, durableRevision)'
    <3>1. Kept(rows, durableRevision)
      BY DEF FlushInv, Promises
    <3> QED BY <2>4, <2>9, <3>1, FlushTypes DEF Kept
  <2>12. Promises'
    BY <2>7, <2>8, <2>10, <2>11 DEF Promises
  <2> QED BY <2>4, <2>6, <2>12
<1> QED BY <1>2, <1>3, <1>4, <1>5

\* A step that leaves the documents, the revisions and the promises alone.
CalmStep ==
    /\ UNCHANGED <<pending, batch, batchDeletes, rows, published, batchImage, durableImage, clock,
                   queuedRevision, batchRevision, durableRevision, flusher, promised, acked>>
    /\ InHand' = InHand

LEMMA CalmKeeps == ASSUME FlushInv, TypeInv', CutInv', CalmStep PROVE FlushInv'
<1>1. AfterBatch' = AfterBatch
  BY DEF CalmStep, AfterBatch
<1>2. Stamped' /\ Images'
  BY DEF FlushInv, CalmStep, Stamped, Images
<1>3. Kept(published, queuedRevision)' /\ Kept(rows, durableRevision)'
  BY DEF FlushInv, CalmStep, Promises, Kept
<1>4. Kept(AfterBatch, batchRevision) => Kept(AfterBatch, batchRevision)'
  BY <1>1 DEF CalmStep, Kept
<1>5. InHand' => Kept(AfterBatch, batchRevision)'
  BY <1>4 DEF FlushInv, CalmStep, Promises
<1>6. \A c \in Flushers : flusher'[c] <= queuedRevision'
  BY DEF FlushInv, CalmStep, Promises
<1>7. Promises'
  BY <1>3, <1>5, <1>6 DEF Promises
<1> QED BY <1>2, <1>7 DEF FlushInv

\* flush(): one that begins asks for what is published now, which the batch in
\* hand or the tables may hold already; one that returns adds its promise to
\* those the tables keep.
LEMMA FlushersKeepFlush ==
    ASSUME FlushInv, TypeInv', CutInv', NEW c \in Flushers,
           FlushBegin(c) \/ FlushReturn(c) \/ FlushTimeout(c)
    PROVE  FlushInv'
<1>1. /\ UNCHANGED <<pending, batch, batchDeletes, rows, published, batchImage, durableImage,
                     clock, queuedRevision, batchRevision, durableRevision>>
      /\ InHand' = InHand
  BY EnsureWriterInHand
     DEF FlushBegin, FlushReturn, FlushTimeout, queueVars, batchVars, durableVars, InHand
<1>2. AfterBatch' = AfterBatch
  BY <1>1 DEF AfterBatch
<1>3. Stamped' /\ Images'
  BY <1>1 DEF FlushInv, Stamped, Images
<1>4. /\ Kept(published, queuedRevision) /\ Kept(rows, durableRevision)
      /\ InHand => Kept(AfterBatch, batchRevision)
      /\ \A d \in Flushers : flusher[d] <= queuedRevision
  BY DEF FlushInv, Promises
<1>5. CASE FlushBegin(c)
  <2>1. /\ flusher' = [flusher EXCEPT ![c] = queuedRevision] /\ acked' = acked
        /\ promised'[c].docs = published
        /\ \A d \in Flushers : d # c => promised'[d] = promised[d]
    BY <1>5, FlushTypes DEF FlushBegin
  <2>2. /\ flusher'[c] = queuedRevision
        /\ \A d \in Flushers : d # c => flusher'[d] = flusher[d]
    BY <2>1, FlushTypes
  <2>3. ASSUME NEW docs \in Docs, NEW r, Kept(docs, r),
               queuedRevision <= r => AtLeastDocs(docs, published)
        PROVE  /\ AtLeastDocs(docs, acked')
               /\ \A d \in Flushers : flusher'[d] # Idle /\ flusher'[d] <= r
                                          => AtLeastDocs(docs, promised'[d].docs)
    BY <2>1, <2>2, <2>3 DEF Kept
  <2>4. AtLeastDocs(published, published)
    BY AtLeastItself, FlushTypes
  <2>5. InHand /\ queuedRevision <= batchRevision => AtLeastDocs(AfterBatch, published)
    <3> SUFFICES ASSUME InHand, queuedRevision <= batchRevision
                 PROVE  AtLeastDocs(AfterBatch, published)
      OBVIOUS
    <3>1. batchImage = published
      BY FlushTypes DEF FlushInv, Images
    <3>2. Covers(AfterBatch, published)
      BY <3>1 DEF FlushInv, CutInv, NothingLost
    <3> QED BY <2>4, <3>2, CoverCarries, FlushTypes
  <2>6. queuedRevision <= durableRevision => AtLeastDocs(rows, published)
    <3> SUFFICES ASSUME queuedRevision <= durableRevision PROVE AtLeastDocs(rows, published)
      OBVIOUS
    <3>1. durableImage = published
      BY FlushTypes DEF FlushInv, Images
    <3>2. Covers(rows, published)
      BY <3>1 DEF FlushInv, CutInv, DurableIsOneCut
    <3> QED BY <2>4, <3>2, CoverCarries, FlushTypes
  <2>7. Kept(published, queuedRevision)'
    BY <1>1, <1>4, <2>3, <2>4, FlushTypes DEF Kept
  <2>8. InHand' => Kept(AfterBatch, batchRevision)'
    BY <1>1, <1>2, <1>4, <2>3, <2>5, FlushTypes DEF Kept
  <2>9. Kept(rows, durableRevision)'
    BY <1>1, <1>4, <2>3, <2>6, FlushTypes DEF Kept
  <2>10. \A d \in Flushers : flusher'[d] <= queuedRevision'
    BY <1>1, <1>4, <2>2, FlushTypes
  <2> QED BY <1>3, <2>7, <2>8, <2>9, <2>10 DEF FlushInv, Promises
<1>6. CASE FlushReturn(c) \/ FlushTimeout(c)
  <2>1. /\ flusher' = [flusher EXCEPT ![c] = Idle]
        /\ promised' = [promised EXCEPT ![c] = NoPromise]
    BY <1>6 DEF FlushReturn, FlushTimeout
  <2>2. /\ flusher'[c] = Idle
        /\ \A d \in Flushers : d # c => flusher'[d] = flusher[d] /\ promised'[d] = promised[d]
    BY <2>1, FlushTypes
  <2>3. \/ acked' = acked
        \/ /\ acked' = SetDefaults(promised[c].docs, acked)
           /\ flusher[c] # Idle /\ flusher[c] <= durableRevision /\ flusher[c] <= batchRevision
    BY <1>6, FlushTypes DEF FlushReturn, FlushTimeout
  <2>4. ASSUME NEW docs \in Docs, NEW r \in Nat, Kept(docs, r), durableRevision <= r
        PROVE  /\ AtLeastDocs(docs, acked')
               /\ \A d \in Flushers : flusher'[d] # Idle /\ flusher'[d] <= r
                                          => AtLeastDocs(docs, promised'[d].docs)
    <3>1. AtLeastDocs(docs, acked')
      <4>1. CASE acked' = acked
        BY <2>4, <4>1 DEF Kept
      <4>2. CASE /\ acked' = SetDefaults(promised[c].docs, acked)
                 /\ flusher[c] # Idle /\ flusher[c] <= durableRevision
        <5>1. flusher[c] <= r
          BY <2>4, <4>2, FlushTypes
        <5>2. AtLeastDocs(docs, promised[c].docs) /\ AtLeastDocs(docs, acked)
          BY <2>4, <4>2, <5>1 DEF Kept
        <5> QED BY <4>2, <5>2, BothPromises, FlushTypes
      <4> QED BY <2>3, <4>1, <4>2
    <3> QED BY <2>2, <2>4, <3>1 DEF Kept
  <2>5. Kept(published, queuedRevision)'
    <3>1. durableRevision <= queuedRevision
      BY FlushTypes
    <3> QED BY <1>1, <1>4, <2>4, <3>1, FlushTypes DEF Kept
  <2>6. InHand' => Kept(AfterBatch, batchRevision)'
    BY <1>1, <1>2, <1>4, <2>4, FlushTypes DEF Kept
  <2>7. Kept(rows, durableRevision)'
    <3>1. durableRevision <= durableRevision
      BY FlushTypes
    <3> QED BY <1>1, <1>4, <2>4, <3>1, FlushTypes DEF Kept
  <2>8. \A d \in Flushers : flusher'[d] <= queuedRevision'
    BY <1>1, <1>4, <2>2, FlushTypes DEF Idle
  <2> QED BY <1>3, <2>5, <2>6, <2>7, <2>8 DEF FlushInv, Promises
<1> QED BY <1>5, <1>6

LEMMA CallersKeepFlush ==
    ASSUME FlushInv, TypeInv', CutInv',
           RequestFlush \/ CloseStep \/ UNCHANGED vars
    PROVE  FlushInv'
<1> USE DEF queueVars, batchVars, durableVars, eventVars, closeVars, promiseVars
<1>1. CalmStep
  BY EnsureWriterInHand
     DEF RequestFlush, CloseStep, CloseBegin, CloseFlushed, CloseFlushTimeout, CloseSetStop,
         CloseSetWake, CloseReturn, CloseJoinTimeout, CloserStep, vars, CalmStep, InHand
<1> QED BY <1>1, CalmKeeps

LEMMA WriterKeepsFlush == ASSUME FlushInv, TypeInv', CutInv', WriterStep PROVE FlushInv'
<1> USE DEF WriterFrame, batchVars, durableVars, promiseVars
<1>1. CASE WriterCheck \/ WriterFail \/ WriterReport \/ WriterExit
  <2>1. CalmStep
    BY <1>1 DEF WriterCheck, WriterFail, WriterReport, WriterExit, CalmStep, InHand
  <2> QED BY <2>1, CalmKeeps
<1>2. /\ Kept(published, queuedRevision) /\ Kept(rows, durableRevision)
      /\ InHand => Kept(AfterBatch, batchRevision)
      /\ \A c \in Flushers : flusher[c] <= queuedRevision
      /\ AtMost(pending, clock) /\ AtMost(batch, clock)
      /\ AtMost(rows, clock) /\ AtMost(published, clock)
  BY DEF FlushInv, Promises, Stamped
<1>3. AtMost(NoDocs, clock)
  BY FlushTypes DEF AtMost, NoDocs, NoRow
<1>4. CASE WriterTake
  <2>1. /\ batch' = pending /\ batchRevision' = queuedRevision /\ batchImage' = published
        /\ batchDeletes' = pendingDeletes /\ pending' = NoDocs
        /\ UNCHANGED <<rows, published, durableImage, clock, queuedRevision, durableRevision,
                       flusher, promised, acked>>
        /\ ~InHand /\ InHand'
    BY <1>4 DEF WriterTake, InHand
  <2>2. Stamped' /\ Images'
    BY <1>2, <1>3, <2>1 DEF Stamped, Images, FlushInv
  <2>3. AfterBatch' = Written(rows, pending, pendingDeletes) /\ AfterBatch' \in Docs
    BY <2>1, FlushTypes, DocsClosed DEF AfterBatch
  <2>4. Covers(AfterBatch', published)
    BY <2>1, <2>3 DEF FlushInv, CutInv, NothingLost, AfterBatch
  <2>5. \A e \in Docs : AtLeastDocs(published, e) => AtLeastDocs(AfterBatch', e)
    BY <2>3, <2>4, CoverCarries, FlushTypes
  <2>6. Kept(AfterBatch, batchRevision)'
    BY <1>2, <2>1, <2>5, FlushTypes DEF Kept
  <2>7. Kept(published, queuedRevision)' /\ Kept(rows, durableRevision)'
    BY <1>2, <2>1 DEF Kept
  <2> QED BY <1>2, <2>1, <2>2, <2>6, <2>7 DEF FlushInv, Promises
<1>5. CASE WriterCommit
  <2>1. /\ rows' = AfterBatch /\ durableImage' = batchImage /\ durableRevision' = batchRevision
        /\ UNCHANGED <<pending, batch, published, batchImage, clock, queuedRevision,
                       batchRevision, flusher, promised, acked>>
        /\ InHand /\ ~InHand'
        /\ AfterBatch = Written(rows, batch, batchDeletes)
    BY <1>5 DEF WriterCommit, InHand, AfterBatch
  <2>2. Images'
    BY <2>1 DEF FlushInv, Images
  <2>3. AtMost(rows', clock)
    BY <1>2, <2>1, WrittenStamps, FlushTypes
  <2>4. Stamped'
    BY <1>2, <2>1, <2>3 DEF Stamped
  <2>5. Kept(rows, durableRevision)'
    BY <1>2, <2>1 DEF Kept
  <2>6. Kept(published, queuedRevision)'
    BY <1>2, <2>1 DEF Kept
  <2> QED BY <1>2, <2>1, <2>2, <2>4, <2>5, <2>6 DEF FlushInv, Promises
<1>6. CASE WriterRestore
  <2>1. /\ pending' = SetDefaults(pending, batch)
        /\ UNCHANGED <<batch, rows, published, batchImage, durableImage, clock, queuedRevision,
                       batchRevision, durableRevision, flusher, promised, acked>>
        /\ ~InHand'
    BY <1>6 DEF WriterRestore, InHand
  <2>2. AtMost(pending', clock)
    BY <1>2, <2>1, WrittenStamps, FlushTypes
  <2>3. Stamped' /\ Images'
    BY <1>2, <2>1, <2>2 DEF Stamped, Images, FlushInv
  <2>4. Kept(published, queuedRevision)' /\ Kept(rows, durableRevision)'
    BY <1>2, <2>1 DEF Kept
  <2> QED BY <1>2, <2>1, <2>3, <2>4 DEF FlushInv, Promises
<1> QED BY <1>1, <1>4, <1>5, <1>6 DEF WriterStep

\* The new process publishes what it loads, and that keeps every promise.
LEMMA CrashKeepsFlush == ASSUME FlushInv, TypeInv', CutInv', Crash PROVE FlushInv'
<1>1. /\ pending' = NoDocs /\ batch' = NoDocs /\ published' = rows /\ rows' = rows
      /\ batchImage' = rows /\ durableImage' = rows
      /\ queuedRevision' = 0 /\ durableRevision' = 0
      /\ clock' = clock /\ acked' = acked /\ ~InHand'
      /\ flusher' = [c \in Flushers |-> Idle]
  BY DEF Crash, InHand
<1>2. AtMost(NoDocs, clock)
  BY FlushTypes DEF AtMost, NoDocs, NoRow
<1>3. Stamped' /\ Images'
  BY <1>1, <1>2 DEF FlushInv, Stamped, Images
<1>4. AtLeastDocs(rows, acked)
  BY DEF FlushInv, Promises, Kept
<1>5. \A c \in Flushers : flusher'[c] = Idle /\ flusher'[c] <= queuedRevision'
  BY <1>1 DEF Idle
<1>6. Kept(published, queuedRevision)' /\ Kept(rows, durableRevision)'
  BY <1>1, <1>4, <1>5 DEF Kept
<1> QED BY <1>1, <1>3, <1>5, <1>6 DEF FlushInv, Promises

\* Spec => []FlushedSurvives: once flush() has returned, the tables hold every
\* document published before it in that version or a newer one, whatever is
\* published, fails, is merged back, closed or crashes afterwards.
THEOREM FlushedIsKept == Spec => []FlushedSurvives
<1>1. Init => FlushInv
  BY InitFlush
<1>2. FlushInv /\ [Next]_vars => FlushInv'
  <2> SUFFICES ASSUME FlushInv, [Next]_vars PROVE FlushInv'
    OBVIOUS
  <2>1. CutInv'
    BY PublishersKeep, WriterKeeps, CrashKeeps, OthersKeep DEF FlushInv, Next, CallerStep
  <2>2. TypeInv'
    <3>1. CASE UNCHANGED vars
      BY <3>1 DEF vars, FlushInv, TypeInv, TypeOK, queueVars, batchVars, durableVars, closeVars,
                  eventVars, promiseVars
    <3> QED BY <3>1, PublishersTyped, CallersTyped, WriterTyped, CrashTyped
            DEF FlushInv, Next, CallerStep
  <2> QED BY <2>1, <2>2, PublishersKeepFlush, FlushersKeepFlush, CallersKeepFlush,
             WriterKeepsFlush, CrashKeepsFlush DEF Next, CallerStep
<1>3. FlushInv => FlushedSurvives
  BY DEF FlushInv, Promises, Kept, AtLeastDocs, FlushedSurvives
<1> QED BY <1>1, <1>2, <1>3, PTL DEF Spec
=============================================================================
