--------------------------- MODULE RetrievalProofs --------------------------
(***************************************************************************)
(* Theorems about the indexing run and the retrieval beside it, for any    *)
(* corpus, any history of its files in which no content comes back, any    *)
(* failures and any rankings.  They except the runbooks whose rows         *)
(* outlived the index (orphaned), until they are indexed again.            *)
(*                                                                         *)
(* A run believes the manifest, so what matters is that a row never says   *)
(* more than the index holds (Recorded); for that the runs' steps must not *)
(* take away what another row, or the same one before, has claimed.        *)
(***************************************************************************)
EXTENDS Retrieval, FiniteSetTheorems, WellFoundedInduction, TLAPS

InRun == pc \in {"look", "write", "delete", "record", "done"}
AtWork == pc \in {"look", "write", "delete", "record"}

\* All chunks of a version are found in the index.
Covered(b, v) == IdsOf(Chunks(b, v)) \subseteq IdsOf(index)

Typed ==
  /\ corpus \in [Runbooks -> Versions \cup {Absent}]
  /\ disk \in [Runbooks -> Versions \cup {Absent}]
  /\ manifest \in [Runbooks -> Versions \cup {Absent}]
  /\ \A b \in Runbooks : corpus[b] \in File(b) /\ disk[b] \in File(b)
  /\ removed \subseteq Runbooks /\ changed \subseteq Runbooks

\* What the run still has to do.
Work ==
  /\ pc \in {"idle", "dims", "read", "look", "write", "delete", "record", "done"}
  /\ ~AtWork <=> removed \cup changed = {}
  /\ AtWork => \A b \in removed : disk[b] = Absent
  /\ AtWork => \A b \in changed : disk[b] # Absent /\ manifest[b] # Hash(disk[b])
  /\ pc \in {"write", "delete", "record"} /\ ~Removing => disk[AtHand] \notin Broken
  /\ pc = "write" => ~Removing
  /\ pc \in {"write", "delete", "record"} => \A x \in stored : x[1] = AtHand
  /\ pc = "write" => stored \subseteq IdsOf(index)
  /\ pc \in {"delete", "record"} /\ ~Removing => Covered(AtHand, disk[AtHand])

\* The corpus only moves on from what the run has read.
Behind ==
  InRun => \A b \in Runbooks :
    /\ disk[b] = Absent => corpus[b] = Absent
    /\ disk[b] # Absent /\ corpus[b] # Absent => disk[b] <= corpus[b]

\* A row is of a version that is not ahead of the file, nor of what the run has read.
Older ==
  \A b \in Runbooks :
    manifest[b] # Absent =>
      \E w \in drafts[b] :
        /\ Hash(w) = manifest[b]
        /\ corpus[b] # Absent => w <= corpus[b]
        /\ InRun /\ disk[b] # Absent => w <= disk[b]

\* A row that names the content of a file, now or later, is true of the index.
Recorded ==
  \A b \in Runbooks \ orphaned : \A v \in drafts[b] :
    corpus[b] # Absent /\ corpus[b] <= v /\ Hash(v) = manifest[b] => Covered(b, v)

\* What the run has not to index is there.
Settled ==
  InRun => \A b \in Runbooks \ (changed \cup orphaned) : disk[b] # Absent => Covered(b, disk[b])

Headings(v) == {s.heading : s \in sections[v]}
Lasting(b, h) == \A v \in drafts[b] \ Broken : h \in Headings(v)
Offered(b, h) == \E d \in OfRunbook(b) : d.id[2] = h

\* A heading that all versions have is never without a chunk.
Offering ==
  \A b \in Runbooks \ orphaned :
    manifest[b] # Absent /\ corpus[b] # Absent => \A h : Lasting(b, h) => Offered(b, h)

IndexInv == Typed /\ Work /\ Behind /\ Older /\ Recorded /\ Settled /\ Offering

\* A run goes on with an index of its own dimension only.
OwnIndex == pc \notin {"idle", "dims"} => live = Dims

-----------------------------------------------------------------------------
LEMMA Least ==
  ASSUME NEW S, S \subseteq Nat, S # {}
  PROVE  First(S) \in S
<1> DEFINE R == OpToRel(<, Nat)
<1>1. IsWellFoundedOn(R, Nat)
  BY NatLessThanWellFounded
<1>2. R = {ss \in Nat \X Nat : ss[1] < ss[2]}
  BY DEF OpToRel
<1>. HIDE DEF R
<1>3. PICK m \in S : \A n \in S : <<n, m>> \notin R
  BY <1>1, WFMin
<1>4. ASSUME NEW n \in S PROVE m <= n
  <2>1. m \in Nat /\ n \in Nat
    OBVIOUS
  <2>2. n < m => <<n, m>> \in R
    BY <1>2, <2>1
  <2>. QED  BY <1>3, <2>1, <2>2
<1>. QED  BY <1>4 DEF First

\* The runbook at hand is one of those to remove, and then one of those to index.
LEMMA HandAtWork ==
  ASSUME Typed, Work, AtWork
  PROVE  /\ AtHand \in Runbooks
         /\ Removing => AtHand \in removed
         /\ ~Removing => AtHand \in changed
<1>1. removed \subseteq Nat /\ changed \subseteq Nat
  BY RunbooksAssumption DEF Typed
<1>2. CASE Removing
  BY <1>1, <1>2, Least DEF AtHand, Removing, Typed
<1>3. CASE ~Removing
  BY <1>1, <1>3, Least DEF AtHand, Removing, Typed, Work
<1>. QED  BY <1>2, <1>3

\* Chunks are cut from the content a hash names.
LEMMA SameChunks ==
  ASSUME NEW b, NEW v \in Versions, NEW w \in Versions, Hash(v) = Hash(w)
  PROVE  Chunks(b, v) = Chunks(b, w)
<1>1. sections[v] = sections[w] /\ services[v] = services[w]
  BY RunbooksAssumption DEF Hash, Normalize
<1>. QED  BY <1>1 DEF Chunks

LEMMA ChunkOf ==
  ASSUME NEW b, NEW v, NEW x \in IdsOf(Chunks(b, v))
  PROVE  x[1] = b
BY DEF IdsOf, Chunks, ChunkId

\* A version with a heading has a chunk under it.
LEMMA HeadingChunk ==
  ASSUME NEW b, NEW v, NEW h \in Headings(v)
  PROVE  \E x \in IdsOf(Chunks(b, v)) : x[1] = b /\ x[2] = h
<1>1. PICK s \in sections[v] : h = s.heading
  BY DEF Headings
<1> DEFINE c == [id |-> ChunkId(b, s), services |-> services[v]]
<1>2. c \in Chunks(b, v) /\ c.id = ChunkId(b, s)
  BY DEF Chunks
<1>3. c.id \in IdsOf(Chunks(b, v))
  BY <1>2 DEF IdsOf
<1>. QED  BY <1>1, <1>2, <1>3 DEF ChunkId

LEMMA CoveredOffers ==
  ASSUME NEW b \in Runbooks, NEW v \in drafts[b] \ Broken, NEW docs,
         IdsOf(Chunks(b, v)) \subseteq IdsOf(docs), NEW h, Lasting(b, h)
  PROVE  \E d \in docs : d.id[1] = b /\ d.id[2] = h
<1>1. PICK x \in IdsOf(Chunks(b, v)) : x[1] = b /\ x[2] = h
  BY HeadingChunk DEF Lasting
<1>2. PICK d \in docs : d.id = x
  BY DEF IdsOf
<1>. QED  BY <1>1, <1>2

-----------------------------------------------------------------------------
(* The steps of the Job and of those who edit the corpus.                  *)

LEMMA IndexInit == Init => IndexInv
<1> SUFFICES ASSUME Init PROVE IndexInv
  OBVIOUS
<1>1. PICK known \in SUBSET {b \in Runbooks : Indexable(b)} :
        /\ index = UNION {Chunks(b, corpus[b]) : b \in known}
        /\ manifest = [b \in Runbooks |-> IF b \in known THEN Hash(corpus[b]) ELSE Absent]
  BY DEF Init, IndexerInit
<1>2. \A b \in Runbooks : /\ corpus[b] \in drafts[b] /\ corpus[b] \in Versions /\ corpus[b] \in Nat
                         /\ Hash(corpus[b]) \in Versions
                         /\ \A v \in drafts[b] : corpus[b] <= v
  BY IndexerAssumption, RunbooksAssumption DEF Init, IndexerInit, Hash, Normalize
<1>3. Typed
  BY <1>1, <1>2, IndexerAssumption DEF Init, IndexerInit, Typed, NoFiles, File
<1>4. Work /\ Behind /\ Settled
  BY DEF Init, IndexerInit, Work, AtWork, Behind, InRun, Settled
<1>5. Older
  BY <1>1, <1>2 DEF Init, IndexerInit, Older, InRun
\* What an earlier run has recorded, it had indexed.
<1>6. ASSUME NEW b \in Runbooks, manifest[b] # Absent
      PROVE  b \in known /\ Covered(b, corpus[b]) /\ corpus[b] \in drafts[b] \ Broken
  <2>1. b \in known
    BY <1>1, <1>6
  <2>2. Chunks(b, corpus[b]) \subseteq index
    BY <1>1, <2>1
  <2>. QED  BY <1>2, <2>1, <2>2 DEF Covered, IdsOf, Indexable, Parses
<1>7. Recorded
  <2> SUFFICES ASSUME NEW b \in Runbooks, NEW v \in drafts[b], Hash(v) = manifest[b]
               PROVE  Covered(b, v)
    BY DEF Recorded
  <2>1. v \in Versions /\ manifest[b] # Absent
    BY IndexerAssumption, RunbooksAssumption DEF Hash, Normalize
  <2>2. Covered(b, corpus[b]) /\ Hash(corpus[b]) = Hash(v)
    BY <1>1, <1>6, <2>1
  <2>. QED  BY <1>2, <2>1, <2>2, SameChunks DEF Covered
<1>8. Offering
  <2> SUFFICES ASSUME NEW b \in Runbooks, manifest[b] # Absent, NEW h, Lasting(b, h)
               PROVE  Offered(b, h)
    BY DEF Offering
  <2>1. /\ corpus[b] \in drafts[b] \ Broken
        /\ IdsOf(Chunks(b, corpus[b])) \subseteq IdsOf(index)
    BY <1>6 DEF Covered
  <2>2. \A v \in drafts[b] \ Broken :
          IdsOf(Chunks(b, v)) \subseteq IdsOf(index) =>
            \E d \in index : d.id[1] = b /\ d.id[2] = h
    BY CoveredOffers
  <2>. QED  BY <2>1, <2>2 DEF Offered, OfRunbook
<1>. QED  BY <1>3, <1>4, <1>5, <1>7, <1>8 DEF IndexInv

\* A new index claims nothing: rows that are still there are excepted until they are replaced.
LEMMA DropKeeps ==
  ASSUME IndexInv, OwnIndex, DropIndex
  PROVE  IndexInv'
<1>1. ~InRun /\ ~AtWork /\ pc \in {"idle", "dims"}
  BY IndexerAssumption DEF OwnIndex, DropIndex, InRun, AtWork
<1>2. UNCHANGED <<corpus, pc, disk, removed, changed, stored>>
  BY DEF DropIndex, runVars
<1>3. manifest' = manifest \/ manifest' = NoFiles
  BY DEF DropIndex
<1>4. \A b \in Runbooks \ orphaned' : manifest'[b] = Absent
  BY DEF DropIndex, NoFiles
<1>5. Typed' /\ Work' /\ Behind' /\ Settled'
  BY <1>1, <1>2, <1>3 DEF IndexInv, Typed, Work, AtWork, Behind, Settled, InRun, NoFiles, File
<1>6. Older'
  BY <1>1, <1>2, <1>3 DEF IndexInv, Older, InRun, NoFiles
<1>7. Recorded' /\ Offering'
  BY <1>4, RunbooksAssumption, IndexerAssumption DEF Recorded, Offering, Hash, Normalize
<1>. QED  BY <1>5, <1>6, <1>7 DEF IndexInv

\* A file only becomes a later version, or goes for good.
LEMMA EditKeeps ==
  ASSUME ~Reverts, IndexInv, NEW b \in Runbooks, NEW v \in File(b), Edit(b, v)
  PROVE  IndexInv'
<1>1. /\ corpus[b] # Absent /\ (v # Absent => v > corpus[b])
      /\ corpus' = [corpus EXCEPT ![b] = v]
      /\ UNCHANGED <<index, manifest, orphaned, pc, disk, removed, changed, stored>>
  BY DEF Edit, runVars, history
<1>2. drafts[b] \subseteq Versions /\ drafts[b] \subseteq Nat
  BY IndexerAssumption
<1>3. Typed'
  BY <1>1, <1>2 DEF IndexInv, Typed, File
<1>4. corpus'[b] = v /\ \A c \in Runbooks \ {b} : corpus'[c] = corpus[c]
  BY <1>1 DEF IndexInv, Typed
<1>5. corpus[b] \in Nat /\ (v # Absent => v \in Nat) /\ disk[b] \in Nat \cup {Absent}
  BY <1>1, <1>2 DEF IndexInv, Typed, File
<1>6. Work' /\ Settled'
  BY <1>1 DEF IndexInv, Work, AtWork, Settled, InRun, AtHand, Removing, Covered
<1>7. Behind'
  BY <1>1, <1>4, <1>5 DEF IndexInv, Behind, InRun
<1>8. Older'
  <2> SUFFICES ASSUME NEW c \in Runbooks, manifest'[c] # Absent
               PROVE (\E w \in drafts[c] :
                        /\ Hash(w) = manifest[c]
                        /\ corpus[c] # Absent => w <= corpus[c]
                        /\ InRun /\ disk[c] # Absent => w <= disk[c])'
    BY DEF Older
  <2>1. PICK w \in drafts[c] :
          /\ Hash(w) = manifest[c]
          /\ corpus[c] # Absent => w <= corpus[c]
          /\ InRun /\ disk[c] # Absent => w <= disk[c]
    BY <1>1 DEF IndexInv, Older
  <2>2. w \in Nat
    BY IndexerAssumption
  <2>3. corpus'[c] # Absent => w <= corpus'[c]
    BY <1>1, <1>4, <1>5, <2>1, <2>2
  <2>. QED  BY <1>1, <2>1, <2>3 DEF InRun
<1>9. Recorded'
  <2> SUFFICES ASSUME NEW c \in Runbooks \ orphaned', NEW u \in drafts[c],
                      corpus'[c] # Absent, corpus'[c] <= u, Hash(u) = manifest'[c]
               PROVE  Covered(c, u)'
    BY DEF Recorded
  <2>1. u \in Nat
    BY IndexerAssumption
  <2>2. corpus[c] # Absent /\ corpus[c] <= u
    BY <1>1, <1>4, <1>5, <2>1
  <2>. QED  BY <1>1, <2>2 DEF IndexInv, Recorded, Covered
<1>10. Offering'
  BY <1>1, <1>4 DEF IndexInv, Offering, Offered, OfRunbook
<1>. QED  BY <1>3, <1>6, <1>7, <1>8, <1>9, <1>10 DEF IndexInv

\* What is added to the index takes nothing away, and who stops has nothing left to do.
LEMMA StopKeeps ==
  ASSUME IndexInv, Stop, UNCHANGED <<corpus, manifest, orphaned>>, index \subseteq index'
  PROVE  IndexInv'
<1>1. /\ pc' = "idle" /\ disk' = NoFiles /\ removed' = {} /\ changed' = {} /\ stored' = {}
  BY DEF Stop
<1>2. Typed' /\ Work' /\ Behind' /\ Settled'
  BY <1>1 DEF IndexInv, Typed, Work, AtWork, Behind, Settled, InRun, NoFiles, File
<1>3. Older'
  BY <1>1 DEF IndexInv, Older, InRun
<1>4. Recorded'
  BY DEF IndexInv, Recorded, Covered, IdsOf
<1>5. Offering'
  BY DEF IndexInv, Offering, Offered, OfRunbook
<1>. QED  BY <1>2, <1>3, <1>4, <1>5 DEF IndexInv

\* Between runs, and before one has read the corpus.
LEMMA OutsideKeeps ==
  ASSUME IndexInv, UNCHANGED <<corpus, index, manifest, orphaned>>,
         pc' \in {"dims", "read"},
         disk' = NoFiles \/ disk' = disk, removed' = {}, changed' = {}
  PROVE  IndexInv'
<1>1. Typed' /\ Work' /\ Behind' /\ Settled'
  BY DEF IndexInv, Typed, Work, AtWork, Behind, Settled, InRun, NoFiles, File
<1>2. Older'
  BY DEF IndexInv, Older, InRun
<1>3. Recorded' /\ Offering'
  BY DEF IndexInv, Recorded, Covered, Offering, Offered, OfRunbook
<1>. QED  BY <1>1, <1>2, <1>3 DEF IndexInv

\* What diff_corpus leaves alone is indexed, as its row says.
LEMMA PlanKeeps ==
  ASSUME IndexInv, Plan
  PROVE  IndexInv'
<1>1. /\ disk' = corpus /\ removed' = Removed(corpus, manifest)
      /\ changed' = Changed(corpus, manifest)
      /\ UNCHANGED <<corpus, index, manifest, orphaned, stored>>
      /\ pc' = IF removed' \cup changed' = {} THEN "done" ELSE "look"
  BY DEF Plan, Advance, history
<1>2. Typed'
  BY <1>1 DEF IndexInv, Typed, Removed, Changed
<1>3. Work'
  BY <1>1 DEF Work, AtWork, Removed, Changed
<1>4. Behind'
  <2>1. \A b \in Runbooks : corpus[b] # Absent => corpus[b] \in Nat
    BY IndexerAssumption DEF IndexInv, Typed, File
  <2>. QED  BY <1>1, <2>1 DEF Behind
<1>5. Older'
  BY <1>1 DEF IndexInv, Older
<1>6. Recorded' /\ Offering'
  BY <1>1 DEF IndexInv, Recorded, Covered, Offering, Offered, OfRunbook
<1>7. Settled'
  <2> SUFFICES ASSUME NEW b \in Runbooks \ (changed' \cup orphaned'), disk'[b] # Absent
               PROVE  Covered(b, corpus[b])'
    BY <1>1 DEF Settled
  <2>1. corpus[b] \in drafts[b] /\ corpus[b] <= corpus[b] /\ Hash(corpus[b]) = manifest[b]
    BY <1>1, IndexerAssumption DEF IndexInv, Typed, File, Changed
  <2>2. Covered(b, corpus[b])
    BY <1>1, <2>1 DEF IndexInv, Recorded
  <2>. QED  BY <1>1, <2>2 DEF Covered
<1>. QED  BY <1>2, <1>3, <1>4, <1>5, <1>6, <1>7 DEF IndexInv

LEMMA LookKeeps ==
  ASSUME IndexInv, Look
  PROVE  IndexInv'
<1>1. CASE Stop
  BY <1>1, StopKeeps DEF Look, history
<1>2. CASE ~Stop
  <2>1. /\ pc = "look" /\ stored' = IdsOf(OfRunbook(AtHand))
        /\ pc' = IF Removing THEN "delete" ELSE "write"
        /\ UNCHANGED <<corpus, index, manifest, orphaned, disk, removed, changed>>
        /\ ~Removing => disk[AtHand] \notin Broken
    BY <1>2 DEF Look, Parses, history
  <2>2. AtHand' = AtHand /\ Removing' = Removing
    BY <2>1 DEF AtHand, Removing
  <2>3. \A x \in stored' : x[1] = AtHand
    BY <2>1 DEF IdsOf, OfRunbook
  <2>4. stored' \subseteq IdsOf(index)
    BY <2>1 DEF IdsOf, OfRunbook
  <2>5. Work'
    <3>1. CASE Removing
      BY <2>1, <2>2, <2>3, <3>1 DEF IndexInv, Work, AtWork
    <3>2. CASE ~Removing
      BY <2>1, <2>2, <2>3, <2>4, <3>2 DEF IndexInv, Work, AtWork
    <3>. QED  BY <3>1, <3>2
  <2>6. InRun /\ InRun'
    BY <2>1 DEF InRun
  <2>7. Typed' /\ Behind' /\ Older' /\ Recorded' /\ Settled' /\ Offering'
    BY <2>1, <2>6 DEF IndexInv, Typed, Behind, Older, Recorded, Settled, Offering, Covered,
       Offered, OfRunbook
  <2>. QED  BY <2>5, <2>7 DEF IndexInv
<1>. QED  BY <1>1, <1>2

\* What is stored already need not be written.
LEMMA WriteKeeps ==
  ASSUME IndexInv, WriteNew
  PROVE  IndexInv'
<1>1. /\ pc = "write" /\ pc' = "delete" /\ index' = index \cup ToEmbed(New, stored)
      /\ UNCHANGED <<corpus, manifest, orphaned, disk, removed, changed, stored>>
  BY DEF WriteNew, history
<1>2. AtHand' = AtHand /\ Removing' = Removing /\ ~Removing
  BY <1>1 DEF AtHand, Removing, IndexInv, Work
<1>3. \A b, v : Covered(b, v) => Covered(b, v)'
  BY <1>1 DEF Covered, IdsOf
<1>4. Covered(AtHand, disk[AtHand])'
  <2>1. stored \subseteq IdsOf(index)
    BY <1>1 DEF IndexInv, Work
  <2>2. ASSUME NEW c \in New PROVE c.id \in IdsOf(index')
    <3>1. CASE c.id \in stored
      BY <1>1, <2>1, <3>1 DEF IdsOf
    <3>2. CASE c.id \notin stored
      BY <1>1, <2>2, <3>2 DEF IdsOf, ToEmbed
    <3>. QED  BY <3>1, <3>2
  <2>. QED  BY <1>1, <1>2, <2>2 DEF Covered, IdsOf, New
<1>5. Work'
  BY <1>1, <1>2, <1>4 DEF IndexInv, Work, AtWork
<1>6. InRun /\ InRun'
  BY <1>1 DEF InRun
<1>7. Typed' /\ Behind' /\ Older'
  BY <1>1, <1>6 DEF IndexInv, Typed, Behind, Older
<1>8. Recorded' /\ Settled'
  BY <1>1, <1>3, <1>6 DEF IndexInv, Recorded, Settled
<1>9. Offering'
  BY <1>1 DEF IndexInv, Offering, Offered, OfRunbook
<1>. QED  BY <1>5, <1>7, <1>8, <1>9 DEF IndexInv

\* While a changed runbook is indexed, its row claims nothing of its file: what the row names
\* is older than the version that was read, and does not come back.
LEMMA NotClaimed ==
  ASSUME ~Reverts, IndexInv, AtWork, NEW b \in changed, NEW v \in drafts[b],
         corpus[b] # Absent, corpus[b] <= v
  PROVE  Hash(v) # manifest[b]
<1> SUFFICES ASSUME Hash(v) = manifest[b] PROVE FALSE
  OBVIOUS
<1>1. b \in Runbooks /\ InRun /\ disk[b] # Absent /\ manifest[b] # Hash(disk[b])
  BY DEF IndexInv, Typed, Work, AtWork, InRun
<1>2. /\ drafts[b] \subseteq Versions /\ drafts[b] \subseteq Nat
      /\ corpus[b] \in drafts[b] /\ disk[b] \in drafts[b]
  BY <1>1, IndexerAssumption DEF IndexInv, Typed, File
<1>3. disk[b] <= corpus[b]
  BY <1>1 DEF IndexInv, Behind
<1>4. manifest[b] # Absent
  BY <1>2, RunbooksAssumption DEF Hash, Normalize
<1>5. PICK w \in drafts[b] : Hash(w) = manifest[b] /\ w <= disk[b]
  BY <1>1, <1>4 DEF IndexInv, Older
<1>6. w < disk[b] /\ disk[b] < v
  <2>1. w # disk[b] /\ v # disk[b]
    BY <1>1, <1>5
  <2>2. w \in Nat /\ v \in Nat /\ disk[b] \in Nat /\ corpus[b] \in Nat
    BY <1>2
  <2>. QED  BY <1>3, <1>5, <2>1, <2>2
<1>7. Hash(disk[b]) = Hash(w)
  BY <1>1, <1>2, <1>5, <1>6, IndexerAssumption
<1>. QED  BY <1>1, <1>5, <1>7

\* Only chunks of the runbook at hand are deleted, and none that its file still has.
LEMMA DeleteKeeps ==
  ASSUME ~Reverts, IndexInv, DeleteStale
  PROVE  IndexInv'
<1>1. PICK ids \in SUBSET Stale :
        /\ index' = index \ ById(ids, index)
        /\ pc = "delete" /\ pc' = "record"
        /\ UNCHANGED <<corpus, manifest, orphaned, disk, removed, changed, stored>>
  BY DEF DeleteStale
<1>2. AtHand' = AtHand /\ Removing' = Removing
  BY <1>1 DEF AtHand, Removing
<1>3. AtWork /\ InRun /\ InRun'
  BY <1>1 DEF AtWork, InRun
<1>4. /\ AtHand \in Runbooks
      /\ Removing => AtHand \in removed /\ disk[AtHand] = Absent /\ corpus[AtHand] = Absent
      /\ ~Removing => /\ AtHand \in changed /\ disk[AtHand] \in drafts[AtHand] \ Broken
                      /\ Covered(AtHand, disk[AtHand])
  <2>1. /\ AtHand \in Runbooks
        /\ Removing => AtHand \in removed
        /\ ~Removing => AtHand \in changed
    BY <1>3, HandAtWork DEF IndexInv
  <2>2. Removing => disk[AtHand] = Absent /\ corpus[AtHand] = Absent
    BY <1>3, <2>1 DEF IndexInv, Work, Behind
  <2>3. ~Removing => disk[AtHand] \in drafts[AtHand] \ Broken /\ Covered(AtHand, disk[AtHand])
    BY <1>1, <1>3, <2>1 DEF IndexInv, Work, Typed, File
  <2>. QED  BY <2>1, <2>2, <2>3
<1>5. ASSUME NEW d \in index, d.id \notin Stale PROVE d \in index'
  BY <1>1, <1>5 DEF ById
<1>6. \A x \in Stale : x \in stored /\ x[1] = AtHand
  BY <1>1 DEF Stale, ToDelete, IndexInv, Work
<1>7. ASSUME NEW b \in Runbooks \ {AtHand}, NEW v, Covered(b, v) PROVE Covered(b, v)'
  <2> SUFFICES ASSUME NEW x \in IdsOf(Chunks(b, v)) PROVE x \in IdsOf(index')
    BY DEF Covered
  <2>1. PICK d \in index : d.id = x
    BY <1>7 DEF Covered, IdsOf
  <2>2. x \notin Stale
    BY <1>6, <1>7, ChunkOf
  <2>. QED  BY <1>5, <2>1, <2>2 DEF IdsOf
<1>8. ~Removing => Covered(AtHand, disk[AtHand])'
  <2> SUFFICES ASSUME ~Removing, NEW x \in IdsOf(New) PROVE x \in IdsOf(index')
    BY <1>1, <1>2 DEF Covered, New
  <2>1. PICK d \in index : d.id = x
    BY <1>4 DEF Covered, IdsOf, New
  <2>2. x \notin Stale
    BY DEF Stale, ToDelete
  <2>. QED  BY <1>5, <2>1, <2>2 DEF IdsOf
<1>9. Work'
  BY <1>1, <1>2, <1>8 DEF IndexInv, Work, AtWork
<1>10. Typed' /\ Behind' /\ Older'
  BY <1>1, <1>3 DEF IndexInv, Typed, Behind, Older
<1>11. Recorded'
  <2> SUFFICES ASSUME NEW b \in Runbooks \ orphaned, NEW v \in drafts[b],
                      corpus[b] # Absent, corpus[b] <= v, Hash(v) = manifest[b]
               PROVE  Covered(b, v)'
    BY <1>1 DEF Recorded
  <2>1. b # AtHand
    BY <1>3, <1>4, NotClaimed
  <2>. QED  BY <1>7, <2>1 DEF IndexInv, Recorded
<1>12. Settled'
  <2> SUFFICES ASSUME NEW b \in Runbooks \ (changed \cup orphaned), disk[b] # Absent
               PROVE  Covered(b, disk[b])'
    BY <1>1 DEF Settled
  <2>1. b # AtHand /\ Covered(b, disk[b])
    BY <1>3, <1>4 DEF IndexInv, Settled
  <2>2. Covered(b, disk[b])'
    BY <1>1, <1>7, <2>1 DEF Covered
  <2>. QED  BY <2>2
<1>13. Offering'
  <2> SUFFICES ASSUME NEW b \in Runbooks \ orphaned, manifest[b] # Absent, corpus[b] # Absent,
                      NEW h, Lasting(b, h)
               PROVE  \E d \in index' : d.id[1] = b /\ d.id[2] = h
    BY <1>1 DEF Offering, Offered, OfRunbook
  <2>1. CASE b = AtHand
    <3>1. ~Removing /\ disk[b] \in drafts[b] \ Broken
      BY <1>4, <2>1
    <3>2. IdsOf(Chunks(b, disk[b])) \subseteq IdsOf(index')
      BY <1>1, <1>2, <1>8, <2>1, <3>1 DEF Covered
    <3>3. \A v \in drafts[b] \ Broken :
            IdsOf(Chunks(b, v)) \subseteq IdsOf(index') =>
              \E d \in index' : d.id[1] = b /\ d.id[2] = h
      BY CoveredOffers
    <3>. QED  BY <3>1, <3>2, <3>3
  <2>2. CASE b # AtHand
    <3>1. PICK d \in index : d.id[1] = b /\ d.id[2] = h
      BY DEF IndexInv, Offering, Offered, OfRunbook
    <3>. QED  BY <1>5, <1>6, <2>2, <3>1
  <2>. QED  BY <2>1, <2>2
<1>. QED  BY <1>9, <1>10, <1>11, <1>12, <1>13 DEF IndexInv

\* The row follows the index, never the other way round.
LEMMA RecordKeeps ==
  ASSUME IndexInv, RecordRow
  PROVE  IndexInv'
<1>1. /\ pc = "record"
      /\ manifest' = [manifest EXCEPT ![AtHand] = IF Removing THEN Absent ELSE Hash(disk[AtHand])]
      /\ removed' = removed \ {AtHand}
      /\ changed' = IF Removing THEN changed ELSE changed \ {AtHand}
      /\ pc' = IF removed' \cup changed' = {} THEN "done" ELSE "look"
      /\ orphaned' = orphaned \ {AtHand}
      /\ UNCHANGED <<corpus, index, disk>>
  BY DEF RecordRow, Advance
<1>2. AtWork /\ InRun /\ InRun'
  BY <1>1 DEF AtWork, InRun
<1>3. /\ AtHand \in Runbooks
      /\ Removing => AtHand \in removed /\ disk[AtHand] = Absent
      /\ ~Removing => /\ AtHand \in changed /\ disk[AtHand] \in drafts[AtHand] \ Broken
                      /\ disk[AtHand] # Absent /\ Covered(AtHand, disk[AtHand])
  <2>1. /\ AtHand \in Runbooks
        /\ Removing => AtHand \in removed
        /\ ~Removing => AtHand \in changed
    BY <1>2, HandAtWork DEF IndexInv
  <2>2. Removing => disk[AtHand] = Absent
    BY <1>2, <2>1 DEF IndexInv, Work
  <2>3. ~Removing => /\ disk[AtHand] \in drafts[AtHand] \ Broken
                     /\ disk[AtHand] # Absent /\ Covered(AtHand, disk[AtHand])
    BY <1>1, <1>2, <2>1 DEF IndexInv, Work, Typed, File
  <2>. QED  BY <2>1, <2>2, <2>3
<1>4. /\ AtHand \notin changed'
      /\ manifest'[AtHand] = IF Removing THEN Absent ELSE Hash(disk[AtHand])
      /\ \A b \in Runbooks \ {AtHand} : manifest'[b] = manifest[b]
      /\ changed' \subseteq changed /\ changed \ {AtHand} \subseteq changed'
  <2>1. AtHand \notin changed'
    BY <1>1, <1>2, <1>3 DEF IndexInv, Work
  <2>. QED  BY <1>1, <1>3, <2>1 DEF IndexInv, Typed
<1>5. ~Removing => Hash(disk[AtHand]) \in Versions /\ disk[AtHand] \in Versions
  BY <1>3, IndexerAssumption, RunbooksAssumption DEF Hash, Normalize
<1>6. Typed'
  BY <1>1, <1>3, <1>5 DEF IndexInv, Typed
<1>7. Work'
  <2>1. \A b \in removed' : disk'[b] = Absent
    BY <1>1, <1>2 DEF IndexInv, Work
  <2>2. \A b \in changed' : disk'[b] # Absent /\ manifest'[b] # Hash(disk'[b])
    BY <1>1, <1>2, <1>4 DEF IndexInv, Work, Typed
  <2>. QED  BY <1>1, <2>1, <2>2 DEF Work, AtWork
<1>8. Behind'
  BY <1>1, <1>2 DEF IndexInv, Behind
<1>9. Older'
  <2> SUFFICES ASSUME NEW b \in Runbooks, manifest'[b] # Absent
               PROVE  \E w \in drafts[b] :
                        /\ Hash(w) = manifest'[b]
                        /\ corpus[b] # Absent => w <= corpus[b]
                        /\ disk[b] # Absent => w <= disk[b]
    BY <1>1, <1>2 DEF Older
  <2>1. CASE b = AtHand
    <3>1. ~Removing /\ Hash(disk[b]) = manifest'[b] /\ disk[b] \in drafts[b]
      BY <1>3, <1>4, <2>1
    <3>2. disk[b] <= disk[b]
      BY <3>1, IndexerAssumption
    <3>3. corpus[b] # Absent => disk[b] <= corpus[b]
      BY <1>2, <1>3, <2>1, <3>1 DEF IndexInv, Behind
    <3>. QED  BY <3>1, <3>2, <3>3
  <2>2. CASE b # AtHand
    BY <1>2, <1>4, <2>2 DEF IndexInv, Older
  <2>. QED  BY <2>1, <2>2
<1>10. Recorded'
  <2> SUFFICES ASSUME NEW b \in Runbooks \ orphaned', NEW v \in drafts[b],
                      corpus[b] # Absent, corpus[b] <= v, Hash(v) = manifest'[b]
               PROVE  Covered(b, v)
    BY <1>1 DEF Recorded, Covered
  <2>1. CASE b = AtHand
    <3>1. v \in Versions /\ Hash(v) \in Versions
      BY IndexerAssumption, RunbooksAssumption DEF Hash, Normalize
    <3>. manifest'[b] # Absent
      BY <3>1, RunbooksAssumption
    <3>2. Chunks(b, v) = Chunks(b, disk[b])
      BY <1>4, <1>5, <2>1, <3>1, SameChunks
    <3>. QED  BY <1>3, <1>4, <2>1, <3>1, <3>2 DEF Covered
  <2>2. CASE b # AtHand
    BY <1>1, <1>4, <2>2 DEF IndexInv, Recorded
  <2>. QED  BY <2>1, <2>2
<1>11. Settled'
  <2> SUFFICES ASSUME NEW b \in Runbooks \ (changed' \cup orphaned'), disk[b] # Absent
               PROVE  Covered(b, disk[b])
    BY <1>1 DEF Settled, Covered
  <2>. QED  BY <1>1, <1>2, <1>3, <1>4 DEF IndexInv, Settled
<1>12. Offering'
  <2> SUFFICES ASSUME NEW b \in Runbooks \ orphaned', manifest'[b] # Absent, corpus[b] # Absent,
                      NEW h, Lasting(b, h)
               PROVE  \E d \in index : d.id[1] = b /\ d.id[2] = h
    BY <1>1 DEF Offering, Offered, OfRunbook
  <2>1. CASE b = AtHand
    BY <1>3, <1>4, <2>1, CoveredOffers DEF Covered
  <2>2. CASE b # AtHand
    BY <1>1, <1>4, <2>2 DEF IndexInv, Offering, Offered, OfRunbook
  <2>. QED  BY <2>1, <2>2
<1>. QED  BY <1>6, <1>7, <1>8, <1>9, <1>10, <1>11, <1>12 DEF IndexInv

LEMMA OwnIndexStep == OwnIndex /\ [Next]_vars => OwnIndex'
<1> SUFFICES ASSUME OwnIndex, [Next]_vars PROVE OwnIndex'
  OBVIOUS
<1>1. ASSUME IndexerNext PROVE OwnIndex'
  <2>1. ASSUME NEW b \in Runbooks, NEW v \in File(b), Edit(b, v) PROVE OwnIndex'
    BY <2>1 DEF Edit, runVars, OwnIndex
  <2>2. CASE DropIndex
    BY <2>2, IndexerAssumption DEF DropIndex, runVars, OwnIndex
  <2>3. CASE StartRun \/ CheckDims \/ Plan
    BY <2>3 DEF StartRun, CheckDims, Plan, Stop, OwnIndex
  <2>4. CASE Look \/ WriteNew \/ DeleteStale \/ RecordRow \/ WriteSome \/ Fail
    BY <2>4 DEF Look, WriteNew, DeleteStale, RecordRow, WriteSome, Fail, Stop, OwnIndex
  <2>. QED  BY <1>1, <2>1, <2>2, <2>3, <2>4 DEF IndexerNext, RunStep
<1>2. CASE UNCHANGED indexerVars
  BY <1>2 DEF indexerVars, runVars, OwnIndex
<1>. QED  BY <1>1, <1>2 DEF Next, Beside, vars

LEMMA IndexStep == ~Reverts /\ IndexInv /\ OwnIndex /\ [Next]_vars => IndexInv'
<1> SUFFICES ASSUME ~Reverts, IndexInv, OwnIndex, [Next]_vars PROVE IndexInv'
  OBVIOUS
<1>1. ASSUME NEW b \in Runbooks, NEW v \in File(b), Edit(b, v) PROVE IndexInv'
  BY <1>1, EditKeeps
\* Who touches none of this.
<1>2. ASSUME UNCHANGED <<corpus, index, manifest, orphaned, runVars>> PROVE IndexInv'
  <2>1. Typed' /\ Work' /\ Behind' /\ Older' /\ Recorded' /\ Settled' /\ Offering'
    BY <1>2 DEF runVars, IndexInv, Typed, Work, AtWork, AtHand, Removing, Behind, Older, Recorded,
       Settled, InRun, Covered, Offering, Offered, OfRunbook
  <2>. QED  BY <2>1 DEF IndexInv
<1>3. ASSUME StartRun PROVE IndexInv'
  BY <1>3, OutsideKeeps DEF StartRun, history
<1>4. ASSUME CheckDims PROVE IndexInv'
  <2>1. CASE live = Dims
    <3>1. removed = {} /\ changed = {}
      BY <1>4 DEF CheckDims, IndexInv, Work, AtWork
    <3>. QED  BY <1>4, <2>1, <3>1, OutsideKeeps DEF CheckDims, history
  <2>2. CASE live # Dims
    BY <1>4, <2>2, StopKeeps DEF CheckDims, history
  <2>. QED  BY <2>1, <2>2
<1>5. ASSUME WriteSome \/ Fail PROVE IndexInv'
  BY <1>5, StopKeeps DEF WriteSome, Fail, history
<1>6. ASSUME IndexerNext PROVE IndexInv'
  <2>1. CASE DropIndex
    BY <2>1, DropKeeps
  <2>2. CASE RunStep
    BY <1>4, <2>2, PlanKeeps, LookKeeps, WriteKeeps, DeleteKeeps, RecordKeeps DEF RunStep
  <2>. QED  BY <1>1, <1>3, <1>5, <1>6, <2>1, <2>2 DEF IndexerNext
<1>7. CASE UNCHANGED indexerVars
  BY <1>2, <1>7 DEF indexerVars, history
<1>. QED  BY <1>6, <1>7 DEF Next, Beside, vars

LEMMA IndexInvariant == ASSUME ~Reverts PROVE Spec => []IndexInv
<1>1. Init => OwnIndex
  BY DEF Init, IndexerInit, OwnIndex
<1>. QED  BY <1>1, IndexInit, OwnIndexStep, IndexStep, PTL DEF Spec

\* After whatever failures and edits, a run of the Job (IndexingService.run_once) that completes
\* has every chunk of the corpus it read in the index, but for runbooks that diff_corpus takes for
\* indexed because their rows outlived the index.
THEOREM CompletedRunsCover == ASSUME ~Reverts PROVE Spec => []CompletedRunCovers
<1>1. IndexInv => CompletedRunCovers
  BY DEF IndexInv, Work, AtWork, Settled, InRun, Covered, CompletedRunCovers
<1>2. Spec => []IndexInv
  BY IndexInvariant
<1>. QED  BY <1>1, <1>2, PTL

\* Writing before deleting keeps an indexed runbook retrievable under each lasting heading, in
\* the middle of a run and after one that died there; one whose index was dropped, from when it
\* is indexed again.
THEOREM NeverUncovered == ASSUME ~Reverts PROVE Spec => []AlwaysCovered
<1>1. IndexInv => AlwaysCovered
  BY DEF IndexInv, Offering, Lasting, Headings, Offered, AlwaysCovered
<1>2. Spec => []IndexInv
  BY IndexInvariant
<1>. QED  BY <1>1, <1>2, PTL

-----------------------------------------------------------------------------
(* A request beside the Job.                                               *)

\* What has been there all the while is there now, and who finds nothing has nothing to find.
RequestInv ==
  /\ held \subseteq About(service)
  /\ step # "answered" => status = 0
  /\ step = "knn" => IsFiniteSet(ToSet(lexical))
  /\ step = "grade" /\ fused = <<>> => held = {}
  /\ status = 200 /\ answer = <<>> /\ ~graded => held = {}

\* A ranking has at most as many hits as a search returns.
LEMMA RankingFinite ==
  ASSUME NEW ids, NEW r \in Rankings(ids)
  PROVE  IsFiniteSet(ToSet(r))
<1>1. PICK n \in 0 .. LegSize : r \in [1 .. n -> ids]
  BY DEF Rankings
<1>2. n \in Nat /\ DOMAIN r = 1 .. n
  BY <1>1, RetrievalAssumption
<1>3. IsFiniteSet(1 .. n)
  BY <1>2, FS_Interval
<1>4. ToSet(r) = {r[i] : i \in 1 .. n}
  BY <1>2 DEF ToSet
<1>5. r \in Surjection(1 .. n, ToSet(r))
  BY <1>1, <1>4 DEF Surjection
<1>. QED  BY <1>3, <1>5, FS_Surjection

\* Where one of two rankings has a hit, so has their fusion.
LEMMA FusionFinds ==
  ASSUME NEW r, NEW q, NEW digest, NEW x \in ToSet(q), IsFiniteSet(ToSet(r)), IsFiniteSet(ToSet(q))
  PROVE  Fuse(<<r, q>>, digest, Limit) # <<>>
<1> DEFINE ids == UNION {ToSet(p) : p \in ToSet(<<r, q>>)}
           size == Min({Limit, Cardinality(ids)})
<1>1. ToSet(<<r, q>>) = {r, q}
  BY DEF ToSet
<1>2. ids = ToSet(r) \cup ToSet(q)
  BY <1>1
<1>3. IsFiniteSet(ids) /\ ids # {}
  BY <1>2, FS_Union
<1>4. Cardinality(ids) \in Nat \ {0}
  BY <1>3, FS_CardinalityType, FS_EmptySet
<1>. HIDE DEF ids
<1>5. size \in Nat \ {0}
  BY <1>4, RetrievalAssumption DEF Min
<1>. HIDE DEF size
<1>6. 1 \in 1 .. size
  BY <1>5
<1>7. DOMAIN Fuse(<<r, q>>, digest, Limit) = 1 .. size
  BY DEF Fuse, size, ids
<1>8. DOMAIN << >> = {}
  OBVIOUS
<1>. QED  BY <1>6, <1>7, <1>8

LEMMA RequestStepKeeps == RequestInv /\ [Next]_vars => RequestInv'
<1> SUFFICES ASSUME RequestInv, [Next]_vars PROVE RequestInv'
  OBVIOUS
<1>1. CASE Beside(IndexerNext)
  BY <1>1 DEF Beside, RequestInv
\* The index and what has been there stay as they are.
<1>2. ASSUME RequestStep \/ \E s \in Services : Ask(s), UNCHANGED indexerVars PROVE RequestInv'
  <2>0. \A s : About(s)' = About(s)
    BY <1>2 DEF indexerVars, About
  <2>1. ASSUME NEW s \in Services, Ask(s) PROVE RequestInv'
    BY <2>0, <2>1 DEF Ask, RequestInv
  <2>2. CASE SearchBm25
    <3>1. IsFiniteSet(ToSet(lexical'))
      BY <2>2, RankingFinite DEF SearchBm25
    <3>. QED  BY <2>0, <2>2, <3>1 DEF SearchBm25, RequestInv
  <2>3. CASE SearchKnn
    <3>1. PICK vectorial \in Rankings(About(service)) :
            /\ Full(vectorial, About(service))
            /\ fused' = Fuse(<<lexical, vectorial>>, Digest, Limit)
      BY <2>3 DEF SearchKnn
    <3>2. ASSUME held # {} PROVE fused' # <<>>
      <4>1. ToSet(vectorial) # {}
        <5>1. CASE ToSet(vectorial) = About(service)
          BY <3>2, <5>1 DEF RequestInv
        <5>2. CASE Len(vectorial) = LegSize
          <6>1. PICK n \in 0 .. LegSize : vectorial \in [1 .. n -> About(service)]
            BY DEF Rankings
          <6>2. 1 \in DOMAIN vectorial
            BY <5>2, <6>1, RetrievalAssumption
          <6>. QED  BY <6>2 DEF ToSet
        <5>. QED  BY <3>1, <5>1, <5>2 DEF Full
      <4>2. IsFiniteSet(ToSet(lexical)) /\ IsFiniteSet(ToSet(vectorial))
        BY <2>3, RankingFinite DEF SearchKnn, RequestInv
      <4>. QED  BY <3>1, <4>1, <4>2, FusionFinds
    <3>. QED  BY <2>0, <2>3, <3>2 DEF SearchKnn, RequestInv
  <2>4. CASE Grade
    <3>1. /\ step = "grade" /\ step' = "answered" /\ UNCHANGED <<service, held>>
          /\ graded' \/ answer' = fused
      BY <2>4 DEF Grade, Reply
    <3>. QED  BY <2>0, <3>1 DEF RequestInv
  <2>5. CASE Unavailable \/ Answered
    BY <2>0, <2>5 DEF Unavailable, Answered, Reply, RequestInv
  <2>. QED  BY <1>2, <2>1, <2>2, <2>3, <2>4, <2>5 DEF RequestStep
<1>3. CASE UNCHANGED vars
  BY <1>3 DEF vars, requestVars, indexerVars, RequestInv, About
<1>. QED  BY <1>1, <1>2, <1>3 DEF Next

\* Whatever the Job does to the index between the two searches, and whatever the searches and
\* the grader answer, an empty answer hides nothing that was there (retrieval.py, crag_client.py).
THEOREM EmptyIsHonest == Spec => []HonestEmpty
<1>1. Init => RequestInv
  BY DEF Init, RequestInv
<1>2. RequestInv => HonestEmpty
  BY DEF RequestInv, HonestEmpty
<1>. QED  BY <1>1, <1>2, RequestStepKeeps, PTL DEF Spec
=============================================================================
