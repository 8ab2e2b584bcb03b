------------------------------ MODULE Indexer ------------------------------
(***************************************************************************)
(* The knowledge-service's indexing run over the chunk index and the       *)
(* manifest (runbook_documents): one Job at a time, started again after a  *)
(* failure and after a deployment that changed the corpus.                 *)
(*                                                                         *)
(* A step is one call to Elasticsearch, the gateway or Postgres; a run can *)
(* fail or die at each.                                                    *)
(***************************************************************************)
EXTENDS Runbooks

CONSTANTS
  drafts,        \* the versions the file of each runbook may come to hold
  Dims,          \* the configured vector dimension
  OtherDims,     \* the dimension of an earlier model
  Reverts,       \* whether an edit may bring back an earlier version
  SilentDeletes, \* whether a bulk delete may fail for some of its chunks
  MaxFailures    \* bound: how many runs fail

ASSUME IndexerAssumption ==
  /\ drafts \in [Runbooks -> SUBSET Versions]
  /\ \A b \in Runbooks : drafts[b] \subseteq Nat  \* in the order they are written
  /\ Reverts \/ \A b \in Runbooks : \A u, v, w \in drafts[b] :  \* no content comes back either
       u < v /\ v < w /\ Hash(u) = Hash(w) => Hash(v) = Hash(u)
  /\ Dims # OtherDims
  /\ Reverts \in BOOLEAN /\ SilentDeletes \in BOOLEAN /\ MaxFailures \in Nat

VARIABLES
  corpus,   \* the files of the corpus directory
  index,    \* the documents of the Elasticsearch index
  live,     \* the dimension it was created with, 0 when it does not exist
  manifest, \* the content hash in the row of each runbook
  pc,       \* where the run is
  disk,     \* the corpus as it was read
  removed,  \* runbooks it has still to remove
  changed,  \* runbooks it has still to index
  stored,   \* the stored ids of the runbook at hand
  leftover, \* history: stale chunks whose deletion failed unnoticed
  orphaned, \* history: runbooks whose rows outlived the index they were recorded of
  failures  \* counter of the bound

runVars == <<pc, disk, removed, changed, stored>>
history == <<leftover, orphaned>>
indexerVars == <<corpus, index, live, manifest, history, runVars, failures>>

NoFiles == [b \in Runbooks |-> Absent]
File(b) == drafts[b] \cup {Absent}
AllIds == UNION {UNION {IdsOf(Chunks(b, v)) : v \in drafts[b]} : b \in Runbooks}

IndexerTypeOK ==
  /\ corpus \in [Runbooks -> Versions \cup {Absent}]
  /\ index \subseteq UNION {Chunks(b, v) : b \in Runbooks, v \in Versions}
  /\ live \in {0, Dims, OtherDims}
  /\ manifest \in [Runbooks -> Versions \cup {Absent}]
  /\ pc \in {"idle", "dims", "read", "look", "write", "delete", "record", "done"}
  /\ disk \in [Runbooks -> Versions \cup {Absent}]
  /\ removed \subseteq Runbooks /\ changed \subseteq Runbooks /\ stored \subseteq AllIds
  /\ leftover \subseteq AllIds /\ orphaned \subseteq Runbooks
  /\ failures \in 0 .. MaxFailures

\* Whether a run can index the file of a runbook.
Indexable(b) == Parses(corpus[b]) /\ WithinBudget(corpus[b])

\* A first deployment, or one that comes with another model: an index of the earlier one's
\* dimension may be there, with what its runs had recorded.
IndexerInit ==
  /\ corpus \in [Runbooks -> Versions]
  /\ \A b \in Runbooks : corpus[b] \in drafts[b] /\ \A v \in drafts[b] : corpus[b] <= v
  /\ live \in {0, OtherDims}
  /\ \E known \in SUBSET {b \in Runbooks : Indexable(b)} :
       /\ live = 0 => known = {}
       /\ index = UNION {Chunks(b, corpus[b]) : b \in known}
       /\ manifest = [b \in Runbooks |-> IF b \in known THEN Hash(corpus[b]) ELSE Absent]
  /\ pc = "idle" /\ disk = NoFiles /\ removed = {} /\ changed = {} /\ stored = {}
  /\ leftover = {} /\ orphaned = {} /\ failures = 0

\* The file of a runbook is written, edited or deleted; without Reverts no version comes
\* back, under its own name or another of the same content.
Edit(b, v) ==
  /\ v \in File(b) \ {corpus[b]}
  /\ Reverts \/ (corpus[b] # Absent /\ (v # Absent => v > corpus[b]))
  /\ corpus' = [corpus EXCEPT ![b] = v]
  /\ UNCHANGED <<index, live, manifest, history, runVars, failures>>

\* "Creating a new index" (store.py): the one of the earlier model's dimension is dropped, for
\* the next run to create.  The rows of the manifest stay, as nothing in the code deletes them,
\* unless whoever drops the index does.
DropIndex ==
  /\ live = OtherDims
  /\ live' = 0 /\ index' = {}
  /\ \/ /\ UNCHANGED manifest
        /\ orphaned' = {b \in Runbooks : manifest[b] # Absent}
     \/ /\ manifest' = NoFiles
        /\ UNCHANGED orphaned
  /\ UNCHANGED <<corpus, leftover, runVars, failures>>

-----------------------------------------------------------------------------
ById(ids, docs) == {d \in docs : d.id \in ids}
OfRunbook(b) == {d \in index : d.id[1] = b}

\* The runbook at hand: removals first, each list in the order of the ids.
First(s) == CHOOSE b \in s : \A c \in s : b <= c
AtHand == First(IF removed # {} THEN removed ELSE changed)
Removing == removed # {}
New == Chunks(AtHand, disk[AtHand])

\* The run stops where it is: an exception propagates out of run_once, or the pod dies.
Stop == pc' = "idle" /\ disk' = NoFiles /\ removed' = {} /\ changed' = {} /\ stored' = {}

\* ensure_index: an existing index is left as it is.
StartRun ==
  /\ pc \in {"idle", "done"}
  /\ pc' = "dims"
  /\ live' = IF live = 0 THEN Dims ELSE live
  /\ disk' = NoFiles /\ removed' = {} /\ changed' = {} /\ stored' = {}
  /\ UNCHANGED <<corpus, history, index, manifest, failures>>

\* _assert_dimensions_match.
CheckDims ==
  /\ pc = "dims"
  /\ IF live = Dims THEN pc' = "read" /\ UNCHANGED <<disk, removed, changed, stored>> ELSE Stop
  /\ UNCHANGED <<corpus, history, index, live, manifest, failures>>

Advance(rest) == pc' = IF rest = {} THEN "done" ELSE "look"

\* read_corpus, _load_manifest and diff_corpus.
Plan ==
  /\ pc = "read"
  /\ disk' = corpus
  /\ removed' = Removed(corpus, manifest)
  /\ changed' = Changed(corpus, manifest)
  /\ Advance(removed' \cup changed')
  /\ UNCHANGED <<corpus, history, index, live, manifest, stored, failures>>

\* Mutant of Look: stale chunks are deleted before their replacements are written.
LookDeleting ==
  /\ pc = "look"
  /\ stored' = IdsOf(OfRunbook(AtHand))
  /\ index' = IF Removing THEN index ELSE index \ ById(ToDelete(New, stored'), index)
  /\ pc' = IF Removing THEN "delete" ELSE "write"
  /\ UNCHANGED <<corpus, history, live, manifest, disk, removed, changed, failures>>

\* A runbook that does not parse, or does not fit, ends the run for all after it.
Look ==
  /\ pc = "look"
  /\ IF ~Removing /\ ~(Parses(disk[AtHand]) /\ WithinBudget(disk[AtHand])) THEN Stop
     ELSE /\ stored' = IdsOf(OfRunbook(AtHand))
          /\ pc' = IF Removing THEN "delete" ELSE "write"
          /\ UNCHANGED <<disk, removed, changed>>
  /\ UNCHANGED <<corpus, history, index, live, manifest, failures>>

\* embed and index, for the chunks that are not stored.
WriteNew ==
  /\ pc = "write"
  /\ index' = index \cup ToEmbed(New, stored)
  /\ pc' = "delete"
  /\ UNCHANGED <<corpus, history, live, manifest, disk, removed, changed, stored, failures>>

\* Elasticsearch rejects some of the bulk: those it took stay, and the run raises.
WriteSome ==
  /\ pc = "write" /\ failures < MaxFailures
  /\ failures' = failures + 1
  /\ \E docs \in SUBSET ToEmbed(New, stored) : index' = index \cup docs
  /\ Stop
  /\ UNCHANGED <<corpus, history, live, manifest>>

Stale == IF Removing THEN stored ELSE ToDelete(New, stored)

\* delete_chunks: the errors of a bulk delete are not looked at.
DeleteStale ==
  /\ pc = "delete"
  /\ \E ids \in SUBSET Stale :
       /\ ids = Stale \/ SilentDeletes
       /\ index' = index \ ById(ids, index)
       /\ leftover' = leftover \cup (Stale \ ids)
  /\ pc' = "record"
  /\ UNCHANGED <<corpus, live, manifest, orphaned, disk, removed, changed, stored, failures>>

\* _record_indexed, or the DELETE of a removed runbook's row.
RecordRow ==
  /\ pc = "record"
  /\ manifest' = [manifest EXCEPT ![AtHand] = IF Removing THEN Absent ELSE Hash(disk[AtHand])]
  /\ removed' = removed \ {AtHand}
  /\ changed' = IF Removing THEN changed ELSE changed \ {AtHand}
  /\ orphaned' = orphaned \ {AtHand}
  /\ stored' = {}
  /\ Advance(removed' \cup changed')
  /\ UNCHANGED <<corpus, leftover, index, live, disk, failures>>

\* Any call of the run fails, or its pod is killed.
Fail ==
  /\ pc \notin {"idle", "done"} /\ failures < MaxFailures
  /\ failures' = failures + 1
  /\ Stop
  /\ UNCHANGED <<corpus, history, index, live, manifest>>

RunStep == CheckDims \/ Plan \/ Look \/ WriteNew \/ DeleteStale \/ RecordRow

IndexerNext ==
  \/ \E b \in Runbooks : \E v \in File(b) : Edit(b, v)
  \/ DropIndex \/ StartRun \/ RunStep \/ WriteSome \/ Fail

-----------------------------------------------------------------------------
(* Properties.                                                             *)

\* What a completed run leaves out is unretrievable and no later run looks for it: after
\* it, whatever failures came before, every chunk of the corpus it read is in the index --
\* except of a runbook whose row outlived an index, which the diff takes for indexed
\* (reconciliation.py:93) although store.py:20 has the whole corpus embedded again.
CompletedRunCovers ==
  pc = "done" =>
    \A b \in Runbooks \ orphaned :
      disk[b] # Absent => IdsOf(Chunks(b, disk[b])) \subseteq IdsOf(index)

\* New chunks are indexed before stale ones are deleted: under a heading that all its
\* versions have, an indexed runbook always offers something, old or new -- but if its
\* index was dropped, not before it is indexed again.
AlwaysCovered ==
  \A b \in Runbooks \ orphaned :
    manifest[b] # Absent /\ corpus[b] # Absent /\ b \notin removed =>
      \A h \in {s.heading : s \in sections[manifest[b]]} :
        (\A v \in drafts[b] \ Broken : h \in {s.heading : s \in sections[v]})
          => \E d \in OfRunbook(b) : d.id[2] = h

InStep(b) ==
  LET ids == IdsOf(Chunks(b, corpus[b]))
  IN ids \subseteq IdsOf(OfRunbook(b)) /\ IdsOf(OfRunbook(b)) \ ids \subseteq leftover

\* Once edits and failures stop, the index holds of each runbook exactly its file, and what
\* a failed deletion left, up to the first runbook that cannot be indexed.  Nothing else
\* mends the index: one of another dimension stays as it is until somebody drops it, and
\* a runbook whose row outlived its index stays out until its file changes.
EventuallyInStep ==
  <>[](live # OtherDims =>
         \A b \in Runbooks \ orphaned :
           corpus[b] # Absent /\ (\A c \in Runbooks : c <= b => corpus[c] = Absent \/ Indexable(c))
             => InStep(b))
=============================================================================
