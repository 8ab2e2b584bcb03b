------------------------------ MODULE Runbooks ------------------------------
(***************************************************************************)
(* The pure core of the knowledge-service: how a runbook becomes chunks,   *)
(* what an indexing run has to do, how two rankings are fused and what a   *)
(* grading leaves.                                                         *)
(*                                                                         *)
(* A runbook file is a version, and a chunk is named by the runbook and    *)
(* the section it holds: the hashes of the code collide for nothing else.  *)
(***************************************************************************)
EXTENDS Integers, Sequences, FiniteSets, SequencesExt

CONSTANTS
  Runbooks,   \* runbook ids, in the order of their file names
  Versions,   \* what the file of a runbook may hold
  canonical,  \* the version with line endings and trailing blanks unified
  sections,   \* the sections of a version: heading and text, with the title in it
  services,   \* the services in its frontmatter
  Broken,     \* versions with no frontmatter, a bad one, or no section
  Oversized,  \* versions with a section over the embedding model's input limit
  Absent      \* no file, no row

ASSUME RunbooksAssumption ==
  /\ Runbooks \subseteq Nat
  /\ canonical \in [Versions -> Versions]
  /\ \A v \in Versions :
       /\ canonical[canonical[v]] = canonical[v]
       /\ sections[v] = sections[canonical[v]] /\ services[v] = services[canonical[v]]
       /\ v \notin Broken => sections[v] # {}
  /\ Absent \notin Versions

\* Trailing blanks and line endings do not count as a change.
Normalize(v) == canonical[v]

\* compute_document_hash.
Hash(v) == Normalize(v)

\* compute_chunk_id: the frontmatter is no part of it, but for the title in the text.
ChunkId(b, s) == <<b, s.heading, s.text>>

\* chunk_runbook: each chunk carries the frontmatter of the file it was cut from.
Chunks(b, v) == {[id |-> ChunkId(b, s), services |-> services[v]] : s \in sections[v]}

\* parse_frontmatter and split_sections raise.
Parses(v) == v \notin Broken

\* check_budget, on every chunk of the runbook and not only on the new ones.
WithinBudget(v) == v \notin Oversized

IdsOf(docs) == {d.id : d \in docs}

\* Mutant of Changed: only runbooks without a row.
ChangedUnlisted(disk, manifest) == {b \in Runbooks : disk[b] # Absent /\ manifest[b] = Absent}

\* diff_corpus.
Changed(disk, manifest) ==
  {b \in Runbooks : disk[b] # Absent /\ manifest[b] # Hash(disk[b])}
Removed(disk, manifest) == {b \in Runbooks : disk[b] = Absent /\ manifest[b] # Absent}

\* diff_runbook: a chunk whose id is stored is neither embedded nor written again.
ToEmbed(chunks, stored) == {c \in chunks : c.id \notin stored}

\* Mutant of ToDelete: what is not written anew is deleted, the unchanged chunks too.
ToDeleteUnwritten(chunks, stored) == stored \ IdsOf(ToEmbed(chunks, stored))

\* diff_runbook: an id the file does not produce any more.
ToDelete(chunks, stored) == stored \ IdsOf(chunks)

-----------------------------------------------------------------------------
RankConstant == 60

Position(ranking, x) == CHOOSE i \in DOMAIN ranking : ranking[i] = x

\* Over it the ranks' shares 1/(k + i) of the first n positions add up exactly.
Denominator(n) == FoldFunction(LAMBDA f, product : f * product, 1, [i \in 1 .. n |-> RankConstant + i])

\* reciprocal_rank_fusion: by total share, then by best position, then by id.
Fuse(rankings, digest, limit) ==
  LET ids == UNION {ToSet(r) : r \in ToSet(rankings)}
      In(x) == {i \in DOMAIN rankings : x \in ToSet(rankings[i])}
      at == [x \in ids |-> [i \in In(x) |-> Position(rankings[i], x)]]
      whole == Denominator(Max({Len(r) : r \in ToSet(rankings)}))
      Share(p) == whole \div (RankConstant + p)
      score == [x \in ids |-> FoldFunction(LAMBDA p, sum : sum + Share(p), 0, at[x])]
      best == [x \in ids |-> Min(Range(at[x]))]
      Before(x, y) ==
        \/ score[x] > score[y]
        \/ score[x] = score[y] /\ best[x] < best[y]
        \/ score[x] = score[y] /\ best[x] = best[y] /\ digest[x] < digest[y]
      Nth(n) == CHOOSE x \in ids : Cardinality({y \in ids : Before(y, x)}) = n - 1
  IN [n \in 1 .. Min({limit, Cardinality(ids)}) |-> Nth(n)]

\* parse_grades: each chunk sent is graded exactly once, and no other is.
Complete(reply, sent) ==
  /\ \A c \in ToSet(sent) : Cardinality({x \in reply : x.id = c}) = 1
  /\ \A x \in reply : x.id \in ToSet(sent)

\* apply_grades: the usable chunks, in the order they were retrieved.
Usable(sent, reply) ==
  SelectSeq(sent, LAMBDA c : [id |-> c, grade |-> "insufficient"] \notin reply)
=============================================================================
