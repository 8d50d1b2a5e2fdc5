----------------------------- MODULE Documents -----------------------------
(***************************************************************************)
(* The documents of one user in one project: their points in the Qdrant    *)
(* collection and their raw copies in the object storage.  Ingest jobs     *)
(* (IngestPipeline.run) and RagEngine.delete_document change both stores,  *)
(* one awaited call after the other, with no lock, no transaction and no   *)
(* order between two operations on the same document.                      *)
(*                                                                         *)
(* A revision is what one job read from the source, cut in `size` chunks;  *)
(* the point of a chunk is identified by KB, document and chunk index (and *)
(* by data type and chunker version, which are fixed here), the raw copy   *)
(* by the document alone.  A failed call may have been applied or not.  A  *)
(* request that outlives its failed caller does to the stores what an      *)
(* operation in progress that fails afterwards does, and is one here.      *)
(***************************************************************************)
EXTENDS Integers

CONSTANTS
  Kb,         \* knowledge bases of the user
  Doc,        \* document ids
  Actor,      \* operations that may run at once
  MaxChunks,  \* bound on the chunks of a revision
  MaxRevs,    \* bound on the revisions ever read
  None        \* no operation, nothing settled

ASSUME DocumentsAssumption == MaxChunks \in Nat /\ MaxRevs \in Nat

VARIABLES
  points,   \* the revision of each point of each document, 0 for no point
  raw,      \* the revision of each raw copy, 0 for no object
  op,       \* the ingest or delete each actor is at
  revs,     \* how many revisions were read
  settled,  \* history: the last operation of a document if nothing overlapped it
  used      \* history: the documents anybody operated on

documentsVars == <<points, raw, op, revs, settled, used>>

Index == 1 .. MaxChunks
Document == Kb \X Doc

DocumentsInit ==
  /\ points = [of \in Document |-> [i \in Index |-> 0]]
  /\ raw = [d \in Doc |-> 0]
  /\ op = [a \in Actor |-> None]
  /\ revs = 0
  /\ settled = [of \in Document |-> None]
  /\ used = {}

On(of) == {a \in Actor : op[a] # None /\ op[a].of = of}

\* An operation starts.  What it overlaps is no longer alone.
Start(a, of, kind, at) ==
  /\ op[a] = None
  /\ op' = [b \in Actor |->
              IF b = a
              THEN [kind |-> kind, of |-> of, at |-> at, rev |-> 0, size |-> 0,
                    stored |-> FALSE, alone |-> On(of) = {}]
              ELSE IF b \in On(of) THEN [op[b] EXCEPT !.alone = FALSE] ELSE op[b]]
  /\ settled' = [settled EXCEPT ![of] = None]
  /\ used' = used \cup {of}
  /\ UNCHANGED <<points, raw, revs>>

\* A worker takes an ingest job.
StartIngest(a, of) == Start(a, of, "ingest", "prepare")

StartDelete(a, of) == Start(a, of, "delete", "points")

At(a, kind, at) == op[a] # None /\ op[a].kind = kind /\ op[a].at = at

\* Load, parse, clean and chunk the source, and render the payloads.
Prepare(a, size) ==
  /\ At(a, "ingest", "prepare")
  /\ revs < MaxRevs
  /\ revs' = revs + 1
  /\ op' = [op EXCEPT ![a] = [@ EXCEPT !.rev = revs + 1, !.size = size, !.at = "raw"]]
  /\ UNCHANGED <<points, raw, settled, used>>

\* Without chunks the job ends after the raw copy.
AfterRaw(a) == IF op[a].size = 0 THEN "answer" ELSE "points"

\* _store_raw_document.
PutRaw(a) ==
  /\ At(a, "ingest", "raw")
  /\ raw' = [raw EXCEPT ![op[a].of[2]] = op[a].rev]
  /\ op' = [op EXCEPT ![a] = [@ EXCEPT !.stored = TRUE, !.at = AfterRaw(a)]]
  /\ UNCHANGED <<points, revs, settled, used>>

\* Empty content is not stored, and leaves the copy of an earlier revision.  It may
\* still have a chunk: the chunker makes one of a document without text.
SkipRaw(a) ==
  /\ At(a, "ingest", "raw")
  /\ op' = [op EXCEPT ![a].at = AfterRaw(a)]
  /\ UNCHANGED <<points, raw, revs, settled, used>>

UpsertUpTo(a, last) ==
  /\ At(a, "ingest", "points")
  /\ points' = [points EXCEPT ![op[a].of] =
                  [i \in Index |-> IF i <= last THEN op[a].rev ELSE @[i]]]
  /\ op' = [op EXCEPT ![a].at = "answer"]
  /\ UNCHANGED <<raw, revs, settled, used>>

\* Mutant: the last chunk is not upserted.
UpsertAllButLast(a) == UpsertUpTo(a, op[a].size - 1)

\* Entities, vectors, then one upsert for all chunks: the points of the indexes the
\* revision has are replaced, those of higher indexes stay.
Upsert(a) == UpsertUpTo(a, op[a].size)

DeletePointsOf(a, deleted) ==
  /\ At(a, "delete", "points")
  /\ points' = [of \in Document |->
                  IF of \in deleted THEN [i \in Index |-> 0] ELSE points[of]]
  /\ op' = [op EXCEPT ![a].at = "raw"]
  /\ UNCHANGED <<raw, revs, settled, used>>

\* Mutant: the filter of the delete has no KB.
DeletePointsOfAllKbs(a) == DeletePointsOf(a, {of \in Document : of[2] = op[a].of[2]})

\* delete_document of the vector store: by project, user, KB and document.
DeletePoints(a) == DeletePointsOf(a, {op[a].of})

\* Mutant: the raw copy is left behind.
DeleteRawNot(a) ==
  /\ At(a, "delete", "raw")
  /\ op' = [op EXCEPT ![a].at = "answer"]
  /\ UNCHANGED <<points, raw, revs, settled, used>>

\* The storage key names the document, not its KB.
DeleteRaw(a) ==
  /\ At(a, "delete", "raw")
  /\ raw' = [raw EXCEPT ![op[a].of[2]] = 0]
  /\ op' = [op EXCEPT ![a].at = "answer"]
  /\ UNCHANGED <<points, revs, settled, used>>

ReturnIf(a, finished) ==
  /\ op[a] # None
  /\ finished
  /\ op' = [op EXCEPT ![a] = None]
  /\ settled' = [settled EXCEPT ![op[a].of] =
                   IF op[a].alone
                   THEN [kind |-> op[a].kind, rev |-> op[a].rev, size |-> op[a].size,
                         stored |-> op[a].stored]
                   ELSE None]
  /\ UNCHANGED <<points, raw, revs, used>>

\* Mutant: a delete reports success before Qdrant has deleted anything.
ReturnEarly(a) == ReturnIf(a, op[a].at = "answer" \/ op[a].kind = "delete")

\* The operation succeeds: the job is COMPLETED, the delete returns.
Return(a) == ReturnIf(a, op[a].at = "answer")

\* Any call raises, or the operation is cancelled: what is done stays done.
Fail(a) ==
  /\ op[a] # None
  /\ op' = [op EXCEPT ![a] = None]
  /\ UNCHANGED <<points, raw, revs, settled, used>>

DocumentsNext ==
  \E a \in Actor :
    \/ \E of \in Document : StartIngest(a, of) \/ StartDelete(a, of)
    \/ \E size \in 0 .. MaxChunks : Prepare(a, size)
    \/ PutRaw(a)
    \/ SkipRaw(a)
    \/ Upsert(a)
    \/ DeletePoints(a)
    \/ DeleteRaw(a)
    \/ Return(a)
    \/ Fail(a)

DocumentsSpec == DocumentsInit /\ [][DocumentsNext]_documentsVars

-----------------------------------------------------------------------------
Kind == {"ingest", "delete"}
Rev == 0 .. MaxRevs
Size == 0 .. MaxChunks

Operation ==
  [kind : Kind, of : Document, at : {"prepare", "raw", "points", "answer"},
   rev : Rev, size : Size, stored : BOOLEAN, alone : BOOLEAN]

DocumentsTypeOK ==
  /\ points \in [Document -> [Index -> Rev]]
  /\ raw \in [Doc -> Rev]
  /\ op \in [Actor -> Operation \cup {None}]
  /\ revs \in Rev
  /\ settled \in [Document ->
                 [kind : Kind, rev : Rev, size : Size, stored : BOOLEAN] \cup {None}]
  /\ used \subseteq Document

\* A completed ingest that nothing overlapped, and that nothing followed, is what is
\* indexed: all its chunks are, and beyond them only what earlier revisions left.
\* What was done to a document of the same id in another KB does not matter.
IngestedIsIndexed ==
  \A of \in Document :
    settled[of] # None /\ settled[of].kind = "ingest" =>
      \A i \in Index :
        IF i <= settled[of].size
        THEN points[of][i] = settled[of].rev
        ELSE points[of][i] < settled[of].rev

\* A delete that nothing overlapped, and that nothing followed, leaves no point of
\* the document, whatever had failed before it.
DeletedIsGone ==
  \A of \in Document :
    settled[of] # None /\ settled[of].kind = "delete" =>
      \A i \in Index : points[of][i] = 0

\* The raw copy is the indexed revision unless that had no content, and goes with the
\* document, as long as no other KB has a document of the same id: the two would share
\* one copy.
RawFollows ==
  \A of \in Document :
    settled[of] # None /\ (\A other \in used : other[2] = of[2] => other = of) =>
      /\ settled[of].stored => raw[of[2]] = settled[of].rev
      /\ settled[of].kind = "delete" => raw[of[2]] = 0
=============================================================================
