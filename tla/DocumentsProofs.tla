-------------------------- MODULE DocumentsProofs --------------------------
(***************************************************************************)
(* What an ingest or a delete that nothing overlapped leaves in Qdrant and *)
(* in the object storage, for any number of documents and of operations,   *)
(* and whatever fails; and the queue that runs the ingests, for every set  *)
(* of jobs, every finite set of workers and every capacity.                *)
(***************************************************************************)
EXTENDS Documents, IngestQueue, FiniteSetTheorems, SequenceTheorems, TLAPS

-----------------------------------------------------------------------------
(* The inductive invariant: what an operation in progress has done so far, *)
(* as long as nothing overlaps it.                                         *)

\* No point is of a revision that nobody has read yet.
PointsRead == \A of \in Document, i \in Index : points[of][i] <= revs

OpsKnown ==
  \A a \in Actor : op[a] # None =>
    /\ op[a].kind = "delete" \/ op[a].at = "prepare" => ~ op[a].stored
    /\ op[a].rev <= revs
    /\ op[a].of \in used
    /\ settled[op[a].of] = None

AloneIsAlone ==
  \A a, b \in Actor :
    op[a] # None /\ op[b] # None /\ op[a].of = op[b].of /\ op[a].alone => a = b

\* The points of the document an operation is alone with.
PointsAt(o) ==
  /\ o.kind = "ingest" /\ o.at \in {"raw", "points"} =>
       \A i \in Index : points[o.of][i] < o.rev
  /\ o.kind = "ingest" /\ o.at = "answer" =>
       \A i \in Index : IF i <= o.size THEN points[o.of][i] = o.rev
                                       ELSE points[o.of][i] < o.rev
  /\ o.kind = "delete" /\ o.at \in {"raw", "answer"} =>
       \A i \in Index : points[o.of][i] = 0

AlonePoints == \A a \in Actor : op[a] # None /\ op[a].alone => PointsAt(op[a])

OnlyKb(of) == \A other \in used : other[2] = of[2] => other = of

\* Its raw copy, which no document of another KB shares.
AloneRaw ==
  \A a \in Actor : op[a] # None /\ op[a].alone /\ OnlyKb(op[a].of) =>
    /\ op[a].stored => raw[op[a].of[2]] = op[a].rev
    /\ op[a].kind = "delete" /\ op[a].at = "answer" => raw[op[a].of[2]] = 0

DocumentsInv ==
  /\ DocumentsTypeOK
  /\ PointsRead /\ OpsKnown /\ AloneIsAlone /\ AlonePoints /\ AloneRaw
  /\ IngestedIsIndexed /\ DeletedIsGone /\ RawFollows

\* Nothing is stored at the start.
LEMMA DocumentsInvInit == DocumentsInit => DocumentsInv
<1> SUFFICES ASSUME DocumentsInit PROVE DocumentsInv
  OBVIOUS
<1> USE DEF DocumentsInit
<1>1. DocumentsTypeOK
  BY DocumentsAssumption DEF DocumentsTypeOK, Rev, DocumentsAssumption
<1>2. PointsRead
  BY DEF PointsRead
<1>3. OpsKnown /\ AloneIsAlone /\ AlonePoints /\ AloneRaw
  BY DEF OpsKnown, AloneIsAlone, AlonePoints, AloneRaw
<1>4. IngestedIsIndexed /\ DeletedIsGone /\ RawFollows
  BY DEF IngestedIsIndexed, DeletedIsGone, RawFollows
<1> QED
  BY <1>1, <1>2, <1>3, <1>4 DEF DocumentsInv

\* Numbers are integers, said once for the arithmetic.
LEMMA Numbers ==
  ASSUME DocumentsTypeOK
  PROVE  /\ revs \in Int /\ 0 <= revs
         /\ \A of \in Document, i \in Index : points[of][i] \in Int /\ 0 <= points[of][i]
         /\ \A i \in Index : i \in Int /\ 1 <= i
         /\ \A o \in Operation : o.rev \in Int /\ 0 <= o.rev /\ o.size \in Int /\ o.of \in Document
         /\ \A a \in Actor : op[a] # None => op[a] \in Operation
  BY DocumentsAssumption DEF DocumentsTypeOK, Rev, Size, Index, Operation, DocumentsAssumption

-----------------------------------------------------------------------------
(* Steps.                                                                  *)

\* An operation that goes on with the same document, changing nothing else of what the
\* records say.
LEMMA GoesOn ==
  ASSUME DocumentsInv, NEW a \in Actor, op[a] # None, NEW o \in Operation,
         op' = [op EXCEPT ![a] = o], o.of = op[a].of, o.alone <=> op[a].alone,
         o.kind = "delete" \/ o.at = "prepare" => ~ o.stored,
         o.rev <= revs', revs <= revs', revs' \in Int,
         UNCHANGED <<settled, used>>
  PROVE  /\ OpsKnown' /\ AloneIsAlone'
         /\ op' \in [Actor -> Operation \cup {None}]
         /\ op'[a] = o /\ \A b \in Actor \ {a} : op'[b] = op[b]
<1>1. op \in [Actor -> Operation \cup {None}]
  BY DEF DocumentsInv, DocumentsTypeOK
<1>2. op' \in [Actor -> Operation \cup {None}]
  BY <1>1
<1>3. op'[a] = o /\ \A b \in Actor \ {a} : op'[b] = op[b]
  BY <1>1
<1>4. AloneIsAlone'
  BY <1>3 DEF DocumentsInv, AloneIsAlone
<1>5. OpsKnown'
  <2> SUFFICES ASSUME NEW b \in Actor, op'[b] # None
               PROVE  /\ op'[b].kind = "delete" \/ op'[b].at = "prepare" => ~ op'[b].stored
                      /\ op'[b].rev <= revs'
                      /\ op'[b].of \in used'
                      /\ settled'[op'[b].of] = None
    BY DEF OpsKnown
  <2>1. CASE b = a
    BY <1>3, <2>1 DEF DocumentsInv, OpsKnown
  <2>2. CASE b # a
    <3>1. op'[b] = op[b] /\ op[b] # None /\ op[b].rev \in Int /\ revs \in Int
      BY <1>3, <2>2, Numbers DEF DocumentsInv
    <3>2. op[b].rev <= revs
      BY <3>1 DEF DocumentsInv, OpsKnown
    <3>3. op[b].rev <= revs'
      BY <3>1, <3>2
    <3> QED
      BY <3>1, <3>3 DEF DocumentsInv, OpsKnown
  <2> QED
    BY <2>1, <2>2
<1> QED
  BY <1>2, <1>3, <1>4, <1>5

\* The points of an operation that is alone, if nobody changes them.
LEMMA StayAlone ==
  ASSUME AlonePoints, NEW b \in Actor, op'[b] = op[b], op[b] # None, op[b].alone,
         points'[op[b].of] = points[op[b].of]
  PROVE  PointsAt(op[b])'
<1>1. PointsAt(op[b])
  BY DEF AlonePoints
<1> QED
  BY <1>1 DEF PointsAt

\* Each step keeps the invariant: reading a revision of the document,
LEMMA PrepareKeeps ==
  ASSUME DocumentsInv, NEW a \in Actor, NEW size \in 0 .. MaxChunks, Prepare(a, size)
  PROVE  DocumentsInv'
<1> DEFINE o == [op[a] EXCEPT !.rev = revs + 1, !.size = size, !.at = "raw"]
<1>1. /\ op[a] # None /\ op[a] \in Operation /\ op[a].kind = "ingest" /\ op[a].at = "prepare"
      /\ revs \in Int /\ 0 <= revs /\ revs < MaxRevs /\ revs' = revs + 1 /\ MaxRevs \in Int
      /\ UNCHANGED <<points, raw, settled, used>>
      /\ op' = [op EXCEPT ![a] = o]
  BY Numbers, DocumentsAssumption DEF Prepare, At, DocumentsInv, DocumentsAssumption
<1>2. revs' \in Rev
  BY <1>1 DEF Rev
<1>3. /\ o \in Operation
      /\ o.of = op[a].of /\ (o.alone <=> op[a].alone) /\ o.kind = "ingest" /\ o.at = "raw"
      /\ o.rev = revs' /\ o.stored = op[a].stored
  BY <1>1, <1>2 DEF Operation, Size
<1>4. ~ op[a].stored
  BY <1>1 DEF DocumentsInv, OpsKnown
<1> HIDE DEF o
<1>5. /\ OpsKnown' /\ AloneIsAlone'
      /\ op' \in [Actor -> Operation \cup {None}]
      /\ op'[a] = o /\ \A b \in Actor \ {a} : op'[b] = op[b]
  <2>1. o.rev <= revs' /\ revs <= revs' /\ revs' \in Int
    BY <1>1, <1>3
  <2>2. o.kind = "delete" \/ o.at = "prepare" => ~ o.stored
    BY <1>3
  <2> QED
    BY <1>1, <1>3, <2>1, <2>2, GoesOn
<1>6. DocumentsTypeOK'
  BY <1>1, <1>2, <1>5 DEF DocumentsInv, DocumentsTypeOK
<1>7. PointsRead'
  <2>1. \A of \in Document, i \in Index : points[of][i] \in Int /\ points[of][i] <= revs
    BY Numbers DEF DocumentsInv, PointsRead
  <2> QED
    BY <1>1, <2>1 DEF PointsRead
<1>8. AlonePoints'
  <2>1. \A i \in Index : points'[o.of][i] < o.rev
    BY <1>1, <1>3, Numbers DEF DocumentsInv, PointsRead
  <2>2. PointsAt(op[a])'
    BY <1>3, <1>5, <2>1 DEF PointsAt
  <2>3. ASSUME NEW b \in Actor \ {a}, op'[b] # None, op'[b].alone PROVE PointsAt(op[b])'
    BY <1>1, <1>5, <2>3, StayAlone DEF DocumentsInv
  <2> QED
    BY <2>2, <2>3 DEF AlonePoints
<1>9. AloneRaw'
  BY <1>1, <1>3, <1>4, <1>5 DEF AloneRaw, OnlyKb, DocumentsInv
<1>10. IngestedIsIndexed' /\ DeletedIsGone' /\ RawFollows'
  BY <1>1 DEF DocumentsInv, IngestedIsIndexed, DeletedIsGone, RawFollows
<1> QED
  BY <1>5, <1>6, <1>7, <1>8, <1>9, <1>10 DEF DocumentsInv

\* A raw copy that is written, or not: points stay, and only operations on documents of
\* the same id see it, which are none as long as no other KB has one.
LEMMA RawKeeps ==
  ASSUME DocumentsInv, NEW a \in Actor, PutRaw(a) \/ SkipRaw(a)
  PROVE  DocumentsInv'
<1> DEFINE o == IF PutRaw(a) THEN [op[a] EXCEPT !.stored = TRUE, !.at = AfterRaw(a)]
                ELSE [op[a] EXCEPT !.at = AfterRaw(a)]
<1>1. /\ op[a] # None /\ op[a] \in Operation /\ op[a].kind = "ingest" /\ op[a].at = "raw"
      /\ UNCHANGED <<points, revs, settled, used>>
      /\ op' = [op EXCEPT ![a] = o]
      /\ op[a].of \in Document /\ op[a].of \in used
      /\ AfterRaw(a) \in {"points", "answer"}
      /\ AfterRaw(a) = "answer" => op[a].size = 0
  BY Numbers DEF PutRaw, SkipRaw, At, DocumentsInv, OpsKnown, AfterRaw
<1>2. /\ o \in Operation
      /\ o.of = op[a].of /\ (o.alone <=> op[a].alone) /\ o.kind = "ingest" /\ o.at = AfterRaw(a)
      /\ o.rev = op[a].rev /\ o.size = op[a].size
      /\ PutRaw(a) \/ (o.stored <=> op[a].stored)
  BY <1>1 DEF Operation
<1>3. \/ raw' = raw /\ (o.stored <=> op[a].stored)
      \/ raw' = [raw EXCEPT ![op[a].of[2]] = op[a].rev]
  BY <1>2 DEF PutRaw, SkipRaw
<1> HIDE DEF o
<1>4. /\ OpsKnown' /\ AloneIsAlone'
      /\ op' \in [Actor -> Operation \cup {None}]
      /\ op'[a] = o /\ \A b \in Actor \ {a} : op'[b] = op[b]
  <2>1. o.rev <= revs' /\ revs <= revs' /\ revs' \in Int
    BY <1>1, <1>2, Numbers DEF DocumentsInv, OpsKnown
  <2>2. o.kind = "delete" \/ o.at = "prepare" => ~ o.stored
    BY <1>1, <1>2
  <2> QED
    BY <1>1, <1>2, <2>1, <2>2, GoesOn
<1>5. /\ \A d \in Doc \ {op[a].of[2]} : raw'[d] = raw[d]
      /\ op[a].of[2] \in Doc /\ raw \in [Doc -> Rev] /\ op[a].rev \in Rev
      /\ raw' \in [Doc -> Rev]
  BY <1>1, <1>3 DEF DocumentsInv, DocumentsTypeOK, Document, Operation
<1>6. DocumentsTypeOK'
  BY <1>1, <1>4, <1>5 DEF DocumentsInv, DocumentsTypeOK
<1>7. PointsRead'
  BY <1>1 DEF DocumentsInv, PointsRead
<1>8. AlonePoints'
  <2>1. ASSUME op'[a].alone PROVE PointsAt(op[a])'
    <3>1. \A i \in Index : points[op[a].of][i] < op[a].rev
      BY <1>1, <1>2, <1>4, <2>1 DEF DocumentsInv, AlonePoints, PointsAt
    <3>2. \A i \in Index : i \in Int /\ 1 <= i
      BY Numbers DEF DocumentsInv
    <3>3. AfterRaw(a) = "answer" => \A i \in Index : ~ (i <= o.size)
      BY <1>1, <1>2, <3>2
    <3> QED
      BY <1>1, <1>2, <1>4, <3>1, <3>3 DEF PointsAt
  <2>2. ASSUME NEW b \in Actor \ {a}, op'[b] # None, op'[b].alone PROVE PointsAt(op[b])'
    BY <1>1, <1>4, <2>2, StayAlone DEF DocumentsInv
  <2> QED
    BY <2>1, <2>2 DEF AlonePoints
<1>9. AloneRaw'
  <2> SUFFICES ASSUME NEW b \in Actor, op'[b] # None, op'[b].alone, OnlyKb(op'[b].of)
               PROVE  /\ op'[b].stored => raw'[op'[b].of[2]] = op'[b].rev
                      /\ op'[b].kind = "delete" /\ op'[b].at = "answer" => raw'[op'[b].of[2]] = 0
    BY <1>1 DEF AloneRaw, OnlyKb
  <2>1. CASE b = a
    BY <1>1, <1>2, <1>3, <1>4, <1>5, <2>1 DEF DocumentsInv, AloneRaw
  <2>2. CASE b # a
    <3>1. op'[b] = op[b] /\ op[a].of # op[b].of
      BY <1>1, <1>4, <2>2 DEF DocumentsInv, AloneIsAlone
    <3>2. op[b].of[2] # op[a].of[2]
      BY <1>1, <3>1 DEF OnlyKb
    <3>3. op[b].of[2] \in Doc
      BY <3>1, Numbers DEF DocumentsInv, Document
    <3> QED
      BY <1>5, <3>1, <3>2, <3>3 DEF DocumentsInv, AloneRaw
  <2> QED
    BY <2>1, <2>2
<1>10. IngestedIsIndexed' /\ DeletedIsGone'
  BY <1>1 DEF DocumentsInv, IngestedIsIndexed, DeletedIsGone
<1>11. RawFollows'
  <2> SUFFICES ASSUME NEW of \in Document, settled[of] # None,
                      \A other \in used : other[2] = of[2] => other = of
               PROVE  /\ settled[of].stored => raw'[of[2]] = settled[of].rev
                      /\ settled[of].kind = "delete" => raw'[of[2]] = 0
    BY <1>1 DEF RawFollows
  <2>1. op[a].of # of
    BY <1>1 DEF DocumentsInv, OpsKnown
  <2>2. of[2] # op[a].of[2] /\ of[2] \in Doc
    BY <1>1, <2>1 DEF Document
  <2> QED
    BY <1>5, <2>2 DEF DocumentsInv, RawFollows
<1> QED
  BY <1>4, <1>6, <1>7, <1>8, <1>9, <1>10, <1>11 DEF DocumentsInv

\* An upsert or a delete of the points of one document, of which the operation is sure
\* (`PointsAt`) if it is alone.
LEMMA PointsKeep ==
  ASSUME DocumentsInv, NEW a \in Actor, op[a] # None, NEW at \in {"raw", "answer"},
         op' = [op EXCEPT ![a].at = at],
         op[a].kind = "delete" \/ op[a].at # "prepare",
         op[a].kind = "delete" => at = "raw",
         points' \in [Document -> [Index -> Rev]],
         \A of \in Document \ {op[a].of} : points'[of] = points[of],
         \A i \in Index : points'[op[a].of][i] <= revs,
         op[a].alone => PointsAt(op[a])',
         UNCHANGED <<raw, revs, settled, used>>
  PROVE  DocumentsInv'
<1> DEFINE o == [op[a] EXCEPT !.at = at]
<1>1. /\ op[a] \in Operation /\ op[a].of \in Document
      /\ op' = [op EXCEPT ![a] = o]
  BY Numbers DEF DocumentsInv
<1>2. /\ o \in Operation
      /\ o.of = op[a].of /\ (o.alone <=> op[a].alone) /\ o.kind = op[a].kind /\ o.at = at
      /\ o.rev = op[a].rev /\ o.size = op[a].size /\ (o.stored <=> op[a].stored)
  BY <1>1 DEF Operation
<1> HIDE DEF o
<1>3. /\ OpsKnown' /\ AloneIsAlone'
      /\ op' \in [Actor -> Operation \cup {None}]
      /\ op'[a] = o /\ \A b \in Actor \ {a} : op'[b] = op[b]
  <2>1. o.rev <= revs' /\ revs <= revs' /\ revs' \in Int
    BY <1>1, <1>2, Numbers DEF DocumentsInv, OpsKnown
  <2>2. o.kind = "delete" \/ o.at = "prepare" => ~ o.stored
    BY <1>1, <1>2 DEF DocumentsInv, OpsKnown
  <2> QED
    BY <1>1, <1>2, <2>1, <2>2, GoesOn
<1>4. DocumentsTypeOK'
  BY <1>3 DEF DocumentsInv, DocumentsTypeOK
<1>5. PointsRead'
  BY DEF DocumentsInv, PointsRead
<1>6. AlonePoints'
  <2> SUFFICES ASSUME NEW b \in Actor, op'[b] # None, op'[b].alone PROVE PointsAt(op[b])'
    BY DEF AlonePoints
  <2>1. CASE b = a
    BY <1>2, <1>3, <2>1
  <2>2. CASE b # a
    <3>1. op'[b] = op[b] /\ op[a].of # op[b].of
      BY <1>3, <2>2 DEF DocumentsInv, AloneIsAlone
    <3>2. points'[op[b].of] = points[op[b].of]
      BY <3>1, Numbers DEF DocumentsInv
    <3> QED
      BY <3>1, <3>2, StayAlone DEF DocumentsInv
  <2> QED
    BY <2>1, <2>2
<1>7. AloneRaw'
  <2>1. o.alone /\ OnlyKb(o.of) => (o.stored => raw[o.of[2]] = o.rev)
    BY <1>2 DEF DocumentsInv, AloneRaw
  <2>2. ~ (o.kind = "delete" /\ o.at = "answer")
    BY <1>2
  <2> QED
    BY <1>3, <2>1, <2>2 DEF DocumentsInv, AloneRaw, OnlyKb
<1>8. \A of \in Document : settled[of] # None => points'[of] = points[of]
  BY DEF DocumentsInv, OpsKnown
<1>9. IngestedIsIndexed' /\ DeletedIsGone'
  BY <1>8 DEF DocumentsInv, IngestedIsIndexed, DeletedIsGone
<1>10. RawFollows'
  BY DEF DocumentsInv, RawFollows
<1> QED
  BY <1>3, <1>4, <1>5, <1>6, <1>7, <1>9, <1>10 DEF DocumentsInv

\* writing the points,
LEMMA UpsertKeeps ==
  ASSUME DocumentsInv, NEW a \in Actor, Upsert(a)
  PROVE  DocumentsInv'
<1>1. /\ op[a] # None /\ op[a] \in Operation /\ op[a].kind = "ingest" /\ op[a].at = "points"
      /\ op' = [op EXCEPT ![a].at = "answer"]
      /\ op[a].of \in Document /\ op[a].rev \in Rev /\ op[a].rev \in Int /\ op[a].rev <= revs
      /\ op[a].size \in Int
      /\ UNCHANGED <<raw, revs, settled, used>>
  BY Numbers DEF Upsert, UpsertUpTo, At, DocumentsInv, OpsKnown, Operation
<1>2. /\ points' \in [Document -> [Index -> Rev]]
      /\ \A of \in Document \ {op[a].of} : points'[of] = points[of]
      /\ \A i \in Index : points'[op[a].of][i] =
                            IF i <= op[a].size THEN op[a].rev ELSE points[op[a].of][i]
  BY <1>1 DEF Upsert, UpsertUpTo, DocumentsInv, DocumentsTypeOK
<1>3. \A i \in Index : points'[op[a].of][i] <= revs
  BY <1>1, <1>2 DEF DocumentsInv, PointsRead
<1>4. ASSUME op[a].alone PROVE PointsAt(op[a])'
  <2>1. \A i \in Index : points[op[a].of][i] < op[a].rev
    BY <1>1, <1>4 DEF DocumentsInv, AlonePoints, PointsAt
  <2>2. /\ op'[a].of = op[a].of /\ op'[a].kind = "ingest" /\ op'[a].at = "answer"
        /\ op'[a].rev = op[a].rev /\ op'[a].size = op[a].size
    BY <1>1 DEF DocumentsInv, DocumentsTypeOK, Operation
  <2> QED
    BY <1>2, <2>1, <2>2 DEF PointsAt
<1> QED
  BY <1>1, <1>2, <1>3, <1>4, PointsKeep

\* deleting them,
LEMMA DeletePointsKeeps ==
  ASSUME DocumentsInv, NEW a \in Actor, DeletePoints(a)
  PROVE  DocumentsInv'
<1>1. /\ op[a] # None /\ op[a] \in Operation /\ op[a].kind = "delete"
      /\ op' = [op EXCEPT ![a].at = "raw"]
      /\ op[a].of \in Document /\ revs \in Int /\ 0 <= revs
      /\ UNCHANGED <<raw, revs, settled, used>>
  BY Numbers DEF DeletePoints, DeletePointsOf, At, DocumentsInv
<1>2. 0 \in Rev
  BY DocumentsAssumption DEF Rev, DocumentsAssumption
<1>3. /\ points' \in [Document -> [Index -> Rev]]
      /\ \A of \in Document \ {op[a].of} : points'[of] = points[of]
      /\ \A i \in Index : points'[op[a].of][i] = 0
  BY <1>1, <1>2 DEF DeletePoints, DeletePointsOf, DocumentsInv, DocumentsTypeOK
<1>4. \A i \in Index : points'[op[a].of][i] <= revs
  BY <1>1, <1>3
<1>5. PointsAt(op[a])'
  <2>1. op'[a].of = op[a].of /\ op'[a].kind = "delete"
    BY <1>1 DEF DocumentsInv, DocumentsTypeOK, Operation
  <2> QED
    BY <1>3, <2>1 DEF PointsAt
<1> QED
  BY <1>1, <1>3, <1>4, <1>5, PointsKeep

\* deleting the raw copy,
LEMMA DeleteRawKeeps ==
  ASSUME DocumentsInv, NEW a \in Actor, DeleteRaw(a)
  PROVE  DocumentsInv'
<1> DEFINE o == [op[a] EXCEPT !.at = "answer"]
<1>1. /\ op[a] # None /\ op[a] \in Operation /\ op[a].kind = "delete" /\ op[a].at = "raw"
      /\ op' = [op EXCEPT ![a] = o]
      /\ op[a].of \in Document /\ op[a].of \in used
      /\ UNCHANGED <<points, revs, settled, used>>
      /\ ~ op[a].stored
  BY Numbers DEF DeleteRaw, At, DocumentsInv, OpsKnown
<1>2. /\ o \in Operation
      /\ o.of = op[a].of /\ (o.alone <=> op[a].alone) /\ o.kind = "delete" /\ o.at = "answer"
      /\ o.rev = op[a].rev /\ ~ o.stored
  BY <1>1 DEF Operation
<1> HIDE DEF o
<1>3. /\ OpsKnown' /\ AloneIsAlone'
      /\ op' \in [Actor -> Operation \cup {None}]
      /\ op'[a] = o /\ \A b \in Actor \ {a} : op'[b] = op[b]
  <2>1. o.rev <= revs' /\ revs <= revs' /\ revs' \in Int
    BY <1>1, <1>2, Numbers DEF DocumentsInv, OpsKnown
  <2> QED
    BY <1>1, <1>2, <2>1, GoesOn
<1>4. /\ \A d \in Doc \ {op[a].of[2]} : raw'[d] = raw[d]
      /\ raw'[op[a].of[2]] = 0
      /\ raw' \in [Doc -> Rev]
  <2>1. op[a].of[2] \in Doc /\ 0 \in Rev /\ raw \in [Doc -> Rev]
    BY <1>1, DocumentsAssumption DEF DocumentsInv, DocumentsTypeOK, Document, Rev, DocumentsAssumption
  <2> QED
    BY <2>1 DEF DeleteRaw
<1>5. DocumentsTypeOK'
  BY <1>1, <1>3, <1>4 DEF DocumentsInv, DocumentsTypeOK
<1>6. PointsRead'
  BY <1>1 DEF DocumentsInv, PointsRead
<1>7. AlonePoints'
  <2>1. ASSUME op'[a].alone PROVE PointsAt(op[a])'
    <3>1. PointsAt(op[a])
      BY <1>1, <1>2, <1>3, <2>1 DEF DocumentsInv, AlonePoints
    <3> QED
      BY <1>1, <1>2, <1>3, <3>1 DEF PointsAt
  <2>2. ASSUME NEW b \in Actor \ {a}, op'[b] # None, op'[b].alone PROVE PointsAt(op[b])'
    BY <1>1, <1>3, <2>2, StayAlone DEF DocumentsInv
  <2> QED
    BY <2>1, <2>2 DEF AlonePoints
<1>8. AloneRaw'
  <2> SUFFICES ASSUME NEW b \in Actor, op'[b] # None, op'[b].alone, OnlyKb(op'[b].of)
               PROVE  /\ op'[b].stored => raw'[op'[b].of[2]] = op'[b].rev
                      /\ op'[b].kind = "delete" /\ op'[b].at = "answer" => raw'[op'[b].of[2]] = 0
    BY <1>1 DEF AloneRaw, OnlyKb
  <2>1. CASE b = a
    BY <1>2, <1>3, <1>4, <2>1
  <2>2. CASE b # a
    <3>1. op'[b] = op[b] /\ op[a].of # op[b].of
      BY <1>1, <1>3, <2>2 DEF DocumentsInv, AloneIsAlone
    <3>2. op[b].of[2] # op[a].of[2]
      BY <1>1, <3>1 DEF OnlyKb
    <3>3. op[b].of[2] \in Doc
      BY <3>1, Numbers DEF DocumentsInv, Document
    <3> QED
      BY <1>4, <3>1, <3>2, <3>3 DEF DocumentsInv, AloneRaw
  <2> QED
    BY <2>1, <2>2
<1>9. IngestedIsIndexed' /\ DeletedIsGone'
  BY <1>1 DEF DocumentsInv, IngestedIsIndexed, DeletedIsGone
<1>10. RawFollows'
  <2> SUFFICES ASSUME NEW of \in Document, settled[of] # None,
                      \A other \in used : other[2] = of[2] => other = of
               PROVE  /\ settled[of].stored => raw'[of[2]] = settled[of].rev
                      /\ settled[of].kind = "delete" => raw'[of[2]] = 0
    BY <1>1 DEF RawFollows
  <2>1. op[a].of # of
    BY <1>1 DEF DocumentsInv, OpsKnown
  <2>2. of[2] # op[a].of[2] /\ of[2] \in Doc
    BY <1>1, <2>1 DEF Document
  <2> QED
    BY <1>4, <2>2 DEF DocumentsInv, RawFollows
<1> QED
  BY <1>3, <1>5, <1>6, <1>7, <1>8, <1>9, <1>10 DEF DocumentsInv

\* A new operation is alone if there is no other, and ends the solitude of those it meets.
LEMMA StartKeeps ==
  ASSUME DocumentsInv, NEW a \in Actor, NEW of \in Document,
         StartIngest(a, of) \/ StartDelete(a, of)
  PROVE  DocumentsInv'
<1>1. PICK kind \in {"ingest", "delete"}, at \in {"prepare", "points"} :
        Start(a, of, kind, at) /\ (kind = "ingest" <=> at = "prepare")
  BY DEF StartIngest, StartDelete
<1> DEFINE o == [kind |-> kind, of |-> of, at |-> at, rev |-> 0, size |-> 0,
                 stored |-> FALSE, alone |-> On(of) = {}]
<1>2. /\ op[a] = None /\ settled' = [settled EXCEPT ![of] = None] /\ used' = used \cup {of}
      /\ UNCHANGED <<points, raw, revs>>
      /\ op' = [b \in Actor |-> IF b = a THEN o
                                ELSE IF b \in On(of) THEN [op[b] EXCEPT !.alone = FALSE]
                                ELSE op[b]]
  BY <1>1 DEF Start
<1>3. o \in Operation
  <2>1. 0 \in Rev /\ 0 \in Size
    BY DocumentsAssumption DEF Rev, Size, DocumentsAssumption
  <2> QED
    BY <2>1 DEF Operation, Kind
<1>4. /\ o.of = of /\ (o.alone <=> On(of) = {}) /\ ~ o.stored /\ o.rev = 0
      /\ o.at \notin {"raw", "answer"} /\ o.kind = kind /\ o.at = at
  OBVIOUS
<1> HIDE DEF o
<1>5. ASSUME NEW b \in Actor \ {a}, op'[b] # None
      PROVE  /\ op[b] # None /\ op'[b].of = op[b].of /\ op'[b].kind = op[b].kind
             /\ op'[b].at = op[b].at /\ op'[b].rev = op[b].rev /\ op'[b].size = op[b].size
             /\ (op'[b].stored <=> op[b].stored)
             /\ op'[b].alone => op'[b] = op[b] /\ op[b].of # of
             /\ op'[b] \in Operation
  <2>1. CASE b \in On(of)
    <3>1. op[b] # None /\ op[b] \in Operation /\ op'[b] = [op[b] EXCEPT !.alone = FALSE]
      BY <1>2, <2>1, Numbers DEF On, DocumentsInv
    <3> QED
      BY <3>1 DEF Operation
  <2>2. CASE b \notin On(of)
    <3>1. op'[b] = op[b]
      BY <1>2, <2>2
    <3> QED
      BY <1>5, <2>2, <3>1, Numbers DEF On, DocumentsInv
  <2> QED
    BY <2>1, <2>2
<1>6. op'[a] = o
  BY <1>2
<1>7. DocumentsTypeOK'
  <2>1. op' \in [Actor -> Operation \cup {None}]
    BY <1>2, <1>3, <1>5, <1>6
  <2> QED
    BY <1>2, <2>1 DEF DocumentsInv, DocumentsTypeOK
<1>8. PointsRead'
  BY <1>2 DEF DocumentsInv, PointsRead
<1>9. OpsKnown'
  <2>1. settled \in [Document -> [kind : Kind, rev : Rev, size : Size, stored : BOOLEAN] \cup {None}]
    BY DEF DocumentsInv, DocumentsTypeOK
  <2>2. ASSUME NEW b \in Actor \ {a}, op'[b] # None
        PROVE  /\ op'[b].kind = "delete" \/ op'[b].at = "prepare" => ~ op'[b].stored
               /\ op'[b].rev <= revs' /\ op'[b].of \in used' /\ settled'[op'[b].of] = None
    <3>1. op'[b].of \in Document
      BY <1>5, <2>2, Numbers DEF DocumentsInv
    <3>2. /\ op[b].kind = "delete" \/ op[b].at = "prepare" => ~ op[b].stored
          /\ op[b].rev <= revs /\ op[b].of \in used /\ settled[op[b].of] = None
      BY <1>5, <2>2 DEF DocumentsInv, OpsKnown
    <3>3. settled'[op'[b].of] = None
      BY <1>2, <1>5, <2>1, <2>2, <3>1, <3>2
    <3>4. op'[b].rev <= revs' /\ op'[b].of \in used'
      BY <1>2, <1>5, <2>2, <3>2
    <3>5. op'[b].kind = "delete" \/ op'[b].at = "prepare" => ~ op'[b].stored
      BY <1>5, <2>2, <3>2
    <3> QED
      BY <3>3, <3>4, <3>5
  <2>3. 0 <= revs'
    BY <1>2, Numbers DEF DocumentsInv
  <2>4. settled'[of] = None
    BY <1>2, <2>1
  <2> QED
    BY <1>2, <1>4, <1>6, <2>2, <2>3, <2>4 DEF OpsKnown
<1>10. AloneIsAlone'
  <2> SUFFICES ASSUME NEW b \in Actor, NEW c \in Actor, op'[b] # None, op'[c] # None,
                      op'[b].of = op'[c].of, op'[b].alone
               PROVE  b = c
    BY DEF AloneIsAlone
  <2>1. CASE b = a
    BY <1>4, <1>5, <1>6, <2>1 DEF On
  <2>2. CASE b # a
    BY <1>4, <1>5, <1>6, <2>2 DEF DocumentsInv, AloneIsAlone
  <2> QED
    BY <2>1, <2>2
<1>11. AlonePoints'
  <2>1. PointsAt(op[a])'
    BY <1>1, <1>4, <1>6 DEF PointsAt
  <2>2. ASSUME NEW b \in Actor \ {a}, op'[b] # None, op'[b].alone PROVE PointsAt(op[b])'
    BY <1>2, <1>5, <2>2, StayAlone DEF DocumentsInv
  <2> QED
    BY <2>1, <2>2 DEF AlonePoints
<1>12. AloneRaw'
  BY <1>2, <1>4, <1>5, <1>6 DEF DocumentsInv, AloneRaw, OnlyKb
<1>13. \A other \in Document : settled'[other] # None => settled'[other] = settled[other]
  BY <1>2 DEF DocumentsInv, DocumentsTypeOK
<1>14. IngestedIsIndexed' /\ DeletedIsGone'
  BY <1>2, <1>13 DEF DocumentsInv, IngestedIsIndexed, DeletedIsGone
<1>15. RawFollows'
  BY <1>2, <1>13 DEF DocumentsInv, RawFollows
<1> QED
  BY <1>7, <1>8, <1>9, <1>10, <1>11, <1>12, <1>14, <1>15 DEF DocumentsInv

\* An operation that ends says no more than what holds if it was alone.
LEMMA EndKeeps ==
  ASSUME DocumentsInv, NEW a \in Actor, Return(a) \/ Fail(a)
  PROVE  DocumentsInv'
<1> DEFINE o == op[a]
           s == [kind |-> o.kind, rev |-> o.rev, size |-> o.size, stored |-> o.stored]
<1>1. /\ o # None /\ o \in Operation /\ o.of \in Document
      /\ op' = [op EXCEPT ![a] = None]
      /\ UNCHANGED <<points, raw, revs, used>>
  BY Numbers DEF Return, ReturnIf, Fail, DocumentsInv
<1>2. /\ op'[a] = None /\ \A b \in Actor \ {a} : op'[b] = op[b]
      /\ op' \in [Actor -> Operation \cup {None}]
  BY <1>1 DEF DocumentsInv, DocumentsTypeOK
<1>3. \/ settled' = settled
      \/ settled' = [settled EXCEPT ![o.of] = None]
      \/ o.alone /\ o.at = "answer" /\ settled' = [settled EXCEPT ![o.of] = s]
  BY DEF Return, ReturnIf, Fail
<1>4. settled' \in [Document -> [kind : Kind, rev : Rev, size : Size, stored : BOOLEAN] \cup {None}]
  <2>1. s \in [kind : Kind, rev : Rev, size : Size, stored : BOOLEAN]
    BY <1>1 DEF Operation
  <2> QED
    BY <1>1, <1>3, <2>1 DEF DocumentsInv, DocumentsTypeOK
<1>5. \A of \in Document : settled'[of] # None =>
        \/ settled'[of] = settled[of]
        \/ of = o.of /\ o.alone /\ o.at = "answer" /\ settled'[of] = s
  BY <1>1, <1>3 DEF DocumentsInv, DocumentsTypeOK
<1>6. DocumentsTypeOK'
  BY <1>1, <1>2, <1>4 DEF DocumentsInv, DocumentsTypeOK
<1>7. PointsRead'
  BY <1>1 DEF DocumentsInv, PointsRead
<1>8. OpsKnown'
  <2>1. ASSUME NEW b \in Actor \ {a}, op[b] # None PROVE settled'[op[b].of] = None
    <3>1. op[b].of \in Document /\ settled[op[b].of] = None
      BY <2>1, Numbers DEF DocumentsInv, OpsKnown
    <3>2. op[b].of = o.of => ~ o.alone
      BY <1>1, <2>1 DEF DocumentsInv, AloneIsAlone
    <3> QED
      BY <1>5, <3>1, <3>2
  <2> QED
    BY <1>1, <1>2, <2>1 DEF DocumentsInv, OpsKnown
<1>9. AloneIsAlone' /\ AloneRaw'
  BY <1>1, <1>2 DEF DocumentsInv, AloneIsAlone, AloneRaw, OnlyKb
<1>10. AlonePoints'
  <2> SUFFICES ASSUME NEW b \in Actor, op'[b] # None, op'[b].alone PROVE PointsAt(op[b])'
    BY DEF AlonePoints
  <2> QED
    BY <1>1, <1>2, StayAlone DEF DocumentsInv
<1>11. o.alone => PointsAt(o)
  BY <1>1 DEF DocumentsInv, AlonePoints
<1>12. s.kind = o.kind /\ s.rev = o.rev /\ s.size = o.size /\ s.stored = o.stored
  OBVIOUS
<1> HIDE DEF s
<1>13. IngestedIsIndexed'
  <2> SUFFICES ASSUME NEW of \in Document, settled'[of] # None, settled'[of].kind = "ingest"
               PROVE  \A i \in Index : IF i <= settled'[of].size
                                       THEN points[of][i] = settled'[of].rev
                                       ELSE points[of][i] < settled'[of].rev
    BY <1>1 DEF IngestedIsIndexed
  <2> QED
    BY <1>5, <1>11, <1>12 DEF DocumentsInv, IngestedIsIndexed, PointsAt
<1>14. DeletedIsGone'
  <2> SUFFICES ASSUME NEW of \in Document, settled'[of] # None, settled'[of].kind = "delete"
               PROVE  \A i \in Index : points[of][i] = 0
    BY <1>1 DEF DeletedIsGone
  <2> QED
    BY <1>5, <1>11, <1>12 DEF DocumentsInv, DeletedIsGone, PointsAt
<1>15. RawFollows'
  <2> SUFFICES ASSUME NEW of \in Document, settled'[of] # None, OnlyKb(of)
               PROVE  /\ settled'[of].stored => raw[of[2]] = settled'[of].rev
                      /\ settled'[of].kind = "delete" => raw[of[2]] = 0
    BY <1>1 DEF RawFollows, OnlyKb
  <2> QED
    BY <1>1, <1>5, <1>12 DEF DocumentsInv, RawFollows, AloneRaw, OnlyKb
<1> QED
  BY <1>6, <1>7, <1>8, <1>9, <1>10, <1>13, <1>14, <1>15 DEF DocumentsInv

\* So every step does, whoever takes it.
LEMMA DocumentsInvNext == DocumentsInv /\ [DocumentsNext]_documentsVars => DocumentsInv'
<1> SUFFICES ASSUME DocumentsInv, [DocumentsNext]_documentsVars PROVE DocumentsInv'
  OBVIOUS
<1>1. ASSUME UNCHANGED documentsVars PROVE DocumentsInv'
  BY <1>1 DEF documentsVars, DocumentsInv, DocumentsTypeOK, PointsRead, OpsKnown, AloneIsAlone,
     AlonePoints,
              PointsAt, AloneRaw, OnlyKb, IngestedIsIndexed, DeletedIsGone, RawFollows
<1> QED
  BY <1>1, StartKeeps, PrepareKeeps, RawKeeps, UpsertKeeps, DeletePointsKeeps,
     DeleteRawKeeps, EndKeeps DEF DocumentsNext

-----------------------------------------------------------------------------
(* The theorems.                                                           *)

\* An operation that is alone with its document has done to both stores exactly what its
\* calls that returned did.
THEOREM DocumentsInvariant == DocumentsSpec => []DocumentsInv
  BY DocumentsInvInit, DocumentsInvNext, PTL DEF DocumentsSpec

\* IngestPipeline.run: a completed job that nothing overlapped is what is indexed.
THEOREM DocumentsIngestedIsIndexed == DocumentsSpec => []IngestedIsIndexed
<1>1. DocumentsInv => IngestedIsIndexed
  BY DEF DocumentsInv
<1> QED
  BY <1>1, DocumentsInvariant, PTL

\* RagEngine.delete_document: a delete that nothing overlapped leaves no point.
THEOREM DocumentsDeletedIsGone == DocumentsSpec => []DeletedIsGone
<1>1. DocumentsInv => DeletedIsGone
  BY DEF DocumentsInv
<1> QED
  BY <1>1, DocumentsInvariant, PTL

\* _store_raw_document and the delete of the object: the raw copy goes with the points,
\* unless a document of another KB has the same id.
THEOREM DocumentsRawFollows == DocumentsSpec => []RawFollows
<1>1. DocumentsInv => RawFollows
  BY DEF DocumentsInv
<1> QED
  BY <1>1, DocumentsInvariant, PTL

-----------------------------------------------------------------------------
(* The queue.  The properties the runs check are inductive together once   *)
(* it is known that only returned submissions are in the history of        *)
(* accepted jobs: a second submission of an accepted job would break the   *)
(* order, and an accepted job that is not the record's could be started    *)
(* twice.                                                                  *)

AcceptedReturned ==
  \A i \in DOMAIN accepted : submit[accepted[i]] = "returned"

IInv ==
  /\ TypeOK
  /\ FirstInFirstOut
  /\ RecordsMatchPlaces
  /\ NoJobLost
  /\ JoinIsExact
  /\ DepthLag
  /\ AcceptedReturned

-----------------------------------------------------------------------------
(* Sequences: a put and a get leave "started, then queued" in order.       *)

\* What is put goes behind everything accepted before it.
LEMMA PutAtTheEnd ==
  ASSUME NEW S, NEW s \in Seq(S), NEW q \in Seq(S), NEW e \in S
  PROVE  Append(s \o q, e) = s \o Append(q, e)
<1>1. s \o q \in Seq(S)
  BY ConcatProperties
<1>2. <<e>> \in Seq(S)
  OBVIOUS
<1>3. Append(s \o q, e) = (s \o q) \o <<e>>
  BY <1>1, AppendIsConcat
<1>4. Append(q, e) = q \o <<e>>
  BY AppendIsConcat
<1> QED
  BY <1>2, <1>3, <1>4, ConcatAssociative

\* What is taken is the oldest of what is accepted and not started.
LEMMA TakeFromTheFront ==
  ASSUME NEW S, NEW s \in Seq(S), NEW q \in Seq(S), q # <<>>
  PROVE  Append(s, Head(q)) \o Tail(q) = s \o q
<1>1. Head(q) \in S /\ Tail(q) \in Seq(S) /\ Len(q) \in Nat
  BY HeadTailProperties
<1>2. <<Head(q)>> \in Seq(S)
  BY <1>1
<1>3. <<Head(q)>> \o Tail(q) = q
  <2>1. <<Head(q)>> \o Tail(q) \in Seq(S)
    BY <1>1, <1>2, ConcatProperties
  <2>2. Len(<<Head(q)>> \o Tail(q)) = Len(q)
    BY <1>1
  <2>3. \A i \in 1 .. Len(q) : (<<Head(q)>> \o Tail(q))[i] = q[i]
    BY <1>1
  <2> QED
    BY <2>1, <2>2, <2>3, SeqEqual
<1>4. Append(s, Head(q)) = s \o <<Head(q)>>
  BY <1>1, AppendIsConcat
<1> QED
  BY <1>1, <1>2, <1>3, <1>4, ConcatAssociative

\* Appending a new element keeps a sequence free of repetitions.
LEMMA AppendNew ==
  ASSUME NEW S, NEW s \in Seq(S), NEW e \in S, IsInjective(s),
         \A i \in DOMAIN s : s[i] # e
  PROVE  IsInjective(Append(s, e))
BY DEF IsInjective

\* The queue is a part of what was accepted: no job is queued twice.
LEMMA QueueIsInjective ==
  ASSUME TypeOK, FirstInFirstOut
  PROVE  \A i, k \in DOMAIN queue : queue[i] = queue[k] => i = k
<1> USE DEF TypeOK, FirstInFirstOut
<1>1. ASSUME NEW i \in DOMAIN queue
      PROVE  /\ Len(started) + i \in DOMAIN accepted
             /\ accepted[Len(started) + i] = queue[i]
  BY <1>1, ConcatProperties
<1>2. SUFFICES ASSUME NEW i \in DOMAIN queue, NEW k \in DOMAIN queue,
                      queue[i] = queue[k]
               PROVE  i = k
  OBVIOUS
<1>3. Len(started) + i = Len(started) + k
  BY <1>1, <1>2 DEF IsInjective
<1>4. i \in Int /\ k \in Int /\ Len(started) \in Int
  OBVIOUS
<1> QED
  BY <1>3, <1>4

\* Finiteness makes the number of running handlers a number.
LEMMA BusyIsFinite ==
  /\ IsFiniteSet(Busy)
  /\ Cardinality(Busy) \in Nat
BY IngestQueueAssumption, FS_Subset, FS_CardinalityType DEF Busy

-----------------------------------------------------------------------------
(* The two ways a job moves: a put, and a worker's turn.                   *)

\* A put keeps the invariant, for a new submission and for one that waited.
LEMMA PutKeepsIInv ==
  ASSUME IInv, NEW j \in Job, submit[j] \in {"none", "blocked"}, Put(j),
         status' = [status EXCEPT ![j] = "pending"],
         UNCHANGED <<task, closing, started>>
  PROVE  IInv'
<1> USE DEF IInv
<1>a. /\ queue \in Seq(Job) /\ accepted \in Seq(Job) /\ started \in Seq(Job)
      /\ queue' = Append(queue, j) /\ accepted' = Append(accepted, j)
      /\ submit' = [submit EXCEPT ![j] = "returned"]
      /\ unfinished' = unfinished + 1 /\ depth' = Len(queue) + 1
      /\ Len(queue') = Len(queue) + 1
  BY DEF TypeOK, Put, PutReporting
<1>b. status[j] \in {"absent", "pending"}
  BY DEF TypeOK, Submit, RecordsMatchPlaces
<1>c. Busy' = Busy /\ Held' = Held
  BY DEF Busy, Held
<1>1. TypeOK'
  BY <1>a DEF TypeOK, Status, Submit
<1>2. FirstInFirstOut'
  <2>1. accepted' = started' \o queue'
    BY <1>a, PutAtTheEnd DEF FirstInFirstOut
  <2>2. \A i \in DOMAIN accepted : accepted[i] # j
    BY DEF AcceptedReturned
  <2>3. IsInjective(accepted')
    BY <1>a, <2>2, AppendNew DEF FirstInFirstOut
  <2> QED
    BY <2>1, <2>3 DEF FirstInFirstOut
<1>3. RecordsMatchPlaces'
  <2>1. \A w \in Busy : task[w] # j
    BY <1>b DEF RecordsMatchPlaces
  <2>2. \A i \in DOMAIN queue' :
          status'[queue'[i]] = "pending" /\ submit'[queue'[i]] = "returned"
    BY <1>a DEF RecordsMatchPlaces, TypeOK
  <2> QED
    BY <1>a, <1>c, <2>1, <2>2 DEF RecordsMatchPlaces, TypeOK, Busy
<1>4. NoJobLost'
  <2>1. Range(queue') = Range(queue) \cup {j}
    <3>1. \A i \in DOMAIN queue : i \in DOMAIN queue' /\ queue'[i] = queue[i]
      BY <1>a
    <3>2. \A i \in DOMAIN queue' : i \in DOMAIN queue \/ queue'[i] = j
      BY <1>a
    <3>3. Len(queue) + 1 \in DOMAIN queue' /\ queue'[Len(queue) + 1] = j
      BY <1>a
    <3> QED
      BY <3>1, <3>2, <3>3 DEF Range
  <2> QED
    BY <1>a, <1>b, <1>c, <2>1 DEF NoJobLost, TypeOK
<1>5. JoinIsExact' /\ DepthLag'
  BY <1>a, <1>c, BusyIsFinite DEF JoinIsExact, DepthLag, TypeOK
<1>6. AcceptedReturned'
  BY <1>a DEF AcceptedReturned, TypeOK
<1> QED
  BY <1>1, <1>2, <1>3, <1>4, <1>5, <1>6

\* What the loop finds when it gets to queue.get(): the worker's former job, if it
\* had one, has an outcome, and no other record has moved.
Handover(w, board) ==
  /\ board \in [Job -> Status]
  /\ task[w] = Idle => board = status
  /\ task[w] \in Job => board[task[w]] \in Outcome
  /\ \A j \in Job : j # task[w] => board[j] = status[j]

\* Taking the next job, or waiting for one, keeps all that does not count.
LEMMA TakeNextKeepsPlaces ==
  ASSUME IInv, ~closing, NEW w \in Worker, task[w] # Stopped,
         NEW board, Handover(w, board), TakeNext(w, board),
         UNCHANGED <<submit, closing, accepted>>
  PROVE  /\ queue' \in Seq(Job) /\ started' \in Seq(Job)
         /\ status' \in [Job -> Status]
         /\ task' \in [Worker -> Job \cup {Idle, Stopped}]
         /\ FirstInFirstOut'
         /\ RecordsMatchPlaces'
         /\ NoJobLost'
         /\ AcceptedReturned'
<1> USE DEF IInv, TakeNext, TakeLeaving
<1>a. /\ queue \in Seq(Job) /\ started \in Seq(Job) /\ accepted \in Seq(Job)
      /\ status \in [Job -> Status] /\ submit \in [Job -> Submit]
      /\ task \in [Worker -> Job \cup {Idle, Stopped}]
      /\ board \in [Job -> Status]
  BY DEF TypeOK, Handover
<1>b. AcceptedReturned'
  BY DEF AcceptedReturned
<1>c. task[w] = Idle \/ task[w] \in Job
  BY <1>a
<1>d. ASSUME NEW j \in Job, status[j] # "running"
      PROVE  j # task[w] /\ board[j] = status[j]
  BY <1>c, <1>d, IngestQueueAssumption DEF Handover, RecordsMatchPlaces, Busy
<1>e. \A v \in Busy : v # w => board[task[v]] = status[task[v]]
  BY <1>a, <1>c, IngestQueueAssumption
     DEF Handover, RecordsMatchPlaces, Busy
<1>1. CASE queue = <<>>
  <2>a. /\ task' = [task EXCEPT ![w] = Idle] /\ status' = board
        /\ queue' = queue /\ started' = started
    BY <1>1
  <2>b. Busy' = Busy \ {w} /\ \A v \in Busy' : task'[v] = task[v]
    BY <1>a, <2>a, IngestQueueAssumption DEF Busy
  <2>1. FirstInFirstOut'
    BY <2>a DEF FirstInFirstOut
  <2>2. RecordsMatchPlaces'
    <3>1. \A v \in Busy' : status'[task'[v]] = "running"
      BY <1>e, <2>a, <2>b DEF RecordsMatchPlaces
    <3>2. \A u, v \in Busy' : task'[u] = task'[v] => u = v
      BY <2>b DEF RecordsMatchPlaces
    <3>3. \A j \in Job :
            /\ board[j] = "absent" <=> submit[j] = "none"
            /\ submit[j] \in {"blocked", "cancelled"} => board[j] = "pending"
      BY <1>a, <1>c, IngestQueueAssumption
         DEF Handover, RecordsMatchPlaces, Busy, Outcome
    <3> QED
      BY <1>1, <2>a, <3>1, <3>2, <3>3 DEF RecordsMatchPlaces
  <2>3. NoJobLost'
    <3>1. SUFFICES ASSUME NEW j \in Job
                   PROVE  /\ board[j] = "pending" /\ submit[j] = "returned" =>
                               j \in Range(queue)
                          /\ board[j] = "running" => j \in Held'
      BY <2>a DEF NoJobLost
    <3>2. board[j] \in {"pending", "running"} => j # task[w] /\ board[j] = status[j]
      BY <1>c, IngestQueueAssumption DEF Handover, Outcome
    <3>3. ASSUME j # task[w], j \in Held
          PROVE  j \in Held'
      BY <2>b, <3>3 DEF Held
    <3> QED
      BY <3>2, <3>3 DEF NoJobLost
  <2> QED
    BY <1>a, <1>b, <2>a, <2>1, <2>2, <2>3
<1>2. CASE queue # <<>>
  <2> DEFINE h == Head(queue)
  <2>a. /\ task' = [task EXCEPT ![w] = h]
        /\ status' = [board EXCEPT ![h] = "running"]
        /\ queue' = Tail(queue) /\ started' = Append(started, h)
    BY <1>2
  <2>b. /\ h \in Job /\ queue' \in Seq(Job) /\ started' \in Seq(Job)
        /\ h = queue[1] /\ 1 \in DOMAIN queue
        /\ \A i \in DOMAIN queue' : i + 1 \in DOMAIN queue /\ queue'[i] = queue[i + 1]
        /\ Range(queue) = Range(queue') \cup {h}
    <3>1. /\ h \in Job /\ queue' \in Seq(Job) /\ started' \in Seq(Job)
          /\ h = queue[1] /\ 1 \in DOMAIN queue
          /\ \A i \in DOMAIN queue' :
               i + 1 \in DOMAIN queue /\ queue'[i] = queue[i + 1]
      BY <1>a, <1>2, <2>a
    <3>2. \A i \in DOMAIN queue : i = 1 \/ (i - 1 \in DOMAIN queue' /\ i = (i - 1) + 1)
      BY <1>a, <1>2, <2>a
    <3> QED
      BY <3>1, <3>2 DEF Range
  <2>c. /\ status[h] = "pending" /\ submit[h] = "returned"
        /\ h # task[w] /\ board[h] = "pending"
    BY <1>d, <2>b DEF RecordsMatchPlaces
  <2>d. \A i \in DOMAIN queue' : queue'[i] # h
    BY <1>a, <2>b, QueueIsInjective
  <2>e. Busy' = Busy \cup {w} /\ task'[w] = h /\ \A v \in Busy' : v # w => task'[v] = task[v]
    BY <1>a, <2>a, <2>b DEF Busy
  <2>f. \A v \in Busy : task[v] # h
    BY <2>c DEF RecordsMatchPlaces
  <2> HIDE DEF h
  <2>1. FirstInFirstOut'
    BY <1>a, <1>2, <2>a, TakeFromTheFront DEF FirstInFirstOut, h
  <2>2. RecordsMatchPlaces'
    <3>1. \A v \in Busy' : status'[task'[v]] = "running"
      BY <1>a, <1>e, <2>a, <2>b, <2>e, <2>f DEF RecordsMatchPlaces, Busy
    <3>2. \A u, v \in Busy' : task'[u] = task'[v] => u = v
      BY <2>e, <2>f DEF RecordsMatchPlaces
    <3>3. \A i \in DOMAIN queue' :
            status'[queue'[i]] = "pending" /\ submit'[queue'[i]] = "returned"
      BY <1>a, <1>d, <2>a, <2>b, <2>d DEF RecordsMatchPlaces
    <3>4. \A j \in Job :
            /\ board[j] = "absent" <=> submit[j] = "none"
            /\ submit[j] \in {"blocked", "cancelled"} => board[j] = "pending"
      BY <1>a, <1>c, IngestQueueAssumption
         DEF Handover, RecordsMatchPlaces, Busy, Outcome
    <3>5. \A j \in Job :
            /\ status'[j] = "absent" <=> submit[j] = "none"
            /\ submit[j] \in {"blocked", "cancelled"} => status'[j] = "pending"
      BY <1>a, <2>a, <2>b, <2>c, <3>4
    <3> QED
      BY <3>1, <3>2, <3>3, <3>5 DEF RecordsMatchPlaces
  <2>3. NoJobLost'
    <3>1. SUFFICES ASSUME NEW j \in Job
                   PROVE  /\ status'[j] = "pending" /\ submit[j] = "returned" =>
                               j \in Range(queue')
                          /\ status'[j] = "running" => j \in Held'
      BY DEF NoJobLost
    <3>2. h \in Held'
      BY <2>e DEF Held
    <3>3. j # h /\ board[j] \in {"pending", "running"} =>
            j # task[w] /\ board[j] = status[j]
      BY <1>c, IngestQueueAssumption DEF Handover, Outcome
    <3>4. ASSUME j # task[w], j \in Held
          PROVE  j \in Held'
      BY <2>e, <3>4 DEF Held
    <3>5. status'[j] = IF j = h THEN "running" ELSE board[j]
      BY <1>a, <2>a
    <3> QED
      BY <2>b, <3>2, <3>3, <3>4, <3>5 DEF NoJobLost
  <2> QED
    BY <1>a, <1>b, <2>a, <2>b, <2>1, <2>2, <2>3 DEF Status
<1> QED
  BY <1>1, <1>2

\* The counts when a worker enters or leaves the handler.
LEMMA BusyCounts ==
  ASSUME TypeOK, NEW w \in Worker, NEW t \in Job \cup {Idle, Stopped},
         task' = [task EXCEPT ![w] = t]
  PROVE  /\ t \in Job /\ task[w] \in Job =>
              Cardinality(Busy') = Cardinality(Busy)
         /\ t \in Job /\ task[w] \notin Job =>
              Cardinality(Busy') = Cardinality(Busy) + 1
         /\ t \notin Job /\ task[w] \in Job =>
              Cardinality(Busy') = Cardinality(Busy) - 1
<1>1. w \in Busy <=> task[w] \in Job
  BY DEF Busy
<1>2. t \in Job => Busy' = Busy \cup {w}
  BY DEF Busy, TypeOK
<1>3. t \notin Job => Busy' = Busy \ {w}
  BY DEF Busy, TypeOK
<1>4. Cardinality(Busy \cup {w}) =
        IF w \in Busy THEN Cardinality(Busy) ELSE Cardinality(Busy) + 1
  BY BusyIsFinite, FS_AddElement
<1>5. Cardinality(Busy \ {w}) =
        IF w \in Busy THEN Cardinality(Busy) - 1 ELSE Cardinality(Busy)
  BY BusyIsFinite, FS_RemoveElement
<1> QED
  BY <1>1, <1>2, <1>3, <1>4, <1>5

\* A worker inside the handler is counted.
LEMMA BusyIsPositive ==
  ASSUME NEW w \in Busy
  PROVE  Cardinality(Busy) >= 1
<1>1. Cardinality(Busy \ {w}) = Cardinality(Busy) - 1
  BY BusyIsFinite, FS_RemoveElement
<1>2. Cardinality(Busy \ {w}) \in Nat
  BY BusyIsFinite, FS_RemoveElement, FS_CardinalityType
<1> QED
  BY <1>1, <1>2, BusyIsFinite

-----------------------------------------------------------------------------
\* The initial state satisfies the invariant.
LEMMA InitIInv == Init => IInv
<1> SUFFICES ASSUME Init PROVE IInv
  OBVIOUS
<1> USE DEF Init
<1>1. Busy = {} /\ Cardinality(Busy) = 0
  BY IngestQueueAssumption, FS_EmptySet DEF Busy
<1>2. TypeOK
  <2>1. /\ status \in [Job -> Status] /\ submit \in [Job -> Submit]
        /\ task \in [Worker -> Job \cup {Idle, Stopped}]
    BY DEF Status, Submit
  <2>2. <<>> \in Seq(Job)
    BY EmptySeq
  <2> QED
    BY <2>1, <2>2 DEF TypeOK
<1>3. FirstInFirstOut
  BY DEF FirstInFirstOut, IsInjective
<1>4. RecordsMatchPlaces /\ NoJobLost /\ AcceptedReturned
  BY <1>1 DEF RecordsMatchPlaces, NoJobLost, AcceptedReturned
<1>5. JoinIsExact /\ DepthLag
  BY <1>1 DEF JoinIsExact, DepthLag
<1> QED
  BY <1>2, <1>3, <1>4, <1>5 DEF IInv

\* Every step keeps it.
LEMMA NextIInv == IInv /\ [Next]_vars => IInv'
<1> SUFFICES ASSUME IInv, [Next]_vars PROVE IInv'
  OBVIOUS
<1>t. TypeOK
  BY DEF IInv
<1>1. ASSUME NEW j \in Job, Schedule(j) PROVE IInv'
  <2>1. submit[j] = "none"
    BY <1>1 DEF Schedule, IInv, RecordsMatchPlaces
  <2> QED
    BY <1>1, <2>1, PutKeepsIInv DEF Schedule
<1>2. ASSUME NEW j \in Job, ScheduleBlocked(j) PROVE IInv'
  <2> USE <1>2 DEF ScheduleBlocked, IInv
  <2>1. TypeOK' /\ FirstInFirstOut'
    BY DEF TypeOK, Status, Submit, FirstInFirstOut
  <2>2. submit[j] = "none" /\ Busy' = Busy /\ Held' = Held
    BY DEF RecordsMatchPlaces, Busy, Held
  <2>3. RecordsMatchPlaces'
    BY <2>2 DEF TypeOK, RecordsMatchPlaces, Busy
  <2>4. NoJobLost' /\ AcceptedReturned'
    BY <2>2 DEF TypeOK, NoJobLost, AcceptedReturned
  <2>5. JoinIsExact' /\ DepthLag'
    BY <2>2 DEF JoinIsExact, DepthLag
  <2> QED
    BY <2>1, <2>3, <2>4, <2>5
<1>3. ASSUME NEW j \in Job, PutResumes(j) PROVE IInv'
  <2>1. status' = [status EXCEPT ![j] = "pending"]
    BY <1>3 DEF PutResumes, IInv, RecordsMatchPlaces, TypeOK
  <2> QED
    BY <1>3, <2>1, PutKeepsIInv DEF PutResumes
<1>4. ASSUME NEW j \in Job, CancelSubmit(j) PROVE IInv'
  <2> USE <1>4 DEF CancelSubmit, IInv
  <2>1. TypeOK' /\ FirstInFirstOut'
    BY DEF TypeOK, Status, Submit, FirstInFirstOut
  <2>2. Busy' = Busy /\ Held' = Held
    BY DEF Busy, Held
  <2>3. RecordsMatchPlaces'
    BY <2>2 DEF TypeOK, RecordsMatchPlaces, Busy
  <2>4. NoJobLost' /\ AcceptedReturned'
    BY <2>2 DEF TypeOK, NoJobLost, AcceptedReturned
  <2>5. JoinIsExact' /\ DepthLag'
    BY <2>2 DEF JoinIsExact, DepthLag
  <2> QED
    BY <2>1, <2>3, <2>4, <2>5
<1>5. ASSUME NEW w \in Worker, Wake(w) PROVE IInv'
  <2>1. Handover(w, status) /\ task[w] = Idle /\ ~closing /\ task[w] # Stopped
    BY <1>5, <1>t, IngestQueueAssumption DEF Wake, Handover, TypeOK
  <2>2. TakeNext(w, status) /\ UNCHANGED <<submit, closing, accepted>>
    BY <1>5 DEF Wake
  <2>3. /\ queue # <<>> /\ queue' = Tail(queue) /\ Head(queue) \in Job
        /\ task' = [task EXCEPT ![w] = Head(queue)]
        /\ unfinished' = unfinished /\ depth' = depth
        /\ Len(queue') = Len(queue) - 1 /\ Len(queue) \in Nat /\ Len(queue') \in Nat
    BY <1>5, <1>t DEF Wake, TakeNext, TakeLeaving, TypeOK
  <2>4. Cardinality(Busy') = Cardinality(Busy) + 1
    BY <1>t, <2>1, <2>3, BusyCounts, BusyIsFinite, IngestQueueAssumption
  <2>5. JoinIsExact' /\ DepthLag'
    BY <1>t, <2>3, <2>4, BusyIsFinite DEF IInv, JoinIsExact, DepthLag, TypeOK
  <2>6. TypeOK'
    BY <1>t, <2>1, <2>2, <2>3, TakeNextKeepsPlaces DEF TypeOK
  <2> QED
    BY <2>1, <2>2, <2>5, <2>6, TakeNextKeepsPlaces DEF IInv
<1>6. ASSUME NEW w \in Worker, NEW outcome \in Outcome, Finish(w, outcome)
      PROVE  IInv'
  <2> DEFINE board == [status EXCEPT ![task[w]] = outcome]
  <2>1. /\ task[w] \in Job /\ w \in Busy /\ ~closing
        /\ Handover(w, board) /\ task[w] # Stopped
    BY <1>6, <1>t, IngestQueueAssumption
       DEF Finish, EndHandler, Handover, TypeOK, Busy, Status, Outcome
  <2>2. /\ TakeNext(w, board) /\ UNCHANGED <<submit, closing, accepted>>
        /\ unfinished' = unfinished - 1 /\ depth' = Len(queue)
    BY <1>6 DEF Finish, EndHandler
  <2> HIDE DEF board
  <2>3. Cardinality(Busy) >= 1
    BY <2>1, BusyIsPositive
  <2>4. JoinIsExact' /\ DepthLag'
    <3>1. CASE queue = <<>>
      <4>1. queue' = queue /\ Len(queue) = 0 /\ task' = [task EXCEPT ![w] = Idle]
        BY <2>2, <3>1 DEF TakeNext, TakeLeaving
      <4>2. Cardinality(Busy') = Cardinality(Busy) - 1
        BY <1>t, <2>1, <4>1, BusyCounts, BusyIsFinite, IngestQueueAssumption
      <4> QED
        BY <1>t, <2>2, <2>3, <4>1, <4>2, BusyIsFinite
           DEF IInv, JoinIsExact, DepthLag, TypeOK
    <3>2. CASE queue # <<>>
      <4>1. /\ queue' = Tail(queue) /\ Head(queue) \in Job
            /\ task' = [task EXCEPT ![w] = Head(queue)]
            /\ Len(queue') = Len(queue) - 1 /\ Len(queue) \in Nat
        BY <1>t, <2>2, <3>2 DEF TakeNext, TakeLeaving, TypeOK
      <4>2. Cardinality(Busy') = Cardinality(Busy)
        BY <1>t, <2>1, <4>1, BusyCounts, BusyIsFinite, IngestQueueAssumption
      <4> QED
        BY <1>t, <2>2, <2>3, <4>1, <4>2, BusyIsFinite
           DEF IInv, JoinIsExact, DepthLag, TypeOK
    <3> QED
      BY <3>1, <3>2
  <2>5. unfinished' \in Nat /\ depth' \in Nat
    BY <1>t, <2>2, <2>3, BusyIsFinite DEF IInv, JoinIsExact, TypeOK
  <2>6. TypeOK'
    BY <1>t, <2>1, <2>2, <2>5, TakeNextKeepsPlaces DEF TypeOK
  <2> QED
    BY <2>1, <2>2, <2>4, <2>6, TakeNextKeepsPlaces DEF IInv
<1>7. ASSUME Shutdown PROVE IInv'
  BY <1>7 DEF Shutdown, IInv, TypeOK, FirstInFirstOut, RecordsMatchPlaces,
     NoJobLost, JoinIsExact, DepthLag, AcceptedReturned, Busy, Held
<1>8. ASSUME NEW w \in Worker, StopIdle(w) PROVE IInv'
  <2> USE <1>8 DEF StopIdle, IInv
  <2>1. Busy' = Busy /\ \A v \in Busy : task'[v] = task[v]
    BY IngestQueueAssumption DEF Busy, TypeOK
  <2>2. TypeOK' /\ FirstInFirstOut'
    BY DEF TypeOK, FirstInFirstOut
  <2>3. RecordsMatchPlaces' /\ NoJobLost' /\ AcceptedReturned'
    BY <2>1 DEF RecordsMatchPlaces, NoJobLost, AcceptedReturned
  <2>4. JoinIsExact' /\ DepthLag'
    BY <2>1 DEF JoinIsExact, DepthLag
  <2> QED
    BY <2>2, <2>3, <2>4
<1>9. ASSUME NEW w \in Worker, StopBusy(w) PROVE IInv'
  <2> USE <1>9 DEF StopBusy, IInv
  <2>1. /\ Busy' = Busy \ {w} /\ w \in Busy
        /\ \A v \in Busy' : task'[v] = task[v]
    BY IngestQueueAssumption DEF Busy, TypeOK
  <2>2. Cardinality(Busy') = Cardinality(Busy) - 1 /\ Cardinality(Busy) >= 1
    BY <2>1, BusyIsFinite, BusyIsPositive, FS_RemoveElement
  <2>3. JoinIsExact' /\ DepthLag'
    BY <1>t, <2>2, BusyIsFinite DEF JoinIsExact, DepthLag, TypeOK
  <2>4. unfinished' \in Nat /\ depth' \in Nat
    BY <1>t, <2>2, BusyIsFinite DEF JoinIsExact, TypeOK
  <2>5. TypeOK' /\ FirstInFirstOut'
    BY <2>4 DEF TypeOK, FirstInFirstOut
  <2>6. RecordsMatchPlaces' /\ NoJobLost' /\ AcceptedReturned'
    BY <2>1 DEF RecordsMatchPlaces, NoJobLost, AcceptedReturned
  <2> QED
    BY <2>3, <2>5, <2>6
<1>10. CASE UNCHANGED vars
  BY <1>10 DEF vars, IInv, TypeOK, FirstInFirstOut, RecordsMatchPlaces,
     NoJobLost, JoinIsExact, DepthLag, AcceptedReturned, Busy, Held
<1> QED
  BY <1>1, <1>2, <1>3, <1>4, <1>5, <1>6, <1>7, <1>8, <1>9, <1>10 DEF Next

\* The strengthened invariant of the queue holds in every reachable state.
THEOREM QueueInvariant == Spec => []IInv
BY InitIInv, NextIInv, PTL DEF Spec

\* Types, and in particular that task_done is never called too often.
THEOREM QueueTypeOK == Spec => []TypeOK
<1>1. IInv => TypeOK
  BY DEF IInv
<1> QED
  BY <1>1, QueueInvariant, PTL

\* Jobs start in the order of submission, each at most once (_worker_loop).
THEOREM QueueFirstInFirstOut == Spec => []FirstInFirstOut
<1>1. IInv => FirstInFirstOut
  BY DEF IInv
<1> QED
  BY <1>1, QueueInvariant, PTL

\* The record of a job says where the job is (schedule_ingest, _process_ingest_job).
THEOREM QueueRecordsMatchPlaces == Spec => []RecordsMatchPlaces
<1>1. IInv => RecordsMatchPlaces
  BY DEF IInv
<1> QED
  BY <1>1, QueueInvariant, PTL

\* An acknowledged job is queued, held or decided until shutdown.
THEOREM QueueNoJobLost == Spec => []NoJobLost
<1>1. IInv => NoJobLost
  BY DEF IInv
<1> QED
  BY <1>1, QueueInvariant, PTL

\* join() waits for exactly the queued and running jobs, and the depth metric is at
\* most one ahead per running handler.
THEOREM QueueCountersAgree == Spec => []CountersAgree
<1>1. IInv => CountersAgree
  BY DEF IInv, CountersAgree
<1> QED
  BY <1>1, QueueInvariant, PTL

-----------------------------------------------------------------------------
(* The queue implements JobBoard: what a client polls.                     *)

\* A worker's turn is the beginning of the oldest queued job, if there is one.
LEMMA TakeNextHeld ==
  ASSUME IInv, NEW w \in Worker, NEW board, TakeNext(w, board)
  PROVE  /\ queue = <<>> =>
              /\ status' = board
              /\ Held' = Held \ {task[w]}
         /\ queue # <<>> =>
              /\ Head(queue) \in Job /\ status[Head(queue)] = "pending"
              /\ status' = [board EXCEPT ![Head(queue)] = "running"]
              /\ Held' = (Held \ {task[w]}) \cup {Head(queue)}
<1> USE DEF TakeNext, TakeLeaving
<1>1. /\ task \in [Worker -> Job \cup {Idle, Stopped}] /\ queue \in Seq(Job)
      /\ \A v \in Busy : v # w => task[v] # task[w]
  BY DEF IInv, TypeOK, RecordsMatchPlaces, Busy
<1>2. CASE queue = <<>>
  <2>1. Busy' = Busy \ {w} /\ \A v \in Busy' : task'[v] = task[v]
    BY <1>1, <1>2, IngestQueueAssumption DEF Busy
  <2>2. Held' = Held \ {task[w]}
    BY <1>1, <2>1 DEF Held
  <2> QED
    BY <1>2, <2>2
<1>3. CASE queue # <<>>
  <2>1. Head(queue) \in Job /\ status[Head(queue)] = "pending"
    <3>1. Head(queue) = queue[1] /\ 1 \in DOMAIN queue /\ queue[1] \in Job
      BY <1>1, <1>3
    <3> QED
      BY <3>1 DEF IInv, RecordsMatchPlaces
  <2>2. /\ Busy' = Busy \cup {w} /\ task'[w] = Head(queue)
        /\ \A v \in Busy' : v # w => v \in Busy /\ task'[v] = task[v]
    BY <1>1, <1>3, <2>1 DEF Busy
  <2>3. Held' = (Held \ {task[w]}) \cup {Head(queue)}
    BY <1>1, <2>2 DEF Held
  <2> QED
    BY <1>3, <2>1, <2>3
<1> QED
  BY <1>2, <1>3

\* Each step of the queue is a step of the board, or nothing a client can see.
LEMMA NextBoard == IInv /\ [Next]_vars => [Board!BoardNext]_(Board!boardVars)
<1> SUFFICES ASSUME IInv, [Next]_vars
             PROVE  Board!BoardNext \/ UNCHANGED Board!boardVars
  OBVIOUS
<1> USE DEF Board!boardVars
<1>t. task \in [Worker -> Job \cup {Idle, Stopped}]
  BY DEF IInv, TypeOK
<1>1. ASSUME NEW j \in Job, Schedule(j) \/ ScheduleBlocked(j)
      PROVE  Board!BoardNext
  <2>1. Board!Post(j)
    BY <1>1 DEF Schedule, ScheduleBlocked, Put, PutReporting, Board!Post, Held, Busy
  <2> QED
    BY <2>1 DEF Board!BoardNext
<1>2. ASSUME NEW j \in Job, PutResumes(j) \/ CancelSubmit(j)
      PROVE  UNCHANGED Board!boardVars
  BY <1>2 DEF PutResumes, CancelSubmit, Put, PutReporting, Held, Busy
<1>3. ASSUME NEW w \in Worker, Wake(w)
      PROVE  Board!BoardNext
  <2>1. task[w] \notin Held
    BY <1>3, IngestQueueAssumption DEF Wake, Held, Busy
  <2>2. Head(queue) \in Job /\ Board!Begin(Head(queue))
    BY <1>3, <2>1, TakeNextHeld DEF Wake, Board!Begin
  <2> QED
    BY <2>2 DEF Board!BoardNext
<1>4. ASSUME NEW w \in Worker, NEW outcome \in Outcome, Finish(w, outcome)
      PROVE  Board!BoardNext
  <2> DEFINE board == [status EXCEPT ![task[w]] = outcome]
  <2>1. /\ task[w] \in Job /\ task[w] \in Held /\ outcome \in Board!Ended
        /\ TakeNext(w, board)
    BY <1>4 DEF Finish, EndHandler, Held, Busy, Outcome, Board!Ended
  <2>2. CASE queue = <<>>
    <3>1. Board!End(task[w], outcome)
      BY <2>1, <2>2, TakeNextHeld DEF Board!End
    <3> QED
      BY <2>1, <3>1 DEF Board!BoardNext
  <2>3. CASE queue # <<>>
    <3>1. /\ Head(queue) \in Job
          /\ Board!EndAndBegin(task[w], outcome, Head(queue))
      BY <2>1, <2>3, TakeNextHeld DEF Board!EndAndBegin
    <3> QED
      BY <2>1, <3>1 DEF Board!BoardNext
  <2> QED
    BY <2>2, <2>3
<1>5. ASSUME Shutdown PROVE UNCHANGED Board!boardVars
  BY <1>5 DEF Shutdown, Held, Busy
<1>6. ASSUME NEW w \in Worker, StopIdle(w) PROVE UNCHANGED Board!boardVars
  <2>1. Busy' = Busy /\ \A v \in Busy : task'[v] = task[v]
    BY <1>t, <1>6, IngestQueueAssumption DEF StopIdle, Busy
  <2> QED
    BY <1>6, <2>1 DEF StopIdle, Held
<1>7. ASSUME NEW w \in Worker, StopBusy(w) PROVE Board!BoardNext
  <2>1. /\ Busy' = Busy \ {w} /\ w \in Busy
        /\ \A v \in Busy' : task'[v] = task[v] /\ task[v] # task[w]
    BY <1>t, <1>7, IngestQueueAssumption
       DEF StopBusy, Busy, IInv, RecordsMatchPlaces
  <2>2. Held' = Held \ {task[w]} /\ task[w] \in Held /\ task[w] \in Job
    BY <2>1 DEF Held, Busy
  <2>3. Board!Drop(task[w])
    BY <1>7, <2>2 DEF StopBusy, Board!Drop
  <2> QED
    BY <2>2, <2>3 DEF Board!BoardNext
<1>8. CASE UNCHANGED vars
  BY <1>8 DEF vars, Held, Busy
<1> QED
  BY <1>1, <1>2, <1>3, <1>4, <1>5, <1>6, <1>7, <1>8 DEF Next

\* The records a client polls move as JobBoard says, for all constants.
THEOREM QueueImplementsBoard == Spec => BoardSpec
<1>1. Init => Board!BoardInit
  BY IngestQueueAssumption DEF Init, Board!BoardInit, Held, Busy
<1> QED
  BY <1>1, NextBoard, QueueInvariant, PTL DEF Spec, BoardSpec, Board!BoardSpec
=============================================================================
