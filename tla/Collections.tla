---------------------------- MODULE Collections ----------------------------
(***************************************************************************)
(* QdrantStore and the collections of Qdrant behind it.  Jobs ensure that  *)
(* the collection of their plan exists, under a lock per collection, then  *)
(* upsert without it; delete_document and delete_project take no lock.     *)
(* Every awaited call of the store is a step.                              *)
(*                                                                         *)
(* A collection is the set of vector names it was created with and its     *)
(* points.  A point is what identifies it (its payload, one point for the  *)
(* chunks of a document), the vectors it has and the settings its job ran  *)
(* with.  Qdrant refuses to create a collection twice, and a vector that   *)
(* the collection does not have.  A collection carries a mark no code has: *)
(* whether a request that outlived its job made it.                        *)
(***************************************************************************)
EXTENDS Scopes

CONSTANTS
  Actor,        \* ingest jobs that may be in the store at once
  VectorName,   \* names a config may give to vectors
  Unnamed,      \* the only vector of a collection made for dense retrieval
  IndexSparse,  \* bm25_sparse_vector_name of the application settings
  NoBlock,      \* a retrieval config without a bm25 block
  Absent        \* no collection, no holder, no job, no row

ASSUME CollectionsAssumption ==
  /\ Unnamed \notin VectorName
  /\ {"dense", "bm25"} \subseteq VectorName
  /\ Absent \notin Actor

VARIABLES
  collections,  \* name -> schema, points and mark, or Absent
  holder,       \* the job that holds the lock of each collection
  job           \* what each actor is at

storeVars == <<collections, holder, job>>

Mode == {"dense", "bm25", "hybrid"}

\* A stored retrieval config.  `least` stands for the smallest of the two weights and
\* the entity boost.
RawSettings ==
  [mode : Mode, topK : Int, candidates : Int, least : Int,
   bm25 : [dense : VectorName \cup {Blank}, sparse : VectorName \cup {Blank}] \cup {NoBlock}]

\* The checks of parse_retrieval_settings: any other config raises ValueError.
Parses(raw) ==
  /\ raw.topK > 0
  /\ raw.candidates >= raw.topK
  /\ raw.least >= 0
  /\ raw.bm25 # NoBlock => raw.bm25.dense # Blank /\ raw.bm25.sparse # Blank

\* _parse_bm25_settings, with the names that stand where there is no block.
Parsed(raw) ==
  [mode |-> raw.mode,
   dense |-> IF raw.bm25 = NoBlock THEN "dense" ELSE raw.bm25.dense,
   sparse |-> IF raw.bm25 = NoBlock THEN "bm25" ELSE raw.bm25.sparse,
   named |-> raw.mode \in {"bm25", "hybrid"} \/ raw.bm25 # NoBlock]

Settings == [mode : Mode, dense : VectorName, sparse : VectorName, named : BOOLEAN]

\* What IngestPipeline.run upserts: dense mode one unnamed vector, whatever the block.
UpsertVectors(s) ==
  CASE s.mode = "dense" -> {Unnamed}
    [] s.mode = "bm25" -> {s.sparse}
    [] s.mode = "hybrid" -> {s.dense, s.sparse}

\* Mutant: a dense search names the vector in unnamed collections too.
SearchVectorsNamed(s) ==
  CASE s.mode = "dense" -> {s.dense}
    [] s.mode = "bm25" -> {IndexSparse}
    [] s.mode = "hybrid" -> {s.dense, IndexSparse}

\* What a search asks for: the dense retriever the vector the plan names, if any, and
\* the BM25 index always the vector of the application settings.
SearchVectors(s) ==
  CASE s.mode = "dense" -> {IF s.named THEN s.dense ELSE Unnamed}
    [] s.mode = "bm25" -> {IndexSparse}
    [] s.mode = "hybrid" -> {s.dense, IndexSparse}

\* The vectors of a collection that the store creates.
Schema(s) == IF s.mode = "dense" THEN {Unnamed} ELSE {s.dense, s.sparse}

\* _validate_hybrid_collection_schema.  Dense mode does not look.
Compatible(s, schema) == s.mode = "dense" \/ {s.dense, s.sparse} \subseteq schema

StoreInit(names) ==
  /\ collections = [n \in names |-> Absent]
  /\ holder = [n \in names |-> Absent]
  /\ job = [a \in Actor |-> Absent]

At(a, at) == job[a] # Absent /\ job[a].at = at

Name(a) == job[a].name

\* IngestPipeline.run reaches the store with a plan.
Begin(a, name, settings, payload) ==
  /\ job[a] = Absent
  /\ job' = [job EXCEPT ![a] = [at |-> "lock", name |-> name, settings |-> settings,
                                payload |-> payload, misread |-> FALSE]]
  /\ UNCHANGED <<collections, holder>>

\* Mutant: nobody waits for the lock.
LockAnyway(a) ==
  /\ At(a, "lock")
  /\ holder' = [holder EXCEPT ![Name(a)] = a]
  /\ job' = [job EXCEPT ![a].at = "look"]
  /\ UNCHANGED collections

\* `async with lock`.
Lock(a) ==
  /\ At(a, "lock")
  /\ holder[Name(a)] = Absent
  /\ holder' = [holder EXCEPT ![Name(a)] = a]
  /\ job' = [job EXCEPT ![a].at = "look"]
  /\ UNCHANGED collections

Unlocked(a) == [holder EXCEPT ![Name(a)] = Absent]

\* get_collection says that there is one, and it will do.
Find(a) ==
  /\ At(a, "look")
  /\ collections[Name(a)] # Absent
  /\ Compatible(job[a].settings, collections[Name(a)].schema)
  /\ job' = [job EXCEPT ![a].at = "upsert"]
  /\ holder' = Unlocked(a)
  /\ UNCHANGED collections

\* A hybrid plan meets a collection without its vectors: ValueError.
Mismatch(a) ==
  /\ At(a, "look")
  /\ collections[Name(a)] # Absent
  /\ ~ Compatible(job[a].settings, collections[Name(a)].schema)
  /\ job' = [job EXCEPT ![a] = Absent]
  /\ holder' = Unlocked(a)
  /\ UNCHANGED collections

Miss(a) ==
  /\ At(a, "look")
  /\ collections[Name(a)] = Absent
  /\ job' = [job EXCEPT ![a].at = "create"]
  /\ UNCHANGED <<collections, holder>>

\* UnexpectedResponse of any status counts as "there is none".
Misread(a) ==
  /\ At(a, "look")
  /\ collections[Name(a)] # Absent
  /\ job' = [job EXCEPT ![a].at = "create", ![a].misread = TRUE]
  /\ UNCHANGED <<collections, holder>>

\* An empty collection for a job; `stray` says that its job had given up.
New(a, stray) == [schema |-> Schema(job[a].settings), points |-> {}, stray |-> stray]

Create(a) ==
  /\ At(a, "create")
  /\ collections[Name(a)] = Absent
  /\ collections' = [collections EXCEPT ![Name(a)] = New(a, FALSE)]
  /\ job' = [job EXCEPT ![a].at = "upsert"]
  /\ holder' = Unlocked(a)

\* Qdrant answers that the collection exists.
CreateRefused(a) ==
  /\ At(a, "create")
  /\ collections[Name(a)] # Absent
  /\ job' = [job EXCEPT ![a] = Absent]
  /\ holder' = Unlocked(a)
  /\ UNCHANGED collections

Point(a) ==
  [payload |-> job[a].payload, vectors |-> UpsertVectors(job[a].settings),
   by |-> job[a].settings]

Fits(a) ==
  /\ collections[Name(a)] # Absent
  /\ UpsertVectors(job[a].settings) \subseteq collections[Name(a)].schema

\* The point replaces the one of the same identity.
Upsert(a) ==
  /\ At(a, "upsert")
  /\ Fits(a)
  /\ collections' = [collections EXCEPT ![Name(a)].points =
                       {x \in @ : x.payload # job[a].payload} \cup {Point(a)}]
  /\ job' = [job EXCEPT ![a] = Absent]
  /\ UNCHANGED holder

\* The collection is gone, or has other vectors: the job is FAILED.
UpsertRefused(a) ==
  /\ At(a, "upsert")
  /\ ~ Fits(a)
  /\ job' = [job EXCEPT ![a] = Absent]
  /\ UNCHANGED <<collections, holder>>

\* Any call raises, before or after Qdrant did its part, or the job is cancelled.  The
\* request to create a collection may survive its job, and the lock.
Abort(a) ==
  /\ job[a] # Absent
  /\ job[a].at # "stray"
  /\ \/ job' = [job EXCEPT ![a] = Absent]
     \/ At(a, "create") /\ job' = [job EXCEPT ![a].at = "stray"]
  /\ holder' = IF job[a].at \in {"look", "create"} THEN Unlocked(a) ELSE holder
  /\ UNCHANGED collections

\* Qdrant creates what nobody waits for any more, unless there is one by now.
CreateStray(a) ==
  /\ At(a, "stray")
  /\ collections' = IF collections[Name(a)] = Absent
                    THEN [collections EXCEPT ![Name(a)] = New(a, TRUE)]
                    ELSE collections
  /\ job' = [job EXCEPT ![a] = Absent]
  /\ UNCHANGED holder

\* ... or never does.
DropStray(a) ==
  /\ At(a, "stray")
  /\ job' = [job EXCEPT ![a] = Absent]
  /\ UNCHANGED <<collections, holder>>

\* delete_document: by the ids as the caller gives them.
DeleteDocument(name, payload) ==
  /\ collections[name] # Absent
  /\ collections' = [collections EXCEPT ![name].points =
                       {x \in @ : x.payload # payload}]
  /\ UNCHANGED <<holder, job>>

DeleteProject(name) ==
  /\ collections' = [collections EXCEPT ![name] = Absent]
  /\ UNCHANGED <<holder, job>>

Step(a) ==
  \/ Lock(a)
  \/ Find(a)
  \/ Mismatch(a)
  \/ Miss(a)
  \/ Misread(a)
  \/ Create(a)
  \/ CreateRefused(a)
  \/ Upsert(a)
  \/ UpsertRefused(a)
  \/ Abort(a)
  \/ CreateStray(a)
  \/ DropStray(a)

\* search and search_sparse: what a filter lets through of what has a vector the
\* settings search with.  Qdrant refuses a vector the collection does not have.
CanSearch(s, name) ==
  collections[name] # Absent /\ SearchVectors(s) \subseteq collections[name].schema

Hits(s, name, filter) ==
  {x \in collections[name].points :
     Passes(filter, x.payload) /\ x.vectors \cap SearchVectors(s) # {}}
=============================================================================
