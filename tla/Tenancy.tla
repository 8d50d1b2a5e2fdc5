------------------------------ MODULE Tenancy ------------------------------
(***************************************************************************)
(* Projects over the vector store.  A config row gives a project its type, *)
(* its embedding version and its retrieval config; the gateway turns a     *)
(* request into a plan that keeps the config it read, and the engine works *)
(* from the plan, whatever the row says by then.  The collection of a plan *)
(* is named by project and version, joined by underscores: two projects    *)
(* may have one collection, and then only the filter tells them apart.     *)
(*                                                                         *)
(* Searches change nothing here.  They are operators, evaluated for every  *)
(* request and every config in every state.                                *)
(***************************************************************************)
EXTENDS Collections

CONSTANTS
  Row,         \* the config rows that may be stored
  Joined(_, _),  \* the collection name of a project and a version
  MaxJobs      \* bound on the jobs ever started

ASSUME TenancyAssumption ==
  /\ MaxJobs \in Nat
  /\ Row \subseteq [project : Id, type : STRING, version : STRING, retrieval : RawSettings]

VARIABLES
  row,     \* the config row of each project
  started

vars == <<storeVars, row, started>>

\* The website adapter answers with a fixed config, other adapters with the stored row.
WebsiteRetrieval ==
  [mode |-> "dense", topK |-> 5, candidates |-> 20, least |-> 0, bm25 |-> NoBlock]

Config(r) ==
  IF r.type = Website
  THEN [version |-> "v1", retrieval |-> WebsiteRetrieval]
  ELSE [version |-> r.version, retrieval |-> r.retrieval]

CollectionName(r) == Joined(r.project, Config(r).version)

Names == {CollectionName(r) : r \in Row}

Init ==
  /\ StoreInit(Names)
  /\ row = [p \in Id |-> Absent]
  /\ started = 0

\* upsert_project.
PutRow(r) ==
  /\ row' = [row EXCEPT ![r.project] = r]
  /\ UNCHANGED <<storeVars, started>>

\* ProjectAdapterResolver.resolve: the project is known and its type has an adapter.
Resolves(p) == row[p] # Absent /\ row[p].type \in Registered

\* prepare_ingest and the job up to the store.  A job whose config does not parse
\* fails before it gets there.
Ingest(a, request) ==
  /\ started < MaxJobs
  /\ WellFormed({request.project, request.user, request.doc})
  /\ Resolves(request.project)
  /\ Parses(Config(row[request.project]).retrieval)
  /\ Begin(a, CollectionName(row[request.project]),
           Parsed(Config(row[request.project]).retrieval), Payload(request))
  /\ started' = started + 1
  /\ UNCHANGED row

\* RagEngine.delete_document, with a config and ids of its caller's.
Delete(name, payload) ==
  /\ DeleteDocument(name, payload)
  /\ UNCHANGED <<row, started>>

Drop(name) ==
  /\ DeleteProject(name)
  /\ UNCHANGED <<row, started>>

Next ==
  \/ \E r \in Row : PutRow(r)
  \/ \E a \in Actor, request \in IngestRequest : Ingest(a, request)
  \/ \E a \in Actor : Step(a) /\ UNCHANGED <<row, started>>
  \/ \E of \in {<<CollectionName(r), r.project>> : r \in Row}, payload \in PayloadType :
       payload.project = of[2] /\ Delete(of[1], payload)
  \/ \E name \in Names : Drop(name)

Spec == Init /\ [][Next]_vars

-----------------------------------------------------------------------------
PointType == [payload : PayloadType, vectors : SUBSET (VectorName \cup {Unnamed}),
              by : Settings]

TypeOK ==
  /\ collections \in
       [Names -> [schema : SUBSET (VectorName \cup {Unnamed}),
                  points : SUBSET PointType, stray : BOOLEAN] \cup {Absent}]
  /\ holder \in [Names -> Actor \cup {Absent}]
  /\ job \in [Actor ->
       [at : {"lock", "look", "create", "upsert", "stray"}, name : Names, settings : Settings,
        payload : PayloadType, misread : BOOLEAN] \cup {Absent}]
  /\ row \in [Id -> Row \cup {Absent}]
  /\ started \in 0 .. MaxJobs

PointsOf(name) == IF collections[name] = Absent THEN {} ELSE collections[name].points

\* Though two projects may share a collection, a search returns only points of documents
\* that the request, as the client wrote it, may read, if the adapter asks for them.
\* Another adapter may widen the KBs and share any one user's documents, which nobody
\* checks; whatever it answers, the points are of the request's project, and of its user
\* or the one the adapter shares.
Isolation ==
  \A name \in Names : \A x \in PointsOf(name), plan \in Plans :
    Passes(plan.filter, x.payload) =>
      /\ x.payload.project = plan.request.project
      /\ x.payload.user \in {plan.request.user, plan.filter.shared}
      /\ Asked(plan) => MayRead(plan.request, x.payload)

\* A config whose ingest and search go to the same vectors: a dense one has no bm25
\* block, and the others call the sparse vector what the application calls it.
Consistent(s) ==
  IF s.mode = "dense" THEN ~ s.named ELSE s.sparse = IndexSparse

\* What is indexed can be found: under the config its job ran with, as long as that is
\* consistent, every search that may read the document and asks for what it may read
\* finds it, after any creation, deletion and change of mode of the project in between.
IndexedIsServed ==
  \A name \in Names : \A x \in PointsOf(name) :
    Consistent(x.by) =>
      /\ CanSearch(x.by, name)
      /\ \A plan \in Plans :
           Asked(plan) /\ MayRead(plan.request, x.payload) =>
             x \in Hits(x.by, name, plan.filter)

\* The lock does its work: a job that is about to create a collection, and did not
\* misread an error as an absence, finds none there but one that a request made which
\* outlived its job and so the lock.
CreationIsExclusive ==
  \A a \in Actor :
    At(a, "create") /\ ~ job[a].misread =>
      collections[Name(a)] = Absent \/ collections[Name(a)].stray
=============================================================================
