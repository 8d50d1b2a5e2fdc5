--------------------------- MODULE TenancyProofs ---------------------------
(***************************************************************************)
(* Whatever projects, users, knowledge bases, adapters, configs and jobs   *)
(* there are: no search sees another project, one that asks for what its   *)
(* request may read sees that and no more, and the lock of a collection    *)
(* keeps jobs from creating it twice.                                      *)
(***************************************************************************)
EXTENDS Tenancy, TLAPS

-----------------------------------------------------------------------------
(* Requests, scopes and filters.                                           *)

\* A KB id as a job stores it has no white space around it and is not blank.
LEMMA NormalKbType ==
  ASSUME NEW text \in KbText
  PROVE  NormalKb(text) \in [name : KbName \cup {DefaultKb}, padded : {FALSE}]
<1>1. CASE text.name = Blank
  BY <1>1 DEF NormalKb, Plain, KbText
<1>2. CASE text.name # Blank
  <2>1. text.name \in KbName \cup {DefaultKb}
    BY <1>2 DEF KbText
  <2> QED
    BY <1>2, <2>1 DEF NormalKb, Strip, Plain
<1> QED
  BY <1>1, <1>2

\* The payload of a request that no check refuses.
LEMMA PayloadIsTyped ==
  ASSUME NEW request \in IngestRequest,
         WellFormed({request.project, request.user, request.doc})
  PROVE  Payload(request) \in PayloadType
<1>1. /\ request.project \in Id /\ request.user \in User \ {Blank}
      /\ request.kb \in KbText /\ request.doc \in Doc \ {Blank}
  BY DEF IngestRequest, WellFormed
<1>2. NormalKb(request.kb) \in [name : KbName \cup {DefaultKb}, padded : {FALSE}]
  BY <1>1, NormalKbType
<1> QED
  BY <1>1, <1>2 DEF Payload, PayloadType

\* Both checks of the gateway leave a filter of the request's project and user, whatever
\* the adapter put in its scope and in its filter.  A plan of the website adapter has the
\* filter the request asks for.
LEMMA PlanIsOfRequest ==
  ASSUME NEW plan \in Plans
  PROVE  /\ plan.request \in SearchRequest
         /\ plan.filter.project = plan.request.project
         /\ plan.filter.user = plan.request.user
         /\ Asked(plan) => plan.filter = FilterOf(QueryScope(plan.request))
<1>0. PICK request \in SearchRequest : plan \in PlansOf(request)
  BY DEF Plans
<1>t. PICK type \in Registered :
        plan \in {[request |-> request, type |-> type, filter |-> f] :
                     f \in PlanFilters(type, request)}
  BY <1>0 DEF PlansOf
<1>1. PICK f \in PlanFilters(type, request) :
        plan = [request |-> request, type |-> type, filter |-> f]
  BY <1>t
<1>2. PICK scope \in AdapterScopes(type, request) :
        Matches(scope, request) /\ f \in AdapterFilters(type, scope) /\ Matches(f, scope)
  BY DEF PlanFilters
<1>3. plan.request = request /\ plan.type = type /\ plan.filter = f
  BY <1>1
<1>4. CASE type = Website
  <2>1. scope = QueryScope(request) /\ f = FilterOf(scope)
    BY <1>2, <1>4 DEF AdapterScopes, AdapterFilters
  <2> QED
    BY <1>2, <1>3, <2>1 DEF Matches
<1>5. CASE type # Website
  BY <1>2, <1>3, <1>5 DEF Matches, Asked
<1> QED
  BY <1>4, <1>5

\* What a filter as the website adapter builds it allows.
LEMMA AskedFilter ==
  ASSUME NEW plan \in Plans, Asked(plan)
  PROVE  /\ plan.filter.project = plan.request.project
         /\ plan.filter.kbs = NormalKbs(plan.request.kbs)
         /\ plan.filter.docs = {}
         /\ AllowedUsers(plan.filter) \subseteq {plan.request.user, SharedUser}
         /\ plan.request.user \in AllowedUsers(plan.filter)
         /\ plan.request.shared => SharedUser \in AllowedUsers(plan.filter)
         /\ SharedUser \in AllowedUsers(plan.filter) =>
              plan.request.shared \/ plan.request.user = SharedUser
<1>1. plan.filter = FilterOf(QueryScope(plan.request))
  BY PlanIsOfRequest
<1> DEFINE request == plan.request
<1>2. /\ plan.filter.project = request.project /\ plan.filter.user = request.user
      /\ plan.filter.kbs = NormalKbs(request.kbs) /\ plan.filter.docs = {}
      /\ plan.filter.shared = IF request.shared THEN SharedUser ELSE Nobody
  BY <1>1 DEF FilterOf, QueryScope
<1>3. request.user # Nobody /\ SharedUser # Nobody
  BY PlanIsOfRequest, ScopesAssumption DEF ScopesAssumption, SearchRequest
<1> QED
  BY <1>2, <1>3 DEF AllowedUsers

\* Whatever an adapter built: the project of the request, and two users at most.
LEMMA FilterIsOfProject ==
  ASSUME NEW plan \in Plans, NEW payload, Passes(plan.filter, payload)
  PROVE  /\ payload.project = plan.request.project
         /\ payload.user \in {plan.request.user, plan.filter.shared}
BY PlanIsOfRequest DEF Passes, AllowedUsers

\* A filter as the website adapter builds it lets no payload through that the request may
\* not read.
LEMMA FilterIsSound ==
  ASSUME NEW plan \in Plans, Asked(plan), NEW payload, Passes(plan.filter, payload)
  PROVE  MayRead(plan.request, payload)
<1>1. payload.project = plan.request.project
  BY AskedFilter DEF Passes
<1>2. payload.user = plan.request.user \/ (plan.request.shared /\ payload.user = SharedUser)
  BY AskedFilter DEF Passes
<1>3. \/ \A text \in plan.request.kbs : text.name = Blank
      \/ \E text \in plan.request.kbs : text.name # Blank /\ text.name = payload.kb.name
  <2> SUFFICES ASSUME NEW other \in plan.request.kbs, other.name # Blank
               PROVE  \E text \in plan.request.kbs : text.name # Blank /\ text.name = payload.kb.name
    OBVIOUS
  <2>1. NormalKbs(plan.request.kbs) # {}
    BY DEF NormalKbs
  <2>2. PICK text \in plan.request.kbs : text.name # Blank /\ payload.kb = Strip(text)
    BY <2>1, AskedFilter DEF Passes, NormalKbs
  <2>4. payload.kb.name = text.name
    BY <2>2 DEF Strip, Plain
  <2> QED
    BY <2>2, <2>4
<1> QED
  BY <1>1, <1>2, <1>3 DEF MayRead

\* ... and every payload that it may read.
LEMMA FilterIsComplete ==
  ASSUME NEW plan \in Plans, Asked(plan), NEW payload \in PayloadType,
         MayRead(plan.request, payload)
  PROVE  Passes(plan.filter, payload)
<1>1. payload.project = plan.filter.project
  BY AskedFilter DEF MayRead
<1>2. payload.user \in AllowedUsers(plan.filter)
  BY AskedFilter DEF MayRead
<1>3. ASSUME plan.filter.kbs # {} PROVE payload.kb \in plan.filter.kbs
  <2>1. PICK other \in plan.request.kbs : other.name # Blank
    BY <1>3, AskedFilter DEF NormalKbs
  <2>2. PICK text \in plan.request.kbs : text.name # Blank /\ text.name = payload.kb.name
    BY <2>1 DEF MayRead
  <2>4. Strip(text) = [name |-> text.name, padded |-> FALSE]
    BY DEF Strip, Plain
  <2>5. payload.kb = [name |-> payload.kb.name, padded |-> FALSE]
    BY DEF PayloadType
  <2>6. payload.kb = Strip(text)
    BY <2>2, <2>4, <2>5
  <2> QED
    BY <2>2, <2>6, AskedFilter DEF NormalKbs
<1> QED
  BY <1>1, <1>2, <1>3, AskedFilter DEF Passes

-----------------------------------------------------------------------------
(* Settings and their vectors.                                             *)

\* A config that parses, stored or the website adapter's, gives settings.
LEMMA SettingsOfRow ==
  ASSUME NEW r \in Row, Parses(Config(r).retrieval)
  PROVE  Parsed(Config(r).retrieval) \in Settings
<1> DEFINE raw == Config(r).retrieval
<1>1. /\ raw.mode \in Mode
      /\ \/ raw.bm25 = NoBlock
         \/ raw.bm25 \in [dense : VectorName \cup {Blank}, sparse : VectorName \cup {Blank}]
  <2>1. CASE r.type = Website
    BY <2>1 DEF Config, WebsiteRetrieval, Mode
  <2>2. CASE r.type # Website
    BY <2>2, TenancyAssumption DEF Config, RawSettings, TenancyAssumption
  <2> QED
    BY <2>1, <2>2
<1>2. CASE raw.bm25 = NoBlock
  BY <1>1, <1>2, CollectionsAssumption DEF Parsed, Settings, CollectionsAssumption
<1>3. CASE raw.bm25 # NoBlock
  <2>1. raw.bm25.dense \in VectorName /\ raw.bm25.sparse \in VectorName
    BY <1>1, <1>3 DEF Parses
  <2> QED
    BY <1>1, <1>3, <2>1 DEF Parsed, Settings
<1> QED
  BY <1>2, <1>3

\* What is upserted is never without a vector; what is created has only known ones.
LEMMA VectorsOfSettings ==
  ASSUME NEW s \in Settings
  PROVE  /\ UpsertVectors(s) \in SUBSET (VectorName \cup {Unnamed})
         /\ UpsertVectors(s) # {}
         /\ Schema(s) \in SUBSET (VectorName \cup {Unnamed})
<1>1. s.mode \in {"dense", "bm25", "hybrid"} /\ s.dense \in VectorName /\ s.sparse \in VectorName
  BY DEF Settings, Mode
<1>2. CASE s.mode = "dense"
  BY <1>1, <1>2 DEF UpsertVectors, Schema
<1>3. CASE s.mode = "bm25"
  BY <1>1, <1>3 DEF UpsertVectors, Schema
<1>4. CASE s.mode = "hybrid"
  BY <1>1, <1>4 DEF UpsertVectors, Schema
<1> QED
  BY <1>1, <1>2, <1>3, <1>4

\* Consistent settings search with the vectors they upsert.
LEMMA ConsistentSettings ==
  ASSUME NEW s \in Settings, Consistent(s)
  PROVE  SearchVectors(s) = UpsertVectors(s)
<1>1. s.mode \in {"dense", "bm25", "hybrid"}
  BY DEF Settings, Mode
<1>2. CASE s.mode = "dense"
  BY <1>2 DEF Consistent, SearchVectors, UpsertVectors
<1>3. CASE s.mode = "bm25"
  BY <1>3 DEF Consistent, SearchVectors, UpsertVectors
<1>4. CASE s.mode = "hybrid"
  BY <1>4 DEF Consistent, SearchVectors, UpsertVectors
<1> QED
  BY <1>1, <1>2, <1>3, <1>4

-----------------------------------------------------------------------------
(* The store.                                                              *)

\* Every point has the vectors of its settings, and they are vectors of its collection.
PointsFit ==
  \A name \in Names : collections[name] # Absent =>
    \A x \in collections[name].points :
      x.vectors = UpsertVectors(x.by) /\ x.vectors \subseteq collections[name].schema

\* A job that looks, or creates, has the lock of its collection.
LockHeld ==
  \A a \in Actor : At(a, "look") \/ At(a, "create") => holder[Name(a)] = a

TenancyInv == TypeOK /\ PointsFit /\ LockHeld /\ CreationIsExclusive

LEMMA TenancyInvInit == Init => TenancyInv
<1> SUFFICES ASSUME Init PROVE TenancyInv
  OBVIOUS
<1> USE DEF Init, StoreInit
<1>1. TypeOK
  BY TenancyAssumption DEF TypeOK, TenancyAssumption
<1>2. PointsFit
  BY DEF PointsFit
<1>3. LockHeld /\ CreationIsExclusive
  BY DEF LockHeld, CreationIsExclusive, At
<1> QED
  BY <1>1, <1>2, <1>3 DEF TenancyInv

\* The job of an actor that has one.
LEMMA JobIsTyped ==
  ASSUME TypeOK, NEW a \in Actor, job[a] # Absent
  PROVE  /\ job[a] \in [at : {"lock", "look", "create", "upsert", "stray"},
                         name : Names, settings : Settings, payload : PayloadType,
                         misread : BOOLEAN]
         /\ Name(a) \in Names
  BY DEF TypeOK, Name

\* Types, for the steps of a job.
LEMMA StepTypes ==
  ASSUME TypeOK, NEW a \in Actor, Step(a), UNCHANGED <<row, started>>
  PROVE  TypeOK'
<1>1. row' \in [Id -> Row \cup {Absent}] /\ started' \in 0 .. MaxJobs
  BY DEF TypeOK
<1>2. job[a] # Absent
  BY DEF Step, Lock, Find, Mismatch, Miss, Misread, Create, CreateRefused, Upsert,
         UpsertRefused, Abort, CreateStray, DropStray, At
<1>3. Name(a) \in Names /\ job[a].settings \in Settings /\ job[a].payload \in PayloadType
  BY <1>2, JobIsTyped
<1>4. holder' \in [Names -> Actor \cup {Absent}]
  BY <1>3 DEF TypeOK, Step, Lock, Find, Mismatch, Miss, Misread, Create, CreateRefused,
              Upsert, UpsertRefused, Abort, CreateStray, DropStray, Unlocked
<1>5. job' \in [Actor ->
         [at : {"lock", "look", "create", "upsert", "stray"}, name : Names, settings : Settings,
          payload : PayloadType, misread : BOOLEAN] \cup {Absent}]
  <2>1. CASE \E at \in {"look", "create", "upsert", "stray"} : job' = [job EXCEPT ![a].at = at]
    BY <1>2, <2>1, JobIsTyped DEF TypeOK
  <2>2. CASE job' = [job EXCEPT ![a].at = "create", ![a].misread = TRUE]
    BY <1>2, <2>2, JobIsTyped DEF TypeOK
  <2>3. CASE job' = [job EXCEPT ![a] = Absent]
    BY <2>3 DEF TypeOK
  <2> QED
    BY <2>1, <2>2, <2>3 DEF Step, Lock, Find, Mismatch, Miss, Misread, Create,
                            CreateRefused, Upsert, UpsertRefused, Abort, CreateStray, DropStray
<1>6. collections' \in
        [Names -> [schema : SUBSET (VectorName \cup {Unnamed}),
                   points : SUBSET PointType, stray : BOOLEAN] \cup {Absent}]
  <2>1. CASE Create(a)
    BY <1>3, <2>1, VectorsOfSettings DEF Create, New, TypeOK
  <2>4. CASE CreateStray(a)
    BY <1>3, <2>4, VectorsOfSettings DEF CreateStray, New, TypeOK
  <2>2. CASE Upsert(a)
    <3>1. Point(a) \in PointType
      BY <1>3, VectorsOfSettings DEF Point, PointType
    <3> QED
      BY <1>3, <2>2, <3>1 DEF Upsert, Fits, TypeOK
  <2>3. CASE UNCHANGED collections
    BY <2>3 DEF TypeOK
  <2> QED
    BY <2>1, <2>2, <2>3, <2>4 DEF Step, Lock, Find, Mismatch, Miss, Misread,
                                  CreateRefused, UpsertRefused, Abort, DropStray
<1> QED
  BY <1>1, <1>4, <1>5, <1>6 DEF TypeOK

\* Points and their vectors: only a creation and an upsert could break this.
LEMMA StepKeepsPoints ==
  ASSUME TypeOK, PointsFit, NEW a \in Actor, Step(a)
  PROVE  PointsFit'
<1>1. CASE Create(a)
  <2>1. Name(a) \in Names
    BY <1>1, JobIsTyped DEF Create, At
  <2> QED
    BY <1>1, <2>1 DEF Create, New, PointsFit, TypeOK
<1>4. CASE CreateStray(a)
  <2>1. Name(a) \in Names
    BY <1>4, JobIsTyped DEF CreateStray, At
  <2> QED
    BY <1>4, <2>1 DEF CreateStray, New, PointsFit, TypeOK
<1>2. CASE Upsert(a)
  <2>1. Name(a) \in Names
    BY <1>2, JobIsTyped DEF Upsert, At
  <2>2. Point(a).vectors = UpsertVectors(Point(a).by)
    BY DEF Point
  <2>3. Point(a).vectors \subseteq collections[Name(a)].schema
    BY <1>2 DEF Point, Upsert, Fits
  <2>4. /\ collections'[Name(a)].schema = collections[Name(a)].schema
        /\ collections'[Name(a)].points \subseteq collections[Name(a)].points \cup {Point(a)}
        /\ collections[Name(a)] # Absent
    BY <1>2, <2>1 DEF Upsert, Fits, TypeOK
  <2>5. \A name \in Names \ {Name(a)} : collections'[name] = collections[name]
    BY <1>2, <2>1 DEF Upsert, TypeOK
  <2> QED
    BY <2>1, <2>2, <2>3, <2>4, <2>5 DEF PointsFit
<1>3. CASE UNCHANGED collections
  BY <1>3 DEF PointsFit
<1> QED
  BY <1>1, <1>2, <1>3, <1>4 DEF Step, Lock, Find, Mismatch, Miss, Misread, CreateRefused,
                                UpsertRefused, Abort, DropStray

\* A job takes a free lock, and gives up only its own.
LEMMA StepKeepsLock ==
  ASSUME TypeOK, LockHeld, NEW a \in Actor, Step(a)
  PROVE  LockHeld'
<1> SUFFICES ASSUME NEW b \in Actor, At(b, "look")' \/ At(b, "create")'
             PROVE  holder'[Name(b)'] = b
  BY DEF LockHeld
<1>1. job[a] # Absent
  BY DEF Step, Lock, Find, Mismatch, Miss, Misread, Create, CreateRefused, Upsert,
         UpsertRefused, Abort, CreateStray, DropStray, At
<1>2. Name(a) \in Names
  BY <1>1, JobIsTyped
<1>3. CASE b # a
  <2>1. job'[b] = job[b]
    BY <1>3 DEF TypeOK, Step, Lock, Find, Mismatch, Miss, Misread, Create,
               CreateRefused, Upsert, UpsertRefused, Abort, CreateStray, DropStray
  <2>2. holder[Name(b)] = b /\ Name(b)' = Name(b)
    BY <2>1 DEF LockHeld, At, Name
  <2>3. holder[Name(b)] # Absent
    BY <2>2, CollectionsAssumption DEF CollectionsAssumption
  <2>4. CASE Lock(a)
    BY <1>2, <2>2, <2>3, <2>4 DEF Lock, TypeOK
  <2>5. CASE holder' = Unlocked(a) /\ (At(a, "look") \/ At(a, "create"))
    <3>1. holder[Name(a)] = a
      BY <2>5 DEF LockHeld
    <3>2. Name(a) # Name(b)
      BY <1>3, <2>2, <3>1
    <3> QED
      BY <1>2, <2>2, <2>5, <3>2 DEF Unlocked, TypeOK
  <2>6. CASE holder' = holder
    BY <2>2, <2>6
  <2> QED
    BY <1>1, <2>4, <2>5, <2>6 DEF Step, Find, Mismatch, Miss, Misread, Create,
                                  CreateRefused, Upsert, UpsertRefused, Abort, CreateStray, DropStray, At
<1>4. CASE b = a
  <2>1. CASE Lock(a)
    BY <1>1, <1>2, <1>4, <2>1, JobIsTyped DEF Lock, Name, TypeOK
  <2>2. CASE Miss(a) \/ Misread(a)
    <3>1. holder[Name(a)] = a /\ holder' = holder
      BY <2>2 DEF Miss, Misread, LockHeld
    <3>2. CASE job' = [job EXCEPT ![a].at = "create"]
      BY <1>1, <1>4, <3>1, <3>2, JobIsTyped DEF Name, TypeOK
    <3>3. CASE job' = [job EXCEPT ![a].at = "create", ![a].misread = TRUE]
      BY <1>1, <1>4, <3>1, <3>3, JobIsTyped DEF Name, TypeOK
    <3> QED
      BY <2>2, <3>2, <3>3 DEF Miss, Misread
  <2>3. CASE job' = [job EXCEPT ![a].at = "upsert"]
    BY <1>1, <1>4, <2>3, JobIsTyped DEF At, TypeOK
  <2>4. CASE job' = [job EXCEPT ![a] = Absent]
    BY <1>4, <2>4 DEF At, TypeOK
  <2>5. CASE job' = [job EXCEPT ![a].at = "stray"]
    BY <1>1, <1>4, <2>5, JobIsTyped DEF At, TypeOK
  <2> QED
    BY <2>1, <2>2, <2>3, <2>4, <2>5 DEF Step, Find, Mismatch, Create, CreateRefused, Upsert,
                                  UpsertRefused, Abort, CreateStray, DropStray
<1> QED
  BY <1>3, <1>4

\* What a job that is about to create may find: nothing, or a stray's collection.
Vacant(name) == collections[name] = Absent \/ collections[name].stray

\* Only the holder of the lock creates, so nobody creates what another is about to, but
\* for a request that has outlived its job.
LEMMA StepKeepsExclusion ==
  ASSUME TypeOK, LockHeld, CreationIsExclusive, NEW a \in Actor, Step(a)
  PROVE  CreationIsExclusive'
<1> SUFFICES ASSUME NEW b \in Actor, At(b, "create")', ~ job'[b].misread
             PROVE  Vacant(Name(b))'
  BY DEF CreationIsExclusive, Vacant
<1>1. job[a] # Absent
  BY DEF Step, Lock, Find, Mismatch, Miss, Misread, Create, CreateRefused, Upsert,
         UpsertRefused, Abort, CreateStray, DropStray, At
<1>2. Name(a) \in Names
  BY <1>1, JobIsTyped
<1>3. CASE b # a
  <2>1. job'[b] = job[b]
    BY <1>3 DEF TypeOK, Step, Lock, Find, Mismatch, Miss, Misread, Create,
               CreateRefused, Upsert, UpsertRefused, Abort, CreateStray, DropStray
  <2>2. /\ Vacant(Name(b)) /\ holder[Name(b)] = b
        /\ Name(b)' = Name(b) /\ Name(b) \in Names
    BY <2>1, JobIsTyped DEF CreationIsExclusive, Vacant, LockHeld, At, Name
  <2>3. CASE Create(a)
    <3>1. holder[Name(a)] = a
      BY <2>3 DEF Create, LockHeld
    <3>2. Name(a) # Name(b)
      BY <1>3, <2>2, <3>1
    <3> QED
      BY <1>2, <2>2, <2>3, <3>2 DEF Create, Vacant, TypeOK
  <2>4. CASE Upsert(a)
    <3>1. /\ collections[Name(a)] # Absent
          /\ collections' = [collections EXCEPT ![Name(a)].points =
                               {x \in @ : x.payload # job[a].payload} \cup {Point(a)}]
      BY <2>4 DEF Upsert, Fits
    <3>2. collections'[Name(a)].stray = collections[Name(a)].stray
      BY <1>2, <3>1 DEF TypeOK
    <3>3. Name(b) # Name(a) => collections'[Name(b)] = collections[Name(b)]
      BY <1>2, <2>2, <3>1 DEF TypeOK
    <3> QED
      BY <2>2, <3>1, <3>2, <3>3 DEF Vacant
  <2>5. CASE CreateStray(a)
    BY <1>2, <2>2, <2>5 DEF CreateStray, New, Vacant, TypeOK
  <2>6. CASE UNCHANGED collections
    BY <2>2, <2>6 DEF Vacant
  <2> QED
    BY <2>3, <2>4, <2>5, <2>6 DEF Step, Lock, Find, Mismatch, Miss, Misread,
                                  CreateRefused, UpsertRefused, Abort, DropStray
<1>4. CASE b = a
  <2>1. CASE Miss(a)
    <3>1. Name(a)' = Name(a)
      BY <1>1, <2>1, JobIsTyped DEF Miss, Name, TypeOK
    <3> QED
      BY <1>4, <2>1, <3>1 DEF Miss, Vacant
  <2>2. CASE Misread(a)
    BY <1>1, <1>4, <2>2, JobIsTyped DEF Misread, TypeOK
  <2>3. CASE \E at \in {"look", "upsert", "stray"} : job' = [job EXCEPT ![a].at = at]
    BY <1>1, <1>4, <2>3, JobIsTyped DEF At, TypeOK
  <2>4. CASE job' = [job EXCEPT ![a] = Absent]
    BY <1>4, <2>4 DEF At, TypeOK
  <2> QED
    BY <2>1, <2>2, <2>3, <2>4 DEF Step, Lock, Find, Mismatch, Create, CreateRefused,
                                  Upsert, UpsertRefused, Abort, CreateStray, DropStray
<1> QED
  BY <1>3, <1>4

\* A new job waits for the lock and has the settings and the payload of its request.
LEMMA IngestKeeps ==
  ASSUME TenancyInv, NEW a \in Actor, NEW request \in IngestRequest, Ingest(a, request)
  PROVE  TenancyInv'
<1> DEFINE r == row[request.project]
<1> USE DEF TenancyInv
<1>1. r \in Row
  BY DEF Ingest, Resolves, IngestRequest, TypeOK
<1>2. CollectionName(r) \in Names
  BY <1>1 DEF Names
<1>3. Parsed(Config(r).retrieval) \in Settings
  BY <1>1, SettingsOfRow DEF Ingest
<1>4. Payload(request) \in PayloadType
  BY PayloadIsTyped DEF Ingest
<1>5. TypeOK'
  <2>1. started \in Int /\ started' = started + 1 /\ started < MaxJobs /\ MaxJobs \in Int
        /\ 0 <= started
    BY TenancyAssumption DEF Ingest, TypeOK, TenancyAssumption
  <2>2. started' \in 0 .. MaxJobs
    BY <2>1
  <2>3. job' \in [Actor ->
          [at : {"lock", "look", "create", "upsert", "stray"}, name : Names, settings : Settings,
           payload : PayloadType, misread : BOOLEAN] \cup {Absent}]
    BY <1>2, <1>3, <1>4 DEF Ingest, Begin, TypeOK
  <2> QED
    BY <2>2, <2>3 DEF Ingest, Begin, TypeOK
<1>6. UNCHANGED <<collections, holder>>
  BY DEF Ingest, Begin
<1>7. \A b \in Actor : job'[b] = job[b] \/ job'[b].at = "lock"
  BY DEF Ingest, Begin, TypeOK
<1>8. PointsFit'
  BY <1>6 DEF PointsFit
<1>9. LockHeld' /\ CreationIsExclusive'
  BY <1>6, <1>7 DEF LockHeld, CreationIsExclusive, At, Name
<1> QED
  BY <1>5, <1>8, <1>9

\* Deletions take points or a collection away, whoever holds the lock.
LEMMA DeletionKeeps ==
  ASSUME TenancyInv, NEW name \in Names, NEW payload,
         DeleteDocument(name, payload) \/ DeleteProject(name), UNCHANGED <<row, started>>
  PROVE  TenancyInv'
<1> USE DEF TenancyInv
<1>1. UNCHANGED <<holder, job>>
  BY DEF DeleteDocument, DeleteProject
<1>2. CASE DeleteDocument(name, payload)
  <2>1. TypeOK'
    BY <1>1, <1>2 DEF DeleteDocument, TypeOK
  <2>2. \A n \in Names :
          /\ collections[n] = Absent => collections'[n] = Absent
          /\ collections[n] # Absent =>
               /\ collections'[n].stray = collections[n].stray
               /\ collections'[n].schema = collections[n].schema
               /\ collections'[n].points \subseteq collections[n].points
    BY <1>2 DEF DeleteDocument, TypeOK
  <2>3. PointsFit'
    BY <2>2 DEF PointsFit
  <2>4. LockHeld'
    BY <1>1 DEF LockHeld, At, Name
  <2>5. CreationIsExclusive'
    BY <1>1, <2>2, JobIsTyped DEF CreationIsExclusive, At, Name
  <2> QED
    BY <2>1, <2>3, <2>4, <2>5
<1>3. CASE DeleteProject(name)
  <2>1. TypeOK'
    BY <1>1, <1>3 DEF DeleteProject, TypeOK
  <2>2. \A n \in Names : collections'[n] = collections[n] \/ collections'[n] = Absent
    BY <1>3 DEF DeleteProject, TypeOK
  <2>3. PointsFit'
    BY <2>2 DEF PointsFit
  <2>4. LockHeld'
    BY <1>1 DEF LockHeld, At, Name
  <2>5. CreationIsExclusive'
    BY <1>1, <2>2, JobIsTyped DEF CreationIsExclusive, At, Name
  <2> QED
    BY <2>1, <2>3, <2>4, <2>5
<1> QED
  BY <1>2, <1>3

LEMMA TenancyInvNext == TenancyInv /\ [Next]_vars => TenancyInv'
<1> SUFFICES ASSUME TenancyInv, [Next]_vars PROVE TenancyInv'
  OBVIOUS
<1>1. ASSUME NEW r \in Row, PutRow(r) PROVE TenancyInv'
  <2>1. UNCHANGED <<collections, holder, job, started>>
    BY <1>1 DEF PutRow, storeVars
  <2>2. row' \in [Id -> Row \cup {Absent}]
    BY <1>1 DEF PutRow, TenancyInv, TypeOK
  <2> QED
    BY <2>1, <2>2 DEF TenancyInv, TypeOK, PointsFit, LockHeld, CreationIsExclusive, At, Name
<1>2. ASSUME NEW a \in Actor, NEW request \in IngestRequest, Ingest(a, request)
      PROVE  TenancyInv'
  BY <1>2, IngestKeeps
<1>3. ASSUME NEW a \in Actor, Step(a), UNCHANGED <<row, started>> PROVE TenancyInv'
  BY <1>3, StepTypes, StepKeepsPoints, StepKeepsLock, StepKeepsExclusion DEF TenancyInv
<1>4. ASSUME NEW r \in Row, NEW payload, Delete(CollectionName(r), payload) PROVE TenancyInv'
  BY <1>4, DeletionKeeps DEF Delete, Names
<1>5. ASSUME NEW name \in Names, Drop(name) PROVE TenancyInv'
  BY <1>5, DeletionKeeps DEF Drop
<1>6. ASSUME UNCHANGED vars PROVE TenancyInv'
  BY <1>6 DEF vars, storeVars, TenancyInv, TypeOK, PointsFit, LockHeld,
              CreationIsExclusive, At, Name
<1> QED
  <2>1. ASSUME NEW of \in {<<CollectionName(r), r.project>> : r \in Row}, NEW payload,
               Delete(of[1], payload)
        PROVE  TenancyInv'
    <3>1. PICK r \in Row : of = <<CollectionName(r), r.project>>
      OBVIOUS
    <3> QED
      BY <1>4, <2>1, <3>1
  <2> QED
    BY <1>1, <1>2, <1>3, <1>5, <1>6, <2>1 DEF Next

\* A point whose settings are consistent is found wherever it may be read.
LEMMA ServedFromInv == TenancyInv => IndexedIsServed
<1> SUFFICES ASSUME TenancyInv, NEW name \in Names, NEW x \in PointsOf(name),
                    Consistent(x.by)
             PROVE  /\ CanSearch(x.by, name)
                    /\ \A plan \in Plans :
                         Asked(plan) /\ MayRead(plan.request, x.payload) => x \in Hits(x.by, name, plan.filter)
  BY DEF IndexedIsServed
<1>1. collections[name] # Absent /\ x \in collections[name].points
  BY DEF PointsOf
<1>2. x \in PointType
  BY <1>1 DEF TenancyInv, TypeOK
<1>3. x.by \in Settings /\ x.payload \in PayloadType
  BY <1>2 DEF PointType
<1>4. x.vectors = UpsertVectors(x.by) /\ x.vectors \subseteq collections[name].schema
  BY <1>1 DEF TenancyInv, PointsFit
<1>5. SearchVectors(x.by) = x.vectors /\ x.vectors # {}
  BY <1>3, <1>4, ConsistentSettings, VectorsOfSettings
<1>6. ASSUME NEW plan \in Plans, Asked(plan) /\ MayRead(plan.request, x.payload)
      PROVE  x \in Hits(x.by, name, plan.filter)
  <2>1. Passes(plan.filter, x.payload)
    BY <1>3, <1>6, FilterIsComplete
  <2> QED
    BY <1>1, <1>5, <2>1 DEF Hits
<1> QED
  BY <1>1, <1>4, <1>5, <1>6 DEF CanSearch

-----------------------------------------------------------------------------
(* The theorems.                                                           *)

\* Points have the vectors of their settings and of their collection, and who looks or
\* creates holds the lock.
THEOREM TenancyInvariant == Spec => []TenancyInv
  BY TenancyInvInit, TenancyInvNext, PTL DEF Spec

\* Types: a stored job, point or row is one that a config and a request can make.
THEOREM TenancyTypes == Spec => []TypeOK
<1>1. TenancyInv => TypeOK
  BY DEF TenancyInv
<1> QED
  BY <1>1, TenancyInvariant, PTL

\* build_query_scope, from_scope, the two checks of the gateway and _build_qdrant_filter,
\* together: a search of the website adapter, and of any that filters as it does, returns
\* nothing that its request may not read; whatever another adapter answers, the points
\* are of the request's project, and of its user or of the one the adapter shares.
THEOREM TenancyIsolation == Spec => []Isolation
<1>1. Isolation
  BY FilterIsSound, FilterIsOfProject DEF Isolation
<1> QED
  BY <1>1, PTL

\* What a job with a consistent config has upserted, a search under that config finds.
THEOREM TenancyIndexedIsServed == Spec => []IndexedIsServed
  BY TenancyInvariant, ServedFromInv, PTL

\* ensure_collection_exists looks and creates under the lock: no job creates what another
\* has created since it looked.
THEOREM TenancyCreationIsExclusive == Spec => []CreationIsExclusive
<1>1. TenancyInv => CreationIsExclusive
  BY DEF TenancyInv
<1> QED
  BY <1>1, TenancyInvariant, PTL
=============================================================================
