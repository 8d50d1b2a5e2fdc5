------------------------------- MODULE Scopes -------------------------------
(***************************************************************************)
(* Who may see what: a search request becomes a scope, the scope a         *)
(* retrieval filter, and the filter the conditions Qdrant evaluates on     *)
(* every payload; an ingest request becomes the payload of its chunks.     *)
(*                                                                         *)
(* An id is a token, or Blank when it is empty or white space.  Only a     *)
(* KB id is stripped on its way, so a KB as a client writes it is a name   *)
(* and whether white space surrounds it.  Order and repetition of KB ids   *)
(* do not matter to a filter, so a request has a set of them.              *)
(***************************************************************************)
EXTENDS Integers

CONSTANTS
  Id,          \* project ids
  User,        \* user ids a client may send, Blank among them
  KbName,      \* KB names a client may write
  Doc,         \* document ids a client may send, Blank among them
  Blank,
  SharedUser,  \* SHARED_USER_ID: the owner of what everybody may read
  Nobody,      \* a filter that allows no user beside its own
  DefaultKb,   \* DEFAULT_KB_ID
  KbChoice,    \* the sets of KBs a search may name
  ScopeChoice,   \* KBs and sharing that another adapter than the website's may answer
  FilterChoice,  \* KBs, documents and shared user that it may answer
  Registered,  \* project types that have an adapter
  Website      \* the project type of WebsiteProjectAdapter

KbText == [name : KbName \cup {Blank, DefaultKb}, padded : BOOLEAN]

ASSUME ScopesAssumption ==
  /\ Blank \notin Id \cup KbName \cup {DefaultKb}
  /\ KbChoice \subseteq SUBSET KbText
  /\ Nobody \notin User \cup {SharedUser}

Plain(name) == [name |-> name, padded |-> FALSE]

Strip(text) == Plain(text.name)

SearchRequest ==
  [project : Id, user : User, kbs : KbChoice, shared : BOOLEAN]

IngestRequest == [project : Id, user : User, kb : KbText, doc : Doc]

\* __post_init__ of the requests: no id may be blank.
WellFormed(ids) == Blank \notin ids

\* Mutant: white space is a KB of its own.
NormalKbBlank(text) == Strip(text)

\* normalize_kb_id: a missing KB is the default one.
NormalKb(text) == IF text.name = Blank THEN Plain(DefaultKb) ELSE Strip(text)

\* normalize_kb_ids.
NormalKbs(texts) == {Strip(text) : text \in {t \in texts : t.name # Blank}}

\* build_query_scope of the website adapter.
QueryScope(request) ==
  [project |-> request.project, user |-> request.user,
   kbs |-> NormalKbs(request.kbs), shared |-> request.shared]

\* The scopes an adapter of a project type may answer with.  Another adapter than the
\* website's may put in any project and user, and any KBs and sharing.
AdapterScopes(type, request) ==
  IF type = Website THEN {QueryScope(request)}
  ELSE {[project |-> p, user |-> u, kbs |-> choice.kbs, shared |-> choice.shared] :
          p \in Id, u \in User, choice \in ScopeChoice}

\* ProjectRetrievalFilter.from_scope: all documents, and the shared user if wanted.
FilterOf(scope) ==
  [project |-> scope.project, user |-> scope.user, kbs |-> scope.kbs, docs |-> {},
   shared |-> IF scope.shared THEN SharedUser ELSE Nobody]

\* The filters an adapter may build: another than the website's, whatever its scope said.
AdapterFilters(type, scope) ==
  IF type = Website THEN {FilterOf(scope)}
  ELSE {[project |-> p, user |-> u, kbs |-> choice.kbs, docs |-> choice.docs,
         shared |-> choice.shared] :
          p \in Id, u \in User, choice \in FilterChoice}

\* allowed_user_ids.
AllowedUsers(filter) == {filter.user} \cup ({filter.shared} \ {Nobody})

\* _validate_scope_matches_request and _validate_filter_matches_scope: nothing else that
\* an adapter answers is looked at.
Matches(built, from) == built.project = from.project /\ built.user = from.user

\* Mutant: only the scope is compared with the request.
PlanFiltersUnchecked(type, request) ==
  UNION {AdapterFilters(type, scope) :
           scope \in {s \in AdapterScopes(type, request) : Matches(s, request)}}

\* prepare_search: the filters of the plans it may return.
PlanFilters(type, request) ==
  UNION {{f \in AdapterFilters(type, scope) : Matches(f, scope)} :
           scope \in {s \in AdapterScopes(type, request) : Matches(s, request)}}

\* The plans the gateway makes: the request, the type whose adapter answered, the filter.
PlansOf(request) ==
  UNION {{[request |-> request, type |-> type, filter |-> f] : f \in PlanFilters(type, request)} :
           type \in Registered}

Plans == UNION {PlansOf(request) : request \in {r \in SearchRequest : WellFormed({r.user})}}

\* _build_qdrant_filter: every condition must hold of a payload; without KBs, or without
\* documents, there is no condition on them.
Passes(filter, payload) ==
  /\ payload.project = filter.project
  /\ payload.user \in AllowedUsers(filter)
  /\ filter.kbs # {} => payload.kb \in filter.kbs
  /\ filter.docs # {} => payload.doc \in filter.docs

\* adapt_ingest_output and ProjectChunkPayload: what the points of a document say.
Payload(request) ==
  [project |-> request.project, user |-> request.user,
   kb |-> NormalKb(request.kb), doc |-> request.doc]

PayloadType ==
  [project : Id, user : User \ {Blank}, kb : [name : KbName \cup {DefaultKb}, padded : {FALSE}],
   doc : Doc \ {Blank}]

-----------------------------------------------------------------------------
\* The website adapter's plans, and those of adapters that filter as it does.
Asked(plan) ==
  plan.type = Website \/ plan.filter = FilterOf(QueryScope(plan.request))

\* What a client asked for, said of the request and not of the filter: documents of
\* its project, its own and, if it wants, the shared ones, of the KBs it names, or of
\* all when it names none.
MayRead(request, payload) ==
  /\ payload.project = request.project
  /\ payload.user = request.user \/ (request.shared /\ payload.user = SharedUser)
  /\ \/ \A text \in request.kbs : text.name = Blank
     \/ \E text \in request.kbs : text.name # Blank /\ text.name = payload.kb.name
=============================================================================
