# A formal model of the multi-tenant RAG service

TLA+ specifications of the retrieval service in this repository, the TLC
configurations that check them on small instances, and proofs, checked by TLAPS,
of the safety properties that matter most. The modules are written from the
source, not from its documents; paths below are relative to the repository.

To check a module: `tlc -config MCX.cfg MCX`; to check its proofs:
`tlapm XProofs.tla`. `PROJECT.json` lists the runs, the source lines behind each
definition, a mutated definition for each property that breaks it, the hazards
and the theorems.

## 1. The system

A gRPC server answers Search, Generate, Ingest and GetIngestJobStatus requests of
the users of several projects. One asyncio event loop runs everything: what
happens between two `await`s that really suspend is atomic, and everything else
interleaves. State is in memory (queue, job records, tier-1 cache, limiter), in
SQLite (project configs, versions, tier-2 responses), in Qdrant (points) and in
an object storage (raw documents). No two of these share a transaction.

| Component | State | Operations | Interacts with |
|---|---|---|---|
| gRPC server (`project_service/server/grpc/server.py`, `app.py`) | the parts it wires | the RPC handlers; start, shutdown | gateway, engine |
| Gateway (`project_service/gateway/`) | requests in preparation per project and per user | prepare_search, prepare_ingest; acquire and release of slots | adapters, config repository |
| Adapters (`project_service/adapters/`) | none | config, scope, filter, payload rendering | config repository |
| Config repository (`project_service/config/repository.py`) | SQLite row per project | upsert, get, set_active_embedding_version | adapters, version manager |
| Version manager (`project_service/versioning/manager.py`) | SQLite row per version | create, activate, get active, list, expire | config repository (same file) |
| RAG engine (`project_service/rag/engine.py`) | none of its own | search, generate, schedule_ingest, delete_document, job handler | everything below |
| Ingest queue (`retrieval_service/ingest/workers.py`, `jobs.py`) | asyncio.Queue, worker tasks, job records | submit, worker loop, join, shutdown | engine (handler), metrics |
| Ingest pipeline (`retrieval_service/ingest/pipeline.py`, `ingester.py`) | none: a job in progress | prepare, store raw, extract entities, embed, upsert | ingestion service, models, Qdrant, storage |
| Tier-1 cache (`retrieval_service/services/cache.py`) | an OrderedDict per project | get, set, invalidate, clear_expired | search, job handler, delete |
| Tier-2 cache (same file) | SQLite table of responses | get, set, invalidate_user | generate, job handler, delete |
| Retrieval (`retriever.py`, `bm25.py`, `hybrid.py`, `ranking/entity_boost.py`) | none: a search in progress | dense and sparse search, fusion, boost | Qdrant, models |
| Vector store (`retrieval_service/services/vector_store.py`) | Qdrant collections and points; a lock per collection | ensure, upsert, search, delete | Qdrant |
| Object storage (`retrieval_service/storage/`) | an object per raw document | put, get, delete, exists | memory, file system, S3 |
| LLM, embedding, sparse and entity models | HTTP client, or thread pool and model | open, chat completion with retries, encode, close | HTTP, thread pools |
| Ingestion service (`ingestion_service/`) | none: a source in progress | load, route, parse, clean, chunk | pipeline, format libraries |
| Settings (`configs/config.py`) | none after the start | load, from three layers of sources | start of the application |
| Health, metrics (`retrieval_service/health/`) | counters | probes | server, queue |

**What is hard, and what correctness means.**

* *Ingest queue.* Workers interleave at every `await` of a handler; a submission
  may wait on a full queue and be cancelled; a handler may raise; shutdown cancels
  workers anywhere. Correct: no accepted job is lost or run twice, records only
  move forward and agree with where the job is, `join` counts right, everything
  that waits goes on.
* *Tier-1 cache.* Invalidation comes after the write, and a search that read Qdrant
  before it may store after it. Calls to Qdrant fail on either side of their
  effect. Correct: a result is out of date only for a named reason and only as long
  as an entry lives; inside the cache, least recently used and time to live mean
  what they say.
* *Tier-2 cache.* Rows outlive the process and carry wall-clock expiries; the LLM
  call between lookup and store takes long and is retried; invalidation is by user,
  documents may be shared. Correct: the owner's responses are as fresh as the
  index, others end with their lifetime, a response belongs to the context it is
  returned for.
* *Documents.* Two stores, four awaited calls, no transaction, no order between two
  operations on one document. Correct: an operation that nothing overlapped leaves
  what it says it leaves, whatever failed before.
* *Versions.* An operation is a sequence of SQLite transactions and the process may
  die between any two. Correct: one active version at most; table and config row
  agree when an activation has completed; an interrupted one can be repeated.
* *Gateway.* Two counts, two limits, and requests that fail or are cancelled while
  counted. Correct: no slot leaks, none is returned twice.
* *Retrieval.* Two reads of an index that changes between them, two scales of
  scores, three successive cuts. Correct: the result does not contradict both
  retrievers, and drops only what is outranked.
* *Collections.* Creation looks first and creates afterwards, under a lock that the
  upserts and deletions do not take; a row may change its mode while jobs with the old
  config are on their way, and two projects may share one collection. Correct: a
  collection is created once, and what was indexed under a config is found under it.
* *Scope and filter.* The request passes through an adapter anybody may register, two
  checks, a filter and its rendering, and a KB id is normalised on the way of a search
  and on the way of a job by different code. Correct: a search returns what the request
  may read and nothing else.
* *Start and shutdown.* Nine parts are opened and five shut down one after the other,
  any step may raise, and calls are in progress until the grace period ends. Correct:
  what a call uses is open; after an orderly shutdown nothing is.
* *Text processing.* A file is taken apart, cleaned, packed. Correct: text is lost for a
  named reason only, and what is kept is in one chunk, once, in its order.

## 2. Modules

| Module | Models | Composes / refines |
|---|---|---|
| `JobBoard` | abstract: what a client that polls a job may rely on | |
| `IngestQueue` | engine.schedule_ingest, AsyncIngestWorkerQueue, job handler, job records | refines `JobBoard` |
| `Tier1Cache` | every method of Tier1MemoryCache | |
| `SearchCache` | searches, the tier-1 cache, writers and Qdrant together | composes engine, cache, index |
| `Generate` | Generate RPCs, tier-2 cache, LLM retries, index changes, restarts | composes engine, cache, LLM, index |
| `HybridSearch` | retrieval, fusion, boost and cut of a search that missed the cache | composes retrievers, index |
| `Documents` | ingest jobs and deletes against Qdrant and object storage | composes pipeline, engine, stores |
| `VersionManager` | the version manager and the project's config row, with crashes | composes manager, repository |
| `Gateway` | abstract for `Server`: the concurrency limiter around the preparation of a plan | |
| `Settings` | load_settings and the choice of providers | |
| `Server` | start, RPCs, workers and shutdown of the process | composes `Gateway`, `Settings`; refines `Gateway` |
| `Scopes` | requests, scopes, filters, payloads; who may read what | |
| `Collections` | QdrantStore and the collections of Qdrant | uses `Scopes` |
| `Tenancy` | projects whose rows change, over the store | composes gateway, adapters, repository, `Collections` |
| `Texts` | lines, paragraphs and lengths of a text | |
| `Cleaning`, `Chunking`, `Handlers`, `Sources` | DocumentCleaner, SectionAwareChunker, the eleven handlers, detection and routing | use `Texts` |
| `Ingestion` | IngestionService.process of one source | composes the four |
| `VersionManagerProofs`, `GenerateProofs`, `TenancyProofs`, `Tier1CacheProofs` | theorems about the module they are named after | |
| `ServerProofs` | theorems about `Gateway` and `Server` | |
| `SearchProofs` | theorems about `SearchCache` and `HybridSearch` | |
| `DocumentsProofs` | theorems about `IngestQueue` and `Documents` | |
| `IngestionProofs` | theorems about `Ingestion` and the modules it composes | |
| `MC*` | instances for TLC | |

The same piece of code may appear in two modules at different grains: `SearchCache`
leaves open which entry a full cache drops because `Tier1Cache` says it, and reads
the index in one step because `HybridSearch` says how; `Documents` knows which
points a job writes, `SearchCache` and `Generate` only that the index changed.

### IngestQueue

State: the job records (`status`), the call of schedule_ingest (`submit`), the
asyncio.Queue, what each worker is at (`task`), the queue's count of unfinished
jobs, the depth gauge, and whether shutdown was called. `accepted` and `started`
are history. A step is what a coroutine does until it really suspends: the record
repository and a `get` on a non-empty queue do not suspend, so `Finish` ends one
job and takes the next (`TakeNext`), and creation of the record and `put` are one
step unless the queue is full. `Full` and the waiting of `put` are asyncio's
contract; waiting putters are served in any order, which covers asyncio's FIFO. A
handler's outcome is either, because any call in it may raise.

`JobBoard` says: posted, begun once, ended at most once; a job dropped while being
worked on stays "running". The refinement maps `active` to the jobs held by
workers. `EndAndBegin` is there because the code offers no point between the end
of one job and the start of the next at which a client could look.

### Tier1Cache, SearchCache

`Tier1Cache` keeps the order of the keys (`order`) and their entries (`entry`);
`latest` and `recent` record what an unbounded, unexpiring store would hold and
the order of use. No method suspends under the lock, so each is a step.

`SearchCache` gives each document a version (0: no points); a result is a view of
all versions. A writer is an ingest job or a delete: its request is sent, applied
by Qdrant, and then announced by the invalidation, or the call fails before or
after Qdrant applied it, and the request may even be applied after the caller gave
up (`ApplyStray`). A search looks up, reads, and stores (`Hit`, `Miss`,
`ReadIndex`, `Store`), with writers in between. The views carry the number of
announcements at reading and at storing, which no code has, so that `Coherent` can
say exactly when a stale result is excusable: while its write is unannounced, or
if it was read before an announcement and stored after it (`Raced`).

### Generate

A client searches and sends the chunks it got to generate; a context is one chunk.
The search looks into tier 1 (`SearchHit`, `SearchMiss`), reads Qdrant (`Find`) and stores
what it found (`Found`), with suspensions in between: one that read before an
invalidation and stores after it leaves an old chunk in tier 1, which later searches hand
out until it expires, and a client may hold any chunk for as long as it likes. The
key of a response is the user and the chunk id, as in `_make_response_cache_key`; what
else it contains is fixed here. A call is at "embed" or "found" (the search), "ask" (about
to look up a response), "post" (a request to the LLM is under way) or "sleep" (between two
attempts). An invalidation empties tier 1, removes the rows of its user and marks that
user's calls as `late`; what they store in tier 1 or SQLite is `late` as well, and so is
what is made of it. `OwnAnswersFresh` excuses what is `late` and nothing else; what a hit
hands out inherits the mark of the entry, so the property says that an old answer
stored after the invalidation always goes back to a search or a call that was under way at
the time. Rows survive `Restart`; tier 1, the server's calls and jobs do not. `silent` are the
documents that changed since the last invalidation for their owner. A client that sends the
same old chunks again in a second Generate call, without a search before it, is left out:
its answers are as old as it wants them to be.

### HybridSearch

A point's text is its length, which is all fusion looks at. Any list of
distinct points in the order of their scores is an answer Qdrant may give, so
that approximation and filters need no modelling. Scores are exact: multiples of
1 / `ScoreUnit` instead of floats. `Fuse` is `_rrf` or `_weighted`, with Python's
stable sort and the order in which a dict saw its keys; `Boosted` is
apply_entity_boosts.

### Documents

A revision is what a job read, cut in some number of chunks. The points of a
document are identified by KB, document and index (`point_identity`), the raw copy
by the document alone (`make_storage_key`). An ingest goes through prepare, raw
copy and upsert; a delete through points and raw copy; any of them may fail at any
point, with or without having had its effect. `settled` records the last operation
on a document if nothing overlapped it.

### VersionManager

`table` is the versions table, `config` the active version of the project's config
row. Each helper of the manager is a transaction (`_connect` commits or rolls back)
and an action; `op` is the operation under way with what is left of it. A version that is
empty or white space (`Blank`) can be created and made active in the table, and is refused
when it comes to the config row, as an activation without a config row is. The manager
never suspends, so operations of one process do not overlap; `Crash` and `Restart`
come between any two transactions. `settled` and `swap` are history.

### Gateway

`scope` is what each RPC prepares a plan for. The limiter never suspends under its
lock, so `_acquire` and `_release` are steps; everything between them interleaves.
A request whose preparation fails or is cancelled releases like any other: the
`finally` of `limit` is `Release`.

### Settings, Server

`Server` puts the limiter in the life of the process. `phase` and `at` are where the
main task is: in `create_app` (`StartOrder`), serving, or in `AppContext.shutdown`
(`StopOrder`). `open` are the parts that are open, `pools` how many executors or HTTP
clients of the embedding provider are not shut down, `model` whether it can encode,
`call` what each RPC and each worker awaits. Settings come from a profile file, the
files of the components and the environment, each over the one before (`Layered`), and
may end the start (`Refuses`). `encode` opens what it finds closed (`Encode`), which is
why the order of start and stop matters: with `create_app` as it is, `initialize` is
awaited before serving and nothing encodes after the provider is closed, so neither the
double opening of two first calls nor the opening of a closed provider can happen. The
mutants `OpensLazily` and `StopOrderEarly` show what would. grpc.aio is external: after
`stop(grace=5)` no RPC begins, those in progress end or are cancelled (`Ends`, `Abandon`),
and it returns when none is left. A step of the shutdown that raises leaves the parts
after it open ("broken"), and a step of the start that raises leaves what was opened:
`create_app` runs before the `try` of `serve_forever`. `StoppedLeavesNothing`
claims nothing of these beyond the parts that were stopped. Also seen here: `create_app` gives the health checker
no rerank function, so health is always "degraded", and the queue no bound, so that in
the shipped application `put` never waits.

### Scopes, Collections, Tenancy

`Scopes` has no state. A search request becomes the website adapter's scope, or, from
another adapter, any scope and any filter: project, user, KBs, sharing, documents, the
shared user (`ScopeChoice` and `FilterChoice` bound what TLC tries; the proofs take any).
The two checks of the gateway look at project and user only (`Matches`) and keep
what matches the request (`PlanFilters`); `Passes` is the filter as Qdrant evaluates it.
`MayRead` says what a client asked for, of the request alone. `Isolation` has two parts
accordingly: whatever an adapter answers, a search returns points of the request's project,
of its user or of the one user the adapter shares; of the website adapter, and of
another that builds the same filter (`Asked`), only points the request may read. That an
adapter which widens the KBs, or shares another user's documents, is stopped by nobody is
what gateway.py:92-109 does.

`Collections` is the store call by call: a job waits for the lock of its collection,
looks, creates or not, and upserts without the lock. Every call may raise (`Abort`);
`Misread` is `_collection_exists`, which takes every UnexpectedResponse for an absence. The
request of a creation that timed out or was cancelled may be carried out later, outside of
the lock (`CreateStray`); a collection made so is marked, and `CreationIsExclusive` excuses
a job that finds one. A
point is its payload, its vectors and the settings of its job; a document has one. In
dense mode the schema of what is there is not looked at: such a job fails at its upsert
(`UpsertRefused`), as does one whose collection a `delete_project` took away.

`Tenancy` adds the rows of projects, which change at any time while jobs keep the config
they read. `Joined` names a collection by project and version; in the instance it joins
with an underscore as the code does, and project `a` with version `b_v1` shares the
collection of project `a_b` with version `v1`. Then only the filter separates them, and
deleting one deletes both. `Consistent` are the configs whose jobs and searches use the
same vectors; the others are a dense config with a bm25 block, whose searches name a
vector that its upserts do not, and a config that calls the sparse vector something else
than the application's settings do, which searches go by.

### Texts, Cleaning, Chunking, Handlers, Sources, Ingestion

A text is a sequence of lines and a line a sequence of fragments, of which only a shape
matters: length, signs, words, whether it ends a sentence. `Ingestion` is one source from
its URI to its chunks, a step of `process` at a time, and everything that a step computes
is an operator of one of the other modules. A file is of a kind and has parts (lines,
tags, rows, pages, paragraphs, breaks, slides, archive entries), and a library is trusted
to return them or to fail. `TextKept` is said of the file and not of the steps: of what a
reader sees in it (`Occurrences`), what is in the cleaned sections is everything, in
order, but for headings, lines at the edges of enough pages, and fragments of sections
with signs; all of it, if the policy's bound on noise is so low that a short text of letters
reaches it. `ChunksCover` is said of the characters of the cleaned sections.

A file is what a parser can make of bytes: its lines are blank or one fragment
(`SourceText`), in Markdown a heading is one line, and no character counts both as
punctuation and as a letter or digit (`TextsAssumption`).

What the code does and the module therefore does too: the text handler comes first and
takes every source without an extension, whatever its type (`Honest` excludes it from
`RouteFits`); MarkItDown converts what the URI points to, not what was loaded; a Markdown
heading without a text below it is lost; headers that `Repair` joined to another line are
not recognised as repeated; an HTML block tag does not begin a paragraph; the
policy's `allowed_domains` are read by nothing; chunks do not overlap; a URI that is
no file, under an allowed scheme that is not of the web, is itself the text (`LoadUri`); the
zip handler lists the entries of any archive, an office file too (`CanOpen`).

`allowed_schemes` is compared with the scheme of the URI that was asked for. Redirects are
followed from http to https and from https to http without asking the policy
(fetchers.py:60-64), and the name of the last URL is what the type is detected from
(`LoadHttp`). `RouteFits` says this much and no more: what a handler gets was
*asked for* under an allowed scheme, and if it came from another, both are of the web.
MarkItDown opens the URI once more, of which the property says nothing.

## 3. Runs

Besides what is listed, a run checks the module's `TypeOK`, except `documents` and
`versions`, where the type invariant is proved (section 4) as part of the inductive one, and
`gateway`, `hybrid_search` and `ingestion`, which name it `ServerTypeOK`, `SearchTypeOK` and
`ProcessTypeOK`.

| Run | Instance | What it shows |
|---|---|---|
| `ingest_queue` | 4 jobs, 2 workers, 2 slots | `FirstInFirstOut`, `RecordsMatchPlaces`, `NoJobLost`, `CountersAgree`; refinement `BoardSpec`; liveness `AcceptedIsDecided`, `BlockedIsServed`, `ShutdownReturns` |
| `tier1_cache` | 2 projects, 3 keys, 2 values, room for 2, lifetime 1 | `OnlyLatest`: a hit returns what was set last; `RecentIsKept`: no key is lost before it is due |
| `search_cache` | 2 searches, 2 writers, 1 key, 2 documents, 2 writes | `Coherent`; `StalenessEnds` |
| `generate` | 2 clients, 1 user, 1 query, two documents of one id in two KBs and a shared one, 2 changes, 1 retry, a search result that lives until the next tick and a response one longer | `OwnAnswersFresh`; `StaleAnswersEnd` |
| `hybrid_search` | 4 points (2 with one chunk id), lists of 2, 6 settings, 1 change | `AgreementKept`; `CutIsJustified` |
| `documents` | 1 document id in 2 KBs, 2 operations at once, 2 chunks, 3 revisions | `IngestedIsIndexed`, `DeletedIsGone`, `RawFollows` |
| `versions` | 3 versions, one of them blank, grace period 2 | `AtMostOneActive`, `SettledAgrees`, `OnlyExpiredAreDeleted`, `ActivationSettles` |
| `gateway` | 4 requests, 2 workers, 1 project, 2 users, limits 3 and 2, 24 combinations of settings | `CountsAreExact`: no slot leaks; `UsedPartsAreOpen`: no part is closed under a call; `StoppedLeavesNothing`: nor left open |
| `ingestion` | files of every kind with up to 4 parts, 4 sets of cleaning switches; small files of every kind under 8 places (4 schemes), 5 policies, names and types that agree or not, redirects | `RouteFits`; `TextKept`; `ChunksCover` |
| `tenancy` | 2 projects with one collection name, 2 jobs, 9 rows, 3 users, 2 KBs; another adapter with 2 choices of scope and 3 of filter for any project and user | `Isolation`; `IndexedIsServed`; `CreationIsExclusive` |
| `version_swap` | 2 versions | `AtomicSwap` is violated |
| `answers_context` | as `generate`, 3 changes | `AnswersContext` is violated |

**Bounds.** Every bound is a constant: `MaxWrites`, `MaxRevs`, `MaxChanges`, `Ttl`, `FoundTtl`,
`Grace`, `MaxRetries`, `MaxChunks`, `MaxScore`, `Limit`, `MaxQueued`, `MaxJobs`. Two
actors are enough for every race here, since each hazard is between a reader and a
writer or between two operations; where a limit matters the actors outnumber it (four
jobs over two slots and two workers, four requests over limits of three and two, three
keys over two places). Two jobs in the store are enough to race for a creation, and one
of them to find a collection of another mode, or none any more. Four parts of a file
give a header on three pages and one more page, an element in an element, a table
between paragraphs; budgets are set below that, so that each is reached. Three revisions
let a document be written, rewritten and rewritten again with fewer chunks while another
KB's copy changes. A lifetime of one tick gives an entry the three states that matter:
fresh, about to expire, expired. Of two hits, min-max scaling leaves only which scores
more, so two scores are enough for lists of two; four points let fusion see more than
the limit and still cut. What these bounds cannot show, the theorems of section 4 do for
every value of the constants.

**Deadlock** is checked except where the system may stop: `IngestQueue` after
shutdown, `Server` after a failed start or a shutdown, `Ingestion` when the source is
done, and `SearchCache` and `Generate` when the bound on changes is reached and nothing
is left to do.

**Symmetry** is used in `tier1_cache` (projects, keys, values), `gateway` (requests, users,
workers) and `tenancy` (the two ordinary users), which check no liveness and in which
these are interchangeable.

**Fairness.** `IngestQueue`: the event loop runs ready coroutines, so a put with
room, an idle worker with a job, and a cancelled worker go on; a handler ends
because each call it awaits returns or raises (Qdrant, the storage and the models
have client timeouts or are local computations). Nobody is obliged to submit, to
cancel or to shut down. `SearchCache`: time passes, and searches and writes end,
one way or the other. `Generate`: only time passes, since a response ends
by its lifetime even if calls hang. `VersionManager`: an operation that runs goes on,
since it waits for nobody; a crash may still end it, and nobody has to restart.

**The violations.** `AtomicSwap` is what `project_service/versioning/manager.py:4`
promises ("atomic version swaps"): between operations, the last activation has
happened entirely or not at all. The trace is an activation whose process dies
after `_set_active` of the new version and before `set_active_embedding_version`: the table
has the new version active and the config row names the old one. `ActivationSettles` shows that repeating
the activation repairs it. `AnswersContext` is what the prompt of generate
(`engine.py:288`) asks for: an answer based only on the provided context. Chunk ids
are `{doc_id}:{index}` (`ingestion_service/chunking/section.py:40`), the response
key names nothing else of the context, and so a user with one document id in
two KBs gets the answer for the one when asking with the other.

Limits of what the passing runs say, and that belong to the code: a shared
document's stale answers stay with other users until they expire (`OwnAnswersFresh`
is about the owner); a document ingested again with fewer chunks keeps its old
points (`IngestedIsIndexed` says what is beyond them); a raw copy is shared by all
documents of one id (`RawFollows` excludes them), and stays as it was when a job's content
is empty; a search that raced an invalidation may be handed out, and answered from, until
both lifetimes are over (`OwnAnswersFresh` excuses it, `StaleAnswersEnd` ends it); a config
whose upserts and searches name different vectors does not find its documents
(`Consistent` is a premise of `IndexedIsServed`); fusion collapses hits of one chunk
id from two KBs (`OneDocumentEach` is a premise of the ranking properties).

## 4. Proofs

TLAPS proves the following for every value of the constants that satisfies the
module's named assumption (`IngestQueueAssumption`, ...), which TLC evaluates in
the runs. The assumptions say that bounds are numbers, that the special values
(`None`, `Idle`, ...) are different from the data, and that workers and requests
are finite sets.

* `DocumentsProofs`, the queue: all five invariants of `ingest_queue` and the refinement
  `Spec => BoardSpec`. The invariants are inductive together, with one
  strengthening: only jobs whose submission returned are in `accepted`
  (`AcceptedReturned`), without which a job could be accepted twice. The lemmas say
  what a put and a get do to "started, then queued", and that a worker that starts
  or ends a job changes the number of busy workers by one. The refinement proof
  uses the invariant to show that two workers never hold one job, so that ending
  it takes it from `Held`.
* `ServerProofs`: all four invariants of `gateway`, and `ServerSpec => Spec`: whatever starts,
  stops or raises, the RPCs use the limiter as `Gateway` says; and of `Gateway` by itself
  `CountsAreExact` and `LimitsHold`, where the *counts* are within the limits (`Within`) and
  the limits on the requests follow from exactness. Strengthening for the server: what is
  open and which calls there may be in each phase (`Starting`, `Serving`, `Stopping`,
  `Stopped`, `Closed`), that slots belong to calls (`SlotsAreCalls`), and that an open
  provider has one pool (`OnePool`), which is where the order of `StopOrder` enters.
* `TenancyProofs`: all four invariants of `tenancy`. `Isolation` and half of
  `IndexedIsServed` rest on two lemmas about `Scopes`: the filter of a plan that asks for what
  it should is sound and complete for `MayRead` (`FilterIsSound`, `FilterIsComplete`); the
  other half of `Isolation`, for any adapter, on what the two checks compare. Strengthening: a point has
  the vectors of its settings, and they are in the schema of its collection
  (`PointsFit`); who looks or creates holds the lock (`LockHeld`).
* `DocumentsProofs`, the stores: all three invariants of `documents`. Strengthening: an operation that
  nothing overlaps is the only one on its document (`AloneIsAlone`), and what it has
  done is in both stores (`AlonePoints`, `AloneRaw`).
* `VersionManagerProofs`: `AtMostOneActive`, `SettledAgrees` and the action property
  `OnlyExpiredAreDeleted`. Strengthening: what each step of an activation may assume
  about the table (`Progress`): while deactivating, every active version is still
  on the list; before activating, none is active. `Expiring` keeps the ages of what an
  expiry has listed.
* `Tier1CacheProofs`: all three invariants of `tier1_cache`. `RecentIsKept` is not inductive:
  that the least recently used key is the right one to drop needs the order of the store to
  agree with the order of use. The invariant says so (`Follows`), and the proof counts: the
  keys of a full store all come after the one that is dropped. `OnlyLatest` needs the entries
  to be what was set last (`StoreSound`).
* `SearchProofs`, the cache: `Coherent`. Strengthening: what a search has read but not
  stored is as sound as what is stored (`ViewsSound`), and stored entries are of
  this epoch (`EntriesSound`), because an invalidation empties the cache.
* `SearchProofs`, the hybrid search: all three invariants of `hybrid_search`. Here the
  invariant is small (`SearchInv`: a result is what `Finish` makes of the two answers), and
  the work is in what the pipeline computes, for lists of any length. Each operator is
  characterised by a predicate and the next one is shown from that: sorting is the
  enumeration of a strict order and is stable (`SortedBy`), the keys come in the order
  in which a dict saw them (`UnionBy`), a fused score grows with what each retriever says
  of a document, by rank or by scaled score (`FusedAs`), the boost adds to it
  (`BoostedBy`), and the cut leaves the first (`ResultBy`).
* `IngestionProofs`, all four invariants of `ingestion`: `ProcessTypeOK`, `RouteFits`,
  `TextKept` and `ChunksCover`, for every file, policy, set of switches, answer of a server or
  of MarkItDown, and every budget. The invariant (`ProcessInv`) says of each stage what the next
  one relies on: what was loaded was asked for under an allowed scheme, and has left it only by
  a redirect (`Loaded`, `Landed`), the handler is one the policy allows
  (`Routed`), parsing and cleaning leave documents, whose sections have texts, pages and ids of
  their own (`IsDocument`), and the chunks are those of the cleaned sections (`ChunksMade`).
  The lemmas go up from the operators: `ParseIs` and one lemma per handler; `CleanIs`;
  `SlicesAre`, that slices leave out separators only; `PackPacks`, that packing is greedy and
  keeps the units in order; `UnitsAre`, that the units of a document cover it once;
  `RouteIs`, that an honest source goes to the handler of its kind.
* `IngestionProofs`, from the file to the cleaned sections (`ProcessKeepsText`).
  Strengthening: from parsing on, the sections are what a reader sees of the file, and their
  pages are its pages (`SectionsRead`), and what is chunked is those sections, cleaned
  (`SectionsCleaned`). Each handler's code and `Read`, which says what a reader sees, are
  different definitions, brought together format by format (`ParseFaithful`): the depth that
  the HTML handler counts up and down is that of tags opened and not closed, although an end
  tag without a start does not count; the rows in windows over sheets are the first
  rows of the first sheets; the pages of a DOCX, which are numbered by counting breaks, join up
  to its paragraphs; the sections of Markdown join up to its lines but for headings. Removing
  lines is one relation through all of it: `Thin(ys, xs, L)`, `ys` is `xs` without some elements
  of `L`, which goes through picking, mapping and flattening (`ThinPicked`, `ThinMapped`,
  `ThinFlatten`) and composes (`ThinAgain`). Cleaning is then taken step by step (`CleanThin`).
  A line it removes for being repeated is one that the file's pages repeat (`RepeatedLost`,
  from `ParsePages`: no two sections are of one page). A section it drops for being noise
  holds a fragment with a sign that is no letter or digit: letters and digits alone are
  noise, whatever their length, under no bound above 0.285 (`PlainNoise`; 0.285 is 30 * 19
  in the units of `MaxNoise`, and the policy's default is 0.35). The sums in that argument
  are over texts of any length (`Sums`). As in the run, the property is about a
  source that went to the handler of its kind, which `RouteFits` promises of an honest one.
* `GenerateProofs`: `OwnAnswersFresh`. Strengthening: a search or call that is not late holds
  text as fresh as what is stored (`CallsFresh`), and so does an entry of tier 1 that is not
  late (`FoundFresh`), since a hit hands out what is there and an invalidation leaves nothing.

Each proof has the same shape: `Init => IInv`, `IInv /\ [Next]_vars => IInv'` with a
step per action, `IInv => Inv`, and a temporal step.

**Induction over data.** The induction theorems of the library take an operator as
a parameter, which no prover at hand instantiates. Induction over a *set* is within reach:
`NatInductionOnSet` (a set that contains 0 and the successor of each of its numbers contains
`Nat`) follows from the well-foundedness of `<` on `Nat`, and `SeqInductionOnSet` from it for
sequences. A recursive function over a sequence, as in `Joined`, `Pack` or the flattening of
sequences, is brought into one form (`FoldBy`: a fold with its step as a function), of which
existence, type and what one element more adds (`FoldExists`, `FoldTyped`, `FoldAppend`) are
proved once. So what chunking and fusion compute is proved for lists of any length.

**Only model-checked.** All liveness (`AcceptedIsDecided`, `BlockedIsServed`,
`ShutdownReturns`, `StalenessEnds`, `StaleAnswersEnd`, `ActivationSettles`), since the prover
handles neither ENABLED nor liveness under fairness. Every safety property of a passing run is
stated by a theorem.

## 5. Not modelled, and why

* What models compute (embeddings, entities, sparse weights, reranking, the LLM's
  answers), and the rerank function, which `create_app` does not wire.
* What format libraries, Qdrant, SQLite, grpc.aio and S3 do inside. Each is a contract of
  the module that uses it; definitions that stand for such a contract are marked external
  in `PROJECT.json`.
* Strings: signing, paths, prompts, message conversion. Two formats matter and are kept:
  the name of a collection and the identity of a chunk. A point id joins its parts with
  "|" and hashes them, and the model takes it for injective, which ids that contain "|"
  could break.
* `visibility`, which is stored with every chunk and filtered by nothing.
* The job repositories and the raw storage of `ingestion_service`, which the service
  does not construct; `invalidate_project` and `clear_expired` of the tier-2 cache, which
  nothing calls; HealthCheck; metrics except the queue depth.
* Processes beyond one. The lock per collection and the limiter are in memory, so two
  server processes are outside of what `CreationIsExclusive` and `CountsAreExact` say.
* Generated gRPC code, the shims under `retrieval_service/gateway`, `engine`, `versioning`
  and `rag` and under `server/`, which re-export what is modelled, examples and deployment.

## 6. Plan

Every component of section 2 is modelled, and every safety property of a passing run is
proved. What is left, in order of importance:

1. Liveness of the lock per collection and of shutdown: a job that waits for the lock gets it,
   given that every call of Qdrant returns or raises.
2. The settings of retrieval in the keys of the tier-1 cache, in `HybridSearch` and
   `SearchCache` together.
