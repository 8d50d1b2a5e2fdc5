------------------------------- MODULE Server -------------------------------
(***************************************************************************)
(* The life of the process around the gateway: create_app builds and opens *)
(* the parts one after the other, the gRPC server serves, and the finally  *)
(* of serve_forever shuts the parts down in turn.  RPCs and ingest workers *)
(* use the embedding provider, the LLM client and Qdrant in the meantime.  *)
(*                                                                         *)
(* The embedding provider opens a pool (the executor of the local model,   *)
(* the HTTP client of a remote one) in initialize, and in encode when it   *)
(* finds none; the local one suspends while its model loads.  The limiter  *)
(* is the one of Gateway.  A step of the start or of the shutdown may      *)
(* raise, and nothing after it is done.                                    *)
(*                                                                         *)
(* grpc.aio is external: after stop() no RPC begins, those in progress end *)
(* by themselves or are cancelled when the grace of five seconds is over,  *)
(* and stop() returns when none is left.                                   *)
(***************************************************************************)
EXTENDS Gateway, Settings, Sequences

CONSTANTS
  Worker,     \* the tasks of the ingest queue
  MaxQueued,  \* bound on the scheduled jobs
  Profile, Components, Environ  \* what the three sources of settings may say

ASSUME ServerAssumption ==
  /\ MaxQueued \in Nat
  /\ Worker \cap Request = {}

VARIABLES
  settings,  \* AppSettings, or Invalid
  phase,     \* where the main task is
  at,        \* the next step of the start or of the shutdown
  open,      \* the parts that are open
  pools,     \* executors and HTTP clients of the embedding provider not shut down
  model,     \* the provider can encode: its model is loaded
  call,      \* what each RPC and each worker awaits
  queued     \* scheduled jobs that no worker has taken

mainVars == <<settings, phase, at>>
partVars == <<open, pools, model>>
serverVars == <<vars, mainVars, partVars, call, queued>>

StartOrder == <<"config", "gateway", "embedding", "store", "tier2", "llm", "ner",
                "workers", "server">>

\* Mutant: the provider goes before the workers that encode with it.
StopOrderEarly == <<"server", "embedding", "llm", "workers", "store">>

\* AppContext.shutdown.  bm25_index.close does nothing.
StopOrder == <<"server", "workers", "llm", "embedding", "store">>

Part == {StopOrder[i] : i \in DOMAIN StopOrder}
Phase == {"starting", "failed", "serving", "stopping", "stopped", "broken"}
Call == {"none", "search", "ingest", "loading", "encoding", "storing", "asking"}

Actor == Request \cup Worker
Running == phase \in {"serving", "stopping"}

ServerInit ==
  /\ Init
  /\ \E p \in Profile, c \in Components, e \in Environ :
       settings = LoadSettings(Layered(p, c, e))
  /\ settings # Invalid /\ settings.maxPerUser > 0 => settings.maxPerUser = MaxPerUser
  /\ phase = IF settings = Invalid THEN "failed" ELSE "starting"
  /\ at = 1
  /\ open = {}
  /\ pools = 0
  /\ model = FALSE
  /\ call = [a \in Actor |-> "none"]
  /\ queued = 0

-----------------------------------------------------------------------------
\* create_app.

\* The step raises whatever the world does.
Refuses(step) ==
  \/ step = "gateway" /\ settings.maxPerUser <= 0
  \/ step = "embedding" /\ ~EmbeddingCreated(settings)
  \/ step = "llm" /\ ~GeneratorCreated(settings)

\* Mutant: create_app leaves the provider to its first use.
OpensLazily(step) ==
  IF step \in {"config", "gateway", "embedding", "tier2", "ner"} \/ (step = "llm" /\ ~settings.generation)
  THEN {} ELSE {step}

\* The part that a step leaves open.
Opens(step) ==
  IF step \in {"config", "gateway", "tier2", "ner"} \/ (step = "llm" /\ ~settings.generation)
  THEN {} ELSE {step}

Start ==
  /\ phase = "starting"
  /\ ~Refuses(StartOrder[at])
  /\ open' = open \cup Opens(StartOrder[at])
  /\ pools' = IF "embedding" \in open' \ open THEN pools + 1 ELSE pools
  /\ model' = ("embedding" \in open')
  /\ IF at < Len(StartOrder)
     THEN at' = at + 1 /\ UNCHANGED phase
     ELSE at' = 1 /\ phase' = "serving"
  /\ UNCHANGED <<vars, settings, call, queued>>

\* A database, a model, a port or a setting is no good: create_app raises outside of
\* the try of serve_forever, and what is open stays so.  The executor that was to load
\* the model is one of these.
StartFails ==
  /\ phase = "starting"
  /\ phase' = "failed"
  /\ LET abandoned == StartOrder[at] = "embedding" /\ settings.embedding \in LocalEmbedding
     IN  /\ pools' = IF abandoned THEN pools + 1 ELSE pools
         /\ open' = IF abandoned THEN open \cup {"embedding"} ELSE open
  /\ UNCHANGED <<vars, settings, at, model, call, queued>>

-----------------------------------------------------------------------------
\* RPCs.

\* Search or Ingest: the gateway holds a slot while the adapter prepares the plan.
Arrive(r, p, u) ==
  /\ "server" \in open
  /\ phase = "serving"
  /\ call[r] = "none"
  /\ Acquire(r, p, u)
  /\ \E kind \in {"search", "ingest"} : call' = [call EXCEPT ![r] = kind]
  /\ UNCHANGED <<mainVars, partVars, queued>>

Refuse(r, p, u) ==
  /\ phase = "serving"
  /\ call[r] = "none"
  /\ Reject(r, p, u)
  /\ UNCHANGED <<mainVars, partVars, call, queued>>

\* encode and encode_batch: use the pool, or open one first.
Encode(a) ==
  IF "embedding" \in open /\ model
  THEN /\ call' = [call EXCEPT ![a] = "encoding"]
       /\ UNCHANGED partVars
  ELSE /\ open' = open \cup {"embedding"}
       /\ pools' = pools + 1
       /\ model' = (model \/ settings.embedding \notin LocalEmbedding)
       /\ call' = [call EXCEPT ![a] = IF model' THEN "encoding" ELSE "loading"]

\* The plan of a search is ready: the engine encodes the query, or goes straight to
\* the collection in bm25 mode, or answers from its cache.
PreparedSearch(r) ==
  /\ Running
  /\ call[r] = "search"
  /\ Release(r)
  /\ \/ Encode(r)
     \/ \E next \in {"storing", "none"} :
          call' = [call EXCEPT ![r] = next] /\ UNCHANGED partVars
  /\ UNCHANGED <<mainVars, queued>>

\* The plan of an ingestion is ready: schedule_ingest queues it and the RPC returns.
PreparedIngest(r) ==
  /\ Running
  /\ call[r] = "ingest"
  /\ queued < MaxQueued
  /\ Release(r)
  /\ queued' = queued + 1
  /\ call' = [call EXCEPT ![r] = "none"]
  /\ UNCHANGED <<mainVars, partVars>>

\* Generate, on a cache miss: the client opens itself when it is closed.
Generate(r) ==
  /\ phase = "serving"
  /\ "server" \in open
  /\ call[r] = "none"
  /\ settings.generation
  /\ open' = open \cup {"llm"}
  /\ call' = [call EXCEPT ![r] = "asking"]
  /\ UNCHANGED <<vars, mainVars, pools, model, queued>>

-----------------------------------------------------------------------------
\* Ingest jobs, and the answers all of them wait for.

\* A worker takes a job and finds the collection of its plan; it encodes afterwards.
Take(w) ==
  /\ Running
  /\ "workers" \in open
  /\ call[w] = "none"
  /\ queued > 0
  /\ queued' = queued - 1
  /\ \/ Encode(w)
     \/ call' = [call EXCEPT ![w] = "storing"] /\ UNCHANGED partVars
  /\ UNCHANGED <<vars, mainVars>>

\* What the caller awaits is done: the model is loaded and the text goes to the pool,
\* or the vectors are there and the collection is next.
Resumes(a) ==
  /\ Running
  /\ call[a] \in {"loading", "encoding"}
  /\ model' = (model \/ call[a] = "loading")
  /\ call' = [call EXCEPT ![a] = IF @ = "loading" THEN "encoding" ELSE "storing"]
  /\ UNCHANGED <<vars, mainVars, open, pools, queued>>

\* Qdrant or the LLM answers, or whatever is awaited raises, or the caller is gone:
\* the RPC ends, or the worker waits for its next job.
Ends(a) ==
  /\ Running
  /\ call[a] \in {"loading", "encoding", "storing", "asking"}
  /\ call' = [call EXCEPT ![a] = "none"]
  /\ UNCHANGED <<vars, mainVars, partVars, queued>>

\* The adapter raises, or the RPC is cancelled, while it holds its slots.
Abandon(r) ==
  /\ Running
  /\ call[r] \in {"search", "ingest"}
  /\ Release(r)
  /\ call' = [call EXCEPT ![r] = "none"]
  /\ UNCHANGED <<mainVars, partVars, queued>>

-----------------------------------------------------------------------------
\* serve_forever: the wait ends, in the end by the cancellation of the main task.

\* server.stop(grace=5) begins: no RPC arrives any more.
BeginStop ==
  /\ phase = "serving"
  /\ phase' = "stopping"
  /\ open' = open \ {"server"}
  /\ UNCHANGED <<vars, settings, at, pools, model, call, queued>>

\* What the shutdown of a part waits for.
Quiet(part) == part = "server" => \A r \in Request : call[r] = "none"

\* The shutdown of one part is done.  Workers are cancelled in whatever they await,
\* and the provider waits for the threads of the pool it has.
Stop ==
  LET part == StopOrder[at]
  IN  /\ phase = "stopping"
      /\ Quiet(part)
      /\ open' = open \ {part}
      /\ pools' = IF part = "embedding" /\ part \in open THEN pools - 1 ELSE pools
      /\ model' = (model /\ part # "embedding")
      /\ call' = IF part = "workers"
                 THEN [a \in Actor |-> IF a \in Worker THEN "none" ELSE call[a]]
                 ELSE call
      /\ IF at < Len(StopOrder)
         THEN at' = at + 1 /\ UNCHANGED phase
         ELSE phase' = "stopped" /\ UNCHANGED at
      /\ UNCHANGED <<vars, settings, queued>>

\* The shutdown of a part raises, or a second interrupt does.  asyncio.run cancels what
\* is left and the process ends.
StopFails ==
  /\ phase = "stopping"
  /\ phase' = "broken"
  /\ UNCHANGED <<vars, settings, at, partVars, call, queued>>

ServerNext ==
  \/ Start \/ StartFails
  \/ BeginStop \/ Stop \/ StopFails
  \/ \E r \in Request :
       \/ \E p \in Project, u \in User : Arrive(r, p, u) \/ Refuse(r, p, u)
       \/ PreparedSearch(r) \/ PreparedIngest(r) \/ Abandon(r) \/ Generate(r)
  \/ \E w \in Worker : Take(w)
  \/ \E a \in Actor : Resumes(a) \/ Ends(a)

ServerSpec == ServerInit /\ [][ServerNext]_serverVars

-----------------------------------------------------------------------------
\* Type invariant.  Neither the slots of the limiter nor the pools fall below none, and
\* only settings that load_settings accepts are started with.
ServerTypeOK ==
  /\ TypeOK
  /\ settings = Invalid => phase = "failed"
  /\ phase \in Phase
  /\ at \in 1..Len(StartOrder)
  /\ open \subseteq Part
  /\ pools \in Nat
  /\ model \in BOOLEAN
  /\ call \in [Actor -> Call]
  /\ queued \in 0..MaxQueued

\* Whoever waits for vectors, for Qdrant or for the LLM waits for a part that is open:
\* the order of AppContext.shutdown never closes a part that a search, a generation or
\* an ingest job is in, whatever arrives, ends or is cancelled meanwhile.
UsedPartsAreOpen ==
  Running => \A a \in Actor :
    /\ call[a] = "encoding" => "embedding" \in open /\ model
    /\ call[a] = "storing" => "store" \in open
    /\ call[a] = "asking" => "llm" \in open

\* A part that was shut down is not opened again by a late caller, and nothing is left
\* after a whole shutdown: no call, no slot, no executor of a model that was loaded
\* twice.  After a shutdown that raised, the parts before the one that raised are closed.
StoppedLeavesNothing ==
  /\ phase \in {"stopping", "broken"} =>
       \A i \in 1..(at - 1) : StopOrder[i] \notin open
  /\ phase = "stopped" =>
       /\ open = {} /\ pools = 0
       /\ \A a \in Actor : call[a] = "none"
       /\ \A p \in Project : projectCount[p] = 0
=============================================================================
