------------------------------ MODULE Generate ------------------------------
(***************************************************************************)
(* Generation, the tier-2 response cache and the tier-1 cache it builds    *)
(* on, of one project.  RagEngine.search gives a client chunks, from       *)
(* Qdrant or tier 1; the client sends them to RagEngine.generate, which    *)
(* looks for a stored response, and on a miss asks the LLM, with retries,  *)
(* and stores the answer in SQLite.  An ingest or delete, once done,       *)
(* empties tier 1 and removes the responses of the user it ran for.        *)
(* Tier 1 ends with the process, the rows survive it.                      *)
(*                                                                         *)
(* A context is one chunk: a document and the revision of its text.  The   *)
(* key of a response knows the user and the chunk id; project, question,   *)
(* provider and model are fixed here, they only split the rows further.    *)
(***************************************************************************)
EXTENDS Integers

CONSTANTS
  User,        \* users who ask
  Shared,      \* the user id of the project's shared documents
  Doc,         \* documents: a KB and a document id
  Owner,       \* the user id each document was ingested for
  ChunkId,     \* the chunk id of each document: it does not name the KB
  Query,       \* searches, apart from the user who asks
  Call,        \* clients that may search and generate at once
  Ttl,         \* lifetime of a response, in ticks
  FoundTtl,    \* lifetime of a search result in tier 1, in ticks
  MaxRetries,  \* retries of the LLM request
  MaxRevs,     \* bound on the changes of the index
  None         \* no result, no response, no call in progress

Rev == 0 .. MaxRevs

\* A row of the responses table: the text its response answers, whether that was on
\* its way during an invalidation, and the time it has left.
Response == [doc : Doc, rev : Rev, late : BOOLEAN, left : -1 .. Ttl]

\* A search result in tier 1: the chunk it holds, whether its search was on its way
\* during an invalidation, and the time it has left.
Result == [doc : Doc, rev : Rev, late : BOOLEAN, left : -1 .. FoundTtl]

\* A client's search (at "embed", then "found") and the Generate call that follows it
\* ("ask" and on).  Which document the search finds is settled when it begins.
Request ==
  [user : User, query : Query, doc : Doc, rev : Rev, late : BOOLEAN,
   at : {"embed", "found", "ask", "post", "sleep"}, attempt : 0 .. MaxRetries]

ASSUME GenerateAssumption ==
  /\ Shared \notin User
  /\ Owner \in [Doc -> User \cup {Shared}]
  /\ DOMAIN ChunkId = Doc
  /\ Ttl \in Nat
  /\ FoundTtl \in Nat
  /\ MaxRetries \in Nat
  /\ MaxRevs \in Nat
  /\ None \notin Request \cup Response \cup Result

VARIABLES
  text,       \* Qdrant: the revision of each document's chunk, 0 for none
  revs,       \* how many times the index was changed
  found,      \* tier 1: what the search of each user and query found
  responses,  \* SQLite: what the response of each user and chunk id answers
  call,       \* what each client's search or Generate RPC is at
  pending,    \* documents whose change will be followed by the invalidation
  silent      \* history: documents changed since their owner's last invalidation

vars == <<text, revs, found, responses, call, pending, silent>>

SearchKey == User \X Query
Empty == [k \in SearchKey |-> None]

Key == User \X {ChunkId[d] : d \in Doc}
KeyOf(c) == <<call[c].user, ChunkId[call[c].doc]>>

\* An entry or a row whose expiry has passed is not served.
Live(stored) == stored # None /\ stored.left >= 0

\* The responses are what an earlier process left: here nothing.
Init ==
  /\ text = [d \in Doc |-> 0]
  /\ revs = 0
  /\ found = Empty
  /\ responses = [k \in Key |-> None]
  /\ call = [c \in Call |-> None]
  /\ pending = {}
  /\ silent = {}

At(c, step) == call[c] # None /\ call[c].at = step

EndCall(c) == call' = [call EXCEPT ![c] = None]

\* Tier 1 holds what a search of the user found: the client gets that, however old.
SearchHit(c, u, q) ==
  /\ call[c] = None
  /\ Live(found[<<u, q>>])
  /\ call' = [call EXCEPT ![c] = [user |-> u, query |-> q, doc |-> found[<<u, q>>].doc,
                                  rev |-> found[<<u, q>>].rev,
                                  late |-> found[<<u, q>>].late,
                                  at |-> "ask", attempt |-> 0]]
  /\ UNCHANGED <<text, revs, found, responses, pending, silent>>

\* It does not: an expired entry goes, and the search goes on to embed the query.
SearchMiss(c, u, q, d) ==
  /\ call[c] = None
  /\ ~Live(found[<<u, q>>])
  /\ Owner[d] \in {u, Shared}
  /\ found' = [found EXCEPT ![<<u, q>>] = None]
  /\ call' = [call EXCEPT ![c] = [user |-> u, query |-> q, doc |-> d, rev |-> 0,
                                  late |-> FALSE, at |-> "embed", attempt |-> 0]]
  /\ UNCHANGED <<text, revs, responses, pending, silent>>

\* Qdrant answers with a chunk of a document the user may read.
Find(c) ==
  /\ At(c, "embed")
  /\ text[call[c].doc] > 0
  /\ call' = [call EXCEPT ![c].at = "found", ![c].rev = text[call[c].doc],
                          ![c].late = FALSE]
  /\ UNCHANGED <<text, revs, found, responses, pending, silent>>

\* The search stores what it found and gives it to the client.  A full tier 1 drops
\* another entry (`dropped` is the search's own key when it was not full).
Found(c, dropped) ==
  /\ At(c, "found")
  /\ found' = [found EXCEPT ![dropped] = None,
                            ![<<call[c].user, call[c].query>>] =
                              [doc |-> call[c].doc, rev |-> call[c].rev,
                               late |-> call[c].late, left |-> FoundTtl]]
  /\ call' = [call EXCEPT ![c].at = "ask"]
  /\ UNCHANGED <<text, revs, responses, pending, silent>>

\* generate finds a response under the key of the request.
Hit(c) ==
  /\ At(c, "ask")
  /\ Live(responses[KeyOf(c)])
  /\ EndCall(c)
  /\ UNCHANGED <<text, revs, found, responses, pending, silent>>

\* An expired row is deleted, and the LLM is asked.
Miss(c) ==
  /\ At(c, "ask")
  /\ ~Live(responses[KeyOf(c)])
  /\ responses' = [responses EXCEPT ![KeyOf(c)] = None]
  /\ call' = [call EXCEPT ![c].at = "post"]
  /\ UNCHANGED <<text, revs, found, pending, silent>>

\* 429, 5xx, a network error, a timeout, or an answer that cannot be read: the LLM may
\* well have done its work.  Wait and post again, up to max_retries times.
RetryUpTo(c, most) ==
  /\ At(c, "post")
  /\ call' = [call EXCEPT ![c] =
                IF call[c].attempt < most
                THEN [call[c] EXCEPT !.attempt = call[c].attempt + 1, !.at = "sleep"]
                ELSE None]
  /\ UNCHANGED <<text, revs, found, responses, pending, silent>>

\* Mutant: one retry more than configured.
RetryOneMore(c) == RetryUpTo(c, MaxRetries + 1)

Retry(c) == RetryUpTo(c, MaxRetries)

Wake(c) ==
  /\ At(c, "sleep")
  /\ call' = [call EXCEPT ![c].at = "post"]
  /\ UNCHANGED <<text, revs, found, responses, pending, silent>>

\* The answer is stored and returned, with nothing in between.
AnswerStored(c, lifetime) ==
  /\ At(c, "post")
  /\ responses' = [responses EXCEPT ![KeyOf(c)] =
                     [doc |-> call[c].doc, rev |-> call[c].rev, late |-> call[c].late,
                      left |-> lifetime]]
  /\ EndCall(c)
  /\ UNCHANGED <<text, revs, found, pending, silent>>

Answer(c) == AnswerStored(c, Ttl)

\* The request is refused, no answer can be had or stored, or the RPC is cancelled.
Abort(c) ==
  /\ call[c] # None
  /\ EndCall(c)
  /\ UNCHANGED <<text, revs, found, responses, pending, silent>>

-----------------------------------------------------------------------------
\* Qdrant applies the upsert of an ingest job, or a delete.
Change(d, rev) ==
  /\ revs < MaxRevs
  /\ revs' = revs + 1
  /\ text' = [text EXCEPT ![d] = rev]
  /\ pending' = pending \cup {d}
  /\ silent' = silent \cup {d}
  /\ UNCHANGED <<found, responses, call>>

InvalidateTiers(d, entries, rows) ==
  /\ d \in pending
  /\ pending' = pending \ {d}
  /\ silent' = {e \in silent : Owner[e] # Owner[d]}
  /\ found' = entries
  /\ responses' = rows
  /\ call' = [c \in Call |->
                IF call[c] # None /\ call[c].user = Owner[d]
                THEN [call[c] EXCEPT !.late = TRUE]
                ELSE call[c]]
  /\ UNCHANGED <<text, revs>>

\* The responses other users got from a shared document stay.
Others(d) == [k \in Key |-> IF k[1] = Owner[d] THEN None ELSE responses[k]]

\* Mutant: the responses go and the search results stay.
InvalidateTier2(d) == InvalidateTiers(d, found, Others(d))

\* invalidate_project of tier 1, invalidate_user of tier 2 for the user of the request.
Invalidate(d) == InvalidateTiers(d, Empty, Others(d))

\* The job or the delete fails, or is cancelled, after the index has changed; of the
\* invalidations it is tier 2's that may raise, when tier 1 is already empty.
FailChange(d) ==
  /\ d \in pending
  /\ pending' = pending \ {d}
  /\ found' \in {found, Empty}
  /\ UNCHANGED <<text, revs, responses, call, silent>>

\* The calls, jobs and tier 1 of a process that ends are gone; a client that has not
\* called yet keeps its chunks, and the rows stay.
RestartWith(rows) ==
  /\ pending # {} \/ found # Empty \/ \E c \in Call : call[c] # None
  /\ call' = [c \in Call |-> IF At(c, "ask") THEN call[c] ELSE None]
  /\ pending' = {}
  /\ found' = Empty
  /\ responses' = rows
  /\ UNCHANGED <<text, revs, silent>>

\* Mutant: lifetimes start anew, as with the tier-1 cache's monotonic clock.
RestartRenews ==
  RestartWith([k \in Key |-> IF responses[k] = None THEN None
                              ELSE [responses[k] EXCEPT !.left = Ttl]])

\* The process ends and is started again.
Restart == RestartWith(responses)

Older(stored) == IF Live(stored) THEN [stored EXCEPT !.left = @ - 1] ELSE stored

Tick ==
  /\ \/ \E k \in SearchKey : Live(found[k])
     \/ \E k \in Key : Live(responses[k])
  /\ found' = [k \in SearchKey |-> Older(found[k])]
  /\ responses' = [k \in Key |-> Older(responses[k])]
  /\ UNCHANGED <<text, revs, call, pending, silent>>

Next ==
  \/ \E c \in Call :
       \/ \E u \in User, q \in Query :
            \/ SearchHit(c, u, q)
            \/ \E d \in Doc : SearchMiss(c, u, q, d)
       \/ Find(c)
       \/ \E k \in SearchKey : Found(c, k)
       \/ Hit(c)
       \/ Miss(c)
       \/ Retry(c)
       \/ Wake(c)
       \/ Answer(c)
       \/ Abort(c)
  \/ \E d \in Doc :
       \/ Change(d, 0)
       \/ Change(d, revs + 1)
       \/ Invalidate(d)
       \/ FailChange(d)
  \/ Restart
  \/ Tick

Spec == Init /\ [][Next]_vars

\* Time passes.  Nobody has to finish a call, or to ask.
FairSpec == Spec /\ WF_vars(Tick)

-----------------------------------------------------------------------------
\* Types; among them that no request is posted more than max_retries times again.
TypeOK ==
  /\ text \in [Doc -> Rev]
  /\ revs \in Rev
  /\ found \in [SearchKey -> Result \cup {None}]
  /\ responses \in [Key -> Response \cup {None}]
  /\ call \in [Call -> Request \cup {None}]
  /\ pending \subseteq Doc
  /\ silent \subseteq Doc

\* What is stored for the owner of a document answers the text that is indexed, unless
\* its change has not been followed by an invalidation (not yet, or not ever), or an
\* invalidation came while it was on its way: while the answer was awaited or the client
\* held its chunk, or while the search was between Qdrant and tier 1, also when that was
\* another search whose result tier 1 gave.  Restarts, retries and the responses of
\* other documents under the same key make no difference.
OwnAnswersFresh ==
  \A k \in Key :
    responses[k] # None /\ Owner[responses[k].doc] = k[1] /\ ~responses[k].late =>
      \/ responses[k].rev = text[responses[k].doc]
      \/ responses[k].doc \in silent

\* Answers to what is indexed no more are not served for ever: of a shared document,
\* after a failed job or a restart, and of a search that raced an invalidation, it is
\* the lifetimes of the two tiers, one after the other, that end them.
StaleAnswersEnd ==
  <>[](\A k \in Key :
         Live(responses[k]) => responses[k].rev = text[responses[k].doc])

\* The prompt of generate says: "Answer the question based only on the provided
\* context".  A stored response answers the document the request sends.
AnswersContext ==
  \A c \in Call :
    At(c, "ask") /\ Live(responses[KeyOf(c)]) =>
      responses[KeyOf(c)].doc = call[c].doc
=============================================================================
