---------------------------- MODULE SearchCache ----------------------------
(***************************************************************************)
(* The retrieval cache of one project against the index it caches.         *)
(* RagEngine.search looks in the tier-1 cache, and on a miss embeds the    *)
(* query, asks Qdrant and stores what came back; ingest jobs and           *)
(* delete_document change the index and invalidate the project's entries   *)
(* afterwards.  Nothing orders a search's store after the invalidations    *)
(* that came while it was waiting for Qdrant.                              *)
(*                                                                         *)
(* The index is a version number per document (0: no points).  Every       *)
(* search sees every document, the strongest demand on the cache.  Which   *)
(* other entry a full cache drops is left open here: Tier1Cache says it.   *)
(* Cached values carry two marks no code has: the number of announced      *)
(* writes when Qdrant was read and when the entry was stored.              *)
(***************************************************************************)
EXTENDS Integers, FiniteSets

CONSTANTS
  Doc,        \* documents of the project
  Key,        \* cache keys: distinct search requests
  Reader,     \* Search RPCs that may run at once
  Writer,     \* ingest workers and delete calls that may run at once
  Ttl,        \* lifetime of an entry, in ticks
  MaxWrites,  \* bound on the writes Qdrant applies
  None        \* no entry, no request in progress

\* The state of a writer.
Write == [at : {"sent", "applied", "stray"}, doc : Doc, kind : {"ingest", "delete"}]

ASSUME SearchCacheAssumption ==
  /\ Ttl \in Nat
  /\ MaxWrites \in Nat
  /\ None \notin Write

VARIABLES
  index,   \* Qdrant: the version of each document's points
  writes,  \* Qdrant: how many writes it has applied
  cache,   \* tier 1: the entry of each key
  reader,  \* what each Search RPC is at
  writer,  \* what each writer is at
  epoch,   \* how many writes were announced by an invalidation
  silent   \* documents written since the last invalidation by calls that failed

vars == <<index, writes, cache, reader, writer, epoch, silent>>

Version == 0 .. MaxWrites
View == [index : [Doc -> Version], epoch : Nat]
Entry == [view : View, filled : Nat, left : -1 .. Ttl]

\* An entry whose expiry has passed is still in the store and is not served.
Live(entry) == entry # None /\ entry.left >= 0

Init ==
  /\ index = [d \in Doc |-> 0]
  /\ writes = 0
  /\ cache = [k \in Key |-> None]
  /\ reader = [r \in Reader |-> None]
  /\ writer = [w \in Writer |-> None]
  /\ epoch = 0
  /\ silent = {}

-----------------------------------------------------------------------------
(* Searches.                                                               *)

\* Mutant: a hit renews the entry's lifetime.
HitRenews(r, k) ==
  /\ reader[r] = None
  /\ Live(cache[k])
  /\ cache' = [cache EXCEPT ![k].left = Ttl]
  /\ UNCHANGED <<index, writes, reader, writer, epoch, silent>>

\* A live entry is returned at once.
Hit(r, k) ==
  /\ reader[r] = None
  /\ Live(cache[k])
  /\ UNCHANGED vars

\* A miss removes an expired entry, and the search goes on to embed the query.
Miss(r, k) ==
  /\ reader[r] = None
  /\ ~Live(cache[k])
  /\ cache' = [cache EXCEPT ![k] = None]
  /\ reader' = [reader EXCEPT ![r] = [key |-> k, view |-> None]]
  /\ UNCHANGED <<index, writes, writer, epoch, silent>>

\* Qdrant answers the query from the index as it is now.
ReadIndex(r) ==
  /\ reader[r] # None
  /\ reader[r].view = None
  /\ reader' = [reader EXCEPT ![r].view = [index |-> index, epoch |-> epoch]]
  /\ UNCHANGED <<index, writes, cache, writer, epoch, silent>>

StoreFor(r, dropped, lifetime) ==
  /\ reader[r] # None
  /\ reader[r].view # None
  /\ cache' = [cache EXCEPT ![dropped] = None,
                            ![reader[r].key] = [view |-> reader[r].view,
                                                filled |-> epoch,
                                                left |-> lifetime]]
  /\ reader' = [reader EXCEPT ![r] = None]
  /\ UNCHANGED <<index, writes, writer, epoch, silent>>

\* Mutant: an entry that outlives its time to live.
StoreTooLong(r, dropped) == StoreFor(r, dropped, Ttl + 1)

\* The search resumes with Qdrant's answer: rerank, store, return.  A full cache
\* drops one other key (`dropped` is the key itself when it was not full).
Store(r, dropped) == StoreFor(r, dropped, Ttl)

\* The embedding, Qdrant or the reranker raises, or the RPC is cancelled.
AbortSearch(r) ==
  /\ reader[r] # None
  /\ reader' = [reader EXCEPT ![r] = None]
  /\ UNCHANGED <<index, writes, cache, writer, epoch, silent>>

\* A tick of the clock.
Tick ==
  /\ \E k \in Key : Live(cache[k])
  /\ cache' = [k \in Key |->
                 IF Live(cache[k])
                 THEN [cache[k] EXCEPT !.left = @ - 1]
                 ELSE cache[k]]
  /\ UNCHANGED <<index, writes, reader, writer, epoch, silent>>

-----------------------------------------------------------------------------
(* Writes.                                                                 *)

\* The upsert of an ingest job or the delete of a document is on its way.
Send(w, d, kind) ==
  /\ writer[w] = None
  /\ writes < MaxWrites
  /\ writer' = [writer EXCEPT ![w] = [at |-> "sent", doc |-> d, kind |-> kind]]
  /\ UNCHANGED <<index, writes, cache, reader, epoch, silent>>

\* Qdrant's part of a write.
ApplyWrite(w) ==
  /\ writes < MaxWrites
  /\ writes' = writes + 1
  /\ index' = [index EXCEPT ![writer[w].doc] =
                 IF writer[w].kind = "ingest" THEN writes + 1 ELSE 0]

Apply(w) ==
  /\ writer[w] # None
  /\ writer[w].at = "sent"
  /\ ApplyWrite(w)
  /\ writer' = [writer EXCEPT ![w].at = "applied"]
  /\ UNCHANGED <<cache, reader, epoch, silent>>

\* Mutant: the invalidation does not reach the cache.
InvalidateNothing(w) ==
  /\ writer[w] # None
  /\ writer[w].at = "applied"
  /\ epoch' = epoch + 1
  /\ silent' = {}
  /\ writer' = [writer EXCEPT ![w] = None]
  /\ UNCHANGED <<index, writes, cache, reader>>

\* Qdrant's answer arrives: the job becomes COMPLETED, or the raw object is
\* deleted, and the project's entries go.  Nothing suspends in between.
Invalidate(w) ==
  /\ writer[w] # None
  /\ writer[w].at = "applied"
  /\ cache' = [k \in Key |-> None]
  /\ epoch' = epoch + 1
  /\ silent' = {}
  /\ writer' = [writer EXCEPT ![w] = None]
  /\ UNCHANGED <<index, writes, reader>>

\* The call fails after Qdrant applied the write: the answer is lost, or the raw
\* object cannot be deleted.  The caller gets an error, the cache nothing.
FailApplied(w) ==
  /\ writer[w] # None
  /\ writer[w].at = "applied"
  /\ silent' = silent \cup {writer[w].doc}
  /\ writer' = [writer EXCEPT ![w] = None]
  /\ UNCHANGED <<index, writes, cache, reader, epoch>>

\* The call fails while the request is on its way; the request may survive it.
FailSent(w) ==
  /\ writer[w] # None
  /\ writer[w].at = "sent"
  /\ \/ writer' = [writer EXCEPT ![w] = None]
     \/ writer' = [writer EXCEPT ![w].at = "stray"]
  /\ UNCHANGED <<index, writes, cache, reader, epoch, silent>>

\* Qdrant applies a request whose caller has given up.
ApplyStray(w) ==
  /\ writer[w] # None
  /\ writer[w].at = "stray"
  /\ ApplyWrite(w)
  /\ silent' = silent \cup {writer[w].doc}
  /\ writer' = [writer EXCEPT ![w] = None]
  /\ UNCHANGED <<cache, reader, epoch>>

\* ... or never does.
DropStray(w) ==
  /\ writer[w] # None
  /\ writer[w].at = "stray"
  /\ writer' = [writer EXCEPT ![w] = None]
  /\ UNCHANGED <<index, writes, cache, reader, epoch, silent>>

-----------------------------------------------------------------------------
Next ==
  \/ \E r \in Reader :
       \/ \E k \in Key : Hit(r, k) \/ Miss(r, k) \/ Store(r, k)
       \/ ReadIndex(r)
       \/ AbortSearch(r)
  \/ Tick
  \/ \E w \in Writer :
       \/ \E d \in Doc : Send(w, d, "ingest") \/ Send(w, d, "delete")
       \/ Apply(w)
       \/ Invalidate(w)
       \/ FailApplied(w)
       \/ FailSent(w)
       \/ ApplyStray(w)
       \/ DropStray(w)

\* Time passes, a search in progress ends, and so does a write.
Fairness ==
  /\ WF_vars(Tick)
  /\ \A r \in Reader :
       /\ WF_vars(ReadIndex(r) \/ AbortSearch(r))
       /\ WF_vars(AbortSearch(r) \/ \E k \in Key : Store(r, k))
  /\ \A w \in Writer :
       /\ WF_vars(Apply(w) \/ FailSent(w))
       /\ WF_vars(Invalidate(w) \/ FailApplied(w))
       /\ WF_vars(ApplyStray(w) \/ DropStray(w))

Spec == Init /\ [][Next]_vars

FairSpec == Spec /\ Fairness

-----------------------------------------------------------------------------
Request == [key : Key, view : View \cup {None}]

TypeOK ==
  /\ index \in [Doc -> Version]
  /\ writes \in Version
  /\ cache \in [Key -> Entry \cup {None}]
  /\ reader \in [Reader -> Request \cup {None}]
  /\ writer \in [Writer -> Write \cup {None}]
  /\ epoch \in Nat
  /\ silent \subseteq Doc

\* Documents the index has changed for without (yet) an invalidation.
Unannounced ==
  silent \cup {writer[w].doc : w \in {v \in Writer : /\ writer[v] # None
                                                     /\ writer[v].at = "applied"}}

Current(view) == \A d \in Doc : view.index[d] = index[d] \/ d \in Unannounced

Raced(entry) == entry.view.epoch < entry.filled

\* A cached result is out of date in two cases only: the write has not been
\* announced (it is in progress, or its call failed after Qdrant applied it), or the
\* search that stored the result read the index before an invalidation and stored
\* after it.
Coherent ==
  \A k \in Key : cache[k] # None => Raced(cache[k]) \/ Current(cache[k].view)

\* Out-of-date results do not last: once the index no longer changes, and whatever
\* was missed by an invalidation, hits give the index's content for good.  Hits do
\* not renew an entry, so its lifetime bounds it.
StalenessEnds ==
  <>[](\A k \in Key : Live(cache[k]) => cache[k].view.index = index)
=============================================================================
