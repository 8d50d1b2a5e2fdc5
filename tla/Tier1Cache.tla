----------------------------- MODULE Tier1Cache -----------------------------
(***************************************************************************)
(* Tier1MemoryCache: one OrderedDict per project, least recently used      *)
(* first, with a time to live per entry.  No method suspends while it      *)
(* holds the lock, so each is one step.  SearchCache models who calls them *)
(* and when; this module says which entries the cache keeps.               *)
(*                                                                         *)
(* A project without an OrderedDict and one with an empty OrderedDict      *)
(* behave alike and are both the empty sequence.  Time is what an entry    *)
(* has left: -1 once its expiry is in the past.                            *)
(***************************************************************************)
EXTENDS Integers, Sequences, SequencesExt

CONSTANTS
  Project,
  Key,         \* cache keys
  Value,       \* search results
  MaxEntries,  \* capacity of a project's store
  Ttl,         \* lifetime of an entry, in ticks
  None         \* no entry

Entry == [value : Value, left : -1 .. Ttl]

ASSUME Tier1CacheAssumption ==
  /\ MaxEntries \in Nat \ {0}
  /\ Ttl \in Nat
  /\ None \notin Entry

VARIABLES
  order,   \* the keys of each project's store, least recently used first
  entry,   \* the value and the time left of each stored key
  recent,  \* history: the keys set or hit since the last invalidation, latest last
  latest   \* history: what an unbounded store that forgets nothing would hold

vars == <<order, entry, recent, latest>>

Live(e) == e # None /\ e.left >= 0

Empty == [k \in Key |-> None]

Init ==
  /\ order = [p \in Project |-> <<>>]
  /\ entry = [p \in Project |-> Empty]
  /\ recent = [p \in Project |-> <<>>]
  /\ latest = [p \in Project |-> Empty]

MoveToEnd(keys, k) == Append(RemoveFirst(keys, k), k)

Used(p, k) == recent' = [recent EXCEPT ![p] = MoveToEnd(@, k)]

\* Mutant: a hit leaves the key where it is.
HitInPlace(p, k) ==
  /\ Live(entry[p][k])
  /\ Used(p, k)
  /\ UNCHANGED <<order, entry, latest>>

Hit(p, k) ==
  /\ Live(entry[p][k])
  /\ order' = [order EXCEPT ![p] = MoveToEnd(@, k)]
  /\ Used(p, k)
  /\ UNCHANGED <<entry, latest>>

\* get finds an expired entry: it is deleted and nothing is returned.
MissExpired(p, k) ==
  /\ entry[p][k] # None
  /\ ~Live(entry[p][k])
  /\ order' = [order EXCEPT ![p] = RemoveFirst(@, k)]
  /\ entry' = [entry EXCEPT ![p][k] = None]
  /\ UNCHANGED <<recent, latest>>

SetKeeping(p, k, v, kept) ==
  LET new == [value |-> v, left |-> Ttl] IN
  /\ order' = [order EXCEPT ![p] = Append(kept, k)]
  /\ entry' = [entry EXCEPT ![p] =
                 [j \in Key |-> IF j = k THEN new
                                ELSE IF j \in Range(kept) THEN @[j] ELSE None]]
  /\ Used(p, k)
  /\ latest' = [latest EXCEPT ![p][k] = new]

\* Mutant: the capacity is compared after the insert would have been made.
SetOneTooMany(p, k, v) ==
  SetKeeping(p, k, v,
             IF k \in Range(order[p]) THEN RemoveFirst(order[p], k)
             ELSE IF Len(order[p]) > MaxEntries THEN Tail(order[p])
             ELSE order[p])

\* set: an old entry of the key goes first, or else a full store drops the key that
\* was used least recently, expired or not.
Set(p, k, v) ==
  SetKeeping(p, k, v,
             IF k \in Range(order[p]) THEN RemoveFirst(order[p], k)
             ELSE IF Len(order[p]) >= MaxEntries THEN Tail(order[p])
             ELSE order[p])

\* Mutant: the invalidation misses what is stored.
InvalidateNothing(p) ==
  /\ recent' = [recent EXCEPT ![p] = <<>>]
  /\ latest' = [latest EXCEPT ![p] = Empty]
  /\ UNCHANGED <<order, entry>>

\* invalidate_project; invalidate_user does the same for every user.
Invalidate(p) ==
  /\ order' = [order EXCEPT ![p] = <<>>]
  /\ entry' = [entry EXCEPT ![p] = Empty]
  /\ recent' = [recent EXCEPT ![p] = <<>>]
  /\ latest' = [latest EXCEPT ![p] = Empty]

\* The keys of a set, in the order of the store.
Kept(keys, live) ==
  LET kept[n \in 0 .. Len(keys)] ==
        IF n = 0 THEN <<>>
        ELSE IF keys[n] \in live THEN Append(kept[n - 1], keys[n])
        ELSE kept[n - 1]
  IN  kept[Len(keys)]

\* clear_expired goes over the stores of all projects.
ClearExpired ==
  /\ entry' = [p \in Project |-> [k \in Key |->
                 IF Live(entry[p][k]) THEN entry[p][k] ELSE None]]
  /\ order' = [p \in Project |->
                 Kept(order[p], {k \in Key : Live(entry[p][k])})]
  /\ UNCHANGED <<recent, latest>>

Older(e) == IF Live(e) THEN [e EXCEPT !.left = @ - 1] ELSE e

\* The clock goes on by one tick.
Tick ==
  /\ entry' = [p \in Project |-> [k \in Key |-> Older(entry[p][k])]]
  /\ latest' = [p \in Project |-> [k \in Key |-> Older(latest[p][k])]]
  /\ UNCHANGED <<order, recent>>

Next ==
  \/ \E p \in Project :
       \/ \E k \in Key :
            \/ Hit(p, k)
            \/ MissExpired(p, k)
            \/ \E v \in Value : Set(p, k, v)
       \/ Invalidate(p)
  \/ ClearExpired
  \/ Tick

Spec == Init /\ [][Next]_vars

-----------------------------------------------------------------------------
\* The store and its order name the same keys, each once, within the capacity.
TypeOK ==
  /\ entry \in [Project -> [Key -> Entry \cup {None}]]
  /\ latest \in [Project -> [Key -> Entry \cup {None}]]
  /\ \A p \in Project :
       /\ Range(order[p]) = {k \in Key : entry[p][k] # None}
       /\ IsInjective(order[p])
       /\ Len(order[p]) <= MaxEntries
       /\ Range(recent[p]) = {k \in Key : latest[p][k] # None}
       /\ IsInjective(recent[p])

\* A hit returns what was set last, no earlier value, nothing from before an
\* invalidation and nothing older than the time to live, whichever keys were
\* evicted, expired and set again in between.
OnlyLatest ==
  \A p \in Project, k \in Key :
    entry[p][k] # None => entry[p][k] = latest[p][k]

\* What least recently used promises: a key is not lost before MaxEntries other
\* keys of its project were set or hit, its time is up, or the project is
\* invalidated.  What is done to one project takes nothing from another.
LastUsed(p) ==
  {recent[p][i] : i \in {n \in DOMAIN recent[p] : n > Len(recent[p]) - MaxEntries}}

RecentIsKept ==
  \A p \in Project : \A k \in LastUsed(p) :
    Live(latest[p][k]) => entry[p][k] = latest[p][k]
=============================================================================
