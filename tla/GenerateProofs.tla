--------------------------- MODULE GenerateProofs ---------------------------
(***************************************************************************)
(* What the tier-2 cache stores for the owner of a document is not out of  *)
(* date without a reason, for any number of users, documents and calls.    *)
(***************************************************************************)
EXTENDS Generate, TLAPS

\* What a call in progress would store, in either tier, is as fresh as what is stored.
CallsFresh ==
  \A c \in Call :
    /\ call[c] # None
    /\ call[c].at # "embed"
    /\ Owner[call[c].doc] = call[c].user
    /\ ~call[c].late
    => call[c].rev = text[call[c].doc] \/ call[c].doc \in silent

\* So is what tier 1 gives to the searches that come after.
FoundFresh ==
  \A k \in SearchKey :
    found[k] # None /\ Owner[found[k].doc] = k[1] /\ ~found[k].late =>
      found[k].rev = text[found[k].doc] \/ found[k].doc \in silent

\* The inductive invariant.  What a call has read is what it may store, and what tier 1
\* holds is what a call may be given: without CallsFresh and FoundFresh an answer could
\* bring back a revision that is gone.
GenerateInv == TypeOK /\ CallsFresh /\ FoundFresh /\ OwnAnswersFresh

\* Nothing is stored and nobody calls at the start.
LEMMA GenerateInit == Init => GenerateInv
BY GenerateAssumption
   DEF Init, Empty, GenerateInv, TypeOK, CallsFresh, FoundFresh, OwnAnswersFresh, Rev,
       GenerateAssumption

\* A call that exists is a record, with a key of its own in the table.
LEMMA CallIsRequest ==
  ASSUME TypeOK, NEW c \in Call, call[c] # None
  PROVE  call[c] \in Request /\ KeyOf(c) \in Key
BY DEF TypeOK, KeyOf, Key, Request

\* So is a result that exists; time leaves it one.
LEMMA FoundIsResult ==
  ASSUME TypeOK, NEW k \in SearchKey, found[k] # None
  PROVE  found[k] \in Result
BY DEF TypeOK

\* Time changes nothing but what is left.
LEMMA OlderIsStored ==
  ASSUME NEW Most \in Nat, NEW stored, stored # None,
         stored \in [doc : Doc, rev : Rev, late : BOOLEAN, left : -1 .. Most]
  PROVE  /\ Older(stored) \in [doc : Doc, rev : Rev, late : BOOLEAN, left : -1 .. Most]
         /\ Older(stored).doc = stored.doc
         /\ Older(stored).rev = stored.rev
         /\ Older(stored).late = stored.late
BY DEF Older, Live

\* Nothing stays nothing.
LEMMA OlderNone == Older(None) = None
BY DEF Older, Live

\* Every step keeps the types: an attempt beyond the last is never made.
LEMMA TypeNext == TypeOK /\ [Next]_vars => TypeOK'
<1> SUFFICES ASSUME TypeOK, [Next]_vars PROVE TypeOK'
  OBVIOUS
<1> USE GenerateAssumption DEF GenerateAssumption, TypeOK, Rev
<1>1. ASSUME NEW c \in Call, NEW u \in User, NEW q \in Query, SearchHit(c, u, q)
      PROVE  TypeOK'
  <2>1. <<u, q>> \in SearchKey
    BY DEF SearchKey
  <2>2. found[<<u, q>>] \in Result
    BY <1>1, <2>1, FoundIsResult DEF SearchHit, Live
  <2>3. call' \in [Call -> Request \cup {None}]
    BY <1>1, <2>2 DEF SearchHit, Request, Result
  <2> QED
    BY <1>1, <2>3 DEF SearchHit
<1>13. ASSUME NEW c \in Call, NEW u \in User, NEW q \in Query, NEW d \in Doc,
              SearchMiss(c, u, q, d)
       PROVE  TypeOK'
  <2>1. call' \in [Call -> Request \cup {None}]
    BY <1>13 DEF SearchMiss, Request
  <2>2. found' \in [SearchKey -> Result \cup {None}]
    BY <1>13 DEF SearchMiss
  <2> QED
    BY <1>13, <2>1, <2>2 DEF SearchMiss
<1>14. ASSUME NEW c \in Call, Find(c) PROVE TypeOK'
  <2>1. call[c] \in Request
    BY <1>14, CallIsRequest DEF Find, At
  <2>2. call' \in [Call -> Request \cup {None}]
    BY <1>14, <2>1 DEF Find, Request
  <2> QED
    BY <1>14, <2>2 DEF Find
<1>15. ASSUME NEW c \in Call, NEW k \in SearchKey, Found(c, k) PROVE TypeOK'
  <2>1. call[c] \in Request
    BY <1>15, CallIsRequest DEF Found, At
  <2>2. [doc |-> call[c].doc, rev |-> call[c].rev, late |-> call[c].late,
         left |-> FoundTtl] \in Result
    BY <2>1 DEF Request, Result
  <2>3. found' \in [SearchKey -> Result \cup {None}]
    BY <1>15, <2>2 DEF Found
  <2>4. call' \in [Call -> Request \cup {None}]
    BY <1>15, <2>1 DEF Found, Request
  <2> QED
    BY <1>15, <2>3, <2>4 DEF Found
<1>2. ASSUME NEW c \in Call, Hit(c) \/ Abort(c) PROVE TypeOK'
  BY <1>2 DEF Hit, Abort, EndCall
<1>3. ASSUME NEW c \in Call, Miss(c) PROVE TypeOK'
  BY <1>3, CallIsRequest DEF Miss, At, Request
<1>4. ASSUME NEW c \in Call, Retry(c) PROVE TypeOK'
  <2>1. call[c] \in Request
    BY <1>4, CallIsRequest DEF Retry, RetryUpTo, At
  <2>2. call[c].attempt < MaxRetries => call[c].attempt + 1 \in 0 .. MaxRetries
    BY <2>1 DEF Request
  <2>3. call' \in [Call -> Request \cup {None}]
    BY <1>4, <2>1, <2>2 DEF Retry, RetryUpTo, Request
  <2> QED
    BY <1>4, <2>3 DEF Retry, RetryUpTo
<1>5. ASSUME NEW c \in Call, Wake(c) PROVE TypeOK'
  BY <1>5, CallIsRequest DEF Wake, At, Request
<1>6. ASSUME NEW c \in Call, Answer(c) PROVE TypeOK'
  <2>1. call[c] \in Request
    BY <1>6, CallIsRequest DEF Answer, AnswerStored, At
  <2>2. [doc |-> call[c].doc, rev |-> call[c].rev, late |-> call[c].late, left |-> Ttl]
          \in Response
    BY <2>1 DEF Request, Response
  <2> QED
    BY <1>6, <2>2 DEF Answer, AnswerStored, EndCall
<1>7. ASSUME NEW d \in Doc, NEW rev \in {0, revs + 1}, Change(d, rev) PROVE TypeOK'
  BY <1>7 DEF Change
<1>8. ASSUME NEW d \in Doc, Invalidate(d) PROVE TypeOK'
  <2>1. ASSUME NEW c \in Call, call[c] # None
        PROVE  [call[c] EXCEPT !.late = TRUE] \in Request
    BY <2>1, CallIsRequest DEF Request
  <2>2. call' \in [Call -> Request \cup {None}]
    BY <1>8, <2>1 DEF Invalidate, InvalidateTiers
  <2>3. responses' \in [Key -> Response \cup {None}]
    BY <1>8 DEF Invalidate, InvalidateTiers, Others
  <2> QED
    BY <1>8, <2>2, <2>3 DEF Invalidate, InvalidateTiers, Empty
<1>9. ASSUME NEW d \in Doc, FailChange(d) PROVE TypeOK'
  BY <1>9 DEF FailChange, Empty
<1>10. CASE Restart
  BY <1>10 DEF Restart, RestartWith, Empty
<1>11. CASE Tick
  <2>1. ASSUME NEW k \in Key PROVE Older(responses[k]) \in Response \cup {None}
    <3>1. CASE responses[k] = None
      BY <3>1, OlderNone
    <3>2. CASE responses[k] # None
      BY <3>2, OlderIsStored DEF Response
    <3> QED
      BY <3>1, <3>2
  <2>2. ASSUME NEW k \in SearchKey PROVE Older(found[k]) \in Result \cup {None}
    <3>1. CASE found[k] = None
      BY <3>1, OlderNone
    <3>2. CASE found[k] # None
      BY <3>2, OlderIsStored DEF Result
    <3> QED
      BY <3>1, <3>2
  <2> QED
    BY <1>11, <2>1, <2>2 DEF Tick
<1>12. CASE UNCHANGED vars
  BY <1>12 DEF vars
<1> QED
  BY <1>1, <1>2, <1>3, <1>4, <1>5, <1>6, <1>7, <1>8, <1>9, <1>10, <1>11, <1>12,
     <1>13, <1>14, <1>15 DEF Next

\* A step that changes no text and announces nothing keeps calls fresh if it only goes
\* on with them or ends them, once they have read Qdrant.
LEMMA CallsKept ==
  ASSUME CallsFresh, UNCHANGED <<text, silent>>,
         \A c \in Call :
           call'[c] = None \/ (/\ call[c] # None
                              /\ call[c].at # "embed"
                              /\ call'[c].user = call[c].user
                              /\ call'[c].doc = call[c].doc
                              /\ call'[c].rev = call[c].rev
                              /\ call'[c].late = call[c].late)
  PROVE  CallsFresh'
BY DEF CallsFresh

\* It keeps tier 1 fresh if it only removes results or lets time pass.
LEMMA FoundKept ==
  ASSUME FoundFresh, UNCHANGED <<text, silent>>,
         \A k \in SearchKey :
           found'[k] = None \/ (/\ found[k] # None
                               /\ found'[k].doc = found[k].doc
                               /\ found'[k].rev = found[k].rev
                               /\ found'[k].late = found[k].late)
  PROVE  FoundFresh'
BY DEF FoundFresh

\* A step that changes no text and announces nothing keeps responses fresh if it only
\* removes some or lets time pass.
LEMMA ResponsesKept ==
  ASSUME OwnAnswersFresh, UNCHANGED <<text, silent>>,
         \A k \in Key :
           responses'[k] = None \/ (/\ responses[k] # None
                                   /\ responses'[k].doc = responses[k].doc
                                   /\ responses'[k].rev = responses[k].rev
                                   /\ responses'[k].late = responses[k].late)
  PROVE  OwnAnswersFresh'
BY DEF OwnAnswersFresh

\* Every step keeps the calls fresh.
LEMMA CallsNext == GenerateInv /\ [Next]_vars => CallsFresh'
<1> SUFFICES ASSUME GenerateInv, [Next]_vars PROVE CallsFresh'
  OBVIOUS
<1> USE GenerateAssumption DEF GenerateAssumption
<1>t. TypeOK /\ CallsFresh /\ FoundFresh
  BY DEF GenerateInv
<1>1. ASSUME NEW c \in Call, NEW u \in User, NEW q \in Query, SearchHit(c, u, q)
      PROVE  CallsFresh'
  <2>1. <<u, q>> \in SearchKey /\ <<u, q>>[1] = u
    BY DEF SearchKey
  <2>2. found[<<u, q>>] # None
    BY <1>1 DEF SearchHit, Live
  <2> QED
    BY <1>1, <1>t, <2>1, <2>2 DEF SearchHit, CallsFresh, FoundFresh, TypeOK
<1>2. ASSUME NEW c \in Call, NEW u \in User, NEW q \in Query, NEW d \in Doc,
             SearchMiss(c, u, q, d)
      PROVE  CallsFresh'
  BY <1>2, <1>t DEF SearchMiss, CallsFresh, TypeOK
<1>3. ASSUME NEW c \in Call, Find(c) PROVE CallsFresh'
  <2>1. call[c] \in Request /\ call[c] # None
    BY <1>3, <1>t, CallIsRequest DEF Find, At
  <2>2. call'[c].rev = text'[call'[c].doc]
    BY <1>3, <1>t, <2>1 DEF Find, TypeOK, Request
  <2>3. \A b \in Call : b # c => call'[b] = call[b]
    BY <1>3, <1>t DEF Find, TypeOK
  <2>4. UNCHANGED <<text, silent>>
    BY <1>3 DEF Find
  <2> QED
    BY <1>t, <2>2, <2>3, <2>4 DEF CallsFresh
<1>4. ASSUME NEW c \in Call, NEW k \in SearchKey, Found(c, k) PROVE CallsFresh'
  <2>1. call[c] \in Request /\ call[c] # None /\ call[c].at = "found"
    BY <1>4, <1>t, CallIsRequest DEF Found, At
  <2> QED
    BY <1>4, <1>t, <2>1 DEF Found, CallsFresh, TypeOK, Request
<1>5. ASSUME NEW c \in Call,
             Hit(c) \/ Miss(c) \/ Retry(c) \/ Wake(c) \/ Answer(c) \/ Abort(c)
      PROVE  CallsFresh'
  <2>1. UNCHANGED <<text, silent>>
    BY <1>5 DEF Hit, Miss, Retry, RetryUpTo, Wake, Answer, AnswerStored, Abort
  <2>2. \A b \in Call : b # c => call'[b] = call[b]
    BY <1>5, <1>t
       DEF Hit, Miss, Retry, RetryUpTo, Wake, Answer, AnswerStored, Abort, EndCall, TypeOK
  <2>3. CASE Hit(c) \/ Answer(c) \/ Abort(c)
    <3>1. call'[c] = None
      BY <1>t, <2>3 DEF Hit, Answer, AnswerStored, Abort, EndCall, TypeOK
    <3> QED
      BY <1>t, <2>1, <2>2, <3>1 DEF CallsFresh
  <2>4. CASE Miss(c) \/ Retry(c) \/ Wake(c)
    <3>1. call[c] \in Request /\ call[c] # None /\ call[c].at # "embed"
      BY <1>t, <2>4, CallIsRequest DEF Miss, Retry, RetryUpTo, Wake, At
    <3>2. call'[c] = None \/ (/\ call'[c].user = call[c].user
                             /\ call'[c].doc = call[c].doc
                             /\ call'[c].rev = call[c].rev
                             /\ call'[c].late = call[c].late)
      <4>1. CASE Miss(c)
        BY <1>t, <3>1, <4>1 DEF Miss, TypeOK, Request
      <4>2. CASE Retry(c)
        BY <1>t, <3>1, <4>2 DEF Retry, RetryUpTo, TypeOK, Request
      <4>3. CASE Wake(c)
        BY <1>t, <3>1, <4>3 DEF Wake, TypeOK, Request
      <4> QED
        BY <2>4, <4>1, <4>2, <4>3
    <3> QED
      BY <1>t, <2>1, <2>2, <3>1, <3>2 DEF CallsFresh
  <2> QED
    BY <1>5, <2>3, <2>4
<1>6. ASSUME NEW d \in Doc, NEW rev, Change(d, rev) PROVE CallsFresh'
  <2>1. /\ UNCHANGED call
        /\ silent' = silent \cup {d}
        /\ \A e \in Doc : e = d \/ text'[e] = text[e]
    BY <1>6, <1>t DEF Change, TypeOK
  <2>2. \A c \in Call : call[c] # None => call[c].doc \in Doc
    BY <1>t, CallIsRequest DEF Request
  <2> QED
    BY <1>t, <2>1, <2>2 DEF CallsFresh
<1>7. ASSUME NEW d \in Doc, Invalidate(d) PROVE CallsFresh'
  <2>1. /\ text' = text
        /\ silent' = {e \in silent : Owner[e] # Owner[d]}
        /\ call' = [c \in Call |->
                      IF call[c] # None /\ call[c].user = Owner[d]
                      THEN [call[c] EXCEPT !.late = TRUE] ELSE call[c]]
    BY <1>7 DEF Invalidate, InvalidateTiers
  <2> SUFFICES ASSUME NEW c \in Call, call'[c] # None, call'[c].at # "embed",
                      Owner[call'[c].doc] = call'[c].user, ~call'[c].late
               PROVE  call'[c].rev = text[call'[c].doc] \/ call'[c].doc \in silent'
    BY <2>1 DEF CallsFresh
  <2>2. call[c] # None /\ call[c].user # Owner[d] /\ call'[c] = call[c]
    <3>1. CASE call[c] # None /\ call[c].user = Owner[d]
      <4>1. call[c] \in Request /\ call'[c] = [call[c] EXCEPT !.late = TRUE]
        BY <1>t, <2>1, <3>1, CallIsRequest
      <4> QED
        BY <4>1 DEF Request
    <3>2. CASE ~(call[c] # None /\ call[c].user = Owner[d])
      BY <2>1, <3>2
    <3> QED
      BY <3>1, <3>2
  <2> QED
    BY <1>t, <2>1, <2>2 DEF CallsFresh
<1>8. ASSUME NEW d \in Doc, FailChange(d) PROVE CallsFresh'
  BY <1>8, <1>t DEF FailChange, CallsFresh
<1>9. CASE Restart
  BY <1>9, <1>t DEF Restart, RestartWith, CallsFresh
<1>10. CASE Tick
  BY <1>10, <1>t DEF Tick, CallsFresh
<1>11. CASE UNCHANGED vars
  BY <1>11, <1>t DEF vars, CallsFresh
<1> QED
  BY <1>1, <1>2, <1>3, <1>4, <1>5, <1>6, <1>7, <1>8, <1>9, <1>10, <1>11 DEF Next

\* Every step keeps tier 1 fresh: what a search stores is what its call has read.
LEMMA FoundNext == GenerateInv /\ [Next]_vars => FoundFresh'
<1> SUFFICES ASSUME GenerateInv, [Next]_vars PROVE FoundFresh'
  OBVIOUS
<1> USE GenerateAssumption DEF GenerateAssumption
<1>t. TypeOK /\ CallsFresh /\ FoundFresh
  BY DEF GenerateInv
<1>1. ASSUME UNCHANGED <<text, silent, found>> PROVE FoundFresh'
  BY <1>1, <1>t DEF FoundFresh
<1>2. ASSUME NEW c \in Call, NEW u \in User, NEW q \in Query, NEW d \in Doc,
             SearchMiss(c, u, q, d)
      PROVE  FoundFresh'
  BY <1>2, <1>t, FoundKept DEF SearchMiss, TypeOK
<1>3. ASSUME NEW c \in Call, NEW k \in SearchKey, Found(c, k) PROVE FoundFresh'
  <2> DEFINE own == <<call[c].user, call[c].query>>
  <2>1. call[c] \in Request /\ call[c] # None /\ call[c].at = "found"
    BY <1>3, <1>t, CallIsRequest DEF Found, At
  <2>2. own \in SearchKey /\ own[1] = call[c].user
    BY <2>1 DEF Request, SearchKey
  <2>3. /\ UNCHANGED <<text, silent>>
        /\ found' = [found EXCEPT ![k] = None,
                                  ![own] = [doc |-> call[c].doc, rev |-> call[c].rev,
                                            late |-> call[c].late, left |-> FoundTtl]]
    BY <1>3 DEF Found
  <2> HIDE DEF own
  <2>4. /\ found'[own].doc = call[c].doc
        /\ found'[own].rev = call[c].rev
        /\ found'[own].late = call[c].late
    BY <1>t, <2>2, <2>3 DEF TypeOK
  <2>5. \A j \in SearchKey : j # own => found'[j] = None \/ found'[j] = found[j]
    BY <1>t, <2>2, <2>3 DEF TypeOK
  <2> SUFFICES ASSUME NEW j \in SearchKey, found'[j] # None,
                      Owner[found'[j].doc] = j[1], ~found'[j].late
               PROVE  found'[j].rev = text[found'[j].doc] \/ found'[j].doc \in silent
    BY <2>3 DEF FoundFresh
  <2>6. CASE j = own
    BY <1>t, <2>1, <2>2, <2>4, <2>6 DEF CallsFresh
  <2>7. CASE j # own
    BY <1>t, <2>5, <2>7 DEF FoundFresh
  <2> QED
    BY <2>6, <2>7
<1>4. ASSUME NEW d \in Doc, NEW rev, Change(d, rev) PROVE FoundFresh'
  <2>1. /\ UNCHANGED found
        /\ silent' = silent \cup {d}
        /\ \A e \in Doc : e = d \/ text'[e] = text[e]
    BY <1>4, <1>t DEF Change, TypeOK
  <2>2. \A k \in SearchKey : found[k] # None => found[k].doc \in Doc
    BY <1>t, FoundIsResult DEF Result
  <2> QED
    BY <1>t, <2>1, <2>2 DEF FoundFresh
<1>5. ASSUME found' = Empty PROVE FoundFresh'
  BY <1>5 DEF FoundFresh, Empty
<1>6. CASE Tick
  <2>1. ASSUME NEW k \in SearchKey, found[k] # None
        PROVE  /\ found'[k].doc = found[k].doc
               /\ found'[k].rev = found[k].rev
               /\ found'[k].late = found[k].late
    BY <1>6, <1>t, <2>1, FoundIsResult, OlderIsStored DEF Tick, Result
  <2>2. \A k \in SearchKey : found[k] = None => found'[k] = None
    BY <1>6, OlderNone DEF Tick
  <2> QED
    BY <1>6, <1>t, <2>1, <2>2, FoundKept DEF Tick
<1>7. ASSUME NEW c \in Call, NEW u \in User, NEW q \in Query, SearchHit(c, u, q)
      PROVE  FoundFresh'
  BY <1>1, <1>7 DEF SearchHit
<1>8. ASSUME NEW c \in Call,
             \/ Find(c) \/ Hit(c) \/ Miss(c) \/ Retry(c) \/ Wake(c)
             \/ Answer(c) \/ Abort(c)
      PROVE  FoundFresh'
  BY <1>1, <1>8 DEF Find, Hit, Miss, Retry, RetryUpTo, Wake, Answer, AnswerStored, Abort
<1>9. ASSUME NEW d \in Doc, Invalidate(d) \/ FailChange(d) PROVE FoundFresh'
  <2>1. CASE Invalidate(d)
    BY <1>5, <2>1 DEF Invalidate, InvalidateTiers
  <2>2. CASE FailChange(d)
    <3>1. UNCHANGED <<text, silent>> /\ (found' = found \/ found' = Empty)
      BY <2>2 DEF FailChange
    <3>2. CASE found' = found
      BY <1>1, <3>1, <3>2
    <3> QED
      BY <1>5, <3>1, <3>2
  <2> QED
    BY <1>9, <2>1, <2>2
<1>10. CASE Restart \/ UNCHANGED vars
  BY <1>1, <1>5, <1>10 DEF Restart, RestartWith, vars
<1> QED
  BY <1>2, <1>3, <1>4, <1>6, <1>7, <1>8, <1>9, <1>10 DEF Next

\* Every step keeps the responses fresh: what generate stores is what its call was given.
LEMMA ResponsesNext == GenerateInv /\ [Next]_vars => OwnAnswersFresh'
<1> SUFFICES ASSUME GenerateInv, [Next]_vars PROVE OwnAnswersFresh'
  OBVIOUS
<1> USE GenerateAssumption DEF GenerateAssumption
<1>t. TypeOK /\ CallsFresh /\ OwnAnswersFresh
  BY DEF GenerateInv
<1>1. ASSUME UNCHANGED <<text, silent, responses>> PROVE OwnAnswersFresh'
  BY <1>1, <1>t DEF OwnAnswersFresh
<1>2. ASSUME NEW c \in Call, Miss(c) PROVE OwnAnswersFresh'
  BY <1>2, <1>t, ResponsesKept DEF Miss, TypeOK
<1>3. ASSUME NEW c \in Call, Answer(c) PROVE OwnAnswersFresh'
  <2>1. /\ UNCHANGED <<text, silent>>
        /\ responses' = [responses EXCEPT ![KeyOf(c)] =
                           [doc |-> call[c].doc, rev |-> call[c].rev,
                            late |-> call[c].late, left |-> Ttl]]
        /\ call[c] # None
        /\ call[c].at # "embed"
    BY <1>3 DEF Answer, AnswerStored, At
  <2>2. KeyOf(c)[1] = call[c].user
    BY DEF KeyOf
  <2> QED
    BY <1>t, <2>1, <2>2 DEF OwnAnswersFresh, CallsFresh, TypeOK
<1>4. ASSUME NEW d \in Doc, NEW rev, Change(d, rev) PROVE OwnAnswersFresh'
  <2>1. /\ UNCHANGED responses
        /\ silent' = silent \cup {d}
        /\ \A e \in Doc : e = d \/ text'[e] = text[e]
    BY <1>4, <1>t DEF Change, TypeOK
  <2>2. \A k \in Key : responses[k] # None => responses[k].doc \in Doc
    BY <1>t DEF TypeOK, Response
  <2> QED
    BY <1>t, <2>1, <2>2 DEF OwnAnswersFresh
<1>5. ASSUME NEW d \in Doc, Invalidate(d) PROVE OwnAnswersFresh'
  <2>1. /\ text' = text
        /\ silent' = {e \in silent : Owner[e] # Owner[d]}
        /\ responses' = [k \in Key |-> IF k[1] = Owner[d] THEN None ELSE responses[k]]
    BY <1>5 DEF Invalidate, InvalidateTiers, Others
  <2> QED
    BY <1>t, <2>1 DEF OwnAnswersFresh
<1>6. CASE Tick
  <2>1. ASSUME NEW k \in Key, responses[k] # None
        PROVE  /\ responses'[k].doc = responses[k].doc
               /\ responses'[k].rev = responses[k].rev
               /\ responses'[k].late = responses[k].late
    <3>1. responses[k] \in Response
      BY <1>t, <2>1 DEF TypeOK
    <3> QED
      BY <1>6, <2>1, <3>1, OlderIsStored DEF Tick, Response
  <2>2. \A k \in Key : responses[k] = None => responses'[k] = None
    BY <1>6, OlderNone DEF Tick
  <2> QED
    BY <1>6, <1>t, <2>1, <2>2, ResponsesKept DEF Tick
<1>7. ASSUME NEW c \in Call, NEW u \in User, NEW q \in Query,
             SearchHit(c, u, q) \/ \E d \in Doc : SearchMiss(c, u, q, d)
      PROVE  OwnAnswersFresh'
  BY <1>1, <1>7 DEF SearchHit, SearchMiss
<1>8. ASSUME NEW c \in Call,
             \/ Find(c) \/ Hit(c) \/ Retry(c) \/ Wake(c) \/ Abort(c)
             \/ \E k \in SearchKey : Found(c, k)
      PROVE  OwnAnswersFresh'
  BY <1>1, <1>8 DEF Find, Found, Hit, Retry, RetryUpTo, Wake, Abort
<1>9. ASSUME NEW d \in Doc, FailChange(d) PROVE OwnAnswersFresh'
  BY <1>1, <1>9 DEF FailChange
<1>10. CASE Restart \/ UNCHANGED vars
  BY <1>1, <1>10 DEF Restart, RestartWith, vars
<1> QED
  BY <1>2, <1>3, <1>4, <1>5, <1>6, <1>7, <1>8, <1>9, <1>10 DEF Next

\* The strengthened invariant of search, generate and the invalidations, restarts
\* included.
THEOREM GenerateInvariant == Spec => []GenerateInv
<1>1. GenerateInv /\ [Next]_vars => GenerateInv'
  BY TypeNext, CallsNext, FoundNext, ResponsesNext DEF GenerateInv
<1> QED
  BY <1>1, GenerateInit, PTL DEF Spec

\* Types: among them, that _chat_completion posts max_retries + 1 times at most.
THEOREM GenerateTypeOK == Spec => []TypeOK
<1>1. GenerateInv => TypeOK
  BY DEF GenerateInv
<1> QED
  BY <1>1, GenerateInvariant, PTL

\* A stored answer from a user's own document is out of date only while the change is
\* not announced, or if an invalidation came between the read from Qdrant and the answer,
\* tier 1's being the read of the search it stores.
THEOREM GenerateOwnAnswersFresh == Spec => []OwnAnswersFresh
<1>1. GenerateInv => OwnAnswersFresh
  BY DEF GenerateInv
<1> QED
  BY <1>1, GenerateInvariant, PTL
=============================================================================
