---------------------------- MODULE ServerProofs ----------------------------
(***************************************************************************)
(* First the limiter alone: it counts exactly and keeps its limits, for    *)
(* any number of requests, projects and users and any limits.              *)
(*                                                                         *)
(* Then the application: the start and the shutdown leave no caller        *)
(* without the part it waits for and no part without somebody to close it, *)
(* for any number of RPCs and workers and any settings, and it uses the    *)
(* limiter as Gateway says.                                                *)
(***************************************************************************)
EXTENDS Server, FiniteSetTheorems, TLAPS

-----------------------------------------------------------------------------
(* The limiter.                                                            *)

\* The comparisons of _acquire, kept by every later step.
Within ==
  /\ \A p \in Project : projectCount[p] <= MaxPerProject
  /\ \A s \in Project \X User : userCount[s] <= MaxPerUser

GatewayInv == TypeOK /\ CountsAreExact /\ Within

\* A set of requests gains or loses one member: its size follows.
LEMMA SizeOfRequests ==
  ASSUME NEW S, S \subseteq Request, NEW r
  PROVE  /\ IsFiniteSet(S)
         /\ Cardinality(S) \in Nat
         /\ r \notin S => Cardinality(S \cup {r}) = Cardinality(S) + 1
         /\ r \in S => Cardinality(S \ {r}) = Cardinality(S) - 1
<1>1. IsFiniteSet(S)
  BY FS_Subset, GatewayAssumption DEF GatewayAssumption
<1>2. Cardinality(S) \in Nat
  BY <1>1, FS_CardinalityType
<1>3. Cardinality(S \cup {r}) =
        IF r \in S THEN Cardinality(S) ELSE Cardinality(S) + 1
  BY <1>1, FS_AddElement
<1>4. Cardinality(S \ {r}) =
        IF r \in S THEN Cardinality(S) - 1 ELSE Cardinality(S)
  BY <1>1, FS_RemoveElement
<1> QED
  BY <1>1, <1>2, <1>3, <1>4

\* The requests of a project and of a user once r has acquired its slots.
LEMMA AcquireCounts ==
  ASSUME TypeOK, NEW r \in Request, NEW p \in Project, NEW u \in User,
         scope[r] = None, scope' = [scope EXCEPT ![r] = <<p, u>>]
  PROVE  /\ \A q \in Project :
              Cardinality(InProject(q))' =
                IF q = p THEN Cardinality(InProject(q)) + 1
                ELSE Cardinality(InProject(q))
         /\ \A s \in Project \X User :
              Cardinality(OfUser(s))' =
                IF s = <<p, u>> THEN Cardinality(OfUser(s)) + 1
                ELSE Cardinality(OfUser(s))
<1>0. <<p, u>> # None /\ \A s \in Project \X User : s # None
  BY GatewayAssumption DEF GatewayAssumption
<1>1. ASSUME NEW q \in Project
      PROVE  Cardinality(InProject(q))' =
               IF q = p THEN Cardinality(InProject(q)) + 1
               ELSE Cardinality(InProject(q))
  <2>1. r \notin InProject(q) /\ InProject(q) \subseteq Request
    BY DEF InProject
  <2>2. CASE q = p
    <3>1. InProject(q)' = InProject(q) \cup {r}
      BY <1>0, <2>2 DEF TypeOK, InProject
    <3> QED
      BY <2>1, <2>2, <3>1, SizeOfRequests
  <2>3. CASE q # p
    <3>1. InProject(q)' = InProject(q)
      BY <1>0, <2>3 DEF TypeOK, InProject
    <3> QED
      BY <2>3, <3>1
  <2> QED
    BY <2>2, <2>3
<1>2. ASSUME NEW s \in Project \X User
      PROVE  Cardinality(OfUser(s))' =
               IF s = <<p, u>> THEN Cardinality(OfUser(s)) + 1
               ELSE Cardinality(OfUser(s))
  <2>1. r \notin OfUser(s) /\ OfUser(s) \subseteq Request
    BY <1>0 DEF OfUser
  <2>2. CASE s = <<p, u>>
    <3>1. OfUser(s)' = OfUser(s) \cup {r}
      BY <1>0, <2>2 DEF TypeOK, OfUser
    <3> QED
      BY <2>1, <2>2, <3>1, SizeOfRequests
  <2>3. CASE s # <<p, u>>
    <3>1. OfUser(s)' = OfUser(s)
      BY <1>0, <2>3 DEF TypeOK, OfUser
    <3> QED
      BY <2>3, <3>1
  <2> QED
    BY <2>2, <2>3
<1> QED
  BY <1>1, <1>2

\* ... and once r has released them.
LEMMA ReleaseCounts ==
  ASSUME TypeOK, NEW r \in Request,
         scope[r] # None, scope' = [scope EXCEPT ![r] = None]
  PROVE  /\ \A q \in Project :
              Cardinality(InProject(q))' =
                IF q = scope[r][1] THEN Cardinality(InProject(q)) - 1
                ELSE Cardinality(InProject(q))
         /\ \A s \in Project \X User :
              Cardinality(OfUser(s))' =
                IF s = scope[r] THEN Cardinality(OfUser(s)) - 1
                ELSE Cardinality(OfUser(s))
<1>0. \A s \in Project \X User : s # None
  BY GatewayAssumption DEF GatewayAssumption
<1>1. ASSUME NEW q \in Project
      PROVE  Cardinality(InProject(q))' =
               IF q = scope[r][1] THEN Cardinality(InProject(q)) - 1
               ELSE Cardinality(InProject(q))
  <2>1. InProject(q) \subseteq Request
    BY DEF InProject
  <2>2. CASE q = scope[r][1]
    <3>1. r \in InProject(q) /\ InProject(q)' = InProject(q) \ {r}
      BY <2>2 DEF TypeOK, InProject
    <3> QED
      BY <2>1, <2>2, <3>1, SizeOfRequests
  <2>3. CASE q # scope[r][1]
    <3>1. InProject(q)' = InProject(q)
      BY <2>3 DEF TypeOK, InProject
    <3> QED
      BY <2>3, <3>1
  <2> QED
    BY <2>2, <2>3
<1>2. ASSUME NEW s \in Project \X User
      PROVE  Cardinality(OfUser(s))' =
               IF s = scope[r] THEN Cardinality(OfUser(s)) - 1
               ELSE Cardinality(OfUser(s))
  <2>1. OfUser(s) \subseteq Request
    BY DEF OfUser
  <2>2. CASE s = scope[r]
    <3>1. r \in OfUser(s) /\ OfUser(s)' = OfUser(s) \ {r}
      BY <1>0, <2>2 DEF TypeOK, OfUser
    <3> QED
      BY <2>1, <2>2, <3>1, SizeOfRequests
  <2>3. CASE s # scope[r]
    <3>1. OfUser(s)' = OfUser(s)
      BY <1>0, <2>3 DEF TypeOK, OfUser
    <3> QED
      BY <2>3, <3>1
  <2> QED
    BY <2>2, <2>3
<1> QED
  BY <1>1, <1>2

\* No request holds a slot at the start.
LEMMA GatewayInit == Init => GatewayInv
<1> SUFFICES ASSUME Init PROVE GatewayInv
  OBVIOUS
<1>1. TypeOK
  BY DEF Init, TypeOK
<1>2. \A p \in Project : InProject(p) = {}
  BY DEF Init, InProject
<1>3. \A s \in Project \X User : OfUser(s) = {}
  BY GatewayAssumption DEF Init, OfUser, GatewayAssumption
<1>4. CountsAreExact
  BY <1>2, <1>3, FS_EmptySet DEF Init, CountsAreExact
<1>5. Within
  BY GatewayAssumption DEF Init, Within, GatewayAssumption
<1> QED
  BY <1>1, <1>4, <1>5 DEF GatewayInv

\* A request takes, holds and gives back exactly its own slots.
LEMMA GatewayNext == GatewayInv /\ [Next]_vars => GatewayInv'
<1> SUFFICES ASSUME GatewayInv, [Next]_vars PROVE GatewayInv'
  OBVIOUS
<1> USE DEF GatewayInv
<1>1. ASSUME NEW r \in Request, NEW p \in Project, NEW u \in User, Acquire(r, p, u)
      PROVE  GatewayInv'
  <2>1. TypeOK'
    BY <1>1 DEF TypeOK, Acquire
  <2>2. CountsAreExact'
    <3>1. /\ \A q \in Project :
               Cardinality(InProject(q))' =
                 IF q = p THEN Cardinality(InProject(q)) + 1
                 ELSE Cardinality(InProject(q))
          /\ \A s \in Project \X User :
               Cardinality(OfUser(s))' =
                 IF s = <<p, u>> THEN Cardinality(OfUser(s)) + 1
                 ELSE Cardinality(OfUser(s))
      BY <1>1, AcquireCounts DEF Acquire
    <3>2. ASSUME NEW q \in Project
          PROVE  projectCount'[q] =
                   IF q = p THEN projectCount[q] + 1 ELSE projectCount[q]
      BY <1>1 DEF TypeOK, Acquire
    <3>3. ASSUME NEW s \in Project \X User
          PROVE  userCount'[s] =
                   IF s = <<p, u>> THEN userCount[s] + 1 ELSE userCount[s]
      BY <1>1 DEF TypeOK, Acquire
    <3> QED
      BY <3>1, <3>2, <3>3 DEF CountsAreExact
  <2>3. Within'
    BY <1>1, GatewayAssumption DEF TypeOK, Acquire, Within, GatewayAssumption
  <2> QED
    BY <2>1, <2>2, <2>3
<1>2. ASSUME NEW r \in Request, Release(r)
      PROVE  GatewayInv'
  <2>1. scope[r] \in Project \X User /\ scope[r][1] \in Project
    BY <1>2 DEF TypeOK, Release
  <2>2. projectCount[scope[r][1]] >= 1 /\ userCount[scope[r]] >= 1
    <3>1. /\ r \in InProject(scope[r][1])
          /\ r \in OfUser(scope[r])
      BY <1>2 DEF Release, InProject, OfUser
    <3>2. /\ IsFiniteSet(InProject(scope[r][1]))
          /\ IsFiniteSet(OfUser(scope[r]))
      BY SizeOfRequests DEF InProject, OfUser
    <3>3. /\ Cardinality(InProject(scope[r][1])) # 0
          /\ Cardinality(OfUser(scope[r])) # 0
      BY <3>1, <3>2, FS_EmptySet
    <3> QED
      BY <2>1, <3>3 DEF CountsAreExact, TypeOK
  <2>3. TypeOK'
    BY <1>2, <2>1, <2>2 DEF TypeOK, Release
  <2>4. CountsAreExact'
    <3>1. /\ \A q \in Project :
               Cardinality(InProject(q))' =
                 IF q = scope[r][1] THEN Cardinality(InProject(q)) - 1
                 ELSE Cardinality(InProject(q))
          /\ \A s \in Project \X User :
               Cardinality(OfUser(s))' =
                 IF s = scope[r] THEN Cardinality(OfUser(s)) - 1
                 ELSE Cardinality(OfUser(s))
      BY <1>2, ReleaseCounts DEF Release
    <3>2. ASSUME NEW q \in Project
          PROVE  projectCount'[q] =
                   IF q = scope[r][1] THEN projectCount[q] - 1 ELSE projectCount[q]
      BY <1>2, <2>1 DEF TypeOK, Release
    <3>3. ASSUME NEW s \in Project \X User
          PROVE  userCount'[s] =
                   IF s = scope[r] THEN userCount[s] - 1 ELSE userCount[s]
      BY <1>2, <2>1 DEF TypeOK, Release
    <3> QED
      BY <3>1, <3>2, <3>3 DEF CountsAreExact
  <2>5. Within'
    BY <1>2, <2>1, GatewayAssumption DEF TypeOK, Release, Within, GatewayAssumption
  <2> QED
    BY <2>3, <2>4, <2>5
<1>3. CASE UNCHANGED vars
  BY <1>3 DEF vars, TypeOK, CountsAreExact, Within, InProject, OfUser
<1> QED
  BY <1>1, <1>2, <1>3 DEF Next, Reject

\* The limiter's invariant: its counts are exact and within the limits.
THEOREM GatewayInvariant == Spec => []GatewayInv
<1> QED
  BY GatewayInit, GatewayNext, PTL DEF Spec

\* Types: no count of GatewayConcurrencyLimiter is ever negative.
THEOREM GatewayTypeOK == Spec => []TypeOK
<1>1. GatewayInv => TypeOK
  BY DEF GatewayInv
<1> QED
  BY <1>1, GatewayInvariant, PTL

\* No slot of the limiter leaks or is given back twice.
THEOREM GatewayCountsAreExact == Spec => []CountsAreExact
<1>1. GatewayInv => CountsAreExact
  BY DEF GatewayInv
<1> QED
  BY <1>1, GatewayInvariant, PTL

\* Never more requests in preparation than the limits allow.
THEOREM GatewayLimitsHold == Spec => []LimitsHold
<1>1. GatewayInv => LimitsHold
  BY DEF GatewayInv, CountsAreExact, Within, LimitsHold
<1> QED
  BY <1>1, GatewayInvariant, PTL

-----------------------------------------------------------------------------
(* The start, the RPCs and the shutdown.                                   *)

\* The order of the shutdown, and its parts, one by one.
LEMMA Orders ==
  /\ Len(StopOrder) = 5 /\ DOMAIN StopOrder = 1..5
  /\ StopOrder[1] = "server" /\ StopOrder[2] = "workers" /\ StopOrder[3] = "llm"
  /\ StopOrder[4] = "embedding" /\ StopOrder[5] = "store"
  /\ Part = {"server", "workers", "llm", "embedding", "store"}
<1>1. /\ Len(StopOrder) = 5 /\ DOMAIN StopOrder = 1..5
      /\ StopOrder[1] = "server" /\ StopOrder[2] = "workers" /\ StopOrder[3] = "llm"
      /\ StopOrder[4] = "embedding" /\ StopOrder[5] = "store"
  BY DEF StopOrder
<1>2. Part = {StopOrder[1], StopOrder[2], StopOrder[3], StopOrder[4], StopOrder[5]}
  <2>1. 1..5 = {1, 2, 3, 4, 5}
    OBVIOUS
  <2> QED
    BY <1>1, <2>1 DEF Part
<1> QED
  BY <1>1, <1>2

\* What the steps of the start leave open.
LEMMA Starts ==
  /\ Len(StartOrder) = 9 /\ DOMAIN StartOrder = 1..9
  /\ StartOrder[3] = "embedding" /\ StartOrder[4] = "store" /\ StartOrder[6] = "llm"
  /\ StartOrder[8] = "workers" /\ StartOrder[9] = "server"
  /\ \A i \in 1..9 : Opens(StartOrder[i]) \subseteq Part
  /\ \A i \in 1..9 : "embedding" \in Opens(StartOrder[i]) <=> i = 3
  /\ \A i \in 1..9 : "server" \in Opens(StartOrder[i]) <=> i = 9
<1>1. 1..9 = {1, 2, 3, 4, 5, 6, 7, 8, 9}
  OBVIOUS
<1> QED
  BY <1>1, Orders DEF StartOrder, Opens

\* Slots are held by the RPCs whose plan is in preparation.
SlotsAreCalls ==
  /\ \A r \in Request : scope[r] # None <=> call[r] \in {"search", "ingest"}
  /\ \A w \in Worker : call[w] \notin {"search", "ingest"}

\* There is one pool, if any, and nobody has to load a model.
OnePool ==
  /\ pools = IF "embedding" \in open THEN 1 ELSE 0
  /\ \A a \in Actor : call[a] # "loading"

\* Nobody calls before all parts are open.
Starting ==
  phase = "starting" =>
    /\ \A a \in Actor : call[a] = "none"
    /\ \A i \in 1..(at - 1) : Opens(StartOrder[i]) \subseteq open
    /\ at <= 3 => "embedding" \notin open
    /\ (model <=> "embedding" \in open)

\* Every part is open until its turn comes, and its callers are gone by then.
Serving ==
  phase = "serving" =>
    /\ at = 1
    /\ {"server", "workers", "embedding", "store"} \subseteq open
    /\ settings.generation => "llm" \in open
    /\ model

Stopping ==
  phase = "stopping" =>
    /\ at <= 5
    /\ at <= 4 => "embedding" \in open /\ model
    /\ "store" \in open
    /\ at > 1 => \A r \in Request : call[r] = "none"
    /\ at > 2 => \A w \in Worker : call[w] = "none"

Stopped ==
  phase = "stopped" => open = {} /\ \A a \in Actor : call[a] = "none"

\* What was shut down is closed.
Closed ==
  /\ phase \in {"stopping", "broken"} => at <= 5
  /\ phase = "stopping" => "server" \notin open
  /\ phase \in {"stopping", "broken"} => \A i \in 1..(at - 1) : StopOrder[i] \notin open

ServerInv ==
  /\ GatewayInv
  /\ ServerTypeOK
  /\ SlotsAreCalls
  /\ OnePool
  /\ Starting
  /\ Serving
  /\ Stopping
  /\ Stopped
  /\ Closed
  /\ UsedPartsAreOpen
-----------------------------------------------------------------------------
\* To the limiter, a step of the server is a step of the gateway or none.
LEMMA ServerStepIsGateway == [ServerNext]_serverVars => [Next]_vars
<1> SUFFICES ASSUME ServerNext PROVE [Next]_vars
  BY DEF serverVars, vars
<1>1. ASSUME NEW r \in Request, NEW p \in Project, NEW u \in User,
             Arrive(r, p, u) \/ Refuse(r, p, u)
      PROVE  [Next]_vars
  BY <1>1 DEF Arrive, Refuse, Next
<1>2. ASSUME NEW r \in Request,
             PreparedSearch(r) \/ PreparedIngest(r) \/ Abandon(r) \/ Generate(r)
      PROVE  [Next]_vars
  BY <1>2 DEF PreparedSearch, PreparedIngest, Abandon, Generate, Next
<1>3. ASSUME \/ Start \/ StartFails \/ BeginStop \/ Stop \/ StopFails
             \/ \E w \in Worker : Take(w)
             \/ \E a \in Actor : Resumes(a) \/ Ends(a)
      PROVE  UNCHANGED vars
  BY <1>3 DEF Start, StartFails, BeginStop, Stop, StopFails, Take, Resumes, Ends, vars
<1> QED
  BY <1>1, <1>2, <1>3 DEF ServerNext

LEMMA ServerInvInit == ServerInit => ServerInv
<1> SUFFICES ASSUME ServerInit PROVE ServerInv
  OBVIOUS
<1>1. GatewayInv
  BY GatewayInit DEF ServerInit
<1>0. /\ phase = IF settings = Invalid THEN "failed" ELSE "starting"
      /\ at = 1 /\ open = {} /\ pools = 0 /\ model = FALSE
      /\ call = [a \in Actor |-> "none"] /\ queued = 0
  BY DEF ServerInit
<1>2. ServerTypeOK
  <2>1. phase \in Phase /\ (settings = Invalid => phase = "failed")
    BY <1>0 DEF Phase
  <2>2. call \in [Actor -> Call]
    BY <1>0 DEF Call
  <2>3. at \in 1..Len(StartOrder) /\ queued \in 0..MaxQueued /\ pools \in Nat
    BY <1>0, Starts, ServerAssumption DEF ServerAssumption
  <2> QED
    BY <1>0, <1>1, <2>1, <2>2, <2>3 DEF GatewayInv, ServerTypeOK
<1>3. SlotsAreCalls
  BY DEF ServerInit, Init, SlotsAreCalls, Actor
<1>4. OnePool /\ Starting
  <2>1. "embedding" \notin open /\ (model <=> "embedding" \in open)
    BY <1>0
  <2>2. \A i \in 1..(at - 1) : Opens(StartOrder[i]) \subseteq open
    BY <1>0
  <2>3. \A a \in Actor : call[a] = "none"
    BY <1>0
  <2> QED
    BY <1>0, <2>1, <2>2, <2>3 DEF OnePool, Starting
<1>5. Serving /\ Stopping /\ Stopped /\ Closed /\ UsedPartsAreOpen
  BY DEF ServerInit, Serving, Stopping, Stopped, Closed, UsedPartsAreOpen, Running
<1> QED
  BY <1>1, <1>2, <1>3, <1>4, <1>5 DEF ServerInv

\* Whoever encodes finds the provider open and its model loaded.
LEMMA EncodeFindsPool ==
  ASSUME ServerInv, NEW a \in Actor, Encode(a), phase \in {"serving", "stopping"},
         phase = "stopping" => at <= 4
  PROVE  call' = [call EXCEPT ![a] = "encoding"] /\ UNCHANGED partVars
BY DEF ServerInv, Serving, Stopping, Encode

\* A step in which one caller goes on and the parts stay as they are.
LEMMA CallerStep ==
  ASSUME ServerInv, GatewayInv', NEW a \in Actor, NEW c \in Call, Running,
         UNCHANGED <<mainVars, partVars>>, queued' \in 0..MaxQueued,
         call' = [call EXCEPT ![a] = c],
         a \in Request => (scope'[a] # None <=> c \in {"search", "ingest"}),
         \A r \in Request \ {a} : scope'[r] = scope[r],
         a \in Worker => c \notin {"search", "ingest"},
         c # "loading",
         phase = "stopping" /\ at > 1 /\ a \in Request => c = "none",
         phase = "stopping" /\ at > 2 /\ a \in Worker => c = "none",
         c = "encoding" => "embedding" \in open /\ model,
         c = "storing" => "store" \in open,
         c = "asking" => "llm" \in open
  PROVE  ServerInv'
<1> USE DEF ServerInv, mainVars, partVars
<1>1. ServerTypeOK'
  BY DEF ServerTypeOK, GatewayInv
<1>2. SlotsAreCalls'
  BY ServerAssumption DEF SlotsAreCalls, ServerTypeOK, ServerAssumption, Actor
<1>3. OnePool'
  BY DEF OnePool, ServerTypeOK
<1>4. Starting' /\ Serving' /\ Stopped' /\ Closed'
  BY DEF Starting, Serving, Stopped, Closed, Running
<1>5. Stopping'
  BY DEF Stopping, ServerTypeOK, Actor
<1>6. UsedPartsAreOpen'
  BY DEF UsedPartsAreOpen, ServerTypeOK
<1> QED
  BY <1>1, <1>2, <1>3, <1>4, <1>5, <1>6
\* create_app opens the parts before anybody calls.
LEMMA StartKeeps ==
  ASSUME ServerInv, GatewayInv', Start PROVE ServerInv'
<1> USE DEF ServerInv, Start
<1>1. /\ at \in 1..9 /\ at' \in 1..9 /\ vars' = vars
      /\ phase' \in {"starting", "serving"} /\ settings' = settings
      /\ open' = open \cup Opens(StartOrder[at]) /\ open \subseteq Part
      /\ call' = call /\ queued' = queued
  BY Starts DEF ServerTypeOK
<1>2. open' \subseteq Part /\ ("embedding" \in open' <=> at = 3 \/ "embedding" \in open)
  BY <1>1, Starts
<1>3. settings # Invalid
  BY DEF ServerTypeOK
<1>4. at > 3 => "embedding" \in open
  BY <1>1, Starts DEF Starting
<1>5. ServerTypeOK'
  BY <1>1, <1>2, <1>3, Starts DEF ServerTypeOK, GatewayInv, Phase
<1>6. SlotsAreCalls'
  BY <1>1 DEF SlotsAreCalls, vars
<1>7. OnePool'
  BY <1>1, <1>2, <1>4 DEF OnePool, Starting
<1>8. \A i \in 1..at : Opens(StartOrder[i]) \subseteq open'
  BY <1>1 DEF Starting
<1>9. model' <=> "embedding" \in open'
  OBVIOUS
<1>10. Starting'
  <2> SUFFICES ASSUME phase' = "starting"
               PROVE  /\ \A a \in Actor : call'[a] = "none"
                      /\ \A i \in 1..(at' - 1) : Opens(StartOrder[i])' \subseteq open'
                      /\ at' <= 3 => "embedding" \notin open'
    BY <1>9 DEF Starting
  <2>1. at' = at + 1
    OBVIOUS
  <2>2. \A i \in 1..(at' - 1) : Opens(StartOrder[i])' \subseteq open'
    BY <1>1, <1>8, <2>1 DEF Opens
  <2> QED
    BY <1>1, <1>2, <2>1, <2>2 DEF Starting
<1>11. Serving'
  <2> SUFFICES ASSUME phase' = "serving"
               PROVE  /\ at' = 1
                      /\ {"server", "workers", "embedding", "store"} \subseteq open'
                      /\ settings.generation => "llm" \in open'
                      /\ model'
    BY <1>1 DEF Serving
  <2>1. at = 9 /\ at' = 1
    BY <1>1, Starts
  <2>2. /\ Opens("embedding") \subseteq open' /\ Opens("store") \subseteq open'
        /\ Opens("llm") \subseteq open' /\ Opens("workers") \subseteq open'
        /\ Opens("server") \subseteq open'
    BY <1>8, <2>1, Starts
  <2>3. {"server", "workers", "embedding", "store"} \subseteq open'
    BY <2>2 DEF Opens
  <2>4. settings.generation => "llm" \in open'
    BY <2>2 DEF Opens
  <2> QED
    BY <1>9, <2>1, <2>3, <2>4
<1>12. Stopping' /\ Stopped' /\ Closed'
  BY <1>1 DEF Stopping, Stopped, Closed
<1>13. UsedPartsAreOpen'
  BY <1>1 DEF UsedPartsAreOpen, Starting
<1> QED
  BY <1>5, <1>6, <1>7, <1>10, <1>11, <1>12, <1>13

\* A failed start leaves nobody behind, though it may leave a pool.
LEMMA StartFailsKeeps ==
  ASSUME ServerInv, GatewayInv', StartFails PROVE ServerInv'
<1> USE DEF ServerInv, StartFails
<1>1. /\ phase' = "failed" /\ vars' = vars /\ at' = at /\ settings' = settings
      /\ call' = call /\ queued' = queued /\ model' = model /\ at \in 1..9
  BY Starts DEF ServerTypeOK
<1>2. \/ open' = open /\ pools' = pools
      \/ /\ StartOrder[at] = "embedding"
         /\ open' = open \cup {"embedding"} /\ pools' = pools + 1
  OBVIOUS
<1>3. StartOrder[at] = "embedding" => at = 3
  BY <1>1 DEF StartOrder
<1>4. OnePool'
  BY <1>1, <1>2, <1>3 DEF OnePool, Starting
<1>5. ServerTypeOK'
  BY <1>1, <1>2, Orders DEF ServerTypeOK, GatewayInv, Phase
<1>6. SlotsAreCalls'
  BY <1>1 DEF SlotsAreCalls, vars
<1>7. Starting' /\ Serving' /\ Stopping' /\ Stopped' /\ Closed' /\ UsedPartsAreOpen'
  BY <1>1 DEF Starting, Serving, Stopping, Stopped, Closed, UsedPartsAreOpen, Running
<1> QED
  BY <1>4, <1>5, <1>6, <1>7

\* The port closes first: nobody arrives after it.
LEMMA BeginStopKeeps ==
  ASSUME ServerInv, GatewayInv', BeginStop PROVE ServerInv'
<1> USE DEF ServerInv, BeginStop
<1>1. ServerTypeOK'
  BY DEF ServerTypeOK, GatewayInv, Phase
<1>2. SlotsAreCalls'
  BY DEF SlotsAreCalls, vars
<1>3. OnePool'
  BY DEF OnePool
<1>4. Starting' /\ Serving' /\ Stopped'
  BY DEF Starting, Serving, Stopped
<1>5. Stopping' /\ Closed'
  BY DEF Serving, Stopping, Closed
<1>6. UsedPartsAreOpen'
  BY DEF UsedPartsAreOpen, Running
<1> QED
  BY <1>1, <1>2, <1>3, <1>4, <1>5, <1>6

\* A part closes when its callers are gone: RPCs before the workers, both before the
\* models and Qdrant.
LEMMA StopKeeps ==
  ASSUME ServerInv, GatewayInv', Stop PROVE ServerInv'
<1> USE DEF ServerInv
<1> DEFINE part == StopOrder[at]
<1>1. /\ phase = "stopping" /\ Quiet(part) /\ open' = open \ {part}
      /\ pools' = (IF part = "embedding" /\ part \in open THEN pools - 1 ELSE pools)
      /\ model' = (model /\ part # "embedding")
      /\ call' = (IF part = "workers"
                  THEN [a \in Actor |-> IF a \in Worker THEN "none" ELSE call[a]]
                  ELSE call)
      /\ IF at < 5 THEN at' = at + 1 /\ phase' = phase ELSE phase' = "stopped" /\ at' = at
      /\ vars' = vars /\ settings' = settings /\ queued' = queued
  BY Orders DEF Stop
<1>2. at \in 1..5 /\ (at = 1 => part = "server") /\ (at = 2 <=> part = "workers")
      /\ (at = 4 <=> part = "embedding") /\ (at = 3 <=> part = "llm")
      /\ (at = 5 <=> part = "store")
  BY <1>1, Starts, Orders DEF Stopping, ServerTypeOK
<1>3. \A r \in Request : call'[r] = call[r] /\ call'[r] = "none"
  BY <1>1, <1>2, ServerAssumption DEF Stopping, Quiet, Actor, ServerAssumption
<1>4. at > 1 => \A w \in Worker : call'[w] = "none"
  BY <1>1, <1>2 DEF Stopping, Actor
<1>5. \A a \in Actor : call'[a] \in {call[a], "none"}
  BY <1>1
<1>6. call' \in [Actor -> Call]
  BY <1>1 DEF ServerTypeOK, Call
<1> HIDE DEF part
<1>7. ServerTypeOK'
  <2>1. pools' \in Nat
    BY <1>1 DEF ServerTypeOK, OnePool
  <2>2. at' \in 1..Len(StartOrder) /\ phase' \in Phase /\ open' \subseteq Part
    BY <1>1, <1>2, Starts DEF ServerTypeOK, Phase
  <2>3. settings' # Invalid /\ queued' \in 0..MaxQueued
    BY <1>1 DEF ServerTypeOK
  <2>4. model' \in BOOLEAN
    BY <1>1
  <2> QED
    BY <1>6, <2>1, <2>2, <2>3, <2>4 DEF ServerTypeOK, GatewayInv
<1>8. SlotsAreCalls'
  <2>1. scope' = scope
    BY <1>1 DEF vars
  <2> QED
    BY <2>1, <1>3, <1>5 DEF SlotsAreCalls, Actor
<1>9. OnePool'
  BY <1>1, <1>5 DEF OnePool
<1>10. Starting' /\ Serving'
  BY <1>1 DEF Starting, Serving
<1>11. Stopping'
  <2> SUFFICES ASSUME phase' = "stopping" PROVE Stopping'
    BY DEF Stopping
  <2>1. at < 5 /\ at' = at + 1
    BY <1>1, <1>2
  <2>2. at' <= 4 => "embedding" \in open' /\ model'
    <3> SUFFICES ASSUME at' <= 4 PROVE "embedding" \in open' /\ model'
      OBVIOUS
    <3>1. part # "embedding" /\ "embedding" \in open /\ model
      BY <1>1, <1>2, <2>1 DEF Stopping
    <3> QED
      BY <1>1, <3>1
  <2>3. "store" \in open'
    BY <1>1, <1>2, <2>1 DEF Stopping
  <2>4. at' > 2 => at > 1
    BY <1>2, <2>1
  <2> QED
    BY <1>2, <1>3, <1>4, <2>1, <2>2, <2>3, <2>4 DEF Stopping
<1>12. Closed'
  <2>1. \A i \in 1..at : StopOrder[i] \notin open'
    BY <1>1, <1>2 DEF Closed, part
  <2> QED
    BY <1>1, <1>2, <2>1 DEF Closed
<1>13. Stopped'
  <2> SUFFICES ASSUME phase' = "stopped"
               PROVE  open' = {} /\ \A a \in Actor : call'[a] = "none"
    BY DEF Stopped
  <2>1. at = 5
    BY <1>1, <1>2
  <2>2. open \subseteq {"server", "workers", "llm", "embedding", "store"}
    BY Orders DEF ServerTypeOK
  <2>3. \A i \in 1..4 : StopOrder[i] \notin open
    BY <1>1, <2>1 DEF Closed
  <2>4. /\ "server" \notin open /\ "workers" \notin open
        /\ "llm" \notin open /\ "embedding" \notin open
    <3>1. 1 \in 1..4 /\ 2 \in 1..4 /\ 3 \in 1..4 /\ 4 \in 1..4
      OBVIOUS
    <3> QED
      BY <2>3, <3>1, Orders
  <2>5. open' = {}
    BY <1>1, <1>2, <2>1, <2>2, <2>4
  <2> QED
    BY <1>3, <1>4, <2>1, <2>5 DEF Actor
<1>14. UsedPartsAreOpen'
  <2> SUFFICES ASSUME NEW a \in Actor, call'[a] # "none"
               PROVE  /\ call'[a] = "encoding" => "embedding" \in open' /\ model'
                      /\ call'[a] = "storing" => "store" \in open'
                      /\ call'[a] = "asking" => "llm" \in open'
    BY DEF UsedPartsAreOpen
  <2>1. at = 1 /\ call'[a] = call[a]
    BY <1>2, <1>3, <1>4, <1>5 DEF Actor
  <2> QED
    BY <1>1, <1>2, <2>1 DEF UsedPartsAreOpen, Running
<1> QED
  BY <1>7, <1>8, <1>9, <1>10, <1>11, <1>12, <1>13, <1>14

\* After a shutdown that raised, nobody goes on.
LEMMA StopFailsKeeps ==
  ASSUME ServerInv, GatewayInv', StopFails PROVE ServerInv'
<1> USE DEF ServerInv, StopFails, partVars
<1>1. ServerTypeOK'
  BY DEF ServerTypeOK, GatewayInv, Phase
<1>2. SlotsAreCalls' /\ OnePool'
  BY DEF SlotsAreCalls, OnePool, vars
<1>3. Starting' /\ Serving' /\ Stopping' /\ Stopped' /\ UsedPartsAreOpen'
  BY DEF Starting, Serving, Stopping, Stopped, UsedPartsAreOpen, Running
<1>4. Closed'
  BY DEF Closed
<1> QED
  BY <1>1, <1>2, <1>3, <1>4
-----------------------------------------------------------------------------
\* Qdrant, the provider and its model are there for whoever still calls.
LEMMA CallersFindParts ==
  ASSUME ServerInv, Running
  PROVE  /\ at \in Int /\ "store" \in open
         /\ "workers" \in open => (phase = "stopping" => at <= 2)
         /\ \A r \in Request : call[r] # "none" => (phase = "stopping" => at = 1)
         /\ \A w \in Worker : call[w] # "none" => (phase = "stopping" => at <= 2)
<1> USE DEF ServerInv
<1>1. phase \in {"serving", "stopping"} /\ at \in 1..9
  BY Starts DEF Running, ServerTypeOK
<1>2. "store" \in open
  BY <1>1 DEF Serving, Stopping
<1>3. "workers" \in open => (phase = "stopping" => at <= 2)
  <2> SUFFICES ASSUME phase = "stopping", at > 2 PROVE "workers" \notin open
    BY <1>1
  <2>1. StopOrder[2] \notin open
    BY <1>1 DEF Closed
  <2> QED
    BY <2>1, Orders
<1> QED
  BY <1>1, <1>2, <1>3 DEF Stopping

\* The steps of an RPC, from its arrival to its end.
LEMMA RpcKeeps ==
  ASSUME ServerInv, GatewayInv', NEW r \in Request,
         \/ \E p \in Project, u \in User : Arrive(r, p, u)
         \/ PreparedSearch(r) \/ PreparedIngest(r) \/ Abandon(r) \/ Generate(r)
  PROVE  ServerInv'
<1>r. r \in Actor /\ r \notin Worker /\ ServerTypeOK /\ SlotsAreCalls
  BY ServerAssumption DEF Actor, ServerAssumption, ServerInv
<1>q. queued \in 0..MaxQueued /\ MaxQueued \in Nat
  BY ServerAssumption DEF ServerInv, ServerTypeOK, ServerAssumption
<1>s. scope \in [Request -> (Project \X User) \cup {None}]
  BY DEF ServerInv, GatewayInv, TypeOK
<1>1. ASSUME NEW p \in Project, NEW u \in User, Arrive(r, p, u)
      PROVE  ServerInv'
  <2>1. Running /\ phase # "stopping" /\ UNCHANGED <<mainVars, partVars>> /\ queued' = queued
    BY <1>1 DEF Arrive, Running
  <2>2. PICK kind \in {"search", "ingest"} : call' = [call EXCEPT ![r] = kind]
    BY <1>1 DEF Arrive
  <2>3. scope' = [scope EXCEPT ![r] = <<p, u>>] /\ <<p, u>> # None
    BY <1>1, GatewayAssumption DEF Arrive, Acquire, GatewayAssumption
  <2> QED
    BY <1>r, <1>q, <1>s, <2>1, <2>2, <2>3, CallerStep DEF Call
<1>2. ASSUME Running, call[r] \in {"search", "ingest"}, Release(r),
             NEW c \in {"encoding", "storing", "none"},
             call' = [call EXCEPT ![r] = c],
             UNCHANGED <<mainVars, partVars>>, queued' \in 0..MaxQueued
      PROVE  ServerInv'
  <2>1. at \in Int /\ (phase = "stopping" => at = 1) /\ ~ (phase = "stopping" /\ at > 1)
    BY <1>2, CallersFindParts
  <2>2. "store" \in open /\ "embedding" \in open /\ model
    BY <1>2, <2>1, CallersFindParts DEF ServerInv, Serving, Stopping, Running
  <2>3. scope' = [scope EXCEPT ![r] = None]
    BY <1>2 DEF Release
  <2> QED
    BY <1>2, <1>r, <1>s, <2>1, <2>2, <2>3, CallerStep DEF Call
<1>3. ASSUME PreparedSearch(r) PROVE ServerInv'
  <2>1. /\ Running /\ call[r] = "search" /\ Release(r)
        /\ UNCHANGED mainVars /\ queued' = queued
    BY <1>3 DEF PreparedSearch
  <2>2. CASE Encode(r)
    <3>1. call' = [call EXCEPT ![r] = "encoding"] /\ UNCHANGED partVars
      BY <1>r, <2>1, <2>2, CallersFindParts, EncodeFindsPool DEF Running
    <3> QED
      BY <1>2, <1>q, <2>1, <3>1
  <2>3. CASE \E next \in {"storing", "none"} :
               call' = [call EXCEPT ![r] = next] /\ UNCHANGED partVars
    BY <1>2, <1>q, <2>1, <2>3
  <2> QED
    BY <1>3, <2>2, <2>3 DEF PreparedSearch
<1>4. ASSUME PreparedIngest(r) PROVE ServerInv'
  <2>1. queued' \in 0..MaxQueued
    BY <1>4, <1>q DEF PreparedIngest
  <2> QED
    BY <1>2, <1>4, <2>1 DEF PreparedIngest
<1>5. ASSUME Abandon(r) PROVE ServerInv'
  BY <1>2, <1>5, <1>q DEF Abandon
<1>6. ASSUME Generate(r) PROVE ServerInv'
  <2>1. /\ Running /\ phase # "stopping" /\ queued' = queued
        /\ call[r] = "none" /\ call' = [call EXCEPT ![r] = "asking"]
        /\ scope' = scope /\ UNCHANGED mainVars
    BY <1>6 DEF Generate, Running, vars
  <2>2. "llm" \in open /\ open' = open /\ UNCHANGED partVars
    BY <1>6 DEF Generate, ServerInv, Serving, partVars
  <2>3. scope[r] = None
    BY <1>r, <2>1 DEF SlotsAreCalls
  <2> QED
    BY <1>r, <1>q, <2>1, <2>2, <2>3, CallerStep DEF Call
<1> QED
  BY <1>1, <1>3, <1>4, <1>5, <1>6

\* The steps of a worker, and the answers that callers wait for.
LEMMA WaitingKeeps ==
  ASSUME ServerInv, GatewayInv',
         \/ \E w \in Worker : Take(w)
         \/ \E a \in Actor : Resumes(a) \/ Ends(a)
  PROVE  ServerInv'
<1>q. queued \in 0..MaxQueued /\ MaxQueued \in Nat /\ ServerTypeOK
  BY ServerAssumption DEF ServerInv, ServerTypeOK, ServerAssumption
<1>1. ASSUME NEW w \in Worker, Take(w) PROVE ServerInv'
  <2>1. /\ Running /\ "workers" \in open /\ w \in Actor /\ w \notin Request
        /\ UNCHANGED mainVars /\ scope' = scope /\ queued' \in 0..MaxQueued
    BY <1>1, <1>q, ServerAssumption DEF Take, Actor, ServerAssumption, vars
  <2>2. at \in Int /\ (phase = "stopping" => at <= 2) /\ ~ (phase = "stopping" /\ at > 2)
    BY <2>1, CallersFindParts
  <2>3. "store" \in open /\ "embedding" \in open /\ model
    BY <2>1, <2>2, CallersFindParts DEF ServerInv, Serving, Stopping, Running
  <2>4. CASE Encode(w)
    <3>1. call' = [call EXCEPT ![w] = "encoding"] /\ UNCHANGED partVars
      BY <2>1, <2>2, <2>4, EncodeFindsPool DEF Running
    <3> QED
      BY <2>1, <2>2, <2>3, <3>1, CallerStep DEF Call
  <2>5. CASE call' = [call EXCEPT ![w] = "storing"] /\ UNCHANGED partVars
    BY <2>1, <2>2, <2>3, <2>5, CallerStep DEF Call
  <2> QED
    BY <1>1, <2>4, <2>5 DEF Take
<1>2. ASSUME NEW a \in Actor, Running, NEW c \in {"storing", "none"},
             call[a] \in {"encoding", "storing", "asking"},
             call' = [call EXCEPT ![a] = c],
             UNCHANGED <<vars, mainVars, partVars, queued>>
      PROVE  ServerInv'
  <2>1. "store" \in open /\ scope' = scope
    BY <1>2, CallersFindParts DEF vars
  <2>2. /\ phase = "stopping" /\ at > 1 => a \notin Request
        /\ phase = "stopping" /\ at > 2 => a \notin Worker
    BY <1>2, CallersFindParts
  <2>3. a \in Request => scope[a] = None
    BY <1>2 DEF ServerInv, SlotsAreCalls
  <2> QED
    BY <1>2, <1>q, <2>1, <2>2, <2>3, CallerStep DEF Call
<1>3. ASSUME NEW a \in Actor, Resumes(a) PROVE ServerInv'
  <2>1. call[a] = "encoding"
    BY <1>3 DEF Resumes, ServerInv, OnePool
  <2>2. model' <=> model
    BY <1>3, <2>1 DEF Resumes
  <2>3. UNCHANGED partVars /\ call' = [call EXCEPT ![a] = "storing"]
    BY <1>3, <1>q, <2>1, <2>2 DEF Resumes, partVars, ServerTypeOK
  <2> QED
    BY <1>2, <1>3, <2>1, <2>3 DEF Resumes
<1>4. ASSUME NEW a \in Actor, Ends(a) PROVE ServerInv'
  <2>1. call[a] # "loading"
    BY DEF ServerInv, OnePool
  <2> QED
    BY <1>2, <1>4, <2>1 DEF Ends
<1> QED
  BY <1>1, <1>3, <1>4

LEMMA ServerInvNext == ServerInv /\ [ServerNext]_serverVars => ServerInv'
<1> SUFFICES ASSUME ServerInv, [ServerNext]_serverVars PROVE ServerInv'
  OBVIOUS
<1>1. GatewayInv'
  BY ServerStepIsGateway, GatewayNext DEF ServerInv
<1>2. CASE UNCHANGED serverVars
  BY <1>1, <1>2
     DEF ServerInv, serverVars, mainVars, partVars, vars, ServerTypeOK, GatewayInv, SlotsAreCalls,
         OnePool, Starting, Serving, Stopping, Stopped, Closed, UsedPartsAreOpen, Running, Opens
<1>3. ASSUME NEW r \in Request, NEW p \in Project, NEW u \in User, Refuse(r, p, u)
      PROVE  ServerInv'
  BY <1>2, <1>3 DEF Refuse, Reject, serverVars
<1> QED
  BY <1>1, <1>2, <1>3, StartKeeps, StartFailsKeeps, BeginStopKeeps, StopKeeps, StopFailsKeeps,
     RpcKeeps, WaitingKeeps DEF ServerNext

-----------------------------------------------------------------------------
\* The invariant of the start, of the calls and of the shutdown.
THEOREM ServerInvariant == ServerSpec => []ServerInv
<1> QED
  BY ServerInvInit, ServerInvNext, PTL DEF ServerSpec

\* The application uses the limiter as Gateway says: each of its steps is one of the
\* gateway's, or does not touch the slots.
THEOREM ServerImplementsGateway == ServerSpec => Spec
<1>1. ServerInit => Init
  BY DEF ServerInit
<1> QED
  BY <1>1, ServerStepIsGateway, PTL DEF ServerSpec, Spec

\* No slot leaks or is given back twice through refusals, failures, cancellations and
\* the shutdown of the whole application.
THEOREM ServerCountsAreExact == ServerSpec => []CountsAreExact
<1>1. ServerInv => CountsAreExact
  BY DEF ServerInv, GatewayInv
<1> QED
  BY <1>1, ServerInvariant, PTL

\* Types, and that neither slots nor pools fall below none.
THEOREM ServerTypes == ServerSpec => []ServerTypeOK
<1>1. ServerInv => ServerTypeOK
  BY DEF ServerInv
<1> QED
  BY <1>1, ServerInvariant, PTL

\* Nobody waits for vectors, for Qdrant or for the LLM whose part is closed.
THEOREM ServerUsedPartsAreOpen == ServerSpec => []UsedPartsAreOpen
<1>1. ServerInv => UsedPartsAreOpen
  BY DEF ServerInv
<1> QED
  BY <1>1, ServerInvariant, PTL

\* What AppContext.shutdown closed stays closed, and a whole shutdown leaves nothing.
THEOREM ServerStoppedLeavesNothing == ServerSpec => []StoppedLeavesNothing
<1>1. ServerInv => StoppedLeavesNothing
  <2> SUFFICES ASSUME ServerInv PROVE StoppedLeavesNothing
    OBVIOUS
  <2>1. phase \in {"stopping", "broken"} => \A i \in 1..(at - 1) : StopOrder[i] \notin open
    BY DEF ServerInv, Closed
  <2>2. ASSUME phase = "stopped"
        PROVE  /\ open = {} /\ pools = 0
               /\ \A a \in Actor : call[a] = "none"
               /\ \A p \in Project : projectCount[p] = 0
    <3>1. open = {} /\ \A a \in Actor : call[a] = "none"
      BY <2>2 DEF ServerInv, Stopped
    <3>2. \A p \in Project : InProject(p) = {}
      BY <3>1 DEF ServerInv, SlotsAreCalls, Actor, InProject
    <3> QED
      BY <3>1, <3>2, FS_EmptySet DEF ServerInv, OnePool, GatewayInv, CountsAreExact
  <2> QED
    BY <2>1, <2>2 DEF StoppedLeavesNothing
<1> QED
  BY <1>1, ServerInvariant, PTL
=============================================================================
