------------------------------ MODULE Gateway ------------------------------
(***************************************************************************)
(* The concurrency limiter of the gateway.  RagGateway.prepare_search and  *)
(* prepare_ingest hold a slot of the project and one of its user while     *)
(* they ask the project's adapter for config, scope and filter; adapters   *)
(* are async, so many requests may be in preparation at once.  The slots   *)
(* are given back before the engine runs the plan.                         *)
(*                                                                         *)
(* No method of the limiter suspends while it holds its lock, so acquire   *)
(* and release are steps.  A count of zero stands for a missing dict key.  *)
(***************************************************************************)
EXTENDS Integers, FiniteSets

CONSTANTS
  Request,       \* the RPCs that may be in the gateway at once
  Project,
  User,
  MaxPerProject,
  MaxPerUser,
  None           \* an RPC outside of the limiter

ASSUME GatewayAssumption ==
  /\ IsFiniteSet(Request)
  /\ MaxPerProject \in Nat \ {0}
  /\ MaxPerUser \in Nat \ {0}
  /\ None \notin Project \X User

VARIABLES
  scope,         \* the project and user each RPC prepares a plan for
  projectCount,  \* _project_counts
  userCount      \* _user_counts

vars == <<scope, projectCount, userCount>>

Init ==
  /\ scope = [r \in Request |-> None]
  /\ projectCount = [p \in Project |-> 0]
  /\ userCount = [s \in Project \X User |-> 0]

\* _acquire: both limits are compared before either count changes.
Acquire(r, p, u) ==
  /\ scope[r] = None
  /\ projectCount[p] < MaxPerProject
  /\ userCount[<<p, u>>] < MaxPerUser
  /\ projectCount' = [projectCount EXCEPT ![p] = @ + 1]
  /\ userCount' = [userCount EXCEPT ![<<p, u>>] = @ + 1]
  /\ scope' = [scope EXCEPT ![r] = <<p, u>>]

\* ConcurrencyLimitExceededError: the request is refused and leaves no trace.
Reject(r, p, u) ==
  /\ scope[r] = None
  /\ projectCount[p] >= MaxPerProject \/ userCount[<<p, u>>] >= MaxPerUser
  /\ UNCHANGED vars

\* Mutant: the caller releases as well as the `finally`.
ReleaseTwice(r) ==
  /\ scope[r] # None
  /\ projectCount' = [projectCount EXCEPT ![scope[r][1]] = @ - 2]
  /\ userCount' = [userCount EXCEPT ![scope[r]] = @ - 2]
  /\ scope' = [scope EXCEPT ![r] = None]

\* The plan is ready, the adapter raised, it changed the scope, or the RPC was
\* cancelled: the `finally` of limit() releases in every case.
Release(r) ==
  /\ scope[r] # None
  /\ projectCount' = [projectCount EXCEPT ![scope[r][1]] = @ - 1]
  /\ userCount' = [userCount EXCEPT ![scope[r]] = @ - 1]
  /\ scope' = [scope EXCEPT ![r] = None]

Next ==
  \E r \in Request :
    \/ \E p \in Project, u \in User : Acquire(r, p, u) \/ Reject(r, p, u)
    \/ Release(r)

Spec == Init /\ [][Next]_vars

-----------------------------------------------------------------------------
InProject(p) == {r \in Request : scope[r] # None /\ scope[r][1] = p}
OfUser(s) == {r \in Request : scope[r] = s}

TypeOK ==
  /\ scope \in [Request -> (Project \X User) \cup {None}]
  /\ projectCount \in [Project -> Nat]
  /\ userCount \in [Project \X User -> Nat]

\* No slot leaks and none is given back twice: the counts are the requests in
\* preparation, of the project and of the user, after any mix of refusals, failures
\* and cancellations.
CountsAreExact ==
  /\ \A p \in Project : projectCount[p] = Cardinality(InProject(p))
  /\ \A s \in Project \X User : userCount[s] = Cardinality(OfUser(s))

\* Never more requests in preparation than the limits allow.
LimitsHold ==
  /\ \A p \in Project : Cardinality(InProject(p)) <= MaxPerProject
  /\ \A s \in Project \X User : Cardinality(OfUser(s)) <= MaxPerUser
=============================================================================
