------------------------ MODULE VersionManagerProofs ------------------------
(***************************************************************************)
(* The versions table has one active version at most, and agrees with the  *)
(* config row from the end of an activation until something else writes,   *)
(* for any set of versions, any grace period and any crashes.  What makes  *)
(* this inductive is how far each step of an activation has got.           *)
(***************************************************************************)
EXTENDS VersionManager, TLAPS

\* Where the active versions are while an operation runs.
Progress ==
  /\ Running("deactivate") => Active \subseteq op.todo
  /\ Running("activate") => Active = {}
  /\ Running("configure") => Active = {op.target}
  /\ Running("delete") => op.target = None /\ op.todo \cap Active = {}

\* What an expiry has listed stays as old as it was.
Expiring == Running("delete") => \A v \in op.todo : table[v].age = Grace

\* An activation has a target, and the agreement is suspended while it runs.
Targets ==
  /\ \A step \in {"list", "deactivate", "activate", "configure"} :
       Running(step) => op.target \in Version
  /\ \A step \in {"deactivate", "activate", "configure"} :
       Running(step) => ~settled

VersionInv ==
  /\ TypeOK
  /\ AtMostOneActive
  /\ SettledAgrees
  /\ Progress
  /\ Expiring
  /\ Targets

\* A version in the table has a record, and the record says whether it is active.
LEMMA Listing ==
  ASSUME TypeOK
  PROVE  /\ \A v \in Listed : v \in Version /\ table[v] \in Record
         /\ Active = {v \in Version : table[v] # None /\ table[v].active}
         /\ Active \subseteq Listed
BY DEF TypeOK, Listed, Active

\* There is no version and no operation at the start.
LEMMA VersionInit == Init => VersionInv
BY VersionManagerAssumption
   DEF Init, VersionInv, TypeOK, AtMostOneActive, SettledAgrees, Progress, Expiring, Targets,
       Running, Listed, Active, VersionManagerAssumption

\* Every step of an operation, and every crash, keeps the invariant.
LEMMA VersionNext == VersionInv /\ [Next]_vars => VersionInv'
<1> SUFFICES ASSUME VersionInv, [Next]_vars PROVE VersionInv'
  OBVIOUS
<1> USE VersionManagerAssumption DEF VersionManagerAssumption, VersionInv
<1>1. ASSUME NEW v \in Version, UpsertProject(v)
      PROVE  VersionInv'
  <2>1. Listed' = Listed /\ Active' = Active
    BY <1>1 DEF UpsertProject, Listed, Active
  <2>2. TypeOK'
    BY <1>1, <2>1 DEF UpsertProject, TypeOK, Operation
  <2> QED
    BY <1>1, <2>1, <2>2
       DEF UpsertProject, AtMostOneActive, SettledAgrees, Progress, Expiring, Targets, Running
<1>2. ASSUME NEW v \in Version, CallActivate(v)
      PROVE  VersionInv'
  <2>1. Listed' = Listed /\ Active' = Active
    BY <1>2 DEF CallActivate, Listed, Active
  <2>2. TypeOK'
    BY <1>2, <2>1 DEF CallActivate, TypeOK, Operation
  <2> QED
    BY <1>2, <2>1, <2>2
       DEF CallActivate, AtMostOneActive, SettledAgrees, Progress, Expiring, Targets, Running
<1>3. ASSUME NEW v \in Version, NEW makeActive \in BOOLEAN, Create(v, makeActive)
      PROVE  VersionInv'
  <2>1. [active |-> FALSE, age |-> 0] \in Record
    BY DEF Record
  <2>2. table' \in [Version -> Record \cup {None}]
    BY <1>3, <2>1 DEF Create, TypeOK
  <2>3. Listed' = Listed \cup {v} /\ Active' = Active \ {v}
    BY <1>3, <2>1 DEF Create, TypeOK, Listed, Active
  <2>4. TypeOK'
    BY <1>3, <2>2, <2>3 DEF Create, TypeOK, Operation
  <2> QED
    BY <1>3, <2>3, <2>4
       DEF Create, AtMostOneActive, SettledAgrees, Progress, Expiring, Targets, Running
<1>4. ASSUME ListVersions
      PROVE  VersionInv'
  <2>1. Listed' = Listed /\ Active' = Active
    BY <1>4 DEF ListVersions, Listed, Active
  <2>2. op \in Operation /\ op.target \in Version
    BY <1>4 DEF ListVersions, Running, TypeOK, Targets
  <2>3. op' \in Operation' /\ op'.target = op.target /\ op'.todo = Listed
        /\ op'.step = "deactivate"
    BY <1>4, <2>1, <2>2 DEF ListVersions, Operation
  <2>4. Active \subseteq Version
    BY DEF Active, Listed
  <2>5. TypeOK'
    BY <1>4, <2>1, <2>2, <2>3, <2>4 DEF ListVersions, TypeOK
  <2> QED
    BY <1>4, <2>1, <2>2, <2>3, <2>5, Listing
       DEF ListVersions, AtMostOneActive, SettledAgrees, Progress, Expiring, Targets, Running
<1>5. ASSUME NEW v \in Version, Deactivate(v)
      PROVE  VersionInv'
  <2>1. op \in Operation /\ op.target \in Version /\ v \in Listed /\ ~settled
    BY <1>5 DEF Deactivate, Running, TypeOK, Targets, Operation
  <2>2. table' = [table EXCEPT ![v] = [table[v] EXCEPT !.active = FALSE]]
    BY <1>5 DEF Deactivate
  <2>3. /\ [table[v] EXCEPT !.active = FALSE] \in Record
        /\ [table[v] EXCEPT !.active = FALSE].active = FALSE
    BY <2>1, Listing DEF Record
  <2>4. Listed' = Listed /\ Active' = Active \ {v}
    BY <2>1, <2>2, <2>3 DEF TypeOK, Listed, Active
  <2>5. /\ op' \in Operation'
        /\ op'.target = op.target
        /\ op'.todo = op.todo \ {v}
        /\ op'.step = IF op.todo = {v} THEN "activate" ELSE "deactivate"
    BY <1>5, <2>1, <2>4 DEF Deactivate, Running, Operation
  <2>6. TypeOK'
    BY <1>5, <2>2, <2>3, <2>5 DEF Deactivate, TypeOK
  <2>7. AtMostOneActive' /\ SettledAgrees' /\ Targets'
    BY <1>5, <2>1, <2>4, <2>5
       DEF Deactivate, AtMostOneActive, SettledAgrees, Targets, Running
  <2>8. Active \subseteq op.todo
    BY <1>5 DEF Deactivate, Progress
  <2>9. Progress' /\ Expiring'
    BY <2>4, <2>5, <2>8 DEF Progress, Expiring, Running
  <2> QED
    BY <2>6, <2>7, <2>9
<1>6. ASSUME Activate
      PROVE  VersionInv'
  <2>1. op \in Operation /\ op.target \in Version /\ op.target \in Listed /\ ~settled
    BY <1>6 DEF Activate, Running, TypeOK, Targets, Operation
  <2>2. table' = [table EXCEPT ![op.target] = [table[op.target] EXCEPT !.active = TRUE]]
    BY <1>6 DEF Activate
  <2>3. /\ [table[op.target] EXCEPT !.active = TRUE] \in Record
        /\ [table[op.target] EXCEPT !.active = TRUE].active = TRUE
    BY <2>1, Listing DEF Record
  <2>4. Active = {}
    BY <1>6 DEF Activate, Progress
  <2>5. Listed' = Listed /\ Active' = {op.target}
    BY <2>1, <2>2, <2>3, <2>4 DEF TypeOK, Listed, Active
  <2>6. /\ op' \in Operation'
        /\ op'.target = op.target
        /\ op'.step = "configure"
    BY <1>6, <2>1, <2>5 DEF Activate, Operation
  <2>7. TypeOK'
    BY <1>6, <2>2, <2>3, <2>6 DEF Activate, TypeOK
  <2> QED
    BY <1>6, <2>1, <2>5, <2>6, <2>7
       DEF Activate, AtMostOneActive, SettledAgrees, Progress, Expiring, Targets, Running
<1>7. ASSUME Configure
      PROVE  VersionInv'
  <2>1. op.target \in Version /\ Active = {op.target}
    BY <1>7 DEF Configure, Targets, Progress
  <2>2. Listed' = Listed /\ Active' = Active
    BY <1>7 DEF Configure, Listed, Active
  <2>3. TypeOK'
    BY <1>7, <2>1 DEF Configure, TypeOK
  <2> QED
    BY <1>7, <2>1, <2>2, <2>3
       DEF Configure, AtMostOneActive, SettledAgrees, Progress, Expiring, Targets, Running
<1>8. ASSUME Expire
      PROVE  VersionInv'
  <2>1. Listed' = Listed /\ Active' = Active
    BY <1>8 DEF Expire, Listed, Active
  <2>2. TypeOK'
    BY <1>8, <2>1 DEF Expire, TypeOK, Operation
  <2>3. \A v \in Listed : table[v].age >= Grace => table[v].age = Grace
    BY Listing DEF Record
  <2> QED
    BY <1>8, <2>1, <2>2, <2>3
       DEF Expire, AtMostOneActive, SettledAgrees, Progress, Expiring, Targets, Running
<1>9. ASSUME NEW v \in Version, Delete(v)
      PROVE  VersionInv'
  <2>1. op \in Operation /\ op.target = None /\ v \notin Active
    BY <1>9 DEF Delete, Running, TypeOK, Progress
  <2>2. table' \in [Version -> Record \cup {None}]
    BY <1>9 DEF Delete, TypeOK
  <2>3. Listed' = Listed \ {v} /\ Active' = Active
    BY <1>9, <2>1 DEF Delete, TypeOK, Listed, Active
  <2>4. /\ op' \in Operation'
        /\ op'.target = None
        /\ op'.todo = op.todo \ {v}
        /\ op'.step = "delete"
    BY <1>9, <2>1, <2>3 DEF Delete, Running, Operation
  <2>5. TypeOK'
    BY <1>9, <2>2, <2>4 DEF Delete, TypeOK
  <2>6. Expiring'
    BY <1>9, <2>1, <2>4 DEF Delete, Expiring, TypeOK, Operation, Listed
  <2> QED
    BY <1>9, <2>3, <2>4, <2>5, <2>6
       DEF Delete, AtMostOneActive, SettledAgrees, Progress, Expiring, Targets, Running
<1>10. ASSUME ExpireReturns \/ Crash \/ Restart
       PROVE  VersionInv'
  <2>1. /\ op' \in {None, Down}
        /\ UNCHANGED <<table, config, settled, swap>>
    BY <1>10 DEF ExpireReturns, Crash, Restart
  <2>2. Listed' = Listed /\ Active' = Active
    BY <2>1 DEF Listed, Active
  <2>3. TypeOK'
    BY <2>1 DEF TypeOK
  <2> QED
    BY <2>1, <2>2, <2>3 DEF AtMostOneActive, SettledAgrees, Progress, Expiring, Targets, Running
<1>11. ASSUME Tick
       PROVE  VersionInv'
  <2>1. \A v \in Version :
          /\ table[v] = None <=> table'[v] = None
          /\ table'[v] \in Record \cup {None}
          /\ table[v] # None => table'[v].active = table[v].active
    BY <1>11, Listing DEF Tick, TypeOK, Listed, Record
  <2>2. Listed' = Listed /\ Active' = Active
    BY <2>1 DEF Listed, Active
  <2>3. TypeOK'
    BY <1>11, <2>1, <2>2 DEF Tick, TypeOK, Operation
  <2>4. Expiring'
    BY <1>11 DEF Tick, Expiring, Running, TypeOK, Operation, Listed
  <2> QED
    BY <1>11, <2>2, <2>3, <2>4
       DEF Tick, AtMostOneActive, SettledAgrees, Progress, Expiring, Targets, Running
<1>12. CASE UNCHANGED vars
  <2>1. Listed' = Listed /\ Active' = Active
    BY <1>12 DEF vars, Listed, Active
  <2>2. TypeOK'
    BY <1>12, <2>1 DEF vars, TypeOK, Operation
  <2> QED
    BY <1>12, <2>1, <2>2
       DEF vars, AtMostOneActive, SettledAgrees, Progress, Expiring, Targets, Running
<1> QED
  BY <1>1, <1>2, <1>3, <1>4, <1>5, <1>6, <1>7, <1>8, <1>9, <1>10, <1>11, <1>12
     DEF Next, Step

\* The strengthened invariant of EmbeddingVersionManager, crashes included.
THEOREM VersionInvariant == Spec => []VersionInv
<1> QED
  BY VersionInit, VersionNext, PTL DEF Spec

\* get_active_version has one answer at most, crashes included.
THEOREM VersionAtMostOneActive == Spec => []AtMostOneActive
<1>1. VersionInv => AtMostOneActive
  BY DEF VersionInv
<1> QED
  BY <1>1, VersionInvariant, PTL

\* Table and config row agree from the end of an activation until the next write.
THEOREM VersionSettledAgrees == Spec => []SettledAgrees
<1>1. VersionInv => SettledAgrees
  BY DEF VersionInv
<1> QED
  BY <1>1, VersionInvariant, PTL

\* No expiry removes a version in use or within its grace period.
THEOREM VersionOnlyExpiredAreDeleted == Spec => OnlyExpiredAreDeleted
<1> DEFINE Kept == \A v \in Version :
                     table[v] # None /\ table'[v] = None =>
                       ~table[v].active /\ table[v].age = Grace
<1>1. VersionInv /\ [Next]_vars => [Kept]_vars
  <2> SUFFICES ASSUME VersionInv, Next
               PROVE  Kept
    OBVIOUS
  <2> USE VersionManagerAssumption DEF VersionManagerAssumption, VersionInv
  <2>1. ASSUME NEW v \in Version, Delete(v)
        PROVE  Kept
    <3>1. v \notin Active /\ table[v].age = Grace
      BY <2>1 DEF Delete, Progress, Expiring
    <3> QED
      BY <2>1, <3>1 DEF Delete, TypeOK, Active, Listed
  <2>2. ASSUME NEW v \in Version, NEW makeActive \in BOOLEAN, Create(v, makeActive)
        PROVE  Kept
    <3>1. [active |-> FALSE, age |-> 0] \in Record
      BY DEF Record
    <3> QED
      BY <2>2, <3>1 DEF Create, TypeOK
  <2>3. ASSUME NEW v \in Version, Deactivate(v)
        PROVE  Kept
    <3>1. v \in Listed
      BY <2>3 DEF Deactivate, Running, TypeOK, Operation
    <3>2. [table[v] EXCEPT !.active = FALSE] \in Record
      BY <3>1, Listing DEF Record
    <3> QED
      BY <2>3, <3>2 DEF Deactivate, TypeOK
  <2>4. ASSUME Activate
        PROVE  Kept
    <3>1. op.target \in Listed
      BY <2>4 DEF Activate, Running, TypeOK, Operation, Targets
    <3>2. [table[op.target] EXCEPT !.active = TRUE] \in Record
      BY <3>1, Listing DEF Record
    <3> QED
      BY <2>4, <3>2 DEF Activate, TypeOK
  <2>5. ASSUME Tick
        PROVE  Kept
    BY <2>5, Listing DEF Tick, TypeOK, Listed, Record
  <2>6. ASSUME table' = table
        PROVE  Kept
    BY <2>6
  <2> QED
    BY <2>1, <2>2, <2>3, <2>4, <2>5, <2>6
       DEF Next, Step, UpsertProject, CallActivate, ListVersions, Configure, Expire,
           ExpireReturns, Crash, Restart
<1> QED
  BY <1>1, VersionInvariant, PTL DEF Spec, OnlyExpiredAreDeleted
=============================================================================
