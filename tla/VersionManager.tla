--------------------------- MODULE VersionManager ---------------------------
(***************************************************************************)
(* The embedding versions of one project: the versions table and the       *)
(* active_embedding_version of the project's config row, both in SQLite.   *)
(* Every helper of VersionManager is a transaction of its own, and an      *)
(* operation is a sequence of them: a crash, or a config row that is       *)
(* missing, leaves what was committed so far.  The manager never suspends, *)
(* so no two operations of a process overlap.                              *)
(***************************************************************************)
EXTENDS Integers

CONSTANTS
  Version,
  Blank,  \* the versions whose name is empty or only spaces
  Grace,  \* grace period, in ticks
  None,   \* no record, no config row, no operation in progress
  Down    \* no process

Record == [active : BOOLEAN, age : 0 .. Grace]

ASSUME VersionManagerAssumption ==
  /\ Grace \in Nat
  /\ Blank \subseteq Version
  /\ None \notin Version \cup Record
  /\ Down # None

VARIABLES
  table,    \* the record of each version: is it active, how old is it
  config,   \* active_embedding_version of the config row
  op,       \* the operation in progress: its next step and what is left of it
  settled,  \* history: an activation completed and nothing has touched its result
  swap      \* history: the last activation, what was there before and its target

vars == <<table, config, op, settled, swap>>

Listed == {v \in Version : table[v] # None}
Active == {v \in Listed : table[v].active}

Running(step) == op \notin {None, Down} /\ op.step = step

Init ==
  /\ table = [v \in Version |-> None]
  /\ config \in (Version \ Blank) \cup {None}
  /\ op = None
  /\ settled = FALSE
  /\ swap = None

\* upsert_project: the operator writes the config row, the version in it included,
\* which ProjectConfig does not let be blank.
UpsertProject(v) ==
  /\ op = None
  /\ v \notin Blank
  /\ config' = v
  /\ settled' = (settled /\ v = config)
  /\ swap' = None
  /\ UNCHANGED <<table, op>>

\* create_new_version up to the commit of the record.  It replaces a record of the
\* same version, the active one too, and the new record is not active.
Create(v, makeActive) ==
  /\ op = None
  /\ table' = [table EXCEPT ![v] = [active |-> FALSE, age |-> 0]]
  /\ op' = IF makeActive THEN [step |-> "list", target |-> v, todo |-> {}] ELSE None
  /\ settled' = (settled /\ v \notin Active)
  /\ swap' = None
  /\ UNCHANGED config

\* activate_version of a version that has a record (otherwise it raises).
CallActivate(v) ==
  /\ op = None
  /\ v \in Listed
  /\ op' = [step |-> "list", target |-> v, todo |-> {}]
  /\ swap' = None
  /\ UNCHANGED <<table, config, settled>>

\* Mutant: only the target is touched, the versions in use stay active.
ListNothing ==
  /\ Running("list")
  /\ op' = [op EXCEPT !.step = "activate"]
  /\ settled' = FALSE
  /\ swap' = [active |-> Active, config |-> config, target |-> op.target]
  /\ UNCHANGED <<table, config>>

ListVersions ==
  /\ Running("list")
  /\ op' = [op EXCEPT !.step = "deactivate", !.todo = Listed]
  /\ settled' = FALSE
  /\ swap' = [active |-> Active, config |-> config, target |-> op.target]
  /\ UNCHANGED <<table, config>>

\* _set_active(v, False), a transaction for each listed version.
Deactivate(v) ==
  /\ Running("deactivate")
  /\ v \in op.todo
  /\ table' = [table EXCEPT ![v].active = FALSE]
  /\ op' = [op EXCEPT !.todo = @ \ {v},
                      !.step = IF op.todo = {v} THEN "activate" ELSE @]
  /\ UNCHANGED <<config, settled, swap>>

\* Mutant: the config row is left alone.
ActivateOnly ==
  /\ Running("activate")
  /\ table' = [table EXCEPT ![op.target].active = TRUE]
  /\ op' = None
  /\ settled' = TRUE
  /\ UNCHANGED <<config, swap>>

\* _set_active(target, True).
Activate ==
  /\ Running("activate")
  /\ table' = [table EXCEPT ![op.target].active = TRUE]
  /\ op' = [op EXCEPT !.step = "configure"]
  /\ UNCHANGED <<config, settled, swap>>

\* set_active_embedding_version: it raises when the version is blank (repository.py:86),
\* at which nothing before it looks, and when the project has no config row.
Configure ==
  /\ Running("configure")
  /\ op' = None
  /\ \/ config # None /\ op.target \notin Blank /\ config' = op.target /\ settled' = TRUE
     \/ (config = None \/ op.target \in Blank) /\ UNCHANGED <<config, settled>>
  /\ UNCHANGED <<table, swap>>

\* Mutant: the active version is as good as any other.
ExpireActive ==
  /\ op = None
  /\ op' = [step |-> "delete", target |-> None,
            todo |-> {v \in Listed : table[v].age >= Grace}]
  /\ swap' = None
  /\ UNCHANGED <<table, config, settled>>

\* delete_expired_versions: the listing decides, the age counts from the creation.
Expire ==
  /\ op = None
  /\ op' = [step |-> "delete", target |-> None,
            todo |-> {v \in Listed \ Active : table[v].age >= Grace}]
  /\ swap' = None
  /\ UNCHANGED <<table, config, settled>>

\* _delete_version, a transaction for each; at the end the operation returns.
Delete(v) ==
  /\ Running("delete")
  /\ v \in op.todo
  /\ table' = [table EXCEPT ![v] = None]
  /\ op' = [op EXCEPT !.todo = @ \ {v}]
  /\ UNCHANGED <<config, settled, swap>>

ExpireReturns ==
  /\ Running("delete")
  /\ op.todo = {}
  /\ op' = None
  /\ UNCHANGED <<table, config, settled, swap>>

\* The process dies in an operation; a new one finds what was committed.
Crash ==
  /\ op \notin {None, Down}
  /\ op' = Down
  /\ UNCHANGED <<table, config, settled, swap>>

Restart ==
  /\ op = Down
  /\ op' = None
  /\ UNCHANGED <<table, config, settled, swap>>

Tick ==
  /\ \E v \in Listed : table[v].age < Grace
  /\ table' = [v \in Version |->
                 IF v \in Listed /\ table[v].age < Grace
                 THEN [table[v] EXCEPT !.age = @ + 1]
                 ELSE table[v]]
  /\ UNCHANGED <<config, op, settled, swap>>

\* The next transaction of the operation in progress.
Step ==
  \/ ListVersions
  \/ Activate
  \/ Configure
  \/ ExpireReturns
  \/ \E v \in Version : Deactivate(v) \/ Delete(v)

Next ==
  \/ \E v \in Version :
       \/ UpsertProject(v)
       \/ CallActivate(v)
       \/ \E makeActive \in BOOLEAN : Create(v, makeActive)
  \/ Step
  \/ Expire
  \/ Crash
  \/ Restart
  \/ Tick

Spec == Init /\ [][Next]_vars

\* A running operation goes on: nothing in it waits for anybody.
FairSpec == Spec /\ WF_vars(Step)

-----------------------------------------------------------------------------
\* What an operation works on has a record.
Operation ==
  [step : {"list", "deactivate", "activate", "configure", "delete"},
   target : Listed \cup {None}, todo : SUBSET Listed]

TypeOK ==
  /\ table \in [Version -> Record \cup {None}]
  /\ config \in Version \cup {None}
  /\ op \in Operation \cup {None, Down}
  /\ settled \in BOOLEAN
  /\ swap \in [active : SUBSET Version, config : Version \cup {None},
               target : Version] \cup {None}

\* get_active_version has one answer at most, whatever crashed in between.
AtMostOneActive == \A v, w \in Active : v = w

\* The table and the config row name the same version, and it has a record, from
\* the end of an activation until something else writes: another activation, a new
\* record for the active version, or the operator.  Expiry does not break it.
SettledAgrees == settled => Active = {config}

\* An expiry removes no version in use and none within its grace period, though it
\* acts on what it listed some transactions ago.
OnlyExpiredAreDeleted ==
  [][\A v \in Version :
       table[v] # None /\ table'[v] = None =>
         ~table[v].active /\ table[v].age = Grace]_vars

\* An interrupted activation can be repeated: whatever state it finds, an activation
\* of a version with a name, of a project that has a config row, ends with its target,
\* and nothing else, active and configured, or with a crash.
ActivationSettles ==
  \A v \in Version \ Blank :
    (Running("list") /\ op.target = v /\ config # None) ~>
      (op = Down \/ (op = None /\ config = v /\ Active = {v}))

\* What manager.py says of itself: "atomic version swaps".  When no operation runs,
\* the last activation of a project that has a config row has happened as a whole or
\* not at all.
AtomicSwap ==
  op = None /\ swap # None /\ config # None =>
    \/ Active = swap.active /\ config = swap.config
    \/ Active = {swap.target} /\ config = swap.target
=============================================================================
