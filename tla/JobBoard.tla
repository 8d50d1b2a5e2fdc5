------------------------------ MODULE JobBoard ------------------------------
(***************************************************************************)
(* What a client that polls GetIngestJobStatus may rely on: the abstract   *)
(* specification of ingestion.  A job is posted, begun once, and ended at  *)
(* most once; a job that is dropped while it is being worked on keeps the  *)
(* status "running" for good.  IngestQueue implements it.                  *)
(***************************************************************************)
CONSTANT Job

VARIABLES
  status,   \* what the job's record says
  active    \* the jobs somebody is working on

boardVars == <<status, active>>

Ended == {"completed", "failed"}

BoardInit ==
  /\ status = [j \in Job |-> "absent"]
  /\ active = {}

Post(j) ==
  /\ status[j] = "absent"
  /\ status' = [status EXCEPT ![j] = "pending"]
  /\ UNCHANGED active

Begin(j) ==
  /\ status[j] = "pending"
  /\ status' = [status EXCEPT ![j] = "running"]
  /\ active' = active \cup {j}

End(j, outcome) ==
  /\ j \in active
  /\ status' = [status EXCEPT ![j] = outcome]
  /\ active' = active \ {j}

\* Whoever ends a job may begin the next one before anybody else runs.
EndAndBegin(j, outcome, next) ==
  /\ j \in active
  /\ status[next] = "pending"
  /\ status' = [status EXCEPT ![j] = outcome, ![next] = "running"]
  /\ active' = (active \ {j}) \cup {next}

Drop(j) ==
  /\ j \in active
  /\ active' = active \ {j}
  /\ UNCHANGED status

BoardNext ==
  \E j \in Job :
    \/ Post(j)
    \/ Begin(j)
    \/ Drop(j)
    \/ \E outcome \in Ended :
         \/ End(j, outcome)
         \/ \E next \in Job : EndAndBegin(j, outcome, next)

BoardSpec == BoardInit /\ [][BoardNext]_boardVars
=============================================================================
