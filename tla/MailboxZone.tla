----------------------------- MODULE MailboxZone -----------------------------
(***************************************************************************)
(* What the DNS client promises of the mailbox records of one domain: how  *)
(* much of them there is, seen from outside.  A job that ends well has     *)
(* reached its goal, a job that stops anywhere has left something a rerun  *)
(* can start from, and a rerun of an applied guide never takes away what   *)
(* already serves.                                                         *)
(***************************************************************************)

VARIABLES
  level,     \* none, partial or full: what there is of the guide's records
  busy,      \* the job at work
  outcome,   \* how the last job ended
  disturbed  \* somebody else changed the zone or the guide under the job

vars == <<level, busy, outcome, disturbed>>

Level == {"none", "partial", "full"}
Job == {"apply", "clean"}

Init ==
  /\ level \in Level
  /\ busy = "no"
  /\ outcome = "none"
  /\ disturbed = FALSE

Goal(job) == IF job = "apply" THEN "full" ELSE "none"

Begin(job) ==
  /\ busy = "no"
  /\ busy' = job
  /\ outcome' = "none"
  /\ disturbed' = FALSE
  /\ UNCHANGED level

(* One record after the other; what is complete stays so.                   *)
Progress ==
  /\ busy # "no"
  /\ UNCHANGED <<busy, outcome, disturbed>>
  /\ level' \in Level
  /\ level = Goal(busy) /\ ~disturbed => level' = level

Succeed ==
  /\ busy # "no"
  /\ busy' = "no"
  /\ outcome' = "done"
  /\ level = Goal(busy) \/ disturbed
  /\ UNCHANGED <<level, disturbed>>

(* An error, a lost answer or the death of the process, after any number of *)
(* records.                                                                 *)
Stop ==
  /\ busy # "no"
  /\ busy' = "no"
  /\ outcome' = "failed"
  /\ UNCHANGED disturbed
  /\ level' \in Level
  /\ level = Goal(busy) /\ ~disturbed => level' = level

(* A person in the Aliyun console, or a new binding with another guide.     *)
Disturb ==
  /\ UNCHANGED <<busy, outcome>>
  /\ disturbed' = (busy # "no")
  /\ level' \in Level

Next ==
  \/ \E job \in Job : Begin(job)
  \/ Progress \/ Succeed \/ Stop \/ Disturb

Spec == Init /\ [][Next]_vars
==============================================================================
