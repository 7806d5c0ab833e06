--------------------------- MODULE AliyunDnsProofs ---------------------------
(***************************************************************************)
(* The jobs on a mailbox's DNS records keep what AliyunDns states, for     *)
(* every zone, every guide that asks for mailbox records and any number of *)
(* jobs, failures and edits.                                               *)
(***************************************************************************)
EXTENDS AliyunDns, TLAPS

(* What a job is given, and what it knows at each call as long as nobody    *)
(* else touches the zone or the guide.                                      *)
JobShape ==
  /\ job = "no" <=> pc = "idle"
  /\ job = "clean" => pc \in {"list", "delete"}

OwnRecords ==
  /\ job = "apply" => want \subseteq Records /\ want # {}
  /\ job = "apply" /\ ~disturbed => want = Parsed(guide)
  /\ job = "clean" /\ ~disturbed => want \subseteq CleanupWanted \cup Parsed(guide)

DoomedInTheWay == pc = "delete" /\ ~disturbed => doomed = InTheWay

MissingStillMissing ==
  pc = "add" /\ ~disturbed => InTheWay = {} /\ missing = want \ Held

Inv ==
  /\ TypeOK
  /\ JobShape
  /\ OwnRecords
  /\ DoomedInTheWay
  /\ MissingStillMissing

-----------------------------------------------------------------------------
(* Whether a record conflicts does not depend on the job: a guide asks for  *)
(* mailbox records only.                                                    *)
LEMMA ConflictSame ==
  ASSUME NEW g \in Guides, NEW w \in SUBSET (CleanupWanted \cup Parsed(g)), NEW r
  PROVE  Conflict(r, w) <=> MailboxRecord(r)
<1>1. MailboxRecord(r) => Conflict(r, w)
  BY DEF Conflict, MailboxRecord
<1>2. ASSUME NEW x \in w PROVE MailboxRecord(x)
  <2>1. CASE x = [type |-> "TXT", host |-> "verify", value |-> ""]
    BY <2>1 DEF MailboxRecord
  <2>2. CASE x = [type |-> "MX", host |-> "@", value |-> ""]
    BY <2>2 DEF MailboxRecord, MailboxHosts
  <2>3. CASE x = [type |-> "MX", host |-> "*", value |-> ""]
    BY <2>3 DEF MailboxRecord, MailboxHosts
  <2>4. CASE x \in Parsed(g)
    BY <2>4, GuidesAssumption
  <2> QED
    BY <2>1, <2>2, <2>3, <2>4 DEF CleanupWanted
<1>3. Conflict(r, w) => MailboxRecord(r)
  BY <1>2 DEF Conflict, MailboxRecord
<1> QED
  BY <1>1, <1>3

LEMMA CleanupTyped ==
  ASSUME TypeOK
  PROVE  Parsed(guide) \subseteq Records
BY GuidesAssumption DEF TypeOK, Parsed

(* What is in the way of a job is a mailbox's record.                       *)
LEMMA InTheWayIsMailbox ==
  ASSUME Inv, job # "no", ~disturbed, NEW i \in Ids
  PROVE  i \in InTheWay <=> /\ zone[i] # NoRecord
                            /\ MailboxRecord(zone[i])
                            /\ job = "apply" => zone[i] \notin want
<1>1. guide \in Guides /\ want \in SUBSET (CleanupWanted \cup Parsed(guide))
  BY DEF Inv, TypeOK, OwnRecords
<1> QED
  BY <1>1, ConflictSame DEF InTheWay

-----------------------------------------------------------------------------
LEMMA InitInv == Init => Inv
BY DEF Init, Inv, TypeOK, JobShape, OwnRecords, DoomedInTheWay, MissingStillMissing

(* The end of a job leaves nothing to be known.                             *)
LEMMA FinishInv ==
  ASSUME Inv, NEW how \in {"done", "failed"}, Finish(how),
         zone' \in [Ids -> Records \cup {NoRecord}], hosted' \in BOOLEAN,
         UNCHANGED <<ns, guide>>
  PROVE  Inv'
BY DEF Inv, TypeOK, JobShape, OwnRecords, DoomedInTheWay, MissingStillMissing, Finish

LEMMA StartInv ==
  ASSUME Inv, NEW kind, NEW first, NEW records \in SUBSET (CleanupWanted \cup Parsed(guide)),
         Start(kind, first, records),
         \/ kind = "apply" /\ first = "ns" /\ records = Parsed(guide) /\ records # {}
         \/ kind = "clean" /\ first = "list"
  PROVE  Inv'
<1>1. Parsed(guide) \subseteq Records
  BY CleanupTyped DEF Inv
<1> QED
  BY <1>1 DEF Inv, TypeOK, JobShape, OwnRecords, DoomedInTheWay, MissingStillMissing,
              Start, world

LEMMA DeletedTyped ==
  ASSUME Inv, NEW i \in Ids, Deleted(i)
  PROVE  zone' \in [Ids -> Records \cup {NoRecord}]
BY DEF Inv, TypeOK, Deleted

LEMMA AddedTyped ==
  ASSUME Inv, NEW r \in missing, Added(r)
  PROVE  zone' \in [Ids -> Records \cup {NoRecord}]
<1>1. CASE UNCHANGED zone
  BY <1>1 DEF Inv, TypeOK
<1>2. ASSUME NEW i \in Ids, zone' = [zone EXCEPT ![i] = r]
      PROVE  zone' \in [Ids -> Records \cup {NoRecord}]
  BY <1>2 DEF Inv, TypeOK
<1> QED
  BY <1>1, <1>2 DEF Added

(* Adding a missing record.                                                 *)
LEMMA AddInv ==
  ASSUME Inv, NEW r \in missing, AddRecord(r)
  PROVE  Inv'
<1>1. TypeOK' /\ JobShape' /\ OwnRecords'
  BY AddedTyped DEF Inv, TypeOK, JobShape, OwnRecords, AddRecord, world
<1>2. DoomedInTheWay'
  BY DEF AddRecord, DoomedInTheWay
<1>3. ASSUME ~disturbed
      PROVE  InTheWay' = {} /\ missing' = want' \ Held'
  <2>1. missing = want \ Held /\ InTheWay = {} /\ r \in want \ Held /\ job = "apply"
    BY <1>3 DEF Inv, MissingStillMissing, AddRecord, JobShape, TypeOK
  <2>2. PICK i \in Ids : zone[i] = NoRecord /\ zone' = [zone EXCEPT ![i] = r]
    BY <2>1 DEF AddRecord, Added
  <2>3. r # NoRecord
    BY RecordsAssumption DEF Inv, TypeOK
  <2>4. \A j \in Ids : zone'[j] = IF j = i THEN r ELSE zone[j]
    BY <2>2 DEF Inv, TypeOK
  <2>5. Held' = Held \cup {r}
    BY <2>2, <2>3, <2>4 DEF Held
  <2>6. InTheWay' = {}
    BY <2>1, <2>4 DEF InTheWay, AddRecord
  <2> QED
    BY <2>1, <2>5, <2>6 DEF AddRecord
<1> QED
  BY <1>1, <1>2, <1>3 DEF Inv, MissingStillMissing, AddRecord

(* Deleting a record that is in the way.                                    *)
LEMMA DeleteInv ==
  ASSUME Inv, NEW i \in Ids, DeleteRecord(i)
  PROVE  Inv'
<1>1. TypeOK' /\ JobShape' /\ OwnRecords'
  BY DeletedTyped DEF Inv, TypeOK, JobShape, OwnRecords, DeleteRecord, world
<1>2. MissingStillMissing'
  BY DEF DeleteRecord, MissingStillMissing
<1>3. ASSUME ~disturbed
      PROVE  doomed' = InTheWay'
  <2>1. doomed = InTheWay
    BY <1>3 DEF Inv, DoomedInTheWay, DeleteRecord
  <2>2. \A j \in Ids : zone'[j] = IF j = i THEN NoRecord ELSE zone[j]
    BY DEF DeleteRecord, Deleted, Inv, TypeOK
  <2> QED
    BY <2>1, <2>2 DEF InTheWay, DeleteRecord
<1> QED
  BY <1>1, <1>2, <1>3 DEF Inv, DoomedInTheWay, DeleteRecord

LEMMA StepInv == Inv /\ [Next]_vars => Inv'
<1> SUFFICES ASSUME Inv, [Next]_vars PROVE Inv'
  OBVIOUS
<1>1. CASE StartApply
  BY <1>1, StartInv DEF StartApply, Complete
<1>2. CASE StartClean
  BY <1>2, StartInv DEF StartClean
<1>3. CASE CheckNameservers
  <2>1. CASE ns
    BY <1>3, <2>1 DEF CheckNameservers, world, Inv, TypeOK, JobShape, OwnRecords,
                      DoomedInTheWay, MissingStillMissing
  <2>2. CASE ~ns
    BY <1>3, <2>2, FinishInv DEF CheckNameservers, world, Inv, TypeOK
  <2> QED
    BY <2>1, <2>2
<1>4. CASE EnsureDomain
  BY <1>4 DEF EnsureDomain, Inv, TypeOK, JobShape, OwnRecords, DoomedInTheWay,
              MissingStillMissing
<1>5. CASE ListRecords
  <2>1. InTheWay' = InTheWay
    BY <1>5 DEF ListRecords, InTheWay
  <2>2. InTheWay \subseteq Ids
    BY DEF InTheWay
  <2> QED
    BY <1>5, <2>1, <2>2 DEF ListRecords, world, Inv, TypeOK, JobShape, OwnRecords,
                            DoomedInTheWay, MissingStillMissing
<1>6. CASE ListAgain
  <2>1. InTheWay' = InTheWay /\ Held' = Held
    BY <1>6 DEF ListAgain, InTheWay, Held
  <2>2. TypeOK' /\ JobShape' /\ OwnRecords' /\ DoomedInTheWay'
    BY <1>6 DEF ListAgain, world, Inv, TypeOK, JobShape, OwnRecords, DoomedInTheWay
  <2>3. MissingStillMissing'
    BY <1>6, <2>1 DEF ListAgain, Inv, DoomedInTheWay, MissingStillMissing
  <2> QED
    BY <2>2, <2>3 DEF Inv
<1>7. CASE Return
  BY <1>7, FinishInv DEF Return, world, Inv, TypeOK
<1>8. CASE CallFails
  BY <1>8, FinishInv DEF CallFails, world, Inv, TypeOK
<1>9. CASE CallUnanswered
  <2>1. zone' \in [Ids -> Records \cup {NoRecord}] /\ hosted' \in BOOLEAN
    BY <1>9, DeletedTyped, AddedTyped DEF CallUnanswered, Inv, TypeOK
  <2> QED
    BY <1>9, <2>1, FinishInv DEF CallUnanswered
<1>10. ASSUME NEW i \in Ids, DeleteRecord(i) PROVE Inv'
  BY <1>10, DeleteInv
<1>11. ASSUME NEW r \in missing, AddRecord(r) PROVE Inv'
  BY <1>11, AddInv
<1>12. ASSUME NEW i \in Ids, NEW r \in Records \cup {NoRecord}, PersonEdits(i, r) PROVE Inv'
  BY <1>12 DEF PersonEdits, world, Inv, TypeOK, JobShape, OwnRecords, DoomedInTheWay,
               MissingStillMissing
<1>13. ASSUME NEW g \in Guides, Rebound(g) PROVE Inv'
  BY <1>13 DEF Rebound, Inv, TypeOK, JobShape, OwnRecords, DoomedInTheWay,
               MissingStillMissing
<1>14. CASE NameserversChange
  <2>1. InTheWay' = InTheWay /\ Held' = Held
    BY <1>14 DEF NameserversChange, InTheWay, Held
  <2> QED
    BY <1>14, <2>1 DEF NameserversChange, Inv, TypeOK, JobShape, OwnRecords, DoomedInTheWay,
                       MissingStillMissing
<1>15. CASE UNCHANGED vars
  <2>1. InTheWay' = InTheWay /\ Held' = Held
    BY <1>15 DEF vars, InTheWay, Held
  <2> QED
    BY <1>15, <2>1 DEF vars, Inv, TypeOK, JobShape, OwnRecords, DoomedInTheWay,
                       MissingStillMissing
<1> QED
  BY <1>1, <1>2, <1>3, <1>4, <1>5, <1>6, <1>7, <1>8, <1>9, <1>10, <1>11, <1>12, <1>13,
     <1>14, <1>15 DEF Next, Program, Outside

-----------------------------------------------------------------------------
(* Every state is well typed.                                               *)
THEOREM TypeCorrect == Spec => []TypeOK
<1>1. Inv => TypeOK
  BY DEF Inv
<1> QED
  BY InitInv, StepInv, <1>1, PTL DEF Spec

(* A job deletes and replaces mailbox records only.                         *)
LEMMA KeptStep ==
  ASSUME Inv, [Next]_vars, job # "no", ~disturbed',
         NEW i \in Ids, zone'[i] # zone[i], zone[i] # NoRecord
  PROVE  MailboxRecord(zone[i])
<1>1. ASSUME i \in doomed, pc = "delete", ~disturbed PROVE MailboxRecord(zone[i])
  BY <1>1, InTheWayIsMailbox DEF Inv, DoomedInTheWay
<1>2. ASSUME NEW j \in Ids, Deleted(j) PROVE i = j
  BY <1>2 DEF Deleted, Inv, TypeOK
<1>3. ASSUME NEW r, Added(r) PROVE FALSE
  <2>1. PICK j \in Ids : zone[j] = NoRecord /\ zone' = [zone EXCEPT ![j] = r]
    BY <1>3 DEF Added
  <2> QED
    BY <2>1 DEF Inv, TypeOK
<1>4. CASE \E j \in Ids : DeleteRecord(j)
  BY <1>4, <1>1, <1>2 DEF DeleteRecord
<1>5. CASE CallUnanswered
  BY <1>5, <1>1, <1>2, <1>3 DEF CallUnanswered, Finish, Inv, TypeOK
<1>6. CASE \E r \in missing : AddRecord(r)
  BY <1>6, <1>3 DEF AddRecord
<1>7. ASSUME NEW j \in Ids, NEW r \in Records \cup {NoRecord}, PersonEdits(j, r) PROVE FALSE
  BY <1>7 DEF PersonEdits
<1> QED
  BY <1>4, <1>5, <1>6, <1>7
  DEF Next, Program, Outside, StartApply, StartClean, Start, CheckNameservers, EnsureDomain,
      ListRecords, ListAgain, Return, CallFails, Rebound, NameserversChange, vars, world

THEOREM JobsKeepUnrelated == Spec => UnrelatedKept
<1>1. Inv /\ [Next]_vars =>
        [job # "no" /\ ~disturbed' =>
           \A i \in Ids : zone'[i] # zone[i] /\ zone[i] # NoRecord
                            => MailboxRecord(zone[i])]_vars
  BY KeptStep
<1> QED
  BY InitInv, StepInv, <1>1, PTL DEF Spec, UnrelatedKept

-----------------------------------------------------------------------------
(* The refinement: what each call means for the level seen from outside.    *)
LEMMA LevelSame ==
  ASSUME UNCHANGED <<zone, guide>>
  PROVE  Level' = Level
BY DEF Level, Held

LEMMA LevelTyped == Level \in Promise!Level /\ Level' \in Promise!Level
BY DEF Level, LevelOf, Promise!Level

(* With nothing in the way and nothing missing the goal is reached.         *)
LEMMA GoalReached ==
  ASSUME Inv, ~disturbed,
         \/ pc = "add" /\ missing = {}
         \/ pc = "delete" /\ doomed = {} /\ job = "clean"
  PROVE  Level = Promise!Goal(job)
<1>1. job # "no" /\ InTheWay = {}
  BY DEF Inv, JobShape, DoomedInTheWay, MissingStillMissing
<1>2. CASE pc = "add"
  <2>1. job = "apply" /\ want = Parsed(guide) /\ want # {} /\ want \subseteq Held
    BY <1>2 DEF Inv, TypeOK, JobShape, OwnRecords, MissingStillMissing
  <2>2. \A r \in MailboxOf(Held) : r \in want
    BY <1>1, <2>1, InTheWayIsMailbox DEF MailboxOf, Held
  <2>3. \A r \in want : r \in MailboxOf(Held)
    BY <2>1, GuidesAssumption DEF Inv, TypeOK, MailboxOf
  <2> QED
    BY <2>1, <2>2, <2>3 DEF Level, LevelOf, Promise!Goal
<1>3. CASE pc = "delete" /\ job = "clean"
  <2>1. MailboxOf(Held) = {}
    BY <1>1, <1>3, InTheWayIsMailbox DEF MailboxOf, Held
  <2> QED
    BY <1>3, <2>1 DEF Level, LevelOf, Promise!Goal
<1> QED
  BY <1>2, <1>3

(* As long as a record is to be deleted or added the goal is not reached.   *)
LEMMA GoalNotReached ==
  ASSUME Inv, ~disturbed,
         \/ pc = "delete" /\ doomed # {}
         \/ pc = "add" /\ missing # {}
  PROVE  Level # Promise!Goal(job)
<1>1. CASE pc = "delete"
  <2>1. PICK i \in Ids : i \in InTheWay
    BY <1>1 DEF Inv, TypeOK, DoomedInTheWay
  <2>2. job # "no"
    BY <1>1 DEF Inv, JobShape
  <2>3. zone[i] \in MailboxOf(Held) /\ (job = "apply" => zone[i] \notin want)
    BY <2>1, <2>2, InTheWayIsMailbox DEF MailboxOf, Held
  <2>4. job = "apply" => want = Parsed(guide)
    BY DEF Inv, OwnRecords
  <2> QED
    BY <2>2, <2>3, <2>4 DEF Level, LevelOf, Promise!Goal, Inv, TypeOK
<1>2. CASE pc = "add"
  <2>1. job = "apply" /\ want = Parsed(guide) /\ want # {} /\ missing = want \ Held
    BY <1>2 DEF Inv, TypeOK, JobShape, OwnRecords, MissingStillMissing
  <2>2. MailboxOf(Held) # Parsed(guide)
    BY <1>2, <2>1 DEF MailboxOf
  <2> QED
    BY <2>1, <2>2 DEF Level, LevelOf, Promise!Goal
<1> QED
  BY <1>1, <1>2

LEMMA InitPromise == Init => Promise!Init
BY LevelTyped DEF Init, Promise!Init

LEMMA StepPromise == Inv /\ [Next]_vars => [Promise!Next]_(Promise!vars)
<1> SUFFICES ASSUME Inv, [Next]_vars PROVE Promise!Next \/ UNCHANGED Promise!vars
  BY DEF Promise!vars
<1>1. CASE StartApply \/ StartClean
  <2> PICK kind \in {"apply", "clean"} : \E first, records : Start(kind, first, records)
    BY <1>1 DEF StartApply, StartClean
  <2>1. PICK first, records : Start(kind, first, records)
    OBVIOUS
  <2>2. job = "no"
    BY <2>1 DEF Start, Inv, JobShape
  <2>3. Level' = Level
    BY <2>1, LevelSame DEF Start, world
  <2>4. Promise!Begin(kind)
    BY <2>1, <2>2, <2>3 DEF Start, Promise!Begin
  <2> QED
    BY <2>4 DEF Promise!Next, Promise!Job
<1>2. ASSUME UNCHANGED <<zone, guide, job, outcome, disturbed>> PROVE UNCHANGED Promise!vars
  BY <1>2, LevelSame DEF Promise!vars
<1>3. ASSUME job # "no", Finish("failed"),
             Level = Promise!Goal(job) /\ ~disturbed => Level' = Level
      PROVE  Promise!Next
  BY <1>3, LevelTyped DEF Finish, Promise!Next, Promise!Stop
<1>4. CASE CheckNameservers
  BY <1>2, <1>3, <1>4, LevelSame DEF CheckNameservers, world, Inv, JobShape
<1>5. CASE EnsureDomain \/ ListRecords \/ ListAgain \/ NameserversChange
  BY <1>2, <1>5 DEF EnsureDomain, ListRecords, ListAgain, NameserversChange, world
<1>6. CASE Return
  <2>1. job # "no" /\ Finish("done") /\ UNCHANGED <<zone, guide>>
    BY <1>6 DEF Return, world, Inv, JobShape
  <2>2. Level = Promise!Goal(job) \/ disturbed
    BY <1>6, GoalReached DEF Return
  <2> QED
    BY <2>1, <2>2, LevelSame DEF Finish, Promise!Next, Promise!Succeed
<1>7. CASE CallFails
  BY <1>3, <1>7, LevelSame DEF CallFails, world
<1>8. CASE CallUnanswered
  <2>1. Finish("failed") /\ UNCHANGED guide /\ job # "no"
    BY <1>8 DEF CallUnanswered, Inv, JobShape
  <2>2. Level = Promise!Goal(job) /\ ~disturbed => Level' = Level
    BY <1>8, LevelSame, GoalNotReached DEF CallUnanswered
  <2> QED
    BY <1>3, <2>1, <2>2
<1>9. CASE (\E i \in Ids : DeleteRecord(i)) \/ (\E r \in missing : AddRecord(r))
  <2>1. UNCHANGED <<guide, job, outcome, disturbed>> /\ job # "no"
    BY <1>9 DEF DeleteRecord, AddRecord, world, Inv, JobShape
  <2>2. ~disturbed => Level # Promise!Goal(job)
    BY <1>9, GoalNotReached DEF DeleteRecord, AddRecord
  <2>3. Promise!Progress
    BY <2>1, <2>2, LevelTyped DEF Promise!Progress
  <2> QED
    BY <2>3 DEF Promise!Next
<1>10. CASE Outside
  <2>1. CASE NameserversChange
    BY <1>5, <2>1
  <2>2. ASSUME disturbed' = (job # "no"), UNCHANGED <<job, outcome>> PROVE Promise!Next
    BY <2>2, LevelTyped DEF Promise!Next, Promise!Disturb
  <2> QED
    BY <1>10, <2>1, <2>2 DEF Outside, PersonEdits, Rebound
<1>11. CASE UNCHANGED vars
  BY <1>2, <1>11 DEF vars
<1> QED
  BY <1>1, <1>4, <1>5, <1>6, <1>7, <1>8, <1>9, <1>10, <1>11 DEF Next, Program

(* The jobs implement what MailboxZone promises of them.                    *)
THEOREM JobsKeepPromise == Spec => KeepsPromise
BY InitInv, StepInv, InitPromise, StepPromise, PTL DEF Spec, KeepsPromise, Promise!Spec
==============================================================================
