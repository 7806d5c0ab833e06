----------------------------- MODULE PollAliyun -----------------------------
(***************************************************************************)
(* The Aliyun poll (poll_aliyun.py): the worker lists the account's        *)
(* domains, loads the row of each and asks the registrar about it, and     *)
(* creates, judges and deletes inventory rows.  It takes no lock, and      *)
(* commits once at its end what it changed of the rows it loaded.          *)
(***************************************************************************)
EXTENDS WorkerCycle

Owned == {n \in Names : registrar[n] # "none"}

GoFill == [Resting EXCEPT !.pc = "fill"]

(* What w.list says of a listed name: not asked about yet, what the answer  *)
(* was, or that there was none.                                             *)
Unasked  == 1
Ready    == 2
OnHold   == 3
Unknown  == 4

Answered == {n \in Names : w.list[n] \in {Ready, OnHold}}

(* Not due yet, or throttled.                                               *)
SkipAliyun ==
  /\ w.pc = "aliyun"
  /\ w' = GoFill
  /\ UNCHANGED <<db, locks, world, del, barred>>

List(names) ==
  /\ w.pc = "aliyun"
  /\ ~aliyun.throttled
  /\ w' = [w EXCEPT !.pc = "describe",
                    !.list = [n \in Names |-> IF n \in names THEN Unasked ELSE 0]]
  /\ UNCHANGED <<db, locks, world, del, barred>>

ListAliyun == List(Owned)

(* The second of two list calls fails and the first one missed names.       *)
ListPartly == \E names \in SUBSET Owned : List(names)

AliyunListFails ==
  /\ w.pc = "aliyun"
  /\ ~aliyun.throttled
  /\ \/ aliyun' = [aliyun EXCEPT !.throttled = TRUE]
     \/ UNCHANGED aliyun
  /\ w' = GoFill
  /\ UNCHANGED <<rows, accts, snaps, locks, world, del, barred>>

(* An empty list says nothing about the rows there are.                     *)
EmptyList ==
  /\ w.pc = "describe"
  /\ Listed(w.list) = {}
  /\ w' = GoFill
  /\ UNCHANGED <<db, locks, world, del, barred>>

(* The row is loaded, then the registrar answers; a name that has left the  *)
(* account since is skipped.                                                *)
Describe(n) ==
  /\ w.pc = "describe"
  /\ w.list[n] = Unasked
  /\ w' = [w EXCEPT !.copies[n] = rows[n],
                    !.list[n] = CASE registrar[n] = "ok"   -> Ready
                                  [] registrar[n] = "hold" -> OnHold
                                  [] registrar[n] = "none" -> Unknown]
  /\ UNCHANGED <<db, locks, world, del, barred>>

DescribeFails(n) ==
  /\ w.pc = "describe"
  /\ w.list[n] = Unasked
  /\ w' = [w EXCEPT !.list[n] = Unknown]
  /\ UNCHANGED <<db, locks, world, del, barred>>

(* The first nonempty list is the cohort of the first synchronisation.      *)
Cohort == IF aliyun.cohorted \/ aliyun.synced THEN aliyun.cohort ELSE Listed(w.list)

(* Mutant: what is new after the first synchronisation is stock.            *)
FromFirstSnapshotNoCohort(n) == ~aliyun.synced

FromFirstSnapshot(n) ==
  /\ aliyun.cohorted \/ ~aliyun.synced
  /\ n \in Cohort

Discovered(n) ==
  LET first == FromFirstSnapshot(n) IN
  [NoRow EXCEPT !.present = TRUE, !.first = first,
     !.hold   = (w.list[n] = OnHold),
     !.status = CASE w.list[n] = OnHold -> "error"
                  [] w.list[n] # OnHold /\ first -> "used"
                  [] w.list[n] # OnHold /\ ~first -> "unused",
     !.reason = IF w.list[n] = OnHold THEN "readiness" ELSE "none"]

(* A row in error for what the registrar said goes back to stock when the   *)
(* registrar is satisfied, unless it was ever seen in use.                  *)
Judged(row) ==
  IF row.status = "error" /\ row.acct = None /\ row.reason = "readiness"
  THEN [row EXCEPT !.hold = FALSE, !.reason = "none",
                   !.status = IF row.first \/ row.seen THEN "used" ELSE "unused"]
  ELSE [row EXCEPT !.hold = FALSE]

Item(n) ==
  LET mem == w.copies[n] IN
  CASE ~mem.present -> Discovered(n)
    [] mem.present /\ w.list[n] = OnHold ->
         Flush(rows[n], mem, [mem EXCEPT !.hold = TRUE, !.status = "error",
                                         !.reason = "readiness"])
    [] mem.present /\ w.list[n] # OnHold -> Flush(rows[n], mem, Judged(mem))

(* _mark_unlisted_inventory *)
Unlisted(n) == /\ w.list[n] = 0
               /\ rows[n].acct = None /\ rows[n].id = 0 /\ ~rows[n].filling

CommitAliyun ==
  /\ w.pc = "describe"
  /\ Listed(w.list) # {}
  /\ \A n \in Names : w.list[n] # Unasked
  /\ rows' = [n \in Names |-> IF n \in Answered THEN Item(n)
                              ELSE IF Unlisted(n) THEN NoRow ELSE rows[n]]
  /\ aliyun' = [throttled |-> FALSE, synced |-> TRUE,
                cohorted |-> aliyun.cohorted \/ ~aliyun.synced, cohort |-> Cohort]
  /\ w' = GoFill
  /\ UNCHANGED <<accts, snaps, locks, world, del, barred>>

(* Throttled half way: the names read so far are kept, the synchronisation  *)
(* is not over.                                                             *)
DescribeThrottled ==
  /\ w.pc = "describe"
  /\ \E n \in Names : w.list[n] = Unasked
  /\ rows' = [n \in Names |-> IF n \in Answered THEN Item(n) ELSE rows[n]]
  /\ aliyun' = [aliyun EXCEPT !.throttled = TRUE, !.cohort = Cohort,
                              !.cohorted = @ \/ ~aliyun.synced]
  /\ w' = GoFill
  /\ UNCHANGED <<accts, snaps, locks, world, del, barred>>

PollAliyunStep ==
  \/ SkipAliyun \/ ListAliyun \/ EmptyList \/ CommitAliyun
  \/ \E n \in Names : Describe(n)

PollAliyunFault ==
  AliyunListFails \/ DescribeThrottled \/ \E n \in Names : DescribeFails(n)
==============================================================================
