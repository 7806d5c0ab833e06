------------------------------ MODULE PollYyds ------------------------------
(***************************************************************************)
(* The yyds poll (poll_yyds.py): under the account's session lock the      *)
(* worker fetches the account's quota and domain list, decides whether the *)
(* list can be trusted, and reconciles domains and snapshot with it in one *)
(* transaction.  People change yyds between the fetch and the transaction. *)
(***************************************************************************)
EXTENDS WorkerCycle

(* Early return for an account in its throttle window.                      *)
SkipThrottled(a) ==
  /\ w.pc = "poll"
  /\ a \in w.todo
  /\ accts[a].present
  /\ accts[a].throttled
  /\ w' = [w EXCEPT !.todo = @ \ {a}]
  /\ UNCHANGED <<db, locks, world, del, barred>>

BeginPoll(a) ==
  /\ w.pc = "poll"
  /\ a \in w.todo
  /\ accts[a].present
  /\ ~accts[a].throttled
  /\ sessLock[a] = None
  /\ sessLock' = [sessLock EXCEPT ![a] = Worker]
  /\ w' = [w EXCEPT !.pc = "pollRead", !.acct = a, !.todo = @ \ {a}]
  /\ UNCHANGED <<db, fillLock, world, del, barred>>

(* A fetch returns the ids of the names it lists and, if the service        *)
(* reports one, the quota's use count.  A good fetch misses nothing.        *)
Fetch(names, quota) ==
  /\ w.pc = "pollRead"
  /\ w' = [w EXCEPT !.pc = "pollCommit", !.list = IdsOf(names), !.quota = quota]
  /\ UNCHANGED <<db, locks, world, del, barred>>

ReadList == Fetch(NamesOn(w.acct), Cardinality(NamesOn(w.acct)))

(* A fetch that misses names of the account, or does not report the use.    *)
ReadPoorly ==
  \E kept \in SUBSET NamesOn(w.acct) :
    \E quota \in {None, Cardinality(NamesOn(w.acct))} : Fetch(kept, quota)

(* Mutant: the session lock is not released.                                *)
LeavePollLocked ==
  /\ w' = [Resting EXCEPT !.pc = "poll", !.todo = w.todo]
  /\ UNCHANGED sessLock

(* The end of a poll whichever way it went.                                 *)
LeavePoll ==
  /\ sessLock' = [sessLock EXCEPT ![w.acct] = None]
  /\ w' = [Resting EXCEPT !.pc = "poll", !.todo = w.todo]

(* 429: throttled; any other error of yyds: login_error, no new domains;    *)
(* a list that says itself it is incomplete: the use count is unknown.      *)
PollFails(kind) ==
  /\ w.pc = "pollRead"
  /\ accts[w.acct].present
  /\ accts' = [accts EXCEPT ![w.acct] =
       CASE kind = "429"        -> [@ EXCEPT !.throttled = TRUE]
         [] kind = "incomplete" -> [@ EXCEPT !.ok = TRUE, !.used = -1]
         [] kind = "error"      -> [@ EXCEPT !.ok = FALSE]]
  /\ LeavePoll
  /\ UNCHANGED <<rows, snaps, aliyun, fillLock, world, del, barred>>

(* A list that cannot be trusted changes no domain and no snapshot.         *)
RefuseList ==
  /\ w.pc = "pollCommit"
  /\ accts[w.acct].present
  /\ Unreliable(w.list, w.quota, w.acct)
  /\ accts' = [accts EXCEPT ![w.acct].ok = TRUE, ![w.acct].throttled = FALSE,
                            ![w.acct].used = -1]
  /\ LeavePoll
  /\ UNCHANGED <<rows, snaps, aliyun, fillLock, world, del, barred>>

(* Mutant: a domain deleted on yyds is stock again.                         *)
StatusAfterRemovedUnused(previous) == "unused"

StatusAfterRemoved(previous) == IF previous = "unused" THEN previous ELSE "used"

RemovedBy(list, a) == {n \in snaps[a] : list[n] = 0}

(* Mutant: what an account has lost is unbound wherever it is by now.        *)
LostWherever(row, n, list, a) == n \in RemovedBy(list, a)

(* The row of a domain that the account it is bound to has lost.            *)
Lost(row, n, list, a) == n \in RemovedBy(list, a) /\ row.acct = a

Reconciled(row, n, list, a) ==
  CASE ~row.present -> row
    [] row.present /\ list[n] # 0 /\ n \in snaps[a] ->
         [row EXCEPT !.acct = a, !.id = list[n], !.seen = TRUE]
    [] row.present /\ list[n] # 0 /\ n \notin snaps[a] ->
         [row EXCEPT !.acct = a, !.id = list[n], !.seen = TRUE, !.filling = FALSE,
                     !.status = IF @ = "error" THEN @ ELSE "used",
                     !.reason = IF row.status = "error" THEN @ ELSE "none"]
    [] row.present /\ Lost(row, n, list, a) ->
         [row EXCEPT !.acct = None, !.id = 0, !.filling = FALSE,
                     !.status = StatusAfterRemoved(@)]
    [] OTHER -> row

Reconcile ==
  LET a == w.acct IN
  /\ w.pc = "pollCommit"
  /\ accts[a].present
  /\ ~Unreliable(w.list, w.quota, a)
  /\ rows' = [n \in Names |-> Reconciled(rows[n], n, w.list, a)]
  /\ snaps' = [snaps EXCEPT ![a] = Listed(w.list)]
  /\ accts' = [accts EXCEPT ![a].ok = TRUE, ![a].throttled = FALSE,
       ![a].used = OccupancyUsed(Cardinality(Listed(w.list)), w.quota, Max)]
  /\ barred' = [n \in Names |->
       IF \/ /\ Lost(rows[n], n, w.list, a)
             /\ rows[n].present /\ rows[n].status # "unused"
          \/ w.list[n] # 0 /\ barred[n] = "panel"
       THEN "poll" ELSE barred[n]]
  /\ LeavePoll
  /\ UNCHANGED <<aliyun, fillLock, world, del>>

PollYydsStep ==
  \/ \E a \in Accounts : SkipThrottled(a) \/ BeginPoll(a)
  \/ ReadList
  \/ RefuseList
  \/ Reconcile

PollYydsFault ==
  \/ ReadPoorly
  \/ \E kind \in {"429", "incomplete", "error"} : PollFails(kind)
==============================================================================
