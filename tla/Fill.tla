-------------------------------- MODULE Fill --------------------------------
(***************************************************************************)
(* The fill (fill.py): under the fill lock the worker first repairs one    *)
(* bound domain in error, else takes one unused domain, marks it filling,  *)
(* checks the registrar, adds it to a yyds account that has a slot, writes *)
(* its mailbox records and verifies them.  Every external call is a step   *)
(* of its own; between two of them other threads and people act.           *)
(***************************************************************************)
EXTENDS WorkerCycle

-----------------------------------------------------------------------------
(* The start of fill_available, up to its first external call.              *)

(* Mutant: only a domain that can be repaired loses its stale mark.         *)
UnstuckBound(row) ==
  IF row.filling /\ Bound(row)
  THEN [row EXCEPT !.filling = FALSE, !.status = "error", !.reason = "other"] ELSE row

(* _clear_stale_filling: under the lock no other fill runs, so every mark   *)
(* found was left behind by one that died.                                  *)
Unstuck(row) ==
  IF ~row.filling THEN row
  ELSE IF row.status = "unused" /\ Bound(row)
       THEN [row EXCEPT !.filling = FALSE, !.status = "error", !.reason = "other"]
       ELSE [row EXCEPT !.filling = FALSE]

Cleared == [n \in Names |-> Unstuck(rows[n])]

(* repaired at once, without waiting for the cooldown *)
Immediate == {n \in Names : rows[n].filling /\ Cleared[n].status = "error"
                                            /\ Bound(Cleared[n])}

(* Mutant: every bound domain is repaired, in error or not.                 *)
RepairableBound ==
  {n \in Names : /\ Cleared[n].present /\ Bound(Cleared[n]) /\ ~Cleared[n].filling
                 /\ ~accts[Cleared[n].acct].throttled /\ ~aliyun.throttled}

Repairable ==
  {n \in Names : /\ Cleared[n].present
                 /\ Cleared[n].status = "error"
                 /\ Bound(Cleared[n])
                 /\ ~Cleared[n].filling
                 /\ accts[Cleared[n].acct].present
                 /\ ~accts[Cleared[n].acct].throttled
                 /\ ~aliyun.throttled}

(* Mutant: repairs do not cool down.                                        *)
NothingToRepairEver == Repairable = {}

(* Nothing to repair, or all of it is cooling down.                         *)
NothingToRepair == IF CoolsDown THEN Repairable \cap Immediate = {}
                                ELSE Repairable = {}

StartRepair(n) ==
  /\ w.pc = "fill"
  /\ fillLock = None
  /\ n \in Repairable
  /\ fillLock' = Worker
  /\ rows' = [Cleared EXCEPT ![n].filling = TRUE]
  /\ w' = [Resting EXCEPT !.pc = "registrar", !.name = n, !.acct = Cleared[n].acct,
                          !.mem = rows'[n], !.fills = w.fills,
                          !.rewrite = Cleared[n].reason # "propagating"]
  /\ UNCHANGED <<accts, snaps, aliyun, sessLock, world, del, barred>>

(* _mark_stored_unusable_unused *)
Usable(row) ==
  IF row.present /\ row.status = "unused" /\ row.acct = None
     /\ ~row.filling /\ row.hold
  THEN [row EXCEPT !.status = "error", !.reason = "readiness"] ELSE row

Stock == [n \in Names |-> Usable(Cleared[n])]

(* select_fill_account and select_unused_domain; which of several they      *)
(* prefer (sort order, shrunk account, registration date) is left open.     *)
CanReceive(a) == /\ accts[a].present /\ accts[a].ok /\ ~accts[a].throttled
                 /\ HasSlot(Max, accts[a].used)

Fillable(row) == /\ row.present /\ row.status = "unused" /\ ~row.filling
                 /\ row.acct = None /\ row.id = 0
                 /\ ~row.hold /\ ~aliyun.throttled

StartFill(n, a) ==
  /\ w.pc = "fill"
  /\ fillLock = None
  /\ NothingToRepair
  /\ CanReceive(a)
  /\ Fillable(Stock[n])
  /\ ~InSnapshot(n)
  /\ fillLock' = Worker
  /\ rows' = [Stock EXCEPT ![n].filling = TRUE]
  /\ w' = [Resting EXCEPT !.pc = "registrar", !.name = n, !.acct = a,
                          !.mem = rows'[n], !.fills = w.fills,
                          !.newly = TRUE, !.rewrite = TRUE]
  /\ UNCHANGED <<accts, snaps, aliyun, sessLock, world, del, barred>>

(* _occupying_yyds_account: some snapshot holds the domain picked.          *)
FindOccupied(n, a) ==
  /\ w.pc = "fill"
  /\ fillLock = None
  /\ NothingToRepair
  /\ \E b \in Accounts : CanReceive(b)
  /\ Fillable(Stock[n])
  /\ n \in snaps[a]
  /\ rows' = [Stock EXCEPT ![n].status = "used", ![n].acct = a, ![n].reason = "none"]
  /\ w' = AfterFill(TRUE)
  /\ UNCHANGED <<accts, snaps, aliyun, locks, world, del, barred>>

NothingToFill ==
  /\ w.pc = "fill"
  /\ fillLock = None
  /\ NothingToRepair
  /\ \/ ~\E a \in Accounts : CanReceive(a)
     \/ ~\E n \in Names : Fillable(Stock[n])
  /\ rows' = Stock
  /\ w' = AfterFill(FALSE)
  /\ UNCHANGED <<accts, snaps, aliyun, locks, world, del, barred>>

-----------------------------------------------------------------------------
(* How a fill ends.                                                         *)

Loaded(new) == Flush(rows[w.name], w.mem, new)

Finish(row) ==
  /\ rows' = [rows EXCEPT ![w.name] = row]
  /\ fillLock' = None
  /\ sessLock' = [sessLock EXCEPT ![w.acct] = IF @ = Worker THEN None ELSE @]
  /\ w' = AfterFill(TRUE)

GiveUp == Loaded([w.mem EXCEPT !.filling = FALSE])

Unusable(reason) ==
  Loaded([w.mem EXCEPT !.filling = FALSE, !.status = "error", !.reason = reason])

(* The registrar's answer stays in the session until the next commit, at    *)
(* the latest the one in the finally of _bind_and_verify.                   *)
Settled == Loaded([w.mem EXCEPT !.hold = FALSE])

(* The except clauses of _fill_new and _repair_bound_errors.  They reload   *)
(* the row first, except the one a repair has for unexpected exceptions.    *)
Handled(kind, reason) ==
  LET now == Settled
      failed == [now EXCEPT !.filling = FALSE, !.status = "error", !.reason = reason]
  IN CASE kind = "throttled" /\ now.id = 0 ->
            [now EXCEPT !.filling = FALSE, !.status = "unused", !.reason = "none"]
       [] kind = "throttled" /\ now.id # 0 -> failed
       [] kind = "error" /\ w.newly -> IF now.status = "used" THEN now ELSE failed
       [] kind = "error" /\ ~w.newly -> failed
       [] kind = "unexpected" /\ w.newly -> IF now.status = "used" THEN now ELSE failed
       [] kind = "unexpected" /\ ~w.newly -> [Unusable(reason) EXCEPT !.hold = now.hold]

YydsThrottles ==
  /\ Finish(Handled("throttled", "other"))
  /\ accts' = [accts EXCEPT ![w.acct].throttled = TRUE]
  /\ UNCHANGED aliyun

Fails(kind, reason) ==
  /\ Finish(Handled(kind, reason))
  /\ UNCHANGED <<accts, aliyun>>

YydsFails == YydsThrottles \/ Fails("error", "other") \/ Fails("unexpected", "other")

UseOf(a) == OccupancyUsed(Cardinality(NamesOn(a)), Cardinality(NamesOn(a)), Max)

RecordUse(a) == accts' = [accts EXCEPT ![a].used = UseOf(a)]

(* The same after the commit of a new use count, which comes before the     *)
(* guide is asked for.                                                      *)
CountedFails(kind, reason) ==
  /\ Finish(Handled(kind, reason))
  /\ RecordUse(w.acct)
  /\ UNCHANGED aliyun

CountedYydsFails ==
  \/ CountedFails("error", "other") \/ CountedFails("unexpected", "other")
  \/ /\ Finish(Handled("throttled", "other"))
     /\ accts' = [accts EXCEPT ![w.acct].used = UseOf(w.acct), ![w.acct].throttled = TRUE]
     /\ UNCHANGED aliyun

AliyunThrottles ==
  /\ Finish(Handled("throttled", "readiness"))
  /\ RecordUse(w.acct)
  /\ aliyun' = [aliyun EXCEPT !.throttled = TRUE]

-----------------------------------------------------------------------------
(* _refresh_live_registrar                                                  *)
RegistrarReady ==
  /\ w.pc = "registrar"
  /\ registrar[w.name] = "ok"
  /\ w' = [w EXCEPT !.pc = "bind"]
  /\ UNCHANGED <<db, locks, world, del, barred>>

RegistrarRefuses ==
  /\ w.pc = "registrar"
  /\ registrar[w.name] = "hold"
  /\ Finish(Loaded([w.mem EXCEPT !.hold = TRUE, !.filling = FALSE,
                                 !.status = "error", !.reason = "readiness"]))
  /\ UNCHANGED <<accts, snaps, aliyun, world, del, barred>>

(* The name has left the Aliyun account.                                    *)
RegistrarUnknown ==
  /\ w.pc = "registrar"
  /\ registrar[w.name] = "none"
  /\ Finish(Unusable("other"))
  /\ UNCHANGED <<accts, snaps, aliyun, world, del, barred>>

(* Throttled, the copy loaded at the start is written back, not reloaded.   *)
RegistrarFails ==
  /\ w.pc = "registrar"
  /\ \/ /\ aliyun' = [aliyun EXCEPT !.throttled = TRUE]
        /\ Finish(IF w.mem.id = 0
                  THEN Loaded([w.mem EXCEPT !.filling = FALSE, !.status = "unused",
                                            !.reason = "none"])
                  ELSE Unusable("readiness"))
     \/ /\ Finish(Unusable("other"))
        /\ UNCHANGED aliyun
  /\ UNCHANGED <<accts, snaps, world, del, barred>>

-----------------------------------------------------------------------------
(* _bind_and_verify, from the session lock to the last commit               *)
(* Mutant: the fill lock is given up for the session lock.                  *)
EnterSessionUnlocked ==
  /\ w.pc = "bind"
  /\ sessLock[w.acct] = None
  /\ sessLock' = [sessLock EXCEPT ![w.acct] = Worker]
  /\ fillLock' = None
  /\ w' = [w EXCEPT !.pc = IF w.newly THEN "sync" ELSE "dns"]
  /\ UNCHANGED <<db, world, del, barred>>

EnterSession ==
  /\ w.pc = "bind"
  /\ sessLock[w.acct] = None
  /\ sessLock' = [sessLock EXCEPT ![w.acct] = Worker]
  /\ w' = [w EXCEPT !.pc = IF w.newly THEN "sync" ELSE "dns"]
  /\ UNCHANGED <<db, fillLock, world, del, barred>>

(* A list that was fetched decides: not to be trusted, already bound here,  *)
(* no slot, or free to add.                                                 *)
Sync(names, quota) ==
  LET a    == w.acct
      list == IdsOf(names)
      used == OccupancyUsed(Cardinality(names), quota, Max)
      ids  == [w.mem EXCEPT !.acct = a, !.id = list[w.name]]
  IN
  /\ w.pc = "sync"
  /\ accts[a].present
  /\ accts' = [accts EXCEPT ![a].used = IF Unreliable(list, quota, a) THEN -1 ELSE used]
  /\ \/ /\ Unreliable(list, quota, a) \/ (list[w.name] = 0 /\ ~HasSlot(Max, used))
        /\ Finish(GiveUp)
     \/ /\ ~Unreliable(list, quota, a)
        /\ list[w.name] # 0
        /\ rows' = [rows EXCEPT ![w.name] = Loaded(ids)]
        /\ w' = [w EXCEPT !.pc = "dns", !.mem = ids]
        /\ UNCHANGED locks
     \/ /\ ~Unreliable(list, quota, a)
        /\ list[w.name] = 0
        /\ HasSlot(Max, used)
        /\ w' = [w EXCEPT !.pc = "add"]
        /\ UNCHANGED <<rows, locks>>
  /\ UNCHANGED <<snaps, aliyun, world, del, barred>>

SyncUsage == Sync(NamesOn(w.acct), Cardinality(NamesOn(w.acct)))

SyncPoorly ==
  \E kept \in SUBSET NamesOn(w.acct) :
    \E quota \in {None, Cardinality(NamesOn(w.acct))} : Sync(kept, quota)

(* Logging in fails, or the list call does: the use count is unknown.       *)
SyncFails ==
  /\ w.pc = "sync"
  /\ accts[w.acct].present
  /\ \/ YydsFails
     \/ /\ Finish(GiveUp)
        /\ accts' = [accts EXCEPT ![w.acct].used = -1]
        /\ UNCHANGED aliyun
  /\ UNCHANGED <<snaps, world, del, barred>>

Bind(n, a) == remote' = [remote EXCEPT ![n] =
                           [acct |-> a, id |-> @.id + 1, by |-> "fill"]]

AddDomain ==
  /\ w.pc = "add"
  /\ remote[w.name].acct = None
  /\ Bind(w.name, w.acct)
  /\ w' = [w EXCEPT !.pc = "ids", !.list = [@ EXCEPT ![w.name] = remote[w.name].id + 1]]
  /\ UNCHANGED <<db, locks, zone, registrar, del, barred>>

(* 409: bound somewhere already.  Listed here after all, its id is taken.   *)
AddConflicts ==
  LET ids == [w.mem EXCEPT !.acct = w.acct, !.id = remote[w.name].id] IN
  /\ w.pc = "add"
  /\ accts[w.acct].present
  /\ remote[w.name].acct # None
  /\ \/ /\ remote[w.name].acct = w.acct
        /\ rows' = [rows EXCEPT ![w.name] = Loaded(ids)]
        /\ w' = [w EXCEPT !.pc = "dns", !.mem = ids]
        /\ UNCHANGED <<accts, aliyun, locks>>
     \/ /\ remote[w.name].acct # w.acct
        /\ Fails("error", "other")
  /\ UNCHANGED <<snaps, world, del, barred>>

AddFails ==
  /\ w.pc = "add"
  /\ accts[w.acct].present
  /\ YydsFails
  /\ UNCHANGED <<snaps, world, del, barred>>

(* yyds did add the domain, but the answer or the list that should tell its *)
(* id never comes.                                                          *)
AddUnanswered ==
  /\ w.pc = "add"
  /\ accts[w.acct].present
  /\ remote[w.name].acct = None
  /\ Bind(w.name, w.acct)
  /\ YydsFails
  /\ UNCHANGED <<snaps, zone, registrar, del, barred>>

(* Mutant: the domain counts as used as soon as yyds has added it.          *)
CommitIdsUsed ==
  LET ids == [w.mem EXCEPT !.acct = w.acct, !.id = w.list[w.name], !.status = "used"] IN
  /\ w.pc = "ids"
  /\ accts[w.acct].present
  /\ rows' = [rows EXCEPT ![w.name] = Loaded(ids)]
  /\ w' = [w EXCEPT !.pc = "dns", !.mem = ids, !.list = Resting.list]
  /\ UNCHANGED <<accts, snaps, aliyun, locks, world, del, barred>>

(* The domain's status stays unused until the records are verified.         *)
CommitIds ==
  LET ids == [w.mem EXCEPT !.acct = w.acct, !.id = w.list[w.name]] IN
  /\ w.pc = "ids"
  /\ accts[w.acct].present
  /\ rows' = [rows EXCEPT ![w.name] = Loaded(ids)]
  /\ w' = [w EXCEPT !.pc = "dns", !.mem = ids, !.list = Resting.list]
  /\ UNCHANGED <<accts, snaps, aliyun, locks, world, del, barred>>

StillBound == remote[w.name].acct = w.acct /\ remote[w.name].id = w.mem.id

WriteDns ==
  /\ w.pc = "dns"
  /\ accts[w.acct].present
  /\ StillBound
  /\ w.rewrite => registrar[w.name] # "none"
  /\ zone' = IF w.rewrite THEN [zone EXCEPT ![w.name] = "full"] ELSE zone
  /\ rows' = [rows EXCEPT ![w.name] = Settled]
  /\ RecordUse(w.acct)
  /\ w' = [w EXCEPT !.pc = "verify", !.mem.hold = FALSE]
  /\ UNCHANGED <<snaps, aliyun, locks, remote, registrar, del, barred>>

(* yyds fails before a record is written: a repair's login, or anything     *)
(* after the use count.                                                     *)
GuideFails ==
  /\ w.pc = "dns"
  /\ accts[w.acct].present
  /\ (~w.newly /\ YydsFails) \/ CountedYydsFails
  /\ UNCHANGED <<snaps, world, del, barred>>

(* apply_guide stops before its first record, half way through, or with the *)
(* last one written and no answer.                                          *)
WriteDnsFails ==
  /\ w.pc = "dns"
  /\ accts[w.acct].present
  /\ StillBound
  /\ w.rewrite
  /\ \/ UNCHANGED zone
     \/ \E level \in {"partial", "full"} : zone' = [zone EXCEPT ![w.name] = level]
  /\ AliyunThrottles \/ CountedFails("error", "other")
  /\ UNCHANGED <<snaps, remote, registrar, del, barred>>

(* A domain no longer on yyds under its id fails in the next yyds call, one *)
(* that has left Aliyun when its records are written.                       *)
DomainGone ==
  /\ w.pc \in {"dns", "verify"}
  /\ accts[w.acct].present
  /\ \/ /\ w.pc = "dns"
        /\ ~StillBound \/ (w.rewrite /\ registrar[w.name] = "none")
        /\ CountedFails("error", "other")
     \/ /\ w.pc = "verify"
        /\ ~StillBound
        /\ Fails("error", "other")
  /\ UNCHANGED <<snaps, world, del, barred>>

(* yyds finds the records; the fill lock has kept every cleanup away.       *)
Verified ==
  /\ w.pc = "verify"
  /\ accts[w.acct].present
  /\ StillBound
  /\ zone[w.name] = "full"
  /\ RecordUse(w.acct)
  /\ Finish(Loaded([w.mem EXCEPT !.filling = FALSE, !.status = "used",
                                 !.reason = "none"]))
  /\ UNCHANGED <<snaps, aliyun, world, del, barred>>

(* A record that yyds does not see, or does not see yet, is an exception.   *)
VerifyFails ==
  /\ w.pc = "verify"
  /\ accts[w.acct].present
  /\ YydsFails \/ Fails("unexpected", "propagating")
  /\ UNCHANGED <<snaps, world, del, barred>>

FillStep ==
  \/ \E n \in Names : StartRepair(n)
  \/ \E n \in Names, a \in Accounts : StartFill(n, a) \/ FindOccupied(n, a)
  \/ NothingToFill
  \/ RegistrarReady \/ RegistrarRefuses \/ RegistrarUnknown
  \/ EnterSession \/ SyncUsage \/ AddDomain \/ AddConflicts \/ CommitIds
  \/ WriteDns \/ DomainGone \/ Verified

FillFault ==
  \/ RegistrarFails \/ SyncPoorly \/ SyncFails \/ AddFails
  \/ GuideFails \/ WriteDnsFails \/ VerifyFails
==============================================================================
