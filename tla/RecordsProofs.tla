---------------------------- MODULE RecordsProofs ----------------------------
(***************************************************************************)
(* What becomes of a domain's records, for any names, accounts and         *)
(* requests: where nobody stops or clears it, records a deletion left      *)
(* behind stay marked until the cleanup removes them; and what the program *)
(* added to yyds is used only with all of its records.                     *)
(***************************************************************************)
EXTENDS StockProofs

USE DEF db, locks, world

-----------------------------------------------------------------------------
(* Records left behind.  What keeps them marked is decided by stale copies  *)
(* again: the copy a delete request commits, and the rows the Aliyun poll   *)
(* loaded.  With one account, which is not deleted, and with no change of a *)
(* domain by hand but back to stock and outside of its deletion, none of    *)
(* these erases a mark.                                                     *)
HandsOff ==
  /\ ~RemoveAccount
  /\ \A n \in Names, status \in Status : UpdateDomain(n, status) =>
       status = "unused" /\ \A d \in Deleters : del[d].pc \in Deleting => del[d].name # n

Marked(row) == row.reason = "cleanup"

(* Every account is polled once in a cycle at most, and none goes away.     *)
PollOnce ==
  /\ \A a \in Accounts : accts[a].present
  /\ w.pc \in {"pollRead", "pollCommit"} => w.acct \notin w.todo

(* A marked row waits, unbound and in no list.                              *)
MarkFine ==
  \A n \in Names : Marked(rows[n]) =>
    /\ rows[n].present /\ rows[n].status = "used"
    /\ rows[n].acct = None /\ rows[n].id = 0
    /\ ~InSnapshot(n)

(* A domain deleted in the panel is bound again, or marked, or has no       *)
(* records left.                                                            *)
KeptFine ==
  \A n \in Names : barred[n] = "panel" =>
    /\ rows[n].present
    /\ Bound(rows[n]) \/ CleanupOnly(rows[n]) \/ zone[n] = "none"

(* No fill works on a marked row; a repair's row stays bound.               *)
RepairFine ==
  w.pc \in Filling =>
    /\ ~Marked(rows[w.name])
    /\ w.newly \/ barred[w.name] # "panel" \/ Bound(rows[w.name])

(* A row the Aliyun poll is about to clear of its error has got no mark.    *)
Clearable(row) ==
  row.present /\ row.status = "error" /\ row.acct = None /\ row.reason = "readiness"

CopyFine ==
  w.pc = "describe" => \A n \in Names : w.list[n] = Ready /\ Clearable(w.copies[n]) =>
    /\ rows[n].acct = None /\ ~Marked(rows[n])
    /\ \A d \in Deleters : del[d].pc \in Deleting => del[d].name # n

(* The poll is over: until the fill lock is free there is no other.         *)
Polled == w.todo = {} /\ w.pc \in {"poll", "aliyun", "describe", "fill"}

(* The row of a delete request under way: a retry finds its mark, unless a  *)
(* poll, and no other after it, has bound the domain again; a deletion has  *)
(* a mark to set; and what it reports clean is.                             *)
Retries(row, mem) ==
  /\ CleanupOnly(mem) /\ mem.acct = None /\ mem.status = "used"
  /\ CleanupOnly(row) \/ (Bound(row) /\ Polled)

RequestFine ==
  \A d \in Deleters : del[d].pc \in Deleting =>
    LET row == rows[del[d].name] mem == del[d].mem IN
    /\ row.present
    /\ mem.status = "used" => row.status = "used"
    /\ row.status = "error" => Bound(row)
    /\ del[d].retry => Retries(row, mem)
    /\ ~del[d].retry => Bound(mem) /\ ~Marked(mem)
    /\ del[d].pc = "commit" /\ ~del[d].failed => zone[del[d].name] = "none"

CleanInv == PollOnce /\ MarkFine /\ KeptFine /\ RepairFine /\ CopyFine /\ RequestFine

(* The columns these look at.                                               *)
Like(row, after) ==
  /\ after.present = row.present /\ after.status = row.status
  /\ after.acct = row.acct /\ after.id = row.id /\ after.reason = row.reason

-----------------------------------------------------------------------------
(* An account that is there stays.                                          *)
LEMMA AccountsStay ==
  ASSUME Typed, [CalmNext]_vars, ~RemoveAccount, NEW a \in Accounts, accts[a].present
  PROVE  accts'[a].present
<1>1. accts \in [Accounts -> Acct]
  BY DEF Typed, TypeOK
<1>2. ASSUME NEW b, NEW u, accts' = [accts EXCEPT ![b].used = u]
      PROVE  accts'[a].present
  BY <1>1, <1>2 DEF Acct
<1>3. ASSUME NEW b, NEW t, accts' = [accts EXCEPT ![b].throttled = t]
      PROVE  accts'[a].present
  BY <1>1, <1>3 DEF Acct
<1>4. ASSUME NEW b, NEW u, NEW t, NEW o,
             accts' = [accts EXCEPT ![b].ok = o, ![b].throttled = t, ![b].used = u]
      PROVE  accts'[a].present
  BY <1>1, <1>4 DEF Acct
<1>5. CASE UNCHANGED accts
  BY <1>5
<1>6. CASE Reconcile \/ RefuseList
  <2>1. \E b, u : accts' = [accts EXCEPT ![b].ok = TRUE, ![b].throttled = FALSE,
                                        ![b].used = u]
    BY <1>6 DEF Reconcile, RefuseList
  <2> QED
    BY <1>4, <2>1
<1>7. ASSUME NEW kind \in {"429", "incomplete", "error"}, PollFails(kind)
      PROVE  accts'[a].present
  <2> DEFINE b == w.acct
  <2>1. CASE kind = "429"
    <3>1. accts' = [accts EXCEPT ![b].throttled = TRUE]
      BY <1>7, <2>1 DEF PollFails
    <3> QED
      BY <1>3, <3>1
  <2>2. CASE kind = "incomplete"
    <3>1. accts' = [accts EXCEPT ![b] = [@ EXCEPT !.ok = TRUE, !.used = -1]]
      BY <1>7, <2>2 DEF PollFails
    <3> QED
      BY <1>1, <3>1 DEF Acct
  <2>3. CASE kind = "error"
    <3>1. accts' = [accts EXCEPT ![b] = [@ EXCEPT !.ok = FALSE]]
      BY <1>7, <2>3 DEF PollFails
    <3> QED
      BY <1>1, <3>1 DEF Acct
  <2> QED
    BY <1>7, <2>1, <2>2, <2>3
<1>8. CASE PollYydsStep \/ PollYydsFault
  BY <1>5, <1>6, <1>7, <1>8 DEF PollYydsStep, PollYydsFault, SkipThrottled, BeginPoll,
     ReadList, ReadPoorly, Fetch
<1>9. CASE \/ YydsFails \/ CountedYydsFails \/ AliyunThrottles
           \/ \E kind, reason : Fails(kind, reason) \/ CountedFails(kind, reason)
  <2>1. CASE CountedYydsFails \/ \E kind, reason : CountedFails(kind, reason)
    <3>1. \/ \E u : accts' = [accts EXCEPT ![w.acct].used = u]
          \/ \E u : accts' = [accts EXCEPT ![w.acct].used = u, ![w.acct].throttled = TRUE]
      BY <2>1 DEF CountedYydsFails, CountedFails, RecordUse
    <3> QED
      BY <1>1, <3>1 DEF Acct
  <2>2. CASE AliyunThrottles
    BY <1>2, <2>2 DEF AliyunThrottles, RecordUse
  <2> QED
    BY <1>3, <1>5, <1>9, <2>1, <2>2 DEF YydsFails, YydsThrottles, Fails
<1>10. CASE FillStep \/ FillFault \/ AddUnanswered
  <2>1. CASE SyncUsage \/ SyncPoorly
    <3>1. PICK names, quota : Sync(names, quota)
      BY <2>1 DEF SyncUsage, SyncPoorly
    <3>2. \E u : accts' = [accts EXCEPT ![w.acct].used = u]
      BY <3>1 DEF Sync
    <3> QED
      BY <1>2, <3>2
  <2>2. CASE SyncFails
    BY <1>2, <1>9, <2>2 DEF SyncFails
  <2>3. CASE WriteDns \/ Verified
    BY <1>2, <2>3 DEF WriteDns, Verified, RecordUse
  <2>4. CASE \/ AddUnanswered \/ AddConflicts \/ AddFails \/ WriteDnsFails \/ GuideFails
             \/ DomainGone \/ VerifyFails
    BY <1>5, <1>9, <2>4 DEF AddUnanswered, AddConflicts, AddFails, WriteDnsFails,
       GuideFails, DomainGone, VerifyFails
  <2> QED
    BY <1>5, <1>10, <2>1, <2>2, <2>3, <2>4 DEF FillStep, FillFault, AddDomain,
       StartRepair, StartFill, FindOccupied, NothingToFill, RegistrarReady,
       RegistrarRefuses, RegistrarUnknown, RegistrarFails, EnterSession, CommitIds
<1>11. CASE PollAliyunStep \/ PollAliyunFault \/ StartCycle \/ EndPolls \/ AbortCycle
  BY <1>5, <1>11 DEF PollAliyunStep, PollAliyunFault, SkipAliyun, ListAliyun, List,
     EmptyList, Describe, CommitAliyun, AliyunListFails, DescribeFails,
     DescribeThrottled, StartCycle, EndPolls, AbortCycle
<1>12. CASE \E d \in Deleters : DeleteYydsStep(d) \/ DeleteYydsFault(d)
  <2>1. ASSUME NEW d \in Deleters, CommitDelete(d)
        PROVE  accts'[a].present
    <3>1. accts' = accts \/ \E u : accts' = [accts EXCEPT ![del[d].acct].used = u]
      BY <2>1 DEF CommitDelete
    <3> QED
      BY <1>2, <1>5, <3>1
  <2> QED
    BY <1>5, <1>12, <2>1 DEF DeleteYydsStep, DeleteYydsFault, LockFill, Refused,
       LockSession, DeleteRemote, CleanDns, CleanDnsRefused, CommitDeleteFails,
       DeleteRemoteFails, CleanDnsFails
<1>13. CASE Request \/ Update \/ Website \/ Purchase \/ ThrottleEnds \/ Crash
  BY <1>3, <1>5, <1>13 DEF Request, RequestDelete, Update, UpdateDomain, Website,
     PersonDeletes, PersonAdds, Purchase, RegistrarChanges, ThrottleEnds,
     AliyunThrottleEnds, YydsThrottleEnds, Crash
<1>14. CASE UNCHANGED vars
  BY <1>5, <1>14 DEF vars
<1> QED
  BY <1>8, <1>10, <1>11, <1>12, <1>13, <1>14 DEF CalmNext, WorkerStep, Fault

(* However a fill ends, its row keeps its account and its id, and gets no   *)
(* mark it did not have.                                                    *)
LEMMA EndKeeps ==
  ASSUME Typed, w.pc \in Filling
  PROVE  LET row == rows[w.name]
             Keeps(after, reason) ==
               /\ after.acct = row.acct /\ after.id = row.id
               /\ after.reason \in {row.reason, reason, "none"}
         IN  /\ Keeps(GiveUp, "none")
             /\ \A reason \in Reason : Keeps(Unusable(reason), reason)
             /\ \A kind \in {"throttled", "error", "unexpected"}, reason \in Reason :
                  Keeps(Handled(kind, reason), reason)
             /\ \A new \in Row : new.acct = w.mem.acct /\ new.id = w.mem.id =>
                  Keeps(Loaded(new), new.reason)
<1> DEFINE row == rows[w.name]
           Keeps(after, reason) ==
             /\ after.acct = row.acct /\ after.id = row.id
             /\ after.reason \in {row.reason, reason, "none"}
<1>1. row \in Row /\ w.mem \in Row
  BY EndedRowType DEF Typed, Located
<1>2. ASSUME NEW new \in Row, new.acct = w.mem.acct, new.id = w.mem.id
      PROVE  Keeps(Loaded(new), new.reason)
  <2>1. Loaded(new) = Flush(row, w.mem, new)
    BY DEF Loaded
  <2> HIDE DEF row
  <2> QED
    BY <1>1, <1>2, <2>1, FlushFields
<1>3. Keeps(GiveUp, "none")
  <2> DEFINE new == [w.mem EXCEPT !.filling = FALSE]
  <2>1. /\ new \in Row /\ new.acct = w.mem.acct /\ new.id = w.mem.id
        /\ new.reason = w.mem.reason
    BY <1>1 DEF Row
  <2>2. GiveUp = Flush(row, w.mem, new)
    BY DEF GiveUp, Loaded
  <2> HIDE DEF new, row
  <2> QED
    BY <1>1, <2>1, <2>2, FlushFields
<1>4. ASSUME NEW reason \in Reason
      PROVE  Keeps(Unusable(reason), reason)
  <2> DEFINE new == [w.mem EXCEPT !.filling = FALSE, !.status = "error", !.reason = reason]
  <2>1. /\ new \in Row /\ new.acct = w.mem.acct /\ new.id = w.mem.id
        /\ new.reason = reason
    BY <1>1 DEF Row, Status
  <2>2. Unusable(reason) = Loaded(new)
    BY DEF Unusable
  <2> HIDE DEF new, row
  <2> QED
    BY <1>2, <2>1, <2>2
<1>5. ASSUME NEW kind \in {"throttled", "error", "unexpected"}, NEW reason \in Reason
      PROVE  Keeps(Handled(kind, reason), reason)
  <2>1. Unusable(reason).reason \in {row.reason, reason, "none"}
    BY <1>4
  <2> QED
    BY <2>1, HandledColumns
<1> QED
  BY <1>2, <1>3, <1>4, <1>5

(* What a step of a fill leaves of a row it must not change, and of its own.*)
FillKeeps(n) ==
  /\ Marked(rows[n]) \/ Marked(rows'[n]) => Like(rows[n], rows'[n])
  /\ Bound(rows[n]) /\ (w.pc \in Filling /\ n = w.name => ~w.newly) => Bound(rows'[n])
  /\ zone'[n] # zone[n] => w.pc \in Filling /\ n = w.name

(* The end of a fill,                                                       *)
LEMMA FinishKeeps ==
  ASSUME Typed, RepairFine, w.pc \in Filling, NEW row,
         row.acct = rows[w.name].acct, row.id = rows[w.name].id,
         row.reason # "cleanup" \/ row.reason = rows[w.name].reason,
         rows' = [rows EXCEPT ![w.name] = row],
         \A m \in Names \ {w.name} : zone'[m] = zone[m], NEW n \in Names
  PROVE  FillKeeps(n)
<1>1. rows \in [Names -> Row]
  BY DEF Typed, TypeOK
<1>2. CASE n # w.name
  BY <1>1, <1>2 DEF FillKeeps, Like
<1>3. CASE n = w.name
  BY <1>1, <1>3 DEF FillKeeps, Like, Marked, Bound, RepairFine
<1> QED
  BY <1>2, <1>3

(* one that fails,                                                          *)
LEMMA FailsKeeps ==
  ASSUME Typed, RepairFine, w.pc \in Filling, NEW n \in Names,
         \A m \in Names \ {w.name} : zone'[m] = zone[m],
         \/ YydsFails \/ CountedYydsFails \/ AliyunThrottles \/ Fails("error", "other")
         \/ CountedFails("error", "other") \/ Fails("unexpected", "propagating")
  PROVE  FillKeeps(n)
<1>1. PICK kind \in {"throttled", "error", "unexpected"},
           reason \in {"other", "readiness", "propagating"} :
        Finish(Handled(kind, reason))
  BY DEF YydsFails, YydsThrottles, Fails, AliyunThrottles, CountedYydsFails, CountedFails
<1>2. LET row == Handled(kind, reason) IN
      /\ row.acct = rows[w.name].acct /\ row.id = rows[w.name].id
      /\ row.reason \in {rows[w.name].reason, reason, "none"}
  BY EndKeeps DEF Reason
<1> QED
  BY <1>1, <1>2, FinishKeeps DEF Finish

(* the beginning of one,                                                    *)
LEMMA StockKeeps ==
  ASSUME Typed, CalmInv, MarkFine, NEW n \in Names
  PROVE  /\ Cleared[n] \in Row /\ Stock[n] \in Row
         /\ Marked(rows[n]) \/ Marked(Cleared[n]) => Like(rows[n], Cleared[n])
         /\ Marked(rows[n]) \/ Marked(Stock[n]) => Like(rows[n], Stock[n])
         /\ Bound(rows[n]) => Bound(Cleared[n]) /\ Bound(Stock[n])
<1>1. /\ rows[n] \in Row /\ Cleared[n] \in Row /\ Stock[n] \in Row
      /\ Stock[n].id = rows[n].id /\ Cleared[n].id = rows[n].id
      /\ Stock[n].acct = rows[n].acct /\ Cleared[n].acct = rows[n].acct
  BY ClearedType, StockFine DEF CalmInv, Typed, TypeOK
<1>2. Cleared[n] = Unstuck(rows[n]) /\ Stock[n] = Usable(Cleared[n])
  BY DEF Cleared, Stock
<1>3. Marked(rows[n]) \/ Marked(Unstuck(rows[n])) => Like(rows[n], Unstuck(rows[n]))
  BY <1>1 DEF MarkFine, Marked, Unstuck, Like, Row, Status
<1>4. Marked(rows[n]) => rows[n].status = "used"
  BY DEF MarkFine
<1> HIDE DEF Cleared, Stock
<1>5. Marked(rows[n]) \/ Marked(Cleared[n]) => Like(rows[n], Cleared[n])
  BY <1>2, <1>3
<1>6. Marked(Cleared[n]) => Cleared[n].status = "used"
  BY <1>4, <1>5 DEF Like, Marked
<1>7. Stock[n] = Cleared[n] \/ (~Marked(Stock[n]) /\ ~Marked(Cleared[n]))
  BY <1>1, <1>2, <1>6 DEF Usable, Marked, Row
<1>8. Marked(rows[n]) => Marked(Cleared[n])
  BY <1>5 DEF Like, Marked
<1>9. Marked(rows[n]) \/ Marked(Stock[n]) => Like(rows[n], Stock[n])
  BY <1>5, <1>7, <1>8
<1>10. Bound(rows[n]) => Bound(Cleared[n]) /\ Bound(Stock[n])
  BY <1>1 DEF Bound
<1> QED
  BY <1>1, <1>5, <1>9, <1>10

(* with what it clears and sets aside,                                      *)
LEMMA StartKeeps ==
  ASSUME Typed, CalmInv, MarkFine, NEW n \in Names,
         \/ \E m \in Names : StartRepair(m)
         \/ \E m \in Names, a \in Accounts : StartFill(m, a) \/ FindOccupied(m, a)
         \/ NothingToFill
  PROVE  FillKeeps(n)
<1>1. /\ Cleared \in [Names -> Row] /\ Stock \in [Names -> Row]
      /\ Marked(rows[n]) \/ Marked(Cleared[n]) => Like(rows[n], Cleared[n])
      /\ Marked(rows[n]) \/ Marked(Stock[n]) => Like(rows[n], Stock[n])
      /\ Bound(rows[n]) => Bound(Cleared[n]) /\ Bound(Stock[n])
  BY ClearedType, StockKeeps
<1>2. UNCHANGED zone
  BY DEF StartRepair, StartFill, FindOccupied, NothingToFill
<1>3. ASSUME NEW m \in Names, StartRepair(m)
      PROVE  FillKeeps(n)
  <2>1. rows' = [Cleared EXCEPT ![m].filling = TRUE]
    BY <1>3 DEF StartRepair
  <2>2. Like(Cleared[n], rows'[n])
    BY <1>1, <2>1 DEF Like, Row
  <2> HIDE DEF Cleared, Stock
  <2> QED
    BY <1>1, <1>2, <2>2 DEF FillKeeps, Like, Marked, Bound
<1>4. ASSUME NEW m \in Names, NEW a \in Accounts, StartFill(m, a)
      PROVE  FillKeeps(n)
  <2>1. rows' = [Stock EXCEPT ![m].filling = TRUE]
    BY <1>4 DEF StartFill
  <2>2. Like(Stock[n], rows'[n])
    BY <1>1, <2>1 DEF Like, Row
  <2> HIDE DEF Cleared, Stock
  <2> QED
    BY <1>1, <1>2, <2>2 DEF FillKeeps, Like, Marked, Bound
<1>5. ASSUME NEW m \in Names, NEW a \in Accounts, FindOccupied(m, a)
      PROVE  FillKeeps(n)
  <2>1. /\ rows' = [Stock EXCEPT ![m].status = "used", ![m].acct = a, ![m].reason = "none"]
        /\ Fillable(Stock[m])
    BY <1>5 DEF FindOccupied
  <2>2. CASE n = m
    <3>1. rows'[n].reason = "none"
      BY <1>1, <2>1, <2>2 DEF Row
    <3>2. ~Bound(Stock[n]) /\ Stock[n].status = "unused"
      BY <2>1, <2>2 DEF Fillable, Bound
    <3> HIDE DEF Cleared, Stock
    <3>3. ~Marked(rows[n])
      BY <1>1, <3>2 DEF MarkFine, Like
    <3> QED
      BY <1>1, <1>2, <3>1, <3>2, <3>3 DEF FillKeeps, Marked
  <2>3. CASE n # m
    <3>1. rows'[n] = Stock[n]
      BY <1>1, <2>1, <2>3
    <3> HIDE DEF Cleared, Stock
    <3> QED
      BY <1>1, <1>2, <3>1 DEF FillKeeps
  <2> QED
    BY <2>2, <2>3
<1>6. CASE NothingToFill
  <2>1. rows' = Stock
    BY <1>6 DEF NothingToFill
  <2> HIDE DEF Cleared, Stock
  <2> QED
    BY <1>1, <1>2, <2>1 DEF FillKeeps
<1> QED
  BY <1>3, <1>4, <1>5, <1>6

(* any step of it.                                                          *)
LEMMA FillKept ==
  ASSUME Typed, CalmInv, MarkFine, RepairFine, NEW n \in Names,
         FillStep \/ FillFault \/ AddUnanswered
  PROVE  FillKeeps(n)
<1> USE DEF Filling
<1>1. rows \in [Names -> Row] /\ w.mem \in Row
  BY DEF Typed, TypeOK, WorkerState
<1>2. /\ "none" \in Reason /\ "other" \in Reason /\ "readiness" \in Reason
  BY DEF Reason
<1>3. ASSUME UNCHANGED rows, \A m \in Names : zone'[m] # zone[m] => w.pc \in Filling /\ m = w.name
      PROVE  FillKeeps(n)
  BY <1>3 DEF FillKeeps, Like
<1>4. ASSUME w.pc \in Filling, UNCHANGED zone, NEW new \in Row,
             new.acct = w.mem.acct, new.id = w.mem.id,
             new.reason # "cleanup" \/ new.reason = w.mem.reason,
             rows' = [rows EXCEPT ![w.name] = Loaded(new)]
      PROVE  FillKeeps(n)
  <2> DEFINE row == rows[w.name]
  <2>1. row \in Row /\ w.mem \in Row
    BY <1>4, FillRow
  <2>2. Loaded(new) = Flush(row, w.mem, new)
    BY DEF Loaded
  <2> HIDE DEF row
  <2>3. /\ Loaded(new).acct = row.acct /\ Loaded(new).id = row.id
        /\ Loaded(new).reason # "cleanup" \/ Loaded(new).reason = row.reason
    BY <1>4, <2>1, <2>2, FlushFields
  <2> QED
    BY <1>4, <2>3, FinishKeeps DEF row
<1>5. ASSUME w.pc \in {"sync", "add", "ids"}, UNCHANGED zone, NEW id \in Nat,
             rows' = [rows EXCEPT ![w.name] =
                        Loaded([w.mem EXCEPT !.acct = w.acct, !.id = id])]
      PROVE  FillKeeps(n)
  <2> DEFINE new == [w.mem EXCEPT !.acct = w.acct, !.id = id]
             row == rows[w.name]
  <2>1. /\ row \in Row /\ w.mem \in Row /\ new \in Row
        /\ w.newly /\ w.name \in Names
    BY <1>5, FillRow, IdsRowType DEF CalmInv, FillShape
  <2>2. new.reason = w.mem.reason
    BY <2>1 DEF Row
  <2>3. Loaded(new) = Flush(row, w.mem, new)
    BY DEF Loaded
  <2> HIDE DEF new, row
  <2>4. Loaded(new).reason = row.reason
    BY <2>1, <2>2, <2>3, FlushFields
  <2>5. ~Marked(row)
    BY <1>5 DEF RepairFine, row
  <2>6. rows' = [rows EXCEPT ![w.name] = Loaded(new)]
    BY <1>5 DEF new
  <2>7. CASE n = w.name
    BY <1>1, <1>5, <2>1, <2>4, <2>5, <2>6, <2>7 DEF FillKeeps, Marked, row
  <2>8. CASE n # w.name
    BY <1>1, <1>5, <2>6, <2>8 DEF FillKeeps, Like
  <2> QED
    BY <2>7, <2>8
<1>6. CASE WriteDns
  <2>1. /\ w.pc \in Filling /\ \A m \in Names \ {w.name} : zone'[m] = zone[m]
        /\ rows' = [rows EXCEPT ![w.name] = Settled]
    BY <1>6 DEF WriteDns, Typed, TypeOK
  <2> QED
    BY <2>1, SettledType, FinishKeeps
<1>7. CASE RegistrarUnknown \/ RegistrarFails
  <2>1. w.pc = "registrar" /\ UNCHANGED zone
    BY <1>7 DEF RegistrarUnknown, RegistrarFails
  <2>2. ASSUME NEW reason \in {"other", "readiness"}, Finish(Unusable(reason))
        PROVE  FillKeeps(n)
    BY <1>2, <2>1, <2>2, EndKeeps, FinishKeeps DEF Finish
  <2>3. ASSUME Finish(Loaded([w.mem EXCEPT !.filling = FALSE, !.status = "unused",
                                           !.reason = "none"]))
        PROVE  FillKeeps(n)
    <3> DEFINE new == [w.mem EXCEPT !.filling = FALSE, !.status = "unused", !.reason = "none"]
    <3>1. /\ new \in Row /\ new.acct = w.mem.acct /\ new.id = w.mem.id
          /\ new.reason = "none"
      BY <1>1, <1>2 DEF Row, Status
    <3>2. rows' = [rows EXCEPT ![w.name] = Loaded(new)]
      BY <2>3 DEF Finish
    <3> HIDE DEF new
    <3> QED
      BY <1>4, <2>1, <3>1, <3>2
  <2> QED
    BY <1>7, <2>2, <2>3 DEF RegistrarUnknown, RegistrarFails
<1>8. CASE Verified
  <2> DEFINE new == [w.mem EXCEPT !.filling = FALSE, !.status = "used", !.reason = "none"]
  <2>1. /\ new \in Row /\ new.acct = w.mem.acct /\ new.id = w.mem.id
        /\ new.reason = "none"
    BY <1>1, <1>2 DEF Row, Status
  <2>2. w.pc \in Filling /\ UNCHANGED zone /\ Finish(Loaded(new))
    BY <1>8 DEF Verified
  <2> HIDE DEF new
  <2> QED
    BY <1>4, <2>1, <2>2 DEF Finish
<1>9. CASE SyncUsage \/ SyncPoorly
  <2>1. PICK names, quota : Sync(names, quota)
    BY <1>9 DEF SyncUsage, SyncPoorly
  <2>2. w.pc = "sync" /\ UNCHANGED zone /\ w.name \in Names
    BY <2>1 DEF Sync, Typed, Located
  <2>3. CASE Finish(GiveUp)
    BY <1>2, <2>2, <2>3, EndKeeps, FinishKeeps DEF Finish
  <2>4. CASE rows' = [rows EXCEPT ![w.name] =
                        Loaded([w.mem EXCEPT !.acct = w.acct, !.id = IdsOf(names)[w.name]])]
    <3>1. IdsOf(names)[w.name] \in Nat
      BY <2>2, IdsOfType DEF Typed
    <3> QED
      BY <1>5, <2>2, <2>4, <3>1
  <2> QED
    BY <1>3, <2>1, <2>2, <2>3, <2>4 DEF Sync
<1>10. CASE AddConflicts
  <2>1. w.pc = "add" /\ UNCHANGED zone /\ w.name \in Names
    BY <1>10 DEF AddConflicts, Typed, Located
  <2>2. remote[w.name].id \in Nat
    BY <2>1, IdNumbers
  <2> QED
    BY <1>5, <1>10, <2>1, <2>2, FailsKeeps DEF AddConflicts
<1>11. CASE CommitIds
  <2>1. w.pc = "ids" /\ UNCHANGED zone /\ w.name \in Names
    BY <1>11 DEF CommitIds, Typed, Located
  <2>2. w.list[w.name] \in Nat
    BY <2>1, IdNumbers
  <2> QED
    BY <1>5, <1>11, <2>1, <2>2 DEF CommitIds
<1>12. CASE SyncFails
  <2>1. w.pc = "sync" /\ UNCHANGED zone
    BY <1>12 DEF SyncFails
  <2> QED
    BY <1>2, <1>12, <2>1, EndKeeps, FinishKeeps, FailsKeeps DEF SyncFails, Finish
<1>13. CASE \/ AddFails \/ AddUnanswered \/ GuideFails \/ DomainGone \/ VerifyFails
  BY <1>13, FailsKeeps DEF AddFails, AddUnanswered, GuideFails, DomainGone, VerifyFails
<1>14. CASE WriteDnsFails
  <2>1. w.pc = "dns" /\ \A m \in Names \ {w.name} : zone'[m] = zone[m]
    BY <1>14 DEF WriteDnsFails, Typed, TypeOK
  <2> QED
    BY <1>14, <2>1, FailsKeeps DEF WriteDnsFails
<1>15. CASE RegistrarReady \/ EnterSession \/ AddDomain
  BY <1>3, <1>15 DEF RegistrarReady, EnterSession, AddDomain
<1>17. ~RegistrarRefuses
  BY DEF RegistrarRefuses, CalmInv, CohortFine, Typed, Located
<1> QED
  BY <1>6, <1>7, <1>8, <1>9, <1>10, <1>11, <1>12, <1>13, <1>14, <1>15, <1>17,
     StartKeeps DEF FillStep, FillFault

-----------------------------------------------------------------------------
(* The cycle goes on while its accounts are there;                          *)
LEMMA NoAbort == ASSUME Typed, PollOnce PROVE ~AbortCycle
BY DEF AbortCycle, PollOnce, Typed, TypeOK, WorkerState

(* it polls each once,                                                      *)
LEMMA NextPollOnce ==
  ASSUME Typed, PollOnce, [CalmNext]_vars, ~RemoveAccount
  PROVE  PollOnce'
<1> SUFFICES ASSUME w'.pc \in {"pollRead", "pollCommit"}
             PROVE  w'.acct \notin w'.todo
  BY AccountsStay DEF PollOnce
<1>1. w \in WorkerState
  BY DEF Typed, TypeOK
<1>2. CASE w' = w
  BY <1>2 DEF PollOnce
<1>3. ASSUME NEW a \in Accounts, BeginPoll(a)
      PROVE  w'.acct \notin w'.todo
  BY <1>1, <1>3 DEF BeginPoll, WorkerState
<1>4. CASE ReadList \/ ReadPoorly
  BY <1>1, <1>4 DEF ReadList, ReadPoorly, Fetch, PollOnce, WorkerState
<1>5. ASSUME NEW a \in Accounts, SkipThrottled(a)
      PROVE  FALSE
  BY <1>1, <1>5 DEF SkipThrottled, WorkerState
<1>6. ~(RefuseList \/ Reconcile \/ \E kind : PollFails(kind))
  BY LeavePollType DEF RefuseList, Reconcile, PollFails
<1>7. ~(StartCycle \/ EndPolls \/ AbortCycle \/ Crash)
  BY RestingType DEF StartCycle, EndPolls, AbortCycle, Crash, WorkerState, Resting
<1>8. ~(PollAliyunStep \/ PollAliyunFault)
  BY <1>1, GoFillType DEF PollAliyunStep, PollAliyunFault, SkipAliyun, ListAliyun, List,
     EmptyList, Describe, CommitAliyun, AliyunListFails, DescribeFails,
     DescribeThrottled, WorkerState
<1>9. ~(FillStep \/ FillFault \/ AddUnanswered)
  <2>1. ~\E did \in BOOLEAN : w' = AfterFill(did)
    BY AfterFillType DEF Typed
  <2>2. ~\E row : Finish(row)
    BY <2>1 DEF Finish
  <2>3. \A n \in Names : ~StartRepair(n) /\ \A a \in Accounts : ~StartFill(n, a)
    BY DEF StartRepair, StartFill, Resting
  <2>4. ~(\/ YydsFails \/ CountedYydsFails \/ AliyunThrottles
          \/ \E kind, reason : Fails(kind, reason) \/ CountedFails(kind, reason))
    BY <2>2 DEF YydsFails, YydsThrottles, AliyunThrottles, Fails, CountedYydsFails,
       CountedFails
  <2>5. ~(\/ RegistrarReady \/ EnterSession \/ AddDomain \/ CommitIds \/ WriteDns
          \/ AddConflicts)
    BY <1>1, <2>4 DEF RegistrarReady, EnterSession, AddDomain, CommitIds, WriteDns,
       AddConflicts, WorkerState
  <2>6. ~(SyncUsage \/ SyncPoorly)
    <3> SUFFICES ASSUME NEW names, NEW quota, Sync(names, quota)
                 PROVE  FALSE
      BY DEF SyncUsage, SyncPoorly
    <3> QED
      BY <1>1, <2>2 DEF Sync, WorkerState
  <2> QED
    BY <2>1, <2>2, <2>3, <2>4, <2>5, <2>6 DEF FillStep, FillFault, AddUnanswered,
       FindOccupied, NothingToFill, RegistrarRefuses, RegistrarUnknown, RegistrarFails,
       SyncFails, AddFails, GuideFails, WriteDnsFails, DomainGone, Verified, VerifyFails
<1>10. CASE \/ \E d \in Deleters : DeleteYydsStep(d) \/ DeleteYydsFault(d)
            \/ Request \/ Update \/ Website \/ Purchase \/ ThrottleEnds \/ UNCHANGED vars
  BY <1>2, <1>10 DEF DeleteYydsStep, DeleteYydsFault, LockFill, Refused, LockSession,
     DeleteRemote, CleanDns, CleanDnsRefused, CommitDelete, CommitDeleteFails,
     DeleteRemoteFails, CleanDnsFails, Request, RequestDelete, Update, UpdateDomain,
     Website, PersonDeletes, PersonAdds, Purchase, RegistrarChanges, ThrottleEnds,
     AliyunThrottleEnds, YydsThrottleEnds, vars
<1> QED
  BY <1>3, <1>4, <1>5, <1>6, <1>7, <1>8, <1>9, <1>10 DEF CalmNext, WorkerStep, Fault,
     PollYydsStep, PollYydsFault

(* and what is polled stays so until the fills.                             *)
LEMMA StaysPolled ==
  ASSUME Typed, PollOnce, Polled,
         \/ StartCycle \/ EndPolls \/ AbortCycle \/ PollYydsStep \/ PollYydsFault
         \/ PollAliyunStep \/ PollAliyunFault
  PROVE  Polled'
<1>1. w \in WorkerState
  BY DEF Typed, TypeOK
<1>2. /\ ~StartCycle /\ ~PollYydsFault /\ ~PollYydsStep
  BY DEF Polled, StartCycle, PollYydsStep, PollYydsFault, SkipThrottled, BeginPoll,
     ReadList, ReadPoorly, Fetch, RefuseList, Reconcile, PollFails
<1>3. CASE EndPolls
  BY <1>3 DEF EndPolls, Polled, Resting
<1>4. CASE PollAliyunStep \/ PollAliyunFault
  <2>1. w' = GoFill => Polled'
    BY DEF GoFill, Resting, Polled
  <2> QED
    BY <1>1, <1>4, <2>1 DEF PollAliyunStep, PollAliyunFault, SkipAliyun, ListAliyun, List,
       EmptyList, Describe, CommitAliyun, AliyunListFails, DescribeFails,
       DescribeThrottled, WorkerState, Polled
<1> QED
  BY <1>2, <1>3, <1>4, NoAbort

-----------------------------------------------------------------------------
(* A step that touches no row, writes no record and moves no delete request *)
(* but on its way.                                                          *)
LEMMA QuietClean ==
  ASSUME Typed, CleanInv, PollOnce', UNCHANGED <<rows, snaps, barred>>,
         \A n \in Names : zone[n] = "none" => zone'[n] = "none",
         w' = w \/ Elsewhere,
         \A d \in Deleters : del'[d].pc \in Deleting =>
           /\ del[d].pc \in Deleting /\ del'[d].name = del[d].name
           /\ del'[d].mem = del[d].mem /\ del'[d].retry = del[d].retry
           /\ Polled => Polled'
           /\ del'[d].pc = "commit" /\ ~del'[d].failed => zone'[del[d].name] = "none"
  PROVE  CleanInv'
<1>1. MarkFine'
  BY DEF CleanInv, MarkFine, InSnapshot
<1>2. KeptFine'
  BY DEF CleanInv, KeptFine
<1>3. RepairFine'
  BY DEF CleanInv, RepairFine, Elsewhere
<1>4. CopyFine'
  BY DEF CleanInv, CopyFine, Elsewhere
<1>5. RequestFine'
  BY DEF CleanInv, RequestFine, Retries
<1> QED
  BY <1>1, <1>2, <1>3, <1>4, <1>5 DEF CleanInv

(* A fill makes and deletes no row.                                         *)
LEMMA FillPresent ==
  ASSUME Typed, LocksHeld, IdsFollow, CalmInv, FillStep \/ FillFault \/ AddUnanswered
  PROVE  \A n \in Names : rows'[n].present = rows[n].present
<1>1. CASE FillMove
  BY <1>1, MoveFine DEF Ordinary
<1>2. CASE \/ \E n \in Names, a \in Accounts : FindOccupied(n, a)
           \/ NothingToFill
  BY <1>2, StartFine DEF CalmInv
<1>3. CASE \/ RegistrarRefuses \/ RegistrarUnknown \/ RegistrarFails
           \/ SyncFails \/ AddFails \/ AddUnanswered
           \/ WriteDnsFails \/ GuideFails \/ DomainGone \/ Verified \/ VerifyFails
  BY <1>3, EndFine DEF Ordinary
<1> QED
  BY <1>1, <1>2, <1>3 DEF FillStep, FillFault, FillMove

(* A step of a fill.                                                        *)
LEMMA FillClean ==
  ASSUME Typed, LocksHeld, IdsFollow, CalmInv, CleanInv, PollOnce',
         FillStep \/ FillFault \/ AddUnanswered
  PROVE  CleanInv'
<1>1. /\ UNCHANGED <<snaps, barred, del>>
      /\ w.pc \in Filling \/ (w.pc = "fill" /\ fillLock = None)
  BY DEF FillStep, FillFault, AddUnanswered, AddDomain, StartRepair, StartFill,
     FindOccupied, NothingToFill, RegistrarReady, RegistrarRefuses, RegistrarUnknown,
     RegistrarFails, EnterSession, SyncUsage, SyncPoorly, Sync, SyncFails, AddConflicts,
     AddFails, CommitIds, WriteDns, WriteDnsFails, GuideFails, DomainGone, Verified,
     VerifyFails, Filling
<1>2. \A d \in Deleters : del'[d].pc \notin Deleting
  BY <1>1, NoDeleteMeanwhile
<1>3. \A n \in Names : FillKeeps(n)
  BY FillKept DEF CleanInv
<1>4. \A n \in Names : rows'[n].present = rows[n].present
  BY FillPresent
<1>5. w'.pc # "describe"
  <2>1. ~ListAliyun /\ ~Asking
    BY <1>1 DEF ListAliyun, List, Asking, Describe, DescribeFails, Filling
  <2> QED
    BY <2>1, WorkerTurns, FillMovePlace DEF Elsewhere, WorkerStep
<1>6. MarkFine'
  BY <1>1, <1>3 DEF CleanInv, MarkFine, FillKeeps, Like, InSnapshot, Marked
<1>7. ASSUME w.pc \in Filling, barred[w.name] = "panel"
      PROVE  ~w.newly /\ Bound(rows[w.name])
  BY <1>7 DEF CalmInv, FillFine, CleanInv, RepairFine
<1>8. KeptFine'
  <2> SUFFICES ASSUME NEW n \in Names, barred[n] = "panel"
               PROVE  Bound(rows'[n]) \/ CleanupOnly(rows'[n]) \/ zone'[n] = "none"
    BY <1>1, <1>4 DEF CleanInv, KeptFine, Bound, CleanupOnly
  <2>1. CASE Bound(rows[n])
    BY <1>3, <1>7, <2>1 DEF FillKeeps
  <2>2. CASE CleanupOnly(rows[n])
    BY <1>3, <2>2 DEF FillKeeps, CleanupOnly, Marked, Like
  <2>3. CASE zone[n] = "none" /\ ~Bound(rows[n])
    BY <1>3, <1>7, <2>3 DEF FillKeeps
  <2> QED
    BY <2>1, <2>2, <2>3 DEF CleanInv, KeptFine
<1>9. RepairFine'
  <2> SUFFICES ASSUME w'.pc \in Filling
               PROVE  /\ ~Marked(rows'[w'.name])
                      /\ w'.newly \/ barred[w'.name] # "panel" \/ Bound(rows'[w'.name])
    BY <1>1 DEF RepairFine, Marked, Bound
  <2>1. \/ \E n \in Names : StartRepair(n) \/ \E a \in Accounts : StartFill(n, a)
        \/ w.pc \in Filling /\ w'.name = w.name
    <3>1. ~ListAliyun /\ ~Asking
      BY <1>1 DEF ListAliyun, List, Asking, Describe, DescribeFails, Filling
    <3> QED
      BY <3>1, WorkerTurns, FillMovePlace DEF Elsewhere, WorkerStep
  <2>2. ASSUME NEW n \in Names, StartRepair(n)
        PROVE  /\ ~Marked(rows'[w'.name])
               /\ w'.newly \/ barred[w'.name] # "panel" \/ Bound(rows'[w'.name])
    <3>1. w'.name = n
      BY <2>2 DEF StartRepair, Resting
    <3>2. rows'[n] = [Cleared[n] EXCEPT !.filling = TRUE] /\ Cleared[n] \in Row
          /\ Cleared[n].status = "error" /\ Bound(Cleared[n])
      BY <2>2, ClearedType DEF StartRepair, Repairable
    <3> HIDE DEF Cleared
    <3>3. rows'[n].status = "error" /\ Bound(rows'[n])
      BY <3>2 DEF Row, Bound
    <3> QED
      BY <1>6, <3>1, <3>3 DEF MarkFine
  <2>3. ASSUME NEW n \in Names, NEW a \in Accounts, StartFill(n, a)
        PROVE  /\ ~Marked(rows'[w'.name])
               /\ w'.newly \/ barred[w'.name] # "panel" \/ Bound(rows'[w'.name])
    <3>1. w'.name = n /\ w'.newly
      BY <2>3 DEF StartFill, Resting
    <3>2. rows'[n] = [Stock[n] EXCEPT !.filling = TRUE] /\ Stock[n] \in Row
          /\ Stock[n].status = "unused"
      BY <2>3, ClearedType DEF StartFill, Fillable
    <3> HIDE DEF Stock
    <3>3. rows'[n].status = "unused"
      BY <3>2 DEF Row
    <3> QED
      BY <1>6, <3>1, <3>3 DEF MarkFine
  <2>4. CASE w.pc \in Filling /\ w'.name = w.name
    <3>1. w.name \in Names /\ ~Marked(rows[w.name])
      BY <2>4 DEF Typed, Located, CleanInv, RepairFine
    <3> QED
      BY <1>3, <1>7, <2>4, <3>1 DEF FillKeeps, Like, Marked
  <2> QED
    BY <2>1, <2>2, <2>3, <2>4
<1>10. CopyFine' /\ RequestFine'
  BY <1>2, <1>5 DEF CopyFine, RequestFine
<1> QED
  BY <1>6, <1>8, <1>9, <1>10 DEF CleanInv

-----------------------------------------------------------------------------
(* The yyds poll binds a marked domain that is on yyds again, and finds no  *)
(* other marked one.                                                        *)
LEMMA ReconciledClean ==
  ASSUME Typed, CalmInv, CleanInv, NEW a, Accounts = {a}, Reconcile, NEW n \in Names
  PROVE  /\ rows'[n].present = rows[n].present
         /\ rows[n].present /\ w.list[n] # 0 => Bound(rows'[n]) /\ ~Marked(rows'[n])
         /\ Marked(rows[n]) /\ w.list[n] = 0 => rows'[n] = rows[n]
         /\ Marked(rows'[n]) => rows'[n] = rows[n] /\ ~InSnapshot(n)'
         /\ rows[n].status = "used" => rows'[n].status = "used"
         /\ rows'[n].status = "error" /\ Bound(rows[n]) => Bound(rows'[n])
         /\ rows'[n].status = "error" => rows[n].status = "error"
         /\ barred'[n] = "panel" => rows'[n] = rows[n] /\ barred[n] = "panel"
<1> DEFINE row == rows[n]
           id  == w.list[n]
<1>1. /\ row \in Row /\ w.acct = a /\ None # a /\ id \in Nat
      /\ Marked(row) => row.present /\ row.status = "used" /\ row.acct = None /\ n \notin snaps[a]
      /\ barred[n] = "panel" => row.present /\ row.status # "unused"
  BY OwnersAssumption DEF Reconcile, Typed, TypeOK, Located, WorkerState, CleanInv,
     MarkFine, KeptFine, InSnapshot, CalmInv, RowsFine, Fine
<1>2. /\ rows'[n] = Reconciled(row, n, w.list, a)
      /\ barred'[n] = IF \/ Lost(row, n, w.list, a) /\ row.present /\ row.status # "unused"
                         \/ id # 0 /\ barred[n] = "panel"
                      THEN "poll" ELSE barred[n]
      /\ InSnapshot(n)' <=> id # 0
  BY <1>1 DEF Reconcile, InSnapshot, Listed, Typed, TypeOK
<1> HIDE DEF row
<1>3. CASE ~row.present
  <2>1. rows'[n] = row
    BY <1>2, <1>3 DEF Reconciled
  <2> QED
    BY <1>1, <1>2, <1>3, <2>1 DEF row
<1>4. CASE row.present /\ id # 0 /\ n \in snaps[a]
  <2>1. rows'[n] = [row EXCEPT !.acct = a, !.id = id, !.seen = TRUE]
    BY <1>2, <1>4 DEF Reconciled, Lost, RemovedBy
  <2>2. /\ rows'[n].present = row.present /\ rows'[n].status = row.status
        /\ rows'[n].acct = a /\ rows'[n].id = id /\ rows'[n].reason = row.reason
    BY <1>1, <2>1 DEF Row
  <2> QED
    BY <1>1, <1>2, <1>4, <2>2 DEF row, Bound, Marked
<1>5. CASE row.present /\ id # 0 /\ n \notin snaps[a]
  <2>1. rows'[n] = [row EXCEPT !.acct = a, !.id = id, !.seen = TRUE, !.filling = FALSE,
                     !.status = IF @ = "error" THEN @ ELSE "used",
                     !.reason = IF row.status = "error" THEN @ ELSE "none"]
    BY <1>2, <1>5 DEF Reconciled, Lost, RemovedBy
  <2>2. /\ rows'[n].present = row.present
        /\ rows'[n].status = IF row.status = "error" THEN "error" ELSE "used"
        /\ rows'[n].reason = IF row.status = "error" THEN row.reason ELSE "none"
        /\ rows'[n].acct = a /\ rows'[n].id = id
    BY <1>1, <2>1 DEF Row
  <2> QED
    BY <1>1, <1>2, <1>5, <2>2 DEF row, Bound, Marked
<1>6. CASE row.present /\ id = 0 /\ Lost(row, n, w.list, a)
  <2>1. rows'[n] = [row EXCEPT !.acct = None, !.id = 0, !.filling = FALSE,
                               !.status = StatusAfterRemoved(@)]
    BY <1>2, <1>6 DEF Reconciled
  <2>2. /\ rows'[n].present = row.present /\ rows'[n].reason = row.reason
        /\ rows'[n].status = IF row.status = "unused" THEN "unused" ELSE "used"
    BY <1>1, <2>1 DEF Row, StatusAfterRemoved
  <2>3. row.acct = a
    BY <1>6 DEF Lost
  <2> QED
    BY <1>1, <1>2, <1>6, <2>2, <2>3 DEF row, Marked
<1>7. CASE row.present /\ id = 0 /\ ~Lost(row, n, w.list, a)
  <2>1. rows'[n] = row
    BY <1>2, <1>7 DEF Reconciled
  <2> QED
    BY <1>1, <1>2, <1>7, <2>1 DEF row
<1> QED
  BY <1>3, <1>4, <1>5, <1>6, <1>7

(* So it keeps the marks that still say something.                          *)
LEMMA ReconcileClean ==
  ASSUME Typed, CalmInv, CleanInv, PollOnce', NEW a, Accounts = {a}, Reconcile
  PROVE  CleanInv'
<1>1. /\ UNCHANGED <<zone, del>> /\ w.pc = "pollCommit" /\ LeavePoll
  BY DEF Reconcile
<1>2. w'.pc = "poll" /\ w'.todo = {}
  <2>1. w.acct = a /\ w.todo \in SUBSET Accounts /\ w.acct \notin w.todo
    BY <1>1 DEF Typed, TypeOK, Located, WorkerState, CleanInv, PollOnce
  <2>2. w.todo = {}
    BY <2>1
  <2> QED
    BY <1>1, <2>2 DEF LeavePoll, Resting
<1>3. MarkFine'
  BY ReconciledClean DEF CleanInv, MarkFine, Marked, InSnapshot
<1>4. KeptFine'
  BY <1>1, ReconciledClean DEF CleanInv, KeptFine
<1>5. RepairFine' /\ CopyFine'
  BY <1>2 DEF RepairFine, CopyFine, Filling
<1>6. RequestFine'
  <2> SUFFICES ASSUME NEW d \in Deleters, del[d].pc \in Deleting
               PROVE  LET row == rows'[del[d].name] mem == del[d].mem IN
                      /\ row.present
                      /\ mem.status = "used" => row.status = "used"
                      /\ row.status = "error" => Bound(row)
                      /\ del[d].retry => CleanupOnly(row) \/ (Bound(row) /\ Polled')
    BY <1>1 DEF CleanInv, RequestFine, Retries, Bound, CleanupOnly, Marked
  <2> DEFINE n == del[d].name
  <2>1. n \in Names
    BY DEF Typed, Located, Deleting
  <2>2. Polled'
    BY <1>2 DEF Polled
  <2>3. ~Polled
    BY <1>1 DEF Polled
  <2>4. /\ rows[n].present
        /\ del[d].mem.status = "used" => rows[n].status = "used"
        /\ rows[n].status = "error" => Bound(rows[n])
        /\ del[d].retry => CleanupOnly(rows[n])
    BY <2>3 DEF CleanInv, RequestFine, Retries
  <2>5. CleanupOnly(rows[n]) => CleanupOnly(rows'[n]) \/ Bound(rows'[n])
    BY <2>1, <2>4, ReconciledClean DEF CleanupOnly, Marked
  <2> QED
    BY <2>1, <2>2, <2>4, <2>5, ReconciledClean
<1> QED
  BY <1>3, <1>4, <1>5, <1>6 DEF CleanInv

-----------------------------------------------------------------------------
(* The Aliyun poll lists, and loads rows in error, none of which is marked  *)
(* or being deleted;                                                        *)
LEMMA ListClean ==
  ASSUME Typed, CleanInv, PollOnce', ListAliyun \/ Asking
  PROVE  CleanInv'
<1>1. /\ UNCHANGED <<rows, snaps, zone, barred, del>> /\ w.pc \in {"aliyun", "describe"}
      /\ w'.pc = "describe" /\ w'.todo = w.todo
      /\ \A n \in Names : w'.list[n] = Ready =>
           \/ w'.copies[n] = rows[n]
           \/ w.pc = "describe" /\ w.list[n] = Ready /\ w'.copies[n] = w.copies[n]
  <2>1. w \in WorkerState
    BY DEF Typed, TypeOK
  <2>2. CASE ListAliyun
    BY <2>1, <2>2 DEF ListAliyun, List, WorkerState, Unasked, Ready
  <2>3. ASSUME NEW n \in Names, Describe(n)
        PROVE  /\ w.pc = "describe" /\ w'.pc = "describe" /\ w'.todo = w.todo
               /\ w'.copies[n] = rows[n]
               /\ \A m \in Names \ {n} : w'.list[m] = w.list[m] /\ w'.copies[m] = w.copies[m]
    BY <2>1, <2>3 DEF Describe, WorkerState
  <2>4. ASSUME NEW n \in Names, DescribeFails(n)
        PROVE  /\ w.pc = "describe" /\ w'.pc = "describe" /\ w'.todo = w.todo
               /\ w'.list[n] # Ready
               /\ \A m \in Names \ {n} : w'.list[m] = w.list[m] /\ w'.copies[m] = w.copies[m]
    BY <2>1, <2>4 DEF DescribeFails, WorkerState, Unknown, Ready
  <2>5. Asking => UNCHANGED <<rows, snaps, zone, barred, del>>
    BY DEF Asking, Describe, DescribeFails
  <2> QED
    BY <2>2, <2>3, <2>4, <2>5 DEF Asking
<1>2. MarkFine' /\ KeptFine' /\ RepairFine'
  BY <1>1 DEF CleanInv, MarkFine, KeptFine, RepairFine, InSnapshot, Filling
<1>3. CopyFine'
  <2> SUFFICES ASSUME NEW n \in Names, w'.list[n] = Ready, Clearable(w'.copies[n])
               PROVE  /\ rows[n].acct = None /\ ~Marked(rows[n])
                      /\ \A d \in Deleters : del[d].pc \in Deleting => del[d].name # n
    BY <1>1 DEF CopyFine, Marked
  <2>1. CASE w'.copies[n] = rows[n]
    <3>1. rows[n].status = "error" /\ rows[n].acct = None /\ rows[n].reason = "readiness"
      BY <2>1 DEF Clearable
    <3> QED
      BY <3>1 DEF CleanInv, RequestFine, Bound, Marked
  <2>2. CASE w.pc = "describe" /\ w.list[n] = Ready /\ w'.copies[n] = w.copies[n]
    BY <2>2 DEF CleanInv, CopyFine
  <2> QED
    BY <1>1, <2>1, <2>2
<1>4. RequestFine'
  BY <1>1 DEF CleanInv, RequestFine, Retries, Polled
<1> QED
  BY <1>1, <1>2, <1>3, <1>4 DEF CleanInv

(* of what it judges it writes back what those rows did not keep.           *)
LEMMA ItemClean ==
  ASSUME Typed, CalmInv, CleanInv, w.pc = "describe", NEW n \in Answered,
         rows[n].present
  PROVE  \/ Like(rows[n], Item(n))
         \/ w.list[n] = Ready /\ Clearable(w.copies[n]) /\ ~Marked(Item(n))
<1> DEFINE row == rows[n]
           mem == w.copies[n]
<1>1. /\ n \in Names /\ w.list[n] = Ready /\ w.list[n] # OnHold
      /\ row \in Row /\ mem \in Row /\ mem.present
  <2>1. n \in Names /\ w.list[n] = Ready /\ w.list[n] # OnHold
    BY DEF CalmInv, ListFine, Answered, Ready, OnHold
  <2> QED
    BY <2>1 DEF Typed, TypeOK, WorkerState, CalmInv, ListFine
<1>2. Judged(mem) \in Row
  BY <1>1 DEF Judged, Row, Status, Reason
<1>3. Item(n) = Flush(row, mem, Judged(mem))
  BY <1>1 DEF Item
<1>4. IF Clearable(mem) THEN Judged(mem).reason = "none" /\ mem.reason = "readiness"
      ELSE /\ Judged(mem).status = mem.status /\ Judged(mem).acct = mem.acct
           /\ Judged(mem).id = mem.id /\ Judged(mem).reason = mem.reason
  BY <1>1 DEF Judged, Clearable, Row
<1> HIDE DEF row, mem
<1>5. CASE Clearable(mem)
  <2>1. Item(n).reason = "none"
    BY <1>1, <1>2, <1>3, <1>4, <1>5, FlushFields
  <2> QED
    BY <1>1, <1>5, <2>1 DEF Marked, mem
<1>6. CASE ~Clearable(mem)
  <2>1. /\ Item(n).present = row.present /\ Item(n).status = row.status
        /\ Item(n).acct = row.acct /\ Item(n).id = row.id /\ Item(n).reason = row.reason
    BY <1>1, <1>2, <1>3, <1>4, <1>6, FlushFields
  <2> QED
    BY <2>1 DEF Like, row
<1> QED
  BY <1>5, <1>6

(* So its commit keeps the marks, finished or throttled half way.           *)
LEMMA InventoryClean ==
  ASSUME Typed, CalmInv, CleanInv, PollOnce', w.pc = "describe", w' = GoFill,
         \A n \in Names :
           rows'[n] = IF n \in Answered THEN Item(n)
                      ELSE IF rows'[n] = rows[n] THEN rows[n]
                      ELSE IF w.list[n] = 0 THEN NoRow ELSE rows[n],
         UNCHANGED <<snaps, barred, zone, del>>, Polled => Polled'
  PROVE  CleanInv'
<1>1. ASSUME NEW n \in Names, rows[n].present
      PROVE  \/ Like(rows[n], rows'[n])
             \/ /\ rows'[n].present /\ ~Marked(rows'[n])
                /\ rows[n].acct = None /\ ~Marked(rows[n])
                /\ \A d \in Deleters : del[d].pc \in Deleting => del[d].name # n
  <2>1. CASE rows'[n] = rows[n]
    BY <2>1 DEF Like
  <2>2. CASE n \in Answered
    <3>1. rows'[n] = Item(n)
      BY <2>2
    <3>2. Item(n).present
      BY <1>1, <2>2, ItemFine
    <3> QED
      BY <1>1, <2>2, <3>1, <3>2, ItemClean DEF CleanInv, CopyFine
  <2>3. w.list[n] # 0
    BY <1>1 DEF CalmInv, ListFine
  <2> QED
    BY <2>1, <2>2, <2>3
<1>2. ASSUME NEW n \in Names, ~rows[n].present
      PROVE  ~Marked(rows'[n])
  <2>1. ~Marked(rows[n]) /\ ~Marked(NoRow)
    BY <1>2 DEF CleanInv, MarkFine, Marked, NoRow
  <2>2. ASSUME n \in Answered
        PROVE  Item(n) = Discovered(n)
    <3>1. w.list[n] = Ready
      BY <2>2 DEF CalmInv, ListFine, Answered, Ready, OnHold
    <3>2. ~w.copies[n].present
      BY <1>2, <3>1 DEF CalmInv, ListFine
    <3> QED
      BY <3>2 DEF Item
  <2>3. ~Marked(Discovered(n))
    BY DEF Discovered, NoRow, Marked
  <2> QED
    BY <2>1, <2>2, <2>3
<1>3. MarkFine'
  BY <1>1, <1>2 DEF CleanInv, MarkFine, Like, Marked, InSnapshot
<1>4. KeptFine'
  <2> SUFFICES ASSUME NEW n \in Names, barred[n] = "panel"
               PROVE  /\ rows'[n].present
                      /\ Bound(rows'[n]) \/ CleanupOnly(rows'[n]) \/ zone[n] = "none"
    BY DEF KeptFine, Bound, CleanupOnly
  <2>1. /\ rows[n].present
        /\ Bound(rows[n]) \/ CleanupOnly(rows[n]) \/ zone[n] = "none"
    BY DEF CleanInv, KeptFine
  <2> QED
    BY <1>1, <2>1 DEF Like, Bound, CleanupOnly, Marked
<1>5. RepairFine' /\ CopyFine'
  BY GoFillType DEF RepairFine, CopyFine, Filling
<1>6. RequestFine'
  <2> SUFFICES ASSUME NEW d \in Deleters, del[d].pc \in Deleting
               PROVE  LET row == rows'[del[d].name] mem == del[d].mem IN
                      /\ row.present
                      /\ mem.status = "used" => row.status = "used"
                      /\ row.status = "error" => Bound(row)
                      /\ del[d].retry => CleanupOnly(row) \/ (Bound(row) /\ Polled')
    BY DEF CleanInv, RequestFine, Retries, Bound, CleanupOnly, Marked
  <2>1. del[d].name \in Names /\ rows[del[d].name].present
    BY DEF Typed, Located, Deleting, CleanInv, RequestFine
  <2>2. Like(rows[del[d].name], rows'[del[d].name])
    BY <1>1, <2>1
  <2> QED
    BY <2>2 DEF Like, CleanInv, RequestFine, Retries, Bound, CleanupOnly
<1> QED
  BY <1>3, <1>4, <1>5, <1>6 DEF CleanInv

(* These are the ways its commit ends.                                      *)
LEMMA AliyunClean ==
  ASSUME Typed, CalmInv, CleanInv, PollOnce', CommitAliyun \/ DescribeThrottled
  PROVE  CleanInv'
<1>1. Polled => Polled'
  BY StaysPolled DEF CleanInv, PollAliyunStep, PollAliyunFault
<1>2. /\ w.pc = "describe" /\ w' = GoFill
      /\ UNCHANGED <<snaps, barred, zone, del>>
  BY DEF CommitAliyun, DescribeThrottled
<1>3. ASSUME NEW n \in Names
      PROVE  rows'[n] = IF n \in Answered THEN Item(n)
                        ELSE IF rows'[n] = rows[n] THEN rows[n]
                        ELSE IF w.list[n] = 0 THEN NoRow ELSE rows[n]
  <2>1. CASE CommitAliyun
    <3>1. rows'[n] = IF n \in Answered THEN Item(n)
                     ELSE IF Unlisted(n) THEN NoRow ELSE rows[n]
      BY <2>1 DEF CommitAliyun
    <3> QED
      BY <3>1 DEF Unlisted
  <2>2. CASE DescribeThrottled
    <3>1. rows'[n] = IF n \in Answered THEN Item(n) ELSE rows[n]
      BY <2>2 DEF DescribeThrottled
    <3> QED
      BY <3>1
  <2> QED
    BY <2>1, <2>2
<1> QED
  BY <1>1, <1>2, <1>3, InventoryClean

-----------------------------------------------------------------------------
(* A delete request takes a bound row, or one whose mark it found.          *)
LEMMA LockFillClean ==
  ASSUME Typed, LocksHeld, CleanInv, PollOnce', NEW d \in Deleters, LockFill(d)
  PROVE  CleanInv'
<1> DEFINE n   == del[d].name
           row == rows[n]
<1>1. /\ n \in Names /\ row \in Row /\ row.present
      /\ CleanupOnly(row) \/ Bound(row)
      /\ UNCHANGED <<rows, snaps, zone, barred, w>>
  BY DEF LockFill, Deletable, Typed, TypeOK, Located
<1>2. /\ del'[d].name = n /\ del'[d].mem = row /\ del'[d].retry = CleanupOnly(row)
      /\ del'[d].pc # "commit"
      /\ \A e \in Deleters \ {d} : del'[e] = del[e]
  BY DEF LockFill, Typed, TypeOK, DeleterState
<1>3. \A e \in Deleters \ {d} : del'[e].pc \notin Deleting
  BY <1>2, NoDeleteMeanwhile DEF LockFill
<1>4. /\ Marked(row) <=> CleanupOnly(row)
      /\ CleanupOnly(row) => row.acct = None /\ row.status = "used"
  BY <1>1 DEF CleanInv, MarkFine, Marked, CleanupOnly, Bound
<1> HIDE DEF row
<1>5. /\ row.status = "error" => Bound(row)
      /\ CleanupOnly(row) => Retries(row, row)
      /\ ~CleanupOnly(row) => Bound(row) /\ ~Marked(row)
  BY <1>1, <1>4 DEF Retries
<1>6. ASSUME NEW e \in Deleters, del'[e].pc \in Deleting
      PROVE  e = d /\ del'[e].name = n /\ del'[e].mem = row
             /\ del'[e].retry = CleanupOnly(row) /\ del'[e].pc # "commit"
  BY <1>2, <1>3, <1>6
<1>7. RequestFine'
  <2>1. rows'[n] = row /\ (Retries(row, row) => CleanupOnly(row) /\ CleanupOnly(rows'[n])
                             /\ row.acct = None /\ row.status = "used")
    BY <1>1, <1>4 DEF row, Retries
  <2> HIDE DEF n
  <2> QED
    BY <1>1, <1>5, <1>6, <2>1 DEF RequestFine, Retries
<1>8. CopyFine'
  <2>1. ASSUME NEW m \in Names, w.pc = "describe", w.list[m] = Ready, Clearable(w.copies[m])
        PROVE  m # n
    BY <1>1, <1>4, <2>1 DEF CleanInv, CopyFine, row, Bound
  <2> HIDE DEF n
  <2> QED
    BY <1>1, <1>6, <2>1 DEF CleanInv, CopyFine, Marked, Clearable
<1>9. MarkFine' /\ KeptFine' /\ RepairFine'
  BY <1>1 DEF CleanInv, MarkFine, KeptFine, RepairFine, InSnapshot
<1> QED
  BY <1>7, <1>8, <1>9 DEF CleanInv

(* Its commit marks the row it unbinds unless the records are gone, and     *)
(* takes a mark back only with them.                                        *)
LEMMA DeletedRow ==
  ASSUME Typed, CleanInv, NEW a, Accounts = {a}, NEW d \in Deleters, CommitDelete(d)
  PROVE  LET n == del[d].name  after == rows'[n] IN
         /\ after.present
         /\ Marked(after) => /\ after.status = "used" /\ after.acct = None /\ after.id = 0
                             /\ \A b \in Accounts : n \notin snaps'[b]
         /\ Bound(after) \/ CleanupOnly(after) \/ zone[n] = "none"
<1> DEFINE n   == del[d].name
           mem == del[d].mem
           row == rows[n]
           new == [mem EXCEPT !.acct = None, !.id = 0, !.filling = FALSE, !.status = "used",
                          !.reason = IF del[d].failed THEN "cleanup" ELSE "none"]
           after == Flush(row, mem, new)
           snap == \E b \in Accounts : n \in snaps'[b]
<1>1. /\ n \in Names /\ row \in Row /\ mem \in Row /\ row.present
      /\ mem.status = "used" => row.status = "used"
      /\ del[d].retry => Retries(row, mem)
      /\ ~del[d].retry => Bound(mem) /\ ~Marked(mem)
      /\ ~del[d].failed => zone[n] = "none"
      /\ Marked(row) => row.acct = None /\ row.id = 0 /\ ~InSnapshot(n)
  BY DEF CommitDelete, Typed, TypeOK, Located, DeleterState, Deleting, CleanInv,
     RequestFine, MarkFine
<1>2. rows'[n] = after
  BY <1>1 DEF CommitDelete, Typed, TypeOK
<1>3. /\ mem.acct = None => (snap => InSnapshot(n))
      /\ mem.acct # None => ~snap
  <2>1. /\ snaps \in [Accounts -> SUBSET Names] /\ mem.acct \in Accounts \cup {None}
        /\ snaps' = IF mem.acct = None THEN snaps
                    ELSE [snaps EXCEPT ![mem.acct] = @ \ {n}]
    BY <1>1 DEF CommitDelete, Typed, TypeOK, Row
  <2>2. snap <=> n \in snaps'[a]
    BY DEF snap
  <2> HIDE DEF mem, snap
  <2>3. CASE mem.acct = None
    BY <2>1, <2>2, <2>3 DEF InSnapshot
  <2>4. CASE mem.acct # None
    BY <2>1, <2>2, <2>4
  <2> QED
    BY <2>3, <2>4
<1>4. /\ new \in Row /\ new.status = "used" /\ new.acct = None /\ new.id = 0
      /\ new.reason = IF del[d].failed THEN "cleanup" ELSE "none"
  BY <1>1 DEF Row, Status, Reason
<1> HIDE DEF new, row, mem
<1>5. /\ after.present = row.present
      /\ after.status = IF new.status = mem.status THEN row.status ELSE new.status
      /\ after.acct = IF new.acct = mem.acct THEN row.acct ELSE new.acct
      /\ after.id = IF new.id = mem.id THEN row.id ELSE new.id
      /\ after.reason = IF new.reason = mem.reason THEN row.reason ELSE new.reason
  <2>1. row \in Row /\ mem \in Row /\ new \in Row
    BY <1>1, <1>4
  <2> QED
    BY <2>1, FlushFields
<1> HIDE DEF after, snap
<1>6. after.present /\ after.status = "used"
  BY <1>1, <1>4, <1>5
<1>7. CASE ~del[d].retry
  <2>1. mem.acct # None /\ mem.id # 0 /\ mem.reason # "cleanup"
    BY <1>1, <1>7 DEF Bound, Marked
  <2>2. after.acct = None /\ after.id = 0 /\ (del[d].failed => after.reason = "cleanup")
    BY <1>4, <1>5, <2>1
  <2>3. ~snap
    BY <1>3, <2>1
  <2> QED
    BY <1>1, <1>2, <1>6, <2>2, <2>3 DEF CleanupOnly, Marked, snap
<1>8. CASE del[d].retry
  <2>1. /\ mem.acct = None /\ mem.id = 0 /\ mem.reason = "cleanup"
        /\ CleanupOnly(row) \/ Bound(row)
    BY <1>1, <1>8 DEF Retries, CleanupOnly
  <2>2. /\ after.acct = row.acct /\ after.id = row.id
        /\ after.reason = IF del[d].failed THEN row.reason ELSE "none"
    BY <1>4, <1>5, <2>1
  <2>3. Marked(after) => Marked(row)
    BY <2>2 DEF Marked
  <2>4. CASE Bound(row)
    BY <1>1, <1>2, <1>3, <1>6, <2>1, <2>2, <2>3, <2>4 DEF Bound, snap
  <2>5. CASE CleanupOnly(row)
    BY <1>1, <1>2, <1>3, <1>6, <2>1, <2>2, <2>3, <2>5 DEF CleanupOnly, snap
  <2> QED
    BY <2>1, <2>4, <2>5
<1> QED
  BY <1>7, <1>8

(* So it keeps the marks.                                                   *)
LEMMA CommitDeleteClean ==
  ASSUME Typed, LocksHeld, CleanInv, PollOnce', NEW a, Accounts = {a},
         NEW d \in Deleters, CommitDelete(d)
  PROVE  CleanInv'
<1> DEFINE n == del[d].name
<1>1. /\ n \in Names /\ del[d].pc \in Deleting /\ UNCHANGED <<zone, w>>
      /\ \A m \in Names \ {n} : rows'[m] = rows[m] /\ barred'[m] = barred[m]
      /\ \A m \in Names : InSnapshot(m)' => InSnapshot(m)
  BY DEF CommitDelete, Typed, TypeOK, Located, Deleting, InSnapshot
<1>2. /\ rows'[n].present
      /\ Marked(rows'[n]) => /\ rows'[n].status = "used" /\ rows'[n].acct = None
                             /\ rows'[n].id = 0
                             /\ \A b \in Accounts : n \notin snaps'[b]
      /\ Bound(rows'[n]) \/ CleanupOnly(rows'[n]) \/ zone[n] = "none"
  BY DeletedRow
<1>3. /\ \A e \in Deleters : del'[e].pc \notin Deleting
      /\ w.pc \notin Filling
  <2>1. \A e \in Deleters : del[e].pc \in Deleting => e = d
    BY <1>1 DEF LocksHeld
  <2>2. w.pc \notin Filling
    BY <1>1, OwnersAssumption DEF LocksHeld
  <2>3. del' = [del EXCEPT ![d] = NoRequest]
    BY DEF CommitDelete, Leave
  <2> QED
    BY <2>1, <2>2, <2>3, NoRequestType DEF Deleting, Typed, TypeOK
<1>4. w.pc = "describe" => ~(w.list[n] = Ready /\ Clearable(w.copies[n]))
  BY <1>1 DEF CleanInv, CopyFine
<1> HIDE DEF n
<1>5. MarkFine'
  <2>1. ASSUME NEW m \in Names, Marked(rows'[m])
        PROVE  /\ rows'[m].present /\ rows'[m].status = "used"
               /\ rows'[m].acct = None /\ rows'[m].id = 0
               /\ ~InSnapshot(m)'
    <3>1. CASE m = n
      BY <1>2, <2>1, <3>1 DEF InSnapshot
    <3>2. CASE m # n
      <4>1. rows'[m] = rows[m] /\ (InSnapshot(m)' => InSnapshot(m))
        BY <1>1, <3>2
      <4> QED
        BY <2>1, <4>1 DEF CleanInv, MarkFine
    <3> QED
      BY <3>1, <3>2
  <2> QED
    BY <2>1 DEF MarkFine, Marked, InSnapshot
<1>6. KeptFine'
  <2> SUFFICES ASSUME NEW m \in Names, barred'[m] = "panel"
               PROVE  /\ rows'[m].present
                      /\ Bound(rows'[m]) \/ CleanupOnly(rows'[m]) \/ zone[m] = "none"
    BY <1>1 DEF KeptFine, Bound, CleanupOnly
  <2> QED
    BY <1>1, <1>2 DEF CleanInv, KeptFine
<1>7. RepairFine' /\ RequestFine'
  BY <1>1, <1>3 DEF RepairFine, RequestFine
<1>8. CopyFine'
  BY <1>1, <1>3, <1>4 DEF CleanInv, CopyFine, Clearable, Marked
<1> QED
  BY <1>5, <1>6, <1>7, <1>8 DEF CleanInv

(* A domain put back to stock outside of its deletion has no mark to keep.  *)
LEMMA ReleaseClean ==
  ASSUME Typed, CleanInv, PollOnce', NEW n \in Names, UpdateDomain(n, "unused"),
         \A d \in Deleters : del[d].pc \in Deleting => del[d].name # n
  PROVE  CleanInv'
<1> DEFINE free == ~InSnapshot(n)
<1>1. /\ UNCHANGED <<snaps, zone, w, del>>
      /\ rows[n].present /\ rows[n] \in Row /\ barred'[n] = "no"
      /\ \A m \in Names \ {n} : rows'[m] = rows[m] /\ barred'[m] = barred[m]
  BY DEF UpdateDomain, Typed, TypeOK
<1>2. rows'[n] = [rows[n] EXCEPT !.status = "unused", !.filling = FALSE, !.reason = "none",
                                 !.acct = IF free THEN None ELSE @,
                                 !.id = IF free THEN 0 ELSE @]
  BY DEF UpdateDomain, Typed, TypeOK
<1>3. rows'[n].reason = "none" /\ (rows[n].acct = None => rows'[n].acct = None)
  BY <1>1, <1>2 DEF Row
<1>4. MarkFine'
  BY <1>1, <1>3 DEF CleanInv, MarkFine, Marked, InSnapshot
<1>5. KeptFine'
  BY <1>1 DEF CleanInv, KeptFine
<1>6. RepairFine'
  BY <1>1, <1>3 DEF CleanInv, RepairFine, Marked, Typed, Located
<1>7. CopyFine'
  BY <1>1, <1>3 DEF CleanInv, CopyFine, Marked
<1>8. RequestFine'
  <2>1. ASSUME NEW d \in Deleters, del[d].pc \in Deleting
        PROVE  rows'[del[d].name] = rows[del[d].name]
    BY <1>1, <2>1 DEF Deleting, Typed, Located
  <2> QED
    BY <1>1, <2>1 DEF CleanInv, RequestFine, Retries, Polled
<1> QED
  BY <1>4, <1>5, <1>6, <1>7, <1>8 DEF CleanInv

-----------------------------------------------------------------------------
(* At the start nothing is marked and nothing has been deleted.             *)
LEMMA InitClean == Init => CleanInv
<1> SUFFICES ASSUME NEW bound \in [Names -> Accounts \cup {None}],
                    NEW owned \in SUBSET Names, NEW served \in SUBSET Names,
                    InitFrom(bound, owned, served)
             PROVE  CleanInv
  BY DEF Init
<1>1. PollOnce
  BY RestingType DEF InitFrom, PollOnce
<1>2. MarkFine
  <2> SUFFICES ASSUME NEW n \in Names
               PROVE  rows[n].reason = "none"
    BY DEF MarkFine, Marked
  <2> QED
    BY DEF InitFrom, FirstRow, NoRow
<1>3. KeptFine
  BY DEF InitFrom, KeptFine
<1>4. RepairFine /\ CopyFine
  BY RestingType DEF InitFrom, RepairFine, CopyFine, Filling
<1>5. RequestFine
  BY NoRequestType DEF InitFrom, RequestFine, Deleting
<1> QED
  BY <1>1, <1>2, <1>3, <1>4, <1>5 DEF CleanInv

(* No calm step that keeps its hands off forgets a mark.                    *)
LEMMA NextClean ==
  ASSUME Typed, LocksHeld, IdsFollow, CalmInv, CleanInv, NEW a, Accounts = {a},
         [CalmNext]_vars, [HandsOff]_vars
  PROVE  CleanInv'
<1>1. CASE UNCHANGED vars
  BY <1>1 DEF vars, CleanInv, PollOnce, MarkFine, KeptFine, RepairFine, CopyFine,
     RequestFine, Retries, Polled, InSnapshot, Marked, Bound, CleanupOnly
<1> SUFFICES ASSUME CalmNext, HandsOff, ~UNCHANGED vars
             PROVE  CleanInv'
  BY <1>1
<1>2. PollOnce'
  BY NextPollOnce DEF HandsOff, CleanInv
<1>3. ASSUME UNCHANGED <<rows, snaps, zone, barred>>, w' = w \/ Elsewhere, UNCHANGED del,
             Polled => Polled'
      PROVE  CleanInv'
  BY <1>2, <1>3, QuietClean DEF CleanInv, RequestFine
<1>4. CASE StartCycle \/ EndPolls \/ AbortCycle \/ PollYydsStep \/ PollYydsFault
  <2>1. CASE Reconcile
    BY <1>2, <2>1, ReconcileClean
  <2>2. Elsewhere /\ (Polled => Polled')
    BY <1>4, PollsElsewhere, StaysPolled DEF CleanInv
  <2> QED
    BY <1>3, <1>4, <2>1, <2>2 DEF StartCycle, EndPolls, AbortCycle, PollYydsStep,
       PollYydsFault, SkipThrottled, BeginPoll, ReadList, ReadPoorly, Fetch, RefuseList,
       PollFails
<1>5. CASE PollAliyunStep \/ PollAliyunFault
  <2>1. CASE ListAliyun \/ Asking
    BY <1>2, <2>1, ListClean
  <2>2. CASE CommitAliyun \/ DescribeThrottled
    BY <1>2, <2>2, AliyunClean
  <2>3. CASE SkipAliyun \/ EmptyList \/ AliyunListFails
    <3>1. Elsewhere /\ (Polled => Polled')
      BY <1>5, <2>3, PollsElsewhere, StaysPolled DEF CleanInv, PollAliyunFault
    <3> QED
      BY <1>3, <2>3, <3>1 DEF SkipAliyun, EmptyList, AliyunListFails
  <2> QED
    BY <1>5, <2>1, <2>2, <2>3 DEF PollAliyunStep, PollAliyunFault, Asking
<1>6. CASE FillStep \/ FillFault \/ AddUnanswered
  BY <1>2, <1>6, FillClean
<1>7. ASSUME UNCHANGED <<rows, snaps, barred, w>>,
             \A n \in Names : zone[n] = "none" => zone'[n] = "none",
             NEW d \in Deleters, NEW r, del' = [del EXCEPT ![d] = r],
             \A e \in Deleters \ {d} : del[e].pc \notin Deleting \/ UNCHANGED zone,
             r.pc \in Deleting =>
               /\ del[d].pc \in Deleting /\ r.name = del[d].name
               /\ r.mem = del[d].mem /\ r.retry = del[d].retry
               /\ r.pc = "commit" /\ ~r.failed => zone'[del[d].name] = "none"
      PROVE  CleanInv'
  <2>1. /\ del'[d] = r
        /\ \A e \in Deleters \ {d} : del'[e] = del[e]
    BY <1>7 DEF Typed, TypeOK
  <2>2. Polled => Polled'
    BY <1>7 DEF Polled
  <2>3. ASSUME NEW e \in Deleters, del'[e].pc \in Deleting
        PROVE  /\ del[e].pc \in Deleting /\ del'[e].name = del[e].name
               /\ del'[e].mem = del[e].mem /\ del'[e].retry = del[e].retry
               /\ del'[e].pc = "commit" /\ ~del'[e].failed => zone'[del[e].name] = "none"
    <3>1. CASE e = d
      BY <1>7, <2>1, <2>3, <3>1
    <3>2. CASE e # d
      BY <1>7, <2>1, <2>3, <3>2 DEF CleanInv, RequestFine
    <3> QED
      BY <3>1, <3>2
  <2> QED
    BY <1>2, <1>7, <2>2, <2>3, QuietClean
<1>8. ASSUME NEW d \in Deleters, DeleteYydsStep(d) \/ DeleteYydsFault(d)
      PROVE  CleanInv'
  <2>1. CASE LockFill(d)
    BY <1>2, <2>1, LockFillClean
  <2>2. CASE CommitDelete(d)
    BY <1>2, <2>2, CommitDeleteClean
  <2>3. del[d] \in DeleterState /\ zone \in [Names -> {"none", "partial", "full"}]
    BY DEF Typed, TypeOK
  <2>4. CASE Refused(d) \/ CommitDeleteFails(d) \/ DeleteRemoteFails(d)
    BY <1>7, <2>4, NoRequestType DEF Refused, CommitDeleteFails, DeleteRemoteFails, Leave,
       Deleting
  <2>5. ASSUME UNCHANGED <<rows, snaps, zone, barred, w>>, del[d].pc \in Deleting,
               NEW r, del' = [del EXCEPT ![d] = r], r.name = del[d].name, r.mem = del[d].mem,
               r.retry = del[d].retry, r.pc = "commit" => r.failed
        PROVE  CleanInv'
    BY <1>7, <2>5
  <2>6. ASSUME LockSession(d)
        PROVE  CleanInv'
    <3> DEFINE r == [del[d] EXCEPT !.pc = IF del[d].retry THEN "cleanup" ELSE "remote"]
    <3>1. r.name = del[d].name /\ r.mem = del[d].mem /\ r.retry = del[d].retry
          /\ r.pc # "commit"
      BY <2>3 DEF DeleterState
    <3>2. del' = [del EXCEPT ![d] = r]
      BY <2>6 DEF LockSession
    <3> HIDE DEF r
    <3> QED
      BY <2>5, <2>6, <3>1, <3>2 DEF LockSession, Deleting
  <2>7. ASSUME DeleteRemote(d)
        PROVE  CleanInv'
    <3> DEFINE r == [del[d] EXCEPT !.pc = "cleanup", !.gone = KnownToYyds(d)]
    <3>1. r.name = del[d].name /\ r.mem = del[d].mem /\ r.retry = del[d].retry
          /\ r.pc # "commit"
      BY <2>3 DEF DeleterState
    <3>2. del' = [del EXCEPT ![d] = r]
      BY <2>7 DEF DeleteRemote
    <3> HIDE DEF r
    <3> QED
      BY <2>5, <2>7, <3>1, <3>2 DEF DeleteRemote, Deleting
  <2>8. ASSUME NEW failed \in BOOLEAN,
               \/ CleanDns(d) /\ failed = FALSE
               \/ CleanDnsRefused(d) /\ failed = TRUE
               \/ CleanDnsFails(d) /\ failed = TRUE
        PROVE  CleanInv'
    <3> DEFINE r == [del[d] EXCEPT !.pc = "commit", !.failed = failed]
    <3>1. /\ r.name = del[d].name /\ r.mem = del[d].mem /\ r.retry = del[d].retry
          /\ r.failed = failed
      BY <2>3 DEF DeleterState
    <3>2. /\ del' = [del EXCEPT ![d] = r] /\ del[d].pc = "cleanup" /\ del[d].name \in Names
          /\ UNCHANGED <<rows, snaps, barred, w>>
      BY <2>8 DEF CleanDns, CleanDnsRefused, CleanDnsFails, Typed, Located
    <3>3. /\ \A n \in Names : zone[n] = "none" => zone'[n] = "none"
          /\ ~failed => zone'[del[d].name] = "none"
      BY <2>3, <2>8, <3>2 DEF CleanDns, CleanDnsRefused, CleanDnsFails
    <3>4. \A e \in Deleters \ {d} : del[e].pc \notin Deleting
      BY <3>2 DEF LocksHeld, Deleting
    <3> HIDE DEF r
    <3> QED
      BY <1>7, <3>1, <3>2, <3>3, <3>4 DEF Deleting
  <2> QED
    BY <1>8, <2>1, <2>2, <2>4, <2>6, <2>7, <2>8 DEF DeleteYydsStep, DeleteYydsFault
<1>9. ASSUME NEW d \in Deleters, NEW n \in Names, RequestDelete(d, n)
      PROVE  CleanInv'
  <2> DEFINE r == [NoRequest EXCEPT !.pc = "fillLock", !.name = n, !.acct = rows[n].acct,
                                    !.used = UsedOf(rows[n].acct)]
  <2>1. r.pc = "fillLock"
    BY DEF NoRequest
  <2>2. del' = [del EXCEPT ![d] = r]
    BY <1>9 DEF RequestDelete
  <2> HIDE DEF r
  <2> QED
    BY <1>7, <1>9, <2>1, <2>2 DEF RequestDelete, Deleting
<1>10. CASE Crash
  <2>1. /\ \A d \in Deleters : del'[d].pc \notin Deleting
        /\ UNCHANGED <<rows, snaps, zone, barred>> /\ Elsewhere
    BY <1>10, NoRequestType, PollsElsewhere DEF Crash, Deleting
  <2> QED
    BY <1>2, <2>1, QuietClean
<1>11. CASE Update
  <2>1. PICK n \in Names, status \in Status : UpdateDomain(n, status)
    BY <1>11 DEF Update
  <2>2. /\ UpdateDomain(n, "unused")
        /\ \A d \in Deleters : del[d].pc \in Deleting => del[d].name # n
    BY <2>1 DEF HandsOff
  <2> QED
    BY <1>2, <2>2, ReleaseClean
<1>12. CASE Website \/ ThrottleEnds \/ Purchase
  <2>1. UNCHANGED barred
    BY <1>12 DEF Website, PersonDeletes, PersonAdds, ThrottleEnds, AliyunThrottleEnds,
       YydsThrottleEnds, Purchase, RegistrarChanges, Typed, TypeOK
  <2> QED
    BY <1>3, <1>12, <2>1 DEF Website, PersonDeletes, PersonAdds, ThrottleEnds,
       AliyunThrottleEnds, YydsThrottleEnds, Purchase, RegistrarChanges, Polled
<1> QED
  BY <1>4, <1>5, <1>6, <1>8, <1>9, <1>10, <1>11, <1>12
     DEF CalmNext, WorkerStep, Fault, Request, HandsOff

(* Records a delete request leaves behind stay marked for another try for   *)
(* as long as they are there: with one account, in every calm history in    *)
(* which nobody deletes the account, or sets a domain by hand to anything   *)
(* but unused, or to unused while it is being deleted.                      *)
THEOREM CleanupIsRemembered ==
  ASSUME NEW a, Accounts = {a}
  PROVE  CalmSpec /\ [][HandsOff]_vars => []CleanupRemembered
<1>1. Typed /\ LocksHeld /\ IdsFollow /\ CalmInv /\ CleanInv /\ [CalmNext]_vars
        /\ [HandsOff]_vars => CleanInv'
  BY NextClean
<1>2. CleanInv => CleanupRemembered
  BY DEF CleanInv, KeptFine, CleanupRemembered
<1> QED
  BY <1>1, <1>2, InitClean, CalmInvariant, PTL DEF CalmSpec

-----------------------------------------------------------------------------
(* Used means served.  Three things can make a domain used without its      *)
(* records: a person; a poll that finds a domain whose fill did not live to *)
(* commit that it had added it; and a request that cleans the records of a  *)
(* domain which has moved.  Everything else is in these steps.              *)
LosesFill == w.newly /\ w.pc \in {"ids", "dns", "verify"}

SteadyNext ==
  \/ WorkerStep \/ Fault \/ ListPartly
  \/ \E d \in Deleters : DeleteYydsStep(d)
  \/ Request \/ RemoveAccount \/ Website \/ Registrar \/ ThrottleEnds
  \/ \E n \in Names : UpdateDomain(n, "error")
  \/ Crash /\ ~LosesFill

SteadySpec == Init /\ [][SteadyNext]_vars

(* These are steps of DomainSlot.                                           *)
LEMMA SteadyIsNext == [SteadyNext]_vars => [Next]_vars
BY DEF SteadyNext, Next, Update, Status

(* yyds has the domain from a fill, in an account that is still there.      *)
ByFill(n) ==
  /\ remote[n].by = "fill"
  /\ remote[n].acct # None
  /\ accts[remote[n].acct].present

(* Its row says so too;                                                     *)
Held(n) ==
  /\ rows[n].present
  /\ rows[n].acct = remote[n].acct
  /\ rows[n].id = remote[n].id

(* it is in error, or it is served.                                         *)
Served(n) ==
  /\ Held(n)
  /\ \/ rows[n].status = "error"
     \/ rows[n].status = "used" /\ zone[n] = "full"

(* Rows and lists belong to accounts that are there.                        *)
OwnersFine ==
  /\ \A n \in Names : rows[n].acct # None => accts[rows[n].acct].present
  /\ \A a \in Accounts : snaps[a] # {} => accts[a].present

(* Outside of a fill what a fill has bound is held, in error or served.     *)
InFill(n) == w.pc \in Filling /\ n = w.name

ServedFine == \A n \in Names : ByFill(n) /\ ~InFill(n) => Served(n)

(* A new fill has a domain that no fill has bound, until it binds it itself.*)
NewFine ==
  \A n \in Names : InFill(n) /\ w.newly =>
    /\ w.pc \in BeforeIds =>
         rows[n].present /\ rows[n].acct = None /\ rows[n].status # "used"
    /\ w.pc \in BeforeIds \ {"ids"} => ~ByFill(n)
    /\ w.pc = "ids" /\ ByFill(n) => remote[n].acct = w.acct /\ remote[n].id = w.list[n]
    /\ w.pc \in {"dns", "verify"} /\ ByFill(n) =>
         /\ Held(n) /\ rows[n].acct = w.acct
         /\ rows[n].status # "used" /\ w.mem.status # "used"

(* A repair has a domain that is held and in error.                         *)
MendFine ==
  \A n \in Names : InFill(n) /\ ~w.newly /\ ByFill(n) =>
    Held(n) /\ rows[n].status = "error"

(* What the yyds poll has fetched and what the Aliyun poll has loaded of    *)
(* such a domain is so when they commit.                                    *)
FetchedFine ==
  w.pc = "pollCommit" => \A n \in Names : ByFill(n) /\ w.list[n] # 0 =>
    remote[n].acct = w.acct /\ remote[n].id = w.list[n]

LoadedFine ==
  w.pc = "describe" => \A n \in Answered : ByFill(n) =>
    w.copies[n].present /\ w.copies[n].acct # None

(* A delete request has yyds delete the domain before it cleans or commits. *)
RemoteFirst ==
  \A d \in Deleters : del[d].pc \in Deleting /\ ByFill(del[d].name) =>
    /\ del[d].pc \in {"sessLock", "remote"} /\ ~del[d].retry
    /\ del[d].mem.acct = remote[del[d].name].acct
    /\ del[d].mem.id = remote[del[d].name].id

ServedInv ==
  /\ OwnersFine /\ ServedFine /\ NewFine /\ MendFine
  /\ FetchedFine /\ LoadedFine /\ RemoteFirst

(* An account that is there was there, and stays unless it is deleted.      *)
LEMMA AccountsLeave ==
  ASSUME Typed, [Next]_vars, NEW a \in Accounts
  PROVE  accts'[a].present = accts[a].present \/ (DeleteAccount(a) /\ ~accts'[a].present)
<1>1. accts \in [Accounts -> Acct]
  BY DEF Typed, TypeOK
<1>2. ASSUME NEW b, NEW u, accts' = [accts EXCEPT ![b].used = u]
      PROVE  accts'[a].present = accts[a].present
  BY <1>1, <1>2 DEF Acct
<1>3. ASSUME NEW b, NEW t, accts' = [accts EXCEPT ![b].throttled = t]
      PROVE  accts'[a].present = accts[a].present
  BY <1>1, <1>3 DEF Acct
<1>4. ASSUME NEW b, NEW u, NEW t, NEW o,
             accts' = [accts EXCEPT ![b].ok = o, ![b].throttled = t, ![b].used = u]
      PROVE  accts'[a].present = accts[a].present
  BY <1>1, <1>4 DEF Acct
<1>5. CASE UNCHANGED accts
  BY <1>5
<1>6. CASE Reconcile \/ RefuseList
  <2>1. \E b, u : accts' = [accts EXCEPT ![b].ok = TRUE, ![b].throttled = FALSE,
                                        ![b].used = u]
    BY <1>6 DEF Reconcile, RefuseList
  <2> QED
    BY <1>4, <2>1
<1>7. ASSUME NEW kind \in {"429", "incomplete", "error"}, PollFails(kind)
      PROVE  accts'[a].present = accts[a].present
  <2> DEFINE b == w.acct
  <2>1. CASE kind = "429"
    <3>1. accts' = [accts EXCEPT ![b].throttled = TRUE]
      BY <1>7, <2>1 DEF PollFails
    <3> QED
      BY <1>3, <3>1
  <2>2. CASE kind = "incomplete"
    <3>1. accts' = [accts EXCEPT ![b] = [@ EXCEPT !.ok = TRUE, !.used = -1]]
      BY <1>7, <2>2 DEF PollFails
    <3> QED
      BY <1>1, <3>1 DEF Acct
  <2>3. CASE kind = "error"
    <3>1. accts' = [accts EXCEPT ![b] = [@ EXCEPT !.ok = FALSE]]
      BY <1>7, <2>3 DEF PollFails
    <3> QED
      BY <1>1, <3>1 DEF Acct
  <2> QED
    BY <1>7, <2>1, <2>2, <2>3
<1>8. CASE PollYydsStep \/ PollYydsFault
  BY <1>5, <1>6, <1>7, <1>8 DEF PollYydsStep, PollYydsFault, SkipThrottled, BeginPoll,
     ReadList, ReadPoorly, Fetch
<1>9. CASE \/ YydsFails \/ CountedYydsFails \/ AliyunThrottles
           \/ \E kind, reason : Fails(kind, reason) \/ CountedFails(kind, reason)
  <2>1. CASE CountedYydsFails \/ \E kind, reason : CountedFails(kind, reason)
    <3>1. \/ \E u : accts' = [accts EXCEPT ![w.acct].used = u]
          \/ \E u : accts' = [accts EXCEPT ![w.acct].used = u, ![w.acct].throttled = TRUE]
      BY <2>1 DEF CountedYydsFails, CountedFails, RecordUse
    <3>2. ASSUME NEW u, accts' = [accts EXCEPT ![w.acct].used = u, ![w.acct].throttled = TRUE]
          PROVE  accts'[a].present = accts[a].present
      BY <1>1, <3>2 DEF Acct
    <3> QED
      BY <1>2, <3>1, <3>2
  <2>2. CASE AliyunThrottles
    BY <1>2, <2>2 DEF AliyunThrottles, RecordUse
  <2> QED
    BY <1>3, <1>5, <1>9, <2>1, <2>2 DEF YydsFails, YydsThrottles, Fails
<1>10. CASE FillStep \/ FillFault \/ AddUnanswered
  <2>1. CASE SyncUsage \/ SyncPoorly
    <3>1. PICK names, quota : Sync(names, quota)
      BY <2>1 DEF SyncUsage, SyncPoorly
    <3>2. \E u : accts' = [accts EXCEPT ![w.acct].used = u]
      BY <3>1 DEF Sync
    <3> QED
      BY <1>2, <3>2
  <2>2. CASE SyncFails
    BY <1>2, <1>9, <2>2 DEF SyncFails
  <2>3. CASE WriteDns \/ Verified
    BY <1>2, <2>3 DEF WriteDns, Verified, RecordUse
  <2>4. CASE \/ AddUnanswered \/ AddConflicts \/ AddFails \/ WriteDnsFails \/ GuideFails
             \/ DomainGone \/ VerifyFails
    BY <1>5, <1>9, <2>4 DEF AddUnanswered, AddConflicts, AddFails, WriteDnsFails,
       GuideFails, DomainGone, VerifyFails
  <2> QED
    BY <1>5, <1>10, <2>1, <2>2, <2>3, <2>4 DEF FillStep, FillFault, AddDomain,
       StartRepair, StartFill, FindOccupied, NothingToFill, RegistrarReady,
       RegistrarRefuses, RegistrarUnknown, RegistrarFails, EnterSession, CommitIds
<1>11. CASE \/ PollAliyunStep \/ PollAliyunFault \/ ListPartly \/ StartCycle
            \/ EndPolls \/ AbortCycle
  BY <1>5, <1>11 DEF PollAliyunStep, PollAliyunFault, ListPartly, SkipAliyun, ListAliyun,
     List, EmptyList, Describe, CommitAliyun, AliyunListFails, DescribeFails,
     DescribeThrottled, StartCycle, EndPolls, AbortCycle
<1>12. CASE \E d \in Deleters : DeleteYydsStep(d) \/ DeleteYydsFault(d)
  <2>1. ASSUME NEW d \in Deleters, CommitDelete(d)
        PROVE  accts'[a].present = accts[a].present
    <3>1. accts' = accts \/ \E u : accts' = [accts EXCEPT ![del[d].acct].used = u]
      BY <2>1 DEF CommitDelete
    <3> QED
      BY <1>2, <1>5, <3>1
  <2> QED
    BY <1>5, <1>12, <2>1 DEF DeleteYydsStep, DeleteYydsFault, LockFill, Refused,
       LockSession, DeleteRemote, CleanDns, CleanDnsRefused, CommitDeleteFails,
       DeleteRemoteFails, CleanDnsFails
<1>13. CASE Request \/ Update \/ Website \/ Registrar \/ ThrottleEnds \/ Crash
  BY <1>3, <1>5, <1>13 DEF Request, RequestDelete, Update, UpdateDomain, Website,
     PersonDeletes, PersonAdds, Registrar, RegistrarChanges, ThrottleEnds,
     AliyunThrottleEnds, YydsThrottleEnds, Crash
<1>14. CASE RemoveAccount
  <2>1. PICK b \in Accounts : DeleteAccount(b)
    BY <1>14 DEF RemoveAccount
  <2>2. accts' = [accts EXCEPT ![b].present = FALSE]
    BY <2>1 DEF DeleteAccount
  <2>3. IF a = b THEN accts'[a].present = FALSE ELSE accts'[a].present = accts[a].present
    BY <1>1, <2>2 DEF Acct
  <2> QED
    BY <2>1, <2>3
<1>15. CASE UNCHANGED vars
  BY <1>5, <1>15 DEF vars
<1> QED
  BY <1>8, <1>10, <1>11, <1>12, <1>13, <1>14, <1>15 DEF Next, WorkerStep, Fault

(* What is bound by a fill was so before the step, or is the domain a fill  *)
(* has just added.                                                          *)
LEMMA BoundByFill ==
  ASSUME Typed, [SteadyNext]_vars, NEW n \in Names, ByFill(n)'
  PROVE  \/ ByFill(n) /\ remote'[n] = remote[n]
         \/ AddDomain /\ n = w.name
<1>1. remote \in [Names -> Remote]
  BY DEF Typed, TypeOK
<1>2. ASSUME remote'[n] = remote[n]
      PROVE  ByFill(n)
  <2>1. remote[n].acct \in Accounts
    BY <1>1, <1>2 DEF ByFill, Remote
  <2> QED
    BY <1>2, <2>1, AccountsLeave, SteadyIsNext DEF ByFill
<1>3. ASSUME NEW m \in Names, PersonDeletes(m) \/ \E a \in Accounts : PersonAdds(m, a)
      PROVE  remote'[n] = remote[n]
  BY <1>1, <1>3 DEF PersonAdds, PersonDeletes, ByFill, Remote
<1>4. CASE AddDomain
  <2>1. Bind(w.name, w.acct) /\ w.name \in Names
    BY <1>4 DEF AddDomain, Typed, Located, Filling
  <2> QED
    BY <1>1, <1>2, <1>4, <2>1 DEF Bind, Remote
<1>5. ASSUME NEW d \in Deleters, DeleteRemote(d) \/ DeleteRemoteFails(d)
      PROVE  remote'[n] = remote[n]
  <2>1. Unbind(del[d].name) \/ UNCHANGED remote
    BY <1>5 DEF DeleteRemote, DeleteRemoteFails
  <2> QED
    BY <1>1, <2>1 DEF Unbind, ByFill, Remote
<1>6. ASSUME NEW d \in Deleters, DeleteYydsStep(d) \/ DeleteYydsFault(d)
      PROVE  remote'[n] = remote[n]
  BY <1>5, <1>6 DEF DeleteYydsStep, DeleteYydsFault, LockFill, Refused, LockSession,
     CleanDns, CleanDnsRefused, CommitDelete, CommitDeleteFails, CleanDnsFails
<1>7. CASE (FillStep /\ ~AddDomain) \/ FillFault
  <2>1. UNCHANGED remote
    BY <1>7 DEF FillStep, FillFault, StartRepair, StartFill, FindOccupied,
       NothingToFill, RegistrarReady, RegistrarRefuses, RegistrarUnknown, RegistrarFails,
       EnterSession, SyncUsage, SyncPoorly, Sync, SyncFails, AddConflicts, AddFails,
       CommitIds, WriteDns, WriteDnsFails, GuideFails, DomainGone, Verified, VerifyFails
  <2> QED
    BY <1>2, <2>1
<1>8. CASE \/ StartCycle \/ EndPolls \/ AbortCycle \/ PollYydsStep \/ PollYydsFault
           \/ PollAliyunStep \/ PollAliyunFault \/ ListPartly
  <2>1. UNCHANGED remote
    BY <1>8 DEF StartCycle, EndPolls, AbortCycle, PollYydsStep, PollYydsFault,
       SkipThrottled, BeginPoll, ReadList, ReadPoorly, Fetch, RefuseList, Reconcile,
       PollFails, PollAliyunStep, PollAliyunFault, SkipAliyun, ListAliyun, EmptyList,
       Describe, CommitAliyun, AliyunListFails, DescribeFails, DescribeThrottled,
       ListPartly, List
  <2> QED
    BY <1>2, <2>1
<1>9. CASE \/ Request \/ RemoveAccount \/ Registrar \/ ThrottleEnds \/ Crash
           \/ \E m \in Names : UpdateDomain(m, "error")
  <2>1. UNCHANGED remote
    BY <1>9 DEF Request, RequestDelete, UpdateDomain, RemoveAccount,
       DeleteAccount, Registrar, RegistrarChanges, ThrottleEnds, AliyunThrottleEnds,
       YydsThrottleEnds, Crash
  <2> QED
    BY <1>2, <2>1
<1>10. CASE UNCHANGED vars
  BY <1>2, <1>10 DEF vars
<1> QED
  BY <1>2, <1>3, <1>4, <1>6, <1>7, <1>8, <1>9, <1>10
     DEF SteadyNext, WorkerStep, Fault, Website

-----------------------------------------------------------------------------
(* What the row of a domain may suffer from others.                         *)
RowStays(n) ==
  /\ rows'[n].present = rows[n].present
  /\ rows'[n].acct = rows[n].acct /\ rows'[n].id = rows[n].id
  /\ rows'[n].status \in {rows[n].status, "error"}

(* Records of what a fill has bound are written by the fill only: a request *)
(* cleans them when yyds no longer has the domain.                          *)
LEMMA ZoneStays ==
  ASSUME Typed, ServedInv, [SteadyNext]_vars, NEW n \in Names, ByFill(n),
         ~InFill(n)
  PROVE  zone'[n] = zone[n]
<1>1. zone \in [Names -> {"none", "partial", "full"}]
  BY DEF Typed, TypeOK
<1>2. CASE WriteDns \/ WriteDnsFails
  BY <1>1, <1>2 DEF WriteDns, WriteDnsFails, Filling, InFill
<1>3. ASSUME NEW d \in Deleters, CleanDns(d) \/ CleanDnsFails(d)
      PROVE  zone'[n] = zone[n]
  <2>1. n # del[d].name
    BY <1>3 DEF ServedInv, RemoteFirst, CleanDns, CleanDnsFails, Deleting
  <2> QED
    BY <1>1, <1>3, <2>1 DEF CleanDns, CleanDnsFails
<1>4. ASSUME NEW d \in Deleters, DeleteYydsStep(d) \/ DeleteYydsFault(d)
      PROVE  zone'[n] = zone[n]
  BY <1>3, <1>4 DEF DeleteYydsStep, DeleteYydsFault, LockFill, Refused, LockSession,
     DeleteRemote, DeleteRemoteFails, CleanDnsRefused, CommitDelete, CommitDeleteFails
<1>5. CASE FillStep \/ FillFault
  BY <1>2, <1>5 DEF FillStep, FillFault, AddDomain, StartRepair, StartFill, FindOccupied,
     NothingToFill, RegistrarReady, RegistrarRefuses, RegistrarUnknown, RegistrarFails,
     EnterSession, SyncUsage, SyncPoorly, Sync, SyncFails, AddConflicts, AddFails,
     CommitIds, GuideFails, DomainGone, Verified, VerifyFails
<1>6. CASE \/ StartCycle \/ EndPolls \/ AbortCycle \/ PollYydsStep \/ PollYydsFault
           \/ PollAliyunStep \/ PollAliyunFault \/ ListPartly
  BY <1>6 DEF StartCycle, EndPolls, AbortCycle, PollYydsStep, PollYydsFault,
     SkipThrottled, BeginPoll, ReadList, ReadPoorly, Fetch, RefuseList, Reconcile,
     PollFails, PollAliyunStep, PollAliyunFault, SkipAliyun, ListAliyun, EmptyList,
     Describe, CommitAliyun, AliyunListFails, DescribeFails, DescribeThrottled,
     ListPartly, List
<1>7. CASE \/ Request \/ RemoveAccount \/ Website \/ Registrar \/ ThrottleEnds \/ Crash
           \/ \E m \in Names : UpdateDomain(m, "error")
  BY <1>7 DEF Request, RequestDelete, UpdateDomain, RemoveAccount, DeleteAccount,
     Website, PersonDeletes, PersonAdds, Registrar, RegistrarChanges, ThrottleEnds,
     AliyunThrottleEnds, YydsThrottleEnds, Crash
<1>8. CASE UNCHANGED vars
  BY <1>8 DEF vars
<1> QED
  BY <1>4, <1>5, <1>6, <1>7, <1>8 DEF SteadyNext, WorkerStep, Fault

(* So what was held outside of a fill and stays, stays held and served.     *)
LEMMA ServedStays ==
  ASSUME Typed, ServedInv, [SteadyNext]_vars, NEW n \in Names, ByFill(n),
         remote'[n] = remote[n], ~InFill(n), RowStays(n)
  PROVE  Served(n)'
BY ZoneStays DEF ServedInv, ServedFine, Served, Held, RowStays

(* Rows and lists stay with accounts that are there: one that is deleted    *)
(* takes its list with it and is erased from the rows.                      *)
LEMMA OwnersStay ==
  ASSUME Typed, OwnersFine, [SteadyNext]_vars,
         \A n \in Names : \/ rows'[n].acct \in {rows[n].acct, None}
                          \/ rows'[n].acct \in Accounts /\ accts[rows'[n].acct].present,
         \A a \in Accounts : snaps'[a] # {} => snaps[a] # {} \/ accts[a].present
  PROVE  OwnersFine'
<1>1. /\ rows \in [Names -> Row] /\ None \notin Accounts
      /\ \A n \in Names : rows[n].acct \in Accounts \cup {None}
      /\ snaps \in [Accounts -> SUBSET Names]
  BY OwnersAssumption DEF Typed, TypeOK, Row
<1>2. ASSUME NEW a \in Accounts, DeleteAccount(a)
      PROVE  /\ \A n \in Names : rows'[n].acct # a
             /\ snaps'[a] = {}
  <2>1. ASSUME NEW n \in Names PROVE rows'[n].acct # a
    <3>1. rows[n] \in Row
      BY <1>1
    <3> QED
      BY <1>1, <1>2, <3>1 DEF DeleteAccount, Row
  <2> QED
    BY <1>1, <1>2, <2>1 DEF DeleteAccount
<1>3. ASSUME NEW n \in Names, rows'[n].acct # None
      PROVE  accts'[rows'[n].acct].present
  <2>1. rows'[n].acct \in Accounts /\ accts[rows'[n].acct].present
    BY <1>1, <1>3 DEF OwnersFine
  <2> QED
    BY <1>2, <2>1, AccountsLeave, SteadyIsNext
<1>4. ASSUME NEW a \in Accounts, snaps'[a] # {}
      PROVE  accts'[a].present
  <2>1. accts[a].present
    BY <1>4 DEF OwnersFine
  <2> QED
    BY <1>2, <1>4, <2>1, AccountsLeave, SteadyIsNext
<1> QED
  BY <1>3, <1>4 DEF OwnersFine

(* A worker that is in no fill and in no commit of the Aliyun poll has      *)
(* nothing to lose.                                                         *)
LEMMA ElsewhereServed ==
  ASSUME Typed, [SteadyNext]_vars, Elsewhere,
         \A n \in Names : ByFill(n) /\ remote'[n] = remote[n] /\ ByFill(n)' => Served(n)'
  PROVE  ServedFine' /\ NewFine' /\ MendFine' /\ LoadedFine'
<1>1. ~AddDomain
  BY DEF AddDomain, Elsewhere, Filling, Typed, TypeOK, WorkerState
<1> QED
  BY <1>1, BoundByFill DEF Elsewhere, InFill, ServedFine, NewFine, MendFine, LoadedFine

(* A delete request goes on with a domain that a fill has bound only as far *)
(* as its call of yyds.                                                     *)
LEMMA NextRemoteFirst ==
  ASSUME Typed, LocksHeld, IdsFollow, DeletesOwn, ServedInv, [SteadyNext]_vars, NotMoved
  PROVE  RemoteFirst'
<1> USE DEF Deleting
<1>1. SUFFICES ASSUME NEW d \in Deleters, del'[d].pc \in Deleting,
                      NEW n \in Names, n = del'[d].name, ByFill(n)'
               PROVE  /\ del'[d].pc \in {"sessLock", "remote"} /\ ~del'[d].retry
                      /\ del'[d].mem.acct = remote'[n].acct
                      /\ del'[d].mem.id = remote'[n].id
  <2>1. Typed'
    BY NextType, SteadyIsNext
  <2>2. \A d \in Deleters : del'[d].pc \in Deleting => del'[d].name \in Names
    BY <2>1 DEF Typed, Located
  <2> QED
    BY <2>2 DEF RemoteFirst, ByFill
<1>2. /\ del \in [Deleters -> DeleterState] /\ del[d] \in DeleterState
      /\ remote \in [Names -> Remote] /\ Worker \notin Deleters
  BY OwnersAssumption DEF Typed, TypeOK
<1>3. CASE LockFill(d)
  <2>1. /\ del'[d].mem = rows[n] /\ del[d].name = n
        /\ del'[d].acct = IF del[d].acct = None THEN rows[n].acct ELSE del[d].acct
        /\ del'[d].retry = CleanupOnly(rows[n])
        /\ del'[d].pc = IF del'[d].acct # None THEN "sessLock" ELSE "cleanup"
        /\ UNCHANGED remote /\ UNCHANGED accts /\ fillLock = None
    BY <1>1, <1>2, <1>3 DEF LockFill, DeleterState
  <2>2. ByFill(n)
    BY <1>1, <2>1 DEF ByFill
  <2>3. w.pc \notin Filling
    BY <2>1, OwnersAssumption DEF LocksHeld
  <2>4. Held(n)
    BY <2>2, <2>3 DEF ServedInv, ServedFine, InFill, Served
  <2>5. remote[n].id > 0 /\ remote[n].acct # None
    BY <2>2 DEF IdsFollow, ByFill
  <2>6. remote[n].id \in Nat
    BY IdNumbers
  <2>7. rows[n].id # 0 /\ rows[n].acct # None
    BY <2>4, <2>5, <2>6 DEF Held
  <2> QED
    BY <2>1, <2>4, <2>7 DEF Held, CleanupOnly
<1>4. ASSUME del[d].name = n, del'[d].mem = del[d].mem,
             del'[d].retry = del[d].retry, del[d].pc \in Deleting
      PROVE  /\ ByFill(n) /\ remote'[n] = remote[n]
             /\ del[d].pc \in {"sessLock", "remote"} /\ ~del[d].retry
             /\ del[d].mem.acct = remote[n].acct
             /\ del[d].mem.id = remote[n].id
  <2>1. ~AddDomain
    BY <1>2, <1>4 DEF AddDomain, LocksHeld, Filling
  <2>2. ByFill(n) /\ remote'[n] = remote[n]
    BY <1>1, <2>1, BoundByFill
  <2> QED
    BY <1>4, <2>2 DEF ServedInv, RemoteFirst
<1>5. CASE LockSession(d)
  <2>1. /\ del[d].name = n /\ del'[d].mem = del[d].mem
        /\ del'[d].retry = del[d].retry /\ del[d].pc = "sessLock"
        /\ del'[d].pc = IF del[d].retry THEN "cleanup" ELSE "remote"
    BY <1>1, <1>2, <1>5 DEF LockSession, DeleterState
  <2> QED
    BY <1>4, <2>1
<1>6. CASE CleanDns(d) \/ CleanDnsRefused(d) \/ CleanDnsFails(d)
  <2>1. /\ del[d].name = n /\ del'[d].mem = del[d].mem
        /\ del'[d].retry = del[d].retry /\ del[d].pc = "cleanup"
    BY <1>1, <1>2, <1>6 DEF CleanDns, CleanDnsRefused, CleanDnsFails, DeleterState
  <2> QED
    BY <1>4, <2>1
<1>7. CASE DeleteRemote(d)
  <2>1. /\ del[d].name = n /\ del'[d].mem = del[d].mem
        /\ del'[d].retry = del[d].retry /\ del[d].pc = "remote"
    BY <1>1, <1>2, <1>7 DEF DeleteRemote, DeleterState
  <2>2. /\ ~del[d].retry /\ del[d].mem.acct = remote[n].acct
        /\ del[d].mem.id = remote[n].id
        /\ remote'[n] = remote[n] /\ ByFill(n)
    BY <1>4, <2>1
  <2>3. KnownToYyds(d)
    BY <2>1, <2>2 DEF DeletesOwn, KnownToYyds
  <2>4. remote'[n].acct = None
    BY <1>2, <1>7, <2>1, <2>3 DEF DeleteRemote, Unbind, Remote
  <2> QED
    BY <2>2, <2>4 DEF ByFill
<1>8. CASE del'[d] = del[d]
  BY <1>1, <1>4, <1>8
<1> QED
  BY <1>1, <1>3, <1>5, <1>6, <1>7, <1>8, DeleterMoves, SteadyIsNext

-----------------------------------------------------------------------------
(* The steps of everybody but the worker and a crash.                       *)
Aside ==
  \/ \E d \in Deleters : DeleteYydsStep(d) \/ DeleteYydsFault(d)
  \/ Request \/ RemoveAccount \/ Website \/ Registrar \/ ThrottleEnds
  \/ \E n \in Names : UpdateDomain(n, "error")
  \/ UNCHANGED vars

(* They leave the worker where it is, and put no name into a list.          *)
LEMMA AsideKeeps ==
  ASSUME Typed, Aside
  PROVE  w' = w /\ \A a \in Accounts : snaps'[a] \subseteq snaps[a]
<1>1. snaps \in [Accounts -> SUBSET Names]
  BY DEF Typed, TypeOK
<1>2. CASE UNCHANGED <<snaps, w>>
  BY <1>2
<1>3. ASSUME NEW d \in Deleters, CommitDelete(d)
      PROVE  w' = w /\ \A a \in Accounts : snaps'[a] \subseteq snaps[a]
  BY <1>1, <1>3 DEF CommitDelete
<1>4. CASE \E d \in Deleters : DeleteYydsStep(d) \/ DeleteYydsFault(d)
  BY <1>2, <1>3, <1>4 DEF DeleteYydsStep, DeleteYydsFault, LockFill, Refused,
     LockSession, DeleteRemote, CleanDns, CleanDnsRefused, CommitDeleteFails,
     DeleteRemoteFails, CleanDnsFails
<1>5. CASE RemoveAccount
  BY <1>1, <1>5 DEF RemoveAccount, DeleteAccount
<1>6. CASE \/ Request \/ Website \/ Registrar \/ ThrottleEnds \/ UNCHANGED vars
           \/ \E m \in Names : UpdateDomain(m, "error")
  BY <1>2, <1>6 DEF Request, RequestDelete, Website, PersonDeletes, PersonAdds,
     Registrar, RegistrarChanges, ThrottleEnds, AliyunThrottleEnds, YydsThrottleEnds,
     UpdateDomain, vars
<1> QED
  BY <1>4, <1>5, <1>6 DEF Aside

(* A row changes by them only as RowStays says, or its domain is deleted at *)
(* yyds, or its account in the panel.                                       *)
LEMMA AsideRows ==
  ASSUME Typed, Aside, NEW n \in Names
  PROVE  /\ \/ RowStays(n)
            \/ \E d \in Deleters : CommitDelete(d) /\ n = del[d].name
            \/ \E a \in Accounts : DeleteAccount(a) /\ rows[n].acct = a
         /\ rows'[n].acct \in {rows[n].acct, None}
<1>1. rows \in [Names -> Row] /\ rows[n] \in Row
  BY DEF Typed, TypeOK
<1>2. CASE UNCHANGED rows
  BY <1>2 DEF RowStays
<1>3. ASSUME NEW d \in Deleters, CommitDelete(d)
      PROVE  /\ RowStays(n) \/ n = del[d].name
             /\ rows'[n].acct \in {rows[n].acct, None}
  <2>1. CASE n # del[d].name
    BY <1>1, <1>3, <2>1 DEF CommitDelete, RowStays
  <2>2. CASE n = del[d].name
    <3> DEFINE mem == del[d].mem
               new == [mem EXCEPT !.acct = None, !.id = 0, !.filling = FALSE,
                                  !.status = "used",
                                  !.reason = IF del[d].failed THEN "cleanup" ELSE "none"]
    <3>1. mem \in Row /\ new \in Row /\ new.acct = None
      <4>1. mem \in Row
        BY DEF Typed, TypeOK, DeleterState
      <4> QED
        BY <4>1 DEF Row, Status, Reason
    <3>2. rows'[n] = Flush(rows[n], mem, new)
      BY <1>1, <1>3, <2>2 DEF CommitDelete
    <3> HIDE DEF mem, new
    <3>3. rows'[n].acct \in {rows[n].acct, None}
      BY <1>1, <3>1, <3>2, FlushFields
    <3> QED
      BY <2>2, <3>3
  <2> QED
    BY <2>1, <2>2
<1>4. CASE \E d \in Deleters : DeleteYydsStep(d) \/ DeleteYydsFault(d)
  BY <1>2, <1>3, <1>4 DEF DeleteYydsStep, DeleteYydsFault, LockFill, Refused,
     LockSession, DeleteRemote, CleanDns, CleanDnsRefused, CommitDeleteFails,
     DeleteRemoteFails, CleanDnsFails
<1>5. ASSUME NEW a \in Accounts, DeleteAccount(a)
      PROVE  /\ RowStays(n) \/ rows[n].acct = a
             /\ rows'[n].acct \in {rows[n].acct, None}
  BY <1>1, <1>5 DEF DeleteAccount, RowStays, Row
<1>6. ASSUME NEW m \in Names, UpdateDomain(m, "error")
      PROVE  RowStays(n)
  BY <1>1, <1>6 DEF UpdateDomain, RowStays, Row
<1>7. CASE Request \/ Website \/ Registrar \/ ThrottleEnds \/ UNCHANGED vars
  BY <1>2, <1>7 DEF Request, RequestDelete, Website, PersonDeletes, PersonAdds,
     Registrar, RegistrarChanges, ThrottleEnds, AliyunThrottleEnds, YydsThrottleEnds, vars
<1> QED
  BY <1>4, <1>5, <1>6, <1>7 DEF Aside, RemoveAccount, RowStays

(* They leave served what is served, and the worker's knowledge true.       *)
LEMMA AsideServed ==
  ASSUME Typed, LocksHeld, ServedInv, [SteadyNext]_vars, Aside
  PROVE  /\ OwnersFine' /\ ServedFine' /\ NewFine' /\ MendFine'
         /\ FetchedFine' /\ LoadedFine'
<1>1. w' = w
  BY AsideKeeps
<1>2. ASSUME NEW n \in Names, ByFill(n)'
      PROVE  ByFill(n) /\ remote'[n] = remote[n]
  <2>1. ~AddDomain
    BY <1>1 DEF AddDomain, Typed, TypeOK, WorkerState
  <2> QED
    BY <1>2, <2>1, BoundByFill
<1>3. ASSUME NEW n \in Names, ByFill(n)', rows[n].acct = remote[n].acct
      PROVE  RowStays(n)
  <2>1. ByFill(n) /\ remote'[n] = remote[n]
    BY <1>2, <1>3
  <2>2. ASSUME NEW d \in Deleters, CommitDelete(d), n = del[d].name
        PROVE  FALSE
    BY <2>1, <2>2 DEF CommitDelete, ServedInv, RemoteFirst, Deleting
  <2>3. ASSUME NEW a \in Accounts, DeleteAccount(a), rows[n].acct = a
        PROVE  FALSE
    <3>1. accts' = [accts EXCEPT ![a].present = FALSE] /\ accts \in [Accounts -> Acct]
      BY <2>3 DEF DeleteAccount, Typed, TypeOK
    <3>2. ~accts'[a].present
      BY <3>1 DEF Acct
    <3> QED
      BY <1>3, <2>1, <2>3, <3>2 DEF ByFill
  <2> QED
    BY <2>2, <2>3, AsideRows
<1>4. OwnersFine'
  <2>1. OwnersFine /\ \A n \in Names : rows'[n].acct \in {rows[n].acct, None}
    BY AsideRows DEF ServedInv
  <2> QED
    BY <2>1, AsideKeeps, OwnersStay
<1>5. ServedFine'
  BY <1>1, <1>2, <1>3, ServedStays DEF ServedInv, ServedFine, Served, Held, InFill
<1>6. ASSUME NEW n \in Names, InFill(n), rows[n].acct = None
      PROVE  RowStays(n)
  <2>1. ASSUME NEW d \in Deleters, CommitDelete(d)
        PROVE  FALSE
    BY <1>6, <2>1, OwnersAssumption DEF CommitDelete, LocksHeld, Deleting, InFill
  <2> QED
    BY <1>6, <2>1, AsideRows, OwnersAssumption
<1>7. NewFine'
  <2> SUFFICES ASSUME NEW n \in Names, InFill(n), w.newly
               PROVE
      /\ w.pc \in BeforeIds =>
           rows'[n].present /\ rows'[n].acct = None /\ rows'[n].status # "used"
      /\ w.pc \in BeforeIds \ {"ids"} => ~ByFill(n)'
      /\ w.pc = "ids" /\ ByFill(n)' => remote'[n].acct = w.acct /\ remote'[n].id = w.list[n]
      /\ w.pc \in {"dns", "verify"} /\ ByFill(n)' =>
           /\ Held(n)' /\ rows'[n].acct = w.acct
           /\ rows'[n].status # "used" /\ w.mem.status # "used"
    BY <1>1 DEF NewFine, InFill
  <2>1. CASE w.pc \in BeforeIds
    BY <1>2, <1>6, <2>1 DEF ServedInv, NewFine, RowStays, BeforeIds
  <2>2. CASE w.pc \in {"dns", "verify"}
    BY <1>2, <1>3, <2>2 DEF ServedInv, NewFine, RowStays, BeforeIds, Held
  <2> QED
    BY <2>1, <2>2 DEF InFill, Filling, BeforeIds
<1>8. MendFine'
  BY <1>1, <1>2, <1>3 DEF ServedInv, MendFine, RowStays, Held, InFill
<1>9. FetchedFine' /\ LoadedFine'
  <2>1. Answered' = Answered /\ Answered \subseteq Names
    BY <1>1 DEF Answered
  <2> QED
    BY <1>1, <1>2, <2>1 DEF ServedInv, FetchedFine, LoadedFine
<1> QED
  BY <1>4, <1>5, <1>7, <1>8, <1>9

-----------------------------------------------------------------------------
(* A step of the worker that is in no fill and begins none leaves served    *)
(* what is served.                                                          *)
LEMMA OutsideServed ==
  ASSUME Typed, ServedInv, [SteadyNext]_vars, w.pc \notin Filling, Elsewhere,
         \A n \in Names : ByFill(n) /\ Served(n) => RowStays(n)
  PROVE  ServedFine' /\ NewFine' /\ MendFine' /\ LoadedFine'
<1>1. ASSUME NEW n \in Names, ByFill(n), remote'[n] = remote[n]
      PROVE  Served(n)'
  BY <1>1, ServedStays DEF ServedInv, ServedFine, InFill
<1> QED
  BY <1>1, ElsewhereServed

(* One that changes no row does.                                            *)
LEMMA QuietServed ==
  ASSUME Typed, ServedInv, [SteadyNext]_vars, w.pc \notin Filling, Elsewhere,
         w'.pc # "pollCommit", UNCHANGED <<rows, snaps>>
  PROVE  /\ OwnersFine' /\ ServedFine' /\ NewFine' /\ MendFine'
         /\ FetchedFine' /\ LoadedFine'
<1>1. OwnersFine'
  BY OwnersStay DEF ServedInv
<1> QED
  BY <1>1, OutsideServed DEF RowStays, FetchedFine

(* What the yyds poll fetches is so.                                        *)
LEMMA FetchServed ==
  ASSUME Typed, ServedInv, [SteadyNext]_vars, ReadList \/ ReadPoorly
  PROVE  /\ OwnersFine' /\ ServedFine' /\ NewFine' /\ MendFine'
         /\ FetchedFine' /\ LoadedFine'
<1>1. PICK names \in SUBSET NamesOn(w.acct) : \E quota : Fetch(names, quota)
  BY DEF ReadList, ReadPoorly
<1>2. /\ w.pc = "pollRead" /\ w'.pc = "pollCommit" /\ w'.acct = w.acct
      /\ w'.list = IdsOf(names)
      /\ UNCHANGED <<rows, snaps, accts, remote>>
  BY <1>1 DEF Fetch, Typed, TypeOK, WorkerState
<1>3. OwnersFine'
  BY <1>2, OwnersStay DEF ServedInv
<1>4. Elsewhere /\ w.pc \notin Filling
  BY <1>2 DEF Elsewhere, Filling
<1>5. \A n \in Names : w'.list[n] # 0 => remote[n].acct = w.acct /\ w'.list[n] = remote[n].id
  BY <1>2 DEF IdsOf, NamesOn
<1>6. FetchedFine'
  BY <1>2, <1>5 DEF FetchedFine
<1> QED
  BY <1>2, <1>3, <1>4, <1>6, OutsideServed DEF RowStays

(* A fill that is given up without a commit has bound its domain only if it *)
(* is a repair: the account of a cycle that aborts is gone, and a crash     *)
(* must not lose a new binding.                                             *)
LEMMA LostServed ==
  ASSUME Typed, ServedInv, [SteadyNext]_vars, w.pc \in Filling,
         AbortCycle \/ (Crash /\ ~LosesFill)
  PROVE  /\ OwnersFine' /\ ServedFine' /\ NewFine' /\ MendFine'
         /\ FetchedFine' /\ LoadedFine'
<1>1. UNCHANGED <<rows, snaps, accts, remote>> /\ Elsewhere /\ w'.pc = "idle"
  BY RestingType, PollsElsewhere DEF AbortCycle, Crash
<1>2. OwnersFine'
  BY <1>1, OwnersStay DEF ServedInv
<1>3. ASSUME NEW n \in Names, ByFill(n), remote'[n] = remote[n]
      PROVE  Served(n)'
  <2>1. CASE ~InFill(n)
    BY <1>1, <1>3, <2>1, ServedStays DEF RowStays
  <2>2. CASE InFill(n) /\ w.newly
    <3>1. w.pc \in {"ids", "dns", "verify"}
      BY <1>3, <2>2 DEF ServedInv, NewFine, BeforeIds, Filling
    <3>2. remote[n].acct = w.acct
      BY <1>3, <2>2, <3>1 DEF ServedInv, NewFine, Held
    <3>3. AbortCycle /\ ~accts[w.acct].present
      BY <2>2, <3>1 DEF LosesFill, AbortCycle
    <3> QED
      BY <1>3, <3>2, <3>3 DEF ByFill
  <2>3. CASE InFill(n) /\ ~w.newly
    BY <1>1, <1>3, <2>3 DEF ServedInv, MendFine, Served, Held
  <2> QED
    BY <2>1, <2>2, <2>3
<1> QED
  BY <1>1, <1>2, <1>3, ElsewhereServed DEF FetchedFine

(* A reconciliation binds such a domain to what yyds has it, and unbinds it *)
(* only if yyds has not.                                                    *)
LEMMA ReconcileServed ==
  ASSUME Typed, IdsFollow, ServedInv, [SteadyNext]_vars, Reconcile
  PROVE  /\ OwnersFine' /\ ServedFine' /\ NewFine' /\ MendFine'
         /\ FetchedFine' /\ LoadedFine'
<1> DEFINE a == w.acct
<1>1. /\ w.pc = "pollCommit" /\ a \in Accounts /\ a # None /\ accts[a].present
      /\ ~Unreliable(w.list, w.quota, a)
      /\ \A n \in Names : rows'[n] = Reconciled(rows[n], n, w.list, a)
      /\ snaps' = [snaps EXCEPT ![a] = Listed(w.list)]
      /\ LeavePoll
  BY OwnersAssumption DEF Reconcile, Typed, Located
<1>2. w.pc \notin Filling /\ Elsewhere /\ w'.pc # "pollCommit"
  BY <1>1, LeavePollType DEF Elsewhere, Filling
<1>3. ASSUME NEW n \in Names
      PROVE  rows'[n].acct \in {rows[n].acct, None, a}
  <2>1. rows[n] \in Row /\ rows'[n] = Reconciled(rows[n], n, w.list, a)
    BY <1>1, IdNumbers
  <2> HIDE DEF a
  <2> QED
    BY <2>1 DEF Reconciled, Row
<1>4. OwnersFine'
  <2>1. \A b \in Accounts : snaps'[b] = snaps[b] \/ b = a
    BY <1>1 DEF Typed, TypeOK
  <2> QED
    BY <1>1, <1>3, <2>1, OwnersStay DEF ServedInv
<1>5. ASSUME NEW n \in Names, ByFill(n), Served(n)
      PROVE  RowStays(n)
  <2> DEFINE row == rows[n]
             id  == w.list[n]
  <2>1. /\ row \in Row /\ id \in Nat /\ row.present
        /\ row.acct = remote[n].acct /\ row.id = remote[n].id
        /\ row.status \in {"error", "used"}
        /\ rows'[n] = Reconciled(row, n, w.list, a)
    BY <1>1, <1>5, IdNumbers DEF Served, Held
  <2>2. id # 0 => row.acct = a /\ row.id = id
    BY <1>1, <1>5, <2>1 DEF ServedInv, FetchedFine
  <2>3. ~Lost(row, n, w.list, a)
    <3> SUFFICES ASSUME Lost(row, n, w.list, a) PROVE FALSE
      OBVIOUS
    <3>1. n \in snaps[a] /\ id = 0 /\ row.acct = a
      BY DEF Lost, RemovedBy
    <3>2. ~QuotaUnknown(w.quota)
      BY <1>1, <3>1 DEF Unreliable, SnapshotUnreliable
    <3>3. /\ w.quota # None
          /\ ~ListShorterThanQuota(Cardinality(Listed(w.list)), w.quota)
      BY <1>1, <3>2 DEF QuotaUnknown, Unreliable, SnapshotUnreliable
    <3> QED
      BY <1>1, <2>1, <3>1, <3>3 DEF IdsFollow
  <2> HIDE DEF row, a
  <2>4. CASE id # 0 /\ n \in snaps[a]
    <3>1. rows'[n] = [row EXCEPT !.acct = a, !.id = id, !.seen = TRUE]
      BY <2>1, <2>3, <2>4 DEF Reconciled
    <3> QED
      BY <2>1, <2>2, <2>4, <3>1 DEF RowStays, Row, row
  <2>5. CASE id # 0 /\ n \notin snaps[a]
    <3>1. rows'[n] = [row EXCEPT !.acct = a, !.id = id, !.seen = TRUE, !.filling = FALSE,
                       !.status = IF @ = "error" THEN @ ELSE "used",
                       !.reason = IF row.status = "error" THEN @ ELSE "none"]
      BY <2>1, <2>3, <2>5 DEF Reconciled
    <3>2. /\ rows'[n].present = row.present /\ rows'[n].acct = a /\ rows'[n].id = id
          /\ rows'[n].status = row.status
      BY <2>1, <3>1 DEF Row
    <3> QED
      BY <2>2, <2>5, <3>2 DEF RowStays, row
  <2>6. CASE id = 0
    <3>1. rows'[n] = row
      BY <2>1, <2>3, <2>6 DEF Reconciled
    <3> QED
      BY <3>1 DEF RowStays, row
  <2> QED
    BY <2>4, <2>5, <2>6
<1> QED
  BY <1>2, <1>4, <1>5, OutsideServed DEF FetchedFine

(* The Aliyun poll loads such a domain bound.                               *)
LEMMA ListServed ==
  ASSUME Typed, ServedInv, [SteadyNext]_vars, ListAliyun \/ ListPartly \/ Asking
  PROVE  /\ OwnersFine' /\ ServedFine' /\ NewFine' /\ MendFine'
         /\ FetchedFine' /\ LoadedFine'
<1>1. /\ w.pc \in {"aliyun", "describe"} /\ w'.pc = "describe"
      /\ UNCHANGED <<rows, snaps, accts, remote>>
      /\ \A n \in Answered' : \/ w'.copies[n] = rows[n]
                              \/ /\ w.pc = "describe" /\ n \in Answered
                                 /\ w'.copies[n] = w.copies[n]
  <2>1. w \in WorkerState
    BY DEF Typed, TypeOK
  <2>2. CASE ListAliyun \/ ListPartly
    <3>1. PICK names : List(names)
      BY <2>2 DEF ListAliyun, ListPartly
    <3>2. /\ w.pc = "aliyun" /\ w'.pc = "describe"
          /\ UNCHANGED <<rows, snaps, accts, remote>>
          /\ \A n \in Names : w'.list[n] \in {0, Unasked}
      BY <2>1, <3>1 DEF List, WorkerState
    <3> QED
      BY <3>2 DEF Answered, Unasked, Ready, OnHold
  <2>3. ASSUME NEW n \in Names, Describe(n) \/ DescribeFails(n)
        PROVE  /\ w.pc = "describe" /\ w'.pc = "describe"
               /\ UNCHANGED <<rows, snaps, accts, remote>>
               /\ w'.copies[n] = rows[n] \/ w'.list[n] = Unknown
               /\ \A m \in Names \ {n} : w'.list[m] = w.list[m] /\ w'.copies[m] = w.copies[m]
    <3>1. CASE Describe(n)
      BY <2>1, <3>1 DEF Describe, WorkerState
    <3>2. CASE DescribeFails(n)
      BY <2>1, <3>2 DEF DescribeFails, WorkerState
    <3> QED
      BY <2>3, <3>1, <3>2
  <2>4. CASE Asking
    <3>1. PICK n \in Names : Describe(n) \/ DescribeFails(n)
      BY <2>4 DEF Asking
    <3>2. \A m \in Answered' : w'.copies[m] = rows[m] \/ (m # n /\ m \in Names)
      BY <2>3, <3>1 DEF Answered, Ready, OnHold, Unknown
    <3>3. \A m \in Answered' : m # n => m \in Answered
      BY <2>3, <3>1 DEF Answered
    <3> QED
      BY <2>3, <3>1, <3>2, <3>3
  <2> QED
    BY <2>2, <2>4
<1>2. OwnersFine'
  BY <1>1, OwnersStay DEF ServedInv
<1>3. \A n \in Names : ByFill(n)' => ByFill(n) /\ remote'[n] = remote[n]
  BY <1>1 DEF ByFill
<1>4. \A n \in Names : ByFill(n) => Served(n)
  BY <1>1 DEF ServedInv, ServedFine, InFill, Filling
<1>5. ServedFine'
  BY <1>1, <1>3, <1>4, ServedStays DEF ServedFine, RowStays, InFill, Filling
<1>6. NewFine' /\ MendFine' /\ FetchedFine'
  BY <1>1 DEF NewFine, MendFine, FetchedFine, InFill, Filling
<1>7. LoadedFine'
  <2> SUFFICES ASSUME NEW n \in Answered', ByFill(n)'
               PROVE  w'.copies[n].present /\ w'.copies[n].acct # None
    BY DEF LoadedFine
  <2>1. n \in Names
    BY DEF Answered
  <2>2. ByFill(n) /\ rows[n].present /\ rows[n].acct # None
    BY <1>3, <1>4, <2>1 DEF Served, Held, ByFill
  <2> QED
    BY <1>1, <2>2 DEF ServedInv, LoadedFine
<1> QED
  BY <1>2, <1>5, <1>6, <1>7

(* What it judges of a row keeps its account and its id, and of a bound row *)
(* its status unless the registrar holds the domain.                        *)
LEMMA ItemStays ==
  ASSUME Typed, NEW n \in Names
  PROVE  /\ Item(n).acct \in {rows[n].acct, None}
         /\ w.copies[n].present /\ w.copies[n].acct # None =>
              /\ Item(n).present = rows[n].present
              /\ Item(n).acct = rows[n].acct /\ Item(n).id = rows[n].id
              /\ Item(n).status \in {rows[n].status, "error"}
<1> DEFINE row  == rows[n]
           mem  == w.copies[n]
           held == [mem EXCEPT !.hold = TRUE, !.status = "error", !.reason = "readiness"]
<1>1. row \in Row /\ mem \in Row
  BY DEF Typed, TypeOK, WorkerState
<1>2. /\ held \in Row /\ held.acct = mem.acct /\ held.id = mem.id
      /\ held.status = "error"
  BY <1>1 DEF Row, Status, Reason
<1>3. /\ Judged(mem) \in Row /\ Judged(mem).acct = mem.acct /\ Judged(mem).id = mem.id
      /\ mem.acct # None => Judged(mem).status = mem.status
  BY <1>1 DEF Judged, Row, Status, Reason
<1>4. Discovered(n).acct = None
  BY DEF Discovered, NoRow
<1>5. /\ ~mem.present => Item(n) = Discovered(n)
      /\ mem.present /\ w.list[n] = OnHold => Item(n) = Flush(row, mem, held)
      /\ mem.present /\ w.list[n] # OnHold => Item(n) = Flush(row, mem, Judged(mem))
  BY DEF Item
<1> HIDE DEF row, mem, held
<1>6. CASE ~mem.present
  BY <1>4, <1>5, <1>6 DEF mem
<1>7. CASE mem.present /\ w.list[n] = OnHold
  <2>1. Item(n) = Flush(row, mem, held)
    BY <1>5, <1>7
  <2>2. /\ Item(n).present = row.present
        /\ Item(n).status = IF held.status = mem.status THEN row.status ELSE held.status
        /\ Item(n).acct = row.acct /\ Item(n).id = row.id
    BY <1>1, <1>2, <2>1, FlushFields
  <2> QED
    BY <1>2, <2>2 DEF row
<1>8. CASE mem.present /\ w.list[n] # OnHold
  <2>1. Item(n) = Flush(row, mem, Judged(mem))
    BY <1>5, <1>8
  <2>2. /\ Item(n).present = row.present
        /\ mem.acct # None => Item(n).status = row.status
        /\ Item(n).acct = row.acct /\ Item(n).id = row.id
    BY <1>1, <1>3, <2>1, FlushFields
  <2> QED
    BY <2>2 DEF row, mem
<1> QED
  BY <1>6, <1>7, <1>8

(* So its commit, finished or throttled half way, leaves it bound.          *)
LEMMA InventoryServed ==
  ASSUME Typed, ServedInv, [SteadyNext]_vars,
         CommitAliyun \/ DescribeThrottled
  PROVE  /\ OwnersFine' /\ ServedFine' /\ NewFine' /\ MendFine'
         /\ FetchedFine' /\ LoadedFine'
<1>1. ASSUME NEW n \in Names
      PROVE  rows'[n] \in {IF n \in Answered THEN Item(n) ELSE rows[n]}
                          \cup (IF Unlisted(n) THEN {NoRow} ELSE {})
  <2>1. CASE DescribeThrottled
    BY <2>1 DEF DescribeThrottled
  <2>2. CASE CommitAliyun
    BY <2>2 DEF CommitAliyun
  <2> QED
    BY <2>1, <2>2
<1>2. /\ w.pc = "describe" /\ w' = GoFill /\ UNCHANGED <<snaps, remote, accts>>
  BY DEF CommitAliyun, DescribeThrottled
<1>3. w.pc \notin Filling /\ Elsewhere /\ w'.pc # "pollCommit"
  BY <1>2, GoFillType DEF Elsewhere, Filling
<1>4. OwnersFine'
  <2>1. ASSUME NEW n \in Names
        PROVE  rows'[n].acct \in {rows[n].acct, None}
    <3>1. NoRow.acct = None
      BY DEF NoRow
    <3> QED
      BY <1>1, <3>1, ItemStays
  <2> QED
    BY <1>2, <2>1, OwnersStay DEF ServedInv
<1>5. ASSUME NEW n \in Names, ByFill(n), Served(n)
      PROVE  RowStays(n)
  <2>1. ~Unlisted(n)
    BY <1>5 DEF Unlisted, Served, Held, ByFill
  <2>2. CASE n \in Answered
    <3>1. w.copies[n].present /\ w.copies[n].acct # None
      BY <1>2, <1>5, <2>2 DEF ServedInv, LoadedFine
    <3> QED
      BY <1>1, <2>1, <2>2, <3>1, ItemStays DEF RowStays
  <2>3. CASE n \notin Answered
    BY <1>1, <2>1, <2>3 DEF RowStays
  <2> QED
    BY <2>2, <2>3
<1> QED
  BY <1>3, <1>4, <1>5, OutsideServed DEF FetchedFine

(* All steps of the worker outside of a fill.                               *)
LEMMA PollServed ==
  ASSUME Typed, IdsFollow, ServedInv, [SteadyNext]_vars,
         \/ StartCycle \/ EndPolls \/ AbortCycle \/ (Crash /\ ~LosesFill)
         \/ PollYydsStep \/ PollYydsFault \/ PollAliyunStep \/ PollAliyunFault \/ ListPartly
  PROVE  /\ OwnersFine' /\ ServedFine' /\ NewFine' /\ MendFine'
         /\ FetchedFine' /\ LoadedFine'
<1>1. w \in WorkerState
  BY DEF Typed, TypeOK
<1>2. CASE AbortCycle \/ (Crash /\ ~LosesFill)
  <2>1. UNCHANGED <<rows, snaps>> /\ Elsewhere /\ w'.pc # "pollCommit"
    BY <1>2, RestingType, PollsElsewhere DEF AbortCycle, Crash
  <2> QED
    BY <1>2, <2>1, QuietServed, LostServed
<1>3. CASE StartCycle \/ EndPolls \/ \E a \in Accounts : SkipThrottled(a) \/ BeginPoll(a)
  <2>1. UNCHANGED <<rows, snaps>> /\ w.pc \notin Filling /\ w'.pc # "pollCommit"
    BY <1>1, <1>3 DEF StartCycle, EndPolls, SkipThrottled, BeginPoll, Filling, Resting,
       WorkerState
  <2> QED
    BY <1>3, <2>1, PollsElsewhere, QuietServed DEF PollYydsStep
<1>4. CASE RefuseList \/ \E kind \in {"429", "incomplete", "error"} : PollFails(kind)
  <2>1. UNCHANGED <<rows, snaps>> /\ w.pc \notin Filling /\ LeavePoll
    BY <1>4 DEF RefuseList, PollFails, Filling
  <2>2. w'.pc # "pollCommit"
    BY <2>1, LeavePollType
  <2> QED
    BY <1>4, <2>1, <2>2, PollsElsewhere, QuietServed DEF PollYydsStep, PollYydsFault
<1>5. CASE SkipAliyun \/ EmptyList \/ AliyunListFails
  <2>1. UNCHANGED <<rows, snaps>> /\ w.pc \notin Filling /\ w'.pc # "pollCommit"
    BY <1>5, GoFillType DEF SkipAliyun, EmptyList, AliyunListFails, Filling
  <2> QED
    BY <1>5, <2>1, PollsElsewhere, QuietServed
<1> QED
  BY <1>2, <1>3, <1>4, <1>5, FetchServed, ReconcileServed, ListServed, InventoryServed
     DEF PollYydsStep, PollYydsFault, PollAliyunStep, PollAliyunFault, Asking

-----------------------------------------------------------------------------
(* What a fill clears and sets aside keeps its account and its id, and its  *)
(* status unless it is put in error.                                        *)
LEMMA StockStays ==
  ASSUME Typed, NEW n \in Names
  PROVE  \A row \in {Cleared[n], Stock[n]} :
           /\ row \in Row
           /\ row.present = rows[n].present
           /\ row.acct = rows[n].acct /\ row.id = rows[n].id
           /\ row.status \in {rows[n].status, "error"}
<1>1. rows[n] \in Row /\ Cleared[n] \in Row /\ Stock[n] \in Row
  BY ClearedType DEF Typed, TypeOK
<1>2. ASSUME NEW row \in Row
      PROVE  /\ Unstuck(row).present = row.present
             /\ Unstuck(row).acct = row.acct /\ Unstuck(row).id = row.id
             /\ Unstuck(row).status \in {row.status, "error"}
  BY <1>2 DEF Unstuck, Row
<1>3. ASSUME NEW row \in Row
      PROVE  /\ Usable(row).present = row.present
             /\ Usable(row).acct = row.acct /\ Usable(row).id = row.id
             /\ Usable(row).status \in {row.status, "error"}
  BY <1>3 DEF Usable, Row
<1>4. Cleared[n] = Unstuck(rows[n]) /\ Stock[n] = Usable(Cleared[n])
  BY DEF Cleared, Stock
<1> HIDE DEF Cleared, Stock
<1> QED
  BY <1>1, <1>2, <1>3, <1>4

(* A fill that finds nothing to do, or a domain that is on yyds already, has *)
(* touched no domain that a fill has bound.                                  *)
LEMMA IdleServed ==
  ASSUME Typed, ServedInv, [SteadyNext]_vars,
         NothingToFill \/ \E n \in Names, a \in Accounts : FindOccupied(n, a)
  PROVE  /\ OwnersFine' /\ ServedFine' /\ NewFine' /\ MendFine'
         /\ FetchedFine' /\ LoadedFine'
<1>1. /\ w.pc = "fill" /\ w.pc \notin Filling /\ UNCHANGED snaps
      /\ \E did \in BOOLEAN : w' = AfterFill(did)
  BY DEF NothingToFill, FindOccupied, Filling
<1>2. Elsewhere /\ w'.pc # "pollCommit"
  BY <1>1, AfterFillType DEF Elsewhere, Filling, Typed
<1>3. ASSUME NEW n \in Names, rows'[n] = Stock[n]
      PROVE  RowStays(n)
  BY <1>3, StockStays DEF RowStays
<1>4. ASSUME NEW m \in Names, NEW a \in Accounts, FindOccupied(m, a), NEW n \in Names
      PROVE  /\ rows'[n].acct = rows[n].acct \/ (rows'[n].acct = a /\ accts[a].present)
             /\ RowStays(n) \/ rows[n].acct = None
  <2>1. /\ rows' = [Stock EXCEPT ![m].status = "used", ![m].acct = a, ![m].reason = "none"]
        /\ Stock \in [Names -> Row] /\ Stock[m].acct = None /\ m \in snaps[a]
    BY <1>4, ClearedType DEF FindOccupied, Fillable
  <2>2. accts[a].present
    BY <2>1 DEF ServedInv, OwnersFine
  <2> HIDE DEF Stock
  <2>3. CASE n # m
    BY <1>3, <2>1, <2>3 DEF RowStays
  <2>4. CASE n = m
    BY <2>1, <2>2, <2>4, StockStays DEF Row
  <2> QED
    BY <2>3, <2>4
<1>5. ASSUME NothingToFill, NEW n \in Names
      PROVE  RowStays(n)
  BY <1>3, <1>5 DEF NothingToFill
<1>6. OwnersFine'
  BY <1>1, <1>4, <1>5, OwnersStay DEF ServedInv, RowStays
<1>7. \A n \in Names : ByFill(n) /\ Served(n) => RowStays(n)
  BY <1>4, <1>5 DEF ByFill, Served, Held
<1> QED
  BY <1>1, <1>2, <1>6, <1>7, OutsideServed DEF FetchedFine

(* A repair begins with a domain that is held and in error, a new fill with *)
(* one that no fill has bound.                                              *)
LEMMA BeginServed ==
  ASSUME Typed, ServedInv, [SteadyNext]_vars, NEW m \in Names,
         StartRepair(m) \/ \E a \in Accounts : StartFill(m, a)
  PROVE  /\ OwnersFine' /\ ServedFine' /\ NewFine' /\ MendFine'
         /\ FetchedFine' /\ LoadedFine'
<1>1. /\ w.pc = "fill" /\ w'.pc = "registrar" /\ w'.name = m
      /\ UNCHANGED <<snaps, remote, accts>>
      /\ StartRepair(m) => ~w'.newly
      /\ ~StartRepair(m) => w'.newly
  <2>1. CASE StartRepair(m)
    BY <2>1 DEF StartRepair, Resting
  <2>2. ASSUME NEW a \in Accounts, StartFill(m, a)
        PROVE  /\ w.pc = "fill" /\ w'.pc = "registrar" /\ w'.name = m /\ w'.newly
               /\ UNCHANGED <<snaps, remote, accts>>
    BY <2>2 DEF StartFill, Resting
  <2> QED
    BY <2>1, <2>2
<1>2. ASSUME NEW n \in Names
      PROVE  RowStays(n)
  <2>1. CASE StartRepair(m)
    <3>1. rows' = [Cleared EXCEPT ![m].filling = TRUE] /\ Cleared \in [Names -> Row]
      BY <2>1, ClearedType DEF StartRepair
    <3>2. /\ rows'[n].present = Cleared[n].present /\ rows'[n].status = Cleared[n].status
          /\ rows'[n].acct = Cleared[n].acct /\ rows'[n].id = Cleared[n].id
      BY <3>1 DEF Row
    <3> HIDE DEF Cleared
    <3> QED
      BY <3>2, StockStays DEF RowStays
  <2>2. CASE \E a \in Accounts : StartFill(m, a)
    <3>1. rows' = [Stock EXCEPT ![m].filling = TRUE] /\ Stock \in [Names -> Row]
      BY <2>2, ClearedType DEF StartFill
    <3>2. /\ rows'[n].present = Stock[n].present /\ rows'[n].status = Stock[n].status
          /\ rows'[n].acct = Stock[n].acct /\ rows'[n].id = Stock[n].id
      BY <3>1 DEF Row
    <3> HIDE DEF Stock
    <3> QED
      BY <3>2, StockStays DEF RowStays
  <2> QED
    BY <2>1, <2>2
<1>3. OwnersFine'
  BY <1>1, <1>2, OwnersStay DEF ServedInv, RowStays
<1>4. ASSUME NEW n \in Names, ByFill(n)'
      PROVE  ByFill(n) /\ remote'[n] = remote[n] /\ Served(n)
  BY <1>1, <1>4 DEF ByFill, ServedInv, ServedFine, InFill, Filling
<1>5. ServedFine'
  BY <1>1, <1>2, <1>4, ServedStays DEF ServedFine, InFill, Filling
<1>6. MendFine'
  <2>1. ASSUME StartRepair(m)
        PROVE  rows'[m].status = "error"
    <3>1. /\ rows' = [Cleared EXCEPT ![m].filling = TRUE] /\ Cleared \in [Names -> Row]
          /\ Cleared[m].status = "error"
      BY <2>1, ClearedType DEF StartRepair, Repairable
    <3> HIDE DEF Cleared
    <3> QED
      BY <3>1 DEF Row
  <2> QED
    BY <1>1, <1>2, <1>4, <2>1 DEF MendFine, InFill, RowStays, Served, Held
<1>7. NewFine'
  <2>1. ASSUME ~StartRepair(m)
        PROVE  rows'[m].present /\ rows'[m].acct = None /\ rows'[m].status # "used"
    <3>1. /\ rows' = [Stock EXCEPT ![m].filling = TRUE] /\ Stock \in [Names -> Row]
          /\ Stock[m].present /\ Stock[m].status = "unused" /\ Stock[m].acct = None
      BY <2>1, ClearedType DEF StartFill, Fillable
    <3> HIDE DEF Stock
    <3> QED
      BY <3>1 DEF Row
  <2>2. ~StartRepair(m) => ~ByFill(m)'
    BY <1>2, <1>4, <2>1 DEF Served, Held, ByFill, RowStays
  <2> QED
    BY <1>1, <2>1, <2>2 DEF NewFine, InFill, BeforeIds
<1> QED
  BY <1>1, <1>3, <1>5, <1>6, <1>7 DEF FetchedFine, LoadedFine

(* A step within a fill concerns its own domain.                            *)
LEMMA WithinServed ==
  ASSUME Typed, ServedInv, [SteadyNext]_vars, w.pc \in Filling, w'.pc \in Filling,
         w'.name = w.name, UNCHANGED <<snaps, accts>> \/ UNCHANGED snaps,
         \A n \in Names : n # w.name => rows'[n] = rows[n] /\ remote'[n] = remote[n],
         \/ rows'[w.name].acct \in {rows[w.name].acct, None}
         \/ rows'[w.name].acct \in Accounts /\ accts[rows'[w.name].acct].present
  PROVE  OwnersFine' /\ ServedFine' /\ FetchedFine' /\ LoadedFine'
<1>1. OwnersFine'
  BY OwnersStay DEF ServedInv
<1>2. ServedFine'
  <2> SUFFICES ASSUME NEW n \in Names, ByFill(n)', n # w.name
               PROVE  Served(n)'
    BY DEF ServedFine, InFill
  <2>1. ByFill(n) /\ remote'[n] = remote[n]
    BY BoundByFill
  <2> QED
    BY <2>1, ServedStays DEF RowStays, InFill
<1> QED
  BY <1>1, <1>2 DEF FetchedFine, LoadedFine, Filling

(* What a new fill commits of the ids it was told.                          *)
LEMMA IdsServed ==
  ASSUME Typed, FillShape, w.pc \in {"sync", "add", "ids"}, NEW id \in Nat,
         w.newly => rows[w.name].present /\ rows[w.name].status # "used"
  PROVE  LET after == Loaded([w.mem EXCEPT !.acct = w.acct, !.id = id]) IN
         /\ after.present /\ after.acct = w.acct /\ after.status # "used"
         /\ id # 0 => after.id = id
         /\ [w.mem EXCEPT !.acct = w.acct, !.id = id].status = "unused"
<1> DEFINE new == [w.mem EXCEPT !.acct = w.acct, !.id = id]
           row == rows[w.name]
<1>1. /\ row \in Row /\ w.mem \in Row /\ w.acct \in Accounts /\ w.newly
      /\ w.mem.acct = None /\ w.mem.id = 0 /\ w.mem.status = "unused"
      /\ row.present /\ row.status # "used"
  BY EndedRowType DEF FillShape, BeforeIds, Filling, Typed, Located
<1>2. /\ new \in Row /\ new.acct = w.acct /\ new.id = id /\ new.status = "unused"
  BY <1>1, IdsRowType DEF Row, Filling
<1>3. Loaded(new) = Flush(row, w.mem, new)
  BY DEF Loaded
<1>4. w.acct # None
  BY <1>1, OwnersAssumption
<1> HIDE DEF new, row
<1>5. /\ Loaded(new).present /\ Loaded(new).acct = w.acct
      /\ Loaded(new).status # "used"
      /\ id # 0 => Loaded(new).id = id
  BY <1>1, <1>2, <1>3, <1>4, FlushFields
<1> QED
  BY <1>2, <1>5, Zenon DEF new

(* A step that leads a fill on, but for the ones that bind:                 *)
LEMMA OnwardServed ==
  ASSUME Typed, FillShape, ServedInv, [SteadyNext]_vars,
         RegistrarReady \/ EnterSession \/ WriteDns
  PROVE  /\ OwnersFine' /\ ServedFine' /\ NewFine' /\ MendFine'
         /\ FetchedFine' /\ LoadedFine'
<1>1. /\ w.pc \in Filling /\ w'.pc \in Filling /\ w'.name = w.name
      /\ w'.newly = w.newly /\ w'.acct = w.acct
      /\ UNCHANGED <<snaps, remote>> /\ w.name \in Names /\ w.pc # "ids"
      /\ w.pc \in BeforeIds => w'.pc \in BeforeIds \/ ~w.newly
      /\ w.pc = "dns" => w'.mem.status = w.mem.status
      /\ w'.pc # "ids"
      /\ w.newly /\ w'.pc \in {"dns", "verify"} => w.pc = "dns"
  <2>1. w \in WorkerState /\ (w.pc \in Filling => w.name \in Names)
    BY DEF Typed, TypeOK, Located
  <2>2. CASE RegistrarReady \/ EnterSession
    BY <2>1, <2>2 DEF RegistrarReady, EnterSession, WorkerState, Filling, BeforeIds
  <2>3. CASE WriteDns
    <3>1. /\ w.pc = "dns" /\ UNCHANGED <<snaps, remote>>
          /\ w' = [w EXCEPT !.pc = "verify", !.mem.hold = FALSE] /\ w.mem \in Row
      BY <2>1, <2>3 DEF WriteDns, WorkerState
    <3>2. /\ w'.pc = "verify" /\ w'.name = w.name /\ w'.newly = w.newly
          /\ w'.acct = w.acct /\ w'.mem = [w.mem EXCEPT !.hold = FALSE]
      BY <2>1, <3>1 DEF WorkerState
    <3>3. w'.mem.status = w.mem.status
      BY <3>1, <3>2 DEF Row
    <3> QED
      BY <2>1, <3>1, <3>2, <3>3 DEF Filling, BeforeIds
  <2> QED
    BY <2>2, <2>3
<1>2. /\ rows'[w.name].present = rows[w.name].present
      /\ rows'[w.name].acct = rows[w.name].acct /\ rows'[w.name].id = rows[w.name].id
      /\ rows'[w.name].status = rows[w.name].status
      /\ \A n \in Names : n # w.name => rows'[n] = rows[n]
  <2>1. CASE WriteDns
    <3>1. /\ rows'[w.name] = Settled
          /\ \A n \in Names : n # w.name => rows'[n] = rows[n]
      BY <1>1, <2>1 DEF WriteDns, Typed, TypeOK
    <3> QED
      BY <1>1, <3>1, SettledType
  <2>2. CASE RegistrarReady \/ EnterSession
    BY <2>2 DEF RegistrarReady, EnterSession
  <2> QED
    BY <2>1, <2>2
<1>3. OwnersFine' /\ ServedFine' /\ FetchedFine' /\ LoadedFine'
  BY <1>1, <1>2, WithinServed
<1>4. ASSUME ByFill(w.name)'
      PROVE  ByFill(w.name) /\ remote'[w.name] = remote[w.name]
  <2>1. ~AddDomain
    BY <1>1 DEF AddDomain, Typed, TypeOK, WorkerState
  <2> QED
    BY <1>1, <1>4, <2>1, BoundByFill
<1>5. MendFine'
  BY <1>1, <1>2, <1>4 DEF ServedInv, MendFine, InFill, Held
<1>6. NewFine'
  <2>1. CASE w.pc \in BeforeIds
    BY <1>1, <1>2, <1>4, <2>1 DEF ServedInv, NewFine, InFill
  <2>2. CASE w.pc = "dns"
    <3>1. w'.pc = "verify"
      BY <2>2 DEF RegistrarReady, EnterSession, WriteDns, Typed, TypeOK, WorkerState
    <3> QED
      BY <1>1, <1>2, <1>4, <2>2, <3>1 DEF ServedInv, NewFine, InFill, Held, BeforeIds
  <2> QED
    BY <2>1, <2>2 DEF RegistrarReady, EnterSession, WriteDns, BeforeIds
<1> QED
  BY <1>3, <1>5, <1>6

(* it binds only what no fill has bound.                                    *)
LEMMA AddServed ==
  ASSUME Typed, FillShape, ServedInv, [SteadyNext]_vars, AddDomain
  PROVE  /\ OwnersFine' /\ ServedFine' /\ NewFine' /\ MendFine'
         /\ FetchedFine' /\ LoadedFine'
<1>1. /\ w.pc = "add" /\ w'.pc = "ids" /\ w'.name = w.name /\ w'.newly = w.newly
      /\ w'.acct = w.acct /\ w.name \in Names /\ w.newly
      /\ w'.list[w.name] = remote[w.name].id + 1
      /\ UNCHANGED <<rows, snaps, accts>>
      /\ remote' = [remote EXCEPT ![w.name] =
                      [acct |-> w.acct, id |-> @.id + 1, by |-> "fill"]]
  BY DEF AddDomain, Bind, Typed, TypeOK, Located, WorkerState, Filling, FillShape
<1>2. /\ remote'[w.name].acct = w.acct /\ remote'[w.name].id = remote[w.name].id + 1
      /\ \A n \in Names : n # w.name => remote'[n] = remote[n]
  BY <1>1 DEF Typed, TypeOK
<1>3. OwnersFine' /\ ServedFine' /\ FetchedFine' /\ LoadedFine'
  BY <1>1, <1>2, WithinServed DEF Filling
<1>4. MendFine' /\ NewFine'
  BY <1>1, <1>2 DEF ServedInv, NewFine, MendFine, InFill, Filling, BeforeIds
<1> QED
  BY <1>3, <1>4

(* An addition leads to the commit of its id.                               *)
LEMMA AddLeads == ASSUME Typed, AddDomain PROVE w'.pc = "ids"
BY DEF AddDomain, Typed, TypeOK, WorkerState

(* The fill commits what it was told of the binding; what it found   *)
(* bound is somebody else's.                                                *)
LEMMA CommitServed ==
  ASSUME Typed, FillShape, ServedInv, [SteadyNext]_vars, w.pc \in {"sync", "add", "ids"},
         accts[w.acct].present, UNCHANGED <<snaps, remote>>, NEW id \in Nat,
         w.pc = "ids" => id = w.list[w.name],
         rows' = [rows EXCEPT ![w.name] = Loaded([w.mem EXCEPT !.acct = w.acct, !.id = id])],
         NEW list, w' = [w EXCEPT !.pc = "dns", !.list = list,
                                  !.mem = [w.mem EXCEPT !.acct = w.acct, !.id = id]]
  PROVE  /\ OwnersFine' /\ ServedFine' /\ NewFine' /\ MendFine'
         /\ FetchedFine' /\ LoadedFine'
<1> DEFINE new == [w.mem EXCEPT !.acct = w.acct, !.id = id]
<1>1. /\ w'.pc = "dns" /\ w'.name = w.name /\ w'.newly = w.newly /\ w'.acct = w.acct
      /\ w'.mem = new /\ w.newly /\ w.name \in Names /\ w.acct \in Accounts
  BY DEF FillShape, Typed, TypeOK, Located, WorkerState, Filling
<1>2. rows[w.name].present /\ rows[w.name].status # "used"
  BY <1>1 DEF ServedInv, NewFine, InFill, Filling, BeforeIds
<1>3. /\ Loaded(new).present /\ Loaded(new).acct = w.acct
      /\ Loaded(new).status # "used"
      /\ id # 0 => Loaded(new).id = id
      /\ new.status = "unused"
  BY <1>2, IdsServed
<1> HIDE DEF new
<1>4. /\ rows'[w.name] = Loaded(new)
      /\ \A n \in Names : n # w.name => rows'[n] = rows[n]
  BY <1>1 DEF Typed, TypeOK, new
<1>5. OwnersFine' /\ ServedFine' /\ FetchedFine' /\ LoadedFine'
  BY <1>1, <1>3, <1>4, WithinServed DEF Filling
<1>6. MendFine'
  BY <1>1 DEF MendFine, InFill
<1>7. ASSUME ByFill(w.name)'
      PROVE  Held(w.name)'
  <2>1. ~AddDomain
    BY <1>1, AddLeads
  <2>2. ByFill(w.name)
    BY <1>1, <1>7, <2>1, BoundByFill
  <2>3. /\ w.pc = "ids" /\ remote[w.name].acct = w.acct
        /\ remote[w.name].id = w.list[w.name]
    BY <1>1, <2>2 DEF ServedInv, NewFine, InFill, Filling, BeforeIds
  <2>4. id # 0 /\ id = w.list[w.name]
    BY <2>3 DEF FillShape
  <2> QED
    BY <1>3, <1>4, <2>3, <2>4 DEF Held
<1>8. NewFine'
  BY <1>1, <1>3, <1>4, <1>7 DEF NewFine, InFill, BeforeIds
<1> QED
  BY <1>5, <1>6, <1>8

-----------------------------------------------------------------------------
(* The end of a fill.  A domain that a fill has bound is held then,         *)
LEMMA EndHeld ==
  ASSUME Typed, IdsFollow, ServedInv, w.pc \in Filling, w.pc # "ids", ByFill(w.name)
  PROVE  /\ Held(w.name) /\ rows[w.name].id # 0
         /\ w.newly => w.pc \in {"dns", "verify"} /\ w.mem.status # "used"
         /\ w.newly => rows[w.name].status # "used"
         /\ ~w.newly => rows[w.name].status = "error"
<1>1. w.name \in Names
  BY DEF Typed, Located
<1>2. w.newly => w.pc \in {"dns", "verify"}
  BY <1>1 DEF ServedInv, NewFine, InFill, BeforeIds, Filling
<1>3. /\ Held(w.name)
      /\ w.newly => w.mem.status # "used" /\ rows[w.name].status # "used"
      /\ ~w.newly => rows[w.name].status = "error"
  BY <1>1, <1>2 DEF ServedInv, NewFine, MendFine, InFill
<1>4. remote[w.name].id \in Nat /\ remote[w.name].id > 0
  BY <1>1, IdNumbers DEF IdsFollow, ByFill
<1> QED
  BY <1>2, <1>3, <1>4 DEF Held

(* and the fill leaves it served or in error.                               *)
LEMMA FinishServed ==
  ASSUME Typed, IdsFollow, ServedInv, [SteadyNext]_vars, w.pc \in Filling, w.pc # "ids",
         NEW row, Finish(row), UNCHANGED snaps, row.acct = rows[w.name].acct,
         row.id = rows[w.name].id, row.present = rows[w.name].present,
         ByFill(w.name) => \/ row.status = "error"
                           \/ row.status = "used" /\ zone'[w.name] = "full"
  PROVE  /\ OwnersFine' /\ ServedFine' /\ NewFine' /\ MendFine'
         /\ FetchedFine' /\ LoadedFine'
<1>1. /\ w.name \in Names /\ rows'[w.name] = row
      /\ \A n \in Names : n # w.name => rows'[n] = rows[n]
  BY DEF Finish, Typed, TypeOK, Located
<1>2. Elsewhere
  BY FinishElsewhere
<1>3. w'.pc # "pollCommit"
  BY AfterFillType DEF Finish, Typed
<1>4. OwnersFine'
  BY <1>1, OwnersStay DEF ServedInv
<1>5. ASSUME NEW n \in Names, ByFill(n), remote'[n] = remote[n]
      PROVE  Served(n)'
  <2>1. CASE n # w.name
    BY <1>1, <1>5, <2>1, ServedStays DEF RowStays, InFill
  <2>2. CASE n = w.name
    BY <1>1, <1>5, <2>2, EndHeld DEF Served, Held
  <2> QED
    BY <2>1, <2>2
<1> QED
  BY <1>2, <1>3, <1>4, <1>5, ElsewhereServed DEF FetchedFine

(* An exception leaves it in error.                                         *)
LEMMA HandledServed ==
  ASSUME Typed, IdsFollow, FillShape, ServedInv, w.pc \in Filling, w.pc # "ids",
         ByFill(w.name), NEW kind \in {"throttled", "error", "unexpected"},
         NEW reason \in Reason
  PROVE  /\ Handled(kind, reason).status = "error"
         /\ ~w.newly => Unusable(reason).status = "error"
<1> DEFINE now == rows[w.name]
           new == [w.mem EXCEPT !.filling = FALSE, !.status = "error", !.reason = reason]
<1>1. /\ now \in Row /\ w.mem \in Row /\ now.id # 0
      /\ w.newly => now.status # "used"
      /\ ~w.newly => now.status = "error"
  BY EndedRowType, EndHeld
<1>2. new \in Row /\ new.status = "error"
  BY <1>1 DEF Row, Status
<1>3. ~w.newly => Unusable(reason).status = "error"
  <2>1. Unusable(reason) = Flush(now, w.mem, new)
    BY DEF Unusable, Loaded
  <2> HIDE DEF new, now
  <2> QED
    BY <1>1, <1>2, <2>1, FlushFields
<1> QED
  BY <1>1, <1>3, HandledColumns

(* So do all the ways a fill fails,                                         *)
LEMMA FailsServed ==
  ASSUME Typed, IdsFollow, FillShape, ServedInv, [SteadyNext]_vars, w.pc \in Filling,
         w.pc # "ids", UNCHANGED snaps,
         \/ YydsFails \/ CountedYydsFails \/ AliyunThrottles \/ Fails("error", "other")
         \/ CountedFails("error", "other") \/ Fails("unexpected", "propagating")
  PROVE  /\ OwnersFine' /\ ServedFine' /\ NewFine' /\ MendFine'
         /\ FetchedFine' /\ LoadedFine'
<1>1. PICK kind \in {"throttled", "error", "unexpected"},
           reason \in {"other", "readiness", "propagating"} :
        Finish(Handled(kind, reason))
  BY DEF YydsFails, YydsThrottles, Fails, AliyunThrottles, CountedYydsFails, CountedFails
<1>2. reason \in Reason
  BY DEF Reason
<1>3. LET row == Handled(kind, reason) IN
      /\ row.acct = rows[w.name].acct /\ row.id = rows[w.name].id
      /\ row.present = rows[w.name].present
      /\ ByFill(w.name) => row.status = "error"
  BY <1>2, EndKeeps, EndedPresent, HandledServed
<1> QED
  BY <1>1, <1>3, FinishServed

(* and what the registrar refuses: a new fill has bound nothing by then.    *)
LEMMA RefusedServed ==
  ASSUME Typed, IdsFollow, FillShape, ServedInv, [SteadyNext]_vars,
         RegistrarRefuses \/ RegistrarUnknown \/ RegistrarFails
  PROVE  /\ OwnersFine' /\ ServedFine' /\ NewFine' /\ MendFine'
         /\ FetchedFine' /\ LoadedFine'
<1>1. w.pc = "registrar" /\ w.pc \in Filling /\ UNCHANGED snaps
  BY DEF RegistrarRefuses, RegistrarUnknown, RegistrarFails, Filling
<1>2. ByFill(w.name) => ~w.newly
  BY <1>1, EndHeld
<1>3. w.mem \in Row /\ rows[w.name] \in Row
  BY <1>1, EndedRowType
<1>4. ASSUME NEW reason \in {"other", "readiness"}, Finish(Unusable(reason))
      PROVE  /\ OwnersFine' /\ ServedFine' /\ NewFine' /\ MendFine'
             /\ FetchedFine' /\ LoadedFine'
  <2>1. reason \in Reason
    BY DEF Reason
  <2>2. LET row == Unusable(reason) IN
        /\ row.acct = rows[w.name].acct /\ row.id = rows[w.name].id
        /\ row.present = rows[w.name].present
        /\ ByFill(w.name) => row.status = "error"
    BY <1>1, <1>2, <2>1, EndKeeps, EndedPresent, HandledServed
  <2> QED
    BY <1>1, <1>4, <2>2, FinishServed
<1>5. ASSUME NEW new \in Row, Finish(Loaded(new)), new.acct = w.mem.acct, new.id = w.mem.id,
             ByFill(w.name) => new.status = "error"
      PROVE  /\ OwnersFine' /\ ServedFine' /\ NewFine' /\ MendFine'
             /\ FetchedFine' /\ LoadedFine'
  <2> DEFINE row == rows[w.name]
  <2>1. Loaded(new) = Flush(row, w.mem, new)
    BY DEF Loaded
  <2>2. ByFill(w.name) => row.status = "error"
    BY <1>1, <1>2, EndHeld
  <2>3. row \in Row
    BY <1>3
  <2> HIDE DEF row
  <2>4. /\ Loaded(new).acct = row.acct /\ Loaded(new).id = row.id
        /\ Loaded(new).present = row.present
        /\ ByFill(w.name) => Loaded(new).status = "error"
    BY <1>3, <1>5, <2>1, <2>2, <2>3, FlushFields
  <2> QED
    BY <1>1, <1>5, <2>4, FinishServed DEF row
<1>6. CASE RegistrarRefuses
  <2> DEFINE new == [w.mem EXCEPT !.hold = TRUE, !.filling = FALSE,
                                  !.status = "error", !.reason = "readiness"]
  <2>1. /\ new \in Row /\ new.acct = w.mem.acct /\ new.id = w.mem.id
        /\ new.status = "error"
    BY <1>3 DEF Row, Status, Reason
  <2>2. Finish(Loaded(new))
    BY <1>6 DEF RegistrarRefuses
  <2> HIDE DEF new
  <2> QED
    BY <1>5, <2>1, <2>2
<1>7. ASSUME w.mem.id = 0,
             Finish(Loaded([w.mem EXCEPT !.filling = FALSE, !.status = "unused",
                                         !.reason = "none"]))
      PROVE  /\ OwnersFine' /\ ServedFine' /\ NewFine' /\ MendFine'
             /\ FetchedFine' /\ LoadedFine'
  <2> DEFINE new == [w.mem EXCEPT !.filling = FALSE, !.status = "unused", !.reason = "none"]
  <2>1. new \in Row /\ new.acct = w.mem.acct /\ new.id = w.mem.id
    BY <1>3 DEF Row, Status, Reason
  <2>2. ~ByFill(w.name)
    BY <1>1, <1>2, <1>7 DEF FillShape
  <2>3. Finish(Loaded(new))
    BY <1>7
  <2> HIDE DEF new
  <2> QED
    BY <1>5, <2>1, <2>2, <2>3
<1> QED
  BY <1>4, <1>6, <1>7 DEF RegistrarRefuses, RegistrarUnknown, RegistrarFails

(* A fill that gives up before it adds the domain has bound nothing,        *)
LEMMA GivenUpServed ==
  ASSUME Typed, IdsFollow, FillShape, ServedInv, [SteadyNext]_vars, w.pc = "sync",
         UNCHANGED snaps, Finish(GiveUp)
  PROVE  /\ OwnersFine' /\ ServedFine' /\ NewFine' /\ MendFine'
         /\ FetchedFine' /\ LoadedFine'
<1>1. w.pc \in Filling /\ w.newly
  BY DEF Filling, FillShape
<1>2. ~ByFill(w.name)
  BY <1>1, EndHeld
<1>3. /\ GiveUp.acct = rows[w.name].acct /\ GiveUp.id = rows[w.name].id
      /\ GiveUp.present = rows[w.name].present
  BY <1>1, EndKeeps, EndedPresent
<1> QED
  BY <1>1, <1>2, <1>3, FinishServed

(* and one whose records yyds finds has them all.                           *)
LEMMA VerifiedServed ==
  ASSUME Typed, IdsFollow, FillShape, ServedInv, [SteadyNext]_vars, Verified
  PROVE  /\ OwnersFine' /\ ServedFine' /\ NewFine' /\ MendFine'
         /\ FetchedFine' /\ LoadedFine'
<1> DEFINE new == [w.mem EXCEPT !.filling = FALSE, !.status = "used", !.reason = "none"]
           row == rows[w.name]
<1>1. /\ w.pc = "verify" /\ w.pc \in Filling /\ Finish(Loaded(new))
      /\ zone'[w.name] = "full" /\ UNCHANGED snaps
  BY DEF Verified, Filling
<1>2. w.mem \in Row /\ row \in Row
  BY <1>1, EndedRowType
<1>3. /\ new \in Row /\ new.acct = w.mem.acct /\ new.id = w.mem.id
      /\ new.status = "used"
  BY <1>2 DEF Row, Status, Reason
<1>4. ByFill(w.name) => w.mem.status # "used"
  BY <1>1, EndHeld DEF FillShape
<1>5. Loaded(new) = Flush(row, w.mem, new)
  BY DEF Loaded
<1> HIDE DEF new, row
<1>6. /\ Loaded(new).acct = row.acct /\ Loaded(new).id = row.id
      /\ Loaded(new).present = row.present
      /\ ByFill(w.name) => Loaded(new).status = "used"
  BY <1>2, <1>3, <1>4, <1>5, FlushFields
<1> QED
  BY <1>1, <1>6, FinishServed DEF row

(* All steps of a fill whose answers come.                                  *)
LEMMA FillServed ==
  ASSUME Typed, IdsFollow, FillShape, ServedInv, [SteadyNext]_vars, FillStep \/ FillFault
  PROVE  /\ OwnersFine' /\ ServedFine' /\ NewFine' /\ MendFine'
         /\ FetchedFine' /\ LoadedFine'
<1>1. CASE SyncUsage \/ SyncPoorly
  <2>1. PICK names, quota : Sync(names, quota)
    BY <1>1 DEF SyncUsage, SyncPoorly
  <2>2. /\ w.pc = "sync" /\ w.pc \in Filling /\ w.name \in Names
        /\ UNCHANGED <<snaps, remote>> /\ accts[w.acct].present
    BY <2>1 DEF Sync, Filling, Typed, Located
  <2>3. CASE Finish(GiveUp)
    BY <2>2, <2>3, GivenUpServed
  <2>4. CASE LET ids == [w.mem EXCEPT !.acct = w.acct, !.id = IdsOf(names)[w.name]] IN
               /\ rows' = [rows EXCEPT ![w.name] = Loaded(ids)]
               /\ w' = [w EXCEPT !.pc = "dns", !.mem = ids]
    <3>1. IdsOf(names)[w.name] \in Nat
      BY <2>2, IdsOfType DEF Typed
    <3>2. w' = [w EXCEPT !.pc = "dns", !.list = w.list,
                  !.mem = [w.mem EXCEPT !.acct = w.acct, !.id = IdsOf(names)[w.name]]]
      BY <2>4 DEF Typed, TypeOK, WorkerState
    <3> QED
      BY <2>2, <2>4, <3>1, <3>2, CommitServed
  <2>5. CASE w' = [w EXCEPT !.pc = "add"] /\ UNCHANGED rows
    <3>1. /\ w'.pc = "add" /\ w'.name = w.name /\ w'.newly = w.newly
          /\ w'.newly /\ w'.acct = w.acct
      BY <2>2, <2>5 DEF Typed, TypeOK, WorkerState, FillShape
    <3>2. OwnersFine' /\ ServedFine' /\ FetchedFine' /\ LoadedFine'
      BY <2>2, <2>5, <3>1, WithinServed DEF Filling
    <3>3. ByFill(w.name)' => ByFill(w.name)
      BY <2>2, <3>1, BoundByFill DEF AddDomain
    <3>4. NewFine' /\ MendFine'
      BY <2>2, <2>5, <3>1, <3>3 DEF ServedInv, NewFine, MendFine, InFill, BeforeIds
    <3> QED
      BY <3>2, <3>4
  <2> QED
    BY <2>1, <2>3, <2>4, <2>5 DEF Sync
<1>2. CASE SyncFails
  <2>1. w.pc = "sync" /\ w.pc \in Filling /\ UNCHANGED snaps
    BY <1>2 DEF SyncFails, Filling
  <2> QED
    BY <1>2, <2>1, FailsServed, GivenUpServed DEF SyncFails
<1>3. CASE AddConflicts
  <2>1. /\ w.pc = "add" /\ w.pc \in Filling /\ w.name \in Names
        /\ UNCHANGED <<snaps, remote>> /\ accts[w.acct].present
    BY <1>3 DEF AddConflicts, Filling, Typed, Located
  <2>2. CASE LET ids == [w.mem EXCEPT !.acct = w.acct, !.id = remote[w.name].id] IN
               /\ rows' = [rows EXCEPT ![w.name] = Loaded(ids)]
               /\ w' = [w EXCEPT !.pc = "dns", !.mem = ids]
    <3>1. remote[w.name].id \in Nat
      BY <2>1, IdNumbers
    <3>2. w' = [w EXCEPT !.pc = "dns", !.list = w.list,
                  !.mem = [w.mem EXCEPT !.acct = w.acct, !.id = remote[w.name].id]]
      BY <2>2 DEF Typed, TypeOK, WorkerState
    <3> QED
      BY <2>1, <2>2, <3>1, <3>2, CommitServed
  <2> QED
    BY <1>3, <2>1, <2>2, FailsServed DEF AddConflicts
<1>4. CASE CommitIds
  <2>1. /\ w.pc = "ids" /\ w.name \in Names /\ UNCHANGED <<snaps, remote>>
        /\ accts[w.acct].present /\ w.list[w.name] \in Nat
    BY <1>4, IdNumbers DEF CommitIds, Filling, Typed, Located
  <2>2. w' = [w EXCEPT !.pc = "dns", !.list = Resting.list,
                !.mem = [w.mem EXCEPT !.acct = w.acct, !.id = w.list[w.name]]]
    BY <1>4 DEF CommitIds, Typed, TypeOK, WorkerState
  <2>3. rows' = [rows EXCEPT ![w.name] =
                   Loaded([w.mem EXCEPT !.acct = w.acct, !.id = w.list[w.name]])]
    BY <1>4 DEF CommitIds
  <2> QED
    BY <2>1, <2>2, <2>3, CommitServed
<1>5. CASE AddFails \/ GuideFails \/ WriteDnsFails \/ VerifyFails \/ DomainGone
  <2>1. /\ w.pc \in Filling /\ w.pc # "ids" /\ UNCHANGED snaps
        /\ \/ YydsFails \/ CountedYydsFails \/ AliyunThrottles
           \/ Fails("error", "other") \/ CountedFails("error", "other")
           \/ Fails("unexpected", "propagating")
    BY <1>5 DEF AddFails, GuideFails, WriteDnsFails, VerifyFails, DomainGone, Filling
  <2> QED
    BY <2>1, FailsServed
<1> QED
  BY <1>1, <1>2, <1>3, <1>4, <1>5, IdleServed, BeginServed, OnwardServed, AddServed,
     RefusedServed, VerifiedServed DEF FillStep, FillFault

-----------------------------------------------------------------------------
(* A new installation has nothing that a fill has bound.                    *)
LEMMA InitServed == Init => ServedInv
<1> SUFFICES ASSUME NEW bound \in [Names -> Accounts \cup {None}],
                    NEW owned \in SUBSET Names, NEW served \in SUBSET Names,
                    InitFrom(bound, owned, served)
             PROVE  ServedInv
  BY DEF Init
<1>1. \A n \in Names : ~ByFill(n)
  BY DEF InitFrom, ByFill
<1>2. w.pc = "idle" /\ \A d \in Deleters : del[d].pc = "idle"
  BY RestingType, NoRequestType DEF InitFrom
<1>3. \A a \in Accounts : accts[a].present
  BY DEF InitFrom
<1>4. \A n \in Names : rows[n].acct \in Accounts \cup {None}
  <2> SUFFICES ASSUME NEW n \in Names PROVE rows[n].acct \in Accounts \cup {None}
    OBVIOUS
  <2>1. rows[n] \in {FirstRow(bound[n]), NoRow} /\ bound[n] \in Accounts \cup {None}
    BY DEF InitFrom
  <2>2. NoRow.acct = None /\ FirstRow(bound[n]).acct = bound[n]
    BY DEF NoRow, FirstRow
  <2> QED
    BY <2>1, <2>2
<1>5. OwnersFine
  BY <1>3, <1>4 DEF OwnersFine
<1> QED
  BY <1>1, <1>2, <1>5 DEF ServedInv, ServedFine, NewFine, MendFine, FetchedFine,
     LoadedFine, RemoteFirst, InFill, Filling, Deleting

(* Every steady step keeps it so.                                           *)
LEMMA NextServed ==
  ASSUME Typed, LocksHeld, IdsFollow, DeletesOwn, FillShape, ServedInv,
         [SteadyNext]_vars, NotMoved
  PROVE  ServedInv'
<1>1. /\ OwnersFine' /\ ServedFine' /\ NewFine' /\ MendFine'
      /\ FetchedFine' /\ LoadedFine'
  <2>1. CASE \/ StartCycle \/ EndPolls \/ AbortCycle \/ (Crash /\ ~LosesFill)
             \/ PollYydsStep \/ PollYydsFault \/ PollAliyunStep \/ PollAliyunFault
             \/ ListPartly
    BY <2>1, PollServed
  <2>2. CASE FillStep \/ FillFault
    BY <2>2, FillServed
  <2>3. CASE Aside
    BY <2>3, AsideServed
  <2> QED
    BY <2>1, <2>2, <2>3 DEF SteadyNext, WorkerStep, Fault, Aside
<1>2. RemoteFirst'
  BY NextRemoteFirst
<1> QED
  BY <1>1, <1>2 DEF ServedInv

(* A domain the program added and shows as used has its records, in every   *)
(* history in which each addition is answered, the person in charge sets    *)
(* domains by hand to error only, the process does not die between an       *)
(* addition and the end of its fill, and no domain moves to another account *)
(* under a request that waits to delete it.                                 *)
THEOREM UsedHasItsRecords ==
  SteadySpec /\ [][NotMoved]_vars => []UsedIsServed
<1>1. Init => DeletesOwn /\ FillShape
  <2>1. Init => DeletesOwn
    BY NoRequestType DEF Init, InitFrom, DeletesOwn, Deleting
  <2>2. Init => FillShape
    BY RestingType DEF Init, InitFrom, FillShape, Filling, BeforeIds
  <2> QED
    BY <2>1, <2>2
<1> DEFINE Inv == /\ Typed /\ LocksHeld /\ IdsFollow /\ DeletesOwn
                  /\ FillShape /\ ServedInv
<1>2. Init => Inv
  BY <1>1, InitType, InitLocks, InitFollows, InitServed
<1>3. Inv /\ [SteadyNext]_vars /\ [NotMoved]_vars => Inv'
  <2>1. UNCHANGED vars => NotMoved
    BY OwnersAssumption DEF vars, NotMoved, LockFill
  <2> SUFFICES ASSUME Inv, [SteadyNext]_vars, NotMoved
               PROVE  Inv'
    BY <2>1
  <2>2. Typed' /\ LocksHeld' /\ IdsFollow' /\ DeletesOwn' /\ FillShape'
    BY SteadyIsNext, NextType, NextLocks, NextFollows, NextDeletesOwn, NextFillShape
  <2> QED
    BY <2>2, NextServed
<1>4. Inv => UsedIsServed
  <2> SUFFICES ASSUME Inv, NEW n \in Names, rows[n].status = "used", Bound(rows[n]),
                      remote[n].acct = rows[n].acct, remote[n].by = "fill"
               PROVE  zone[n] = "full"
    BY DEF UsedIsServed
  <2>1. ByFill(n)
    BY DEF Bound, ServedInv, OwnersFine, ByFill
  <2>2. ~InFill(n)
    BY <2>1 DEF ServedInv, NewFine, MendFine, InFill, Bound, Filling, BeforeIds
  <2> QED
    BY <2>1, <2>2 DEF ServedInv, ServedFine, Served
<1> HIDE DEF Inv
<1> QED
  BY <1>2, <1>3, <1>4, PTL DEF SteadySpec

==============================================================================
