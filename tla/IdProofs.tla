------------------------------- MODULE IdProofs -------------------------------
(***************************************************************************)
(* The poll unbinds no domain that yyds still has under the id of its row, *)
(* for any names, accounts and requests.  The ids of rows and lists never  *)
(* run ahead of those of yyds (IdsFollow); all steps but seven are quiet:  *)
(* they take no id from yyds and touch no list.                            *)
(***************************************************************************)
EXTENDS DomainSlotProofs

USE DEF db, locks, world

-----------------------------------------------------------------------------
(* yyds goes forward: a name stays as it is, is unbound, or gets a new id.  *)
Forward ==
  \A n \in Names :
    \/ remote'[n].acct = remote[n].acct /\ remote'[n].id = remote[n].id
    \/ remote'[n].acct = None /\ remote'[n].id = remote[n].id
    \/ remote'[n].id > remote[n].id

(* Rows keep their ids or lose them.                                        *)
KeepsIds == \A n \in Names : rows'[n].id = rows[n].id \/ rows'[n].id = 0

(* No thread begins to hold a list or a new id.                             *)
KeepsLists == w'.pc \in {"pollCommit", "ids"} => w' = w

Quiet == Forward /\ KeepsIds /\ KeepsLists

(* The ids are numbers.                                                     *)
LEMMA IdNumbers ==
  ASSUME Typed
  PROVE  \A n \in Names : /\ remote[n].id \in Nat /\ rows[n].id \in Nat
                          /\ w.list[n] \in Nat /\ rows[n] \in Row /\ w.mem \in Row
BY DEF Typed, TypeOK, Remote, Row, WorkerState

(* A quiet step keeps them behind yyds, and a complete list complete: an id *)
(* that is new at yyds is in no row.                                        *)
LEMMA QuietKeeps ==
  ASSUME Typed, Typed', IdsFollow, Quiet
  PROVE  IdsFollow'
<1>1. \A n \in Names : /\ remote[n].id \in Nat /\ rows[n].id \in Nat
                       /\ remote'[n].id \in Nat /\ rows'[n].id \in Nat
                       /\ w.list[n] \in Nat /\ remote[n].id <= remote'[n].id
  <2>1. \A n \in Names : remote'[n].id \in Nat /\ rows'[n].id \in Nat
    BY DEF Typed, TypeOK, Remote, Row
  <2> QED
    BY <2>1, IdNumbers DEF Quiet, Forward
<1>2. ASSUME NEW n \in Names
      PROVE  /\ remote'[n].acct # None => remote'[n].id > 0
             /\ rows'[n].id <= remote'[n].id
  BY <1>1 DEF Quiet, Forward, KeepsIds, IdsFollow
<1>3. ASSUME w'.pc = "pollCommit"
      PROVE  \A n \in Names : w'.list[n] <= remote'[n].id
  BY <1>1, <1>3 DEF Quiet, KeepsLists, IdsFollow
<1>4. ASSUME w'.pc = "ids"
      PROVE  w'.list[w'.name] <= remote'[w'.name].id
  <2>1. w' = w /\ w.name \in Names
    BY <1>4 DEF Quiet, KeepsLists, Typed, Located, Filling
  <2> QED
    BY <1>1, <1>4, <2>1 DEF IdsFollow
<1>5. ASSUME w'.pc = "pollCommit", w'.quota # None,
             ~ListShorterThanQuota(Cardinality(Listed(w'.list)), w'.quota),
             NEW n \in Names, w'.list[n] = 0,
             remote'[n].acct = w'.acct, remote'[n].id = rows'[n].id
      PROVE  FALSE
  <2>1. w' = w /\ w.acct \in Accounts
    BY <1>5 DEF Quiet, KeepsLists, Typed, Located
  <2>2. remote'[n].acct # None
    BY <1>5, <2>1, OwnersAssumption
  <2>3. rows'[n].id = rows[n].id
    BY <1>1, <1>2, <1>5, <2>2 DEF Quiet, KeepsIds
  <2>4. ~(remote[n].acct = w.acct /\ remote[n].id = rows[n].id)
    BY <1>5, <2>1 DEF IdsFollow
  <2>5. rows[n].id <= remote[n].id
    BY DEF IdsFollow
  <2> QED
    BY <1>1, <1>5, <2>1, <2>2, <2>3, <2>4, <2>5 DEF Quiet, Forward
<1> QED
  BY <1>2, <1>3, <1>4, <1>5 DEF IdsFollow, Listed

(* So does a step that leaves lists alone and copies ids of yyds to rows.   *)
LEMMA CopyKeeps ==
  ASSUME Typed, Typed', IdsFollow, UNCHANGED remote,
         w'.pc \notin {"pollCommit", "ids"},
         \A n \in Names : rows'[n].id <= remote[n].id
  PROVE  IdsFollow'
BY DEF IdsFollow

-----------------------------------------------------------------------------
(* A commit whose code leaves the id alone leaves the committed one alone.  *)
LEMMA FlushKeepsId ==
  ASSUME NEW row \in Row, NEW mem \in Row, NEW new \in Row
  PROVE  Flush(row, mem, new).id = IF new.id = mem.id THEN row.id ELSE new.id
BY DEF Flush, Row

(* The row a fill ends with keeps its id: one that is put aside,            *)
LEMMA EndedKeepsId ==
  ASSUME Typed, w.pc \in Filling
  PROVE  /\ GiveUp.id = rows[w.name].id
         /\ \A reason \in Reason : Unusable(reason).id = rows[w.name].id
<1>1. w.mem \in Row /\ rows[w.name] \in Row
  BY EndedRowType
<1>2. /\ [w.mem EXCEPT !.filling = FALSE] \in Row
      /\ [w.mem EXCEPT !.filling = FALSE].id = w.mem.id
  BY <1>1 DEF Row
<1>3. ASSUME NEW reason \in Reason
      PROVE  Unusable(reason).id = rows[w.name].id
  <2> DEFINE new == [w.mem EXCEPT !.filling = FALSE, !.status = "error",
                                  !.reason = reason]
  <2>1. new \in Row /\ new.id = w.mem.id
    BY <1>1, <1>3 DEF Row, Status
  <2>2. Unusable(reason) = Flush(rows[w.name], w.mem, new)
    BY DEF Unusable, Loaded
  <2> HIDE DEF new
  <2> QED
    BY <1>1, <2>1, <2>2, FlushKeepsId
<1>4. GiveUp.id = rows[w.name].id
  <2> DEFINE new == [w.mem EXCEPT !.filling = FALSE]
  <2>1. new \in Row /\ new.id = w.mem.id
    BY <1>2
  <2>2. GiveUp = Flush(rows[w.name], w.mem, new)
    BY DEF GiveUp, Loaded
  <2> HIDE DEF new
  <2> QED
    BY <1>1, <2>1, <2>2, FlushKeepsId
<1> QED
  BY <1>3, <1>4

(* and one whose exception is handled.                                      *)
LEMMA HandledKeepsId ==
  ASSUME Typed, w.pc \in Filling, NEW kind \in {"throttled", "error", "unexpected"},
         NEW reason \in Reason
  PROVE  Handled(kind, reason).id = rows[w.name].id
<1> DEFINE now    == Settled
           bare   == [Unusable(reason) EXCEPT !.hold = now.hold]
           failed == [now EXCEPT !.filling = FALSE, !.status = "error",
                                 !.reason = reason]
           back   == [now EXCEPT !.filling = FALSE, !.status = "unused",
                                 !.reason = "none"]
<1>1. failed.id = now.id /\ back.id = now.id /\ now.id = rows[w.name].id
  BY SettledType DEF Row
<1>2. Handled(kind, reason) \in {now, failed, back, bare}
  <2>1. CASE kind = "throttled"
    BY <2>1 DEF Handled
  <2>2. CASE kind = "error"
    BY <2>2 DEF Handled
  <2>3. CASE kind = "unexpected"
    BY <2>3 DEF Handled
  <2> QED
    BY <2>1, <2>2, <2>3
<1>3. bare.id = rows[w.name].id
  BY EndedRowType, EndedKeepsId DEF Row
<1> HIDE DEF now, bare, failed, back
<1> QED
  BY <1>1, <1>2, <1>3

(* A fill that ends so is a quiet step.                                     *)
LEMMA FinishQuiet ==
  ASSUME Typed, w.pc \in Filling, NEW row, row.id = rows[w.name].id, Finish(row)
  PROVE  KeepsIds /\ KeepsLists
<1>1. w'.pc \in {"fill", "idle"}
  BY AfterFillType DEF Finish, Typed
<1>2. rows' = [rows EXCEPT ![w.name] = row] /\ rows \in [Names -> Row]
  BY DEF Finish, Typed, TypeOK
<1>3. \A n \in Names : rows'[n].id = rows[n].id
  BY <1>2
<1> QED
  BY <1>1, <1>3 DEF KeepsIds, KeepsLists

(* An error of yyds, and any other.                                         *)
LEMMA FailsQuiet ==
  ASSUME Typed, w.pc \in Filling,
         \/ YydsFails \/ CountedYydsFails \/ AliyunThrottles
         \/ \E kind \in {"error", "unexpected"}, reason \in Reason :
              Fails(kind, reason) \/ CountedFails(kind, reason)
  PROVE  KeepsIds /\ KeepsLists
<1>1. PICK kind \in {"throttled", "error", "unexpected"} :
        \E reason \in Reason : Finish(Handled(kind, reason))
  <2>1. "other" \in Reason /\ "readiness" \in Reason
    BY DEF Reason
  <2>2. CASE YydsFails
    BY <2>1, <2>2 DEF YydsFails, YydsThrottles, Fails
  <2>3. CASE AliyunThrottles
    BY <2>1, <2>3 DEF AliyunThrottles
  <2>4. CASE CountedYydsFails
    BY <2>1, <2>4 DEF CountedYydsFails, CountedFails
  <2> QED
    BY <2>2, <2>3, <2>4 DEF Fails, CountedFails
<1> QED
  BY <1>1, HandledKeepsId, FinishQuiet

(* The inventory a fill starts from.                                        *)
LEMMA StockKeepsIds ==
  ASSUME Typed
  PROVE  \A n \in Names : Cleared[n].id = rows[n].id /\ Stock[n].id = rows[n].id
<1> TAKE n \in Names
<1>1. rows[n] \in Row
  BY DEF Typed, TypeOK
<1>2. Unstuck(rows[n]).id = rows[n].id /\ Unstuck(rows[n]) \in Row
  <2>1. CASE ~rows[n].filling
    BY <1>1, <2>1 DEF Unstuck
  <2>2. CASE rows[n].filling
    BY <1>1, <2>2 DEF Unstuck, Row, Status, Reason
  <2> QED
    BY <2>1, <2>2
<1>3. Usable(Cleared[n]).id = Cleared[n].id
  BY <1>2 DEF Usable, Cleared, Row
<1> QED
  BY <1>2, <1>3 DEF Cleared, Stock

(* The quiet steps of a fill: all that neither take an id from yyds nor     *)
(* bind a name there.                                                       *)
LEMMA FillQuiet ==
  ASSUME Typed,
         \/ \E n \in Names : StartRepair(n)
         \/ \E n \in Names, a \in Accounts : StartFill(n, a) \/ FindOccupied(n, a)
         \/ NothingToFill
         \/ RegistrarReady \/ RegistrarRefuses \/ RegistrarUnknown \/ RegistrarFails
         \/ EnterSession \/ SyncFails \/ AddFails \/ AddUnanswered
         \/ WriteDns \/ WriteDnsFails \/ GuideFails \/ DomainGone
         \/ Verified \/ VerifyFails
  PROVE  KeepsIds /\ KeepsLists
<1> USE DEF Filling
<1>1. ASSUME NEW n \in Names, StartRepair(n)
      PROVE  KeepsIds /\ KeepsLists
  <2>1. rows' = [Cleared EXCEPT ![n].filling = TRUE] /\ w'.pc = "registrar"
    BY <1>1 DEF StartRepair, Resting
  <2>2. \A m \in Names : rows'[m].id = Cleared[m].id
    BY <2>1, ClearedType DEF Row
  <2> QED
    BY <2>1, <2>2, StockKeepsIds DEF KeepsIds, KeepsLists
<1>2. ASSUME NEW n \in Names, NEW a \in Accounts, StartFill(n, a)
      PROVE  KeepsIds /\ KeepsLists
  <2>1. rows' = [Stock EXCEPT ![n].filling = TRUE] /\ w'.pc = "registrar"
    BY <1>2 DEF StartFill, Resting
  <2>2. \A m \in Names : rows'[m].id = Stock[m].id
    BY <2>1, ClearedType DEF Row
  <2> QED
    BY <2>1, <2>2, StockKeepsIds DEF KeepsIds, KeepsLists
<1>3. ASSUME NEW n \in Names, NEW a \in Accounts, FindOccupied(n, a)
      PROVE  KeepsIds /\ KeepsLists
  <2>1. /\ rows' = [Stock EXCEPT ![n].status = "used", ![n].acct = a,
                                 ![n].reason = "none"]
        /\ w'.pc \in {"fill", "idle"}
    BY <1>3, AfterFillType DEF FindOccupied, Typed
  <2>2. \A m \in Names : rows'[m].id = Stock[m].id
    BY <2>1, ClearedType DEF Row
  <2> QED
    BY <2>1, <2>2, StockKeepsIds DEF KeepsIds, KeepsLists
<1>4. CASE NothingToFill
  <2>1. rows' = Stock /\ w'.pc \in {"fill", "idle"}
    BY <1>4, AfterFillType DEF NothingToFill, Typed
  <2> QED
    BY <2>1, StockKeepsIds DEF KeepsIds, KeepsLists
<1>5. ASSUME w.pc \in Filling, NEW new \in Row, new.id = w.mem.id
      PROVE  Loaded(new).id = rows[w.name].id
  BY <1>5, EndedRowType, FlushKeepsId DEF Loaded
<1>6. ASSUME w.pc \in Filling,
             Finish(GiveUp) \/ \E reason \in Reason : Finish(Unusable(reason))
      PROVE  KeepsIds /\ KeepsLists
  BY <1>6, EndedKeepsId, FinishQuiet
<1>7. CASE WriteDns
  <2>1. /\ w.pc \in Filling
        /\ rows' = [rows EXCEPT ![w.name] = Settled]
        /\ w'.pc = "verify"
    BY <1>7 DEF WriteDns, Typed, TypeOK, WorkerState
  <2>2. \A n \in Names : rows'[n].id = rows[n].id
    BY <2>1, SettledType DEF Typed, TypeOK
  <2> QED
    BY <2>1, <2>2 DEF KeepsIds, KeepsLists
<1>8. CASE RegistrarRefuses \/ RegistrarUnknown
  <2> DEFINE new == [w.mem EXCEPT !.hold = TRUE, !.filling = FALSE,
                                  !.status = "error", !.reason = "readiness"]
  <2>1. w.pc \in Filling /\ (Finish(Loaded(new)) \/ Finish(Unusable("other")))
    BY <1>8 DEF RegistrarRefuses, RegistrarUnknown
  <2>2. new \in Row /\ new.id = w.mem.id
    BY <2>1, EndedRowType DEF Row, Status, Reason
  <2> HIDE DEF new
  <2> QED
    BY <1>5, <1>6, <2>1, <2>2, FinishQuiet DEF Reason
<1>9. CASE RegistrarFails
  <2> DEFINE new == [w.mem EXCEPT !.filling = FALSE, !.status = "unused",
                                  !.reason = "none"]
  <2>1. /\ w.pc \in Filling
        /\ \/ Finish(IF w.mem.id = 0 THEN Loaded(new) ELSE Unusable("readiness"))
           \/ Finish(Unusable("other"))
    BY <1>9 DEF RegistrarFails
  <2>2. new \in Row /\ new.id = w.mem.id
    BY <2>1, EndedRowType DEF Row, Status, Reason
  <2> HIDE DEF new
  <2> QED
    BY <1>5, <1>6, <2>1, <2>2, FinishQuiet DEF Reason
<1>10. CASE EnterSession \/ RegistrarReady
  <2>1. CASE EnterSession
    <3>1. UNCHANGED rows /\ w'.pc \in {"sync", "dns"}
      BY <2>1 DEF EnterSession, Typed, TypeOK, WorkerState
    <3> QED
      BY <3>1 DEF KeepsIds, KeepsLists
  <2>2. CASE RegistrarReady
    <3>1. UNCHANGED rows /\ w'.pc = "bind"
      BY <2>2 DEF RegistrarReady, Typed, TypeOK, WorkerState
    <3> QED
      BY <3>1 DEF KeepsIds, KeepsLists
  <2> QED
    BY <1>10, <2>1, <2>2
<1>11. CASE SyncFails
  <2>1. w.pc \in Filling /\ (YydsFails \/ Finish(GiveUp))
    BY <1>11 DEF SyncFails
  <2> QED
    BY <1>6, <2>1, FailsQuiet
<1>12. CASE AddFails \/ AddUnanswered \/ GuideFails \/ WriteDnsFails \/ VerifyFails
            \/ DomainGone
  <2>1. /\ w.pc \in Filling
        /\ \/ YydsFails \/ CountedYydsFails \/ AliyunThrottles
           \/ Fails("error", "other") \/ CountedFails("error", "other")
           \/ Fails("unexpected", "propagating")
    BY <1>12 DEF AddFails, AddUnanswered, GuideFails, WriteDnsFails, VerifyFails,
       DomainGone
  <2> QED
    BY <2>1, FailsQuiet DEF Reason
<1>13. CASE Verified
  <2> DEFINE new == [w.mem EXCEPT !.filling = FALSE, !.status = "used",
                                  !.reason = "none"]
  <2>1. w.pc \in Filling /\ Finish(Loaded(new))
    BY <1>13 DEF Verified
  <2>2. new \in Row /\ new.id = w.mem.id
    BY <2>1, EndedRowType DEF Row, Status, Reason
  <2> HIDE DEF new
  <2> QED
    BY <1>5, <2>1, <2>2, FinishQuiet
<1> QED
  BY <1>1, <1>2, <1>3, <1>4, <1>7, <1>8, <1>9, <1>10, <1>11, <1>12, <1>13

(* The polls, but for a list of yyds fetched and reconciled.                *)
LEMMA PollQuiet ==
  ASSUME Typed,
         \/ StartCycle \/ EndPolls \/ AbortCycle
         \/ \E a \in Accounts : SkipThrottled(a) \/ BeginPoll(a)
         \/ RefuseList
         \/ \E kind \in {"429", "incomplete", "error"} : PollFails(kind)
         \/ PollAliyunStep \/ PollAliyunFault \/ ListPartly
  PROVE  KeepsIds /\ KeepsLists
<1>1. \A n \in Names : rows[n] \in Row /\ w \in WorkerState
  BY DEF Typed, TypeOK
<1>2. ASSUME NEW n \in Names
      PROVE  Item(n).id = rows[n].id \/ Item(n).id = 0
  <2> DEFINE mem  == w.copies[n]
             held == [mem EXCEPT !.hold = TRUE, !.status = "error",
                                 !.reason = "readiness"]
  <2>1. mem \in Row /\ rows[n] \in Row
    BY <1>1 DEF Typed, TypeOK, WorkerState
  <2>2. Discovered(n).id = 0
    BY DEF Discovered, NoRow
  <2>3. held \in Row /\ held.id = mem.id
    BY <2>1 DEF Row, Status, Reason
  <2>4. Judged(mem) \in Row /\ Judged(mem).id = mem.id
    BY <2>1 DEF Judged, Row, Status, Reason
  <2>5. Item(n) \in {Discovered(n), Flush(rows[n], mem, held),
                     Flush(rows[n], mem, Judged(mem))}
    BY <2>1 DEF Item, Row
  <2> HIDE DEF held, mem
  <2> QED
    BY <2>1, <2>2, <2>3, <2>4, <2>5, FlushKeepsId
<1>3. GoFill.pc = "fill" /\ Resting.pc = "idle" /\ NoRow.id = 0
  BY GoFillType, RestingType DEF NoRow
<1>4. CASE CommitAliyun
  <2>1. \A n \in Names : rows'[n] \in {Item(n), NoRow, rows[n]}
    BY <1>4 DEF CommitAliyun
  <2>2. w'.pc = "fill"
    BY <1>3, <1>4 DEF CommitAliyun
  <2> QED
    BY <1>2, <1>3, <2>1, <2>2 DEF KeepsIds, KeepsLists
<1>5. CASE DescribeThrottled
  <2>1. \A n \in Names : rows'[n] \in {Item(n), rows[n]}
    BY <1>5 DEF DescribeThrottled
  <2>2. w'.pc = "fill"
    BY <1>3, <1>5 DEF DescribeThrottled
  <2> QED
    BY <1>2, <2>1, <2>2 DEF KeepsIds, KeepsLists
<1>6. ASSUME UNCHANGED rows, w'.pc \notin {"pollCommit", "ids"}
      PROVE  KeepsIds /\ KeepsLists
  BY <1>6 DEF KeepsIds, KeepsLists
<1>7. CASE StartCycle \/ EndPolls \/ AbortCycle \/ SkipAliyun \/ EmptyList
           \/ AliyunListFails
  BY <1>3, <1>6, <1>7 DEF StartCycle, EndPolls, AbortCycle, SkipAliyun, EmptyList,
     AliyunListFails, Resting
<1>8. ASSUME NEW a \in Accounts, SkipThrottled(a) \/ BeginPoll(a)
      PROVE  KeepsIds /\ KeepsLists
  BY <1>1, <1>6, <1>8 DEF SkipThrottled, BeginPoll, WorkerState, Typed, TypeOK
<1>9. ASSUME NEW kind, RefuseList \/ PollFails(kind)
      PROVE  KeepsIds /\ KeepsLists
  <2>1. UNCHANGED rows /\ LeavePoll
    BY <1>9 DEF RefuseList, PollFails
  <2>2. w'.pc = "poll"
    BY <2>1 DEF LeavePoll, Resting
  <2> QED
    BY <1>6, <2>1, <2>2
<1>10. ASSUME NEW names, List(names)
       PROVE  KeepsIds /\ KeepsLists
  BY <1>1, <1>6, <1>10 DEF List, WorkerState, Typed, TypeOK
<1>11. ASSUME NEW n \in Names, Describe(n) \/ DescribeFails(n)
       PROVE  KeepsIds /\ KeepsLists
  BY <1>1, <1>6, <1>11 DEF Describe, DescribeFails, WorkerState, Typed, TypeOK
<1> QED
  BY <1>4, <1>5, <1>7, <1>8, <1>9, <1>10, <1>11 DEF PollAliyunStep, ListAliyun,
     PollAliyunFault, ListPartly

(* The delete requests, the panel and the world.                            *)
LEMMA RestQuiet ==
  ASSUME Typed,
         \/ \E d \in Deleters : DeleteYydsStep(d) \/ DeleteYydsFault(d)
         \/ Request \/ Update \/ RemoveAccount
         \/ Website \/ Registrar \/ ThrottleEnds \/ Crash
  PROVE  KeepsIds /\ KeepsLists
<1>1. \A n \in Names : rows[n] \in Row
  BY DEF Typed, TypeOK
<1>2. ASSUME NEW d \in Deleters, CommitDelete(d)
      PROVE  KeepsIds /\ UNCHANGED w
  <2> DEFINE n   == del[d].name
             mem == del[d].mem
             new == [mem EXCEPT !.acct = None, !.id = 0, !.filling = FALSE,
                       !.status = "used",
                       !.reason = IF del[d].failed THEN "cleanup" ELSE "none"]
  <2>1. n \in Names /\ mem \in Row
    BY <1>2 DEF CommitDelete, Typed, TypeOK, Located, DeleterState
  <2>2. new \in Row /\ new.id = 0
    BY <2>1 DEF Row, Status, Reason
  <2>3. rows' = [rows EXCEPT ![n] = Flush(rows[n], mem, new)] /\ UNCHANGED w
    BY <1>2 DEF CommitDelete
  <2> HIDE DEF n, mem, new
  <2>4. Flush(rows[n], mem, new).id \in {rows[n].id, 0}
    BY <1>1, <2>1, <2>2, FlushKeepsId
  <2> QED
    BY <2>1, <2>3, <2>4 DEF KeepsIds, Typed, TypeOK
<1>3. ASSUME NEW n \in Names, NEW status \in Status, UpdateDomain(n, status)
      PROVE  KeepsIds /\ UNCHANGED w
  <2>1. rows'[n].id \in {rows[n].id, 0} /\ \A m \in Names : m # n => rows'[m] = rows[m]
    BY <1>1, <1>3 DEF UpdateDomain, Typed, TypeOK, Row
  <2> QED
    BY <1>3, <2>1 DEF KeepsIds, UpdateDomain
<1>4. ASSUME NEW a \in Accounts, DeleteAccount(a)
      PROVE  KeepsIds /\ UNCHANGED w
  <2>1. ASSUME NEW n \in Names
        PROVE  rows'[n].id = rows[n].id
    BY <1>1, <1>4 DEF DeleteAccount, Row
  <2> QED
    BY <1>4, <2>1 DEF KeepsIds, DeleteAccount
<1>5. CASE UNCHANGED <<rows, w>>
  BY <1>5 DEF KeepsIds, KeepsLists
<1>6. CASE Crash
  BY <1>6, RestingType DEF Crash, KeepsIds, KeepsLists
<1> QED
  BY <1>2, <1>3, <1>4, <1>5, <1>6 DEF KeepsLists, DeleteYydsStep, DeleteYydsFault,
     LockFill, Refused, LockSession, DeleteRemote, CleanDns, CleanDnsRefused,
     CommitDeleteFails, DeleteRemoteFails, CleanDnsFails, Request, RequestDelete,
     Update, RemoveAccount, Website, PersonAdds, PersonDeletes, Registrar,
     RegistrarChanges, ThrottleEnds, AliyunThrottleEnds, YydsThrottleEnds

-----------------------------------------------------------------------------
(* What changes yyds changes it forward: a name bound,                      *)
LEMMA BoundForward ==
  ASSUME Typed, NEW n \in Names, NEW a, NEW by,
         remote' = [remote EXCEPT ![n] = [acct |-> a, id |-> @.id + 1, by |-> by]]
  PROVE  Forward /\ remote'[n].id = remote[n].id + 1
BY IdNumbers DEF Forward, Typed, TypeOK

(* or unbound, and nothing else does.                                       *)
LEMMA UnboundForward ==
  ASSUME Typed, NEW n \in Names, remote' = [remote EXCEPT ![n].acct = None, ![n].by = "person"]
  PROVE  Forward
BY DEF Forward, Typed, TypeOK, Remote

LEMMA NextForward == ASSUME Typed, [Next]_vars PROVE Forward
<1>1. CASE UNCHANGED remote
  BY <1>1 DEF Forward
<1>2. ASSUME NEW n \in Names, PersonDeletes(n) \/ \E a \in Accounts : PersonAdds(n, a)
      PROVE  Forward
  BY <1>2, BoundForward, UnboundForward DEF PersonAdds, PersonDeletes
<1>3. CASE AddDomain \/ AddUnanswered
  <2>1. Bind(w.name, w.acct) /\ w.name \in Names
    BY <1>3 DEF AddDomain, AddUnanswered, Typed, Located, Filling
  <2> QED
    BY <2>1, BoundForward DEF Bind
<1>4. ASSUME NEW d \in Deleters, DeleteRemote(d) \/ DeleteRemoteFails(d)
      PROVE  Forward
  <2>1. /\ del[d].name \in Names
        /\ Unbind(del[d].name) \/ UNCHANGED remote
    BY <1>4 DEF DeleteRemote, DeleteRemoteFails, Typed, Located
  <2> QED
    BY <1>1, <2>1, UnboundForward DEF Unbind
<1>5. ASSUME NEW d \in Deleters, DeleteYydsStep(d) \/ DeleteYydsFault(d)
      PROVE  Forward
  BY <1>1, <1>4, <1>5 DEF DeleteYydsStep, DeleteYydsFault, LockFill, Refused, LockSession,
     CleanDns, CleanDnsRefused, CommitDelete, CommitDeleteFails, CleanDnsFails
<1>6. CASE FillStep \/ FillFault
  BY <1>1, <1>3, <1>6 DEF FillStep, FillFault, StartRepair, StartFill, FindOccupied,
     NothingToFill, RegistrarReady, RegistrarRefuses, RegistrarUnknown, RegistrarFails,
     EnterSession, SyncUsage, SyncPoorly, Sync, SyncFails, AddConflicts, AddFails,
     CommitIds, WriteDns, WriteDnsFails, GuideFails, DomainGone, Verified, VerifyFails
<1>7. CASE \/ StartCycle \/ EndPolls \/ AbortCycle \/ PollYydsStep \/ PollYydsFault
           \/ PollAliyunStep \/ PollAliyunFault \/ ListPartly
  BY <1>1, <1>7 DEF StartCycle, EndPolls, AbortCycle, PollYydsStep, PollYydsFault,
     SkipThrottled, BeginPoll, ReadList, ReadPoorly, Fetch, RefuseList, Reconcile,
     PollFails, PollAliyunStep, PollAliyunFault, SkipAliyun, ListAliyun, EmptyList,
     Describe, CommitAliyun, AliyunListFails, DescribeFails, DescribeThrottled,
     ListPartly, List
<1>8. CASE Request \/ Update \/ RemoveAccount \/ Registrar \/ ThrottleEnds \/ Crash
  BY <1>1, <1>8 DEF Request, RequestDelete, Update, UpdateDomain, RemoveAccount,
     DeleteAccount, Registrar, RegistrarChanges, ThrottleEnds, AliyunThrottleEnds,
     YydsThrottleEnds, Crash
<1>9. CASE UNCHANGED vars
  BY <1>1, <1>9 DEF vars
<1> QED
  BY <1>2, <1>3, <1>5, <1>6, <1>7, <1>8, <1>9 DEF Next, WorkerStep, Fault, Website

-----------------------------------------------------------------------------
(* The other steps.  A fetched list has ids of yyds, and one that is not    *)
(* shorter than the use reported with it has every name of the account.     *)
LEMMA FetchFollows ==
  ASSUME Typed, Typed', IdsFollow, ReadList \/ ReadPoorly
  PROVE  IdsFollow'
<1> DEFINE on == NamesOn(w.acct)
<1>1. PICK kept \in SUBSET on, quota \in {None, Cardinality(on)} : Fetch(kept, quota)
  BY DEF ReadList, ReadPoorly
<1>2. /\ w'.pc = "pollCommit" /\ w'.acct = w.acct
      /\ w'.list = IdsOf(kept) /\ w'.quota = quota
      /\ UNCHANGED <<rows, remote>>
  BY <1>1 DEF Fetch, Typed, TypeOK, WorkerState
<1>3. Listed(w'.list) \subseteq kept
  BY <1>2 DEF Listed, IdsOf
<1>4. \A n \in Names : w'.list[n] <= remote[n].id
  BY <1>2, IdNumbers DEF IdsOf
<1>5. ASSUME quota # None, ~ListShorterThanQuota(Cardinality(Listed(w'.list)), quota)
      PROVE  on \subseteq Listed(w'.list)
  <2>1. IsFiniteSet(on) /\ Listed(w'.list) \in SUBSET on
    BY <1>3, NamesAssumption, NamesOnType, FS_Subset
  <2>2. Cardinality(Listed(w'.list)) \in Nat /\ Cardinality(on) \in Nat
    BY ListedType, NamesOnType
  <2>3. Cardinality(Listed(w'.list)) >= Cardinality(on)
    BY <1>5, <2>2 DEF ListShorterThanQuota
  <2> QED
    BY <2>1, <2>2, <2>3, FS_Subset
<1>6. ASSUME w'.quota # None,
             ~ListShorterThanQuota(Cardinality(Listed(w'.list)), w'.quota),
             NEW n \in Names, w'.list[n] = 0
      PROVE  remote'[n].acct # w'.acct
  BY <1>2, <1>5, <1>6 DEF Listed, NamesOn
<1> QED
  BY <1>2, <1>4, <1>6 DEF IdsFollow, Listed

(* Reconciliation copies the list, whose ids are not ahead of yyds.         *)
LEMMA ReconcileFollows ==
  ASSUME Typed, Typed', IdsFollow, Reconcile
  PROVE  IdsFollow'
<1>1. ASSUME NEW n \in Names
      PROVE  rows'[n].id <= remote[n].id
  <2>1. rows'[n] = Reconciled(rows[n], n, w.list, w.acct)
    BY DEF Reconcile
  <2>2. /\ rows[n] \in Row /\ w.list[n] \in Nat /\ remote[n].id \in Nat
        /\ rows[n].id <= remote[n].id /\ w.list[n] <= remote[n].id
    BY IdNumbers DEF IdsFollow, Reconcile
  <2>3. Reconciled(rows[n], n, w.list, w.acct).id \in {rows[n].id, w.list[n], 0}
    BY <2>2 DEF Reconciled, Row
  <2> QED
    BY <2>1, <2>2, <2>3
<1>2. w'.pc = "poll"
  BY DEF Reconcile, LeavePoll, Resting
<1> QED
  BY <1>1, <1>2, CopyKeeps DEF Reconcile

(* A fill copies an id that is not ahead of yyds.                           *)
LEMMA LoadedFollows ==
  ASSUME Typed, Typed', IdsFollow, w.pc \in Filling, UNCHANGED remote, w'.pc = "dns",
         NEW id \in Nat, id <= remote[w.name].id,
         rows' = [rows EXCEPT ![w.name] =
                    Loaded([w.mem EXCEPT !.acct = w.acct, !.id = id])]
  PROVE  IdsFollow'
<1> DEFINE new == [w.mem EXCEPT !.acct = w.acct, !.id = id]
<1>1. new \in Row /\ new.id = id
  BY IdsRowType, EndedRowType DEF Row
<1>2. Loaded(new) = Flush(rows[w.name], w.mem, new)
  BY DEF Loaded
<1>3. rows' = [rows EXCEPT ![w.name] = Loaded(new)]
  OBVIOUS
<1> HIDE DEF new
<1>4. Loaded(new).id \in {rows[w.name].id, id}
  BY <1>1, <1>2, EndedRowType, FlushKeepsId
<1>5. \A n \in Names : rows'[n].id <= remote[n].id
  BY <1>3, <1>4 DEF IdsFollow, Typed, TypeOK
<1> QED
  BY <1>5, CopyKeeps

(* So do the steps of a fill that learn the id of their domain.             *)
LEMMA FillFollows ==
  ASSUME Typed, Typed', IdsFollow, [Next]_vars,
         SyncUsage \/ SyncPoorly \/ AddConflicts \/ CommitIds \/ AddDomain
  PROVE  IdsFollow'
<1>1. ASSUME NEW names, NEW quota, Sync(names, quota)
      PROVE  IdsFollow'
  <2>1. w.pc \in Filling /\ w.name \in Names /\ UNCHANGED remote
    BY <1>1 DEF Sync, Filling, Typed, Located
  <2>2. CASE Finish(GiveUp)
    BY <2>1, <2>2, EndedKeepsId, FinishQuiet, NextForward, QuietKeeps DEF Quiet
  <2>3. CASE /\ w' = [w EXCEPT !.pc = "add"]
             /\ UNCHANGED rows
    <3>1. w'.pc = "add"
      BY <2>3 DEF Typed, TypeOK, WorkerState
    <3> QED
      BY <2>1, <2>3, <3>1, CopyKeeps DEF IdsFollow
  <2>4. CASE \E mem : /\ w' = [w EXCEPT !.pc = "dns", !.mem = mem]
                      /\ rows' = [rows EXCEPT ![w.name] =
                                    Loaded([w.mem EXCEPT !.acct = w.acct,
                                                         !.id = IdsOf(names)[w.name]])]
    <3>1. w'.pc = "dns"
      BY <2>4 DEF Typed, TypeOK, WorkerState
    <3>2. IdsOf(names)[w.name] \in Nat /\ IdsOf(names)[w.name] <= remote[w.name].id
      BY <2>1, IdNumbers DEF IdsOf
    <3> QED
      BY <2>1, <2>4, <3>1, <3>2, LoadedFollows
  <2> QED
    BY <1>1, <2>2, <2>3, <2>4 DEF Sync
<1>2. CASE AddConflicts
  <2>1. w.pc \in Filling /\ w.name \in Names /\ UNCHANGED remote
    BY <1>2 DEF AddConflicts, Filling, Typed, Located
  <2>2. CASE Fails("error", "other")
    <3>1. "other" \in Reason
      BY DEF Reason
    <3> QED
      BY <2>1, <2>2, <3>1, FailsQuiet, NextForward, QuietKeeps DEF Quiet
  <2>3. CASE \E mem : /\ w' = [w EXCEPT !.pc = "dns", !.mem = mem]
                      /\ rows' = [rows EXCEPT ![w.name] =
                                    Loaded([w.mem EXCEPT !.acct = w.acct,
                                                         !.id = remote[w.name].id])]
    <3>1. w'.pc = "dns"
      BY <2>3 DEF Typed, TypeOK, WorkerState
    <3>2. remote[w.name].id \in Nat /\ remote[w.name].id <= remote[w.name].id
      BY <2>1, IdNumbers
    <3> QED
      BY <2>1, <2>3, <3>1, <3>2, LoadedFollows
  <2> QED
    BY <1>2, <2>2, <2>3 DEF AddConflicts
<1>3. CASE CommitIds
  <2>1. /\ w.pc \in Filling /\ w.name \in Names /\ UNCHANGED remote
        /\ w.list[w.name] <= remote[w.name].id
    BY <1>3 DEF CommitIds, Filling, Typed, Located, IdsFollow
  <2>2. w'.pc = "dns"
    BY <1>3 DEF CommitIds, Typed, TypeOK, WorkerState
  <2>3. rows' = [rows EXCEPT ![w.name] =
                   Loaded([w.mem EXCEPT !.acct = w.acct, !.id = w.list[w.name]])]
    BY <1>3 DEF CommitIds
  <2> QED
    BY <2>1, <2>2, <2>3, IdNumbers, LoadedFollows
<1>4. CASE AddDomain
  <2>1. w.name \in Names /\ UNCHANGED rows
    BY <1>4 DEF AddDomain, Filling, Typed, Located
  <2>2. /\ w'.pc = "ids" /\ w'.name = w.name
        /\ w'.list[w.name] = remote[w.name].id + 1
    BY <1>4, <2>1 DEF AddDomain, Typed, TypeOK, WorkerState
  <2>3. Forward /\ remote'[w.name].id = remote[w.name].id + 1
    BY <1>4, <2>1, BoundForward DEF AddDomain, Bind
  <2>4. ASSUME NEW n \in Names
        PROVE  /\ remote'[n].acct # None => remote'[n].id > 0
               /\ rows'[n].id <= remote'[n].id
    <3>1. /\ remote[n].id \in Nat /\ rows[n].id \in Nat
          /\ remote'[n].id \in Nat
      BY IdNumbers DEF Typed, TypeOK, Remote
    <3> QED
      BY <2>1, <2>3, <3>1 DEF Forward, IdsFollow
  <2>5. remote'[w.name].id \in Nat
    BY <2>1 DEF Typed, TypeOK, Remote
  <2> QED
    BY <2>2, <2>3, <2>4, <2>5 DEF IdsFollow
<1> QED
  BY <1>1, <1>2, <1>3, <1>4 DEF SyncUsage, SyncPoorly

LEMMA InitFollows == Init => IdsFollow
<1> SUFFICES ASSUME NEW bound \in [Names -> Accounts \cup {None}],
                    NEW owned \in SUBSET Names, NEW served \in SUBSET Names,
                    InitFrom(bound, owned, served)
             PROVE  IdsFollow
  BY DEF Init
<1>1. w.pc = "idle"
  BY RestingType DEF InitFrom
<1>2. ASSUME NEW n \in Names
      PROVE  /\ remote[n].acct # None => remote[n].id > 0
             /\ rows[n].id <= remote[n].id
  <2>1. /\ remote[n].acct = bound[n]
        /\ remote[n].id = IF bound[n] = None THEN 0 ELSE 1
        /\ rows[n] \in {FirstRow(bound[n]), NoRow}
    BY DEF InitFrom
  <2>2. NoRow.id = 0 /\ FirstRow(bound[n]).id = IF bound[n] = None THEN 0 ELSE 1
    BY DEF NoRow, FirstRow
  <2> QED
    BY <2>1, <2>2
<1> QED
  BY <1>1, <1>2 DEF IdsFollow

LEMMA NextFollows == Typed /\ IdsFollow /\ [Next]_vars => IdsFollow'
<1> SUFFICES ASSUME Typed, IdsFollow, [Next]_vars PROVE IdsFollow'
  OBVIOUS
<1>1. Typed'
  BY NextType
<1>2. CASE KeepsIds /\ KeepsLists
  BY <1>1, <1>2, NextForward, QuietKeeps DEF Quiet
<1>3. CASE PollYydsStep \/ PollYydsFault
  BY <1>1, <1>2, <1>3, PollQuiet, FetchFollows, ReconcileFollows
     DEF PollYydsStep, PollYydsFault
<1>4. CASE FillStep \/ FillFault \/ AddUnanswered
  BY <1>1, <1>2, <1>4, FillQuiet, FillFollows DEF FillStep, FillFault
<1>5. CASE \/ StartCycle \/ EndPolls \/ AbortCycle
           \/ PollAliyunStep \/ PollAliyunFault \/ ListPartly
  BY <1>2, <1>5, PollQuiet
<1>6. CASE \/ \E d \in Deleters : DeleteYydsStep(d) \/ DeleteYydsFault(d)
           \/ Request \/ Update \/ RemoveAccount
           \/ Website \/ Registrar \/ ThrottleEnds \/ Crash
  BY <1>2, <1>6, RestQuiet
<1>7. CASE UNCHANGED vars
  BY <1>2, <1>7 DEF vars, KeepsIds, KeepsLists
<1> QED
  BY <1>3, <1>4, <1>5, <1>6, <1>7 DEF Next, WorkerStep, Fault

(* The poll unbinds a domain only when yyds no longer has it under the id   *)
(* of its row, whatever names the list it was given misses and whatever     *)
(* people do on yyds meanwhile (poll_yyds.py, snapshot_is_unreliable).      *)
THEOREM NoFalseUnbinding == Spec => NoFalseRemoval
<1>1. ASSUME Typed, IdsFollow, Reconcile, NEW n \in Names,
             rows[n].present, rows[n].acct # None, rows'[n].acct = None
      PROVE  ~(remote[n].acct = rows[n].acct /\ remote[n].id = rows[n].id)
  <2>1. /\ w.pc = "pollCommit" /\ w.acct \in Accounts /\ w.acct # None
        /\ ~Unreliable(w.list, w.quota, w.acct)
        /\ rows'[n] = Reconciled(rows[n], n, w.list, w.acct)
    BY <1>1, OwnersAssumption DEF Reconcile, Typed, Located
  <2>2. rows[n] \in Row
    BY <1>1 DEF Typed, TypeOK
  <2>3. n \in snaps[w.acct] /\ w.list[n] = 0 /\ rows[n].acct = w.acct
    BY <1>1, <2>1, <2>2 DEF Reconciled, Lost, RemovedBy, Row
  <2>4. ~QuotaUnknown(w.quota)
    BY <2>1, <2>3 DEF Unreliable, SnapshotUnreliable
  <2>5. /\ w.quota # None
        /\ ~ListShorterThanQuota(Cardinality(Listed(w.list)), w.quota)
    BY <2>1, <2>4 DEF QuotaUnknown, Unreliable, SnapshotUnreliable
  <2> QED
    BY <1>1, <2>1, <2>3, <2>5 DEF IdsFollow
<1>2. Spec => [](Typed /\ IdsFollow)
  BY InitType, InitFollows, NextType, NextFollows, PTL DEF Spec
<1>3. Typed /\ IdsFollow
        => [Reconcile => \A n \in Names :
              rows[n].present /\ rows[n].acct # None /\ rows'[n].acct = None
                => ~(remote[n].acct = rows[n].acct /\ remote[n].id = rows[n].id)]_vars
  BY <1>1
<1> QED
  BY <1>2, <1>3, PTL DEF NoFalseRemoval
=============================================================================
