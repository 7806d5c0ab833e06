----------------------------- MODULE StockProofs -----------------------------
(***************************************************************************)
(* Where a domain may go, for any names, accounts and requests: what a     *)
(* delete request reports as deleted is gone at yyds; the fill adds        *)
(* nothing twice and nothing that is not stock; what is used does not go   *)
(* back to stock by itself; and no fill writes records of a domain of the  *)
(* first synchronisation.                                                  *)
(***************************************************************************)
EXTENDS IdProofs

USE DEF db, locks, world

-----------------------------------------------------------------------------
(* A delete request begins, waits, or makes one of the steps between its    *)
(* check under the fill lock and its commit.                                *)
LEMMA DeleterMoves ==
  ASSUME Typed, [Next]_vars, NEW d \in Deleters
  PROVE  \/ del'[d] = del[d]
         \/ del'[d].pc \in {"idle", "fillLock"}
         \/ LockFill(d) \/ LockSession(d) \/ DeleteRemote(d)
         \/ CleanDns(d) \/ CleanDnsRefused(d) \/ CleanDnsFails(d)
<1>1. del \in [Deleters -> DeleterState] /\ NoRequest.pc = "idle"
  BY NoRequestType DEF Typed, TypeOK
<1>2. CASE UNCHANGED del
  BY <1>2
<1>3. ASSUME NEW e \in Deleters, DeleteYydsStep(e) \/ DeleteYydsFault(e)
      PROVE  \/ del'[d] = del[d]
             \/ del'[d].pc \in {"idle", "fillLock"}
             \/ LockFill(d) \/ LockSession(d) \/ DeleteRemote(d)
             \/ CleanDns(d) \/ CleanDnsRefused(d) \/ CleanDnsFails(d)
  <2>1. CASE e = d
    BY <1>1, <1>3, <2>1 DEF DeleteYydsStep, DeleteYydsFault, Refused, CommitDelete,
       CommitDeleteFails, DeleteRemoteFails, Leave
  <2>2. CASE e # d
    BY <1>1, <1>3, <2>2 DEF DeleteYydsStep, DeleteYydsFault, LockFill, Refused,
       LockSession, DeleteRemote, CleanDns, CleanDnsRefused, CommitDelete,
       CommitDeleteFails, DeleteRemoteFails, CleanDnsFails, Leave
  <2> QED
    BY <2>1, <2>2
<1>4. ASSUME NEW e \in Deleters, NEW n \in Names, RequestDelete(e, n)
      PROVE  del'[d] = del[d] \/ del'[d].pc = "fillLock"
  BY <1>1, <1>4 DEF RequestDelete, NoRequest
<1>5. CASE Crash
  BY <1>1, <1>5 DEF Crash
<1>6. CASE \/ StartCycle \/ EndPolls \/ AbortCycle \/ PollYydsStep \/ PollYydsFault
           \/ PollAliyunStep \/ PollAliyunFault \/ ListPartly
  BY <1>2, <1>6 DEF StartCycle, EndPolls, AbortCycle, PollYydsStep, PollYydsFault,
     SkipThrottled, BeginPoll, ReadList, ReadPoorly, Fetch, RefuseList, Reconcile,
     PollFails, PollAliyunStep, PollAliyunFault, SkipAliyun, ListAliyun, EmptyList,
     Describe, CommitAliyun, AliyunListFails, DescribeFails, DescribeThrottled,
     ListPartly, List
<1>7. CASE FillStep \/ FillFault \/ AddUnanswered
  BY <1>2, <1>7 DEF FillStep, FillFault, AddUnanswered, AddDomain, StartRepair, StartFill,
     FindOccupied,
     NothingToFill, RegistrarReady, RegistrarRefuses, RegistrarUnknown, RegistrarFails,
     EnterSession, SyncUsage, SyncPoorly, Sync, SyncFails, AddConflicts, AddFails,
     CommitIds, WriteDns, WriteDnsFails, GuideFails, DomainGone, Verified, VerifyFails
<1>8. CASE Update \/ RemoveAccount \/ Registrar \/ ThrottleEnds \/ Website
  BY <1>2, <1>8 DEF Update, UpdateDomain, RemoveAccount,
     DeleteAccount, Registrar, RegistrarChanges, ThrottleEnds, AliyunThrottleEnds,
     YydsThrottleEnds, Website, PersonDeletes, PersonAdds
<1>9. CASE UNCHANGED vars
  BY <1>2, <1>9 DEF vars
<1> QED
  BY <1>3, <1>4, <1>5, <1>6, <1>7, <1>8, <1>9 DEF Next, WorkerStep, Fault, Request

-----------------------------------------------------------------------------
(* A domain has not moved to another account while a request to delete it   *)
(* waited for the fill lock.                                                *)
NotMoved ==
  \A d \in Deleters : LockFill(d) =>
    \/ del[d].acct = None \/ rows[del[d].name].acct = None
    \/ rows[del[d].name].acct = del[d].acct

(* A request that has more to do than clean records works on a bound row,   *)
(* with that row's account; its id is not ahead of yyds, and from its call  *)
(* of yyds on no domain is there under that id.                             *)
DeletesOwn ==
  \A d \in Deleters : del[d].pc \in Deleting /\ ~del[d].retry =>
    LET mem == del[d].mem  there == remote[del[d].name] IN
    /\ Bound(mem)
    /\ del[d].acct = mem.acct
    /\ mem.id <= there.id
    /\ del[d].pc \in {"cleanup", "commit"} =>
         ~(there.acct = mem.acct /\ there.id = mem.id)

(* No step lets a delete request lose hold of what it deletes.              *)
LEMMA NextDeletesOwn ==
  ASSUME Typed, IdsFollow, DeletesOwn, [Next]_vars, NotMoved
  PROVE  DeletesOwn'
<1> SUFFICES ASSUME NEW d \in Deleters, del'[d].pc \in Deleting, ~del'[d].retry
             PROVE  /\ Bound(del'[d].mem)
                    /\ del'[d].acct = del'[d].mem.acct
                    /\ del'[d].mem.id <= remote'[del'[d].name].id
                    /\ del'[d].pc \in {"cleanup", "commit"} =>
                         ~(/\ remote'[del'[d].name].acct = del'[d].mem.acct
                           /\ remote'[del'[d].name].id = del'[d].mem.id)
  BY DEF DeletesOwn, Bound
<1> USE DEF Deleting
<1>1. /\ del \in [Deleters -> DeleterState] /\ del[d] \in DeleterState
      /\ Forward
  BY NextForward DEF Typed, TypeOK
<1>2. del[d].pc # "idle" => /\ del[d].name \in Names
                            /\ remote[del[d].name].id \in Nat
                            /\ remote'[del[d].name].id \in Nat
                            /\ rows[del[d].name] \in Row
                            /\ del[d].mem.id \in Nat
  <2>1. Typed'
    BY NextType
  <2> QED
    BY <1>1, <2>1 DEF Typed, TypeOK, Located, Remote, DeleterState, Row
<1>3. CASE LockFill(d)
  <2> DEFINE row == rows[del[d].name]
  <2>1. /\ del'[d].mem = row /\ del'[d].name = del[d].name
        /\ del'[d].acct = IF del[d].acct = None THEN row.acct ELSE del[d].acct
        /\ del'[d].retry = CleanupOnly(row)
        /\ del'[d].pc = IF del'[d].acct # None THEN "sessLock" ELSE "cleanup"
        /\ Deletable(row) /\ UNCHANGED remote
        /\ del[d].pc # "idle"
    BY <1>1, <1>3 DEF LockFill, DeleterState
  <2>2. Bound(row)
    BY <2>1 DEF Deletable
  <2>3. del'[d].acct = row.acct /\ row.acct # None
    BY <1>3, <2>1, <2>2 DEF NotMoved, Bound
  <2>4. row.id <= remote[del[d].name].id
    BY <1>2, <2>1 DEF IdsFollow
  <2> QED
    BY <2>1, <2>2, <2>3, <2>4
<1>4. ASSUME del'[d].name = del[d].name, del'[d].mem = del[d].mem,
             del'[d].acct = del[d].acct, del'[d].retry = del[d].retry,
             del[d].pc \in Deleting,
             \/ del'[d].pc \notin {"cleanup", "commit"}
             \/ del[d].pc \in {"cleanup", "commit"}
      PROVE  /\ Bound(del'[d].mem)
             /\ del'[d].acct = del'[d].mem.acct
             /\ del'[d].mem.id <= remote'[del'[d].name].id
             /\ del'[d].pc \in {"cleanup", "commit"} =>
                  ~(/\ remote'[del'[d].name].acct = del'[d].mem.acct
                    /\ remote'[del'[d].name].id = del'[d].mem.id)
  <2>1. /\ Bound(del[d].mem) /\ del[d].acct = del[d].mem.acct
        /\ del[d].mem.id <= remote[del[d].name].id
        /\ del[d].pc \in {"cleanup", "commit"} =>
             ~(/\ remote[del[d].name].acct = del[d].mem.acct
               /\ remote[del[d].name].id = del[d].mem.id)
    BY <1>4 DEF DeletesOwn
  <2>2. \/ /\ remote'[del[d].name].acct = remote[del[d].name].acct
           /\ remote'[del[d].name].id = remote[del[d].name].id
        \/ /\ remote'[del[d].name].acct = None
           /\ remote'[del[d].name].id = remote[del[d].name].id
        \/ remote'[del[d].name].id > remote[del[d].name].id
    BY <1>1, <1>2, <1>4 DEF Forward
  <2> QED
    BY <1>2, <1>4, <2>1, <2>2 DEF Bound
<1>5. CASE LockSession(d)
  BY <1>1, <1>4, <1>5 DEF LockSession, DeleterState
<1>6. CASE CleanDns(d) \/ CleanDnsRefused(d) \/ CleanDnsFails(d)
  BY <1>1, <1>4, <1>6 DEF CleanDns, CleanDnsRefused, CleanDnsFails, DeleterState
<1>7. CASE DeleteRemote(d)
  <2>1. /\ del'[d].name = del[d].name /\ del'[d].mem = del[d].mem
        /\ del'[d].acct = del[d].acct /\ del'[d].retry = del[d].retry
        /\ del[d].pc = "remote"
    BY <1>1, <1>7 DEF DeleteRemote, DeleterState
  <2>2. Bound(del[d].mem) /\ del[d].acct = del[d].mem.acct
        /\ del[d].mem.id <= remote[del[d].name].id
    BY <2>1 DEF DeletesOwn
  <2>3. CASE KnownToYyds(d)
    <3>1. remote'[del[d].name].acct = None
          /\ remote'[del[d].name].id = remote[del[d].name].id
      BY <1>2, <1>7, <2>1, <2>3 DEF DeleteRemote, Unbind, Typed, TypeOK, Remote
    <3> QED
      BY <2>1, <2>2, <3>1 DEF Bound
  <2>4. CASE ~KnownToYyds(d)
    <3>1. UNCHANGED remote
      BY <1>7, <2>4 DEF DeleteRemote
    <3> QED
      BY <2>1, <2>2, <2>4, <3>1 DEF KnownToYyds
  <2> QED
    BY <2>3, <2>4
<1>8. CASE del'[d] = del[d]
  BY <1>4, <1>8
<1> QED
  BY <1>3, <1>5, <1>6, <1>7, <1>8, DeleterMoves

(* What a delete request unbinds is gone at yyds under the account and id   *)
(* of its row, whatever failed or happened meanwhile, unless the domain     *)
(* moved to another account while the request waited for the fill lock      *)
(* (delete_yyds.py loads its account before that lock).                     *)
THEOREM DeletionsAreReal == Spec /\ [][NotMoved]_vars => DeletedIsGone
<1>1. Init => DeletesOwn
  BY NoRequestType DEF Init, InitFrom, DeletesOwn, Deleting
<1>2. UNCHANGED vars /\ DeletesOwn => DeletesOwn'
  BY DEF vars, DeletesOwn, Bound
<1>3. Typed /\ IdsFollow /\ DeletesOwn /\ [Next]_vars /\ [NotMoved]_vars => DeletesOwn'
  BY <1>2, NextDeletesOwn
<1>4. Typed /\ DeletesOwn
        => [\A d \in Deleters : CommitDelete(d) /\ ~del[d].retry
              => ~(/\ remote[del[d].name].acct = del[d].mem.acct
                   /\ remote[del[d].name].id = del[d].mem.id)]_vars
  BY DEF CommitDelete, DeletesOwn, Deleting
<1> QED
  BY <1>1, <1>3, <1>4, InitType, InitFollows, NextType, NextFollows, PTL
     DEF Spec, DeletedIsGone

(* With one account a domain has nowhere to move: what is deleted is gone.  *)
THEOREM OneAccountDeletes ==
  ASSUME NEW a, Accounts = {a}
  PROVE  Spec => DeletedIsGone
<1>1. Typed => [NotMoved]_vars
  <2> SUFFICES ASSUME Typed, NEW d \in Deleters, LockFill(d)
               PROVE  \/ del[d].acct = None \/ rows[del[d].name].acct = None
                      \/ rows[del[d].name].acct = del[d].acct
    BY DEF NotMoved
  <2>1. del[d].acct \in Accounts \cup {None} /\ rows[del[d].name].acct \in Accounts \cup {None}
    BY DEF LockFill, Typed, TypeOK, Located, DeleterState, Row
  <2> QED
    BY <2>1
<1> QED
  BY <1>1, InitType, NextType, DeletionsAreReal, PTL DEF Spec
-----------------------------------------------------------------------------
(* The worker's place: it leaves fill and Aliyun poll, stays where it is,   *)
(* or makes one of the steps that begin them or lead on; in the poll it     *)
(* asks about one name after the other.                                     *)
FillMove ==
  \/ \E n \in Names : StartRepair(n) \/ \E a \in Accounts : StartFill(n, a)
  \/ RegistrarReady \/ EnterSession \/ SyncUsage \/ SyncPoorly
  \/ AddDomain \/ AddConflicts \/ CommitIds \/ WriteDns

Asking == \E n \in Names : Describe(n) \/ DescribeFails(n)

Elsewhere == w'.pc \notin Filling \cup {"describe"}

(* The end of a fill leaves it.                                             *)
LEMMA FinishElsewhere ==
  ASSUME Typed, NEW row, Finish(row)
  PROVE  Elsewhere
BY AfterFillType DEF Finish, Elsewhere, Filling, Typed

(* So does a fill that fails.                                               *)
LEMMA FailsElsewhere ==
  ASSUME Typed,
         \/ YydsFails \/ CountedYydsFails \/ AliyunThrottles
         \/ \E kind, reason : Fails(kind, reason) \/ CountedFails(kind, reason)
  PROVE  Elsewhere
BY FinishElsewhere DEF YydsFails, YydsThrottles, AliyunThrottles, Fails, CountedYydsFails,
   CountedFails

(* The steps of the polls, a new cycle and a restart lead elsewhere, too.   *)
LEMMA PollsElsewhere ==
  ASSUME Typed,
         \/ StartCycle \/ EndPolls \/ AbortCycle \/ Crash
         \/ PollYydsStep \/ PollYydsFault
         \/ SkipAliyun \/ EmptyList \/ CommitAliyun
         \/ AliyunListFails \/ DescribeThrottled
  PROVE  Elsewhere
<1>1. w \in WorkerState
  BY DEF Typed, TypeOK
<1>2. CASE StartCycle \/ EndPolls \/ AbortCycle \/ Crash
  <2>1. w'.pc \in {"poll", "aliyun", "idle"}
    BY <1>2, RestingType DEF StartCycle, EndPolls, AbortCycle, Crash, WorkerState
  <2> QED
    BY <2>1 DEF Elsewhere, Filling
<1>3. CASE PollYydsStep \/ PollYydsFault
  <2>1. CASE RefuseList \/ Reconcile \/ \E kind : PollFails(kind)
    <3>1. LeavePoll
      BY <2>1 DEF RefuseList, Reconcile, PollFails
    <3> QED
      BY <3>1, LeavePollType DEF Elsewhere, Filling
  <2>2. CASE \E a \in Accounts : SkipThrottled(a)
    BY <1>1, <2>2 DEF SkipThrottled, WorkerState, Elsewhere, Filling
  <2>3. CASE \E a \in Accounts : BeginPoll(a)
    BY <1>1, <2>3 DEF BeginPoll, WorkerState, Elsewhere, Filling
  <2>4. CASE ReadList \/ ReadPoorly
    BY <1>1, <2>4 DEF ReadList, ReadPoorly, Fetch, WorkerState, Elsewhere, Filling
  <2> QED
    BY <1>3, <2>1, <2>2, <2>3, <2>4 DEF PollYydsStep, PollYydsFault
<1>4. CASE SkipAliyun \/ EmptyList \/ CommitAliyun \/ AliyunListFails \/ DescribeThrottled
  BY <1>4, GoFillType DEF SkipAliyun, EmptyList, CommitAliyun, AliyunListFails,
     DescribeThrottled, Elsewhere, Filling
<1> QED
  BY <1>2, <1>3, <1>4

(* Every step of the worker is one of these;                                *)
LEMMA WorkerTurns ==
  ASSUME Typed, \/ WorkerStep \/ PollYydsFault \/ PollAliyunFault \/ FillFault
                \/ AddUnanswered \/ Crash
  PROVE  Elsewhere \/ FillMove \/ ListAliyun \/ Asking
<1>1. CASE \/ StartCycle \/ EndPolls \/ AbortCycle \/ Crash
           \/ PollYydsStep \/ PollYydsFault \/ PollAliyunStep \/ PollAliyunFault
  BY <1>1, PollsElsewhere DEF PollAliyunStep, PollAliyunFault, Asking
<1>2. CASE FillFault
  BY <1>2, FinishElsewhere, FailsElsewhere DEF FillFault, RegistrarFails, FillMove,
     SyncFails, AddFails, GuideFails, WriteDnsFails, VerifyFails
<1>3. CASE FillStep
  <2>1. CASE \E n \in Names, a \in Accounts : FindOccupied(n, a)
    BY <2>1, AfterFillType DEF FindOccupied, Elsewhere, Filling, Typed
  <2>2. CASE NothingToFill
    BY <2>2, AfterFillType DEF NothingToFill, Elsewhere, Filling, Typed
  <2>3. CASE RegistrarRefuses \/ RegistrarUnknown \/ Verified \/ DomainGone
    BY <2>3, FinishElsewhere, FailsElsewhere DEF RegistrarRefuses, RegistrarUnknown,
       Verified, DomainGone
  <2> QED
    BY <1>3, <2>1, <2>2, <2>3 DEF FillStep, FillMove
<1>4. CASE AddUnanswered
  BY <1>4, FailsElsewhere DEF AddUnanswered
<1> QED
  BY <1>1, <1>2, <1>3, <1>4 DEF WorkerStep

(* no other moves it.                                                       *)
LEMMA WorkerMoves ==
  ASSUME Typed, [Next]_vars
  PROVE  w' = w \/ Elsewhere \/ FillMove \/ ListAliyun \/ ListPartly \/ Asking
<1>1. CASE \/ \E d \in Deleters : DeleteYydsStep(d) \/ DeleteYydsFault(d)
           \/ Request \/ Update \/ RemoveAccount \/ Website \/ Registrar \/ ThrottleEnds
  BY <1>1 DEF DeleteYydsStep, DeleteYydsFault, LockFill, Refused, LockSession,
     DeleteRemote, CleanDns, CleanDnsRefused, CommitDelete, CommitDeleteFails,
     DeleteRemoteFails, CleanDnsFails, Request, RequestDelete, Update, UpdateDomain,
     RemoveAccount, DeleteAccount, Website, PersonDeletes, PersonAdds, Registrar,
     RegistrarChanges, ThrottleEnds, AliyunThrottleEnds, YydsThrottleEnds
<1>2. CASE UNCHANGED vars
  BY <1>2 DEF vars
<1> QED
  BY <1>1, <1>2, WorkerTurns DEF Next, Fault

(* Only a reconciliation puts names into a snapshot.                        *)
LEMMA SnapshotsShrink ==
  ASSUME Typed, [Next]_vars
  PROVE  Reconcile \/ \A n \in Names : InSnapshot(n)' => InSnapshot(n)
<1>1. CASE UNCHANGED snaps
  BY <1>1 DEF InSnapshot
<1>2. ASSUME NEW d \in Deleters, CommitDelete(d)
      PROVE  \A n \in Names : InSnapshot(n)' => InSnapshot(n)
  BY <1>2 DEF CommitDelete, InSnapshot, Typed, TypeOK
<1>3. ASSUME NEW a \in Accounts, DeleteAccount(a)
      PROVE  \A n \in Names : InSnapshot(n)' => InSnapshot(n)
  BY <1>3 DEF DeleteAccount, InSnapshot, Typed, TypeOK
<1>4. CASE \/ StartCycle \/ EndPolls \/ AbortCycle \/ PollYydsStep \/ PollYydsFault
           \/ PollAliyunStep \/ PollAliyunFault \/ ListPartly
  BY <1>1, <1>4 DEF StartCycle, EndPolls, AbortCycle, PollYydsStep, PollYydsFault,
     SkipThrottled, BeginPoll, ReadList, ReadPoorly, Fetch, RefuseList,
     PollFails, PollAliyunStep, PollAliyunFault, SkipAliyun, ListAliyun, EmptyList,
     Describe, CommitAliyun, AliyunListFails, DescribeFails, DescribeThrottled,
     ListPartly, List
<1>5. CASE FillStep \/ FillFault \/ AddUnanswered
  BY <1>1, <1>5 DEF FillStep, FillFault, AddUnanswered, AddDomain, StartRepair, StartFill,
     FindOccupied, NothingToFill, RegistrarReady, RegistrarRefuses, RegistrarUnknown,
     RegistrarFails, EnterSession, SyncUsage, SyncPoorly, Sync, SyncFails, AddConflicts,
     AddFails, CommitIds, WriteDns, WriteDnsFails, GuideFails, DomainGone, Verified,
     VerifyFails
<1>6. CASE \/ \E d \in Deleters : DeleteYydsStep(d) \/ DeleteYydsFault(d)
           \/ Request \/ Update \/ RemoveAccount \/ Website \/ Registrar
           \/ ThrottleEnds \/ Crash
  BY <1>1, <1>2, <1>3, <1>6 DEF DeleteYydsStep, DeleteYydsFault, LockFill, Refused,
     LockSession, DeleteRemote, CleanDns, CleanDnsRefused, CommitDeleteFails,
     DeleteRemoteFails, CleanDnsFails, Request, RequestDelete, Update, UpdateDomain,
     RemoveAccount, Website, PersonDeletes, PersonAdds, Registrar, RegistrarChanges,
     ThrottleEnds, AliyunThrottleEnds, YydsThrottleEnds, Crash
<1>7. CASE UNCHANGED vars
  BY <1>1, <1>7 DEF vars
<1> QED
  BY <1>4, <1>5, <1>6, <1>7 DEF Next, WorkerStep, Fault

(* What a fill knows of its domain.  Before it is bound a new fill has a    *)
(* copy of an unbound row from stock, and no snapshot holds its name; a     *)
(* repair has a copy of a row in error with an id.                          *)
BeforeIds == {"registrar", "bind", "sync", "add", "ids"}

FillShape ==
  /\ w.pc \in {"sync", "add", "ids"} => w.newly
  /\ w.pc \in Filling /\ w.newly => ~InSnapshot(w.name)
  /\ w.pc \in BeforeIds /\ w.newly
       => w.mem.acct = None /\ w.mem.id = 0 /\ w.mem.status = "unused"
  /\ w.pc \in Filling /\ ~w.newly => w.mem.id # 0 /\ w.mem.status = "error"
  /\ w.pc = "ids" => w.list[w.name] # 0

(* It is inductive.                                                         *)
LEMMA NextFillShape ==
  ASSUME Typed, FillShape, [Next]_vars
  PROVE  FillShape'
<1> USE DEF Filling, BeforeIds
<1>1. w \in WorkerState /\ w.mem \in Row
  BY DEF Typed, TypeOK, WorkerState
<1>2. CASE Elsewhere
  BY <1>2 DEF Elsewhere, FillShape
<1>3. CASE ListAliyun \/ ListPartly
  BY <1>1, <1>3 DEF ListAliyun, ListPartly, List, WorkerState, FillShape
<1>13. CASE Asking
  BY <1>1, <1>13 DEF Asking, Describe, DescribeFails, WorkerState, FillShape
<1>4. Reconcile => Elsewhere
  BY DEF Reconcile, LeavePoll, Resting, Elsewhere
<1>5. CASE w' = w /\ ~Reconcile
  <2>1. w.pc \in Filling => w.name \in Names
    BY DEF Typed, Located
  <2>2. \A n \in Names : (\E a \in Accounts : n \in snaps'[a]) => InSnapshot(n)
    BY <1>5, SnapshotsShrink DEF InSnapshot
  <2>3. w.pc \in Filling /\ w.newly => ~\E a \in Accounts : w.name \in snaps'[a]
    BY <2>1, <2>2 DEF FillShape
  <2> QED
    BY <1>5, <2>3 DEF FillShape, InSnapshot
<1>6. ASSUME NEW n \in Names, StartRepair(n)
      PROVE  FillShape'
  <2>1. Cleared[n] \in Row /\ n \in Repairable
    BY <1>6, ClearedType DEF StartRepair
  <2>2. /\ w'.pc = "registrar" /\ w'.newly = FALSE
        /\ w'.mem = [Cleared[n] EXCEPT !.filling = TRUE]
    BY <1>6, ClearedType DEF StartRepair, Resting
  <2>3. w'.mem.id # 0 /\ w'.mem.status = "error"
    BY <2>1, <2>2 DEF Row, Repairable, Bound
  <2> QED
    BY <2>2, <2>3 DEF FillShape
<1>7. ASSUME NEW n \in Names, NEW a \in Accounts, StartFill(n, a)
      PROVE  FillShape'
  <2>1. Stock[n] \in Row /\ Fillable(Stock[n])
    BY <1>7, ClearedType DEF StartFill
  <2>2. /\ w'.pc = "registrar" /\ w'.newly = TRUE /\ w'.name = n
        /\ w'.mem = [Stock[n] EXCEPT !.filling = TRUE]
    BY <1>7, ClearedType DEF StartFill, Resting
  <2>3. w'.mem.id = 0 /\ w'.mem.status = "unused" /\ w'.mem.acct = None
    BY <2>1, <2>2 DEF Row, Fillable
  <2>4. ~InSnapshot(n) /\ UNCHANGED snaps
    BY <1>7 DEF StartFill
  <2> QED
    BY <2>2, <2>3, <2>4 DEF FillShape, InSnapshot
<1>8. ASSUME w'.newly = w.newly, w'.name = w.name, UNCHANGED snaps,
             w.pc \in Filling, w'.pc # "ids",
             w'.pc \in BeforeIds => w.pc \in BeforeIds,
             w'.pc \in {"sync", "add"} => w.newly,
             \/ w'.mem = w.mem
             \/ w'.mem = [w.mem EXCEPT !.hold = FALSE]
             \/ w.newly /\ w'.pc = "dns"
      PROVE  FillShape'
  BY <1>1, <1>8 DEF FillShape, InSnapshot, Row
<1>9. CASE RegistrarReady \/ EnterSession \/ WriteDns
  <2>1. \/ w' = [w EXCEPT !.pc = "bind"] /\ w.pc = "registrar"
        \/ w' = [w EXCEPT !.pc = IF w.newly THEN "sync" ELSE "dns"] /\ w.pc = "bind"
        \/ w' = [w EXCEPT !.pc = "verify", !.mem.hold = FALSE] /\ w.pc = "dns"
    BY <1>9 DEF RegistrarReady, EnterSession, WriteDns
  <2>2. UNCHANGED snaps
    BY <1>9 DEF RegistrarReady, EnterSession, WriteDns
  <2> QED
    BY <1>1, <1>8, <2>1, <2>2 DEF WorkerState
<1>10. CASE SyncUsage \/ SyncPoorly
  <2>1. PICK names, quota : Sync(names, quota)
    BY <1>10 DEF SyncUsage, SyncPoorly
  <2>2. w.pc = "sync" /\ w.newly /\ UNCHANGED snaps
    BY <2>1 DEF Sync, FillShape
  <2>3. \/ Finish(GiveUp)
        \/ w' = [w EXCEPT !.pc = "add"]
        \/ \E mem : w' = [w EXCEPT !.pc = "dns", !.mem = mem]
    BY <2>1 DEF Sync
  <2> QED
    BY <1>1, <1>2, <1>8, <2>2, <2>3, FinishElsewhere DEF WorkerState
<1>11. CASE AddConflicts \/ CommitIds
  <2>1. w.pc \in {"add", "ids"} /\ w.newly /\ UNCHANGED snaps
    BY <1>11 DEF AddConflicts, CommitIds, FillShape
  <2>2. \/ Fails("error", "other")
        \/ \E mem : w' = [w EXCEPT !.pc = "dns", !.mem = mem]
        \/ \E mem, list : w' = [w EXCEPT !.pc = "dns", !.mem = mem, !.list = list]
    BY <1>11 DEF AddConflicts, CommitIds
  <2>3. CASE Fails("error", "other")
    BY <1>2, <2>3, FailsElsewhere
  <2>4. ASSUME NEW mem, w' = [w EXCEPT !.pc = "dns", !.mem = mem]
        PROVE  FillShape'
    BY <1>1, <1>8, <2>1, <2>4 DEF WorkerState
  <2>5. ASSUME NEW mem, NEW list, w' = [w EXCEPT !.pc = "dns", !.mem = mem, !.list = list]
        PROVE  FillShape'
    BY <1>1, <1>8, <2>1, <2>5 DEF WorkerState
  <2> QED
    BY <2>2, <2>3, <2>4, <2>5
<1>12. CASE AddDomain
  <2>1. w.pc = "add" /\ w.name \in Names /\ UNCHANGED snaps
    BY <1>12 DEF AddDomain, Typed, Located
  <2>2. /\ w'.pc = "ids" /\ w'.newly = w.newly /\ w'.name = w.name /\ w'.mem = w.mem
        /\ w'.list[w.name] = remote[w.name].id + 1
    BY <1>1, <1>12, <2>1 DEF AddDomain, WorkerState
  <2>3. remote[w.name].id \in Nat
    BY <2>1, IdNumbers
  <2> QED
    BY <2>1, <2>2, <2>3 DEF FillShape, InSnapshot
<1> QED
  BY <1>2, <1>3, <1>4, <1>5, <1>6, <1>7, <1>9, <1>10, <1>11, <1>12, <1>13,
     WorkerMoves DEF FillMove

(* A fill keeps its shape in every behaviour, not only in calm ones.        *)
LEMMA FillShapeInvariant == Spec => [](Typed /\ FillShape)
<1>1. Init => FillShape
  BY RestingType DEF Init, InitFrom, FillShape, Filling, BeforeIds
<1>2. Typed /\ FillShape /\ [Next]_vars => FillShape'
  BY NextFillShape
<1> QED
  BY <1>1, <1>2, InitType, NextType, PTL DEF Spec

(* What is added is the domain of a new fill.                               *)
LEMMA AddedByFill ==
  ASSUME Typed, [Next]_vars, NEW n \in Names, Added(n)
  PROVE  w.pc = "add" /\ n = w.name
<1>1. remote \in [Names -> Remote]
  BY DEF Typed, TypeOK
<1>2. ~UNCHANGED remote
  BY DEF Added
<1>3. ASSUME NEW m \in Names, PersonDeletes(m) \/ \E a \in Accounts : PersonAdds(m, a)
      PROVE  FALSE
  BY <1>1, <1>3 DEF PersonAdds, PersonDeletes, Added, Remote
<1>4. CASE AddDomain \/ AddUnanswered
  <2>1. Bind(w.name, w.acct) /\ w.name \in Names /\ w.pc = "add"
    BY <1>4 DEF AddDomain, AddUnanswered, Typed, Located, Filling
  <2> QED
    BY <1>1, <2>1 DEF Bind, Added, Remote
<1>5. ASSUME NEW d \in Deleters, DeleteRemote(d) \/ DeleteRemoteFails(d)
      PROVE  FALSE
  <2>1. Unbind(del[d].name)
    BY <1>2, <1>5 DEF DeleteRemote, DeleteRemoteFails
  <2> QED
    BY <1>1, <2>1 DEF Unbind, Added, Remote
<1>6. ASSUME NEW d \in Deleters, DeleteYydsStep(d) \/ DeleteYydsFault(d)
      PROVE  FALSE
  BY <1>2, <1>5, <1>6 DEF DeleteYydsStep, DeleteYydsFault, LockFill, Refused, LockSession,
     CleanDns, CleanDnsRefused, CommitDelete, CommitDeleteFails, CleanDnsFails
<1>7. CASE FillStep \/ FillFault
  BY <1>2, <1>4, <1>7 DEF FillStep, FillFault, StartRepair, StartFill, FindOccupied,
     NothingToFill, RegistrarReady, RegistrarRefuses, RegistrarUnknown, RegistrarFails,
     EnterSession, SyncUsage, SyncPoorly, Sync, SyncFails, AddConflicts, AddFails,
     CommitIds, WriteDns, WriteDnsFails, GuideFails, DomainGone, Verified, VerifyFails
<1>8. CASE \/ StartCycle \/ EndPolls \/ AbortCycle \/ PollYydsStep \/ PollYydsFault
           \/ PollAliyunStep \/ PollAliyunFault \/ ListPartly
  BY <1>2, <1>8 DEF StartCycle, EndPolls, AbortCycle, PollYydsStep, PollYydsFault,
     SkipThrottled, BeginPoll, ReadList, ReadPoorly, Fetch, RefuseList, Reconcile,
     PollFails, PollAliyunStep, PollAliyunFault, SkipAliyun, ListAliyun, EmptyList,
     Describe, CommitAliyun, AliyunListFails, DescribeFails, DescribeThrottled,
     ListPartly, List
<1>9. CASE Request \/ Update \/ RemoveAccount \/ Registrar \/ ThrottleEnds \/ Crash
  BY <1>2, <1>9 DEF Request, RequestDelete, Update, UpdateDomain, RemoveAccount,
     DeleteAccount, Registrar, RegistrarChanges, ThrottleEnds, AliyunThrottleEnds,
     YydsThrottleEnds, Crash
<1>10. CASE UNCHANGED vars
  BY <1>2, <1>10 DEF vars
<1> QED
  BY <1>3, <1>4, <1>6, <1>7, <1>8, <1>9, <1>10 DEF Next, WorkerStep, Fault, Website

(* A domain that the last known list of any account holds is not added to   *)
(* yyds: not even if a poll of another account fell between the choice of   *)
(* the domain and its addition (fill.py _occupying_yyds_account).           *)
THEOREM AddedOnce == Spec => NeverAddedTwice
<1>1. Typed /\ FillShape /\ [Next]_vars
        => [\A n \in Names : Added(n) => \A a \in Accounts : n \notin snaps[a]]_vars
  BY AddedByFill DEF FillShape, InSnapshot, Filling
<1> QED
  BY <1>1, FillShapeInvariant, PTL DEF Spec, NeverAddedTwice
-----------------------------------------------------------------------------
(* Calm: the registrar holds no domain and takes none away, and no list of  *)
(* Aliyun is taken for complete that is not.  Everything else may happen.   *)
Purchase == \E n \in Names : RegistrarChanges(n, "ok")

CalmNext ==
  \/ WorkerStep \/ Fault \/ AddUnanswered
  \/ \E d \in Deleters : DeleteYydsStep(d)
  \/ Request \/ Update \/ RemoveAccount
  \/ Website \/ Purchase \/ ThrottleEnds \/ Crash

CalmSpec == Init /\ [][CalmNext]_vars

(* Calm steps are steps of the system.                                      *)
LEMMA CalmIsNext == [CalmNext]_vars => [Next]_vars
BY DEF CalmNext, Next, Purchase, Registrar

(* A row the Aliyun poll would give back to stock, had it the status error. *)
Returnable(row) ==
  row.reason = "readiness" /\ row.acct = None /\ ~row.first /\ ~row.seen

(* What a row shows of its history: of a domain that some snapshot holds,   *)
(* that it was seen; of one that must not be added, that it is not stock    *)
(* and that the Aliyun poll will not make it stock.                         *)
Fine(row, bar, known) ==
  /\ known /\ row.present /\ row.id # 0 => row.seen
  /\ row.acct # None /\ row.id = 0 => row.reason # "readiness"
  /\ bar # "no" /\ row.present =>
       /\ row.status # "unused"
       /\ row.reason = "readiness" => row.first \/ row.seen
       /\ row.id # 0 => row.first \/ row.seen

RowsFine == \A n \in Names : Fine(rows[n], barred[n], InSnapshot(n))

(* A domain that must not be added and has no row is in the first cohort,   *)
(* or will be.                                                              *)
CohortFine ==
  /\ \A n \in Names : /\ registrar[n] # "hold"
                      /\ rows[n].present => registrar[n] = "ok"
  /\ aliyun.synced => aliyun.cohorted
  /\ \A n \in Names : barred[n] # "no" /\ ~rows[n].present =>
       IF aliyun.cohorted THEN n \in aliyun.cohort ELSE registrar[n] = "ok"

(* What the Aliyun poll has listed and asked still holds at its commit.     *)
ListFine ==
  w.pc = "describe" => \A n \in Names :
    /\ w.list[n] = 0 => ~rows[n].present
    /\ w.list[n] # 0 => registrar[n] = "ok" /\ w.list[n] # OnHold
    /\ w.list[n] = Ready => w.copies[n].present = rows[n].present
    /\ barred[n] # "no" /\ ~rows[n].present /\ ~aliyun.cohorted => w.list[n] # 0
    /\ w.list[n] = Ready /\ w.copies[n].present /\ Returnable(w.copies[n]) =>
         /\ barred[n] = "no"
         /\ rows[n].acct = None
         /\ rows[n].reason # "cleanup"
         /\ \A d \in Deleters : del[d].pc \in Deleting => del[d].name # n

(* A new fill has a domain that may be added; a repair has one with an id,  *)
(* unless somebody has released it meanwhile.                               *)
FillFine ==
  w.pc \in Filling =>
    /\ w.newly => barred[w.name] = "no"
    /\ ~w.newly /\ barred[w.name] # "no" => rows[w.name].id # 0
    /\ rows[w.name].acct # None => rows[w.name].id # 0

(* A delete request's row does not become one the Aliyun poll would return, *)
(* and what its commit leaves of an id was seen.                            *)
Kept(row, mem) ==
  /\ CleanupOnly(mem) \/ Bound(mem)
  /\ ~Returnable(row)
  /\ row.reason = "readiness" => mem.reason = "readiness"
  /\ mem.id = 0 /\ row.id # 0 => row.seen

DeletesFine ==
  \A d \in Deleters : del[d].pc \in Deleting => Kept(rows[del[d].name], del[d].mem)

CalmInv == FillShape /\ RowsFine /\ CohortFine /\ ListFine /\ FillFine /\ DeletesFine

(* A commit writes the columns the code changed.                            *)
LEMMA FlushFields ==
  ASSUME NEW row \in Row, NEW mem \in Row, NEW new \in Row
  PROVE  LET after == Flush(row, mem, new) IN
         /\ after \in Row
         /\ after.present = row.present /\ after.first = row.first
         /\ after.seen = row.seen
         /\ after.status = IF new.status = mem.status THEN row.status ELSE new.status
         /\ after.acct = IF new.acct = mem.acct THEN row.acct ELSE new.acct
         /\ after.id = IF new.id = mem.id THEN row.id ELSE new.id
         /\ after.reason = IF new.reason = mem.reason THEN row.reason ELSE new.reason
<1>1. Flush(row, mem, new) \in Row
  BY FlushType
<1>2. Flush(row, mem, new).id = IF new.id = mem.id THEN row.id ELSE new.id
  BY FlushKeepsId
<1>3. /\ Flush(row, mem, new).present = row.present
      /\ Flush(row, mem, new).first = row.first
      /\ Flush(row, mem, new).seen = row.seen
  BY DEF Flush, Row
<1>4. Flush(row, mem, new).status = IF new.status = mem.status THEN row.status ELSE new.status
  BY DEF Flush, Row
<1>5. Flush(row, mem, new).acct = IF new.acct = mem.acct THEN row.acct ELSE new.acct
  BY DEF Flush, Row
<1>6. Flush(row, mem, new).reason = IF new.reason = mem.reason THEN row.reason ELSE new.reason
  BY DEF Flush, Row
<1> QED
  BY <1>1, <1>2, <1>3, <1>4, <1>5, <1>6

-----------------------------------------------------------------------------
(* The start of a fill: clearing marks and putting aside what the registrar *)
(* holds changes no row that must not be added.                             *)
LEMMA StockFine ==
  ASSUME Typed, RowsFine, NEW n \in Names
  PROVE  /\ Fine(Cleared[n], barred[n], InSnapshot(n))
         /\ Fine(Stock[n], barred[n], InSnapshot(n))
         /\ Stock[n].id = rows[n].id /\ Cleared[n].id = rows[n].id
         /\ Stock[n].acct = rows[n].acct /\ Cleared[n].acct = rows[n].acct
         /\ Stock[n].present = rows[n].present /\ Cleared[n].present = rows[n].present
<1>1. rows[n] \in Row /\ Fine(rows[n], barred[n], InSnapshot(n))
  BY DEF Typed, TypeOK, RowsFine
<1>2. /\ Unstuck(rows[n]) \in Row
      /\ Unstuck(rows[n]).id = rows[n].id /\ Unstuck(rows[n]).acct = rows[n].acct
      /\ Unstuck(rows[n]).present = rows[n].present
      /\ Fine(Unstuck(rows[n]), barred[n], InSnapshot(n))
  <2>1. CASE ~rows[n].filling
    BY <1>1, <2>1 DEF Unstuck
  <2>2. CASE rows[n].filling
    BY <1>1, <2>2 DEF Unstuck, Row, Status, Reason, Fine
  <2> QED
    BY <2>1, <2>2
<1>3. Cleared[n] = Unstuck(rows[n]) /\ Stock[n] = Usable(Cleared[n])
  BY DEF Cleared, Stock
<1> HIDE DEF Cleared, Stock
<1>4. /\ Usable(Cleared[n]).id = Cleared[n].id /\ Usable(Cleared[n]).acct = Cleared[n].acct
      /\ Usable(Cleared[n]).present = Cleared[n].present
      /\ Fine(Usable(Cleared[n]), barred[n], InSnapshot(n))
  BY <1>2, <1>3 DEF Usable, Row, Fine
<1> QED
  BY <1>2, <1>3, <1>4

(* Beginning a fill or a repair clears a mark or sets one, nothing else.    *)
LEMMA StartFine ==
  ASSUME Typed, RowsFine,
         \/ \E n \in Names : StartRepair(n)
         \/ \E n \in Names, a \in Accounts : StartFill(n, a) \/ FindOccupied(n, a)
         \/ NothingToFill
  PROVE  /\ RowsFine'
         /\ \A n \in Names : rows'[n].present = rows[n].present
         /\ UNCHANGED <<barred, snaps, aliyun, registrar, del>>
<1>1. \A n \in Names : Cleared[n] \in Row /\ Stock[n] \in Row
  BY ClearedType
<1>2. Cleared \in [Names -> Row] /\ Stock \in [Names -> Row]
  BY ClearedType
<1>3. ASSUME UNCHANGED <<barred, snaps>>,
             \A n \in Names : /\ Fine(rows'[n], barred[n], InSnapshot(n))
                              /\ rows'[n].present = rows[n].present
      PROVE  RowsFine' /\ \A n \in Names : rows'[n].present = rows[n].present
  BY <1>3 DEF RowsFine, InSnapshot
<1>4. ASSUME NEW n \in Names, StartRepair(n)
      PROVE  \A m \in Names : /\ Fine(rows'[m], barred[m], InSnapshot(m))
                              /\ rows'[m].present = rows[m].present
  <2>1. rows' = [Cleared EXCEPT ![n].filling = TRUE]
    BY <1>4 DEF StartRepair
  <2> TAKE m \in Names
  <2>2. rows'[m] = Cleared[m] \/ rows'[m] = [Cleared[m] EXCEPT !.filling = TRUE]
    BY <1>2, <2>1
  <2> QED
    BY <1>1, <2>2, StockFine DEF Row, Fine
<1>5. ASSUME NEW n \in Names, NEW a \in Accounts, StartFill(n, a)
      PROVE  \A m \in Names : /\ Fine(rows'[m], barred[m], InSnapshot(m))
                              /\ rows'[m].present = rows[m].present
  <2>1. rows' = [Stock EXCEPT ![n].filling = TRUE]
    BY <1>5 DEF StartFill
  <2> TAKE m \in Names
  <2>2. rows'[m] = Stock[m] \/ rows'[m] = [Stock[m] EXCEPT !.filling = TRUE]
    BY <1>2, <2>1
  <2> QED
    BY <1>1, <2>2, StockFine DEF Row, Fine
<1>6. ASSUME NEW n \in Names, NEW a \in Accounts, FindOccupied(n, a)
      PROVE  \A m \in Names : /\ Fine(rows'[m], barred[m], InSnapshot(m))
                              /\ rows'[m].present = rows[m].present
  <2>1. /\ rows' = [Stock EXCEPT ![n].status = "used", ![n].acct = a, ![n].reason = "none"]
        /\ Stock[n].id = 0
    BY <1>6 DEF FindOccupied, Fillable
  <2> TAKE m \in Names
  <2>2. CASE m # n
    BY <1>2, <2>1, <2>2, StockFine
  <2>3. CASE m = n
    <3>1. rows'[m] = [Stock[m] EXCEPT !.status = "used", !.acct = a, !.reason = "none"]
      BY <1>2, <2>1, <2>3
    <3>2. /\ rows'[m].present = Stock[m].present /\ rows'[m].id = 0
          /\ rows'[m].reason = "none" /\ rows'[m].status = "used"
      <4>1. ASSUME NEW row \in Row,
                   rows'[m] = [row EXCEPT !.status = "used", !.acct = a, !.reason = "none"]
            PROVE  /\ rows'[m].present = row.present /\ rows'[m].id = row.id
                   /\ rows'[m].reason = "none" /\ rows'[m].status = "used"
        BY <4>1 DEF Row
      <4> QED
        BY <1>1, <2>1, <2>3, <3>1, <4>1
    <3> QED
      BY <3>2, StockFine DEF Fine
  <2> QED
    BY <2>2, <2>3
<1>7. CASE NothingToFill
  BY <1>3, <1>7, StockFine DEF NothingToFill
<1>8. UNCHANGED <<barred, snaps, aliyun, registrar, del>>
  BY DEF StartRepair, StartFill, FindOccupied, NothingToFill
<1> QED
  BY <1>3, <1>4, <1>5, <1>6, <1>7, <1>8
-----------------------------------------------------------------------------
(* The end of a fill.  A domain that must not be added is in a repair, and  *)
(* its row has an id, so that it was in use or seen.                        *)
LEMMA FillRow ==
  ASSUME Typed, CalmInv, w.pc \in Filling
  PROVE  /\ w.name \in Names /\ rows[w.name] \in Row /\ w.mem \in Row
         /\ Fine(rows[w.name], barred[w.name], InSnapshot(w.name))
         /\ barred[w.name] # "no" => ~w.newly /\ w.mem.id # 0 /\ rows[w.name].id # 0
         /\ rows[w.name].acct # None => rows[w.name].id # 0
<1>1. w.name \in Names /\ rows[w.name] \in Row /\ w.mem \in Row
  BY EndedRowType DEF Typed, Located
<1> QED
  BY <1>1 DEF CalmInv, RowsFine, FillFine, FillShape

(* A row put aside stays fine, unless it would only wait for the registrar  *)
(* without an id,                                                           *)
LEMMA UnusableFine ==
  ASSUME Typed, CalmInv, w.pc \in Filling, NEW reason \in Reason,
         reason = "readiness" => w.mem.id # 0
  PROVE  Fine(Unusable(reason), barred[w.name], InSnapshot(w.name))
<1> DEFINE new == [w.mem EXCEPT !.filling = FALSE, !.status = "error", !.reason = reason]
           row == rows[w.name]
<1>1. /\ row \in Row /\ w.mem \in Row
      /\ Fine(row, barred[w.name], InSnapshot(w.name))
      /\ barred[w.name] # "no" => row.id # 0
      /\ row.acct # None => row.id # 0
  BY FillRow
<1>2. /\ new \in Row /\ new.status = "error" /\ new.reason = reason
      /\ new.acct = w.mem.acct /\ new.id = w.mem.id
  BY <1>1 DEF Row, Status
<1>3. Unusable(reason) = Flush(row, w.mem, new)
  BY DEF Unusable, Loaded
<1> HIDE DEF new, row
<1>4. /\ Unusable(reason).present = row.present /\ Unusable(reason).first = row.first
      /\ Unusable(reason).seen = row.seen
      /\ Unusable(reason).status \in {"error", row.status}
      /\ Unusable(reason).status = row.status => w.mem.status = "error" \/ row.status = "error"
      /\ Unusable(reason).acct = row.acct /\ Unusable(reason).id = row.id
      /\ Unusable(reason).reason \in {reason, row.reason}
  BY <1>1, <1>2, <1>3, FlushFields
<1> QED
  BY <1>1, <1>4 DEF Fine

(* and so does one given up, and one whose exception is handled.            *)
LEMMA GiveUpFine ==
  ASSUME Typed, CalmInv, w.pc \in Filling
  PROVE  Fine(GiveUp, barred[w.name], InSnapshot(w.name))
<1> DEFINE new == [w.mem EXCEPT !.filling = FALSE]
           row == rows[w.name]
<1>1. row \in Row /\ w.mem \in Row /\ Fine(row, barred[w.name], InSnapshot(w.name))
  BY FillRow
<1>2. /\ new \in Row /\ new.status = w.mem.status /\ new.reason = w.mem.reason
      /\ new.acct = w.mem.acct /\ new.id = w.mem.id
  BY <1>1 DEF Row
<1>3. GiveUp = Flush(row, w.mem, new)
  BY DEF GiveUp, Loaded
<1> HIDE DEF new, row
<1>4. /\ GiveUp.present = row.present /\ GiveUp.first = row.first /\ GiveUp.seen = row.seen
      /\ GiveUp.status = row.status /\ GiveUp.acct = row.acct /\ GiveUp.id = row.id
      /\ GiveUp.reason = row.reason
  BY <1>1, <1>2, <1>3, FlushFields
<1> QED
  BY <1>1, <1>4 DEF Fine

(* What a failed fill leaves of its row: at most its status, its reason and *)
(* its marks are new.                                                       *)
LEMMA HandledColumns ==
  ASSUME Typed, w.pc \in Filling,
         NEW kind \in {"throttled", "error", "unexpected"}, NEW reason \in Reason
  PROVE  LET after == Handled(kind, reason)  now == rows[w.name]
             bare  == Unusable(reason)
         IN  /\ after.present = now.present /\ after.first = now.first
             /\ after.seen = now.seen /\ after.acct = now.acct /\ after.id = now.id
             /\ bare.acct = now.acct /\ bare.id = now.id
             /\ \/ after.status = now.status /\ after.reason = now.reason
                   /\ w.newly /\ now.status = "used"
                \/ after.status = "error" /\ after.reason = reason
                \/ /\ kind = "throttled" /\ now.id = 0
                   /\ after.status = "unused" /\ after.reason = "none"
                \/ /\ kind = "unexpected" /\ ~w.newly
                   /\ after.status = bare.status /\ after.reason = bare.reason
<1> DEFINE row    == rows[w.name]
           now    == Settled
           new    == [w.mem EXCEPT !.filling = FALSE, !.status = "error", !.reason = reason]
           back   == [now EXCEPT !.filling = FALSE, !.status = "unused", !.reason = "none"]
           failed == [now EXCEPT !.filling = FALSE, !.status = "error", !.reason = reason]
           bare   == [Unusable(reason) EXCEPT !.hold = now.hold]
<1>1. /\ row \in Row /\ w.mem \in Row /\ now \in Row /\ Unusable(reason) \in Row
      /\ now.present = row.present /\ now.first = row.first /\ now.seen = row.seen
      /\ now.acct = row.acct /\ now.id = row.id
      /\ now.status = row.status /\ now.reason = row.reason
  BY EndedRowType, SettledType
<1>2. /\ Unusable(reason).present = row.present /\ Unusable(reason).first = row.first
      /\ Unusable(reason).seen = row.seen
      /\ Unusable(reason).acct = row.acct /\ Unusable(reason).id = row.id
  <2>1. new \in Row /\ new.acct = w.mem.acct /\ new.id = w.mem.id
    BY <1>1 DEF Row, Status
  <2>2. Unusable(reason) = Flush(row, w.mem, new)
    BY DEF Unusable, Loaded
  <2> HIDE DEF new, row
  <2> QED
    BY <1>1, <2>1, <2>2, FlushFields
<1>3. \/ Handled(kind, reason) = now /\ w.newly /\ now.status = "used"
      \/ Handled(kind, reason) = failed
      \/ kind = "throttled" /\ now.id = 0 /\ Handled(kind, reason) = back
      \/ kind = "unexpected" /\ ~w.newly /\ Handled(kind, reason) = bare
  <2>1. w.newly \in BOOLEAN /\ now.id \in Nat
    BY <1>1 DEF Typed, TypeOK, WorkerState, Row
  <2>2. CASE kind = "throttled"
    BY <2>1, <2>2 DEF Handled
  <2>3. CASE kind = "error"
    BY <2>1, <2>3 DEF Handled
  <2>4. CASE kind = "unexpected"
    BY <2>1, <2>4 DEF Handled
  <2> QED
    BY <2>2, <2>3, <2>4
<1> HIDE DEF now, row
<1>4. CASE Handled(kind, reason) = now /\ w.newly /\ now.status = "used"
  BY <1>1, <1>2, <1>4 DEF row
<1>5. CASE Handled(kind, reason) = failed
  BY <1>1, <1>2, <1>5 DEF Row, row
<1>6. CASE kind = "throttled" /\ now.id = 0 /\ Handled(kind, reason) = back
  BY <1>1, <1>2, <1>6 DEF Row, row
<1>7. CASE kind = "unexpected" /\ ~w.newly /\ Handled(kind, reason) = bare
  BY <1>1, <1>2, <1>7 DEF Row, row
<1> QED
  BY <1>3, <1>4, <1>5, <1>6, <1>7

(* It is fine.                                                              *)
LEMMA HandledFine ==
  ASSUME Typed, CalmInv, w.pc \in Filling,
         NEW kind \in {"throttled", "error", "unexpected"}, NEW reason \in Reason,
         kind = "throttled" \/ reason # "readiness"
  PROVE  Fine(Handled(kind, reason), barred[w.name], InSnapshot(w.name))
<1>1. /\ Fine(rows[w.name], barred[w.name], InSnapshot(w.name))
      /\ barred[w.name] # "no" => rows[w.name].id # 0
      /\ rows[w.name].acct # None => rows[w.name].id # 0
  BY FillRow
<1>2. reason # "readiness" => Fine(Unusable(reason), barred[w.name], InSnapshot(w.name))
  BY UnusableFine
<1>3. Unusable(reason).present = rows[w.name].present
  BY EndedRowType DEF Unusable, Loaded, Flush, Row
<1> QED
  BY <1>1, <1>2, <1>3, HandledColumns DEF Fine

(* Presence of a row is not a fill's business.                              *)
LEMMA EndedPresent ==
  ASSUME Typed, w.pc \in Filling
  PROVE  /\ GiveUp.present = rows[w.name].present
         /\ \A reason \in Reason : Unusable(reason).present = rows[w.name].present
         /\ \A kind \in {"throttled", "error", "unexpected"}, reason \in Reason :
              Handled(kind, reason).present = rows[w.name].present
         /\ \A new : Loaded(new).present = rows[w.name].present
<1>1. \A new : Loaded(new).present = rows[w.name].present
  BY EndedRowType DEF Loaded, Flush, Row
<1>2. /\ GiveUp.present = rows[w.name].present
      /\ \A reason \in Reason : Unusable(reason).present = rows[w.name].present
  BY <1>1 DEF GiveUp, Unusable
<1>3. ASSUME NEW kind \in {"throttled", "error", "unexpected"}, NEW reason \in Reason
      PROVE  Handled(kind, reason).present = rows[w.name].present
  BY HandledColumns
<1> QED
  BY <1>1, <1>2, <1>3

(* A step that moves no row, no purchase and no cohort.                     *)
Ordinary ==
  /\ \A n \in Names : rows'[n].present = rows[n].present
  /\ UNCHANGED <<barred, registrar>>
  /\ aliyun'.synced = aliyun.synced
  /\ aliyun'.cohorted = aliyun.cohorted /\ aliyun'.cohort = aliyun.cohort

(* An ordinary step does not touch the first synchronisation.               *)
LEMMA OrdinaryCohort ==
  ASSUME CohortFine, Ordinary
  PROVE  CohortFine'
BY DEF CohortFine, Ordinary

(* A step that gives the row of the fill a fine value keeps all rows fine.  *)
LEMMA RowSet ==
  ASSUME Typed, CalmInv, w.pc \in Filling, NEW row,
         Fine(row, barred[w.name], InSnapshot(w.name)),
         row.present = rows[w.name].present,
         rows' = [rows EXCEPT ![w.name] = row], UNCHANGED <<barred, snaps>>
  PROVE  RowsFine' /\ \A n \in Names : rows'[n].present = rows[n].present
<1>1. rows \in [Names -> Row] /\ RowsFine
  BY DEF Typed, TypeOK, CalmInv
<1> QED
  BY <1>1 DEF RowsFine, InSnapshot

(* Every way a fill ends,                                                   *)
LEMMA FailsFine ==
  ASSUME Typed, CalmInv, w.pc \in Filling, UNCHANGED <<barred, snaps, registrar>>,
         \/ YydsFails \/ CountedYydsFails \/ AliyunThrottles \/ Fails("error", "other")
         \/ CountedFails("error", "other") \/ Fails("unexpected", "propagating")
  PROVE  RowsFine' /\ Ordinary
<1>1. PICK kind \in {"throttled", "error", "unexpected"}, reason \in Reason :
        /\ kind = "throttled" \/ reason # "readiness"
        /\ Finish(Handled(kind, reason))
  <2>1. {"other", "readiness", "propagating"} \subseteq Reason
    BY DEF Reason
  <2>2. CASE YydsFails
    BY <2>1, <2>2 DEF YydsFails, YydsThrottles, Fails
  <2>3. CASE AliyunThrottles
    BY <2>1, <2>3 DEF AliyunThrottles
  <2>4. CASE Fails("error", "other") \/ Fails("unexpected", "propagating")
    BY <2>1, <2>4 DEF Fails
  <2>5. CASE CountedYydsFails \/ CountedFails("error", "other")
    BY <2>1, <2>5 DEF CountedYydsFails, CountedFails
  <2> QED
    BY <2>2, <2>3, <2>4, <2>5
<1>2. RowsFine' /\ \A n \in Names : rows'[n].present = rows[n].present
  BY <1>1, HandledFine, EndedPresent, RowSet DEF Finish
<1>3. /\ aliyun'.synced = aliyun.synced
      /\ aliyun'.cohorted = aliyun.cohorted /\ aliyun'.cohort = aliyun.cohort
  BY DEF YydsFails, YydsThrottles, AliyunThrottles, Fails, CountedYydsFails, CountedFails,
     Typed, TypeOK, Aliyun
<1> QED
  BY <1>2, <1>3 DEF Ordinary

(* However a fill ends, it leaves its row fine.                             *)
LEMMA EndFine ==
  ASSUME Typed, CalmInv,
         \/ RegistrarRefuses \/ RegistrarUnknown \/ RegistrarFails
         \/ SyncFails \/ AddFails \/ AddUnanswered
         \/ WriteDnsFails \/ GuideFails \/ DomainGone \/ Verified \/ VerifyFails
  PROVE  RowsFine' /\ Ordinary
<1> USE DEF Filling
<1>1. ASSUME w.pc \in Filling, UNCHANGED <<barred, snaps, registrar>>,
             aliyun' = aliyun \/ aliyun' = [aliyun EXCEPT !.throttled = TRUE],
             NEW row, row.present = rows[w.name].present,
             Fine(row, barred[w.name], InSnapshot(w.name)), Finish(row)
      PROVE  RowsFine' /\ Ordinary
  <2>1. /\ aliyun'.synced = aliyun.synced
        /\ aliyun'.cohorted = aliyun.cohorted /\ aliyun'.cohort = aliyun.cohort
    BY <1>1 DEF Typed, TypeOK, Aliyun
  <2> QED
    BY <1>1, <2>1, RowSet DEF Finish, Ordinary
<1>2. "other" \in Reason /\ "readiness" \in Reason
  BY DEF Reason
<1>3. ASSUME w.pc \in Filling, NEW status \in Status,
             w.mem.id = 0 \/ status = "used", status \in {"used", "unused"}
      PROVE  LET row == Loaded([w.mem EXCEPT !.filling = FALSE, !.status = status,
                                             !.reason = "none"])
             IN  Fine(row, barred[w.name], InSnapshot(w.name))
  <2> DEFINE new == [w.mem EXCEPT !.filling = FALSE, !.status = status, !.reason = "none"]
             row == rows[w.name]
  <2>1. /\ row \in Row /\ w.mem \in Row
        /\ Fine(row, barred[w.name], InSnapshot(w.name))
        /\ barred[w.name] # "no" => w.mem.id # 0
    BY <1>3, FillRow
  <2>2. /\ new \in Row /\ new.status = status /\ new.reason = "none"
        /\ new.acct = w.mem.acct /\ new.id = w.mem.id
    BY <2>1 DEF Row, Reason
  <2>3. Loaded(new) = Flush(row, w.mem, new)
    BY DEF Loaded
  <2> HIDE DEF new, row
  <2>4. /\ Loaded(new).present = row.present /\ Loaded(new).first = row.first
        /\ Loaded(new).seen = row.seen
        /\ Loaded(new).status \in {status, row.status}
        /\ Loaded(new).acct = row.acct /\ Loaded(new).id = row.id
        /\ Loaded(new).reason \in {"none", row.reason}
    BY <2>1, <2>2, <2>3, FlushFields
  <2>5. Fine(Loaded(new), barred[w.name], InSnapshot(w.name))
    BY <1>3, <2>1, <2>4 DEF Fine
  <2> QED
    BY <2>5 DEF new
<1>4. CASE RegistrarRefuses
  BY <1>4 DEF RegistrarRefuses, CalmInv, CohortFine, Typed, Located
<1>5. CASE RegistrarUnknown
  BY <1>1, <1>2, <1>5, UnusableFine, EndedPresent DEF RegistrarUnknown
<1>6. CASE RegistrarFails
  <2>1. w.pc \in Filling /\ UNCHANGED <<barred, snaps, registrar>>
    BY <1>6 DEF RegistrarFails
  <2>2. CASE /\ aliyun' = [aliyun EXCEPT !.throttled = TRUE]
             /\ w.mem.id = 0
             /\ Finish(Loaded([w.mem EXCEPT !.filling = FALSE, !.status = "unused",
                                            !.reason = "none"]))
    BY <1>1, <1>3, <2>1, <2>2, EndedPresent DEF Status
  <2>3. CASE /\ aliyun' = [aliyun EXCEPT !.throttled = TRUE]
             /\ w.mem.id # 0
             /\ Finish(Unusable("readiness"))
    BY <1>1, <1>2, <2>1, <2>3, UnusableFine, EndedPresent
  <2>4. CASE UNCHANGED aliyun /\ Finish(Unusable("other"))
    BY <1>1, <1>2, <2>1, <2>4, UnusableFine, EndedPresent
  <2> QED
    BY <1>6, <2>2, <2>3, <2>4 DEF RegistrarFails
<1>7. CASE SyncFails
  <2>1. CASE YydsFails
    BY <1>7, <2>1, FailsFine DEF SyncFails
  <2>2. CASE Finish(GiveUp) /\ UNCHANGED aliyun
    BY <1>1, <1>7, <2>2, GiveUpFine, EndedPresent DEF SyncFails
  <2> QED
    BY <1>7, <2>1, <2>2 DEF SyncFails
<1>8. CASE AddFails \/ AddUnanswered \/ WriteDnsFails \/ GuideFails \/ DomainGone \/ VerifyFails
  BY <1>8, FailsFine DEF AddFails, AddUnanswered, WriteDnsFails, GuideFails, DomainGone,
     VerifyFails
<1>9. CASE Verified
  BY <1>1, <1>3, <1>9, EndedPresent DEF Verified, Status
<1> QED
  BY <1>4, <1>5, <1>6, <1>7, <1>8, <1>9

(* and every step within one.                                               *)
LEMMA IdsFine ==
  ASSUME Typed, CalmInv, w.pc \in {"sync", "add", "ids"}, NEW id \in Nat, id # 0
  PROVE  LET row == Loaded([w.mem EXCEPT !.acct = w.acct, !.id = id])
         IN  Fine(row, barred[w.name], InSnapshot(w.name)) /\ row.id # 0
<1> DEFINE new == [w.mem EXCEPT !.acct = w.acct, !.id = id]
           row == rows[w.name]
<1>1. /\ row \in Row /\ w.mem \in Row
      /\ barred[w.name] = "no" /\ ~InSnapshot(w.name) /\ w.mem.id = 0
  BY FillRow DEF CalmInv, FillShape, Filling, BeforeIds
<1>2. new \in Row /\ new.id = id
  BY <1>1, IdsRowType DEF Row, Filling
<1>3. Loaded(new) = Flush(row, w.mem, new)
  BY DEF Loaded
<1> HIDE DEF new, row
<1>4. Loaded(new).id = id
  BY <1>1, <1>2, <1>3, FlushFields
<1>5. Fine(Loaded(new), barred[w.name], InSnapshot(w.name)) /\ Loaded(new).id # 0
  BY <1>1, <1>4 DEF Fine
<1> QED
  BY <1>5 DEF new

(* A step that leaves all of it alone keeps all of it.                      *)
LEMMA RowsKept ==
  ASSUME Typed, CalmInv, UNCHANGED <<rows, snaps, aliyun, registrar, barred>>
  PROVE  RowsFine' /\ Ordinary
BY DEF CalmInv, RowsFine, InSnapshot, Ordinary

(* A new fill takes a domain from stock, a repair one with an id;           *)
LEMMA BeginFine ==
  ASSUME Typed, CalmInv,
         \E n \in Names : StartRepair(n) \/ \E a \in Accounts : StartFill(n, a)
  PROVE  RowsFine' /\ Ordinary /\ FillFine'
<1>1. /\ RowsFine' /\ UNCHANGED <<barred, aliyun, registrar>>
      /\ \A n \in Names : rows'[n].present = rows[n].present
  BY StartFine DEF CalmInv
<1>2. ASSUME NEW n \in Names, StartRepair(n)
      PROVE  FillFine'
  <2>1. Cleared[n] \in Row /\ Bound(Cleared[n])
    BY <1>2, ClearedType DEF StartRepair, Repairable
  <2>2. /\ rows'[n] = [Cleared[n] EXCEPT !.filling = TRUE]
        /\ w'.name = n /\ w'.newly = FALSE
    BY <1>2, ClearedType DEF StartRepair, Resting
  <2>3. rows'[n].id # 0
    BY <2>1, <2>2 DEF Bound, Row
  <2> QED
    BY <2>2, <2>3 DEF FillFine
<1>3. ASSUME NEW n \in Names, NEW a \in Accounts, StartFill(n, a)
      PROVE  FillFine'
  <2>1. Stock[n] \in Row /\ Fillable(Stock[n])
    BY <1>3, ClearedType DEF StartFill
  <2>2. w'.name = n /\ w'.newly = TRUE
    BY <1>3 DEF StartFill, Resting
  <2>3. rows'[n].acct = None
    <3>1. rows' = [Stock EXCEPT ![n].filling = TRUE] /\ Stock \in [Names -> Row]
      BY <1>3, ClearedType DEF StartFill
    <3>2. rows'[n] = [Stock[n] EXCEPT !.filling = TRUE]
      BY <3>1
    <3> QED
      BY <2>1, <3>2 DEF Fillable, Row
  <2>4. barred[n] = "no"
    BY <2>1, StockFine DEF Fillable, Fine, CalmInv
  <2> QED
    BY <1>1, <2>2, <2>3, <2>4 DEF FillFine
<1> QED
  BY <1>1, <1>2, <1>3 DEF Ordinary

(* the steps in between give the domain of a new fill its id.               *)
LEMMA MoveFine ==
  ASSUME Typed, IdsFollow, CalmInv, FillMove
  PROVE  RowsFine' /\ Ordinary /\ FillFine'
<1> USE DEF Filling
<1>1. w \in WorkerState
  BY DEF Typed, TypeOK
<1>2. Elsewhere => FillFine'
  BY DEF Elsewhere, FillFine
<1>3. ASSUME w.pc \in Filling, UNCHANGED <<rows, barred>>,
             w'.name = w.name, w'.newly = w.newly
      PROVE  FillFine'
  BY <1>3 DEF CalmInv, FillFine
<1>4. ASSUME w.pc \in {"sync", "add", "ids"}, NEW id \in Nat, id # 0,
             rows' = [rows EXCEPT ![w.name] =
                        Loaded([w.mem EXCEPT !.acct = w.acct, !.id = id])],
             UNCHANGED <<snaps, aliyun, registrar, barred>>,
             w'.name = w.name, w'.newly = w.newly
      PROVE  RowsFine' /\ Ordinary /\ FillFine'
  <2> DEFINE row == Loaded([w.mem EXCEPT !.acct = w.acct, !.id = id])
  <2>1. /\ Fine(row, barred[w.name], InSnapshot(w.name)) /\ row.id # 0
        /\ row.present = rows[w.name].present
    BY <1>4, IdsFine, EndedPresent
  <2>2. rows' = [rows EXCEPT ![w.name] = row] /\ w.name \in Names
    BY <1>4, FillRow
  <2> HIDE DEF row
  <2>3. RowsFine' /\ \A n \in Names : rows'[n].present = rows[n].present
    BY <1>4, <2>1, <2>2, RowSet
  <2>4. rows'[w.name].id # 0 /\ barred[w.name] = "no"
    BY <1>4, <2>1, <2>2 DEF Typed, TypeOK, CalmInv, FillFine, FillShape
  <2> QED
    BY <1>4, <2>3, <2>4 DEF Ordinary, FillFine
<1>5. CASE WriteDns
  <2>1. /\ w.pc \in Filling /\ rows' = [rows EXCEPT ![w.name] = Settled]
        /\ w' = [w EXCEPT !.pc = "verify", !.mem.hold = FALSE]
        /\ UNCHANGED <<snaps, aliyun, registrar, barred>>
    BY <1>5 DEF WriteDns
  <2>2. w.name \in Names /\ Fine(rows[w.name], barred[w.name], InSnapshot(w.name))
    BY <2>1, FillRow
  <2>3. /\ Settled.present = rows[w.name].present
        /\ Settled.id = rows[w.name].id /\ Settled.acct = rows[w.name].acct
        /\ Fine(Settled, barred[w.name], InSnapshot(w.name))
    BY <2>1, <2>2, SettledType DEF Fine
  <2>4. RowsFine' /\ \A n \in Names : rows'[n].present = rows[n].present
    BY <2>1, <2>3, RowSet
  <2>5. /\ w'.name = w.name /\ w'.newly = w.newly
        /\ rows'[w.name].id = rows[w.name].id /\ rows'[w.name].acct = rows[w.name].acct
    BY <1>1, <2>1, <2>2, <2>3 DEF WorkerState, Typed, TypeOK
  <2>6. FillFine'
    BY <2>1, <2>5 DEF CalmInv, FillFine
  <2> QED
    BY <2>1, <2>4, <2>6 DEF Ordinary
<1>6. CASE RegistrarReady \/ EnterSession
  BY <1>1, <1>3, <1>6, RowsKept DEF RegistrarReady, EnterSession, WorkerState
<1>7. CASE AddDomain
  BY <1>1, <1>3, <1>7, RowsKept DEF AddDomain, WorkerState
<1>8. CASE SyncUsage \/ SyncPoorly
  <2>1. PICK names, quota : Sync(names, quota)
    BY <1>8 DEF SyncUsage, SyncPoorly
  <2>2. w.pc = "sync" /\ UNCHANGED <<snaps, aliyun, registrar, barred>> /\ w.name \in Names
    BY <2>1 DEF Sync, Typed, Located
  <2>3. CASE Finish(GiveUp)
    <3>1. RowsFine' /\ \A n \in Names : rows'[n].present = rows[n].present
      BY <2>2, <2>3, GiveUpFine, EndedPresent, RowSet DEF Finish
    <3> QED
      BY <1>2, <2>2, <2>3, <3>1, FinishElsewhere DEF Ordinary
  <2>4. CASE w' = [w EXCEPT !.pc = "add"] /\ UNCHANGED rows
    BY <1>1, <1>3, <2>2, <2>4, RowsKept DEF WorkerState
  <2>5. ASSUME NEW mem, NEW id, id = IdsOf(names)[w.name], id # 0,
               w' = [w EXCEPT !.pc = "dns", !.mem = mem],
               rows' = [rows EXCEPT ![w.name] =
                          Loaded([w.mem EXCEPT !.acct = w.acct, !.id = id])]
        PROVE  RowsFine' /\ Ordinary /\ FillFine'
    <3>1. id \in Nat
      BY <2>2, <2>5, IdsOfType DEF Typed
    <3>2. w'.name = w.name /\ w'.newly = w.newly
      BY <1>1, <2>5 DEF WorkerState
    <3> QED
      BY <1>4, <2>2, <2>5, <3>1, <3>2
  <2> QED
    BY <2>1, <2>3, <2>4, <2>5 DEF Sync
<1>9. CASE AddConflicts
  <2>1. w.pc = "add" /\ w.name \in Names /\ UNCHANGED <<snaps, registrar, barred>>
    BY <1>9 DEF AddConflicts, Typed, Located
  <2>2. CASE Fails("error", "other")
    BY <1>2, <2>1, <2>2, FailsFine, FailsElsewhere
  <2>3. ASSUME NEW mem, w' = [w EXCEPT !.pc = "dns", !.mem = mem], UNCHANGED aliyun,
               rows' = [rows EXCEPT ![w.name] =
                          Loaded([w.mem EXCEPT !.acct = w.acct, !.id = remote[w.name].id])]
        PROVE  RowsFine' /\ Ordinary /\ FillFine'
    <3>1. remote[w.name].id \in Nat /\ remote[w.name].id # 0
      BY <1>9, <2>1, IdNumbers DEF AddConflicts, IdsFollow
    <3>2. w'.name = w.name /\ w'.newly = w.newly
      BY <1>1, <2>3 DEF WorkerState
    <3> QED
      BY <1>4, <2>1, <2>3, <3>1, <3>2
  <2> QED
    BY <1>9, <2>2, <2>3 DEF AddConflicts
<1>10. CASE CommitIds
  <2>1. /\ w.pc = "ids" /\ w.name \in Names /\ UNCHANGED <<snaps, aliyun, registrar, barred>>
        /\ rows' = [rows EXCEPT ![w.name] =
                      Loaded([w.mem EXCEPT !.acct = w.acct, !.id = w.list[w.name]])]
    BY <1>10 DEF CommitIds, Typed, Located
  <2>2. w.list[w.name] \in Nat /\ w.list[w.name] # 0
    BY <2>1, IdNumbers DEF CalmInv, FillShape
  <2>3. w'.name = w.name /\ w'.newly = w.newly
    BY <1>1, <1>10 DEF CommitIds, WorkerState
  <2> QED
    BY <1>4, <2>1, <2>2, <2>3
<1> QED
  BY <1>5, <1>6, <1>7, <1>8, <1>9, <1>10, BeginFine DEF FillMove

(* A step within a fill stays with its domain.                              *)
LEMMA FillMovePlace ==
  ASSUME Typed, FillMove
  PROVE  /\ w'.pc # "describe"
         /\ \/ \E n \in Names : StartRepair(n) \/ \E a \in Accounts : StartFill(n, a)
            \/ Elsewhere
            \/ w.pc \in Filling /\ w'.name = w.name
<1>1. w \in WorkerState
  BY DEF Typed, TypeOK
<1>2. CASE \E n \in Names : StartRepair(n) \/ \E a \in Accounts : StartFill(n, a)
  BY <1>2 DEF StartRepair, StartFill, Resting
<1>3. CASE RegistrarReady \/ EnterSession \/ AddDomain \/ CommitIds \/ WriteDns
  BY <1>1, <1>3 DEF RegistrarReady, EnterSession, AddDomain, CommitIds, WriteDns,
     WorkerState, Filling
<1>4. CASE SyncUsage \/ SyncPoorly
  <2>1. PICK names, quota : Sync(names, quota)
    BY <1>4 DEF SyncUsage, SyncPoorly
  <2>2. \/ Elsewhere
        \/ w' = [w EXCEPT !.pc = "add"]
        \/ \E mem : w' = [w EXCEPT !.pc = "dns", !.mem = mem]
    BY <2>1, FinishElsewhere DEF Sync
  <2>3. w.pc \in Filling
    BY <2>1 DEF Sync, Filling
  <2> QED
    BY <1>1, <2>2, <2>3 DEF Elsewhere, WorkerState
<1>5. CASE AddConflicts
  <2>1. Elsewhere \/ \E mem : w' = [w EXCEPT !.pc = "dns", !.mem = mem]
    BY <1>5, FailsElsewhere DEF AddConflicts
  <2>2. w.pc \in Filling
    BY <1>5 DEF AddConflicts, Filling
  <2> QED
    BY <1>1, <2>1, <2>2 DEF Elsewhere, WorkerState
<1> QED
  BY <1>2, <1>3, <1>4, <1>5 DEF FillMove

(* While the worker fills or begins to, no delete request is past its check.*)
LEMMA NoDeleteMeanwhile ==
  ASSUME LocksHeld, w.pc \in Filling \/ fillLock = None
  PROVE  \A d \in Deleters : del[d].pc \notin Deleting
BY OwnersAssumption DEF LocksHeld

(* A step of a fill keeps all of it.                                        *)
LEMMA FillCalm ==
  ASSUME Typed, LocksHeld, IdsFollow, CalmInv, FillShape',
         FillStep \/ FillFault \/ AddUnanswered
  PROVE  CalmInv'
<1>1. CASE FillMove
  <2>1. RowsFine' /\ Ordinary /\ FillFine'
    BY <1>1, MoveFine
  <2>2. w'.pc # "describe"
    BY <1>1, FillMovePlace
  <2>3. UNCHANGED del /\ (w.pc \in Filling \/ fillLock = None)
    BY <1>1 DEF FillMove, StartRepair, StartFill, RegistrarReady, EnterSession, SyncUsage,
       SyncPoorly, Sync, AddDomain, AddConflicts, CommitIds, WriteDns, Filling
  <2>4. DeletesFine'
    BY <2>3, NoDeleteMeanwhile DEF DeletesFine
  <2> QED
    BY <2>1, <2>2, <2>4, OrdinaryCohort DEF CalmInv, ListFine
<1>2. CASE \/ \E n \in Names, a \in Accounts : FindOccupied(n, a)
           \/ NothingToFill
  <2>1. RowsFine' /\ Ordinary
    BY <1>2, StartFine DEF CalmInv, Ordinary
  <2>2. Elsewhere
    BY <1>2, AfterFillType DEF FindOccupied, NothingToFill, Elsewhere, Filling, Typed
  <2>3. UNCHANGED del /\ fillLock = None
    BY <1>2 DEF FindOccupied, NothingToFill
  <2>4. DeletesFine'
    BY <2>3, NoDeleteMeanwhile DEF DeletesFine
  <2> QED
    BY <2>1, <2>2, <2>4, OrdinaryCohort DEF CalmInv, ListFine, FillFine, Elsewhere
<1>3. CASE \/ RegistrarRefuses \/ RegistrarUnknown \/ RegistrarFails
           \/ SyncFails \/ AddFails \/ AddUnanswered
           \/ WriteDnsFails \/ GuideFails \/ DomainGone \/ Verified \/ VerifyFails
  <2>1. RowsFine' /\ Ordinary
    BY <1>3, EndFine
  <2>2. Elsewhere
    BY <1>3, FinishElsewhere, FailsElsewhere DEF RegistrarRefuses, RegistrarUnknown,
       RegistrarFails, SyncFails, AddFails, AddUnanswered, WriteDnsFails, GuideFails,
       DomainGone, Verified, VerifyFails
  <2>3. UNCHANGED del /\ w.pc \in Filling
    BY <1>3 DEF RegistrarRefuses, RegistrarUnknown, RegistrarFails, SyncFails, AddFails,
       AddUnanswered, WriteDnsFails, GuideFails, DomainGone, Verified, VerifyFails, Filling
  <2>4. DeletesFine'
    BY <2>3, NoDeleteMeanwhile DEF DeletesFine
  <2> QED
    BY <2>1, <2>2, <2>4, OrdinaryCohort DEF CalmInv, ListFine, FillFine, Elsewhere
<1> QED
  BY <1>1, <1>2, <1>3 DEF FillStep, FillFault, FillMove
-----------------------------------------------------------------------------
(* A step that touches no row, no name's history and no delete request      *)
(* under way.                                                               *)
LEMMA QuietCalm ==
  ASSUME Typed, CalmInv, FillShape', UNCHANGED <<rows, snaps, barred, registrar>>,
         aliyun' = aliyun \/ \E b : aliyun' = [aliyun EXCEPT !.throttled = b],
         w' = w \/ Elsewhere,
         \A d \in Deleters : del'[d].pc \in Deleting =>
           del[d].pc \in Deleting /\ del'[d].name = del[d].name /\ del'[d].mem = del[d].mem
  PROVE  CalmInv'
<1>1. RowsFine'
  BY DEF CalmInv, RowsFine, InSnapshot
<1>2. /\ aliyun'.synced = aliyun.synced
      /\ aliyun'.cohorted = aliyun.cohorted /\ aliyun'.cohort = aliyun.cohort
  BY DEF Typed, TypeOK, Aliyun
<1>3. CohortFine'
  BY <1>2, OrdinaryCohort DEF CalmInv, Ordinary
<1>4. ListFine' /\ FillFine'
  BY <1>2 DEF CalmInv, ListFine, FillFine, Elsewhere
<1>5. DeletesFine'
  BY DEF CalmInv, DeletesFine
<1> QED
  BY <1>1, <1>3, <1>4, <1>5 DEF CalmInv

(* The yyds poll: what it lists was seen, what it has lost was.             *)
LEMMA ReconciledFine ==
  ASSUME Typed, CalmInv, Reconcile, NEW n \in Names
  PROVE  /\ Fine(rows'[n], barred'[n], \E b \in Accounts : n \in snaps'[b])
         /\ rows'[n].present = rows[n].present
         /\ ~rows[n].present /\ barred'[n] # "no" => barred[n] # "no"
         /\ \A mem : Kept(rows[n], mem) => Kept(rows'[n], mem)
<1> DEFINE a == w.acct
           row == rows[n]
           after == Reconciled(row, n, w.list, a)
           known == \E b \in Accounts : n \in snaps'[b]
<1>1. /\ row \in Row /\ a \in Accounts /\ w.list[n] \in Nat
      /\ Fine(row, barred[n], InSnapshot(n)) /\ barred[n] \in Barred
  BY DEF Reconcile, Typed, TypeOK, Located, CalmInv, RowsFine, WorkerState
<1>2. /\ rows'[n] = after
      /\ barred'[n] = IF \/ Lost(row, n, w.list, a) /\ row.present /\ row.status # "unused"
                         \/ w.list[n] # 0 /\ barred[n] = "panel"
                      THEN "poll" ELSE barred[n]
  BY DEF Reconcile
<1>3. w.list[n] = 0 /\ known => InSnapshot(n)
  BY <1>1 DEF Reconcile, Typed, TypeOK, Listed, InSnapshot
<1>4. None \notin Accounts
  BY OwnersAssumption
<1> HIDE DEF known
<1>5. CASE ~row.present
  <2>1. rows'[n] = row
    BY <1>2, <1>5 DEF Reconciled
  <2> QED
    BY <1>1, <1>2, <1>5, <2>1 DEF Fine
<1>6. CASE row.present /\ w.list[n] # 0
  <2>1. /\ after.acct = a /\ after.id = w.list[n] /\ after.seen = TRUE
        /\ after.present = row.present /\ after.first = row.first
        /\ after.reason \in {row.reason, "none"}
        /\ after.status # "unused" \/ after.status = row.status
    <3> DEFINE here == [row EXCEPT !.acct = a, !.id = w.list[n], !.seen = TRUE]
               came == [row EXCEPT !.acct = a, !.id = w.list[n], !.seen = TRUE,
                          !.filling = FALSE,
                          !.status = IF @ = "error" THEN @ ELSE "used",
                          !.reason = IF row.status = "error" THEN @ ELSE "none"]
    <3>1. after = IF n \in snaps[a] THEN here ELSE came
      BY <1>1, <1>6 DEF Reconciled, Lost, RemovedBy
    <3>2. /\ here.acct = a /\ here.id = w.list[n] /\ here.seen = TRUE
          /\ here.present = row.present /\ here.first = row.first
          /\ here.reason = row.reason /\ here.status = row.status
      BY <1>1 DEF Row
    <3>3. /\ came.acct = a /\ came.id = w.list[n] /\ came.seen = TRUE
          /\ came.present = row.present /\ came.first = row.first
          /\ came.reason \in {row.reason, "none"}
          /\ came.status \in {"error", "used"}
      BY <1>1 DEF Row
    <3> HIDE DEF here, came, after
    <3> QED
      BY <3>1, <3>2, <3>3
  <2>2. barred'[n] # "no" => barred[n] # "no"
    BY <1>2, <1>6 DEF Lost, RemovedBy
  <2> HIDE DEF after, row
  <2>3. Fine(after, barred'[n], known)
    BY <1>1, <1>6, <2>1, <2>2 DEF Fine
  <2>4. \A mem : Kept(row, mem) => Kept(after, mem)
    BY <1>1, <1>4, <2>1 DEF Kept, Returnable
  <2> QED
    BY <1>2, <1>6, <2>1, <2>3, <2>4 DEF known, row
<1>7. CASE row.present /\ w.list[n] = 0 /\ Lost(row, n, w.list, a)
  <2>1. /\ after.acct = None /\ after.id = 0 /\ after.seen = row.seen
        /\ after.present = row.present /\ after.first = row.first
        /\ after.reason = row.reason
        /\ after.status = "unused" <=> row.status = "unused"
    BY <1>1, <1>7 DEF Reconciled, StatusAfterRemoved, Row
  <2>2. row.reason = "readiness" => row.seen
    BY <1>1, <1>4, <1>7 DEF Fine, Lost, RemovedBy, InSnapshot
  <2>3. row.status = "unused" => barred'[n] = "no"
    BY <1>1, <1>2, <1>7 DEF Fine
  <2> HIDE DEF after, row
  <2>4. Fine(after, barred'[n], known)
    BY <2>1, <2>2, <2>3 DEF Fine
  <2>5. \A mem : Kept(row, mem) => Kept(after, mem)
    BY <2>1, <2>2 DEF Kept, Returnable
  <2> QED
    BY <1>2, <1>7, <2>1, <2>4, <2>5 DEF known, row
<1>8. CASE row.present /\ w.list[n] = 0 /\ ~Lost(row, n, w.list, a)
  <2>1. rows'[n] = row /\ barred'[n] = barred[n]
    BY <1>2, <1>8 DEF Reconciled
  <2> QED
    BY <1>1, <1>3, <1>8, <2>1 DEF Fine, known
<1> QED
  BY <1>5, <1>6, <1>7, <1>8

(* So a reconciliation keeps all of it.                                     *)
LEMMA ReconcileCalm ==
  ASSUME Typed, CalmInv, FillShape', Reconcile
  PROVE  CalmInv'
<1>1. UNCHANGED <<aliyun, registrar, del>> /\ LeavePoll
  BY DEF Reconcile
<1>2. RowsFine'
  BY ReconciledFine DEF RowsFine, InSnapshot
<1>3. CohortFine'
  BY <1>1, ReconciledFine DEF CalmInv, CohortFine
<1>4. ListFine' /\ FillFine'
  BY <1>1, LeavePollType DEF ListFine, FillFine, Filling
<1>5. DeletesFine'
  <2>1. \A d \in Deleters : del[d].pc \in Deleting => del[d].name \in Names
    BY DEF Deleting, Typed, Located
  <2> QED
    BY <1>1, <2>1, ReconciledFine DEF CalmInv, DeletesFine
<1> QED
  BY <1>2, <1>3, <1>4, <1>5 DEF CalmInv

(* The Aliyun poll lists what there is;                                     *)
LEMMA ListCalm ==
  ASSUME Typed, CalmInv, FillShape', ListAliyun
  PROVE  CalmInv'
<1>1. /\ UNCHANGED <<rows, snaps, aliyun, registrar, barred, del>>
      /\ w' = [w EXCEPT !.pc = "describe",
                  !.list = [n \in Names |-> IF n \in Owned THEN Unasked ELSE 0]]
  BY DEF ListAliyun, List
<1>2. /\ w'.pc = "describe"
      /\ w'.list = [n \in Names |-> IF n \in Owned THEN Unasked ELSE 0]
  BY <1>1 DEF Typed, TypeOK, WorkerState
<1>3. RowsFine' /\ Ordinary
  BY <1>1, RowsKept
<1>4. DeletesFine'
  BY <1>1 DEF CalmInv, DeletesFine
<1>5. ListFine'
  <2>1. ASSUME NEW n \in Names
        PROVE  /\ rows[n].present => n \in Owned
               /\ n \in Owned => registrar[n] = "ok"
               /\ barred[n] # "no" /\ ~rows[n].present /\ ~aliyun.cohorted => n \in Owned
    BY DEF CalmInv, CohortFine, Owned, Typed, TypeOK
  <2>2. ASSUME NEW n \in Names
        PROVE  /\ w'.list[n] # 0 <=> n \in Owned
               /\ w'.list[n] # OnHold /\ w'.list[n] # Ready
    BY <1>2 DEF Unasked, Ready, OnHold
  <2> QED
    BY <1>1, <2>1, <2>2 DEF ListFine
<1>6. FillFine'
  BY <1>2 DEF FillFine, Filling
<1> QED
  BY <1>3, <1>4, <1>5, <1>6, OrdinaryCohort DEF CalmInv

(* the row it loads before it asks about a name is as it should be;         *)
LEMMA DescribeCalm ==
  ASSUME Typed, CalmInv, FillShape', NEW n \in Names, Describe(n) \/ DescribeFails(n)
  PROVE  CalmInv'
<1>1. /\ UNCHANGED <<rows, snaps, aliyun, registrar, barred, del>>
      /\ w.pc = "describe" /\ w.list[n] = Unasked /\ w \in WorkerState
  BY DEF Describe, DescribeFails, Typed, TypeOK
<1>2. registrar[n] = "ok"
  BY <1>1 DEF CalmInv, ListFine, Unasked
<1>3. ASSUME NEW row \in Row, NEW k \in Nat
      PROVE  /\ [w EXCEPT !.copies[n] = row, !.list[n] = k].pc = "describe"
             /\ [w EXCEPT !.copies[n] = row, !.list[n] = k].list[n] = k
             /\ [w EXCEPT !.copies[n] = row, !.list[n] = k].copies[n] = row
             /\ [w EXCEPT !.list[n] = k].pc = "describe"
             /\ [w EXCEPT !.list[n] = k].list[n] = k
             /\ \A m \in Names \ {n} :
                  /\ [w EXCEPT !.copies[n] = row, !.list[n] = k].list[m] = w.list[m]
                  /\ [w EXCEPT !.copies[n] = row, !.list[n] = k].copies[m] = w.copies[m]
                  /\ [w EXCEPT !.list[n] = k].list[m] = w.list[m]
                  /\ [w EXCEPT !.list[n] = k].copies[m] = w.copies[m]
  BY <1>1 DEF WorkerState
<1>4. /\ w'.pc = "describe"
      /\ \/ w'.list[n] = Ready /\ w'.copies[n] = rows[n]
         \/ w'.list[n] = Unknown
      /\ \A m \in Names \ {n} : w'.list[m] = w.list[m] /\ w'.copies[m] = w.copies[m]
  <2>1. rows[n] \in Row /\ Ready \in Nat /\ Unknown \in Nat
    BY DEF Typed, TypeOK, Ready, Unknown
  <2>2. \/ w' = [w EXCEPT !.copies[n] = rows[n], !.list[n] = Ready]
        \/ w' = [w EXCEPT !.list[n] = Unknown]
    BY <1>2 DEF Describe, DescribeFails
  <2> HIDE DEF Ready, Unknown
  <2>3. CASE w' = [w EXCEPT !.copies[n] = rows[n], !.list[n] = Ready]
    BY <1>3, <2>1, <2>3
  <2>4. CASE w' = [w EXCEPT !.list[n] = Unknown]
    BY <1>3, <2>1, <2>4
  <2> QED
    BY <2>2, <2>3, <2>4
<1>5. RowsFine' /\ Ordinary
  BY <1>1, RowsKept
<1>6. DeletesFine'
  BY <1>1 DEF CalmInv, DeletesFine
<1>7. ListFine'
  <2>1. rows[n].present /\ Returnable(rows[n])
          => /\ barred[n] = "no" /\ rows[n].acct = None
             /\ rows[n].reason # "cleanup"
             /\ \A d \in Deleters : del[d].pc \in Deleting => del[d].name # n
    BY DEF CalmInv, RowsFine, DeletesFine, Fine, Returnable, Kept
  <2>2. w.list[n] # 0
    BY <1>1 DEF Unasked
  <2>3. /\ w'.list[n] # 0 /\ w'.list[n] # OnHold
        /\ w'.list[n] = Ready => w'.copies[n] = rows[n]
    BY <1>4 DEF Ready, OnHold, Unknown
  <2>4. ASSUME NEW m \in Names \ {n}
        PROVE  w'.list[m] = w.list[m] /\ w'.copies[m] = w.copies[m]
    BY <1>4
  <2> QED
    BY <1>1, <1>2, <2>1, <2>3, <2>4 DEF CalmInv, ListFine
<1>8. FillFine'
  BY <1>4 DEF FillFine, Filling
<1> QED
  BY <1>5, <1>6, <1>7, <1>8, OrdinaryCohort DEF CalmInv

(* its commit puts nothing in stock that must not be there: a new row is    *)
(* not stock if its name is in the first cohort, and a row given back is    *)
(* one that may be.                                                         *)
LEMMA ItemFine ==
  ASSUME Typed, CalmInv, w.pc = "describe", NEW n \in Answered
  PROVE  /\ Fine(Item(n), barred[n], InSnapshot(n))
         /\ rows[n].present => Item(n).present
         /\ \A mem : Kept(rows[n], mem) => Kept(Item(n), mem)
<1> DEFINE row == rows[n]
           mem == w.copies[n]
<1>1. /\ n \in Names /\ w.list[n] # 0 /\ w.list[n] # OnHold
      /\ row \in Row /\ mem \in Row
      /\ mem.present = row.present
      /\ Fine(row, barred[n], InSnapshot(n))
      /\ mem.present /\ Returnable(mem) => barred[n] = "no"
  <2>1. n \in Names /\ w.list[n] \in {Ready, OnHold}
    BY DEF Answered
  <2>2. w.list[n] = Ready
    BY <2>1 DEF CalmInv, ListFine, Ready, OnHold
  <2> QED
    BY <2>1, <2>2 DEF Typed, TypeOK, WorkerState, CalmInv, ListFine, RowsFine, Ready, OnHold
<1>2. CASE ~mem.present
  <2> DEFINE new == Discovered(n)
  <2>1. Item(n) = new
    BY <1>2 DEF Item
  <2>2. barred[n] # "no" => FromFirstSnapshot(n)
    BY <1>1, <1>2 DEF CalmInv, CohortFine, ListFine, FromFirstSnapshot, Cohort, Listed
  <2>3. /\ new.id = 0 /\ new.acct = None /\ new.reason = "none"
        /\ FromFirstSnapshot(n) => new.status = "used"
    BY <1>1 DEF Discovered, NoRow
  <2> HIDE DEF new
  <2>4. Fine(new, barred[n], InSnapshot(n))
    BY <2>2, <2>3 DEF Fine
  <2>5. \A m : Kept(row, m) => Kept(new, m)
    BY <2>3 DEF Kept, Returnable
  <2> QED
    BY <1>1, <1>2, <2>1, <2>4, <2>5
<1>3. CASE mem.present
  <2> DEFINE new == Judged(mem)
             after == Flush(row, mem, new)
  <2>1. Item(n) = after
    BY <1>1, <1>3 DEF Item
  <2>2. /\ new \in Row /\ new.acct = mem.acct /\ new.id = mem.id
        /\ new.reason \in {mem.reason, "none"}
        /\ \/ new.status = mem.status
           \/ new.status = "used"
           \/ new.status = "unused" /\ Returnable(mem)
    BY <1>1 DEF Judged, Returnable, Row, Status, Reason
  <2> HIDE DEF new
  <2>3. /\ after.present = row.present /\ after.first = row.first /\ after.seen = row.seen
        /\ after.acct = row.acct /\ after.id = row.id
        /\ after.reason \in {row.reason, "none"}
        /\ \/ after.status \in {row.status, "used"}
           \/ after.status = "unused" /\ Returnable(mem)
    BY <1>1, <2>2, FlushFields
  <2> HIDE DEF after
  <2>4. Fine(after, barred[n], InSnapshot(n))
    BY <1>1, <1>3, <2>3 DEF Fine
  <2>5. \A m : Kept(row, m) => Kept(after, m)
    BY <2>3 DEF Kept, Returnable
  <2> QED
    BY <1>1, <2>1, <2>3, <2>4, <2>5
<1> QED
  BY <1>2, <1>3

(* So it keeps all of it, finished or throttled half way.                   *)
LEMMA CommitCalm ==
  ASSUME Typed, CalmInv, FillShape', w.pc = "describe", w' = GoFill,
         \A n \in Names :
           rows'[n] = IF n \in Answered THEN Item(n)
                      ELSE IF rows'[n] = rows[n] THEN rows[n]
                      ELSE IF w.list[n] = 0 THEN NoRow ELSE rows[n],
         aliyun'.cohorted, aliyun'.cohort = Cohort,
         UNCHANGED <<snaps, registrar, barred, del>>
  PROVE  CalmInv'
<1>1. ASSUME NEW n \in Names
      PROVE  \/ n \in Answered /\ w.list[n] # 0 /\ rows'[n] = Item(n)
             \/ rows'[n] = rows[n]
             \/ w.list[n] = 0 /\ rows'[n] = NoRow
  BY DEF Answered, Ready, OnHold
<1>2. ASSUME NEW n \in Names
      PROVE  /\ Fine(rows'[n], barred[n], InSnapshot(n))
             /\ rows[n].present => rows'[n].present
             /\ rows'[n].present => rows[n].present \/ w.list[n] # 0
             /\ \A mem : Kept(rows[n], mem) => Kept(rows'[n], mem)
  <2>1. CASE rows'[n] = rows[n]
    BY <2>1 DEF CalmInv, RowsFine
  <2>2. CASE n \in Answered /\ w.list[n] # 0 /\ rows'[n] = Item(n)
    BY <2>2, ItemFine
  <2>3. CASE w.list[n] = 0 /\ rows'[n] = NoRow
    <3>1. ~rows[n].present
      BY <2>3 DEF CalmInv, ListFine
    <3>2. /\ ~NoRow.present /\ NoRow.acct = None /\ NoRow.id = 0 /\ NoRow.reason = "none"
      BY DEF NoRow
    <3> QED
      BY <2>3, <3>1, <3>2 DEF Fine, Kept, Returnable
  <2> QED
    BY <1>1, <2>1, <2>2, <2>3
<1>3. RowsFine'
  BY <1>2 DEF RowsFine, InSnapshot
<1>4. CohortFine'
  <2>1. ASSUME NEW n \in Names
        PROVE  /\ registrar[n] # "hold"
               /\ rows'[n].present => registrar[n] = "ok"
    BY <1>2 DEF CalmInv, CohortFine, ListFine
  <2>2. ASSUME NEW n \in Names, barred[n] # "no", ~rows'[n].present
        PROVE  n \in Cohort
    <3>1. ~rows[n].present
      BY <1>2, <2>2
    <3> QED
      BY <2>2, <3>1 DEF CalmInv, CohortFine, ListFine, Cohort, Listed
  <2> QED
    BY <2>1, <2>2 DEF CohortFine
<1>5. ListFine' /\ FillFine'
  BY GoFillType DEF ListFine, FillFine, Filling
<1>6. DeletesFine'
  <2>1. \A d \in Deleters : del[d].pc \in Deleting => del[d].name \in Names
    BY DEF Deleting, Typed, Located
  <2> QED
    BY <1>2, <2>1 DEF CalmInv, DeletesFine
<1> QED
  BY <1>3, <1>4, <1>5, <1>6 DEF CalmInv

(* The last step of the Aliyun poll keeps the calm invariant.               *)
LEMMA AliyunCalm ==
  ASSUME Typed, CalmInv, FillShape',
         CommitAliyun \/ DescribeThrottled
  PROVE  CalmInv'
<1>1. /\ w.pc = "describe" /\ w' = GoFill
      /\ UNCHANGED <<snaps, registrar, barred, del>>
  BY DEF CommitAliyun, DescribeThrottled
<1>2. aliyun'.cohorted /\ aliyun'.cohort = Cohort
  <2>1. aliyun \in Aliyun /\ (aliyun.synced => aliyun.cohorted)
    BY DEF CalmInv, CohortFine, Typed, TypeOK
  <2>2. CASE CommitAliyun
    <3>1. aliyun' = [throttled |-> FALSE, synced |-> TRUE,
                     cohorted |-> aliyun.cohorted \/ ~aliyun.synced, cohort |-> Cohort]
      BY <2>2 DEF CommitAliyun
    <3> HIDE DEF Cohort
    <3>2. aliyun'.cohorted = (aliyun.cohorted \/ ~aliyun.synced) /\ aliyun'.cohort = Cohort
      BY <3>1
    <3> QED
      BY <2>1, <3>2
  <2>3. CASE DescribeThrottled
    BY <2>1, <2>3 DEF DescribeThrottled, Aliyun
  <2> QED
    BY <2>2, <2>3
<1>3. ASSUME NEW n \in Names
      PROVE  rows'[n] = IF n \in Answered THEN Item(n)
                        ELSE IF rows'[n] = rows[n] THEN rows[n]
                        ELSE IF w.list[n] = 0 THEN NoRow ELSE rows[n]
  <2>1. CASE CommitAliyun
    <3>1. rows'[n] = IF n \in Answered THEN Item(n)
                     ELSE IF Unlisted(n) THEN NoRow ELSE rows[n]
      BY <2>1 DEF CommitAliyun
    <3> QED
      BY <3>1 DEF Unlisted
  <2>2. CASE DescribeThrottled
    <3>1. rows'[n] = IF n \in Answered THEN Item(n) ELSE rows[n]
      BY <2>2 DEF DescribeThrottled
    <3> QED
      BY <3>1
  <2> QED
    BY <2>1, <2>2
<1> QED
  BY <1>1, <1>2, <1>3, CommitCalm
-----------------------------------------------------------------------------
(* The delete requests.  A row whose removal is under way is bound, or has  *)
(* only its records left to clean: not what the Aliyun poll gives back.     *)
LEMMA LockFillCalm ==
  ASSUME Typed, LocksHeld, CalmInv, FillShape', NEW d \in Deleters, LockFill(d)
  PROVE  CalmInv'
<1> DEFINE n   == del[d].name
           row == rows[n]
<1>1. /\ n \in Names /\ row \in Row /\ Deletable(row) /\ fillLock = None
      /\ UNCHANGED <<rows, snaps, aliyun, registrar, barred, w>>
  BY DEF LockFill, Typed, TypeOK, Located
<1>2. /\ del'[d].name = n /\ del'[d].mem = row
      /\ \A e \in Deleters \ {d} : del'[e] = del[e]
  BY DEF LockFill, Typed, TypeOK, DeleterState
<1>3. None \notin Accounts /\ (row.reason = "cleanup" \/ row.acct # None)
  BY <1>1, OwnersAssumption DEF Deletable, CleanupOnly, Bound
<1>4. Kept(row, row)
  BY <1>1, <1>3 DEF Kept, Returnable, Deletable, Bound, CleanupOnly
<1> HIDE DEF row
<1>5. DeletesFine'
  BY <1>1, <1>2, <1>4 DEF CalmInv, DeletesFine, row
<1>6. ListFine'
  <2>1. ASSUME NEW m \in Names, w.pc = "describe", w.list[m] = Ready,
               w.copies[m].present, Returnable(w.copies[m]),
               NEW e \in Deleters, del'[e].pc \in Deleting
        PROVE  del'[e].name # m
    BY <1>1, <1>2, <1>3, <2>1, NoDeleteMeanwhile DEF CalmInv, ListFine, row
  <2> QED
    BY <1>1, <2>1 DEF CalmInv, ListFine
<1>7. RowsFine' /\ Ordinary /\ FillFine'
  BY <1>1, RowsKept DEF CalmInv, FillFine
<1> QED
  BY <1>5, <1>6, <1>7, OrdinaryCohort DEF CalmInv

(* What a deletion leaves is no stock, or somebody made it stock.           *)
LEMMA CommitDeleteCalm ==
  ASSUME Typed, LocksHeld, CalmInv, FillShape', NEW d \in Deleters, CommitDelete(d)
  PROVE  CalmInv'
<1> DEFINE n   == del[d].name
           mem == del[d].mem
           row == rows[n]
           new == [mem EXCEPT !.acct = None, !.id = 0, !.filling = FALSE, !.status = "used",
                          !.reason = IF del[d].failed THEN "cleanup" ELSE "none"]
           after == Flush(row, mem, new)
<1>1. /\ n \in Names /\ row \in Row /\ mem \in Row /\ del[d].pc \in Deleting
      /\ Fine(row, barred[n], InSnapshot(n)) /\ Kept(row, mem) /\ row.present
  BY DEF CommitDelete, CanCommit, Typed, TypeOK, Located, DeleterState, Deleting,
     CalmInv, RowsFine, DeletesFine
<1>2. /\ rows' = [rows EXCEPT ![n] = after]
      /\ barred' = [barred EXCEPT ![n] = IF rows'[n].status = "unused" THEN "no" ELSE "panel"]
      /\ del' = [del EXCEPT ![d] = NoRequest]
      /\ UNCHANGED <<aliyun, registrar, w>>
  BY DEF CommitDelete, Leave
<1>3. \A m \in Names : InSnapshot(m)' => InSnapshot(m)
  BY DEF CommitDelete, InSnapshot, Typed, TypeOK
<1>4. /\ new \in Row /\ new.status = "used" /\ new.acct = None /\ new.id = 0
      /\ new.reason \in {"cleanup", "none"}
  BY <1>1 DEF Row, Status, Reason
<1> HIDE DEF new, row, mem
<1>5. /\ after.present = row.present /\ after.first = row.first /\ after.seen = row.seen
      /\ after.id # 0 => mem.id = 0 /\ after.id = row.id
      /\ after.reason # "readiness"
  <2>1. /\ after.present = row.present /\ after.first = row.first
        /\ after.seen = row.seen
        /\ after.id = IF new.id = mem.id THEN row.id ELSE new.id
        /\ after.reason = IF new.reason = mem.reason THEN row.reason ELSE new.reason
    <3>1. row \in Row /\ mem \in Row /\ new \in Row
      BY <1>1, <1>4
    <3> QED
      BY <3>1, FlushFields
  <2>2. row.reason = "readiness" => mem.reason = "readiness"
    BY <1>1 DEF Kept
  <2> HIDE DEF after
  <2> QED
    BY <1>4, <2>1, <2>2
<1> HIDE DEF after
<1>6. /\ rows'[n] = after
      /\ barred'[n] = IF after.status = "unused" THEN "no" ELSE "panel"
      /\ \A m \in Names \ {n} : rows'[m] = rows[m] /\ barred'[m] = barred[m]
  BY <1>1, <1>2 DEF Typed, TypeOK
<1> HIDE DEF n
<1>7. Fine(after, barred'[n], InSnapshot(n))
  BY <1>1, <1>5, <1>6 DEF Fine, Kept
<1>8. RowsFine'
  <2>1. ASSUME NEW m \in Names
        PROVE  Fine(rows'[m], barred'[m], InSnapshot(m))
    BY <1>6, <1>7 DEF CalmInv, RowsFine
  <2>2. \A m \in Names : (\E a \in Accounts : m \in snaps'[a]) => InSnapshot(m)
    BY <1>3 DEF InSnapshot
  <2> QED
    BY <2>1, <2>2 DEF RowsFine, Fine, InSnapshot
<1>9. /\ \A m \in Names : rows'[m].present = rows[m].present
      /\ \A m \in Names : ~rows[m].present => barred'[m] = barred[m]
  BY <1>1, <1>5, <1>6 DEF row
<1>10. CohortFine'
  BY <1>2, <1>9 DEF CalmInv, CohortFine
<1>11. /\ \A e \in Deleters : del'[e].pc \notin Deleting
       /\ w.pc \notin Filling
  <2>1. \A e \in Deleters : del[e].pc \in Deleting => e = d
    BY <1>1 DEF LocksHeld
  <2>2. w.pc \notin Filling
    BY <1>1, OwnersAssumption DEF LocksHeld
  <2> QED
    BY <1>2, <2>1, <2>2, NoRequestType DEF Deleting, Typed, TypeOK
<1>12. ListFine'
  <2>1. ASSUME NEW m \in Names, w.pc = "describe", w.list[m] = Ready,
               w.copies[m].present, Returnable(w.copies[m])
        PROVE  m # n
    BY <1>1, <2>1 DEF CalmInv, ListFine, n
  <2> QED
    BY <1>2, <1>6, <1>9, <1>11, <2>1 DEF CalmInv, ListFine
<1>13. FillFine' /\ DeletesFine'
  BY <1>2, <1>11 DEF FillFine, DeletesFine
<1> QED
  BY <1>8, <1>10, <1>12, <1>13 DEF CalmInv

(* The panel: the person in charge releases a domain or not.                *)
LEMMA UpdateCalm ==
  ASSUME Typed, CalmInv, FillShape', NEW n \in Names, NEW status \in Status,
         UpdateDomain(n, status)
  PROVE  CalmInv'
<1> DEFINE row   == rows[n]
           free  == status = "unused" /\ ~InSnapshot(n)
           after == [row EXCEPT !.status = status, !.filling = FALSE,
                       !.reason = IF status = "error" THEN @ ELSE "none",
                       !.acct   = IF free THEN None ELSE @,
                       !.id     = IF free THEN 0 ELSE @]
<1>1. /\ row \in Row /\ row.present /\ Fine(row, barred[n], InSnapshot(n))
      /\ UNCHANGED <<snaps, aliyun, registrar, w, del>>
  BY DEF UpdateDomain, Typed, TypeOK, CalmInv, RowsFine
<1>2. /\ rows'[n] = after
      /\ barred'[n] = IF status = "unused" THEN "no" ELSE barred[n]
      /\ \A m \in Names \ {n} : rows'[m] = rows[m] /\ barred'[m] = barred[m]
  BY DEF UpdateDomain, Typed, TypeOK
<1>3. /\ after.present = row.present /\ after.first = row.first /\ after.seen = row.seen
      /\ after.status = status
      /\ after.reason = IF status = "error" THEN row.reason ELSE "none"
      /\ after.acct = IF free THEN None ELSE row.acct
      /\ after.id = IF free THEN 0 ELSE row.id
  BY <1>1 DEF Row
<1> HIDE DEF after, free, row
<1>4. Fine(after, barred'[n], InSnapshot(n))
  BY <1>1, <1>2, <1>3 DEF Fine, free
<1>5. \A mem : Kept(row, mem) => Kept(after, mem)
  BY <1>1, <1>3 DEF Kept, Returnable, free
<1>6. RowsFine'
  BY <1>1, <1>2, <1>4 DEF CalmInv, RowsFine, InSnapshot
<1>7. CohortFine'
  BY <1>1, <1>2, <1>3 DEF CalmInv, CohortFine, row
<1>8. ListFine'
  <2>1. ASSUME NEW m \in Names
        PROVE  /\ rows'[m].present = rows[m].present
               /\ barred'[m] # "no" => barred[m] # "no"
               /\ rows[m].acct = None => rows'[m].acct = None
               /\ rows[m].reason # "cleanup" => rows'[m].reason # "cleanup"
    BY <1>2, <1>3 DEF row
  <2> QED
    BY <1>1, <2>1 DEF CalmInv, ListFine
<1>9. FillFine'
  <2>1. ASSUME NEW m \in Names
        PROVE  /\ barred'[m] # "no" => barred[m] # "no" /\ rows'[m].id = rows[m].id
               /\ rows'[m].acct # None => rows'[m].acct = rows[m].acct /\ rows'[m].id = rows[m].id
               /\ barred[m] = "no" => barred'[m] = "no"
    BY <1>2, <1>3 DEF row, free
  <2>2. w.pc \in Filling => w.name \in Names
    BY DEF Typed, Located
  <2> QED
    BY <1>1, <2>1, <2>2 DEF CalmInv, FillFine
<1>10. DeletesFine'
  <2>1. \A d \in Deleters : del[d].pc \in Deleting => del[d].name \in Names
    BY DEF Deleting, Typed, Located
  <2> QED
    BY <1>1, <1>2, <1>5, <2>1 DEF CalmInv, DeletesFine, row
<1> QED
  BY <1>6, <1>7, <1>8, <1>9, <1>10 DEF CalmInv

(* A domain whose account is deleted without an id of its own waits for no  *)
(* registrar; one with an id is in use.                                     *)
LEMMA DeleteAccountCalm ==
  ASSUME Typed, CalmInv, FillShape', NEW a \in Accounts, DeleteAccount(a)
  PROVE  CalmInv'
<1>1. /\ UNCHANGED <<aliyun, registrar, w, del, barred>>
      /\ \A n \in Names : InSnapshot(n)' => InSnapshot(n)
  BY DEF DeleteAccount, InSnapshot, Typed, TypeOK
<1>2. ASSUME NEW n \in Names
      PROVE  /\ Fine(rows'[n], barred[n], InSnapshot(n))
             /\ rows'[n].present = rows[n].present
             /\ rows'[n].id = rows[n].id
             /\ rows'[n].acct \in {rows[n].acct, None}
             /\ rows'[n].reason \in {rows[n].reason, "none"}
             /\ \A mem : Kept(rows[n], mem) => Kept(rows'[n], mem)
  <2> DEFINE row  == rows[n]
             left == [row EXCEPT !.acct = None, !.filling = FALSE]
             used == [row EXCEPT !.acct = None, !.filling = FALSE,
                                 !.status = "used", !.reason = "none"]
  <2>1. row \in Row /\ Fine(row, barred[n], InSnapshot(n)) /\ None \notin Accounts
    BY OwnersAssumption DEF Typed, TypeOK, CalmInv, RowsFine
  <2>2. \/ rows'[n] = row
        \/ row.acct = a /\ row.id = 0 /\ rows'[n] = left
        \/ rows'[n] = used
    BY DEF DeleteAccount
  <2>3. /\ left.present = row.present /\ left.id = row.id /\ left.acct = None
        /\ left.reason = row.reason /\ left.status = row.status
        /\ left.first = row.first /\ left.seen = row.seen
    BY <2>1 DEF Row
  <2>4. /\ used.present = row.present /\ used.id = row.id /\ used.acct = None
        /\ used.reason = "none" /\ used.status = "used"
        /\ used.first = row.first /\ used.seen = row.seen
    BY <2>1 DEF Row
  <2> HIDE DEF row, left, used
  <2>5. CASE rows'[n] = row
    BY <2>1, <2>5 DEF row
  <2>6. CASE row.acct = a /\ row.id = 0 /\ rows'[n] = left
    BY <2>1, <2>3, <2>6 DEF row, Fine, Kept, Returnable
  <2>7. CASE rows'[n] = used
    BY <2>1, <2>4, <2>7 DEF row, Fine, Kept, Returnable
  <2> QED
    BY <2>2, <2>5, <2>6, <2>7
<1>3. RowsFine'
  <2>1. \A n \in Names : (\E b \in Accounts : n \in snaps'[b]) => InSnapshot(n)
    BY <1>1 DEF InSnapshot
  <2> QED
    BY <1>1, <1>2, <2>1 DEF RowsFine, Fine, InSnapshot
<1>4. CohortFine'
  BY <1>1, <1>2 DEF CalmInv, CohortFine
<1>5. ListFine'
  BY <1>1, <1>2 DEF CalmInv, ListFine
<1>6. FillFine'
  <2>1. w.pc \in Filling => w.name \in Names
    BY DEF Typed, Located
  <2> QED
    BY <1>1, <1>2, <2>1 DEF CalmInv, FillFine
<1>7. DeletesFine'
  <2>1. \A d \in Deleters : del[d].pc \in Deleting => del[d].name \in Names
    BY DEF Deleting, Typed, Located
  <2> QED
    BY <1>1, <1>2, <2>1 DEF CalmInv, DeletesFine
<1> QED
  BY <1>3, <1>4, <1>5, <1>6, <1>7 DEF CalmInv

(* A purchase is new to every table.                                        *)
LEMMA PurchaseCalm ==
  ASSUME Typed, CalmInv, FillShape', Purchase
  PROVE  CalmInv'
<1>1. /\ UNCHANGED <<rows, snaps, aliyun, barred, w, del>>
      /\ \A n \in Names : registrar'[n] \in {registrar[n], "ok"}
  BY DEF Purchase, RegistrarChanges, Typed, TypeOK
<1>2. RowsFine' /\ FillFine' /\ DeletesFine'
  BY <1>1 DEF CalmInv, RowsFine, InSnapshot, FillFine, DeletesFine
<1>3. CohortFine'
  BY <1>1 DEF CalmInv, CohortFine
<1>4. ListFine'
  BY <1>1 DEF CalmInv, ListFine
<1> QED
  BY <1>2, <1>3, <1>4 DEF CalmInv
-----------------------------------------------------------------------------
(* What a first start and an installed one find.                            *)
LEMMA InitCalm == Init => CalmInv
<1> SUFFICES ASSUME NEW bound \in [Names -> Accounts \cup {None}],
                    NEW owned \in SUBSET Names, NEW served \in SUBSET Names,
                    InitFrom(bound, owned, served)
             PROVE  CalmInv
  BY DEF Init
<1>1. w.pc = "idle" /\ \A d \in Deleters : del[d].pc = "idle"
  BY RestingType, NoRequestType DEF InitFrom
<1>2. FillShape /\ ListFine /\ FillFine /\ DeletesFine
  BY <1>1 DEF FillShape, ListFine, FillFine, DeletesFine, Filling, BeforeIds, Deleting
<1>3. None \notin Accounts /\ Installed \in BOOLEAN
  BY OwnersAssumption, CountsAssumption
<1>4. \A n \in Names : bound[n] # None => n \in owned
  BY DEF InitFrom
<1>5. ASSUME NEW n \in Names
      PROVE  /\ rows[n].present => Installed /\ n \in owned
             /\ ~rows[n].present => ~(Installed /\ n \in owned)
             /\ Fine(rows[n], barred[n], InSnapshot(n))
  <2> DEFINE taken == FirstRow(bound[n])
  <2>1. NoRow.present = FALSE /\ NoRow.acct = None
    BY DEF NoRow
  <2>2. /\ taken.present = TRUE /\ taken.reason = "none"
        /\ bound[n] = None => taken.acct = None /\ taken.id = 0
        /\ bound[n] # None => taken.status = "used" /\ taken.first /\ taken.seen
    <3>1. CASE bound[n] = None
      BY <3>1 DEF FirstRow, NoRow
    <3>2. CASE bound[n] # None
      BY <3>2 DEF FirstRow, NoRow
    <3> QED
      BY <3>1, <3>2
  <2>3. /\ rows[n] = IF Installed /\ n \in owned THEN taken ELSE NoRow
        /\ barred[n] = IF bound[n] # None \/ (~Installed /\ n \in owned) THEN "first"
                                                                        ELSE "no"
    BY DEF InitFrom
  <2> HIDE DEF taken
  <2>4. CASE Installed /\ n \in owned
    BY <2>2, <2>3, <2>4 DEF Fine
  <2>5. CASE ~(Installed /\ n \in owned)
    BY <2>1, <2>3, <2>5 DEF Fine
  <2> QED
    BY <2>1, <2>2, <2>3, <2>4, <2>5
<1>6. RowsFine
  BY <1>5 DEF RowsFine
<1>7. /\ aliyun.synced = Installed /\ aliyun.cohorted = Installed
      /\ aliyun.cohort = {n \in Names : Installed /\ bound[n] # None}
      /\ \A n \in Names : registrar[n] = IF n \in owned THEN "ok" ELSE "none"
      /\ \A n \in Names : barred[n] # "no" => bound[n] # None \/ (~Installed /\ n \in owned)
  BY DEF InitFrom
<1>8. CohortFine
  BY <1>3, <1>4, <1>5, <1>7 DEF CohortFine
<1> QED
  BY <1>2, <1>6, <1>8 DEF CalmInv

(* Every calm step keeps all of it.                                         *)
LEMMA NextCalm ==
  ASSUME Typed, LocksHeld, IdsFollow, CalmInv, [CalmNext]_vars
  PROVE  CalmInv'
<1>1. FillShape'
  BY NextFillShape, CalmIsNext DEF CalmInv
<1>2. ASSUME UNCHANGED <<rows, snaps, barred, registrar>>,
             aliyun' = aliyun \/ \E b : aliyun' = [aliyun EXCEPT !.throttled = b],
             w' = w \/ Elsewhere,
             del' = del \/ \E d \in Deleters : \E r :
               /\ del' = [del EXCEPT ![d] = r]
               /\ r.pc \in Deleting => /\ del[d].pc \in Deleting
                                       /\ r.name = del[d].name /\ r.mem = del[d].mem
      PROVE  CalmInv'
  <2>1. \A d \in Deleters : del'[d].pc \in Deleting =>
          del[d].pc \in Deleting /\ del'[d].name = del[d].name /\ del'[d].mem = del[d].mem
    BY <1>2 DEF Typed, TypeOK
  <2> QED
    BY <1>1, <1>2, <2>1, QuietCalm
<1>3. CASE StartCycle \/ EndPolls \/ AbortCycle
  BY <1>2, <1>3, PollsElsewhere DEF StartCycle, EndPolls, AbortCycle
<1>4. CASE Crash
  <2>1. \A d \in Deleters : del'[d].pc \notin Deleting
    BY <1>4, NoRequestType DEF Crash, Deleting
  <2>2. /\ UNCHANGED <<rows, snaps, barred, registrar, aliyun>> /\ Elsewhere
    BY <1>4, PollsElsewhere DEF Crash
  <2> QED
    BY <1>1, <2>1, <2>2, QuietCalm
<1>5. CASE PollYydsStep \/ PollYydsFault
  <2>1. CASE Reconcile
    BY <1>1, <2>1, ReconcileCalm
  <2>2. Elsewhere
    BY <1>5, PollsElsewhere
  <2> QED
    BY <1>2, <1>5, <2>1, <2>2 DEF PollYydsStep, PollYydsFault, SkipThrottled, BeginPoll,
       ReadList, ReadPoorly, Fetch, RefuseList, PollFails
<1>6. CASE PollAliyunStep \/ PollAliyunFault
  <2>1. CASE ListAliyun
    BY <1>1, <2>1, ListCalm
  <2>2. CASE CommitAliyun \/ DescribeThrottled
    BY <1>1, <2>2, AliyunCalm
  <2>4. CASE \E n \in Names : Describe(n) \/ DescribeFails(n)
    BY <1>1, <2>4, DescribeCalm
  <2>3. CASE SkipAliyun \/ EmptyList \/ AliyunListFails
    <3>1. Elsewhere
      BY <2>3, PollsElsewhere
    <3> QED
      BY <1>2, <2>3, <3>1 DEF SkipAliyun, EmptyList, AliyunListFails
  <2> QED
    BY <1>6, <2>1, <2>2, <2>3, <2>4 DEF PollAliyunStep, PollAliyunFault
<1>7. CASE FillStep \/ FillFault \/ AddUnanswered
  BY <1>1, <1>7, FillCalm
<1>8. ASSUME NEW d \in Deleters, DeleteYydsStep(d) \/ DeleteYydsFault(d)
      PROVE  CalmInv'
  <2>1. CASE LockFill(d)
    BY <1>1, <2>1, LockFillCalm
  <2>2. CASE CommitDelete(d)
    BY <1>1, <2>2, CommitDeleteCalm
  <2>3. del[d] \in DeleterState
    BY DEF Typed, TypeOK
  <2>4. CASE Refused(d) \/ CommitDeleteFails(d) \/ DeleteRemoteFails(d)
    BY <1>2, <2>4, NoRequestType DEF Refused, CommitDeleteFails, DeleteRemoteFails, Leave,
       Deleting
  <2>5. ASSUME UNCHANGED <<rows, snaps, aliyun, barred, registrar, w>>,
               del[d].pc \in Deleting, NEW r, del' = [del EXCEPT ![d] = r],
               r.name = del[d].name, r.mem = del[d].mem
        PROVE  CalmInv'
    BY <1>2, <2>5
  <2>6. ASSUME LockSession(d)
        PROVE  CalmInv'
    <3> DEFINE r == [del[d] EXCEPT !.pc = IF del[d].retry THEN "cleanup" ELSE "remote"]
    <3>1. r.name = del[d].name /\ r.mem = del[d].mem
      BY <2>3 DEF DeleterState
    <3>2. del' = [del EXCEPT ![d] = r]
      BY <2>6 DEF LockSession
    <3> HIDE DEF r
    <3> QED
      BY <2>5, <2>6, <3>1, <3>2 DEF LockSession, Deleting
  <2>7. ASSUME DeleteRemote(d)
        PROVE  CalmInv'
    <3> DEFINE r == [del[d] EXCEPT !.pc = "cleanup", !.gone = KnownToYyds(d)]
    <3>1. r.name = del[d].name /\ r.mem = del[d].mem
      BY <2>3 DEF DeleterState
    <3>2. del' = [del EXCEPT ![d] = r]
      BY <2>7 DEF DeleteRemote
    <3> HIDE DEF r
    <3> QED
      BY <2>5, <2>7, <3>1, <3>2 DEF DeleteRemote, Deleting
  <2>8. ASSUME NEW failed \in BOOLEAN,
               \/ CleanDns(d) /\ failed = FALSE
               \/ CleanDnsRefused(d) /\ failed = TRUE
               \/ CleanDnsFails(d) /\ failed = TRUE
        PROVE  CalmInv'
    <3> DEFINE r == [del[d] EXCEPT !.pc = "commit", !.failed = failed]
    <3>1. r.name = del[d].name /\ r.mem = del[d].mem
      BY <2>3 DEF DeleterState
    <3>2. del' = [del EXCEPT ![d] = r]
      BY <2>8 DEF CleanDns, CleanDnsRefused, CleanDnsFails
    <3> HIDE DEF r
    <3> QED
      BY <2>5, <2>8, <3>1, <3>2 DEF CleanDns, CleanDnsRefused, CleanDnsFails, Deleting
  <2> QED
    BY <1>8, <2>1, <2>2, <2>4, <2>6, <2>7, <2>8 DEF DeleteYydsStep, DeleteYydsFault
<1>9. ASSUME NEW d \in Deleters, NEW n \in Names, RequestDelete(d, n)
      PROVE  CalmInv'
  <2> DEFINE r == [NoRequest EXCEPT !.pc = "fillLock", !.name = n, !.acct = rows[n].acct,
                                    !.used = UsedOf(rows[n].acct)]
  <2>1. r.pc = "fillLock"
    BY DEF NoRequest
  <2>2. del' = [del EXCEPT ![d] = r]
    BY <1>9 DEF RequestDelete
  <2> HIDE DEF r
  <2> QED
    BY <1>2, <1>9, <2>1, <2>2 DEF RequestDelete, Deleting
<1>10. CASE Update \/ RemoveAccount \/ Purchase
  BY <1>1, <1>10, UpdateCalm, DeleteAccountCalm, PurchaseCalm DEF Update, RemoveAccount
<1>11. CASE Website \/ ThrottleEnds
  BY <1>2, <1>11 DEF Website, PersonDeletes, PersonAdds, ThrottleEnds, AliyunThrottleEnds,
     YydsThrottleEnds
<1>12. CASE UNCHANGED vars
  BY <1>2, <1>12 DEF vars
<1> QED
  BY <1>3, <1>4, <1>5, <1>6, <1>7, <1>8, <1>9, <1>10, <1>11, <1>12
     DEF CalmNext, WorkerStep, Fault, Request

(* The calm invariant holds in every calm history.                          *)
LEMMA CalmInvariant == CalmSpec => [](Typed /\ LocksHeld /\ IdsFollow /\ CalmInv)
<1>1. Init => Typed /\ LocksHeld /\ IdsFollow /\ CalmInv
  BY InitType, InitLocks, InitFollows, InitCalm
<1>2. Typed /\ LocksHeld /\ IdsFollow /\ CalmInv /\ [CalmNext]_vars
        => (Typed /\ LocksHeld /\ IdsFollow /\ CalmInv)'
  BY CalmIsNext, NextType, NextLocks, NextFollows, NextCalm
<1> QED
  BY <1>1, <1>2, PTL DEF CalmSpec

(* The program adds to yyds only what is stock, in every calm history: no   *)
(* domain of the first synchronisation, and none that was deleted in the    *)
(* panel or seen deleted on yyds, before a person set it to unused.         *)
THEOREM AddedFromStock == CalmSpec => OnlyStockIsAdded
<1>1. Typed /\ CalmInv /\ [CalmNext]_vars
        => [\A n \in Names : Added(n) => barred[n] = "no"]_vars
  BY CalmIsNext, AddedByFill DEF CalmInv, FillFine, FillShape, Filling
<1> QED
  BY <1>1, CalmInvariant, PTL DEF CalmSpec, OnlyStockIsAdded
-----------------------------------------------------------------------------
(* How the status of a row may change in a calm step.  Only a person sets   *)
(* a status as he likes; the worker turns a row to unused when its fill is  *)
(* put off before it has an id, or when the Aliyun poll gives it back.      *)
StatusMove(n) ==
  \/ ~rows'[n].present
  \/ rows[n].present /\ rows'[n].status = rows[n].status
  \/ rows'[n].status = "used"
  \/ rows[n].present /\ rows[n].status = "unused" /\ rows'[n].status = "error"
  \/ /\ w.pc \in Filling /\ n = w.name
     /\ rows'[n].status = "unused" => rows[n].id = 0
  \/ ~rows[n].present /\ barred[n] = "no"
  \/ /\ w.pc = "describe" /\ w.list[n] = Ready /\ w.copies[n].present
     /\ w.copies[n].status = "error" /\ Returnable(w.copies[n])
  \/ \E status \in Status : UpdateDomain(n, status) /\ rows'[n].status = status

(* The end of a fill,                                                       *)
LEMMA EndStatus ==
  ASSUME Typed, CalmInv, w.pc \in Filling
  PROVE  /\ GiveUp.status = rows[w.name].status
         /\ \A reason \in Reason :
              Unusable(reason).status \in {rows[w.name].status, "error"}
         /\ \A kind \in {"throttled", "error", "unexpected"}, reason \in Reason :
              \/ Handled(kind, reason).status \in {rows[w.name].status, "error"}
              \/ rows[w.name].id = 0
<1> DEFINE row == rows[w.name]
<1>1. row \in Row /\ w.mem \in Row
  BY FillRow
<1>2. ASSUME NEW new \in Row
      PROVE  Loaded(new).status = IF new.status = w.mem.status THEN row.status ELSE new.status
  BY <1>1, <1>2, FlushFields DEF Loaded
<1>3. GiveUp.status = row.status
  <2> DEFINE new == [w.mem EXCEPT !.filling = FALSE]
  <2>1. new \in Row /\ new.status = w.mem.status
    BY <1>1 DEF Row
  <2>2. GiveUp = Loaded(new)
    BY DEF GiveUp
  <2> HIDE DEF new, row
  <2> QED
    BY <1>2, <2>1, <2>2
<1>4. ASSUME NEW reason \in Reason
      PROVE  Unusable(reason).status \in {row.status, "error"}
  <2> DEFINE new == [w.mem EXCEPT !.filling = FALSE, !.status = "error", !.reason = reason]
  <2>1. new \in Row /\ new.status = "error"
    BY <1>1 DEF Row, Status
  <2>2. Unusable(reason) = Loaded(new)
    BY DEF Unusable
  <2> HIDE DEF new, row
  <2> QED
    BY <1>2, <2>1, <2>2
<1>5. ASSUME NEW kind \in {"throttled", "error", "unexpected"}, NEW reason \in Reason
      PROVE  Handled(kind, reason).status \in {row.status, "error"} \/ row.id = 0
  BY <1>4, HandledColumns
<1> QED
  BY <1>3, <1>4, <1>5

(* however it ends,                                                         *)
LEMMA FinishStatus ==
  ASSUME Typed, w.pc \in Filling, NEW row, Finish(row),
         \/ row.status \in {rows[w.name].status, "error", "used"}
         \/ rows[w.name].id = 0,
         row.present = rows[w.name].present, NEW n \in Names
  PROVE  StatusMove(n)
<1>1. rows' = [rows EXCEPT ![w.name] = row] /\ rows \in [Names -> Row]
  BY DEF Finish, Typed, TypeOK
<1>2. CASE n # w.name
  BY <1>1, <1>2 DEF StatusMove
<1>3. CASE n = w.name
  BY <1>1, <1>3 DEF StatusMove, Typed, TypeOK, Row
<1> QED
  BY <1>2, <1>3

(* and whatever it is that fails,                                           *)
LEMMA FailsStatus ==
  ASSUME Typed, CalmInv, w.pc \in Filling, NEW n \in Names,
         \/ YydsFails \/ CountedYydsFails \/ AliyunThrottles \/ Fails("error", "other")
         \/ CountedFails("error", "other") \/ Fails("unexpected", "propagating")
  PROVE  StatusMove(n)
<1>1. PICK kind \in {"throttled", "error", "unexpected"}, reason \in Reason :
        Finish(Handled(kind, reason))
  BY DEF YydsFails, YydsThrottles, Fails, AliyunThrottles, CountedYydsFails, CountedFails,
     Reason
<1> QED
  BY <1>1, EndStatus, EndedPresent, FinishStatus

(* a step of it,                                                            *)
LEMMA FillStatus ==
  ASSUME Typed, CalmInv, FillStep \/ FillFault \/ AddUnanswered, NEW n \in Names
  PROVE  StatusMove(n)
<1> USE DEF Filling
<1>1. rows[n] \in Row /\ rows \in [Names -> Row]
  BY DEF Typed, TypeOK
<1>2. "other" \in Reason /\ "readiness" \in Reason
  BY DEF Reason
<1>3. CASE UNCHANGED rows
  BY <1>3 DEF StatusMove
<1>4. /\ Cleared[n] \in Row /\ Stock[n] \in Row
      /\ Cleared[n].present = rows[n].present /\ Stock[n].present = rows[n].present
      /\ \/ Cleared[n].status = rows[n].status
         \/ rows[n].status = "unused" /\ Cleared[n].status = "error"
      /\ \/ Stock[n].status = rows[n].status
         \/ rows[n].status = "unused" /\ Stock[n].status = "error"
  <2>1. /\ Cleared[n] \in Row /\ Stock[n] \in Row
        /\ Cleared[n].present = rows[n].present /\ Stock[n].present = rows[n].present
    BY ClearedType, StockFine DEF CalmInv
  <2>2. Cleared[n] = Unstuck(rows[n]) /\ Stock[n] = Usable(Cleared[n])
    BY DEF Cleared, Stock
  <2>3. \/ Cleared[n].status = rows[n].status
        \/ rows[n].status = "unused" /\ Cleared[n].status = "error"
    BY <1>1, <2>2 DEF Unstuck, Row
  <2> HIDE DEF Cleared, Stock
  <2>4. \/ Stock[n].status = Cleared[n].status
        \/ Cleared[n].status = "unused" /\ Stock[n].status = "error"
    BY <2>1, <2>2 DEF Usable, Row
  <2> QED
    BY <2>1, <2>3, <2>4
<1>5. CASE \/ \E m \in Names : StartRepair(m)
           \/ \E m \in Names, a \in Accounts : StartFill(m, a) \/ FindOccupied(m, a)
           \/ NothingToFill
  <2>1. rows'[n].present = rows[n].present
    BY <1>5, StartFine DEF CalmInv
  <2>2. Cleared \in [Names -> Row] /\ Stock \in [Names -> Row]
    BY ClearedType
  <2>3. rows'[n].status \in {Stock[n].status, Cleared[n].status, "used"}
    <3>1. ASSUME NEW m \in Names, rows' = [Cleared EXCEPT ![m].filling = TRUE]
          PROVE  rows'[n].status = Cleared[n].status
      BY <1>4, <2>2, <3>1 DEF Row
    <3>2. ASSUME NEW m \in Names, rows' = [Stock EXCEPT ![m].filling = TRUE]
          PROVE  rows'[n].status = Stock[n].status
      BY <1>4, <2>2, <3>2 DEF Row
    <3>3. ASSUME NEW m \in Names, NEW a \in Accounts,
                 rows' = [Stock EXCEPT ![m].status = "used", ![m].acct = a,
                                       ![m].reason = "none"]
          PROVE  rows'[n].status \in {Stock[n].status, "used"}
      BY <1>4, <2>2, <3>3 DEF Row
    <3> QED
      BY <1>5, <3>1, <3>2, <3>3 DEF StartRepair, StartFill, FindOccupied, NothingToFill
  <2> HIDE DEF Stock, Cleared
  <2> QED
    BY <1>4, <2>1, <2>3 DEF StatusMove
<1>6. ASSUME w.pc \in Filling, NEW new, new.status = w.mem.status,
             rows' = [rows EXCEPT ![w.name] = Loaded(new)]
      PROVE  StatusMove(n)
  <2>1. w.name \in Names /\ rows[w.name] \in Row
    BY <1>6, FillRow
  <2>2. /\ Loaded(new).status = rows[w.name].status
        /\ Loaded(new).present = rows[w.name].present
    BY <1>6, <2>1 DEF Loaded, Flush, Row
  <2>3. rows'[n].status = rows[n].status /\ rows'[n].present = rows[n].present
    BY <1>1, <1>6, <2>1, <2>2
  <2> QED
    BY <1>1, <2>3 DEF StatusMove, Row
<1>7. w.mem \in Row
  BY DEF Typed, TypeOK, WorkerState
<1>8. ASSUME w.pc \in Filling, NEW id,
             rows' = [rows EXCEPT ![w.name] =
                        Loaded([w.mem EXCEPT !.acct = w.acct, !.id = id])]
      PROVE  StatusMove(n)
  <2>1. [w.mem EXCEPT !.acct = w.acct, !.id = id].status = w.mem.status
    BY <1>7 DEF Row
  <2> QED
    BY <1>6, <1>8, <2>1
<1>9. CASE WriteDns
  <2>1. [w.mem EXCEPT !.hold = FALSE].status = w.mem.status
    BY <1>7 DEF Row
  <2> QED
    BY <1>6, <1>9, <2>1 DEF WriteDns, Settled
<1>10. CASE SyncUsage \/ SyncPoorly
  <2>1. PICK names, quota : Sync(names, quota)
    BY <1>10 DEF SyncUsage, SyncPoorly
  <2>2. w.pc \in Filling
    BY <2>1 DEF Sync
  <2>3. CASE Finish(GiveUp)
    BY <2>2, <2>3, EndStatus, EndedPresent, FinishStatus
  <2>4. CASE \E id : rows' = [rows EXCEPT ![w.name] =
                                Loaded([w.mem EXCEPT !.acct = w.acct, !.id = id])]
    BY <1>8, <2>2, <2>4
  <2> QED
    BY <1>3, <2>1, <2>3, <2>4 DEF Sync
<1>11. CASE AddConflicts \/ CommitIds
  <2>1. w.pc \in Filling
    BY <1>11 DEF AddConflicts, CommitIds
  <2> QED
    BY <1>8, <1>11, <2>1, FailsStatus DEF AddConflicts, CommitIds
<1>12. CASE RegistrarFails
  <2>1. w.pc = "registrar" /\ w.name \in Names
    BY <1>12 DEF RegistrarFails, Typed, Located
  <2>2. CASE Finish(Unusable("readiness")) \/ Finish(Unusable("other"))
    BY <1>2, <2>1, <2>2, EndStatus, EndedPresent, FinishStatus
  <2>3. ASSUME w.mem.id = 0,
               Finish(Loaded([w.mem EXCEPT !.filling = FALSE, !.status = "unused",
                                           !.reason = "none"]))
        PROVE  StatusMove(n)
    <3> DEFINE new == [w.mem EXCEPT !.filling = FALSE, !.status = "unused", !.reason = "none"]
    <3>1. w.mem.status = "unused"
      BY <2>1, <2>3 DEF CalmInv, FillShape, BeforeIds
    <3>2. new.status = w.mem.status
      BY <1>7, <3>1 DEF Row
    <3>3. rows' = [rows EXCEPT ![w.name] = Loaded(new)]
      BY <2>3 DEF Finish
    <3> HIDE DEF new
    <3> QED
      BY <1>6, <2>1, <3>2, <3>3
  <2> QED
    BY <1>12, <2>2, <2>3 DEF RegistrarFails
<1>13. CASE Verified
  <2> DEFINE new == [w.mem EXCEPT !.filling = FALSE, !.status = "used", !.reason = "none"]
  <2>1. new.status = "used"
    BY <1>7 DEF Row
  <2>2. w.pc \in Filling /\ Finish(Loaded(new))
    BY <1>13 DEF Verified
  <2> HIDE DEF new
  <2>3. Loaded(new).status \in {rows[w.name].status, "used"}
    BY <2>1, <2>2, FillRow DEF Loaded, Flush, Row
  <2> QED
    BY <2>2, <2>3, EndedPresent, FinishStatus
<1>14. CASE RegistrarUnknown
  BY <1>2, <1>14, EndStatus, EndedPresent, FinishStatus DEF RegistrarUnknown
<1>15. CASE SyncFails
  BY <1>15, EndStatus, EndedPresent, FinishStatus, FailsStatus DEF SyncFails
<1>16. CASE \/ AddFails \/ AddUnanswered \/ WriteDnsFails \/ GuideFails \/ DomainGone
            \/ VerifyFails
  BY <1>16, FailsStatus DEF AddFails, AddUnanswered, WriteDnsFails, GuideFails, DomainGone,
     VerifyFails
<1>17. ~RegistrarRefuses
  BY DEF RegistrarRefuses, CalmInv, CohortFine, Typed, Located
<1> QED
  BY <1>3, <1>5, <1>9, <1>10, <1>11, <1>12, <1>13, <1>14, <1>15, <1>16, <1>17
     DEF FillStep, FillFault, RegistrarReady, EnterSession, AddDomain

(* the polls,                                                               *)
LEMMA PollStatus ==
  ASSUME Typed, CalmInv, Reconcile \/ PollAliyunStep \/ PollAliyunFault, NEW n \in Names
  PROVE  StatusMove(n)
<1>1. rows[n] \in Row
  BY DEF Typed, TypeOK
<1>2. CASE UNCHANGED rows
  BY <1>2 DEF StatusMove
<1>3. CASE Reconcile
  <2>1. rows'[n] = Reconciled(rows[n], n, w.list, w.acct)
    BY <1>3 DEF Reconcile
  <2>2. \/ rows'[n].status \in {rows[n].status, "used"}
    BY <1>1, <2>1 DEF Reconciled, StatusAfterRemoved, Row
  <2>3. rows'[n].present = rows[n].present
    BY <1>3, ReconciledFine
  <2> QED
    BY <1>1, <2>2, <2>3 DEF StatusMove, Row
<1>4. ASSUME w.pc = "describe", n \in Answered, rows'[n] = Item(n)
      PROVE  StatusMove(n)
  <2>1. /\ w.list[n] = Ready /\ w.list[n] # OnHold
        /\ w.copies[n].present = rows[n].present /\ w.copies[n] \in Row
    BY <1>4 DEF CalmInv, ListFine, Typed, TypeOK, WorkerState, Answered, Ready, OnHold
  <2>2. CASE ~w.copies[n].present
    <3>1. Discovered(n).status # "error"
      BY <2>1 DEF Discovered, NoRow
    <3>2. rows'[n] = Discovered(n)
      BY <1>4, <2>2 DEF Item
    <3>3. Fine(rows'[n], barred[n], InSnapshot(n)) /\ rows'[n] \in Row
      BY <1>4, ItemFine, ItemType
    <3> HIDE DEF Discovered
    <3> QED
      BY <2>1, <2>2, <3>1, <3>2, <3>3 DEF Fine, StatusMove, Row, Status
  <2>3. CASE w.copies[n].present
    <3> DEFINE mem == w.copies[n]
               new == Judged(mem)
    <3>1. rows'[n] = Flush(rows[n], mem, new)
      BY <1>4, <2>1, <2>3 DEF Item
    <3>2. /\ new \in Row
          /\ \/ new.status = mem.status
             \/ new.status = "used"
             \/ mem.status = "error" /\ Returnable(mem)
      BY <2>1 DEF Judged, Returnable, Row, Status, Reason
    <3> HIDE DEF new
    <3>3. /\ rows'[n].present = rows[n].present
          /\ rows'[n].status = IF new.status = mem.status THEN rows[n].status ELSE new.status
      BY <1>1, <2>1, <3>1, <3>2, FlushFields
    <3> QED
      BY <1>4, <2>1, <2>3, <3>2, <3>3 DEF StatusMove
  <2> QED
    BY <2>2, <2>3
<1>5. ASSUME rows'[n] = NoRow
      PROVE  StatusMove(n)
  BY <1>5 DEF StatusMove, NoRow
<1>6. ASSUME rows'[n] = rows[n]
      PROVE  StatusMove(n)
  BY <1>1, <1>6 DEF StatusMove, Row
<1>7. CASE CommitAliyun \/ DescribeThrottled
  <2>1. /\ w.pc = "describe"
        /\ n \in Answered => rows'[n] = Item(n)
        /\ n \notin Answered => rows'[n] \in {rows[n], NoRow}
    BY <1>7 DEF CommitAliyun, DescribeThrottled
  <2> QED
    BY <1>4, <1>5, <1>6, <2>1
<1>8. CASE \E m \in Names : Describe(m) \/ DescribeFails(m)
  BY <1>2, <1>8 DEF Describe, DescribeFails
<1>9. CASE ListAliyun \/ SkipAliyun \/ EmptyList \/ AliyunListFails
  BY <1>2, <1>9 DEF ListAliyun, List, SkipAliyun, EmptyList, AliyunListFails
<1> QED
  BY <1>3, <1>7, <1>8, <1>9 DEF PollAliyunStep, PollAliyunFault

(* and everything else.                                                     *)
LEMMA CalmStatus ==
  ASSUME Typed, CalmInv, [CalmNext]_vars, NEW n \in Names
  PROVE  StatusMove(n)
<1>1. rows[n] \in Row
  BY DEF Typed, TypeOK
<1>2. CASE UNCHANGED rows
  BY <1>2 DEF StatusMove
<1>3. ASSUME NEW d \in Deleters, CommitDelete(d)
      PROVE  StatusMove(n)
  <2> DEFINE m   == del[d].name
             mem == del[d].mem
             new == [mem EXCEPT !.acct = None, !.id = 0, !.filling = FALSE,
                            !.status = "used",
                            !.reason = IF del[d].failed THEN "cleanup" ELSE "none"]
  <2>1. rows' = [rows EXCEPT ![m] = Flush(@, mem, new)] /\ mem \in Row
    BY <1>3 DEF CommitDelete, Typed, TypeOK, DeleterState
  <2>2. new.status = "used"
    BY <2>1 DEF Row
  <2> HIDE DEF new, mem
  <2>3. rows'[n] = rows[n] \/ rows'[n] = Flush(rows[n], mem, new)
    BY <2>1 DEF Typed, TypeOK
  <2>4. /\ Flush(rows[n], mem, new).present = rows[n].present
        /\ Flush(rows[n], mem, new).status \in {rows[n].status, "used"}
    BY <1>1, <2>2 DEF Flush, Row
  <2> QED
    BY <1>1, <2>3, <2>4 DEF StatusMove, Row
<1>4. ASSUME NEW m \in Names, NEW status \in Status, UpdateDomain(m, status)
      PROVE  StatusMove(n)
  <2>1. CASE m # n
    BY <1>1, <1>4, <2>1 DEF UpdateDomain, StatusMove, Typed, TypeOK, Row
  <2>2. CASE m = n
    <3>1. rows'[n].status = status
      <4>1. \E f, r, a, i : rows'[n] = [rows[n] EXCEPT !.status = status, !.filling = f,
                                          !.reason = r, !.acct = a, !.id = i]
        BY <1>4, <2>2 DEF UpdateDomain, Typed, TypeOK
      <4> QED
        BY <1>1, <4>1 DEF Row
    <3> QED
      BY <1>4, <2>2, <3>1 DEF StatusMove
  <2> QED
    BY <2>1, <2>2
<1>5. ASSUME NEW a \in Accounts, DeleteAccount(a)
      PROVE  StatusMove(n)
  <2>1. /\ rows'[n].present = rows[n].present
        /\ rows'[n].status \in {rows[n].status, "used"}
    BY <1>1, <1>5 DEF DeleteAccount, Row
  <2> QED
    BY <1>1, <2>1 DEF StatusMove, Row
<1>6. CASE \E d \in Deleters : DeleteYydsStep(d) \/ DeleteYydsFault(d)
  BY <1>2, <1>3, <1>6 DEF DeleteYydsStep, DeleteYydsFault, LockFill, Refused,
     LockSession, DeleteRemote, CleanDns, CleanDnsRefused, CommitDeleteFails,
     DeleteRemoteFails, CleanDnsFails
<1>7. CASE FillStep \/ FillFault \/ AddUnanswered
  BY <1>7, FillStatus
<1>8. CASE PollAliyunStep \/ PollAliyunFault \/ PollYydsStep \/ PollYydsFault
  BY <1>2, <1>8, PollStatus DEF PollYydsStep, PollYydsFault, SkipThrottled, BeginPoll,
     ReadList, ReadPoorly, Fetch, RefuseList, PollFails
<1>9. CASE StartCycle \/ EndPolls \/ AbortCycle \/ Crash \/ Request
  BY <1>2, <1>9 DEF StartCycle, EndPolls, AbortCycle, Crash, Request, RequestDelete
<1>10. CASE Website \/ Purchase \/ ThrottleEnds
  BY <1>2, <1>10 DEF Website, PersonDeletes, PersonAdds, Purchase, RegistrarChanges,
     ThrottleEnds, AliyunThrottleEnds, YydsThrottleEnds
<1>11. CASE UNCHANGED vars
  BY <1>2, <1>11 DEF vars
<1> QED
  BY <1>4, <1>5, <1>6, <1>7, <1>8, <1>9, <1>10, <1>11
     DEF CalmNext, WorkerStep, Fault, Update, RemoveAccount
-----------------------------------------------------------------------------
(* The way back to stock.  Somebody who sets a domain used in the middle of *)
(* its fill, which is then put off, or between the load and the commit of   *)
(* an Aliyun poll, is overruled; nobody else is.                            *)
NotSet(status) == \A n \in Names : ~UpdateDomain(n, status)

BackFine ==
  /\ w.pc \in Filling /\ rows[w.name].id = 0 => rows[w.name].status # "used"
  /\ w.pc = "describe" => \A n \in Names :
       w.list[n] = Ready /\ w.copies[n].present /\ w.copies[n].status = "error"
         /\ Returnable(w.copies[n]) => rows[n].status # "used"

(* A fill's domain is not used before it has an id.                         *)
LEMMA FillBack ==
  ASSUME Typed, IdsFollow, CalmInv, BackFine, FillMove, w'.pc \in Filling
  PROVE  rows'[w'.name].id = 0 => rows'[w'.name].status # "used"
<1>1. w \in WorkerState /\ rows \in [Names -> Row]
  BY DEF Typed, TypeOK
<1>2. ASSUME NEW n \in Names, StartRepair(n)
      PROVE  rows'[w'.name].id # 0
  <2>1. Cleared[n] \in Row /\ Bound(Cleared[n])
    BY <1>2, ClearedType DEF StartRepair, Repairable
  <2>2. rows'[n] = [Cleared[n] EXCEPT !.filling = TRUE] /\ w'.name = n
    BY <1>2, ClearedType DEF StartRepair, Resting
  <2> QED
    BY <2>1, <2>2 DEF Bound, Row
<1>3. ASSUME NEW n \in Names, NEW a \in Accounts, StartFill(n, a)
      PROVE  rows'[w'.name].status # "used"
  <2>1. Stock[n] \in Row /\ Fillable(Stock[n])
    BY <1>3, ClearedType DEF StartFill
  <2>2. rows' = [Stock EXCEPT ![n].filling = TRUE] /\ Stock \in [Names -> Row]
    BY <1>3, ClearedType DEF StartFill
  <2>3. rows'[n] = [Stock[n] EXCEPT !.filling = TRUE]
    BY <2>2
  <2>4. rows'[n].status = "unused"
    BY <2>1, <2>3 DEF Fillable, Row
  <2>5. w'.name = n
    BY <1>3 DEF StartFill, Resting
  <2> QED
    BY <2>4, <2>5
<1>4. CASE Elsewhere
  BY <1>4 DEF Elsewhere
<1>5. ASSUME w.pc \in Filling, w'.name = w.name, UNCHANGED rows
      PROVE  rows'[w'.name].id = 0 => rows'[w'.name].status # "used"
  BY <1>5 DEF BackFine
<1>6. ASSUME w.pc \in {"sync", "add", "ids"}, NEW id \in Nat, id # 0, w'.name = w.name,
             rows' = [rows EXCEPT ![w.name] =
                        Loaded([w.mem EXCEPT !.acct = w.acct, !.id = id])]
      PROVE  rows'[w'.name].id # 0
  <2> DEFINE row == Loaded([w.mem EXCEPT !.acct = w.acct, !.id = id])
  <2>1. row.id # 0 /\ w.name \in Names
    BY <1>6, IdsFine, FillRow DEF Filling
  <2>2. rows' = [rows EXCEPT ![w.name] = row]
    BY <1>6
  <2> HIDE DEF row
  <2> QED
    BY <1>1, <1>6, <2>1, <2>2
<1>7. CASE WriteDns
  <2>1. /\ w.pc \in Filling /\ rows' = [rows EXCEPT ![w.name] = Settled]
        /\ w' = [w EXCEPT !.pc = "verify", !.mem.hold = FALSE]
    BY <1>7 DEF WriteDns, Filling
  <2>2. w.name \in Names /\ w'.name = w.name
    BY <1>1, <2>1, FillRow DEF WorkerState
  <2>3. Settled.status = rows[w.name].status /\ Settled.id = rows[w.name].id
    BY <2>1, SettledType
  <2> QED
    BY <1>1, <2>1, <2>2, <2>3 DEF BackFine
<1>8. CASE RegistrarReady \/ EnterSession \/ AddDomain
  BY <1>1, <1>5, <1>8 DEF RegistrarReady, EnterSession, AddDomain, WorkerState, Filling
<1>9. CASE SyncUsage \/ SyncPoorly
  <2>1. PICK names, quota : Sync(names, quota)
    BY <1>9 DEF SyncUsage, SyncPoorly
  <2>2. w.pc = "sync" /\ w.name \in Names
    BY <2>1 DEF Sync, Typed, Located, Filling
  <2>3. CASE Finish(GiveUp)
    BY <1>4, <2>3, FinishElsewhere
  <2>4. CASE w' = [w EXCEPT !.pc = "add"] /\ UNCHANGED rows
    BY <1>1, <1>5, <2>2, <2>4 DEF WorkerState, Filling
  <2>5. ASSUME NEW mem, NEW id, id = IdsOf(names)[w.name], id # 0,
               w' = [w EXCEPT !.pc = "dns", !.mem = mem],
               rows' = [rows EXCEPT ![w.name] =
                          Loaded([w.mem EXCEPT !.acct = w.acct, !.id = id])]
        PROVE  rows'[w'.name].id # 0
    <3>1. id \in Nat
      BY <2>2, <2>5, IdsOfType DEF Typed
    <3>2. w'.name = w.name
      BY <1>1, <2>5 DEF WorkerState
    <3> QED
      BY <1>6, <2>2, <2>5, <3>1, <3>2
  <2> QED
    BY <2>1, <2>3, <2>4, <2>5 DEF Sync
<1>10. CASE AddConflicts
  <2>1. CASE Fails("error", "other")
    BY <1>4, <2>1, FailsElsewhere
  <2>2. ASSUME NEW mem, w' = [w EXCEPT !.pc = "dns", !.mem = mem],
               rows' = [rows EXCEPT ![w.name] =
                          Loaded([w.mem EXCEPT !.acct = w.acct, !.id = remote[w.name].id])]
        PROVE  rows'[w'.name].id # 0
    <3>1. w.pc = "add" /\ remote[w.name].id \in Nat /\ remote[w.name].id # 0
      BY <1>10, IdNumbers DEF AddConflicts, IdsFollow, Typed, Located, Filling
    <3>2. w'.name = w.name
      BY <1>1, <2>2 DEF WorkerState
    <3> QED
      BY <1>6, <2>2, <3>1, <3>2
  <2> QED
    BY <1>10, <2>1, <2>2 DEF AddConflicts
<1>11. CASE CommitIds
  <2>1. /\ w.pc = "ids" /\ w.name \in Names
        /\ rows' = [rows EXCEPT ![w.name] =
                      Loaded([w.mem EXCEPT !.acct = w.acct, !.id = w.list[w.name]])]
    BY <1>11 DEF CommitIds, Typed, Located, Filling
  <2>2. w.list[w.name] \in Nat /\ w.list[w.name] # 0
    BY <2>1, IdNumbers DEF CalmInv, FillShape
  <2>3. w'.name = w.name
    BY <1>1, <1>11 DEF CommitIds, WorkerState
  <2> QED
    BY <1>6, <2>1, <2>2, <2>3
<1> QED
  BY <1>2, <1>3, <1>7, <1>8, <1>9, <1>10, <1>11 DEF FillMove

(* No calm step lets a fill return what is used.                            *)
LEMMA NextBack ==
  ASSUME Typed, LocksHeld, IdsFollow, CalmInv, [CalmNext]_vars, [NotSet("used")]_vars,
         BackFine
  PROVE  BackFine'
<1>1. CASE Elsewhere
  BY <1>1 DEF Elsewhere, BackFine
<1>2. CASE FillMove
  BY <1>2, FillBack, FillMovePlace DEF BackFine
<1>3. CASE ListAliyun
  <2>1. w' = [w EXCEPT !.pc = "describe",
                !.list = [n \in Names |-> IF n \in Owned THEN Unasked ELSE 0]]
    BY <1>3 DEF ListAliyun, List
  <2>2. w'.pc = "describe" /\ \A n \in Names : w'.list[n] # Ready
    BY <2>1 DEF Typed, TypeOK, WorkerState, Unasked, Ready
  <2> QED
    BY <2>2 DEF BackFine, Filling
<1>11. CASE Asking
  <2>1. PICK n \in Names : Describe(n) \/ DescribeFails(n)
    BY <1>11 DEF Asking
  <2>2. w.pc = "describe" /\ UNCHANGED rows /\ w \in WorkerState
    BY <2>1 DEF Describe, DescribeFails, Typed, TypeOK
  <2>3. /\ w'.pc = "describe"
        /\ w'.list[n] = Ready => w'.copies[n] = rows[n]
        /\ \A m \in Names \ {n} : w'.list[m] = w.list[m] /\ w'.copies[m] = w.copies[m]
    <3>1. CASE Describe(n)
      BY <2>2, <3>1 DEF Describe, WorkerState
    <3>2. CASE DescribeFails(n)
      BY <2>2, <3>2 DEF DescribeFails, WorkerState, Ready, Unknown
    <3> QED
      BY <2>1, <3>1, <3>2
  <2> QED
    BY <2>2, <2>3 DEF BackFine, Filling
<1>4. ASSUME UNCHANGED w,
             \A n \in Names : \/ rows'[n] = rows[n]
                              \/ rows'[n].status # "used"
                              \/ rows[n].id # 0 /\ rows'[n].id = rows[n].id /\ rows[n].acct # None
                              \/ \E d \in Deleters : del[d].pc \in Deleting /\ del[d].name = n
      PROVE  BackFine'
  <2>1. w.pc \in Filling => w.name \in Names /\ \A d \in Deleters : del[d].pc \notin Deleting
    BY NoDeleteMeanwhile DEF Typed, Located
  <2> QED
    BY <1>4, <2>1 DEF BackFine, CalmInv, ListFine
<1>5. ASSUME UNCHANGED <<w, rows>>
      PROVE  BackFine'
  BY <1>4, <1>5
<1>6. ASSUME NEW d \in Deleters, CommitDelete(d)
      PROVE  BackFine'
  <2>1. UNCHANGED w /\ del[d].pc \in Deleting
    BY <1>6 DEF CommitDelete, Deleting
  <2>2. \A n \in Names \ {del[d].name} : rows'[n] = rows[n]
    BY <1>6 DEF CommitDelete, Typed, TypeOK
  <2> QED
    BY <1>4, <2>1, <2>2
<1>7. ASSUME NEW m \in Names, NEW status \in Status, UpdateDomain(m, status)
      PROVE  BackFine'
  <2>1. CASE UNCHANGED vars
    BY <1>5, <2>1 DEF vars
  <2>2. CASE status # "used"
    <3>1. rows'[m].status = status /\ UNCHANGED w
      <4>1. \E f, r, a, i : rows'[m] = [rows[m] EXCEPT !.status = status, !.filling = f,
                                          !.reason = r, !.acct = a, !.id = i]
        BY <1>7 DEF UpdateDomain, Typed, TypeOK
      <4> QED
        BY <1>7, <4>1 DEF UpdateDomain, Typed, TypeOK, Row
    <3>2. \A n \in Names \ {m} : rows'[n] = rows[n]
      BY <1>7 DEF UpdateDomain, Typed, TypeOK
    <3> QED
      BY <1>4, <2>2, <3>1, <3>2
  <2> QED
    BY <1>7, <2>1, <2>2 DEF NotSet
<1>8. ASSUME NEW a \in Accounts, DeleteAccount(a)
      PROVE  BackFine'
  <2>1. ASSUME NEW n \in Names
        PROVE  \/ rows'[n] = rows[n]
               \/ rows'[n].status = rows[n].status /\ rows'[n].id = rows[n].id
               \/ rows[n].id # 0 /\ rows'[n].id = rows[n].id /\ rows[n].acct # None
    <3>1. rows[n] \in Row /\ None \notin Accounts
      BY OwnersAssumption DEF Typed, TypeOK
    <3> QED
      BY <1>8, <3>1 DEF DeleteAccount, Row
  <2>2. UNCHANGED w
    BY <1>8 DEF DeleteAccount
  <2>3. w.pc \in Filling => w.name \in Names
    BY DEF Typed, Located
  <2> QED
    BY <2>1, <2>2, <2>3 DEF BackFine, CalmInv, ListFine
<1>9. CASE \/ \E d \in Deleters : DeleteYydsStep(d) \/ DeleteYydsFault(d)
           \/ Request \/ Website \/ Purchase \/ ThrottleEnds
  BY <1>5, <1>6, <1>9 DEF DeleteYydsStep, DeleteYydsFault, LockFill, Refused, LockSession,
     DeleteRemote, CleanDns, CleanDnsRefused, CommitDeleteFails, DeleteRemoteFails,
     CleanDnsFails, Request, RequestDelete, Website, PersonDeletes, PersonAdds, Purchase,
     RegistrarChanges, ThrottleEnds, AliyunThrottleEnds, YydsThrottleEnds
<1>10. CASE UNCHANGED vars
  BY <1>5, <1>10 DEF vars
<1> QED
  BY <1>1, <1>2, <1>3, <1>7, <1>8, <1>9, <1>10, <1>11, WorkerTurns
     DEF CalmNext, Fault, Update, RemoveAccount

(* As long as nobody sets a domain used by hand, the program turns no used  *)
(* domain back into stock in a calm history; only a person does.            *)
THEOREM UsedStaysUsed ==
  CalmSpec /\ [][NotSet("used")]_vars => NeverBackToStock
<1>1. Init => BackFine
  BY RestingType DEF Init, InitFrom, BackFine, Filling
<1>2. Typed /\ LocksHeld /\ IdsFollow /\ CalmInv /\ BackFine
        /\ [CalmNext]_vars /\ [NotSet("used")]_vars => BackFine'
  BY NextBack
<1>3. Typed /\ CalmInv /\ BackFine /\ [CalmNext]_vars
        => [\A n \in Names :
              /\ rows[n].present /\ rows[n].status = "used"
              /\ rows'[n].present /\ rows'[n].status = "unused"
              => UpdateDomain(n, "unused")]_vars
  BY CalmStatus DEF StatusMove, BackFine
<1> QED
  BY <1>1, <1>2, <1>3, CalmInvariant, PTL DEF CalmSpec, NeverBackToStock
-----------------------------------------------------------------------------
(* The first synchronisation.  Its domains are used as long as nobody sets  *)
(* them to error, so that no fill and no repair takes them up.              *)
FirstFine ==
  /\ \A n \in Names : rows[n].present /\ barred[n] = "first" => rows[n].status = "used"
  /\ w.pc \in Filling => barred[w.name] # "first"

(* Nothing makes a domain one of the first but the start.                   *)
LEMMA FirstStays ==
  ASSUME Typed, [CalmNext]_vars, NEW n \in Names, barred'[n] = "first"
  PROVE  barred[n] = "first"
<1>1. CASE UNCHANGED barred
  BY <1>1
<1>2. CASE Reconcile
  BY <1>2 DEF Reconcile
<1>3. ASSUME NEW d \in Deleters, CommitDelete(d)
      PROVE  barred[n] = "first"
  BY <1>3 DEF CommitDelete, Typed, TypeOK
<1>4. CASE Update
  BY <1>4 DEF Update, UpdateDomain, Typed, TypeOK
<1>5. CASE Purchase
  BY <1>5 DEF Purchase, RegistrarChanges, Typed, TypeOK
<1>6. CASE \/ StartCycle \/ EndPolls \/ AbortCycle \/ PollYydsStep \/ PollYydsFault
           \/ PollAliyunStep \/ PollAliyunFault
  BY <1>1, <1>2, <1>6 DEF StartCycle, EndPolls, AbortCycle, PollYydsStep, PollYydsFault,
     SkipThrottled, BeginPoll, ReadList, ReadPoorly, Fetch, RefuseList,
     PollFails, PollAliyunStep, PollAliyunFault, SkipAliyun, ListAliyun, EmptyList,
     Describe, CommitAliyun, AliyunListFails, DescribeFails, DescribeThrottled,
     List
<1>7. CASE FillStep \/ FillFault \/ AddUnanswered
  BY <1>1, <1>7 DEF FillStep, FillFault, AddUnanswered, AddDomain, StartRepair, StartFill,
     FindOccupied, NothingToFill, RegistrarReady, RegistrarRefuses, RegistrarUnknown,
     RegistrarFails, EnterSession, SyncUsage, SyncPoorly, Sync, SyncFails, AddConflicts,
     AddFails, CommitIds, WriteDns, WriteDnsFails, GuideFails, DomainGone, Verified,
     VerifyFails
<1>8. CASE \/ \E d \in Deleters : DeleteYydsStep(d) \/ DeleteYydsFault(d)
           \/ Request \/ RemoveAccount \/ Website \/ ThrottleEnds \/ Crash
  BY <1>1, <1>3, <1>8 DEF DeleteYydsStep, DeleteYydsFault, LockFill, Refused,
     LockSession, DeleteRemote, CleanDns, CleanDnsRefused, CommitDeleteFails,
     DeleteRemoteFails, CleanDnsFails, Request, RequestDelete,
     RemoveAccount, DeleteAccount, Website, PersonDeletes, PersonAdds,
     ThrottleEnds, AliyunThrottleEnds, YydsThrottleEnds, Crash
<1>9. CASE UNCHANGED vars
  BY <1>1, <1>9 DEF vars
<1> QED
  BY <1>4, <1>5, <1>6, <1>7, <1>8, <1>9 DEF CalmNext, WorkerStep, Fault

(* No calm step gives a domain of the first synchronisation to a fill.      *)
LEMMA NextFirst ==
  ASSUME Typed, CalmInv, [CalmNext]_vars, [NotSet("error")]_vars, FirstFine
  PROVE  FirstFine'
<1>1. ASSUME NEW n \in Names, rows'[n].present, barred'[n] = "first"
      PROVE  rows'[n].status = "used"
  <2>1. barred[n] = "first" /\ StatusMove(n)
    BY <1>1, FirstStays, CalmStatus
  <2>2. CASE \E status \in Status : UpdateDomain(n, status) /\ rows'[n].status = status
    <3>1. PICK status \in Status : UpdateDomain(n, status) /\ rows'[n].status = status
      BY <2>2
    <3>2. CASE UNCHANGED vars
      BY <1>1, <2>1, <3>2 DEF vars, FirstFine
    <3>3. CASE status = "unused"
      BY <1>1, <3>1, <3>3 DEF UpdateDomain, Typed, TypeOK
    <3> QED
      BY <3>1, <3>2, <3>3 DEF NotSet, Status
  <2> QED
    BY <1>1, <2>1, <2>2 DEF StatusMove, FirstFine, CalmInv, ListFine
<1>2. ASSUME NEW n \in Names, StartRepair(n) \/ \E a \in Accounts : StartFill(n, a)
      PROVE  w'.name = n /\ barred[n] # "first"
  <2>1. w'.name = n
    BY <1>2 DEF StartRepair, StartFill, Resting
  <2>2. rows[n].present /\ rows[n].status # "used"
    <3>1. rows[n] \in Row /\ Cleared[n] = Unstuck(rows[n]) /\ Stock[n] = Usable(Cleared[n])
      BY DEF Typed, TypeOK, Cleared, Stock
    <3>2. Cleared[n] \in Row /\ Stock[n] \in Row
      BY ClearedType
    <3>3. rows[n].status = "used" => Cleared[n].status = "used"
      BY <3>1 DEF Unstuck, Row
    <3>4. Cleared[n].status = "used" => Stock[n].status = "used"
      <4> HIDE DEF Cleared, Stock
      <4> QED
        BY <3>1, <3>2 DEF Usable, Row
    <3>5. Cleared[n].present = rows[n].present /\ Stock[n].present = rows[n].present
      BY StockFine DEF CalmInv
    <3> HIDE DEF Cleared, Stock
    <3> QED
      BY <1>2, <3>3, <3>4, <3>5 DEF StartRepair, Repairable, StartFill, Fillable
  <2> QED
    BY <2>1, <2>2 DEF FirstFine
<1>3. ASSUME w'.pc \in Filling
      PROVE  barred'[w'.name] # "first"
  <2>1. \/ \E n \in Names : StartRepair(n) \/ \E a \in Accounts : StartFill(n, a)
        \/ w.pc \in Filling /\ w'.name = w.name
    <3>1. w' = w \/ FillMove
      <4>1. w'.pc # "describe"
        BY <1>3 DEF Filling
      <4>2. ListAliyun \/ ListPartly \/ Asking => w'.pc = "describe"
        BY DEF ListAliyun, ListPartly, List, Asking, Describe, DescribeFails, Typed, TypeOK,
           WorkerState
      <4> QED
        BY <1>3, <4>1, <4>2, WorkerMoves, CalmIsNext DEF Elsewhere
    <3> QED
      BY <1>3, <3>1, FillMovePlace DEF Elsewhere
  <2>2. w'.name \in Names /\ barred[w'.name] # "first"
    BY <1>2, <2>1 DEF FirstFine, Typed, Located
  <2> QED
    BY <2>2, FirstStays
<1> QED
  BY <1>1, <1>3 DEF FirstFine

(* As long as nobody sets a domain to error by hand, no fill and no repair  *)
(* writes records of a domain of the first synchronisation in a calm        *)
(* history.                                                                 *)
THEOREM FirstIsLeftAlone ==
  CalmSpec /\ [][NotSet("error")]_vars => FirstLeftAlone
<1>1. Init => FirstFine
  <2> SUFFICES ASSUME NEW bound \in [Names -> Accounts \cup {None}],
                      NEW owned \in SUBSET Names, NEW served \in SUBSET Names,
                      InitFrom(bound, owned, served)
               PROVE  FirstFine
    BY DEF Init
  <2>1. ASSUME NEW n \in Names, rows[n].present, barred[n] = "first"
        PROVE  rows[n].status = "used"
    <3>1. rows[n] = FirstRow(bound[n]) /\ Installed
      BY <2>1 DEF InitFrom, NoRow
    <3>2. bound[n] # None
      BY <2>1, <3>1 DEF InitFrom
    <3> QED
      BY <3>1, <3>2 DEF FirstRow, NoRow
  <2> QED
    BY <2>1, RestingType DEF FirstFine, InitFrom, Filling
<1>2. Typed /\ CalmInv /\ FirstFine /\ [CalmNext]_vars /\ [NotSet("error")]_vars
        => FirstFine'
  BY NextFirst
<1>3. FirstFine => [WriteDns /\ w.rewrite => barred[w.name] # "first"]_vars
  BY DEF FirstFine, WriteDns, Filling
<1> QED
  BY <1>1, <1>2, <1>3, CalmInvariant, PTL DEF CalmSpec, FirstLeftAlone

==============================================================================
