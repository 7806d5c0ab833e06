-------------------------- MODULE DomainSlotProofs --------------------------
(***************************************************************************)
(* Theorems about DomainSlot, for any names, accounts, delete requests and *)
(* slots: its types, its two locks, and the filling mark.                  *)
(***************************************************************************)
EXTENDS TypeProofs

USE DEF db, locks, world

-----------------------------------------------------------------------------
(* Types.                                                                   *)

(* Every step keeps the types.                                              *)
LEMMA NextType == Typed /\ [Next]_vars => Typed'
<1> SUFFICES ASSUME Typed, [Next]_vars PROVE Typed'
  OBVIOUS
<1>1. CASE StartCycle \/ EndPolls \/ AbortCycle
  BY <1>1, StartCycleType, EndPollsType, AbortCycleType
<1>2. CASE PollYydsStep \/ PollYydsFault
  BY <1>2, SkipThrottledType, BeginPollType, ReadListType, RefuseListType,
     ReconcileType, PollFailsType DEF PollYydsStep, PollYydsFault
<1>3. CASE PollAliyunStep \/ PollAliyunFault \/ ListPartly
  BY <1>3, SkipAliyunType, ListAliyunType, EmptyListType, CommitAliyunType,
     DescribeType, AliyunListFailsType, DescribeThrottledType
     DEF PollAliyunStep, PollAliyunFault
<1>4. CASE FillStep
  BY <1>4, StartRepairType, StartFillType, FindOccupiedType, NothingToFillType,
     RegistrarReadyType, RegistrarRefusesType, EnterSessionType, SyncUsageType,
     AddDomainType, AddConflictsType, CommitIdsType, WriteDnsType, DomainGoneType,
     VerifiedType DEF FillStep
<1>5. CASE FillFault \/ AddUnanswered
  BY <1>5, RegistrarFailsType, SyncUsageType, SyncFailsType, AddFailsType,
     GuideFailsType, WriteDnsFailsType, VerifyFailsType DEF FillFault
<1>6. ASSUME NEW d \in Deleters, DeleteYydsStep(d) \/ DeleteYydsFault(d)
      PROVE  Typed'
  BY <1>6, LockFillType, RefusedType, LockSessionType, DeleteRemoteType, CleanDnsType,
     CommitDeleteType, CommitDeleteFailsType, DeleteRemoteFailsType
     DEF DeleteYydsStep, DeleteYydsFault
<1>7. CASE Request \/ Update \/ RemoveAccount
  BY <1>7, RequestDeleteType, UpdateDomainType, DeleteAccountType
     DEF Request, Update, RemoveAccount
<1>8. CASE Website \/ Registrar \/ ThrottleEnds \/ Crash
  BY <1>8, PersonAddsType, PersonDeletesType, RegistrarChangesType, ThrottleEndsType,
     CrashType DEF Website, Registrar
<1>9. CASE UNCHANGED vars
  BY <1>9 DEF vars, Typed, TypeOK, Located, Filling
<1> QED
  BY <1>1, <1>2, <1>3, <1>4, <1>5, <1>6, <1>7, <1>8, <1>9
     DEF Next, WorkerStep, Fault

(* Every reachable state is typed, and every thread at work on a domain or  *)
(* with an account knows which.                                             *)
THEOREM TypeCorrect == Spec => [](TypeOK /\ Located)
<1>1. Typed /\ [Next]_vars => Typed'
  BY NextType
<1> QED
  BY <1>1, InitType, PTL DEF Spec, Typed

-----------------------------------------------------------------------------
(* The two locks.                                                           *)

(* The worker goes on without touching a lock.                              *)
LEMMA WorkerKeepsLocks ==
  ASSUME LocksHeld, UNCHANGED <<locks, del>>,
         w'.pc \in Filling => w.pc \in Filling,
         w'.pc \in InSession => w.pc \in InSession /\ w'.acct = w.acct
  PROVE  LocksHeld'
BY DEF LocksHeld

(* The worker gives back its locks: nobody else held them.                  *)
LEMMA FinishLocks ==
  ASSUME Typed, LocksHeld, w.pc \in Filling, NEW row, Finish(row), UNCHANGED del
  PROVE  LocksHeld'
<1>1. w'.pc \in {"fill", "idle"}
  BY AfterFillType DEF Finish, Typed
<1>2. \A d \in Deleters : del[d].pc \notin Deleting
  BY OwnersAssumption DEF LocksHeld
<1> QED
  BY <1>1, <1>2 DEF LocksHeld, Filling, InSession, Deleting

(* The same after a poll.                                                   *)
LEMMA LeavePollLocks ==
  ASSUME Typed, LocksHeld, w.pc \in {"pollRead", "pollCommit"}, LeavePoll,
         UNCHANGED <<fillLock, del>>
  PROVE  LocksHeld'
<1>1. w'.pc = "poll"
  BY LeavePollType
<1>2. sessLock[w.acct] = Worker
  BY DEF LocksHeld, InSession
<1>3. \A a \in Accounts : a # w.acct => sessLock'[a] = sessLock[a]
  BY DEF LeavePoll, Typed, TypeOK
<1>4. \A d \in Deleters : del[d].acct \in Accounts \cup {None}
  BY DEF Typed, TypeOK, DeleterState
<1> QED
  BY <1>1, <1>2, <1>3, <1>4, OwnersAssumption DEF LocksHeld, Filling, InSession

(* A cycle that dies frees its locks.                                       *)
LEMMA AbortLocks ==
  ASSUME Typed, LocksHeld, AbortCycle
  PROVE  LocksHeld'
<1>1. w'.pc = "idle"
  BY RestingType DEF AbortCycle
<1>2. /\ fillLock # Worker => fillLock' = fillLock
      /\ \A a \in Accounts : sessLock[a] # Worker => sessLock'[a] = sessLock[a]
      /\ UNCHANGED del
  BY DEF AbortCycle
<1>3. \A d \in Deleters : del[d].acct \in Accounts \cup {None}
  BY DEF Typed, TypeOK, DeleterState
<1> QED
  BY <1>1, <1>2, <1>3, OwnersAssumption DEF LocksHeld, Filling, InSession

(* A poll takes a lock that is free.                                        *)
LEMMA BeginPollLocks ==
  ASSUME Typed, LocksHeld, NEW a \in Accounts, BeginPoll(a)
  PROVE  LocksHeld'
<1>1. w'.pc = "pollRead" /\ w'.acct = a
  BY DEF BeginPoll, Typed, TypeOK, WorkerState
<1>2. /\ sessLock[a] = None /\ sessLock'[a] = Worker
      /\ \A b \in Accounts : b # a => sessLock'[b] = sessLock[b]
      /\ UNCHANGED <<fillLock, del>>
  BY DEF BeginPoll, Typed, TypeOK
<1>3. \A d \in Deleters : del[d].acct \in Accounts \cup {None}
  BY DEF Typed, TypeOK, DeleterState
<1> QED
  BY <1>1, <1>2, <1>3, OwnersAssumption DEF LocksHeld, Filling, InSession

(* So does a fill that begins,                                              *)
LEMMA StartLocks ==
  ASSUME Typed, LocksHeld, fillLock = None, fillLock' = Worker,
         w'.pc = "registrar", UNCHANGED <<sessLock, del>>
  PROVE  LocksHeld'
BY OwnersAssumption DEF LocksHeld, Filling, InSession, Deleting

(* and one that enters a session.                                           *)
LEMMA EnterSessionLocks ==
  ASSUME Typed, LocksHeld, EnterSession
  PROVE  LocksHeld'
<1>1. w.pc = "bind" /\ w'.acct = w.acct /\ w.acct \in Accounts /\ w'.pc \in {"sync", "dns"}
  BY DEF EnterSession, Typed, TypeOK, WorkerState, Located, Filling
<1>2. /\ sessLock[w.acct] = None /\ sessLock'[w.acct] = Worker
      /\ \A b \in Accounts : b # w.acct => sessLock'[b] = sessLock[b]
      /\ UNCHANGED <<fillLock, del>>
  BY <1>1 DEF EnterSession, Typed, TypeOK
<1>3. \A d \in Deleters : del[d].acct \in Accounts \cup {None}
  BY DEF Typed, TypeOK, DeleterState
<1> QED
  BY <1>1, <1>2, <1>3, OwnersAssumption DEF LocksHeld, Filling, InSession

(* All that a fill does but take its two locks: it ends, or goes on.        *)
LEMMA FillLocks ==
  ASSUME Typed, LocksHeld, w.pc \in Filling, UNCHANGED del,
         \/ \E row : Finish(row)
         \/ YydsFails
         \/ /\ UNCHANGED locks /\ w'.acct = w.acct
            /\ w'.pc \in InSession => w.pc \in InSession
  PROVE  LocksHeld'
<1>1. CASE \E row : Finish(row)
  BY <1>1, FinishLocks
<1>2. CASE YydsFails
  BY <1>2, FinishLocks DEF YydsFails, YydsThrottles, Fails
<1>3. CASE /\ UNCHANGED locks /\ w'.acct = w.acct
           /\ w'.pc \in InSession => w.pc \in InSession
  BY <1>3, WorkerKeepsLocks
<1> QED
  BY <1>1, <1>2, <1>3

(* The steps of a fill and their failures.                                  *)
LEMMA FillStepLocks ==
  ASSUME Typed, LocksHeld, FillStep \/ FillFault \/ AddUnanswered
  PROVE  LocksHeld'
<1>1. CASE (\E n \in Names : StartRepair(n)) \/ \E n \in Names, a \in Accounts : StartFill(n, a)
  <2>1. /\ fillLock = None /\ fillLock' = Worker /\ UNCHANGED <<sessLock, del>>
        /\ w'.pc = "registrar"
    BY <1>1 DEF StartRepair, StartFill, Resting
  <2> QED
    BY <2>1, StartLocks
<1>2. CASE NothingToFill \/ \E n \in Names, a \in Accounts : FindOccupied(n, a)
  <2>1. w'.pc \in {"fill", "idle"} /\ UNCHANGED <<locks, del>>
    BY <1>2, AfterFillType DEF NothingToFill, FindOccupied, Typed
  <2> QED
    BY <2>1, WorkerKeepsLocks DEF Filling, InSession
<1>3. CASE EnterSession
  BY <1>3, EnterSessionLocks
<1>4. CASE \/ RegistrarReady \/ RegistrarRefuses \/ RegistrarUnknown
           \/ AddDomain \/ AddConflicts \/ CommitIds \/ WriteDns \/ DomainGone \/ Verified
  <2>1. w.pc \in Filling /\ UNCHANGED del
    BY <1>4 DEF RegistrarReady, RegistrarRefuses, RegistrarUnknown, AddDomain,
       AddConflicts, CommitIds, WriteDns, DomainGone, Verified, Filling
  <2>2. \/ \E row : Finish(row)
        \/ /\ UNCHANGED locks /\ w'.acct = w.acct
           /\ w'.pc \in InSession => w.pc \in InSession
    BY <1>4 DEF RegistrarReady, RegistrarRefuses, RegistrarUnknown, AddDomain,
       AddConflicts, CommitIds, WriteDns, DomainGone, Verified, Fails, CountedFails,
       InSession,
       Typed, TypeOK, WorkerState
  <2> QED
    BY <2>1, <2>2, FillLocks
<1>5. ASSUME NEW names, NEW quota, Sync(names, quota)
      PROVE  LocksHeld'
  <2>1. w.pc \in Filling /\ UNCHANGED del
    BY <1>5 DEF Sync, Filling
  <2>2. \/ \E row : Finish(row)
        \/ /\ UNCHANGED locks /\ w'.acct = w.acct
           /\ w'.pc \in InSession => w.pc \in InSession
    BY <1>5 DEF Sync, InSession, Typed, TypeOK, WorkerState
  <2> QED
    BY <2>1, <2>2, FillLocks
<1>6. CASE \/ RegistrarFails \/ SyncFails \/ AddFails \/ AddUnanswered
           \/ GuideFails \/ WriteDnsFails \/ VerifyFails
  <2>1. w.pc \in Filling /\ UNCHANGED del
    BY <1>6 DEF RegistrarFails, SyncFails, AddFails, AddUnanswered, GuideFails,
       WriteDnsFails, VerifyFails, Filling
  <2>2. YydsFails \/ \E row : Finish(row)
    BY <1>6 DEF RegistrarFails, SyncFails, AddFails, AddUnanswered, GuideFails,
       WriteDnsFails, VerifyFails, AliyunThrottles, Fails, CountedFails, CountedYydsFails
  <2> QED
    BY <2>1, <2>2, FillLocks
<1> QED
  BY <1>1, <1>2, <1>3, <1>4, <1>5, <1>6
     DEF FillStep, FillFault, SyncUsage, SyncPoorly

(* The rest of the worker's cycle.                                          *)
LEMMA PollLocks ==
  ASSUME Typed, LocksHeld,
         \/ StartCycle \/ EndPolls \/ AbortCycle
         \/ PollYydsStep \/ PollYydsFault
         \/ PollAliyunStep \/ PollAliyunFault \/ ListPartly
  PROVE  LocksHeld'
<1>1. CASE AbortCycle
  BY <1>1, AbortLocks
<1>2. CASE \E a \in Accounts : BeginPoll(a)
  BY <1>2, BeginPollLocks
<1>3. CASE RefuseList \/ Reconcile \/ \E kind \in {"429", "incomplete", "error"} : PollFails(kind)
  BY <1>3, LeavePollLocks DEF RefuseList, Reconcile, PollFails
<1>4. CASE ReadList \/ ReadPoorly
  <2>1. /\ w.pc = "pollRead" /\ w'.pc = "pollCommit" /\ w'.acct = w.acct
        /\ UNCHANGED <<locks, del>>
    BY <1>4 DEF ReadList, ReadPoorly, Fetch, Typed, TypeOK, WorkerState
  <2> QED
    BY <2>1, WorkerKeepsLocks DEF Filling, InSession
<1>5. CASE \/ StartCycle \/ EndPolls \/ PollAliyunStep \/ PollAliyunFault \/ ListPartly
           \/ \E a \in Accounts : SkipThrottled(a)
  <2>1. w'.pc \in {"poll", "aliyun", "describe", "fill"} /\ UNCHANGED <<locks, del>>
    BY <1>5, GoFillType, RestingType DEF StartCycle, EndPolls, SkipThrottled,
       PollAliyunStep, SkipAliyun, ListAliyun, EmptyList, Describe, CommitAliyun,
       PollAliyunFault, AliyunListFails, DescribeFails, DescribeThrottled, ListPartly,
       List, Typed, TypeOK, WorkerState
  <2> QED
    BY <2>1, WorkerKeepsLocks DEF Filling, InSession
<1> QED
  BY <1>1, <1>2, <1>3, <1>4, <1>5
     DEF PollYydsStep, PollYydsFault, PollAliyunStep, PollAliyunFault

(* A delete request that touches no lock goes on within what it holds.      *)
LEMMA RequestKeepsLocks ==
  ASSUME Typed, LocksHeld, NEW d \in Deleters, UNCHANGED <<locks, w>>,
         NEW s, del' = [del EXCEPT ![d] = s],
         s.pc \in Deleting => del[d].pc \in Deleting,
         s.pc \in {"remote", "cleanup", "commit"}
           => s.acct = del[d].acct /\ del[d].pc \in {"remote", "cleanup", "commit"}
  PROVE  LocksHeld'
BY DEF LocksHeld, Typed, TypeOK

(* The end of a request frees what nobody else held.                        *)
LEMMA LeaveLocks ==
  ASSUME Typed, LocksHeld, NEW d \in Deleters, del[d].pc \in Deleting, Leave(d),
         UNCHANGED w
  PROVE  LocksHeld'
<1>1. fillLock = d /\ w.pc \notin Filling
  BY OwnersAssumption DEF LocksHeld
<1>2. \A e \in Deleters : e # d => del[e].pc \notin Deleting /\ del'[e] = del[e]
  BY <1>1 DEF LocksHeld, Leave, Typed, TypeOK
<1>3. del'[d].pc = "idle"
  BY NoRequestType DEF Leave, Typed, TypeOK
<1>4. \A a \in Accounts : sessLock[a] = Worker => sessLock'[a] = Worker
  BY OwnersAssumption DEF Leave
<1>5. w.pc \in InSession => w.acct \in Accounts
  BY DEF Typed, Located, InSession, Filling
<1> QED
  BY <1>1, <1>2, <1>3, <1>4, <1>5 DEF LocksHeld, Deleting, InSession

(* A request's first lock.                                                  *)
LEMMA LockFillLocks ==
  ASSUME Typed, LocksHeld, NEW d \in Deleters, LockFill(d)
  PROVE  LocksHeld'
<1>1. /\ fillLock = None /\ fillLock' = d /\ UNCHANGED <<sessLock, w>>
      /\ \A e \in Deleters : e # d => del'[e] = del[e]
  BY DEF LockFill, Typed, TypeOK
<1>2. \/ del'[d].pc = "sessLock"
      \/ del'[d].pc = "cleanup" /\ del'[d].acct = None
  BY DEF LockFill, Typed, TypeOK, DeleterState
<1>3. w.pc \notin Filling /\ \A e \in Deleters : del[e].pc \notin Deleting
  BY <1>1, OwnersAssumption DEF LocksHeld
<1> QED
  BY <1>1, <1>2, <1>3 DEF LocksHeld, Deleting, InSession

(* Its second one.                                                          *)
LEMMA LockSessionLocks ==
  ASSUME Typed, LocksHeld, NEW d \in Deleters, LockSession(d)
  PROVE  LocksHeld'
<1> DEFINE a == del[d].acct
<1>1. /\ del[d].pc = "sessLock" /\ a \in Accounts /\ sessLock[a] = None
      /\ sessLock'[a] = d
      /\ \A b \in Accounts : b # a => sessLock'[b] = sessLock[b]
      /\ UNCHANGED <<fillLock, w>>
  BY DEF LockSession, Typed, TypeOK, Located
<1>2. /\ \A e \in Deleters : e # d => del'[e] = del[e]
      /\ del'[d].acct = a /\ del'[d].pc \in {"cleanup", "remote"}
  BY DEF LockSession, Typed, TypeOK, DeleterState
<1>3. \A e \in Deleters : del[e].acct \in Accounts \cup {None}
  BY DEF Typed, TypeOK, DeleterState
<1>4. w.pc \in InSession => w.acct \in Accounts
  BY DEF Typed, Located, InSession, Filling
<1> HIDE DEF a
<1> QED
  BY <1>1, <1>2, <1>3, <1>4, OwnersAssumption DEF LocksHeld, Deleting

(* All steps of a delete request.                                           *)
LEMMA DeleteLocks ==
  ASSUME Typed, LocksHeld, NEW d \in Deleters,
         \/ DeleteYydsStep(d) \/ DeleteYydsFault(d)
         \/ \E n \in Names : RequestDelete(d, n)
  PROVE  LocksHeld'
<1>1. CASE LockFill(d)
  BY <1>1, LockFillLocks
<1>2. CASE LockSession(d)
  BY <1>2, LockSessionLocks
<1>3. CASE CommitDelete(d) \/ CommitDeleteFails(d) \/ DeleteRemoteFails(d)
  BY <1>3, LeaveLocks DEF CommitDelete, CommitDeleteFails, DeleteRemoteFails, Deleting
<1>4. CASE Refused(d) \/ \E n \in Names : RequestDelete(d, n)
  <2>1. PICK s : /\ del' = [del EXCEPT ![d] = s] /\ s.pc \in {"idle", "fillLock"}
                 /\ UNCHANGED <<locks, w>>
    BY <1>4 DEF Refused, RequestDelete, NoRequest
  <2> QED
    BY <2>1, RequestKeepsLocks DEF Deleting
<1>5. CASE DeleteRemote(d) \/ CleanDns(d) \/ CleanDnsRefused(d) \/ CleanDnsFails(d)
  <2>1. del[d] \in DeleterState
    BY DEF Typed, TypeOK
  <2>2. PICK s : /\ del' = [del EXCEPT ![d] = s]
                 /\ s.acct = del[d].acct /\ s.pc \in {"cleanup", "commit"}
    <3>1. CASE DeleteRemote(d)
      <4> DEFINE s == [del[d] EXCEPT !.pc = "cleanup", !.gone = KnownToYyds(d)]
      <4>1. del' = [del EXCEPT ![d] = s] /\ s.acct = del[d].acct /\ s.pc = "cleanup"
        BY <2>1, <3>1 DEF DeleteRemote, DeleterState
      <4> QED
        BY <4>1
    <3>2. ASSUME NEW failed,
                 del' = [del EXCEPT ![d].pc = "commit", ![d].failed = failed]
          PROVE  \E s : /\ del' = [del EXCEPT ![d] = s]
                        /\ s.acct = del[d].acct /\ s.pc \in {"cleanup", "commit"}
      <4> DEFINE s == [del[d] EXCEPT !.pc = "commit", !.failed = failed]
      <4>1. del' = [del EXCEPT ![d] = s] /\ s.acct = del[d].acct /\ s.pc = "commit"
        BY <2>1, <3>2 DEF DeleterState
      <4> QED
        BY <4>1
    <3> QED
      BY <1>5, <3>1, <3>2 DEF CleanDns, CleanDnsRefused, CleanDnsFails
  <2>3. del[d].pc \in {"remote", "cleanup"} /\ UNCHANGED <<locks, w>>
    BY <1>5 DEF DeleteRemote, CleanDns, CleanDnsRefused, CleanDnsFails
  <2> QED
    BY <2>2, <2>3, RequestKeepsLocks DEF Deleting
<1> QED
  BY <1>1, <1>2, <1>3, <1>4, <1>5 DEF DeleteYydsStep, DeleteYydsFault

(* Every step keeps the locks with those who need them.                     *)
LEMMA NextLocks == Typed /\ LocksHeld /\ [Next]_vars => LocksHeld'
<1> SUFFICES ASSUME Typed, LocksHeld, [Next]_vars PROVE LocksHeld'
  OBVIOUS
<1>1. CASE WorkerStep \/ PollYydsFault \/ PollAliyunFault \/ FillFault
           \/ AddUnanswered \/ ListPartly
  BY <1>1, PollLocks, FillStepLocks DEF WorkerStep
<1>2. ASSUME NEW d \in Deleters,
             \/ DeleteYydsStep(d) \/ DeleteYydsFault(d)
             \/ \E n \in Names : RequestDelete(d, n)
      PROVE  LocksHeld'
  BY <1>2, DeleteLocks
<1>3. CASE Update \/ RemoveAccount \/ Website \/ Registrar \/ ThrottleEnds
  <2>1. UNCHANGED <<locks, w, del>>
    BY <1>3 DEF Update, UpdateDomain, RemoveAccount, DeleteAccount, Website, PersonAdds,
       PersonDeletes, Registrar, RegistrarChanges, ThrottleEnds, AliyunThrottleEnds,
       YydsThrottleEnds
  <2> QED
    BY <2>1 DEF LocksHeld
<1>4. CASE Crash
  BY <1>4, RestingType, NoRequestType
     DEF Crash, LocksHeld, Filling, InSession, Deleting
<1>5. CASE UNCHANGED vars
  BY <1>5 DEF vars, LocksHeld
<1> QED
  BY <1>1, <1>2, <1>3, <1>4, <1>5 DEF Next, Fault, Request

(* Whoever is where only a lock lets it be holds that lock.                 *)
LEMMA InitLocks == Init => LocksHeld
<1> SUFFICES ASSUME Init PROVE LocksHeld
  OBVIOUS
<1>1. w = Resting /\ del = [d \in Deleters |-> NoRequest]
  BY DEF Init, InitFrom
<1> QED
  BY <1>1, RestingType, NoRequestType DEF LocksHeld, Filling, InSession, Deleting

(* In every reachable state.                                                *)
LEMMA LocksInvariant == Spec => [](Typed /\ LocksHeld)
<1>1. Init => Typed /\ LocksHeld
  BY InitType, InitLocks
<1>2. Typed /\ LocksHeld /\ [Next]_vars => (Typed /\ LocksHeld)'
  BY NextType, NextLocks
<1> QED
  BY <1>1, <1>2, PTL DEF Spec

(* A delete request never works on the inventory while a fill or another    *)
(* delete request does (locks.py, fill.py:57, delete_yyds.py:114).          *)
THEOREM OneWriter == Spec => []OneInventoryWriter
<1>1. LocksHeld => OneInventoryWriter
  BY OwnersAssumption DEF LocksHeld, OneInventoryWriter
<1> QED
  BY <1>1, LocksInvariant, PTL

(* At most one thread uses the session of an account (locks.py,             *)
(* poll_yyds.py:70, fill.py:602, delete_yyds.py:125).                       *)
THEOREM OneUser == Spec => []OneSessionUser
<1>1. Typed /\ LocksHeld => OneSessionUser
  <2> SUFFICES ASSUME Typed, LocksHeld PROVE OneSessionUser
    OBVIOUS
  <2>1. ASSUME NEW d \in Deleters, del[d].pc \in {"remote", "cleanup", "commit"},
               w.pc \in InSession
        PROVE  w.acct # del[d].acct
    <3>1. w.acct \in Accounts /\ sessLock[w.acct] = Worker
      BY <2>1 DEF Typed, Located, LocksHeld, InSession, Filling
    <3> QED
      BY <2>1, <3>1, OwnersAssumption DEF LocksHeld
  <2>2. ASSUME NEW d \in Deleters, NEW e \in Deleters \ {d},
               del[d].pc \in {"remote", "cleanup", "commit"},
               del[e].pc \in {"remote", "cleanup", "commit"}
        PROVE  FALSE
    BY <2>2 DEF LocksHeld, Deleting
  <2> QED
    BY <2>1, <2>2 DEF OneSessionUser
<1> QED
  BY <1>1, LocksInvariant, PTL

-----------------------------------------------------------------------------
(* The filling mark.  Only the start of a fill sets one, and it clears all  *)
(* others: a commit that writes its copy back never revives a mark that     *)
(* another transaction removed meanwhile.                                   *)
KeepsMarks == \A n \in Names : rows'[n].filling => rows[n].filling

(* A commit that leaves the mark of its copy alone, or removes it, sets     *)
(* none.                                                                    *)
LEMMA FlushKeepsMark ==
  ASSUME NEW row \in Row, NEW mem \in Row, NEW new \in Row,
         new.filling = FALSE \/ new.filling = mem.filling,
         Flush(row, mem, new).filling
  PROVE  row.filling
<1>1. Flush(row, mem, new).filling =
        IF new.filling = mem.filling THEN row.filling ELSE new.filling
  BY DEF Flush, Row
<1> QED
  BY <1>1, Zenon

(* What a fill in progress, or one that ends, writes of its domain.         *)
LEMMA LoadedKeepsMark ==
  ASSUME Typed, w.pc \in Filling, NEW new \in Row,
         new.filling = FALSE \/ new.filling = w.mem.filling, Loaded(new).filling
  PROVE  rows[w.name].filling
BY EndedRowType, FlushKeepsMark DEF Loaded

(* A fill that gives up sets no mark,                                       *)
LEMMA EndedKeepsMark ==
  ASSUME Typed, w.pc \in Filling
  PROVE  /\ GiveUp.filling => rows[w.name].filling
         /\ \A reason \in Reason : Unusable(reason).filling => rows[w.name].filling
<1>1. w.mem \in Row
  BY EndedRowType
<1>2. /\ [w.mem EXCEPT !.filling = FALSE] \in Row
      /\ [w.mem EXCEPT !.filling = FALSE].filling = FALSE
  BY <1>1 DEF Row
<1>3. ASSUME NEW reason \in Reason
      PROVE  LET new == [w.mem EXCEPT !.filling = FALSE, !.status = "error",
                                      !.reason = reason]
             IN  new \in Row /\ new.filling = FALSE
  BY <1>1, <1>3 DEF Row, Status
<1> QED
  BY <1>2, <1>3, LoadedKeepsMark DEF GiveUp, Unusable

(* nor one that handles an exception.                                       *)
LEMMA HandledKeepsMark ==
  ASSUME Typed, w.pc \in Filling, NEW kind \in {"throttled", "error", "unexpected"},
         NEW reason \in Reason, Handled(kind, reason).filling
  PROVE  rows[w.name].filling
<1> DEFINE now    == Settled
           bare   == [Unusable(reason) EXCEPT !.hold = now.hold]
           failed == [now EXCEPT !.filling = FALSE, !.status = "error",
                                 !.reason = reason]
           back   == [now EXCEPT !.filling = FALSE, !.status = "unused",
                                 !.reason = "none"]
<1>1. ~failed.filling /\ ~back.filling
  BY SettledType DEF Row
<1>2. Handled(kind, reason) \in {now, failed, back, bare}
  <2>1. CASE kind = "throttled"
    BY <2>1 DEF Handled
  <2>2. CASE kind = "error"
    BY <2>2 DEF Handled
  <2>3. CASE kind = "unexpected"
    BY <2>3 DEF Handled
  <2> QED
    BY <2>1, <2>2, <2>3
<1>3. bare.filling => rows[w.name].filling
  BY EndedRowType, EndedKeepsMark DEF Row
<1>4. now.filling => rows[w.name].filling
  BY SettledType
<1> HIDE DEF now, bare, failed, back
<1> QED
  BY <1>1, <1>2, <1>3, <1>4

(* A fill that ends.                                                        *)
LEMMA FinishKeepsMarks ==
  ASSUME Typed, w.pc \in Filling, NEW row, Finish(row),
         row.filling => rows[w.name].filling
  PROVE  KeepsMarks
BY DEF Finish, KeepsMarks, Typed, TypeOK

(* An error of yyds, and any other.                                         *)
LEMMA FailsKeepsMarks ==
  ASSUME Typed, w.pc \in Filling,
         \/ YydsFails \/ CountedYydsFails \/ AliyunThrottles
         \/ \E kind \in {"error", "unexpected"}, reason \in Reason :
              Fails(kind, reason) \/ CountedFails(kind, reason)
  PROVE  KeepsMarks
<1>1. PICK kind \in {"throttled", "error", "unexpected"} :
        \E reason \in Reason : Finish(Handled(kind, reason))
  <2>1. "other" \in Reason /\ "readiness" \in Reason
    BY DEF Reason
  <2>2. CASE YydsFails
    BY <2>1, <2>2 DEF YydsFails, YydsThrottles, Fails
  <2>3. CASE AliyunThrottles
    BY <2>1, <2>3 DEF AliyunThrottles
  <2>4. CASE CountedYydsFails
    BY <2>1, <2>4 DEF CountedYydsFails, CountedFails
  <2> QED
    BY <2>2, <2>3, <2>4 DEF Fails, CountedFails
<1> QED
  BY <1>1, HandledKeepsMark, FinishKeepsMarks

(* The inventory a fill starts from has no mark.                            *)
LEMMA ClearedUnmarked ==
  ASSUME Typed, NEW n \in Names
  PROVE  ~Cleared[n].filling /\ ~Stock[n].filling
<1>1. rows[n] \in Row
  BY DEF Typed, TypeOK
<1>2. ~Unstuck(rows[n]).filling /\ Unstuck(rows[n]) \in Row
  <2>1. CASE ~rows[n].filling
    BY <1>1, <2>1 DEF Unstuck
  <2>2. CASE rows[n].filling
    BY <1>1, <2>2 DEF Unstuck, Row, Status, Reason
  <2> QED
    BY <2>1, <2>2
<1>3. ~Usable(Cleared[n]).filling
  BY <1>2 DEF Usable, Cleared, Row
<1> QED
  BY <1>2, <1>3 DEF Cleared, Stock

(* A fill that starts marks its own domain only.                            *)
LEMMA StartMarks ==
  ASSUME Typed, NEW n \in Names,
         StartRepair(n) \/ \E a \in Accounts : StartFill(n, a)
  PROVE  \A m \in Names : rows'[m].filling => m = n
<1>1. \A m \in Names : m # n => rows'[m] \in {Cleared[m], Stock[m]}
  BY ClearedType DEF StartRepair, StartFill
<1> QED
  BY <1>1, ClearedUnmarked

(* The other steps of a fill set no mark.                                   *)
LEMMA FillKeepsMarks ==
  ASSUME Typed, FillStep \/ FillFault \/ AddUnanswered,
         ~\E n \in Names : StartRepair(n) \/ \E a \in Accounts : StartFill(n, a)
  PROVE  KeepsMarks
<1>1. CASE NothingToFill
  BY <1>1, ClearedUnmarked DEF NothingToFill, KeepsMarks
<1>2. ASSUME NEW n \in Names, NEW a \in Accounts, FindOccupied(n, a)
      PROVE  KeepsMarks
  <2>1. rows' = [Stock EXCEPT ![n] = [Stock[n] EXCEPT !.status = "used", !.acct = a,
                                                      !.reason = "none"]]
    BY <1>2, ClearedType DEF FindOccupied
  <2>2. Stock[n] \in Row /\ Stock \in [Names -> Row]
    BY ClearedType
  <2>3. \A m \in Names : rows'[m].filling = Stock[m].filling
    BY <2>1, <2>2 DEF Row
  <2> QED
    BY <2>3, ClearedUnmarked DEF KeepsMarks
<1>3. ASSUME w.pc \in Filling, NEW new \in Row,
             new.filling = FALSE \/ new.filling = w.mem.filling,
             rows' = [rows EXCEPT ![w.name] = Loaded(new)]
      PROVE  KeepsMarks
  BY <1>3, LoadedKeepsMark DEF KeepsMarks, Typed, TypeOK
<1>4. ASSUME w.pc \in Filling, NEW id \in Nat,
             rows' = [rows EXCEPT ![w.name] =
                        Loaded([w.mem EXCEPT !.acct = w.acct, !.id = id])]
      PROVE  KeepsMarks
  <2> DEFINE new == [w.mem EXCEPT !.acct = w.acct, !.id = id]
  <2>1. new \in Row
    BY <1>4, IdsRowType
  <2>2. new.filling = w.mem.filling
    BY <1>4, EndedRowType DEF Row
  <2> HIDE DEF new
  <2> QED
    BY <1>3, <1>4, <2>1, <2>2 DEF new
<1>5. ASSUME w.pc \in Filling, NEW new \in Row, new.filling = FALSE,
             Finish(Loaded(new))
      PROVE  KeepsMarks
  BY <1>5, LoadedKeepsMark, FinishKeepsMarks
<1>6. ASSUME w.pc \in Filling, Finish(GiveUp) \/ \E reason \in Reason : Finish(Unusable(reason))
      PROVE  KeepsMarks
  BY <1>6, EndedKeepsMark, FinishKeepsMarks
<1>7. CASE WriteDns
  <2> DEFINE new == [w.mem EXCEPT !.hold = FALSE]
  <2>1. w.pc \in Filling /\ rows' = [rows EXCEPT ![w.name] = Loaded(new)]
    BY <1>7 DEF WriteDns, Settled, Filling
  <2>2. new \in Row /\ new.filling = w.mem.filling
    BY <2>1, EndedRowType DEF Row
  <2> HIDE DEF new
  <2> QED
    BY <1>3, <2>1, <2>2
<1>8. CASE RegistrarRefuses \/ RegistrarUnknown
  <2> DEFINE new == [w.mem EXCEPT !.hold = TRUE, !.filling = FALSE,
                                  !.status = "error", !.reason = "readiness"]
  <2>1. w.pc \in Filling /\ (Finish(Loaded(new)) \/ Finish(Unusable("other")))
    BY <1>8 DEF RegistrarRefuses, RegistrarUnknown, Filling
  <2>2. new \in Row /\ new.filling = FALSE
    BY <2>1, EndedRowType DEF Row, Status, Reason
  <2> HIDE DEF new
  <2> QED
    BY <1>5, <1>6, <2>1, <2>2 DEF Reason
<1>9. CASE RegistrarFails
  <2> DEFINE new == [w.mem EXCEPT !.filling = FALSE, !.status = "unused",
                                  !.reason = "none"]
  <2>1. /\ w.pc \in Filling
        /\ \/ Finish(IF w.mem.id = 0 THEN Loaded(new) ELSE Unusable("readiness"))
           \/ Finish(Unusable("other"))
    BY <1>9 DEF RegistrarFails, Filling
  <2>2. new \in Row /\ new.filling = FALSE
    BY <2>1, EndedRowType DEF Row, Status, Reason
  <2> HIDE DEF new
  <2> QED
    BY <1>5, <1>6, <2>1, <2>2 DEF Reason
<1>10. CASE RegistrarReady \/ EnterSession \/ AddDomain
  BY <1>10 DEF RegistrarReady, EnterSession, AddDomain, KeepsMarks
<1>11. ASSUME NEW names, NEW quota, Sync(names, quota)
       PROVE  KeepsMarks
  <2>1. /\ w.pc \in Filling
        /\ \/ Finish(GiveUp)
           \/ rows' = [rows EXCEPT ![w.name] =
                         Loaded([w.mem EXCEPT !.acct = w.acct,
                                              !.id = IdsOf(names)[w.name]])]
           \/ UNCHANGED rows
    BY <1>11 DEF Sync, Filling
  <2>2. IdsOf(names)[w.name] \in Nat
    BY <2>1, IdsOfType DEF Typed, Located
  <2> QED
    BY <1>4, <1>6, <2>1, <2>2 DEF KeepsMarks
<1>12. CASE SyncFails
  <2>1. w.pc \in Filling /\ (YydsFails \/ Finish(GiveUp))
    BY <1>12 DEF SyncFails, Filling
  <2> QED
    BY <1>6, <2>1, FailsKeepsMarks
<1>13. CASE AddConflicts \/ CommitIds
  <2>1. /\ w.pc \in Filling
        /\ \/ Fails("error", "other")
           \/ \E id \in {remote[w.name].id, w.list[w.name]} :
                rows' = [rows EXCEPT ![w.name] =
                           Loaded([w.mem EXCEPT !.acct = w.acct, !.id = id])]
    BY <1>13 DEF AddConflicts, CommitIds, Filling
  <2>2. remote[w.name].id \in Nat /\ w.list[w.name] \in Nat
    BY <2>1 DEF Typed, TypeOK, Located, Remote, WorkerState
  <2> QED
    BY <1>4, <2>1, <2>2, FailsKeepsMarks DEF Reason
<1>14. CASE AddFails \/ AddUnanswered \/ GuideFails \/ WriteDnsFails \/ VerifyFails
            \/ DomainGone
  <2>1. /\ w.pc \in Filling
        /\ \/ YydsFails \/ CountedYydsFails \/ AliyunThrottles
           \/ Fails("error", "other") \/ CountedFails("error", "other")
           \/ Fails("unexpected", "propagating")
    BY <1>14 DEF AddFails, AddUnanswered, GuideFails, WriteDnsFails, VerifyFails,
       DomainGone, Filling
  <2> QED
    BY <2>1, FailsKeepsMarks DEF Reason
<1>15. CASE Verified
  <2> DEFINE new == [w.mem EXCEPT !.filling = FALSE, !.status = "used",
                                  !.reason = "none"]
  <2>1. w.pc \in Filling /\ Finish(Loaded(new))
    BY <1>15 DEF Verified, Filling
  <2>2. new \in Row /\ new.filling = FALSE
    BY <2>1, EndedRowType DEF Row, Status, Reason
  <2> HIDE DEF new
  <2> QED
    BY <1>5, <2>1, <2>2
<1> QED
  BY <1>1, <1>2, <1>7, <1>8, <1>9, <1>10, <1>11, <1>12, <1>13, <1>14, <1>15
     DEF FillStep, FillFault, SyncUsage, SyncPoorly

(* Nor do the polls,                                                        *)
LEMMA PollKeepsMarks ==
  ASSUME Typed,
         \/ StartCycle \/ EndPolls \/ AbortCycle
         \/ PollYydsStep \/ PollYydsFault
         \/ PollAliyunStep \/ PollAliyunFault \/ ListPartly
  PROVE  KeepsMarks
<1>1. \A n \in Names : rows[n] \in Row
  BY DEF Typed, TypeOK
<1>2. CASE Reconcile
  <2>1. ASSUME NEW n \in Names, Reconciled(rows[n], n, w.list, w.acct).filling
        PROVE  rows[n].filling
    BY <1>1, <2>1 DEF Reconciled, Row
  <2> QED
    BY <1>2, <2>1 DEF Reconcile, KeepsMarks
<1>3. ASSUME NEW n \in Names, Item(n).filling
      PROVE  rows[n].filling
  <2> DEFINE mem  == w.copies[n]
             held == [mem EXCEPT !.hold = TRUE, !.status = "error",
                                 !.reason = "readiness"]
  <2>1. mem \in Row /\ rows[n] \in Row
    BY <1>1 DEF Typed, TypeOK, WorkerState
  <2>2. ~Discovered(n).filling
    BY DEF Discovered, NoRow
  <2>3. held \in Row /\ held.filling = mem.filling
    BY <2>1 DEF Row, Status, Reason
  <2>4. Judged(mem) \in Row /\ Judged(mem).filling = mem.filling
    BY <2>1 DEF Judged, Row, Status, Reason
  <2>5. Item(n) \in {Discovered(n), Flush(rows[n], mem, held),
                     Flush(rows[n], mem, Judged(mem))}
    BY <2>1 DEF Item, Row
  <2> HIDE DEF held, mem
  <2>6. Flush(rows[n], mem, held).filling => rows[n].filling
    BY <2>1, <2>3, FlushKeepsMark
  <2>7. Flush(rows[n], mem, Judged(mem)).filling => rows[n].filling
    BY <2>1, <2>4, FlushKeepsMark
  <2> QED
    BY <1>3, <2>2, <2>5, <2>6, <2>7
<1>4. CASE CommitAliyun
  <2>1. ~NoRow.filling
    BY DEF NoRow
  <2>2. \A n \in Names : rows'[n] \in {Item(n), NoRow, rows[n]}
    BY <1>4 DEF CommitAliyun
  <2> QED
    BY <1>3, <2>1, <2>2 DEF KeepsMarks
<1>5. CASE DescribeThrottled
  BY <1>3, <1>5 DEF DescribeThrottled, KeepsMarks
<1>6. CASE UNCHANGED rows
  BY <1>6 DEF KeepsMarks
<1> QED
  BY <1>2, <1>4, <1>5, <1>6 DEF StartCycle, EndPolls, AbortCycle, PollYydsStep,
     SkipThrottled, BeginPoll, ReadList, RefuseList, PollYydsFault, ReadPoorly, Fetch,
     PollFails, PollAliyunStep, SkipAliyun, ListAliyun, EmptyList, Describe,
     PollAliyunFault, AliyunListFails, DescribeFails, ListPartly, List

(* nor the delete requests, the panel and the world.                        *)
LEMMA RestKeepsMarks ==
  ASSUME Typed,
         \/ \E d \in Deleters : DeleteYydsStep(d) \/ DeleteYydsFault(d)
         \/ Request \/ Update \/ RemoveAccount
         \/ Website \/ Registrar \/ ThrottleEnds \/ Crash
  PROVE  KeepsMarks
<1>1. \A n \in Names : rows[n] \in Row
  BY DEF Typed, TypeOK
<1>2. ASSUME NEW d \in Deleters, CommitDelete(d)
      PROVE  KeepsMarks
  <2> DEFINE n   == del[d].name
             mem == del[d].mem
             new == [mem EXCEPT !.acct = None, !.id = 0, !.filling = FALSE,
                       !.status = "used",
                       !.reason = IF del[d].failed THEN "cleanup" ELSE "none"]
  <2>1. n \in Names /\ mem \in Row
    BY <1>2 DEF CommitDelete, Typed, TypeOK, Located, DeleterState
  <2>2. new \in Row /\ new.filling = FALSE
    BY <2>1 DEF Row, Status, Reason
  <2>3. rows' = [rows EXCEPT ![n] = Flush(rows[n], mem, new)]
    BY <1>2 DEF CommitDelete
  <2> HIDE DEF n, mem, new
  <2>4. Flush(rows[n], mem, new).filling => rows[n].filling
    BY <1>1, <2>1, <2>2, FlushKeepsMark
  <2> QED
    BY <2>1, <2>3, <2>4 DEF KeepsMarks, Typed, TypeOK
<1>3. ASSUME NEW n \in Names, NEW status \in Status, UpdateDomain(n, status)
      PROVE  KeepsMarks
  <2>1. ~rows'[n].filling /\ \A m \in Names : m # n => rows'[m] = rows[m]
    BY <1>1, <1>3 DEF UpdateDomain, Typed, TypeOK, Row
  <2> QED
    BY <2>1 DEF KeepsMarks
<1>4. ASSUME NEW a \in Accounts, DeleteAccount(a)
      PROVE  KeepsMarks
  <2>1. ASSUME NEW n \in Names
        PROVE  rows'[n] = rows[n] \/ ~rows'[n].filling
    BY <1>1, <1>4 DEF DeleteAccount, Row
  <2> QED
    BY <2>1 DEF KeepsMarks
<1>5. CASE UNCHANGED rows
  BY <1>5 DEF KeepsMarks
<1> QED
  BY <1>2, <1>3, <1>4, <1>5 DEF DeleteYydsStep, DeleteYydsFault, LockFill, Refused,
     LockSession, DeleteRemote, CleanDns, CleanDnsRefused, CommitDeleteFails,
     DeleteRemoteFails, CleanDnsFails, Request, RequestDelete, Update, RemoveAccount,
     Website, PersonAdds, PersonDeletes, Registrar, RegistrarChanges, ThrottleEnds,
     AliyunThrottleEnds, YydsThrottleEnds, Crash

(* filling_at marks at most one domain, whatever died with its mark set     *)
(* (fill.py _clear_stale_filling and the commit that sets the mark).        *)
THEOREM OneFilling == Spec => []AtMostOneFilling
<1>1. Init => AtMostOneFilling
  <2> SUFFICES ASSUME Init PROVE AtMostOneFilling
    OBVIOUS
  <2>1. \A acct : ~FirstRow(acct).filling /\ ~NoRow.filling
    BY DEF FirstRow, NoRow
  <2>2. PICK bound \in [Names -> Accounts \cup {None}], owned \in SUBSET Names,
             served \in SUBSET Names : InitFrom(bound, owned, served)
    BY DEF Init
  <2>3. \A n \in Names : rows[n] = FirstRow(bound[n]) \/ rows[n] = NoRow
    BY <2>2 DEF InitFrom
  <2> QED
    BY <2>1, <2>3 DEF AtMostOneFilling
<1>2. Typed /\ AtMostOneFilling /\ [Next]_vars => AtMostOneFilling'
  <2> SUFFICES ASSUME Typed, AtMostOneFilling, [Next]_vars PROVE AtMostOneFilling'
    OBVIOUS
  <2>1. CASE KeepsMarks
    BY <2>1 DEF KeepsMarks, AtMostOneFilling
  <2>2. ASSUME NEW n \in Names,
               StartRepair(n) \/ \E a \in Accounts : StartFill(n, a)
        PROVE  AtMostOneFilling'
    BY <2>2, StartMarks DEF AtMostOneFilling
  <2>3. CASE UNCHANGED vars
    BY <2>3 DEF vars, AtMostOneFilling
  <2> QED
    BY <2>1, <2>2, <2>3, FillKeepsMarks, PollKeepsMarks, RestKeepsMarks
       DEF Next, WorkerStep, Fault
<1>3. Spec => []Typed
  BY TypeCorrect, PTL DEF Typed
<1> QED
  BY <1>1, <1>2, <1>3, PTL DEF Spec
=============================================================================
