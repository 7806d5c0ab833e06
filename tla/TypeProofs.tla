------------------------------ MODULE TypeProofs ------------------------------
(***************************************************************************)
(* Type correctness of DomainSlot, for any names, accounts, delete         *)
(* requests and slots.  TypeOK alone is not inductive: a step that works   *)
(* on "the domain being filled" keeps the types only because there is one, *)
(* which Located says.                                                     *)
(***************************************************************************)
EXTENDS DomainSlot, FiniteSetTheorems, TLAPS

Typed == TypeOK /\ Located

USE DEF db, locks, world

-----------------------------------------------------------------------------
(* The values the local states begin with.                                  *)
LEMMA NoRowType == NoRow \in Row
BY DEF NoRow, Row, Status, Reason

LEMMA RestingType == Resting \in WorkerState /\ Resting.pc = "idle"
BY CountsAssumption, NoRowType DEF Resting, WorkerState, WorkerPC

LEMMA NoRequestType == NoRequest \in DeleterState /\ NoRequest.pc = "idle"
BY NoRowType DEF NoRequest, DeleterState, DeleterPC

LEMMA CountType == \A s \in SUBSET Names : Cardinality(s) \in Nat
BY NamesAssumption, FS_Subset, FS_CardinalityType

LEMMA OccupancyType ==
  ASSUME NEW listed \in Nat, NEW quota \in Int \cup {None}
  PROVE  OccupancyUsed(listed, quota, Max) \in Int
BY NoneAssumption, CountsAssumption
   DEF OccupancyUsed, ListShorterThanQuota, QuotaUnknown

(* What a commit writes of one row is a row.                                *)
LEMMA FlushType ==
  ASSUME NEW row \in Row, NEW mem \in Row, NEW new \in Row
  PROVE  Flush(row, mem, new) \in Row
<1> DEFINE st == IF new.status = mem.status THEN row.status ELSE new.status
           ac == IF new.acct = mem.acct THEN row.acct ELSE new.acct
           id == IF new.id = mem.id THEN row.id ELSE new.id
           fi == IF new.filling = mem.filling THEN row.filling ELSE new.filling
           re == IF new.reason = mem.reason THEN row.reason ELSE new.reason
           ho == IF new.hold = mem.hold THEN row.hold ELSE new.hold
<1>1. /\ st \in Status /\ ac \in Accounts \cup {None}
      /\ id \in Nat /\ re \in Reason
  BY DEF Row
<1>2. /\ new.filling \in BOOLEAN /\ row.filling \in BOOLEAN
      /\ new.hold \in BOOLEAN /\ row.hold \in BOOLEAN
  BY DEF Row
<1>3. fi \in BOOLEAN
  BY <1>2, Zenon
<1>4. ho \in BOOLEAN
  BY <1>2, Zenon
<1> HIDE DEF st, ac, id, fi, re, ho
<1>5. [row EXCEPT !.status = st, !.acct = ac, !.id = id, !.filling = fi,
                  !.reason = re, !.hold = ho] \in Row
  BY <1>1, <1>3, <1>4 DEF Row
<1> QED
  BY <1>5 DEF Flush, st, ac, id, fi, re, ho

(* The worker's state after a fill that ended, or before the first one.     *)
LEMMA AfterFillType ==
  ASSUME TypeOK
  PROVE  \A did \in BOOLEAN : /\ AfterFill(did) \in WorkerState
                             /\ AfterFill(did).pc \in {"fill", "idle"}
<1>1. w.fills \in 0..MaxFills
  BY DEF TypeOK, WorkerState
<1>2. ASSUME NEW k \in 0..MaxFills, NEW s, s = [Resting EXCEPT !.pc = "fill", !.fills = k]
      PROVE  s \in WorkerState /\ s.pc = "fill"
  BY <1>2, RestingType DEF WorkerState, WorkerPC
<1>3. ASSUME NEW did \in BOOLEAN
      PROVE  AfterFill(did) \in WorkerState /\ AfterFill(did).pc \in {"fill", "idle"}
  <2>1. CASE did /\ w.fills + 1 < MaxFills
    <3>1. w.fills + 1 \in 0..MaxFills
      BY <1>1, <2>1, CountsAssumption
    <3> QED
      BY <1>2, <2>1, <3>1 DEF AfterFill
  <2>2. CASE ~(did /\ w.fills + 1 < MaxFills)
    BY <2>2, RestingType DEF AfterFill
  <2> QED
    BY <2>1, <2>2
<1> QED
  BY <1>3

LEMMA GoFillType == GoFill \in WorkerState /\ GoFill.pc = "fill"
BY RestingType, CountsAssumption DEF GoFill, WorkerState, WorkerPC

-----------------------------------------------------------------------------
LEMMA InitType == Init => Typed
<1> SUFFICES ASSUME NEW bound \in [Names -> Accounts \cup {None}],
                    NEW owned \in SUBSET Names, NEW served \in SUBSET Names,
                    InitFrom(bound, owned, served)
             PROVE  Typed
  BY DEF Init
<1>1. rows \in [Names -> Row]
  BY NoRowType DEF InitFrom, FirstRow, NoRow, Row, Status, Reason
<1>2. accts \in [Accounts -> Acct]
  BY CountType, CountsAssumption DEF InitFrom, Acct
<1>3. /\ snaps \in [Accounts -> SUBSET Names]
      /\ aliyun \in Aliyun
  BY CountsAssumption DEF InitFrom, Aliyun
<1>4. /\ fillLock = None
      /\ sessLock \in [Accounts -> Deleters \cup {Worker, None}]
      /\ remote \in [Names -> Remote]
      /\ zone \in [Names -> {"none", "partial", "full"}]
      /\ registrar \in [Names -> {"none", "ok", "hold"}]
  BY DEF InitFrom, Remote
<1>5. /\ w = Resting
      /\ del = [d \in Deleters |-> NoRequest]
      /\ barred \in [Names -> Barred]
  BY DEF InitFrom, Barred
<1>6. TypeOK
  BY <1>1, <1>2, <1>3, <1>4, <1>5, RestingType, NoRequestType DEF TypeOK
<1>7. Located
  BY <1>5, RestingType, NoRequestType DEF Located, Filling
<1> QED
  BY <1>6, <1>7 DEF Typed

-----------------------------------------------------------------------------
(* Every step of the cycle keeps the types: the start of a cycle,           *)
LEMMA StartCycleType ==
  ASSUME Typed, StartCycle
  PROVE  Typed'
BY RestingType DEF Typed, TypeOK, Located, Filling, StartCycle, Resting,
   WorkerState, WorkerPC

(* the end of its polls,                                                    *)
LEMMA EndPollsType == ASSUME Typed, EndPolls PROVE Typed'
BY RestingType DEF Typed, TypeOK, Located, Filling, EndPolls, Resting,
   WorkerState, WorkerPC

(* and its end by an account deleted under it.                              *)
LEMMA AbortCycleType ==
  ASSUME Typed, AbortCycle
  PROVE  Typed'
BY RestingType DEF Typed, TypeOK, Located, Filling, AbortCycle

-----------------------------------------------------------------------------
(* The ids of any names are numbers.                                        *)
LEMMA IdsOfType ==
  ASSUME TypeOK, NEW s
  PROVE  IdsOf(s) \in [Names -> Nat]
BY DEF IdsOf, TypeOK, Remote

(* The names an account holds on yyds are finitely many names.              *)
LEMMA NamesOnType ==
  ASSUME NEW a
  PROVE  NamesOn(a) \in SUBSET Names /\ Cardinality(NamesOn(a)) \in Nat
BY CountType DEF NamesOn

(* So are the names of a fetched list.                                      *)
LEMMA ListedType ==
  ASSUME NEW l
  PROVE  Listed(l) \in SUBSET Names /\ Cardinality(Listed(l)) \in Nat
BY CountType DEF Listed

(* The yyds poll: an account passed over,                                   *)
LEMMA SkipThrottledType ==
  ASSUME Typed, NEW a \in Accounts, SkipThrottled(a)
  PROVE  Typed'
BY DEF Typed, TypeOK, Located, Filling, SkipThrottled, WorkerState, WorkerPC

(* a poll begun,                                                            *)
LEMMA BeginPollType ==
  ASSUME Typed, NEW a \in Accounts, BeginPoll(a)
  PROVE  Typed'
BY DEF Typed, TypeOK, Located, Filling, BeginPoll, WorkerState, WorkerPC

(* a list fetched, with whatever names and use count it reports,            *)
LEMMA ReadListType ==
  ASSUME Typed, ReadList \/ ReadPoorly
  PROVE  Typed'
<1>1. PICK names \in SUBSET Names, quota \in Nat \cup {None} : Fetch(names, quota)
  <2>1. CASE ReadList
    BY <2>1, NamesOnType DEF ReadList
  <2>2. CASE ReadPoorly
    BY <2>2, NamesOnType DEF ReadPoorly
  <2> QED
    BY <2>1, <2>2
<1>2. w.pc = "pollRead" /\ w \in WorkerState /\ w.acct \in Accounts
  BY <1>1 DEF Fetch, Typed, TypeOK, Located
<1>3. w' \in WorkerState /\ w'.pc = "pollCommit" /\ w'.acct = w.acct
  BY <1>1, <1>2, IdsOfType DEF Typed, Fetch, WorkerState, WorkerPC
<1> QED
  BY <1>1, <1>2, <1>3 DEF Typed, TypeOK, Located, Filling, Fetch

(* the end of a poll,                                                       *)
LEMMA LeavePollType ==
  ASSUME Typed, LeavePoll
  PROVE  /\ w' \in WorkerState /\ w'.pc = "poll"
         /\ sessLock' \in [Accounts -> Deleters \cup {Worker, None}]
<1>1. w.todo \in SUBSET Accounts
  BY DEF Typed, TypeOK, WorkerState
<1>2. w' \in WorkerState /\ w'.pc = "poll"
  BY <1>1, RestingType DEF LeavePoll, WorkerState, WorkerPC
<1> QED
  BY <1>2 DEF LeavePoll, Typed, TypeOK

(* a use count that is not known,                                           *)
LEMMA UnknownUseType ==
  ASSUME NEW acct \in Acct
  PROVE  /\ [acct EXCEPT !.ok = TRUE, !.used = -1] \in Acct
         /\ [acct EXCEPT !.ok = TRUE, !.throttled = FALSE, !.used = -1] \in Acct
<1>1. -1 \in Int
  OBVIOUS
<1>2. ASSUME NEW used \in Int
      PROVE  /\ [acct EXCEPT !.ok = TRUE, !.used = used] \in Acct
             /\ [acct EXCEPT !.ok = TRUE, !.throttled = FALSE, !.used = used] \in Acct
  BY DEF Acct
<1> QED
  BY <1>1, <1>2, Zenon

(* a poll that fails,                                                       *)
LEMMA PollFailsType ==
  ASSUME Typed, NEW kind \in {"429", "incomplete", "error"}, PollFails(kind)
  PROVE  Typed'
<1> DEFINE acct == CASE kind = "429" -> [accts[w.acct] EXCEPT !.throttled = TRUE]
         [] kind = "incomplete" -> [accts[w.acct] EXCEPT !.ok = TRUE, !.used = -1]
         [] kind = "error"      -> [accts[w.acct] EXCEPT !.ok = FALSE]
<1>1. accts' \in [Accounts -> Acct]
  <2>1. accts[w.acct] \in Acct
    BY DEF PollFails, Typed, TypeOK, Located
  <2>2. acct \in Acct
    <3>1. CASE kind = "429"
      BY <2>1, <3>1 DEF Acct
    <3>2. CASE kind = "incomplete"
      BY <2>1, <3>2, UnknownUseType
    <3>3. CASE kind = "error"
      BY <2>1, <3>3 DEF Acct
    <3> QED
      BY <3>1, <3>2, <3>3
  <2>3. accts' = [accts EXCEPT ![w.acct] = acct]
    BY DEF PollFails
  <2> QED
    BY <2>2, <2>3 DEF Typed, TypeOK
<1>2. LeavePoll
  BY DEF PollFails
<1> QED
  BY <1>1, <1>2, LeavePollType DEF PollFails, Typed, TypeOK, Located, Filling

(* a list that is refused,                                                  *)
LEMMA RefuseListType ==
  ASSUME Typed, RefuseList
  PROVE  Typed'
<1>1. accts' \in [Accounts -> Acct]
  <2>1. accts[w.acct] \in Acct
    BY DEF RefuseList, Typed, TypeOK, Located
  <2>2. accts' = [accts EXCEPT ![w.acct] = [accts[w.acct] EXCEPT
                    !.ok = TRUE, !.throttled = FALSE, !.used = -1]]
    BY <2>1 DEF RefuseList, Typed, TypeOK, Acct
  <2>3. [accts[w.acct] EXCEPT !.ok = TRUE, !.throttled = FALSE, !.used = -1] \in Acct
    BY <2>1, UnknownUseType
  <2> QED
    BY <2>1, <2>2, <2>3 DEF Typed, TypeOK
<1>2. LeavePoll
  BY DEF RefuseList
<1> QED
  BY <1>1, <1>2, LeavePollType DEF RefuseList, Typed, TypeOK, Located, Filling

(* and the inventory reconciled with a list.                                *)
LEMMA ReconcileType ==
  ASSUME Typed, Reconcile
  PROVE  Typed'
<1>1. /\ w \in WorkerState /\ w.acct \in Accounts
      /\ w.list \in [Names -> Nat] /\ w.quota \in Nat \cup {None}
  BY DEF Typed, TypeOK, Located, Reconcile, WorkerState
<1>2. ASSUME NEW n \in Names
      PROVE  Reconciled(rows[n], n, w.list, w.acct) \in Row
  <2>1. rows[n] \in Row /\ w.list[n] \in Nat
    BY <1>1 DEF Typed, TypeOK
  <2> QED
    BY <1>1, <2>1 DEF Reconciled, StatusAfterRemoved, Row, Status, Reason
<1>3. rows' \in [Names -> Row]
  BY <1>2 DEF Reconcile
<1>4. snaps' \in [Accounts -> SUBSET Names]
  BY <1>1, ListedType DEF Reconcile, Typed, TypeOK
<1>5. accts' \in [Accounts -> Acct]
  <2>1. OccupancyUsed(Cardinality(Listed(w.list)), w.quota, Max) \in Int
    <3>1. w.quota \in Int \cup {None} /\ Cardinality(Listed(w.list)) \in Nat
      BY <1>1, ListedType
    <3> QED
      BY <3>1, OccupancyType
  <2> DEFINE used == OccupancyUsed(Cardinality(Listed(w.list)), w.quota, Max)
  <2>2. accts[w.acct] \in Acct
    BY <1>1 DEF Typed, TypeOK
  <2>3. accts' = [accts EXCEPT ![w.acct].ok = TRUE, ![w.acct].throttled = FALSE,
                               ![w.acct].used = used]
    BY DEF Reconcile
  <2> HIDE DEF used
  <2>4. accts' = [accts EXCEPT ![w.acct] = [accts[w.acct] EXCEPT
                    !.ok = TRUE, !.throttled = FALSE, !.used = used]]
    BY <1>1, <2>2, <2>3 DEF Typed, TypeOK, Acct
  <2>5. used \in Int
    BY <2>1 DEF used
  <2> QED
    BY <1>1, <2>2, <2>4, <2>5 DEF Typed, TypeOK, Acct
<1>6. barred' \in [Names -> Barred]
  BY DEF Reconcile, Typed, TypeOK, Barred
<1>7. LeavePoll /\ UNCHANGED <<aliyun, fillLock, world, del>>
  BY DEF Reconcile
<1> QED
  BY <1>3, <1>4, <1>5, <1>6, <1>7, LeavePollType DEF Typed, TypeOK, Located,
     Filling

-----------------------------------------------------------------------------
(* The Aliyun poll: passed over,                                            *)
LEMMA SkipAliyunType ==
  ASSUME Typed, SkipAliyun
  PROVE  Typed'
BY GoFillType DEF Typed, TypeOK, Located, Filling, SkipAliyun

(* a list fetched and the rows of its names copied,                         *)
LEMMA ListAliyunType ==
  ASSUME Typed, ListAliyun \/ ListPartly
  PROVE  Typed'
<1>1. PICK names \in SUBSET Names : List(names)
  BY DEF ListAliyun, ListPartly, Owned
<1>2. w \in WorkerState /\ \A n \in Names : rows[n] \in Row
  BY DEF Typed, TypeOK
<1>3. w' \in WorkerState /\ w'.pc = "describe"
  BY <1>1, <1>2, NoRowType DEF List, WorkerState, WorkerPC, Unasked
<1> QED
  BY <1>1, <1>3 DEF Typed, TypeOK, Located, Filling, List

(* a list that could not be fetched,                                        *)
LEMMA AliyunListFailsType ==
  ASSUME Typed, AliyunListFails
  PROVE  Typed'
BY GoFillType DEF Typed, TypeOK, Located, Filling, AliyunListFails, Aliyun

(* an empty one,                                                            *)
LEMMA EmptyListType == ASSUME Typed, EmptyList PROVE Typed'
BY GoFillType DEF Typed, TypeOK, Located, Filling, EmptyList

(* the row of a listed name, discovered or judged,                          *)
LEMMA ItemType ==
  ASSUME Typed, NEW n \in Names
  PROVE  Item(n) \in Row
<1>1. rows[n] \in Row /\ w.copies[n] \in Row
  BY DEF Typed, TypeOK, WorkerState
<1>2. Discovered(n) \in Row
  <2> DEFINE first == FromFirstSnapshot(n)
             hold == (w.list[n] = OnHold)
             status == CASE w.list[n] = OnHold -> "error"
               [] w.list[n] # OnHold /\ FromFirstSnapshot(n) -> "used"
               [] w.list[n] # OnHold /\ ~FromFirstSnapshot(n) -> "unused"
             reason == IF w.list[n] = OnHold THEN "readiness" ELSE "none"
  <2>1. first \in BOOLEAN /\ hold \in BOOLEAN
    BY DEF FromFirstSnapshot
  <2>2. status \in Status /\ reason \in Reason
    BY DEF Status, Reason
  <2> DEFINE new(f, h, s, r) == [NoRow EXCEPT !.present = TRUE, !.first = f, !.hold = h,
                                              !.status = s, !.reason = r]
  <2>3. \A f \in BOOLEAN, h \in BOOLEAN, s \in Status, r \in Reason :
          new(f, h, s, r) \in Row
    BY DEF NoRow, Row, Status
  <2>4. Discovered(n) = new(first, hold, status, reason)
    BY DEF Discovered
  <2> HIDE DEF first, hold, status, reason, new
  <2> QED
    BY <2>1, <2>2, <2>3, <2>4, Zenon
<1>3. /\ [w.copies[n] EXCEPT !.hold = TRUE, !.status = "error",
                             !.reason = "readiness"] \in Row
      /\ Judged(w.copies[n]) \in Row
  BY <1>1 DEF Judged, Row, Status, Reason
<1> QED
  BY <1>1, <1>2, <1>3, FlushType DEF Item

(* the registrar's answer about one of them, with its row copied,           *)
LEMMA DescribeType ==
  ASSUME Typed, NEW n \in Names, Describe(n) \/ DescribeFails(n)
  PROVE  Typed'
<1>1. w \in WorkerState /\ w.pc = "describe" /\ rows[n] \in Row
  BY DEF Typed, TypeOK, Describe, DescribeFails
<1>2. ASSUME NEW row \in Row, NEW k \in Nat
      PROVE  /\ [w EXCEPT !.copies[n] = row, !.list[n] = k] \in WorkerState
             /\ [w EXCEPT !.copies[n] = row, !.list[n] = k].pc = "describe"
             /\ [w EXCEPT !.list[n] = k] \in WorkerState
             /\ [w EXCEPT !.list[n] = k].pc = "describe"
  BY <1>1 DEF WorkerState
<1>3. registrar[n] \in {"ok", "hold", "none"}
  BY DEF Typed, TypeOK
<1>4. w' \in WorkerState /\ w'.pc = "describe"
  <2>1. CASE Describe(n)
    <3>1. PICK k \in Nat : w' = [w EXCEPT !.copies[n] = rows[n], !.list[n] = k]
      BY <1>3, <2>1 DEF Describe, Ready, OnHold, Unknown
    <3> QED
      BY <1>1, <1>2, <3>1
  <2>2. CASE DescribeFails(n)
    BY <1>1, <1>2, <2>2 DEF DescribeFails, Unknown
  <2> QED
    BY <2>1, <2>2
<1>5. UNCHANGED <<db, locks, world, del, barred>>
  BY DEF Describe, DescribeFails
<1> QED
  BY <1>4, <1>5 DEF Typed, TypeOK, Located, Filling, db, locks, world

(* the inventory committed when all have been asked about,                  *)
LEMMA CommitAliyunType ==
  ASSUME Typed, CommitAliyun
  PROVE  Typed'
<1>1. rows' \in [Names -> Row]
  <2>1. \A n \in Names : rows[n] \in Row
    BY DEF Typed, TypeOK
  <2> QED
    BY <2>1, ItemType, NoRowType DEF CommitAliyun
<1>2. aliyun' \in Aliyun
  BY ListedType DEF CommitAliyun, Cohort, Aliyun, Typed, TypeOK
<1> QED
  BY <1>1, <1>2, GoFillType DEF CommitAliyun, Typed, TypeOK, Located, Filling

(* and the part of it that is kept when Aliyun throttles.                   *)
LEMMA DescribeThrottledType ==
  ASSUME Typed, DescribeThrottled
  PROVE  Typed'
<1>1. rows' \in [Names -> Row]
  <2>1. \A n \in Names : rows[n] \in Row
    BY DEF Typed, TypeOK
  <2> QED
    BY <2>1, ItemType DEF DescribeThrottled
<1>2. aliyun' \in Aliyun
  BY ListedType DEF DescribeThrottled, Cohort, Aliyun, Typed, TypeOK
<1> QED
  BY <1>1, <1>2, GoFillType DEF DescribeThrottled, Typed, TypeOK, Located,
     Filling

-----------------------------------------------------------------------------
(* The panel and the world: a row edited,                                   *)
LEMMA UpdateDomainType ==
  ASSUME Typed, NEW n \in Names, NEW status \in Status, UpdateDomain(n, status)
  PROVE  Typed'
<1> DEFINE free == status = "unused" /\ ~InSnapshot(n)
           row == [rows[n] EXCEPT !.status = status, !.filling = FALSE,
                     !.reason = IF status = "error" THEN @ ELSE "none",
                     !.acct = IF free THEN None ELSE @,
                     !.id = IF free THEN 0 ELSE @]
<1>1. rows[n] \in Row
  BY DEF Typed, TypeOK
<1>2. row \in Row
  BY <1>1 DEF Row, Reason
<1>3. rows' = [rows EXCEPT ![n] = row]
  BY DEF UpdateDomain, Typed, TypeOK
<1>4. barred' \in [Names -> Barred]
  BY DEF UpdateDomain, Typed, TypeOK, Barred
<1>5. UNCHANGED <<accts, snaps, aliyun, locks, world, w, del>>
  BY DEF UpdateDomain
<1> HIDE DEF row
<1> QED
  BY <1>2, <1>3, <1>4, <1>5 DEF Typed, TypeOK, Located

(* an account deleted,                                                      *)
LEMMA DeleteAccountType ==
  ASSUME Typed, NEW a \in Accounts, DeleteAccount(a)
  PROVE  Typed'
<1> DEFINE row(n) == IF rows[n].acct # a THEN rows[n]
         ELSE IF rows[n].id = 0 THEN [rows[n] EXCEPT !.acct = None, !.filling = FALSE]
         ELSE [rows[n] EXCEPT !.acct = None, !.filling = FALSE,
                              !.status = "used", !.reason = "none"]
<1>1. ASSUME NEW n \in Names PROVE row(n) \in Row
  <2>1. rows[n] \in Row
    BY DEF Typed, TypeOK
  <2> QED
    BY <2>1 DEF Row, Status, Reason
<1>2. rows' = [n \in Names |-> row(n)]
  BY DEF DeleteAccount
<1>3. accts' \in [Accounts -> Acct] /\ snaps' \in [Accounts -> SUBSET Names]
  BY DEF DeleteAccount, Typed, TypeOK, Acct
<1>4. UNCHANGED <<aliyun, locks, world, w, del, barred>>
  BY DEF DeleteAccount
<1> HIDE DEF row
<1> QED
  BY <1>1, <1>2, <1>3, <1>4 DEF Typed, TypeOK, Located

(* a name added on the website,                                             *)
LEMMA PersonAddsType ==
  ASSUME Typed, NEW n \in Names, NEW a \in Accounts, PersonAdds(n, a)
  PROVE  Typed'
BY DEF Typed, TypeOK, Located, Filling, PersonAdds, Remote

(* or deleted there,                                                        *)
LEMMA PersonDeletesType ==
  ASSUME Typed, NEW n \in Names, PersonDeletes(n)
  PROVE  Typed'
BY DEF Typed, TypeOK, Located, Filling, PersonDeletes, Remote

(* a name bought, held or moved away,                                       *)
LEMMA RegistrarChangesType ==
  ASSUME Typed, NEW n \in Names, NEW what \in {"none", "ok", "hold"}, RegistrarChanges(n, what)
  PROVE  Typed'
BY DEF Typed, TypeOK, Located, Filling, RegistrarChanges, Barred

(* the end of a throttle window,                                            *)
LEMMA ThrottleEndsType ==
  ASSUME Typed, ThrottleEnds
  PROVE  Typed'
<1>1. CASE AliyunThrottleEnds
  BY <1>1 DEF Typed, TypeOK, Located, AliyunThrottleEnds, Aliyun
<1>2. ASSUME NEW a \in Accounts, YydsThrottleEnds(a) PROVE Typed'
  BY <1>2 DEF Typed, TypeOK, Located, YydsThrottleEnds, Acct
<1> QED
  BY <1>1, <1>2 DEF ThrottleEnds

(* and the death of the process.                                            *)
LEMMA CrashType == ASSUME Typed, Crash PROVE Typed'
BY RestingType, NoRequestType DEF Typed, TypeOK, Located, Filling, Crash

-----------------------------------------------------------------------------
(* A request's new state takes the place of its old one.                    *)
LEMMA RequestType ==
  ASSUME Typed, NEW d \in Deleters, NEW s \in DeleterState,
         del' = [del EXCEPT ![d] = s],
         s.pc # "idle" => s.name \in Names,
         s.pc \in {"sessLock", "remote"} => s.acct \in Accounts
  PROVE  /\ del' \in [Deleters -> DeleterState]
         /\ \A e \in Deleters :
              /\ del'[e].pc # "idle" => del'[e].name \in Names
              /\ del'[e].pc \in {"sessLock", "remote"} => del'[e].acct \in Accounts
BY DEF Typed, TypeOK, Located

(* A delete request: received,                                              *)
LEMMA RequestDeleteType ==
  ASSUME Typed, NEW d \in Deleters, NEW n \in Names, RequestDelete(d, n)
  PROVE  Typed'
<1> DEFINE s == [NoRequest EXCEPT !.pc = "fillLock", !.name = n, !.acct = rows[n].acct,
                                  !.used = UsedOf(rows[n].acct)]
<1>1. rows[n] \in Row /\ \A a \in Accounts : accts[a] \in Acct
  BY DEF Typed, TypeOK
<1>2. rows[n].acct \in Accounts \cup {None} /\ UsedOf(rows[n].acct) \in Int
  BY <1>1 DEF UsedOf, Row, Acct
<1>3. s \in DeleterState /\ s.pc = "fillLock" /\ s.name = n
  BY <1>2, NoRowType DEF NoRequest, DeleterState, DeleterPC
<1>4. del' = [del EXCEPT ![d] = s]
  BY DEF RequestDelete
<1> HIDE DEF s
<1> QED
  BY <1>3, <1>4, RequestType DEF Typed, TypeOK, Located, RequestDelete

(* under the fill lock,                                                     *)
LEMMA LockFillType ==
  ASSUME Typed, NEW d \in Deleters, LockFill(d)
  PROVE  Typed'
<1> DEFINE row  == rows[del[d].name]
           acct == IF del[d].acct = None THEN row.acct ELSE del[d].acct
           used == IF del[d].acct = None THEN UsedOf(row.acct) ELSE del[d].used
           s    == [del[d] EXCEPT !.mem = row, !.acct = acct, !.used = used,
                      !.retry = CleanupOnly(row),
                      !.pc = IF acct # None THEN "sessLock" ELSE "cleanup"]
<1>1. /\ del[d] \in DeleterState /\ del[d].pc = "fillLock" /\ del[d].name \in Names
      /\ \A a \in Accounts : accts[a] \in Acct
  BY DEF Typed, TypeOK, Located, LockFill
<1>2. row \in Row
  BY <1>1 DEF Typed, TypeOK
<1>3. acct \in Accounts \cup {None} /\ used \in Int
  BY <1>1, <1>2 DEF UsedOf, Row, Acct, DeleterState
<1>4. CleanupOnly(row) \in BOOLEAN
  BY DEF CleanupOnly
<1>5. del' = [del EXCEPT ![d] = s]
  BY <1>1 DEF LockFill, Typed, TypeOK, DeleterState
<1> HIDE DEF row, acct, used
<1>6. /\ s \in DeleterState /\ s.name \in Names
      /\ s.pc = "sessLock" => s.acct \in Accounts
      /\ s.pc \in {"sessLock", "cleanup"}
  BY <1>1, <1>2, <1>3, <1>4 DEF DeleterState, DeleterPC
<1>7. fillLock' = d
  BY DEF LockFill
<1> HIDE DEF s
<1> QED
  BY <1>5, <1>6, <1>7, RequestType DEF Typed, TypeOK, Located, LockFill

(* refused,                                                                 *)
LEMMA RefusedType ==
  ASSUME Typed, NEW d \in Deleters, Refused(d)
  PROVE  Typed'
BY NoRequestType DEF Typed, TypeOK, Located, Filling, Refused

(* under the session lock,                                                  *)
LEMMA LockSessionType ==
  ASSUME Typed, NEW d \in Deleters, LockSession(d)
  PROVE  Typed'
BY DEF Typed, TypeOK, Located, Filling, LockSession, DeleterState, DeleterPC

(* with the domain deleted on yyds,                                         *)
LEMMA DeleteRemoteType ==
  ASSUME Typed, NEW d \in Deleters, DeleteRemote(d)
  PROVE  Typed'
<1> DEFINE s == [del[d] EXCEPT !.pc = "cleanup", !.gone = KnownToYyds(d)]
<1>1. /\ del[d] \in DeleterState /\ del[d].name \in Names
      /\ del' = [del EXCEPT ![d] = s]
  BY DEF Typed, TypeOK, Located, DeleteRemote
<1>2. KnownToYyds(d) \in BOOLEAN
  BY DEF KnownToYyds
<1>3. s \in DeleterState /\ s.name \in Names /\ s.pc = "cleanup"
  BY <1>1, <1>2 DEF DeleterState, DeleterPC
<1>4. remote' \in [Names -> Remote]
  BY <1>1 DEF Typed, TypeOK, DeleteRemote, Unbind, Remote
<1> HIDE DEF s
<1> QED
  BY <1>1, <1>3, <1>4, RequestType DEF Typed, TypeOK, Located, DeleteRemote

(* or not,                                                                  *)
LEMMA DeleteRemoteFailsType ==
  ASSUME Typed, NEW d \in Deleters, DeleteRemoteFails(d)
  PROVE  Typed'
BY NoRequestType DEF Typed, TypeOK, Located, Filling, DeleteRemoteFails, Leave,
   Unbind, KnownToYyds, Remote

(* with its records cleaned, or not,                                        *)
LEMMA CleanDnsType ==
  ASSUME Typed, NEW d \in Deleters,
         CleanDns(d) \/ CleanDnsRefused(d) \/ CleanDnsFails(d)
  PROVE  Typed'
<1> DEFINE s(failed) == [del[d] EXCEPT !.pc = "commit", !.failed = failed]
<1>1. PICK failed \in BOOLEAN : del' = [del EXCEPT ![d] = s(failed)]
  BY DEF CleanDns, CleanDnsRefused, CleanDnsFails
<1>2. del[d] \in DeleterState /\ del[d].name \in Names
  BY DEF Typed, TypeOK, Located, CleanDns, CleanDnsRefused, CleanDnsFails
<1>3. s(failed) \in DeleterState /\ s(failed).name \in Names /\ s(failed).pc = "commit"
  BY <1>2 DEF DeleterState, DeleterPC
<1>4. zone' \in [Names -> {"none", "partial", "full"}]
  BY <1>2 DEF Typed, TypeOK, CleanDns, CleanDnsRefused, CleanDnsFails
<1>5. UNCHANGED <<db, locks, remote, registrar, w, barred>>
  BY DEF CleanDns, CleanDnsRefused, CleanDnsFails
<1> HIDE DEF s
<1> QED
  BY <1>1, <1>3, <1>4, <1>5, RequestType DEF Typed, TypeOK, Located

(* committed,                                                               *)
LEMMA CommitDeleteType ==
  ASSUME Typed, NEW d \in Deleters, CommitDelete(d)
  PROVE  Typed'
<1> DEFINE n    == del[d].name
           mem  == del[d].mem
           left == DecrementKnown(del[d].used)
           new  == [mem EXCEPT !.acct = None, !.id = 0, !.filling = FALSE,
                      !.status = "used",
                      !.reason = IF del[d].failed THEN "cleanup" ELSE "none"]
<1>1. /\ del[d] \in DeleterState /\ n \in Names /\ rows[n] \in Row
      /\ \A a \in Accounts : accts[a] \in Acct
  BY DEF Typed, TypeOK, Located, CommitDelete
<1>2. mem \in Row /\ del[d].used \in Int
  BY <1>1 DEF DeleterState
<1>3. new \in Row
  BY <1>2 DEF Row, Status, Reason
<1>4. left \in Int
  BY <1>2 DEF DecrementKnown
<1>5. rows' = [rows EXCEPT ![n] = Flush(rows[n], mem, new)]
  BY DEF CommitDelete
<1>6. rows' \in [Names -> Row]
  BY <1>1, <1>2, <1>3, <1>5, FlushType DEF Typed, TypeOK
<1>7. snaps' \in [Accounts -> SUBSET Names]
  BY DEF CommitDelete, Typed, TypeOK
<1>8. accts' \in [Accounts -> Acct]
  <2>1. accts' = IF del[d].gone /\ left # del[d].used
                 THEN [accts EXCEPT ![del[d].acct].used = left] ELSE accts
    BY DEF CommitDelete
  <2> HIDE DEF left
  <2> QED
    BY <1>1, <1>4, <2>1 DEF Typed, TypeOK, Acct
<1>9. barred' \in [Names -> Barred]
  BY DEF CommitDelete, Typed, TypeOK, Barred
<1>10. /\ UNCHANGED <<aliyun, world, w>>
       /\ del' = [del EXCEPT ![d] = NoRequest] /\ fillLock' = None
       /\ sessLock' \in [Accounts -> Deleters \cup {Worker, None}]
  BY DEF CommitDelete, Leave, Typed, TypeOK
<1> QED
  BY <1>6, <1>7, <1>8, <1>9, <1>10, RequestType, NoRequestType DEF Typed,
     TypeOK, Located

(* and rolled back.                                                         *)
LEMMA CommitDeleteFailsType ==
  ASSUME Typed, NEW d \in Deleters, CommitDeleteFails(d)
  PROVE  Typed'
BY NoRequestType DEF Typed, TypeOK, Located, Filling, CommitDeleteFails, Leave

-----------------------------------------------------------------------------
(* The fill's steps.  Most of them either end the fill (FinishType) or go   *)
(* on with the same domain and account (GoOnType); what they write of the   *)
(* domain is Flush of the copy loaded.                                      *)

(* The inventory a fill starts from.                                        *)
LEMMA ClearedType ==
  ASSUME Typed
  PROVE  Cleared \in [Names -> Row] /\ Stock \in [Names -> Row]
<1>1. ASSUME NEW row \in Row PROVE Unstuck(row) \in Row
  BY DEF Unstuck, Row, Status, Reason
<1>2. ASSUME NEW row \in Row PROVE Usable(row) \in Row
  BY DEF Usable, Row, Status, Reason
<1>3. Cleared \in [Names -> Row]
  BY <1>1 DEF Cleared, Typed, TypeOK
<1> QED
  BY <1>2, <1>3 DEF Stock

(* A repair starts,                                                         *)
LEMMA StartRepairType ==
  ASSUME Typed, NEW n \in Names, StartRepair(n)
  PROVE  Typed'
<1>1. /\ Cleared[n] \in Row /\ Cleared[n].acct \in Accounts
      /\ [Cleared[n] EXCEPT !.filling = TRUE] \in Row
  BY ClearedType DEF StartRepair, Repairable, Bound, Row
<1>2. rows' = [Cleared EXCEPT ![n] = [Cleared[n] EXCEPT !.filling = TRUE]]
  BY DEF StartRepair
<1>3. rows' \in [Names -> Row]
  BY <1>1, <1>2, ClearedType
<1> DEFINE rewrite == Cleared[n].reason # "propagating"
<1>4. w' = [Resting EXCEPT !.pc = "registrar", !.name = n, !.acct = Cleared[n].acct,
                           !.mem = rows'[n], !.fills = w.fills, !.rewrite = rewrite]
  BY DEF StartRepair
<1>5. rewrite \in BOOLEAN /\ w.fills \in 0..MaxFills
  BY DEF Typed, TypeOK, WorkerState
<1> HIDE DEF rewrite
<1>6. /\ w' \in WorkerState /\ w'.pc = "registrar"
      /\ w'.name \in Names /\ w'.acct \in Accounts
  BY <1>1, <1>3, <1>4, <1>5, RestingType DEF WorkerState, WorkerPC
<1>7. fillLock' = Worker /\ UNCHANGED <<accts, snaps, aliyun, sessLock, world, del, barred>>
  BY DEF StartRepair
<1> QED
  BY <1>3, <1>6, <1>7 DEF Typed, TypeOK, Located

(* a fill starts,                                                           *)
LEMMA StartFillType ==
  ASSUME Typed, NEW n \in Names, NEW a \in Accounts, StartFill(n, a)
  PROVE  Typed'
<1>1. rows' = [Stock EXCEPT ![n] = [Stock[n] EXCEPT !.filling = TRUE]]
  BY DEF StartFill
<1>2. rows' \in [Names -> Row]
  BY <1>1, ClearedType DEF Row
<1>3. w' = [Resting EXCEPT !.pc = "registrar", !.name = n, !.acct = a,
                           !.mem = rows'[n], !.fills = w.fills,
                           !.newly = TRUE, !.rewrite = TRUE]
  BY DEF StartFill
<1>4. w.fills \in 0..MaxFills
  BY DEF Typed, TypeOK, WorkerState
<1>5. /\ w' \in WorkerState /\ w'.pc = "registrar"
      /\ w'.name \in Names /\ w'.acct \in Accounts
  BY <1>2, <1>3, <1>4, RestingType DEF WorkerState, WorkerPC
<1>6. fillLock' = Worker /\ UNCHANGED <<accts, snaps, aliyun, sessLock, world, del, barred>>
  BY DEF StartFill
<1> QED
  BY <1>2, <1>5, <1>6 DEF Typed, TypeOK, Located

(* a domain turns out to be on yyds already,                                *)
LEMMA FindOccupiedType ==
  ASSUME Typed, NEW n \in Names, NEW a \in Accounts, FindOccupied(n, a)
  PROVE  Typed'
<1> DEFINE row == [Stock[n] EXCEPT !.status = "used", !.acct = a, !.reason = "none"]
<1>1. row \in Row
  BY ClearedType DEF Row, Status, Reason
<1>2. rows' = [Stock EXCEPT ![n] = row]
  BY ClearedType DEF FindOccupied
<1>3. /\ w' = AfterFill(TRUE)
      /\ UNCHANGED <<accts, snaps, aliyun, locks, world, del, barred>>
  BY DEF FindOccupied
<1> HIDE DEF row
<1> QED
  BY <1>1, <1>2, <1>3, ClearedType, AfterFillType DEF Typed, TypeOK, Located,
     Filling

(* there is nothing to fill.                                                *)
LEMMA NothingToFillType ==
  ASSUME Typed, NothingToFill
  PROVE  Typed'
<1>1. /\ rows' = Stock /\ w' = AfterFill(FALSE)
      /\ UNCHANGED <<accts, snaps, aliyun, locks, world, del, barred>>
  BY DEF NothingToFill
<1> QED
  BY <1>1, ClearedType, AfterFillType DEF Typed, TypeOK, Located, Filling

-----------------------------------------------------------------------------
(* A fill that ends, whatever else of the stored state it changes.          *)
LEMMA FinishType ==
  ASSUME Typed, w.pc \in Filling, NEW row \in Row, Finish(row),
         accts' \in [Accounts -> Acct], aliyun' \in Aliyun,
         remote' \in [Names -> Remote],
         zone' \in [Names -> {"none", "partial", "full"}],
         UNCHANGED <<snaps, registrar, del, barred>>
  PROVE  Typed'
<1>1. rows' = [rows EXCEPT ![w.name] = row] /\ w.name \in Names
  BY DEF Finish, Typed, Located
<1>2. /\ fillLock' = None /\ w' = AfterFill(TRUE)
      /\ sessLock' \in [Accounts -> Deleters \cup {Worker, None}]
  BY DEF Finish, Typed, TypeOK
<1> QED
  BY <1>1, <1>2, AfterFillType DEF Typed, TypeOK, Located, Filling

(* What a fill writes of its copy of the domain is a row,                   *)
LEMMA LoadedType ==
  ASSUME Typed, w.pc \in Filling, NEW new \in Row
  PROVE  Loaded(new) \in Row
<1>1. rows[w.name] \in Row /\ w.mem \in Row
  BY DEF Typed, TypeOK, Located, WorkerState
<1> QED
  BY <1>1, FlushType DEF Loaded

(* and so is what it leaves when it gives up,                               *)
LEMMA EndedRowType ==
  ASSUME Typed, w.pc \in Filling
  PROVE  /\ w.mem \in Row /\ rows[w.name] \in Row
         /\ GiveUp \in Row
         /\ \A reason \in Reason : Unusable(reason) \in Row
<1>1. w.mem \in Row /\ rows[w.name] \in Row
  BY DEF Typed, TypeOK, Located, WorkerState
<1>2. [w.mem EXCEPT !.filling = FALSE] \in Row
  BY <1>1 DEF Row
<1>3. ASSUME NEW reason \in Reason
      PROVE  [w.mem EXCEPT !.filling = FALSE, !.status = "error", !.reason = reason] \in Row
  BY <1>1 DEF Row, Status
<1> QED
  BY <1>1, <1>2, <1>3, LoadedType DEF GiveUp, Unusable

(* when the registrar's answer is committed with it, and nothing else,       *)
LEMMA SettledType ==
  ASSUME Typed, w.pc \in Filling
  PROVE  /\ Settled \in Row
         /\ \E hold \in BOOLEAN : Settled = [rows[w.name] EXCEPT !.hold = hold]
         /\ Settled.present = rows[w.name].present
         /\ Settled.status = rows[w.name].status
         /\ Settled.reason = rows[w.name].reason
         /\ Settled.acct = rows[w.name].acct
         /\ Settled.id = rows[w.name].id
         /\ Settled.filling = rows[w.name].filling
         /\ Settled.first = rows[w.name].first
         /\ Settled.seen = rows[w.name].seen
<1>1. w.mem \in Row /\ rows[w.name] \in Row
  BY EndedRowType
<1>2. [w.mem EXCEPT !.hold = FALSE] \in Row
  BY <1>1 DEF Row
<1>3. Settled \in Row
  BY <1>2, LoadedType DEF Settled
<1>4. PICK hold \in BOOLEAN : Settled = [rows[w.name] EXCEPT !.hold = hold]
  BY <1>1, <1>2 DEF Settled, Loaded, Flush, Row
<1> QED
  BY <1>1, <1>3, <1>4 DEF Row

(* or when one of its exceptions is handled.                                *)
LEMMA HandledType ==
  ASSUME Typed, w.pc \in Filling, NEW kind \in {"throttled", "error", "unexpected"},
         NEW reason \in Reason
  PROVE  Handled(kind, reason) \in Row
<1> DEFINE now    == Settled
           failed == [now EXCEPT !.filling = FALSE, !.status = "error",
                                 !.reason = reason]
           back   == [now EXCEPT !.filling = FALSE, !.status = "unused",
                                 !.reason = "none"]
<1>1. now \in Row
  BY SettledType
<1>2. failed \in Row /\ back \in Row
  BY <1>1 DEF Row, Status, Reason
<1>3. [Unusable(reason) EXCEPT !.hold = now.hold] \in Row
  <2>1. Unusable(reason) \in Row
    BY EndedRowType
  <2> QED
    BY <1>1, <2>1 DEF Row
<1>4. CASE kind = "throttled"
  BY <1>2, <1>4 DEF Handled
<1>5. CASE kind = "error"
  BY <1>1, <1>2, <1>5 DEF Handled
<1>6. CASE kind = "unexpected"
  BY <1>1, <1>2, <1>3, <1>6 DEF Handled
<1> QED
  BY <1>4, <1>5, <1>6

(* An error of yyds ends the fill with some row.                            *)
LEMMA YydsFailsType ==
  ASSUME Typed, w.pc \in Filling, YydsFails
  PROVE  /\ accts' \in [Accounts -> Acct] /\ aliyun' \in Aliyun
         /\ \E row \in Row : Finish(row)
<1>1. CASE YydsThrottles
  <2>1. accts' \in [Accounts -> Acct]
    BY <1>1 DEF YydsThrottles, Typed, TypeOK, Acct
  <2>2. Handled("throttled", "other") \in Row
    BY HandledType DEF Reason
  <2> QED
    BY <1>1, <2>1, <2>2 DEF YydsThrottles, Typed, TypeOK
<1>2. ASSUME NEW kind \in {"error", "unexpected"}, Fails(kind, "other")
      PROVE  /\ accts' \in [Accounts -> Acct] /\ aliyun' \in Aliyun
             /\ \E row \in Row : Finish(row)
  <2>1. Handled(kind, "other") \in Row
    BY HandledType DEF Reason
  <2> QED
    BY <1>2, <2>1 DEF Fails, Typed, TypeOK
<1> QED
  BY <1>1, <1>2 DEF YydsFails

(* A fill that goes on with the same domain and account.                    *)
LEMMA GoOnType ==
  ASSUME Typed, w.pc \in Filling,
         w' \in WorkerState, w'.name = w.name, w'.acct = w.acct,
         rows' \in [Names -> Row], accts' \in [Accounts -> Acct],
         sessLock' \in [Accounts -> Deleters \cup {Worker, None}],
         remote' \in [Names -> Remote],
         zone' \in [Names -> {"none", "partial", "full"}],
         UNCHANGED <<snaps, aliyun, fillLock, registrar, del, barred>>
  PROVE  Typed'
BY DEF Typed, TypeOK, Located, Filling

(* The next program point, with a new copy of the domain.                   *)
LEMMA MoveType ==
  ASSUME Typed, w.pc \in Filling, NEW pc \in WorkerPC, NEW mem \in Row
  PROVE  LET s == [w EXCEPT !.pc = pc, !.mem = mem]
         IN  s \in WorkerState /\ s.name = w.name /\ s.acct = w.acct /\ s.pc = pc
BY DEF Typed, TypeOK, WorkerState

(* The copy that carries the ids of yyds.                                   *)
LEMMA IdsRowType ==
  ASSUME Typed, w.pc \in Filling, NEW id \in Nat
  PROVE  [w.mem EXCEPT !.acct = w.acct, !.id = id] \in Row
<1>1. w.mem \in Row /\ w.acct \in Accounts
  BY DEF Typed, TypeOK, Located, WorkerState
<1> QED
  BY <1>1 DEF Row

(* an error of yyds, at any point of a fill,                                *)
LEMMA YydsFailsTyped ==
  ASSUME Typed, w.pc \in Filling, YydsFails, remote' \in [Names -> Remote],
         UNCHANGED <<snaps, zone, registrar, del, barred>>
  PROVE  Typed'
BY YydsFailsType, FinishType DEF Typed, TypeOK

(* any other error,                                                         *)
LEMMA FailsTyped ==
  ASSUME Typed, w.pc \in Filling, NEW kind \in {"error", "unexpected"},
         NEW reason \in Reason, Fails(kind, reason),
         zone' \in [Names -> {"none", "partial", "full"}],
         UNCHANGED <<snaps, remote, registrar, del, barred>>
  PROVE  Typed'
<1>1. Handled(kind, reason) \in Row
  BY HandledType
<1> QED
  BY <1>1, FinishType DEF Fails, Typed, TypeOK

(* yyds binds a name to an account,                                         *)
LEMMA BindType ==
  ASSUME Typed, NEW n \in Names, NEW a \in Accounts, Bind(n, a)
  PROVE  remote' \in [Names -> Remote]
BY DEF Bind, Typed, TypeOK, Remote

(* the use count of an account is a number,                                 *)
LEMMA UseOfType ==
  ASSUME Typed, NEW a \in Accounts
  PROVE  UseOf(a) \in Int
<1>1. /\ Cardinality(NamesOn(a)) \in Nat
      /\ Cardinality(NamesOn(a)) \in Int \cup {None}
  BY NamesOnType
<1> QED
  BY <1>1, OccupancyType DEF UseOf

(* is recorded,                                                             *)
LEMMA RecordUseType ==
  ASSUME Typed, NEW a \in Accounts, RecordUse(a)
  PROVE  accts' \in [Accounts -> Acct]
BY UseOfType DEF RecordUse, Typed, TypeOK, Acct

(* and with it an error that comes after,                                   *)
LEMMA CountedFailsTyped ==
  ASSUME Typed, w.pc \in Filling, NEW kind \in {"error", "unexpected"},
         NEW reason \in Reason, CountedFails(kind, reason),
         zone' \in [Names -> {"none", "partial", "full"}],
         UNCHANGED <<snaps, remote, registrar, del, barred>>
  PROVE  Typed'
<1>1. Handled(kind, reason) \in Row
  BY HandledType
<1>2. accts' \in [Accounts -> Acct]
  BY RecordUseType DEF CountedFails, Typed, Located
<1> QED
  BY <1>1, <1>2, FinishType DEF CountedFails, Typed, TypeOK

(* or one of yyds,                                                          *)
LEMMA CountedYydsFailsTyped ==
  ASSUME Typed, w.pc \in Filling, CountedYydsFails,
         UNCHANGED <<snaps, world, del, barred>>
  PROVE  Typed'
<1>1. ASSUME NEW kind \in {"error", "unexpected"}, CountedFails(kind, "other")
      PROVE  Typed'
  BY <1>1, CountedFailsTyped DEF Reason, Typed, TypeOK
<1>2. ASSUME Finish(Handled("throttled", "other")), UNCHANGED aliyun,
             accts' = [accts EXCEPT ![w.acct].used = UseOf(w.acct),
                                    ![w.acct].throttled = TRUE]
      PROVE  Typed'
  <2>1. w.acct \in Accounts /\ UseOf(w.acct) \in Int
    BY UseOfType DEF Typed, Located
  <2>2. accts' \in [Accounts -> Acct]
    BY <1>2, <2>1 DEF Typed, TypeOK, Acct
  <2>3. Handled("throttled", "other") \in Row
    BY HandledType DEF Reason
  <2> QED
    BY <1>2, <2>2, <2>3, FinishType DEF Typed, TypeOK
<1> QED
  BY <1>1, <1>2 DEF CountedYydsFails

-----------------------------------------------------------------------------
(* The steps of a fill, one by one: the registrar agrees,                   *)
LEMMA RegistrarReadyType ==
  ASSUME Typed, RegistrarReady
  PROVE  Typed'
<1>1. w.pc \in Filling /\ w' = [w EXCEPT !.pc = "bind"]
      /\ UNCHANGED <<db, locks, world, del, barred>>
  BY DEF RegistrarReady, Filling
<1>2. w' \in WorkerState /\ w'.name = w.name /\ w'.acct = w.acct
  BY <1>1 DEF Typed, TypeOK, WorkerState, WorkerPC
<1> QED
  BY <1>1, <1>2, GoOnType DEF Typed, TypeOK, db, locks, world

(* or does not,                                                             *)
LEMMA RegistrarRefusesType ==
  ASSUME Typed, RegistrarRefuses \/ RegistrarUnknown
  PROVE  Typed'
<1>1. w.pc \in Filling
  BY DEF RegistrarRefuses, RegistrarUnknown, Filling
<1> DEFINE held == [w.mem EXCEPT !.hold = TRUE, !.filling = FALSE,
                                 !.status = "error", !.reason = "readiness"]
<1>2. Loaded(held) \in Row
  <2>1. held \in Row
    BY <1>1, EndedRowType DEF Row, Status, Reason
  <2> HIDE DEF held
  <2> QED
    BY <1>1, <2>1, LoadedType
<1>3. Unusable("other") \in Row
  BY <1>1, EndedRowType DEF Reason
<1>4. Finish(Loaded(held)) \/ Finish(Unusable("other"))
  BY DEF RegistrarRefuses, RegistrarUnknown
<1>5. UNCHANGED <<accts, snaps, aliyun, world, del, barred>>
  BY DEF RegistrarRefuses, RegistrarUnknown
<1> HIDE DEF held
<1> QED
  BY <1>1, <1>2, <1>3, <1>4, <1>5, FinishType DEF Typed, TypeOK

(* or cannot be asked,                                                      *)
LEMMA RegistrarFailsType ==
  ASSUME Typed, RegistrarFails
  PROVE  Typed'
<1>1. w.pc \in Filling
  BY DEF RegistrarFails, Filling
<1> DEFINE back == [w.mem EXCEPT !.filling = FALSE, !.status = "unused",
                                 !.reason = "none"]
<1>2. Loaded(back) \in Row
  <2>1. back \in Row
    BY <1>1, EndedRowType DEF Row, Status, Reason
  <2> HIDE DEF back
  <2> QED
    BY <1>1, <2>1, LoadedType
<1>3. Unusable("other") \in Row /\ Unusable("readiness") \in Row
  BY <1>1, EndedRowType DEF Reason
<1>4. \E row \in Row : Finish(row)
  <2>1. \/ Finish(IF w.mem.id = 0 THEN Loaded(back) ELSE Unusable("readiness"))
        \/ Finish(Unusable("other"))
    BY DEF RegistrarFails
  <2> HIDE DEF back
  <2> QED
    BY <1>2, <1>3, <2>1
<1>5. aliyun' \in Aliyun /\ UNCHANGED <<accts, snaps, world, del, barred>>
  BY DEF RegistrarFails, Typed, TypeOK, Aliyun
<1> QED
  BY <1>1, <1>4, <1>5, FinishType DEF Typed, TypeOK

(* the session lock is taken,                                               *)
LEMMA EnterSessionType ==
  ASSUME Typed, EnterSession
  PROVE  Typed'
<1>1. w.pc \in Filling
  BY DEF EnterSession, Filling
<1>2. w' \in WorkerState /\ w'.name = w.name /\ w'.acct = w.acct
  BY DEF EnterSession, Typed, TypeOK, WorkerState, WorkerPC
<1>3. sessLock' \in [Accounts -> Deleters \cup {Worker, None}]
  BY DEF EnterSession, Typed, TypeOK
<1>4. UNCHANGED <<db, fillLock, world, del, barred>>
  BY DEF EnterSession
<1> QED
  BY <1>1, <1>2, <1>3, <1>4, GoOnType DEF Typed, TypeOK

(* a list of whatever names and use count decides,                          *)
LEMMA SyncType ==
  ASSUME Typed, NEW names \in SUBSET Names, NEW quota \in Nat \cup {None},
         Sync(names, quota)
  PROVE  Typed'
<1> DEFINE list == IdsOf(names)
           used == OccupancyUsed(Cardinality(names), quota, Max)
           ids  == [w.mem EXCEPT !.acct = w.acct, !.id = list[w.name]]
           bad  == Unreliable(list, quota, w.acct)
<1>1. w.pc \in Filling /\ w.pc = "sync" /\ w.acct \in Accounts /\ w.name \in Names
  BY DEF Sync, Filling, Typed, Located
<1>2. used \in Int
  <2>1. Cardinality(names) \in Nat /\ quota \in Int \cup {None}
    BY CountType
  <2> QED
    BY <2>1, OccupancyType
<1>3. ids \in Row
  <2>1. list[w.name] \in Nat
    BY <1>1, IdsOfType DEF Typed
  <2> QED
    BY <1>1, <2>1, IdsRowType
<1>4. accts' \in [Accounts -> Acct]
  <2>1. accts' = [accts EXCEPT ![w.acct].used = IF bad THEN -1 ELSE used]
    BY DEF Sync
  <2> HIDE DEF bad, used
  <2>2. ASSUME NEW use \in Int
        PROVE  [accts EXCEPT ![w.acct].used = use] \in [Accounts -> Acct]
    BY DEF Typed, TypeOK, Acct
  <2>3. CASE bad
    BY <2>1, <2>2, <2>3
  <2>4. CASE ~bad
    BY <1>2, <2>1, <2>2, <2>4
  <2> QED
    BY <2>3, <2>4
<1>5. UNCHANGED <<snaps, aliyun, world, del, barred>>
  BY DEF Sync
<1>6. CASE Finish(GiveUp)
  BY <1>1, <1>4, <1>5, <1>6, EndedRowType, FinishType DEF Typed, TypeOK
<1>7. CASE /\ rows' = [rows EXCEPT ![w.name] = Loaded(ids)]
           /\ w' = [w EXCEPT !.pc = "dns", !.mem = ids]
           /\ UNCHANGED locks
  <2> HIDE DEF ids
  <2>1. rows' \in [Names -> Row]
    BY <1>1, <1>3, <1>7, LoadedType DEF Typed, TypeOK
  <2>2. w' \in WorkerState /\ w'.name = w.name /\ w'.acct = w.acct
    BY <1>1, <1>3, <1>7, MoveType DEF WorkerPC
  <2> QED
    BY <1>1, <1>4, <1>5, <1>7, <2>1, <2>2, GoOnType DEF Typed, TypeOK
<1>8. CASE w' = [w EXCEPT !.pc = "add"] /\ UNCHANGED <<rows, locks>>
  <2>1. w' \in WorkerState /\ w'.name = w.name /\ w'.acct = w.acct
    BY <1>8 DEF Typed, TypeOK, WorkerState, WorkerPC
  <2> QED
    BY <1>1, <1>4, <1>5, <1>8, <2>1, GoOnType DEF Typed, TypeOK
<1> QED
  BY <1>6, <1>7, <1>8 DEF Sync

(* a good one or a poor one,                                                *)
LEMMA SyncUsageType ==
  ASSUME Typed, SyncUsage \/ SyncPoorly
  PROVE  Typed'
<1>1. \E names \in SUBSET Names, quota \in Nat \cup {None} : Sync(names, quota)
  <2>1. CASE SyncUsage
    BY <2>1, NamesOnType DEF SyncUsage
  <2>2. CASE SyncPoorly
    BY <2>2, NamesOnType DEF SyncPoorly
  <2> QED
    BY <2>1, <2>2
<1> QED
  BY <1>1, SyncType

(* the list call fails,                                                     *)
LEMMA SyncFailsType == ASSUME Typed, SyncFails PROVE Typed'
<1>1. w.pc \in Filling /\ UNCHANGED <<snaps, world, del, barred>>
  BY DEF SyncFails, Filling
<1>2. CASE YydsFails
  BY <1>1, <1>2, YydsFailsTyped DEF Typed, TypeOK
<1>3. CASE /\ Finish(GiveUp)
           /\ accts' = [accts EXCEPT ![w.acct].used = -1]
           /\ UNCHANGED aliyun
  <2>1. accts' \in [Accounts -> Acct]
    <3>1. -1 \in Int
      OBVIOUS
    <3>2. \A u \in Int : [accts EXCEPT ![w.acct].used = u] \in [Accounts -> Acct]
      BY DEF Typed, TypeOK, Acct
    <3> QED
      BY <1>3, <3>1, <3>2
  <2> QED
    BY <1>1, <1>3, <2>1, EndedRowType, FinishType DEF Typed, TypeOK
<1> QED
  BY <1>2, <1>3 DEF SyncFails

(* the domain is added,                                                     *)
LEMMA AddDomainType == ASSUME Typed, AddDomain PROVE Typed'
<1>1. w.pc \in Filling /\ w.name \in Names /\ w.acct \in Accounts
  BY DEF AddDomain, Filling, Typed, Located
<1>2. remote' \in [Names -> Remote]
  BY <1>1, BindType DEF AddDomain
<1>3. w' \in WorkerState /\ w'.name = w.name /\ w'.acct = w.acct
  <2>1. remote[w.name].id + 1 \in Nat
    BY <1>1 DEF Typed, TypeOK, Remote
  <2>2. w.list \in [Names -> Nat] /\ w \in WorkerState
    BY DEF Typed, TypeOK, WorkerState
  <2>3. [w.list EXCEPT ![w.name] = remote[w.name].id + 1] \in [Names -> Nat]
    BY <2>1, <2>2
  <2> QED
    BY <2>2, <2>3 DEF AddDomain, WorkerState, WorkerPC
<1>4. UNCHANGED <<db, locks, zone, registrar, del, barred>>
  BY DEF AddDomain
<1> QED
  BY <1>1, <1>2, <1>3, <1>4, GoOnType DEF Typed, TypeOK

(* or was there already,                                                    *)
LEMMA AddConflictsType ==
  ASSUME Typed, AddConflicts
  PROVE  Typed'
<1> DEFINE ids == [w.mem EXCEPT !.acct = w.acct, !.id = remote[w.name].id]
<1>1. w.pc \in Filling /\ w.name \in Names /\ UNCHANGED <<snaps, world, del, barred>>
  BY DEF AddConflicts, Filling, Typed, Located
<1>2. ids \in Row
  <2>1. remote[w.name].id \in Nat
    BY <1>1 DEF Typed, TypeOK, Remote
  <2> QED
    BY <1>1, <2>1, IdsRowType
<1>3. CASE /\ rows' = [rows EXCEPT ![w.name] = Loaded(ids)]
           /\ w' = [w EXCEPT !.pc = "dns", !.mem = ids]
           /\ UNCHANGED <<accts, aliyun, locks>>
  <2> HIDE DEF ids
  <2>1. rows' \in [Names -> Row]
    BY <1>1, <1>2, <1>3, LoadedType DEF Typed, TypeOK
  <2>2. w' \in WorkerState /\ w'.name = w.name /\ w'.acct = w.acct
    BY <1>1, <1>2, <1>3, MoveType DEF WorkerPC
  <2> QED
    BY <1>1, <1>3, <2>1, <2>2, GoOnType DEF Typed, TypeOK
<1>4. CASE Fails("error", "other")
  BY <1>1, <1>4, FailsTyped DEF Typed, TypeOK, Reason
<1> QED
  BY <1>3, <1>4 DEF AddConflicts

(* or is not added, or nobody answers,                                      *)
LEMMA AddFailsType ==
  ASSUME Typed, AddFails \/ AddUnanswered
  PROVE  Typed'
<1>1. /\ w.pc \in Filling /\ w.name \in Names /\ w.acct \in Accounts
      /\ YydsFails /\ UNCHANGED <<snaps, zone, registrar, del, barred>>
  BY DEF AddFails, AddUnanswered, Filling, Typed, Located
<1>2. remote' \in [Names -> Remote]
  BY <1>1, BindType DEF AddFails, AddUnanswered, Typed, TypeOK
<1> QED
  BY <1>1, <1>2, YydsFailsTyped

(* or the guide fails,                                                      *)
LEMMA GuideFailsType ==
  ASSUME Typed, GuideFails
  PROVE  Typed'
<1>1. w.pc \in Filling /\ UNCHANGED <<snaps, world, del, barred>>
  BY DEF GuideFails, Filling
<1>2. YydsFails \/ CountedYydsFails
  BY DEF GuideFails
<1> QED
  BY <1>1, <1>2, YydsFailsTyped, CountedYydsFailsTyped DEF Typed, TypeOK

(* its ids are committed,                                                   *)
LEMMA CommitIdsType == ASSUME Typed, CommitIds PROVE Typed'
<1> DEFINE ids == [w.mem EXCEPT !.acct = w.acct, !.id = w.list[w.name]]
<1>1. w.pc \in Filling /\ w.name \in Names
  BY DEF CommitIds, Filling, Typed, Located
<1>2. ids \in Row
  <2>1. w.list[w.name] \in Nat
    BY <1>1 DEF Typed, TypeOK, WorkerState
  <2> QED
    BY <1>1, <2>1, IdsRowType
<1>3. /\ rows' = [rows EXCEPT ![w.name] = Loaded(ids)]
      /\ w' = [w EXCEPT !.pc = "dns", !.mem = ids, !.list = Resting.list]
      /\ UNCHANGED <<accts, snaps, aliyun, locks, world, del, barred>>
  BY DEF CommitIds
<1> HIDE DEF ids
<1>4. rows' \in [Names -> Row]
  BY <1>1, <1>2, <1>3, LoadedType DEF Typed, TypeOK
<1>5. w' \in WorkerState /\ w'.name = w.name /\ w'.acct = w.acct
  <2>1. Resting.list \in [Names -> Nat]
    BY DEF Resting
  <2> QED
    BY <1>2, <1>3, <2>1 DEF Typed, TypeOK, WorkerState, WorkerPC
<1> QED
  BY <1>1, <1>3, <1>4, <1>5, GoOnType DEF Typed, TypeOK

(* the records are written,                                                 *)
LEMMA WriteDnsType == ASSUME Typed, WriteDns PROVE Typed'
<1>1. /\ w.pc \in Filling /\ w.name \in Names /\ w.acct \in Accounts
      /\ UNCHANGED <<snaps, aliyun, locks, remote, registrar, del, barred>>
  BY DEF WriteDns, Filling, Typed, Located
<1>2. accts' \in [Accounts -> Acct]
  BY <1>1, RecordUseType DEF WriteDns
<1>3. zone' \in [Names -> {"none", "partial", "full"}]
  BY DEF WriteDns, Typed, TypeOK
<1>4. [w.mem EXCEPT !.hold = FALSE] \in Row
  BY <1>1, EndedRowType DEF Row
<1>5. rows' \in [Names -> Row]
  BY <1>1, <1>4, LoadedType DEF WriteDns, Settled, Typed, TypeOK
<1>6. w' = [w EXCEPT !.pc = "verify", !.mem = [w.mem EXCEPT !.hold = FALSE]]
  BY DEF WriteDns, Typed, TypeOK, WorkerState
<1>7. w' \in WorkerState /\ w'.name = w.name /\ w'.acct = w.acct
  BY <1>1, <1>4, <1>6, MoveType DEF WorkerPC
<1> QED
  BY <1>1, <1>2, <1>3, <1>5, <1>7, GoOnType DEF Typed, TypeOK

(* or not all of them,                                                      *)
LEMMA WriteDnsFailsType ==
  ASSUME Typed, WriteDnsFails
  PROVE  Typed'
<1>1. w.pc \in Filling /\ UNCHANGED <<snaps, remote, registrar, del, barred>>
  BY DEF WriteDnsFails, Filling
<1>2. zone' \in [Names -> {"none", "partial", "full"}]
  BY DEF WriteDnsFails, Typed, TypeOK
<1>3. CASE AliyunThrottles
  <2>1. aliyun' \in Aliyun /\ accts' \in [Accounts -> Acct]
    BY <1>1, <1>3, RecordUseType DEF AliyunThrottles, Typed, TypeOK, Aliyun, Located
  <2>2. Handled("throttled", "readiness") \in Row
    BY <1>1, HandledType DEF Reason
  <2> QED
    BY <1>1, <1>2, <1>3, <2>1, <2>2, FinishType DEF AliyunThrottles, Typed,
       TypeOK
<1>4. CASE CountedFails("error", "other")
  BY <1>1, <1>2, <1>4, CountedFailsTyped DEF Reason
<1> QED
  BY <1>3, <1>4 DEF WriteDnsFails

(* the domain is gone meanwhile,                                            *)
LEMMA DomainGoneType ==
  ASSUME Typed, DomainGone
  PROVE  Typed'
<1>1. /\ w.pc \in Filling /\ UNCHANGED <<snaps, world, del, barred>>
      /\ Fails("error", "other") \/ CountedFails("error", "other")
  BY DEF DomainGone, Filling
<1> QED
  BY <1>1, FailsTyped, CountedFailsTyped DEF Typed, TypeOK, Reason

(* the domain is verified,                                                  *)
LEMMA VerifiedType == ASSUME Typed, Verified PROVE Typed'
<1> DEFINE new == [w.mem EXCEPT !.filling = FALSE, !.status = "used", !.reason = "none"]
<1>1. /\ w.pc \in Filling /\ w.acct \in Accounts
      /\ UNCHANGED <<snaps, aliyun, world, del, barred>>
  BY DEF Verified, Filling, Typed, Located
<1>2. new \in Row
  BY <1>1, EndedRowType DEF Row, Status, Reason
<1>3. Finish(Loaded(new))
  BY DEF Verified
<1> HIDE DEF new
<1>4. Loaded(new) \in Row
  BY <1>1, <1>2, LoadedType
<1>5. accts' \in [Accounts -> Acct]
  BY <1>1, RecordUseType DEF Verified
<1> QED
  BY <1>1, <1>3, <1>4, <1>5, FinishType DEF Typed, TypeOK

(* or is not.                                                               *)
LEMMA VerifyFailsType ==
  ASSUME Typed, VerifyFails
  PROVE  Typed'
<1>1. w.pc \in Filling /\ UNCHANGED <<snaps, world, del, barred>>
  BY DEF VerifyFails, Filling
<1>2. CASE YydsFails
  BY <1>1, <1>2, YydsFailsTyped DEF Typed, TypeOK
<1>3. CASE Fails("unexpected", "propagating")
  BY <1>1, <1>3, FailsTyped DEF Typed, TypeOK, Reason
<1> QED
  BY <1>2, <1>3 DEF VerifyFails
=============================================================================
