-------------------------- MODULE YydsSessionProofs --------------------------
(***************************************************************************)
(* Theorems about YydsSession, for any number of deletions, tokens, codes, *)
(* passwords and events: its types, that the worker alone presents no      *)
(* replaced token, and that a code is erased for a session only.           *)
(***************************************************************************)
EXTENDS YydsSession, FiniteSetTheorems, TLAPS

(* Where a thread has a client: between its lock and its commit.            *)
Working == {"me", "refresh", "inner", "again", "login", "send", "resend",
            "done", "failed"}

(* Where it has a session to present.                                       *)
Presenting == {"me", "refresh", "inner", "again", "send", "resend"}

(* What a thread knows of its session: the client's tokens are in its copy  *)
(* as well, and a code leaves the copy only when it has bought them.        *)
Shape(t) ==
  LET j == thread[t] IN
  /\ j.pc \in Presenting => j.tok # 0
  /\ j.pc \in Working => j.copy.tok = j.tok
  /\ j.pc \notin Working => ~j.used /\ ~j.wrote
  /\ j.used => j.wrote /\ j.code # 0 /\ j.tok \in yyds.coded
  /\ j.copy.code # j.base.code => j.used

SessionInv == TypeOK /\ \A t \in Threads : Shape(t)

-----------------------------------------------------------------------------
(* Tokens given out.                                                        *)

(* A new token is none that is in use, and a new login has a family of its  *)
(* own: there are no more families in use than tokens.                      *)
LEMMA NewOnes ==
  ASSUME TypeOK, TokenLeft
  PROVE  /\ InUse \subseteq Token
         /\ NewToken \in Token \ InUse
         /\ NewFamily \in Token
         /\ \A x \in InUse : yyds.family[x] # NewFamily
<1> DEFINE families == {yyds.family[x] : x \in InUse}
           f == [x \in InUse |-> yyds.family[x]]
<1>1. InUse \subseteq Token
  BY DEF InUse, TypeOK, Yyds
<1>2. NewToken \in Token \ InUse
  BY DEF NewToken, Unused, TokenLeft
<1>3. MaxToken \in Nat /\ IsFiniteSet(Token) /\ Cardinality(Token) \in Nat
  BY CountsAssumption, FS_Interval, FS_CardinalityType DEF Token
<1>4. IsFiniteSet(InUse) /\ Cardinality(InUse) \in Nat /\ Cardinality(InUse) < Cardinality(Token)
  <2>1. /\ IsFiniteSet(InUse) /\ Cardinality(InUse) <= Cardinality(Token)
        /\ Cardinality(Token) = Cardinality(InUse) => Token = InUse
    BY <1>1, <1>3, FS_Subset
  <2>2. Cardinality(InUse) \in Nat
    BY <2>1, FS_CardinalityType
  <2> QED
    BY <1>2, <1>3, <2>1, <2>2
<1>5. IsFiniteSet(families) /\ Cardinality(families) <= Cardinality(InUse)
  <2>1. f \in Surjection(InUse, families)
    BY DEF Surjection
  <2> HIDE DEF f, families
  <2> QED
    BY <1>4, <2>1, FS_Surjection
<1>6. ~(Token \subseteq families)
  <2> SUFFICES ASSUME Token \in SUBSET families PROVE FALSE
    OBVIOUS
  <2> HIDE DEF families
  <2>1. Cardinality(Token) <= Cardinality(families) /\ Cardinality(families) \in Nat
    BY <1>5, FS_Subset, FS_CardinalityType
  <2> QED
    BY <1>3, <1>4, <1>5, <2>1
<1>7. NewFamily \in Token \ families
  BY <1>6 DEF NewFamily, Unused
<1> QED
  BY <1>1, <1>2, <1>7

(* Tokens that threads and the row hold are in use.                         *)
LEMMA HeldInUse ==
  ASSUME TypeOK
  PROVE  /\ row.tok \in Token => row.tok \in InUse
         /\ \A t \in Threads : /\ thread[t].tok \in Token => thread[t].tok \in InUse
                               /\ thread[t].copy.tok \in Token => thread[t].copy.tok \in InUse
BY DEF InUse

(* yyds after it has given out a token.                                     *)
LEMMA MintedYyds ==
  ASSUME TypeOK, TokenLeft, NEW family \in 0..MaxToken, NEW coded \in BOOLEAN
  PROVE  /\ Minted(family, coded) \in Yyds
         /\ coded => NewToken \in Minted(family, coded).coded
         /\ yyds.coded \cap InUse \subseteq Minted(family, coded).coded
<1>1. InUse \subseteq Token /\ NewToken \in Token \ InUse
  BY NewOnes
<1>2. 0 \in 0..MaxToken
  BY CountsAssumption
<1> QED
  BY <1>1, <1>2 DEF TypeOK, Yyds, Minted

(* What a refresh or a login makes of yyds and of the thread's client.      *)
LEMMA RotatedYyds ==
  ASSUME TypeOK, TokenLeft, NEW t \in Threads, thread[t].tok \in Token
  PROVE  /\ Rotated(t) \in Yyds
         /\ thread[t].tok \in yyds.coded => NewToken \in Rotated(t).coded
         /\ yyds.coded \cap InUse \subseteq Rotated(t).coded
<1>1. yyds.family[thread[t].tok] \in 0..MaxToken
  BY DEF TypeOK, Yyds
<1> DEFINE coded == thread[t].tok \in yyds.coded
<1>2. coded \in BOOLEAN
  OBVIOUS
<1>3. Rotated(t) = Minted(yyds.family[thread[t].tok], coded)
  BY DEF Rotated
<1> HIDE DEF coded
<1> QED
  BY <1>1, <1>2, <1>3, MintedYyds DEF coded

LEMMA LoggedInYyds ==
  ASSUME TypeOK, TokenLeft, NEW t \in Threads
  PROVE  /\ LoggedIn(t) \in Yyds
         /\ thread[t].code # 0 => NewToken \in LoggedIn(t).coded
         /\ yyds.coded \cap InUse \subseteq LoggedIn(t).coded
<1>1. NewFamily \in 0..MaxToken
  BY NewOnes, CountsAssumption DEF Token
<1> DEFINE coded == thread[t].code # 0
           m == Minted(NewFamily, coded)
<1>2. coded \in BOOLEAN
  OBVIOUS
<1>3. /\ m \in Yyds
      /\ coded => NewToken \in m.coded
      /\ yyds.coded \cap InUse \subseteq m.coded
  BY <1>1, <1>2, MintedYyds
<1>4. LoggedIn(t) = [m EXCEPT !.spent = @ \cup ({thread[t].code} \cap Code)]
  BY DEF LoggedIn
<1> HIDE DEF m
<1> QED
  BY <1>3, <1>4 DEF Yyds

-----------------------------------------------------------------------------
(* A thread goes on by itself: its new state has to be right.               *)
LEMMA ThreadStep ==
  ASSUME SessionInv, NEW t \in Threads, NEW j \in Job, Becomes(t, j),
         row' \in Row, lock' \in Threads \cup {None}, yyds' \in Yyds, upset' \in BOOLEAN,
         left' \in [event : 0..MaxEvent, code : 0..MaxCode, delete : 0..MaxDelete],
         yyds.coded \cap InUse \subseteq yyds'.coded,
         Shape(t)'
  PROVE  SessionInv'
<1>1. thread' \in [Threads -> Job] /\ \A u \in Threads : u # t => thread'[u] = thread[u]
  BY DEF SessionInv, TypeOK, Becomes
<1>2. TypeOK'
  BY <1>1 DEF TypeOK
<1>3. ASSUME NEW u \in Threads, u # t PROVE Shape(u)'
  <2>1. Shape(u) /\ thread'[u] = thread[u]
    BY <1>1, <1>3 DEF SessionInv
  <2>2. thread[u].tok \in yyds.coded => thread[u].tok \in yyds'.coded
    BY HeldInUse DEF SessionInv, TypeOK, Yyds
  <2> QED
    BY <2>1, <2>2 DEF Shape
<1> QED
  BY <1>2, <1>3 DEF SessionInv

(* So does one that leaves everything else alone.                           *)
LEMMA OwnStep ==
  ASSUME SessionInv, NEW t \in Threads, NEW j \in Job, Becomes(t, j),
         UNCHANGED <<row, lock, yyds, upset>>,
         left' \in [event : 0..MaxEvent, code : 0..MaxCode, delete : 0..MaxDelete],
         Shape(t)'
  PROVE  SessionInv'
BY ThreadStep DEF SessionInv, TypeOK

(* A thread that moves on in its calls.                                     *)
LEMMA GoesInv ==
  ASSUME SessionInv, NEW t \in Threads, NEW pc \in Working, Goes(t, pc),
         thread[t].pc \in Working,
         pc \in Presenting => thread[t].pc \in Presenting,
         UNCHANGED <<row, lock, yyds, upset>>,
         left' \in [event : 0..MaxEvent, code : 0..MaxCode, delete : 0..MaxDelete]
  PROVE  SessionInv'
<1> DEFINE j == [thread[t] EXCEPT !.pc = pc]
<1>1. thread[t] \in Job /\ Becomes(t, j)
  BY DEF SessionInv, TypeOK, Goes
<1>2. j \in Job
  BY <1>1 DEF Job, PC, Working
<1>3. thread'[t] = j
  BY DEF Becomes, Goes, SessionInv, TypeOK
<1>4. Shape(t)'
  BY <1>1, <1>3 DEF SessionInv, Shape, Job
<1> QED
  BY <1>1, <1>2, <1>4, OwnStep

(* The requests of a client that yyds answers without a new token.          *)
LEMMA AskInv ==
  ASSUME SessionInv, NEW t \in Threads,
         GetMe(t) \/ GetMeAgain(t) \/ Send(t) \/ Resend(t) \/ RefreshRefused(t)
           \/ LoginRefused(t)
  PROVE  SessionInv'
<1>1. left \in [event : 0..MaxEvent, code : 0..MaxCode, delete : 0..MaxDelete]
  BY DEF SessionInv, TypeOK
<1>2. \A phase : Sure(phase) \in {"done", "send"}
  BY DEF Sure
<1>3. CASE GetMe(t)
  BY <1>1, <1>2, <1>3, GoesInv DEF GetMe, At, Working, Presenting
<1>4. CASE GetMeAgain(t)
  BY <1>1, <1>2, <1>4, GoesInv DEF GetMeAgain, At, Working, Presenting
<1>5. CASE Send(t)
  <2>1. CASE Goes(t, "done")
    BY <1>1, <1>5, <2>1, GoesInv DEF Send, At, Working, Presenting
  <2>2. CASE Becomes(t, [thread[t] EXCEPT !.pc = "refresh", !.phase = "retry"])
    <3> DEFINE j == [thread[t] EXCEPT !.pc = "refresh", !.phase = "retry"]
    <3>1. thread[t] \in Job /\ thread'[t] = j /\ Becomes(t, j) /\ thread[t].pc = "send"
      BY <1>5, <2>2 DEF SessionInv, TypeOK, Becomes, Send, At
    <3>2. j \in Job
      BY <3>1 DEF Job, PC
    <3>3. UNCHANGED <<row, lock, yyds, left, upset>>
      BY <1>5 DEF Send
    <3>4. Shape(t)'
      BY <3>1, <3>3 DEF SessionInv, Shape, Job, Working, Presenting
    <3> HIDE DEF j
    <3> QED
      BY <1>1, <3>1, <3>2, <3>3, <3>4, OwnStep
  <2> QED
    BY <1>5, <2>1, <2>2 DEF Send
<1>6. CASE Resend(t)
  BY <1>1, <1>6, GoesInv DEF Resend, At, Working, Presenting
<1>7. CASE LoginRefused(t)
  BY <1>1, <1>7, GoesInv DEF LoginRefused, At, Working, Presenting
<1>8. CASE RefreshRefused(t)
  <2> DEFINE j == [thread[t] EXCEPT !.pc = "inner"]
  <2>1. thread[t] \in Job /\ thread'[t] = j /\ Becomes(t, j) /\ thread[t].pc = "refresh"
    BY <1>8 DEF SessionInv, TypeOK, Becomes, RefreshRefused, At, Goes
  <2>2. j \in Job
    BY <2>1 DEF Job, PC
  <2>3. yyds' \in Yyds /\ yyds'.coded = yyds.coded
    BY <1>8 DEF RefreshRefused, SessionInv, TypeOK, Yyds
  <2>4. Shape(t)'
    BY <2>1, <2>3 DEF SessionInv, Shape, Job, Working, Presenting
  <2>5. UNCHANGED <<row, lock, left, upset>>
    BY <1>8 DEF RefreshRefused
  <2> HIDE DEF j
  <2> QED
    BY <2>1, <2>2, <2>3, <2>4, <2>5, ThreadStep DEF SessionInv, TypeOK
<1> QED
  BY <1>3, <1>4, <1>5, <1>6, <1>7, <1>8

(* A job after its tokens went into its copy.                               *)
LEMMA PersistedJob ==
  ASSUME NEW j \in Job
  PROVE  /\ Persisted(j) \in Job
         /\ Persisted(j).pc = j.pc /\ Persisted(j).tok = j.tok
         /\ Persisted(j).code = j.code /\ Persisted(j).used = j.used
         /\ Persisted(j).base = j.base
         /\ j.wrote \/ j.tok # 0 => Persisted(j).wrote
         /\ Persisted(j).copy.tok = IF j.tok # 0 THEN j.tok ELSE j.copy.tok
         /\ Persisted(j).copy.red = j.copy.red
         /\ Persisted(j).copy.code = IF j.used THEN 0 ELSE j.copy.code
<1> DEFINE tok  == IF j.tok # 0 THEN j.tok ELSE j.copy.tok
           copy == [j.copy EXCEPT !.tok = tok, !.code = IF j.used THEN 0 ELSE @]
<1>1. /\ j.copy \in Row /\ j.used \in BOOLEAN /\ j.wrote \in BOOLEAN
      /\ tok \in 0..MaxToken
  BY DEF Job, Row
<1>2. (IF j.used THEN 0 ELSE j.copy.code) \in 0..MaxCode
  BY <1>1, CountsAssumption DEF Row
<1>3. /\ copy \in Row /\ copy.tok = tok /\ copy.red = j.copy.red
      /\ copy.code = IF j.used THEN 0 ELSE j.copy.code
  BY <1>1, <1>2 DEF Row
<1>4. Persisted(j) = [j EXCEPT !.copy = copy, !.wrote = (j.wrote \/ j.tok # 0)]
  BY <1>1 DEF Persisted, Job, Row
<1> HIDE DEF copy
<1> QED
  BY <1>1, <1>3, <1>4 DEF Job

(* A client that has been given a token.                                    *)
LEMMA GivenInv ==
  ASSUME SessionInv, TokenLeft, NEW t \in Threads, thread[t].pc \in Working,
         NEW pc \in Working, NEW used \in BOOLEAN,
         LET j == [thread[t] EXCEPT !.tok = NewToken, !.used = used, !.pc = pc]
         IN  Becomes(t, Persisted(j)),
         used => thread[t].code # 0 /\ NewToken \in yyds'.coded,
         thread[t].used => used,
         yyds' \in Yyds, yyds.coded \cap InUse \subseteq yyds'.coded,
         UNCHANGED <<row, lock, left, upset>>
  PROVE  SessionInv'
<1> DEFINE new == [thread[t] EXCEPT !.tok = NewToken, !.used = used, !.pc = pc]
           j   == Persisted(new)
<1>1. thread[t] \in Job /\ NewToken \in 0..MaxToken /\ NewToken # 0
  BY NewOnes DEF SessionInv, TypeOK, Token
<1>2. thread'[t] = j /\ Becomes(t, j)
  BY DEF Becomes, SessionInv, TypeOK
<1>3. /\ new \in Job /\ new.tok = NewToken /\ new.used = used /\ new.pc = pc
      /\ new.code = thread[t].code /\ new.copy = thread[t].copy
      /\ new.base = thread[t].base
  BY <1>1 DEF Job, PC, Working
<1> HIDE DEF new
<1>4. Shape(t)
  BY DEF SessionInv
<1>5. Shape(t)'
  BY <1>1, <1>2, <1>3, <1>4, PersistedJob DEF Shape, Presenting, Working
<1>6. j \in Job
  BY <1>3, PersistedJob
<1> HIDE DEF j
<1> QED
  BY <1>2, <1>5, <1>6, ThreadStep DEF SessionInv, TypeOK

LEMMA RefreshInv ==
  ASSUME SessionInv, NEW t \in Threads, RefreshAccepted(t)
  PROVE  SessionInv'
<1> DEFINE pc == Refreshed(thread[t].phase)
<1>1. /\ thread[t] \in Job /\ thread[t].tok \in Token /\ TokenLeft
      /\ thread[t].pc = "refresh" /\ pc \in {"resend", "again"}
  BY DEF SessionInv, TypeOK, RefreshAccepted, Yyds, At, Refreshed
<1>2. [thread[t] EXCEPT !.tok = NewToken, !.pc = pc]
        = [thread[t] EXCEPT !.tok = NewToken, !.used = thread[t].used, !.pc = pc]
  BY <1>1 DEF Job
<1>3. thread[t].used => thread[t].code # 0 /\ thread[t].tok \in yyds.coded
  BY DEF SessionInv, Shape
<1>4. thread[t].used \in BOOLEAN
  BY <1>1 DEF Job
<1> HIDE DEF pc
<1> QED
  BY <1>1, <1>2, <1>3, <1>4, RotatedYyds, GivenInv
     DEF RefreshAccepted, SessionInv, Working, pc

LEMMA LoginInv ==
  ASSUME SessionInv, NEW t \in Threads, Login(t)
  PROVE  SessionInv'
<1> DEFINE pc   == AfterLogin(thread[t])
           used == thread[t].used \/ thread[t].code # 0
<1>1. /\ thread[t] \in Job /\ TokenLeft /\ thread[t].pc \in {"login", "inner"}
      /\ pc \in Working /\ used \in BOOLEAN
  BY DEF SessionInv, TypeOK, Login, At, AfterLogin, Refreshed, Sure, Working
<1>2. thread[t].used => thread[t].code # 0
  BY DEF SessionInv, Shape
<1>3. Becomes(t, Persisted([thread[t] EXCEPT !.tok = NewToken, !.used = used, !.pc = pc]))
  BY <1>1 DEF Login
<1>4. used => thread[t].code # 0
  BY <1>2
<1>5. yyds' = LoggedIn(t) /\ UNCHANGED <<row, lock, left, upset>>
  BY DEF Login
<1>6. thread[t].used => used
  OBVIOUS
<1> HIDE DEF pc, used
<1> QED
  BY <1>1, <1>3, <1>4, <1>5, <1>6, LoggedInYyds, GivenInv DEF SessionInv, Working

-----------------------------------------------------------------------------
(* Where jobs begin and end.                                                *)

(* A thread without a client knows nothing of a session.                    *)
LEMMA RestingShape ==
  ASSUME SessionInv, NEW t \in Threads, NEW j \in Job, thread'[t] = j,
         j.pc \notin Working, ~j.used, ~j.wrote, j.copy.code = j.base.code
  PROVE  Shape(t)'
BY DEF Shape, Working, Presenting

LEMMA NoJobType ==
  /\ NoJob \in Job /\ NewRow \in Row /\ NoJob.pc = "idle" /\ NoJob.copy = NewRow
  /\ ~NoJob.used /\ ~NoJob.wrote /\ NoJob.copy.code = NoJob.base.code
  /\ NewRow.tok = 0
<1>1. NewRow \in Row
  BY CountsAssumption DEF NewRow, Row, Password
<1>2. Base(NewRow) \in [code : 0..MaxCode, red : BOOLEAN] /\ Base(NewRow).code = NewRow.code
  BY <1>1 DEF Base, Row
<1>3. 0 \in 0..MaxToken /\ 0 \in 0..MaxCode
  BY CountsAssumption
<1> QED
  BY <1>1, <1>2, <1>3 DEF NoJob, Job, PC, NewRow

LEMMA LoadInv ==
  ASSUME SessionInv, NEW t \in Threads, NEW kind \in {"poll", "fill", "delete"},
         Load(t, kind), UNCHANGED <<row, lock, yyds, upset>>,
         left' \in [event : 0..MaxEvent, code : 0..MaxCode, delete : 0..MaxDelete]
  PROVE  SessionInv' /\ thread'[t].pc = "wait" /\ thread'[t].copy = row /\ ~thread'[t].wrote
<1> DEFINE j == [NoJob EXCEPT !.pc = "wait", !.kind = kind, !.base = Base(row), !.copy = row]
<1>1. row \in Row /\ Base(row) \in [code : 0..MaxCode, red : BOOLEAN] /\ Base(row).code = row.code
  BY DEF SessionInv, TypeOK, Base, Row
<1>2. Becomes(t, j) /\ thread'[t] = j
  BY DEF Load, Becomes, SessionInv, TypeOK
<1>3. /\ j \in Job /\ j.pc = "wait" /\ j.copy = row /\ ~j.used /\ ~j.wrote
      /\ j.copy.code = j.base.code
  BY <1>1, NoJobType DEF Job, PC
<1> HIDE DEF j
<1> QED
  BY <1>2, <1>3, RestingShape, OwnStep DEF Working

(* A thread that comes to rest.                                             *)
LEMMA RestInv ==
  ASSUME SessionInv, NEW t \in Threads, Becomes(t, NoJob), row' \in Row,
         lock' \in Threads \cup {None}, UNCHANGED <<yyds, left, upset>>
  PROVE  SessionInv'
<1>1. thread'[t] = NoJob
  BY DEF Becomes, SessionInv, TypeOK
<1> QED
  BY <1>1, NoJobType, RestingShape, ThreadStep DEF Working, SessionInv, TypeOK

LEMMA StartsInv ==
  ASSUME SessionInv, StartCycle \/ StartFill \/ EndCycle \/ \E d \in Deleters : StartDelete(d)
  PROVE  SessionInv'
<1>1. Worker \in Threads /\ Deleters \subseteq Threads
  BY DEF Threads
<1>2. left \in [event : 0..MaxEvent, code : 0..MaxCode, delete : 0..MaxDelete]
  BY DEF SessionInv, TypeOK
<1>3. CASE StartCycle
  BY <1>1, <1>2, <1>3, LoadInv DEF StartCycle
<1>4. CASE StartFill
  <2>1. CASE Load(Worker, "fill")
    BY <1>1, <1>2, <1>4, <2>1, LoadInv DEF StartFill
  <2>2. CASE Becomes(Worker, [thread[Worker] EXCEPT !.pc = "wait", !.kind = "fill",
                                                    !.wrote = FALSE])
    <3> DEFINE j == [thread[Worker] EXCEPT !.pc = "wait", !.kind = "fill", !.wrote = FALSE]
    <3>1. thread[Worker] \in Job /\ thread'[Worker] = j /\ thread[Worker].pc = "between"
      BY <1>1, <1>4, <2>2 DEF SessionInv, TypeOK, Becomes, StartFill, At
    <3>2. ~thread[Worker].used /\ thread[Worker].copy.code = thread[Worker].base.code
      BY <1>1, <3>1 DEF SessionInv, Shape, Working
    <3>3. /\ j \in Job /\ j.pc = "wait" /\ ~j.used /\ ~j.wrote
          /\ j.copy.code = j.base.code
      BY <3>1, <3>2 DEF Job, PC
    <3> HIDE DEF j
    <3>4. Becomes(Worker, j) /\ UNCHANGED <<row, lock, yyds, left, upset>>
      BY <1>4, <2>2 DEF StartFill, j
    <3> QED
      BY <1>1, <1>2, <3>1, <3>3, <3>4, RestingShape, OwnStep DEF Working
  <2> QED
    BY <1>4, <2>1, <2>2 DEF StartFill
<1>5. CASE EndCycle
  BY <1>1, <1>5, RestInv DEF EndCycle, SessionInv, TypeOK
<1>6. ASSUME NEW d \in Deleters, StartDelete(d) PROVE SessionInv'
  <2>1. left' \in [event : 0..MaxEvent, code : 0..MaxCode, delete : 0..MaxDelete]
    BY <1>2, <1>6, CountsAssumption DEF StartDelete
  <2> QED
    BY <1>1, <1>6, <2>1, LoadInv DEF StartDelete
<1> QED
  BY <1>3, <1>4, <1>5, <1>6

LEMMA TakeLockInv ==
  ASSUME SessionInv, NEW t \in Threads, TakeLock(t)
  PROVE  SessionInv'
<1> DEFINE old == thread[t]
           j == [old EXCEPT !.pc = Opening(old.copy.tok), !.tok = old.copy.tok,
                            !.code = old.copy.code, !.used = FALSE,
                            !.phase = IF old.kind = "delete" THEN "ensure" ELSE "open"]
<1>1. /\ old \in Job /\ old.copy \in Row /\ old.pc = "wait" /\ Becomes(t, j)
      /\ thread'[t] = j
  BY DEF SessionInv, TypeOK, TakeLock, At, Becomes, Job
<1>2. /\ Opening(old.copy.tok) \in {"login", "me"}
      /\ Opening(old.copy.tok) = "me" => old.copy.tok # 0
  BY DEF Opening
<1>3. /\ j \in Job /\ j.pc = Opening(old.copy.tok) /\ j.tok = old.copy.tok /\ ~j.used
      /\ j.copy = old.copy /\ j.base = old.base
  BY <1>1, <1>2 DEF Job, PC, Row
<1>4. old.copy.code = old.base.code
  BY <1>1 DEF SessionInv, Shape, Working
<1>5. Shape(t)'
  BY <1>1, <1>2, <1>3, <1>4 DEF Shape, Working, Presenting
<1>6. row' \in Row /\ lock' \in Threads \cup {None} /\ upset' \in BOOLEAN /\ UNCHANGED <<yyds, left>>
  BY DEF TakeLock, SessionInv, TypeOK
<1> HIDE DEF j, old
<1> QED
  BY <1>1, <1>3, <1>5, <1>6, ThreadStep DEF SessionInv, TypeOK

LEMMA NextRequestInv ==
  ASSUME SessionInv, NEW t \in Threads, NextRequest(t)
  PROVE  SessionInv'
<1> DEFINE old == thread[t]
           j == [old EXCEPT !.pc = Opening(old.tok), !.phase = "ensure"]
<1>1. /\ old \in Job /\ old.pc \in {"done", "failed"} /\ Becomes(t, j)
      /\ thread'[t] = j /\ UNCHANGED <<row, lock, yyds, left, upset>>
  BY DEF SessionInv, TypeOK, NextRequest, At, Becomes
<1>2. /\ Opening(old.tok) \in {"login", "me"}
      /\ Opening(old.tok) = "me" => old.tok # 0
  BY DEF Opening
<1>3. j \in Job
  BY <1>1, <1>2 DEF Job, PC
<1>4. Shape(t)
  BY DEF SessionInv
<1>5. Shape(t)'
  BY <1>1, <1>2, <1>4 DEF Shape, Working, Presenting, Job
<1> HIDE DEF j
<1> QED
  BY <1>1, <1>3, <1>5, OwnStep DEF SessionInv, TypeOK

(* What a commit can make of the row.                                       *)
LEMMA CommittedRow ==
  ASSUME SessionInv, NEW j \in Job, NEW r \in Committed(j)
  PROVE  /\ r \in Row
         /\ r.tok = IF j.wrote THEN j.copy.tok ELSE row.tok
         /\ r.code = IF j.copy.code # j.base.code THEN j.copy.code ELSE row.code
<1>1. PICK red \in (IF j.copy.red # j.base.red THEN {} ELSE {row.red})
                     \cup (IF j.copy.red \/ j.base.red THEN {j.copy.red} ELSE {}) :
        r = [row EXCEPT !.tok = IF j.wrote THEN j.copy.tok ELSE @,
                        !.code = IF j.copy.code # j.base.code THEN j.copy.code ELSE @,
                        !.red = red]
  BY DEF Committed
<1>2. row \in Row /\ j.copy \in Row
  BY DEF SessionInv, TypeOK, Job
<1>3. red \in BOOLEAN
  BY <1>2 DEF Row
<1> QED
  BY <1>1, <1>2, <1>3 DEF Row

(* The end of a job: j is what its thread has made of it.                   *)
LEMMA LeaveInv ==
  ASSUME SessionInv, NEW t \in Threads, NEW j \in Job, Leave(t, j)
  PROVE  SessionInv'
<1>1. row' \in Row
  BY CommittedRow DEF Leave
<1> DEFINE b == [NoJob EXCEPT !.pc = "between", !.base = Base(j.copy), !.copy = j.copy]
<1>2. lock' \in Threads \cup {None} /\ UNCHANGED <<yyds, left, upset>>
  BY DEF Leave
<1>3. CASE t = Worker
  <2>1. Becomes(t, b) /\ thread'[t] = b
    BY <1>3 DEF Leave, Becomes, SessionInv, TypeOK
  <2>2. /\ j.copy \in Row /\ Base(j.copy) \in [code : 0..MaxCode, red : BOOLEAN]
        /\ Base(j.copy).code = j.copy.code
    BY DEF Job, Base, Row
  <2>3. b \in Job /\ b.pc = "between" /\ ~b.used /\ ~b.wrote /\ b.copy.code = b.base.code
    BY <2>2, NoJobType DEF Job, PC
  <2> HIDE DEF b
  <2> QED
    BY <1>1, <1>2, <2>1, <2>3, RestingShape, ThreadStep DEF Working, SessionInv, TypeOK
<1>4. CASE t # Worker
  BY <1>1, <1>2, <1>4, RestInv DEF Leave
<1> QED
  BY <1>3, <1>4

(* The end of a job that commits: the tokens of the client go into the row, *)
(* and a code goes out of it only if it has bought them.                    *)
Commits(t, j) ==
  /\ Leave(t, j)
  /\ j.copy.tok = thread[t].tok
  /\ j.copy.code # j.base.code
       => thread[t].used /\ j.wrote /\ thread[t].tok \in yyds.coded
  /\ thread[t].wrote => j.wrote

(* The end of a deletion that is rolled back.                               *)
RollsBack(t) ==
  /\ t \in Deleters /\ Becomes(t, NoJob)
  /\ lock' = None /\ UNCHANGED <<row, yyds, left, upset>>

(* Every end of a job is one of the two.                                    *)
LEMMA Endings ==
  ASSUME SessionInv, PollEnds \/ FillEnds \/ \E d \in Deleters : DeleteEnds(d)
  PROVE  \E t \in Threads :
           /\ thread[t].pc \in {"done", "failed"}
           /\ (\E j \in Job : Commits(t, j)) \/ RollsBack(t)
<1>1. Worker \in Threads /\ Deleters \subseteq Threads
  BY DEF Threads
<1>2. ASSUME NEW t \in Threads, thread[t].pc \in {"done", "failed"}
      PROVE  /\ thread[t] \in Job
             /\ thread[t].copy.tok = thread[t].tok
             /\ thread[t].copy.code # thread[t].base.code => thread[t].used
             /\ thread[t].used => thread[t].wrote /\ thread[t].tok \in yyds.coded
  BY <1>2 DEF SessionInv, TypeOK, Shape, Working
<1>3. ASSUME NEW t \in Threads, thread[t].pc \in {"done", "failed"},
             NEW red \in BOOLEAN,
             LET j == thread[t]
             IN  \/ Leave(t, [j EXCEPT !.copy.red = red])
                 \/ Leave(t, [Persisted(j) EXCEPT !.copy.red = red])
                 \/ Leave(t, j)
                 \/ Leave(t, Persisted(j))
      PROVE  \E j \in Job : Commits(t, j)
  <2>1. ASSUME NEW j \in Job, j = thread[t] \/ j = Persisted(thread[t])
        PROVE  /\ Leave(t, j) => Commits(t, j)
               /\ [j EXCEPT !.copy.red = red] \in Job
               /\ Leave(t, [j EXCEPT !.copy.red = red]) => Commits(t, [j EXCEPT !.copy.red = red])
    <3>1. j.copy \in Row
      BY DEF Job
    <3>2. /\ j.copy.tok = thread[t].tok /\ j.base = thread[t].base
          /\ j.copy.code # j.base.code
               => /\ thread[t].used /\ j.wrote /\ thread[t].tok \in yyds.coded
          /\ thread[t].wrote => j.wrote
      <4>1. CASE j = thread[t]
        BY <1>2, <1>3, <4>1
      <4>2. CASE j = Persisted(thread[t])
        <5>1. thread[t] \in Job
          BY <1>2, <1>3
        <5>2. /\ j.copy.tok = thread[t].tok /\ j.base = thread[t].base
              /\ thread[t].wrote => j.wrote
              /\ j.copy.code = IF thread[t].used THEN 0 ELSE thread[t].copy.code
          BY <1>2, <1>3, <4>2, <5>1, PersistedJob
        <5> QED
          BY <1>2, <1>3, <5>2
      <4> QED
        BY <2>1, <4>1, <4>2
    <3>3. /\ [j EXCEPT !.copy.red = red] \in Job
          /\ [j EXCEPT !.copy.red = red].copy.tok = j.copy.tok
          /\ [j EXCEPT !.copy.red = red].copy.code = j.copy.code
          /\ [j EXCEPT !.copy.red = red].base = j.base
          /\ [j EXCEPT !.copy.red = red].wrote = j.wrote
      BY <3>1 DEF Job, Row
    <3> QED
      BY <3>2, <3>3 DEF Commits
  <2>2. thread[t] \in Job /\ Persisted(thread[t]) \in Job
    BY <1>2, <1>3, PersistedJob
  <2> QED
    BY <1>3, <2>1, <2>2
<1>4. CASE PollEnds
  BY <1>1, <1>3, <1>4 DEF PollEnds
<1>5. CASE FillEnds
  BY <1>1, <1>3, <1>5 DEF FillEnds
<1>6. ASSUME NEW d \in Deleters, DeleteEnds(d)
      PROVE  /\ thread[d].pc \in {"done", "failed"}
             /\ (\E j \in Job : Commits(d, j)) \/ RollsBack(d)
  BY <1>1, <1>3, <1>6 DEF DeleteEnds, RollsBack
<1> QED
  BY <1>1, <1>4, <1>5, <1>6 DEF PollEnds, FillEnds

LEMMA EndingsInv ==
  ASSUME SessionInv, PollEnds \/ FillEnds \/ \E d \in Deleters : DeleteEnds(d)
  PROVE  SessionInv'
<1>1. PICK t \in Threads : (\E j \in Job : Commits(t, j)) \/ RollsBack(t)
  BY Endings
<1>2. CASE \E j \in Job : Commits(t, j)
  BY <1>2, LeaveInv DEF Commits
<1>3. CASE RollsBack(t)
  BY <1>3, RestInv DEF RollsBack, SessionInv, TypeOK
<1> QED
  BY <1>1, <1>2, <1>3

-----------------------------------------------------------------------------
(* What happens around the threads.                                         *)

(* Something that leaves the threads as they are.                           *)
LEMMA AroundInv ==
  ASSUME SessionInv, row' \in Row, yyds' \in Yyds, yyds'.coded = yyds.coded,
         left' \in [event : 0..MaxEvent, code : 0..MaxCode, delete : 0..MaxDelete],
         UNCHANGED <<thread, lock, upset>>
  PROVE  SessionInv'
<1>1. TypeOK'
  BY DEF SessionInv, TypeOK
<1>2. ASSUME NEW t \in Threads PROVE Shape(t)'
  BY DEF SessionInv, Shape
<1> QED
  BY <1>1, <1>2 DEF SessionInv

LEMMA HappensType ==
  ASSUME SessionInv, Happens
  PROVE  left' \in [event : 0..MaxEvent, code : 0..MaxCode, delete : 0..MaxDelete]
<1>1. left.event \in 0..MaxEvent /\ left.event > 0 /\ MaxEvent \in Nat
  BY CountsAssumption DEF SessionInv, TypeOK, Happens
<1>2. left.event - 1 \in 0..MaxEvent
  BY <1>1
<1> QED
  BY <1>2 DEF SessionInv, TypeOK, Happens

(* A call that fails: yyds may have given out the token all the same.       *)
LEMMA CallFailsInv ==
  ASSUME SessionInv, NEW t \in Threads, CallFails(t)
  PROVE  SessionInv'
<1> DEFINE j == [thread[t] EXCEPT !.pc = "failed"]
<1>1. /\ thread[t] \in Job /\ Becomes(t, j) /\ thread'[t] = j /\ UNCHANGED <<row, lock>>
      /\ thread[t].pc \in Working
  BY DEF SessionInv, TypeOK, CallFails, Goes, Becomes, Working
<1>2. /\ j \in Job /\ j.pc = "failed" /\ j.tok = thread[t].tok /\ j.copy = thread[t].copy
      /\ j.base = thread[t].base /\ j.used = thread[t].used /\ j.code = thread[t].code
      /\ j.wrote = thread[t].wrote
  BY <1>1 DEF Job, PC
<1>3. left' \in [event : 0..MaxEvent, code : 0..MaxCode, delete : 0..MaxDelete]
  BY HappensType DEF CallFails
<1>4. yyds' \in Yyds /\ yyds.coded \cap InUse \subseteq yyds'.coded /\ upset' \in BOOLEAN
  <2>1. CASE UNCHANGED <<yyds, upset>>
    BY <2>1 DEF SessionInv, TypeOK
  <2>2. CASE thread[t].tok \in yyds.valid /\ TokenLeft /\ yyds' = Rotated(t) /\ upset' = TRUE
    BY <2>2, RotatedYyds DEF SessionInv, TypeOK, Yyds
  <2>3. CASE TokenLeft /\ yyds' = LoggedIn(t) /\ upset' = TRUE
    BY <2>3, LoggedInYyds DEF SessionInv
  <2> QED
    BY <2>1, <2>2, <2>3 DEF CallFails
<1>5. Shape(t) /\ (thread[t].tok \in yyds.coded => thread[t].tok \in yyds'.coded)
  BY <1>4, HeldInUse DEF SessionInv, TypeOK, Yyds
<1> HIDE DEF j
<1>6. Shape(t)'
  BY <1>1, <1>2, <1>5 DEF Shape, Working, Presenting
<1> QED
  BY <1>1, <1>2, <1>3, <1>4, <1>6, ThreadStep DEF SessionInv, TypeOK

LEMMA SurroundingsInv ==
  ASSUME SessionInv, Surroundings
  PROVE  SessionInv'
<1>1. ASSUME NEW tok \in Token, Expire(tok) PROVE SessionInv'
  <2>1. yyds' \in Yyds /\ yyds'.coded = yyds.coded
    BY <1>1 DEF Expire, SessionInv, TypeOK, Yyds
  <2> QED
    BY <1>1, <2>1, HappensType, AroundInv DEF Expire, SessionInv, TypeOK
<1>2. CASE WebsitePassword
  <2>1. yyds.secret + 1 \in Password
    BY <1>2, CountsAssumption DEF WebsitePassword, SessionInv, TypeOK, Yyds, Password
  <2>2. yyds' \in Yyds /\ yyds'.coded = yyds.coded
    BY <1>2, <2>1 DEF WebsitePassword, SessionInv, TypeOK, Yyds
  <2> QED
    BY <1>2, <2>2, HappensType, AroundInv DEF WebsitePassword, SessionInv, TypeOK
<1>3. ASSUME NEW pw \in Password, PatchPassword(pw) PROVE SessionInv'
  <2>1. 0 \in 0..MaxToken
    BY CountsAssumption
  <2>2. row' \in Row
    BY <1>3, <2>1 DEF PatchPassword, SessionInv, TypeOK, Row
  <2> QED
    BY <1>3, <2>2, HappensType, AroundInv DEF PatchPassword, SessionInv, TypeOK
<1>4. CASE EnterCode
  <2>1. /\ left.event \in 0..MaxEvent /\ left.code \in 0..MaxCode /\ left.event > 0
        /\ left.code > 0 /\ MaxCode \in Nat /\ MaxEvent \in Nat
    BY <1>4, CountsAssumption DEF EnterCode, SessionInv, TypeOK
  <2>2. left.event - 1 \in 0..MaxEvent /\ left.code - 1 \in 0..MaxCode
        /\ MaxCode - left.code + 1 \in 0..MaxCode
    BY <2>1
  <2>3. row' \in Row
    BY <1>4, <2>2 DEF EnterCode, SessionInv, TypeOK, Row
  <2>4. left' \in [event : 0..MaxEvent, code : 0..MaxCode, delete : 0..MaxDelete]
    BY <1>4, <2>2 DEF EnterCode, SessionInv, TypeOK
  <2> QED
    BY <1>4, <2>3, <2>4, AroundInv DEF EnterCode, SessionInv, TypeOK
<1>5. CASE Crash
  <2>1. TypeOK'
    BY <1>5, NoJobType, HappensType DEF Crash, SessionInv, TypeOK
  <2>2. ASSUME NEW t \in Threads PROVE Shape(t)'
    <3>1. thread'[t] = NoJob
      BY <1>5 DEF Crash
    <3> QED
      BY <3>1, NoJobType, RestingShape DEF Working
  <2> QED
    BY <2>1, <2>2 DEF SessionInv
<1> QED
  BY <1>1, <1>2, <1>3, <1>4, <1>5, CallFailsInv, StartsInv DEF Surroundings

-----------------------------------------------------------------------------
LEMMA SessionInit == Init => SessionInv
<1> SUFFICES ASSUME Init PROVE SessionInv
  OBVIOUS
<1>1. row \in Row /\ row.code \in {0, 1}
  <2>1. 1 \in 0..MaxCode
    BY CountsAssumption
  <2>2. [NewRow EXCEPT !.code = 1] \in Row /\ [NewRow EXCEPT !.code = 1].code = 1
    BY <2>1, NoJobType DEF Row
  <2>3. NewRow.code = 0
    BY DEF NewRow
  <2> QED
    BY <2>2, <2>3, NoJobType DEF Init
<1>2. yyds \in Yyds
  <2>1. 1 \in Password /\ 0 \in 0..MaxToken
    BY CountsAssumption DEF Password
  <2>2. NewYyds \in Yyds
    BY <2>1 DEF NewYyds, Yyds
  <2>3. [NewYyds EXCEPT !.twofa = TRUE] \in Yyds
    BY <2>2 DEF Yyds
  <2> QED
    BY <2>2, <2>3 DEF Init
<1>3. left \in [event : 0..MaxEvent, code : 0..MaxCode, delete : 0..MaxDelete]
  <2>1. MaxCode - row.code \in 0..MaxCode
    BY <1>1, CountsAssumption
  <2> QED
    BY <2>1, CountsAssumption DEF Init, Budget
<1>4. TypeOK
  BY <1>1, <1>2, <1>3, NoJobType DEF Init, TypeOK
<1> QED
  BY <1>4, NoJobType DEF Init, SessionInv, Shape, Working, Presenting

LEMMA SessionNext == SessionInv /\ [Next]_vars => SessionInv'
<1> SUFFICES ASSUME SessionInv, [Next]_vars PROVE SessionInv'
  OBVIOUS
<1>1. Worker \in Threads /\ Deleters \subseteq Threads
  BY DEF Threads
<1>2. ASSUME NEW t \in Threads, Calls(t) PROVE SessionInv'
  BY <1>2, AskInv, RefreshInv, LoginInv DEF Calls
<1>3. CASE WorkerStep
  BY <1>1, <1>2, <1>3, StartsInv, TakeLockInv, EndingsInv DEF WorkerStep
<1>4. CASE \E d \in Deleters : DeleterStep(d)
  BY <1>1, <1>2, <1>4, TakeLockInv, EndingsInv DEF DeleterStep
<1>5. CASE \E t \in Threads : NextRequest(t)
  BY <1>5, NextRequestInv
<1>6. CASE Surroundings
  BY <1>6, SurroundingsInv
<1>7. CASE UNCHANGED vars
  BY <1>7 DEF vars, SessionInv, TypeOK, Shape, InUse
<1> QED
  BY <1>3, <1>4, <1>5, <1>6, <1>7 DEF Next

(* What every state of the session keeps.                                   *)
LEMMA SessionKept == Spec => []SessionInv
BY SessionInit, SessionNext, PTL DEF Spec

(* The types of the session model: the row, the clients and yyds hold what  *)
(* Job, Row and Yyds say, whatever is refreshed, patched, lost or killed.   *)
THEOREM SessionTypes == Spec => []TypeOK
BY SessionKept, PTL DEF SessionInv

-----------------------------------------------------------------------------
(* A code leaves the row.                                                   *)

(* Only the end of a job takes a code away.                                 *)
LEMMA CodeStays ==
  ASSUME SessionInv, [Next]_vars,
         ~(PollEnds \/ FillEnds \/ \E d \in Deleters : DeleteEnds(d))
  PROVE  row'.code = row.code \/ row'.code # 0
<1>1. CASE WorkerStep
  BY <1>1 DEF WorkerStep, StartCycle, StartFill, EndCycle, TakeLock, Calls, GetMe, GetMeAgain,
              Send, Resend, RefreshAccepted, RefreshRefused, Login, LoginRefused
<1>2. ASSUME NEW d \in Deleters, DeleterStep(d) PROVE row'.code = row.code
  BY <1>2 DEF DeleterStep, TakeLock, Calls, GetMe, GetMeAgain, Send, Resend,
              RefreshAccepted, RefreshRefused, Login, LoginRefused
<1>3. CASE \E t \in Threads : NextRequest(t)
  BY <1>3 DEF NextRequest
<1>4. CASE Surroundings
  <2>1. ASSUME NEW pw \in Password, PatchPassword(pw) PROVE row'.code = row.code
    BY <2>1 DEF PatchPassword, SessionInv, TypeOK, Row
  <2>2. CASE EnterCode
    <3>1. left.code \in 0..MaxCode /\ MaxCode \in Nat
      BY CountsAssumption DEF SessionInv, TypeOK
    <3>2. row'.code = MaxCode - left.code + 1
      BY <2>2 DEF EnterCode, SessionInv, TypeOK, Row
    <3> QED
      BY <3>1, <3>2
  <2>3. CASE (\E tok \in Token : Expire(tok)) \/ (\E t \in Threads : CallFails(t))
               \/ (\E d \in Deleters : StartDelete(d)) \/ WebsitePassword \/ Crash
    BY <2>3 DEF Expire, CallFails, StartDelete, WebsitePassword, Crash
  <2> QED
    BY <1>4, <2>1, <2>2, <2>3 DEF Surroundings
<1>5. CASE UNCHANGED vars
  BY <1>5 DEF vars
<1> QED
  BY <1>1, <1>2, <1>3, <1>4, <1>5 DEF Next

LEMMA CodeStep ==
  ASSUME SessionInv, [Next]_vars, row.code # 0, row'.code = 0
  PROVE  row'.tok # 0 /\ row'.tok \in yyds.coded
<1>1. PollEnds \/ FillEnds \/ \E d \in Deleters : DeleteEnds(d)
  BY CodeStays
<1>2. PICK t \in Threads : (\E j \in Job : Commits(t, j)) \/ RollsBack(t)
  BY <1>1, Endings
<1>3. PICK j \in Job : Commits(t, j)
  BY <1>2 DEF RollsBack
<1>4. row' \in Committed(j)
  BY <1>3 DEF Commits, Leave
<1>5. j.copy.code # j.base.code /\ (j.wrote => row'.tok = j.copy.tok)
  BY <1>4, CommittedRow
<1>6. row'.tok = thread[t].tok /\ thread[t].tok \in yyds.coded
  BY <1>3, <1>5 DEF Commits
<1>7. yyds.coded \subseteq Token
  BY DEF SessionInv, TypeOK, Yyds
<1> QED
  BY <1>6, <1>7 DEF Token

(* A code somebody entered is only erased together with storing a session   *)
(* that was bought with a code, whoever commits, with whatever stale copy   *)
(* (README line 59, worker/clients.py).                                     *)
THEOREM CodesBuySessions == Spec => CodeBuysSession
<1>1. SessionInv /\ [Next]_vars
        => [row.code # 0 /\ row'.code = 0 => row'.tok # 0 /\ row'.tok \in yyds.coded]_vars
  BY CodeStep
<1> QED
  BY <1>1, SessionKept, PTL DEF Spec, CodeBuysSession

-----------------------------------------------------------------------------
(* The worker's own tokens.                                                 *)

(* A token nobody has replaced: no other one of its login can still renew   *)
(* it.                                                                      *)
Fresh(k) == k # 0 => \A x \in yyds.valid : yyds.family[x] = yyds.family[k] => x = k

(* As long as the worker is alone with yyds, and no answer or process was   *)
(* lost: what it holds is fresh, and so is what the row holds, unless the   *)
(* worker is about to write something newer there.                          *)
Alone ==
  ~upset =>
    /\ \A d \in Deleters : thread[d].pc \in {"idle", "wait"}
    /\ Fresh(thread[Worker].copy.tok)
    /\ ~thread[Worker].wrote => Fresh(row.tok)

(* A token that was given out just now is fresh.                            *)
LEMMA MintedFresh ==
  ASSUME TypeOK, TokenLeft, NEW family \in 0..MaxToken, NEW coded \in BOOLEAN,
         NEW k \in Token, k = NewToken,
         yyds'.family = Minted(family, coded).family,
         yyds'.valid = Minted(family, coded).valid
  PROVE  Fresh(k)'
<1>1. NewToken \in Token \ InUse /\ InUse \subseteq Token
  BY NewOnes
<1>2. /\ yyds'.valid = {x \in yyds.valid \cap InUse : yyds.family[x] # family} \cup {k}
      /\ yyds'.family = [x \in Token |-> IF x = k THEN family
                                        ELSE IF x \in InUse THEN yyds.family[x] ELSE 0]
  BY DEF Minted, TypeOK, Yyds
<1>3. yyds'.family[k] = family
  BY <1>2
<1>4. ASSUME NEW x \in yyds'.valid, x # k PROVE yyds'.family[x] # family
  BY <1>1, <1>2, <1>4
<1> QED
  BY <1>3, <1>4 DEF Fresh

(* What is revoked makes no token less fresh.                               *)
LEMMA StillFresh ==
  ASSUME NEW k, Fresh(k), yyds'.valid \subseteq yyds.valid, yyds'.family = yyds.family
  PROVE  Fresh(k)'
BY DEF Fresh

(* The worker keeps its copies fresh, when the row's token and its own      *)
(* remain, or its own is new.                                               *)
LEMMA AloneStep ==
  ASSUME SessionInv, Alone, ~upset', upset = upset',
         \A d \in Deleters : thread'[d].pc \in {"idle", "wait"},
         yyds'.valid \subseteq yyds.valid, yyds'.family = yyds.family,
         \/ thread'[Worker].copy.tok = thread[Worker].copy.tok
         \/ thread'[Worker].copy.tok = row.tok /\ ~thread[Worker].wrote
         \/ thread'[Worker].copy.tok = 0,
         \/ thread'[Worker].wrote
         \/ row'.tok = row.tok /\ ~thread[Worker].wrote
         \/ row'.tok = thread[Worker].copy.tok
         \/ row'.tok = 0
  PROVE  Alone'
<1>1. /\ Fresh(thread[Worker].copy.tok)
      /\ ~thread[Worker].wrote => Fresh(row.tok)
  BY DEF Alone
<1>2. Fresh(0)
  BY DEF Fresh
<1>3. ASSUME NEW k, Fresh(k) PROVE Fresh(k)'
  BY <1>3, StillFresh
<1>4. \A k : k = thread'[Worker].copy.tok => Fresh(k)'
  BY <1>1, <1>2, <1>3
<1>5. ~thread'[Worker].wrote => \A k : k = row'.tok => Fresh(k)'
  BY <1>1, <1>2, <1>3
<1> QED
  BY <1>4, <1>5 DEF Alone, Fresh

LEMMA WorkerBecomes ==
  ASSUME SessionInv, NEW j, Becomes(Worker, j)
  PROVE  /\ thread'[Worker] = j
         /\ \A d \in Deleters : thread'[d] = thread[d]
BY OwnersAssumption DEF SessionInv, TypeOK, Becomes, Threads

(* The worker's requests that bring no token.                               *)
LEMMA AskAlone ==
  ASSUME SessionInv, Alone, ~upset, ~upset',
         GetMe(Worker) \/ GetMeAgain(Worker) \/ Send(Worker) \/ Resend(Worker)
           \/ RefreshRefused(Worker) \/ LoginRefused(Worker)
  PROVE  Alone'
<1>1. thread[Worker] \in Job /\ Worker \in Threads
  BY DEF SessionInv, TypeOK, Threads
<1>2. /\ yyds'.valid \subseteq yyds.valid /\ yyds'.family = yyds.family
      /\ row' = row /\ upset' = upset
  BY DEF GetMe, GetMeAgain, Send, Resend, RefreshRefused, LoginRefused, SessionInv, TypeOK, Yyds
<1>3. \/ \E pc \in PC : Goes(Worker, pc)
      \/ Becomes(Worker, [thread[Worker] EXCEPT !.pc = "refresh", !.phase = "retry"])
  BY DEF GetMe, GetMeAgain, Send, Resend, RefreshRefused, LoginRefused, Sure, PC
<1>4. /\ thread'[Worker].copy = thread[Worker].copy /\ thread'[Worker].wrote = thread[Worker].wrote
      /\ \A d \in Deleters : thread'[d] = thread[d]
  <2>1. ASSUME NEW j \in {[thread[Worker] EXCEPT !.pc = pc] : pc \in PC}
                           \cup {[thread[Worker] EXCEPT !.pc = "refresh", !.phase = "retry"]}
        PROVE  j.copy = thread[Worker].copy /\ j.wrote = thread[Worker].wrote
    BY <1>1 DEF Job
  <2>2. \E j \in {[thread[Worker] EXCEPT !.pc = pc] : pc \in PC}
                  \cup {[thread[Worker] EXCEPT !.pc = "refresh", !.phase = "retry"]} :
          Becomes(Worker, j)
    BY <1>3 DEF Goes
  <2> QED
    BY <2>1, <2>2, WorkerBecomes
<1> QED
  BY <1>2, <1>4, AloneStep DEF Alone

(* The worker is given a token.                                             *)
LEMMA GivenAlone ==
  ASSUME SessionInv, Alone, ~upset, ~upset', RefreshAccepted(Worker) \/ Login(Worker)
  PROVE  Alone'
<1>1. Worker \in Threads /\ thread[Worker] \in Job /\ TokenLeft
  BY DEF SessionInv, TypeOK, Threads, RefreshAccepted, Login
<1>2. PICK k \in Token : k = NewToken
  BY <1>1, NewOnes DEF SessionInv
<1>3. \E family \in 0..MaxToken, coded \in BOOLEAN :
        /\ yyds'.family = Minted(family, coded).family
        /\ yyds'.valid = Minted(family, coded).valid
  <2>1. CASE RefreshAccepted(Worker)
    <3>1. yyds.family[thread[Worker].tok] \in 0..MaxToken
      BY <2>1 DEF RefreshAccepted, SessionInv, TypeOK, Yyds
    <3> DEFINE coded == thread[Worker].tok \in yyds.coded
    <3>2. yyds' = Minted(yyds.family[thread[Worker].tok], coded)
      BY <2>1 DEF RefreshAccepted, Rotated
    <3>3. coded \in BOOLEAN
      OBVIOUS
    <3> HIDE DEF coded
    <3> QED
      BY <3>1, <3>2, <3>3
  <2>2. CASE Login(Worker)
    <3> DEFINE coded == thread[Worker].code # 0
               m == Minted(NewFamily, coded)
    <3>0. coded \in BOOLEAN
      OBVIOUS
    <3>1. NewFamily \in 0..MaxToken
      BY <1>1, NewOnes, CountsAssumption DEF Token, SessionInv
    <3>2. yyds' = [m EXCEPT !.spent = @ \cup ({thread[Worker].code} \cap Code)]
      BY <2>2 DEF Login, LoggedIn
    <3>3. m \in Yyds
      <4> HIDE DEF coded
      <4> QED
        BY <1>1, <3>0, <3>1, MintedYyds DEF SessionInv
    <3>4. yyds'.family = m.family /\ yyds'.valid = m.valid
      <4> HIDE DEF m
      <4> QED
        BY <3>2, <3>3 DEF Yyds
    <3> HIDE DEF coded
    <3> QED
      BY <3>0, <3>1, <3>4
  <2> QED
    BY <2>1, <2>2
<1>4. Fresh(k)'
  BY <1>1, <1>2, <1>3, MintedFresh DEF SessionInv
<1>5. \E used \in BOOLEAN, pc \in PC :
        Becomes(Worker, Persisted([thread[Worker] EXCEPT !.tok = k, !.used = used, !.pc = pc]))
  <2>1. CASE RefreshAccepted(Worker)
    <3> DEFINE pc == Refreshed(thread[Worker].phase)
    <3>1. pc \in PC /\ thread[Worker].used \in BOOLEAN
      BY <1>1 DEF Refreshed, PC, Job
    <3>2. [thread[Worker] EXCEPT !.tok = k, !.pc = pc]
            = [thread[Worker] EXCEPT !.tok = k, !.used = thread[Worker].used, !.pc = pc]
      BY <1>1 DEF Job
    <3>3. Becomes(Worker, Persisted([thread[Worker] EXCEPT !.tok = k, !.pc = pc]))
      BY <1>2, <2>1 DEF RefreshAccepted
    <3> HIDE DEF pc
    <3> QED
      BY <3>1, <3>2, <3>3
  <2>2. CASE Login(Worker)
    <3> DEFINE pc == AfterLogin(thread[Worker])
               used == thread[Worker].used \/ thread[Worker].code # 0
    <3>1. pc \in PC /\ used \in BOOLEAN
      BY <1>1 DEF AfterLogin, Refreshed, Sure, PC, Job
    <3>2. Becomes(Worker, Persisted([thread[Worker] EXCEPT !.tok = k, !.used = used, !.pc = pc]))
      BY <1>1, <1>2, <2>2 DEF Login
    <3> HIDE DEF pc, used
    <3> QED
      BY <3>1, <3>2
  <2> QED
    BY <2>1, <2>2
<1>6. PICK used \in BOOLEAN, pc \in PC :
        Becomes(Worker, Persisted([thread[Worker] EXCEPT !.tok = k, !.used = used, !.pc = pc]))
  BY <1>5
<1> DEFINE new == [thread[Worker] EXCEPT !.tok = k, !.used = used, !.pc = pc]
<1>7. new \in Job /\ new.tok = k /\ k # 0
  <2>1. k \in 0..MaxToken /\ k # 0
    BY DEF Token
  <2> QED
    BY <1>1, <2>1 DEF Job
<1>9. Becomes(Worker, Persisted(new))
  BY <1>6
<1> HIDE DEF new
<1>8. /\ thread'[Worker].copy.tok = k /\ thread'[Worker].wrote
      /\ \A d \in Deleters : thread'[d] = thread[d]
  BY <1>7, <1>9, WorkerBecomes, PersistedJob
<1> QED
  BY <1>4, <1>8 DEF Alone, Fresh

(* The worker's job ends.                                                   *)
LEMMA CommitAlone ==
  ASSUME SessionInv, Alone, ~upset, ~upset', PollEnds \/ FillEnds
  PROVE  Alone'
<1>1. PICK t \in Threads : /\ thread[t].pc \in {"done", "failed"}
                           /\ (\E j \in Job : Commits(t, j)) \/ RollsBack(t)
  BY Endings
<1>2. t = Worker
  BY <1>1 DEF Alone, Threads
<1>3. PICK j \in Job : Commits(Worker, j)
  BY <1>1, <1>2, OwnersAssumption DEF RollsBack
<1>4. thread[Worker].copy.tok = thread[Worker].tok
  BY <1>1, <1>2 DEF SessionInv, Shape, Working
<1>5. /\ j.copy.tok = thread[Worker].copy.tok
      /\ thread[Worker].wrote => j.wrote
      /\ row' \in Committed(j) /\ UNCHANGED <<yyds, upset>>
  BY <1>3, <1>4 DEF Commits, Leave
<1>6. row'.tok = IF j.wrote THEN j.copy.tok ELSE row.tok
  BY <1>5, CommittedRow
<1>7. /\ thread'[Worker].copy = j.copy
      /\ \A d \in Deleters : thread'[d] = thread[d]
  <2> DEFINE b == [NoJob EXCEPT !.pc = "between", !.base = Base(j.copy), !.copy = j.copy]
  <2>1. b.copy = j.copy
    BY NoJobType DEF Job
  <2>2. Becomes(Worker, b)
    BY <1>3 DEF Commits, Leave
  <2> HIDE DEF b
  <2> QED
    BY <2>1, <2>2, WorkerBecomes
<1>8. /\ yyds'.valid \subseteq yyds.valid /\ yyds'.family = yyds.family /\ upset = upset'
      /\ \A d \in Deleters : thread'[d].pc \in {"idle", "wait"}
  BY <1>5, <1>7 DEF Alone
<1>9. thread'[Worker].copy.tok = thread[Worker].copy.tok
  BY <1>5, <1>7
<1>10. CASE j.wrote
  <2>1. row'.tok = thread[Worker].copy.tok
    BY <1>5, <1>6, <1>10
  <2> QED
    BY <1>8, <1>9, <2>1, AloneStep
<1>11. CASE ~j.wrote
  <2>1. row'.tok = row.tok /\ ~thread[Worker].wrote
    BY <1>5, <1>6, <1>11
  <2> QED
    BY <1>8, <1>9, <2>1, AloneStep
<1> QED
  BY <1>10, <1>11
(* Every step of the worker.                                                *)
LEMMA WorkerAlone ==
  ASSUME SessionInv, Alone, ~upset, ~upset', WorkerStep
  PROVE  Alone'
<1>1. Worker \in Threads /\ thread[Worker] \in Job
  BY DEF SessionInv, TypeOK, Threads
<1>2. ASSUME NEW kind \in {"poll", "fill", "delete"}, Load(Worker, kind),
             thread[Worker].pc \notin Working, UNCHANGED <<row, lock, yyds, left, upset>>
      PROVE  Alone'
  <2>1. ~thread[Worker].wrote
    BY <1>1, <1>2 DEF SessionInv, Shape
  <2>2. thread'[Worker].copy = row
    BY <1>1, <1>2, LoadInv DEF SessionInv, TypeOK
  <2>3. \A d \in Deleters : thread'[d] = thread[d]
    BY <1>2, WorkerBecomes DEF Load
  <2> QED
    BY <1>2, <2>1, <2>2, <2>3, AloneStep DEF Alone
<1>3. CASE StartCycle
  BY <1>2, <1>3 DEF StartCycle, At, Working
<1>4. CASE StartFill
  <2>1. CASE Load(Worker, "fill")
    BY <1>2, <1>4, <2>1 DEF StartFill, At, Working
  <2>2. CASE Becomes(Worker, [thread[Worker] EXCEPT !.pc = "wait", !.kind = "fill",
                                                    !.wrote = FALSE])
    <3> DEFINE j == [thread[Worker] EXCEPT !.pc = "wait", !.kind = "fill", !.wrote = FALSE]
    <3>1. j.copy = thread[Worker].copy
      BY <1>1 DEF Job
    <3>2. Becomes(Worker, j)
      BY <2>2
    <3>3. ~thread[Worker].wrote /\ UNCHANGED <<row, yyds, upset>>
      BY <1>1, <1>4 DEF StartFill, At, SessionInv, Shape, Working
    <3> HIDE DEF j
    <3> QED
      BY <3>1, <3>2, <3>3, WorkerBecomes, AloneStep DEF Alone
  <2> QED
    BY <1>4, <2>1, <2>2 DEF StartFill
<1>5. CASE EndCycle
  <2>1. Becomes(Worker, NoJob) /\ UNCHANGED <<row, yyds, upset>>
    BY <1>5 DEF EndCycle
  <2>2. ~thread[Worker].wrote
    BY <1>1, <1>5 DEF EndCycle, At, SessionInv, Shape, Working
  <2> QED
    BY <2>1, <2>2, NoJobType, WorkerBecomes, AloneStep DEF Alone
<1>6. CASE TakeLock(Worker)
  <2> DEFINE old == thread[Worker]
             j == [old EXCEPT !.pc = Opening(old.copy.tok), !.tok = old.copy.tok,
                              !.code = old.copy.code, !.used = FALSE,
                              !.phase = IF old.kind = "delete" THEN "ensure" ELSE "open"]
  <2>1. Becomes(Worker, j) /\ UNCHANGED <<row, yyds>>
    BY <1>6 DEF TakeLock
  <2>4. upset = upset'
    <3>1. upset' = (upset \/ Worker \in Deleters)
      BY <1>6 DEF TakeLock
    <3>2. upset \in BOOLEAN
      BY DEF SessionInv, TypeOK
    <3> QED
      BY <3>1, <3>2, OwnersAssumption
  <2>2. j.copy = old.copy
    BY <1>1 DEF Job
  <2>3. ~old.wrote
    BY <1>1, <1>6 DEF TakeLock, At, SessionInv, Shape, Working
  <2> HIDE DEF j
  <2> QED
    BY <2>1, <2>2, <2>3, <2>4, WorkerBecomes, AloneStep DEF Alone
<1>7. CASE Calls(Worker)
  BY <1>7, AskAlone, GivenAlone DEF Calls
<1>8. CASE PollEnds \/ FillEnds
  BY <1>8, CommitAlone
<1> QED
  BY <1>3, <1>4, <1>5, <1>6, <1>7, <1>8 DEF WorkerStep

(* The others, as long as none of them takes part.                          *)
LEMMA OthersAlone ==
  ASSUME SessionInv, Alone, ~upset, ~upset',
         \/ \E d \in Deleters : DeleterStep(d)
         \/ \E t \in Threads : NextRequest(t)
         \/ Surroundings
  PROVE  Alone'
<1>1. Worker \in Threads /\ thread[Worker] \in Job /\ Worker \notin Deleters
  BY OwnersAssumption DEF SessionInv, TypeOK, Threads
<1>2. \A d \in Deleters : thread[d].pc \in {"idle", "wait"}
  BY DEF Alone
<1>3. ASSUME NEW d \in Deleters, DeleterStep(d) PROVE FALSE
  BY <1>2, <1>3 DEF DeleterStep, TakeLock, Calls, GetMe, GetMeAgain, Send, Resend, RefreshAccepted,
                    RefreshRefused, Login, LoginRefused, DeleteEnds, At
<1>4. ASSUME NEW t \in Threads, NextRequest(t) PROVE Alone'
  <2>1. t = Worker
    BY <1>2, <1>4 DEF NextRequest, At, Threads
  <2> DEFINE j == [thread[Worker] EXCEPT !.pc = Opening(thread[Worker].tok), !.phase = "ensure"]
  <2>2. Becomes(Worker, j) /\ UNCHANGED <<row, yyds, upset>>
    BY <1>4, <2>1 DEF NextRequest
  <2>3. j.copy = thread[Worker].copy /\ j.wrote = thread[Worker].wrote
    BY <1>1 DEF Job
  <2> HIDE DEF j
  <2> QED
    BY <2>2, <2>3, WorkerBecomes, AloneStep DEF Alone
<1>5. ASSUME NEW t \in Threads, CallFails(t) PROVE Alone'
  <2>1. t = Worker /\ UNCHANGED <<yyds, upset, row>>
    BY <1>2, <1>5 DEF CallFails, Threads
  <2> DEFINE j == [thread[Worker] EXCEPT !.pc = "failed"]
  <2>2. Becomes(Worker, j)
    BY <1>5, <2>1 DEF CallFails, Goes
  <2>3. j.copy = thread[Worker].copy /\ j.wrote = thread[Worker].wrote
    BY <1>1 DEF Job
  <2> HIDE DEF j
  <2> QED
    BY <2>1, <2>2, <2>3, WorkerBecomes, AloneStep DEF Alone
<1>6. ASSUME NEW d \in Deleters, StartDelete(d) PROVE Alone'
  <2>1. /\ thread'[d].pc = "wait" /\ UNCHANGED <<yyds, upset, row>>
        /\ \A u \in Threads : u # d => thread'[u] = thread[u]
    <3>1. d \in Threads /\ left' \in [event : 0..MaxEvent, code : 0..MaxCode, delete : 0..MaxDelete]
      BY <1>6, CountsAssumption DEF StartDelete, Threads, SessionInv, TypeOK
    <3>2. Load(d, "delete") /\ UNCHANGED <<row, lock, yyds, upset>>
      BY <1>6 DEF StartDelete
    <3> QED
      BY <3>1, <3>2, LoadInv DEF Load, Becomes, SessionInv, TypeOK
  <2> QED
    BY <1>1, <1>2, <2>1, AloneStep DEF Threads, Alone
<1>7. ASSUME NEW pw \in Password, PatchPassword(pw) PROVE Alone'
  <2>1. row'.tok = 0 /\ UNCHANGED <<thread, yyds, upset>>
    BY <1>7 DEF PatchPassword, SessionInv, TypeOK, Row
  <2> QED
    BY <1>2, <2>1, AloneStep
<1>8. CASE WebsitePassword \/ EnterCode \/ \E tok \in Token : Expire(tok)
  <2>1. /\ yyds'.valid \subseteq yyds.valid /\ yyds'.family = yyds.family
        /\ row'.tok = row.tok /\ UNCHANGED <<thread, upset>>
    BY <1>8 DEF WebsitePassword, EnterCode, Expire, SessionInv, TypeOK, Yyds, Row
  <2>2. thread[Worker].wrote \in BOOLEAN
    BY <1>1 DEF Job
  <2> QED
    BY <1>2, <2>1, <2>2, AloneStep
<1>9. ~Crash
  BY DEF Crash
<1> QED
  BY <1>3, <1>4, <1>5, <1>6, <1>7, <1>8, <1>9 DEF Surroundings

LEMMA UpsetStays ==
  ASSUME [Next]_vars, upset
  PROVE  upset'
BY DEF Next, WorkerStep, DeleterStep, NextRequest, Surroundings, vars, StartCycle, StartFill,
       EndCycle, TakeLock, Calls, GetMe, GetMeAgain, Send, Resend, RefreshAccepted,
       RefreshRefused, Login, LoginRefused, PollEnds, FillEnds, DeleteEnds, Leave, Expire,
       WebsitePassword, PatchPassword, EnterCode, CallFails, StartDelete, Crash

LEMMA AloneInit == Init => Alone
<1> SUFFICES ASSUME Init PROVE Alone
  OBVIOUS
<1>1. \A t \in Threads : thread[t] = NoJob
  BY DEF Init
<1>2. row.tok = 0
  BY NoJobType DEF Init, NewRow
<1> QED
  BY <1>1, <1>2, NoJobType DEF Alone, Fresh, Threads

LEMMA AloneNext == SessionInv /\ Alone /\ [Next]_vars => Alone'
<1> SUFFICES ASSUME SessionInv, Alone, [Next]_vars, ~upset' PROVE Alone'
  BY DEF Alone
<1>1. ~upset
  BY UpsetStays
<1>2. CASE UNCHANGED vars
  BY <1>2 DEF vars, Alone, Fresh
<1> QED
  BY <1>1, <1>2, WorkerAlone, OthersAlone DEF Next

(* Without upset, nothing that is presented was replaced.                   *)
LEMMA NoReuse ==
  ASSUME SessionInv, Alone, Next, Reuse
  PROVE  upset
<1> SUFFICES ASSUME ~upset PROVE FALSE
  OBVIOUS
<1>1. PICK t \in Threads : RefreshRefused(t) /\ OfFamily(thread[t].tok) \cap yyds.valid # {}
  BY DEF Reuse
<1>2. thread[t].pc = "refresh" /\ thread[t].tok \notin yyds.valid
  BY <1>1 DEF RefreshRefused, At
<1>3. t = Worker
  BY <1>2 DEF Alone, Threads
<1>4. thread[Worker].tok # 0 /\ thread[Worker].copy.tok = thread[Worker].tok
  BY <1>2, <1>3 DEF SessionInv, Shape, Presenting, Working
<1>5. Fresh(thread[Worker].tok)
  BY <1>4 DEF Alone
<1> QED
  BY <1>1, <1>2, <1>3, <1>4, <1>5 DEF Fresh, OfFamily

(* The worker on its own never presents a refresh token that was replaced,  *)
(* through polls and fills, stale copies and passwords changed under it: it *)
(* takes a deletion, a lost answer or a killed process (docs line 61).      *)
THEOREM TokensKept == Spec => WorkerKeepsTokens
<1>1. SessionInv /\ Alone /\ [Next]_vars => [Reuse => upset]_vars
  BY NoReuse
<1> QED
  BY <1>1, SessionKept, AloneInit, AloneNext, PTL DEF Spec, WorkerKeepsTokens
==============================================================================
