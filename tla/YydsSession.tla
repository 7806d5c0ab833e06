----------------------------- MODULE YydsSession -----------------------------
(***************************************************************************)
(* The login session of one yyds account: who holds which copy of its      *)
(* tokens.  YydsClient renews a session by itself (yyds/client.py), the    *)
(* worker and the deletions work from copies of the account's row, and     *)
(* write the tokens back when they commit (worker/clients.py).  The        *)
(* advisory lock of the account lets one of them talk to yyds at a time;   *)
(* the copies are read outside of it.                                      *)
(***************************************************************************)
EXTENDS Naturals

CONSTANTS
  None, Worker, Deleters,
  MaxToken,    \* tokens that matter at a time
  MaxPassword, \* passwords the account has over time
  MaxCode,     \* one-time codes entered in the panel
  MaxEvent,    \* what else may happen: see Surroundings
  MaxDelete    \* deletions asked for in the panel

ASSUME OwnersAssumption ==
  /\ Worker \notin Deleters
  /\ None \notin Deleters \cup {Worker}
ASSUME CountsAssumption ==
  /\ {MaxToken, MaxPassword, MaxCode} \subseteq Nat \ {0}
  /\ {MaxEvent, MaxDelete} \subseteq Nat

Threads == {Worker} \cup Deleters
Token == 1..MaxToken
Code == 1..MaxCode
Password == 1..MaxPassword

VARIABLES
  row,     \* the account's columns: password, tokens, code, marked red
  thread,  \* per thread: its copy of them, its client, where it is
  lock,    \* the holder of the account's session lock
  yyds,    \* the account at yyds
  left,    \* how often the surroundings may still act
  upset    \* history: a deletion took part, or an answer or a process was lost

vars == <<row, thread, lock, yyds, left, upset>>

(* 0 stands for no tokens, no code.                                         *)
Row == [pw : Password, tok : 0..MaxToken, code : 0..MaxCode, red : BOOLEAN]

PC == {"idle", "wait", "me", "refresh", "inner", "again", "login", "send", "resend",
       "done", "failed", "between"}

(* copy is the account's object in the thread's database session, base what *)
(* that believes is in the row, as far as it decides what a commit writes;  *)
(* wrote: the tokens are to be written; tok and code: the client's own;     *)
(* used: twofa_consumed.                                                    *)
Job == [pc : PC, kind : {"poll", "fill", "delete"}, phase : {"open", "ensure", "retry"},
        base : [code : 0..MaxCode, red : BOOLEAN], copy : Row, wrote : BOOLEAN,
        tok : 0..MaxToken, code : 0..MaxCode, used : BOOLEAN]

(* valid: refresh tokens yyds would take; alive: access tokens it takes;    *)
(* family: the login a token comes from; coded: tokens whose login used up  *)
(* a code; spent: such codes.                                               *)
Yyds == [secret : Password, twofa : BOOLEAN, family : [Token -> 0..MaxToken],
         valid : SUBSET Token, alive : SUBSET Token, coded : SUBSET Token,
         spent : SUBSET Code]

Budget == [event |-> MaxEvent, code |-> MaxCode, delete |-> MaxDelete]

TypeOK ==
  /\ row \in Row
  /\ thread \in [Threads -> Job]
  /\ lock \in Threads \cup {None}
  /\ yyds \in Yyds
  /\ left \in [event : 0..MaxEvent, code : 0..MaxCode, delete : 0..MaxDelete]
  /\ upset \in BOOLEAN

NewRow == [pw |-> 1, tok |-> 0, code |-> 0, red |-> FALSE]

Base(r) == [code |-> r.code, red |-> r.red]

NoJob == [pc |-> "idle", kind |-> "poll", phase |-> "open",
          base |-> Base(NewRow), copy |-> NewRow, wrote |-> FALSE,
          tok |-> 0, code |-> 0, used |-> FALSE]

NewYyds == [secret |-> 1, twofa |-> FALSE, family |-> [t \in Token |-> 0],
            valid |-> {}, alive |-> {}, coded |-> {}, spent |-> {}]

Init ==
  /\ row \in {NewRow, [NewRow EXCEPT !.code = 1]}
  /\ yyds \in {NewYyds, [NewYyds EXCEPT !.twofa = TRUE]}
  /\ thread = [t \in Threads |-> NoJob]
  /\ lock = None
  /\ left = [Budget EXCEPT !.code = @ - row.code]
  /\ upset = FALSE

-----------------------------------------------------------------------------
(* Mutant: every write of the tokens takes the code away.                   *)
CodeAlwaysUsed(j) == [j EXCEPT !.copy.tok = j.tok, !.copy.code = 0, !.wrote = TRUE]

(* persist_yyds_session: the client's tokens, if it has any, go into the    *)
(* copy, and a code that has bought a session goes out of it.               *)
Persisted(j) ==
  [j EXCEPT !.copy.tok = IF j.tok # 0 THEN j.tok ELSE @, !.wrote = @ \/ j.tok # 0,
            !.copy.code = IF j.used THEN 0 ELSE @]

(* A commit writes the columns the thread has changed; an error text may    *)
(* differ from the last one or not.                                         *)
Committed(j) ==
  {[row EXCEPT !.tok = IF j.wrote THEN j.copy.tok ELSE @,
               !.code = IF j.copy.code # j.base.code THEN j.copy.code ELSE @,
               !.red = red] :
     red \in (IF j.copy.red # j.base.red THEN {} ELSE {row.red})
             \cup (IF j.copy.red \/ j.base.red THEN {j.copy.red} ELSE {})}

Becomes(t, j) == thread' = [thread EXCEPT ![t] = j]
At(t, pc) == thread[t].pc = pc
Goes(t, pc) == Becomes(t, [thread[t] EXCEPT !.pc = pc])

(* A client begins its calls with the access token, if it has one.          *)
Opening(tok) == IF tok = 0 THEN "login" ELSE "me"

Load(t, kind) ==
  Becomes(t, [NoJob EXCEPT !.pc = "wait", !.kind = kind, !.base = Base(row), !.copy = row])

StartCycle ==
  /\ At(Worker, "idle")
  /\ Load(Worker, "poll")
  /\ UNCHANGED <<row, lock, yyds, left, upset>>

(* Mutant: a deletion nobody asked for.                                     *)
DeleteUnasked(d) ==
  /\ At(d, "idle")
  /\ Load(d, "delete")
  /\ left' = [left EXCEPT !.delete = @ - 1]
  /\ UNCHANGED <<row, lock, yyds, upset>>

StartDelete(d) ==
  /\ At(d, "idle") /\ left.delete > 0
  /\ Load(d, "delete")
  /\ left' = [left EXCEPT !.delete = @ - 1]
  /\ UNCHANGED <<row, lock, yyds, upset>>

(* The session's object of the account lives on with what the poll has      *)
(* left in it, or it has been collected and is read anew.                   *)
StartFill ==
  /\ At(Worker, "between")
  /\ \/ Load(Worker, "fill")
     \/ Becomes(Worker, [thread[Worker] EXCEPT !.pc = "wait", !.kind = "fill", !.wrote = FALSE])
  /\ UNCHANGED <<row, lock, yyds, left, upset>>

EndCycle ==
  /\ At(Worker, "between")
  /\ Becomes(Worker, NoJob)
  /\ UNCHANGED <<row, lock, yyds, left, upset>>

(* The client is built after the lock is there, from the copy read before.  *)
(* A deletion makes its requests at once, poll and fill see to the session  *)
(* first.                                                                   *)
TakeLock(t) ==
  /\ At(t, "wait") /\ lock = None
  /\ lock' = t
  /\ LET j == thread[t]
     IN  Becomes(t, [j EXCEPT !.pc = Opening(j.copy.tok), !.tok = j.copy.tok,
                              !.code = j.copy.code, !.used = FALSE,
                              !.phase = IF j.kind = "delete" THEN "ensure" ELSE "open"])
  /\ upset' = (upset \/ t \in Deleters)
  /\ UNCHANGED <<row, yyds, left>>

-----------------------------------------------------------------------------
(* The calls of the client, one request after the other.                    *)
Accepted(t) == thread[t].tok \in yyds.alive

(* ensure_session has succeeded.                                            *)
Sure(phase) == IF phase = "open" THEN "done" ELSE "send"

GetMe(t) ==
  /\ At(t, "me")
  /\ Goes(t, IF Accepted(t) THEN Sure(thread[t].phase) ELSE "refresh")
  /\ UNCHANGED <<row, lock, yyds, left, upset>>

GetMeAgain(t) ==
  /\ At(t, "again")
  /\ Goes(t, IF Accepted(t) THEN Sure(thread[t].phase) ELSE "login")
  /\ UNCHANGED <<row, lock, yyds, left, upset>>

Send(t) ==
  /\ At(t, "send")
  /\ \/ Accepted(t) /\ Goes(t, "done")
     \/ ~Accepted(t) /\ Becomes(t, [thread[t] EXCEPT !.pc = "refresh", !.phase = "retry"])
  /\ UNCHANGED <<row, lock, yyds, left, upset>>

Resend(t) ==
  /\ At(t, "resend")
  /\ Goes(t, IF Accepted(t) THEN "done" ELSE "failed")
  /\ UNCHANGED <<row, lock, yyds, left, upset>>

(* What follows a refresh, or the login that stands in for it.              *)
Refreshed(phase) == IF phase = "retry" THEN "resend" ELSE "again"

(* Tokens that can still be presented, and the living ones of their family: *)
(* the others are forgotten, and their numbers given out again.             *)
InUse ==
  LET held == ({row.tok} \cup {thread[t].tok : t \in Threads}
                 \cup {thread[t].copy.tok : t \in Threads}) \cap Token
      families == {yyds.family[x] : x \in held}
  IN  held \cup {x \in yyds.valid \cup yyds.alive : yyds.family[x] \in families}

Unused(used) == CHOOSE x \in Token \ used : TRUE

NewToken == Unused(InUse)
NewFamily == Unused({yyds.family[x] : x \in InUse})

(* The bound MaxToken: yyds gives out a token only if a number is left.     *)
TokenLeft == Token \ InUse # {}

(* yyds gives out a token; it replaces the last one of the same family.     *)
Minted(family, coded) ==
  [yyds EXCEPT
     !.family = [x \in Token |-> IF x = NewToken THEN family
                                ELSE IF x \in InUse THEN @[x] ELSE 0],
     !.valid = {x \in @ \cap InUse : yyds.family[x] # family} \cup {NewToken},
     !.alive = (@ \cap InUse) \cup {NewToken},
     !.coded = (@ \cap InUse) \cup (IF coded THEN {NewToken} ELSE {})]

Rotated(t) == Minted(yyds.family[thread[t].tok], thread[t].tok \in yyds.coded)

RefreshAccepted(t) ==
  /\ At(t, "refresh") /\ thread[t].tok \in yyds.valid
  /\ TokenLeft
  /\ yyds' = Rotated(t)
  /\ Becomes(t, Persisted([thread[t] EXCEPT !.tok = NewToken,
                                            !.pc = Refreshed(thread[t].phase)]))
  /\ UNCHANGED <<row, lock, left, upset>>

OfFamily(tok) == {x \in Token : yyds.family[x] = yyds.family[tok]}

(* Mutant: no login stands in for a refused refresh.                        *)
RefusalIsFinal(t) ==
  /\ At(t, "refresh") /\ thread[t].tok \notin yyds.valid
  /\ yyds' = [yyds EXCEPT !.valid = @ \ OfFamily(thread[t].tok),
                          !.alive = @ \ OfFamily(thread[t].tok)]
  /\ Goes(t, "failed")
  /\ UNCHANGED <<row, lock, left, upset>>

(* A refresh token that was replaced brings down the whole family (docs     *)
(* line 61).                                                                *)
RefreshRefused(t) ==
  /\ At(t, "refresh") /\ thread[t].tok \notin yyds.valid
  /\ yyds' = [yyds EXCEPT !.valid = @ \ OfFamily(thread[t].tok),
                          !.alive = @ \ OfFamily(thread[t].tok)]
  /\ Goes(t, "inner")
  /\ UNCHANGED <<row, lock, left, upset>>

LoginOpens(t) ==
  /\ thread[t].copy.pw = yyds.secret
  /\ yyds.twofa => thread[t].code \in Code \ yyds.spent

LoggedIn(t) ==
  [Minted(NewFamily, thread[t].code # 0) EXCEPT !.spent = @ \cup ({thread[t].code} \cap Code)]

AfterLogin(j) ==
  IF j.pc = "inner" THEN Refreshed(j.phase)
  ELSE IF j.phase = "retry" THEN "resend" ELSE Sure(j.phase)

Login(t) ==
  /\ At(t, "login") \/ At(t, "inner")
  /\ LoginOpens(t)
  /\ TokenLeft
  /\ yyds' = LoggedIn(t)
  /\ Becomes(t, Persisted([thread[t] EXCEPT !.tok = NewToken,
                                            !.used = @ \/ thread[t].code # 0,
                                            !.pc = AfterLogin(thread[t])]))
  /\ UNCHANGED <<row, lock, left, upset>>

(* refresh's own login being refused with 401 makes its caller log in once  *)
(* more.                                                                    *)
LoginRefused(t) ==
  /\ ~LoginOpens(t)
  /\ \/ At(t, "inner") /\ Goes(t, "login")
     \/ (At(t, "inner") \/ At(t, "login")) /\ Goes(t, "failed")
  /\ UNCHANGED <<row, lock, yyds, left, upset>>

(* Several requests are made under one lock; some may fail without ending   *)
(* the job, but not the ensure_session it opens with.                       *)
NextRequest(t) ==
  /\ At(t, "done") \/ (At(t, "failed") /\ thread[t].phase # "open")
  /\ Becomes(t, [thread[t] EXCEPT !.pc = Opening(thread[t].tok), !.phase = "ensure"])
  /\ UNCHANGED <<row, lock, yyds, left, upset>>

-----------------------------------------------------------------------------
(* The end of a job: what it leaves in the row, then the lock is released.  *)
Leave(t, j) ==
  /\ lock' = None
  /\ row' \in Committed(j)
  /\ Becomes(t, IF t = Worker
                THEN [NoJob EXCEPT !.pc = "between", !.base = Base(j.copy), !.copy = j.copy]
                ELSE NoJob)
  /\ UNCHANGED <<yyds, left, upset>>

(* Mutant: a failed poll is rolled back, with the tokens it was given.      *)
FailedPollForgets ==
  LET j == thread[Worker]
  IN  /\ j.kind = "poll"
      /\ \/ j.pc = "done" /\ Leave(Worker, [Persisted(j) EXCEPT !.copy.red = FALSE])
         \/ j.pc = "failed" /\ Leave(Worker, [j EXCEPT !.copy.red = TRUE, !.wrote = FALSE])

(* A list that says itself that it is incomplete is no failure of the       *)
(* session, being throttled neither.                                        *)
PollEnds ==
  LET j == thread[Worker]
  IN  /\ j.kind = "poll"
      /\ \/ j.pc = "done" /\ Leave(Worker, [Persisted(j) EXCEPT !.copy.red = FALSE])
         \/ j.pc = "done" /\ Leave(Worker, [j EXCEPT !.copy.red = FALSE])
         \/ j.pc = "failed" /\ Leave(Worker, [j EXCEPT !.copy.red = TRUE])
         \/ j.pc = "failed" /\ Leave(Worker, j)

FillEnds ==
  LET j == thread[Worker]
  IN  /\ j.kind = "fill" /\ j.pc \in {"done", "failed"}
      /\ Leave(Worker, Persisted(j))

(* A deletion that fails is rolled back, with the tokens it was given.      *)
DeleteEnds(d) ==
  LET j == thread[d]
  IN  \/ j.pc = "done" /\ Leave(d, Persisted(j))
      \/ /\ j.pc = "failed"
         /\ lock' = None
         /\ Becomes(d, NoJob)
         /\ UNCHANGED <<row, yyds, left, upset>>

Calls(t) ==
  \/ GetMe(t) \/ GetMeAgain(t) \/ Send(t) \/ Resend(t)
  \/ RefreshAccepted(t) \/ RefreshRefused(t) \/ Login(t) \/ LoginRefused(t)

WorkerStep ==
  StartCycle \/ StartFill \/ EndCycle \/ TakeLock(Worker) \/ Calls(Worker)
    \/ PollEnds \/ FillEnds

DeleterStep(d) == TakeLock(d) \/ Calls(d) \/ DeleteEnds(d)

-----------------------------------------------------------------------------
Happens == left.event > 0 /\ left' = [left EXCEPT !.event = @ - 1]

(* An access token runs out, or a session ends altogether.                  *)
Expire(tok) ==
  /\ Happens
  /\ tok \in yyds.alive
  /\ \/ yyds' = [yyds EXCEPT !.alive = @ \ {tok}]
     \/ yyds' = [yyds EXCEPT !.alive = @ \ OfFamily(tok), !.valid = @ \ OfFamily(tok)]
  /\ UNCHANGED <<row, thread, lock, upset>>

WebsitePassword ==
  /\ Happens
  /\ yyds.secret < MaxPassword
  /\ yyds' = [yyds EXCEPT !.secret = @ + 1, !.alive = {}, !.valid = {}]
  /\ UNCHANGED <<row, thread, lock, upset>>

(* update_yyds with a password, right or outdated.                          *)
PatchPassword(pw) ==
  /\ Happens
  /\ pw <= yyds.secret
  /\ row' = [row EXCEPT !.pw = pw, !.tok = 0, !.red = FALSE]
  /\ UNCHANGED <<thread, lock, yyds, upset>>

EnterCode ==
  /\ left.event > 0 /\ left.code > 0
  /\ left' = [left EXCEPT !.event = @ - 1, !.code = @ - 1]
  /\ row' = [row EXCEPT !.code = MaxCode - left.code + 1]
  /\ UNCHANGED <<thread, lock, yyds, upset>>

(* A call fails for another reason than a refused session, before or after  *)
(* yyds has done what was asked.                                            *)
CallFails(t) ==
  /\ thread[t].pc \in {"me", "again", "send", "resend", "refresh", "login", "inner"}
  /\ Happens
  /\ Goes(t, "failed")
  /\ \/ UNCHANGED <<yyds, upset>>
     \/ /\ At(t, "refresh") /\ thread[t].tok \in yyds.valid /\ TokenLeft
        /\ yyds' = Rotated(t) /\ upset' = TRUE
     \/ /\ At(t, "login") \/ At(t, "inner")
        /\ LoginOpens(t) /\ TokenLeft
        /\ yyds' = LoggedIn(t) /\ upset' = TRUE
  /\ UNCHANGED <<row, lock>>

Crash ==
  /\ Happens
  /\ thread' = [t \in Threads |-> NoJob]
  /\ lock' = None
  /\ upset' = TRUE
  /\ UNCHANGED <<row, yyds>>

Surroundings ==
  \/ \E tok \in Token : Expire(tok)
  \/ \E pw \in Password : PatchPassword(pw)
  \/ \E t \in Threads : CallFails(t)
  \/ \E d \in Deleters : StartDelete(d)
  \/ WebsitePassword \/ EnterCode \/ Crash

Next ==
  \/ WorkerStep
  \/ \E d \in Deleters : DeleterStep(d)
  \/ \E t \in Threads : NextRequest(t)
  \/ Surroundings

Spec == Init /\ [][Next]_vars

(* The threads run; how many requests a job makes, and how many fills a     *)
(* cycle, is up to it, but it ends.                                         *)
Fairness ==
  /\ WF_vars(WorkerStep)
  /\ SF_vars(PollEnds) /\ SF_vars(FillEnds) /\ SF_vars(EndCycle)
  /\ \A d \in Deleters : WF_vars(DeleterStep(d)) /\ SF_vars(DeleteEnds(d))

LiveSpec == Spec /\ Fairness

-----------------------------------------------------------------------------
(* A refresh token is presented after it was replaced.                      *)
Reuse ==
  \E t \in Threads :
    /\ RefreshRefused(t)
    /\ OfFamily(thread[t].tok) \cap yyds.valid # {}

(* Claimed by the docs (line 61): the refreshes of an account are serial,   *)
(* so that no replaced refresh token is ever used again.                    *)
NoTokenReuse == [][~Reuse]_vars

(* Safety: the worker on its own keeps that promise, through polls and      *)
(* fills, stale copies and passwords changed under it: it takes a deletion, *)
(* a lost answer or a killed process to present a replaced token.           *)
WorkerKeepsTokens == [][Reuse => upset]_vars

(* Safety: a code somebody entered is only erased together with storing a   *)
(* session that was bought with a code (README line 59).                    *)
CodeBuysSession ==
  [][row.code # 0 /\ row'.code = 0
       => row'.tok # 0 /\ row'.tok \in yyds.coded]_vars

(* Liveness: whatever was reused, revoked, lost or overwritten, an account  *)
(* with the right password and without two-factor login recovers.           *)
Recovers == <>[](row.pw = yyds.secret /\ ~yyds.twofa) => <>[]~row.red
==============================================================================
