----------------------------- MODULE WorkerLoop -----------------------------
(***************************************************************************)
(* The worker's thread: the loop of worker/runtime.py with its two events, *)
(* the requests of the panel that set one of them, and the throttling that *)
(* decides which accounts a cycle calls (worker/logic.py).  What a cycle   *)
(* does to the domains is DomainSlot's subject; here a cycle is a walk     *)
(* over the accounts and a number of fills.  Time passes in ticks.         *)
(***************************************************************************)
EXTENDS Integers, Sequences

CONSTANTS
  Yyds, Aliyun,  \* the accounts, in the order a cycle polls them
  Changes,       \* requests of the panel
  Interval,      \* ticks between two polls of an Aliyun account, and how much
  Stagger,       \*   later each further account is due
  Pause,         \* ticks the loop waits between two cycles
  Base, Cap,     \* the shortest and the longest backoff
  Headers,       \* what an answer may say of the time to wait
  MaxFills,      \* fills of a cycle (50)
  MaxFailure     \* cycles that end with an exception

Of(sequence) == {sequence[i] : i \in DOMAIN sequence}
Accounts == Of(Yyds) \cup Of(Aliyun)
Order == Yyds \o Aliyun

ASSUME TimesAssumption ==
  /\ Interval \in Nat /\ Stagger \in Nat /\ Pause \in Nat
  /\ Base \in Nat /\ Cap \in Nat /\ 0 < Base /\ Base <= Cap /\ Headers \subseteq Nat \ {0}
  /\ MaxFills \in Nat /\ MaxFailure \in Nat
ASSUME OrderAssumption ==
  /\ Yyds \in Seq(Accounts) /\ Aliyun \in Seq(Accounts)
  /\ Of(Yyds) \cap Of(Aliyun) = {}

VARIABLES
  pc,       \* where the thread is
  stop, scan, forced,
  change,   \* how far the request has come that makes a change
  next,     \* the account whose turn it is
  fills,    \* fills of this cycle
  timer,    \* ticks until the wait is over
  quiet,    \* ticks until throttle_until
  backoff,  \* throttle_backoff_seconds
  since,    \* ticks since last_poll_at
  failures, \* cycles that have failed so far
  seen,     \* history: the changes some cycle has read
  unserved, \* history: a scan was requested, and no cycle has begun since
  late      \* history: cycles begun after the stop

vars == <<pc, stop, scan, forced, change, next, fills, timer, quiet, backoff, since,
          failures, seen, unserved, late>>
loop == <<pc, forced, next, fills, timer, failures, late>>
times == <<quiet, backoff, since>>

(* When the account at a place of the order is due.                         *)
Due(place) == Interval + Stagger * (place - Len(Yyds) - 1)

TypeOK ==
  /\ pc \in {"test", "take", "clear", "begin", "poll", "fill", "wait", "dead"}
  /\ stop \in {"no", "asked", "woken"}
  /\ scan \in BOOLEAN /\ forced \in BOOLEAN
  /\ change \in [Changes -> {"none", "written", "asked", "committed"}]
  /\ next \in 1..(Len(Order) + 1)
  /\ fills \in 0..MaxFills
  /\ timer \in 0..Pause
  /\ quiet \in [Accounts -> Nat]
  /\ backoff \in [Accounts -> Nat]
  /\ since \in [Of(Aliyun) -> Nat]
  /\ failures \in 0..MaxFailure
  /\ seen \subseteq Changes
  /\ unserved \in BOOLEAN
  /\ late \in Nat

Init ==
  /\ pc = "test"
  /\ stop = "no" /\ scan = FALSE /\ forced = FALSE
  /\ change = [c \in Changes |-> "none"]
  /\ next = 1 /\ fills = 0 /\ timer = 0
  /\ quiet = [a \in Accounts |-> 0]
  /\ backoff = [a \in Accounts |-> Base]
  /\ since = [a \in Of(Aliyun) |-> Due(Len(Order))]
  /\ failures = 0
  /\ seen = {} /\ unserved = FALSE /\ late = 0

-----------------------------------------------------------------------------
(* The loop.                                                                *)
Goes(to) == pc' = to /\ UNCHANGED <<forced, next, fills, timer, failures, late>>

TestStop ==
  /\ pc = "test"
  /\ Goes(IF stop # "no" THEN "dead" ELSE "take")
  /\ UNCHANGED <<stop, scan, change, times, seen, unserved>>

TakeScan ==
  /\ pc = "take"
  /\ pc' = "clear" /\ forced' = scan
  /\ UNCHANGED <<next, fills, timer, failures, late, stop, scan, change, times, seen, unserved>>

ClearScan ==
  /\ pc = "clear"
  /\ scan' = FALSE
  /\ Goes("begin")
  /\ UNCHANGED <<stop, change, times, seen, unserved>>

Begins ==
  /\ pc = "begin"
  /\ unserved' = FALSE
  /\ late' = IF stop # "no" THEN late + 1 ELSE late

(* A cycle's database session sees what is committed by now.                *)
BeginCycle ==
  /\ Begins
  /\ pc' = "poll" /\ next' = 1 /\ fills' = 0
  /\ seen' = seen \cup {c \in Changes : change[c] = "committed"}
  /\ UNCHANGED <<forced, timer, failures, stop, scan, change, times>>

-----------------------------------------------------------------------------
(* aliyun_throttle_backoff: the delay, and the next one.                    *)
Clamp(n, low, high) == IF n < low THEN low ELSE IF n > high THEN high ELSE n
Delay(current) == Clamp(current, Base, Cap)
(* Mutant: the next backoff has no limit.                                   *)
Doubled(current) == 2 * Delay(current)

NextDelay(current) == Clamp(2 * Delay(current), 0, Cap)

(* Aliyun's accounts are due one after the other, unless a scan was forced. *)
IsDue(a) == a \in Of(Aliyun) /\ ~forced => since[a] >= Due(next)

NextAccount == next' = next + 1 /\ UNCHANGED <<pc, forced, fills, timer, failures, late>>

Turn(a) == pc = "poll" /\ next <= Len(Order) /\ a = Order[next]

PollLater(a) ==
  /\ Turn(a) /\ ~IsDue(a)
  /\ NextAccount
  /\ UNCHANGED <<stop, scan, change, times, seen, unserved>>

Polled(a) == [b \in Of(Aliyun) |-> IF b = a THEN 0 ELSE since[b]]

(* Mutant: a poll that is skipped throttles anew.                           *)
SkippedAgain(a) ==
  /\ Turn(a) /\ IsDue(a) /\ quiet[a] > 0
  /\ since' = Polled(a)
  /\ quiet' = [quiet EXCEPT ![a] = Delay(backoff[a])]
  /\ NextAccount
  /\ UNCHANGED <<stop, scan, change, backoff, seen, unserved>>

(* last_poll_at is set for a throttled account too.                         *)
PollSkipped(a) ==
  /\ Turn(a) /\ IsDue(a) /\ quiet[a] > 0
  /\ since' = Polled(a)
  /\ NextAccount
  /\ UNCHANGED <<stop, scan, change, quiet, backoff, seen, unserved>>

Throttled(a, delay) ==
  /\ quiet' = [quiet EXCEPT ![a] = delay]
  /\ backoff' = [backoff EXCEPT ![a] = NextDelay(@)]

(* A refusal starts it, at yyds for as long as the answer may say.          *)
Refused(a) ==
  \/ Throttled(a, Delay(backoff[a]))
  \/ a \in Of(Yyds) /\ \E header \in Headers : Throttled(a, Clamp(header, 1, Cap))

(* The account is called: a success ends the throttling, an error or an     *)
(* empty list leaves it.                                                    *)
PollCalls(a) ==
  /\ Turn(a) /\ IsDue(a) /\ quiet[a] = 0
  /\ since' = Polled(a)
  /\ \/ backoff' = [backoff EXCEPT ![a] = Base] /\ UNCHANGED quiet
     \/ UNCHANGED <<quiet, backoff>>
     \/ Refused(a)
  /\ NextAccount
  /\ UNCHANGED <<stop, scan, change, seen, unserved>>

PollsDone ==
  /\ pc = "poll" /\ next > Len(Order)
  /\ Goes("fill")
  /\ UNCHANGED <<stop, scan, change, times, seen, unserved>>

(* Mutant: a cycle fills for as long as there is something to do.           *)
FillUnbounded ==
  /\ pc = "fill"
  /\ fills' = fills + 1
  /\ UNCHANGED <<pc, forced, next, timer, failures, late, stop, scan, change, since, seen, unserved>>

(* A fill that found something to do is followed by another one; one that   *)
(* is refused throttles the account it was called for, its yyds account for *)
(* as long as the answer may say.                                           *)
FillAgain ==
  /\ pc = "fill" /\ fills < MaxFills
  /\ fills' = fills + 1
  /\ UNCHANGED <<pc, forced, next, timer, failures, late, stop, scan, change, since, seen, unserved>>

FillDone == FillAgain /\ UNCHANGED <<quiet, backoff>>

FillRefused(a) == FillAgain /\ quiet[a] = 0 /\ Refused(a)

Waits == pc' = "wait" /\ timer' = Pause /\ UNCHANGED <<forced, next, fills>>

(* Mutant: the event is cleared after the cycle.                            *)
ClearedAfter ==
  /\ pc = "fill"
  /\ Waits
  /\ scan' = FALSE
  /\ UNCHANGED <<failures, late, stop, change, times, seen, unserved>>

FillsDone ==
  /\ pc = "fill"
  /\ Waits
  /\ UNCHANGED <<failures, late, stop, scan, change, times, seen, unserved>>

(* An exception ends the cycle, not the loop, be it the first query's.      *)
CycleFails ==
  /\ failures < MaxFailure /\ failures' = failures + 1
  /\ Waits
  /\ \/ Begins
     \/ pc \in {"poll", "fill"} /\ UNCHANGED <<late, unserved>>
  /\ UNCHANGED <<stop, scan, change, times, seen>>

(* Mutant: the wait has no timeout.                                         *)
WakesOnScan ==
  /\ pc = "wait"
  /\ scan
  /\ Goes("test")
  /\ UNCHANGED <<stop, scan, change, times, seen, unserved>>

(* Mutant: the stop is tested only before the first cycle.                  *)
WakesToTake ==
  /\ pc = "wait"
  /\ scan \/ timer = 0
  /\ Goes("take")
  /\ UNCHANGED <<stop, scan, change, times, seen, unserved>>

Wakes ==
  /\ pc = "wait"
  /\ scan \/ timer = 0
  /\ Goes("test")
  /\ UNCHANGED <<stop, scan, change, times, seen, unserved>>

LoopStep ==
  \/ TestStop \/ TakeScan \/ ClearScan \/ BeginCycle \/ PollsDone \/ FillsDone \/ Wakes
  \/ \E a \in Accounts : PollLater(a) \/ PollSkipped(a) \/ PollCalls(a)

-----------------------------------------------------------------------------
(* The panel's handlers write, request a scan and return; the dependency    *)
(* that gave them the database session commits after that.                  *)
Write(c) ==
  /\ change[c] = "none"
  /\ change' = [change EXCEPT ![c] = "written"]
  /\ UNCHANGED <<loop, stop, scan, times, seen, unserved>>

RequestScan(c) ==
  /\ change[c] = "written"
  /\ scan' = TRUE /\ unserved' = TRUE
  /\ change' = [change EXCEPT ![c] = "asked"]
  /\ UNCHANGED <<loop, stop, times, seen>>

Commit(c) ==
  /\ change[c] = "asked"
  /\ change' = [change EXCEPT ![c] = "committed"]
  /\ UNCHANGED <<loop, stop, scan, times, seen, unserved>>

(* stop_worker, from the application's shutdown.                            *)
Stop ==
  /\ stop = "no"
  /\ stop' = "asked"
  /\ UNCHANGED <<loop, scan, change, times, seen, unserved>>

StopWakes ==
  /\ stop = "asked"
  /\ stop' = "woken" /\ scan' = TRUE
  /\ UNCHANGED <<loop, change, times, seen, unserved>>

Down(n) == IF n > 0 THEN n - 1 ELSE 0
Up(n) == IF n < Due(Len(Order)) THEN n + 1 ELSE n

Tick ==
  /\ timer' = Down(timer)
  /\ quiet' = [a \in Accounts |-> Down(quiet[a])]
  /\ since' = [a \in Of(Aliyun) |-> Up(since[a])]
  /\ UNCHANGED <<pc, forced, next, fills, failures, late, stop, scan, change, backoff, seen, unserved>>

Next ==
  \/ LoopStep \/ FillDone \/ CycleFails
  \/ \E a \in Accounts : FillRefused(a)
  \/ \E c \in Changes : Write(c) \/ RequestScan(c) \/ Commit(c)
  \/ Stop \/ StopWakes \/ Tick

Spec == Init /\ [][Next]_vars

(* The thread runs, time passes and a handler that has returned commits.    *)
Fairness ==
  /\ WF_vars(LoopStep)
  /\ WF_vars(Tick)
  /\ \A c \in Changes : WF_vars(RequestScan(c)) /\ WF_vars(Commit(c))

LiveSpec == Spec /\ Fairness

-----------------------------------------------------------------------------
(* Safety: the loop never sleeps over a scan that was requested, wherever   *)
(* the request fell between the two events' calls.                          *)
NoSleepOver == pc = "wait" /\ unserved => scan

(* Safety: once the application is stopping at most one cycle more begins.  *)
StopsInTime == late <= 1

(* Safety: the backoff doubles within its limits, and nobody is sent away   *)
(* for longer than the longest one, whatever an answer says.                *)
BackoffBounded ==
  \A a \in Accounts : backoff[a] \in Base..Cap /\ quiet[a] \in 0..Cap

Stopping == stop # "no"

(* Liveness: a change made in the panel is read by some cycle, although the *)
(* scan is requested before the change is committed.                        *)
ChangesAreRead == \A c \in Changes : change[c] = "committed" ~> c \in seen \/ Stopping

(* Liveness: no account is left out for good, however often it is throttled *)
(* and scans are forced.                                                    *)
AccountsAreCalled ==
  \A a \in Accounts : <>Stopping \/ []<><<PollCalls(a) \/ FillRefused(a)>>_vars

(* Liveness: a stop ends the thread.                                        *)
ThreadEnds == Stopping ~> pc = "dead"
=============================================================================
