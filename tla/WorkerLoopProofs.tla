-------------------------- MODULE WorkerLoopProofs --------------------------
(***************************************************************************)
(* What the worker's loop keeps for any accounts, any times and any number *)
(* of requests: the types of its state, the limits of the throttling, that *)
(* it never sleeps over a request, and that a stop lets at most one more   *)
(* cycle begin.                                                            *)
(***************************************************************************)
EXTENDS WorkerLoop, TLAPS

(* How many accounts there are, and whose turn it is.                       *)
LEMMA OrderFacts ==
  /\ Len(Yyds) \in Nat /\ Len(Aliyun) \in Nat
  /\ Len(Order) = Len(Yyds) + Len(Aliyun)
  /\ Len(Order) \in Nat
  /\ Of(Aliyun) # {} => Len(Aliyun) > 0
<1>1. Yyds \in Seq(Accounts) /\ Aliyun \in Seq(Accounts)
  BY OrderAssumption
<1>2. /\ Len(Yyds) \in Nat /\ Len(Aliyun) \in Nat
      /\ Len(Order) = Len(Yyds) + Len(Aliyun)
  BY <1>1 DEF Order
<1>3. ASSUME Len(Aliyun) = 0 PROVE Of(Aliyun) = {}
  <2>1. DOMAIN Aliyun = {}
    BY <1>1, <1>3
  <2> QED
    BY <2>1 DEF Of
<1> QED
  BY <1>2, <1>3

(* The last account is due after a natural number of ticks.                 *)
LEMMA DueLast == Of(Aliyun) # {} => Due(Len(Order)) \in Nat
<1> SUFFICES ASSUME Of(Aliyun) # {} PROVE Due(Len(Order)) \in Nat
  OBVIOUS
<1>1. Len(Aliyun) - 1 \in Nat /\ Len(Order) - Len(Yyds) - 1 = Len(Aliyun) - 1
  BY OrderFacts
<1>2. Stagger * (Len(Aliyun) - 1) \in Nat
  BY <1>1, TimesAssumption
<1> QED
  BY <1>1, <1>2, TimesAssumption DEF Due

(* A backoff lies between its limits, and the next one does too.            *)
LEMMA DelayBounded ==
  ASSUME NEW n \in Nat
  PROVE  /\ Delay(n) \in Base..Cap /\ NextDelay(n) \in Base..Cap
         /\ Clamp(n, 1, Cap) \in 0..Cap
BY TimesAssumption DEF Delay, NextDelay, Clamp

Bounds == /\ quiet \in [Accounts -> 0..Cap]
          /\ backoff \in [Accounts -> Base..Cap]

(* Throttling an account stays within the limits.                           *)
LEMMA ThrottledBounded ==
  ASSUME Bounds, NEW a \in Accounts, NEW delay \in 0..Cap, Throttled(a, delay)
  PROVE  Bounds'
<1>1. backoff[a] \in Nat
  BY TimesAssumption DEF Bounds
<1>2. NextDelay(backoff[a]) \in Base..Cap
  BY <1>1, DelayBounded
<1> QED
  BY <1>2 DEF Bounds, Throttled

(* So does a refusal, whatever its answer says.                             *)
LEMMA RefusedBounded ==
  ASSUME Bounds, NEW a \in Accounts, Refused(a)
  PROVE  Bounds'
<1>1. backoff[a] \in Nat
  BY TimesAssumption DEF Bounds
<1>2. Delay(backoff[a]) \in 0..Cap
  BY <1>1, DelayBounded, TimesAssumption
<1>3. \A header \in Headers : Clamp(header, 1, Cap) \in 0..Cap
  BY DelayBounded, TimesAssumption
<1> QED
  BY <1>2, <1>3, ThrottledBounded DEF Refused

(* Time only shortens what is left of a throttling.                         *)
LEMMA TickBounded == ASSUME Bounds, Tick PROVE Bounds'
<1>1. \A n \in 0..Cap : Down(n) \in 0..Cap
  BY TimesAssumption DEF Down
<1> QED
  BY <1>1 DEF Bounds, Tick

(* Calling an account ends the throttling, leaves it or starts it.          *)
LEMMA PollCallsBounded ==
  ASSUME Bounds, NEW a \in Accounts, PollCalls(a)
  PROVE  Bounds'
<1>1. CASE Refused(a)
  BY <1>1, RefusedBounded
<1>2. CASE backoff' = [backoff EXCEPT ![a] = Base] /\ UNCHANGED quiet
  BY <1>2, TimesAssumption DEF Bounds
<1>3. CASE UNCHANGED <<quiet, backoff>>
  BY <1>3 DEF Bounds
<1> QED
  BY <1>1, <1>2, <1>3 DEF PollCalls

(* No step of the loop or of anybody else leaves the limits.                *)
LEMMA StepBounded == ASSUME Bounds, [Next]_vars PROVE Bounds'
<1>1. ASSUME NEW a \in Accounts, PollCalls(a) PROVE Bounds'
  BY <1>1, PollCallsBounded
<1>2. ASSUME NEW a \in Accounts, FillRefused(a) PROVE Bounds'
  BY <1>2, RefusedBounded DEF FillRefused
<1>3. CASE Tick
  BY <1>3, TickBounded
<1>4. CASE UNCHANGED <<quiet, backoff>>
  BY <1>4 DEF Bounds
<1>5. ASSUME NEW a \in Accounts, PollLater(a) \/ PollSkipped(a)
      PROVE  UNCHANGED <<quiet, backoff>>
  BY <1>5 DEF PollLater, PollSkipped, times
<1>6. CASE \/ TestStop \/ TakeScan \/ ClearScan \/ BeginCycle \/ PollsDone \/ FillsDone \/ Wakes
           \/ FillDone \/ CycleFails
  <2>1. UNCHANGED <<quiet, backoff>>
    BY <1>6 DEF TestStop, TakeScan, ClearScan, BeginCycle, PollsDone, FillsDone, Wakes,
       FillDone, CycleFails, times
  <2> QED
    BY <2>1, <1>4
<1>7. CASE \/ \E c \in Changes : Write(c) \/ RequestScan(c) \/ Commit(c)
           \/ Stop \/ StopWakes \/ UNCHANGED vars
  <2>1. UNCHANGED <<quiet, backoff>>
    BY <1>7 DEF Write, RequestScan, Commit, Stop, StopWakes, times, vars
  <2> QED
    BY <2>1, <1>4
<1> QED
  BY <1>1, <1>2, <1>3, <1>4, <1>5, <1>6, <1>7 DEF Next, LoopStep

(* Every backoff and every throttling stays within the limits of            *)
(* aliyun_throttle_backoff and apply_account_throttle.                      *)
THEOREM BackoffStaysBounded == Spec => []BackoffBounded
<1>1. Init => Bounds
  BY TimesAssumption DEF Init, Bounds
<1>2. Bounds /\ [Next]_vars => Bounds'
  BY StepBounded
<1>3. Bounds => BackoffBounded
  BY DEF Bounds, BackoffBounded
<1> QED
  BY <1>1, <1>2, <1>3, PTL DEF Spec

-----------------------------------------------------------------------------
(* A request that no cycle has served is still flagged, or has been taken   *)
(* and its cycle is about to begin.                                         *)
Flagged == unserved => scan \/ pc = "begin"

(* No step forgets a request.                                               *)
LEMMA StepFlagged == ASSUME Flagged, [Next]_vars PROVE Flagged'
<1>1. CASE TestStop \/ TakeScan \/ PollsDone \/ FillsDone \/ Wakes
  BY <1>1 DEF Flagged, TestStop, TakeScan, PollsDone, FillsDone, Wakes, Waits, Goes
<1>2. CASE ClearScan
  BY <1>2 DEF Flagged, ClearScan, Goes
<1>3. CASE BeginCycle \/ CycleFails
  BY <1>3 DEF Flagged, BeginCycle, CycleFails, Begins
<1>4. ASSUME NEW a \in Accounts, PollLater(a) \/ PollSkipped(a) \/ PollCalls(a) PROVE Flagged'
  BY <1>4 DEF Flagged, PollLater, PollSkipped, PollCalls, NextAccount
<1>5. ASSUME FillDone \/ \E a \in Accounts : FillRefused(a) PROVE Flagged'
  BY <1>5 DEF Flagged, FillDone, FillRefused, FillAgain
<1>6. ASSUME NEW c \in Changes, Write(c) \/ RequestScan(c) \/ Commit(c) PROVE Flagged'
  BY <1>6 DEF Flagged, Write, RequestScan, Commit, loop
<1>7. CASE Stop \/ StopWakes \/ Tick
  BY <1>7 DEF Flagged, Stop, StopWakes, Tick, loop
<1>8. CASE UNCHANGED vars
  BY <1>8 DEF Flagged, vars
<1> QED
  BY <1>1, <1>2, <1>3, <1>4, <1>5, <1>6, <1>7, <1>8 DEF Next, LoopStep

(* The loop never waits with a request pending that is not flagged: the     *)
(* wait returns at once (_scan.wait of _loop).                              *)
THEOREM NeverSleepsOver == Spec => []NoSleepOver
<1>1. Init => Flagged
  BY DEF Init, Flagged
<1>2. Flagged /\ [Next]_vars => Flagged'
  BY StepFlagged
<1>3. Flagged => NoSleepOver
  BY DEF Flagged, NoSleepOver
<1> QED
  BY <1>1, <1>2, <1>3, PTL DEF Spec

-----------------------------------------------------------------------------
(* The cycle that began after the stop is the last one: after it comes the  *)
(* test of the stop.                                                        *)
LastCycle == \/ late = 0
             \/ late = 1 /\ stop # "no" /\ pc \in {"poll", "fill", "wait", "test", "dead"}

(* No step begins a second one.                                             *)
LEMMA StepLastCycle == ASSUME LastCycle, [Next]_vars PROVE LastCycle'
<1>1. CASE TestStop \/ PollsDone \/ FillsDone \/ Wakes
  BY <1>1 DEF LastCycle, TestStop, PollsDone, FillsDone, Wakes, Waits, Goes
<1>2. CASE TakeScan \/ ClearScan
  BY <1>2 DEF LastCycle, TakeScan, ClearScan, Goes
<1>3. CASE BeginCycle \/ CycleFails
  BY <1>3 DEF LastCycle, BeginCycle, CycleFails, Begins, Waits
<1>4. ASSUME NEW a \in Accounts, PollLater(a) \/ PollSkipped(a) \/ PollCalls(a)
      PROVE  LastCycle'
  BY <1>4 DEF LastCycle, PollLater, PollSkipped, PollCalls, NextAccount
<1>5. ASSUME FillDone \/ \E a \in Accounts : FillRefused(a) PROVE LastCycle'
  BY <1>5 DEF LastCycle, FillDone, FillRefused, FillAgain
<1>6. ASSUME NEW c \in Changes, Write(c) \/ RequestScan(c) \/ Commit(c) PROVE LastCycle'
  BY <1>6 DEF LastCycle, Write, RequestScan, Commit, loop
<1>7. CASE Stop \/ StopWakes \/ Tick
  BY <1>7 DEF LastCycle, Stop, StopWakes, Tick, loop
<1>8. CASE UNCHANGED vars
  BY <1>8 DEF LastCycle, vars
<1> QED
  BY <1>1, <1>2, <1>3, <1>4, <1>5, <1>6, <1>7, <1>8 DEF Next, LoopStep

(* Once stop_worker has set the event, at most one cycle more begins,       *)
(* wherever the loop was.                                                   *)
THEOREM StopsAfterOneCycle == Spec => []StopsInTime
<1>1. Init => LastCycle
  BY DEF Init, LastCycle
<1>2. LastCycle /\ [Next]_vars => LastCycle'
  BY StepLastCycle
<1>3. LastCycle => StopsInTime
  BY DEF LastCycle, StopsInTime
<1> QED
  BY <1>1, <1>2, <1>3, PTL DEF Spec

-----------------------------------------------------------------------------
(* The part of the state the loop's own steps change,                       *)
LoopTyped ==
  /\ pc \in {"test", "take", "clear", "begin", "poll", "fill", "wait", "dead"}
  /\ forced \in BOOLEAN
  /\ next \in 1..(Len(Order) + 1)
  /\ fills \in 0..MaxFills
  /\ timer \in 0..Pause
  /\ failures \in 0..MaxFailure
  /\ seen \subseteq Changes
  /\ unserved \in BOOLEAN
  /\ late \in Nat

(* and the part others change too.                                          *)
SharedTyped ==
  /\ stop \in {"no", "asked", "woken"}
  /\ scan \in BOOLEAN
  /\ change \in [Changes -> {"none", "written", "asked", "committed"}]

SinceTyped == since \in [Of(Aliyun) -> Nat]

(* The types of the first part are kept.                                    *)
LEMMA StepLoopTyped == ASSUME LoopTyped, SharedTyped, [Next]_vars PROVE LoopTyped'
<1>1. CASE TestStop \/ PollsDone \/ Wakes \/ ClearScan
  BY <1>1 DEF LoopTyped, TestStop, PollsDone, Wakes, ClearScan, Goes
<1>2. CASE TakeScan
  BY <1>2 DEF LoopTyped, SharedTyped, TakeScan
<1>3. CASE BeginCycle
  <2>1. seen' \subseteq Changes
    BY <1>3 DEF LoopTyped, BeginCycle
  <2>2. late' \in Nat
    BY <1>3 DEF LoopTyped, BeginCycle, Begins
  <2>4. unserved' = FALSE
    BY <1>3 DEF BeginCycle, Begins
  <2>3. next' \in 1..(Len(Order)' + 1) /\ fills' \in 0..MaxFills
    BY <1>3, OrderFacts, TimesAssumption DEF BeginCycle, Order
  <2> QED
    BY <1>3, <2>1, <2>2, <2>3, <2>4 DEF LoopTyped, BeginCycle
<1>4. CASE FillsDone \/ CycleFails
  <2>1. late' \in Nat
    BY <1>4 DEF LoopTyped, FillsDone, CycleFails, Begins
  <2>4. unserved' \in BOOLEAN
    BY <1>4, Zenon DEF LoopTyped, FillsDone, CycleFails, Begins
  <2>2. failures' \in 0..MaxFailure
    BY <1>4, TimesAssumption DEF LoopTyped, FillsDone, CycleFails
  <2>3. pc' = "wait" /\ timer' \in 0..Pause /\ UNCHANGED <<forced, next, fills, seen>>
    BY <1>4, TimesAssumption DEF FillsDone, CycleFails, Waits
  <2> QED
    BY <2>1, <2>2, <2>3, <2>4 DEF LoopTyped
<1>5. ASSUME NEW a \in Accounts, PollLater(a) \/ PollSkipped(a) \/ PollCalls(a)
      PROVE  LoopTyped'
  <2>1. next \in 1..Len(Order) /\ NextAccount /\ UNCHANGED <<seen, unserved>>
    BY <1>5, OrderFacts DEF LoopTyped, PollLater, PollSkipped, PollCalls, Turn
  <2> QED
    BY <2>1, OrderFacts DEF LoopTyped, NextAccount
<1>6. ASSUME FillDone \/ \E a \in Accounts : FillRefused(a) PROVE LoopTyped'
  BY <1>6, TimesAssumption DEF LoopTyped, FillDone, FillRefused, FillAgain
<1>7. ASSUME NEW c \in Changes, Write(c) \/ RequestScan(c) \/ Commit(c) PROVE LoopTyped'
  BY <1>7 DEF LoopTyped, Write, RequestScan, Commit, loop
<1>8. CASE Stop \/ StopWakes
  BY <1>8 DEF LoopTyped, Stop, StopWakes, loop
<1>9. CASE Tick
  BY <1>9, TimesAssumption DEF LoopTyped, Tick, Down
<1>10. CASE UNCHANGED vars
  BY <1>10 DEF LoopTyped, vars
<1> QED
  BY <1>1, <1>2, <1>3, <1>4, <1>5, <1>6, <1>7, <1>8, <1>9, <1>10 DEF Next, LoopStep

(* So are those of the second.                                              *)
LEMMA StepSharedTyped == ASSUME SharedTyped, [Next]_vars PROVE SharedTyped'
<1>1. ASSUME NEW c \in Changes, Write(c) \/ RequestScan(c) \/ Commit(c) PROVE SharedTyped'
  BY <1>1 DEF SharedTyped, Write, RequestScan, Commit
<1>2. CASE Stop \/ StopWakes
  BY <1>2 DEF SharedTyped, Stop, StopWakes
<1>3. CASE ClearScan
  BY <1>3 DEF SharedTyped, ClearScan
<1>4. CASE UNCHANGED <<stop, scan, change>>
  BY <1>4 DEF SharedTyped
<1>5. CASE TestStop \/ TakeScan \/ BeginCycle \/ PollsDone \/ FillsDone \/ Wakes \/ CycleFails
  BY <1>4, <1>5 DEF TestStop, TakeScan, BeginCycle, PollsDone, FillsDone, Wakes, CycleFails
<1>6. ASSUME NEW a \in Accounts, PollLater(a) \/ PollSkipped(a) \/ PollCalls(a)
      PROVE  UNCHANGED <<stop, scan, change>>
  BY <1>6 DEF PollLater, PollSkipped, PollCalls
<1>7. ASSUME FillDone \/ (\E a \in Accounts : FillRefused(a)) \/ Tick \/ UNCHANGED vars
      PROVE  UNCHANGED <<stop, scan, change>>
  BY <1>7 DEF FillDone, FillRefused, FillAgain, Tick, vars
<1> QED
  BY <1>1, <1>2, <1>3, <1>4, <1>5, <1>6, <1>7 DEF Next, LoopStep

(* The time since a poll is a number of ticks.                              *)
LEMMA StepSinceTyped == ASSUME SinceTyped, [Next]_vars PROVE SinceTyped'
<1>1. ASSUME NEW a \in Accounts, PollSkipped(a) \/ PollCalls(a) PROVE SinceTyped'
  BY <1>1 DEF SinceTyped, PollSkipped, PollCalls, Polled
<1>2. CASE Tick
  BY <1>2 DEF SinceTyped, Tick, Up
<1>3. CASE UNCHANGED since
  BY <1>3 DEF SinceTyped
<1>4. CASE \/ TestStop \/ TakeScan \/ ClearScan \/ BeginCycle \/ PollsDone \/ FillsDone \/ Wakes
           \/ CycleFails
  BY <1>3, <1>4 DEF TestStop, TakeScan, ClearScan, BeginCycle, PollsDone, FillsDone, Wakes,
     CycleFails, times
<1>5. ASSUME NEW a \in Accounts, PollLater(a) PROVE UNCHANGED since
  BY <1>5 DEF PollLater, times
<1>6. ASSUME NEW c \in Changes, Write(c) \/ RequestScan(c) \/ Commit(c) PROVE UNCHANGED since
  BY <1>6 DEF Write, RequestScan, Commit, times
<1>7. ASSUME \/ FillDone \/ \E a \in Accounts : FillRefused(a)
             \/ Stop \/ StopWakes \/ UNCHANGED vars
      PROVE  UNCHANGED since
  BY <1>7 DEF FillDone, FillRefused, FillAgain, Stop, StopWakes, times, vars
<1> QED
  BY <1>1, <1>2, <1>3, <1>4, <1>5, <1>6, <1>7 DEF Next, LoopStep

(* The loop's state has its type, for any accounts and any times.           *)
THEOREM LoopTypeCorrect == Spec => []TypeOK
<1> DEFINE Typed == LoopTyped /\ SharedTyped /\ SinceTyped /\ Bounds
<1>1. Init => Typed
  <2>1. Of(Aliyun) = {} => [a \in Of(Aliyun) |-> Due(Len(Order))] \in [Of(Aliyun) -> Nat]
    OBVIOUS
  <2>2. Init => LoopTyped
    <3>1. /\ 0 \in Nat /\ 1 \in 1..(Len(Order) + 1)
          /\ 0 \in 0..MaxFills /\ 0 \in 0..Pause /\ 0 \in 0..MaxFailure
      BY OrderFacts, TimesAssumption
    <3> QED
      BY <3>1, Zenon DEF Init, LoopTyped
  <2>3. Init => SharedTyped
    BY DEF Init, SharedTyped
  <2>5. Init => Bounds
    BY TimesAssumption DEF Init, Bounds
  <2>4. Init => SinceTyped
    BY <2>1, DueLast DEF Init, SinceTyped
  <2> QED
    BY <2>2, <2>3, <2>4, <2>5
<1>2. Typed /\ [Next]_vars => Typed'
  BY StepLoopTyped, StepSharedTyped, StepSinceTyped, StepBounded
<1>3. Typed => TypeOK
  BY TimesAssumption DEF LoopTyped, SharedTyped, SinceTyped, Bounds, TypeOK
<1> QED
  BY <1>1, <1>2, <1>3, PTL DEF Spec
=============================================================================
