----------------------------- MODULE WorkerCycle -----------------------------
(***************************************************************************)
(* The worker thread's cycle (runtime.py _run_cycle): poll every yyds      *)
(* account, poll Aliyun, then fill until there is nothing to fill.         *)
(***************************************************************************)
EXTENDS SlotStore

(* accounts enabled when poll_yyds_accounts selects them *)
StartCycle ==
  /\ w.pc = "idle"
  /\ w' = [Resting EXCEPT !.pc = "poll",
                          !.todo = {a \in Accounts : accts[a].present}]
  /\ UNCHANGED <<db, locks, world, del, barred>>

EndPolls ==
  /\ w.pc = "poll"
  /\ w.todo = {}
  /\ w' = [Resting EXCEPT !.pc = "aliyun"]
  /\ UNCHANGED <<db, locks, world, del, barred>>

(* Mutant: no safety count.                                                 *)
AfterFillEndless(did) ==
  IF did THEN [Resting EXCEPT !.pc = "fill", !.fills = w.fills + 1] ELSE Resting

(* The next round of the while loop: another fill after one that did        *)
(* something, until the safety count runs out.                              *)
AfterFill(did) ==
  IF did /\ w.fills + 1 < MaxFills
  THEN [Resting EXCEPT !.pc = "fill", !.fills = w.fills + 1]
  ELSE Resting

(* An account deleted under a step that has to write to it makes the commit *)
(* fail; the error handlers fail on the same row, so the whole cycle ends:  *)
(* nothing of the step is written and the finally blocks free the locks.    *)
AbortCycle ==
  /\ \/ w.acct # None /\ ~accts[w.acct].present
     \/ w.pc = "poll" /\ \E a \in w.todo : ~accts[a].present
  /\ w' = Resting
  /\ fillLock' = IF fillLock = Worker THEN None ELSE fillLock
  /\ sessLock' = [a \in Accounts |->
                    IF sessLock[a] = Worker THEN None ELSE sessLock[a]]
  /\ UNCHANGED <<db, world, del, barred>>
==============================================================================
