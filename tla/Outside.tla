------------------------------- MODULE Outside -------------------------------
(***************************************************************************)
(* What happens around the program: people on the website of yyds, the     *)
(* registrar, the clock of the throttle windows, and the death of the      *)
(* process.  Nothing here is under its control.                            *)
(***************************************************************************)
EXTENDS SlotStore

PersonAdds(n, a) ==
  /\ remote[n].acct = None
  /\ remote' = [remote EXCEPT ![n] = [acct |-> a, id |-> @.id + 1, by |-> "person"]]
  /\ UNCHANGED <<db, locks, zone, registrar, w, del, barred>>

PersonDeletes(n) ==
  /\ remote[n].acct # None
  /\ remote' = [remote EXCEPT ![n].acct = None, ![n].by = "person"]
  /\ UNCHANGED <<db, locks, zone, registrar, w, del, barred>>

(* bought, put on hold, released, or moved out of the Aliyun account; bought *)
(* again, it is a new purchase                                              *)
RegistrarChanges(n, what) ==
  /\ registrar[n] # what
  /\ registrar' = [registrar EXCEPT ![n] = what]
  /\ barred' = [barred EXCEPT ![n] = IF what = "none" THEN "no" ELSE @]
  /\ UNCHANGED <<db, locks, remote, zone, w, del>>

YydsThrottleEnds(a) ==
  /\ accts[a].throttled
  /\ accts' = [accts EXCEPT ![a].throttled = FALSE]
  /\ UNCHANGED <<rows, snaps, aliyun, locks, world, w, del, barred>>

AliyunThrottleEnds ==
  /\ aliyun.throttled
  /\ aliyun' = [aliyun EXCEPT !.throttled = FALSE]
  /\ UNCHANGED <<rows, accts, snaps, locks, world, w, del, barred>>

(* The process dies, or is stopped while its daemon thread still works, and *)
(* starts again: the database is what was committed, PostgreSQL frees the   *)
(* locks of the dead connections, yyds and Aliyun keep what they were told. *)
Crash ==
  /\ w' = Resting
  /\ del' = [d \in Deleters |-> NoRequest]
  /\ fillLock' = None
  /\ sessLock' = [a \in Accounts |-> None]
  /\ UNCHANGED <<db, world, barred>>
==============================================================================
