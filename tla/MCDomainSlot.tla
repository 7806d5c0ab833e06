---------------------------- MODULE MCDomainSlot ----------------------------
(***************************************************************************)
(* DomainSlot with a budget for everything the program does not decide, so *)
(* that TLC's state space is finite: how often people, the registrar, the  *)
(* services' failures and the process's death interfere.                   *)
(***************************************************************************)
EXTENDS DomainSlot

CONSTANTS MaxRequest, MaxUpdate, MaxRemove, MaxWebsite, MaxRegistrar,
          MaxFault, MaxLost, MaxPartial, MaxCrash, RegistrarStates

VARIABLE left

mcvars == <<vars, left>>

Budget == [request |-> MaxRequest, update |-> MaxUpdate, remove |-> MaxRemove,
           website |-> MaxWebsite, registrar |-> MaxRegistrar,
           fault |-> MaxFault, lost |-> MaxLost,
           partial |-> MaxPartial, crash |-> MaxCrash]

Spend(kind) == left[kind] > 0 /\ left' = [left EXCEPT ![kind] = @ - 1]

MCInit == Init /\ left = Budget

MCWorker == WorkerStep /\ UNCHANGED left
MCDelete(d) == DeleteYydsStep(d) /\ UNCHANGED left
MCThrottleEnds == ThrottleEnds /\ UNCHANGED left

MCRegistrar ==
  /\ Spend("registrar")
  /\ \E n \in Names, what \in RegistrarStates : RegistrarChanges(n, what)

MCNext ==
  \/ MCWorker
  \/ \E d \in Deleters : MCDelete(d)
  \/ MCThrottleEnds
  \/ Spend("fault") /\ Fault
  \/ Spend("lost") /\ AddUnanswered
  \/ Spend("partial") /\ ListPartly
  \/ Spend("request") /\ Request
  \/ Spend("update") /\ Update
  \/ Spend("remove") /\ RemoveAccount
  \/ Spend("website") /\ Website
  \/ MCRegistrar
  \/ Spend("crash") /\ Crash

MCSpec == MCInit /\ [][MCNext]_mcvars

(* Threads keep running, throttle windows end, and an advisory lock, which  *)
(* PostgreSQL grants in order, is not refused to a waiting thread for ever.  *)
Fairness ==
  /\ WF_mcvars(MCWorker)
  /\ WF_mcvars(MCThrottleEnds)
  /\ \A d \in Deleters : SF_mcvars(MCDelete(d))

(* With a cooldown, failed repairs do not come back before a fill had its   *)
(* turn: whenever a new fill is possible again and again, one starts.       *)
MCStartFill ==
  /\ \E n \in Names, a \in Accounts : StartFill(n, a) \/ FindOccupied(n, a)
  /\ UNCHANGED left

LiveSpec == MCSpec /\ Fairness /\ SF_mcvars(MCStartFill)
LiveSpecNoCooldown == MCSpec /\ Fairness
==============================================================================
