------------------------------ MODULE Occupancy ------------------------------
(***************************************************************************)
(* The arithmetic of worker/logic.py: how many slots a yyds account has    *)
(* in use, whether one is free, and when a domain list fetched from yyds   *)
(* must not be trusted.  Pure operators, no state.  None is Python's None  *)
(* (a count the service did not report); a negative use means "unknown",   *)
(* a negative limit means "unlimited".                                     *)
(***************************************************************************)
EXTENDS Integers

CONSTANT None

ASSUME NoneAssumption == None \notin Int

HasSlot(max, used) ==
  /\ max # None
  /\ used >= 0
  /\ max < 0 \/ used < max

ListShorterThanQuota(listed, quota) == quota # None /\ listed < quota

QuotaUnknown(quota) == IF quota = None THEN TRUE ELSE quota < 0

(* listed, quota and max may each be None; the result never is. *)
OccupancyUsed(listed, quota, max) ==
  IF listed = None
  THEN CASE quota # None               -> quota
         [] quota = None /\ max = None -> 0
         [] quota = None /\ max # None -> IF max >= 0 THEN max ELSE -1
  ELSE CASE ListShorterThanQuota(listed, quota)   -> quota
         [] listed = 0 /\ QuotaUnknown(quota)     -> -1
         [] OTHER                                 -> listed

DecrementKnown(used) ==
  CASE used = None \/ used < 0 -> -1
    [] used = 0                -> 0
    [] OTHER                   -> used - 1

(* Mutant: a list is trusted without a look at the quota.                   *)
SnapshotUnreliableNoQuota(listed, quota, previous, missing) ==
  QuotaUnknown(quota) /\ (listed = 0 \/ previous > listed \/ missing)

(* previous: how many names the last accepted snapshot holds;              *)
(* missing: one of them is not in the list just fetched.                   *)
SnapshotUnreliable(listed, quota, previous, missing) ==
  \/ ListShorterThanQuota(listed, quota)
  \/ /\ QuotaUnknown(quota)
     /\ listed = 0 \/ previous > listed \/ missing
==============================================================================
