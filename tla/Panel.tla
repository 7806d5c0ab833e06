-------------------------------- MODULE Panel --------------------------------
(***************************************************************************)
(* The panel's other requests that change domains (api.py).  They take no  *)
(* lock; each is one short transaction, and one step here.                 *)
(***************************************************************************)
EXTENDS SlotStore

(* PATCH /api/domains/{id}: the person in charge decides.                   *)
UpdateDomain(n, status) ==
  LET free == status = "unused" /\ ~InSnapshot(n) IN
  /\ rows[n].present
  /\ rows' = [rows EXCEPT
       ![n].status  = status,
       ![n].filling = FALSE,
       ![n].reason  = IF status = "error" THEN @ ELSE "none",
       ![n].acct    = IF free THEN None ELSE @,
       ![n].id      = IF free THEN 0 ELSE @]
  /\ barred' = [barred EXCEPT ![n] = IF status = "unused" THEN "no" ELSE @]
  /\ UNCHANGED <<accts, snaps, aliyun, locks, world, w, del>>

(* DELETE /api/yyds-accounts/{id}: the snapshot goes with the account, the  *)
(* foreign key of its domains is set to null, their yyds id stays.          *)
DeleteAccount(a) ==
  /\ accts[a].present
  /\ accts' = [accts EXCEPT ![a].present = FALSE]
  /\ snaps' = [snaps EXCEPT ![a] = {}]
  /\ rows' = [n \in Names |->
       IF rows[n].acct # a THEN rows[n]
       ELSE IF rows[n].id = 0 THEN [rows[n] EXCEPT !.acct = None, !.filling = FALSE]
       ELSE [rows[n] EXCEPT !.acct = None, !.filling = FALSE,
                            !.status = "used", !.reason = "none"]]
  /\ UNCHANGED <<aliyun, locks, world, w, del, barred>>
==============================================================================
