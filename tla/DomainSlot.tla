----------------------------- MODULE DomainSlot -----------------------------
(***************************************************************************)
(* domainslot as a whole: the worker thread, the delete requests, the      *)
(* panel's other requests and everything outside, interleaved.             *)
(***************************************************************************)
EXTENDS PollYyds, PollAliyun, Fill, DeleteYyds, Panel, Outside

WorkerStep ==
  \/ StartCycle \/ EndPolls \/ AbortCycle
  \/ PollYydsStep \/ PollAliyunStep \/ FillStep

(* Errors and bad answers of yyds and Aliyun, one at a time.                *)
Fault ==
  \/ PollYydsFault \/ PollAliyunFault \/ FillFault
  \/ \E d \in Deleters : DeleteYydsFault(d)

Request == \E d \in Deleters, n \in Names : RequestDelete(d, n)

Update == \E n \in Names, status \in Status : UpdateDomain(n, status)

RemoveAccount == \E a \in Accounts : DeleteAccount(a)

Website ==
  \E n \in Names : PersonDeletes(n) \/ \E a \in Accounts : PersonAdds(n, a)

Registrar ==
  \E n \in Names, what \in {"none", "ok", "hold"} : RegistrarChanges(n, what)

ThrottleEnds == AliyunThrottleEnds \/ \E a \in Accounts : YydsThrottleEnds(a)

Next ==
  \/ WorkerStep \/ Fault \/ AddUnanswered \/ ListPartly
  \/ \E d \in Deleters : DeleteYydsStep(d)
  \/ Request \/ Update \/ RemoveAccount
  \/ Website \/ Registrar \/ ThrottleEnds \/ Crash

Spec == Init /\ [][Next]_vars

-----------------------------------------------------------------------------
(* The two locks.                                                           *)
Filling == {"registrar", "bind", "sync", "add", "ids", "dns", "verify"}
InSession == {"pollRead", "pollCommit", "sync", "add", "ids", "dns", "verify"}
Deleting == {"sessLock", "remote", "cleanup", "commit"}

(* Where threads stand: whoever works on a domain knows which, and whoever  *)
(* works with an account too.                                               *)
Located ==
  /\ w.pc \in Filling => w.name \in Names /\ w.acct \in Accounts
  /\ w.pc \in {"pollRead", "pollCommit"} => w.acct \in Accounts
  /\ \A d \in Deleters :
       /\ del[d].pc # "idle" => del[d].name \in Names
       /\ del[d].pc \in {"sessLock", "remote"} => del[d].acct \in Accounts

(* Safety: whoever is where only a lock lets it be holds that lock, through *)
(* every error path, crash and deletion of an account.                      *)
LocksHeld ==
  /\ w.pc \in Filling => fillLock = Worker
  /\ w.pc \in InSession => sessLock[w.acct] = Worker
  /\ \A d \in Deleters :
       /\ del[d].pc \in Deleting => fillLock = d
       /\ del[d].pc \in {"remote", "cleanup", "commit"} /\ del[d].acct # None
            => sessLock[del[d].acct] = d

(* Safety: a delete request never works on the inventory while a fill or    *)
(* another delete does, from its check under the lock to its commit.        *)
OneInventoryWriter ==
  /\ \A d \in Deleters : del[d].pc \in Deleting => w.pc \notin Filling
  /\ \A d, e \in Deleters :
       del[d].pc \in Deleting /\ del[e].pc \in Deleting => d = e

(* Safety: at most one thread talks to yyds with an account's session (the  *)
(* refresh token is rotated by every use of it, docs 3.2).                  *)
OneSessionUser ==
  \A d \in Deleters :
    /\ del[d].pc \in {"remote", "cleanup", "commit"} /\ w.pc \in InSession
         => w.acct # del[d].acct
    /\ \A e \in Deleters \ {d} :
         /\ del[d].pc \in {"remote", "cleanup", "commit"}
         /\ del[e].pc \in {"remote", "cleanup", "commit"}
         /\ del[d].acct # None
         => del[d].acct # del[e].acct

(* Safety: filling_at marks at most one domain, after any number of crashes *)
(* and cycles that died with their mark set.                                *)
AtMostOneFilling ==
  \A m, n \in Names : rows[m].filling /\ rows[n].filling => m = n

Added(n) == remote'[n].by = "fill" /\ remote'[n].id # remote[n].id

(* Safety: the program adds a domain to yyds only from stock: never one of  *)
(* the first synchronisation, nor one that was deleted and that nobody has  *)
(* set to unused since (docs section 5, rules 1 and 4).                     *)
OnlyStockIsAdded == [][\A n \in Names : Added(n) => barred[n] = "no"]_vars

(* Safety: the program itself never turns a used domain back into stock;    *)
(* only the person in charge does (docs section 5, rules 4 and 6).          *)
NeverBackToStock ==
  [][\A n \in Names :
       /\ rows[n].present /\ rows[n].status = "used"
       /\ rows'[n].present /\ rows'[n].status = "unused"
       => UpdateDomain(n, "unused")]_vars

(* Safety: a domain that some account's last known list holds is not added  *)
(* to any account (docs 6.2: looked up in the lists of all accounts).       *)
NeverAddedTwice ==
  [][\A n \in Names : Added(n) => \A a \in Accounts : n \notin snaps[a]]_vars

(* Safety: the poll unbinds a domain only when yyds no longer has it under  *)
(* the id the row holds, however short the list it was given.               *)
NoFalseRemoval ==
  [][Reconcile => \A n \in Names :
       rows[n].present /\ rows[n].acct # None /\ rows'[n].acct = None
         => ~(remote[n].acct = rows[n].acct /\ remote[n].id = rows[n].id)]_vars

(* Why NoFalseRemoval holds: an id in a row, or in a list on its way there, *)
(* is never ahead of yyds, and a domain that a complete list misses cannot  *)
(* come back under an id that a row already holds.                          *)
IdsFollow ==
  /\ \A n \in Names : /\ remote[n].acct # None => remote[n].id > 0
                      /\ rows[n].id <= remote[n].id
  /\ w.pc = "pollCommit" => \A n \in Names : w.list[n] <= remote[n].id
  /\ w.pc = "ids" => w.list[w.name] <= remote[w.name].id
  /\ /\ w.pc = "pollCommit"
     /\ w.quota # None
     /\ ~ListShorterThanQuota(Cardinality(Listed(w.list)), w.quota)
     => \A n \in Names : w.list[n] = 0
          => ~(remote[n].acct = w.acct /\ remote[n].id = rows[n].id)

(* Safety: when a delete request commits, yyds no longer has the domain     *)
(* under the account and id of the row it unbinds.                          *)
DeletedIsGone ==
  [][\A d \in Deleters : CommitDelete(d) /\ ~del[d].retry
       => ~(/\ remote[del[d].name].acct = del[d].mem.acct
            /\ remote[del[d].name].id = del[d].mem.id)]_vars

(* Safety: mailbox records that a delete request could not remove stay      *)
(* marked for another try for as long as they are there.                    *)
CleanupRemembered ==
  \A n \in Names :
    /\ barred[n] = "panel" /\ rows[n].present /\ ~Bound(rows[n])
    /\ zone[n] # "none"
    => CleanupOnly(rows[n])

(* Safety: a domain the program added and shows as used has its records.    *)
UsedIsServed ==
  \A n \in Names :
    /\ rows[n].status = "used" /\ Bound(rows[n])
    /\ remote[n].acct = rows[n].acct /\ remote[n].by = "fill"
    => zone[n] = "full"

(* Safety: a reconciled list leaves no domain bound to the account that is  *)
(* not in the list.                                                         *)
MirrorsList ==
  [][Reconcile => \A n \in Names :
       rows'[n].present /\ rows'[n].acct = w.acct => n \in snaps'[w.acct]]_vars

(* Liveness: every request to delete a domain ends.                         *)
RequestsEnd == \A d \in Deleters : del[d].pc # "idle" ~> del[d].pc = "idle"

(* A domain waits in stock while an account could receive it.               *)
StockWaits ==
  /\ \E a \in Accounts : CanReceive(a)
  /\ \E n \in Names : Fillable(rows[n])

(* Liveness: stock does not wait for ever while there is a slot for it.     *)
StockIsUsed == StockWaits ~> ~StockWaits

(* Safety: no fill or repair writes records of a domain that was there at   *)
(* the first synchronisation and that nobody has released since (docs       *)
(* section 2, rules 7 and 8).                                               *)
FirstLeftAlone == [][WriteDns /\ w.rewrite => barred[w.name] # "first"]_vars
==============================================================================
