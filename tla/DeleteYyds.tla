----------------------------- MODULE DeleteYyds -----------------------------
(***************************************************************************)
(* The panel's "delete from yyds" (delete_yyds.py): each request runs in a *)
(* thread of its own.  It checks the domain, waits for the fill lock and   *)
(* for the account's session lock, deletes the domain on yyds, cleans its  *)
(* mailbox records on Aliyun, and unbinds the row in one commit.  Any      *)
(* exception before that commit rolls the request's database work back.    *)
(***************************************************************************)
EXTENDS SlotStore

(* The checks made both before and after waiting for the fill lock.         *)
Deletable(row) == row.present /\ ~row.filling /\ (CleanupOnly(row) \/ Bound(row))

UsedOf(a) == IF a = None THEN 0 ELSE accts[a].used

(* The account object is loaded here, before any lock is held.              *)
RequestDelete(d, n) ==
  /\ del[d].pc = "idle"
  /\ Deletable(rows[n])
  /\ del' = [del EXCEPT ![d] = [NoRequest EXCEPT
               !.pc = "fillLock", !.name = n, !.acct = rows[n].acct,
               !.used = UsedOf(rows[n].acct)]]
  /\ UNCHANGED <<db, locks, world, w, barred>>

(* The row is reloaded under the fill lock, the account object only if      *)
(* there was none.                                                          *)
LockFill(d) ==
  LET row  == rows[del[d].name]
      acct == IF del[d].acct = None THEN row.acct ELSE del[d].acct
      used == IF del[d].acct = None THEN UsedOf(row.acct) ELSE del[d].used
  IN
  /\ del[d].pc = "fillLock"
  /\ fillLock = None
  /\ Deletable(row)
  /\ fillLock' = d
  /\ del' = [del EXCEPT ![d].mem = row, ![d].acct = acct, ![d].used = used,
                        ![d].retry = CleanupOnly(row),
                        ![d].pc = IF acct # None THEN "sessLock" ELSE "cleanup"]
  /\ UNCHANGED <<db, sessLock, world, w, barred>>

(* The request is refused, with the fill lock taken and released.           *)
Refused(d) ==
  /\ del[d].pc = "fillLock"
  /\ fillLock = None
  /\ ~Deletable(rows[del[d].name])
  /\ del' = [del EXCEPT ![d] = NoRequest]
  /\ UNCHANGED <<db, locks, world, w, barred>>

(* Mutant: the session is used without its lock.                            *)
LockSessionAnyway(d) ==
  /\ del[d].pc = "sessLock"
  /\ del' = [del EXCEPT ![d].pc = IF del[d].retry THEN "cleanup" ELSE "remote"]
  /\ UNCHANGED <<db, locks, world, w, barred>>

LockSession(d) ==
  /\ del[d].pc = "sessLock"
  /\ sessLock[del[d].acct] = None
  /\ sessLock' = [sessLock EXCEPT ![del[d].acct] = d]
  /\ del' = [del EXCEPT ![d].pc = IF del[d].retry THEN "cleanup" ELSE "remote"]
  /\ UNCHANGED <<db, fillLock, world, w, barred>>

(* The end of a request: the finally block frees both locks.                *)
Leave(d) ==
  /\ del' = [del EXCEPT ![d] = NoRequest]
  /\ fillLock' = None
  /\ sessLock' = [a \in Accounts |-> IF sessLock[a] = d THEN None ELSE sessLock[a]]

(* yyds knows the id under this account, or answers 404; both go on.        *)
KnownToYyds(d) == /\ remote[del[d].name].acct = del[d].acct
                  /\ remote[del[d].name].id = del[d].mem.id

Unbind(n) == remote' = [remote EXCEPT ![n].acct = None, ![n].by = "person"]

DeleteRemote(d) ==
  /\ del[d].pc = "remote"
  /\ IF KnownToYyds(d) THEN Unbind(del[d].name) ELSE UNCHANGED remote
  /\ del' = [del EXCEPT ![d].pc = "cleanup", ![d].gone = KnownToYyds(d)]
  /\ UNCHANGED <<db, locks, zone, registrar, w, barred>>

(* Mutant: any error is taken for a 404.                                    *)
DeleteRemoteForgiven(d) ==
  /\ del[d].pc = "remote"
  /\ del' = [del EXCEPT ![d].pc = "cleanup"]
  /\ UNCHANGED <<db, locks, world, w, barred>>

(* An error other than 404, of a deletion done or not done.                 *)
DeleteRemoteFails(d) ==
  /\ del[d].pc = "remote"
  /\ \/ UNCHANGED remote
     \/ KnownToYyds(d) /\ Unbind(del[d].name)
  /\ Leave(d)
  /\ UNCHANGED <<db, zone, registrar, w, barred>>

CleanDns(d) ==
  /\ del[d].pc = "cleanup"
  /\ registrar[del[d].name] # "none"
  /\ zone' = [zone EXCEPT ![del[d].name] = "none"]
  /\ del' = [del EXCEPT ![d].pc = "commit", ![d].failed = FALSE]
  /\ UNCHANGED <<db, locks, remote, registrar, w, barred>>

CleanDnsRefused(d) ==
  /\ del[d].pc = "cleanup"
  /\ registrar[del[d].name] = "none"
  /\ del' = [del EXCEPT ![d].pc = "commit", ![d].failed = TRUE]
  /\ UNCHANGED <<db, locks, world, w, barred>>

(* Mutant: a failed cleanup is reported as done.                            *)
CleanDnsIgnored(d) ==
  /\ del[d].pc = "cleanup"
  /\ del' = [del EXCEPT ![d].pc = "commit"]
  /\ UNCHANGED <<db, locks, world, w, barred>>

(* Aliyun stops before the first record, half way, or after the last one.   *)
CleanDnsFails(d) ==
  /\ del[d].pc = "cleanup"
  /\ registrar[del[d].name] # "none"
  /\ \/ UNCHANGED zone
     \/ /\ zone[del[d].name] # "none"
        /\ \E level \in {"none", "partial"} : zone' = [zone EXCEPT ![del[d].name] = level]
  /\ del' = [del EXCEPT ![d].pc = "commit", ![d].failed = TRUE]
  /\ UNCHANGED <<db, locks, remote, registrar, w, barred>>

(* The commit fails when the row was deleted, or the account it has to      *)
(* write its session to.                                                    *)
CanCommit(d) == /\ rows[del[d].name].present
                /\ ~del[d].retry => accts[del[d].acct].present

CommitDelete(d) ==
  LET n == del[d].name
      mem == del[d].mem
      left == DecrementKnown(del[d].used)
      new == [mem EXCEPT !.acct = None, !.id = 0, !.filling = FALSE, !.status = "used",
                         !.reason = IF del[d].failed THEN "cleanup" ELSE "none"]
  IN
  /\ del[d].pc = "commit"
  /\ CanCommit(d)
  /\ rows' = [rows EXCEPT ![n] = Flush(@, mem, new)]
  /\ snaps' = IF mem.acct = None THEN snaps
              ELSE [snaps EXCEPT ![mem.acct] = @ \ {n}]
  /\ accts' = IF del[d].gone /\ left # del[d].used
              THEN [accts EXCEPT ![del[d].acct].used = left] ELSE accts
  /\ barred' = [barred EXCEPT ![n] = IF rows'[n].status = "unused" THEN "no" ELSE "panel"]
  /\ Leave(d)
  /\ UNCHANGED <<aliyun, world, w>>

CommitDeleteFails(d) ==
  /\ del[d].pc = "commit"
  /\ ~CanCommit(d)
  /\ Leave(d)
  /\ UNCHANGED <<db, world, w, barred>>

DeleteYydsStep(d) ==
  \/ LockFill(d) \/ Refused(d) \/ LockSession(d) \/ DeleteRemote(d)
  \/ CleanDns(d) \/ CleanDnsRefused(d) \/ CommitDelete(d) \/ CommitDeleteFails(d)

DeleteYydsFault(d) == DeleteRemoteFails(d) \/ CleanDnsFails(d)
==============================================================================
