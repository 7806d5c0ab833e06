------------------------------ MODULE SlotStore ------------------------------
(***************************************************************************)
(* The state every part of domainslot works on: the tables of the          *)
(* database as last committed, the two advisory locks, what yyds and       *)
(* Aliyun themselves hold, and the local state of the two kinds of thread  *)
(* that move it (the worker thread and the panel's delete requests).       *)
(*                                                                         *)
(* One Aliyun account is modelled.  A domain's custom-domain slot and its  *)
(* wildcard rule are taken and freed together, so they are one slot here.  *)
(***************************************************************************)
EXTENDS Occupancy, FiniteSets

CONSTANTS
  Names,       \* domain names
  Accounts,    \* yyds accounts
  Deleters,    \* concurrent "delete from yyds" requests of the panel
  Worker,      \* the worker thread, as an owner of locks
  Max,         \* slots of every yyds account
  MaxFills,    \* fills tried in one cycle (50 in runtime.py)
  CoolsDown,   \* whether verify_retry_seconds > 0
  Installed    \* whether the first synchronisation is over at the start

ASSUME NamesAssumption == IsFiniteSet(Names)
ASSUME OwnersAssumption ==
  /\ Worker \notin Deleters
  /\ None \notin Deleters \cup Accounts \cup Names \cup {Worker}
ASSUME CountsAssumption ==
  /\ Max \in Nat
  /\ MaxFills \in Nat \ {0}
  /\ CoolsDown \in BOOLEAN
  /\ Installed \in BOOLEAN

VARIABLES
  rows,       \* table domains, committed
  accts,      \* table yyds_accounts, committed
  snaps,      \* table yyds_domain_snapshots, committed: names per account
  aliyun,     \* the row of table aliyun_accounts, committed
  fillLock,   \* holder of the fill advisory lock
  sessLock,   \* holder of each account's session advisory lock
  remote,     \* yyds: to which account a name is bound, under which id
  zone,       \* Aliyun: how many of its mailbox records a name has
  registrar,  \* Aliyun: whether it owns a name and what it says of it
  w,          \* the worker thread
  del,        \* the delete requests
  barred      \* history: why a name must not be added to yyds by itself

db    == <<rows, accts, snaps, aliyun>>
locks == <<fillLock, sessLock>>
world == <<remote, zone, registrar>>
vars  == <<db, locks, world, w, del, barred>>

-----------------------------------------------------------------------------
Status == {"unused", "used", "error"}

(* Classes of error_reason: whether a later step looks at it, and how.      *)
(*   readiness    a registrar marker (logic.py _ALIYUN_READINESS_MARKERS)   *)
(*   propagating  contains dns_propagating: a repair keeps the records      *)
(*   cleanup      yyds side deleted, mailbox records are still to be removed *)
Reason == {"none", "readiness", "propagating", "cleanup", "other"}

Row == [present : BOOLEAN,  \* the row exists
        status  : Status,
        acct    : Accounts \cup {None},  \* yyds_account_id
        id      : Nat,                   \* yyds_domain_id, 0 for NULL
        filling : BOOLEAN,               \* filling_at is set
        reason  : Reason,
        hold    : BOOLEAN,               \* client_hold
        first   : BOOLEAN,               \* from_first_snapshot
        seen    : BOOLEAN]               \* last_seen_on_yyds_at is set

NoRow == [present |-> FALSE, status |-> "unused", acct |-> None, id |-> 0,
          filling |-> FALSE, reason |-> "none", hold |-> FALSE,
          first |-> FALSE, seen |-> FALSE]

Acct == [present : BOOLEAN, ok : BOOLEAN,  \* no login_error
         throttled : BOOLEAN, used : Int]

Aliyun == [throttled : BOOLEAN,
           synced    : BOOLEAN,           \* first_synced_at is set
           cohorted  : BOOLEAN,           \* first_sync_names is set
           cohort    : SUBSET Names]      \* first_sync_names

(* A name is bound to one account of yyds at most.  The id outlives the     *)
(* binding so that the next one is told from it.                            *)
Remote == [acct : Accounts \cup {None}, id : Nat, by : {"person", "fill"}]

(* A name belongs to the first synchronisation, was deleted in the panel,   *)
(* or was seen deleted on yyds; a person who sets it unused releases it.    *)
Barred == {"no", "first", "panel", "poll"}

WorkerPC == {"idle", "poll", "pollRead", "pollCommit", "aliyun", "describe",
             "fill", "registrar", "bind", "sync", "add", "ids", "dns", "verify"}

DeleterPC == {"idle", "fillLock", "sessLock", "remote", "cleanup", "commit"}

WorkerState ==
  [pc    : WorkerPC,
   todo  : SUBSET Accounts,          \* accounts the poll has still to visit
   acct  : Accounts \cup {None},     \* account polled, or filled
   name  : Names \cup {None},        \* domain being filled
   list  : [Names -> Nat],           \* the domain list fetched: yyds id, or what
                                     \* the Aliyun poll knows; 0 if absent
   quota : Nat \cup {None},          \* the quota's use count fetched with it
   mem   : Row,                      \* the ORM's copy of the domain being filled
   newly : BOOLEAN,                  \* a new fill, not a repair
   rewrite : BOOLEAN,                \* write DNS (rewrite_dns)
   copies  : [Names -> Row],         \* the rows the Aliyun poll loaded
   fills : 0..MaxFills]

Resting ==
  [pc |-> "idle", todo |-> {}, acct |-> None, name |-> None,
   list |-> [n \in Names |-> 0], quota |-> None, mem |-> NoRow,
   newly |-> FALSE, rewrite |-> FALSE, copies |-> [n \in Names |-> NoRow],
   fills |-> 0]

DeleterState ==
  [pc   : DeleterPC,
   name : Names \cup {None},
   acct : Accounts \cup {None},      \* the account object loaded by the request
   used : Int,                       \* that object's use count
   mem  : Row,                       \* the ORM's copy of the domain
   retry : BOOLEAN,                  \* only the DNS cleanup is left to do
   gone  : BOOLEAN,                  \* yyds confirmed the deletion
   failed : BOOLEAN]                 \* the DNS cleanup failed

NoRequest ==
  [pc |-> "idle", name |-> None, acct |-> None, used |-> 0, mem |-> NoRow,
   retry |-> FALSE, gone |-> FALSE, failed |-> FALSE]

TypeOK ==
  /\ rows \in [Names -> Row]
  /\ accts \in [Accounts -> Acct]
  /\ snaps \in [Accounts -> SUBSET Names]
  /\ aliyun \in Aliyun
  /\ fillLock \in Deleters \cup {Worker, None}
  /\ sessLock \in [Accounts -> Deleters \cup {Worker, None}]
  /\ remote \in [Names -> Remote]
  /\ zone \in [Names -> {"none", "partial", "full"}]
  /\ registrar \in [Names -> {"none", "ok", "hold"}]
  /\ w \in WorkerState
  /\ del \in [Deleters -> DeleterState]
  /\ barred \in [Names -> Barred]

-----------------------------------------------------------------------------
(* What a commit writes of an object the ORM loaded as mem and the code     *)
(* turned into new: the columns whose value differs from the loaded one.    *)
(* A column another session changed meanwhile survives in all the others.   *)
Flush(row, mem, new) ==
  [row EXCEPT !.status  = IF new.status  = mem.status  THEN @ ELSE new.status,
              !.acct    = IF new.acct    = mem.acct    THEN @ ELSE new.acct,
              !.id      = IF new.id      = mem.id      THEN @ ELSE new.id,
              !.filling = IF new.filling = mem.filling THEN @ ELSE new.filling,
              !.reason  = IF new.reason  = mem.reason  THEN @ ELSE new.reason,
              !.hold    = IF new.hold    = mem.hold    THEN @ ELSE new.hold]

(* Mutant: only the rows are looked up, not the lists.                      *)
InSnapshotOfRow(n) == rows[n].acct # None

(* name_in_snapshot_json over every snapshot                                *)
InSnapshot(n) == \E a \in Accounts : n \in snaps[a]

NamesOn(a) == {n \in Names : remote[n].acct = a}

Listed(list) == {n \in Names : list[n] # 0}

IdsOf(names) == [n \in Names |-> IF n \in names THEN remote[n].id ELSE 0]

(* The verdict on a fetched list, of the poll and of a fill about to add.   *)
Unreliable(list, quota, a) ==
  SnapshotUnreliable(Cardinality(Listed(list)), quota, Cardinality(snaps[a]),
                     \E n \in snaps[a] : list[n] = 0)

(* mailbox_dns_cleanup_pending and no yyds domain left to delete            *)
CleanupOnly(row) == row.reason = "cleanup" /\ row.id = 0

Bound(row) == row.acct # None /\ row.id # 0

-----------------------------------------------------------------------------
(* A new installation finds the names its Aliyun account owns and those a   *)
(* person had put on yyds, with all of their records or with some; an       *)
(* installed one has synchronised both, and the names bought since are in   *)
(* stock.  No thread is running.                                            *)
FirstRow(a) ==
  IF a = None THEN [NoRow EXCEPT !.present = TRUE]
  ELSE [NoRow EXCEPT !.present = TRUE, !.status = "used", !.acct = a,
                     !.id = 1, !.first = TRUE, !.seen = TRUE]

InitFrom(bound, owned, served) ==
  LET On(a) == {n \in Names : bound[n] = a} IN
  /\ \A a \in Accounts : Cardinality(On(a)) <= Max /\ On(a) \subseteq owned
  /\ \A n \in served : bound[n] # None
  /\ rows = [n \in Names |-> IF Installed /\ n \in owned THEN FirstRow(bound[n])
                                                        ELSE NoRow]
  /\ accts = [a \in Accounts |->
                [present |-> TRUE, ok |-> TRUE, throttled |-> FALSE,
                 used |-> IF Installed THEN Cardinality(On(a)) ELSE -1]]
  /\ snaps = [a \in Accounts |-> IF Installed THEN On(a) ELSE {}]
  /\ aliyun = [throttled |-> FALSE, synced |-> Installed, cohorted |-> Installed,
               cohort |-> {n \in Names : Installed /\ bound[n] # None}]
  /\ remote = [n \in Names |->
                 [acct |-> bound[n], id |-> IF bound[n] = None THEN 0 ELSE 1,
                  by |-> "person"]]
  /\ zone = [n \in Names |-> CASE bound[n] = None  -> "none"
                                [] n \in served     -> "full"
                                [] OTHER            -> "partial"]
  /\ registrar = [n \in Names |-> IF n \in owned THEN "ok" ELSE "none"]
  /\ fillLock = None
  /\ sessLock = [a \in Accounts |-> None]
  /\ w = Resting
  /\ del = [d \in Deleters |-> NoRequest]
  /\ barred = [n \in Names |->
                 IF bound[n] # None \/ (~Installed /\ n \in owned) THEN "first" ELSE "no"]

Init == \E bound \in [Names -> Accounts \cup {None}], owned \in SUBSET Names,
           served \in SUBSET Names : InitFrom(bound, owned, served)
==============================================================================
