# domainslot in TLA+

domainslot keeps the domain slots of a set of *yyds* mail accounts full: when
a domain disappears from yyds, it binds another, unused domain from an Aliyun
account, writes the domain's mailbox records in Aliyun DNS, and waits until
yyds has verified them. This directory holds a TLA+ model of the worker and of
the panel operations that race with it, TLC configurations that check it on
small instances, and proofs about it for instances of any size. Three smaller models
sit beside it: the worker's loop with its events and throttling, the login
session of a yyds account, and the DNS client record by record.

`docs` below is `docs/yyds邮箱域名监测-总方案.md`, the repository's design
document; source lines are of the files under `app/`.

## 1. The system

| Part | State | Operations | Source |
|---|---|---|---|
| Database | `domains`, `yyds_accounts`, `yyds_domain_snapshots`, `aliyun_accounts` | sessions with `autoflush=False`, `expire_on_commit=False` | `db/` |
| Locks | one fill lock, one session lock per yyds account (PostgreSQL advisory locks on connections of their own) | acquire, release | `worker/locks.py` |
| Worker thread | stop and scan events, its cycle, one ORM session per cycle, throttle windows of the accounts | start, stop, wait, poll yyds, poll Aliyun, fill until nothing is done | `worker/runtime.py` |
| yyds poll | last snapshot of each account's domain list | fetch, trust or refuse, reconcile | `worker/poll_yyds.py` |
| Aliyun poll | inventory rows, first cohort, throttle window | list, describe, discover, judge, delete unlisted rows | `worker/poll_aliyun.py` |
| Fill | `filling_at`, error reason, yyds account and id of a row | clear stale marks, repair, select, add, write records, verify | `worker/fill.py` |
| Delete | one panel request, in a thread of its own | check, lock, delete at yyds, clean DNS, unbind | `worker/delete_yyds.py` |
| Panel | the same tables | set a domain's status, delete an account, login, views | `api.py` |
| Rules | none | slot counts, list verdicts, selection, backoff | `worker/logic.py` |
| yyds client | a copy of the account's tokens and one-time code | login, refresh, calls, write back | `yyds/`, `worker/clients.py` |
| Aliyun client | none | paging, record matching, `apply_guide`, `delete_mailbox_records` | `aliyun/` |

They interact through the database, the two locks and, from the panel to the
worker, the scan event. The worker thread
and the panel's requests run concurrently; between two external calls of one
of them, everything else may happen: another request, a person on the yyds
website, the registrar, the death of the process. What is hard here:

* **interleaving**: a fill holds the fill lock over a dozen external calls; a
  deletion waits for it and then works with what it read before; `PATCH`,
  account deletion and the Aliyun poll take no lock at all;
* **stale copies**: a row loaded before an external call is flushed after it,
  column by column; what another session changed meanwhile survives or not
  depending on which columns the code touched;
* **partial failure and crash**: yyds bound, id committed, records not written;
  yyds deleted, records not removed; the mark `filling_at` left by a dead process;
* **untrusted answers**: lists that are short, empty or without a use count;
* **order**: the first synchronisation cut in two by throttling, a domain seen
  in a list for the first time after it was deleted;
* **rotating secrets**: a refresh token is good once, and worker and deletion
  each hold a copy of it, read before the lock that makes its use exclusive;
* **lost wake-ups**: a scan is requested before the change it is for is
  committed, the loop reads and clears the event in two calls, the stop sets
  two events.

What makes each part correct:

* locks: one writer of the inventory, one user of a session (docs 3.2);
* yyds poll: unbinds only what is gone, whatever list it is given (docs 4, 5);
* Aliyun poll: the first cohort is left alone (docs 2.7), a deleted domain does
  not come back as stock (docs 5.4);
* fill: adds only stock, nothing twice, at most one at a time, used only once
  verified, and does not leave stock waiting (docs 5, 6);
* delete: what it reports deleted is gone, what it could not clean is
  remembered, and it ends (docs 2.4);
* loop: a requested scan is not slept over, a change is read, no account is left
  out, a stop ends the thread after one more cycle at most;
* session: no replaced token is presented (docs 3.2), a one-time code is not
  wasted, and an account with the right password comes back;
* DNS: a job that succeeds has reached its goal, one that stops leaves something
  a rerun can start from, and nothing but mailbox records is touched (docs 2.4).

`PROJECT.json` lists every part (`components`) and, under `hazards`, each place
in the code where one of these can go wrong with the properties that watch it.

## 2. The modules

| Module | Models | Source |
|---|---|---|
| `Occupancy` | pure rules: slots, use counts, list verdicts | `worker/logic.py` |
| `SlotStore` | all state, types, `Flush`, `Init` | `db/`, `worker/locks.py` |
| `WorkerCycle` | the cycle and its abnormal end | `worker/runtime.py` |
| `PollYyds` | the yyds poll | `worker/poll_yyds.py` |
| `PollAliyun` | the Aliyun poll | `worker/poll_aliyun.py`, `aliyun/client.py:281` |
| `Fill` | fill and repair | `worker/fill.py` |
| `DeleteYyds` | the delete requests | `worker/delete_yyds.py` |
| `Panel` | `PATCH` of a domain, deletion of an account | `api.py` |
| `Outside` | people, registrar, throttle clock, crash (external) | - |
| `DomainSlot` | the composition and all properties | - |
| `MCDomainSlot` | budgets for TLC, fairness | - |
| `TypeProofs`, `DomainSlotProofs`, `IdProofs`, `StockProofs`, `RecordsProofs` | proofs, each on top of the one before | - |
| `WorkerLoop` | the thread's loop, its events, throttling, due times | `worker/runtime.py`, `worker/logic.py:176-209` |
| `MCWorkerLoop`, `WorkerLoopProofs` | its instance and proofs | - |
| `YydsSession` | tokens and codes of one yyds account and their copies | `yyds/client.py:349-518`, `worker/clients.py` |
| `YydsSessionProofs` | its proofs | - |
| `MailboxZone` | what the DNS client promises, abstractly | - |
| `AliyunDns` | the two DNS jobs, call by call; implements `MailboxZone` | `aliyun/client.py:390-547`, `aliyun/records.py` |
| `MCAliyunDns`, `AliyunDnsProofs` | its instance and proofs | - |

The components extend `SlotStore` and share its variables; `DomainSlot` takes
the disjunction of their steps. `WorkerLoop`, `YydsSession` and `AliyunDns`
stand beside it, one per mechanism that `DomainSlot` takes as given: that cycles
keep coming, that a call made under the session lock may succeed, and that the
records of a domain are none, some or all.

### State and code

* `rows`, `accts`, `snaps`, `aliyun` are what is **committed**. Each thread
  also has the ORM's copy of the row it works on (`w.mem`, `w.copies`,
  `del[d].mem`). `Flush(row, mem, new)` is a commit: a column is written if the
  code changed it from the loaded value, else the committed one stays.
* `w.pc` and `del[d].pc` say which external call or lock a thread is about to
  make. A step is one external call and the local work and commits around it.
* The Aliyun poll loads a row and asks the registrar about it name by name
  (`Describe`); `w.list` keeps what each answer was, and the commit at the end
  (`CommitAliyun`) judges the rows by those answers, which may be old by then.
* What a fill learns stays in its session until it commits: the registrar's "not on
  hold" until the use count is synchronised or the fill ends (`Settled`). That
  count is committed before the guide is asked for, so the failures after it
  (`CountedFails`) leave a new count, those before it the old one.
* `remote` is yyds: which account has a name, under which id (the id grows with
  every binding, so a stale id is recognisable), and whether the program or a
  person bound it. `zone` is how much of its mailbox records a name has at
  Aliyun, `registrar` whether Aliyun owns it and has it on hold.
* Reasons (`error_reason`) are reduced to the classes later code tells apart:
  a registrar readiness marker, `dns_propagating`, a pending DNS cleanup, other.
* `barred` is a history variable, written and never read by actions: why a name must not be added
  by itself (first cohort, deleted in the panel, seen deleted by a poll) until
  a person sets it unused or it is bought anew. `StartFill` and the rest do not
  look at it, so `OnlyStockIsAdded` compares the program with an independent
  record of what happened.

In the three smaller models:

* `WorkerLoop`: `pc` is the line of `_loop` or `_run_cycle` about to run;
  `is_set` and `clear` are two steps (`TakeScan`, `ClearScan`). `stop` is "asked"
  between the two `set` calls of `stop_worker`. `change[c]` follows a panel request
  from its write over `request_scan` to the commit of `db_session`. `quiet`, `since`
  and `timer` count ticks to `throttle_until`, since `last_poll_at`, and to the end of
  the wait. `seen`, `unserved` and `late` are history.
* `YydsSession`: `row` is the account's committed columns, `thread[t].copy` the
  ORM's object of a thread with `base`, what it was loaded from, and `tok`, `code`,
  `used` the fields of its `YydsClient`. `pc` names the request in flight: "me" and
  "again" the two `get_me` of `ensure_session`, "inner" the login inside
  `refresh`. Cookies and access token are one token; a client
  without one leaves the row's token alone, as `persist_yyds_session` does with the
  access token. `yyds` knows the password,
  which tokens it takes, and which login (family) each comes from.
* `AliyunDns`: `zone` maps record ids to records, `doomed` is what is left of the
  loop over the first list, `missing` of the loop over the wanted records. Its
  `Level` is `zone` of `DomainSlot`: none, partial or full.

### Where the model abstracts

* One Aliyun account; custom domain slot and wildcard rule are taken and freed
  together, so they are one slot.
* Audit state and name servers are folded into the registrar's "hold". The code
  asks the registrar live for some names and takes the list's word for the
  others; the model asks for each, as it loads the row.
* A name that has left the Aliyun account since the list is skipped, as one is
  about which the registrar's answer is an error.
* Poll and sync read quota and list in one step; reconciliation, which makes no
  external call, is one step, as are `PATCH` and account deletion. The commit
  of `_mark_stored_unusable_unused` is part of the start of the fill.
* Which of several fillable domains and accounts is preferred is left open, so
  every order is covered. The worker's extra rounds for further shrunk accounts
  after a round that did nothing are left to the next cycle.
* A bad fetch may miss any names; its use count is either absent or true. When
  both quota and list lie the code cannot know, and neither does the model.
* The increment of the use count after an add whose list failed is left out;
  the next sync or poll replaces the value.
* Creating and editing accounts in the panel is not
  modelled, so limits and enabled flags do not change in a behaviour.
* `WorkerLoop`: a tick is a unit of time, an age counts up to the longest due
  time and stays there; the account a fill is refused for is any that is not
  throttled. A cycle that fails counts as having served its scan.
* `YydsSession`: one account, whose id is also the key of the process-wide
  reentrant lock, which therefore adds nothing to the advisory one. A poll, fill
  or deletion makes any number of requests. Token numbers are given out again
  when nobody can present the old ones any more. Between its poll and a fill
  the worker's ORM object may have been collected or not; both happen.
* `AliyunDns`: a record is type, owner and value; TTL, line and the priority are
  part of the value. Owners are the apex, `*`, the verification owner, another
  one, or one outside of the zone. A list is read at once; its pages are not
  told apart.

## 3. The properties

Invariants: `TypeOK`; `OneInventoryWriter`, `OneSessionUser` (the locks do
their work); `AtMostOneFilling` (crash recovery of the mark); `UsedIsServed` (a
domain the program added is used only with all records); `CleanupRemembered`
(records left behind stay marked).

Action properties: `OnlyStockIsAdded` (against `barred`), `NeverBackToStock`
(used to unused only by `PATCH`), `NeverAddedTwice` (not while any account's
last list has it), `NoFalseRemoval` (the poll unbinds only what is gone at
yyds), `DeletedIsGone` (a committed deletion was one), `MirrorsList` (after a
reconciliation all rows of the account are in its list), `FirstLeftAlone` (no
fill writes records of the first cohort).

Liveness: `RequestsEnd`, `StockIsUsed`.

`WorkerLoop`: `NoSleepOver` (no sleep while a scan is unserved), `StopsInTime`
(one cycle after the stop at most), `BackoffBounded`; liveness `ChangesAreRead`,
`AccountsAreCalled`, `ThreadEnds`.

`YydsSession`: `NoTokenReuse` (what the docs claim), `WorkerKeepsTokens` (what
holds: a reuse takes a deletion, a lost answer or a death), `CodeBuysSession` (a
code is erased only with a session bought with a code); liveness `Recovers`.

`AliyunDns`: `UnrelatedKept`, and `KeepsPromise`, the refinement of `MailboxZone`
under `level <- Level`, `busy <- job`.

## 4. The runs

The runs check `MCDomainSlot` where nothing else is said.
There everything the program does not decide has a
budget: `MaxRequest` deletions, `MaxUpdate` patches, `MaxRemove` account
deletions, `MaxWebsite` changes by people at yyds, `MaxRegistrar` changes at
the registrar, `MaxFault` errors or bad answers, `MaxLost` adds without an
answer, `MaxPartial` short Aliyun lists, `MaxCrash` deaths. The program's own
steps are unbounded; `MaxFills` stands for the 50 of `runtime.py:77` and bounds one
cycle, not the behaviour. Two domains with one slot make fills compete for a
slot and a deleted domain compete with its successor; two accounts are needed
only where a name moves or is added twice. The initial states are all ways
people can have bound the owned names before, with full or partial records.

| Run | Instance | Shows | Distinct states |
|---|---|---|---|
| `core` | 2 names, 1 account, 2 delete requests, 1 website change, 1 fault | exclusion, used means served, cleanup remembered, only stock added, no false removal, deletions real | 1.4 million |
| `accounts` | 2 accounts, 2 website changes, 1 purchase, hold or loss, 1 short Aliyun list | never added twice, no false removal of a domain that moved | 1.4 million |
| `outage` | 1 crash, 1 patch, 1 account deletion, 1 request, 1 website change | one mark, nothing back to stock | 0.8 million |
| `install` | first synchronisation inside the run, 1 fault, 1 lost answer, 1 purchase | first cohort neither added nor rewritten | 0.3 million |
| `live` | fairness, cooldown | stock is tried, requests end | 0.18 million |
| `session` (`YydsSession`) | 1 deletion at a time and 2 in all, 2 events around, 1 code, with and without two-factor login | tokens, codes, recovery | 0.37 million |
| `dns` (`AliyunDns`) | 4 record ids, 7 records, 3 guides, one of them incomplete | refinement of `MailboxZone`, nothing unrelated deleted | 69 thousand |
| `loop` (`WorkerLoop`) | 1 yyds and 1 Aliyun account, 1 panel request, 1 failing cycle, 2 fills a cycle, a stop | wake-ups, changes read, accounts called, stop | 0.22 million |

`session` bounds what happens around the threads (`MaxEvent`: tokens that run
out, failing calls, deaths, passwords), deletions and codes; the threads' own
requests, polls and fills have no bound, and `MaxToken` is the number of tokens
somebody can still present at once, not of tokens given out (`TokenLeft`): TLC finds none
missing. `dns` bounds nothing but the zone's size: jobs, failures and edits come
in any number and order; four ids hold the three records of a guide and one
in their way, and symmetry makes the ids interchangeable. `loop` bounds the cycles that fail and
the requests; with `Base` 2 and `Cap` 3 the backoff grows, is cut off and reset,
and a header of 5 asks for more than the cap.

**What the bounds leave out on purpose.** Four runs are expected to fail; each
shows the code doing something other than the design document says:

| Run | Property | What happens |
|---|---|---|
| `interrupted` | `UsedIsServed` | The process dies between the commit of the yyds id and the records. The next poll finds the name in the list and sets it used, mark off; the next fill repairs only marked rows that are still unused. Used, without records (docs line 87). |
| `restored` | `OnlyStockIsAdded` | A domain bound by a fill and deleted before a poll saw it has no `last_seen_on_yyds_at`; hold and release by the registrar make it unused, and it is added again (docs line 114). |
| `adopted` | `FirstLeftAlone` | A domain that is on hold at the first synchronisation is put in error; the yyds poll binds it and keeps the error, and the way back from error is for unbound domains only. Once the hold is over, the fill takes it for a failed fill, repairs it, and rewrites its records (docs line 34). |
| `rotated` (`YydsSession`) | `NoTokenReuse` | A deletion reads its account before it waits for two locks. A poll rotates the token meanwhile, and the deletion presents the old one, for which yyds ends the login (docs line 61). `Recovers` shows that the account comes back by its password, if it has no two-factor login. |

The same properties pass in the other runs because those give no budget to the
combination that breaks them. So `core` has no crash and no registrar, and
`outage` neither faults nor lost answers. Found in the same way, without a
run of their own:

* `OnlyStockIsAdded` with `MaxPartial = 1`: when the second Aliyun list fails,
  the first alone is taken as complete, the rows it misses are deleted, and a
  deleted domain comes back later as newly bought stock.
* `NeverBackToStock` with an update and a fault: a fill that is throttled
  before it has an id sets its domain unused, also one a person set used in its
  middle (`fill.py:303-305`, `:328-330`).
* `DeletedIsGone` with two accounts: a request that waits while its domain
  moves deletes it with the old account, is answered 404, and unbinds it. No
  passing run lets a domain move under a waiting request.
* `MirrorsList` (after a reconciliation all rows of the account are in its
  list), with the bounds of `core`: a domain that is deleted on the website before the first
  poll after its fill was never in a snapshot, so no diff removes it: it stays
  used and bound (docs line 114).
* `CleanupRemembered` with `MaxFault = 1` and `MaxRegistrar = 2`: the cleanup marker
  lives in `error_reason`; a hold by the registrar overwrites it and its release
  clears it, so the retry offered by docs line 30 is refused. No passing run lets
  the registrar change under a deletion (`poll_aliyun.py:339`). A `PATCH` to used or
  error erases or replaces the marker too, and so does any `PATCH` in the middle of the
  deletion; so does the deletion of an account under whose name a person has
  put the domain back while a retry was at work; and with two accounts a domain that moves in
  the middle of its deletion has its snapshot entry left in the other.
* `FirstLeftAlone` with an update: a person who sets a bound domain of the
  first cohort to error has it repaired.
* `StockIsUsed` with `CoolsDown = FALSE` and without the strong fairness of
  `StartFill` (`LiveSpecNoCooldown`): a repair that always fails comes first
  in every cycle.

Met while modelling, and not a property of their own:

* A scan requested between `is_set` and `clear` is served by the cycle that
  begins, but that cycle is not forced: Aliyun accounts that are not due wait
  (`runtime.py:56-59`).
* The wake-up of a stop can be cleared in the same place; the thread then waits
  out its timeout, longer than the five seconds `stop_worker` joins it.
* Handlers request the scan before `db_session` commits, so a forced cycle may miss
  the change; `ChangesAreRead` holds because cycles come by themselves.
* A deletion that is rolled back, or a death, after a login with a one-time code
  leaves the code in the row, and the next login sends it again (README line 59
  promises it is cleared); a code entered while a deletion uses the last one is
  erased with it.
* `update_yyds` with another username keeps the cookies of the old one.
* A record a person changes in place between the list and the deletion of its id
  is deleted as it is by then (`aliyun/client.py:523`, `:545`).
* A yyds poll alone can be starved by fills of the same account that are refused in
  every cycle, so `AccountsAreCalled` counts those as calls.

Every property of a passing run has a mutant in `PROJECT.json`: a variant of
one definition, with the mistake a change of that code could make, under which
TLC finds the property violated. The mutants are kept next to the definitions
they vary and used nowhere else.

### Fairness

* `WF(MCWorker)`: the worker thread loops until the process stops.
* `SF(MCDelete(d))`: a request thread runs; it waits for locks PostgreSQL
  grants in order, so a lock free again and again is granted to it in the end.
* `WF(MCThrottleEnds)`: a throttle window ends with the clock.
* `SF(MCStartFill)`: a failed repair sets `updated_at` and is not tried again
  for `VERIFY_RETRY_SECONDS` (`logic.py:279-281`, default 15), while the same
  cycle goes on to call `fill_available`; so a new fill that is possible again
  and again gets its turn. Only with a cooldown (`CoolsDown = TRUE`).

* `WorkerLoop`: `WF(LoopStep)`, the thread runs; fills that do something or
  fail are not part of it, so a cycle may end its fills early. `WF(Tick)`, time
  passes. `WF(RequestScan)`, `WF(Commit)`: a handler that has written goes on.
* `YydsSession`: `WF(WorkerStep)`, `WF(DeleterStep)`, threads run. `SF` of the ends
  of poll, fill, deletion and cycle: the model leaves the number of requests of a job
  and of fills of a cycle open, and the code bounds both. `Recovers` asks only
  that the right password stays.

Faults need no fairness: a behaviour may have none, and where liveness is checked
their number is bounded. External calls return:
the clients have timeouts, which are errors here.

## 5. The proofs

Each theorem is about the specification the runs use, with its constants open.
TLC evaluates the assumptions in every run.

`DomainSlotProofs` and `IdProofs` prove, for every set of deleters and accounts, every finite
set of names, every slot count and fill count (the assumptions named in `SlotStore`
and `Occupancy` are all there is):

| Theorem | States | Argument |
|---|---|---|
| `TypeCorrect` | `Spec => [](TypeOK /\ Located)` | `TypeOK` alone is not inductive: `w' = [w EXCEPT ...]` applies functions to `w.name` and `w.acct`, which may be `None`. `Located` says they are not where a step uses them. One lemma per action, in `TypeProofs`. |
| `OneWriter` | `[]OneInventoryWriter` | From `LocksHeld`: at a step that only a lock admits, the thread is the lock's holder. A lock is a function's value, so two threads at such steps are the same. `LocksHeld` is inductive together with the types: each step keeps the lock, takes a free one, or leaves the place. |
| `OneUser` | `[]OneSessionUser` | The same, for the session locks. |
| `OneFilling` | `[]AtMostOneFilling` | Only `StartRepair` and `StartFill` set a mark, on a table from which `Unstuck` has removed all of them; every other step leaves each mark as it was or clears it, `Flush` included because no code sets a mark in its copy after loading it. |
| `NoFalseUnbinding` | `NoFalseRemoval` | From `IdsFollow`: the ids in rows, in a list that waits to be reconciled and in an answer that waits to be committed are never ahead of yyds, and a name that a complete list misses cannot come back under an id that a row already has. A list without a use count that misses a known name is refused; one as long as the reported use holds every name of the account, because a part of a finite set with as many elements is the set. All steps but `ReadList`, `ReadPoorly`, `Reconcile`, `Sync`, `AddConflicts`, `CommitIds` and `AddDomain` are quiet: they take no id from yyds. |

The type lemmas cover the three parts of a step separately: database, locks
and world, threads. `WorkerLoopProofs` proves, for any sequences of accounts, times and numbers of requests:

| Theorem | States | Argument |
|---|---|---|
| `LoopTypeCorrect` | `Spec => []TypeOK` | Inductive with the assumptions on the times: `Clamp` stays within its limits. |
| `BackoffStaysBounded` | `[]BackoffBounded` | Inductive with the types: `Refused` is the only step that sets either, and clamps both. |
| `NeverSleepsOver` | `[]NoSleepOver` | From `Flagged`: an unserved scan has its flag set, except between `clear` and the beginning of the cycle, which serves it. |
| `StopsAfterOneCycle` | `[]StopsInTime` | From `LastCycle`: before the stop no late cycle has begun; after it, one has begun only if the thread has passed the test, and comes to the test next. |

`AliyunDnsProofs` proves, for any set of record ids and records and any guides
that ask for mailbox records only (`GuidesAssumption`; `parse_guide_records` does not
check this, yyds keeps to it):

| Theorem | States | Argument |
|---|---|---|
| `TypeCorrect` | `Spec => []TypeOK` | One lemma per kind of step. |
| `JobsKeepUnrelated` | `UnrelatedKept` | As long as nobody disturbs the job, each doomed id still holds a conflicting record, and conflicting records are mailbox records. |
| `JobsKeepPromise` | `KeepsPromise` | Refinement: each step maps to a step of `MailboxZone` or a stutter. The invariant says what a job that is not disturbed has reached at each call: all mailbox records that remain are wanted or doomed, and after the second list each wanted record is there or missing. So `Return` finds the level at the goal, and an applied guide has nothing doomed and nothing missing. |

`YydsSessionProofs` proves, for any set of deleters and any number of tokens, codes
and events:

| Theorem | States | Argument |
|---|---|---|
| `SessionTypes` | `Spec => []TypeOK` | Inductive only with the shape of each thread (`Shape`: which fields a thread has set at which request). |
| `CodesBuySessions` | `CodeBuysSession` | Only a commit erases a code, and one whose ORM object dropped it; the object drops it where a login was answered, and keeps the token that answer gave. |
| `TokensKept` | `WorkerKeepsTokens` | From `Alone`: as long as nothing upset the account, no deletion is under way or waiting, and the worker's client, its object and the row agree on one token, the newest of its login. `Fresh` says so of each of the three at each request. |

`StockProofs` proves where a domain may go, and `RecordsProofs` what becomes of its records,
for any names, accounts, requests and slots.
The runs showed that six of these properties are false in general (section 4), so each
theorem names what it excludes, and nothing else:

| Theorem | States | Excluded | Argument |
|---|---|---|---|
| `AddedOnce` | `NeverAddedTwice` | nothing | `FillShape`: between its choice and its addition the domain of a new fill is in no snapshot. Only a reconciliation puts names into snapshots, and the worker that would make it is in the fill. |
| `DeletionsAreReal` | `DeletedIsGone` | a domain that moves to another account while its request waits (`NotMoved`) | `DeletesOwn`: the id a request loaded is not ahead of yyds, its account is the row's, and once yyds has answered, the binding under both is gone for good, because ids only grow. |
| `OneAccountDeletes` | `DeletedIsGone` | a second account | A domain has nowhere to move. |
| `AddedFromStock` | `OnlyStockIsAdded` | holds and losses at the registrar, short Aliyun lists (`CalmSpec`) | `CalmInv`, below. |
| `UsedStaysUsed` | `NeverBackToStock` | the same, and a person who sets a domain used | `BackFine`: the copy a fill may write back as unused belongs to a row that is not used. `StatusMove` says, once for all, which steps change a status and how. |
| `FirstIsLeftAlone` | `FirstLeftAlone` | the same, and a person who sets a domain to error | `FirstFine`: a row of the first cohort is used, so no repair takes it and `StartFill` does not either. |
| `CleanupIsRemembered` | `CleanupRemembered` | the same as for `AddedFromStock`, a second account, the deletion of the account, patches other than to unused, and any patch of a domain in the middle of its deletion (`HandsOff`) | `CleanInv`, below. |
| `UsedHasItsRecords` | `UsedIsServed` | an addition without an answer, a death between an addition and the end of that fill, patches other than to error (`SteadySpec`), and a domain that moves while its request waits (`NotMoved`) | `ServedInv`, below. |

`CalmSpec` has every step of `Spec` but those two: crashes, all faults, lost answers,
patches, account deletions, purchases, and people at yyds are in it. `CalmInv` has a part for each place where
a decision is remembered while others act: `RowsFine` (a row that must not be
added is not stock, nor is it one the Aliyun poll would return to stock),
`CohortFine` (a name without a row that must not be added is in the first cohort, or
will be), `ListFine` (what the Aliyun poll loaded still holds when it commits),
`FillFine` (a new fill has a domain that may be added until its end), `DeletesFine` (the copy of
a delete request does not make its row returnable). None is inductive alone:
a commit writes only the columns that changed since the load, so each copy has to be
related to the row as others leave it.

`CleanInv` strengthens `CleanupRemembered` in the same way. `MarkFine`: a marked row is
used, unbound and in no snapshot, so the poll cannot take it for lost and no fill or
repair begins with it. `KeptFine`: a domain deleted in the panel is bound again, marked, or clean.
`RepairFine`: a repair's row stays bound. `CopyFine`: a row whose error the Aliyun poll is about
to clear is not marked and not being deleted. `RequestFine`: a retry finds the mark it
loaded, or a domain that the poll has bound again, and then no other poll can unbind it
before the retry commits, because a cycle polls an account once (`PollOnce`) and the next cycle
begins after a fill, which the retry's lock keeps waiting. TLC checked `CleanInv` on
one and two names before it was proved.

`SteadySpec` has all other steps of `Spec`: faults, deaths elsewhere, holds and losses, short lists, purchases,
account deletions, people at yyds. What it excludes is each a way to a used domain without records. After an
addition without an answer, or a death before the fill records its outcome (run `interrupted`),
no row in error says that the records are missing, and the next poll finds the
name in its list and makes it used. A patch to used says so by itself, and one to unused takes a failed
domain out of error, so that the next poll does the same. A request whose domain has moved
cleans the records that it needs in its new account.

`ServedInv` is about the domains that a fill has bound in an account that is still there. `ServedFine`: outside of a fill, the
row has their account and id, and is in error, or used with all records. `NewFine`
follows a new fill: before the addition no fill has bound the domain; after it neither
the row nor the fill's copy is used until the records are verified. `MendFine`: a repair's row
is held and stays in error until its records are verified. `FetchedFine`, `LoadedFine`: what the two polls have fetched or
loaded of such a domain is still so when they commit, so the yyds poll neither unbinds it nor binds it
elsewhere, and the Aliyun poll does not make it stock. `RemoteFirst`: a request that holds such a domain
has not yet come to its records, since it removes the domain from yyds first.
`OwnersFine`: rows and snapshots belong to accounts that are there. It needs `IdsFollow`, `DeletesOwn`
and `FillShape` of the theorems above. TLC checked it on one
and two names and accounts before it was proved.

Only model-checked: all
liveness, and in `YydsSession` the recovery. Liveness is out of the prover's
reach, as is what depends on counting domains by induction.

## 6. Plan

Done: the composition `DomainSlot`; `WorkerLoop`, `YydsSession`, `AliyunDns` with its
abstract specification. Left, in order of weight:

1. `Lifecycle`: the abstract life of one domain (stock, filling, serving, to
   repair, released), with `DomainSlot` shown to implement it.
2. The blind increment of the use count (`fill.py:229-232`), and the creation and
   editing of accounts, which change limits and enabled flags under a fill.
3. `ConnPool`: lock connections and session connections from one pool.

## 7. Not modelled

Encryption, panel login, events, read-only views, the web front end, schema
upgrades: they keep no state the domain life cycle depends on. Quota extraction and
the reading of answers in the clients are pure translation of JSON; what they can
get wrong appears as lists without a use count or names. The connection pool is
SQLAlchemy's. Which of several fillable domains and accounts comes first is
left open on purpose: every order is covered.
