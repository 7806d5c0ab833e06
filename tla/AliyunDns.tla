------------------------------ MODULE AliyunDns ------------------------------
(***************************************************************************)
(* The mailbox records of one domain at Aliyun DNS: apply_guide, which     *)
(* writes what the guide of a yyds binding asks for, and                   *)
(* delete_mailbox_records, which removes it (aliyun/client.py), with the   *)
(* rules of aliyun/records.py.  Every call is a step; each may fail, done  *)
(* or not done, and a person may edit the zone between two of them.  The   *)
(* two jobs run under the fill lock, so there is one at a time.            *)
(***************************************************************************)
EXTENDS Naturals

CONSTANTS
  Ids,       \* record ids at Aliyun
  Records,   \* what a record can say: [type, host, value]
  Guides,    \* what a dns-guide can ask for: sets of such records
  NoRecord

MailboxHosts == {"@", "*"}

(* parse_guide_records: other types, owners outside of the zone and empty   *)
(* values are dropped.                                                      *)
Parsed(guide) ==
  {r \in guide : r.type \in {"TXT", "MX"} /\ r.host # "elsewhere" /\ r.value # ""}

(* required_guide_missing *)
Complete(want) ==
  /\ \E r \in want : r.type = "TXT"
  /\ \A host \in MailboxHosts : \E r \in want : r.type = "MX" /\ r.host = host

(* mailbox_cleanup_wanted; verify stands for every host that begins with    *)
(* _yydsmail-verify                                                         *)
CleanupWanted ==
  {[type |-> "TXT", host |-> "verify", value |-> ""],
   [type |-> "MX", host |-> "@", value |-> ""],
   [type |-> "MX", host |-> "*", value |-> ""]}

(* Mutant: every TXT record next to a mailbox's is taken for one of its.     *)
ConflictAnyTxt(r, want) == r.type \notin {"NS", "SOA"} /\ r.host # "www"

(* is_conflict_record *)
Conflict(r, want) ==
  /\ r.type \notin {"NS", "SOA"}
  /\ \/ r.type \in {"CNAME", "A", "AAAA"} /\ r.host \in MailboxHosts
     \/ r.type = "MX" /\ r.host \in MailboxHosts
     \/ r.type = "TXT" /\ r.host = "verify"
     \/ /\ r.type \in {"MX", "TXT"}
        /\ \E x \in want : x.type = r.type /\ x.host = r.host

(* The records the docs (line 30) let a job touch: the verification TXT, and *)
(* the MX, A and CNAME records of the domain itself and of its wildcard.     *)
MailboxRecord(r) ==
  \/ r.type = "TXT" /\ r.host = "verify"
  \/ r.type \in {"MX", "CNAME", "A", "AAAA"} /\ r.host \in MailboxHosts

ASSUME RecordsAssumption == NoRecord \notin Records
ASSUME GuidesAssumption ==
  /\ Guides \subseteq SUBSET Records
  /\ \A guide \in Guides : \A r \in Parsed(guide) : MailboxRecord(r)

VARIABLES
  zone,      \* the records of the domain, by id
  hosted,    \* Aliyun DNS serves the domain
  ns,        \* the name servers at the registrar are Aliyun's
  guide,     \* the dns-guide of the present binding on yyds
  job,       \* apply, clean or no
  pc,        \* the call about to be made
  want,      \* the records the job was given
  doomed,    \* ids still to be deleted
  missing,   \* records still to be added
  outcome,   \* how the last job ended
  disturbed  \* history: the zone or the guide was changed under the job

vars == <<zone, hosted, ns, guide, job, pc, want, doomed, missing, outcome, disturbed>>
world == <<hosted, ns, guide>>

TypeOK ==
  /\ zone \in [Ids -> Records \cup {NoRecord}]
  /\ hosted \in BOOLEAN
  /\ ns \in BOOLEAN
  /\ guide \in Guides
  /\ job \in {"no", "apply", "clean"}
  /\ pc \in {"idle", "ns", "host", "list", "delete", "add"}
  /\ want \subseteq Records \cup CleanupWanted
  /\ doomed \subseteq Ids
  /\ missing \subseteq Records
  /\ outcome \in {"none", "done", "failed"}
  /\ disturbed \in BOOLEAN

Held == {zone[i] : i \in {i \in Ids : zone[i] # NoRecord}}

(* Aliyun refuses a record that is there already.                           *)
NoDuplicate == \A i, j \in Ids : zone[i] = zone[j] => i = j \/ zone[i] = NoRecord

Init ==
  /\ zone \in [Ids -> Records \cup {NoRecord}]
  /\ NoDuplicate
  /\ hosted \in BOOLEAN
  /\ ~hosted => Held = {}
  /\ ns \in BOOLEAN
  /\ guide \in Guides
  /\ job = "no" /\ pc = "idle"
  /\ want = {} /\ doomed = {} /\ missing = {}
  /\ outcome = "none" /\ disturbed = FALSE

-----------------------------------------------------------------------------
Finish(how) ==
  /\ job' = "no" /\ pc' = "idle"
  /\ want' = {} /\ doomed' = {} /\ missing' = {}
  /\ outcome' = how
  /\ UNCHANGED disturbed

Start(kind, first, records) ==
  /\ pc = "idle"
  /\ job' = kind /\ pc' = first /\ want' = records
  /\ outcome' = "none" /\ disturbed' = FALSE
  /\ UNCHANGED <<zone, world, doomed, missing>>

StartApply == Complete(Parsed(guide)) /\ Start("apply", "ns", Parsed(guide))

(* The guide is read before yyds deletes the domain; a retry, or a guide    *)
(* that cannot be read, goes by the built-in records alone.                 *)
StartClean ==
  \/ Start("clean", "list", CleanupWanted \cup Parsed(guide))
  \/ Start("clean", "list", CleanupWanted)

(* describe_registrar_nameservers; other name servers end the job.          *)
CheckNameservers ==
  /\ pc = "ns"
  /\ IF ns THEN /\ pc' = "host"
                /\ UNCHANGED <<job, want, doomed, missing, outcome, disturbed>>
           ELSE Finish("failed")
  /\ UNCHANGED <<zone, world>>

(* ensure_dns_domain: one already there is as good.                         *)
EnsureDomain ==
  /\ pc = "host"
  /\ hosted' = TRUE
  /\ pc' = "list"
  /\ UNCHANGED <<zone, ns, guide, job, want, doomed, missing, outcome, disturbed>>

(* Mutant: the records are collected, not their ids.                        *)
InTheWayRecords == {r \in Held : Conflict(r, want)}

(* Mutant: the guide's own records are deleted too, to be added again.      *)
InTheWayAll == {i \in Ids : zone[i] # NoRecord /\ Conflict(zone[i], want)}

(* What a job deletes: the conflicting records, but not those it wants.     *)
InTheWay ==
  {i \in Ids : /\ zone[i] # NoRecord
               /\ Conflict(zone[i], want)
               /\ job = "apply" => zone[i] \notin want}

ListRecords ==
  /\ pc = "list" /\ hosted
  /\ doomed' = InTheWay
  /\ pc' = "delete"
  /\ UNCHANGED <<zone, world, job, want, missing, outcome, disturbed>>

(* By id, whatever the record says by now; the call fails for an id that is *)
(* gone.                                                                    *)
Deleted(i) == zone[i] # NoRecord /\ zone' = [zone EXCEPT ![i] = NoRecord]

DeleteRecord(i) ==
  /\ pc = "delete"
  /\ i \in doomed
  /\ Deleted(i)
  /\ doomed' = doomed \ {i}
  /\ UNCHANGED <<world, job, pc, want, missing, outcome, disturbed>>

(* The second list of apply_guide.                                          *)
ListAgain ==
  /\ pc = "delete" /\ doomed = {} /\ job = "apply"
  /\ missing' = want \ Held
  /\ pc' = "add"
  /\ UNCHANGED <<zone, world, job, want, doomed, outcome, disturbed>>

(* The answer that it is there already is as good as success.               *)
Added(r) ==
  IF r \in Held THEN UNCHANGED zone
  ELSE \E i \in Ids : zone[i] = NoRecord /\ zone' = [zone EXCEPT ![i] = r]

AddRecord(r) ==
  /\ pc = "add"
  /\ r \in missing
  /\ Added(r)
  /\ missing' = missing \ {r}
  /\ UNCHANGED <<world, job, pc, want, doomed, outcome, disturbed>>

Return ==
  /\ \/ pc = "add" /\ missing = {}
     \/ pc = "delete" /\ doomed = {} /\ job = "clean"
  /\ Finish("done")
  /\ UNCHANGED <<zone, world>>

(* A call fails, or the process dies before it.                             *)
CallFails ==
  /\ job # "no"
  /\ Finish("failed")
  /\ UNCHANGED <<zone, world>>

(* A call was carried out but its answer never came.                        *)
CallUnanswered ==
  /\ \/ pc = "host" /\ hosted' = TRUE /\ UNCHANGED zone
     \/ pc = "delete" /\ (\E i \in doomed : Deleted(i)) /\ UNCHANGED hosted
     \/ pc = "add" /\ (\E r \in missing : Added(r)) /\ UNCHANGED hosted
  /\ Finish("failed")
  /\ UNCHANGED <<ns, guide>>

Program ==
  \/ StartApply \/ StartClean \/ CheckNameservers \/ EnsureDomain
  \/ ListRecords \/ ListAgain \/ Return \/ CallFails \/ CallUnanswered
  \/ \E i \in Ids : DeleteRecord(i)
  \/ \E r \in missing : AddRecord(r)

-----------------------------------------------------------------------------
(* A person adds, changes in place or deletes a record.                     *)
PersonEdits(i, r) ==
  /\ hosted
  /\ zone[i] # r /\ r \notin Held
  /\ zone' = [zone EXCEPT ![i] = r]
  /\ disturbed' = (job # "no")
  /\ UNCHANGED <<world, job, pc, want, doomed, missing, outcome>>

(* The domain is bound anew, with another verification record.              *)
Rebound(g) ==
  /\ g # guide
  /\ guide' = g
  /\ disturbed' = (job # "no")
  /\ UNCHANGED <<zone, hosted, ns, job, pc, want, doomed, missing, outcome>>

NameserversChange ==
  /\ ns' = ~ns
  /\ UNCHANGED <<zone, hosted, guide, job, pc, want, doomed, missing, outcome, disturbed>>

Outside ==
  \/ \E i \in Ids, r \in Records \cup {NoRecord} : PersonEdits(i, r)
  \/ \E g \in Guides : Rebound(g)
  \/ NameserversChange

Next == Program \/ Outside

Spec == Init /\ [][Next]_vars

-----------------------------------------------------------------------------
MailboxOf(held) == {r \in held : MailboxRecord(r)}

LevelOf(mailbox, records) ==
  IF mailbox = {} THEN "none" ELSE IF mailbox = records THEN "full" ELSE "partial"

(* How much of the guide's records the zone has, and nothing in their way.  *)
Level == LevelOf(MailboxOf(Held), Parsed(guide))

Promise == INSTANCE MailboxZone WITH level <- Level, busy <- job

(* Refinement: seen from outside, the jobs keep the promise of MailboxZone: *)
(* success means the goal is reached, a rerun starts from anything, and no  *)
(* step of a rerun takes away a guide that is completely applied.           *)
KeepsPromise == Promise!Spec

(* Safety: a job deletes and replaces mailbox records only (docs lines 30   *)
(* and 175: no NS or SOA, no www, nothing unrelated), unless a person       *)
(* changes a record between the list and the deletion of its id.            *)
UnrelatedKept ==
  [][job # "no" /\ ~disturbed' =>
       \A i \in Ids : zone'[i] # zone[i] /\ zone[i] # NoRecord
                        => MailboxRecord(zone[i])]_vars
==============================================================================
