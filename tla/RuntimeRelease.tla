---------------------------- MODULE RuntimeRelease ----------------------------
(***************************************************************************)
(* Runtime releases on the compute host.  scripts/deploy_runtime_release.py *)
(* fills a staging directory, validates it and renames it into releases/;  *)
(* a validated one that was left behind can be resumed.  A thin release is *)
(* copied from the fixed source and bound to its anchor, which names a full *)
(* release (v1) until scripts/migrate_source_anchor.py exchanges it for one *)
(* that names a bundle of its own (v2).  The backend pins every task to the *)
(* release that was ready when it was prepared (runtime_release.py and     *)
(* WrfTaskManager._pin_runtime_release).                                   *)
(*                                                                         *)
(* The programs run on the host under deployment.lock, so `job` is the one *)
(* that holds it; any may be killed between two of its effects.  A loss of *)
(* power also loses file contents that were not synced: names and links are *)
(* kept in order by the file system's journal.  A validation compares every *)
(* file with its digest, so a transaction stands for its content.          *)
(***************************************************************************)
EXTENDS MpiBudget

CONSTANTS
  Releases,      \* release identifiers
  Transactions,  \* staging directories; each has a random name and a content
  Tasks,
  Requests,      \* what tasks ask of MPI: [domains, nx, ny]
  Processes,     \* WRF_HPC_CPU_MPI_PROCESSES
  MaxFaults,     \* bound on programs killed and losses of power together
  MaxDamage,     \* bound on staging directories that others change
  None

ASSUME ReleaseAssumption ==
  /\ None \notin Releases \cup Transactions /\ "bundle" \notin Transactions
  /\ Processes \in Nat \ {0} /\ MaxFaults \in Nat /\ MaxDamage \in Nat
  \* validate_domain_tree: a request has one to four domains
  /\ \A q \in Requests : q.domains # {} /\ q.domains \subseteq Nat \X Nat

VARIABLES
  tx,         \* [place, rel, binding] of each transaction
  release,    \* the transaction each release directory was renamed from
  sealed,     \* releases whose own directory is read-only
  current,    \* the release the link root/current names
  job,        \* [pc, tx] of the program that holds deployment.lock
  source,     \* root/source: [kind, rel]
  bundle,     \* root/source-store/<bundle>
  candidate,  \* root/.source-next-<digest>
  paper,      \* what the migration's operator has: none, plan, prepared
  audit,      \* the switch's audit file
  damaged,    \* transactions changed by others while they lay in staging
  dirty,      \* transactions, and the bundle, with contents not on disk yet
  torn,       \* those that lost contents with the power
  configured, \* settings.hpc_runtime_release, read when the backend starts
  pinned,     \* the task's runtime: [rel, print, sup, supPrint, request, ranks]
  launched,
  faults, damage

staging == <<tx, release, sealed, current>>
migration == <<source, bundle, candidate, paper, audit>>
tasks == <<configured, pinned, launched>>
host == <<damaged, dirty, torn>>
bounds == <<faults, damage>>
vars == <<staging, job, migration, host, tasks, bounds>>

Places == {"none", "uploaded", "begun", "copied", "validated", "moved"}

TypeOK ==
  /\ tx \in [Transactions -> [place: Places, rel: Releases \cup {None},
                              binding: {"none", "full", "thin", "v1", "v2"}]]
  /\ release \in [Releases -> Transactions \cup {None}]
  /\ sealed \subseteq Releases /\ current \in Releases \cup {None}
  /\ job \in [pc: {"idle", "copy", "check", "install", "seal", "switch", "anchor", "bundle",
                   "candidate", "exchange", "verify", "close"},
              tx: Transactions \cup {None}]
  /\ source \in [kind: {"absent", "partial", "v1", "v2"}, rel: Releases \cup {None}]
  /\ bundle \in {"absent", "partial", "sealed"}
  /\ candidate \in {"absent", "partial", "v2", "legacy", "removed"}
  /\ paper \in {"none", "plan", "prepared"} /\ audit \in {"none", "requested", "complete"}
  /\ damaged \subseteq Transactions
  /\ dirty \subseteq Transactions \cup {"bundle"} /\ torn \subseteq Transactions \cup {"bundle"}
  /\ configured \in Releases \cup {None}
  /\ pinned \in [Tasks -> [rel: Releases \cup {None}, print: Transactions \cup {None},
                           sup: Releases \cup {None}, supPrint: Transactions \cup {None},
                           request: Requests \cup {None}, ranks: Nat]]
  /\ launched \subseteq Tasks /\ faults \in 0 .. MaxFaults /\ damage \in 0 .. MaxDamage

Idle == [pc |-> "idle", tx |-> None]
NoPin == [rel |-> None, print |-> None, sup |-> None, supPrint |-> None, request |-> None, ranks |-> 0]

Init ==
  /\ tx = [t \in Transactions |-> [place |-> "none", rel |-> None, binding |-> "none"]]
  /\ release = [r \in Releases |-> None] /\ sealed = {} /\ current = None
  /\ job = Idle
  /\ source = [kind |-> "absent", rel |-> None]
  /\ bundle = "absent" /\ candidate = "absent" /\ paper = "none" /\ audit = "none"
  /\ damaged = {} /\ dirty = {} /\ torn = {}
  /\ configured = None /\ pinned = [k \in Tasks |-> NoPin] /\ launched = {}
  /\ faults = 0 /\ damage = 0

-----------------------------------------------------------------------------
(* What the programs verify.                                               *)

Intact(t) == t \notin damaged \cup torn

\* validate_release of an installed release, and what readiness looks at: the
\* seal of its own directory is not part of either.
Installed(r) == r # None /\ release[r] # None /\ Intact(release[r])

Thin(t) == tx[t].binding \in {"v1", "v2"}
Sound(r) == Installed(r) /\ r \in sealed /\ ~Thin(release[r])

\* read_source_anchor: an anchor of the first kind reads the release it names,
\* one of the second only its bundle.  (It hashes the native files only: a loss
\* is taken to reach one of them.)
Readable ==
  \/ source.kind = "v1" /\ Sound(source.rel)
  \/ source.kind = "v2" /\ bundle = "sealed" /\ "bundle" \notin torn

\* The bindings it accepts from a frozen manifest: its own, and the first
\* kind's from the copy in the bundle.
Accepts(b) == Readable /\ (b = source.kind \/ (b = "v1" /\ source.kind = "v2"))

\* Mutant of Validated: the marker of an earlier check is enough.
MarkerIsEnough(t) == tx[t].place = "validated" /\ (Thin(t) => Accepts(tx[t].binding))

\* validate_release of a retained transaction with its complete marker.
Validated(t) == tx[t].place = "validated" /\ Intact(t) /\ (Thin(t) => Accepts(tx[t].binding))

\* Mutant of TargetAbsent: a release of that name is replaced.
Replaceable(r) == r \in Releases

TargetAbsent(r) == release[r] = None

Goto(pc) == job' = [job EXCEPT !.pc = pc]
Done == job' = Idle
At(pc) == job.pc = pc

-----------------------------------------------------------------------------
(* Deployment.                                                             *)

\* deploy: a fresh staging directory receives the scripts.
Upload(t, r, b) ==
  /\ tx[t].place = "none"
  /\ tx' = [tx EXCEPT ![t] = [place |-> "uploaded", rel |-> r, binding |-> b]]
  /\ dirty' = dirty \cup {t}
  /\ UNCHANGED <<release, sealed, current, job, migration, damaged, torn, tasks, bounds>>

\* The copy begins under the lock, once in a directory; a thin one takes the
\* binding of the source.
Begin(t) ==
  /\ job = Idle /\ tx[t].place = "uploaded"
  /\ tx[t].binding = "thin" => Readable
  /\ tx' = [tx EXCEPT ![t].place = "begun",
                      ![t].binding = IF @ = "thin" THEN source.kind ELSE @]
  /\ job' = [pc |-> "copy", tx |-> t] /\ dirty' = dirty \cup {t}
  /\ UNCHANGED <<release, sealed, current, migration, damaged, torn, tasks, bounds>>

\* The copy ends, or fails on a changed binary, an outside link or a script.
Copy ==
  /\ At("copy")
  /\ \/ Goto("check") /\ tx' = [tx EXCEPT ![job.tx].place = "copied"]
     \/ Done /\ UNCHANGED tx
  /\ UNCHANGED <<release, sealed, current, migration, host, tasks, bounds>>

\* complete_validation: the marker is written after every check has passed.
Check ==
  /\ At("check")
  /\ \/ /\ Intact(job.tx) /\ (Thin(job.tx) => Accepts(tx[job.tx].binding))
        /\ tx' = [tx EXCEPT ![job.tx].place = "validated"] /\ Goto("install")
     \/ Done /\ UNCHANGED tx
  /\ UNCHANGED <<release, sealed, current, migration, host, tasks, bounds>>

\* RESUME: a retained transaction of this release, validated once more.
Resume(t) ==
  /\ job = Idle /\ Validated(t) /\ TargetAbsent(tx[t].rel)
  /\ job' = [pc |-> "install", tx |-> t]
  /\ UNCHANGED <<staging, migration, host, tasks, bounds>>

\* An existing release is never replaced; the files are made read-only and the
\* directory is renamed while it is itself still writable.
Move ==
  /\ At("install")
  /\ LET r == tx[job.tx].rel IN
     IF TargetAbsent(r)
     THEN /\ tx' = [tx EXCEPT ![job.tx].place = "moved"]
          /\ release' = [release EXCEPT ![r] = job.tx]
          /\ Goto("seal")
     ELSE Done /\ UNCHANGED <<tx, release>>
  /\ UNCHANGED <<sealed, current, migration, host, tasks, bounds>>

Seal ==
  /\ At("seal") /\ Goto("switch") /\ sealed' = sealed \cup {tx[job.tx].rel}
  /\ UNCHANGED <<tx, release, current, migration, host, tasks, bounds>>

\* The temporary link replaces root/current, and the record is written: no
\* program reads the record, and a temporary link left by a crash is not met
\* again because its release exists by then.
Switch ==
  /\ At("switch") /\ Done /\ current' = tx[job.tx].rel
  /\ UNCHANGED <<tx, release, sealed, migration, host, tasks, bounds>>

DeployStep == Copy \/ Check \/ Move \/ Seal \/ Switch

-----------------------------------------------------------------------------
(* The fixed source and its migration.                                     *)

\* ANCHOR_SOURCE: the entry is made once, of a sealed full release; whatever
\* exists is only compared.
Anchor(r) ==
  /\ job = Idle /\ Sound(r) /\ source.kind = "absent"
  /\ source' = [kind |-> "partial", rel |-> r]
  /\ job' = [pc |-> "anchor", tx |-> None]
  /\ UNCHANGED <<staging, bundle, candidate, paper, audit, host, tasks, bounds>>

SealAnchor ==
  /\ At("anchor") /\ Done /\ source' = [source EXCEPT !.kind = "v1"]
  /\ UNCHANGED <<staging, bundle, candidate, paper, audit, host, tasks, bounds>>

\* source_migration_plan: the anchored release, read in full.
Plannable == source.kind = "v1" /\ Readable

MakePlan ==
  /\ job = Idle /\ Plannable /\ paper = "none" /\ paper' = "plan"
  /\ UNCHANGED <<staging, job, source, bundle, candidate, audit, host, tasks, bounds>>

\* prepare: a bundle is made once.
BeginPrepare ==
  /\ job = Idle /\ paper # "none" /\ Plannable /\ bundle = "absent"
  /\ bundle' = "partial" /\ dirty' = dirty \cup {"bundle"}
  /\ job' = [pc |-> "bundle", tx |-> None]
  /\ UNCHANGED <<staging, source, candidate, paper, audit, damaged, torn, tasks, bounds>>

SealBundle ==
  /\ At("bundle") /\ Goto("candidate")
  /\ bundle' = "sealed" /\ candidate' = "partial"
  /\ UNCHANGED <<staging, source, paper, audit, host, tasks, bounds>>

\* The candidate is verified in its place; the operator may miss the answer.
SealCandidate ==
  /\ At("candidate") /\ Done
  /\ candidate' = "v2"
  /\ \/ paper' = "prepared" /\ UNCHANGED faults
     \/ faults < MaxFaults /\ faults' = faults + 1 /\ UNCHANGED paper
  /\ UNCHANGED <<staging, source, bundle, audit, host, tasks, damage>>

\* Mutant of Sync: the digests are taken for proof that the copy is on disk.
DigestsOnly == UNCHANGED dirty

\* switch: everything is verified again, and the bundle is on disk before the
\* intent is.
Sync == dirty' = dirty \ {"bundle"}

BeginSwitch ==
  /\ job = Idle /\ paper = "prepared" /\ audit = "none"
  /\ candidate = "v2" /\ Plannable /\ bundle = "sealed" /\ "bundle" \notin torn
  /\ Sync
  /\ audit' = "requested" /\ job' = [pc |-> "exchange", tx |-> None]
  /\ UNCHANGED <<staging, source, bundle, candidate, paper, damaged, torn, tasks, bounds>>

\* One system call exchanges the two directories.
Exchange ==
  /\ At("exchange") /\ Goto("verify")
  /\ source' = [source EXCEPT !.kind = "v2"] /\ candidate' = "legacy"
  /\ UNCHANGED <<staging, bundle, paper, audit, host, tasks, bounds>>

\* The old entry goes when the new one answers for its binding.
VerifySwitch ==
  /\ At("verify")
  /\ Accepts("v1") /\ Goto("close") /\ candidate' = "removed"
  /\ UNCHANGED <<staging, source, bundle, paper, audit, host, tasks, bounds>>

CloseSwitch ==
  /\ At("close") /\ Done /\ audit' = "complete"
  /\ UNCHANGED <<staging, source, bundle, candidate, paper, host, tasks, bounds>>

MigrationStep ==
  \/ SealAnchor \/ MakePlan \/ BeginPrepare \/ SealBundle \/ SealCandidate
  \/ BeginSwitch \/ Exchange \/ VerifySwitch \/ CloseSwitch

-----------------------------------------------------------------------------
(* The tasks.                                                              *)

\* Another of the installed releases is configured and the backend restarts.
Configure(r) ==
  /\ release[r] # None /\ configured # r /\ configured' = r
  /\ UNCHANGED <<staging, job, migration, host, pinned, launched, bounds>>

\* readiness, never from its cache here: the probe hashes the release anew.  It
\* may also fail for reasons outside this module, and nothing changes then.
Ready(r) == Installed(r)

\* require_ready with a request: its budget, or no task.
RequireReady(r, q) == Ready(r) /\ Admissible(q, Processes)

\* The release the task names, or else the configured one.
Effective(k) == IF pinned[k].rel # None THEN pinned[k].rel ELSE configured

\* The first part of the pin: release, fingerprint and budget.
Pin(k, q) ==
  /\ RequireReady(Effective(k), q)
  /\ pinned[k].request \in {None, q}
  /\ pinned[k].print \in {None, release[Effective(k)]}
  /\ pinned' = [pinned EXCEPT ![k].rel = Effective(k), ![k].print = release[Effective(k)],
                              ![k].request = q, ![k].ranks = Ranks(q, Processes)]
  /\ UNCHANGED <<staging, job, migration, host, configured, launched, bounds>>

\* The second: the configured release supervises, until the launch.
PinSupervisor(k) ==
  /\ pinned[k].rel # None /\ k \notin launched /\ Ready(configured)
  /\ pinned' = [pinned EXCEPT ![k].sup = configured, ![k].supPrint = release[configured]]
  /\ UNCHANGED <<staging, job, migration, host, configured, launched, bounds>>

Launch(k) ==
  /\ k \notin launched /\ pinned[k].sup # None /\ launched' = launched \cup {k}
  /\ UNCHANGED <<staging, job, migration, host, configured, pinned, bounds>>

-----------------------------------------------------------------------------
(* The host.                                                               *)

\* A staging directory nobody works on is writable.
Damage(t) ==
  /\ damage < MaxDamage /\ damage' = damage + 1
  /\ tx[t].place \in {"copied", "validated"} /\ job.tx # t /\ damaged' = damaged \cup {t}
  /\ UNCHANGED <<staging, job, migration, dirty, torn, tasks, faults>>

Kill ==
  /\ faults < MaxFaults /\ faults' = faults + 1
  /\ job # Idle /\ Done
  /\ UNCHANGED <<staging, migration, host, tasks, damage>>

PowerLoss ==
  /\ faults < MaxFaults /\ faults' = faults + 1
  /\ Done /\ dirty' = {}
  /\ \E lost \in SUBSET dirty : torn' = torn \cup lost
  /\ UNCHANGED <<staging, migration, damaged, tasks, damage>>

Next ==
  \/ \E t \in Transactions :
       \/ \E r \in Releases, b \in {"full", "thin"} : Upload(t, r, b)
       \/ Begin(t) \/ Resume(t) \/ Damage(t)
  \/ DeployStep \/ \E r \in Releases : Anchor(r) \/ Configure(r)
  \/ MigrationStep
  \/ \E k \in Tasks : (\E q \in Requests : Pin(k, q)) \/ PinSupervisor(k) \/ Launch(k)
  \/ Kill \/ PowerLoss

Spec == Init /\ [][Next]_vars

-----------------------------------------------------------------------------
(* Properties.                                                             *)

\* The link root/current names a sealed release that was validated as a whole:
\* whatever was killed, retried or resumed, and whoever touched the staging
\* directories.  Only a loss of power soon after may take contents from it.
CurrentIsComplete ==
  current # None =>
    /\ current \in sealed /\ release[current] # None
    /\ tx[release[current]].place = "moved" /\ release[current] \notin damaged

\* The release a task was prepared with, and the one that supervises it, stay
\* what they were: a later deployment, resume or configuration does not put
\* another content under their names.
PinnedIsServed ==
  \A k \in Tasks :
    /\ pinned[k].rel # None => release[pinned[k].rel] = pinned[k].print
    /\ pinned[k].sup # None => release[pinned[k].sup] = pinned[k].supPrint
    /\ pinned[k].rel # None => pinned[k].print \notin damaged

\* A thin transaction that was validated can be resumed for ever: the source
\* keeps answering for the binding frozen in its manifest, before, during and
\* after the migration, over a program killed or a loss of power at any step.
\* While the anchor names a release, only the loss of that release excuses it.
ThinStaysBound ==
  \A t \in Transactions :
    tx[t].place \in {"validated", "moved"} /\ Thin(t) =>
      Accepts(tx[t].binding) \/ (source.kind = "v1" /\ release[source.rel] \in torn)

\* The runner, which decides anew from the number in its environment, starts
\* as many processes as the task's budget reserved CPUs for, and its split
\* leaves every domain ten points.
AdmittedRunFits ==
  \A k \in Tasks : pinned[k].rel # None =>
    /\ RunnerRanks(pinned[k].request, pinned[k].ranks) = pinned[k].ranks
    /\ pinned[k].ranks <= Processes /\ Fits(pinned[k].request, pinned[k].ranks)
=============================================================================
