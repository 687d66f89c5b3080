---------------------------- MODULE ReleaseProofs ----------------------------
(***************************************************************************)
(* Safety of the runtime releases for every set of releases, transactions, *)
(* tasks and requests and every number of kills, losses of power and       *)
(* damaged staging directories.                                            *)
(*                                                                         *)
(* Staged says what a program that holds the deployment lock knows of its  *)
(* transaction, and what a release directory is; Pins builds on it for the *)
(* tasks, Bound for the bindings of thin releases and the source behind    *)
(* them.                                                                   *)
(***************************************************************************)
EXTENDS RuntimeRelease, WellFoundedInduction, TLAPS

\* A transaction names a release from its upload on.
PlacedHasRelease == \A t \in Transactions :
  IF tx[t].place = "none" THEN tx[t].binding = "none" ELSE tx[t].rel \in Releases

\* What the holder of the lock has done with its transaction.
HolderHasTransaction ==
  /\ job.pc \in {"copy", "check", "install", "seal", "switch"} => job.tx \in Transactions
  /\ job.pc = "copy" => tx[job.tx].place = "begun"
  /\ job.pc = "check" => tx[job.tx].place = "copied"
  /\ job.pc = "install" => tx[job.tx].place = "validated" /\ job.tx \notin damaged
  /\ job.pc \in {"seal", "switch"} =>
       tx[job.tx].place = "moved" /\ release[tx[job.tx].rel] = job.tx
  /\ job.pc = "switch" => tx[job.tx].rel \in sealed

\* A release directory was a validated transaction of that release.
ReleaseWasMoved == \A r \in Releases : release[r] # None =>
  /\ tx[release[r]].place = "moved" /\ tx[release[r]].rel = r
  /\ release[r] \notin damaged

CurrentIsSealed == current # None => current \in sealed /\ release[current] # None

Staged ==
  /\ TypeOK /\ PlacedHasRelease /\ HolderHasTransaction
  /\ ReleaseWasMoved /\ CurrentIsSealed

\* Release names in use by the backend are those of installed releases.
Pins ==
  /\ configured # None => release[configured] # None
  /\ \A k \in Tasks :
       /\ pinned[k].rel # None =>
            pinned[k].print # None /\ release[pinned[k].rel] = pinned[k].print
       /\ pinned[k].sup # None =>
            pinned[k].supPrint # None /\ release[pinned[k].sup] = pinned[k].supPrint

\* The anchor was made of a sealed full release.
SourceIsFull == source.kind # "absent" =>
  /\ source.rel \in sealed /\ release[source.rel] # None
  /\ tx[release[source.rel]].binding \notin {"v1", "v2"}

\* The entry is being made, or about to be exchanged.
SourceMatchesStep ==
  /\ job.pc = "anchor" => source.kind = "partial"
  /\ job.pc = "exchange" => source.kind = "v1"

\* A binding was read from the source, which has moved on to the second kind or
\* not at all.
BindingHasSource == \A t \in Transactions :
  /\ tx[t].binding = "v1" => source.kind \in {"v1", "v2"}
  /\ tx[t].binding = "v2" => source.kind = "v2"

\* From the switch's intent on the bundle is whole and on disk.
BundleIsKept == job.pc = "exchange" \/ source.kind = "v2" =>
  bundle = "sealed" /\ "bundle" \notin dirty \cup torn

Bound == SourceIsFull /\ SourceMatchesStep /\ BindingHasSource /\ BundleIsKept

-----------------------------------------------------------------------------
\* The processes of a task are a number.
LEMMA RanksIsNat == ASSUME NEW q PROVE Ranks(q, Processes) \in Nat
  BY ReleaseAssumption DEF Ranks

\* What the copy makes of a transaction, and the pin of a task.
LEMMA Rebound ==
  ASSUME NEW R, NEW T, NEW t \in T,
         NEW f \in [T -> [place: Places, rel: R, binding: {"none", "full", "thin", "v1", "v2"}]],
         NEW b \in {"none", "full", "thin", "v1", "v2"},
         NEW g, g = [f EXCEPT ![t].place = "begun", ![t].binding = b]
  PROVE  g \in [T -> [place: Places, rel: R, binding: {"none", "full", "thin", "v1", "v2"}]]
<1> DEFINE e == [f[t] EXCEPT !.place = "begun", !.binding = b]
<1>1. f[t] \in [place: Places, rel: R, binding: {"none", "full", "thin", "v1", "v2"}]
  OBVIOUS
<1>2. e \in [place: Places, rel: R, binding: {"none", "full", "thin", "v1", "v2"}]
  BY <1>1 DEF Places
<1>3. g = [f EXCEPT ![t] = e]
  OBVIOUS
<1> HIDE DEF e
<1> QED
  BY <1>2, <1>3

LEMMA Repinned ==
  ASSUME NEW R, NEW P, NEW Q, NEW K, NEW k \in K,
         NEW f \in [K -> [rel: R, print: P, sup: R, supPrint: P, request: Q, ranks: Nat]],
         NEW r \in R, NEW p \in P, NEW q \in Q, NEW i \in Nat,
         NEW g, g = [f EXCEPT ![k].rel = r, ![k].print = p, ![k].request = q, ![k].ranks = i]
  PROVE  g \in [K -> [rel: R, print: P, sup: R, supPrint: P, request: Q, ranks: Nat]]
<1> DEFINE e == [f[k] EXCEPT !.rel = r, !.print = p, !.request = q, !.ranks = i]
<1>1. f[k] \in [rel: R, print: P, sup: R, supPrint: P, request: Q, ranks: Nat]
  OBVIOUS
<1>2. e \in [rel: R, print: P, sup: R, supPrint: P, request: Q, ranks: Nat]
  BY <1>1
<1>3. g = [f EXCEPT ![k] = e]
  OBVIOUS
<1> HIDE DEF e
<1> QED
  BY <1>2, <1>3

LEMMA Resupervised ==
  ASSUME NEW R, NEW P, NEW Q, NEW K, NEW k \in K,
         NEW f \in [K -> [rel: R, print: P, sup: R, supPrint: P, request: Q, ranks: Nat]],
         NEW r \in R, NEW p \in P,
         NEW g, g = [f EXCEPT ![k].sup = r, ![k].supPrint = p]
  PROVE  g \in [K -> [rel: R, print: P, sup: R, supPrint: P, request: Q, ranks: Nat]]
<1> DEFINE e == [f[k] EXCEPT !.sup = r, !.supPrint = p]
<1>1. f[k] \in [rel: R, print: P, sup: R, supPrint: P, request: Q, ranks: Nat]
  OBVIOUS
<1>2. e \in [rel: R, print: P, sup: R, supPrint: P, request: Q, ranks: Nat]
  BY <1>1
<1>3. g = [f EXCEPT ![k] = e]
  OBVIOUS
<1> HIDE DEF e
<1> QED
  BY <1>2, <1>3

\* The initial state.
LEMMA InitStaged == Init => Staged
  BY ReleaseAssumption DEF Init, Staged, TypeOK, Places, Idle, NoPin, PlacedHasRelease,
     HolderHasTransaction, ReleaseWasMoved, CurrentIsSealed

\* Staged is kept by every step.
LEMMA StagedStep == ASSUME Staged, [Next]_vars PROVE Staged'
<1>0. None \notin Releases /\ None \notin Transactions /\ "bundle" \notin Transactions
      /\ MaxFaults \in Nat /\ MaxDamage \in Nat
  BY ReleaseAssumption
<1> USE <1>0 DEF Staged, TypeOK, Places, PlacedHasRelease, HolderHasTransaction,
                 ReleaseWasMoved, CurrentIsSealed, Idle, Goto, Done, At
<1> USE DEF staging, migration, tasks, host, bounds
<1>1. CASE UNCHANGED vars
  BY <1>1 DEF vars
<1>2. ASSUME NEW t \in Transactions, NEW r \in Releases, NEW b \in {"full", "thin"}, Upload(t, r, b)
      PROVE Staged'
  BY <1>2 DEF Upload
<1>3. ASSUME NEW t \in Transactions, Begin(t) PROVE Staged'
  <2> DEFINE b == IF tx[t].binding = "thin" THEN source.kind ELSE tx[t].binding
  <2>1. b \in {"none", "full", "thin", "v1", "v2"}
    BY <1>3 DEF Begin, Readable
  <2>2. tx' = [tx EXCEPT ![t].place = "begun", ![t].binding = b] /\ tx[t].place = "uploaded"
    BY <1>3 DEF Begin
  <2> HIDE DEF b
  <2>3. tx' \in [Transactions -> [place: Places, rel: Releases \cup {None},
                                binding: {"none", "full", "thin", "v1", "v2"}]]
    BY <2>1, <2>2, Rebound DEF Places
  <2>4. \A u \in Transactions : tx'[u].rel = tx[u].rel /\ (u # t => tx'[u] = tx[u])
    BY <2>2
  <2>5. tx'[t].place = "begun"
    BY <2>2
  <2>6. job' = [pc |-> "copy", tx |-> t] /\ dirty' = dirty \cup {t}
        /\ UNCHANGED <<release, sealed, current, migration, damaged, torn, tasks, bounds>>
    BY <1>3 DEF Begin
  <2>7. TypeOK'
    BY <2>3, <2>6
  <2>8. PlacedHasRelease' /\ CurrentIsSealed'
    BY <2>2, <2>4, <2>5, <2>6
  <2>9. HolderHasTransaction' /\ ReleaseWasMoved'
    BY <2>2, <2>4, <2>5, <2>6
  <2> QED
    BY <2>7, <2>8, <2>9
<1>4. ASSUME NEW t \in Transactions, Resume(t) PROVE Staged'
  BY <1>4 DEF Resume, Validated, Intact
<1>5. ASSUME NEW t \in Transactions, Damage(t) PROVE Staged'
  BY <1>5 DEF Damage
<1>6. CASE Copy
  <2>1. CASE UNCHANGED tx
    BY <1>6, <2>1 DEF Copy
  <2>2. CASE job' = [job EXCEPT !.pc = "check"] /\ tx' = [tx EXCEPT ![job.tx].place = "copied"]
    <3>1. job.tx \in Transactions /\ tx[job.tx].place = "begun"
          /\ UNCHANGED <<release, sealed, current, migration, host, tasks, bounds>>
      BY <1>6 DEF Copy
    <3>2. tx' \in [Transactions -> [place: Places, rel: Releases \cup {None},
                                  binding: {"none", "full", "thin", "v1", "v2"}]]
      BY <2>2, <3>1
    <3>3. \A u \in Transactions : tx'[u].rel = tx[u].rel /\ (u # job.tx => tx'[u] = tx[u])
      BY <2>2, <3>1
    <3>4. tx'[job.tx].place = "copied"
      BY <2>2, <3>1
    <3>5. job' \in [pc: {"check"}, tx: Transactions] /\ job'.tx = job.tx /\ job'.pc = "check"
      BY <2>2, <3>1
    <3>6. TypeOK'
      BY <3>1, <3>2, <3>5
    <3>7. PlacedHasRelease' /\ CurrentIsSealed'
      BY <3>1, <3>3, <3>4
    <3>8. HolderHasTransaction' /\ ReleaseWasMoved'
      BY <3>1, <3>3, <3>4, <3>5
    <3> QED
      BY <3>6, <3>7, <3>8
  <2> QED
    BY <1>6, <2>1, <2>2 DEF Copy
<1>7. CASE Check
  <2>1. /\ job.tx \in Transactions /\ tx[job.tx].place = "copied"
        /\ UNCHANGED <<release, sealed, current, migration, host, tasks, bounds>>
    BY <1>7 DEF Check
  <2>2. CASE job' = Idle /\ UNCHANGED tx
    BY <2>1, <2>2
  <2>3. CASE /\ job.tx \notin damaged /\ tx' = [tx EXCEPT ![job.tx].place = "validated"]
             /\ job' = [job EXCEPT !.pc = "install"]
    <3>1. tx' \in [Transactions -> [place: Places, rel: Releases \cup {None},
                                  binding: {"none", "full", "thin", "v1", "v2"}]]
      BY <2>1, <2>3
    <3>2. \A u \in Transactions : tx'[u].rel = tx[u].rel /\ tx'[u].binding = tx[u].binding
                                   /\ (u # job.tx => tx'[u] = tx[u])
      BY <2>1, <2>3
    <3>3. tx'[job.tx].place = "validated"
      BY <2>1, <2>3
    <3>4. job' \in [pc: {"install"}, tx: Transactions] /\ job'.tx = job.tx /\ job'.pc = "install"
      BY <2>1, <2>3
    <3>5. TypeOK'
      BY <2>1, <3>1, <3>4
    <3>6. PlacedHasRelease' /\ CurrentIsSealed'
      BY <2>1, <3>2, <3>3
    <3>7. HolderHasTransaction' /\ ReleaseWasMoved'
      BY <2>1, <2>3, <3>2, <3>3, <3>4
    <3> QED
      BY <3>5, <3>6, <3>7
  <2> QED
    BY <1>7, <2>2, <2>3 DEF Check, Intact
<1>8. CASE Move
  <2>1. CASE UNCHANGED <<tx, release>>
    BY <1>8, <2>1 DEF Move
  <2>2. CASE /\ release[tx[job.tx].rel] = None
             /\ tx' = [tx EXCEPT ![job.tx].place = "moved"]
             /\ release' = [release EXCEPT ![tx[job.tx].rel] = job.tx]
             /\ job' = [job EXCEPT !.pc = "seal"]
    <3>1. job.tx \in Transactions /\ tx[job.tx].place = "validated" /\ job.tx \notin damaged
          /\ UNCHANGED <<sealed, current, migration, host, tasks, bounds>>
      BY <1>8 DEF Move
    <3>2. tx[job.tx].rel \in Releases
      BY <3>1
    <3>3. tx' \in [Transactions -> [place: Places, rel: Releases \cup {None},
                                  binding: {"none", "full", "thin", "v1", "v2"}]]
      BY <2>2, <3>1
    <3>4. \A u \in Transactions : tx'[u].rel = tx[u].rel /\ (u # job.tx => tx'[u] = tx[u])
      BY <2>2, <3>1
    <3>5. tx'[job.tx].place = "moved"
      BY <2>2, <3>1
    <3>6. job' \in [pc: {"seal"}, tx: Transactions] /\ job'.tx = job.tx /\ job'.pc = "seal"
      BY <2>2, <3>1
    <3>7. release' \in [Releases -> Transactions \cup {None}]
          /\ release'[tx[job.tx].rel] = job.tx
          /\ \A r \in Releases : r # tx[job.tx].rel => release'[r] = release[r]
      BY <2>2, <3>1, <3>2
    <3>8. TypeOK'
      BY <3>1, <3>3, <3>6, <3>7
    <3>9. PlacedHasRelease' /\ CurrentIsSealed'
      BY <2>2, <3>1, <3>2, <3>4, <3>5, <3>7
    <3>10. HolderHasTransaction'
      BY <3>1, <3>2, <3>4, <3>5, <3>6, <3>7
    <3>11. ReleaseWasMoved'
      BY <3>1, <3>2, <3>4, <3>5, <3>7
    <3> QED
      BY <3>8, <3>9, <3>10, <3>11
  <2> QED
    BY <1>8, <2>1, <2>2 DEF Move, TargetAbsent
<1>9. CASE Seal
  BY <1>9 DEF Seal
<1>10. CASE Switch
  BY <1>10 DEF Switch
<1>11. ASSUME NEW r \in Releases, Anchor(r) \/ Configure(r) PROVE Staged'
  BY <1>11 DEF Anchor, Configure
<1>12. CASE MigrationStep
  BY <1>12 DEF MigrationStep, SealAnchor, MakePlan, BeginPrepare, SealBundle, SealCandidate,
     BeginSwitch, Sync, Exchange, VerifySwitch, CloseSwitch
<1>13. ASSUME NEW k \in Tasks, NEW q \in Requests, Pin(k, q) PROVE Staged'
  <2> DEFINE rel == Effective(k)
             n == Ranks(q, Processes)
  <2>1. rel \in Releases /\ release[rel] \in Transactions
    BY <1>13 DEF Pin, Effective, RequireReady, Ready, Installed
  <2>2. n \in Nat
    BY RanksIsNat
  <2>3. pinned' = [pinned EXCEPT ![k].rel = rel, ![k].print = release[rel],
                                 ![k].request = q, ![k].ranks = n]
        /\ UNCHANGED <<staging, job, migration, host, configured, launched, bounds>>
    BY <1>13 DEF Pin
  <2> HIDE DEF rel, n
  <2>4. pinned' \in [Tasks -> [rel: Releases \cup {None}, print: Transactions \cup {None},
                             sup: Releases \cup {None}, supPrint: Transactions \cup {None},
                             request: Requests \cup {None}, ranks: Nat]]
    BY <2>1, <2>2, <2>3, Repinned
  <2> QED
    BY <2>3, <2>4
<1>14. ASSUME NEW k \in Tasks, PinSupervisor(k) \/ Launch(k) PROVE Staged'
  <2>1. CASE Launch(k)
    BY <2>1 DEF Launch
  <2>2. CASE PinSupervisor(k)
    <3>1. configured \in Releases /\ release[configured] \in Transactions
          /\ pinned' = [pinned EXCEPT ![k].sup = configured, ![k].supPrint = release[configured]]
          /\ UNCHANGED <<staging, job, migration, host, configured, launched, bounds>>
      BY <2>2 DEF PinSupervisor, Ready, Installed
    <3>2. pinned' \in [Tasks -> [rel: Releases \cup {None}, print: Transactions \cup {None},
                               sup: Releases \cup {None}, supPrint: Transactions \cup {None},
                               request: Requests \cup {None}, ranks: Nat]]
      BY <3>1, Resupervised
    <3> QED
      BY <3>1, <3>2
  <2> QED
    BY <1>14, <2>1, <2>2
<1>15. CASE Kill \/ PowerLoss
  BY <1>15 DEF Kill, PowerLoss
<1> HIDE DEF Staged, TypeOK, PlacedHasRelease, HolderHasTransaction, ReleaseWasMoved, CurrentIsSealed
<1>16. QED
  BY <1>1, <1>2, <1>3, <1>4, <1>5, <1>6, <1>7, <1>8, <1>9, <1>10, <1>11, <1>12, <1>13, <1>14,
     <1>15 DEF Next, DeployStep

\* The content of a release directory never changes.
LEMMA ReleaseIsKept == ASSUME Staged, [Next]_vars, NEW r \in Releases, release[r] # None
                       PROVE release'[r] = release[r]
<1> USE DEF staging, migration, tasks, host, bounds, vars
<1>1. CASE Move
  BY <1>1 DEF Move, TargetAbsent, Staged, TypeOK
<1>2. CASE UNCHANGED release
  BY <1>2
<1>3. QED
  BY <1>1, <1>2 DEF Next, Upload, Begin, Resume, Damage, DeployStep, Copy, Check, Seal, Switch,
     Anchor, Configure, MigrationStep, SealAnchor, MakePlan, BeginPrepare, SealBundle,
     SealCandidate, BeginSwitch, Exchange, VerifySwitch, CloseSwitch, Pin, PinSupervisor,
     Launch, Kill, PowerLoss

\* Pins is kept by every step.
LEMMA PinsStep == ASSUME Staged, Pins, [Next]_vars PROVE Pins'
<1>0. None \notin Releases /\ None \notin Transactions
  BY ReleaseAssumption
<1> USE <1>0 DEF Staged, TypeOK, Pins
<1>1. Staged'
  BY StagedStep
<1>2. \A r \in Releases : release[r] # None => release'[r] = release[r]
  BY ReleaseIsKept
<1>3. CASE UNCHANGED <<configured, pinned>>
  BY <1>1, <1>2, <1>3
<1>4. ASSUME NEW r \in Releases, Configure(r) PROVE Pins'
  BY <1>4 DEF Configure, staging
<1>5. ASSUME NEW k \in Tasks, NEW q \in Requests, Pin(k, q) PROVE Pins'
  <2> DEFINE rel == Effective(k)
  <2>1. rel \in Releases /\ release[rel] \in Transactions
    BY <1>5 DEF Pin, Effective, RequireReady, Ready, Installed
  <2>2. UNCHANGED <<release, configured>>
        /\ pinned' = [pinned EXCEPT ![k].rel = rel, ![k].print = release[rel],
                                    ![k].request = q, ![k].ranks = Ranks(q, Processes)]
    BY <1>5 DEF Pin, staging
  <2> HIDE DEF rel
  <2>3. /\ pinned'[k].rel = rel /\ pinned'[k].print = release[rel]
        /\ pinned'[k].sup = pinned[k].sup /\ pinned'[k].supPrint = pinned[k].supPrint
        /\ \A j \in Tasks : j # k => pinned'[j] = pinned[j]
    BY <2>2
  <2> QED
    BY <2>1, <2>2, <2>3
<1>6. ASSUME NEW k \in Tasks, PinSupervisor(k) PROVE Pins'
  BY <1>6 DEF PinSupervisor, Ready, Installed, staging
<1>7. QED
  BY <1>3, <1>4, <1>5, <1>6 DEF Next, Upload, Begin, Resume, Damage, DeployStep, Copy, Check, Seal,
     Switch, Move, Anchor, MigrationStep, SealAnchor, MakePlan, BeginPrepare, SealBundle,
     SealCandidate, BeginSwitch, Exchange, VerifySwitch, CloseSwitch, Launch, Kill, PowerLoss,
     tasks, vars

\* Bound is kept by every step.
LEMMA BoundStep == ASSUME Staged, Bound, [Next]_vars PROVE Bound'
<1>0. None \notin Releases /\ None \notin Transactions /\ "bundle" \notin Transactions
  BY ReleaseAssumption
<1>1. Staged'
  BY StagedStep
<1>2. \A r \in Releases : release[r] # None => release'[r] = release[r]
  BY ReleaseIsKept
<1> USE <1>0 DEF Staged, TypeOK, HolderHasTransaction, ReleaseWasMoved, Bound, SourceIsFull,
                 SourceMatchesStep, BindingHasSource, BundleIsKept, Idle, Goto, Done, At
<1> USE DEF staging, migration, tasks, host, bounds
<1>3. CASE UNCHANGED vars
  BY <1>3 DEF vars
<1>4. ASSUME NEW t \in Transactions, NEW r \in Releases, NEW b \in {"full", "thin"}, Upload(t, r, b)
      PROVE Bound'
  BY <1>4 DEF Upload
<1>5. ASSUME NEW t \in Transactions, Begin(t) PROVE Bound'
  BY <1>5 DEF Begin, Readable
<1>6. ASSUME NEW t \in Transactions, Resume(t) \/ Damage(t) PROVE Bound'
  BY <1>6 DEF Resume, Damage
<1>7. CASE Copy \/ Check
  BY <1>7 DEF Copy, Check
<1>8. CASE Move
  BY <1>2, <1>8 DEF Move
<1>9. CASE Seal \/ Switch
  BY <1>9 DEF Seal, Switch
<1>10. ASSUME NEW r \in Releases, Anchor(r) \/ Configure(r) PROVE Bound'
  BY <1>10 DEF Anchor, Sound, Installed, Thin, Configure
<1>11. CASE SealAnchor \/ MakePlan
  BY <1>11 DEF SealAnchor, MakePlan
<1>12. CASE BeginPrepare
  BY <1>12 DEF BeginPrepare, Plannable
<1>13. CASE SealBundle \/ SealCandidate
  BY <1>13 DEF SealBundle, SealCandidate
<1>14. CASE BeginSwitch
  <2>1. /\ bundle = "sealed" /\ "bundle" \notin torn /\ job'.pc = "exchange"
        /\ source.kind = "v1" /\ dirty' = dirty \ {"bundle"}
        /\ UNCHANGED <<tx, release, sealed, source, bundle, torn>>
    BY <1>14 DEF BeginSwitch, Sync, Plannable
  <2>2. BundleIsKept' /\ SourceMatchesStep'
    BY <2>1
  <2>3. SourceIsFull' /\ BindingHasSource'
    BY <2>1
  <2> QED
    BY <2>2, <2>3
<1>15. CASE VerifySwitch \/ CloseSwitch
  BY <1>15 DEF VerifySwitch, CloseSwitch
<1>16. CASE Exchange
  <2>1. /\ job.pc = "exchange" /\ job'.pc = "verify"
        /\ source'.kind = "v2" /\ source'.rel = source.rel /\ source.kind # "absent"
        /\ UNCHANGED <<tx, release, sealed, bundle, dirty, torn>>
    BY <1>16 DEF Exchange
  <2>2. BundleIsKept' /\ SourceMatchesStep'
    BY <2>1
  <2>3. SourceIsFull' /\ BindingHasSource'
    BY <2>1
  <2> QED
    BY <2>2, <2>3
<1>17. ASSUME NEW k \in Tasks, NEW q \in Requests, Pin(k, q) PROVE Bound'
  BY <1>17 DEF Pin
<1>18. ASSUME NEW k \in Tasks, PinSupervisor(k) \/ Launch(k) PROVE Bound'
  BY <1>18 DEF PinSupervisor, Launch
<1>19. CASE Kill \/ PowerLoss
  BY <1>19 DEF Kill, PowerLoss
<1>20. QED
  BY <1>3, <1>4, <1>5, <1>6, <1>7, <1>8, <1>9, <1>10, <1>11, <1>12, <1>13, <1>14, <1>15, <1>16,
     <1>17, <1>18, <1>19 DEF Next, DeployStep, MigrationStep

-----------------------------------------------------------------------------
(* The budget of MPI processes, decided twice.                             *)

LEMMA LeastExists ==
  ASSUME NEW S \in SUBSET Nat, S # {}
  PROVE  \E x \in S : \A y \in S : x <= y
<1>1. PICK x \in S : \A y \in S : ~ (<<y, x>> \in OpToRel(<, Nat))
  BY NatLessThanWellFounded, WFMin
<1>2. ASSUME NEW y \in S PROVE x <= y
  <2>1. SUFFICES ASSUME y < x PROVE FALSE
    OBVIOUS
  <2>2. <<y, x>> \in Nat \X Nat /\ <<y, x>>[1] < <<y, x>>[2]
    BY <2>1
  <2>3. <<y, x>> \in {ss \in Nat \X Nat : ss[1] < ss[2]}
    BY <2>2
  <2>4. <<y, x>> \in OpToRel(<, Nat)
    BY <2>3, Zenon DEF OpToRel
  <2> QED
    BY <1>1, <2>4
<1> QED
  BY <1>2

LEMMA MinIsLeast ==
  ASSUME NEW S \in SUBSET Nat, S # {}
  PROVE  Min(S) \in S /\ \A y \in S : Min(S) <= y
BY LeastExists DEF Min

\* The square that holds n processes exists.
LEMMA SideIsNat ==
  ASSUME NEW n \in Nat \ {0}
  PROVE  Side(n) \in Nat
<1> DEFINE S == {k \in Nat : k * k >= n}
<1>1. n * n >= n
  OBVIOUS
<1>2. PICK k \in S : \A y \in S : k <= y
  BY <1>1, LeastExists
<1>3. k \in 0 .. n
  BY <1>1, <1>2
<1>4. (k - 1) * (k - 1) < n
  <2>1. CASE k = 0
    BY <1>2, <2>1
  <2>2. CASE k # 0
    <3>1. k - 1 \in Nat /\ k - 1 \notin S
      BY <1>2, <2>2
    <3> QED
      BY <3>1
  <2> QED
    BY <2>1, <2>2
<1>5. \E j \in 0 .. n : j * j >= n /\ (j - 1) * (j - 1) < n
  BY <1>2, <1>3, <1>4
<1>6. Side(n) \in 0 .. n
  BY <1>5 DEF Side
<1> QED
  BY <1>6

\* The runner starts as many processes as the backend admitted.
LEMMA RunnerAgrees ==
  ASSUME NEW q \in Requests
  PROVE  /\ RunnerRanks(q, Ranks(q, Processes)) = Ranks(q, Processes)
         /\ Ranks(q, Processes) <= Processes
<1>1. Processes \in Nat \ {0} /\ q.domains # {} /\ q.domains \subseteq Nat \X Nat
  BY ReleaseAssumption
<1>2. CASE ~LargeEnough(q.domains, Processes)
  BY <1>1, <1>2 DEF Ranks, RunnerRanks
<1>3. CASE LargeEnough(q.domains, Processes)
  <2> DEFINE WE == {d[1] : d \in q.domains}
             SN == {d[2] : d \in q.domains}
  <2>1. /\ WE \in SUBSET Nat /\ WE # {}
        /\ SN \in SUBSET Nat /\ SN # {}
    BY <1>1
  <2>2. Min(WE) \in WE /\ Min(SN) \in SN
    BY <2>1, MinIsLeast
  <2>3. Side(Processes) \in Nat
    BY <1>1, SideIsNat
  <2>4. Min(WE) >= 10 * Side(Processes) /\ Min(SN) >= 10 * Side(Processes)
    BY <1>3, <2>2 DEF LargeEnough
  <2>5. /\ Min(WE) \in Nat /\ Min(SN) \in Nat
        /\ ~(Min(WE) < 10 * Side(Processes)) /\ ~(Min(SN) < 10 * Side(Processes))
    BY <2>1, <2>2, <2>3, <2>4
  <2> QED
    BY <1>1, <1>3, <2>5 DEF Ranks, RunnerRanks
<1> QED
  BY <1>2, <1>3

\* The ranks of a pinned task are those its request was admitted with.
Budgeted == \A k \in Tasks : pinned[k].rel # None =>
  /\ pinned[k].request \in Requests /\ pinned[k].ranks = Ranks(pinned[k].request, Processes)
  /\ Admissible(pinned[k].request, Processes)

LEMMA BudgetedStep == ASSUME TypeOK, Budgeted, [Next]_vars PROVE Budgeted'
<1> USE DEF Budgeted
<1>1. CASE UNCHANGED pinned
  BY <1>1
<1>2. ASSUME NEW k \in Tasks, NEW q \in Requests, Pin(k, q) PROVE Budgeted'
  <2>1. /\ pinned' = [pinned EXCEPT ![k].rel = Effective(k), ![k].print = release[Effective(k)],
                                    ![k].request = q, ![k].ranks = Ranks(q, Processes)]
        /\ Admissible(q, Processes)
    BY <1>2 DEF Pin, RequireReady
  <2>2. /\ pinned'[k].request = q /\ pinned'[k].ranks = Ranks(q, Processes)
        /\ \A j \in Tasks : j # k => pinned'[j] = pinned[j]
    BY <2>1 DEF TypeOK
  <2> QED
    BY <2>1, <2>2
<1>3. ASSUME NEW k \in Tasks, PinSupervisor(k) PROVE Budgeted'
  <2>1. pinned' = [pinned EXCEPT ![k].sup = configured, ![k].supPrint = release[configured]]
    BY <1>3 DEF PinSupervisor
  <2>2. \A j \in Tasks : /\ pinned'[j].rel = pinned[j].rel /\ pinned'[j].request = pinned[j].request
                         /\ pinned'[j].ranks = pinned[j].ranks
    BY <2>1 DEF TypeOK
  <2> QED
    BY <2>2
<1>4. QED
  BY <1>1, <1>2, <1>3 DEF Next, Upload, Begin, Resume, Damage, DeployStep, Copy, Check, Seal,
     Switch, Move, Anchor, Configure, MigrationStep, SealAnchor, MakePlan, BeginPrepare, SealBundle,
     SealCandidate, BeginSwitch, Exchange, VerifySwitch, CloseSwitch, Launch, Kill, PowerLoss,
     tasks, vars

-----------------------------------------------------------------------------
\* The three invariants together.
ReleaseInv == Staged /\ Pins /\ Bound

\* They hold of every reachable state.
THEOREM ReleaseInvHolds == Spec => []ReleaseInv
<1>1. Init => ReleaseInv
  <2> SUFFICES ASSUME Init PROVE ReleaseInv
    OBVIOUS
  <2>1. Staged
    BY InitStaged
  <2>2. Pins
    BY DEF Init, Pins, NoPin
  <2>3. Bound
    BY DEF Init, Idle, Bound, SourceIsFull, SourceMatchesStep, BindingHasSource, BundleIsKept
  <2> QED
    BY <2>1, <2>2, <2>3 DEF ReleaseInv
<1>2. ReleaseInv /\ [Next]_vars => ReleaseInv'
  BY StagedStep, PinsStep, BoundStep DEF ReleaseInv
<1> QED
  BY <1>1, <1>2, PTL DEF Spec

\* Type correctness of the releases for any constants.
THEOREM ReleaseTypeCorrect == Spec => []TypeOK
<1>1. ReleaseInv => TypeOK
  BY DEF ReleaseInv, Staged
<1> QED
  BY <1>1, ReleaseInvHolds, PTL

\* The link current names a sealed, complete release after any sequence of
\* deployments, kills and resumptions (deploy_runtime_release.py).
THEOREM CurrentIsCompleteHolds == Spec => []CurrentIsComplete
<1>1. ReleaseInv => CurrentIsComplete
  BY DEF ReleaseInv, Staged, TypeOK, CurrentIsSealed, ReleaseWasMoved, CurrentIsComplete
<1> QED
  BY <1>1, ReleaseInvHolds, PTL

\* A task's release and its supervisor's stay what they were when they were
\* pinned (task_manager.py _pin_runtime_release).
THEOREM PinnedIsServedHolds == Spec => []PinnedIsServed
<1>1. ReleaseInv => PinnedIsServed
  BY DEF ReleaseInv, Staged, TypeOK, ReleaseWasMoved, Pins, PinnedIsServed
<1> QED
  BY <1>1, ReleaseInvHolds, PTL

\* A validated thin transaction keeps its source over the migration and a loss
\* of power at any step (migrate_source_anchor.py).
THEOREM ThinStaysBoundHolds == Spec => []ThinStaysBound
<1>1. ReleaseInv => ThinStaysBound
  <2> SUFFICES ASSUME ReleaseInv, NEW t \in Transactions, Thin(t)
               PROVE Accepts(tx[t].binding)
                     \/ (source.kind = "v1" /\ release[source.rel] \in torn)
    BY DEF ThinStaysBound
  <2> USE ReleaseAssumption
      DEF ReleaseInv, Staged, TypeOK, Bound, SourceIsFull, BindingHasSource, BundleIsKept
  <2>1. CASE source.kind = "v2"
    BY <2>1 DEF Thin, Accepts, Readable
  <2>2. CASE source.kind = "v1"
    <3>1. source.rel \in Releases /\ source.rel \in sealed /\ release[source.rel] # None
      BY <2>2
    <3>2. tx[release[source.rel]].binding \notin {"v1", "v2"} /\ release[source.rel] \notin damaged
      BY <2>2, <3>1 DEF ReleaseWasMoved
    <3>3. tx[t].binding = "v1"
      BY <2>2 DEF Thin
    <3> QED
      BY <2>2, <3>1, <3>2, <3>3 DEF Thin, Accepts, Readable, Sound, Installed, Intact
  <2> QED
    BY <2>1, <2>2 DEF Thin
<1> QED
  BY <1>1, ReleaseInvHolds, PTL

\* The runner starts as many processes as the task's budget reserved, and every
\* patch of every domain keeps its ten points (runtime_release.py mpi_budget,
\* scripts/wrf.sh).
THEOREM AdmittedRunFitsHolds == Spec => []AdmittedRunFits
<1>1. Init => Budgeted
  BY DEF Init, NoPin, Budgeted
<1>2. ReleaseInv => TypeOK
  BY DEF ReleaseInv, Staged
<1>3. TypeOK /\ Budgeted /\ [Next]_vars => Budgeted'
  BY BudgetedStep
<1>4. Budgeted => AdmittedRunFits
  BY RunnerAgrees DEF Budgeted, Admissible, AdmittedRunFits
<1> QED
  BY <1>1, <1>2, <1>3, <1>4, ReleaseInvHolds, PTL DEF Spec
=============================================================================
