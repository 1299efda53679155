----------------------- MODULE CompanyLifecycleProofs -----------------------
(***************************************************************************)
(* Proofs about CompanyLifecycle, for any number of instances, steps and   *)
(* issues: its types, the single company and that completion is earned     *)
(* (overlapping saves included); and that a cancel is final, releases what *)
(* its instance holds and loses no checkpoint when saves do not overlap,   *)
(* so that the files implement CompanyRegistry.                            *)
(***************************************************************************)
EXTENDS CompanyLifecycle, TLAPS

-----------------------------------------------------------------------------
(* The inductive invariant.                                                *)

\* A manifest as any of the programs may hold it: only a cancel raises gen.
Good(m) == m \in Manifests /\ (m.status # "cancelled" => m.gen = 0)

\* A manifest that a run may save.
Live(m) == Good(m) /\ m.status \notin {"none", "cancelled"}

\* Where the run is at no instance, or may be.
Outside == {"idle", "scan", "end"}

\* Where the manifest in memory is used later.
Loaded == {"steps", "ensure", "create"}

Quiet ==
  {"identities", "mint", "minted", "membership", "join", "bind", "bringUp",
   "spawn", "ready", "issue", "complete", "activate", "recheck", "reload",
   "fail", "fault", "failed", "cleanup", "end"}

FileInv ==
  \A i \in Instances :
    /\ Good(file[i]) /\ Good(tmp[i])
    /\ file[i].status = "none" => file[i] = Missing
    /\ tmp[i].status = "none" => tmp[i] = Missing

RunInv ==
  /\ rpc \notin Outside => inst \in Instances
  /\ inst \in Instances => file[inst].status # "none"
  /\ saving # "none" \/ rpc \in Loaded => Live(mem)
  /\ rpc = "ensure" => mem.steps < Steps
  /\ rpc = "idle" => inst = 0
  /\ mode # "boot" \/ rpc = "idle" => todo = {}
  /\ \A i \in todo : file[i].status # "none"

\* A cancel about to rename over a tombstone, which a rename of the run put
\* there, finds a tombstone or nothing in the temporary file.
CancelInv ==
  /\ cpc # "idle" => cinst \in Instances /\ file[cinst].status # "none"
  /\ cpc \in {"write", "rename"} =>
       /\ cmem.status = "cancelled"
       /\ file[cinst].status = "cancelled" =>
            /\ ~(saving # "none" /\ inst = cinst)
            /\ cpc = "rename" => tmp[cinst].status \in {"none", "cancelled"}

\* The instances that hold the slot, or may take it without asking.
Claims == NotCancelled \cup todo \cup ({inst} \cap Instances)

ClaimInv == \A i, j \in Claims : i = j

CompanyInv == TypeOK /\ FileInv /\ RunInv /\ CancelInv /\ ClaimInv

-----------------------------------------------------------------------------
(* Manifests.                                                              *)

\* Where a save goes on after it: never to a place that uses the memory,
\* except from one step to the next.
LEMMA SaveNext ==
  \A s \in Sites :
    /\ OkNext[s] \in Quiet \cup {"steps"}
    /\ OkNext[s] = "steps" => s = "step"
    /\ ErrNext[s] \in Quiet
BY DEF Sites, OkNext, ErrNext, Quiet

\* A missing manifest is well formed.
LEMMA MissingGood == Good(Missing) /\ Missing.status = "none"
BY CompanyAssumption DEF Good, Missing, Manifest, Manifests

\* A new instance's manifest may be saved.
LEMMA FreshLive == Live(Fresh)
BY CompanyAssumption DEF Live, Good, Fresh, Manifest, Manifests

\* A run's changes to a manifest leave it fit to save.
LEMMA LiveChanges ==
  ASSUME NEW m, Live(m)
  PROVE  /\ \A s \in {"in_progress", "resumable", "complete"} :
              Live([m EXCEPT !.status = s])
         /\ \A p \in Phases : Live(Checkpoint(m, p))
         /\ m.steps < Steps => Live([m EXCEPT !.steps = @ + 1])
         /\ Live([Checkpoint(m, "run_issue") EXCEPT !.runId = TRUE])
<1>1. \A s \in {"in_progress", "resumable", "complete"} :
        Live([m EXCEPT !.status = s])
  BY DEF Live, Good, Manifests
<1>2. \A p \in Phases : Live(Checkpoint(m, p))
  BY DEF Live, Good, Manifests, Checkpoint
<1>3. m.steps < Steps => Live([m EXCEPT !.steps = @ + 1])
  BY CompanyAssumption DEF Live, Good, Manifests
<1>4. Live([Checkpoint(m, "run_issue") EXCEPT !.runId = TRUE])
  BY <1>2 DEF Live, Good, Manifests, Checkpoint, Phases
<1> QED BY <1>1, <1>2, <1>3, <1>4

\* What a cancel makes of a manifest.
Tombstone(m) == [m EXCEPT !.status = "cancelled", !.gen = @ + 1]

\* A cancel's change to a live manifest is a well-formed tombstone.
LEMMA TombstoneGood ==
  ASSUME NEW m, Live(m)
  PROVE  Good(Tombstone(m)) /\ Tombstone(m).status = "cancelled"
<1> DEFINE k == [m EXCEPT !.status = "cancelled"]
<1>1. k \in Manifests /\ k.status = "cancelled" /\ k.gen + 1 = 1
  BY DEF Live, Good, Manifests
<1>2. Tombstone(m) = [k EXCEPT !.gen = @ + 1]
  BY Zenon DEF Tombstone
<1> HIDE DEF k
<1>3. [k EXCEPT !.gen = @ + 1] \in Manifests
  BY <1>1 DEF Manifests
<1>4. [k EXCEPT !.gen = @ + 1].status = "cancelled"
  BY <1>1 DEF Manifests
<1> QED BY <1>2, <1>3, <1>4 DEF Good

-----------------------------------------------------------------------------
(* What groups of actions have in common.                                  *)

\* A step that moves the run on and changes the runtime keeps the invariant.
LEMMA MoveKeeps ==
  ASSUME CompanyInv,
         UNCHANGED <<file, tmp, mode, inst, obs, saving, todo, booting, cpc,
                     cinst, cmem>>,
         saving = "none", rpc \notin Outside, rpc' \in Quiet,
         mem' \in Manifests, agents' \in SUBSET Instances,
         symphony' \in 0..MaxInstance, active' \in 0..MaxInstance,
         issues' \in [Instances -> 0..MaxIssues]
  PROVE  CompanyInv'
<1>1. TypeOK'
  BY DEF CompanyInv, TypeOK, Quiet
<1>2. FileInv'
  BY DEF CompanyInv, FileInv
<1>3. RunInv'
  BY DEF CompanyInv, RunInv, Quiet, Loaded, Outside
<1>4. CancelInv'
  BY DEF CompanyInv, CancelInv
<1>5. ClaimInv'
  BY DEF CompanyInv, ClaimInv, Claims, NotCancelled
<1> QED BY <1>1, <1>2, <1>3, <1>4, <1>5 DEF CompanyInv

\* A step that begins a save of a live manifest keeps the invariant.
LEMMA SaveKeeps ==
  ASSUME CompanyInv, NEW site \in Sites, NEW m,
         Save(site, m), file[inst].status # "cancelled" => Live(m),
         UNCHANGED <<file, tmp, mode, inst, obs, todo, booting, cpc, cinst,
                     cmem, runtime>>,
         issues' \in [Instances -> 0..MaxIssues],
         saving = "none", rpc \notin Outside
  PROVE  CompanyInv'
<1>1. CASE file[inst].status = "cancelled"
  <2>1. rpc' = "cleanup" /\ mem' = mem /\ saving' = saving
    BY <1>1 DEF Save
  <2> QED BY <2>1, MoveKeeps DEF CompanyInv, TypeOK, Quiet, runtime
<1>2. CASE file[inst].status # "cancelled"
  <2>1. rpc' = site /\ mem' = m /\ saving' = "write" /\ Live(m)
    BY <1>2 DEF Save
  <2>2. site \notin Loaded \cup Outside
    BY DEF Sites, OkNext, Loaded, Outside
  <2>3. TypeOK'
    BY <2>1 DEF CompanyInv, TypeOK, Live, Good, runtime
  <2>4. FileInv'
    BY DEF CompanyInv, FileInv
  <2>5. RunInv'
    BY <2>1, <2>2 DEF CompanyInv, RunInv, Loaded, Outside
  <2>6. CancelInv'
    BY <1>2, <2>1 DEF CompanyInv, CancelInv
  <2>7. ClaimInv'
    BY DEF CompanyInv, ClaimInv, Claims, NotCancelled
  <2> QED BY <2>3, <2>4, <2>5, <2>6, <2>7 DEF CompanyInv
<1> QED BY <1>1, <1>2

\* The manifest of the run's instance is live unless it is a tombstone.
LEMMA OwnLive ==
  ASSUME CompanyInv, rpc \notin Outside, file[inst].status # "cancelled"
  PROVE  Live(file[inst])
BY DEF CompanyInv, RunInv, FileInv, Live

-----------------------------------------------------------------------------
(* The steps of a run.                                                     *)

\* The file operations of a save keep the invariant.
LEMMA SaveStepsKeep ==
  ASSUME CompanyInv, SaveWrite \/ SaveRename \/ SaveFailed
  PROVE  CompanyInv'
<1>1. /\ rpc \in Sites /\ Live(mem) /\ inst \in Instances
      /\ rpc \notin Outside \cup Loaded
  <2>1. saving # "none"
    BY DEF SaveWrite, SaveRename, SaveFailed
  <2>2. rpc \in Sites
    BY <2>1 DEF CompanyInv, TypeOK
  <2>3. rpc \notin Outside \cup Loaded
    BY <2>2 DEF Sites, OkNext, Outside, Loaded
  <2> QED BY <2>1, <2>2, <2>3 DEF CompanyInv, RunInv
<1>2. CASE SaveWrite
  <2>1. TypeOK'
    BY <1>1, <1>2 DEF SaveWrite, CompanyInv, TypeOK, canceler, runtime
  <2>2. FileInv'
    BY <1>1, <1>2 DEF SaveWrite, CompanyInv, TypeOK, FileInv, Live
  <2>3. RunInv'
    BY <1>1, <1>2 DEF SaveWrite, CompanyInv, RunInv
  <2>4. CancelInv'
    BY <1>1, <1>2 DEF SaveWrite, CompanyInv, TypeOK, CancelInv, canceler
  <2>5. ClaimInv'
    BY <1>2 DEF SaveWrite, CompanyInv, ClaimInv, Claims, NotCancelled
  <2> QED BY <2>1, <2>2, <2>3, <2>4, <2>5 DEF CompanyInv
<1>3. CASE SaveRename
  <2>1. /\ OkNext[rpc] \in Quiet \cup {"steps"}
        /\ OkNext[rpc] = "steps" => rpc = "step"
    BY <1>1, SaveNext
  <2>2. Missing \in Manifests /\ Good(Missing)
    BY MissingGood DEF Good
  <2>3. Good(tmp[inst]) /\ tmp[inst].status # "none"
    BY <1>1, <1>3 DEF SaveRename, CompanyInv, FileInv
  <2>4. mem' \in Manifests
    BY <1>3, <2>2 DEF SaveRename, CompanyInv, TypeOK
  <2>5. TypeOK'
    BY <1>1, <1>3, <2>1, <2>2, <2>4
    DEF SaveRename, CompanyInv, TypeOK, Quiet, canceler, runtime
  <2>6. FileInv'
    BY <1>1, <1>3, <2>2, <2>3 DEF SaveRename, CompanyInv, TypeOK, FileInv
  <2>7. RunInv'
    BY <1>1, <1>3, <2>1, <2>3
    DEF SaveRename, CompanyInv, TypeOK, RunInv, Quiet, Loaded, Outside
  <2>8. CancelInv'
    BY <1>1, <1>3, <2>3, MissingGood
    DEF SaveRename, CompanyInv, TypeOK, CancelInv, canceler
  <2>9. ClaimInv'
    BY <1>1, <1>3 DEF SaveRename, CompanyInv, TypeOK, ClaimInv, Claims, NotCancelled
  <2> QED BY <2>5, <2>6, <2>7, <2>8, <2>9 DEF CompanyInv
<1>4. CASE SaveFailed
  <2>1. ErrNext[rpc] \in Quiet
    BY <1>1, SaveNext
  <2>2. Missing \in Manifests
    BY MissingGood DEF Good
  <2>3. TypeOK'
    BY <1>4, <2>1, <2>2
    DEF SaveFailed, CompanyInv, TypeOK, Quiet, files, canceler, runtime
  <2>4. FileInv'
    BY <1>4 DEF SaveFailed, CompanyInv, FileInv, files
  <2>5. RunInv'
    BY <1>1, <1>4, <2>1
    DEF SaveFailed, CompanyInv, RunInv, files, Quiet, Loaded, Outside
  <2>6. CancelInv'
    BY <1>4 DEF SaveFailed, CompanyInv, CancelInv, files, canceler
  <2>7. ClaimInv'
    BY <1>4 DEF SaveFailed, CompanyInv, ClaimInv, Claims, NotCancelled, files
  <2> QED BY <2>3, <2>4, <2>5, <2>6, <2>7 DEF CompanyInv
<1> QED BY <1>2, <1>3, <1>4

\* Provisioning keeps the invariant.
LEMMA ProvisionKeeps ==
  ASSUME CompanyInv,
         Load \/ NextStep \/ EnsureDone \/ EnsureFailed \/ StepsDone
  PROVE  CompanyInv'
<1>1. rpc \notin Outside /\ saving = "none"
  BY DEF Load, NextStep, EnsureDone, EnsureFailed, StepsDone, At, Outside
<1>2. {"step", "stepFailed", "provisioned"} \subseteq Sites
  BY DEF Sites, OkNext
<1>3. CASE Load
  <2>1. CASE file[inst].status = "cancelled"
    <3>1. rpc' = "cleanup" /\ mem' = mem
      BY <1>3, <2>1 DEF Load
    <3>2. obs' \in 0..1
      BY <1>1, <1>3 DEF Load, CompanyInv, RunInv, FileInv, Good, Manifests
    <3>3. TypeOK'
      BY <1>1, <1>3, <3>1, <3>2
      DEF Load, CompanyInv, TypeOK, files, canceler, runtime
    <3>4. FileInv' /\ CancelInv' /\ ClaimInv'
      BY <1>3 DEF Load, CompanyInv, FileInv, CancelInv, ClaimInv, Claims,
                  NotCancelled, files, canceler
    <3>5. RunInv'
      BY <1>1, <1>3, <3>1 DEF Load, CompanyInv, RunInv, files, Outside, Loaded
    <3> QED BY <3>3, <3>4, <3>5 DEF CompanyInv
  <2>2. CASE file[inst].status # "cancelled"
    <3>1. rpc' = "steps" /\ Live(mem')
      <4>1. Live(file[inst])
        BY <1>1, <2>2, OwnLive
      <4>2. file[inst].status \in {"in_progress", "resumable", "complete"}
        BY <4>1 DEF Live, Good, Manifests
      <4>3. mem' = [file[inst] EXCEPT !.status =
                      IF file[inst].status = "complete" THEN "in_progress"
                      ELSE file[inst].status]
        BY <1>3, <2>2 DEF Load
      <4> QED BY <1>3, <2>2, <4>1, <4>2, <4>3, LiveChanges DEF Load
    <3>2. obs' \in 0..1
      BY <1>1, <1>3 DEF Load, CompanyInv, RunInv, FileInv, Good, Manifests
    <3>3. TypeOK'
      BY <1>1, <1>3, <3>1, <3>2
      DEF Load, CompanyInv, TypeOK, Live, Good, files, canceler, runtime
    <3>4. FileInv' /\ CancelInv' /\ ClaimInv'
      BY <1>3 DEF Load, CompanyInv, FileInv, CancelInv, ClaimInv, Claims,
                  NotCancelled, files, canceler
    <3>5. RunInv'
      BY <1>1, <1>3, <3>1 DEF Load, CompanyInv, RunInv, files, Outside, Loaded
    <3> QED BY <3>3, <3>4, <3>5 DEF CompanyInv
  <2> QED BY <2>1, <2>2
<1>4. CASE NextStep
  <2>1. CASE Cancelled
    BY <1>1, <1>4, <2>1, MoveKeeps
    DEF NextStep, UnlessCancelled, Goto, Quiet, CompanyInv, TypeOK, files,
        canceler, runtime
  <2>2. CASE ~Cancelled
    <3>1. rpc' = "ensure" /\ mem.steps < Steps /\ Live(mem)
      <4>1. Live(mem)
        BY <1>4 DEF NextStep, At, CompanyInv, RunInv, Loaded
      <4>2. mem.steps \in 0..Steps
        BY <4>1 DEF Live, Good, Manifests
      <4> QED BY <1>4, <2>2, <4>1, <4>2, CompanyAssumption
          DEF NextStep, UnlessCancelled, Goto
    <3>2. TypeOK'
      BY <1>1, <1>4, <3>1 DEF NextStep, UnlessCancelled, Goto, CompanyInv,
                              TypeOK, files, canceler, runtime
    <3>3. FileInv' /\ CancelInv' /\ ClaimInv'
      BY <1>4 DEF NextStep, UnlessCancelled, Goto, CompanyInv, FileInv,
                  CancelInv, ClaimInv, Claims, NotCancelled, files, canceler
    <3>4. RunInv'
      BY <1>1, <1>4, <3>1 DEF NextStep, UnlessCancelled, Goto, CompanyInv,
                              RunInv, files, Outside, Loaded
    <3> QED BY <3>2, <3>3, <3>4 DEF CompanyInv
  <2> QED BY <2>1, <2>2
<1>5. CASE EnsureDone
  <2>1. Live([mem EXCEPT !.steps = @ + 1])
    BY <1>5, LiveChanges DEF EnsureDone, At, CompanyInv, RunInv, Loaded
  <2> QED BY <1>1, <1>2, <1>5, <2>1, SaveKeeps
      DEF EnsureDone, Saves, files, canceler, CompanyInv, TypeOK
<1>6. CASE EnsureFailed
  <2>1. Live([mem EXCEPT !.status = "resumable"])
    BY <1>6, LiveChanges DEF EnsureFailed, At, CompanyInv, RunInv, Loaded
  <2> QED BY <1>1, <1>2, <1>6, <2>1, SaveKeeps
      DEF EnsureFailed, Saves, files, canceler, CompanyInv, TypeOK
<1>7. CASE StepsDone
  <2>1. Live([mem EXCEPT !.status = "in_progress"])
    BY <1>7, LiveChanges DEF StepsDone, At, CompanyInv, RunInv, Loaded
  <2> QED BY <1>1, <1>2, <1>7, <2>1, SaveKeeps
      DEF StepsDone, Saves, files, canceler, CompanyInv, TypeOK
<1> QED BY <1>3, <1>4, <1>5, <1>6, <1>7

\* Identities and membership keep the invariant.
LEMMA PeopleKeep ==
  ASSUME CompanyInv,
         \/ Identities \/ Mint \/ MintFailed \/ IdentitiesDone
         \/ Membership \/ JoinDone \/ JoinFailed
  PROVE  CompanyInv'
<1>1. rpc \notin Outside /\ saving = "none"
  BY DEF Identities, Mint, MintFailed, IdentitiesDone, Membership, JoinDone,
         JoinFailed, At, Outside
<1>2. {"identitiesSaved", "membershipSaved"} \subseteq Sites
  BY DEF Sites, OkNext
<1>3. CASE Identities
  BY <1>1, <1>3, MoveKeeps
  DEF Identities, UnlessCancelled, Goto, Quiet, CompanyInv, TypeOK, files,
      canceler, runtime
<1>4. CASE Mint
  <2>1. inst \in Instances
    BY <1>1 DEF CompanyInv, RunInv
  <2> QED BY <1>1, <1>4, <2>1, MoveKeeps
      DEF Mint, Quiet, CompanyInv, TypeOK, files, canceler
<1>5. CASE MintFailed
  BY <1>1, <1>5, MoveKeeps
  DEF MintFailed, UnlessCancelled, Goto, Quiet, CompanyInv, TypeOK, files,
      canceler, runtime
<1>6. CASE IdentitiesDone
  <2>1. file[inst].status # "cancelled" => Live(Checkpoint(file[inst], "identities"))
    BY <1>1, OwnLive, LiveChanges DEF Phases
  <2> QED BY <1>1, <1>2, <1>6, <2>1, SaveKeeps
      DEF IdentitiesDone, Saves, files, canceler, CompanyInv, TypeOK
<1>7. CASE Membership
  BY <1>1, <1>7, MoveKeeps
  DEF Membership, UnlessCancelled, Goto, Quiet, CompanyInv, TypeOK, files,
      canceler, runtime
<1>8. CASE JoinDone
  <2>1. file[inst].status # "cancelled" => Live(Checkpoint(file[inst], "membership"))
    BY <1>1, OwnLive, LiveChanges DEF Phases
  <2> QED BY <1>1, <1>2, <1>8, <2>1, SaveKeeps
      DEF JoinDone, Saves, files, canceler, CompanyInv, TypeOK
<1>9. CASE JoinFailed
  BY <1>1, <1>9, MoveKeeps
  DEF JoinFailed, UnlessCancelled, Goto, Quiet, CompanyInv, TypeOK, files,
      canceler, runtime
<1> QED BY <1>3, <1>4, <1>5, <1>6, <1>7, <1>8, <1>9

\* The binding of the daemon keeps the invariant.
LEMMA BindKeeps ==
  ASSUME CompanyInv, Bind \/ BindAborted \/ BringUp \/ BringUpEnds \/ BindDone
  PROVE  CompanyInv'
<1>1. rpc \notin Outside /\ saving = "none" /\ inst \in Instances
  BY DEF Bind, BindAborted, BringUp, BringUpEnds, BindDone, At, Outside,
         CompanyInv, RunInv
<1>2. "bindSaved" \in Sites
  BY DEF Sites, OkNext
<1>3. Instances \subseteq 0..MaxInstance /\ 0 \in 0..MaxInstance
  BY CompanyAssumption DEF Instances
<1>4. CASE Bind
  BY <1>1, <1>4, MoveKeeps
  DEF Bind, UnlessCancelled, Goto, Quiet, CompanyInv, TypeOK, files,
      canceler, runtime
<1>5. CASE BindAborted
  BY <1>1, <1>5, MoveKeeps
  DEF BindAborted, UnlessCancelled, Goto, Quiet, CompanyInv, TypeOK, files,
      canceler, runtime
<1>6. CASE BringUp
  BY <1>1, <1>3, <1>6, MoveKeeps
  DEF BringUp, Quiet, CompanyInv, TypeOK, files, canceler
<1>7. CASE BringUpEnds
  BY <1>1, <1>3, <1>7, MoveKeeps
  DEF BringUpEnds, Quiet, CompanyInv, TypeOK, files, canceler
<1>8. CASE BindDone
  <2>1. CASE symphony = 0
    BY <1>1, <1>8, <2>1, MoveKeeps
    DEF BindDone, Goto, Quiet, CompanyInv, TypeOK, files, canceler, runtime
  <2>2. CASE symphony # 0
    <3>1. file[inst].status # "cancelled" =>
            Live(Checkpoint(file[inst], "symphony_bind"))
      BY <1>1, OwnLive, LiveChanges DEF Phases
    <3> QED BY <1>1, <1>2, <1>8, <2>2, <3>1, SaveKeeps
        DEF BindDone, Saves, files, canceler, CompanyInv, TypeOK
  <2> QED BY <2>1, <2>2
<1> QED BY <1>4, <1>5, <1>6, <1>7, <1>8

\* The run issue keeps the invariant.
LEMMA IssueKeeps ==
  ASSUME CompanyInv, RunIssue \/ CreateIssue \/ CreateIssueFailed
  PROVE  CompanyInv'
<1>1. rpc \notin Outside /\ saving = "none" /\ inst \in Instances
  BY DEF RunIssue, CreateIssue, CreateIssueFailed, At, Outside, CompanyInv,
         RunInv
<1>2. "issueSaved" \in Sites
  BY DEF Sites, OkNext
<1>3. ASSUME issues[inst] < MaxIssues
      PROVE  [issues EXCEPT ![inst] = @ + 1] \in [Instances -> 0..MaxIssues]
  BY <1>1, <1>3, CompanyAssumption DEF CompanyInv, TypeOK
<1>4. CASE RunIssue
  <2>1. CASE rpc' = "create"
    <3>1. mem' = file[inst] /\ file[inst].status # "cancelled"
      BY <1>4, <2>1 DEF RunIssue, Cancelled
    <3>2. Live(mem')
      BY <1>1, <3>1, OwnLive
    <3>3. TypeOK'
      BY <1>1, <1>4, <2>1, <3>2 DEF RunIssue, CompanyInv, TypeOK, Live, Good,
                                    files, canceler, runtime
    <3>4. FileInv' /\ CancelInv' /\ ClaimInv'
      BY <1>4 DEF RunIssue, CompanyInv, FileInv, CancelInv, ClaimInv, Claims,
                  NotCancelled, files, canceler
    <3>5. RunInv'
      BY <1>1, <1>4, <2>1, <3>2
      DEF RunIssue, CompanyInv, RunInv, files, Outside, Loaded
    <3> QED BY <3>3, <3>4, <3>5 DEF CompanyInv
  <2>2. CASE rpc' # "create"
    <3>1. rpc' \in {"complete", "cleanup"} /\ mem' = mem
      BY <1>4, <2>2 DEF RunIssue
    <3> QED BY <1>1, <1>4, <3>1, MoveKeeps
        DEF RunIssue, Quiet, CompanyInv, TypeOK, files, canceler, runtime
  <2> QED BY <2>1, <2>2
<1>5. CASE CreateIssue
  <2>1. Live([Checkpoint(mem, "run_issue") EXCEPT !.runId = TRUE])
    BY <1>5, LiveChanges DEF CreateIssue, At, CompanyInv, RunInv, Loaded
  <2> QED BY <1>1, <1>2, <1>3, <1>5, <2>1, SaveKeeps
      DEF CreateIssue, files, canceler
<1>6. CASE CreateIssueFailed
  <2>1. issues' \in [Instances -> 0..MaxIssues]
    BY <1>3, <1>6 DEF CreateIssueFailed, CompanyInv, TypeOK
  <2>2. Missing \in Manifests
    BY MissingGood DEF Good
  <2> QED BY <1>1, <1>6, <2>1, <2>2, MoveKeeps
      DEF CreateIssueFailed, Quiet, CompanyInv, TypeOK, files, canceler, runtime
<1> QED BY <1>4, <1>5, <1>6

\* Completion, failure and clean-up keep the invariant.
LEMMA EndKeeps ==
  ASSUME CompanyInv,
         \/ Complete \/ Activate \/ Recheck \/ Failed \/ Cleanup
         \/ MarkResumable("fail", "failing")
         \/ MarkResumable("fault", "faulting")
  PROVE  CompanyInv'
<1>1. rpc \notin Outside /\ saving = "none" /\ inst \in Instances
  BY DEF Complete, Activate, Recheck, Failed, Cleanup, MarkResumable, At,
         Outside, CompanyInv, RunInv
<1>2. {"completed", "failing", "faulting"} \subseteq Sites
  BY DEF Sites, OkNext
<1>3. Instances \subseteq 0..MaxInstance /\ 0 \in 0..MaxInstance
  BY CompanyAssumption DEF Instances
<1>4. CASE Complete
  <2>1. CASE Cancelled
    BY <1>1, <1>4, <2>1, MoveKeeps
    DEF Complete, Goto, Quiet, CompanyInv, TypeOK, files, canceler, runtime
  <2>2. CASE ~Cancelled
    <3>1. file[inst].status # "cancelled" =>
            Live([file[inst] EXCEPT !.status = "complete"])
      BY <1>1, OwnLive, LiveChanges
    <3> QED BY <1>1, <1>2, <1>4, <2>2, <3>1, SaveKeeps
        DEF Complete, Saves, files, canceler, CompanyInv, TypeOK
  <2> QED BY <2>1, <2>2
<1>5. CASE Activate
  BY <1>1, <1>3, <1>5, MoveKeeps
  DEF Activate, Quiet, CompanyInv, TypeOK, files, canceler
<1>6. CASE Recheck
  BY <1>1, <1>3, <1>6, MoveKeeps
  DEF Recheck, Quiet, CompanyInv, TypeOK, files, canceler
<1>7. CASE Failed
  BY <1>1, <1>7, MoveKeeps
  DEF Failed, UnlessCancelled, Goto, Quiet, CompanyInv, TypeOK, files,
      canceler, runtime
<1>8. CASE Cleanup
  <2>1. Missing \in Manifests
    BY MissingGood DEF Good
  <2> QED BY <1>1, <1>3, <1>8, <2>1, MoveKeeps
      DEF Cleanup, Quiet, CompanyInv, TypeOK, files, canceler
<1>9. ASSUME NEW here, NEW site \in {"failing", "faulting"},
             MarkResumable(here, site)
      PROVE  CompanyInv'
  <2>1. CASE file[inst].status = "cancelled"
    <3>1. OkNext[site] \in Quiet
      BY DEF OkNext, Quiet
    <3>2. rpc' = OkNext[site] /\ mem' = mem /\ saving' = saving
      BY <1>9, <2>1 DEF MarkResumable
    <3> QED BY <1>1, <1>9, <3>1, <3>2, MoveKeeps
        DEF MarkResumable, CompanyInv, TypeOK, files, canceler, runtime
  <2>2. CASE file[inst].status # "cancelled"
    <3>1. Live([file[inst] EXCEPT !.status = "resumable"])
      BY <1>1, <2>2, OwnLive, LiveChanges
    <3>2. Save(site, [file[inst] EXCEPT !.status = "resumable"])
      BY <1>9, <2>2 DEF MarkResumable, Save
    <3> QED BY <1>1, <1>2, <1>9, <3>1, <3>2, SaveKeeps
        DEF MarkResumable, files, canceler, CompanyInv, TypeOK
  <2> QED BY <2>1, <2>2
<1> QED BY <1>4, <1>5, <1>6, <1>7, <1>8, <1>9

\* The end of a run gives the claim of its instance back.
LEMMA ReturnKeeps == CompanyInv /\ Return => CompanyInv'
<1> SUFFICES ASSUME CompanyInv, Return PROVE CompanyInv'
  OBVIOUS
<1>1. Missing \in Manifests /\ 0 \in 0..MaxInstance
  BY MissingGood, CompanyAssumption DEF Good
<1>2. 0 \notin Instances
  BY CompanyAssumption DEF Instances
<1>3. TypeOK'
  BY <1>1 DEF Return, At, CompanyInv, TypeOK, files, canceler, runtime
<1>4. FileInv'
  BY DEF Return, CompanyInv, FileInv, files
<1>5. RunInv'
  BY <1>2 DEF Return, At, CompanyInv, RunInv, files, Outside, Loaded
<1>6. CancelInv'
  BY DEF Return, At, CompanyInv, CancelInv, files, canceler
<1>7. ClaimInv'
  BY <1>2 DEF Return, CompanyInv, ClaimInv, Claims, NotCancelled, files
<1> QED BY <1>3, <1>4, <1>5, <1>6, <1>7 DEF CompanyInv

-----------------------------------------------------------------------------
(* What starts a run, the boot loop and the cancel.                        *)

\* A new instance is made only when no instance has a claim.
LEMMA InstantiateKeeps ==
  ASSUME CompanyInv, NEW i \in Instances, Instantiate(i)
  PROVE  CompanyInv'
<1>1. /\ rpc = "idle" /\ inst = 0 /\ todo = {} /\ saving = "none"
      /\ NotCancelled = {} /\ file[i].status = "none"
  <2>1. rpc = "idle" /\ NotCancelled = {} /\ file[i] = Missing
    BY DEF Instantiate, Enter
  <2>2. "idle" \notin Sites
    BY DEF Sites, OkNext
  <2> QED BY <2>1, <2>2, MissingGood DEF CompanyInv, RunInv, TypeOK
<1>2. Fresh \in Manifests /\ Good(Fresh) /\ Fresh.status \notin {"none", "cancelled"}
  BY FreshLive DEF Live, Good
<1>3. i \in 0..MaxInstance
  BY CompanyAssumption DEF Instances
<1>4. TypeOK'
  BY <1>1, <1>2, <1>3
  DEF Instantiate, Enter, CompanyInv, TypeOK, canceler, runtime
<1>5. FileInv'
  BY <1>2 DEF Instantiate, CompanyInv, TypeOK, FileInv
<1>6. RunInv'
  BY <1>1, <1>2
  DEF Instantiate, Enter, CompanyInv, TypeOK, RunInv, Outside, Loaded
<1>7. CancelInv'
  BY <1>1, <1>2 DEF Instantiate, Enter, CompanyInv, TypeOK, CancelInv, canceler
<1>8. Claims' \subseteq {i}
  BY <1>1 DEF Instantiate, Enter, CompanyInv, TypeOK, Claims, NotCancelled
<1>9. ClaimInv'
  BY <1>8 DEF ClaimInv
<1> QED BY <1>4, <1>5, <1>6, <1>7, <1>9 DEF CompanyInv

\* A resume and the boot loop take only instances that have the claim.
LEMMA BootKeeps ==
  ASSUME CompanyInv,
         \/ \E i \in Instances : Resume(i) \/ ReconcileNext(i)
         \/ Reconcile \/ Rebind \/ RebindReady \/ RebindReload
  PROVE  CompanyInv'
<1>1. Instances \subseteq 0..MaxInstance /\ 0 \in 0..MaxInstance
  BY CompanyAssumption DEF Instances
<1>2. rpc \in {"idle", "scan"} => saving = "none"
  BY DEF CompanyInv, TypeOK, Sites, OkNext
<1>3. ASSUME NEW i \in Instances, Resume(i) PROVE CompanyInv'
  <2>1. i \in NotCancelled /\ file[i].status # "none"
    BY <1>3 DEF Resume, NotCancelled
  <2>2. rpc = "idle" /\ saving = "none" /\ todo = {}
    BY <1>2, <1>3 DEF Resume, Enter, CompanyInv, RunInv
  <2>3. TypeOK'
    BY <1>1, <1>3, <2>2
    DEF Resume, Enter, CompanyInv, TypeOK, files, canceler, runtime
  <2>4. FileInv' /\ CancelInv'
    BY <1>3, <2>2 DEF Resume, Enter, CompanyInv, FileInv, CancelInv, files,
                      canceler
  <2>5. RunInv'
    BY <1>3, <2>1, <2>2
    DEF Resume, Enter, CompanyInv, RunInv, files, Outside, Loaded
  <2>6. ClaimInv'
    BY <1>3, <2>1 DEF Resume, Enter, CompanyInv, ClaimInv, Claims,
                      NotCancelled, files
  <2> QED BY <2>3, <2>4, <2>5, <2>6 DEF CompanyInv
<1>4. ASSUME NEW i \in Instances, ReconcileNext(i) PROVE CompanyInv'
  <2>1. saving = "none" /\ rpc = "scan" /\ i \in todo
    BY <1>2, <1>4 DEF ReconcileNext
  <2>2. TypeOK'
    BY <1>1, <1>4, <2>1
    DEF ReconcileNext, CompanyInv, TypeOK, files, canceler, runtime
  <2>3. FileInv' /\ CancelInv'
    BY <1>4, <2>1 DEF ReconcileNext, CompanyInv, FileInv, CancelInv, files,
                      canceler
  <2>4. RunInv'
    BY <1>4, <2>1
    DEF ReconcileNext, CompanyInv, RunInv, files, Outside, Loaded
  <2>5. ClaimInv'
    BY <1>4, <2>1 DEF ReconcileNext, CompanyInv, ClaimInv, Claims,
                      NotCancelled, files
  <2> QED BY <2>2, <2>3, <2>4, <2>5 DEF CompanyInv
<1>5. CASE Reconcile
  <2>1. saving = "none" /\ rpc = "idle" /\ inst = 0
    BY <1>2, <1>5 DEF Reconcile, CompanyInv, RunInv
  <2>2. TypeOK'
    BY <1>5, <2>1 DEF Reconcile, CompanyInv, TypeOK, NotCancelled, files,
                      canceler, runtime
  <2>3. FileInv' /\ CancelInv'
    BY <1>5, <2>1 DEF Reconcile, CompanyInv, FileInv, CancelInv, files, canceler
  <2>4. RunInv'
    BY <1>5, <2>1
    DEF Reconcile, CompanyInv, RunInv, NotCancelled, files, Outside, Loaded
  <2>5. ClaimInv'
    BY <1>5 DEF Reconcile, CompanyInv, ClaimInv, Claims, NotCancelled, files
  <2> QED BY <2>2, <2>3, <2>4, <2>5 DEF CompanyInv
<1>6. CASE Rebind
  <2> DEFINE complete == {i \in Instances : LifecycleIsComplete(file[i])}
  <2>1. complete \subseteq NotCancelled
    BY DEF LifecycleIsComplete, NotCancelled
  <2>2. /\ saving = "none" /\ rpc = "scan" /\ todo = {} /\ todo' = todo
        /\ \/ rpc' = "end" /\ inst' = inst
           \/ rpc' = "bringUp" /\ inst' \in complete
    BY <1>2, <1>6 DEF Rebind
  <2>3. /\ mode' = "rebind"
        /\ UNCHANGED <<files, obs, mem, saving, booting, canceler, runtime,
                       issues>>
    BY <1>6 DEF Rebind
  <2>4. inst' \in Instances => inst' = inst \/ inst' \in NotCancelled
    BY <2>1, <2>2
  <2> HIDE DEF complete
  <2>5. inst' \in 0..MaxInstance /\ (rpc' # "end" => inst' \in Instances)
    BY <1>1, <2>1, <2>2 DEF CompanyInv, TypeOK, NotCancelled
  <2>6. TypeOK'
    BY <2>2, <2>3, <2>5 DEF CompanyInv, TypeOK, files, canceler, runtime
  <2>7. FileInv' /\ CancelInv'
    BY <2>2, <2>3 DEF CompanyInv, FileInv, CancelInv, files, canceler
  <2>8. RunInv'
    BY <2>2, <2>3, <2>4, <2>5
    DEF CompanyInv, RunInv, NotCancelled, files, Outside, Loaded
  <2>9. ClaimInv'
    BY <2>2, <2>3, <2>4 DEF CompanyInv, ClaimInv, Claims, NotCancelled, files
  <2> QED BY <2>6, <2>7, <2>8, <2>9 DEF CompanyInv
<1>7. CASE RebindReady
  <2>1. rpc \notin Outside /\ saving = "none" /\ inst \in Instances
    BY <1>7 DEF RebindReady, At, Outside, CompanyInv, RunInv
  <2> QED BY <1>1, <1>7, <2>1, MoveKeeps
      DEF RebindReady, Quiet, CompanyInv, TypeOK, files, canceler
<1>8. CASE RebindReload
  <2>1. rpc \notin Outside /\ saving = "none"
    BY <1>8 DEF RebindReload, At, Outside
  <2> QED BY <1>1, <1>8, <2>1, MoveKeeps
      DEF RebindReload, Quiet, CompanyInv, TypeOK, files, canceler
<1> QED BY <1>3, <1>4, <1>5, <1>6, <1>7, <1>8

\* A cancel keeps the invariant: it never takes a claim back from a tombstone.
LEMMA CancelKeeps ==
  ASSUME CompanyInv, (\E i \in Instances : CancelLoad(i)) \/ CancelStep
  PROVE  CompanyInv'
<1>1. 0 \in 0..MaxInstance /\ Missing \in Manifests /\ Good(Missing)
  BY MissingGood, CompanyAssumption DEF Good
<1>2. Instances \subseteq 0..MaxInstance
  BY CompanyAssumption DEF Instances
<1>3. ASSUME NEW i \in Instances, CancelLoad(i) PROVE CompanyInv'
  <2>1. Good(file[i]) /\ file[i] \in Manifests
    BY DEF CompanyInv, FileInv, Good
  <2>2. file[i].status # "none"
    BY <1>3 DEF CancelLoad, CompanyInv, FileInv
  <2>3. /\ cinst' = i /\ UNCHANGED <<files, run, runtime, issues>>
        /\ \/ cpc' = "reap" /\ cmem' = cmem
           \/ /\ cpc' = "write" /\ file[i].status # "cancelled"
              /\ cmem' = Tombstone(file[i])
    BY <1>3 DEF CancelLoad, Tombstone
  <2>4. cpc' = "write" => cmem' \in Manifests /\ cmem'.status = "cancelled"
    BY <2>1, <2>2, <2>3, TombstoneGood DEF Live, Good
  <2>5. TypeOK'
    BY <1>2, <2>3, <2>4 DEF CompanyInv, TypeOK, files, run, runtime
  <2>6. FileInv' /\ ClaimInv'
    BY <2>3 DEF CompanyInv, FileInv, ClaimInv, Claims, NotCancelled, files, run
  <2>7. RunInv'
    BY <2>3 DEF CompanyInv, RunInv, files, run
  <2>8. CancelInv'
    BY <2>2, <2>3, <2>4 DEF CancelInv, files, run
  <2> QED BY <2>5, <2>6, <2>7, <2>8 DEF CompanyInv
<1>4. CASE CancelWrite
  <2>1. cinst \in Instances /\ cmem.status = "cancelled" /\ Good(cmem)
    BY <1>4 DEF CancelWrite, CompanyInv, CancelInv, TypeOK, Good
  <2>2. TypeOK'
    BY <1>4, <2>1 DEF CancelWrite, CompanyInv, TypeOK, run, runtime
  <2>3. FileInv'
    BY <1>4, <2>1 DEF CancelWrite, CompanyInv, TypeOK, FileInv
  <2>4. RunInv' /\ ClaimInv'
    BY <1>4 DEF CancelWrite, CompanyInv, RunInv, ClaimInv, Claims,
                NotCancelled, run
  <2>5. CancelInv'
    BY <1>4, <2>1 DEF CancelWrite, CompanyInv, TypeOK, CancelInv, run
  <2> QED BY <2>2, <2>3, <2>4, <2>5 DEF CompanyInv
<1>5. CASE CancelRename
  <2>1. /\ cinst \in Instances /\ file[cinst].status # "none"
        /\ file[cinst].status = "cancelled" =>
             tmp[cinst].status \in {"none", "cancelled"}
    BY <1>5 DEF CancelRename, CompanyInv, CancelInv
  <2>2. Good(tmp[cinst]) /\ tmp[cinst].status # "none"
    BY <1>5, <2>1 DEF CancelRename, CompanyInv, FileInv
  <2>3. TypeOK'
    BY <1>1, <1>5, <2>1 DEF CancelRename, CompanyInv, TypeOK, run, runtime
  <2>4. FileInv'
    BY <1>1, <1>5, <2>1, <2>2 DEF CancelRename, CompanyInv, TypeOK, FileInv
  <2>5. RunInv'
    BY <1>5, <2>1, <2>2 DEF CancelRename, CompanyInv, TypeOK, RunInv, run
  <2>6. CancelInv'
    BY <1>5, <2>1, <2>2 DEF CancelRename, CompanyInv, TypeOK, CancelInv, run
  <2>7. NotCancelled' \subseteq NotCancelled
    BY <1>5, <2>1, <2>2 DEF CancelRename, CompanyInv, TypeOK, NotCancelled
  <2>8. ClaimInv'
    BY <1>5, <2>7 DEF CancelRename, CompanyInv, ClaimInv, Claims, run
  <2> QED BY <2>3, <2>4, <2>5, <2>6, <2>8 DEF CompanyInv
<1>6. CASE CancelFailed \/ CancelReap \/ CancelStop \/ CancelClear
  <2>1. /\ cpc' \in {"idle", "stop", "clear"} /\ cinst' \in {0, cinst}
        /\ cpc' # "idle" => cpc # "idle" /\ cinst' = cinst
        /\ cmem' \in {Missing, cmem} /\ UNCHANGED <<files, run, issues>>
    BY <1>6 DEF CancelFailed, CancelReap, CancelStop, CancelClear
  <2>2. /\ agents' \subseteq agents /\ symphony' \in {0, symphony}
        /\ active' \in {0, active}
    BY <1>6 DEF CancelFailed, CancelReap, CancelStop, CancelClear, runtime
  <2>3. TypeOK'
    BY <1>1, <2>1, <2>2 DEF CompanyInv, TypeOK, files, run
  <2>4. FileInv' /\ ClaimInv'
    BY <2>1 DEF CompanyInv, FileInv, ClaimInv, Claims, NotCancelled, files, run
  <2>5. RunInv'
    BY <2>1 DEF CompanyInv, RunInv, files, run
  <2>6. CancelInv'
    BY <2>1 DEF CompanyInv, CancelInv, files
  <2> QED BY <2>3, <2>4, <2>5, <2>6 DEF CompanyInv
<1> QED BY <1>3, <1>4, <1>5, <1>6 DEF CancelStep

\* The invariant holds at first and after a restart.
LEMMA FirstKeeps == (Init => CompanyInv) /\ (CompanyInv /\ Restart => CompanyInv')
<1>1. /\ Missing \in Manifests /\ Good(Missing) /\ Missing.status = "none"
      /\ 0 \in 0..MaxInstance /\ 0 \in 0..MaxIssues /\ 0 \notin Instances
  BY MissingGood, CompanyAssumption DEF Good, Instances
<1>2. ASSUME Init PROVE CompanyInv
  <2>1. TypeOK
    BY <1>1, <1>2 DEF Init, TypeOK
  <2>2. FileInv
    BY <1>1, <1>2 DEF Init, FileInv
  <2>3. RunInv /\ CancelInv
    BY <1>1, <1>2 DEF Init, RunInv, CancelInv, Outside, Loaded
  <2>4. ClaimInv
    BY <1>1, <1>2 DEF Init, ClaimInv, Claims, NotCancelled
  <2> QED BY <2>1, <2>2, <2>3, <2>4 DEF CompanyInv
<1>3. ASSUME CompanyInv, Restart PROVE CompanyInv'
  <2>1. TypeOK'
    BY <1>1, <1>3 DEF Restart, CompanyInv, TypeOK
  <2>2. FileInv'
    BY <1>1, <1>3 DEF Restart, CompanyInv, FileInv
  <2>3. RunInv' /\ CancelInv'
    BY <1>1, <1>3 DEF Restart, RunInv, CancelInv, Outside, Loaded
  <2>4. ClaimInv'
    BY <1>1, <1>3 DEF Restart, CompanyInv, ClaimInv, Claims, NotCancelled
  <2> QED BY <2>1, <2>2, <2>3, <2>4 DEF CompanyInv
<1> QED BY <1>2, <1>3

-----------------------------------------------------------------------------
(* The theorems.                                                           *)

\* Every step keeps the invariant.
LEMMA StepKeeps == CompanyInv /\ [Next]_vars => CompanyInv'
<1> SUFFICES ASSUME CompanyInv, [Next]_vars PROVE CompanyInv'
  OBVIOUS
<1>1. CASE \E i \in Instances : Instantiate(i) \/ Resume(i) \/ CancelLoad(i)
  BY <1>1, InstantiateKeeps, BootKeeps, CancelKeeps
<1>2. CASE Reconcile
  BY <1>2, BootKeeps
<1>3. CASE RunStep
  BY <1>3, SaveStepsKeep, ProvisionKeeps, PeopleKeep, BindKeeps, IssueKeeps,
     EndKeeps, ReturnKeeps, BootKeeps DEF RunStep
<1>4. CASE CancelStep
  BY <1>4, CancelKeeps
<1>5. CASE Restart
  BY <1>5, FirstKeeps
<1>6. CASE UNCHANGED vars
  BY <1>6 DEF vars, files, run, canceler, runtime, CompanyInv, TypeOK, FileInv,
              RunInv, CancelInv, ClaimInv, Claims, NotCancelled
<1> QED BY <1>1, <1>2, <1>3, <1>4, <1>5, <1>6 DEF Next

\* The invariant holds in every reachable state of a run, a cancel, the boot
\* loop and restarts, whether their saves overlap or not.
THEOREM CompanyInductive == Spec => []CompanyInv
<1>1. Init => CompanyInv
  BY FirstKeeps
<1> QED BY <1>1, StepKeeps, PTL DEF Spec

\* The manifests and both programs stay in their types.
THEOREM CompanyTypeCorrect == Spec => []TypeOK
<1>1. CompanyInv => TypeOK
  BY DEF CompanyInv
<1> QED BY <1>1, CompanyInductive, PTL

\* existing_active_instance and company_run_lock keep the promise of one
\* company, even where a save puts a manifest in place of a tombstone.
THEOREM OneCompany == Spec => []SingleCompany
<1>1. CompanyInv => SingleCompany
  BY DEF CompanyInv, ClaimInv, Claims, SingleCompany
<1> QED BY <1>1, CompanyInductive, PTL

-----------------------------------------------------------------------------
(* Without overlapping saves, a cancel is final.                           *)

\* A save and a cancel's save exclude each other; the first is of an instance
\* without a tombstone, the second has one to rename.
ApartInv ==
  /\ saving # "none" =>
       cpc \notin {"write", "rename"} /\ file[inst].status # "cancelled"
  /\ cpc = "rename" => tmp[cinst].status = "cancelled"

\* A step that is neither a file operation of a save nor a restart.
Plain ==
  /\ UNCHANGED <<tmp, cpc, cinst>>
  /\ \/ saving' = "none"
     \/ /\ SaveFree /\ saving' = "write"
        /\ inst' = inst /\ file' = file /\ file[inst].status # "cancelled"

\* The steps of a run outside the file operations are plain and write no file.
LEMMA RunPlain ==
  ASSUME RunStep, ~SaveWrite, ~SaveRename, ~SaveFailed, CompanyInv
  PROVE  Plain /\ file' = file
<1>1. CASE Load \/ NextStep \/ EnsureDone \/ EnsureFailed \/ StepsDone
  BY <1>1 DEF Load, NextStep, EnsureDone, EnsureFailed, StepsDone, At, Saves,
              Save, UnlessCancelled, Goto, Plain, files, canceler
<1>2. CASE \/ Identities \/ Mint \/ MintFailed \/ IdentitiesDone
           \/ Membership \/ JoinDone \/ JoinFailed
  BY <1>2 DEF Identities, Mint, MintFailed, IdentitiesDone, Membership,
              JoinDone, JoinFailed, At, Saves, Save, UnlessCancelled, Goto,
              Plain, files, canceler
<1>3. CASE Bind \/ BindAborted \/ BringUp \/ BringUpEnds \/ BindDone
  BY <1>3 DEF Bind, BindAborted, BringUp, BringUpEnds, BindDone, At, Saves,
              Save, UnlessCancelled, Goto, Plain, files, canceler
<1>4. CASE RunIssue \/ CreateIssue \/ CreateIssueFailed \/ Complete
  BY <1>4 DEF RunIssue, CreateIssue, CreateIssueFailed, Complete, At, Saves,
              Save, Goto, Plain, files, canceler
<1>5. CASE \/ Activate \/ Recheck \/ Failed \/ Cleanup \/ Return
           \/ MarkResumable("fail", "failing")
           \/ MarkResumable("fault", "faulting")
  BY <1>5 DEF Activate, Recheck, Failed, Cleanup, Return, MarkResumable, At,
              UnlessCancelled, Goto, Plain, files, canceler
<1>6. CASE \/ \E i \in Instances : ReconcileNext(i)
           \/ Rebind \/ RebindReady \/ RebindReload
  <2>1. saving = "none"
    BY <1>6 DEF ReconcileNext, Rebind, RebindReady, RebindReload, At,
                CompanyInv, TypeOK, Sites, OkNext
  <2>2. UNCHANGED <<files, saving, canceler>>
    BY <1>6 DEF ReconcileNext, Rebind, RebindReady, RebindReload
  <2> QED BY <2>1, <2>2 DEF Plain, files, canceler
<1> QED BY <1>1, <1>2, <1>3, <1>4, <1>5, <1>6 DEF RunStep

\* Without overlap every step keeps a save and a cancel's save apart.
LEMMA ApartKeeps ==
  ASSUME ~Overlap, CompanyInv, ApartInv, [Next]_vars
  PROVE  ApartInv'
<1>1. ASSUME Plain PROVE ApartInv'
  BY <1>1 DEF Plain, SaveFree, ApartInv
<1>2. ASSUME NEW i \in Instances, Instantiate(i) \/ Resume(i)
      PROVE  ApartInv'
  <2>1. saving = "none"
    BY <1>2 DEF Instantiate, Resume, Enter, CompanyInv, TypeOK, Sites, OkNext
  <2> QED BY <1>1, <1>2, <2>1 DEF Instantiate, Resume, Enter, Plain, files, canceler
<1>3. ASSUME NEW i \in Instances, CancelLoad(i) PROVE ApartInv'
  BY <1>3 DEF CancelLoad, ApartInv, files, run
<1>4. CASE Reconcile
  <2>1. saving = "none"
    BY <1>4 DEF Reconcile, CompanyInv, TypeOK, Sites, OkNext
  <2> QED BY <1>1, <1>4, <2>1 DEF Reconcile, Plain, files, canceler
<1>5. CASE SaveWrite \/ SaveRename \/ SaveFailed
  BY <1>5 DEF SaveWrite, SaveRename, SaveFailed, ApartInv, canceler
<1>6. CASE RunStep /\ ~SaveWrite /\ ~SaveRename /\ ~SaveFailed
  BY <1>1, <1>6, RunPlain
<1>7. CASE CancelWrite
  BY <1>7 DEF CancelWrite, ApartInv, CompanyInv, TypeOK, CancelInv, run
<1>8. CASE CancelRename
  BY <1>8 DEF CancelRename, ApartInv, run
<1>9. CASE CancelFailed \/ CancelReap \/ CancelStop \/ CancelClear
  BY <1>9 DEF CancelFailed, CancelReap, CancelStop, CancelClear, ApartInv,
              files, run
<1>10. CASE Restart
  BY <1>10 DEF Restart, ApartInv
<1>11. CASE UNCHANGED vars
  BY <1>11 DEF vars, files, run, canceler, ApartInv
<1> QED BY <1>2, <1>3, <1>4, <1>5, <1>6, <1>7, <1>8, <1>9, <1>10, <1>11
    DEF Next, CancelStep

\* A tombstone is overwritten by nobody, if the cancel's load-to-rename and
\* the run's guard-to-rename do not overlap.
THEOREM CancelFinal ==
  ASSUME ~Overlap
  PROVE  Spec => CancelIsFinal
<1>1. Init => ApartInv
  BY DEF Init, ApartInv
<1>2. ASSUME CompanyInv, ApartInv, [Next]_vars,
             NEW i \in Instances, file[i].status = "cancelled"
      PROVE  file'[i].status = "cancelled"
  <2>1. CASE \E j \in Instances : Instantiate(j)
    <3>1. PICK j \in Instances : Instantiate(j)
      BY <2>1
    <3>2. i # j
      BY <1>2, <3>1, MissingGood DEF Instantiate
    <3> QED BY <1>2, <3>1, <3>2 DEF Instantiate, CompanyInv, TypeOK
  <2>2. CASE SaveRename
    BY <1>2, <2>2 DEF SaveRename, ApartInv, CompanyInv, TypeOK
  <2>3. CASE CancelRename
    BY <1>2, <2>3 DEF CancelRename, ApartInv, CompanyInv, TypeOK
  <2>4. CASE SaveWrite \/ SaveFailed
    BY <1>2, <2>4 DEF SaveWrite, SaveFailed, files
  <2>5. CASE RunStep /\ ~SaveWrite /\ ~SaveRename /\ ~SaveFailed
    BY <1>2, <2>5, RunPlain
  <2>6. CASE \/ \E j \in Instances : Resume(j) \/ CancelLoad(j)
             \/ Reconcile \/ Restart
    BY <1>2, <2>6 DEF Resume, CancelLoad, Reconcile, Restart, files
  <2>7. CASE CancelWrite \/ CancelFailed \/ CancelReap \/ CancelStop \/ CancelClear
    BY <1>2, <2>7 DEF CancelWrite, CancelFailed, CancelReap, CancelStop,
                      CancelClear, files
  <2>8. CASE UNCHANGED vars
    BY <1>2, <2>8 DEF vars, files
  <2> QED BY <1>2, <2>1, <2>2, <2>3, <2>4, <2>5, <2>6, <2>7, <2>8
      DEF Next, CancelStep
<1>3. CompanyInv /\ ApartInv /\ [Next]_vars =>
        [\A i \in Instances :
           file[i].status = "cancelled" => file'[i].status = "cancelled"]_vars
  BY <1>2
<1>4. CompanyInv /\ ApartInv /\ [Next]_vars => ApartInv'
  BY ApartKeeps
<1> QED BY <1>1, <1>3, <1>4, CompanyInductive, PTL DEF Spec, CancelIsFinal

-----------------------------------------------------------------------------
(* A complete manifest is earned, overlapping saves included.              *)

\* Where every provisioning step, and each phase after them, is on disk.
AfterBind == {"issue", "create", "complete"}
AfterMembership == {"bind", "bringUp", "spawn", "ready"} \cup AfterBind
AfterIdentities == {"membership", "join"} \cup AfterMembership
AfterSteps == {"identities", "mint", "minted"} \cup AfterIdentities

\* The manifest m records what a run that is at this place has done.
Fit(here, m) ==
  /\ here \in AfterSteps => m.steps = Steps
  /\ here \in AfterIdentities => "identities" \in m.phases
  /\ here \in AfterMembership => "membership" \in m.phases
  /\ here \in AfterBind => "symphony_bind" \in m.phases
  /\ here = "complete" => m.runId

Honest(m) ==
  /\ m.status = "complete" =>
       LifecycleIsComplete(m) /\ m.steps = Steps /\ "run_issue" \in m.phases
  /\ m.runId => "run_issue" \in m.phases

\* A temporary file whose rename can only end the run.
Harmless(m) == m.status \in {"none", "cancelled"}

\* The run's next save, and the file its next checkpoint is made from, record
\* what the run has done; only a tombstone may come between.
EarnInv ==
  /\ \A i \in Instances : Honest(file[i]) /\ Honest(tmp[i])
  /\ Honest(mem) /\ Honest(cmem)
  /\ rpc \in {"steps", "ensure"} \/ (rpc = "step" /\ saving # "none") =>
       mem.status # "complete"
  /\ saving # "none" => Fit(OkNext[rpc], mem)
  /\ saving = "rename" => Harmless(tmp[inst]) \/ tmp[inst] = mem
  /\ saving = "none" /\ rpc \in AfterSteps /\ mode # "rebind" =>
       /\ Harmless(tmp[inst])
       /\ file[inst].status = "cancelled" \/ Fit(rpc, file[inst])
  /\ rpc = "create" => Fit("create", mem)

\* A run's and a cancel's changes leave a manifest honest.
LEMMA HonestChanges ==
  ASSUME NEW m \in Manifests, Honest(m)
  PROVE  /\ \A s \in {"in_progress", "resumable"} :
              Honest([m EXCEPT !.status = s])
         /\ \A p \in Phases : Honest(Checkpoint(m, p))
         /\ m.status # "complete" => Honest([m EXCEPT !.steps = @ + 1])
         /\ Honest([Checkpoint(m, "run_issue") EXCEPT !.runId = TRUE])
         /\ Fit("complete", m) => Honest([m EXCEPT !.status = "complete"])
         /\ Honest(Tombstone(m))
<1>1. \A s \in {"in_progress", "resumable"} : Honest([m EXCEPT !.status = s])
  BY DEF Honest, Manifests
<1>2. \A p \in Phases : Honest(Checkpoint(m, p)) /\ Checkpoint(m, p) \in Manifests
  BY DEF Honest, Manifests, Checkpoint, LifecycleIsComplete
<1>3. m.status # "complete" => Honest([m EXCEPT !.steps = @ + 1])
  BY DEF Honest, Manifests
<1>4. Honest([Checkpoint(m, "run_issue") EXCEPT !.runId = TRUE])
  <2> DEFINE k == Checkpoint(m, "run_issue")
  <2>1. k \in Manifests /\ Honest(k) /\ "run_issue" \in k.phases
    BY <1>2 DEF Phases, Checkpoint, Manifests
  <2> HIDE DEF k
  <2>2. Honest([k EXCEPT !.runId = TRUE])
    BY <2>1 DEF Honest, Manifests, LifecycleIsComplete
  <2> QED BY <2>2 DEF k
<1>5. Fit("complete", m) => Honest([m EXCEPT !.status = "complete"])
  BY DEF Fit, Honest, Manifests, LifecycleIsComplete, AfterSteps,
         AfterIdentities, AfterMembership, AfterBind
<1>6. Honest(Tombstone(m))
  <2> DEFINE k == [m EXCEPT !.status = "cancelled"]
  <2>1. k \in Manifests /\ k.status = "cancelled" /\ Honest(k)
    BY DEF Honest, Manifests
  <2>2. Tombstone(m) = [k EXCEPT !.gen = @ + 1]
    BY Zenon DEF Tombstone
  <2> HIDE DEF k
  <2>3. Honest([k EXCEPT !.gen = @ + 1])
    BY <2>1 DEF Honest, Manifests
  <2> QED BY <2>2, <2>3
<1> QED BY <1>1, <1>2, <1>3, <1>4, <1>5, <1>6

\* A missing and a new manifest are honest.
LEMMA HonestFirst == Honest(Missing) /\ Honest(Fresh)
BY DEF Honest, Missing, Fresh, Manifest

\* A step that moves the run on, to a place the file is fit for.
LEMMA EarnMove ==
  ASSUME EarnInv,
         UNCHANGED <<file, tmp, cmem>>, saving = "none", saving' = "none",
         mem' \in {mem, Missing}, rpc' \notin {"steps", "ensure", "create"},
         rpc' \in AfterSteps /\ mode' # "rebind" =>
           /\ inst' = inst /\ Harmless(tmp[inst])
           /\ file[inst].status = "cancelled" \/ Fit(rpc', file[inst])
  PROVE  EarnInv'
<1>1. Honest(mem')
  BY HonestFirst DEF EarnInv
<1> QED BY <1>1 DEF EarnInv

\* A step that begins a save of what the run has done.
LEMMA EarnSave ==
  ASSUME EarnInv, NEW site \in Sites, NEW m, Save(site, m), saving = "none",
         UNCHANGED <<file, tmp, inst, cmem>>,
         file[inst].status # "cancelled" =>
           /\ Honest(m) /\ Fit(OkNext[site], m)
           /\ site = "step" => m.status # "complete"
  PROVE  EarnInv'
<1>1. CASE file[inst].status = "cancelled"
  <2>1. rpc' = "cleanup" /\ mem' = mem /\ saving' = "none"
    BY <1>1 DEF Save
  <2>2. rpc' \notin AfterSteps \cup {"steps", "ensure", "create"}
    BY <2>1 DEF AfterSteps, AfterIdentities, AfterMembership, AfterBind
  <2> QED BY <2>1, <2>2, EarnMove
<1>2. CASE file[inst].status # "cancelled"
  <2>1. rpc' = site /\ mem' = m /\ saving' = "write"
    BY <1>2 DEF Save
  <2>2. site \notin {"steps", "ensure", "create"}
    BY DEF Sites, OkNext
  <2> QED BY <1>2, <2>1, <2>2 DEF EarnInv
<1> QED BY <1>1, <1>2

\* The file operations of a save keep what the run has done.
LEMMA EarnFileOps ==
  ASSUME CompanyInv, EarnInv, SaveWrite \/ SaveRename \/ SaveFailed
  PROVE  EarnInv'
<1>1. rpc \in Sites /\ inst \in Instances
  <2>1. saving # "none"
    BY DEF SaveWrite, SaveRename, SaveFailed
  <2>2. rpc \in Sites
    BY <2>1 DEF CompanyInv, TypeOK
  <2> QED BY <2>2 DEF CompanyInv, RunInv, Sites, OkNext, Outside
<1>2. CASE SaveWrite
  BY <1>1, <1>2 DEF SaveWrite, EarnInv, CompanyInv, TypeOK, canceler
<1>3. CASE SaveRename
  <2>1. /\ saving = "rename" /\ saving' = "none" /\ rpc' = OkNext[rpc]
        /\ file' = [file EXCEPT ![inst] = tmp[inst]]
        /\ tmp' = [tmp EXCEPT ![inst] = Missing]
        /\ mem' = IF rpc = "step" THEN mem ELSE Missing
        /\ UNCHANGED <<mode, inst, cmem>> /\ tmp[inst] # Missing
    BY <1>3 DEF SaveRename, canceler
  <2>2. tmp[inst].status # "none"
    BY <1>1, <2>1 DEF CompanyInv, FileInv
  <2>3. \A i \in Instances : Honest(file'[i]) /\ Honest(tmp'[i])
    BY <1>1, <2>1, HonestFirst DEF EarnInv, CompanyInv, TypeOK
  <2>4. Honest(mem') /\ Honest(cmem')
    BY <2>1, HonestFirst DEF EarnInv
  <2>5. rpc' \notin {"ensure", "create", "step"} /\ (rpc' = "steps" => rpc = "step")
    BY <1>1, <2>1 DEF Sites, OkNext
  <2>6. rpc' = "steps" => mem'.status # "complete"
    BY <2>1, <2>5 DEF EarnInv
  <2>7. file'[inst] = tmp[inst] /\ tmp'[inst] = Missing
    BY <1>1, <2>1 DEF CompanyInv, TypeOK
  <2>8. Harmless(tmp'[inst'])
    BY <2>1, <2>7, MissingGood DEF Harmless
  <2>9. file'[inst'].status = "cancelled" \/ Fit(rpc', file'[inst'])
    BY <2>1, <2>2, <2>7 DEF EarnInv, Harmless
  <2> QED BY <2>1, <2>3, <2>4, <2>5, <2>6, <2>8, <2>9 DEF EarnInv
<1>4. CASE SaveFailed
  <2>1. ErrNext[rpc] \notin AfterSteps \cup {"steps", "ensure", "create", "step"}
    BY <1>1 DEF Sites, OkNext, ErrNext, AfterSteps, AfterIdentities,
                AfterMembership, AfterBind
  <2>2. /\ saving' = "none" /\ rpc' = ErrNext[rpc] /\ mem' = Missing
        /\ UNCHANGED <<file, tmp, cmem>>
    BY <1>4 DEF SaveFailed, files, canceler
  <2> QED BY <2>1, <2>2, HonestFirst DEF EarnInv
<1> QED BY <1>2, <1>3, <1>4

\* Provisioning counts every step before it leaves them.
LEMMA EarnProvision ==
  ASSUME CompanyInv, EarnInv,
         Load \/ NextStep \/ EnsureDone \/ EnsureFailed \/ StepsDone
  PROVE  EarnInv'
<1>1. saving = "none" /\ rpc \in {"load", "steps", "ensure"} /\ inst \in Instances
  BY DEF Load, NextStep, EnsureDone, EnsureFailed, StepsDone, At, CompanyInv,
         RunInv, Outside
<1>2. {"step", "stepFailed", "provisioned"} \subseteq Sites
  BY DEF Sites, OkNext
<1>3. mem \in Manifests /\ file[inst] \in Manifests
  BY <1>1 DEF CompanyInv, TypeOK
<1>4. {"steps", "ensure", "cleanup"} \cap (AfterSteps \cup {"create"}) = {}
  BY DEF AfterSteps, AfterIdentities, AfterMembership, AfterBind
<1>5. CASE Load
  <2>1. CASE file[inst].status = "cancelled"
    BY <1>1, <1>4, <1>5, <2>1, EarnMove DEF Load, files, canceler
  <2>2. CASE file[inst].status # "cancelled"
    <3> DEFINE m == [file[inst] EXCEPT !.status =
                       IF file[inst].status = "complete" THEN "in_progress"
                       ELSE file[inst].status]
    <3>1. /\ rpc' = "steps" /\ mem' = m
          /\ UNCHANGED <<file, tmp, mode, inst, saving, cmem>>
      BY <1>5, <2>2 DEF Load, files, canceler
    <3>2. Honest(m) /\ m.status # "complete"
      BY <1>1, <1>3 DEF EarnInv, Honest, Manifests
    <3> HIDE DEF m
    <3> QED BY <1>1, <1>4, <3>1, <3>2 DEF EarnInv
  <2> QED BY <2>1, <2>2
<1>6. CASE NextStep
  <2>1. /\ rpc = "steps" /\ rpc' \in {"cleanup", "ensure"}
        /\ UNCHANGED <<file, tmp, mode, inst, mem, saving, cmem>>
    BY <1>6 DEF NextStep, At, UnlessCancelled, Goto, files, canceler
  <2> QED BY <1>1, <1>4, <2>1 DEF EarnInv
<1>7. CASE EnsureDone
  <2> DEFINE m == [mem EXCEPT !.steps = @ + 1]
  <2>1. mem.status # "complete"
    BY <1>7 DEF EnsureDone, At, EarnInv
  <2>2. Honest(m) /\ m.status # "complete"
    BY <1>3, <2>1, HonestChanges DEF EarnInv, Manifests
  <2>3. Fit(OkNext["step"], m)
    BY <1>4 DEF OkNext, Fit, AfterSteps, AfterIdentities, AfterMembership, AfterBind
  <2>4. Save("step", m) /\ UNCHANGED <<file, tmp, inst, cmem>>
    BY <1>7 DEF EnsureDone, Saves, files, canceler
  <2> QED BY <1>1, <1>2, <2>2, <2>3, <2>4, EarnSave
<1>8. CASE EnsureFailed
  <2> DEFINE m == [mem EXCEPT !.status = "resumable"]
  <2>1. Honest(m)
    BY <1>3, HonestChanges DEF EarnInv
  <2>2. Fit(OkNext["stepFailed"], m)
    BY DEF OkNext, Fit, AfterSteps, AfterIdentities, AfterMembership, AfterBind
  <2>3. Save("stepFailed", m) /\ UNCHANGED <<file, tmp, inst, cmem>>
    BY <1>8 DEF EnsureFailed, Saves, files, canceler
  <2> QED BY <1>1, <1>2, <2>1, <2>2, <2>3, EarnSave
<1>9. CASE StepsDone
  <2> DEFINE m == [mem EXCEPT !.status = "in_progress"]
  <2>1. Honest(m)
    BY <1>3, HonestChanges DEF EarnInv
  <2>2. m.steps = Steps
    BY <1>3, <1>9 DEF StepsDone, Manifests
  <2>3. Fit(OkNext["provisioned"], m)
    BY <2>2 DEF OkNext, Fit, AfterIdentities, AfterMembership, AfterBind
  <2>4. Save("provisioned", m) /\ UNCHANGED <<file, tmp, inst, cmem>>
    BY <1>9 DEF StepsDone, Saves, files, canceler
  <2> QED BY <1>1, <1>2, <2>1, <2>3, <2>4, EarnSave
<1> QED BY <1>5, <1>6, <1>7, <1>8, <1>9

\* A checkpoint of the file carries over what the file records.
LEMMA EarnCheckpoint ==
  ASSUME CompanyInv, EarnInv, NEW site \in Sites, NEW phase \in Phases,
         saving = "none", rpc \in AfterSteps, mode # "rebind",
         Saves(site, Checkpoint(file[inst], phase)), site # "step",
         \/ site = "identitiesSaved" /\ phase = "identities"
         \/ site = "membershipSaved" /\ phase = "membership"
            /\ rpc \in AfterIdentities
         \/ site = "bindSaved" /\ phase = "symphony_bind"
            /\ rpc \in AfterMembership
  PROVE  EarnInv'
<1> DEFINE m == Checkpoint(file[inst], phase)
<1>1. inst \in Instances /\ file[inst] \in Manifests /\ Honest(file[inst])
  BY DEF CompanyInv, RunInv, TypeOK, EarnInv, Outside, AfterSteps,
         AfterIdentities, AfterMembership, AfterBind
<1>2. Honest(m)
  BY <1>1, HonestChanges
<1>3. m.steps = file[inst].steps /\ m.phases = file[inst].phases \cup {phase}
  BY <1>1 DEF Checkpoint, Manifests
<1>4. file[inst].status # "cancelled" => Fit(rpc, file[inst])
  BY DEF EarnInv
<1> HIDE DEF m
<1>5. file[inst].status # "cancelled" => Fit(OkNext[site], m)
  BY <1>3, <1>4 DEF Fit, OkNext, AfterSteps, AfterIdentities, AfterMembership,
                    AfterBind
<1>6. Save(site, m) /\ UNCHANGED <<file, tmp, inst, cmem>>
  BY DEF m, Saves, files, canceler
<1> QED BY <1>2, <1>5, <1>6, EarnSave

\* The rebind at boot goes through a run's bring-up and nothing else of it.
RebindInv ==
  mode = "rebind" =>
    rpc \in {"bringUp", "spawn", "ready", "reload", "end", "idle"}

\* Every step keeps the rebind to its own places.
LEMMA RebindKeeps ==
  ASSUME CompanyInv, RebindInv, [Next]_vars
  PROVE  RebindInv'
<1>1. CASE \E i \in Instances : Instantiate(i) \/ Resume(i)
  BY <1>1 DEF Instantiate, Resume, Enter, RebindInv
<1>2. CASE (\E i \in Instances : CancelLoad(i)) \/ CancelStep
  <2>1. UNCHANGED run
    BY <1>2, Zenon DEF CancelLoad, CancelStep, CancelWrite, CancelRename,
                       CancelFailed, CancelReap, CancelStop, CancelClear
  <2> QED BY <2>1 DEF run, RebindInv
<1>3. CASE Reconcile \/ Rebind \/ Restart
  BY <1>3 DEF Reconcile, Rebind, Restart, RebindInv
<1>4. CASE SaveWrite \/ SaveRename \/ SaveFailed
  <2>1. rpc \in Sites /\ mode' = mode
    BY <1>4 DEF SaveWrite, SaveRename, SaveFailed, CompanyInv, TypeOK
  <2> QED BY <2>1 DEF RebindInv, Sites, OkNext
<1>5. CASE Load \/ NextStep \/ EnsureDone \/ EnsureFailed \/ StepsDone
  BY <1>5 DEF Load, NextStep, EnsureDone, EnsureFailed, StepsDone, At, Saves,
              UnlessCancelled, Goto, RebindInv
<1>6. CASE \/ Identities \/ Mint \/ MintFailed \/ IdentitiesDone
           \/ Membership \/ JoinDone \/ JoinFailed
  BY <1>6 DEF Identities, Mint, MintFailed, IdentitiesDone, Membership,
              JoinDone, JoinFailed, At, Saves, UnlessCancelled, Goto, RebindInv
<1>7. CASE Bind \/ BindAborted \/ BringUp \/ BringUpEnds \/ BindDone
  BY <1>7 DEF Bind, BindAborted, BringUp, BringUpEnds, BindDone, At, Saves,
              UnlessCancelled, Goto, RebindInv
<1>8. CASE RunIssue \/ CreateIssue \/ CreateIssueFailed \/ Complete
  BY <1>8 DEF RunIssue, CreateIssue, CreateIssueFailed, Complete, At, Saves,
              Goto, RebindInv
<1>9. CASE \/ Activate \/ Recheck \/ Failed \/ Cleanup \/ Return
           \/ MarkResumable("fail", "failing")
           \/ MarkResumable("fault", "faulting")
  BY <1>9 DEF Activate, Recheck, Failed, Cleanup, Return, MarkResumable, At,
              UnlessCancelled, Goto, RebindInv
<1>10. CASE (\E i \in Instances : ReconcileNext(i)) \/ RebindReady \/ RebindReload
  BY <1>10 DEF ReconcileNext, RebindReady, RebindReload, At, RebindInv
<1>11. CASE UNCHANGED vars
  BY <1>11 DEF vars, run, RebindInv
<1> QED BY <1>1, <1>2, <1>3, <1>4, <1>5, <1>6, <1>7, <1>8, <1>9, <1>10, <1>11
    DEF Next, RunStep

\* Identities, membership and binding reach no place they have not earned.
LEMMA EarnPhases ==
  ASSUME CompanyInv, RebindInv, EarnInv,
         \/ Identities \/ Mint \/ MintFailed \/ IdentitiesDone
         \/ Membership \/ JoinDone \/ JoinFailed
         \/ Bind \/ BindAborted \/ BringUp \/ BringUpEnds \/ BindDone
  PROVE  EarnInv'
<1>1. saving = "none" /\ rpc \in AfterSteps /\ rpc \notin {"steps", "ensure", "create"}
  BY DEF Identities, Mint, MintFailed, IdentitiesDone, Membership, JoinDone,
         JoinFailed, Bind, BindAborted, BringUp, BringUpEnds, BindDone, At,
         AfterSteps, AfterIdentities, AfterMembership, AfterBind
<1>2. /\ mode # "rebind" => Harmless(tmp[inst])
      /\ mode # "rebind" =>
           file[inst].status = "cancelled" \/ Fit(rpc, file[inst])
  BY <1>1 DEF EarnInv
<1>3. ASSUME UNCHANGED <<file, tmp, mode, inst, mem, saving, cmem>>,
             rpc' \notin {"steps", "ensure", "create"},
             \A m : rpc' \in AfterSteps /\ mode # "rebind" /\ Fit(rpc, m) =>
                      Fit(rpc', m)
      PROVE  EarnInv'
  BY <1>1, <1>2, <1>3, EarnMove
<1>4. CASE Identities \/ Mint \/ MintFailed
  <2>1. /\ rpc \in {"identities", "mint"}
        /\ rpc' \in {"mint", "minted", "cleanup", "fail"}
        /\ UNCHANGED <<file, tmp, mode, inst, mem, saving, cmem>>
    BY <1>4 DEF Identities, Mint, MintFailed, At, UnlessCancelled, Goto, files,
                canceler
  <2>2. \A m : rpc' \in AfterSteps /\ Fit(rpc, m) => Fit(rpc', m)
    BY <2>1 DEF Fit, AfterSteps, AfterIdentities, AfterMembership, AfterBind
  <2> QED BY <1>3, <2>1, <2>2
<1>5. CASE IdentitiesDone
  BY <1>1, <1>5, EarnCheckpoint
  DEF IdentitiesDone, At, RebindInv, Sites, OkNext, Phases
<1>6. CASE Membership
  <2>1. /\ rpc = "membership" /\ rpc' \in {"bind", "join", "cleanup"}
        /\ rpc' = "bind" => "membership" \in file[inst].phases
        /\ UNCHANGED <<file, tmp, mode, inst, mem, saving, cmem>>
    BY <1>6 DEF Membership, At, UnlessCancelled, Goto, files, canceler
  <2>2. rpc' \in AfterSteps /\ Fit(rpc, file[inst]) => Fit(rpc', file[inst])
    BY <2>1 DEF Fit, AfterSteps, AfterIdentities, AfterMembership, AfterBind
  <2> QED BY <1>1, <1>2, <2>1, <2>2, EarnMove
<1>7. CASE JoinDone
  BY <1>1, <1>7, EarnCheckpoint
  DEF JoinDone, At, RebindInv, Sites, OkNext, Phases, AfterIdentities
<1>8. CASE JoinFailed
  <2>1. rpc' = "fail" /\ UNCHANGED <<file, tmp, mode, inst, mem, saving, cmem>>
    BY <1>8 DEF JoinFailed, Goto, files, canceler
  <2>2. rpc' \notin AfterSteps
    BY <2>1 DEF AfterSteps, AfterIdentities, AfterMembership, AfterBind
  <2> QED BY <1>3, <2>1, <2>2
<1>9. CASE Bind \/ BindAborted \/ BringUp \/ BringUpEnds
  <2>1. /\ rpc \in {"bind", "bringUp", "spawn"}
        /\ rpc' \in {"bringUp", "spawn", "ready", "cleanup", "end"}
        /\ UNCHANGED <<file, tmp, mode, inst, mem, saving, cmem>>
    BY <1>9 DEF Bind, BindAborted, BringUp, BringUpEnds, At, UnlessCancelled,
                Goto, files, canceler
  <2>2. \A m : rpc' \in AfterSteps /\ Fit(rpc, m) => Fit(rpc', m)
    BY <2>1 DEF Fit, AfterSteps, AfterIdentities, AfterMembership, AfterBind
  <2> QED BY <1>3, <2>1, <2>2
<1>10. CASE BindDone
  <2>1. CASE symphony = 0
    <3>1. rpc' = "fail" /\ UNCHANGED <<file, tmp, mode, inst, mem, saving, cmem>>
      BY <1>10, <2>1 DEF BindDone, Goto, files, canceler
    <3>2. rpc' \notin AfterSteps
      BY <3>1 DEF AfterSteps, AfterIdentities, AfterMembership, AfterBind
    <3> QED BY <1>3, <3>1, <3>2
  <2>2. CASE symphony # 0
    BY <1>1, <1>10, <2>2, EarnCheckpoint
    DEF BindDone, At, Sites, OkNext, Phases, AfterMembership
  <2> QED BY <2>1, <2>2
<1> QED BY <1>4, <1>5, <1>6, <1>7, <1>8, <1>9, <1>10

\* The run's id and the status "complete" are saved on top of every phase.
LEMMA EarnIssue ==
  ASSUME CompanyInv, RebindInv, EarnInv,
         RunIssue \/ CreateIssue \/ CreateIssueFailed \/ Complete
  PROVE  EarnInv'
<1>1. /\ saving = "none" /\ rpc \in {"issue", "create", "complete"}
      /\ inst \in Instances /\ mode # "rebind"
  BY DEF RunIssue, CreateIssue, CreateIssueFailed, Complete, At, CompanyInv,
         RunInv, Outside, RebindInv
<1>2. /\ Harmless(tmp[inst])
      /\ file[inst].status = "cancelled" \/ Fit(rpc, file[inst])
  BY <1>1 DEF EarnInv, AfterSteps, AfterIdentities, AfterMembership, AfterBind
<1>3. file[inst] \in Manifests /\ mem \in Manifests
  BY <1>1 DEF CompanyInv, TypeOK
<1>4. Honest(file[inst]) /\ Honest(mem)
  BY <1>1 DEF EarnInv
<1>5. {"cleanup", "fail"} \cap AfterSteps = {}
  BY DEF AfterSteps, AfterIdentities, AfterMembership, AfterBind
<1>6. CASE RunIssue
  <2>1. /\ rpc = "issue" /\ rpc' \in {"complete", "cleanup", "create"}
        /\ rpc' = "complete" => file[inst].runId /\ mem' = mem
        /\ rpc' = "cleanup" => mem' = mem
        /\ rpc' = "create" => file[inst].status # "cancelled" /\ mem' = file[inst]
        /\ UNCHANGED <<file, tmp, mode, inst, saving, cmem>>
    BY <1>6 DEF RunIssue, At, Cancelled, files, canceler
  <2>2. CASE rpc' = "create"
    <3>1. Fit("create", file[inst])
      BY <1>2, <2>1, <2>2 DEF Fit, AfterSteps, AfterIdentities,
                              AfterMembership, AfterBind
    <3> QED BY <1>1, <1>2, <1>4, <2>1, <2>2, <3>1 DEF EarnInv
  <2>3. CASE rpc' = "complete"
    <3>1. file[inst].status = "cancelled" \/ Fit(rpc', file[inst])
      BY <1>2, <2>1, <2>3 DEF Fit, AfterSteps, AfterIdentities,
                              AfterMembership, AfterBind
    <3> QED BY <1>1, <1>2, <2>1, <2>3, <3>1, EarnMove
  <2>4. CASE rpc' = "cleanup"
    BY <1>1, <1>5, <2>1, <2>4, EarnMove
  <2> QED BY <2>1, <2>2, <2>3, <2>4
<1>7. CASE CreateIssue
  <2> DEFINE k == Checkpoint(mem, "run_issue")
             m == [k EXCEPT !.runId = TRUE]
  <2>1. Honest(m)
    BY <1>3, <1>4, HonestChanges
  <2>2. Fit("create", mem)
    BY <1>7 DEF CreateIssue, At, EarnInv
  <2>3. k \in Manifests /\ k.steps = mem.steps /\ mem.phases \subseteq k.phases
    BY <1>3 DEF Checkpoint, Manifests, Phases
  <2>4. m.steps = k.steps /\ m.phases = k.phases /\ m.runId
    BY <2>3 DEF Manifests
  <2>5. Save("issueSaved", m) /\ UNCHANGED <<file, tmp, inst, cmem>>
    BY <1>7 DEF CreateIssue, files, canceler
  <2> HIDE DEF k, m
  <2>6. Fit("complete", m)
    BY <2>2, <2>3, <2>4 DEF Fit, AfterSteps, AfterIdentities, AfterMembership,
                            AfterBind
  <2>7. OkNext["issueSaved"] = "complete" /\ "issueSaved" \in Sites
    BY DEF OkNext, Sites
  <2> QED BY <1>1, <2>1, <2>5, <2>6, <2>7, EarnSave
<1>8. CASE CreateIssueFailed
  <2>1. /\ rpc' = "fail" /\ mem' = Missing
        /\ UNCHANGED <<file, tmp, mode, inst, saving, cmem>>
    BY <1>8 DEF CreateIssueFailed, files, canceler
  <2> QED BY <1>1, <1>5, <2>1, EarnMove
<1>9. CASE Complete
  <2>1. CASE Cancelled
    <3>1. /\ rpc' = "cleanup"
          /\ UNCHANGED <<file, tmp, mode, inst, mem, saving, cmem>>
      BY <1>9, <2>1 DEF Complete, Goto, files, canceler
    <3> QED BY <1>1, <1>5, <3>1, EarnMove
  <2>2. CASE ~Cancelled
    <3> DEFINE m == [file[inst] EXCEPT !.status = "complete"]
    <3>1. Fit("complete", file[inst])
      BY <1>2, <1>9, <2>2 DEF Complete, At, Cancelled
    <3>2. Honest(m)
      BY <1>3, <1>4, <3>1, HonestChanges
    <3>3. Save("completed", m) /\ UNCHANGED <<file, tmp, inst, cmem>>
      BY <1>9, <2>2 DEF Complete, Saves, files, canceler
    <3> HIDE DEF m
    <3>4. Fit(OkNext["completed"], m) /\ "completed" \in Sites
      BY DEF Fit, OkNext, Sites, AfterSteps, AfterIdentities, AfterMembership,
             AfterBind
    <3> QED BY <1>1, <3>2, <3>3, <3>4, EarnSave
  <2> QED BY <2>1, <2>2
<1> QED BY <1>6, <1>7, <1>8, <1>9

\* The rest of a run and the boot loop leave the manifests alone.
LEMMA EarnEnd ==
  ASSUME CompanyInv, EarnInv,
         \/ Activate \/ Recheck \/ Failed \/ Cleanup \/ Return
         \/ MarkResumable("fail", "failing")
         \/ MarkResumable("fault", "faulting")
         \/ \E i \in Instances : ReconcileNext(i)
         \/ Rebind \/ RebindReady \/ RebindReload
  PROVE  EarnInv'
<1>1. {"recheck", "cleanup", "end", "scan", "idle", "load", "reload", "failed"}
        \cap (AfterSteps \cup {"steps", "ensure", "create"}) = {}
  BY DEF AfterSteps, AfterIdentities, AfterMembership, AfterBind
<1>2. CASE Activate \/ Recheck \/ Failed \/ Cleanup \/ Return
  <2>1. /\ saving = "none" /\ UNCHANGED <<file, tmp, saving, cmem>>
        /\ mem' \in {mem, Missing}
        /\ rpc' \in {"recheck", "cleanup", "end", "scan", "idle"}
    BY <1>2 DEF Activate, Recheck, Failed, Cleanup, Return, At,
                UnlessCancelled, Goto, files, canceler
  <2> QED BY <1>1, <2>1, EarnMove
<1>3. ASSUME NEW here, NEW site \in {"failing", "faulting"},
             MarkResumable(here, site), rpc \in {"fail", "fault"}
      PROVE  EarnInv'
  <2>1. /\ saving = "none" /\ inst \in Instances
        /\ UNCHANGED <<file, tmp, inst, cmem>>
    BY <1>3 DEF MarkResumable, At, files, canceler, CompanyInv, RunInv, Outside
  <2>2. OkNext[site] \in {"failed", "end"} /\ site \in Sites /\ site # "step"
    BY DEF OkNext, Sites
  <2>3. CASE file[inst].status = "cancelled"
    <3>1. rpc' = OkNext[site] /\ mem' = mem /\ saving' = saving
      BY <1>3, <2>3 DEF MarkResumable
    <3> QED BY <1>1, <2>1, <2>2, <3>1, EarnMove
  <2>4. CASE file[inst].status # "cancelled"
    <3> DEFINE m == [file[inst] EXCEPT !.status = "resumable"]
    <3>1. Honest(m)
      BY <2>1, HonestChanges DEF EarnInv, CompanyInv, TypeOK
    <3>2. Save(site, m)
      BY <1>3, <2>4 DEF MarkResumable, Save
    <3> HIDE DEF m
    <3>3. Fit(OkNext[site], m)
      BY <2>2 DEF Fit, AfterSteps, AfterIdentities, AfterMembership, AfterBind
    <3> QED BY <2>1, <2>2, <3>1, <3>2, <3>3, EarnSave
  <2> QED BY <2>3, <2>4
<1>4. CASE \/ MarkResumable("fail", "failing")
           \/ MarkResumable("fault", "faulting")
  BY <1>3, <1>4 DEF MarkResumable, At
<1>5. CASE \/ \E i \in Instances : ReconcileNext(i)
           \/ Rebind \/ RebindReady \/ RebindReload
  <2>1. /\ saving = "none" /\ UNCHANGED <<file, tmp, saving, mem, cmem>>
        /\ \/ rpc' \in {"scan", "load", "end", "reload"}
           \/ rpc' = "bringUp" /\ mode' = "rebind"
    BY <1>5 DEF ReconcileNext, Rebind, RebindReady, RebindReload, At, files,
                canceler, CompanyInv, TypeOK, Sites, OkNext
  <2> QED BY <1>1, <2>1, EarnMove
<1> QED BY <1>2, <1>4, <1>5

\* A cancel puts nothing but tombstones between a run's saves.
LEMMA EarnCancel ==
  ASSUME CompanyInv, EarnInv, (\E i \in Instances : CancelLoad(i)) \/ CancelStep
  PROVE  EarnInv'
<1>1. UNCHANGED run
  BY Zenon DEF CancelLoad, CancelStep, CancelWrite, CancelRename, CancelFailed,
               CancelReap, CancelStop, CancelClear
<1>2. UNCHANGED <<rpc, mode, inst, mem, saving>>
  BY <1>1 DEF run
<1>3. ASSUME NEW i \in Instances, CancelLoad(i) PROVE EarnInv'
  <2>1. UNCHANGED <<file, tmp>> /\ cmem' \in {cmem, Tombstone(file[i])}
    BY <1>3 DEF CancelLoad, Tombstone, files
  <2>2. Honest(cmem')
    BY <2>1, HonestChanges DEF EarnInv, CompanyInv, TypeOK
  <2> QED BY <1>2, <2>1, <2>2 DEF EarnInv
<1>4. CASE CancelWrite
  <2>1. /\ cinst \in Instances /\ cmem.status = "cancelled" /\ Honest(cmem)
        /\ tmp' = [tmp EXCEPT ![cinst] = cmem] /\ file' = file /\ cmem' = cmem
    BY <1>4 DEF CancelWrite, CompanyInv, CancelInv, EarnInv
  <2>2. \A i \in Instances : Honest(file'[i]) /\ Honest(tmp'[i])
    BY <2>1 DEF EarnInv, CompanyInv, TypeOK
  <2>3. tmp'[inst] = tmp[inst] \/ Harmless(tmp'[inst])
    BY <2>1 DEF Harmless, CompanyInv, TypeOK
  <2> QED BY <1>2, <2>1, <2>2, <2>3 DEF EarnInv
<1>5. CASE CancelRename
  <2>1. /\ cinst \in Instances /\ tmp[cinst] # Missing /\ cmem' = Missing
        /\ file' = [file EXCEPT ![cinst] = tmp[cinst]]
        /\ tmp' = [tmp EXCEPT ![cinst] = Missing]
    BY <1>5 DEF CancelRename, CompanyInv, CancelInv
  <2>2. \A i \in Instances : Honest(file'[i]) /\ Honest(tmp'[i])
    BY <2>1, HonestFirst DEF EarnInv, CompanyInv, TypeOK
  <2>3. tmp'[inst] = tmp[inst] \/ Harmless(tmp'[inst])
    BY <2>1, MissingGood DEF Harmless, CompanyInv, TypeOK
  <2>4. tmp[cinst].status # "none"
    BY <2>1 DEF CompanyInv, FileInv
  <2>5. Harmless(tmp[inst]) =>
          file'[inst] = file[inst] \/ file'[inst].status = "cancelled"
    BY <2>1, <2>4 DEF Harmless, CompanyInv, TypeOK
  <2> QED BY <1>2, <2>1, <2>2, <2>3, <2>5, HonestFirst DEF EarnInv
<1>6. CASE CancelFailed \/ CancelReap \/ CancelStop \/ CancelClear
  <2>1. UNCHANGED <<file, tmp>> /\ cmem' \in {cmem, Missing}
    BY <1>6 DEF CancelFailed, CancelReap, CancelStop, CancelClear, files
  <2>2. Honest(cmem')
    BY <2>1, HonestFirst DEF EarnInv
  <2> QED BY <1>2, <2>1, <2>2 DEF EarnInv
<1> QED BY <1>3, <1>4, <1>5, <1>6 DEF CancelStep

\* Every step keeps the record of what the run has done.
LEMMA EarnKeeps ==
  ASSUME CompanyInv, RebindInv, EarnInv, [Next]_vars
  PROVE  EarnInv'
<1>1. {"load", "scan", "idle"} \cap
        (AfterSteps \cup {"steps", "ensure", "create", "step"}) = {}
  BY DEF AfterSteps, AfterIdentities, AfterMembership, AfterBind
<1>2. rpc = "idle" => saving = "none"
  BY DEF CompanyInv, TypeOK, Sites, OkNext
<1>3. ASSUME NEW i \in Instances, Instantiate(i) PROVE EarnInv'
  <2>1. /\ file' = [file EXCEPT ![i] = Fresh] /\ rpc = "idle" /\ rpc' = "load"
        /\ UNCHANGED <<tmp, mem, saving, cmem>>
    BY <1>3 DEF Instantiate, Enter, canceler
  <2>2. \A j \in Instances : Honest(file'[j])
    BY <2>1, HonestFirst DEF EarnInv, CompanyInv, TypeOK
  <2> QED BY <1>1, <1>2, <2>1, <2>2 DEF EarnInv
<1>4. CASE (\E i \in Instances : Resume(i)) \/ Reconcile
  <2>1. /\ rpc = "idle" /\ rpc' \in {"load", "scan"}
        /\ UNCHANGED <<file, tmp, mem, saving, cmem>>
    BY <1>4 DEF Resume, Enter, Reconcile, files, canceler
  <2> QED BY <1>1, <1>2, <2>1, EarnMove
<1>5. CASE Restart
  BY <1>1, <1>5, HonestFirst DEF Restart, EarnInv
<1>6. CASE RunStep
  BY <1>6, EarnFileOps, EarnProvision, EarnPhases, EarnIssue, EarnEnd
  DEF RunStep
<1>7. CASE UNCHANGED vars
  BY <1>7 DEF vars, files, run, canceler, EarnInv
<1> QED BY <1>3, <1>4, <1>5, <1>6, <1>7, EarnCancel DEF Next

\* No interleaving of saves, cancels, failures and restarts leaves a manifest
\* that is complete without its steps, phases and run id, overlap or not.
THEOREM CompletionIsEarned == Spec => []CompleteIsEarned
<1>1. Init => RebindInv /\ EarnInv
  BY HonestFirst DEF Init, RebindInv, EarnInv, AfterSteps, AfterIdentities,
                     AfterMembership, AfterBind
<1>2. CompanyInv /\ RebindInv /\ EarnInv /\ [Next]_vars => RebindInv' /\ EarnInv'
  BY RebindKeeps, EarnKeeps
<1>3. EarnInv => CompleteIsEarned
  BY DEF EarnInv, Honest, CompleteIsEarned
<1> QED BY <1>1, <1>2, <1>3, CompanyInductive, PTL DEF Spec

-----------------------------------------------------------------------------
(* Without overlapping saves, a cancel releases what its instance holds.   *)

\* Children or the binding of an instance with a tombstone are still to be
\* released by the cancel that wrote it, or by the run that came after.
ReleaseInv ==
  /\ saving = "rename" => tmp[inst].status # "cancelled"
  /\ \A i \in agents :
       file[i].status = "cancelled" =>
         \/ cpc = "reap" /\ cinst = i
         \/ inst = i /\ rpc \in {"minted", "cleanup"}
  /\ active # 0 /\ file[active].status = "cancelled" =>
       \/ cpc \in {"reap", "stop", "clear"} /\ cinst = active
       \/ inst = active /\ rpc \in {"recheck", "reload"}

\* What a step of a run may do to children and binding: bring them up on the
\* way to a look at the manifest, and release them if it is a tombstone.
Releases ==
  /\ \A i \in agents' : i \in agents \/ (inst' = i /\ rpc' = "minted")
  /\ rpc \in {"minted", "cleanup"} /\ file[inst].status = "cancelled" =>
       inst \notin agents' \/ (inst' = inst /\ rpc' = "cleanup")
  /\ active' \in {0, active} \/ (active' = inst' /\ rpc' \in {"recheck", "reload"})
  /\ rpc \in {"recheck", "reload"} /\ file[inst].status = "cancelled" =>
       active' # inst \/ active' = 0

\* Every step of a run is of that kind.
LEMMA RunReleases ==
  ASSUME CompanyInv, RunStep
  PROVE  Releases
<1>1. CASE SaveWrite \/ SaveRename \/ SaveFailed
  <2>1. rpc \in Sites /\ UNCHANGED <<agents, active>>
    BY <1>1 DEF SaveWrite, SaveRename, SaveFailed, CompanyInv, TypeOK, runtime
  <2> QED BY <2>1 DEF Releases, Sites, OkNext
<1>2. CASE \/ Load \/ NextStep \/ EnsureDone \/ EnsureFailed \/ StepsDone
           \/ Identities \/ MintFailed \/ Membership \/ JoinDone \/ JoinFailed
  <2>1. /\ rpc \notin {"minted", "cleanup", "recheck", "reload"}
        /\ UNCHANGED <<agents, active>>
    BY <1>2 DEF Load, NextStep, EnsureDone, EnsureFailed, StepsDone,
                Identities, MintFailed, Membership, JoinDone, JoinFailed, At,
                Saves, UnlessCancelled, Goto, runtime
  <2> QED BY <2>1 DEF Releases
<1>3. CASE Mint
  BY <1>3 DEF Mint, At, Releases
<1>4. CASE IdentitiesDone
  <2>1. /\ rpc = "minted" /\ UNCHANGED <<inst, agents, active>>
        /\ file[inst].status = "cancelled" => rpc' = "cleanup"
    BY <1>4 DEF IdentitiesDone, At, Saves, Save, runtime
  <2> QED BY <2>1 DEF Releases
<1>5. CASE \/ Bind \/ BindAborted \/ BringUp \/ BringUpEnds \/ BindDone
           \/ RunIssue \/ CreateIssue \/ CreateIssueFailed \/ Complete
           \/ Failed \/ Return \/ MarkResumable("fail", "failing")
           \/ MarkResumable("fault", "faulting")
           \/ (\E i \in Instances : ReconcileNext(i)) \/ Rebind
  <2>1. /\ rpc \notin {"minted", "cleanup", "recheck", "reload"}
        /\ UNCHANGED <<agents, active>>
    BY <1>5 DEF Bind, BindAborted, BringUp, BringUpEnds, BindDone, RunIssue,
                CreateIssue, CreateIssueFailed, Complete, Failed, Return,
                MarkResumable, ReconcileNext, Rebind, At, Saves,
                UnlessCancelled, Goto, runtime
  <2> QED BY <2>1 DEF Releases
<1>6. CASE Activate \/ RebindReady
  BY <1>6 DEF Activate, RebindReady, At, Releases
<1>7. CASE Recheck \/ RebindReload
  BY <1>7 DEF Recheck, RebindReload, At, Cancelled, Releases
<1>8. CASE Cleanup
  BY <1>8 DEF Cleanup, At, Releases
<1> QED BY <1>1, <1>2, <1>3, <1>4, <1>5, <1>6, <1>7, <1>8 DEF RunStep

\* Without overlap every step keeps somebody bound to release the instance.
LEMMA ReleaseKeeps ==
  ASSUME ~Overlap, CompanyInv, ApartInv, ReleaseInv, [Next]_vars
  PROVE  ReleaseInv'
<1>1. agents \subseteq Instances /\ (active # 0 => active \in Instances)
  BY CompanyAssumption DEF CompanyInv, TypeOK, Instances
<1>2. rpc = "idle" => saving = "none"
  BY DEF CompanyInv, TypeOK, Sites, OkNext
<1>3. ASSUME NEW i \in Instances, Instantiate(i) PROVE ReleaseInv'
  <2>1. /\ file' = [file EXCEPT ![i] = Fresh] /\ rpc = "idle"
        /\ UNCHANGED <<saving, cpc, cinst, agents, active>>
    BY <1>3 DEF Instantiate, Enter, canceler, runtime
  <2>2. \A j \in Instances : file'[j].status = "cancelled" =>
          file[j].status = "cancelled"
    BY <2>1, FreshLive DEF Live, CompanyInv, TypeOK
  <2> QED BY <1>1, <1>2, <2>1, <2>2 DEF ReleaseInv
<1>4. CASE (\E i \in Instances : Resume(i)) \/ Reconcile
  <2>1. rpc = "idle" /\ UNCHANGED <<file, saving, cpc, cinst, agents, active>>
    BY <1>4 DEF Resume, Enter, Reconcile, files, canceler, runtime
  <2> QED BY <1>2, <2>1 DEF ReleaseInv
<1>5. CASE RunStep
  <2>1. Releases
    BY <1>5, RunReleases
  <2>2. UNCHANGED <<cpc, cinst>>
    <3>1. CASE SaveWrite \/ SaveRename \/ SaveFailed
      BY <3>1 DEF SaveWrite, SaveRename, SaveFailed, canceler
    <3>2. CASE ~SaveWrite /\ ~SaveRename /\ ~SaveFailed
      BY <1>5, <3>2, RunPlain DEF Plain
    <3> QED BY <3>1, <3>2
  <2>3. \A i \in Instances : file'[i].status = "cancelled" =>
          file[i].status = "cancelled"
    <3>1. CASE SaveWrite \/ SaveFailed
      BY <3>1 DEF SaveWrite, SaveFailed, files
    <3>2. CASE SaveRename
      BY <3>2 DEF SaveRename, ReleaseInv, CompanyInv, TypeOK
    <3>3. CASE ~SaveWrite /\ ~SaveRename /\ ~SaveFailed
      BY <1>5, <3>3, RunPlain
    <3> QED BY <3>1, <3>2, <3>3
  <2>4. saving' = "rename" => tmp'[inst'].status # "cancelled"
    <3>1. CASE SaveWrite
      <4>1. inst \in Instances /\ mem.status # "cancelled"
        BY <3>1 DEF SaveWrite, CompanyInv, TypeOK, RunInv, Live, Sites, OkNext,
                    Outside
      <4> QED BY <3>1, <4>1 DEF SaveWrite, CompanyInv, TypeOK
    <3>2. CASE SaveRename \/ SaveFailed
      BY <3>2 DEF SaveRename, SaveFailed
    <3>3. CASE ~SaveWrite /\ ~SaveRename /\ ~SaveFailed
      BY <1>5, <3>3, RunPlain DEF Plain
    <3> QED BY <3>1, <3>2, <3>3
  <2>5. ASSUME NEW i \in agents', file'[i].status = "cancelled"
        PROVE  \/ cpc' = "reap" /\ cinst' = i
               \/ inst' = i /\ rpc' \in {"minted", "cleanup"}
    <3>1. CASE i \in agents
      BY <1>1, <2>1, <2>2, <2>3, <2>5, <3>1 DEF Releases, ReleaseInv
    <3>2. CASE i \notin agents
      BY <2>1, <3>2 DEF Releases
    <3> QED BY <3>1, <3>2
  <2>6. ASSUME active' # 0, file'[active'].status = "cancelled"
        PROVE  \/ cpc' \in {"reap", "stop", "clear"} /\ cinst' = active'
               \/ inst' = active' /\ rpc' \in {"recheck", "reload"}
    <3>1. CASE active' = active
      BY <1>1, <2>1, <2>2, <2>3, <2>6, <3>1 DEF Releases, ReleaseInv
    <3>2. CASE active' # active
      BY <2>1, <2>6, <3>2 DEF Releases
    <3> QED BY <3>1, <3>2
  <2> QED BY <2>4, <2>5, <2>6 DEF ReleaseInv
<1>6. ASSUME NEW i \in Instances, CancelLoad(i) PROVE ReleaseInv'
  <2>1. cpc = "idle" /\ UNCHANGED <<files, run, runtime>>
    BY <1>6 DEF CancelLoad
  <2> QED BY <2>1 DEF ReleaseInv, files, run, runtime
<1>7. CASE CancelWrite
  <2>1. /\ cpc = "write" /\ saving = "none"
        /\ UNCHANGED <<file, run, cinst, runtime>>
    BY <1>7 DEF CancelWrite, ApartInv
  <2> QED BY <2>1 DEF ReleaseInv, run, runtime
<1>8. CASE CancelRename
  <2>1. /\ cpc = "rename" /\ cpc' = "reap" /\ saving = "none"
        /\ cinst \in Instances /\ file' = [file EXCEPT ![cinst] = tmp[cinst]]
        /\ UNCHANGED <<run, cinst, runtime>>
    BY <1>8 DEF CancelRename, ApartInv, CompanyInv, CancelInv
  <2>2. \A i \in Instances : i # cinst => file'[i] = file[i]
    BY <2>1 DEF CompanyInv, TypeOK
  <2> QED BY <1>1, <2>1, <2>2 DEF ReleaseInv, run, runtime
<1>9. CASE CancelFailed
  BY <1>9 DEF CancelFailed, ReleaseInv, files, run, runtime
<1>10. CASE CancelReap
  BY <1>10 DEF CancelReap, ReleaseInv, files, run
<1>11. CASE CancelStop
  BY <1>11 DEF CancelStop, ReleaseInv, files, run
<1>12. CASE CancelClear
  BY <1>12 DEF CancelClear, ReleaseInv, files, run
<1>13. CASE Restart
  BY <1>13 DEF Restart, ReleaseInv
<1>14. CASE UNCHANGED vars
  BY <1>14 DEF vars, files, run, canceler, runtime, ReleaseInv
<1> QED BY <1>3, <1>4, <1>5, <1>6, <1>7, <1>8, <1>9, <1>10, <1>11, <1>12,
           <1>13, <1>14 DEF Next, CancelStep

\* Without overlapping saves, what an instance with a tombstone still holds is
\* always about to be released, by cancel_company_run or by the run.
THEOREM ReleaseInvariant ==
  ASSUME ~Overlap
  PROVE  Spec => []ReleaseInv
<1>1. Init => ApartInv /\ ReleaseInv
  BY DEF Init, ApartInv, ReleaseInv
<1>2. CompanyInv /\ ApartInv /\ ReleaseInv /\ [Next]_vars =>
        ApartInv' /\ ReleaseInv'
  BY ApartKeeps, ReleaseKeeps
<1> QED BY <1>1, <1>2, CompanyInductive, PTL DEF Spec

\* Once run and cancel are over, a cancelled instance has no children, if
\* saves do not overlap.
THEOREM AgentsAreReaped ==
  ASSUME ~Overlap
  PROVE  Spec => []CancelReapsAgents
<1>1. ReleaseInv => CancelReapsAgents
  BY DEF ReleaseInv, CancelReapsAgents, Idle
<1> QED BY <1>1, ReleaseInvariant, PTL

\* Once run and cancel are over, active_company_instance is not an instance
\* with a tombstone, if saves do not overlap.
THEOREM BindingIsReleased ==
  ASSUME ~Overlap
  PROVE  Spec => []NoCancelledBinding
<1>1. ReleaseInv => NoCancelledBinding
  BY DEF ReleaseInv, NoCancelledBinding, Idle
<1> QED BY <1>1, ReleaseInvariant, PTL

-----------------------------------------------------------------------------
(* Without overlapping saves, no checkpoint is lost.                       *)

\* k has every step, phase and id that m has.
Kept(m, k) ==
  /\ m.steps <= k.steps
  /\ m.phases \subseteq k.phases
  /\ m.runId => k.runId

\* What the run holds in memory, is saving or has in the temporary file has all
\* that is on disk; a tombstone under way has exactly that.
KeepInv ==
  /\ rpc \in Loaded \/ saving # "none" => Kept(file[inst], mem)
  /\ saving = "rename" => tmp[inst] = mem
  /\ cpc \in {"write", "rename"} => Kept(file[cinst], cmem) /\ Kept(cmem, file[cinst])
  /\ cpc = "rename" => tmp[cinst] = cmem

\* A step of the run that touches no file, and that uses or saves a manifest
\* with all that is on disk.
Advances ==
  /\ UNCHANGED <<file, tmp, cpc, cinst, cmem>>
  /\ saving' # "rename"
  /\ rpc' \in Loaded \/ saving' # "none" => inst' = inst /\ Kept(file[inst], mem')

\* What a run does to a manifest adds to it.
LEMMA KeptChanges ==
  ASSUME NEW f \in Manifests, NEW m \in Manifests, Kept(f, m)
  PROVE  /\ Kept(f, [m EXCEPT !.steps = @ + 1])
         /\ \A s : Kept(f, [m EXCEPT !.status = s])
         /\ \A p : Kept(f, Checkpoint(m, p))
         /\ \A p : Kept(f, [Checkpoint(m, p) EXCEPT !.runId = TRUE])
         /\ Kept(m, m)
<1>1. f.steps \in Int /\ m.steps \in Int /\ f.steps <= m.steps
  BY CompanyAssumption DEF Manifests, Kept
<1>2. f.steps <= m.steps + 1 /\ m.steps <= m.steps
  BY <1>1
<1>3. Kept(f, [m EXCEPT !.steps = @ + 1]) /\ Kept(m, m)
  BY <1>2 DEF Kept, Manifests
<1>4. \A s : Kept(f, [m EXCEPT !.status = s])
  BY DEF Kept, Manifests
<1>5. ASSUME NEW p
      PROVE  /\ Kept(f, Checkpoint(m, p))
             /\ Kept(f, [Checkpoint(m, p) EXCEPT !.runId = TRUE])
  BY DEF Kept, Manifests, Checkpoint
<1> QED
  BY <1>3, <1>4, <1>5

\* A save that begins with all that is on disk.
LEMMA SaveAdvances ==
  ASSUME NEW site \in Sites, NEW m, Save(site, m), saving = "none",
         UNCHANGED <<file, tmp, cpc, cinst, cmem, inst>>, Kept(file[inst], m)
  PROVE  Advances
<1>1. site \notin Loaded /\ "cleanup" \notin Loaded
  BY DEF Sites, OkNext, Loaded
<1> QED
  BY <1>1 DEF Save, Advances

\* Every step of a run outside the file operations of a save advances.
LEMMA RunAdvances ==
  ASSUME CompanyInv, KeepInv, RunStep, ~SaveWrite, ~SaveRename, ~SaveFailed
  PROVE  Advances
<1> USE DEF files, canceler
<1>1. /\ file \in [Instances -> Manifests] /\ mem \in Manifests
      /\ rpc \notin Outside => inst \in Instances
      /\ inst \in Instances => file[inst] \in Manifests
      /\ \A m \in Manifests : Kept(m, m)
  <2>1. \A m \in Manifests : Kept(m, m)
    BY CompanyAssumption DEF Manifests, Kept
  <2> QED
    BY <2>1 DEF CompanyInv, TypeOK, RunInv
<1>2. rpc \in Loaded => Kept(file[inst], mem)
  BY DEF KeepInv
<1>3. ASSUME saving' = "none", rpc' \notin Loaded, UNCHANGED <<file, tmp, cpc, cinst, cmem>>
      PROVE  Advances
  BY <1>3 DEF Advances
<1>4. CASE Load
  <2> DEFINE m == [file[inst] EXCEPT !.status = IF @ = "complete" THEN "in_progress" ELSE @]
  <2>1. inst \in Instances
    BY <1>1, <1>4 DEF Load, At, Outside
  <2>2. Kept(file[inst], m)
    BY <1>1, <2>1, KeptChanges
  <2>3. /\ saving' = "none" /\ inst' = inst /\ UNCHANGED <<file, tmp, cpc, cinst, cmem>>
        /\ \/ rpc' = "cleanup"
           \/ mem' = m
    BY <1>4 DEF Load, At
  <2> HIDE DEF m
  <2> QED
    BY <2>2, <2>3 DEF Advances, Loaded
<1>5. CASE NextStep
  BY <1>2, <1>5 DEF NextStep, At, UnlessCancelled, Goto, Advances, Loaded
<1>6. CASE EnsureDone \/ EnsureFailed \/ StepsDone
  <2>1. inst \in Instances /\ Kept(file[inst], mem) /\ saving = "none"
    BY <1>1, <1>2, <1>6 DEF EnsureDone, EnsureFailed, StepsDone, At, Outside, Loaded
  <2>2. \E site \in Sites : \E m : Saves(site, m) /\ Kept(file[inst], m)
    <3>1. "step" \in Sites /\ "stepFailed" \in Sites /\ "provisioned" \in Sites
      BY DEF Sites, OkNext
    <3>2. /\ Kept(file[inst], [mem EXCEPT !.steps = @ + 1])
          /\ Kept(file[inst], [mem EXCEPT !.status = "resumable"])
          /\ Kept(file[inst], [mem EXCEPT !.status = "in_progress"])
      BY <1>1, <2>1, KeptChanges
    <3> QED
      BY <1>6, <3>1, <3>2 DEF EnsureDone, EnsureFailed, StepsDone
  <2> QED
    BY <2>1, <2>2, SaveAdvances DEF Saves
<1>7. CASE \/ Identities \/ Mint \/ MintFailed \/ JoinFailed
           \/ Bind \/ BindAborted \/ BringUp \/ BringUpEnds
  BY <1>3, <1>7 DEF Identities, Mint, MintFailed, JoinFailed, Bind, BindAborted,
                    BringUp, BringUpEnds, At, UnlessCancelled, Goto, Loaded
<1>8. CASE Membership
  BY <1>3, <1>8 DEF Membership, At, UnlessCancelled, Goto, Loaded
<1>9. CASE IdentitiesDone \/ JoinDone \/ BindDone
  <2>1. inst \in Instances /\ saving = "none"
    BY <1>1, <1>9 DEF IdentitiesDone, JoinDone, BindDone, At, Outside
  <2>2. CASE Goto("fail")
    BY <1>3, <2>1, <2>2 DEF Goto, Loaded
  <2>3. CASE \E site \in Sites : \E p : Saves(site, Checkpoint(file[inst], p))
    BY <1>1, <2>1, <2>3, KeptChanges, SaveAdvances DEF Saves
  <2>4. {"identitiesSaved", "membershipSaved", "bindSaved"} \subseteq Sites
    BY DEF Sites, OkNext
  <2> QED
    BY <1>9, <2>2, <2>3, <2>4 DEF IdentitiesDone, JoinDone, BindDone
<1>10. CASE RunIssue
  <2>1. inst \in Instances
    BY <1>1, <1>10 DEF RunIssue, At, Outside
  <2> QED
    BY <1>1, <1>10, <2>1 DEF RunIssue, At, Advances, Loaded
<1>11. CASE CreateIssue
  <2> DEFINE m == [Checkpoint(mem, "run_issue") EXCEPT !.runId = TRUE]
  <2>1. inst \in Instances /\ Kept(file[inst], mem) /\ saving = "none"
    BY <1>1, <1>2, <1>11 DEF CreateIssue, At, Outside, Loaded
  <2>2. Kept(file[inst], m) /\ "issueSaved" \in Sites
    BY <1>1, <2>1, KeptChanges DEF Sites, OkNext
  <2>3. Save("issueSaved", m) /\ UNCHANGED <<file, tmp, cpc, cinst, cmem, inst>>
    BY <1>11 DEF CreateIssue
  <2> HIDE DEF m
  <2> QED
    BY <2>1, <2>2, <2>3, SaveAdvances
<1>12. CASE CreateIssueFailed
  BY <1>3, <1>12 DEF CreateIssueFailed, At, Loaded
<1>13. CASE Complete
  <2>1. inst \in Instances /\ saving = "none"
    BY <1>1, <1>13 DEF Complete, At, Outside
  <2>2. CASE Goto("cleanup")
    BY <1>3, <2>1, <2>2 DEF Goto, Loaded
  <2>3. Kept(file[inst], [file[inst] EXCEPT !.status = "complete"]) /\ "completed" \in Sites
    BY <1>1, <2>1, KeptChanges DEF Sites, OkNext
  <2>4. CASE Saves("completed", [file[inst] EXCEPT !.status = "complete"])
    BY <2>1, <2>3, <2>4, SaveAdvances DEF Saves
  <2> QED
    BY <1>13, <2>2, <2>4 DEF Complete
<1>14. CASE Activate \/ Recheck \/ Failed \/ Cleanup \/ Return
  BY <1>3, <1>14 DEF Activate, Recheck, Failed, Cleanup, Return, At, UnlessCancelled,
                     Goto, Loaded
<1>15. ASSUME NEW here \in {"fail", "fault"}, NEW site \in {"failing", "faulting"},
              MarkResumable(here, site)
       PROVE  Advances
  <2> DEFINE m == [file[inst] EXCEPT !.status = "resumable"]
  <2>1. inst \in Instances
    BY <1>1, <1>15 DEF MarkResumable, At, Outside
  <2>2. Kept(file[inst], m)
    BY <1>1, <2>1, KeptChanges
  <2>3. /\ inst' = inst /\ UNCHANGED <<file, tmp, cpc, cinst, cmem>>
        /\ \/ saving' = "none" /\ rpc' = OkNext[site]
           \/ saving' = "write" /\ mem' = m
    BY <1>15 DEF MarkResumable, At
  <2>4. OkNext[site] \notin Loaded
    BY DEF OkNext, Loaded
  <2> HIDE DEF m
  <2> QED
    BY <2>2, <2>3, <2>4 DEF Advances
<1>16. CASE \/ \E i \in Instances : ReconcileNext(i)
            \/ Rebind \/ RebindReady \/ RebindReload
  <2>1. saving = "none"
    BY <1>16 DEF ReconcileNext, Rebind, RebindReady, RebindReload, At,
                 CompanyInv, TypeOK, Sites, OkNext
  <2>2. /\ UNCHANGED <<file, tmp, cpc, cinst, cmem, saving>>
        /\ rpc' \notin Loaded
    BY <1>16 DEF ReconcileNext, Rebind, RebindReady, RebindReload, At, Loaded
  <2> QED
    BY <1>3, <2>1, <2>2
<1> QED
  BY <1>4, <1>5, <1>6, <1>7, <1>8, <1>9, <1>10, <1>11, <1>12, <1>13, <1>14, <1>15, <1>16
  DEF RunStep

\* A step that advances keeps the invariant.
LEMMA AdvancesKeep ==
  ASSUME KeepInv, Advances
  PROVE  KeepInv'
BY DEF KeepInv, Advances, Kept

\* So does every other step: the tombstone is renamed over the manifest it was
\* made from, since no save of the run fell between.
LEMMA KeepKeeps ==
  ASSUME ~Overlap, CompanyInv, ApartInv, KeepInv, [Next]_vars
  PROVE  KeepInv'
<1>1. /\ file \in [Instances -> Manifests] /\ tmp \in [Instances -> Manifests]
      /\ mem \in Manifests /\ cmem \in Manifests
      /\ \A m \in Manifests : Kept(m, m)
  <2>1. \A m \in Manifests : Kept(m, m)
    BY CompanyAssumption DEF Manifests, Kept
  <2> QED
    BY <2>1 DEF CompanyInv, TypeOK
<1>2. saving # "none" =>
        rpc \in Sites /\ inst \in Instances /\ cpc \notin {"write", "rename"}
  <2>1. saving # "none" => rpc \in Sites
    BY DEF CompanyInv, TypeOK
  <2>2. rpc \in Sites => inst \in Instances
    BY DEF CompanyInv, RunInv, Sites, OkNext, Outside
  <2> QED
    BY <2>1, <2>2 DEF ApartInv
<1>3. ASSUME NEW i \in Instances, Instantiate(i) PROVE KeepInv'
  <2>1. saving = "none" /\ saving' = "none" /\ rpc' = "load"
    BY <1>3 DEF Instantiate, Enter, CompanyInv, TypeOK, Sites, OkNext
  <2>2. cpc \in {"write", "rename"} => cinst \in Instances /\ cinst # i
    BY <1>3, MissingGood DEF Instantiate, CompanyInv, CancelInv
  <2>3. UNCHANGED <<tmp, cpc, cinst, cmem>> /\ file' = [file EXCEPT ![i] = Fresh]
    BY <1>3 DEF Instantiate, Enter, canceler
  <2> QED
    BY <1>1, <2>1, <2>2, <2>3 DEF KeepInv, Loaded, Kept
<1>4. ASSUME NEW i \in Instances, Resume(i) PROVE KeepInv'
  <2>1. saving = "none"
    BY <1>4 DEF Resume, Enter, CompanyInv, TypeOK, Sites, OkNext
  <2>2. Advances
    BY <1>4, <2>1 DEF Resume, Enter, Advances, Loaded, files, canceler
  <2> QED
    BY <2>2, AdvancesKeep
<1>5. ASSUME NEW i \in Instances, CancelLoad(i) PROVE KeepInv'
  <2>1. UNCHANGED <<file, tmp, rpc, inst, mem, saving>> /\ cinst' = i /\ cpc' # "rename"
    BY <1>5 DEF CancelLoad, files, run
  <2>2. cpc' = "write" => Kept(file[i], cmem') /\ Kept(cmem', file[i])
    BY <1>1, <1>5 DEF CancelLoad, Kept, Manifests
  <2> QED
    BY <2>1, <2>2 DEF KeepInv, Kept
<1>6. CASE Reconcile
  <2>1. saving = "none"
    BY <1>6 DEF Reconcile, CompanyInv, TypeOK, Sites, OkNext
  <2>2. Advances
    BY <1>6, <2>1 DEF Reconcile, Advances, Loaded, files, canceler
  <2> QED
    BY <2>2, AdvancesKeep
<1>7. CASE SaveWrite
  BY <1>1, <1>2, <1>7 DEF SaveWrite, KeepInv, Kept, canceler
<1>8. CASE SaveRename
  <2>1. /\ saving' = "none" /\ rpc' = OkNext[rpc] /\ rpc \in Sites /\ inst \in Instances
        /\ file' = [file EXCEPT ![inst] = mem]
        /\ mem' = IF rpc = "step" THEN mem ELSE Missing
        /\ cpc' \notin {"write", "rename"} /\ inst' = inst
    BY <1>2, <1>8 DEF SaveRename, KeepInv, canceler
  <2>2. rpc' \in Loaded => rpc = "step"
    BY <2>1 DEF Sites, OkNext, Loaded
  <2>3. file'[inst] = mem
    BY <1>1, <2>1
  <2> QED
    BY <1>1, <2>1, <2>2, <2>3 DEF KeepInv
<1>9. CASE SaveFailed
  <2>1. ErrNext[rpc] \notin Loaded
    BY <1>2, <1>9 DEF SaveFailed, Sites, OkNext, ErrNext, Loaded
  <2> QED
    BY <1>9, <2>1 DEF SaveFailed, KeepInv, Kept, files, canceler
<1>10. CASE RunStep /\ ~SaveWrite /\ ~SaveRename /\ ~SaveFailed
  BY <1>10, RunAdvances, AdvancesKeep
<1>11. CASE CancelWrite
  <2>1. cinst \in Instances /\ saving = "none"
    BY <1>2, <1>11 DEF CancelWrite, CompanyInv, CancelInv
  <2> QED
    BY <1>1, <1>11, <2>1 DEF CancelWrite, KeepInv, Kept, run
<1>12. CASE CancelRename
  <2>1. /\ cinst \in Instances /\ saving = "none" /\ saving' = "none"
        /\ cpc' = "reap" /\ file' = [file EXCEPT ![cinst] = cmem]
        /\ UNCHANGED <<rpc, inst, mem>>
    BY <1>2, <1>12 DEF CancelRename, CompanyInv, CancelInv, KeepInv, run
  <2>2. Kept(cmem, file[cinst])
    BY <1>12 DEF CancelRename, KeepInv
  <2>3. ASSUME rpc \in Loaded PROVE Kept(file'[inst], mem)
    <3>1. inst \in Instances /\ Kept(file[inst], mem)
      BY <2>3 DEF CompanyInv, RunInv, KeepInv, Loaded, Outside
    <3>2. CASE inst = cinst
      <4>1. file'[inst] = cmem /\ Kept(cmem, file[inst])
        BY <1>1, <2>1, <2>2, <3>2
      <4>2. /\ cmem.steps \in Int /\ mem.steps \in Int /\ file[inst].steps \in Int
        BY <1>1, <3>1, CompanyAssumption DEF Manifests
      <4> QED
        BY <3>1, <4>1, <4>2 DEF Kept
    <3>3. CASE inst # cinst
      BY <1>1, <2>1, <3>1, <3>3
    <3> QED
      BY <3>2, <3>3
  <2> QED
    BY <2>1, <2>3 DEF KeepInv
<1>13. CASE CancelFailed \/ CancelReap \/ CancelStop \/ CancelClear
  BY <1>13 DEF CancelFailed, CancelReap, CancelStop, CancelClear, KeepInv, Kept, files, run
<1>14. CASE Restart
  BY <1>14 DEF Restart, KeepInv, Loaded
<1>15. CASE UNCHANGED vars
  BY <1>15 DEF vars, files, run, canceler, KeepInv, Kept
<1> QED
  BY <1>3, <1>4, <1>5, <1>6, <1>7, <1>8, <1>9, <1>10, <1>11, <1>12, <1>13, <1>14, <1>15
  DEF Next, CancelStep

\* A checkpoint on disk is never lost, if the cancel's load-to-rename and the
\* run's guard-to-rename do not overlap: a resumed, failed or cancelled run, or
\* one cut off by a restart, leaves every step, phase and run id that was
\* recorded (JsonManifestSink::save, cancel_company_run).
THEOREM CheckpointsAreKept ==
  ASSUME ~Overlap
  PROVE  Spec => ProgressKept
<1>1. Init => ApartInv /\ KeepInv
  BY DEF Init, ApartInv, KeepInv, Loaded
<1>2. ASSUME CompanyInv, ApartInv, KeepInv, [Next]_vars, NEW i \in Instances
      PROVE  Kept(file[i], file'[i])
  <2>1. file \in [Instances -> Manifests] /\ tmp \in [Instances -> Manifests]
    BY <1>2 DEF CompanyInv, TypeOK
  <2>2. Kept(file[i], file[i])
    BY <2>1, CompanyAssumption DEF Manifests, Kept
  <2>3. CASE \E j \in Instances : Instantiate(j)
    <3>1. PICK j \in Instances : Instantiate(j)
      BY <2>3
    <3>2. Kept(Missing, Fresh)
      BY DEF Kept, Missing, Fresh, Manifest
    <3> QED
      BY <2>1, <2>2, <3>1, <3>2 DEF Instantiate
  <2>4. CASE SaveRename
    <3>1. tmp[inst] = mem /\ Kept(file[inst], mem)
      BY <1>2, <2>4 DEF SaveRename, KeepInv
    <3> QED
      BY <2>1, <2>2, <2>4, <3>1 DEF SaveRename
  <2>5. CASE CancelRename
    <3>1. tmp[cinst] = cmem /\ Kept(file[cinst], cmem)
      BY <1>2, <2>5 DEF CancelRename, KeepInv
    <3> QED
      BY <2>1, <2>2, <2>5, <3>1 DEF CancelRename
  <2>6. CASE SaveWrite \/ SaveFailed
    BY <2>2, <2>6 DEF SaveWrite, SaveFailed, files
  <2>7. CASE RunStep /\ ~SaveWrite /\ ~SaveRename /\ ~SaveFailed
    BY <1>2, <2>2, <2>7, RunPlain
  <2>8. CASE \/ \E j \in Instances : Resume(j) \/ CancelLoad(j)
             \/ Reconcile \/ Restart
    BY <2>2, <2>8 DEF Resume, CancelLoad, Reconcile, Restart, files
  <2>9. CASE CancelWrite \/ CancelFailed \/ CancelReap \/ CancelStop \/ CancelClear
    BY <2>2, <2>9 DEF CancelWrite, CancelFailed, CancelReap, CancelStop, CancelClear, files
  <2>10. CASE UNCHANGED vars
    BY <2>2, <2>10 DEF vars, files
  <2> QED
    BY <1>2, <2>3, <2>4, <2>5, <2>6, <2>7, <2>8, <2>9, <2>10 DEF Next, CancelStep
<1>3. CompanyInv /\ ApartInv /\ KeepInv /\ [Next]_vars =>
        [\A i \in Instances :
           /\ file[i].steps <= file'[i].steps
           /\ file[i].phases \subseteq file'[i].phases
           /\ file[i].runId => file'[i].runId]_vars
  BY <1>2 DEF Kept
<1>4. CompanyInv /\ ApartInv /\ KeepInv /\ [Next]_vars => (ApartInv /\ KeepInv)'
  BY ApartKeeps, KeepKeeps
<1> QED
  BY <1>1, <1>3, <1>4, CompanyInductive, PTL DEF Spec, ProgressKept

-----------------------------------------------------------------------------
(* Without overlapping saves, the files implement the registry.            *)

\* Where a run has nothing more to record.
Settled == {"idle", "scan", "activate", "recheck", "reload", "failed", "cleanup", "end"}

\* A company that is complete is not worked on: neither the file of a run that
\* has more to record nor what it holds is complete, except in the last save. A
\* cancel about to write its tombstone is of an instance without one.
WorkInv ==
  /\ rpc \notin Settled /\ mode # "rebind" => file[inst].status # "complete"
  /\ (saving # "none" /\ rpc # "completed") \/ rpc \in Loaded => mem.status # "complete"
  /\ cpc \in {"write", "rename"} => file[cinst].status # "cancelled"

\* A step that moves the run on.
LEMMA MoveWorks ==
  ASSUME WorkInv, UNCHANGED <<file, inst, mode, cpc, cinst>>, saving' = "none",
         rpc' \notin Loaded, rpc' \in Settled \/ rpc \notin Settled
  PROVE  WorkInv'
BY DEF WorkInv

\* A step that begins a save, of a complete manifest only at the end.
LEMMA SaveWorks ==
  ASSUME WorkInv, NEW site \in Sites, NEW m, Save(site, m), saving = "none",
         UNCHANGED <<file, inst, mode, cpc, cinst>>, rpc \notin Settled,
         site = "completed" \/ m.status # "complete"
  PROVE  WorkInv'
<1>1. site \notin Loaded /\ "cleanup" \notin Loaded /\ "cleanup" \in Settled
  BY DEF Sites, OkNext, Loaded, Settled
<1>2. CASE file[inst].status = "cancelled"
  BY <1>1, <1>2, MoveWorks DEF Save
<1>3. CASE file[inst].status # "cancelled"
  <2>1. rpc' = site /\ mem' = m /\ saving' = "write"
    BY <1>3 DEF Save
  <2> QED
    BY <1>1, <2>1 DEF WorkInv
<1> QED
  BY <1>2, <1>3

\* Every step of a run outside the file operations of a save.
LEMMA RunWorks ==
  ASSUME CompanyInv, RebindInv, EarnInv, WorkInv, RunStep, ~SaveWrite, ~SaveRename, ~SaveFailed
  PROVE  WorkInv'
<1> USE DEF files, canceler
<1>1. /\ mem \in Manifests
      /\ rpc \notin Outside => inst \in Instances /\ file[inst] \in Manifests
      /\ rpc \in Loaded => mem.status # "complete"
      /\ rpc \notin Settled /\ mode # "rebind" => file[inst].status # "complete"
  BY DEF CompanyInv, TypeOK, RunInv, WorkInv
<1>2. CASE Load
  <2> DEFINE m == [file[inst] EXCEPT !.status = IF @ = "complete" THEN "in_progress" ELSE @]
  <2>1. inst \in Instances /\ file[inst] \in Manifests
    BY <1>1, <1>2 DEF Load, At, Outside
  <2>2. m.status # "complete"
    BY <2>1 DEF Manifests
  <2>3. /\ UNCHANGED <<file, inst, mode, cpc, cinst>> /\ saving' = "none"
        /\ rpc' = "cleanup" \/ mem' = m
        /\ rpc' \in {"cleanup", "steps"} /\ rpc = "load"
    BY <1>2 DEF Load, At
  <2> HIDE DEF m
  <2> QED
    BY <2>2, <2>3 DEF WorkInv, Loaded, Settled
<1>3. CASE NextStep
  <2>1. /\ UNCHANGED <<file, inst, mode, mem, cpc, cinst>> /\ saving' = "none" /\ rpc = "steps"
        /\ rpc' \in {"cleanup", "ensure"}
    BY <1>3 DEF NextStep, At, UnlessCancelled, Goto
  <2> QED
    BY <1>1, <2>1 DEF WorkInv, Loaded, Settled
<1>4. CASE EnsureDone \/ EnsureFailed \/ StepsDone
  <2>1. mem.status # "complete" /\ saving = "none" /\ rpc \notin Settled
    BY <1>1, <1>4 DEF EnsureDone, EnsureFailed, StepsDone, At, Loaded, Settled
  <2>2. \E site \in Sites : \E m : Saves(site, m) /\ m.status # "complete"
    <3>1. "step" \in Sites /\ "stepFailed" \in Sites /\ "provisioned" \in Sites
      BY DEF Sites, OkNext
    <3>2. /\ [mem EXCEPT !.steps = @ + 1].status # "complete"
          /\ [mem EXCEPT !.status = "resumable"].status # "complete"
          /\ [mem EXCEPT !.status = "in_progress"].status # "complete"
      BY <1>1, <2>1 DEF Manifests
    <3> QED
      BY <1>4, <3>1, <3>2 DEF EnsureDone, EnsureFailed, StepsDone
  <2> QED
    BY <2>1, <2>2, SaveWorks DEF Saves
<1>5. CASE \/ Identities \/ Mint \/ MintFailed \/ JoinFailed \/ Membership
           \/ Bind \/ BindAborted \/ BringUp \/ BringUpEnds
  <2>1. /\ UNCHANGED <<file, inst, mode, cpc, cinst>> /\ saving' = "none"
        /\ rpc \notin Settled /\ rpc' \notin Loaded
    BY <1>5 DEF Identities, Mint, MintFailed, JoinFailed, Membership, Bind, BindAborted,
                BringUp, BringUpEnds, At, UnlessCancelled, Goto, Loaded, Settled
  <2> QED
    BY <2>1, MoveWorks
<1>6. CASE IdentitiesDone \/ JoinDone \/ BindDone
  <2>1. /\ inst \in Instances /\ file[inst] \in Manifests /\ saving = "none"
        /\ rpc \notin Settled /\ file[inst].status # "complete"
    BY <1>1, <1>6 DEF IdentitiesDone, JoinDone, BindDone, At, Outside, Settled, RebindInv
  <2>2. CASE Goto("fail")
    BY <2>1, <2>2, MoveWorks DEF Goto, Loaded
  <2>3. ASSUME NEW site \in Sites, NEW p, Saves(site, Checkpoint(file[inst], p))
        PROVE  WorkInv'
    <3>1. Checkpoint(file[inst], p).status # "complete"
      BY <2>1 DEF Checkpoint, Manifests
    <3> QED
      BY <2>1, <2>3, <3>1, SaveWorks DEF Saves
  <2>4. {"identitiesSaved", "membershipSaved", "bindSaved"} \subseteq Sites
    BY DEF Sites, OkNext
  <2> QED
    BY <1>6, <2>2, <2>3, <2>4 DEF IdentitiesDone, JoinDone, BindDone
<1>7. CASE RunIssue
  <2>1. file[inst].status # "complete" /\ rpc = "issue"
    BY <1>1, <1>7 DEF RunIssue, At, Settled, RebindInv
  <2>2. /\ UNCHANGED <<file, inst, mode, cpc, cinst>> /\ saving' = "none"
        /\ rpc' \in {"complete", "cleanup", "create"}
        /\ rpc' = "create" => mem' = file[inst]
    BY <1>7 DEF RunIssue, At
  <2> QED
    BY <2>1, <2>2 DEF WorkInv, Loaded, Settled
<1>8. CASE CreateIssue
  <2> DEFINE m == [Checkpoint(mem, "run_issue") EXCEPT !.runId = TRUE]
  <2>1. mem.status # "complete" /\ saving = "none" /\ rpc \notin Settled
    BY <1>1, <1>8 DEF CreateIssue, At, Loaded, Settled
  <2>2. m.status # "complete" /\ "issueSaved" \in Sites
    BY <1>1, <2>1 DEF Sites, OkNext, Checkpoint, Manifests
  <2>3. Save("issueSaved", m) /\ UNCHANGED <<file, inst, mode, cpc, cinst>>
    BY <1>8 DEF CreateIssue
  <2> HIDE DEF m
  <2> QED
    BY <2>1, <2>2, <2>3, SaveWorks
<1>9. CASE CreateIssueFailed
  BY <1>9, MoveWorks DEF CreateIssueFailed, At, Loaded, Settled
<1>10. CASE Complete
  <2>1. saving = "none" /\ rpc \notin Settled /\ "completed" \in Sites
    BY <1>10 DEF Complete, At, Settled, Sites, OkNext
  <2>2. CASE Goto("cleanup")
    BY <2>1, <2>2, MoveWorks DEF Goto, Loaded
  <2>3. CASE Saves("completed", [file[inst] EXCEPT !.status = "complete"])
    BY <2>1, <2>3, SaveWorks DEF Saves
  <2> QED
    BY <1>10, <2>2, <2>3 DEF Complete
<1>11. CASE Activate \/ Recheck \/ Failed \/ Cleanup \/ RebindReady \/ RebindReload
  <2>1. /\ UNCHANGED <<file, inst, mode, cpc, cinst>> /\ saving' = "none"
        /\ rpc' \in Settled /\ rpc' \notin Loaded
    BY <1>11 DEF Activate, Recheck, Failed, Cleanup, RebindReady, RebindReload, At,
                 UnlessCancelled, Goto, Loaded, Settled
  <2> QED
    BY <2>1, MoveWorks
<1>12. CASE Return
  BY <1>12 DEF Return, At, WorkInv, Loaded, Settled
<1>13. ASSUME NEW here \in {"fail", "fault"}, NEW site \in {"failing", "faulting"},
              MarkResumable(here, site)
       PROVE  WorkInv'
  <2> DEFINE m == [file[inst] EXCEPT !.status = "resumable"]
  <2>1. rpc \notin Settled /\ rpc \notin Outside
    BY <1>13 DEF MarkResumable, At, Outside, Settled
  <2>2. m.status # "complete"
    BY <1>1, <2>1 DEF Manifests
  <2>3. /\ UNCHANGED <<file, inst, mode, cpc, cinst>>
        /\ \/ saving' = "none" /\ rpc' = OkNext[site]
           \/ saving' = "write" /\ mem' = m /\ rpc' = site
    BY <1>13 DEF MarkResumable, At
  <2>4. OkNext[site] \notin Loaded /\ site \notin Loaded
    BY DEF OkNext, Loaded
  <2> HIDE DEF m
  <2> QED
    BY <2>1, <2>2, <2>3, <2>4 DEF WorkInv
<1>14. ASSUME NEW i \in Instances, ReconcileNext(i) PROVE WorkInv'
  <2>1. saving = "none"
    BY <1>14 DEF ReconcileNext, CompanyInv, TypeOK, Sites, OkNext
  <2>2. ~LifecycleIsComplete(file[i]) => file[i].status # "complete"
    BY DEF EarnInv, Honest
  <2> QED
    BY <1>14, <2>1, <2>2 DEF ReconcileNext, WorkInv, Loaded, Settled
<1>15. CASE Rebind
  <2>1. saving = "none"
    BY <1>15 DEF Rebind, CompanyInv, TypeOK, Sites, OkNext
  <2> QED
    BY <1>15, <2>1 DEF Rebind, WorkInv, Loaded, Settled
<1> QED
  BY <1>2, <1>3, <1>4, <1>5, <1>6, <1>7, <1>8, <1>9, <1>10, <1>11, <1>12, <1>13, <1>14, <1>15
  DEF RunStep

\* Every step works on no complete company: a run is entered only for one whose
\* lifecycle is not complete.
LEMMA WorkKeeps ==
  ASSUME ~Overlap, CompanyInv, RebindInv, EarnInv, ApartInv, KeepInv, WorkInv, [Next]_vars
  PROVE  WorkInv'
<1>1. /\ file \in [Instances -> Manifests] /\ mem \in Manifests
      /\ cpc \in {"write", "rename"} => cinst \in Instances /\ file[cinst].status # "none"
  BY DEF CompanyInv, TypeOK, CancelInv
<1>2. saving # "none" =>
        /\ rpc \in Sites /\ inst \in Instances /\ mode # "rebind"
        /\ cpc \notin {"write", "rename"}
  <2>1. saving # "none" => rpc \in Sites
    BY DEF CompanyInv, TypeOK
  <2>2. rpc \in Sites => inst \in Instances /\ mode # "rebind"
    BY DEF CompanyInv, RunInv, RebindInv, Sites, OkNext, Outside
  <2> QED
    BY <2>1, <2>2 DEF ApartInv
<1>3. ASSUME NEW i \in Instances, Instantiate(i) PROVE WorkInv'
  <2>1. saving = "none" /\ saving' = "none" /\ rpc' = "load" /\ inst' = i
    BY <1>3 DEF Instantiate, Enter, CompanyInv, TypeOK, Sites, OkNext
  <2>2. UNCHANGED <<cpc, cinst>> /\ file' = [file EXCEPT ![i] = Fresh]
    BY <1>3 DEF Instantiate, Enter, canceler
  <2>3. Fresh.status = "in_progress" /\ file'[i] = Fresh
    BY <1>1, <2>2 DEF Fresh, Manifest
  <2>4. cpc \in {"write", "rename"} => file'[cinst].status # "cancelled"
    BY <1>1, <2>2, <2>3 DEF WorkInv
  <2> QED
    BY <2>1, <2>2, <2>3, <2>4 DEF WorkInv, Loaded
<1>4. ASSUME NEW i \in Instances, Resume(i) PROVE WorkInv'
  <2>1. saving = "none"
    BY <1>4 DEF Resume, Enter, CompanyInv, TypeOK, Sites, OkNext
  <2>2. file[i].status # "complete"
    BY <1>4 DEF Resume, EarnInv, Honest
  <2> QED
    BY <1>4, <2>1, <2>2 DEF Resume, Enter, WorkInv, Loaded, files, canceler
<1>5. ASSUME NEW i \in Instances, CancelLoad(i) PROVE WorkInv'
  <2>1. /\ UNCHANGED <<file, rpc, mode, inst, mem, saving>> /\ cinst' = i
        /\ cpc' = "write" => file[i].status # "cancelled"
        /\ cpc' # "rename"
    BY <1>5 DEF CancelLoad, files, run
  <2> QED
    BY <2>1 DEF WorkInv
<1>6. CASE Reconcile
  <2>1. saving = "none"
    BY <1>6 DEF Reconcile, CompanyInv, TypeOK, Sites, OkNext
  <2> QED
    BY <1>6, <2>1 DEF Reconcile, WorkInv, Loaded, Settled, files, canceler
<1>7. CASE SaveWrite
  BY <1>7 DEF SaveWrite, WorkInv, canceler
<1>8. CASE SaveRename
  <2>1. /\ saving' = "none" /\ rpc' = OkNext[rpc] /\ rpc \in Sites /\ inst \in Instances
        /\ file' = [file EXCEPT ![inst] = mem]
        /\ mem' = IF rpc = "step" THEN mem ELSE Missing
        /\ cpc' \notin {"write", "rename"} /\ inst' = inst
    BY <1>2, <1>8 DEF SaveRename, KeepInv, canceler
  <2>2. rpc' \in Loaded => rpc = "step"
    BY <2>1 DEF Sites, OkNext, Loaded
  <2>3. rpc = "completed" => rpc' \in Settled
    BY <2>1 DEF OkNext, Settled
  <2>4. rpc # "completed" => mem.status # "complete"
    BY <1>8 DEF SaveRename, WorkInv
  <2>5. file'[inst] = mem
    BY <1>1, <2>1
  <2> QED
    BY <2>1, <2>2, <2>3, <2>4, <2>5 DEF WorkInv
<1>9. CASE SaveFailed
  <2>1. ErrNext[rpc] \notin Loaded /\ rpc \notin Settled
    BY <1>2, <1>9 DEF SaveFailed, Sites, OkNext, ErrNext, Loaded, Settled
  <2> QED
    BY <1>9, <2>1, MoveWorks DEF SaveFailed, files, canceler
<1>10. CASE RunStep /\ ~SaveWrite /\ ~SaveRename /\ ~SaveFailed
  BY <1>10, RunWorks
<1>11. CASE CancelRename
  <2>1. /\ cpc' = "reap" /\ file' = [file EXCEPT ![cinst] = tmp[cinst]]
        /\ tmp[cinst].status = "cancelled" /\ cinst \in Instances
        /\ UNCHANGED <<rpc, mode, inst, mem, saving>>
    BY <1>1, <1>11 DEF CancelRename, ApartInv, run
  <2>2. \A i \in Instances : file'[i].status = "complete" => file[i].status = "complete"
    BY <1>1, <2>1
  <2>3. rpc \notin Settled => inst \in Instances
    BY DEF CompanyInv, RunInv, Outside, Settled
  <2> QED
    BY <2>1, <2>2, <2>3 DEF WorkInv
<1>12. CASE CancelWrite \/ CancelFailed \/ CancelReap \/ CancelStop \/ CancelClear
  BY <1>12 DEF CancelWrite, CancelFailed, CancelReap, CancelStop, CancelClear, WorkInv,
               files, run
<1>13. CASE Restart
  BY <1>13 DEF Restart, WorkInv, Loaded, Settled
<1>14. CASE UNCHANGED vars
  BY <1>14 DEF vars, files, run, canceler, WorkInv
<1> QED
  BY <1>3, <1>4, <1>5, <1>6, <1>7, <1>8, <1>9, <1>10, <1>11, <1>12, <1>13, <1>14
  DEF Next, CancelStep

\* The entries of the registry change where the manifests do.
LEMMA EntryOf ==
  ASSUME NEW m \in Manifests
  PROVE  /\ Entry(m) \in Registry!Entries
         /\ Entry(m).status = m.status /\ Entry(m).steps = m.steps
         /\ Entry(m).phases = m.phases /\ (Entry(m).runId <=> m.runId)
BY DEF Entry, Manifests, Registry!Entries

\* Every step is a step of the registry, or leaves the book alone: a new
\* manifest reserves the slot, a run's rename records progress, a cancel's
\* rename cancels.
LEMMA RegistryStep ==
  ASSUME ~Overlap, CompanyInv, EarnInv, ApartInv, KeepInv, WorkInv, RebindInv, [Next]_vars
  PROVE  [Registry!Next]_([i \in Instances |-> Entry(file[i])])
<1> DEFINE book == [i \in Instances |-> Entry(file[i])]
           Goal == [Registry!Next]_book
<1>1. /\ file \in [Instances -> Manifests] /\ mem \in Manifests /\ cmem \in Manifests
      /\ book \in [Instances -> Registry!Entries]
      /\ \A i \in Instances : book[i] = Entry(file[i]) /\ book'[i] = Entry(file'[i])
      /\ DOMAIN book' = Instances
  <2>1. file \in [Instances -> Manifests] /\ mem \in Manifests /\ cmem \in Manifests
    BY DEF CompanyInv, TypeOK
  <2> QED
    BY <2>1, EntryOf
<1>2. ASSUME file' = file PROVE Goal
  BY <1>2
<1> SUFFICES Goal
  OBVIOUS
<1> HIDE DEF Goal
<1>3. ASSUME NEW i \in Instances, Instantiate(i) PROVE Goal
  <2>1. /\ file' = [file EXCEPT ![i] = Fresh] /\ file[i] = Missing
        /\ \A j \in Instances : file[j].status \in {"none", "cancelled"}
    BY <1>3 DEF Instantiate, NotCancelled
  <2>2. /\ Entry(Missing) = Registry!Blank("none")
        /\ Entry(Fresh) = Registry!Blank("in_progress")
    BY DEF Entry, Missing, Fresh, Manifest, Registry!Blank
  <2>3. \A j \in Instances : ~Registry!HoldsSlot(book[j])
    BY <1>1, <2>1, EntryOf DEF Registry!HoldsSlot
  <2>4. book[i].status = "none"
    BY <1>1, <2>1, <2>2 DEF Registry!Blank
  <2>5. book' = [book EXCEPT ![i] = Registry!Blank("in_progress")]
    BY <1>1, <2>1, <2>2
  <2>6. Registry!Reserve(i)
    BY <2>3, <2>4, <2>5 DEF Registry!Reserve, book
  <2> QED
    BY <2>6 DEF Goal, Registry!Next
<1>4. CASE SaveRename
  <2>1. /\ inst \in Instances /\ rpc \in Sites
        /\ file' = [file EXCEPT ![inst] = mem]
        /\ file[inst].status \in {"in_progress", "resumable"}
    <3>1. saving = "rename" /\ tmp[inst] = mem /\ file' = [file EXCEPT ![inst] = tmp[inst]]
      BY <1>4 DEF SaveRename, KeepInv
    <3>2. rpc \in Sites
      BY <3>1 DEF CompanyInv, TypeOK
    <3>3. inst \in Instances /\ mode # "rebind" /\ rpc \notin Settled
      BY <3>2 DEF CompanyInv, RunInv, RebindInv, Sites, OkNext, Outside, Settled
    <3>4. file[inst].status \notin {"none", "cancelled", "complete"}
      BY <3>1, <3>3 DEF CompanyInv, RunInv, ApartInv, WorkInv
    <3> QED
      BY <1>1, <3>1, <3>2, <3>3, <3>4 DEF Manifests
  <2>2. Live(mem) /\ Honest(mem) /\ Kept(file[inst], mem)
    BY <1>4 DEF SaveRename, CompanyInv, RunInv, EarnInv, KeepInv
  <2>3. file'[inst] = mem /\ \A j \in Instances \ {inst} : file'[j] = file[j]
    BY <1>1, <2>1
  <2>4. book[inst] = Entry(file[inst]) /\ book'[inst] = Entry(mem)
    BY <1>1, <2>1, <2>3
  <2>5. Registry!Unfinished(book[inst])
    BY <1>1, <2>1, <2>4, EntryOf DEF Registry!Unfinished
  <2>6. book' \in [Instances -> Registry!Entries]
    <3>1. \A i \in Instances : file'[i] \in Manifests
      BY <1>1, <2>3
    <3> QED
      BY <1>1, <3>1, EntryOf
  <2>7. \A j \in Instances \ {inst} : book'[j] = book[j]
    BY <1>1, <2>3
  <2>8. Registry!HoldsSlot(book'[inst]) /\ Registry!Gains(book[inst], book'[inst])
    BY <1>1, <2>1, <2>2, <2>4, EntryOf DEF Live, Kept, Registry!HoldsSlot, Registry!Gains
  <2>9. book'[inst].status = "complete" => Registry!Earned(book'[inst])
    <3>1. mem.status = "complete" =>
            mem.steps = Steps /\ mem.runId /\ Phases \subseteq mem.phases /\ mem.phases \subseteq Phases
      BY <1>1, <2>2 DEF Honest, LifecycleIsComplete, Phases, Manifests
    <3>2. mem.status = "complete" => mem.phases = Phases
      BY <3>1
    <3>3. /\ Entry(mem).status = mem.status /\ Entry(mem).steps = mem.steps
          /\ Entry(mem).phases = mem.phases /\ (Entry(mem).runId <=> mem.runId)
      BY <1>1, EntryOf
    <3>4. mem.status = "complete" => Registry!Earned(Entry(mem))
      BY <3>1, <3>2, <3>3 DEF Registry!Earned
    <3> QED
      BY <2>4, <3>3, <3>4
  <2>10. Registry!Record(inst)
    BY <2>5, <2>6, <2>7, <2>8, <2>9 DEF Registry!Record, book
  <2> QED
    BY <2>1, <2>10 DEF Goal, Registry!Next
<1>5. CASE CancelRename
  <2>1. /\ cinst \in Instances /\ file' = [file EXCEPT ![cinst] = cmem]
        /\ cmem.status = "cancelled"
        /\ Kept(file[cinst], cmem) /\ Kept(cmem, file[cinst])
        /\ file[cinst].status \notin {"none", "cancelled"}
    BY <1>5 DEF CancelRename, CompanyInv, CancelInv, KeepInv, WorkInv
  <2>2. file[cinst] \in Manifests
    BY <1>1, <2>1
  <2>3. cmem.steps = file[cinst].steps /\ cmem.phases = file[cinst].phases
        /\ cmem.runId = file[cinst].runId
    <3>1. cmem.steps \in Int /\ file[cinst].steps \in Int
          /\ cmem.runId \in BOOLEAN /\ file[cinst].runId \in BOOLEAN
      BY <1>1, <2>2, CompanyAssumption DEF Manifests
    <3> QED
      BY <2>1, <3>1 DEF Kept
  <2>4. Entry(cmem) = [Entry(file[cinst]) EXCEPT !.status = "cancelled"]
    BY <2>1, <2>3 DEF Entry
  <2>5. book' = [book EXCEPT ![cinst].status = "cancelled"]
    <3>1. \A i \in Instances : file'[i] = IF i = cinst THEN cmem ELSE file[i]
      BY <1>1, <2>1
    <3> QED
      BY <1>1, <2>1, <2>4, <3>1
  <2>6. Registry!HoldsSlot(book[cinst])
    BY <1>1, <2>1, <2>2, EntryOf DEF Registry!HoldsSlot
  <2>7. Registry!Cancel(cinst)
    BY <2>5, <2>6 DEF Registry!Cancel, book
  <2> QED
    BY <2>1, <2>7 DEF Goal, Registry!Next
<1>6. CASE RunStep /\ ~SaveRename
  <2>1. file' = file
    BY <1>6, RunPlain DEF SaveWrite, SaveFailed, files
  <2> QED
    BY <1>2, <2>1
<1>7. CASE \/ \E i \in Instances : Resume(i) \/ CancelLoad(i)
           \/ Reconcile \/ Restart
  BY <1>2, <1>7 DEF Resume, CancelLoad, Reconcile, Restart, files
<1>8. CASE CancelWrite \/ CancelFailed \/ CancelReap \/ CancelStop \/ CancelClear
  BY <1>2, <1>8 DEF CancelWrite, CancelFailed, CancelReap, CancelStop, CancelClear, files
<1>9. CASE UNCHANGED vars
  BY <1>2, <1>9 DEF vars, files
<1> QED
  BY <1>3, <1>4, <1>5, <1>6, <1>7, <1>8, <1>9 DEF Next, CancelStep

\* The manifest files implement the registry, if the cancel's load-to-rename
\* and the run's guard-to-rename do not overlap: what is on disk is at every
\* moment an entry that was written in one piece, progress is only gained, and a
\* complete company changes only by a cancel (instantiate_company_template,
\* JsonManifestSink::save, cancel_company_run).
THEOREM RegistryRefinement ==
  ASSUME ~Overlap
  PROVE  Spec => ImplementsRegistry
<1>1. Init => RebindInv /\ EarnInv /\ ApartInv /\ KeepInv /\ WorkInv
  BY HonestFirst DEF Init, RebindInv, EarnInv, ApartInv, KeepInv, WorkInv, Loaded, Settled,
                     AfterSteps, AfterIdentities, AfterMembership, AfterBind
<1>2. CompanyInv /\ RebindInv /\ EarnInv /\ ApartInv /\ KeepInv /\ WorkInv /\ [Next]_vars
        => (RebindInv /\ EarnInv /\ ApartInv /\ KeepInv /\ WorkInv)'
  BY RebindKeeps, EarnKeeps, ApartKeeps, KeepKeeps, WorkKeeps
<1>3. Init => Registry!Init
  BY DEF Init, Registry!Init, Registry!Blank, Entry, Missing, Manifest
<1>4. CompanyInv /\ RebindInv /\ EarnInv /\ ApartInv /\ KeepInv /\ WorkInv /\ [Next]_vars
        => [Registry!Next]_([i \in Instances |-> Entry(file[i])])
  BY RegistryStep
<1> QED
  BY <1>1, <1>2, <1>3, <1>4, CompanyInductive, PTL
  DEF Spec, ImplementsRegistry, Registry!Spec
=============================================================================
