----------------------- MODULE CandidateEvaluation_proofs -----------------------
(***************************************************************************)
(* Theorems about CandidateEvaluation, for any number of requests, worker  *)
(* slots, changes and faults.                                              *)
(***************************************************************************)
EXTENDS CandidateEvaluation, TLAPS

-----------------------------------------------------------------------------
(* What the helpers of the queue return                                    *)

LEMMA CoordinatesType ==
  ASSUME NEW p \in Project, NEW c \in Candidate
  PROVE  Coordinates(p, c) \in Coordinate
BY DEF Coordinates, Coordinate, Project, Candidate

LEMMA EnsureCandidateType ==
  ASSUME NEW p \in Project, NEW c \in Candidate
  PROVE  EnsureCandidate(p, c) \in Candidate
BY DEF EnsureCandidate, Candidate

\* Enqueue keeps the types of the two tables it writes.
LEMMA EnqueueType ==
  ASSUME NEW coord \in Coordinate, NEW rs \in [Request -> Row],
         job \in [Request -> Job], Enqueue(coord, rs)
  PROVE  request' \in [Request -> Row] /\ job' \in [Request -> Job]
<1>1. CASE \E r \in Request : rs[r].status = "queued"
  BY <1>1 DEF Enqueue, Row
<1>2. CASE ~\E r \in Request : rs[r].status = "queued"
  <2> DEFINE fresh == CHOOSE r \in Request : rs[r].status = "absent"
  <2>1. /\ fresh \in Request
        /\ request' = [rs EXCEPT ![fresh] = [status |-> "queued", coord |-> coord]]
        /\ job' = [job EXCEPT ![fresh] = NewJob]
    BY <1>2 DEF Enqueue
  <2> HIDE DEF fresh
  <2>2. [status |-> "queued", coord |-> coord] \in Row /\ NewJob \in Job
    BY DEF Row, Active, Job, NewJob
  <2> QED BY <2>1, <2>2
<1> QED BY <1>1, <1>2

\* What QueueActive leaves behind: typed tables, no candidate that shows a result,
\* an open candidate if it may have one, and the version of an open one untouched.
LEMMA QueueActiveResult ==
  ASSUME NEW p \in Project, NEW c \in Candidate, NEW clear \in BOOLEAN,
         NEW defer \in BOOLEAN, NEW rs \in [Request -> Row],
         job \in [Request -> Job], QueueActive(p, c, clear, defer, rs)
  PROVE  /\ candidate' \in Candidate /\ ~Settled'
         /\ request' \in [Request -> Row] /\ job' \in [Request -> Job]
         /\ p.synced /\ p.status \notin Deleting => candidate'.open
         /\ ~(p.synced /\ p.status \notin Deleting) /\ ~c.open => candidate' = c
         /\ c.open => candidate'.open /\ candidate'.version = c.version
<1> DEFINE opened == EnsureCandidate(p, c)
           marked == [opened EXCEPT !.status = "evaluating",
                                    !.latest = IF clear THEN NoEvaluation ELSE @]
<1>1. /\ opened \in Candidate
      /\ p.synced /\ p.status \notin Deleting => opened.open
      /\ ~(p.synced /\ p.status \notin Deleting) /\ ~c.open => opened = c
      /\ c.open => opened = c
  BY EnsureCandidateType DEF EnsureCandidate, Candidate
<1>2. /\ marked \in Candidate /\ marked.status = "evaluating"
      /\ marked.open = opened.open /\ marked.version = opened.version
  BY <1>1 DEF Candidate
<1>3. CASE ~opened.open
  BY <1>1, <1>3 DEF QueueActive, Settled
<1>4. CASE opened.open
  <2>1. candidate' = marked
    BY <1>4 DEF QueueActive
  <2>2. request' \in [Request -> Row] /\ job' \in [Request -> Job]
    <3>1. CASE defer \/ ~p.synced
      BY <1>4, <3>1 DEF QueueActive
    <3>2. CASE ~(defer \/ ~p.synced)
      <4>1. Enqueue(Coordinates(p, marked), rs)
        BY <1>4, <3>2 DEF QueueActive
      <4> QED BY <1>2, <4>1, CoordinatesType, EnqueueType
    <3> QED BY <3>1, <3>2
  <2> QED BY <1>1, <1>2, <1>4, <2>1, <2>2 DEF Settled
<1> QED BY <1>3, <1>4

\* A writer that touches the release state: p and c are the rows it wrote.
LEMMA TouchKeepsInv ==
  ASSUME NEW p \in Project, NEW c \in Candidate, NEW clear \in BOOLEAN,
         NEW defer \in BOOLEAN, Inv, Touch(p, c, clear, defer),
         p.state = project.state, ~c.open => c.version = 0, exec' = exec
  PROVE  /\ project' \in Project /\ candidate' \in Candidate
         /\ request' \in [Request -> Row] /\ job' \in [Request -> Job]
         /\ FreshVerdict' /\ ReadyMeansPlanned' /\ SeenInputsHold' /\ CandidateOpen'
         /\ project'.state = project.state + 1
<1>1. /\ project' \in Project /\ project'.state = project.state + 1
      /\ project'.synced = p.synced /\ project'.status = p.status
  BY DEF Touch, Project
<1>2. QueueActive(project', c, clear, defer, request)
  BY DEF Touch
<1>3. request \in [Request -> Row] /\ job \in [Request -> Job]
      /\ project.state \in Nat /\ exec \in [Worker -> Execution]
  BY DEF Inv, TypeOK, Project
<1>4. /\ candidate' \in Candidate /\ ~Settled'
      /\ request' \in [Request -> Row] /\ job' \in [Request -> Job]
      /\ p.synced /\ p.status \notin Deleting => candidate'.open
      /\ ~(p.synced /\ p.status \notin Deleting) /\ ~c.open => candidate' = c
      /\ c.open => candidate'.open
  BY <1>1, <1>2, <1>3, QueueActiveResult
<1>5. FreshVerdict' /\ ReadyMeansPlanned'
  BY <1>4 DEF FreshVerdict, ReadyMeansPlanned
<1>6. SeenInputsHold'
  BY <1>1, <1>3 DEF Inv, SeenInputsHold, Execution, Coordinate
<1>7. CandidateOpen'
  BY <1>1, <1>4 DEF CandidateOpen
<1> QED BY <1>1, <1>4, <1>5, <1>6, <1>7

\* A step that moves neither the release state, the planning inputs, the candidate
\* nor the handlers' snapshots keeps the state parts of the invariant.
LEMMA QuietKeepsInv ==
  ASSUME Inv, candidate' = candidate, project'.state = project.state,
         project'.configuration = project.configuration \/ project'.status \in Deleting,
         project'.status \notin Deleting => project.status \notin Deleting,
         project'.synced => project.synced,
         inputs'.planning = inputs.planning,
         \A w \in Worker : exec'[w].pc = "publish" => exec'[w] = exec[w]
  PROVE  FreshVerdict' /\ ReadyMeansPlanned' /\ SeenInputsHold' /\ CandidateOpen'
<1>1. FreshVerdict' /\ ReadyMeansPlanned'
  BY DEF Inv, FreshVerdict, ReadyMeansPlanned, Settled
<1>2. SeenInputsHold' /\ CandidateOpen'
  BY DEF Inv, SeenInputsHold, CandidateOpen
<1> QED BY <1>1, <1>2

-----------------------------------------------------------------------------
(* The writers keep the invariant                                          *)

LEMMA InputsType ==
  ASSUME NEW planning \in BOOLEAN, NEW checks \in BOOLEAN, Inv, SetInputs(planning, checks)
  PROVE  /\ inputs' \in [permission : BOOLEAN, planning : BOOLEAN, checks : BOOLEAN]
         /\ inputs'.planning = planning
BY DEF SetInputs, Inv, TypeOK

LEMMA ProjectionStep ==
  ASSUME Inv, NEW next \in {"active", "degraded"}, NEW reprojected \in BOOLEAN,
         NEW drift \in BOOLEAN, NEW planning \in BOOLEAN, NEW checks \in BOOLEAN,
         ApplyProjection(next, reprojected, drift, planning, checks)
  PROVE  Inv'
<1> DEFINE repoliced == project.policy = 0 \/ policy.stored # policy.effective
           row == [project EXCEPT !.status = next, !.synced = TRUE,
                     !.policy = IF repoliced THEN @ + 1 ELSE @]
<1>1. row \in Project /\ row.state = project.state /\ row.status \notin Deleting
      /\ row.configuration = project.configuration
  <2>1. project \in Project /\ project.policy \in Nat
    BY DEF Inv, TypeOK, Project
  <2>2. (IF repoliced THEN project.policy + 1 ELSE project.policy) \in Nat
    BY <2>1
  <2> HIDE DEF repoliced
  <2> QED BY <2>1, <2>2 DEF Project, Connected, Deleting
<1>2. /\ policy' \in [stored : Policy, ran : Policy, effective : Policy]
      /\ exec' = exec /\ checkSync' = checkSync /\ faults' = faults
      /\ changes' \in Nat
  <2>1. policy' \in [stored : Policy, ran : Policy, effective : Policy]
    BY DEF ApplyProjection, Inv, TypeOK
  <2>2. /\ exec' = exec /\ checkSync' = checkSync /\ faults' = faults
        /\ changes' = changes + 1
    BY DEF ApplyProjection, Write
  <2> QED BY <2>1, <2>2 DEF Inv, TypeOK
<1>3. /\ inputs' \in [permission : BOOLEAN, planning : BOOLEAN, checks : BOOLEAN]
      /\ inputs'.planning = planning
  BY InputsType DEF ApplyProjection
<1>4. CASE reprojected \/ project.status # next \/ drift
  <2>1. Touch(row, candidate, FALSE, FALSE)
    BY <1>4 DEF ApplyProjection
  <2>2. candidate \in Candidate /\ (~candidate.open => candidate.version = 0)
    BY DEF Inv, TypeOK, CandidateOpen
  <2> HIDE DEF row
  <2> QED BY <1>1, <1>2, <1>3, <2>1, <2>2, TouchKeepsInv DEF Inv, TypeOK
<1>5. CASE ~(reprojected \/ project.status # next \/ drift)
  <2>1. project' = row /\ UNCHANGED <<candidate, request, job>> /\ planning = inputs.planning
        /\ project.synced
    BY <1>5 DEF ApplyProjection
  <2>2. project.status \notin Deleting
    BY DEF ApplyProjection
  <2> HIDE DEF row
  <2> QED BY <1>1, <1>2, <1>3, <2>1, <2>2, QuietKeepsInv DEF Inv, TypeOK
<1> QED BY <1>4, <1>5

\* A refresh of the required checks that its caller has found applicable.
LEMMA RequiredChecksStep ==
  ASSUME Inv, NEW effective \in Policy, NEW checks \in BOOLEAN,
         ProjectRequiredChecks(effective, checks), exec' = exec,
         checkSync' \in Nat, changes' \in Nat, faults' \in Nat
  PROVE  Inv'
<1> DEFINE repoliced == project.policy = 0 \/ policy.stored # effective
           row == [project EXCEPT !.policy = IF repoliced THEN @ + 1 ELSE @]
<1>1. row \in Project /\ row.state = project.state
  BY DEF Inv, TypeOK, Project
<1>2. policy' \in [stored : Policy, ran : Policy, effective : Policy]
  BY DEF ProjectRequiredChecks, Inv, TypeOK
<1>3. /\ inputs' \in [permission : BOOLEAN, planning : BOOLEAN, checks : BOOLEAN]
      /\ inputs'.planning = inputs.planning
  BY DEF ProjectRequiredChecks, SetInputs, Inv, TypeOK
<1>4. CASE repoliced \/ checks # inputs.checks
  <2>1. Touch(row, candidate, FALSE, FALSE)
    BY <1>4 DEF ProjectRequiredChecks
  <2>2. candidate \in Candidate /\ (~candidate.open => candidate.version = 0)
    BY DEF Inv, TypeOK, CandidateOpen
  <2> HIDE DEF row
  <2> QED BY <1>1, <1>2, <1>3, <2>1, <2>2, TouchKeepsInv DEF Inv, TypeOK
<1>5. CASE ~(repoliced \/ checks # inputs.checks)
  <2>1. UNCHANGED <<project, candidate, request, job>>
    BY <1>5 DEF ProjectRequiredChecks
  <2> QED BY <1>2, <1>3, <2>1, QuietKeepsInv DEF Inv, TypeOK
<1> QED BY <1>4, <1>5

LEMMA StatusType ==
  ASSUME NEW p \in Project, NEW status \in Connected \cup Deleting,
         NEW q, q = [p EXCEPT !.status = status]
  PROVE  /\ q \in Project /\ q.state = p.state /\ q.synced = p.synced
         /\ q.status = status /\ q.configuration = p.configuration
BY DEF Project

LEMMA NewVersionType ==
  ASSUME NEW c \in Candidate, NEW d,
         d = [c EXCEPT !.version = @ + 1, !.latest = NoEvaluation, !.status = "evaluating"]
  PROVE  d \in Candidate /\ d.open = c.open
<1> DEFINE next == c.version + 1
<1>1. next \in Nat
  BY DEF Candidate
<1> HIDE DEF next
<1>2. d = [c EXCEPT !.version = next, !.latest = NoEvaluation, !.status = "evaluating"]
  BY DEF next
<1> QED BY <1>1, <1>2 DEF Candidate

\* Every writer keeps the invariant.
LEMMA WriterStep ==
  ASSUME Inv, Writer
  PROVE  Inv'
<1> USE DEF Inv, TypeOK
<1>1. /\ project \in Project /\ candidate \in Candidate
      /\ ~candidate.open => candidate.version = 0
  BY DEF CandidateOpen
<1>2. ASSUME NEW kind, Write(kind)
      PROVE  changes' \in Nat
  BY <1>2 DEF Write
<1>3. ASSUME NEW next \in {"active", "degraded"}, NEW reprojected \in BOOLEAN,
             NEW drift \in BOOLEAN, NEW planning \in BOOLEAN, NEW checks \in BOOLEAN,
             ApplyProjection(next, reprojected, drift, planning, checks)
      PROVE  Inv'
  BY <1>3, ProjectionStep
<1>4. ASSUME NEW planning \in BOOLEAN, ArchiveProjection(planning)
      PROVE  Inv'
  <2> DEFINE p == [project EXCEPT !.status = "degraded"]
  <2>1. p \in Project /\ p.state = project.state
    BY <1>1 DEF Project, Connected
  <2>2. Touch(p, candidate, FALSE, FALSE) /\ changes' \in Nat
    BY <1>2, <1>4 DEF ArchiveProjection
  <2>3. inputs' \in [permission : BOOLEAN, planning : BOOLEAN, checks : BOOLEAN]
    BY <1>4, InputsType DEF ArchiveProjection
  <2>4. UNCHANGED <<policy, exec, checkSync, faults>>
    BY <1>4 DEF ArchiveProjection
  <2> HIDE DEF p
  <2> QED BY <1>1, <2>1, <2>2, <2>3, <2>4, TouchKeepsInv
<1>5. ASSUME NEW next \in {"active", "degraded", "disconnected"},
             MarkSynchronizationFailed(next)
      PROVE  Inv'
  <2>1. /\ project' = [project EXCEPT !.status = next] /\ changes' \in Nat
        /\ project.status \notin Deleting
        /\ UNCHANGED <<candidate, policy, inputs, request, job, exec, checkSync, faults>>
    <3>1. project.status \notin Deleting
      BY <1>5 DEF MarkSynchronizationFailed, Connected, Deleting
    <3> QED BY <1>2, <1>5, <3>1 DEF MarkSynchronizationFailed
  <2>2. project' \in Project /\ project'.state = project.state
        /\ project'.configuration = project.configuration /\ project'.synced = project.synced
    <3>1. next \in Connected \cup Deleting
      BY DEF Connected
    <3> QED BY <1>1, <2>1, <3>1, StatusType
  <2> QED BY <2>1, <2>2, QuietKeepsInv
<1>6. ASSUME ObserveForcedPush
      PROVE  Inv'
  <2> DEFINE p == [project EXCEPT !.status = "degraded"]
  <2>1. p \in Project /\ p.state = project.state
    BY <1>1 DEF Project, Connected
  <2>2. Touch(p, candidate, FALSE, FALSE) /\ changes' \in Nat
    BY <1>2, <1>6 DEF ObserveForcedPush
  <2>3. UNCHANGED <<policy, inputs, exec, checkSync, faults>>
    BY <1>6 DEF ObserveForcedPush
  <2> HIDE DEF p
  <2> QED BY <1>1, <2>1, <2>2, <2>3, TouchKeepsInv
<1>7. ASSUME NEW next \in {"active", "degraded", "disconnected"}, MarkIncrementalFailed(next)
      PROVE  Inv'
  <2> DEFINE p == [project EXCEPT !.status = next]
  <2>1. p \in Project /\ p.state = project.state
    BY <1>1 DEF Project, Connected
  <2>2. Touch(p, candidate, FALSE, FALSE) /\ changes' \in Nat
    BY <1>2, <1>7 DEF MarkIncrementalFailed
  <2>3. UNCHANGED <<policy, inputs, exec, checkSync, faults>>
    BY <1>7 DEF MarkIncrementalFailed
  <2> HIDE DEF p
  <2> QED BY <1>1, <2>1, <2>2, <2>3, TouchKeepsInv
<1>8. ASSUME NEW planning \in BOOLEAN, NEW effective \in Policy,
             ConfigureBranches(planning, effective)
      PROVE  Inv'
  <2> DEFINE p == [project EXCEPT !.status = "initializing", !.synced = FALSE,
                                  !.configuration = @ + 1]
  <2>1. p \in Project /\ p.state = project.state
    <3> DEFINE next == project.configuration + 1
    <3>1. next \in Nat
      BY <1>1 DEF Project
    <3>2. p = [project EXCEPT !.status = "initializing", !.synced = FALSE,
                              !.configuration = next]
      OBVIOUS
    <3> HIDE DEF next, p, Inv, TypeOK
    <3> QED BY <1>1, <3>1, <3>2 DEF Project, Connected
  <2>2. Touch(p, candidate, TRUE, FALSE) /\ changes' \in Nat
    BY <1>2, <1>8 DEF ConfigureBranches
  <2>3. /\ inputs' \in [permission : BOOLEAN, planning : BOOLEAN, checks : BOOLEAN]
        /\ policy' \in [stored : Policy, ran : Policy, effective : Policy]
    BY <1>8, InputsType DEF ConfigureBranches
  <2>4. UNCHANGED <<exec, checkSync, faults>>
    BY <1>8 DEF ConfigureBranches
  <2> HIDE DEF p
  <2> QED BY <1>1, <2>1, <2>2, <2>3, <2>4, TouchKeepsInv
<1>9. ASSUME NEW effective \in Policy, OverrideRequiredChecks(effective)
      PROVE  Inv'
  <2> DEFINE p == [project EXCEPT !.configuration = @ + 1]
  <2>1. p \in Project /\ p.state = project.state
    BY <1>1 DEF Project
  <2>2. Touch(p, candidate, FALSE, TRUE) /\ changes' \in Nat
    BY <1>2, <1>9 DEF OverrideRequiredChecks
  <2>3. policy' \in [stored : Policy, ran : Policy, effective : Policy]
    BY <1>9 DEF OverrideRequiredChecks
  <2>4. checkSync' \in Nat /\ UNCHANGED <<inputs, exec, faults>>
    BY <1>1, <1>9 DEF OverrideRequiredChecks, Project
  <2> HIDE DEF p
  <2> QED BY <1>1, <2>1, <2>2, <2>3, <2>4, TouchKeepsInv
<1>10. ASSUME RequestDeletion
       PROVE  Inv'
  <2>1. /\ project' = [project EXCEPT !.status = "pending_deletion", !.configuration = @ + 1]
        /\ changes' \in Nat
        /\ UNCHANGED <<candidate, policy, inputs, request, job, exec, checkSync, faults>>
    BY <1>2, <1>10 DEF RequestDeletion
  <2>2. /\ project' \in Project /\ project'.state = project.state
        /\ project'.status \in Deleting /\ project'.synced = project.synced
    <3> DEFINE next == project.configuration + 1
    <3>1. next \in Nat
      BY <1>1 DEF Project
    <3>2. project' = [project EXCEPT !.status = "pending_deletion", !.configuration = next]
      BY <2>1
    <3> HIDE DEF next, Inv, TypeOK
    <3> QED BY <1>1, <3>1, <3>2 DEF Project, Deleting
  <2> QED BY <2>1, <2>2, QuietKeepsInv
<1>11. ASSUME NEW effective \in Policy, RulesChange(effective)
       PROVE  Inv'
  <2>1. /\ policy' \in [stored : Policy, ran : Policy, effective : Policy]
        /\ changes' \in Nat
        /\ UNCHANGED <<project, candidate, inputs, request, job, exec, checkSync, faults>>
    BY <1>2, <1>11 DEF RulesChange
  <2> QED BY <2>1, QuietKeepsInv
<1>12. ASSUME NEW rules \in BOOLEAN, NEW checks \in BOOLEAN, RefreshChecks(rules, checks)
       PROVE  Inv'
  <2> DEFINE effective == IF rules THEN policy.effective ELSE policy.stored
  <2>1. effective \in Policy
    OBVIOUS
  <2>2. /\ ProjectRequiredChecks(effective, checks) /\ exec' = exec
        /\ checkSync' \in Nat /\ changes' \in Nat /\ faults' \in Nat
    BY <1>2, <1>12 DEF RefreshChecks
  <2> HIDE DEF effective
  <2> QED BY <2>1, <2>2, RequiredChecksStep
<1>13. ASSUME NEW planning \in BOOLEAN, RecordQa(planning) \/ PersistDependencies(planning)
       PROVE  Inv'
  <2>1. /\ Touch(project, candidate, FALSE, FALSE) /\ changes' \in Nat
        /\ UNCHANGED <<policy, exec, checkSync, faults>>
    BY <1>2, <1>13 DEF RecordQa, PersistDependencies
  <2>2. inputs' \in [permission : BOOLEAN, planning : BOOLEAN, checks : BOOLEAN]
    BY <1>13, InputsType DEF RecordQa, PersistDependencies
  <2> QED BY <1>1, <2>1, <2>2, TouchKeepsInv
<1>14. ASSUME NEW planning \in BOOLEAN, ChangeExclusion(planning)
       PROVE  Inv'
  <2> DEFINE opened == EnsureCandidate(project, candidate)
             c == [opened EXCEPT !.version = @ + 1, !.latest = NoEvaluation,
                                 !.status = "evaluating"]
  <2>1. opened \in Candidate /\ opened.open
    BY <1>1, <1>14, EnsureCandidateType DEF ChangeExclusion
  <2>2. c \in Candidate /\ c.open
    <3> HIDE DEF opened
    <3> QED BY <2>1, NewVersionType
  <2>3. /\ Touch(project, c, TRUE, FALSE) /\ changes' \in Nat
        /\ UNCHANGED <<policy, exec, checkSync, faults>>
    BY <1>2, <1>14 DEF ChangeExclusion
  <2>4. inputs' \in [permission : BOOLEAN, planning : BOOLEAN, checks : BOOLEAN]
    BY <1>14, InputsType DEF ChangeExclusion
  <2> HIDE DEF c
  <2> QED BY <1>1, <2>2, <2>3, <2>4, TouchKeepsInv
<1>15. ASSUME NEW granted \in BOOLEAN, SetPermission(granted)
       PROVE  Inv'
  <2>1. /\ inputs' = [inputs EXCEPT !.permission = granted] /\ changes' \in Nat
        /\ UNCHANGED <<project, candidate, policy, request, job, exec, checkSync, faults>>
    BY <1>2, <1>15 DEF SetPermission
  <2>2. /\ inputs' \in [permission : BOOLEAN, planning : BOOLEAN, checks : BOOLEAN]
        /\ inputs'.planning = inputs.planning
    BY <2>1
  <2> QED BY <2>1, <2>2, QuietKeepsInv
<1> QED
  BY <1>3, <1>4, <1>5, <1>6, <1>7, <1>8, <1>9, <1>10, <1>11, <1>12, <1>13, <1>14, <1>15
  DEF Writer

-----------------------------------------------------------------------------
(* The handler, the recovery and Graphile Worker keep the invariant        *)

\* Handlers move on without entering "publish"; the others stay where they are.
NoNewPublisher ==
  /\ exec' \in [Worker -> Execution]
  /\ \A w \in Worker : exec'[w].pc = "publish" => exec'[w] = exec[w]

LEMMA AdvanceType ==
  ASSUME TypeOK, NEW w \in Worker, NEW pc \in Step \ {"publish"}, Advance(w, pc)
  PROVE  NoNewPublisher
<1>1. exec \in [Worker -> Execution]
  BY DEF TypeOK
<1>2. exec' = [exec EXCEPT ![w].pc = pc]
  BY DEF Advance
<1> QED BY <1>1, <1>2 DEF NoNewPublisher, Execution

LEMMA IdleType ==
  ASSUME TypeOK, NEW w \in Worker, NEW pc \in {"down", "idle"},
         exec' = [exec EXCEPT ![w] = IdleExec(pc)]
  PROVE  NoNewPublisher
<1>1. IdleExec(pc) \in Execution /\ IdleExec(pc).pc # "publish"
  BY DEF IdleExec, Execution, Step, ZeroCoordinate, Coordinate, NothingSeen, Seen, Connected
<1> QED BY <1>1 DEF TypeOK, NoNewPublisher

\* A step of a handler that only moves requests and jobs.
LEMMA BookkeepingKeepsInv ==
  ASSUME Inv, NoNewPublisher, UNCHANGED <<Reserved, candidate>>,
         request' \in [Request -> Row], job' \in [Request -> Job], faults' \in Nat
  PROVE  Inv'
<1>1. FreshVerdict' /\ ReadyMeansPlanned' /\ SeenInputsHold' /\ CandidateOpen'
  BY QuietKeepsInv DEF Inv, TypeOK, Reserved, NoNewPublisher
<1> QED BY <1>1 DEF Inv, TypeOK, Reserved, NoNewPublisher

\* A step of a handler, or the recovery, that queues an evaluation.
LEMMA RequeueKeepsInv ==
  ASSUME Inv, NoNewPublisher, UNCHANGED Reserved, faults' \in Nat,
         NEW c \in {candidate, EnsureCandidate(project, candidate)},
         NEW rs \in [Request -> Row], QueueActive(project, c, FALSE, FALSE, rs)
  PROVE  Inv'
<1>1. c \in Candidate /\ project \in Project /\ job \in [Request -> Job]
  BY EnsureCandidateType DEF Inv, TypeOK
<1>2. /\ candidate' \in Candidate /\ ~Settled'
      /\ request' \in [Request -> Row] /\ job' \in [Request -> Job]
      /\ project.synced /\ project.status \notin Deleting => candidate'.open
      /\ ~(project.synced /\ project.status \notin Deleting) /\ ~c.open => candidate' = c
      /\ c.open => candidate'.open
  BY <1>1, QueueActiveResult
<1>3. FreshVerdict' /\ ReadyMeansPlanned'
  BY <1>2 DEF FreshVerdict, ReadyMeansPlanned
<1>4. SeenInputsHold'
  BY DEF Inv, SeenInputsHold, Reserved, NoNewPublisher
<1>5. CandidateOpen'
  BY <1>2 DEF Inv, CandidateOpen, Reserved, EnsureCandidate
<1> QED BY <1>2, <1>3, <1>4, <1>5 DEF Inv, TypeOK, Reserved, NoNewPublisher

LEMMA RecoverKeepsInv ==
  ASSUME Inv, NoNewPublisher, UNCHANGED <<Reserved, faults>>, Recover
  PROVE  Inv'
<1> DEFINE c == EnsureCandidate(project, candidate)
           active == {r \in Request : request[r].status \in Active}
           orphans == {r \in active : job[r].state = "none"}
           stray == {r \in orphans : request[r].status = "running"}
           queued == \E r \in active : request[r].status = "queued"
<1>1. faults' \in Nat /\ UNCHANGED Reserved
  BY DEF Inv, TypeOK
<1>2. CASE ~project.synced \/ project.status \in Deleting \/ ~c.open
  <2>1. UNCHANGED <<candidate, request, job>>
    BY <1>2 DEF Recover
  <2> QED BY <1>1, <2>1, BookkeepingKeepsInv DEF Inv, TypeOK
<1>3. CASE /\ ~(~project.synced \/ project.status \in Deleting \/ ~c.open)
           /\ active = {} /\ c.status = "evaluating"
  <2>1. QueueActive(project, c, FALSE, FALSE, request)
    BY <1>3 DEF Recover
  <2>2. request \in [Request -> Row]
    BY DEF Inv, TypeOK
  <2> QED BY <1>1, <2>1, <2>2, RequeueKeepsInv
<1>4. CASE /\ ~(~project.synced \/ project.status \in Deleting \/ ~c.open)
           /\ ~(active = {} /\ c.status = "evaluating")
  <2>1. /\ candidate' = c
        /\ request' = [r \in Request |->
             IF r \in stray
             THEN [request[r] EXCEPT !.status = IF queued THEN "superseded" ELSE "queued"]
             ELSE request[r]]
        /\ job' = [r \in Request |->
             IF r \in orphans /\ ~(queued /\ r \in stray) THEN NewJob ELSE job[r]]
    BY <1>4 DEF Recover
  <2>2. candidate' = candidate
    BY <1>4, <2>1 DEF Inv, CandidateOpen, EnsureCandidate
  <2>3. job' \in [Request -> Job]
    <3> HIDE DEF orphans, stray, queued
    <3> QED BY <2>1 DEF Inv, TypeOK, NewJob, Job
  <2>4. request' \in [Request -> Row]
    <3> DEFINE next == IF queued THEN "superseded" ELSE "queued"
    <3>1. next \in Active \cup Terminal
      BY DEF Active, Terminal
    <3>2. request' = [r \in Request |-> IF r \in stray THEN [request[r] EXCEPT !.status = next]
                                                         ELSE request[r]]
      BY <2>1
    <3> HIDE DEF stray, next
    <3> QED BY <3>1, <3>2 DEF Inv, TypeOK, Row
  <2> QED BY <1>1, <2>2, <2>3, <2>4, BookkeepingKeepsInv
<1> QED BY <1>2, <1>3, <1>4

\* A request that ends as superseded or otherwise leaves typed rows.
LEMMA RowType ==
  ASSUME TypeOK, NEW r, NEW status \in Active \cup Terminal
  PROVE  [request EXCEPT ![r].status = status] \in [Request -> Row]
BY DEF TypeOK, Row

LEMMA ClaimKeepsInv ==
  ASSUME Inv, NEW w \in Worker, Claim(w)
  PROVE  Inv'
<1> DEFINE r == exec[w].request
<1>1. TypeOK /\ faults' \in Nat /\ UNCHANGED Reserved
  BY DEF Claim, Inv, TypeOK
<1>2. CASE /\ Advance(w, "acknowledge")
           /\ UNCHANGED <<candidate, request, job>>
  <2>1. NoNewPublisher
    BY <1>1, <1>2, AdvanceType DEF Step
  <2> QED BY <1>1, <1>2, <2>1, BookkeepingKeepsInv DEF TypeOK
<1>3. CASE /\ Advance(w, "acknowledge")
           /\ LET rs == [request EXCEPT ![r].status = "superseded"] IN
              IF project.status \in Deleting
              THEN request' = rs /\ UNCHANGED <<candidate, job>>
              ELSE QueueActive(project, candidate, FALSE, FALSE, rs)
  <2> DEFINE rs == [request EXCEPT ![r].status = "superseded"]
  <2>1. NoNewPublisher
    BY <1>1, <1>3, AdvanceType DEF Step
  <2>2. rs \in [Request -> Row]
    BY <1>1, RowType DEF Terminal
  <2>3. CASE project.status \in Deleting
    <3>1. request' = rs /\ UNCHANGED <<candidate, job>>
      BY <1>3, <2>3
    <3> HIDE DEF rs
    <3> QED BY <1>1, <2>1, <2>2, <3>1, BookkeepingKeepsInv DEF TypeOK
  <2>4. CASE project.status \notin Deleting
    <3>1. QueueActive(project, candidate, FALSE, FALSE, rs)
      BY <1>3, <2>4
    <3> HIDE DEF rs
    <3> QED BY <1>1, <2>1, <2>2, <3>1, RequeueKeepsInv
  <2> QED BY <2>3, <2>4
<1>4. CASE /\ request' = [request EXCEPT ![r].status = "running"]
           /\ exec' = [exec EXCEPT ![w].pc = "snapshot", ![w].claim = request[r].coord]
           /\ request[r].coord = Coordinates(project, candidate)
           /\ UNCHANGED <<candidate, job>>
  <2>1. request[r].coord \in Coordinate
    BY <1>1, <1>4, CoordinatesType DEF TypeOK
  <2>2. NoNewPublisher
    <3> DEFINE e == [exec[w] EXCEPT !.pc = "snapshot", !.claim = request[r].coord]
    <3>1. e \in Execution /\ e.pc # "publish"
      <4>1. exec[w] \in Execution /\ "snapshot" \in Step
        BY <1>1 DEF TypeOK, Step
      <4> QED BY <2>1, <4>1 DEF Execution
    <3>2. exec' = [exec EXCEPT ![w] = e]
      BY <1>4
    <3> HIDE DEF e
    <3> QED BY <1>1, <3>1, <3>2 DEF TypeOK, NoNewPublisher
  <2>3. request' \in [Request -> Row]
    BY <1>1, <1>4, RowType DEF Active
  <2> QED BY <1>1, <1>4, <2>2, <2>3, BookkeepingKeepsInv DEF TypeOK
<1> QED BY <1>2, <1>3, <1>4 DEF Claim

\* The snapshot is where the inputs are read: at the claimed coordinates.
LEMMA SnapshotKeepsInv ==
  ASSUME Inv, NEW w \in Worker, Snapshot(w)
  PROVE  Inv'
<1>1. /\ TypeOK /\ faults' \in Nat /\ UNCHANGED <<Reserved, candidate>>
      /\ request' \in [Request -> Row] /\ job' \in [Request -> Job]
  BY DEF Snapshot, Inv, TypeOK
<1>2. CASE Advance(w, "discard")
  <2>1. NoNewPublisher
    BY <1>1, <1>2, AdvanceType DEF Step
  <2> QED BY <1>1, <2>1, BookkeepingKeepsInv
<1>3. CASE /\ Coordinates(project, candidate) = exec[w].claim
           /\ exec' = [exec EXCEPT ![w].pc = "publish",
                 ![w].seen = [status |-> project.status, permission |-> inputs.permission,
                              planning |-> inputs.planning, checks |-> inputs.checks]]
  <2> DEFINE seen == [status |-> project.status, permission |-> inputs.permission,
                      planning |-> inputs.planning, checks |-> inputs.checks]
  <2>1. seen \in Seen
    BY <1>1 DEF TypeOK, Project, Seen
  <2>2. seen.planning = inputs.planning
    OBVIOUS
  <2>3. exec' = [exec EXCEPT ![w].pc = "publish", ![w].seen = seen]
    BY <1>3
  <2> HIDE DEF seen
  <2>4. exec' \in [Worker -> Execution]
    <3> DEFINE e == [exec[w] EXCEPT !.pc = "publish", !.seen = seen]
    <3>1. e \in Execution
      <4>1. exec[w] \in Execution /\ "publish" \in Step
        BY <1>1 DEF TypeOK, Step
      <4> QED BY <2>1, <4>1 DEF Execution
    <3>2. exec' = [exec EXCEPT ![w] = e]
      BY <2>3
    <3> HIDE DEF e
    <3> QED BY <1>1, <3>1, <3>2 DEF TypeOK
  <2>5. SeenInputsHold'
    <3>1. exec[w].claim.state = project.state /\ project.state \in Nat
      BY <1>1, <1>3 DEF Coordinates, TypeOK, Project
    <3>2. /\ exec'[w].claim = exec[w].claim /\ exec'[w].seen = seen
          /\ \A v \in Worker \ {w} : exec'[v] = exec[v]
      BY <1>1, <2>3 DEF TypeOK, Execution
    <3>3. project' = project /\ inputs' = inputs
      BY <1>1 DEF Reserved
    <3> QED BY <2>2, <3>1, <3>2, <3>3 DEF Inv, SeenInputsHold
  <2>6. FreshVerdict' /\ ReadyMeansPlanned' /\ CandidateOpen'
    BY <1>1 DEF Inv, FreshVerdict, ReadyMeansPlanned, CandidateOpen, Settled, Reserved
  <2> QED BY <1>1, <2>4, <2>5, <2>6 DEF Inv, TypeOK, Reserved
<1> QED BY <1>2, <1>3 DEF Snapshot

LEMMA DropKeepsInv ==
  ASSUME Inv, NEW w \in Worker, Drop(w), UNCHANGED <<Reserved, faults>>
  PROVE  Inv'
<1> DEFINE r == exec[w].request
           rs == IF request[r].status \in Active
                 THEN [request EXCEPT ![r].status = "superseded"] ELSE request
           ends == project.status \in Deleting \/ ~project.synced \/ Covered(r)
<1>1. TypeOK /\ faults' \in Nat /\ UNCHANGED Reserved
  BY DEF Inv, TypeOK
<1>2. NoNewPublisher
  BY <1>1, AdvanceType DEF Drop, Step
<1>3. rs \in [Request -> Row]
  BY <1>1, RowType DEF Terminal, TypeOK
<1>4. CASE ends
  <2>1. request' = rs /\ UNCHANGED <<candidate, job>>
    BY <1>4 DEF Drop
  <2> HIDE DEF rs
  <2> QED BY <1>1, <1>2, <1>3, <2>1, BookkeepingKeepsInv DEF TypeOK
<1>5. CASE ~ends
  <2>1. QueueActive(project, candidate, FALSE, FALSE, rs)
    BY <1>5 DEF Drop
  <2> HIDE DEF rs
  <2> QED BY <1>1, <1>2, <1>3, <2>1, RequeueKeepsInv
<1> QED BY <1>4, <1>5

\* The result is published for the claimed coordinates, which are the current ones,
\* so the inputs it was computed from are current as well.
LEMMA PublishKeepsInv ==
  ASSUME Inv, NEW w \in Worker, Publish(w)
  PROVE  Inv'
<1>1. TypeOK /\ UNCHANGED <<Reserved, faults>> /\ faults' \in Nat /\ exec[w].pc = "publish"
  BY DEF Publish, Inv, TypeOK
<1>2. CASE Current(w)
  <2> DEFINE r == exec[w].request
             coord == Coordinates(project, candidate)
             result == Evaluate(exec[w].seen)
  <2>1. /\ candidate' = [candidate EXCEPT !.status = result, !.latest = coord]
        /\ request' = [request EXCEPT ![r].status = "succeeded"]
        /\ Advance(w, "acknowledge") /\ UNCHANGED job
    BY <1>2 DEF Publish
  <2>2. coord \in Coordinate /\ result \in Result
    BY <1>1, CoordinatesType DEF TypeOK, Evaluate, Result
  <2>3. NoNewPublisher
    BY <1>1, <2>1, AdvanceType DEF Step
  <2>4. request' \in [Request -> Row]
    BY <1>1, <2>1, RowType DEF Terminal
  <2>5. /\ candidate' \in Candidate
        /\ candidate'.open = candidate.open /\ candidate'.version = candidate.version
        /\ candidate'.latest = coord /\ candidate'.status = result
    <3> HIDE DEF coord, result
    <3> QED BY <1>1, <2>1, <2>2 DEF TypeOK, Candidate
  <2>6. result = "ready" => inputs.planning
    <3>1. exec[w].claim.state = project.state
      BY <1>2 DEF Current, Coordinates
    <3>2. exec[w].seen.planning = inputs.planning
      BY <1>1, <3>1 DEF Inv, SeenInputsHold
    <3> QED BY <3>2 DEF Evaluate
  <2>7. FreshVerdict'
    <3>1. coord # NoEvaluation
      BY <2>2, NullAssumption
    <3>2. /\ coord.state = project.state /\ coord.version = candidate.version
          /\ coord.configuration = project.configuration
      BY DEF Coordinates
    <3> HIDE DEF coord
    <3> QED BY <1>1, <2>5, <3>1, <3>2 DEF FreshVerdict, Reserved
  <2>8. ReadyMeansPlanned' /\ CandidateOpen'
    BY <1>1, <2>5, <2>6 DEF Inv, ReadyMeansPlanned, CandidateOpen, Reserved
  <2>9. SeenInputsHold'
    BY <1>1, <2>3 DEF Inv, SeenInputsHold, Reserved, NoNewPublisher
  <2> QED BY <1>1, <2>1, <2>3, <2>4, <2>5, <2>7, <2>8, <2>9
          DEF Inv, TypeOK, Reserved, NoNewPublisher
<1>3. CASE ~Current(w)
  <2>1. Drop(w)
    BY <1>3 DEF Publish
  <2> QED BY <1>1, <2>1, DropKeepsInv
<1> QED BY <1>2, <1>3

\* Every step of a worker slot keeps the invariant.
LEMMA SlotStep ==
  ASSUME Inv, NEW w \in Worker, Progress(w) \/ Trouble(w)
  PROVE  Inv'
<1>1. TypeOK /\ request \in [Request -> Row] /\ job \in [Request -> Job]
      /\ exec \in [Worker -> Execution] /\ faults \in Nat
  BY DEF Inv, TypeOK
<1>2. ASSUME NEW kind, Fault(kind)
      PROVE  faults' \in Nat
  BY <1>1, <1>2 DEF Fault
<1>3. ASSUME Start(w)
      PROVE  Inv'
  <2>1. Recover /\ UNCHANGED <<Reserved, faults>> /\ NoNewPublisher
    BY <1>1, <1>3, IdleType DEF Start
  <2> QED BY <2>1, RecoverKeepsInv
<1>4. ASSUME NEW r \in Request, Take(w, r)
      PROVE  Inv'
  <2>1. job' \in [Request -> Job]
    BY <1>1, <1>4 DEF Take, Job
  <2>2. NoNewPublisher
    <3> DEFINE e == [exec[w] EXCEPT !.pc = "claim", !.request = r]
    <3>1. e \in Execution /\ e.pc # "publish"
      BY <1>1 DEF Execution, Step
    <3>2. exec' = [exec EXCEPT ![w] = e]
      BY <1>4 DEF Take
    <3> HIDE DEF e
    <3> QED BY <1>1, <3>1, <3>2 DEF NoNewPublisher
  <2> QED BY <1>1, <1>4, <2>1, <2>2, BookkeepingKeepsInv DEF Take
<1>5. ASSUME Discard(w)
      PROVE  Inv'
  BY <1>5, DropKeepsInv DEF Discard
<1>6. ASSUME RecordFailure(w)
      PROVE  Inv'
  <2> DEFINE status == IF exec[w].terminal THEN "failed" ELSE "running"
  <2>1. /\ \/ request' = [request EXCEPT ![exec[w].request].status = status]
           \/ request' = request
        /\ Advance(w, IF exec[w].terminal THEN "acknowledge" ELSE "retry")
        /\ UNCHANGED <<Reserved, candidate, job, faults>>
    BY <1>6 DEF RecordFailure
  <2>2. request' \in [Request -> Row]
    <3>1. status \in Active \cup Terminal
      BY DEF Active, Terminal
    <3> HIDE DEF status
    <3>2. CASE request' = [request EXCEPT ![exec[w].request].status = status]
      BY <1>1, <3>1, <3>2, RowType
    <3>3. CASE request' = request
      BY <1>1, <3>3 DEF TypeOK
    <3> QED BY <2>1, <3>2, <3>3
  <2>3. NoNewPublisher
    BY <1>1, <2>1, AdvanceType DEF Step
  <2> QED BY <1>1, <2>1, <2>2, <2>3, BookkeepingKeepsInv
<1>7. ASSUME Acknowledge(w) \/ Retry(w)
      PROVE  Inv'
  <2>1. job' \in [Request -> Job]
    <3>1. CASE Acknowledge(w)
      BY <1>1, <3>1 DEF Acknowledge, NoJob, Job
    <3>2. CASE Retry(w)
      <4> DEFINE state == IF job[exec[w].request].attempts >= MaxAttempts THEN "dead" ELSE "ready"
      <4>1. state \in {"dead", "ready"} /\ job' = [job EXCEPT ![exec[w].request].state = state]
        BY <3>2 DEF Retry, Release
      <4> HIDE DEF state
      <4> QED BY <1>1, <4>1 DEF Job
    <3> QED BY <1>7, <3>1, <3>2
  <2>2. NoNewPublisher /\ UNCHANGED <<Reserved, candidate, request, faults>>
    BY <1>1, <1>7, IdleType DEF Acknowledge, Retry
  <2> QED BY <1>1, <2>1, <2>2, BookkeepingKeepsInv
<1>8. ASSUME NEW kind, Fail(w, kind)
      PROVE  Inv'
  <2> DEFINE terminal == kind = "permanent" \/ job[exec[w].request].attempts >= MaxAttempts
             e == [exec[w] EXCEPT !.pc = "record", !.terminal = terminal]
  <2>1. terminal \in BOOLEAN
    OBVIOUS
  <2>2. e \in Execution /\ e.pc # "publish"
    <3> HIDE DEF terminal
    <3> QED BY <1>1, <2>1 DEF Execution, Step
  <2>3. exec' = [exec EXCEPT ![w] = e] /\ UNCHANGED <<Reserved, candidate, request, job>>
    BY <1>8 DEF Fail
  <2>4. NoNewPublisher
    <3> HIDE DEF e
    <3> QED BY <1>1, <2>2, <2>3 DEF NoNewPublisher
  <2>5. faults' \in Nat
    BY <1>2, <1>8 DEF Fail
  <2> QED BY <1>1, <2>3, <2>4, <2>5, BookkeepingKeepsInv
<1>9. ASSUME RawFail(w)
      PROVE  Inv'
  <2>1. /\ Advance(w, "retry") /\ UNCHANGED <<Reserved, candidate, request, job>>
        /\ faults' \in Nat
    BY <1>2, <1>9 DEF RawFail
  <2>2. NoNewPublisher
    BY <1>1, <2>1, AdvanceType DEF Step
  <2> QED BY <1>1, <2>1, <2>2, BookkeepingKeepsInv
<1>10. ASSUME Crash(w)
       PROVE  Inv'
  <2>1. /\ UNCHANGED <<Reserved, candidate, request, job>> /\ faults' \in Nat
        /\ NoNewPublisher
    BY <1>1, <1>2, <1>10, IdleType DEF Crash
  <2> QED BY <1>1, <2>1, BookkeepingKeepsInv
<1> QED
  BY <1>3, <1>4, <1>5, <1>6, <1>7, <1>8, <1>9, <1>10,
     ClaimKeepsInv, SnapshotKeepsInv, PublishKeepsInv
  DEF Progress, Trouble

-----------------------------------------------------------------------------
(* The invariant holds                                                     *)

LEMMA InitInv == Init => Inv
<1> SUFFICES ASSUME Init PROVE Inv
  OBVIOUS
<1>1. TypeOK
  <2>1. project \in Project /\ candidate \in Candidate
    BY DEF Init, Project, Candidate, Connected
  <2>2. /\ policy \in [stored : Policy, ran : Policy, effective : Policy]
        /\ inputs \in [permission : BOOLEAN, planning : BOOLEAN, checks : BOOLEAN]
    BY DEF Init
  <2>3. request \in [Request -> Row] /\ job \in [Request -> Job]
    BY DEF Init, Row, Job, NoJob, ZeroCoordinate, Coordinate
  <2>4. exec \in [Worker -> Execution]
    BY DEF Init, IdleExec, Execution, Step, ZeroCoordinate, Coordinate, NothingSeen,
           Seen, Connected
  <2> QED BY <2>1, <2>2, <2>3, <2>4 DEF Init, TypeOK
<1>2. FreshVerdict /\ ReadyMeansPlanned /\ CandidateOpen
  BY DEF Init, FreshVerdict, ReadyMeansPlanned, CandidateOpen, Settled
<1>3. SeenInputsHold
  BY DEF Init, SeenInputsHold, IdleExec
<1> QED BY <1>1, <1>2, <1>3 DEF Inv

LEMMA NextInv == Inv /\ [Next]_vars => Inv'
<1> SUFFICES ASSUME Inv, [Next]_vars PROVE Inv'
  OBVIOUS
<1>1. ASSUME NEW checks \in BOOLEAN, RefreshPolicy(checks)
      PROVE  Inv'
  <2>1. checkSync' \in Nat /\ UNCHANGED <<exec, changes, faults>>
    BY <1>1 DEF RefreshPolicy
  <2>2. CASE ProjectRequiredChecks(policy.effective, checks)
    <3>1. policy.effective \in Policy /\ changes \in Nat /\ faults \in Nat
      BY DEF Inv, TypeOK
    <3> QED BY <2>1, <2>2, <3>1, RequiredChecksStep
  <2>3. CASE UNCHANGED <<project, candidate, policy, inputs, request, job>>
    BY <2>1, <2>3, QuietKeepsInv DEF Inv, TypeOK
  <2> QED BY <1>1, <2>2, <2>3 DEF RefreshPolicy
<1>2. ASSUME RefreshFails
      PROVE  Inv'
  <2>1. /\ checkSync' \in Nat /\ faults' \in Nat
        /\ UNCHANGED <<project, candidate, policy, inputs, request, job, exec, changes>>
    BY <1>2 DEF RefreshFails, Fault, Inv, TypeOK
  <2> QED BY <2>1, QuietKeepsInv DEF Inv, TypeOK
<1>3. ASSUME NEW r \in Request, LeaseExpires(r) \/ LoseJob(r)
      PROVE  Inv'
  <2>1. /\ UNCHANGED <<Reserved, candidate, request, exec>> /\ faults' \in Nat
        /\ job' \in [Request -> Job]
    BY <1>3 DEF LeaseExpires, LoseJob, Release, Fault, NoJob, Inv, TypeOK, Job
  <2>2. NoNewPublisher
    BY <2>1 DEF Inv, TypeOK, NoNewPublisher
  <2> QED BY <2>1, <2>2, BookkeepingKeepsInv DEF Inv, TypeOK
<1>4. CASE UNCHANGED vars
  BY <1>4, QuietKeepsInv DEF vars, Inv, TypeOK
<1> QED BY <1>1, <1>2, <1>3, <1>4, WriterStep, SlotStep DEF Next, Refresh

\* Every reachable state satisfies the inductive invariant.
THEOREM Invariance == Spec => []Inv
BY InitInv, NextInv, PTL DEF Spec

\* Every table and every handler execution keeps its type.
THEOREM TypeCorrect == Spec => []TypeOK
<1>1. Inv => TypeOK
  BY DEF Inv
<1> QED BY <1>1, Invariance, PTL

\* No race of writers, workers, crashes and retries leaves the candidate showing
\* the result for an older release state.
THEOREM VerdictIsFresh == Spec => []FreshVerdict
<1>1. Inv => FreshVerdict
  BY DEF Inv
<1> QED BY <1>1, Invariance, PTL

\* A candidate shown as ready passes the planning gates with the inputs of now.
THEOREM ReadyIsPlanned == Spec => []ReadyMeansPlanned
<1>1. Inv => ReadyMeansPlanned
  BY DEF Inv
<1> QED BY <1>1, Invariance, PTL

-----------------------------------------------------------------------------
(* What no step does: bring an ended request back, drop an evaluation that *)
(* is needed, or show a verdict that ReleaseVerdict does not allow.        *)

(* Ended requests                                                          *)

Kept(rs) == \A r \in Request : rs[r].status \in Terminal => request'[r].status = rs[r].status

LEMMA EnqueueKeeps ==
  ASSUME NEW coord, NEW rs \in [Request -> Row], Enqueue(coord, rs)
  PROVE  Kept(rs)
<1>1. "queued" \notin Terminal /\ "absent" \notin Terminal
  BY DEF Terminal
<1>2. CASE \E r \in Request : rs[r].status = "queued"
  <2>1. ASSUME NEW r \in Request, rs[r].status \in Terminal
        PROVE  request'[r] = rs[r]
    BY <1>1, <1>2, <2>1 DEF Enqueue
  <2> QED BY <2>1 DEF Kept
<1>3. CASE ~\E r \in Request : rs[r].status = "queued"
  <2> DEFINE fresh == CHOOSE r \in Request : rs[r].status = "absent"
  <2>1. /\ fresh \in Request /\ rs[fresh].status = "absent"
        /\ request' = [rs EXCEPT ![fresh] = [status |-> "queued", coord |-> coord]]
    BY <1>3 DEF Enqueue
  <2> HIDE DEF fresh
  <2>2. ASSUME NEW r \in Request, rs[r].status \in Terminal
        PROVE  request'[r] = rs[r]
    BY <1>1, <2>1, <2>2
  <2> QED BY <2>2 DEF Kept
<1> QED BY <1>2, <1>3

LEMMA QueueActiveKeeps ==
  ASSUME NEW p, NEW c, NEW clear, NEW defer, NEW rs \in [Request -> Row],
         QueueActive(p, c, clear, defer, rs)
  PROVE  Kept(rs)
<1>1. CASE request' = rs
  BY <1>1 DEF Kept
<1>2. CASE \E coord : Enqueue(coord, rs)
  BY <1>2, EnqueueKeeps
<1> QED BY <1>1, <1>2 DEF QueueActive

LEMMA SupersedeKeeps ==
  ASSUME TypeOK, NEW r, request[r].status \notin Terminal, NEW rs,
         NEW status, rs = [request EXCEPT ![r].status = status]
  PROVE  \A s \in Request : request[s].status \in Terminal => rs[s].status = request[s].status
BY DEF TypeOK

\* A writer touches the release state, or leaves the requests as they are.
LEMMA WriterTouches ==
  ASSUME Writer
  PROVE  request' = request \/ \E p, c, clear, defer : Touch(p, c, clear, defer)
<1>1. ASSUME NEW next, NEW reprojected, NEW drift, NEW planning, NEW checks,
             ApplyProjection(next, reprojected, drift, planning, checks)
      PROVE  request' = request \/ \E p, c, clear, defer : Touch(p, c, clear, defer)
  <2> DEFINE row == [project EXCEPT !.status = next, !.synced = TRUE,
               !.policy = IF project.policy = 0 \/ policy.stored # policy.effective
                          THEN @ + 1 ELSE @]
  <2>1. Touch(row, candidate, FALSE, FALSE) \/ request' = request
    BY <1>1 DEF ApplyProjection
  <2> HIDE DEF row
  <2> QED BY <2>1
<1>2. ASSUME NEW rules, NEW checks, RefreshChecks(rules, checks)
      PROVE  request' = request \/ \E p, c, clear, defer : Touch(p, c, clear, defer)
  <2> DEFINE effective == IF rules THEN policy.effective ELSE policy.stored
             row == [project EXCEPT !.policy =
                       IF project.policy = 0 \/ policy.stored # effective THEN @ + 1 ELSE @]
  <2>1. Touch(row, candidate, FALSE, FALSE) \/ request' = request
    BY <1>2 DEF RefreshChecks, ProjectRequiredChecks
  <2> HIDE DEF row
  <2> QED BY <2>1
<1> QED
  BY <1>1, <1>2
  DEF Writer, ArchiveProjection, MarkSynchronizationFailed, ObserveForcedPush,
      MarkIncrementalFailed, ConfigureBranches, OverrideRequiredChecks, RequestDeletion,
      RulesChange, RecordQa, PersistDependencies, ChangeExclusion, SetPermission

\* Every writer, which at most enqueues, keeps ended requests.
LEMMA WriterKeeps ==
  ASSUME TypeOK, Writer
  PROVE  Kept(request)
<1>1. CASE request' = request
  BY <1>1 DEF Kept
<1>2. CASE \E p, c, clear, defer : QueueActive(p, c, clear, defer, request)
  BY <1>2, QueueActiveKeeps DEF TypeOK
<1> QED BY <1>1, <1>2, WriterTouches DEF Touch

LEMMA DropKeeps ==
  ASSUME TypeOK, NEW w \in Worker, Drop(w)
  PROVE  Kept(request)
<1> DEFINE r == exec[w].request
           rs == IF request[r].status \in Active
                 THEN [request EXCEPT ![r].status = "superseded"] ELSE request
<1>1. /\ rs \in [Request -> Row]
      /\ \A s \in Request : request[s].status \in Terminal => rs[s].status = request[s].status
  <2>1. CASE request[r].status \in Active
    <3>1. request[r].status \notin Terminal
      BY <2>1 DEF Active, Terminal
    <3>2. rs = [request EXCEPT ![r].status = "superseded"]
      BY <2>1
    <3> HIDE DEF r, rs
    <3> QED BY <3>1, <3>2, SupersedeKeeps, RowType DEF Terminal
  <2>2. CASE request[r].status \notin Active
    BY <2>2 DEF TypeOK
  <2> QED BY <2>1, <2>2
<1>2. request' = rs \/ QueueActive(project, candidate, FALSE, FALSE, rs)
  BY DEF Drop
<1> HIDE DEF rs
<1>3. Kept(rs)
  BY <1>1, <1>2, QueueActiveKeeps DEF Kept
<1> QED BY <1>1, <1>3 DEF Kept

LEMMA ClaimKeeps ==
  ASSUME TypeOK, NEW w \in Worker, Claim(w)
  PROVE  Kept(request)
<1> DEFINE r == exec[w].request
           rs == [request EXCEPT ![r].status = "superseded"]
<1>1. CASE request' = request
  BY <1>1 DEF Kept
<1>2. CASE /\ request[r].status \in Active
           /\ request' = rs \/ QueueActive(project, candidate, FALSE, FALSE, rs)
  <2>1. request[r].status \notin Terminal
    BY <1>2 DEF Active, Terminal
  <2>2. /\ rs \in [Request -> Row]
        /\ \A s \in Request : request[s].status \in Terminal => rs[s].status = request[s].status
    BY <2>1, SupersedeKeeps, RowType DEF Terminal
  <2> HIDE DEF rs
  <2>3. Kept(rs)
    BY <1>2, <2>2, QueueActiveKeeps DEF Kept
  <2> QED BY <2>2, <2>3 DEF Kept
<1>3. CASE /\ request[r].status \in Active
           /\ request' = [request EXCEPT ![r].status = "running"]
  <2>1. request[r].status \notin Terminal
    BY <1>3 DEF Active, Terminal
  <2> QED BY <1>3, <2>1, SupersedeKeeps DEF Kept
<1> QED BY <1>1, <1>2, <1>3 DEF Claim

LEMMA SlotKeeps ==
  ASSUME TypeOK, NEW w \in Worker, Progress(w) \/ Trouble(w)
  PROVE  Kept(request)
<1>1. CASE request' = request
  BY <1>1 DEF Kept
<1>2. ASSUME Start(w)
      PROVE  Kept(request)
  <2>1. CASE \E c, clear, defer : QueueActive(project, c, clear, defer, request)
    BY <2>1, QueueActiveKeeps DEF TypeOK
  <2> DEFINE active == {r \in Request : request[r].status \in Active}
             orphans == {r \in active : job[r].state = "none"}
             stray == {r \in orphans : request[r].status = "running"}
             queued == \E r \in active : request[r].status = "queued"
             next == IF queued THEN "superseded" ELSE "queued"
  <2>2. CASE request' = [r \in Request |->
               IF r \in stray THEN [request[r] EXCEPT !.status = next] ELSE request[r]]
    <3>1. \A r \in stray : request[r].status \notin Terminal
      BY DEF Terminal
    <3> HIDE DEF stray, next
    <3> QED BY <2>2, <3>1 DEF Kept
  <2>3. \/ request' = request
        \/ QueueActive(project, EnsureCandidate(project, candidate), FALSE, FALSE, request)
        \/ request' = [r \in Request |->
               IF r \in stray THEN [request[r] EXCEPT !.status = next] ELSE request[r]]
    BY <1>2 DEF Start, Recover
  <2> HIDE DEF stray, next
  <2> QED BY <1>1, <2>1, <2>2, <2>3
<1>3. ASSUME Publish(w) \/ Discard(w)
      PROVE  Kept(request)
  <2>1. CASE Drop(w)
    BY <2>1, DropKeeps
  <2>2. CASE Current(w) /\ request' = [request EXCEPT ![exec[w].request].status = "succeeded"]
    <3>1. request[exec[w].request].status \notin Terminal
      BY <2>2 DEF Current, Terminal
    <3> QED BY <2>2, <3>1, SupersedeKeeps DEF Kept
  <2> QED BY <1>3, <2>1, <2>2 DEF Publish, Discard
<1>4. ASSUME RecordFailure(w)
      PROVE  Kept(request)
  <2> DEFINE status == IF exec[w].terminal THEN "failed" ELSE "running"
  <2>1. CASE /\ request[exec[w].request].status \in Active
             /\ request' = [request EXCEPT ![exec[w].request].status = status]
    <3>1. request[exec[w].request].status \notin Terminal
      BY <2>1 DEF Active, Terminal
    <3> HIDE DEF status
    <3> QED BY <2>1, <3>1, SupersedeKeeps DEF Kept
  <2> QED BY <1>1, <1>4, <2>1 DEF RecordFailure
<1> QED
  BY <1>1, <1>2, <1>3, <1>4, ClaimKeeps
  DEF Progress, Trouble, Take, Snapshot, Acknowledge, Retry, Fail, RawFail, Crash

\* A request that succeeded, failed or was superseded never becomes anything else.
THEOREM EndedStaysEnded == Spec => TerminalStays
<1>1. TypeOK /\ [Next]_vars => [Kept(request)]_vars
  <2> SUFFICES ASSUME TypeOK, Next PROVE Kept(request)
    BY DEF vars
  <2>1. CASE request' = request
    BY <2>1 DEF Kept
  <2>2. ASSUME NEW checks, RefreshPolicy(checks)
        PROVE  Kept(request)
    <3> DEFINE row == [project EXCEPT !.policy =
                 IF project.policy = 0 \/ policy.stored # policy.effective THEN @ + 1 ELSE @]
    <3>1. Touch(row, candidate, FALSE, FALSE) \/ request' = request
      BY <2>2 DEF RefreshPolicy, ProjectRequiredChecks
    <3> HIDE DEF row
    <3> QED BY <2>1, <3>1, QueueActiveKeeps DEF Touch, TypeOK
  <2> QED BY <2>1, <2>2, WriterKeeps, SlotKeeps
          DEF Next, Refresh, RefreshFails, LeaseExpires, LoseJob
<1> QED BY <1>1, TypeCorrect, PTL DEF Spec, TerminalStays, Kept

-----------------------------------------------------------------------------
(* Evaluations that are needed                                             *)

\* What one step may do to the active requests.
DropsByFailure ==
  /\ HasActive /\ ~HasActive'
  /\ candidate'.status = "evaluating"
  /\ candidate'.latest # Coordinates(project', candidate')
  /\ project'.synced /\ project'.status \notin Deleting
  => \E r \in Request : request[r].status # "failed" /\ request'[r].status = "failed"

\* An enqueued evaluation leaves an active request.
LEMMA EnqueueActivates ==
  ASSUME NEW coord, NEW rs \in [Request -> Row], Enqueue(coord, rs)
  PROVE  HasActive'
<1>1. "queued" \in Active
  BY DEF Active
<1>2. ASSUME NEW r \in Request, rs[r].status = "queued"
      PROVE  HasActive'
  <2>1. request'[r] = [rs[r] EXCEPT !.coord = coord]
    BY <1>2 DEF Enqueue
  <2>2. request'[r].status = "queued"
    BY <1>2, <2>1 DEF Row
  <2> QED BY <1>1, <2>2 DEF HasActive
<1>3. CASE ~\E r \in Request : rs[r].status = "queued"
  <2> DEFINE fresh == CHOOSE r \in Request : rs[r].status = "absent"
  <2>1. /\ fresh \in Request
        /\ request' = [rs EXCEPT ![fresh] = [status |-> "queued", coord |-> coord]]
    BY <1>3 DEF Enqueue
  <2> HIDE DEF fresh
  <2>2. request'[fresh].status = "queued"
    BY <2>1
  <2> QED BY <1>1, <2>1, <2>2 DEF HasActive
<1> QED BY <1>2, <1>3

\* With an open candidate a synchronized project's evaluation is queued at once.
LEMMA QueueActivates ==
  ASSUME NEW p, NEW c, NEW clear, NEW defer, NEW rs \in [Request -> Row],
         QueueActive(p, c, clear, defer, rs)
  PROVE  /\ request' = rs \/ HasActive'
         /\ (EnsureCandidate(p, c).open /\ p.synced /\ ~defer) => HasActive'
<1>1. ASSUME NEW coord, Enqueue(coord, rs)
      PROVE  HasActive'
  BY <1>1, EnqueueActivates
<1> QED BY <1>1 DEF QueueActive

\* Superseding one request and queueing anew leaves an active request.
LEMMA RequeueActivates ==
  ASSUME Inv, NEW rs \in [Request -> Row], UNCHANGED project,
         project.synced, project.status \notin Deleting,
         QueueActive(project, candidate, FALSE, FALSE, rs)
  PROVE  HasActive'
<1>1. EnsureCandidate(project, candidate).open
  BY DEF EnsureCandidate, Inv, CandidateOpen
<1> QED BY <1>1, QueueActivates

LEMMA ClaimDropsNone ==
  ASSUME Inv, NEW w \in Worker, Claim(w)
  PROVE  DropsByFailure
<1> DEFINE r == exec[w].request
           rs == [request EXCEPT ![r].status = "superseded"]
<1>1. UNCHANGED project
  BY DEF Claim, Reserved
<1>2. CASE request' = request
  BY <1>2 DEF DropsByFailure, HasActive
<1>3. CASE project.status \in Deleting
  BY <1>1, <1>3 DEF DropsByFailure
<1>4. CASE /\ project.status \notin Deleting
           /\ QueueActive(project, candidate, FALSE, FALSE, rs)
  <2>1. rs \in [Request -> Row]
    BY RowType DEF Inv, Terminal
  <2> HIDE DEF rs
  <2>2. project.synced => HasActive'
    BY <1>1, <1>4, <2>1, RequeueActivates
  <2> QED BY <1>1, <2>2 DEF DropsByFailure
<1>5. CASE /\ request[r].status \in Active
           /\ request' = [request EXCEPT ![r].status = "running"]
  <2>1. ASSUME NEW s \in Request, request[s].status \in Active
        PROVE  request'[s].status \in Active
    BY <1>5, <2>1 DEF Inv, TypeOK, Row, Active
  <2> QED BY <2>1 DEF DropsByFailure, HasActive
<1> QED BY <1>2, <1>3, <1>4, <1>5 DEF Claim

LEMMA DropLeavesOne ==
  ASSUME Inv, NEW w \in Worker, Drop(w), UNCHANGED project
  PROVE  DropsByFailure
<1> DEFINE r == exec[w].request
           rs == IF request[r].status \in Active
                 THEN [request EXCEPT ![r].status = "superseded"] ELSE request
<1>1. rs \in [Request -> Row]
  BY RowType DEF Inv, TypeOK, Terminal
<1>2. \A s \in Request \ {r} : rs[s] = request[s]
  BY DEF Inv, TypeOK
<1>3. CASE project.status \in Deleting \/ ~project.synced
  BY <1>3 DEF DropsByFailure
<1>4. CASE Covered(r) /\ request' = rs /\ UNCHANGED candidate
  <2> HIDE DEF rs
  <2>1. CASE candidate.latest = Coordinates(project, candidate)
    <3>1. candidate'.latest = Coordinates(project', candidate')
      BY <1>4, <2>1 DEF Coordinates
    <3> QED BY <3>1 DEF DropsByFailure
  <2>2. ASSUME NEW s \in Request \ {r}, request[s].status \in Active
        PROVE  HasActive'
    BY <1>2, <1>4, <2>2 DEF HasActive
  <2> QED BY <1>4, <2>1, <2>2 DEF Covered, DropsByFailure
<1>5. CASE /\ project.status \notin Deleting /\ project.synced
           /\ QueueActive(project, candidate, FALSE, FALSE, rs)
  <2> HIDE DEF rs
  <2> QED BY <1>1, <1>5, RequeueActivates DEF DropsByFailure
<1> QED BY <1>3, <1>4, <1>5 DEF Drop

LEMMA RecoverDropsNone ==
  ASSUME Inv, NEW w \in Worker, Start(w)
  PROVE  HasActive => HasActive'
<1> DEFINE active == {r \in Request : request[r].status \in Active}
           orphans == {r \in active : job[r].state = "none"}
           stray == {r \in orphans : request[r].status = "running"}
           queued == \E r \in active : request[r].status = "queued"
           next == IF queued THEN "superseded" ELSE "queued"
<1>1. CASE request' = request
  BY <1>1 DEF HasActive
<1>2. CASE QueueActive(project, EnsureCandidate(project, candidate), FALSE, FALSE, request)
  <2>1. request \in [Request -> Row]
    BY DEF Inv, TypeOK
  <2>2. request' = request \/ HasActive'
    BY <1>2, <2>1, QueueActivates
  <2> QED BY <1>1, <2>2
<1>3. CASE request' = [r \in Request |->
             IF r \in stray THEN [request[r] EXCEPT !.status = next] ELSE request[r]]
  <2>1. ASSUME NEW r \in Request, request[r].status = "queued"
        PROVE  HasActive'
    <3>1. r \notin stray
      BY <2>1
    <3> HIDE DEF stray, next
    <3>2. request'[r].status \in Active
      BY <1>3, <2>1, <3>1 DEF Active
    <3> QED BY <3>2 DEF HasActive
  <2>2. ASSUME ~queued, NEW r \in Request, request[r].status \in Active
        PROVE  HasActive'
    <3>1. next = "queued"
      BY <2>2
    <3> HIDE DEF stray, next
    <3>2. request[r] \in Row
      BY DEF Inv, TypeOK
    <3>3. [request[r] EXCEPT !.status = next].status = next
      BY <3>2 DEF Row
    <3>4. request'[r].status \in Active
      BY <1>3, <2>2, <3>1, <3>3 DEF Active
    <3> QED BY <3>4 DEF HasActive
  <2> HIDE DEF next
  <2> QED BY <2>1, <2>2 DEF HasActive
<1>4. \/ request' = request
      \/ QueueActive(project, EnsureCandidate(project, candidate), FALSE, FALSE, request)
      \/ request' = [r \in Request |->
             IF r \in stray THEN [request[r] EXCEPT !.status = next] ELSE request[r]]
  BY DEF Start, Recover
<1> HIDE DEF stray, next
<1> QED BY <1>1, <1>2, <1>3, <1>4

LEMMA SlotDropsNone ==
  ASSUME Inv, NEW w \in Worker, Progress(w) \/ Trouble(w)
  PROVE  DropsByFailure
<1>1. CASE request' = request
  BY <1>1 DEF DropsByFailure, HasActive
<1>2. ASSUME Start(w)
      PROVE  DropsByFailure
  BY <1>2, RecoverDropsNone DEF DropsByFailure
<1>3. ASSUME Publish(w) \/ Discard(w)
      PROVE  DropsByFailure
  <2>1. UNCHANGED project
    BY <1>3 DEF Publish, Discard, Reserved
  <2>2. CASE Drop(w)
    BY <2>1, <2>2, DropLeavesOne
  <2>3. CASE candidate' = [candidate EXCEPT !.status = Evaluate(exec[w].seen),
                             !.latest = Coordinates(project, candidate)]
    <3>1. candidate'.status # "evaluating"
      BY <2>3 DEF Evaluate, Inv, TypeOK, Candidate
    <3> QED BY <3>1 DEF DropsByFailure
  <2> QED BY <1>3, <2>2, <2>3 DEF Publish, Discard
<1>4. ASSUME RecordFailure(w)
      PROVE  DropsByFailure
  <2> DEFINE r == exec[w].request
             status == IF exec[w].terminal THEN "failed" ELSE "running"
  <2>1. CASE /\ request[r].status \in Active
             /\ request' = [request EXCEPT ![r].status = status]
    <3>1. \A s \in Request \ {r} : request'[s] = request[s]
      BY <2>1 DEF Inv, TypeOK
    <3>2. r \in Request => request'[r].status = status
      BY <2>1 DEF Inv, TypeOK, Row
    <3>3. status = "failed" \/ status \in Active
      BY DEF Active
    <3>4. request[r].status # "failed"
      BY <2>1 DEF Active
    <3> HIDE DEF status, r
    <3> QED BY <3>1, <3>2, <3>3, <3>4 DEF DropsByFailure, HasActive
  <2> QED BY <1>1, <1>4, <2>1 DEF RecordFailure
<1> QED
  BY <1>1, <1>2, <1>3, <1>4, ClaimDropsNone
  DEF Progress, Trouble, Take, Snapshot, Acknowledge, Retry, Fail, RawFail, Crash

\* No step of a writer, a slot or the recovery takes away the last active request
\* while the current state has no evaluation yet, except a failure for good.
THEOREM NeededStaysQueued == Spec => EvaluationNotDropped
<1>1. Inv /\ [Next]_vars => [DropsByFailure]_vars
  <2> SUFFICES ASSUME Inv, Next PROVE DropsByFailure
    BY DEF vars
  <2>1. CASE request' = request
    BY <2>1 DEF DropsByFailure, HasActive
  <2>2. CASE \E p, c, clear, defer : Touch(p, c, clear, defer)
    <3>1. request \in [Request -> Row]
      BY DEF Inv, TypeOK
    <3>2. request' = request \/ HasActive'
      BY <2>2, <3>1, QueueActivates DEF Touch
    <3> QED BY <2>1, <3>2 DEF DropsByFailure
  <2>3. ASSUME NEW checks, RefreshPolicy(checks)
        PROVE  DropsByFailure
    <3> DEFINE row == [project EXCEPT !.policy =
                 IF project.policy = 0 \/ policy.stored # policy.effective THEN @ + 1 ELSE @]
    <3>1. Touch(row, candidate, FALSE, FALSE) \/ request' = request
      BY <2>3 DEF RefreshPolicy, ProjectRequiredChecks
    <3> HIDE DEF row
    <3> QED BY <2>1, <2>2, <3>1
  <2> QED BY <2>1, <2>2, <2>3, WriterTouches, SlotDropsNone
          DEF Next, Refresh, RefreshFails, LeaseExpires, LoseJob
<1> QED BY <1>1, Invariance, PTL DEF Spec, EvaluationNotDropped, DropsByFailure

-----------------------------------------------------------------------------
(* The protocol implements ReleaseVerdict                                  *)

World == <<project.state, candidate.version>>
Shown == IF ~candidate.open THEN <<>>
         ELSE IF candidate.status = "evaluating" THEN <<"pending">>
         ELSE <<candidate.latest.state, candidate.latest.version>>

\* A touched release state is a Change of the abstract world.
LEMMA TouchRefines ==
  ASSUME Inv, NEW p \in Project, NEW c \in Candidate, NEW clear \in BOOLEAN,
         NEW defer \in BOOLEAN, Touch(p, c, clear, defer), p.state = project.state,
         candidate.open => c.open /\ c.version >= candidate.version
  PROVE  Verdict!MoveOn
<1>1. /\ project' \in Project /\ project'.state = project.state + 1
      /\ project.state \in Nat /\ candidate.version \in Nat
  BY DEF Touch, Project, Inv, TypeOK, Candidate
<1>2. QueueActive(project', c, clear, defer, request)
  BY DEF Touch
<1>3. request \in [Request -> Row] /\ job \in [Request -> Job]
  BY DEF Inv, TypeOK
<1>4. /\ candidate' \in Candidate /\ ~Settled'
      /\ c.open => candidate'.open /\ candidate'.version = c.version
  BY <1>1, <1>2, <1>3, QueueActiveResult
<1>5. candidate'.version \in Nat /\ candidate'.version >= candidate.version
  BY <1>1, <1>4 DEF Candidate, Inv, CandidateOpen
<1>6. World' \in Verdict!World /\ World'[1] > World[1] /\ World'[2] >= World[2]
  BY <1>1, <1>5 DEF World, Verdict!World
<1>7. Shown' = (IF candidate'.open THEN <<"pending">> ELSE <<>>)
  BY <1>4 DEF Shown, Settled
<1>8. Shown # <<>> => candidate.open
  BY DEF Shown
<1> QED BY <1>4, <1>6, <1>7, <1>8
        DEF Verdict!MoveOn, Verdict!Absent, Verdict!Pending, World, Shown

\* An evaluation queued at an unchanged release state is a Reopen, or nothing.
LEMMA RequeueRefines ==
  ASSUME Inv, NEW c \in {candidate, EnsureCandidate(project, candidate)},
         NEW rs \in [Request -> Row], UNCHANGED project,
         QueueActive(project, c, FALSE, FALSE, rs)
  PROVE  Verdict!Reopen \/ UNCHANGED <<World, Shown>>
<1>1. c = candidate /\ candidate \in Candidate /\ project \in Project
  BY DEF EnsureCandidate, Inv, TypeOK, CandidateOpen
<1>2. job \in [Request -> Job]
  BY DEF Inv, TypeOK
<1>3. /\ ~Settled'
      /\ ~(project.synced /\ project.status \notin Deleting) /\ ~c.open => candidate' = c
      /\ c.open => candidate'.open /\ candidate'.version = c.version
  BY <1>1, <1>2, QueueActiveResult
<1>4. CASE candidate.open
  <2>1. candidate'.status = "evaluating" /\ candidate'.open
        /\ candidate'.version = candidate.version
    BY <1>1, <1>3, <1>4 DEF Settled
  <2> QED BY <2>1 DEF Verdict!Reopen, Verdict!Pending, World, Shown
<1>5. CASE ~candidate.open
  <2>1. candidate' = candidate
    BY <1>1, <1>3, <1>5 DEF Inv, CandidateOpen
  <2> QED BY <2>1 DEF World, Shown
<1> QED BY <1>4, <1>5

\* A step that keeps the rows of the project's version and of the candidate.
LEMMA SilentRefines ==
  ASSUME UNCHANGED candidate, project'.state = project.state
  PROVE  UNCHANGED <<World, Shown>>
BY DEF World, Shown

LEMMA RequiredChecksRefine ==
  ASSUME Inv, NEW effective, NEW checks, ProjectRequiredChecks(effective, checks)
  PROVE  Verdict!MoveOn \/ UNCHANGED <<World, Shown>>
<1> DEFINE number == IF project.policy = 0 \/ policy.stored # effective
                     THEN project.policy + 1 ELSE project.policy
           row == [project EXCEPT !.policy = number]
<1>1. project \in Project /\ candidate \in Candidate
      /\ candidate.version >= candidate.version
  BY DEF Inv, TypeOK, Candidate
<1>2. Touch(row, candidate, FALSE, FALSE) \/ UNCHANGED <<project, candidate>>
  BY DEF ProjectRequiredChecks
<1>3. number \in Nat
  BY <1>1 DEF Project
<1> HIDE DEF number
<1>4. row \in Project /\ row.state = project.state
  BY <1>1, <1>3 DEF Project
<1> HIDE DEF row
<1> QED BY <1>1, <1>2, <1>4, TouchRefines, SilentRefines

LEMMA WriterRefines ==
  ASSUME Inv, Writer
  PROVE  Verdict!MoveOn \/ UNCHANGED <<World, Shown>>
<1>1. project \in Project /\ candidate \in Candidate
  BY DEF Inv, TypeOK
<1>2. ASSUME NEW c \in Candidate, NEW clear \in BOOLEAN, NEW defer \in BOOLEAN,
             NEW p \in Project, p.state = project.state,
             candidate.open => c.open /\ c.version >= candidate.version,
             Touch(p, c, clear, defer)
      PROVE  Verdict!MoveOn
  BY <1>2, TouchRefines
<1>3. candidate.open => candidate.version >= candidate.version
  BY <1>1 DEF Candidate
<1>4. ASSUME NEW p \in Project, NEW clear \in BOOLEAN, NEW defer \in BOOLEAN,
             p.state = project.state, Touch(p, candidate, clear, defer)
      PROVE  Verdict!MoveOn
  BY <1>1, <1>2, <1>3, <1>4
<1>5. ASSUME NEW next, NEW reprojected, NEW drift, NEW planning, NEW checks,
             next \in {"active", "degraded"},
             ApplyProjection(next, reprojected, drift, planning, checks)
      PROVE  Verdict!MoveOn \/ UNCHANGED <<World, Shown>>
  <2> DEFINE number == IF project.policy = 0 \/ policy.stored # policy.effective
                       THEN project.policy + 1 ELSE project.policy
             row == [project EXCEPT !.status = next, !.synced = TRUE, !.policy = number]
  <2>1. Touch(row, candidate, FALSE, FALSE) \/ (project' = row /\ candidate' = candidate)
    BY <1>5 DEF ApplyProjection
  <2>2. number \in Nat
    BY <1>1 DEF Project
  <2> HIDE DEF number
  <2>3. row \in Project /\ row.state = project.state
    BY <1>1, <1>5, <2>2 DEF Project, Connected
  <2> HIDE DEF row
  <2> QED BY <1>4, <2>1, <2>3, SilentRefines
<1>6. ASSUME NEW effective, NEW checks, ProjectRequiredChecks(effective, checks)
      PROVE  Verdict!MoveOn \/ UNCHANGED <<World, Shown>>
  BY <1>6, RequiredChecksRefine
<1>7. ASSUME NEW next, next \in Connected,
             Touch([project EXCEPT !.status = next], candidate, FALSE, FALSE)
      PROVE  Verdict!MoveOn
  <2> DEFINE row == [project EXCEPT !.status = next]
  <2>1. row \in Project /\ row.state = project.state
    BY <1>1, <1>7, StatusType
  <2>2. Touch(row, candidate, FALSE, FALSE)
    BY <1>7
  <2> HIDE DEF row
  <2> QED BY <1>4, <2>1, <2>2
<1>8. ASSUME NEW planning, NEW effective, ConfigureBranches(planning, effective)
      PROVE  Verdict!MoveOn
  <2> DEFINE number == project.configuration + 1
             row == [project EXCEPT !.status = "initializing", !.synced = FALSE,
                                    !.configuration = number]
  <2>1. Touch(row, candidate, TRUE, FALSE)
    BY <1>8 DEF ConfigureBranches
  <2>2. number \in Nat
    BY <1>1 DEF Project
  <2> HIDE DEF number
  <2>3. row \in Project /\ row.state = project.state
    BY <1>1, <2>2 DEF Project, Connected
  <2> HIDE DEF row
  <2> QED BY <1>4, <2>1, <2>3
<1>9. ASSUME NEW effective, OverrideRequiredChecks(effective)
      PROVE  Verdict!MoveOn
  <2> DEFINE number == project.configuration + 1
             row == [project EXCEPT !.configuration = number]
  <2>1. Touch(row, candidate, FALSE, TRUE)
    BY <1>9 DEF OverrideRequiredChecks
  <2>2. number \in Nat
    BY <1>1 DEF Project
  <2> HIDE DEF number
  <2>3. row \in Project /\ row.state = project.state
    BY <1>1, <2>2 DEF Project
  <2> HIDE DEF row
  <2> QED BY <1>4, <2>1, <2>3
<1>10. ASSUME NEW planning, ChangeExclusion(planning)
       PROVE  Verdict!MoveOn
  <2> DEFINE c == EnsureCandidate(project, candidate)
             d == [c EXCEPT !.version = @ + 1, !.latest = NoEvaluation, !.status = "evaluating"]
  <2>1. /\ c \in Candidate /\ (candidate.open => c = candidate)
        /\ Touch(project, d, TRUE, FALSE) /\ c.open
    BY <1>1, <1>10, EnsureCandidateType DEF ChangeExclusion, EnsureCandidate
  <2> HIDE DEF c
  <2>2. d \in Candidate /\ d.open
    BY <2>1, NewVersionType
  <2>3. d.version = c.version + 1 /\ c.version \in Nat
    BY <2>1 DEF Candidate
  <2>4. candidate.open => d.version >= candidate.version
    BY <1>1, <2>1, <2>3
  <2> HIDE DEF d
  <2> QED BY <1>1, <1>2, <2>1, <2>2, <2>4
<1>11. ASSUME (\E next : MarkSynchronizationFailed(next)) \/ RequestDeletion
       PROVE  UNCHANGED <<World, Shown>>
  <2>1. candidate' = candidate /\ project'.state = project.state
    BY <1>1, <1>11 DEF MarkSynchronizationFailed, RequestDeletion, Project
  <2> QED BY <2>1, SilentRefines
<1>12. ASSUME NEW planning, RecordQa(planning) \/ PersistDependencies(planning)
       PROVE  Verdict!MoveOn
  BY <1>1, <1>4, <1>12 DEF RecordQa, PersistDependencies
<1>13. ASSUME (\E effective : RulesChange(effective)) \/ (\E granted : SetPermission(granted))
       PROVE  UNCHANGED <<World, Shown>>
  <2>1. UNCHANGED <<project, candidate>>
    BY <1>13 DEF RulesChange, SetPermission
  <2> QED BY <2>1, SilentRefines
<1>14. ASSUME ObserveForcedPush \/ \E planning : ArchiveProjection(planning)
       PROVE  Verdict!MoveOn
  BY <1>7, <1>14 DEF ObserveForcedPush, ArchiveProjection, Connected
<1>15. ASSUME NEW next \in {"degraded", "disconnected"}, MarkIncrementalFailed(next)
       PROVE  Verdict!MoveOn
  BY <1>7, <1>15 DEF MarkIncrementalFailed, Connected
<1>16. ASSUME NEW rules, NEW checks, RefreshChecks(rules, checks)
       PROVE  Verdict!MoveOn \/ UNCHANGED <<World, Shown>>
  BY <1>6, <1>16 DEF RefreshChecks
<1> QED
  BY <1>5, <1>8, <1>9, <1>10, <1>11, <1>12, <1>13, <1>14, <1>15, <1>16 DEF Writer

\* A published result is the verdict for the present world.
LEMMA PublishRefines ==
  ASSUME Inv, NEW w \in Worker, Publish(w), Current(w)
  PROVE  Verdict!Settle \/ UNCHANGED <<World, Shown>>
<1> DEFINE coord == Coordinates(project, candidate)
           result == Evaluate(exec[w].seen)
<1>1. /\ candidate' = [candidate EXCEPT !.status = result, !.latest = coord]
      /\ project' = project /\ candidate \in Candidate
  BY DEF Publish, Reserved, Inv, TypeOK
<1>2. /\ result # "evaluating" /\ coord.state = project.state
      /\ coord.version = candidate.version
  BY DEF Evaluate, Coordinates
<1>3. /\ candidate'.open = candidate.open /\ candidate'.version = candidate.version
      /\ candidate'.status = result /\ candidate'.latest = coord
  <2> HIDE DEF coord, result
  <2> QED BY <1>1 DEF Candidate
<1>4. World' = World
  BY <1>1, <1>3 DEF World
<1>5. CASE ~candidate.open
  BY <1>3, <1>4, <1>5 DEF Shown
<1>6. CASE candidate.open
  <2>1. Shown' = World
    <3> HIDE DEF coord, result
    <3> QED BY <1>2, <1>3, <1>6 DEF Shown, World
  <2>2. CASE candidate.status = "evaluating"
    BY <1>4, <1>6, <2>1, <2>2 DEF Verdict!Settle, Verdict!Pending, Shown, World
  <2>3. CASE candidate.status # "evaluating"
    <3>1. Shown = World
      BY <1>6, <2>3 DEF Shown, World, Inv, FreshVerdict, Settled
    <3> QED BY <1>4, <2>1, <3>1
  <2> QED BY <2>2, <2>3
<1> QED BY <1>5, <1>6

LEMMA SlotRefines ==
  ASSUME Inv, NEW w \in Worker, Progress(w) \/ Trouble(w)
  PROVE  Verdict!Next \/ UNCHANGED <<World, Shown>>
<1>1. project' = project /\ TypeOK /\ request \in [Request -> Row]
  BY DEF Inv, TypeOK, Progress, Trouble, Start, Take, Claim, Snapshot, Discard, Publish,
         RecordFailure, Acknowledge, Retry, Fail, RawFail, Crash, Reserved
<1>2. CASE candidate' = candidate
  BY <1>1, <1>2, SilentRefines
<1>3. ASSUME NEW c \in {candidate, EnsureCandidate(project, candidate)},
             NEW rs \in [Request -> Row], QueueActive(project, c, FALSE, FALSE, rs)
      PROVE  Verdict!Next \/ UNCHANGED <<World, Shown>>
  BY <1>1, <1>3, RequeueRefines DEF Verdict!Next
<1>4. ASSUME Drop(w)
      PROVE  Verdict!Next \/ UNCHANGED <<World, Shown>>
  <2> DEFINE rs == IF request[exec[w].request].status \in Active
                   THEN [request EXCEPT ![exec[w].request].status = "superseded"]
                   ELSE request
  <2>1. candidate' = candidate \/ QueueActive(project, candidate, FALSE, FALSE, rs)
    BY <1>4 DEF Drop
  <2>2. rs \in [Request -> Row]
    BY <1>1, RowType DEF Terminal
  <2> HIDE DEF rs
  <2> QED BY <1>2, <1>3, <2>1, <2>2
<1>5. ASSUME Claim(w)
      PROVE  Verdict!Next \/ UNCHANGED <<World, Shown>>
  <2> DEFINE rs == [request EXCEPT ![exec[w].request].status = "superseded"]
  <2>1. candidate' = candidate \/ QueueActive(project, candidate, FALSE, FALSE, rs)
    BY <1>5 DEF Claim
  <2>2. rs \in [Request -> Row]
    BY <1>1, RowType DEF Terminal
  <2> HIDE DEF rs
  <2> QED BY <1>2, <1>3, <2>1, <2>2
<1>6. ASSUME Start(w)
      PROVE  Verdict!Next \/ UNCHANGED <<World, Shown>>
  <2> DEFINE c == EnsureCandidate(project, candidate)
  <2>1. CASE QueueActive(project, c, FALSE, FALSE, request)
    BY <1>1, <1>3, <2>1
  <2>2. CASE candidate' = c /\ project.synced /\ project.status \notin Deleting
    <3>1. c = candidate
      BY <2>2 DEF Inv, CandidateOpen, EnsureCandidate
    <3> QED BY <1>2, <2>2, <3>1
  <2> QED BY <1>2, <1>6, <2>1, <2>2 DEF Start, Recover
<1>7. ASSUME Publish(w)
      PROVE  Verdict!Next \/ UNCHANGED <<World, Shown>>
  <2>1. CASE Current(w)
    BY <1>7, <2>1, PublishRefines DEF Verdict!Next
  <2>2. CASE ~Current(w)
    BY <1>4, <1>7, <2>2 DEF Publish
  <2> QED BY <2>1, <2>2
<1> QED
  BY <1>2, <1>4, <1>5, <1>6, <1>7
  DEF Progress, Trouble, Take, Snapshot, Discard, RecordFailure, Acknowledge, Retry, Fail,
      RawFail, Crash

\* Seen from outside, the queue, its jobs and its handlers only ever give the verdict
\* for the current release state and take it back when the state moves.
THEOREM Implements == Spec => ImplementsVerdict
<1>1. Init => Verdict!Init
  BY DEF Init, Verdict!Init, Verdict!World, Verdict!Absent
<1>2. Inv /\ [Next]_vars => [Verdict!Next]_<<World, Shown>>
  <2> SUFFICES ASSUME Inv, [Next]_vars PROVE Verdict!Next \/ UNCHANGED <<World, Shown>>
    OBVIOUS
  <2>1. ASSUME NEW checks, RefreshPolicy(checks)
        PROVE  Verdict!MoveOn \/ UNCHANGED <<World, Shown>>
    BY <2>1, RequiredChecksRefine, SilentRefines DEF RefreshPolicy
  <2>2. CASE UNCHANGED <<project, candidate>>
    BY <2>2, SilentRefines
  <2>3. CASE Next
    BY <2>1, <2>2, <2>3, WriterRefines, SlotRefines
    DEF Next, Refresh, RefreshFails, LeaseExpires, LoseJob, Reserved, Verdict!Next
  <2>4. CASE UNCHANGED vars
    BY <2>2, <2>4 DEF vars
  <2> QED BY <2>3, <2>4
<1> QED BY <1>1, <1>2, Invariance, PTL
        DEF Spec, ImplementsVerdict, Verdict!Spec, World, Shown

=============================================================================
