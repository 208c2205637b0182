--------------------------- MODULE RequiredChecks ---------------------------
(***************************************************************************)
(* The required checks of one project: the policy GitHub's rules and the   *)
(* project's overrides add up to, the check results of the final head of   *)
(* each unreleased change, and the state of each check for each change     *)
(* (required-checks.ts, required-checks-store.ts, required-checks-sync.ts, *)
(* and the part of a reconciliation that applies them).  A handler reads   *)
(* the policy and the results without a lock and commits them under the    *)
(* repository lock.  A change has one final head, so a commit is named by  *)
(* its change; an observation is a record of its surface, its context, its *)
(* start, its outcome and, once stored, whether it was over a week old.    *)
(***************************************************************************)
EXTENDS Naturals, FiniteSets

CONSTANTS Change, Context, Handler,
          Surfaces,        \* subset of {"check_run", "commit_status"}
          Outcomes,        \* outcomes of the observations GitHub posts
          Scopes,          \* may a reconciliation expect changes under unchanged heads
          MaxPosts,        \* bound on observations
          MaxRules,        \* bound on changes of rules
          MaxConfigured,   \* bound on changes of the overrides
          MaxWeeks,        \* bound on the ageing of observations
          MaxMerges,       \* bound on merges
          MaxFailures      \* bound on failing or dying handlers

VARIABLES rules,      \* GitHub: [protection, ruleset] of contexts
          posted,     \* GitHub: observations by change
          merged,     \* GitHub: the unreleased changes
          clock,      \* observations posted
          week,       \* observations up to this one are over a week old
          ruled,      \* changes of rules so far
          failures,   \* failures so far
          project,    \* configuration version, overrides, policy and its version
          open,       \* projected unreleased changes
          results,    \* commit_check_results by change
          states,     \* change_required_check_states
          asked,      \* requests waiting, for the policy or for a change
          handler,    \* executions of the required-checks handler
          recon,      \* the reconciliation under the repository lock
          last,       \* what the last reconciliation projected
          due,        \* an evaluation is queued
          seen,       \* what the last evaluation read
          quiet       \* history: since then a reconciliation that expected changes under
                      \* unchanged heads has made some and queued no evaluation

ASSUME ChecksAssumption ==
  Change # {} /\ Scopes \subseteq BOOLEAN
  /\ {MaxPosts, MaxRules, MaxConfigured, MaxWeeks, MaxMerges, MaxFailures} \subseteq Nat

WholePolicy == 0    \* a request for the whole policy

github == <<rules, posted, merged, clock, week, ruled>>
vars == <<rules, posted, merged, clock, week, ruled, failures, project, open, results,
          states, asked, handler, recon, last, due, seen, quiet>>

-----------------------------------------------------------------------------
(* Policies and results                                                    *)

(* loadEffectiveRequiredChecks: a context required by several sources is    *)
(* kept once, with the source of the highest priority.                      *)
Effective(overrides) ==
  [x \in rules.protection \cup rules.ruleset \cup overrides |->
     CASE x \in overrides -> "project_override"
       [] x \in rules.ruleset \ overrides -> "repository_ruleset"
       [] OTHER -> "branch_protection"]

(* loadCheckResultsForCommit, seen now. *)
Observed(c) == {[o EXCEPT !.old = o.at <= week] : o \in posted[c]}

(* selectAuthoritativeObservations: the latest of each surface. *)
Authoritative(observations) ==
  {o \in observations : \A p \in observations : p.surface = o.surface => p.at <= o.at}

(* resolveRequiredCheck *)
Resolve(x, observations) ==
  LET latest == Authoritative({o \in observations : o.context = x})
      stale(o) == o.outcome = "stale" \/ (o.outcome = "success" /\ o.old)
  IN CASE latest = {} -> "missing"
       [] latest # {} /\ \E o \in latest : o.outcome = "failure" -> "failed"
       [] latest # {} /\ (\A o \in latest : o.outcome # "failure") /\ (\E o \in latest : stale(o)) ->
            "stale"
       [] latest # {} /\ (\A o \in latest : o.outcome # "failure" /\ ~stale(o))
          /\ (\E o \in latest : o.outcome = "pending") -> "pending"
       [] OTHER -> "successful"

(* The rows replaceChangeStates makes for a change. *)
StatesOf(c, policy, stored) == [x \in DOMAIN policy |-> Resolve(x, stored[c])]

(* An evaluation reads the policy's version and the states under it. *)
Inputs == [version |-> project.version, states |-> states]

(* A fingerprint keeps the evidence and drops when it was observed. *)
Evidence(stored) == [c \in Change |-> {[o EXCEPT !.old = FALSE] : o \in stored[c]}]

Idle == [pc |-> "idle", job |-> WholePolicy, refresh |-> FALSE, configuration |-> 0,
         policy |-> [x \in {} |-> ""], targets |-> {}, results |-> [c \in Change |-> {}]]

Init ==
  /\ rules = [protection |-> Context, ruleset |-> {}]
  /\ posted = [c \in Change |-> {}]
  /\ merged = {CHOOSE c \in Change : TRUE}
  /\ clock = 0 /\ week = 0 /\ ruled = 0 /\ failures = 0
  /\ project = [configuration |-> 1, overrides |-> {}, policy |-> [x \in {} |-> ""], version |-> 0]
  /\ open = {}
  /\ results = [c \in Change |-> {}]
  /\ states = [c \in {} |-> ""]
  /\ asked = {}
  /\ handler = [h \in Handler |-> Idle]
  /\ recon = Idle
  /\ last = Idle
  /\ due = FALSE
  /\ seen = Inputs
  /\ quiet = FALSE

-----------------------------------------------------------------------------
(* GitHub                                                                  *)

(* A webhook of the event arrives or is lost. *)
Notify(job) == asked' \in {asked, asked \cup {job}}

ChangeRules(source, x) ==
  /\ ruled < MaxRules /\ ruled' = ruled + 1
  /\ rules' = [rules EXCEPT ![source] = IF x \in @ THEN @ \ {x} ELSE @ \cup {x}]
  /\ Notify(WholePolicy)
  /\ UNCHANGED <<posted, merged, clock, week, failures, project, open, results, states,
                 handler, recon, last, due, seen, quiet>>

Post(c, surface, x, outcome) ==
  /\ clock < MaxPosts /\ clock' = clock + 1
  /\ posted' = [posted EXCEPT ![c] = @ \cup
       {[surface |-> surface, context |-> x, at |-> clock + 1, outcome |-> outcome, old |-> FALSE]}]
  /\ Notify(c)
  /\ UNCHANGED <<rules, merged, week, ruled, failures, project, open, results, states,
                 handler, recon, last, due, seen, quiet>>

(* What is pending is completed. *)
Complete(c, o, outcome) ==
  /\ o.outcome = "pending" /\ outcome # "pending"
  /\ posted' = [posted EXCEPT ![c] = (@ \ {o}) \cup {[o EXCEPT !.outcome = outcome]}]
  /\ Notify(c)
  /\ UNCHANGED <<rules, merged, clock, week, ruled, failures, project, open, results, states,
                 handler, recon, last, due, seen, quiet>>

Age ==
  /\ week < clock /\ week < MaxWeeks /\ week' = week + 1
  /\ UNCHANGED <<rules, posted, merged, clock, ruled, failures, project, open, results,
                 states, asked, handler, recon, last, due, seen, quiet>>

MergeChange(c) ==
  /\ Cardinality(merged) <= MaxMerges /\ c \notin merged /\ merged' = merged \cup {c}
  /\ UNCHANGED <<rules, posted, clock, week, ruled, failures, project, open, results, states,
                 asked, handler, recon, last, due, seen, quiet>>

-----------------------------------------------------------------------------
(* The project                                                             *)

(* updateProjectRequiredCheckOverrides: a new configuration and a request   *)
(* for its policy.                                                          *)
SetOverrides(overrides) ==
  /\ project.configuration < MaxConfigured
  /\ overrides # project.overrides
  /\ project' = [project EXCEPT !.configuration = @ + 1, !.overrides = overrides]
  /\ asked' = asked \cup {WholePolicy}
  /\ UNCHANGED <<github, failures, open, results, states, handler, recon, last, due, seen, quiet>>

(* loadTargetChanges, replaceChangeStates: the rows of the targets, or of    *)
(* all changes when the policy is refreshed or has changed.                 *)
NextStates(targets, all, changed, policy, stored, projected) ==
  LET computed == IF all \/ changed THEN projected ELSE projected \cap targets
      kept == IF all \/ changed THEN {} ELSE DOMAIN states \ computed
  IN IF policy = [x \in {} |-> ""] THEN [c \in kept |-> states[c]]
     ELSE [c \in computed \cup kept |->
             IF c \in computed THEN StatesOf(c, policy, stored) ELSE states[c]]

(* replaceCheckResults: targets are replaced, the rest is pruned with all. *)
NextResults(targets, all, loaded) ==
  [c \in Change |-> IF c \in targets THEN loaded[c] ELSE IF all THEN {} ELSE results[c]]

(* Mutant of ApplyChecks: the policy is kept once there is one. *)
ApplyChecksOnce(policy, targets, loaded, all, projected) ==
  LET stored == NextResults(targets, all, loaded)
      kept == IF project.version = 0 THEN policy ELSE project.policy
  IN
  /\ project' = [project EXCEPT !.policy = kept, !.version = 1]
  /\ results' = stored
  /\ states' = NextStates(targets, all, project.version = 0, kept, stored, projected)

(* applyRequiredCheckProjectionInTransaction, but for the evaluation. *)
ApplyChecks(policy, targets, loaded, all, projected) ==
  LET changed == project.version = 0 \/ policy # project.policy
      stored == NextResults(targets, all, loaded)
  IN
  /\ project' = IF changed
                THEN [project EXCEPT !.policy = policy, !.version = @ + 1]
                ELSE project
  /\ results' = stored
  /\ states' = NextStates(targets, all, changed, policy, stored, projected)

(* A handler takes a request.  Without a policy it loads one in any case.   *)
Start(h, job) ==
  /\ handler[h].pc = "idle" /\ job \in asked
  /\ asked' = asked \ {job}
  /\ handler' = [handler EXCEPT ![h] =
       [Idle EXCEPT !.pc = "started", !.job = job,
          !.configuration = project.configuration,
          !.refresh = job = WholePolicy \/ project.version = 0]]
  /\ UNCHANGED <<github, failures, project, open, results, states, recon, last, due, seen, quiet>>

(* The policy, from GitHub or as stored, the targets and their results. *)
Load(h) ==
  LET e == handler[h]
      targets == IF e.refresh THEN open ELSE open \cap {e.job}
  IN
  /\ e.pc = "started"
  /\ handler' = [handler EXCEPT ![h] =
       IF ~e.refresh /\ targets = {} THEN Idle
       ELSE [e EXCEPT !.pc = "loaded",
               !.policy = IF e.refresh THEN Effective(project.overrides) ELSE project.policy,
               !.targets = targets,
               !.results = [c \in Change |-> IF c \in targets THEN Observed(c) ELSE {}]]]
  /\ UNCHANGED <<github, failures, project, open, results, states, asked, recon, last, due, seen, quiet>>

(* Mutant of Moved: the fingerprint compares the policy only. *)
MovedByPolicy == project'.version # project.version

(* loadRequiredCheckEvaluationFingerprint before and after. *)
Moved == project'.version # project.version \/ states' # states

(* commitProjection.  A changed configuration makes it void; changed heads   *)
(* make a check refresh void and a policy refresh start again.              *)
Commit(h) ==
  LET e == handler[h]
      now == IF e.refresh THEN open ELSE open \cap {e.job}
  IN
  /\ e.pc = "loaded" /\ recon.pc = "idle"
  /\ \/ /\ e.configuration # project.configuration
        /\ handler' = [handler EXCEPT ![h] = Idle]
        /\ UNCHANGED <<project, results, states, asked, due>>
     \/ /\ e.configuration = project.configuration /\ e.targets # now
        /\ handler' = [handler EXCEPT ![h] = Idle]
        /\ asked' = IF e.refresh THEN asked \cup {e.job} ELSE asked
        /\ UNCHANGED <<project, results, states, due>>
     \/ /\ e.configuration = project.configuration /\ e.targets = now
        /\ ApplyChecks(e.policy, e.targets, e.results, e.refresh, open)
        /\ due' = (due \/ Moved)
        /\ handler' = [handler EXCEPT ![h] = Idle]
        /\ UNCHANGED asked
  /\ UNCHANGED <<github, failures, open, recon, last, seen, quiet>>

(* An error of GitHub or a crash: the job runs again, or, after its last    *)
(* attempt, no more.                                                        *)
Fail(h) ==
  /\ failures < MaxFailures /\ failures' = failures + 1
  /\ handler[h].pc # "idle"
  /\ asked' \in {asked, asked \cup {handler[h].job}}
  /\ handler' = [handler EXCEPT ![h] = Idle]
  /\ UNCHANGED <<github, project, open, results, states, recon, last, due, seen, quiet>>

-----------------------------------------------------------------------------
(* The reconciliation and the evaluation                                   *)

ReconcileLoad ==
  /\ recon.pc = "idle"
  /\ recon' = [Idle EXCEPT !.pc = "loaded",
       !.configuration = project.configuration,
       !.policy = Effective(project.overrides),
       !.targets = merged,
       !.results = [c \in Change |-> IF c \in merged THEN Observed(c) ELSE {}]]
  /\ UNCHANGED <<github, failures, project, open, results, states, asked, handler, last, due, seen, quiet>>

Projection(policy, targets, stored) ==
  [Idle EXCEPT !.pc = "loaded", !.policy = policy, !.targets = targets, !.results = Evidence(stored)]

(* A reconciliation moves the release state when it projects something else *)
(* than the last one or, unless such a change is expected, than the rows.   *)
ReleaseStateChanged(new, stored, expected) ==
  last # new \/ (stored.targets = new.targets /\ ~expected /\ stored # new)

ReconcileApply(expected) ==
  LET new == Projection(recon.policy, recon.targets, recon.results)
      stored == Projection(project.policy, open, results)
  IN
  /\ recon.pc = "loaded"
  /\ recon' = Idle
  /\ IF recon.configuration # project.configuration
     THEN UNCHANGED <<project, open, results, states, last, due, quiet>>
     ELSE /\ open' = recon.targets
          /\ ApplyChecks(recon.policy, recon.targets, recon.results, TRUE, recon.targets)
          /\ last' = new
          /\ due' = (due \/ ReleaseStateChanged(new, stored, expected))
          /\ quiet' = (quiet \/ (expected /\ ~due' /\ Moved))
  /\ UNCHANGED <<github, failures, asked, handler, seen>>

(* The candidate is evaluated with the stored states; the protocol of the   *)
(* evaluation is in CandidateEvaluation.                                    *)
Evaluate ==
  /\ due /\ due' = FALSE /\ seen' = Inputs /\ quiet' = FALSE
  /\ UNCHANGED <<github, failures, project, open, results, states, asked, handler, recon, last>>

-----------------------------------------------------------------------------
GitHub ==
  \/ \E source \in {"protection", "ruleset"}, x \in Context : ChangeRules(source, x)
  \/ \E c \in Change, s \in Surfaces, x \in Context, outcome \in Outcomes : Post(c, s, x, outcome)
  \/ \E c \in Change : \E o \in posted[c], outcome \in Outcomes : Complete(c, o, outcome)
  \/ Age
  \/ \E c \in Change : MergeChange(c)

Reconcile == ReconcileLoad \/ \E expected \in Scopes : ReconcileApply(expected)

Next ==
  \/ GitHub
  \/ \E overrides \in SUBSET Context : SetOverrides(overrides)
  \/ \E h \in Handler, job \in {WholePolicy} \cup Change : Start(h, job)
  \/ \E h \in Handler : Load(h) \/ Commit(h) \/ Fail(h)
  \/ Reconcile
  \/ Evaluate

(* Handlers run to their end, a reconciliation is queued every period and   *)
(* queued evaluations are made.                                             *)
Fairness ==
  /\ \A h \in Handler : WF_vars(Load(h) \/ Commit(h))
  /\ \A h \in Handler : \A job \in {WholePolicy} \cup Change : WF_vars(Start(h, job))
  /\ WF_vars(Reconcile)
  /\ WF_vars(Evaluate)

Spec == Init /\ [][Next]_vars /\ Fairness

-----------------------------------------------------------------------------
(* Properties                                                              *)

Observation == [surface : Surfaces, context : Context, at : Nat \ {0},
                outcome : Outcomes, old : BOOLEAN]
Stored == [Change -> SUBSET Observation]
Source == {"branch_protection", "repository_ruleset", "project_override"}
PolicyOf == UNION {[S -> Source] : S \in SUBSET Context}
CheckState == {"missing", "failed", "stale", "pending", "successful"}
StatesRow == UNION {[S -> CheckState] : S \in SUBSET Context}
Execution == [pc : {"idle", "started", "loaded"}, job : {WholePolicy} \cup Change,
              refresh : BOOLEAN, configuration : Nat, policy : PolicyOf,
              targets : SUBSET Change, results : Stored]

(* Every table and every execution has values of its columns' types, and    *)
(* only unreleased changes have states.                                     *)
TypeOK ==
  /\ rules \in [protection : SUBSET Context, ruleset : SUBSET Context]
  /\ posted \in Stored /\ results \in Stored
  /\ merged \subseteq Change /\ open \subseteq Change
  /\ {clock, week, ruled, failures} \subseteq Nat
  /\ project \in [configuration : Nat, overrides : SUBSET Context, policy : PolicyOf, version : Nat]
  /\ states \in UNION {[S -> StatesRow] : S \in SUBSET open}
  /\ asked \subseteq {WholePolicy} \cup Change
  /\ handler \in [Handler -> Execution] /\ recon \in Execution /\ last \in Execution
  /\ due \in BOOLEAN /\ quiet \in BOOLEAN

(* Whatever was refreshed last, the policy, one commit or everything, each  *)
(* unreleased change has one state per check of the current policy and it   *)
(* is the resolution of the results that are stored for its head.           *)
StatesAreComputed ==
  project.version > 0 /\ project.policy # [x \in {} |-> ""] =>
    \A c \in open :
      c \in DOMAIN states /\ states[c] = StatesOf(c, project.policy, results)

(* The last evaluation has read the stored policy and the stored states,    *)
(* whoever wrote them, unless another one is queued: a reconciliation,      *)
(* which suppresses the evaluation the checks would queue, queues its own.  *)
(* Two of its comparisons let changes pass: results that aged are the same  *)
(* results, and rows that a metadata webhook's reconciliation puts back to  *)
(* what the last one projected are expected.  The release page says "All    *)
(* current planning gates pass." of a candidate that was evaluated as       *)
(* ready.                                                                   *)
VerdictSeesStates == StatesAreComputed /\ (~due /\ ~quiet /\ week = 0 => seen = Inputs)

(* Nothing that was loaded or stored before a week has passed is marked as  *)
(* old, so that equal evidence gives equal states.                          *)
Unaged ==
  week = 0 =>
    \A c \in Change :
      /\ \A o \in results[c] \cup recon.results[c] : ~o.old
      /\ \A h \in Handler : \A o \in handler[h].results[c] : ~o.old

(* The last reconciliation has projected the unreleased changes and a       *)
(* policy; without required checks there are no states.                     *)
LastProjected == last.pc = "loaded" => last.targets = open /\ project.version > 0
NoChecksNoStates == project.policy = [x \in {} |-> ""] => DOMAIN states = {}

(* The inductive invariant. *)
Inv == TypeOK /\ VerdictSeesStates /\ Unaged /\ LastProjected /\ NoChecksNoStates

=============================================================================
