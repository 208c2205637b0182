-------------------------- MODULE RequiredChecks_proofs --------------------------
(***************************************************************************)
(* Theorems about RequiredChecks, for any number of changes, contexts and  *)
(* handlers: the stored states are those of the stored results, and the    *)
(* last evaluation has read them.                                          *)
(***************************************************************************)
EXTENDS RequiredChecks, TLAPS

-----------------------------------------------------------------------------
(* Results                                                                 *)

NoPolicy == [x \in {} |-> ""]
Current(results_) == \A c \in Change : \A o \in results_[c] : ~o.old

LEMMA NoPolicyType == NoPolicy \in PolicyOf
<1>1. NoPolicy \in [{} -> Source]
  BY DEF NoPolicy
<1> QED BY <1>1 DEF PolicyOf

LEMMA IdleType == Idle \in Execution /\ Idle.pc = "idle" /\ Current(Idle.results)
<1>1. [c \in Change |-> {}] \in Stored
  BY DEF Stored
<1>2. [x \in {} |-> ""] \in PolicyOf
  BY NoPolicyType DEF NoPolicy
<1> QED BY <1>1, <1>2 DEF Idle, Execution, Current

\* What is loaded has its type, and before a week has passed none of it is old.
LEMMA ObservedType ==
  ASSUME TypeOK, NEW c \in Change
  PROVE  /\ Observed(c) \in SUBSET Observation
         /\ week = 0 => \A o \in Observed(c) : ~o.old
<1>1. posted[c] \subseteq Observation /\ week \in Nat
  BY DEF TypeOK, Stored
<1>2. ASSUME NEW o \in posted[c]
      PROVE  /\ [o EXCEPT !.old = o.at <= week] \in Observation
             /\ week = 0 => ~[o EXCEPT !.old = o.at <= week].old
  <2>1. o \in Observation
    BY <1>1
  <2>2. (o.at <= week) \in BOOLEAN
    OBVIOUS
  <2>3. week = 0 => ~(o.at <= week)
    BY <1>1, <2>1 DEF Observation
  <2> QED BY <2>1, <2>2, <2>3 DEF Observation
<1> QED BY <1>2 DEF Observed

LEMMA LoadedType ==
  ASSUME TypeOK, NEW S,
         NEW loaded, loaded = [c \in Change |-> IF c \in S THEN Observed(c) ELSE {}]
  PROVE  loaded \in Stored /\ (week = 0 => Current(loaded))
<1>1. \A c \in Change : /\ Observed(c) \in SUBSET Observation
                        /\ week = 0 => \A o \in Observed(c) : ~o.old
  BY ObservedType
<1> QED BY <1>1 DEF Stored, Current

Replaced(next, targets, all, loaded) ==
  /\ next \in Stored
  /\ Current(results) /\ Current(loaded) => Current(next)
  /\ \A c \in Change :
       next[c] = IF c \in targets THEN loaded[c] ELSE IF all THEN {} ELSE results[c]

LEMMA NextResultsType ==
  ASSUME results \in Stored, NEW targets, NEW all, NEW loaded \in Stored
  PROVE  Replaced(NextResults(targets, all, loaded), targets, all, loaded)
BY DEF NextResults, Stored, Current, Replaced

\* Results without old ones are known from their evidence.
LEMMA EvidenceTells ==
  ASSUME NEW a \in Stored, NEW b \in Stored, Current(a), Current(b), Evidence(a) = Evidence(b)
  PROVE  a = b
<1>1. ASSUME NEW s \in Stored, Current(s), NEW c \in Change
      PROVE  {[o EXCEPT !.old = FALSE] : o \in s[c]} = s[c]
  <2>1. ASSUME NEW o \in s[c]
        PROVE  [o EXCEPT !.old = FALSE] = o
    <3>1. o \in Observation /\ o.old = FALSE
      BY <1>1, <2>1 DEF Stored, Current, Observation
    <3> QED BY <3>1 DEF Observation
  <2> QED BY <2>1
<1>2. ASSUME NEW c \in Change
      PROVE  a[c] = b[c]
  <2>1. Evidence(a)[c] = {[o EXCEPT !.old = FALSE] : o \in a[c]}
        /\ Evidence(b)[c] = {[o EXCEPT !.old = FALSE] : o \in b[c]}
    BY DEF Evidence
  <2> QED BY <1>1, <2>1
<1> QED BY <1>2 DEF Stored

-----------------------------------------------------------------------------
(* States                                                                  *)

LEMMA EffectiveType ==
  ASSUME TypeOK, NEW overrides \in SUBSET Context
  PROVE  Effective(overrides) \in PolicyOf
<1> DEFINE S == rules.protection \cup rules.ruleset \cup overrides
<1>1. S \in SUBSET Context
  BY DEF TypeOK
<1>2. Effective(overrides) \in [S -> Source]
  BY DEF Effective, Source
<1> QED BY <1>1, <1>2 DEF PolicyOf

LEMMA StatesOfType ==
  ASSUME NEW c, NEW p \in PolicyOf, NEW stored
  PROVE  StatesOf(c, p, stored) \in StatesRow
<1>1. DOMAIN p \in SUBSET Context
  BY DEF PolicyOf
<1>2. ASSUME NEW x, NEW observations
      PROVE  Resolve(x, observations) \in CheckState
  BY DEF Resolve, CheckState
<1>3. StatesOf(c, p, stored) \in [DOMAIN p -> CheckState]
  BY <1>2 DEF StatesOf
<1> QED BY <1>1, <1>3 DEF StatesRow

\* What replaceChangeStates leaves: a row for each projected change that is computed
\* or kept, and rows of others are never made.
Rows(next, targets, all, changed, p, stored, projected) ==
  /\ next \in [DOMAIN next -> StatesRow] /\ DOMAIN next \subseteq projected
  /\ (all \/ changed) /\ p # NoPolicy => next = [c \in projected |-> StatesOf(c, p, stored)]
  /\ (all \/ changed) /\ p = NoPolicy => DOMAIN next = {}
  /\ p = NoPolicy => DOMAIN next \subseteq DOMAIN states
  /\ ~all /\ ~changed /\ p # NoPolicy =>
       \A c \in projected :
         /\ c \in targets => c \in DOMAIN next /\ next[c] = StatesOf(c, p, stored)
         /\ c \notin targets /\ c \in DOMAIN states => c \in DOMAIN next /\ next[c] = states[c]

LEMMA NextStatesRows ==
  ASSUME NEW targets, NEW all \in BOOLEAN, NEW changed \in BOOLEAN, NEW p \in PolicyOf,
         NEW stored, NEW projected,
         states \in [DOMAIN states -> StatesRow], DOMAIN states \subseteq projected \/ all,
         NEW next, next = NextStates(targets, all, changed, p, stored, projected)
  PROVE  Rows(next, targets, all, changed, p, stored, projected)
<1> DEFINE computed == IF all \/ changed THEN projected ELSE projected \cap targets
           kept == IF all \/ changed THEN {} ELSE DOMAIN states \ computed
<1>1. computed \subseteq projected /\ kept \subseteq projected /\ kept \subseteq DOMAIN states
      /\ kept \cap computed = {}
  OBVIOUS
<1>2. CASE p = NoPolicy
  <2>1. next = [c \in kept |-> states[c]]
    BY <1>2 DEF NextStates, NoPolicy
  <2> QED BY <1>1, <1>2, <2>1 DEF Rows
<1>3. CASE p # NoPolicy
  <2>1. next = [c \in computed \cup kept |->
                  IF c \in computed THEN StatesOf(c, p, stored) ELSE states[c]]
    BY <1>3 DEF NextStates, NoPolicy
  <2>2. \A c : StatesOf(c, p, stored) \in StatesRow
    BY StatesOfType
  <2>3. CASE all \/ changed
    <3>1. computed = projected /\ kept = {}
      BY <2>3
    <3> HIDE DEF computed, kept
    <3>2. next = [c \in projected |-> StatesOf(c, p, stored)]
      BY <2>1, <3>1
    <3> QED BY <1>3, <2>2, <2>3, <3>2 DEF Rows
  <2>4. CASE ~all /\ ~changed
    <3>1. computed = projected \cap targets /\ kept = DOMAIN states \ computed
      BY <2>4
    <3> HIDE DEF computed, kept
    <3> QED BY <1>1, <1>3, <2>1, <2>2, <2>4, <3>1 DEF Rows
  <2> QED BY <2>3, <2>4
<1> QED BY <1>2, <1>3

\* applyRequiredCheckProjectionInTransaction leaves the states of what it stores.
Applied(p, targets, loaded, all, projected) ==
  /\ project' \in [configuration : Nat, overrides : SUBSET Context, policy : PolicyOf, version : Nat]
  /\ project'.version > 0 /\ project'.policy = p
  /\ results' = NextResults(targets, all, loaded)
  /\ states' \in UNION {[S -> StatesRow] : S \in SUBSET projected}
  /\ all /\ p # NoPolicy => states' = [c \in projected |-> StatesOf(c, p, results')]
  /\ all /\ p = NoPolicy => DOMAIN states' = {}
  /\ StatesAreComputed' /\ NoChecksNoStates'

LEMMA ApplyChecksKeeps ==
  ASSUME TypeOK, StatesAreComputed, NoChecksNoStates,
         NEW p \in PolicyOf, NEW targets, NEW loaded \in Stored, NEW all \in BOOLEAN,
         NEW projected \in SUBSET Change, all \/ projected = open,
         ApplyChecks(p, targets, loaded, all, projected), open' = projected
  PROVE  Applied(p, targets, loaded, all, projected)
<1> DEFINE changed == project.version = 0 \/ p # project.policy
           stored == NextResults(targets, all, loaded)
<1>1. /\ project \in [configuration : Nat, overrides : SUBSET Context,
                     policy : PolicyOf, version : Nat]
      /\ results \in Stored /\ changed \in BOOLEAN
      /\ states \in [DOMAIN states -> StatesRow] /\ DOMAIN states \subseteq open
  BY DEF TypeOK
<1>2. /\ project' = IF changed THEN [project EXCEPT !.policy = p, !.version = project.version + 1]
                  ELSE project
      /\ results' = stored
      /\ states' = NextStates(targets, all, changed, p, stored, projected)
  BY DEF ApplyChecks
<1>3. /\ project' \in [configuration : Nat, overrides : SUBSET Context,
                      policy : PolicyOf, version : Nat]
      /\ project'.version > 0 /\ project'.policy = p
  <2>1. CASE changed
    <3>1. project' = [project EXCEPT !.policy = p, !.version = project.version + 1]
      BY <1>2, <2>1
    <3>2. project.version \in Nat /\ project.version + 1 \in Nat /\ project.version + 1 > 0
      BY <1>1
    <3> QED BY <1>1, <3>1, <3>2
  <2>2. CASE ~changed
    <3>1. project' = project /\ project.version # 0 /\ p = project.policy
      BY <1>2, <2>2
    <3> QED BY <1>1, <3>1
  <2> QED BY <2>1, <2>2
<1>4. \A c \in Change \ targets : ~all => stored[c] = results[c]
  BY <1>1, NextResultsType DEF Replaced
<1>5. ~changed => project' = project /\ project.version # 0 /\ p = project.policy
  BY <1>2
<1> HIDE DEF changed, stored
<1>6. Rows(states', targets, all, changed, p, stored, projected)
  <2>1. DOMAIN states \subseteq projected \/ all
    BY <1>1
  <2> QED BY <1>1, <1>2, <2>1, NextStatesRows
<1>7. NoChecksNoStates'
  <2>1. ~changed /\ p = NoPolicy => DOMAIN states = {}
    BY <1>5 DEF NoChecksNoStates, NoPolicy
  <2>2. p = NoPolicy => DOMAIN states' = {}
    BY <1>6, <2>1 DEF Rows
  <2> QED BY <1>3, <2>2 DEF NoChecksNoStates, NoPolicy
<1>8. StatesAreComputed'
  <2> SUFFICES ASSUME p # NoPolicy, NEW c \in projected
               PROVE  c \in DOMAIN states' /\ states'[c] = StatesOf(c, p, stored)
    BY <1>2, <1>3 DEF StatesAreComputed, NoPolicy, StatesOf
  <2>1. CASE all \/ changed \/ c \in targets
    BY <1>6, <2>1 DEF Rows
  <2>2. CASE ~all /\ ~changed /\ c \notin targets
    <3>1. project.version > 0 /\ project.policy = p /\ c \in open
      BY <1>1, <1>5, <2>2
    <3>2. c \in DOMAIN states /\ states[c] = StatesOf(c, p, results)
      BY <3>1 DEF StatesAreComputed, NoPolicy
    <3>3. StatesOf(c, p, results) = StatesOf(c, p, stored)
      BY <1>4, <2>2 DEF StatesOf
    <3> QED BY <1>6, <2>2, <3>2, <3>3 DEF Rows
  <2> QED BY <2>1, <2>2
<1>9. states' \in UNION {[S -> StatesRow] : S \in SUBSET projected}
  BY <1>6 DEF Rows
<1>10. all /\ p # NoPolicy => states' = [c \in projected |-> StatesOf(c, p, stored)]
  BY <1>6 DEF Rows
<1>11. all /\ p = NoPolicy => DOMAIN states' = {}
  BY <1>6 DEF Rows
<1> QED BY <1>2, <1>3, <1>7, <1>8, <1>9, <1>10, <1>11 DEF stored, Applied

-----------------------------------------------------------------------------
(* The invariant                                                           *)

LEMMA InitInv == Init => Inv
<1> SUFFICES ASSUME Init PROVE Inv
  OBVIOUS
<1>1. (CHOOSE c \in Change : TRUE) \in Change
  BY ChecksAssumption
<1>2. [c \in Change |-> {}] \in Stored
  BY DEF Stored
<1>3. [x \in {} |-> ""] \in PolicyOf
  BY NoPolicyType DEF NoPolicy
<1>4. states \in UNION {[S -> StatesRow] : S \in SUBSET open}
  <2>1. states \in [{} -> StatesRow]
    BY DEF Init
  <2> QED BY <2>1
<1>5. TypeOK
  <2>1. rules \in [protection : SUBSET Context, ruleset : SUBSET Context]
    BY DEF Init
  <2>2. project \in [configuration : Nat, overrides : SUBSET Context, policy : PolicyOf, version : Nat]
    BY <1>3 DEF Init
  <2>3. handler \in [Handler -> Execution] /\ recon \in Execution /\ last \in Execution
    BY IdleType DEF Init
  <2>4. posted \in Stored /\ results \in Stored
    BY <1>2 DEF Init
  <2> QED BY <1>1, <1>4, <2>1, <2>2, <2>3, <2>4 DEF Init, TypeOK
<1>6. VerdictSeesStates
  BY DEF Init, VerdictSeesStates, StatesAreComputed
<1>7. Unaged
  BY IdleType DEF Init, Unaged, Current
<1>8. LastProjected /\ NoChecksNoStates
  BY IdleType DEF Init, LastProjected, NoChecksNoStates
<1> QED BY <1>5, <1>6, <1>7, <1>8 DEF Inv

LEMMA UnagedIs ==
  Unaged <=> (week = 0 => /\ Current(results) /\ Current(recon.results)
                          /\ \A h \in Handler : Current(handler[h].results))
BY DEF Unaged, Current

\* A step that leaves what reconciliations and handlers have stored and what was
\* evaluated alone.
LEMMA RowsKept ==
  ASSUME Inv, TypeOK', Unaged', week' = 0 => week = 0,
         UNCHANGED <<project, open, results, states, last, due, seen, quiet>>
  PROVE  Inv'
<1>1. VerdictSeesStates'
  BY DEF Inv, VerdictSeesStates, StatesAreComputed, StatesOf, Inputs
<1>2. LastProjected' /\ NoChecksNoStates'
  BY DEF Inv, LastProjected, NoChecksNoStates
<1> QED BY <1>1, <1>2 DEF Inv

LEMMA GitHubKeepsInv ==
  ASSUME Inv, GitHub
  PROVE  Inv'
<1> USE DEF Inv
<1>1. UNCHANGED <<project, open, results, states, handler, recon, last, due, seen, quiet, failures>>
  BY DEF GitHub, ChangeRules, Post, Complete, Age, MergeChange
<1>2. ASSUME NEW source \in {"protection", "ruleset"}, NEW x \in Context, ChangeRules(source, x)
      PROVE  TypeOK' /\ week' = week
  <2>1. rules' \in [protection : SUBSET Context, ruleset : SUBSET Context]
    BY <1>2 DEF ChangeRules, TypeOK
  <2>2. ruled' \in Nat /\ asked' \subseteq {WholePolicy} \cup Change
    BY <1>2 DEF ChangeRules, Notify, TypeOK
  <2> QED BY <1>1, <1>2, <2>1, <2>2 DEF ChangeRules, TypeOK
<1>3. ASSUME NEW c \in Change, NEW surface \in Surfaces, NEW x \in Context,
             NEW outcome \in Outcomes, Post(c, surface, x, outcome)
      PROVE  TypeOK' /\ week' = week
  <2> DEFINE o == [surface |-> surface, context |-> x, at |-> clock + 1,
                   outcome |-> outcome, old |-> FALSE]
  <2>1. clock \in Nat /\ posted \in [Change -> SUBSET Observation]
    BY DEF TypeOK, Stored
  <2>2. clock' = clock + 1 /\ posted' = [posted EXCEPT ![c] = posted[c] \cup {o}]
    BY <1>3 DEF Post
  <2>3. o \in Observation
    BY <2>1 DEF Observation
  <2> HIDE DEF o
  <2>4. posted' \in Stored /\ clock' \in Nat
    BY <2>1, <2>2, <2>3 DEF Stored
  <2>5. asked' \subseteq {WholePolicy} \cup Change
    BY <1>3 DEF Post, Notify, TypeOK
  <2> QED BY <1>1, <1>3, <2>4, <2>5 DEF Post, TypeOK
<1>4. ASSUME NEW c \in Change, NEW o \in posted[c], NEW outcome \in Outcomes, Complete(c, o, outcome)
      PROVE  TypeOK' /\ week' = week
  <2> DEFINE done == [o EXCEPT !.outcome = outcome]
  <2>1. posted \in [Change -> SUBSET Observation]
    BY DEF TypeOK, Stored
  <2>2. posted' = [posted EXCEPT ![c] = (posted[c] \ {o}) \cup {done}]
    BY <1>4 DEF Complete
  <2>3. done \in Observation
    BY <2>1 DEF Observation
  <2> HIDE DEF done
  <2>4. posted' \in Stored
    BY <2>1, <2>2, <2>3 DEF Stored
  <2>5. asked' \subseteq {WholePolicy} \cup Change
    BY <1>4 DEF Complete, Notify, TypeOK
  <2> QED BY <1>1, <1>4, <2>4, <2>5 DEF Complete, TypeOK
<1>5. ASSUME Age
      PROVE  TypeOK' /\ week' # 0
  BY <1>1, <1>5 DEF Age, TypeOK
<1>6. ASSUME NEW c \in Change, MergeChange(c)
      PROVE  TypeOK' /\ week' = week
  BY <1>1, <1>6 DEF MergeChange, TypeOK
<1>7. TypeOK' /\ (week' = 0 => week = 0)
  BY <1>2, <1>3, <1>4, <1>5, <1>6 DEF GitHub
<1>8. Unaged'
  BY <1>1, <1>7 DEF Unaged
<1> QED BY <1>1, <1>7, <1>8, RowsKept

LEMMA SetOverridesKeepsInv ==
  ASSUME Inv, NEW overrides \in SUBSET Context, SetOverrides(overrides)
  PROVE  Inv'
<1> DEFINE number == project.configuration + 1
<1>1. /\ project' = [project EXCEPT !.configuration = number, !.overrides = overrides]
      /\ project \in [configuration : Nat, overrides : SUBSET Context, policy : PolicyOf, version : Nat]
      /\ number \in Nat
  BY DEF SetOverrides, Inv, TypeOK
<1> HIDE DEF number
<1>2. /\ project' \in [configuration : Nat, overrides : SUBSET Context, policy : PolicyOf, version : Nat]
      /\ project'.version = project.version /\ project'.policy = project.policy
  BY <1>1
<1> USE DEF Inv
<1>3. TypeOK'
  BY <1>2 DEF SetOverrides, TypeOK, github
<1>4. VerdictSeesStates'
  BY <1>2 DEF SetOverrides, VerdictSeesStates, StatesAreComputed, StatesOf, Inputs, github
<1>5. LastProjected' /\ NoChecksNoStates' /\ Unaged'
  BY <1>2 DEF SetOverrides, LastProjected, NoChecksNoStates, Unaged, github
<1> QED BY <1>3, <1>4, <1>5

\* A handler goes on, with results that were current when they were loaded.
LEMMA HandlerKeepsInv ==
  ASSUME Inv, NEW h \in Handler, NEW e \in Execution, week = 0 => Current(e.results),
         handler' = [handler EXCEPT ![h] = e], asked' \subseteq {WholePolicy} \cup Change,
         UNCHANGED <<github, project, open, results, states, recon, last, due, seen, quiet>>,
         failures' \in Nat
  PROVE  Inv'
<1>1. handler' \in [Handler -> Execution]
  BY DEF Inv, TypeOK
<1>2. TypeOK'
  BY <1>1 DEF Inv, TypeOK, github
<1>3. \A g \in Handler : handler'[g] = handler[g] \/ handler'[g] = e
  BY DEF Inv, TypeOK
<1>4. Unaged'
  BY <1>3 DEF Inv, Unaged, Current, github
<1> QED BY <1>2, <1>4, RowsKept DEF github

LEMMA StartKeepsInv ==
  ASSUME Inv, NEW h \in Handler, NEW job \in {WholePolicy} \cup Change, Start(h, job)
  PROVE  Inv'
<1> DEFINE e == [Idle EXCEPT !.pc = "started", !.job = job,
                   !.configuration = project.configuration,
                   !.refresh = job = WholePolicy \/ project.version = 0]
<1>1. project.configuration \in Nat /\ (job = WholePolicy \/ project.version = 0) \in BOOLEAN
  BY DEF Inv, TypeOK
<1>2. e \in Execution /\ e.results = Idle.results
  BY <1>1, IdleType DEF Execution
<1>3. handler' = [handler EXCEPT ![h] = e]
  BY DEF Start
<1> HIDE DEF e
<1>4. failures' \in Nat /\ asked' \subseteq {WholePolicy} \cup Change
  BY DEF Start, Inv, TypeOK
<1> QED BY <1>2, <1>3, <1>4, IdleType, HandlerKeepsInv DEF Start

LEMMA LoadKeepsInv ==
  ASSUME Inv, NEW h \in Handler, Load(h)
  PROVE  Inv'
<1> DEFINE e == handler[h]
           targets == IF e.refresh THEN open ELSE open \cap {e.job}
           loaded == [c \in Change |-> IF c \in targets THEN Observed(c) ELSE {}]
           policy == IF e.refresh THEN Effective(project.overrides) ELSE project.policy
           next == [e EXCEPT !.pc = "loaded", !.policy = policy, !.targets = targets,
                             !.results = loaded]
<1>1. e \in Execution /\ targets \in SUBSET Change
  BY DEF Inv, TypeOK
<1>2. loaded \in Stored /\ (week = 0 => Current(loaded))
  BY LoadedType DEF Inv
<1>3. policy \in PolicyOf
  <2>1. project.overrides \in SUBSET Context /\ project.policy \in PolicyOf
    BY DEF Inv, TypeOK
  <2> QED BY <2>1, EffectiveType DEF Inv
<1>4. handler' = [handler EXCEPT ![h] = Idle] \/ handler' = [handler EXCEPT ![h] = next]
  BY DEF Load
<1> HIDE DEF policy, targets, loaded
<1>5. next \in Execution /\ next.results = loaded
  BY <1>1, <1>2, <1>3 DEF Execution
<1> HIDE DEF next, e
<1>6. failures' \in Nat /\ asked' \subseteq {WholePolicy} \cup Change
  BY DEF Load, Inv, TypeOK
<1>7. PICK execution \in {Idle, next} : handler' = [handler EXCEPT ![h] = execution]
  BY <1>4
<1>8. execution \in Execution /\ (week = 0 => Current(execution.results))
  BY <1>2, <1>5, <1>7, IdleType
<1> QED BY <1>6, <1>7, <1>8, HandlerKeepsInv DEF Load

LEMMA FailKeepsInv ==
  ASSUME Inv, NEW h \in Handler, Fail(h)
  PROVE  Inv'
<1>1. handler[h].job \in {WholePolicy} \cup Change
  BY DEF Inv, TypeOK, Execution
<1>2. failures' \in Nat /\ asked' \subseteq {WholePolicy} \cup Change
  BY <1>1 DEF Fail, Inv, TypeOK
<1> QED BY <1>2, IdleType, HandlerKeepsInv DEF Fail

\* A handler queues an evaluation when it changes what an evaluation reads.
LEMMA CommitKeepsInv ==
  ASSUME Inv, NEW h \in Handler, Commit(h)
  PROVE  Inv'
<1> DEFINE e == handler[h]
<1>1. e \in Execution /\ (week = 0 => Current(e.results))
  BY UnagedIs DEF Inv, TypeOK
<1>2. /\ handler' = [handler EXCEPT ![h] = Idle]
      /\ UNCHANGED <<github, failures, open, recon, last, seen, quiet>>
  BY DEF Commit
<1>3. asked' \subseteq {WholePolicy} \cup Change /\ failures' \in Nat
  BY <1>1, <1>2 DEF Commit, Inv, TypeOK, Execution
<1>4. CASE UNCHANGED <<project, results, states, due>>
  BY <1>2, <1>3, <1>4, IdleType, HandlerKeepsInv
<1>5. CASE /\ ApplyChecks(e.policy, e.targets, e.results, e.refresh, open)
           /\ due' = (due \/ Moved)
  <2>1. e.policy \in PolicyOf /\ e.results \in Stored /\ e.refresh \in BOOLEAN
    BY <1>1 DEF Execution
  <2>2. open \in SUBSET Change /\ results \in Stored /\ open' = open
    BY <1>2 DEF Inv, TypeOK
  <2>0. Applied(e.policy, e.targets, e.results, e.refresh, open)
    BY <1>5, <2>1, <2>2, ApplyChecksKeeps DEF Inv, VerdictSeesStates
  <2>3. /\ project' \in [configuration : Nat, overrides : SUBSET Context,
                         policy : PolicyOf, version : Nat]
        /\ project'.version > 0
        /\ results' = NextResults(e.targets, e.refresh, e.results)
        /\ states' \in UNION {[S -> StatesRow] : S \in SUBSET open}
        /\ StatesAreComputed' /\ NoChecksNoStates'
    BY <2>0 DEF Applied
  <2>4. results' \in Stored /\ (Current(results) /\ Current(e.results) => Current(results'))
    BY <2>1, <2>2, <2>3, NextResultsType DEF Replaced
  <2>5. due' \in BOOLEAN
    BY <1>5 DEF Moved, Inv, TypeOK
  <2>6. handler' \in [Handler -> Execution]
    BY <1>2, IdleType DEF Inv, TypeOK
  <2>7. TypeOK'
    BY <1>2, <1>3, <2>2, <2>3, <2>4, <2>5, <2>6 DEF Inv, TypeOK, github
  <2>8. Unaged'
    <3>1. \A g \in Handler : handler'[g] = handler[g] \/ handler'[g] = Idle
      BY <1>2 DEF Inv, TypeOK
    <3>2. week' = 0 => /\ Current(results') /\ Current(recon.results)
                       /\ \A g \in Handler : Current(handler'[g].results)
      BY <1>1, <1>2, <2>4, <3>1, IdleType, UnagedIs DEF Inv, github
    <3> QED BY <1>2, <3>2 DEF Unaged, Current
  <2>9. VerdictSeesStates'
    <3>1. ~due' => ~due /\ Inputs' = Inputs
      BY <1>5 DEF Moved, Inputs
    <3> QED BY <1>2, <2>3, <3>1 DEF Inv, VerdictSeesStates, github
  <2>10. LastProjected'
    BY <1>2, <2>3 DEF Inv, LastProjected
  <2> QED BY <2>3, <2>7, <2>8, <2>9, <2>10 DEF Inv
<1> QED BY <1>4, <1>5 DEF Commit

LEMMA ReconcileLoadKeepsInv ==
  ASSUME Inv, ReconcileLoad
  PROVE  Inv'
<1> DEFINE loaded == [c \in Change |-> IF c \in merged THEN Observed(c) ELSE {}]
           policy == Effective(project.overrides)
           next == [Idle EXCEPT !.pc = "loaded", !.configuration = project.configuration,
                      !.policy = policy, !.targets = merged, !.results = loaded]
<1>1. loaded \in Stored /\ (week = 0 => Current(loaded))
  BY LoadedType DEF Inv
<1>2. /\ policy \in PolicyOf /\ merged \in SUBSET Change /\ project.configuration \in Nat
  <2>1. project.overrides \in SUBSET Context
    BY DEF Inv, TypeOK
  <2> QED BY <2>1, EffectiveType DEF Inv, TypeOK
<1>3. recon' = next
  BY DEF ReconcileLoad
<1> HIDE DEF loaded, policy
<1>4. next \in Execution /\ next.results = loaded
  BY <1>1, <1>2, IdleType DEF Execution
<1> HIDE DEF next
<1>5. TypeOK'
  BY <1>3, <1>4 DEF ReconcileLoad, Inv, TypeOK, github
<1>6. Unaged'
  BY <1>1, <1>3, <1>4 DEF ReconcileLoad, Inv, Unaged, Current, github
<1> QED BY <1>5, <1>6, RowsKept DEF ReconcileLoad, github

\* A reconciliation that projects what the last one did, and whose rows are the ones
\* that are stored, changes nothing that an evaluation reads.
LEMMA SameProjection ==
  ASSUME Inv, week = 0, recon.pc = "loaded", NEW expected \in BOOLEAN,
         ~ReleaseStateChanged(Projection(recon.policy, recon.targets, recon.results),
                              Projection(project.policy, open, results), expected)
  PROVE  /\ project.version > 0 /\ open = recon.targets
         /\ ~expected => project.policy = recon.policy /\ results = recon.results
<1> DEFINE new == Projection(recon.policy, recon.targets, recon.results)
           stored == Projection(project.policy, open, results)
<1>1. last = new /\ (stored.targets = new.targets /\ ~expected => stored = new)
  BY DEF ReleaseStateChanged
<1>2. /\ new.pc = "loaded" /\ new.targets = recon.targets /\ new.policy = recon.policy
      /\ new.results = Evidence(recon.results)
      /\ stored.targets = open /\ stored.policy = project.policy
      /\ stored.results = Evidence(results)
  BY DEF Projection, Idle
<1> HIDE DEF new, stored
<1>3. last.targets = open /\ project.version > 0
  BY <1>1, <1>2 DEF Inv, LastProjected
<1>4. Evidence(recon.results) = Evidence(results) => recon.results = results
  <2>1. recon.results \in Stored /\ results \in Stored
    BY DEF Inv, TypeOK, Execution
  <2>2. Current(recon.results) /\ Current(results)
    BY UnagedIs DEF Inv
  <2> QED BY <2>1, <2>2, EvidenceTells
<1> QED BY <1>1, <1>2, <1>3, <1>4

LEMMA ReconcileApplyKeepsInv ==
  ASSUME Inv, NEW expected \in BOOLEAN, ReconcileApply(expected)
  PROVE  Inv'
<1> DEFINE new == Projection(recon.policy, recon.targets, recon.results)
           stored == Projection(project.policy, open, results)
<1>1. /\ recon.pc = "loaded" /\ recon' = Idle
      /\ UNCHANGED <<github, failures, asked, handler, seen>>
  BY DEF ReconcileApply
<1>2. CASE UNCHANGED <<project, open, results, states, last, due, quiet>>
  <2>1. TypeOK'
    BY <1>1, <1>2, IdleType DEF Inv, TypeOK, github
  <2>2. Unaged'
    BY <1>1, <1>2, IdleType DEF Inv, Unaged, Current, github
  <2> QED BY <1>1, <1>2, <2>1, <2>2, RowsKept DEF github
<1>3. CASE /\ open' = recon.targets
           /\ ApplyChecks(recon.policy, recon.targets, recon.results, TRUE, recon.targets)
           /\ last' = new
           /\ due' = (due \/ ReleaseStateChanged(new, stored, expected))
           /\ quiet' = (quiet \/ (expected /\ ~due' /\ Moved))
  <2>1. /\ recon.policy \in PolicyOf /\ recon.results \in Stored
        /\ recon.targets \in SUBSET Change /\ results \in Stored
    BY DEF Inv, TypeOK, Execution
  <2>2. Applied(recon.policy, recon.targets, recon.results, TRUE, recon.targets)
    BY <1>3, <2>1, ApplyChecksKeeps DEF Inv, VerdictSeesStates
  <2>3. /\ project' \in [configuration : Nat, overrides : SUBSET Context,
                         policy : PolicyOf, version : Nat]
        /\ project'.version > 0
        /\ results' = NextResults(recon.targets, TRUE, recon.results)
        /\ states' \in UNION {[S -> StatesRow] : S \in SUBSET recon.targets}
        /\ StatesAreComputed' /\ NoChecksNoStates'
    BY <2>2 DEF Applied
  <2>4. Replaced(results', recon.targets, TRUE, recon.results)
    BY <2>1, <2>3, NextResultsType
  <2>5. new \in Execution /\ new.targets = recon.targets
    <3>1. Evidence(recon.results) \in Stored
      <4>1. ASSUME NEW c \in Change, NEW o \in recon.results[c]
            PROVE  [o EXCEPT !.old = FALSE] \in Observation
        <5>1. o \in Observation
          BY <2>1, <4>1 DEF Stored
        <5> QED BY <5>1 DEF Observation
      <4> QED BY <4>1 DEF Evidence, Stored
    <3> QED BY <2>1, <3>1, IdleType DEF Projection, Execution
  <2>6. due' \in BOOLEAN /\ quiet' \in BOOLEAN
    BY <1>3 DEF ReleaseStateChanged, Moved, Inv, TypeOK
  <2>7. TypeOK'
    BY <1>1, <1>3, <2>1, <2>3, <2>4, <2>5, <2>6, IdleType DEF Inv, TypeOK, github, Replaced
  <2>8. Unaged'
    <3>1. week' = 0 => /\ Current(results') /\ Current(Idle.results)
                       /\ \A h \in Handler : Current(handler[h].results)
      BY <1>1, <2>4, IdleType, UnagedIs DEF Inv, github, Replaced
    <3> QED BY <1>1, <3>1 DEF Unaged, Current
  <2>9. LastProjected'
    BY <1>3, <2>3, <2>5 DEF LastProjected
  <2>10. ASSUME ~due', ~quiet', week' = 0
         PROVE  seen' = Inputs'
    <3>1. ~due /\ ~quiet /\ week = 0 /\ seen' = Inputs
      BY <1>1, <1>3, <2>6, <2>10 DEF Inv, VerdictSeesStates, github, TypeOK
    <3>2. /\ project.version > 0 /\ open = recon.targets
          /\ ~expected => project.policy = recon.policy /\ results = recon.results
      BY <1>1, <1>3, <2>10, <3>1, SameProjection
    <3>3. CASE expected
      <4>1. ~Moved
        BY <1>3, <2>6, <2>10, <3>3 DEF Moved
      <4> QED BY <3>1, <4>1 DEF Moved, Inputs
    <3>4. CASE ~expected
      <4>1. project.policy = recon.policy /\ results = recon.results
        BY <3>2, <3>4
      <4>2. project' = project
        BY <1>3, <3>2, <4>1 DEF ApplyChecks
      <4>3. states' = states
        <5>1. CASE recon.policy = NoPolicy
          <6>1. DOMAIN states = {} /\ DOMAIN states' = {}
            BY <2>2, <4>1, <5>1 DEF Inv, NoChecksNoStates, NoPolicy, Applied
          <6> QED BY <2>3, <6>1 DEF Inv, TypeOK
        <5>2. CASE recon.policy # NoPolicy
          <6>1. states' = [c \in open |-> StatesOf(c, recon.policy, results')]
            BY <2>2, <3>2, <5>2 DEF Applied
          <6>2. ASSUME NEW c \in open
                PROVE  c \in DOMAIN states /\ states[c] = StatesOf(c, recon.policy, results')
            <7>1. c \in DOMAIN states /\ states[c] = StatesOf(c, recon.policy, results)
              <8>1. project.policy # [x \in {} |-> ""]
                BY <4>1, <5>2 DEF NoPolicy
              <8>2. StatesOf(c, project.policy, results) = StatesOf(c, recon.policy, results)
                BY <4>1
              <8> QED BY <3>2, <6>2, <8>1, <8>2 DEF Inv, VerdictSeesStates, StatesAreComputed
            <7>2. results'[c] = results[c]
              BY <2>1, <2>4, <3>2, <4>1, <6>2 DEF Replaced
            <7> QED BY <7>1, <7>2 DEF StatesOf
          <6>3. states \in [open -> StatesRow]
            <7>1. \A c \in open : c \in DOMAIN states
              BY <6>2
            <7> QED BY <7>1 DEF Inv, TypeOK
          <6> QED BY <6>1, <6>2, <6>3
        <5> QED BY <5>1, <5>2
      <4> QED BY <3>1, <4>2, <4>3 DEF Inputs
    <3> QED BY <3>3, <3>4
  <2> QED BY <2>3, <2>7, <2>8, <2>9, <2>10 DEF Inv, VerdictSeesStates
<1> QED BY <1>2, <1>3 DEF ReconcileApply

LEMMA EvaluateKeepsInv ==
  ASSUME Inv, Evaluate
  PROVE  Inv'
<1>1. TypeOK'
  BY DEF Evaluate, Inv, TypeOK, github
<1>2. VerdictSeesStates'
  BY DEF Evaluate, Inv, VerdictSeesStates, StatesAreComputed, StatesOf, Inputs, github
<1>3. LastProjected' /\ NoChecksNoStates' /\ Unaged'
  BY DEF Evaluate, Inv, LastProjected, NoChecksNoStates, Unaged, github
<1> QED BY <1>1, <1>2, <1>3 DEF Inv

LEMMA NextInv == Inv /\ [Next]_vars => Inv'
<1>1. ASSUME Inv, UNCHANGED vars
      PROVE  Inv'
  BY <1>1 DEF vars, Inv, TypeOK, VerdictSeesStates, StatesAreComputed, StatesOf, Inputs,
              Unaged, LastProjected, NoChecksNoStates
<1>2. ASSUME Inv, NEW expected \in Scopes, ReconcileApply(expected)
      PROVE  Inv'
  <2>1. expected \in BOOLEAN
    BY ChecksAssumption
  <2> QED BY <1>2, <2>1, ReconcileApplyKeepsInv
<1> QED
  BY <1>1, <1>2, GitHubKeepsInv, SetOverridesKeepsInv, StartKeepsInv, LoadKeepsInv,
     CommitKeepsInv, FailKeepsInv, ReconcileLoadKeepsInv, EvaluateKeepsInv
  DEF Next, Reconcile

\* The types and the inductive invariant hold always.
THEOREM ChecksInvariant == Spec => []Inv
<1> QED BY InitInv, NextInv, PTL DEF Spec

\* The stored states are those of the stored results under the stored policy, and
\* the last evaluation has read them unless another is queued.
THEOREM EvaluationSeesStates == Spec => []VerdictSeesStates
<1>1. Inv => VerdictSeesStates
  BY DEF Inv
<1> QED BY <1>1, ChecksInvariant, PTL

=============================================================================
