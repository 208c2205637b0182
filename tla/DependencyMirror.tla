---------------------------- MODULE DependencyMirror ----------------------------
(***************************************************************************)
(* The dependencies of changes, kept twice: as rows and as a block in the  *)
(* body of the pull request on GitHub.  A request writes both, one after   *)
(* the other, under the repository's lock; a body edited on GitHub comes   *)
(* back as a webhook and is imported.  Meanwhile pull requests are merged  *)
(* and released, and reconciliations insert and delete the changes.        *)
(*                                                                         *)
(* A body stands for the pull requests its block names, none without one.  *)
(* An insert gives a change a new id; a released pull request never comes  *)
(* back to the source branch, so that a pull request has one id here.      *)
(***************************************************************************)
EXTENDS DependencyGraph

CONSTANTS PR,          \* pull requests
          Request,     \* requests that change dependencies
          NoRequest,
          Hand,        \* the blocks people type, of Bodies
          Invalid,     \* markers that do not make a block
          Garbled,     \* a block whose contents cannot be parsed
          MaxEdits,    \* bound on the edits by hand
          MaxRequests, \* bound on the requests
          MaxMoves,    \* bound on reconciliations
          MaxFaults

Bodies == (SUBSET PR) \cup {Invalid, Garbled}

ASSUME MirrorAssumption ==
  /\ PR # {} /\ NoRequest \notin Request
  /\ (Hand \ {Invalid, Garbled}) \subseteq SUBSET PR
  /\ MaxEdits \in Nat /\ MaxRequests \in Nat /\ MaxMoves \in Nat /\ MaxFaults \in Nat

VARIABLES life,     \* pull requests on GitHub
          body,     \* their bodies
          version,  \* how often a body was edited
          hooks,    \* edits whose webhook is not processed
          imported, \* history: what became of the last edit that was processed
          row,      \* changes: their synchronization_state
          deps,     \* change_dependencies
          holder,   \* who holds the repository's lock
          req,      \* the requests
          edits, begun, moves, faults

vars == <<life, body, version, hooks, imported, row, deps, holder, req, edits, begun, moves, faults>>
github == <<life, body, version, hooks>>
-----------------------------------------------------------------------------
Edit == [pr : PR, body : Bodies, at : Nat]
Steps == {"idle", "get", "patch", "persist", "rollback"}
Requests == [step : Steps, pr : PR, want : SUBSET PR, old : Bodies, patched : BOOLEAN]

Idle == [step |-> "idle", pr |-> CHOOSE p \in PR : TRUE, want |-> {}, old |-> {}, patched |-> FALSE]

Fault == faults < MaxFaults /\ faults' = faults + 1
Free == holder = NoRequest
Targets(p) == Prerequisites(deps, {p})
WithTargets(p, targets) == {e \in deps : e[1] # p} \cup ({p} \X targets)

\* GitHub stores a body and sends the webhook.
Edited(p, b) ==
  /\ body' = [body EXCEPT ![p] = b]
  /\ version' = [version EXCEPT ![p] = @ + 1]
  /\ hooks' = hooks \cup {[pr |-> p, body |-> b, at |-> version[p] + 1]}
  /\ UNCHANGED life

HandEdit(p, b) ==
  /\ edits < MaxEdits /\ edits' = edits + 1
  /\ b # body[p] /\ Edited(p, b)
  /\ UNCHANGED <<imported, row, deps, holder, req, begun, moves, faults>>

\* A pull request is merged; production moves on to the source branch.
Merge(p) ==
  /\ life[p] = "open" /\ life' = [life EXCEPT ![p] = "merged"]
  /\ UNCHANGED <<body, version, hooks, imported, row, deps, holder, req, edits, begun, moves, faults>>

Release(p) ==
  /\ life[p] = "merged" /\ life' = [life EXCEPT ![p] = "released"]
  /\ UNCHANGED <<body, version, hooks, imported, row, deps, holder, req, edits, begun, moves, faults>>
-----------------------------------------------------------------------------
(* applyRepositoryProjectionInTransaction, as far as it moves changes *)

\* prepareStoredChanges and reconcileMissingChanges: what is merged and not released is
\* inserted; what is missing is deleted, or kept as unknown after a destructive change.
Reconcile(destructive) ==
  /\ Free
  /\ moves < MaxMoves /\ moves' = moves + 1
  /\ row' = [p \in PR |->
               IF life[p] = "merged" THEN "known"
               ELSE IF row[p] = "none" THEN "none"
               ELSE IF destructive \/ row[p] = "unknown" THEN "unknown" ELSE "none"]
  /\ UNCHANGED <<github, imported, deps, holder, req, edits, begun, faults>>
-----------------------------------------------------------------------------
(* prepareSetDependencies *)

Valid(p, targets) ==
  /\ row[p] = "known" /\ p \notin targets
  /\ \A q \in targets : row[q] = "known"
  /\ Acyclic(WithTargets(p, targets))

(* importDependenciesFromPullRequestWebhook *)
Outcome(h) ==
  IF row[h.pr] = "none" THEN "ignored"
  ELSE IF h.body \in {Invalid, Garbled} THEN "issue"
  ELSE IF Valid(h.pr, h.body) THEN "rows" ELSE "issue"

\* Mutant of Import: it does not wait for the lock of a request.
ImportUnlocked(h) ==
  /\ h \in hooks
  /\ imported' = [imported EXCEPT ![h.pr] = [at |-> h.at, outcome |-> Outcome(h)]]
  /\ deps' = (IF Outcome(h) = "rows" THEN WithTargets(h.pr, h.body) ELSE deps)
  /\ hooks' = hooks \ {h}
  /\ UNCHANGED <<life, body, version, row, holder, req, edits, begun, moves, faults>>

\* Mutant of Import: a body without a block leaves the rows alone.
ImportBlocks(h) ==
  /\ h \in hooks /\ Free
  /\ imported' = [imported EXCEPT ![h.pr] = [at |-> h.at, outcome |-> Outcome(h)]]
  /\ deps' = (IF Outcome(h) = "rows" /\ h.body # {} THEN WithTargets(h.pr, h.body) ELSE deps)
  /\ hooks' = hooks \ {h}
  /\ UNCHANGED <<life, body, version, row, holder, req, edits, begun, moves, faults>>

\* Webhooks are processed in any order; one that is not valid leaves an issue.
Import(h) ==
  /\ h \in hooks
  /\ Free \/ Outcome(h) = "ignored"
  /\ imported' = [imported EXCEPT ![h.pr] = [at |-> h.at, outcome |-> Outcome(h)]]
  /\ deps' = (IF Outcome(h) = "rows" THEN WithTargets(h.pr, h.body) ELSE deps)
  /\ hooks' = hooks \ {h}
  /\ UNCHANGED <<life, body, version, row, holder, req, edits, begun, moves, faults>>

LoseHook(h) ==
  /\ h \in hooks /\ Fault
  /\ hooks' = hooks \ {h}
  /\ UNCHANGED <<life, body, version, imported, row, deps, holder, req, edits, begun, moves>>
-----------------------------------------------------------------------------
(* mutateWithGitHubMirror *)

Begin(r, p, targets) ==
  /\ req[r].step = "idle" /\ Free
  /\ begun < MaxRequests /\ begun' = begun + 1
  /\ Valid(p, targets)
  /\ holder' = r
  /\ req' = [req EXCEPT ![r] = [Idle EXCEPT !.step = "get", !.pr = p, !.want = targets]]
  /\ UNCHANGED <<github, imported, row, deps, edits, moves, faults>>

SetDependencies(r, p, targets) == Begin(r, p, targets)

\* Only a prerequisite that still has a row can be removed.
RemoveDependency(r, p, q) ==
  /\ row[q] # "none" /\ q \in Targets(p)
  /\ Begin(r, p, Targets(p) \ {q})

Ended(r) ==
  /\ req' = [req EXCEPT ![r] = Idle]
  /\ holder' = (IF holder = r THEN NoRequest ELSE holder)

GetBody(r) ==
  /\ req[r].step = "get"
  /\ \/ /\ body[req[r].pr] # Invalid
        /\ req' = [req EXCEPT ![r].step = "patch", ![r].old = body[req[r].pr]]
        /\ UNCHANGED <<holder, faults>>
     \/ body[req[r].pr] = Invalid /\ Ended(r) /\ UNCHANGED faults
     \/ Fault /\ Ended(r)
  /\ UNCHANGED <<github, imported, row, deps, edits, begun, moves>>

\* An answer that does not arrive leaves the body changed and is not rolled back.
PatchBody(r) ==
  /\ req[r].step = "patch"
  /\ IF req[r].want = req[r].old
     THEN /\ req' = [req EXCEPT ![r].step = "persist"]
          /\ UNCHANGED <<github, holder, faults>>
     ELSE \/ /\ Edited(req[r].pr, req[r].want)
             /\ req' = [req EXCEPT ![r].step = "persist", ![r].patched = TRUE]
             /\ UNCHANGED <<holder, faults>>
          \/ Fault /\ Ended(r) /\ Edited(req[r].pr, req[r].want)
          \/ Fault /\ Ended(r) /\ UNCHANGED github
  /\ UNCHANGED <<imported, row, deps, edits, begun, moves>>

Fails(r) ==
  IF req[r].patched
  THEN req' = [req EXCEPT ![r].step = "rollback"] /\ UNCHANGED holder
  ELSE Ended(r)

\* The transaction runs on the connection that holds the lock: it fails without it.
Persist(r) ==
  /\ req[r].step = "persist"
  /\ \/ /\ holder = r
        /\ deps' = WithTargets(req[r].pr, req[r].want)
        /\ Ended(r) /\ UNCHANGED faults
     \/ holder # r /\ Fails(r) /\ UNCHANGED <<deps, faults>>
     \/ Fault /\ Fails(r) /\ UNCHANGED deps
  /\ UNCHANGED <<github, imported, row, edits, begun, moves>>

Rollback(r) ==
  /\ req[r].step = "rollback"
  /\ \/ Edited(req[r].pr, req[r].old) /\ UNCHANGED faults
     \/ Fault /\ UNCHANGED github
  /\ Ended(r)
  /\ UNCHANGED <<imported, row, deps, edits, begun, moves>>

\* The connection breaks: PostgreSQL frees the lock while the request goes on.
LoseLock ==
  /\ ~Free /\ Fault
  /\ holder' = NoRequest
  /\ UNCHANGED <<github, imported, row, deps, req, edits, begun, moves>>

\* The process ends.
Crash(r) ==
  /\ req[r].step # "idle" /\ Fault
  /\ Ended(r)
  /\ UNCHANGED <<github, imported, row, deps, edits, begun, moves>>
-----------------------------------------------------------------------------
\* Two changes are merged, one pull request may still be open.
Init ==
  /\ life \in [PR -> {"open", "merged"}]
  /\ row = [p \in PR |-> IF life[p] = "merged" THEN "known" ELSE "none"]
  /\ body = [p \in PR |-> {}] /\ version = [p \in PR |-> 0]
  /\ hooks = {}
  /\ imported = [p \in PR |-> [at |-> 0, outcome |-> "rows"]]
  /\ deps = {}
  /\ holder = NoRequest
  /\ req = [r \in Request |-> Idle]
  /\ edits = 0 /\ begun = 0 /\ moves = 0 /\ faults = 0

RequestStep(r) == GetBody(r) \/ PatchBody(r) \/ Persist(r) \/ Rollback(r)

Next ==
  \/ \E p \in PR : Merge(p) \/ Release(p) \/ \E b \in Hand : HandEdit(p, b)
  \/ \E destructive \in BOOLEAN : Reconcile(destructive)
  \/ \E h \in hooks : Import(h) \/ LoseHook(h)
  \/ \E r \in Request, p \in PR : \/ \E targets \in SUBSET PR : SetDependencies(r, p, targets)
                                  \/ \E q \in PR : RemoveDependency(r, p, q)
  \/ \E r \in Request : RequestStep(r) \/ Crash(r)
  \/ LoseLock

Spec == Init /\ [][Next]_vars
-----------------------------------------------------------------------------
(* Properties *)

\* No interleaving of requests, imports and reconciliations stores a cycle, which is
\* only looked for before the body is written.
GraphStaysAcyclic == Acyclic(deps)

\* Once the last edit of a body was imported into rows, rows and body name the same
\* prerequisites, also while a request is changing them and whatever failed before.
MirrorAgrees ==
  \A p \in PR : imported[p] = [at |-> version[p], outcome |-> "rows"] => Targets(p) = body[p]
=============================================================================
