------------------------ MODULE DependencyMirror_proofs ------------------------
(***************************************************************************)
(* Proofs about DependencyMirror: rows never form a cycle, and they agree  *)
(* with a body whose last edit was imported.  Both rest on what the holder *)
(* of the repository's lock knows: nobody else stores rows, and an edit it *)
(* has not seen is not imported before it gives the lock up.               *)
(***************************************************************************)
EXTENDS DependencyMirror, TLAPS

\* Every variable the argument is about keeps its type.
TypeOK ==
  /\ body \in [PR -> Bodies] /\ version \in [PR -> Nat] /\ hooks \subseteq Edit
  /\ imported \in [PR -> [at : Nat, outcome : {"rows", "issue", "ignored"}]]
  /\ deps \subseteq PR \X PR
  /\ holder \in Request \cup {NoRequest}
  /\ req \in [Request -> Requests]

\* A webhook is about an edit that was made, and the last one has the body as it is.
Delivered ==
  \A h \in hooks : /\ h.at <= version[h.pr]
                   /\ h.at = version[h.pr] => h.body = body[h.pr]

\* Only edits that were made are imported.
Behind == \A p \in PR : imported[p].at <= version[p]

\* The last edit of a body was imported into rows.
Current(p) == imported[p] = [at |-> version[p], outcome |-> "rows"]

\* What a request knows while it holds the lock: what it wants closes no cycle, and the
\* body is as it read or wrote it, unless an edit is not imported yet.
Held(r) ==
  /\ req[r].step # "idle"
  /\ Acyclic(WithTargets(req[r].pr, req[r].want))
  /\ req[r].step = "patch" /\ Current(req[r].pr) => body[req[r].pr] = req[r].old
  /\ req[r].step = "persist" /\ Current(req[r].pr) => body[req[r].pr] = req[r].want

Locked == \A r \in Request : holder = r => Held(r)

IInv == TypeOK /\ Delivered /\ Behind /\ Locked /\ GraphStaysAcyclic /\ MirrorAgrees
-----------------------------------------------------------------------------
(* No dependency, no cycle.                                                         *)
LEMMA EmptyAcyclic == Acyclic({})
  BY DEF Acyclic

LEMMA IdleTyped == Idle \in Requests /\ Idle.step = "idle"
<1>1. (CHOOSE p \in PR : TRUE) \in PR
  BY MirrorAssumption
<1> QED
  BY <1>1 DEF Idle, Requests, Steps, Bodies

(* The replaced edges are those of one change (prepareSetDependencies).             *)
LEMMA Replaced ==
  ASSUME TypeOK, NEW p \in PR, NEW targets \in SUBSET PR, deps' = WithTargets(p, targets)
  PROVE  /\ deps' \subseteq PR \X PR
         /\ Targets(p)' = targets
         /\ \A q \in PR \ {p} : Targets(q)' = Targets(q)
<1>1. deps' = {e \in deps : e[1] # p} \cup ({p} \X targets)
  BY DEF WithTargets
<1>2. deps \subseteq PR \X PR
  BY DEF TypeOK
<1>3. deps' \subseteq PR \X PR
  BY <1>1, <1>2
<1>4. \A q \in PR : Targets(q)' = {e[2] : e \in {f \in deps' : f[1] = q}}
  BY DEF Targets, Prerequisites
<1>5. \A q \in PR : Targets(q) = {e[2] : e \in {f \in deps : f[1] = q}}
  BY DEF Targets, Prerequisites
<1>6. {f \in deps' : f[1] = p} = {p} \X targets
  BY <1>1
<1>7. {e[2] : e \in {p} \X targets} = targets
  <2>1. ASSUME NEW t \in targets PROVE t \in {e[2] : e \in {p} \X targets}
    <3>1. <<p, t>> \in {p} \X targets /\ <<p, t>>[2] = t
      OBVIOUS
    <3> QED
      BY <3>1
  <2> QED
    BY <2>1
<1>8. \A q \in PR \ {p} : {f \in deps' : f[1] = q} = {f \in deps : f[1] = q}
  BY <1>1
<1> QED
  BY <1>3, <1>4, <1>5, <1>6, <1>7, <1>8

(* An edit makes every earlier import of the body out of date (updatePullRequestBody). *)
LEMMA EditedKeeps ==
  ASSUME TypeOK, Delivered, Behind, NEW p \in PR, NEW b \in Bodies, Edited(p, b),
         UNCHANGED imported
  PROVE  /\ body' \in [PR -> Bodies] /\ version' \in [PR -> Nat] /\ hooks' \subseteq Edit
         /\ Delivered' /\ Behind'
         /\ ~Current(p)' /\ \A q \in PR \ {p} : body'[q] = body[q] /\ version'[q] = version[q]
<1>1. /\ body \in [PR -> Bodies] /\ version \in [PR -> Nat] /\ hooks \subseteq Edit
      /\ imported \in [PR -> [at : Nat, outcome : {"rows", "issue", "ignored"}]]
  BY DEF TypeOK
<1> DEFINE sent == [pr |-> p, body |-> b, at |-> version[p] + 1]
<1>2. /\ body' = [body EXCEPT ![p] = b] /\ version' = [version EXCEPT ![p] = version[p] + 1]
      /\ hooks' = hooks \cup {sent}
  BY <1>1 DEF Edited
<1>3. sent \in Edit /\ sent.pr = p /\ sent.body = b /\ sent.at = version[p] + 1
  BY <1>1 DEF Edit
<1> HIDE DEF sent
<1>4. /\ body' \in [PR -> Bodies] /\ version' \in [PR -> Nat] /\ hooks' \subseteq Edit
      /\ body'[p] = b /\ version'[p] = version[p] + 1
      /\ \A q \in PR \ {p} : body'[q] = body[q] /\ version'[q] = version[q]
  BY <1>1, <1>2, <1>3
<1>5. Delivered'
  <2> SUFFICES ASSUME NEW h \in hooks'
               PROVE  h.at <= version'[h.pr] /\ (h.at = version'[h.pr] => h.body = body'[h.pr])
    BY DEF Delivered
  <2>1. CASE h = sent
    BY <1>1, <1>3, <1>4, <2>1
  <2>2. CASE h \in hooks
    <3>1. h.pr \in PR /\ h.at \in Nat /\ version[h.pr] \in Nat
      BY <1>1, <2>2 DEF Edit
    <3>2. h.at <= version[h.pr] /\ (h.at = version[h.pr] => h.body = body[h.pr])
      BY <2>2 DEF Delivered
    <3>3. CASE h.pr = p
      BY <1>4, <3>1, <3>2, <3>3
    <3>4. CASE h.pr # p
      BY <1>4, <3>1, <3>2, <3>4
    <3> QED
      BY <3>3, <3>4
  <2> QED
    BY <1>2, <2>1, <2>2
<1>6. imported[p].at \in Nat /\ version[p] \in Nat /\ imported[p].at <= version[p]
  BY <1>1 DEF Behind
<1>7. Behind'
  <2> SUFFICES ASSUME NEW q \in PR PROVE imported[q].at <= version'[q]
    BY DEF Behind
  <2>1. CASE q = p
    BY <1>4, <1>6, <2>1
  <2>2. CASE q # p
    BY <1>4, <2>2 DEF Behind
  <2> QED
    BY <2>1, <2>2
<1>8. ~Current(p)'
  <2>1. Current(p)' => imported[p].at = version'[p]
    BY DEF Current
  <2> QED
    BY <1>4, <1>6, <2>1
<1> QED
  BY <1>4, <1>5, <1>7, <1>8

\* What is current was current, of the same body.
NoNews == \A p \in PR : Current(p)' => Current(p) /\ body'[p] = body[p]

LEMMA EditedNoNews ==
  ASSUME TypeOK, Delivered, Behind, NEW p \in PR, NEW b \in Bodies, Edited(p, b),
         UNCHANGED imported
  PROVE  NoNews
<1>1. /\ ~Current(p)'
      /\ \A q \in PR \ {p} : body'[q] = body[q] /\ version'[q] = version[q]
  BY EditedKeeps
<1> QED
  BY <1>1 DEF NoNews, Current

LEMMA StillNoNews == UNCHANGED <<body, version, imported>> => NoNews
  BY DEF NoNews, Current

(* Without news and with the same rows they agree as before.                        *)
LEMMA RowsKept ==
  ASSUME IInv, NoNews, UNCHANGED deps
  PROVE  GraphStaysAcyclic' /\ MirrorAgrees'
<1>1. GraphStaysAcyclic'
  BY DEF IInv, GraphStaysAcyclic
<1>2. \A p \in PR : Targets(p)' = Targets(p)
  BY DEF Targets
<1> QED
  BY <1>1, <1>2 DEF IInv, MirrorAgrees, NoNews, Current

(* ... and a holder that does nothing knows what it knew.                           *)
LEMMA HeldKept ==
  ASSUME IInv, NoNews, UNCHANGED deps, NEW r \in Request, Held(r), req'[r] = req[r]
  PROVE  Held(r)'
<1>1. req[r].pr \in PR
  BY DEF IInv, TypeOK, Requests
<1>2. Acyclic(WithTargets(req[r].pr, req[r].want))'
  BY DEF Held, WithTargets
<1> QED
  BY <1>1, <1>2 DEF Held, NoNews

LEMMA LockedKept ==
  ASSUME IInv, NoNews, UNCHANGED <<deps, req>>, holder' \in {holder, NoRequest}
  PROVE  Locked'
<1>1. \A r \in Request : r # NoRequest
  BY MirrorAssumption
<1> QED
  BY <1>1, HeldKept DEF IInv, Locked

(* A lock that nobody holds keeps no promise.                                       *)
LEMMA FreeLocked == holder' = NoRequest => Locked'
  BY MirrorAssumption DEF Locked
-----------------------------------------------------------------------------
(* GitHub *)

LEMMA HandEditKeeps ==
  ASSUME IInv, NEW p \in PR, NEW b \in Hand, HandEdit(p, b)
  PROVE  IInv'
<1>1. b \in Bodies
  BY MirrorAssumption DEF Bodies
<1>2. Edited(p, b) /\ UNCHANGED <<imported, deps, holder, req>>
  BY DEF HandEdit
<1>3. TypeOK /\ Delivered /\ Behind
  BY DEF IInv
<1>4. /\ body' \in [PR -> Bodies] /\ version' \in [PR -> Nat] /\ hooks' \subseteq Edit
      /\ Delivered' /\ Behind' /\ NoNews
  BY <1>1, <1>2, <1>3, EditedKeeps, EditedNoNews
<1>5. TypeOK'
  BY <1>2, <1>3, <1>4 DEF TypeOK
<1>6. Locked'
  BY <1>2, <1>4, LockedKept
<1> QED
  BY <1>2, <1>4, <1>5, <1>6, RowsKept DEF IInv

(* Webhooks and what moves the rows of changes leave bodies and dependencies alone.  *)
LEMMA QuietKeeps ==
  ASSUME IInv, UNCHANGED <<body, version, imported, deps, req>>, hooks' \subseteq hooks,
         holder' \in {holder, NoRequest}
  PROVE  IInv'
<1>1. TypeOK' /\ Delivered' /\ Behind'
  BY DEF IInv, TypeOK, Delivered, Behind
<1>2. NoNews
  BY StillNoNews
<1> QED
  BY <1>1, <1>2, LockedKept, RowsKept DEF IInv

(* An import is recorded with the edit it was about; only a free lock lets it store   *)
(* rows (importDependenciesFromPullRequestWebhook).                                   *)
LEMMA ImportKeeps ==
  ASSUME IInv, NEW h \in hooks, Import(h)
  PROVE  IInv'
<1>1. /\ TypeOK /\ h \in Edit /\ h.pr \in PR /\ h.at \in Nat /\ h.body \in Bodies
      /\ h.at <= version[h.pr] /\ (h.at = version[h.pr] => h.body = body[h.pr])
  BY DEF IInv, TypeOK, Edit, Delivered
<1>2. /\ imported' = [imported EXCEPT ![h.pr] = [at |-> h.at, outcome |-> Outcome(h)]]
      /\ hooks' \subseteq hooks /\ UNCHANGED <<body, version, holder, req>>
      /\ Free \/ Outcome(h) = "ignored"
      /\ deps' = IF Outcome(h) = "rows" THEN WithTargets(h.pr, h.body) ELSE deps
  BY DEF Import
<1>3. Outcome(h) \in {"rows", "issue", "ignored"}
  BY DEF Outcome
<1>4. Outcome(h) = "rows" => h.body \in SUBSET PR /\ Acyclic(WithTargets(h.pr, h.body))
  BY <1>1 DEF Outcome, Valid, Bodies
<1>5. /\ imported' \in [PR -> [at : Nat, outcome : {"rows", "issue", "ignored"}]]
      /\ imported'[h.pr] = [at |-> h.at, outcome |-> Outcome(h)]
      /\ \A p \in PR \ {h.pr} : imported'[p] = imported[p]
  BY <1>1, <1>2, <1>3 DEF TypeOK
<1>6. Delivered'
  BY <1>2 DEF IInv, Delivered
<1>7. Behind'
  <2> SUFFICES ASSUME NEW p \in PR PROVE imported'[p].at <= version[p]
    BY <1>2 DEF Behind
  <2>1. CASE p = h.pr
    BY <1>1, <1>5, <2>1
  <2>2. CASE p # h.pr
    BY <1>5, <2>2 DEF IInv, Behind
  <2> QED
    BY <2>1, <2>2
<1>8. CASE Outcome(h) = "rows"
  <2>1. deps' = WithTargets(h.pr, h.body) /\ holder' = NoRequest
    BY <1>2, <1>8 DEF Free
  <2>2. /\ deps' \subseteq PR \X PR /\ Targets(h.pr)' = h.body
        /\ \A q \in PR \ {h.pr} : Targets(q)' = Targets(q)
    BY <1>1, <1>4, <1>8, <2>1, Replaced
  <2>3. GraphStaysAcyclic'
    BY <1>4, <1>8, <2>1 DEF GraphStaysAcyclic
  <2>4. MirrorAgrees'
    <3> SUFFICES ASSUME NEW p \in PR, imported'[p] = [at |-> version[p], outcome |-> "rows"]
                 PROVE  Targets(p)' = body[p]
      BY <1>2 DEF MirrorAgrees
    <3>1. CASE p = h.pr
      BY <1>1, <1>5, <2>2, <3>1
    <3>2. CASE p # h.pr
      BY <1>5, <2>2, <3>2 DEF IInv, MirrorAgrees
    <3> QED
      BY <3>1, <3>2
  <2>5. TypeOK'
    BY <1>1, <1>2, <1>5, <2>2 DEF TypeOK
  <2> QED
    BY <1>6, <1>7, <2>1, <2>3, <2>4, <2>5, FreeLocked DEF IInv
<1>9. CASE Outcome(h) # "rows"
  <2>1. deps' = deps
    BY <1>2, <1>9
  <2>2. NoNews
    BY <1>2, <1>5, <1>9 DEF NoNews, Current
  <2>3. TypeOK'
    BY <1>1, <1>2, <1>5, <2>1 DEF TypeOK
  <2>4. Locked'
    BY <1>2, <2>1, <2>2, LockedKept
  <2> QED
    BY <1>6, <1>7, <2>1, <2>2, <2>3, <2>4, RowsKept DEF IInv
<1> QED
  BY <1>8, <1>9
-----------------------------------------------------------------------------
(* mutateWithGitHubMirror *)

(* A request holds the lock from the check of what it wants.                         *)
LEMMA BeginKeeps ==
  ASSUME IInv, NEW r \in Request, NEW p \in PR, NEW targets \in SUBSET PR, Begin(r, p, targets)
  PROVE  IInv'
<1> DEFINE row1 == [Idle EXCEPT !.step = "get", !.pr = p, !.want = targets]
<1>1. /\ row1 \in Requests /\ row1.step = "get" /\ row1.pr = p /\ row1.want = targets
  BY IdleTyped DEF Requests, Steps
<1>2. /\ req' = [req EXCEPT ![r] = row1] /\ holder' = r /\ UNCHANGED <<github, imported, deps>>
      /\ Acyclic(WithTargets(p, targets))
  BY DEF Begin, Valid
<1> HIDE DEF row1
<1>3. TypeOK /\ Delivered /\ Behind
  BY DEF IInv
<1>4. TypeOK'
  BY <1>1, <1>2, <1>3 DEF TypeOK, github
<1>5. Delivered' /\ Behind' /\ NoNews
  BY <1>2, <1>3, StillNoNews DEF Delivered, Behind, github
<1>6. req'[r] = row1
  BY <1>2, <1>3 DEF TypeOK
<1>7. Acyclic(WithTargets(p, targets))'
  BY <1>2 DEF WithTargets
<1>8. Locked'
  BY <1>1, <1>2, <1>6, <1>7 DEF Locked, Held, WithTargets
<1> QED
  BY <1>2, <1>4, <1>5, <1>8, RowsKept DEF IInv
-----------------------------------------------------------------------------
\* What every step of a request does to GitHub: nothing, or one edit.
Reported ==
  /\ body' \in [PR -> Bodies] /\ version' \in [PR -> Nat] /\ hooks' \subseteq Edit
  /\ Delivered' /\ Behind' /\ NoNews

LEMMA UnchangedReported == IInv /\ UNCHANGED <<github, imported>> => Reported
  BY StillNoNews DEF IInv, TypeOK, Delivered, Behind, Reported, github

LEMMA EditedReported ==
  ASSUME IInv, NEW p \in PR, NEW b \in Bodies, Edited(p, b), UNCHANGED imported
  PROVE  Reported
  BY EditedKeeps, EditedNoNews DEF IInv, Reported

(* A step of one request that leaves the rows alone and knows what it has to know.   *)
LEMMA StepKeeps ==
  ASSUME IInv, Reported, UNCHANGED <<deps, imported>>, NEW r \in Request, NEW v \in Requests,
         req' = [req EXCEPT ![r] = v], holder' \in {holder, NoRequest},
         holder' = r => Held(r)'
  PROVE  IInv'
<1>1. TypeOK /\ NoNews
  BY DEF IInv, Reported
<1>2. TypeOK'
  BY <1>1 DEF TypeOK, Reported
<1>3. Locked'
  <2> SUFFICES ASSUME NEW s \in Request, holder' = s PROVE Held(s)'
    BY DEF Locked
  <2>1. CASE s = r
    BY <2>1
  <2>2. CASE s # r
    <3>1. req'[s] = req[s]
      BY <1>1, <2>2 DEF TypeOK
    <3>2. holder = s
      BY MirrorAssumption
    <3>3. Held(s)
      BY <3>2 DEF IInv, Locked
    <3> QED
      BY <1>1, <3>1, <3>3, HeldKept
  <2> QED
    BY <2>1, <2>2
<1> QED
  BY <1>1, <1>2, <1>3, RowsKept DEF IInv, Reported

(* A request that ends gives the lock up (withRepositoryAdvisoryLock).               *)
LEMMA EndedKeeps ==
  ASSUME IInv, Reported, UNCHANGED <<deps, imported>>, NEW r \in Request, Ended(r)
  PROVE  IInv'
<1>1. req' = [req EXCEPT ![r] = Idle] /\ holder' \in {holder, NoRequest} /\ holder' # r
  BY MirrorAssumption DEF Ended
<1> QED
  BY <1>1, IdleTyped, StepKeeps

(* What a request wants closes no cycle as long as nobody else stores rows.          *)
LEMMA SameWant ==
  ASSUME IInv, NEW r \in Request, holder = r, UNCHANGED deps,
         req'[r].pr = req[r].pr, req'[r].want = req[r].want
  PROVE  Acyclic(WithTargets(req[r].pr, req[r].want))'
<1>1. Acyclic(WithTargets(req[r].pr, req[r].want))
  BY DEF IInv, Locked, Held
<1> QED
  BY <1>1 DEF WithTargets

LEMMA GetBodyKeeps ==
  ASSUME IInv, NEW r \in Request, GetBody(r)
  PROVE  IInv'
<1>1. UNCHANGED <<github, imported, deps>> /\ req[r].step = "get"
  BY DEF GetBody
<1>2. Reported /\ NoNews
  BY <1>1, UnchangedReported DEF Reported
<1>3. CASE Ended(r)
  BY <1>1, <1>2, <1>3, EndedKeeps
<1>4. CASE /\ req' = [req EXCEPT ![r].step = "patch", ![r].old = body[req[r].pr]]
           /\ UNCHANGED holder
  <2> DEFINE v == [req[r] EXCEPT !.step = "patch", !.old = body[req[r].pr]]
  <2>1. req[r] \in Requests /\ req[r].pr \in PR /\ body[req[r].pr] \in Bodies
    BY DEF IInv, TypeOK, Requests
  <2>2. /\ v \in Requests /\ v.step = "patch" /\ v.pr = req[r].pr /\ v.want = req[r].want
        /\ v.old = body[req[r].pr]
    BY <2>1 DEF Requests, Steps
  <2>3. req' = [req EXCEPT ![r] = v]
    BY <1>4
  <2> HIDE DEF v
  <2>4. req'[r] = v
    BY <2>3 DEF IInv, TypeOK
  <2>5. ASSUME holder' = r PROVE Held(r)'
    <3>1. Acyclic(WithTargets(req[r].pr, req[r].want))'
      BY <1>1, <1>4, <2>2, <2>4, <2>5, SameWant
    <3> QED
      BY <1>1, <2>2, <2>4, <3>1 DEF Held, github
  <2> QED
    BY <1>1, <1>2, <1>4, <2>2, <2>3, <2>5, StepKeeps
<1> QED
  BY <1>3, <1>4 DEF GetBody

LEMMA PatchBodyKeeps ==
  ASSUME IInv, NEW r \in Request, PatchBody(r)
  PROVE  IInv'
<1>1. UNCHANGED <<imported, deps>> /\ req[r].step = "patch"
  BY DEF PatchBody
<1>2. PICK p \in PR, want \in SUBSET PR :
        /\ p = req[r].pr /\ want = req[r].want
        /\ req[r] \in Requests /\ want \in Bodies
  BY DEF IInv, TypeOK, Requests, Bodies
<1>3. CASE Ended(r) /\ (Edited(p, want) \/ UNCHANGED github)
  <2>1. Reported
    BY <1>1, <1>2, <1>3, UnchangedReported, EditedReported
  <2> QED
    BY <1>1, <1>3, <2>1, EndedKeeps
<1>4. ASSUME NEW v \in Requests, v.step = "persist", v.pr = p, v.want = want,
             req' = [req EXCEPT ![r] = v], UNCHANGED holder, Reported,
             holder = r /\ Current(p)' => body'[p] = want
      PROVE  IInv'
  <2>1. req'[r] = v
    BY <1>4 DEF IInv, TypeOK
  <2>2. ASSUME holder' = r PROVE Held(r)'
    <3>1. Acyclic(WithTargets(req[r].pr, req[r].want))'
      BY <1>1, <1>2, <1>4, <2>1, <2>2, SameWant
    <3> QED
      BY <1>4, <2>1, <2>2, <3>1 DEF Held
  <2> QED
    BY <1>1, <1>4, <2>2, StepKeeps
<1>5. CASE /\ want = req[r].old /\ req' = [req EXCEPT ![r].step = "persist"]
           /\ UNCHANGED <<github, holder>>
  <2> DEFINE v == [req[r] EXCEPT !.step = "persist"]
  <2>1. v \in Requests /\ v.step = "persist" /\ v.pr = p /\ v.want = want
    BY <1>2 DEF Requests, Steps
  <2>2. req' = [req EXCEPT ![r] = v]
    BY <1>5
  <2> HIDE DEF v
  <2>3. Reported
    BY <1>1, <1>5, UnchangedReported
  <2>4. holder = r /\ Current(p)' => body'[p] = want
    <3> SUFFICES ASSUME holder = r, Current(p)' PROVE body[p] = want
      BY <1>5 DEF github
    <3>1. Held(r) /\ Current(p)
      BY <1>1, <1>5 DEF IInv, Locked, Current, github
    <3> QED
      BY <1>1, <1>2, <1>5, <3>1 DEF Held
  <2> QED
    BY <1>4, <1>5, <2>1, <2>2, <2>3, <2>4
<1>6. CASE /\ Edited(p, want) /\ UNCHANGED holder
           /\ req' = [req EXCEPT ![r].step = "persist", ![r].patched = TRUE]
  <2> DEFINE v == [req[r] EXCEPT !.step = "persist", !.patched = TRUE]
  <2>1. v \in Requests /\ v.step = "persist" /\ v.pr = p /\ v.want = want
    BY <1>2 DEF Requests, Steps
  <2>2. req' = [req EXCEPT ![r] = v]
    BY <1>6
  <2> HIDE DEF v
  <2>3. Reported
    BY <1>1, <1>2, <1>6, EditedReported
  <2>4. ~Current(p)'
    BY <1>1, <1>2, <1>6, EditedKeeps DEF IInv
  <2> QED
    BY <1>4, <1>6, <2>1, <2>2, <2>3, <2>4
<1> QED
  BY <1>2, <1>3, <1>5, <1>6 DEF PatchBody

(* A transaction that fails leaves its request to roll back or to end.               *)
LEMMA FailsKeeps ==
  ASSUME IInv, Reported, UNCHANGED <<deps, imported>>, NEW r \in Request,
         req[r].step = "persist", Fails(r)
  PROVE  IInv'
<1>1. CASE Ended(r)
  BY <1>1, EndedKeeps
<1>2. CASE req' = [req EXCEPT ![r].step = "rollback"] /\ UNCHANGED holder
  <2> DEFINE v == [req[r] EXCEPT !.step = "rollback"]
  <2>1. req[r] \in Requests
    BY DEF IInv, TypeOK
  <2>2. v \in Requests /\ v.step = "rollback" /\ v.pr = req[r].pr /\ v.want = req[r].want
    BY <2>1 DEF Requests, Steps
  <2>3. req' = [req EXCEPT ![r] = v]
    BY <1>2
  <2> HIDE DEF v
  <2>4. req'[r] = v
    BY <2>3 DEF IInv, TypeOK
  <2>5. ASSUME holder' = r PROVE Held(r)'
    <3>1. Acyclic(WithTargets(req[r].pr, req[r].want))'
      BY <1>2, <2>2, <2>4, <2>5, SameWant
    <3> QED
      BY <2>2, <2>4, <3>1 DEF Held
  <2> QED
    BY <1>2, <2>2, <2>3, <2>5, StepKeeps
<1> QED
  BY <1>1, <1>2 DEF Fails

(* What the holder of the lock stores closes no cycle and is what the body says, if     *)
(* the last edit of the body was imported (persistPreparedDependencyMutation).         *)
LEMMA PersistKeeps ==
  ASSUME IInv, NEW r \in Request, Persist(r)
  PROVE  IInv'
<1>1. UNCHANGED <<github, imported>> /\ req[r].step = "persist"
  BY DEF Persist
<1>2. PICK p \in PR, want \in SUBSET PR : p = req[r].pr /\ want = req[r].want /\ TypeOK
  BY DEF IInv, TypeOK, Requests
<1>3. Reported
  BY <1>1, UnchangedReported
<1>4. CASE Fails(r) /\ UNCHANGED deps
  BY <1>1, <1>3, <1>4, FailsKeeps
<1>5. CASE holder = r /\ deps' = WithTargets(p, want) /\ Ended(r)
  <2>1. Held(r)
    BY <1>5 DEF IInv, Locked
  <2>2. /\ deps' \subseteq PR \X PR /\ Targets(p)' = want
        /\ \A q \in PR \ {p} : Targets(q)' = Targets(q)
    BY <1>2, <1>5, Replaced
  <2>3. GraphStaysAcyclic'
    BY <1>2, <1>5, <2>1 DEF Held, GraphStaysAcyclic
  <2>4. MirrorAgrees'
    <3> SUFFICES ASSUME NEW q \in PR, Current(q) PROVE Targets(q)' = body[q]
      BY <1>1 DEF MirrorAgrees, Current, github
    <3>1. CASE q = p
      BY <1>1, <1>2, <2>1, <2>2, <3>1 DEF Held
    <3>2. CASE q # p
      BY <2>2, <3>2 DEF IInv, MirrorAgrees, Current
    <3> QED
      BY <3>1, <3>2
  <2>5. req' = [req EXCEPT ![r] = Idle] /\ holder' = NoRequest
    BY <1>5 DEF Ended
  <2>6. TypeOK'
    BY <1>1, <1>2, <1>3, <2>2, <2>5, IdleTyped DEF TypeOK, Reported
  <2> QED
    BY <1>3, <2>3, <2>4, <2>5, <2>6, FreeLocked DEF IInv, Reported
<1> QED
  BY <1>2, <1>4, <1>5 DEF Persist

LEMMA RollbackKeeps ==
  ASSUME IInv, NEW r \in Request, Rollback(r)
  PROVE  IInv'
<1>1. req[r].pr \in PR /\ req[r].old \in Bodies
  BY DEF IInv, TypeOK, Requests
<1>2. Ended(r) /\ UNCHANGED <<imported, deps>>
  BY DEF Rollback
<1>3. Reported
  BY <1>1, <1>2, UnchangedReported, EditedReported DEF Rollback
<1> QED
  BY <1>2, <1>3, EndedKeeps
-----------------------------------------------------------------------------
LEMMA Initially == Init => IInv
<1> SUFFICES ASSUME Init PROVE IInv
  OBVIOUS
<1>1. \A p \in PR : body[p] = {} /\ version[p] = 0 /\ Targets(p) = {}
  BY DEF Init, Targets, Prerequisites
<1>2. TypeOK
  BY IdleTyped DEF Init, TypeOK, Bodies
<1>3. Delivered /\ Behind
  BY DEF Init, Delivered, Behind
<1>4. Locked
  BY MirrorAssumption DEF Init, Locked
<1>5. GraphStaysAcyclic
  BY EmptyAcyclic DEF Init, GraphStaysAcyclic
<1>6. MirrorAgrees
  BY <1>1 DEF MirrorAgrees
<1> QED
  BY <1>2, <1>3, <1>4, <1>5, <1>6 DEF IInv

LEMMA Inductive == IInv /\ [Next]_vars => IInv'
<1> SUFFICES ASSUME IInv, [Next]_vars PROVE IInv'
  OBVIOUS
<1>1. CASE UNCHANGED vars
  BY <1>1, QuietKeeps DEF vars
<1>2. ASSUME NEW p \in PR, Merge(p) \/ Release(p) PROVE IInv'
  BY <1>2, QuietKeeps DEF Merge, Release
<1>3. ASSUME NEW p \in PR, NEW b \in Hand, HandEdit(p, b) PROVE IInv'
  BY <1>3, HandEditKeeps
<1>4. ASSUME NEW h \in hooks, Import(h) PROVE IInv'
  BY <1>4, ImportKeeps
<1>5. ASSUME NEW h \in hooks, LoseHook(h) PROVE IInv'
  BY <1>5, QuietKeeps DEF LoseHook
<1>6. ASSUME NEW r \in Request, NEW p \in PR, NEW targets \in SUBSET PR, SetDependencies(r, p, targets)
      PROVE  IInv'
  BY <1>6, BeginKeeps DEF SetDependencies
<1>7. ASSUME NEW r \in Request, NEW p \in PR, NEW q \in PR, RemoveDependency(r, p, q) PROVE IInv'
  <2>1. Targets(p) \ {q} \in SUBSET PR
    BY DEF IInv, TypeOK, Targets, Prerequisites
  <2> QED
    BY <1>7, <2>1, BeginKeeps DEF RemoveDependency
<1>8. ASSUME NEW r \in Request, RequestStep(r) PROVE IInv'
  BY <1>8, GetBodyKeeps, PatchBodyKeeps, PersistKeeps, RollbackKeeps DEF RequestStep
<1>9. ASSUME NEW r \in Request, Crash(r) PROVE IInv'
  <2>1. Ended(r) /\ UNCHANGED <<github, imported, deps>>
    BY <1>9 DEF Crash
  <2> QED
    BY <2>1, UnchangedReported, EndedKeeps
<1>10. CASE LoseLock
  BY <1>10, QuietKeeps DEF LoseLock, github
<1>11. ASSUME NEW destructive \in BOOLEAN, Reconcile(destructive) PROVE IInv'
  BY <1>11, QuietKeeps DEF Reconcile, github
<1> QED
  BY <1>1, <1>2, <1>3, <1>4, <1>5, <1>6, <1>7, <1>8, <1>9, <1>10, <1>11 DEF Next

LEMMA Invariance == Spec => []IInv
  BY Initially, Inductive, PTL DEF Spec

(* No interleaving of requests, imports and reconciliations stores a cycle, which is   *)
(* only looked for before the body is written (prepareSetDependencies).                *)
THEOREM NoCycleStored == Spec => []GraphStaysAcyclic
<1>1. IInv => GraphStaysAcyclic
  BY DEF IInv
<1> QED
  BY <1>1, Invariance, PTL

(* Once the last edit of a body was imported into rows, rows and body name the same     *)
(* prerequisites, also while a request is changing them and whatever failed before      *)
(* (mutateWithGitHubMirror, importDependenciesFromPullRequestWebhook).                  *)
THEOREM MirrorKept == Spec => []MirrorAgrees
<1>1. IInv => MirrorAgrees
  BY DEF IInv
<1> QED
  BY <1>1, Invariance, PTL
=============================================================================
