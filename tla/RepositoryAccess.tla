---------------------------- MODULE RepositoryAccess ----------------------------
(***************************************************************************)
(* Whether a user may use a repository: the rows of the installation, the  *)
(* cache of each process, the reconciliations that ask GitHub, and the     *)
(* webhooks that change the rows meanwhile.  One user, one installation    *)
(* and one repository; the App's own permissions suffice.                  *)
(*                                                                         *)
(* A reconciliation is current until its process invalidates the user or   *)
(* the installation, which stands for the generations it captured; it is   *)
(* listed while later requests of its process join it.                     *)
(***************************************************************************)
EXTENDS Integers, FiniteSets

CONSTANTS Process,    \* processes that answer requests
          Reconciliation, \* reconciliations that can run at once
          NoProcess,
          Ttl,        \* cacheTtlMs
          MaxTime,    \* bound on the clock
          MaxChanges, \* bound on the changes at GitHub
          MaxFaults,  \* bound on lost webhooks, errors and invalidations
          Change      \* what changes at GitHub, of AllChanges

AllChanges == {"suspend", "unsuspend", "deleted", "added", "removed", "permission"}

ASSUME AccessAssumption ==
  /\ Ttl \in Nat \ {0} /\ MaxTime \in Nat /\ MaxChanges \in Nat /\ MaxFaults \in Nat
  /\ Change \subseteq AllChanges /\ NoProcess \notin Process

VARIABLES github,   \* the installation, the repository's selection, the user's permission
          hooks,    \* events that are not processed yet
          row,      \* github_installations
          repo,     \* whether github_installation_repositories has the repository
          member,   \* whether github_user_installations has the user
          cache,    \* #entries, by process: a set of at most one entry
          rec,      \* the reconciliations
          now,      \* the clock; no two webhooks share an instant
          until,    \* history: when each condition of an access last held
          hookAt,   \* history: when a webhook last changed the lifecycle
          changes, faults

vars == <<github, hooks, row, repo, member, cache, rec, now, until, hookAt,
          changes, faults>>
rows == <<row, repo, member>>
outside == <<github, hooks, now, until, hookAt, changes>>
-----------------------------------------------------------------------------
GitHub == [inst : {"active", "suspended", "deleted"}, repo : BOOLEAN,
           user : {"read", "none", "outsider"}]
Time == 0 .. MaxTime
Entry == [state : {"current", "suspended", "revoked", "inaccessible"}, selected : BOOLEAN,
          permission : {"read", "none", "outsider"}, at : Time, current : BOOLEAN,
          by : {"reconciliation", "request"}]
Steps == {"idle", "metadata", "accept", "persistMetadata", "repositories", "user",
          "acceptAll", "persist", "remove", "revoke", "stale", "prune", "answer"}
Working == [step : Steps, proc : Process \cup {NoProcess}, current : BOOLEAN, listed : BOOLEAN,
            login : BOOLEAN, asked : BOOLEAN, at : Time, seen : GitHub]

Idle == [step |-> "idle", proc |-> NoProcess, current |-> FALSE, listed |-> FALSE,
         login |-> FALSE, asked |-> FALSE, at |-> 0,
         seen |-> [inst |-> "active", repo |-> FALSE, user |-> "none"]]

To(r, step) == rec' = [rec EXCEPT ![r].step = step]

Ends(r) == rec' = [rec EXCEPT ![r] = Idle]
Fault == faults < MaxFaults /\ faults' = faults + 1

\* The conditions of an access, and when each held last.
Holds == [inst |-> github.inst = "active", repo |-> github.repo, user |-> github.user = "read"]
Condition == {"inst", "repo", "user"}
LastHeld(c) == IF Holds[c] THEN now ELSE until[c]

Falls == [c \in Condition |-> IF Holds[c]' THEN 0 ELSE LastHeld(c)]
-----------------------------------------------------------------------------
(* GitHub and its webhooks *)

After(change) ==
  CASE change = "suspend" /\ github.inst = "active" -> {[github EXCEPT !.inst = "suspended"]}
    [] change = "unsuspend" /\ github.inst = "suspended" -> {[github EXCEPT !.inst = "active"]}
    [] change = "deleted" /\ github.inst # "deleted" ->
         {[inst |-> "deleted", repo |-> FALSE, user |-> "outsider"]}
    [] change = "added" /\ github.inst = "active" /\ ~github.repo -> {[github EXCEPT !.repo = TRUE]}
    [] change = "removed" /\ github.inst = "active" /\ github.repo -> {[github EXCEPT !.repo = FALSE]}
    [] change = "permission" /\ github.inst = "active" ->
         {[github EXCEPT !.user = u] : u \in {"read", "none", "outsider"} \ {github.user}}
    [] OTHER -> {}

\* A change of the user's permission sends no webhook the App listens to.
GitHubChanges(change) ==
  /\ changes < MaxChanges /\ changes' = changes + 1
  /\ github' \in After(change)
  /\ hooks' = IF change = "permission" THEN hooks
              ELSE hooks \cup {[kind |-> change, suspended |-> github'.inst = "suspended"]}
  /\ until' = Falls
  /\ UNCHANGED <<rows, cache, rec, now, hookAt, faults>>

\* processGitHubWebhookDelivery, as far as the rows decide on an access.
Lifecycle(h) ==
  CASE h.kind = "suspend" -> "suspended"
    [] h.kind = "unsuspend" -> IF h.suspended THEN "suspended" ELSE "active"
    [] h.kind = "deleted" -> "pending_deletion"
    [] OTHER -> row.life

Permission(h) ==
  CASE h.kind = "suspend" -> "suspended"
    [] h.kind = "unsuspend" -> IF h.suspended THEN "suspended" ELSE "stale"
    [] h.kind = "deleted" -> "revoked"
    [] OTHER -> row.perm

Webhook(h) ==
  /\ h \in hooks /\ now < MaxTime /\ now' = now + 1
  /\ hooks' = hooks \ {h}
  /\ UNCHANGED until
  /\ IF h.kind \in {"added", "removed"}
     THEN UNCHANGED <<row, hookAt>>
     ELSE /\ row' = [life |-> Lifecycle(h), perm |-> Permission(h), at |-> now']
          /\ hookAt' = now'
  /\ repo' = (IF h.kind \in {"added", "removed", "deleted"} THEN h.kind = "added" ELSE repo)
  /\ UNCHANGED <<github, member, cache, rec, changes, faults>>

LoseWebhook(h) ==
  /\ h \in hooks /\ Fault
  /\ hooks' = hooks \ {h}
  /\ UNCHANGED <<github, rows, cache, rec, now, until, hookAt, changes>>

Tick ==
  /\ now < MaxTime /\ now' = now + 1
  /\ UNCHANGED until
  /\ UNCHANGED <<github, hooks, rows, cache, rec, hookAt, changes, faults>>
-----------------------------------------------------------------------------
(* The cache *)

\* Mutant of Fresh: an entry never expires.
FreshForever(p) == cache[p]

\* get: an entry that has expired is not an answer.
Fresh(p) == {e \in cache[p] : now < e.at + Ttl}

\* createRepositoryAccessDecision
Allows(e) == e.state = "current" /\ e.selected /\ e.permission = "read"

\* invalidateUser and invalidateInstallation, with one of each.
Forget(p, recs) ==
  [r \in Reconciliation |-> IF recs[r].proc = p
                            THEN [recs[r] EXCEPT !.current = FALSE, !.listed = FALSE]
                            ELSE recs[r]]

\* A client that gets 401 or 403 somewhere: onAccessFailure.
Invalidate(p) ==
  /\ cache[p] # {} \/ \E r \in Reconciliation : rec[r].proc = p /\ rec[r].current
  /\ Fault
  /\ cache' = [cache EXCEPT ![p] = {}]
  /\ rec' = Forget(p, rec)
  /\ UNCHANGED <<outside, rows>>
-----------------------------------------------------------------------------
(* authorizeRepositoryAccess *)

LocallyDenied ==
  \/ row.life = "suspended" \/ row.perm = "suspended"
  \/ row.life = "pending_deletion" \/ row.perm = "revoked"
  \/ ~member \/ ~repo

DenyLocally(p) ==
  /\ LocallyDenied
  /\ cache[p] # {}
  /\ cache' = [cache EXCEPT ![p] = {}]
  /\ UNCHANGED <<outside, rows, rec, faults>>

\* What a request is told without another reconciliation: its cached decision.
Admitted(p) == ~LocallyDenied /\ \E e \in Fresh(p) : Allows(e)

\* #reconcileInstallation, when there is none to join.
Begun(recs, r, p, login) ==
  [recs EXCEPT ![r] = [Idle EXCEPT !.step = "metadata", !.proc = p, !.current = TRUE,
                                   !.listed = TRUE, !.login = login, !.asked = ~login,
                                   !.at = now]]
Joinable(p) == {q \in Reconciliation : rec[q].proc = p /\ rec[q].listed}

Start(r, p) ==
  IF Joinable(p) # {}
  THEN r \in Joinable(p) /\ rec' = [rec EXCEPT ![r].asked = TRUE]
  ELSE rec[r].step = "idle" /\ rec' = Begun(rec, r, p, FALSE)

\* A request that finds no answer in the cache joins a reconciliation or starts one.
Ask(r, p) ==
  /\ ~LocallyDenied /\ Fresh(p) = {}
  /\ Start(r, p)
  /\ cache' = [cache EXCEPT ![p] = {}]
  /\ UNCHANGED <<outside, rows, faults>>

\* A request whose user has no client fails before it reconciles anything.
AskFails(r, p) ==
  /\ ~LocallyDenied /\ Fresh(p) = {} /\ Fault
  /\ rec[r].step = "idle"
  /\ cache' = [cache EXCEPT ![p] = {}]
  /\ rec' = [Forget(p, rec) EXCEPT ![r] = [Idle EXCEPT !.step = "stale", !.proc = p, !.at = now]]
  /\ UNCHANGED <<outside, rows>>

\* reconcileUserInstallations after a login or a look at the connection: the user
\* is invalidated first, so that an earlier reconciliation is not joined.
ReconcileLogin(r, p) ==
  /\ github.inst # "deleted" /\ github.user # "outsider"
  /\ rec[r].step = "idle"
  /\ cache' = [cache EXCEPT ![p] = {}]
  /\ rec' = Begun(Forget(p, rec), r, p, TRUE)
  /\ UNCHANGED <<outside, rows, faults>>

\* GitHub does not list the installation for the user.
PruneUnlisted ==
  /\ github.inst = "deleted" \/ github.user = "outsider"
  /\ member' = FALSE
  /\ UNCHANGED <<outside, row, repo, cache, rec, faults>>
-----------------------------------------------------------------------------
(* #performReconciliation *)

\* #throwVerificationFailure: the process forgets, then the row is marked as stale.
Fails(r) ==
  /\ cache' = [cache EXCEPT ![rec[r].proc] = {}]
  /\ rec' = [Forget(rec[r].proc, rec) EXCEPT ![r].step = "stale"]

\* #assertReconciliationCurrent
GoesOn(r, next) == IF rec[r].current THEN rec' = next ELSE Ends(r)

\* GitHub answers: a step takes what it sees, an error fails the verification.
FetchMetadata(r) ==
  /\ rec[r].step = "metadata"
  /\ \/ /\ GoesOn(r, [rec EXCEPT ![r] =
               [@ EXCEPT !.step = IF github.inst = "deleted" THEN "revoke" ELSE "accept",
                         !.seen.inst = github.inst]])
        /\ UNCHANGED <<cache, faults>>
     \/ Fault /\ Fails(r)
  /\ UNCHANGED <<outside, rows>>

FetchRepositories(r) ==
  /\ rec[r].step = "repositories"
  /\ \/ /\ GoesOn(r, [rec EXCEPT ![r] =
               [@ EXCEPT !.step = IF github.inst = "deleted" THEN "revoke" ELSE "user",
                         !.seen.repo = github.repo]])
        /\ UNCHANGED <<cache, faults>>
     \/ Fault /\ Fails(r)
  /\ UNCHANGED <<outside, rows>>

FetchUserRepositories(r) ==
  /\ rec[r].step = "user"
  /\ \/ /\ GoesOn(r, [rec EXCEPT ![r] = [@ EXCEPT !.step = "acceptAll",
                                               !.seen.user = github.user]])
        /\ UNCHANGED <<cache, faults>>
     \/ Fault /\ Fails(r)
  /\ UNCHANGED <<outside, rows>>

\* #assertInstallationAcceptsReconciliation
Accept(r) ==
  /\ rec[r].step \in {"accept", "acceptAll"}
  /\ IF row.life = "pending_deletion" THEN Ends(r)
     ELSE To(r, IF rec[r].step = "accept" THEN "persistMetadata" ELSE "persist")
  /\ UNCHANGED <<outside, rows, cache, faults>>

\* Mutant of Replaceable: only the check before the transaction guards a deletion.
ReplaceableDeleted(r) == row.at <= rec[r].at

\* The conflict clause: neither a deletion nor a later change is overwritten.
Replaceable(r) == row.life # "pending_deletion" /\ row.at <= rec[r].at

Replace(r, perm) ==
  row' = [life |-> IF rec[r].seen.inst = "suspended" THEN "suspended" ELSE "active",
          perm |-> perm, at |-> rec[r].at]

\* primeSnapshot: without a requested repository, only selected ones are written.
Entries(r, state, requested) ==
  IF requested \/ rec[r].seen.repo
  THEN {[state |-> state, selected |-> rec[r].seen.repo,
         permission |-> IF rec[r].seen.repo THEN rec[r].seen.user ELSE "none",
         at |-> rec[r].at, current |-> rec[r].current, by |-> "reconciliation"]}
  ELSE {}

\* Mutant of Prime: the generations are not compared once more.
PrimeAnyway(r, state) == cache' = [cache EXCEPT ![rec[r].proc] = Entries(r, state, ~rec[r].login)]

\* The process caches what it has verified.
Prime(r, state) ==
  cache' = IF rec[r].current THEN [cache EXCEPT ![rec[r].proc] = Entries(r, state, ~rec[r].login)] ELSE cache

\* The outcome is returned to the requests that wait; later ones do not join.
Verified(r) ==
  IF rec[r].current /\ rec[r].asked
  THEN rec' = [rec EXCEPT ![r] = [@ EXCEPT !.step = "answer", !.listed = FALSE]]
  ELSE Ends(r)

\* A waiting request caches the outcome if it does not find its entry, which another
\* of the process may have invalidated in between: the generations are not compared.
Answer(r) ==
  /\ rec[r].step = "answer"
  /\ cache' = IF Fresh(rec[r].proc) # {} THEN cache
              ELSE [cache EXCEPT ![rec[r].proc] =
                     {[e EXCEPT !.by = "request"] :
                        e \in Entries(r, IF rec[r].seen.inst = "suspended" THEN "suspended"
                                         ELSE "current", TRUE)}]
  /\ Ends(r)
  /\ UNCHANGED <<outside, rows, faults>>

PersistMetadata(r) ==
  /\ rec[r].step = "persistMetadata"
  /\ IF Replaceable(r)
     THEN /\ Replace(r, IF rec[r].seen.inst = "suspended" THEN "suspended" ELSE "stale")
          /\ member' = TRUE
          /\ IF rec[r].seen.inst = "suspended"
             THEN Prime(r, "suspended") /\ Verified(r)
             ELSE /\ GoesOn(r, [rec EXCEPT ![r].step = "repositories"])
                  /\ UNCHANGED <<cache>>
     ELSE Fails(r) /\ UNCHANGED <<row, member>>
  /\ UNCHANGED <<outside, repo, faults>>

Persist(r) ==
  /\ rec[r].step = "persist"
  /\ IF Replaceable(r)
     THEN /\ Replace(r, "current")
          /\ repo' = rec[r].seen.repo
          /\ member' = TRUE
          /\ IF rec[r].seen.user = "outsider"
             THEN To(r, "remove") /\ UNCHANGED <<cache>>
             ELSE Prime(r, "current") /\ Verified(r)
     ELSE Fails(r) /\ UNCHANGED <<rows>>
  /\ UNCHANGED <<outside, faults>>

\* removeGitHubUserInstallationAccess
Remove(r) ==
  /\ rec[r].step = "remove"
  /\ member' = FALSE
  /\ Prime(r, "inaccessible")
  /\ IF rec[r].login /\ rec[r].current THEN To(r, "prune") ELSE Ends(r)
  /\ UNCHANGED <<outside, row, repo, faults>>

\* #markRevoked: the generations are compared before the row is written and not again,
\* so that a reconciliation invalidated meanwhile caches its denial.
Revoke(r) ==
  /\ rec[r].step = "revoke"
  /\ row' = [row EXCEPT !.perm = "revoked", !.at = rec[r].at]
  /\ cache' = [cache EXCEPT ![rec[r].proc] =
                 IF rec[r].login THEN {}
                 ELSE {[state |-> "revoked", selected |-> FALSE, permission |-> "none",
                        at |-> rec[r].at, current |-> rec[r].current, by |-> "reconciliation"]}]
  /\ IF rec[r].login THEN To(r, "prune") ELSE Ends(r)
  /\ UNCHANGED <<outside, repo, member, faults>>

\* The installations that were not reconciled are taken from the user.
Prune(r) ==
  /\ rec[r].step = "prune"
  /\ member' = FALSE
  /\ Ends(r)
  /\ UNCHANGED <<outside, row, repo, cache, faults>>

\* The end of #throwVerificationFailure, whatever has changed the row meanwhile.
MarkStale(r) ==
  /\ rec[r].step = "stale"
  /\ row' = [row EXCEPT !.perm = "stale", !.at = rec[r].at]
  /\ Ends(r)
  /\ UNCHANGED <<outside, repo, member, cache, faults>>
-----------------------------------------------------------------------------
\* A user who was given access to the repository, with the installation active or
\* suspended by now.
Init ==
  /\ \E life \in {"active", "suspended"} :
       /\ github = [inst |-> life, repo |-> TRUE, user |-> "read"]
       /\ row = [life |-> life, at |-> 0,
                 perm |-> IF life = "active" THEN "current" ELSE "suspended"]
  /\ hooks = {}
  /\ repo = TRUE /\ member = TRUE
  /\ cache = [p \in Process |-> {}]
  /\ rec = [r \in Reconciliation |-> Idle]
  /\ now = 0
  /\ until = [c \in Condition |-> 0] /\ hookAt = 0
  /\ changes = 0 /\ faults = 0

Reconciles(r) ==
  \/ FetchMetadata(r) \/ Accept(r) \/ PersistMetadata(r) \/ FetchRepositories(r)
  \/ FetchUserRepositories(r) \/ Persist(r) \/ Remove(r) \/ Revoke(r) \/ Prune(r)
  \/ MarkStale(r) \/ Answer(r)

Next ==
  \/ \E r \in Reconciliation : Reconciles(r)
  \/ \E r \in Reconciliation, p \in Process : Ask(r, p) \/ AskFails(r, p) \/ ReconcileLogin(r, p)
  \/ \E p \in Process : DenyLocally(p) \/ Invalidate(p)
  \/ PruneUnlisted
  \/ \E change \in Change : GitHubChanges(change)
  \/ \E h \in hooks : Webhook(h) \/ LoseWebhook(h)
  \/ Tick

Spec == Init /\ [][Next]_vars
-----------------------------------------------------------------------------
(* Properties *)

\* Every row, entry and reconciliation keeps its type; what has ended is not joined.
TypeOK ==
  /\ github \in GitHub
  /\ hooks \subseteq [kind : AllChanges, suspended : BOOLEAN]
  /\ row \in [life : {"active", "suspended", "pending_deletion"},
              perm : {"current", "stale", "suspended", "revoked"}, at : Time]
  /\ repo \in BOOLEAN /\ member \in BOOLEAN
  /\ cache \in [Process -> SUBSET Entry] /\ \A p \in Process : Cardinality(cache[p]) <= 1
  /\ rec \in [Reconciliation -> Working]
  /\ \A r \in Reconciliation : rec[r].listed => rec[r].step # "idle"
  /\ now \in Time /\ until \in [Condition -> Time] /\ hookAt \in Time
  /\ changes \in 0 .. MaxChanges /\ faults \in 0 .. MaxFaults

\* A request is admitted from the cache only if, within the time to live, GitHub had
\* the installation active, the repository selected and the user permitted.
AllowedIsRecent ==
  \A p \in Process : Admitted(p) => \A c \in Condition : now - LastHeld(c) < Ttl

\* A reconciliation that was invalidated while it was being verified resurrects no access
\* and no other answer: all that it can still cache is that the installation is gone,
\* which GitHub does not take back (#assertReconciliationCurrent, #markRevoked).
InvalidatedOnlyRevokes ==
  \A p \in Process : \A e \in cache[p] : e.by = "reconciliation" /\ ~e.current =>
    e.state = "revoked" /\ github.inst = "deleted"

\* A process runs at most one reconciliation that later requests can join.
OneListed ==
  \A q, r \in Reconciliation :
    rec[q].listed /\ rec[r].listed /\ rec[q].proc = rec[r].proc => q = r

\* Every row has its type, and what requests share is one reconciliation, which caches no
\* more than a deletion once it was invalidated (#reconcileInstallation).
SharedHonestly == TypeOK /\ OneListed /\ InvalidatedOnlyRevokes

\* No reconciliation revives an installation that a webhook has marked for deletion.
DeletionStands ==
  [][row.life = "pending_deletion" /\ hooks' = hooks => row'.life = "pending_deletion"]_vars

\* A reconciliation never overwrites a lifecycle that a webhook has changed after the
\* reconciliation began.
NewerLifecycleStands ==
  [][\A r \in Reconciliation :
       rec[r].step \in {"persistMetadata", "persist"} /\ rec'[r].step # rec[r].step
         /\ row'.life # row.life => rec[r].at >= hookAt]_vars
=============================================================================
