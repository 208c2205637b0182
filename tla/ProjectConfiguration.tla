------------------------ MODULE ProjectConfiguration ------------------------
(***************************************************************************)
(* The project of one repository: how users create it, change its branches *)
(* and required-check overrides and remove it (service.ts, topology.ts,    *)
(* configuration-store.ts), from the form of the settings page to the      *)
(* transaction under the repository lock, while branches move at GitHub.   *)
(* A head is a commit or NoCommit for a branch that does not exist.  No    *)
(* code ever sets the status "deleted", so a repository has at most one    *)
(* row; "none" is a repository without one.                                *)
(***************************************************************************)
EXTENDS Naturals, Sequences

CONSTANTS Client, Branch,
          Topologies,    \* [source, production] pairs that users enter
          Overrides,     \* subset of BOOLEAN: overrides that users enter
          Statuses,      \* what synchronizations end with
          MaxVersion,    \* bound on configuration versions
          MaxMoves,      \* bound on what happens at GitHub
          MaxRefusals    \* bound on errors and lost permissions

ASSUME ConfigurationAssumption ==
  /\ Topologies \subseteq [source : Branch, production : Branch] /\ Overrides \subseteq BOOLEAN
  /\ Statuses \subseteq {"active", "degraded", "disconnected"}

VARIABLES heads,     \* GitHub: the head of each branch
          past,      \* history: every state of the heads
          moves,     \* what happened at GitHub so far
          refusals,  \* errors so far
          local,     \* the stored repository and installation can be used
          project,   \* the row of projects
          audit,     \* audit_events
          requests,  \* versions and heads of the queued synchronizations
          page,      \* settings page of each client: loaded version and form
          request    \* request of each client

vars == <<heads, past, moves, refusals, local, project, audit, requests, page, request>>

\* Commit 1 is the parent of 2 and of 3.
NoCommit == 0
Commit == 1 .. 3
Related(production, source) == production = source \/ production = 1

Form(t, overrides) == [source |-> t.source, production |-> t.production, overrides |-> overrides]
Configuration(row) == Form(row, row.overrides)

NoRow == [status |-> "none", version |-> 0, source |-> "", production |-> "", overrides |-> FALSE,
          sourceHead |-> NoCommit, productionHead |-> NoCommit]
NoPage == [version |-> 0, base |-> Configuration(NoRow), form |-> Configuration(NoRow)]
NoRequest == [step |-> "none", op |-> "none", expected |-> 0, row |-> NoRow, base |-> Configuration(NoRow),
              wanted |-> Configuration(NoRow), source |-> NoCommit, production |-> NoCommit]

Init ==
  /\ heads = [b \in Branch |-> 1] /\ past = {heads}
  /\ moves = 0 /\ refusals = 0 /\ local = TRUE
  /\ project = NoRow /\ audit = <<>> /\ requests = {}
  /\ page = [c \in Client |-> NoPage] /\ request = [c \in Client |-> NoRequest]

(* The constraints of the table: no writer is refused by the database. *)
RowAllowed(row) ==
  /\ row.status \in {"initializing", "active", "degraded", "disconnected", "pending_deletion"}
  /\ row.source # row.production /\ row.version > 0
  /\ (row.sourceHead = NoCommit) = (row.productionHead = NoCommit)

TypeOK ==
  /\ heads \in [Branch -> Commit \cup {NoCommit}]
  /\ project = NoRow \/ RowAllowed(project)
  /\ project.version = Len(audit)
  /\ \A c \in Client : page[c].version <= project.version
  /\ \A c \in Client : request[c].step \in {"none", "authorize", "heads", "compare", "verify", "commit"}

-----------------------------------------------------------------------------
(* GitHub, the installation and the synchronization                        *)

MoveBranch(b, commit) ==
  /\ moves < MaxMoves /\ moves' = moves + 1
  /\ commit # heads[b]
  /\ heads' = [heads EXCEPT ![b] = commit]
  /\ past' = past \cup {heads'}
  /\ UNCHANGED <<refusals, local, project, audit, requests, page, request>>

(* A webhook suspends or restores the installation, selects or drops the    *)
(* repository.                                                              *)
InstallationChanges ==
  /\ moves < MaxMoves /\ moves' = moves + 1
  /\ local' = ~local
  /\ UNCHANGED <<heads, past, refusals, project, audit, requests, page, request>>

(* A synchronization ends. *)
Synchronize(status) ==
  /\ project.status \in {"initializing", "active", "degraded", "disconnected"} \ {status}
  /\ project' = [project EXCEPT !.status = status]
  /\ UNCHANGED <<heads, past, moves, refusals, local, audit, requests, page, request>>

-----------------------------------------------------------------------------
(* The settings page                                                       *)

(* The overview is fetched again and again; a new version resets the form. *)
Fetch(c) ==
  /\ project.status # "none" /\ page[c].version # project.version
  /\ page' = [page EXCEPT ![c] = [version |-> project.version, base |-> Configuration(project),
                                  form |-> Configuration(project)]]
  /\ UNCHANGED <<heads, past, moves, refusals, local, project, audit, requests, request>>

(* The user edits the branches or the overrides. *)
Edit(c, form) ==
  /\ page[c].version > 0 /\ request[c].step = "none" /\ form # page[c].form
  /\ page' = [page EXCEPT ![c].form = form]
  /\ UNCHANGED <<heads, past, moves, refusals, local, project, audit, requests, request>>

Send(c, r) ==
  /\ request[c].step = "none"
  /\ request' = [request EXCEPT ![c] = r]
  /\ UNCHANGED <<heads, past, moves, refusals, local, project, audit, requests, page>>

SubmitCreate(c, t) ==
  /\ t.source # t.production
  /\ Send(c, [NoRequest EXCEPT !.step = "authorize", !.op = "create", !.wanted = Form(t, FALSE)])

(* The service reads the project first and refuses another version. *)
SubmitUpdate(c) ==
  LET form == page[c].form IN
  /\ form.source # form.production
  /\ page[c].version > 0 /\ page[c].version = project.version
  /\ Send(c, [NoRequest EXCEPT !.step = "authorize", !.op = "update", !.expected = page[c].version,
                !.row = project, !.base = page[c].base, !.wanted = form])

SubmitRemove(c) ==
  /\ page[c].version > 0 /\ page[c].version = project.version
  /\ Send(c, [NoRequest EXCEPT !.step = "authorize", !.op = "remove", !.expected = page[c].version,
                !.row = project, !.base = page[c].base])

-----------------------------------------------------------------------------
(* The request                                                             *)

(* The steps of the validation after both heads are read. *)
After == [heads |-> "compare", compare |-> "verify", verify |-> "commit"]

(* A step ends the request with an error unless its condition holds. *)
Continue(c, condition, next) ==
  /\ request' = [request EXCEPT ![c] = IF condition THEN next ELSE NoRequest]
  /\ UNCHANGED <<heads, past, moves, refusals, local, project, audit, requests, page>>

Configurable(row) == row.status \in {"initializing", "active", "degraded"}

(* The user may maintain the repository (else see Refuse); a repository is  *)
(* connected once.                                                          *)
AuthorizeCreate(c) ==
  /\ request[c].step = "authorize" /\ request[c].op = "create"
  /\ Continue(c, project.status = "none", [request[c] EXCEPT !.step = "heads"])

(* New branches are validated, new overrides alone are not. *)
AuthorizeUpdate(c) ==
  LET r == request[c]
      branches == r.wanted.source # r.row.source \/ r.wanted.production # r.row.production
  IN
  /\ r.step = "authorize" /\ r.op = "update"
  /\ Continue(c, Configurable(r.row) /\ r.wanted # Configuration(r.row),
              [r EXCEPT !.step = IF branches THEN "heads" ELSE "commit"])

AuthorizeRemove(c) ==
  /\ request[c].step = "authorize" /\ request[c].op = "remove"
  /\ Continue(c, TRUE, [request[c] EXCEPT !.step = "commit"])

(* loadCommitRef, for both branches at once and in either order. *)
LoadHead(c, role) ==
  LET r == request[c]
      read == [r EXCEPT ![role] = heads[r.wanted[role]]]
  IN
  /\ r.step = "heads" /\ r[role] = NoCommit
  /\ Continue(c, read[role] # NoCommit,
              [read EXCEPT !.step = IF read.source # NoCommit /\ read.production # NoCommit
                                    THEN After.heads ELSE "heads"])

(* compareBranches *)
Compare(c) ==
  LET r == request[c] IN
  /\ r.step = "compare"
  /\ Continue(c, Related(r.production, r.source), [r EXCEPT !.step = After.compare])

(* Mutant of Verify: the fetched heads are not compared. *)
VerifyAncestorOnly(c) ==
  LET r == request[c] IN
  /\ r.step = "verify"
  /\ Continue(c, Related(r.production, r.source), [r EXCEPT !.step = "commit"])

(* withFetchedWorkspace fetches both branches at once. *)
Verify(c) ==
  LET r == request[c] IN
  /\ r.step = "verify"
  /\ Continue(c, /\ heads[r.wanted.source] = r.source
                 /\ heads[r.wanted.production] = r.production
                 /\ Related(r.production, r.source),
              [r EXCEPT !.step = After.verify])

(* A permission that was lost, an error of GitHub, of git or of the lock. *)
Refuse(c) ==
  /\ refusals < MaxRefusals /\ refusals' = refusals + 1
  /\ request[c].step # "none"
  /\ request' = [request EXCEPT ![c] = NoRequest]
  /\ UNCHANGED <<heads, past, moves, local, project, audit, requests, page>>

(* Mutant of VersionMatches: the version was compared before the validation. *)
VersionMatchedBefore(c) == project.status # "none"

(* requireProject, assertExpectedVersion *)
VersionMatches(c) == project.status # "none" /\ project.version = request[c].expected

(* assertLocalRepositoryState *)
LocallyUsable == local

Ends(c) == request' = [request EXCEPT ![c] = NoRequest]
Audited(c, event) ==
  audit' = Append(audit, [by |-> c, event |-> event, base |-> request[c].base,
                          previous |-> Configuration(project), current |-> Configuration(project')])

CommitCreate(c) ==
  LET r == request[c] IN
  /\ r.step = "commit" /\ r.op = "create"
  /\ Ends(c)
  /\ IF project.status # "none" \/ ~LocallyUsable
     THEN UNCHANGED <<project, audit, requests>>
     ELSE /\ project' = [status |-> "initializing", version |-> 1,
                         source |-> r.wanted.source, production |-> r.wanted.production,
                         overrides |-> r.wanted.overrides,
                         sourceHead |-> r.source, productionHead |-> r.production]
          /\ Audited(c, "project_created")
          /\ requests' = {[version |-> 1, source |-> r.source, production |-> r.production]}
  /\ UNCHANGED <<heads, past, moves, refusals, local, page>>

(* updateConfiguredProject *)
CommitBranches(c) ==
  LET r == request[c] IN
  /\ r.step = "commit" /\ r.op = "update" /\ r.source # NoCommit
  /\ Ends(c)
  /\ IF ~(VersionMatches(c) /\ Configurable(project) /\ LocallyUsable)
     THEN UNCHANGED <<project, audit, requests>>
     ELSE /\ project.version < MaxVersion
          /\ project' = [status |-> "initializing", version |-> project.version + 1,
                         source |-> r.wanted.source, production |-> r.wanted.production,
                         overrides |-> r.wanted.overrides,
                         sourceHead |-> r.source, productionHead |-> r.production]
          /\ Audited(c, "project_configuration_changed")
          /\ requests' = requests \cup
               {[version |-> project'.version, source |-> r.source, production |-> r.production]}
  /\ UNCHANGED <<heads, past, moves, refusals, local, page>>

(* updateProjectRequiredCheckOverrides; an unfinished synchronization is    *)
(* replaced by one of the new version.                                      *)
CommitOverrides(c) ==
  LET r == request[c] IN
  /\ r.step = "commit" /\ r.op = "update" /\ r.source = NoCommit
  /\ Ends(c)
  /\ IF ~(VersionMatches(c) /\ (Configurable(project) \/ project.status = "disconnected"))
     THEN UNCHANGED <<project, audit, requests>>
     ELSE /\ project.version < MaxVersion
          /\ project' = [project EXCEPT !.version = @ + 1, !.overrides = r.wanted.overrides]
          /\ Audited(c, "project_required_check_overrides_changed")
          /\ requests' \in
               {requests, {[version |-> project'.version, source |-> project.sourceHead,
                            production |-> project.productionHead]}}
  /\ UNCHANGED <<heads, past, moves, refusals, local, page>>

(* requestProjectDeletion cancels the unfinished synchronizations. *)
CommitRemove(c) ==
  LET r == request[c] IN
  /\ r.step = "commit" /\ r.op = "remove"
  /\ Ends(c)
  /\ IF ~VersionMatches(c) \/ project.status = "pending_deletion"
     THEN UNCHANGED <<project, audit, requests>>
     ELSE /\ project.version < MaxVersion
          /\ project' = [project EXCEPT !.status = "pending_deletion", !.version = @ + 1]
          /\ Audited(c, "project_deletion_requested")
          /\ requests' = {}
  /\ UNCHANGED <<heads, past, moves, refusals, local, page>>

-----------------------------------------------------------------------------
Page(c) ==
  \/ Fetch(c)
  \/ \E t \in Topologies, overrides \in Overrides : Edit(c, Form(t, overrides))
  \/ \E t \in Topologies : SubmitCreate(c, t)
  \/ SubmitUpdate(c)
  \/ SubmitRemove(c)

Service(c) ==
  \/ AuthorizeCreate(c) \/ AuthorizeUpdate(c) \/ AuthorizeRemove(c)
  \/ LoadHead(c, "source")
  \/ LoadHead(c, "production")
  \/ Compare(c)
  \/ Verify(c)
  \/ Refuse(c)

Transaction(c) == CommitCreate(c) \/ CommitBranches(c) \/ CommitOverrides(c) \/ CommitRemove(c)

Next ==
  \/ \E b \in Branch, commit \in Commit \cup {NoCommit} : MoveBranch(b, commit)
  \/ InstallationChanges
  \/ \E status \in Statuses : Synchronize(status)
  \/ \E c \in Client : Page(c) \/ Service(c) \/ Transaction(c)

Spec == Init /\ [][Next]_vars

-----------------------------------------------------------------------------
(* Properties                                                              *)

(* The two heads of a configured project, which are read one after the      *)
(* other while branches move, once were the heads of its branches at the    *)
(* same time, and production was an ancestor of source.                     *)
HeadsCoexisted ==
  project.status # "none" =>
    /\ Related(project.productionHead, project.sourceHead)
    /\ \E h \in past : /\ h[project.source] = project.sourceHead
                       /\ h[project.production] = project.productionHead

(* Two people change the settings at once: every change that is accepted    *)
(* was edited from the configuration it replaces, so that nobody's change   *)
(* is overwritten unseen.                                                   *)
NothingOverwritten ==
  \A i \in DOMAIN audit : audit[i].event # "project_created" => audit[i].base = audit[i].previous

(* Of several unfinished requests none changes a project whose removal was  *)
(* requested meanwhile, and none queues a synchronization of it.            *)
RemovalStands == [][project.status = "pending_deletion" => UNCHANGED <<project, requests>>]_vars

(* The row keeps its constraints, and the settings of all users and their   *)
(* removal stand.                                                           *)
ConfigurationStands == [](TypeOK /\ NothingOverwritten) /\ RemovalStands
=============================================================================
