---------------------------- MODULE Project_proofs ----------------------------
(***************************************************************************)
(* The settings of a project, for any number of users, branches and        *)
(* overrides and however long they go on: nobody's change is overwritten   *)
(* unseen, a removal stands, and the stored heads once existed together.   *)
(* Its history, for any pull requests, source branches and bounds: no QA   *)
(* decision outlives a rewrite, and reconciliations settle.                *)
(***************************************************************************)
EXTENDS Project, SequenceTheorems, FiniteSetTheorems, WellFoundedInduction, TLAPS

Name == Branch \cup {""}
MaybeCommit == Commit \cup {NoCommit}
Settings == [source : Name, production : Name, overrides : BOOLEAN]
Status == {"none", "initializing", "active", "degraded", "disconnected", "pending_deletion"}
Configured == [status : Status, version : Nat, source : Name, production : Name,
            overrides : BOOLEAN, sourceHead : MaybeCommit, productionHead : MaybeCommit]
LoadedPage == [version : Nat, base : Settings, form : Settings]
Step == {"none", "authorize", "heads", "compare", "verify", "commit"}
Request == [step : Step, op : {"none", "create", "update", "remove"}, expected : Nat,
            row : Configured, base : Settings, wanted : Settings,
            source : MaybeCommit, production : MaybeCommit]
Entry == [by : Client,
          event : {"project_created", "project_configuration_changed",
                   "project_required_check_overrides_changed", "project_deletion_requested"},
          base : Settings, previous : Settings, current : Settings]

(* The heads s and p of the branches of t once existed together.                      *)
Coexisted(t, s, p, h) ==
  /\ s # NoCommit /\ p # NoCommit /\ Related(p, s)
  /\ \E x \in h : x[t.source] = s /\ x[t.production] = p

Named(t) == t.source \in Branch /\ t.production \in Branch

RowOK(row, h) ==
  /\ row \in Configured
  /\ \/ row = NoRow
     \/ /\ RowAllowed(row) /\ Named(row)
        /\ Coexisted(row, row.sourceHead, row.productionHead, h)

(* A form that was loaded from the current version shows the current settings.        *)
PageOK(g, row) ==
  /\ g \in LoadedPage /\ g.version <= row.version
  /\ g.version > 0 => Named(g.form)
  /\ g.version > 0 /\ g.version = row.version => g.base = Configuration(row)

(* So does a request that expects it; one that stores heads has verified them.        *)
RequestOK(r, row, h) ==
  /\ r \in Request
  /\ r.step # "none" => r.op \in {"create", "update", "remove"}
  /\ r.step # "none" /\ r.op \in {"create", "update"} =>
       Named(r.wanted) /\ r.wanted.source # r.wanted.production
  /\ r.step = "authorize" => r.source = NoCommit
  /\ r.step \in {"heads", "compare", "verify"} => r.op \in {"create", "update"}
  /\ r.step \in {"compare", "verify"} => r.source # NoCommit /\ r.production # NoCommit
  /\ r.step = "commit" /\ (r.op = "create" \/ r.source # NoCommit) =>
       Coexisted(r.wanted, r.source, r.production, h)
  /\ r.step # "none" /\ r.op \in {"update", "remove"} =>
       /\ 0 < r.expected /\ r.expected <= row.version
       /\ r.expected = row.version => r.base = Configuration(row)

AuditOK(entries, row) ==
  /\ entries \in Seq(Entry) /\ Len(entries) = row.version
  /\ \A i \in DOMAIN entries :
       entries[i].event # "project_created" => entries[i].base = entries[i].previous

IInv ==
  /\ heads \in [Branch -> MaybeCommit] /\ past \subseteq [Branch -> MaybeCommit]
  /\ heads \in past
  /\ RowOK(project, past)
  /\ page \in [Client -> LoadedPage] /\ \A c \in Client : PageOK(page[c], project)
  /\ request \in [Client -> Request] /\ \A c \in Client : RequestOK(request[c], project, past)
  /\ AuditOK(audit, project)
-----------------------------------------------------------------------------
LEMMA Records ==
  /\ NoRow \in Configured /\ NoPage \in LoadedPage /\ NoRequest \in Request
  /\ NoRequest.step = "none" /\ NoRequest.source = NoCommit /\ NoRow.version = 0
  /\ NoRow.status = "none" /\ NoPage.version = 0
  BY DEF NoRow, NoPage, NoRequest, Configured, LoadedPage, Request, Settings, Status, Step, Name,
         MaybeCommit, NoCommit, Configuration, Form

LEMMA FormType ==
  ASSUME NEW t \in Topologies, NEW o \in BOOLEAN
  PROVE  Form(t, o) \in Settings /\ Form(t, o).source = t.source
         /\ Form(t, o).production = t.production /\ Named(Form(t, o))
  BY ConfigurationAssumption DEF Form, Settings, Name, Named

LEMMA ConfigurationType ==
  ASSUME NEW row \in Configured
  PROVE  /\ Configuration(row) \in Settings
         /\ Configuration(row).source = row.source
         /\ Configuration(row).production = row.production
         /\ Configuration(row).overrides = row.overrides
  BY DEF Configuration, Form, Settings, Configured

LEMMA NoRequestOK ==
  ASSUME NEW row, NEW h
  PROVE  RequestOK(NoRequest, row, h)
  BY Records DEF RequestOK

(* The history of GitHub only grows.                                                  *)
LEMMA MoreHistory ==
  ASSUME NEW h, NEW more, h \subseteq more, NEW row, NEW r, NEW other
  PROVE  /\ RowOK(row, h) => RowOK(row, more)
         /\ RequestOK(r, other, h) => RequestOK(r, other, more)
  BY DEF RowOK, RequestOK, Coexisted

(* A row of another version leaves the forms and requests behind.                     *)
LEMMA NewVersion ==
  ASSUME NEW row \in Configured, NEW next \in Configured, next.version = row.version + 1, NEW h,
         NEW g, NEW r
  PROVE  /\ PageOK(g, row) => PageOK(g, next)
         /\ RequestOK(r, row, h) => RequestOK(r, next, h)
<1>1. row.version \in Nat /\ next.version \in Nat
  BY DEF Configured
<1>2. PageOK(g, row) => PageOK(g, next)
  BY <1>1 DEF PageOK, LoadedPage
<1>3. RequestOK(r, row, h) => RequestOK(r, next, h)
  BY <1>1 DEF RequestOK, Request
<1> QED
  BY <1>2, <1>3

LEMMA SameVersion ==
  ASSUME NEW row, NEW next, next.version = row.version, Configuration(next) = Configuration(row),
         NEW h, NEW g, NEW r
  PROVE  /\ PageOK(g, row) => PageOK(g, next)
         /\ RequestOK(r, row, h) => RequestOK(r, next, h)
  BY DEF PageOK, RequestOK

(* One request is replaced.                                                           *)
LEMMA Replaced ==
  ASSUME IInv, NEW c \in Client, NEW r, RequestOK(r, project, past),
         request' = [request EXCEPT ![c] = r],
         UNCHANGED <<heads, past, project, audit, page>>
  PROVE  IInv'
<1>1. r \in Request
  BY DEF RequestOK
<1> QED
  BY <1>1 DEF IInv

LEMMA Continued ==
  ASSUME IInv, NEW c \in Client, NEW condition \in BOOLEAN, NEW next,
         condition => RequestOK(next, project, past), Continue(c, condition, next)
  PROVE  IInv'
<1>1. RequestOK(IF condition THEN next ELSE NoRequest, project, past)
  BY NoRequestOK
<1> QED
  BY <1>1, Replaced DEF Continue
-----------------------------------------------------------------------------
LEMMA InitGood == Init => IInv
<1> SUFFICES ASSUME Init PROVE IInv
  OBVIOUS
<1>1. heads \in [Branch -> MaybeCommit] /\ past = {heads}
  BY DEF Init, MaybeCommit, Commit
<1>2. RowOK(project, past)
  BY Records DEF Init, RowOK
<1>3. page \in [Client -> LoadedPage] /\ \A c \in Client : PageOK(page[c], project)
  BY Records DEF Init, PageOK
<1>4. request \in [Client -> Request] /\ \A c \in Client : RequestOK(request[c], project, past)
  BY Records, NoRequestOK DEF Init
<1>5. AuditOK(audit, project)
  BY Records DEF Init, AuditOK
<1> QED
  BY <1>1, <1>2, <1>3, <1>4, <1>5 DEF IInv

(* GitHub and the synchronization.                                                    *)
LEMMA OutsideKeeps ==
  ASSUME IInv,
         \/ \E b \in Branch, commit \in Commit \cup {NoCommit} : MoveBranch(b, commit)
         \/ InstallationChanges
         \/ \E status \in Statuses : Synchronize(status)
  PROVE  IInv'
<1>1. ASSUME NEW b \in Branch, NEW commit \in Commit \cup {NoCommit}, MoveBranch(b, commit)
      PROVE  IInv'
  <2>1. /\ heads' = [heads EXCEPT ![b] = commit] /\ past' = past \cup {heads'}
        /\ UNCHANGED <<project, audit, page, request>>
    BY <1>1 DEF MoveBranch
  <2>2. heads' \in [Branch -> MaybeCommit]
    BY <2>1 DEF IInv, MaybeCommit
  <2>3. /\ RowOK(project, past')
        /\ \A c \in Client : RequestOK(request[c], project, past')
    BY <2>1, MoreHistory DEF IInv
  <2> QED
    BY <2>1, <2>2, <2>3 DEF IInv
<1>2. CASE InstallationChanges
  BY <1>2 DEF InstallationChanges, IInv
<1>3. ASSUME NEW status \in Statuses, Synchronize(status) PROVE IInv'
  <2>1. /\ project.status # "none" /\ project' = [project EXCEPT !.status = status]
        /\ UNCHANGED <<heads, past, audit, page, request>>
    BY <1>3, ConfigurationAssumption DEF Synchronize
  <2>2. project \in Configured /\ RowAllowed(project) /\ Named(project)
        /\ Coexisted(project, project.sourceHead, project.productionHead, past)
    BY <2>1, Records DEF IInv, RowOK
  <2>3. /\ project' \in Configured /\ project'.status = status
        /\ project'.version = project.version /\ project'.source = project.source
        /\ project'.production = project.production /\ project'.overrides = project.overrides
        /\ project'.sourceHead = project.sourceHead
        /\ project'.productionHead = project.productionHead
    BY <2>1, <2>2, ConfigurationAssumption DEF Configured, Status
  <2>4. Configuration(project') = Configuration(project)
    BY <2>3 DEF Configuration, Form
  <2>5. RowOK(project', past)
    BY <2>2, <2>3, ConfigurationAssumption DEF RowOK, RowAllowed, Coexisted, Named
  <2>6. /\ \A c \in Client : PageOK(page[c], project')
        /\ \A c \in Client : RequestOK(request[c], project', past)
    BY <2>3, <2>4, SameVersion DEF IInv
  <2>7. AuditOK(audit, project')
    BY <2>3 DEF IInv, AuditOK
  <2> QED
    BY <2>1, <2>5, <2>6, <2>7 DEF IInv
<1> QED
  BY <1>1, <1>2, <1>3
-----------------------------------------------------------------------------
(* The settings page.                                                                 *)
LEMMA PageReplaced ==
  ASSUME IInv, NEW c \in Client, NEW g, PageOK(g, project), page' = [page EXCEPT ![c] = g],
         UNCHANGED <<heads, past, project, audit, request>>
  PROVE  IInv'
<1>1. g \in LoadedPage
  BY DEF PageOK
<1> QED
  BY <1>1 DEF IInv

LEMMA PageKeeps ==
  ASSUME IInv, NEW c \in Client, Page(c)
  PROVE  IInv'
<1>1. project \in Configured /\ page[c] \in LoadedPage /\ PageOK(page[c], project)
  BY Records DEF IInv, RowOK
<1>2. CASE Fetch(c)
  <2> DEFINE g == [version |-> project.version, base |-> Configuration(project),
                   form |-> Configuration(project)]
  <2>1. PageOK(g, project)
    <3>1. g \in LoadedPage
      BY <1>1, ConfigurationType DEF LoadedPage, Configured
    <3>2. Named(project)
      BY <1>2, Records DEF Fetch, IInv, RowOK
    <3>3. Named(g.form)
      BY <1>1, <3>2, ConfigurationType DEF Named
    <3> QED
      BY <3>1, <3>3 DEF PageOK, LoadedPage
  <2> QED
    BY <1>2, <2>1, PageReplaced DEF Fetch
<1>3. ASSUME NEW t \in Topologies, NEW o \in Overrides, Edit(c, Form(t, o)) PROVE IInv'
  <2> DEFINE w == page[c]
             g == [w EXCEPT !.form = Form(t, o)]
  <2>1. Form(t, o) \in Settings /\ Named(Form(t, o))
    BY FormType, ConfigurationAssumption
  <2>2. /\ g \in LoadedPage /\ g.version = w.version /\ g.base = w.base
        /\ g.form = Form(t, o)
    BY <1>1, <2>1 DEF LoadedPage
  <2>3. PageOK(g, project)
    BY <1>1, <2>1, <2>2 DEF PageOK
  <2>4. page' = [page EXCEPT ![c] = g] /\ UNCHANGED <<heads, past, project, audit, request>>
    BY <1>3 DEF Edit
  <2> HIDE DEF g
  <2> QED
    BY <2>3, <2>4, PageReplaced
<1>4. ASSUME NEW t \in Topologies, SubmitCreate(c, t) PROVE IInv'
  <2> DEFINE f == Form(t, FALSE)
             r == [NoRequest EXCEPT !.step = "authorize", !.op = "create", !.wanted = f]
  <2>1. f \in Settings /\ f.source # f.production /\ Named(f)
    BY <1>4, FormType DEF SubmitCreate
  <2>2. request' = [request EXCEPT ![c] = r] /\ UNCHANGED <<heads, past, project, audit, page>>
    BY <1>4 DEF SubmitCreate, Send
  <2> HIDE DEF f
  <2>3. /\ r \in Request /\ r.step = "authorize" /\ r.op = "create" /\ r.source = NoCommit
        /\ r.wanted = f
    BY <2>1, Records DEF Request, Step
  <2> HIDE DEF r
  <2>4. RequestOK(r, project, past)
    BY <2>1, <2>3 DEF RequestOK
  <2> QED
    BY <2>2, <2>4, Replaced
<1>5. CASE SubmitUpdate(c)
  <2> DEFINE w == page[c]
             v == w.version
             b == w.base
             f == w.form
             r == [NoRequest EXCEPT !.step = "authorize", !.op = "update", !.expected = v,
                     !.row = project, !.base = b, !.wanted = f]
  <2>1. /\ request' = [request EXCEPT ![c] = r]
        /\ UNCHANGED <<heads, past, project, audit, page>>
        /\ 0 < v /\ v = project.version /\ f.source # f.production
    BY <1>5 DEF SubmitUpdate, Send
  <2>2. b \in Settings /\ f \in Settings /\ v \in Nat /\ b = Configuration(project) /\ Named(f)
    BY <1>1, <2>1 DEF LoadedPage, PageOK
  <2> HIDE DEF v, b, f
  <2>3. /\ r \in Request /\ r.step = "authorize" /\ r.op = "update" /\ r.source = NoCommit
        /\ r.wanted = f /\ r.expected = v /\ r.base = b
    BY <1>1, <2>2, Records DEF Request, Step
  <2> HIDE DEF r
  <2>4. RequestOK(r, project, past)
    BY <2>1, <2>2, <2>3 DEF RequestOK
  <2> QED
    BY <2>1, <2>4, Replaced
<1>6. CASE SubmitRemove(c)
  <2> DEFINE w == page[c]
             v == w.version
             b == w.base
             r == [NoRequest EXCEPT !.step = "authorize", !.op = "remove", !.expected = v,
                     !.row = project, !.base = b]
  <2>1. /\ request' = [request EXCEPT ![c] = r]
        /\ UNCHANGED <<heads, past, project, audit, page>>
        /\ 0 < v /\ v = project.version
    BY <1>6 DEF SubmitRemove, Send
  <2>2. b \in Settings /\ v \in Nat /\ b = Configuration(project)
    BY <1>1, <2>1 DEF LoadedPage, PageOK
  <2> HIDE DEF v, b
  <2>3. /\ r \in Request /\ r.step = "authorize" /\ r.op = "remove" /\ r.source = NoCommit
        /\ r.expected = v /\ r.base = b
    BY <1>1, <2>2, Records DEF Request, Step
  <2> HIDE DEF r
  <2>4. RequestOK(r, project, past)
    BY <2>1, <2>2, <2>3 DEF RequestOK
  <2> QED
    BY <2>1, <2>4, Replaced
<1> QED
  BY <1>2, <1>3, <1>4, <1>5, <1>6 DEF Page
-----------------------------------------------------------------------------
(* The request before its transaction.                                                *)
LEMMA StepGoes ==
  ASSUME NEW r \in Request, NEW x \in Step, NEW next, next = [r EXCEPT !.step = x]
  PROVE  /\ next \in Request /\ next.step = x /\ next.op = r.op
         /\ next.expected = r.expected /\ next.base = r.base /\ next.wanted = r.wanted
         /\ next.source = r.source /\ next.production = r.production
  BY DEF Request

LEMMA AuthorizeKeeps ==
  ASSUME IInv, NEW c \in Client, AuthorizeCreate(c) \/ AuthorizeUpdate(c) \/ AuthorizeRemove(c)
  PROVE  IInv'
<1> DEFINE r == request[c]
<1>1. r \in Request /\ RequestOK(r, project, past)
  BY DEF IInv
<1>2. CASE AuthorizeCreate(c)
  <2> DEFINE next == [r EXCEPT !.step = "heads"]
  <2>1. RequestOK(next, project, past)
    BY <1>1, <1>2, StepGoes DEF AuthorizeCreate, RequestOK, Step
  <2>2. Continue(c, project.status = "none", next)
    BY <1>2 DEF AuthorizeCreate
  <2> HIDE DEF next
  <2> QED
    BY <2>1, <2>2, Continued
<1>3. CASE AuthorizeUpdate(c)
  <2> DEFINE x == IF r.wanted.source # r.row.source \/ r.wanted.production # r.row.production
                  THEN "heads" ELSE "commit"
             next == [r EXCEPT !.step = x]
             condition == Configurable(r.row) /\ r.wanted # Configuration(r.row)
  <2>1. x \in {"heads", "commit"} /\ r.step = "authorize" /\ r.op = "update"
    BY <1>3 DEF AuthorizeUpdate
  <2>2. Continue(c, condition, next)
    BY <1>3 DEF AuthorizeUpdate
  <2>3. condition \in BOOLEAN
    BY DEF Configurable
  <2> HIDE DEF x, condition
  <2>4. RequestOK(next, project, past)
    <3>1. /\ next \in Request /\ next.step = x /\ next.op = r.op
          /\ next.expected = r.expected /\ next.base = r.base /\ next.wanted = r.wanted
          /\ next.source = r.source
      <4>1. x \in Step /\ next = [r EXCEPT !.step = x]
        BY <2>1 DEF Step
      <4> HIDE DEF next
      <4> QED
        BY <1>1, <4>1, StepGoes
    <3> HIDE DEF next
    <3> QED
      BY <1>1, <2>1, <3>1 DEF RequestOK
  <2> HIDE DEF next
  <2> QED
    BY <2>2, <2>3, <2>4, Continued
<1>4. CASE AuthorizeRemove(c)
  <2> DEFINE next == [r EXCEPT !.step = "commit"]
  <2>1. RequestOK(next, project, past)
    BY <1>1, <1>4, StepGoes DEF AuthorizeRemove, RequestOK, Step
  <2>2. Continue(c, TRUE, next)
    BY <1>4 DEF AuthorizeRemove
  <2> HIDE DEF next
  <2> QED
    BY <2>1, <2>2, Continued
<1> QED
  BY <1>2, <1>3, <1>4

(* The head of one branch is read.                                                    *)
LEMMA LoadHeadKeeps ==
  ASSUME IInv, NEW c \in Client, NEW role \in {"source", "production"}, LoadHead(c, role)
  PROVE  IInv'
<1> DEFINE r == request[c]
           branch == r.wanted[role]
           head == heads[branch]
           read == [r EXCEPT ![role] = head]
           x == IF read.source # NoCommit /\ read.production # NoCommit
                THEN After.heads ELSE "heads"
           next == [read EXCEPT !.step = x]
           condition == read[role] # NoCommit
<1>1. /\ r \in Request /\ RequestOK(r, project, past) /\ r.step = "heads"
      /\ Continue(c, condition, next)
  BY DEF IInv, LoadHead
<1>2. branch \in Branch
  <2>1. Named(r.wanted)
    BY <1>1 DEF RequestOK
  <2>2. CASE role = "source"
    BY <2>1, <2>2 DEF Named
  <2>3. CASE role = "production"
    BY <2>1, <2>3 DEF Named
  <2> QED
    BY <2>2, <2>3
<1>3. head \in MaybeCommit
  BY <1>2 DEF IInv
<1>4. condition \in BOOLEAN
  OBVIOUS
<1> HIDE DEF branch, head
<1>5. RequestOK(next, project, past)
  <2>1. /\ read \in Request /\ read.step = r.step /\ read.op = r.op
        /\ read.expected = r.expected /\ read.base = r.base /\ read.wanted = r.wanted
    <3> HIDE DEF r
    <3>1. CASE role = "source"
      BY <1>1, <1>3, <3>1 DEF Request
    <3>2. CASE role = "production"
      BY <1>1, <1>3, <3>2 DEF Request
    <3> QED
      BY <3>1, <3>2
  <2>2. /\ x \in {"heads", "compare"}
        /\ x = "compare" => read.source # NoCommit /\ read.production # NoCommit
    BY DEF After
  <2> HIDE DEF read, x
  <2>3. /\ next \in Request /\ next.step = x /\ next.op = r.op
        /\ next.expected = r.expected /\ next.base = r.base /\ next.wanted = r.wanted
        /\ next.source = read.source /\ next.production = read.production
    <3>1. x \in Step /\ next = [read EXCEPT !.step = x]
      BY <2>2 DEF Step
    <3> HIDE DEF next
    <3> QED
      BY <2>1, <3>1, StepGoes
  <2> HIDE DEF next
  <2> QED
    BY <1>1, <2>2, <2>3 DEF RequestOK
<1> HIDE DEF next, condition
<1> QED
  BY <1>1, <1>4, <1>5, Continued

LEMMA ValidateKeeps ==
  ASSUME IInv, NEW c \in Client, Compare(c) \/ Verify(c) \/ Refuse(c)
  PROVE  IInv'
<1> DEFINE r == request[c]
<1>1. r \in Request /\ RequestOK(r, project, past)
  BY DEF IInv
<1>2. CASE Compare(c)
  <2> DEFINE next == [r EXCEPT !.step = "verify"]
             condition == Related(r.production, r.source)
  <2>1. r.step = "compare" /\ Continue(c, condition, next) /\ condition \in BOOLEAN
    BY <1>2 DEF Compare, After, Related
  <2>2. RequestOK(next, project, past)
    <3>1. /\ next \in Request /\ next.step = "verify" /\ next.op = r.op
          /\ next.expected = r.expected /\ next.base = r.base /\ next.wanted = r.wanted
          /\ next.source = r.source /\ next.production = r.production
      BY <1>1, StepGoes DEF Step
    <3> HIDE DEF next
    <3> QED
      BY <1>1, <2>1, <3>1 DEF RequestOK
  <2> HIDE DEF next, condition
  <2> QED
    BY <2>1, <2>2, Continued
<1>3. CASE Verify(c)
  <2> DEFINE next == [r EXCEPT !.step = "commit"]
             condition == /\ heads[r.wanted.source] = r.source
                          /\ heads[r.wanted.production] = r.production
                          /\ Related(r.production, r.source)
  <2>1. r.step = "verify" /\ Continue(c, condition, next) /\ condition \in BOOLEAN
    BY <1>3 DEF Verify, After, Related
  <2>2. ASSUME condition PROVE RequestOK(next, project, past)
    <3>1. /\ next \in Request /\ next.step = "commit" /\ next.op = r.op
          /\ next.expected = r.expected /\ next.base = r.base /\ next.wanted = r.wanted
          /\ next.source = r.source /\ next.production = r.production
      BY <1>1, StepGoes DEF Step
    <3> HIDE DEF next
    <3>2. heads \in past
      BY DEF IInv
    <3>3. Coexisted(r.wanted, r.source, r.production, past)
      BY <1>1, <2>1, <2>2, <3>2 DEF RequestOK, Coexisted
    <3> QED
      BY <1>1, <2>1, <3>1, <3>3 DEF RequestOK
  <2> HIDE DEF next, condition
  <2> QED
    BY <2>1, <2>2, Continued
<1>4. CASE Refuse(c)
  BY <1>4, NoRequestOK, Replaced DEF Refuse
<1> QED
  BY <1>2, <1>3, <1>4
-----------------------------------------------------------------------------
(* The transactions.  One that does nothing ends the request.                         *)
LEMMA Ended ==
  ASSUME IInv, NEW c \in Client, Ends(c), UNCHANGED <<heads, past, project, audit, page>>
  PROVE  IInv'
BY NoRequestOK, Replaced DEF Ends

(* One that writes the row counts its version and records who changed what.           *)
LEMMA Written ==
  ASSUME IInv, NEW c \in Client, NEW row \in Configured, row.version = project.version + 1,
         RowOK(row, past), NEW entry \in Entry,
         entry.event # "project_created" => entry.base = entry.previous,
         project' = row, audit' = Append(audit, entry), Ends(c), UNCHANGED <<heads, past, page>>
  PROVE  IInv'
<1>1. project \in Configured /\ project.version \in Nat
  BY Records DEF IInv, RowOK, Configured
<1>2. \A d \in Client : PageOK(page[d], row)
  BY <1>1, NewVersion DEF IInv
<1>3. /\ request' \in [Client -> Request]
      /\ \A d \in Client : RequestOK(request'[d], row, past)
  BY <1>1, NewVersion, NoRequestOK, Records DEF IInv, Ends
<1>4. AuditOK(Append(audit, entry), row)
  <2>1. audit \in Seq(Entry) /\ Len(audit) = project.version
    BY DEF IInv, AuditOK
  <2>2. /\ Append(audit, entry) \in Seq(Entry) /\ Len(Append(audit, entry)) = row.version
        /\ DOMAIN Append(audit, entry) = 1 .. row.version
    BY <2>1, AppendProperties
  <2>3. ASSUME NEW i \in 1 .. row.version, Append(audit, entry)[i].event # "project_created"
        PROVE  Append(audit, entry)[i].base = Append(audit, entry)[i].previous
    <3>1. CASE i = Len(audit) + 1
      BY <2>1, <2>3, <3>1, AppendProperties
    <3>2. CASE i \in 1 .. Len(audit)
      <4>1. Append(audit, entry)[i] = audit[i]
        BY <2>1, <3>2, AppendProperties
      <4>2. i \in DOMAIN audit
        BY <2>1, <3>2
      <4> QED
        BY <2>3, <4>1, <4>2 DEF IInv, AuditOK
    <3> QED
      BY <1>1, <2>1, <3>1, <3>2
  <2> QED
    BY <2>2, <2>3 DEF AuditOK
<1> QED
  BY <1>2, <1>3, <1>4 DEF IInv

LEMMA EntryType ==
  ASSUME NEW c \in Client, NEW event, NEW base \in Settings, NEW row \in Configured,
         NEW next \in Configured,
         event \in {"project_created", "project_configuration_changed",
                    "project_required_check_overrides_changed", "project_deletion_requested"},
         NEW entry, entry = [by |-> c, event |-> event, base |-> base,
                             previous |-> Configuration(row), current |-> Configuration(next)]
  PROVE  /\ entry \in Entry /\ entry.event = event /\ entry.base = base
         /\ entry.previous = Configuration(row)
BY ConfigurationType DEF Entry

LEMMA CreateKeeps ==
  ASSUME IInv, NEW c \in Client, CommitCreate(c)
  PROVE  IInv'
<1> DEFINE r == request[c]
<1>1. r \in Request /\ RequestOK(r, project, past) /\ r.step = "commit" /\ r.op = "create"
      /\ Ends(c) /\ UNCHANGED <<heads, past, page>>
  BY DEF IInv, CommitCreate
<1>2. CASE project.status # "none" \/ ~LocallyUsable
  BY <1>1, <1>2, Ended DEF CommitCreate
<1>3. CASE ~(project.status # "none" \/ ~LocallyUsable)
  <2> DEFINE row == [status |-> "initializing", version |-> 1,
                     source |-> r.wanted.source, production |-> r.wanted.production,
                     overrides |-> r.wanted.overrides,
                     sourceHead |-> r.source, productionHead |-> r.production]
             entry == [by |-> c, event |-> "project_created", base |-> r.base,
                       previous |-> Configuration(project), current |-> Configuration(row)]
  <2>1. project' = row /\ audit' = Append(audit, entry)
    BY <1>3 DEF CommitCreate, Audited
  <2>2. project \in Configured /\ project.version = 0
    BY <1>3, Records DEF IInv, RowOK, RowAllowed
  <2>3. /\ Named(r.wanted) /\ r.wanted.source # r.wanted.production
        /\ Coexisted(r.wanted, r.source, r.production, past)
    BY <1>1 DEF RequestOK
  <2>4. row \in Configured
    BY <1>1 DEF Request, Settings, Configured, Status
  <2>5. RowOK(row, past)
    BY <2>3, <2>4 DEF RowOK, RowAllowed, Named, Coexisted
  <2>6. entry \in Entry /\ entry.event = "project_created"
    BY <1>1, <2>2, <2>4, EntryType DEF Request
  <2>7. row.version = project.version + 1
    BY <2>2
  <2> HIDE DEF row, entry
  <2> QED
    BY <1>1, <2>1, <2>4, <2>5, <2>6, <2>7, Written
<1> QED
  BY <1>2, <1>3

LEMMA BranchesKeep ==
  ASSUME IInv, NEW c \in Client, CommitBranches(c)
  PROVE  IInv'
<1> DEFINE r == request[c]
           written == VersionMatches(c) /\ Configurable(project) /\ LocallyUsable
<1>1. r \in Request /\ RequestOK(r, project, past) /\ r.step = "commit" /\ r.op = "update"
      /\ r.source # NoCommit /\ Ends(c) /\ UNCHANGED <<heads, past, page>>
  BY DEF IInv, CommitBranches
<1>2. CASE ~written
  BY <1>1, <1>2, Ended DEF CommitBranches
<1>3. CASE written
  <2> DEFINE row == [status |-> "initializing", version |-> project.version + 1,
                     source |-> r.wanted.source, production |-> r.wanted.production,
                     overrides |-> r.wanted.overrides,
                     sourceHead |-> r.source, productionHead |-> r.production]
             entry == [by |-> c, event |-> "project_configuration_changed", base |-> r.base,
                       previous |-> Configuration(project), current |-> Configuration(row)]
  <2>1. project' = row /\ audit' = Append(audit, entry)
    BY <1>3 DEF CommitBranches, Audited
  <2>2. project \in Configured /\ project.version \in Nat
    BY Records DEF IInv, RowOK, Configured
  <2>3. /\ Named(r.wanted) /\ r.wanted.source # r.wanted.production
        /\ Coexisted(r.wanted, r.source, r.production, past)
    BY <1>1 DEF RequestOK
  <2>4. row \in Configured
    BY <1>1, <2>2 DEF Request, Settings, Configured, Status
  <2>5. RowOK(row, past)
    BY <2>2, <2>3, <2>4 DEF RowOK, RowAllowed, Named, Coexisted
  <2>6. entry \in Entry /\ entry.base = r.base /\ entry.previous = Configuration(project)
    BY <1>1, <2>2, <2>4, EntryType DEF Request
  <2>7. row.version = project.version + 1
    OBVIOUS
  <2>8. r.base = Configuration(project)
    BY <1>1, <1>3 DEF RequestOK, VersionMatches
  <2> HIDE DEF row, entry
  <2> QED
    BY <1>1, <2>1, <2>4, <2>5, <2>6, <2>7, <2>8, Written
<1> QED
  BY <1>2, <1>3

LEMMA OverridesKeep ==
  ASSUME IInv, NEW c \in Client, CommitOverrides(c)
  PROVE  IInv'
<1> DEFINE r == request[c]
           written == /\ VersionMatches(c)
                      /\ Configurable(project) \/ project.status = "disconnected"
<1>1. r \in Request /\ RequestOK(r, project, past) /\ r.step = "commit" /\ r.op = "update"
      /\ Ends(c) /\ UNCHANGED <<heads, past, page>>
  BY DEF IInv, CommitOverrides
<1>2. CASE ~written
  BY <1>1, <1>2, Ended DEF CommitOverrides
<1>3. CASE written
  <2> DEFINE row == [project EXCEPT !.version = project.version + 1,
                                    !.overrides = r.wanted.overrides]
             event == "project_required_check_overrides_changed"
             entry == [by |-> c, event |-> event, base |-> r.base,
                       previous |-> Configuration(project), current |-> Configuration(row)]
  <2>1. project' = row
    BY <1>3 DEF CommitOverrides
  <2>2. audit' = Append(audit, entry)
    BY <1>3, <2>1 DEF CommitOverrides, Audited
  <2>3. /\ project \in Configured /\ project.version \in Nat /\ RowAllowed(project)
        /\ Named(project) /\ Coexisted(project, project.sourceHead, project.productionHead, past)
    BY <1>3, Records DEF IInv, RowOK, Configured, VersionMatches
  <2>4. /\ row \in Configured /\ row.version = project.version + 1 /\ row.status = project.status
        /\ row.source = project.source /\ row.production = project.production
        /\ row.sourceHead = project.sourceHead /\ row.productionHead = project.productionHead
    <3>1. r.wanted.overrides \in BOOLEAN /\ project.status \in Status
          /\ project.version + 1 \in Nat
      BY <1>1, <2>3 DEF Request, Settings, Configured
    <3> DEFINE v == project.version + 1
               o == r.wanted.overrides
    <3>2. row = [project EXCEPT !.version = v, !.overrides = o]
      OBVIOUS
    <3>3. v \in Nat /\ o \in BOOLEAN
      BY <3>1
    <3> HIDE DEF row, v, o
    <3>4. /\ row \in Configured /\ row.version = v /\ row.status = project.status
          /\ row.source = project.source /\ row.production = project.production
          /\ row.sourceHead = project.sourceHead
          /\ row.productionHead = project.productionHead
      BY <2>3, <3>1, <3>2, <3>3 DEF Configured
    <3> QED
      BY <3>4 DEF v
  <2>5. entry \in Entry /\ entry.base = r.base /\ entry.previous = Configuration(project)
    BY <1>1, <2>3, <2>4, EntryType DEF Request
  <2> HIDE DEF row, entry
  <2>6. RowOK(row, past)
    BY <2>3, <2>4 DEF RowOK, RowAllowed, Named, Coexisted
  <2>7. r.base = Configuration(project)
    BY <1>1, <1>3 DEF RequestOK, VersionMatches
  <2> QED
    BY <1>1, <2>1, <2>2, <2>4, <2>5, <2>6, <2>7, Written
<1> QED
  BY <1>2, <1>3

LEMMA RemoveKeeps ==
  ASSUME IInv, NEW c \in Client, CommitRemove(c)
  PROVE  IInv'
<1> DEFINE r == request[c]
           written == VersionMatches(c) /\ project.status # "pending_deletion"
<1>1. r \in Request /\ RequestOK(r, project, past) /\ r.step = "commit" /\ r.op = "remove"
      /\ Ends(c) /\ UNCHANGED <<heads, past, page>>
  BY DEF IInv, CommitRemove
<1>2. CASE ~written
  BY <1>1, <1>2, Ended DEF CommitRemove
<1>3. CASE written
  <2> DEFINE row == [project EXCEPT !.status = "pending_deletion",
                                    !.version = project.version + 1]
             entry == [by |-> c, event |-> "project_deletion_requested", base |-> r.base,
                       previous |-> Configuration(project), current |-> Configuration(row)]
  <2>1. project' = row
    BY <1>3 DEF CommitRemove
  <2>2. audit' = Append(audit, entry)
    BY <1>3, <2>1 DEF CommitRemove, Audited
  <2>3. /\ project \in Configured /\ project.version \in Nat /\ RowAllowed(project)
        /\ Named(project) /\ Coexisted(project, project.sourceHead, project.productionHead, past)
    BY <1>3, Records DEF IInv, RowOK, Configured, VersionMatches
  <2>4. /\ row \in Configured /\ row.version = project.version + 1
        /\ row.status = "pending_deletion"
        /\ row.source = project.source /\ row.production = project.production
        /\ row.sourceHead = project.sourceHead /\ row.productionHead = project.productionHead
    <3>1. "pending_deletion" \in Status /\ project.version + 1 \in Nat
      BY <2>3 DEF Status
    <3> DEFINE v == project.version + 1
               p == "pending_deletion"
    <3>2. row = [project EXCEPT !.status = p, !.version = v]
      OBVIOUS
    <3>3. v \in Nat /\ p \in Status
      BY <3>1
    <3> HIDE DEF row, v, p
    <3>4. /\ row \in Configured /\ row.version = v /\ row.status = p
          /\ row.source = project.source /\ row.production = project.production
          /\ row.sourceHead = project.sourceHead
          /\ row.productionHead = project.productionHead
      BY <2>3, <3>2, <3>3 DEF Configured
    <3> QED
      BY <3>4 DEF v, p
  <2>5. entry \in Entry /\ entry.base = r.base /\ entry.previous = Configuration(project)
    BY <1>1, <2>3, <2>4, EntryType DEF Request
  <2> HIDE DEF row, entry
  <2>6. RowOK(row, past)
    BY <2>3, <2>4 DEF RowOK, RowAllowed, Named, Coexisted
  <2>7. r.base = Configuration(project)
    BY <1>1, <1>3 DEF RequestOK, VersionMatches
  <2> QED
    BY <1>1, <2>1, <2>2, <2>4, <2>5, <2>6, <2>7, Written
<1> QED
  BY <1>2, <1>3
-----------------------------------------------------------------------------
LEMMA NextKeeps == IInv /\ [Next]_vars => IInv'
<1> SUFFICES ASSUME IInv, [Next]_vars PROVE IInv'
  OBVIOUS
<1>1. CASE UNCHANGED vars
  BY <1>1 DEF vars, IInv
<1>2. ASSUME NEW c \in Client, Page(c) \/ Service(c) \/ Transaction(c) PROVE IInv'
  BY <1>2, PageKeeps, AuthorizeKeeps, LoadHeadKeeps, ValidateKeeps, CreateKeeps, BranchesKeep,
     OverridesKeep, RemoveKeeps DEF Service, Transaction
<1> QED
  BY <1>1, <1>2, OutsideKeeps DEF Next

(* The inductive invariant of the settings: forms, requests, the row and the audit agree. *)
THEOREM Invariance == Spec => []IInv
  BY InitGood, NextKeeps, PTL DEF Spec

LEMMA Bound ==
  ASSUME IInv PROVE TypeOK /\ NothingOverwritten /\ HeadsCoexisted
<1>1. heads \in [Branch -> Commit \cup {NoCommit}]
  BY DEF IInv, MaybeCommit
<1>2. project = NoRow \/ RowAllowed(project)
  BY DEF IInv, RowOK
<1>3. project.version = Len(audit) /\ NothingOverwritten
  BY DEF IInv, AuditOK, NothingOverwritten
<1>4. \A c \in Client : page[c].version <= project.version
  BY DEF IInv, PageOK
<1>5. \A c \in Client : request[c].step
                          \in {"none", "authorize", "heads", "compare", "verify", "commit"}
  BY DEF IInv, Request, Step
<1>6. HeadsCoexisted
  BY Records DEF IInv, RowOK, Coexisted, HeadsCoexisted
<1> QED
  BY <1>1, <1>2, <1>3, <1>4, <1>5, <1>6 DEF TypeOK

(* However the branches move while users configure the project, the two heads it      *)
(* stores once were the heads of its branches at the same time.                       *)
THEOREM HeadsKnown == Spec => []HeadsCoexisted
  BY Invariance, Bound, PTL

LEMMA RemovedStands ==
  ASSUME IInv, [Next]_vars, project.status = "pending_deletion"
  PROVE  UNCHANGED <<project, requests>>
<1>1. ASSUME NEW c \in Client, Transaction(c) PROVE UNCHANGED <<project, requests>>
  BY <1>1 DEF Transaction, CommitCreate, CommitBranches, CommitOverrides, CommitRemove,
              Configurable
<1>2. ASSUME NEW c \in Client, Service(c) PROVE UNCHANGED <<project, requests>>
  BY <1>2 DEF Service, AuthorizeCreate, AuthorizeUpdate, AuthorizeRemove, LoadHead, Compare,
              Verify, Refuse, Continue
<1>3. ASSUME NEW c \in Client, Page(c) PROVE UNCHANGED <<project, requests>>
  BY <1>3 DEF Page, Fetch, Edit, SubmitCreate, SubmitUpdate, SubmitRemove, Send
<1>4. ASSUME NEW b \in Branch, NEW commit \in Commit \cup {NoCommit}, MoveBranch(b, commit)
      PROVE  UNCHANGED <<project, requests>>
  BY <1>4 DEF MoveBranch
<1>5. ASSUME InstallationChanges \/ \E status \in Statuses : Synchronize(status)
      PROVE  UNCHANGED <<project, requests>>
  BY <1>5 DEF InstallationChanges, Synchronize
<1> QED
  BY <1>1, <1>2, <1>3, <1>4, <1>5 DEF Next, vars

(* The row keeps its constraints; no user's change is overwritten unseen; and what a  *)
(* user removed no request that was on its way changes or synchronizes again.         *)
THEOREM SettingsStand == Spec => ConfigurationStands
<1>1. IInv => TypeOK /\ NothingOverwritten
  BY Bound
<1>2. IInv /\ [Next]_vars =>
        [project.status = "pending_deletion" => UNCHANGED <<project, requests>>]_vars
  BY RemovedStands
<1> QED
  BY Invariance, <1>1, <1>2, PTL DEF Spec, ConfigurationStands, RemovalStands
-----------------------------------------------------------------------------

(* The history of the repository                                          *)

(* A finite set of numbers has a maximum.                                   *)
LEMMA HasMaximum ==
  ASSUME NEW n \in Nat, NEW T \in SUBSET (1..n), T # {}
  PROVE  \E x \in T : \A y \in T : x >= y
<1> DEFINE Above(x) == {y \in T : y > x}
           F == {Above(x) : x \in T}
<1>1. IsFiniteSet(T)
  <2>1. IsFiniteSet(1..n)
    BY FS_Interval
  <2> QED
    BY <2>1, FS_Subset
<1>2. FiniteSubsetsOf(T) = SUBSET T
  BY <1>1, FS_FiniteSubsetsOfFinite
<1>3. IsWellFoundedOn(StrictSubsetOrdering(T), FiniteSubsetsOf(T))
  BY FS_StrictSubsetOrderingWellFounded
<1>4. F \subseteq FiniteSubsetsOf(T) /\ F # {}
  <2>1. \A x \in T : Above(x) \in SUBSET T
    OBVIOUS
  <2>2. F # {} /\ F \subseteq SUBSET T
    BY <2>1
  <2> QED
    BY <1>2, <2>2
<1>5. PICK U \in F : \A V \in F : ~(<<V, U>> \in StrictSubsetOrdering(T))
  BY <1>3, <1>4, WFMin
<1>6. PICK x \in T : U = Above(x)
  BY <1>5
<1>7. ASSUME NEW y \in T, ~(x >= y) PROVE FALSE
  <2>1. x \in Nat /\ y \in Nat /\ y > x /\ ~(y > y)
    BY <1>7
  <2>2. \A z \in T : z > y => z > x
    BY <2>1
  <2>3. Above(y) \subseteq Above(x) /\ y \in Above(x) /\ y \notin Above(y)
    BY <2>1, <2>2
  <2>4. <<Above(y), U>> \in StrictSubsetOrdering(T)
    BY <1>6, <2>3 DEF StrictSubsetOrdering
  <2> QED
    BY <1>5, <2>4
<1> QED
  BY <1>7

LEMMA MaxIsMember ==
  ASSUME NEW n \in Nat, NEW T \in SUBSET (1..n), T # {}
  PROVE  Repository!Max(T) \in T
BY HasMaximum DEF Repository!Max

-----------------------------------------------------------------------------
(* Histories                                                                *)

LogOK(l) ==
  /\ \E S : l \in Seq(S)
  /\ \A c \in 1..Len(l) :
       /\ l[c].parents \in Seq(1..(c - 1))
       /\ c \in l[c].reach /\ l[c].reach \subseteq 1..c
       /\ \A d \in l[c].reach : l[d].reach \subseteq l[c].reach

Longer(l, m) == Len(l) <= Len(m) /\ \A c \in 1..Len(l) : m[c] = l[c]

LEMMA AppendGrows ==
  ASSUME LogOK(log), NEW parents \in Seq(1..Len(log)), NEW patch, NEW m,
         m = Repository!Append1(parents, patch)
  PROVE  LogOK(m) /\ Longer(log, m) /\ Len(m) = Len(log) + 1
<1>1. PICK S : log \in Seq(S)
  BY DEF LogOK
<1> DEFINE n == Len(log)
           e == Repository!NewCommit(log, parents, patch)
           below == UNION {log[c].reach : c \in {parents[i] : i \in DOMAIN parents}}
<1>2. n \in Nat /\ \A i \in DOMAIN parents : parents[i] \in 1..n
  BY <1>1
<1>3. e = [parents |-> parents, patch |-> patch, reach |-> {n + 1} \cup below]
  BY DEF Repository!NewCommit, Repository!ToSet
<1>4. e.parents = parents /\ e.reach = {n + 1} \cup below
  BY <1>3
<1>5. below \subseteq 1..n /\ \A d \in below : log[d].reach \subseteq below
  BY <1>2 DEF LogOK
<1>6. /\ m \in Seq(S \cup {e}) /\ Len(m) = n + 1 /\ m[n + 1] = e
      /\ \A c \in 1..n : m[c] = log[c]
  <2>1. log \in Seq(S \cup {e}) /\ m = Append(log, e)
    BY <1>1 DEF Repository!Append1
  <2> QED
    BY <2>1, AppendProperties
<1> HIDE DEF e, below
<1>7. ASSUME NEW c \in 1..(n + 1)
      PROVE  /\ m[c].parents \in Seq(1..(c - 1))
             /\ c \in m[c].reach /\ m[c].reach \subseteq 1..c
             /\ \A d \in m[c].reach : m[d].reach \subseteq m[c].reach
  <2>1. CASE c = n + 1
    <3>1. m[c].parents = parents /\ m[c].reach = {n + 1} \cup below
      BY <1>4, <1>6, <2>1
    <3>2. parents \in Seq(1..(c - 1))
      BY <1>2, <2>1
    <3>3. \A d \in m[c].reach : m[d].reach \subseteq m[c].reach
      BY <1>4, <1>5, <1>6, <2>1, <3>1
    <3>4. c \in m[c].reach /\ m[c].reach \subseteq 1..c
      <4>1. 1..n \subseteq 1..c /\ c \in 1..c
        BY <1>2, <2>1
      <4> QED
        BY <1>5, <2>1, <3>1, <4>1
    <3> QED
      BY <3>1, <3>2, <3>3, <3>4
  <2>2. CASE c \in 1..n
    <3>1. m[c] = log[c]
      BY <1>6, <2>2
    <3>2. log[c].reach \subseteq 1..n
      BY <1>2, <2>2 DEF LogOK
    <3> QED
      BY <1>6, <2>2, <3>1, <3>2 DEF LogOK
  <2> QED
    BY <1>2, <2>1, <2>2
<1> QED
  BY <1>2, <1>6, <1>7 DEF LogOK, Longer

LEMMA GrownGrows ==
  ASSUME LogOK(log), NEW head \in 1..Len(log), NEW patches, Len(patches) \in Nat, NEW m,
         m = Repository!Grown(head, patches)
  PROVE  LogOK(m) /\ Longer(log, m) /\ Len(m) = Len(log) + Len(patches)
<1>1. PICK S : log \in Seq(S)
  BY DEF LogOK
<1> DEFINE n == Len(log)
           k == Len(patches)
           first == log[head].reach
           more == [j \in 1..k |->
                     [parents |-> <<IF j = 1 THEN head ELSE n + j - 1>>, patch |-> patches[j],
                      reach |-> first \cup (n + 1)..(n + j)]]
           S2 == S \cup {more[j] : j \in 1..k}
<1>2. n \in Nat /\ k \in Nat
  BY <1>1
<1>3. first \subseteq 1..n /\ \A d \in first : log[d].reach \subseteq first
  BY <1>2 DEF LogOK
<1>4. \A j \in 1..k : /\ more[j].parents = <<IF j = 1 THEN head ELSE n + j - 1>>
                      /\ more[j].reach = first \cup (n + 1)..(n + j)
  OBVIOUS
<1>5. m = log \o more
  BY DEF Repository!Grown
<1>6. log \in Seq(S2) /\ more \in Seq(S2) /\ Len(more) = k
  <2>1. log \in Seq(S2)
    BY <1>1
  <2>2. more \in [1..k -> S2]
    OBVIOUS
  <2>3. more \in Seq(S2) /\ Len(more) = k
    <3> HIDE DEF more, S2, k
    <3> QED
      BY <1>2, <2>2
  <2> QED
    BY <2>1, <2>3
<1> HIDE DEF more, S2, k, first
<1>7. /\ m \in Seq(S2) /\ Len(m) = n + k
      /\ \A c \in 1..n : m[c] = log[c]
      /\ \A j \in 1..k : m[n + j] = more[j]
  <2>1. /\ log \o more \in Seq(S2) /\ Len(log \o more) = n + k
        /\ \A c \in 1..(n + k) : (log \o more)[c] = IF c <= n THEN log[c] ELSE more[c - n]
    BY <1>6, ConcatProperties
  <2> QED
    BY <1>2, <1>5, <2>1
<1> HIDE DEF n
<1>8. ASSUME NEW c \in 1..(n + k)
      PROVE  /\ m[c].parents \in Seq(1..(c - 1))
             /\ c \in m[c].reach /\ m[c].reach \subseteq 1..c
             /\ \A d \in m[c].reach : m[d].reach \subseteq m[c].reach
  <2>1. CASE c \in 1..n
    <3>1. m[c] = log[c]
      BY <1>7, <2>1
    <3>2. log[c].reach \subseteq 1..n
      BY <1>2, <2>1 DEF LogOK, n
    <3> QED
      BY <1>7, <2>1, <3>1, <3>2 DEF LogOK, n
  <2>2. CASE c \notin 1..n
    <3>1. PICK j \in 1..k : c = n + j
      <4>1. c - n \in 1..k /\ c = n + (c - n)
        BY <1>2, <2>2
      <4> QED
        BY <4>1
    <3>2. m[c].parents = <<IF j = 1 THEN head ELSE n + j - 1>> /\ m[c].reach = first \cup (n + 1)..(n + j)
      BY <1>4, <1>7, <3>1
    <3>3. (IF j = 1 THEN head ELSE n + j - 1) \in 1..(c - 1)
      BY <1>2, <3>1 DEF n
    <3>4. m[c].parents \in Seq(1..(c - 1))
      BY <3>2, <3>3
    <3>5. ASSUME NEW d \in m[c].reach PROVE m[d].reach \subseteq m[c].reach
      <4>1. CASE d \in first
        BY <1>3, <1>7, <3>2, <4>1
      <4>2. CASE d \in (n + 1)..(n + j)
        <5>1. PICK i \in 1..j : d = n + i
          <6>1. d - n \in 1..j /\ d = n + (d - n)
            BY <1>2, <4>2
          <6> QED
            BY <6>1
        <5>2. i \in 1..k /\ i <= j
          BY <1>2, <5>1
        <5>3. m[d].reach = first \cup (n + 1)..(n + i)
          BY <1>4, <1>7, <5>1, <5>2
        <5> QED
          BY <1>2, <3>2, <5>2, <5>3
      <4> QED
        BY <3>2, <3>5, <4>1, <4>2
    <3>6. c \in m[c].reach /\ m[c].reach \subseteq 1..c
      BY <1>2, <1>3, <3>1, <3>2
    <3> QED
      BY <3>4, <3>5, <3>6
  <2> QED
    BY <2>1, <2>2
<1> QED
  BY <1>2, <1>7, <1>8 DEF LogOK, Longer, n, k

-----------------------------------------------------------------------------
(* GitHub                                                                   *)

IsPull(r) ==
  r = [state |-> r.state, base |-> r.base, head |-> r.head, at |-> r.at, merge |-> r.merge,
       originals |-> r.originals, brought |-> r.brought]

Protected == Sources \cup {Repository!Production}

HistoryOK ==
  /\ LogOK(log)
  /\ branches \in [Protected -> 1..Len(log)]
  /\ pulls = [p \in Pulls |-> pulls[p]]
  /\ \A p \in Pulls :
       /\ IsPull(pulls[p])
       /\ pulls[p].state = "open" => pulls[p].head \in 1..Len(log) /\ pulls[p].base \in Sources

(* What an event at GitHub leaves as it is. *)
OnlyGitHub == UNCHANGED <<projected, rows, last, qa, run, runs, outcome>> /\ quiet' = 0

LEMMA CommitNumbers == LogOK(log) => Len(log) \in Nat
BY DEF LogOK

(* The parents of a commit that is made are commits. *)
LEMMA Parents ==
  ASSUME NEW n \in Nat, NEW a \in 1..n, NEW b \in 1..n
  PROVE  <<a>> \in Seq(1..n) /\ <<a, b>> \in Seq(1..n)
OBVIOUS

LEMMA BranchMoves ==
  ASSUME HistoryOK, LogOK(log'), Longer(log, log'), NEW b \in Protected, NEW c \in 1..Len(log'),
         branches' = [branches EXCEPT ![b] = c], UNCHANGED pulls
  PROVE  HistoryOK'
<1>1. Len(log) \in Nat /\ Len(log') \in Nat /\ Len(log) <= Len(log')
  BY CommitNumbers DEF HistoryOK, LogOK, Longer
<1>2. branches' \in [Protected -> 1..Len(log')]
  BY <1>1 DEF HistoryOK
<1>3. \A p \in Pulls : pulls[p].state = "open" => pulls[p].head \in 1..Len(log')
  BY <1>1 DEF HistoryOK
<1> QED
  BY <1>2, <1>3 DEF HistoryOK

LEMMA BranchLands ==
  ASSUME HistoryOK, LogOK(log'), Longer(log, log'), NEW b \in Protected, NEW c \in 1..Len(log'), NEW p \in Pulls,
         branches' = [branches EXCEPT ![b] = c],
         pulls' = Repository!Landed(b, log', c, p)
  PROVE  HistoryOK'
<1>1. Len(log) \in Nat /\ Len(log') \in Nat /\ Len(log) <= Len(log')
  BY CommitNumbers DEF HistoryOK, LogOK, Longer
<1>2. branches' \in [Protected -> 1..Len(log')]
  BY <1>1 DEF HistoryOK
<1>3. pulls' = [q \in Pulls |-> pulls'[q]]
  BY DEF Repository!Landed
<1>4. ASSUME NEW q \in Pulls
      PROVE  /\ IsPull(pulls'[q])
             /\ pulls'[q].state = "open" => pulls'[q].head \in 1..Len(log') /\ pulls'[q].base \in Sources
  <2>1. PICK r : r = pulls[q]
    OBVIOUS
  <2>2. IsPull(r) /\ (r.state = "open" => r.head \in 1..Len(log') /\ r.base \in Sources)
    BY <1>1, <2>1 DEF HistoryOK
  <2>3. \/ pulls'[q] = r
        \/ \E x, y : pulls'[q] = [r EXCEPT !.state = "merged", !.at = c, !.merge = c, !.originals = x, !.brought = y]
    BY <2>1 DEF Repository!Landed
  <2>4. CASE pulls'[q] = r
    BY <2>2, <2>4
  <2>5. ASSUME NEW x, NEW y, pulls'[q] = [r EXCEPT !.state = "merged", !.at = c, !.merge = c, !.originals = x, !.brought = y]
        PROVE  IsPull(pulls'[q]) /\ pulls'[q].state # "open"
    <3>1. pulls'[q] = [state |-> "merged", base |-> r.base, head |-> r.head, at |-> c, merge |-> c,
                       originals |-> x, brought |-> y]
      BY <2>2, <2>5 DEF IsPull
    <3> QED
      BY <3>1 DEF IsPull
  <2> QED
    BY <2>3, <2>4, <2>5
<1> QED
  BY <1>2, <1>3, <1>4 DEF HistoryOK

LEMMA PullChanges ==
  ASSUME HistoryOK, LogOK(log'), Longer(log, log'), UNCHANGED branches, NEW p \in Pulls, NEW r,
         pulls' = [pulls EXCEPT ![p] = r], IsPull(r), r.head \in 1..Len(log'), r.base \in Sources
  PROVE  HistoryOK'
<1>1. Len(log) \in Nat /\ Len(log') \in Nat /\ Len(log) <= Len(log')
  BY CommitNumbers DEF HistoryOK, LogOK, Longer
<1>2. branches' \in [Protected -> 1..Len(log')]
  BY <1>1 DEF HistoryOK
<1>3. pulls' = [q \in Pulls |-> pulls'[q]] /\ \A q \in Pulls : pulls'[q] = IF q = p THEN r ELSE pulls[q]
  BY DEF HistoryOK
<1>4. \A q \in Pulls :
        /\ IsPull(pulls'[q])
        /\ pulls'[q].state = "open" => pulls'[q].head \in 1..Len(log') /\ pulls'[q].base \in Sources
  BY <1>1, <1>3 DEF HistoryOK
<1> QED
  BY <1>2, <1>3, <1>4 DEF HistoryOK

LEMMA NoPullIs == IsPull(Repository!NoPull) /\ Repository!NoPull.state = "none"
BY DEF Repository!NoPull, IsPull

LEMMA GitHubGrows ==
  ASSUME HistoryOK, projected.branch \in Sources, Repository!GitHub
  PROVE  HistoryOK' /\ Longer(log, log') /\ OnlyGitHub
<1> DEFINE n == Len(log)
<1>1. /\ LogOK(log) /\ n \in Nat /\ Longer(log, log) /\ \A b \in Protected : branches[b] \in 1..n
      /\ Sources \subseteq Protected /\ Repository!Production \in Protected
  BY CommitNumbers DEF HistoryOK, Longer, Protected
<1>2. \A p \in Pulls : pulls[p].state = "open" => pulls[p].head \in 1..n /\ pulls[p].base \in Sources
  BY DEF HistoryOK
<1>3. \A c \in 1..n, d \in 1..n : <<c>> \in Seq(1..n) /\ <<c, d>> \in Seq(1..n)
  BY <1>1, Parents
<1>4. \A kind : Repository!Happens(kind) => OnlyGitHub
  BY DEF Repository!Happens, OnlyGitHub
<1>5. n + 1 \in 1..(n + 1)
  BY <1>1
<1> HIDE DEF n
(* A new commit on a branch. *)
<1>6. ASSUME NEW b \in Sources \cup {Repository!Production}, NEW parents \in Seq(1..n), NEW patch,
             log' = Repository!Append1(parents, patch),
             branches' = [branches EXCEPT ![b] = Len(log')]
      PROVE  /\ LogOK(log') /\ Longer(log, log') /\ Len(log') = n + 1 /\ Len(log') \in 1..Len(log')
             /\ UNCHANGED pulls => HistoryOK'
             /\ \A p \in Pulls : pulls' = Repository!Landed(b, log', Len(log'), p) => HistoryOK'
  <2>1. LogOK(log') /\ Longer(log, log') /\ Len(log') = n + 1
    BY <1>1, <1>6, AppendGrows DEF n
  <2>2. Len(log') \in 1..Len(log')
    BY <1>1, <2>1
  <2> QED
    BY <1>6, <2>1, <2>2, BranchMoves, BranchLands DEF Protected
<1>7. ASSUME NEW b \in Sources, Repository!Push(b) PROVE HistoryOK' /\ Longer(log, log') /\ OnlyGitHub
  BY <1>1, <1>3, <1>4, <1>6, <1>7 DEF Repository!Push
<1>8. ASSUME NEW p \in Pulls, NEW b \in Sources, NEW from \in 1..n, NEW k \in 1..MaxLength,
             Repository!Open(p, b, from, k)
      PROVE  HistoryOK' /\ Longer(log, log') /\ OnlyGitHub
  <2> DEFINE patches == [j \in 1..k |-> Len(log) + j]
             r == [Repository!NoPull EXCEPT !.state = "open", !.base = b, !.head = Len(log')]
  <2>1. k \in Nat
    BY <1>8 DEF Repository!Open, Repository!Room
  <2>2. patches \in Seq(Nat) /\ Len(patches) = k
    BY <1>1, <2>1 DEF n
  <2>3. log' = Repository!Grown(from, patches)
    BY <1>8 DEF Repository!Open
  <2> HIDE DEF patches
  <2>4. LogOK(log') /\ Longer(log, log') /\ Len(log') = n + k
    BY <1>1, <2>1, <2>2, <2>3, GrownGrows DEF n
  <2>5. Len(log') \in 1..Len(log')
    BY <1>1, <2>1, <2>4
  <2>6. PICK o : o = Repository!NoPull
    OBVIOUS
  <2>7. IsPull(r) /\ r.head = Len(log') /\ r.base = b
    <3>1. IsPull(o) /\ r = [o EXCEPT !.state = "open", !.base = b, !.head = Len(log')]
      BY <2>6, NoPullIs
    <3> HIDE DEF r
    <3>2. r = [state |-> "open", base |-> b, head |-> Len(log'), at |-> o.at, merge |-> o.merge,
               originals |-> o.originals, brought |-> o.brought]
      BY <3>1 DEF IsPull
    <3> QED
      BY <3>2 DEF IsPull
  <2>8. pulls' = [pulls EXCEPT ![p] = r] /\ UNCHANGED branches /\ OnlyGitHub
    BY <1>4, <1>8 DEF Repository!Open
  <2> HIDE DEF r
  <2> QED
    BY <1>8, <2>4, <2>5, <2>7, <2>8, PullChanges
<1>9. ASSUME NEW p \in Pulls, Repository!UpdateBranch(p)
      PROVE  HistoryOK' /\ Longer(log, log') /\ OnlyGitHub
  <2> DEFINE r == [pulls[p] EXCEPT !.head = Len(log')]
             parents == <<pulls[p].head, branches[pulls[p].base]>>
  <2>1. pulls[p].state = "open" /\ parents \in Seq(1..n)
    BY <1>1, <1>2, <1>3, <1>9 DEF Repository!UpdateBranch
  <2>2. log' = Repository!Append1(parents, 0)
    BY <1>9 DEF Repository!UpdateBranch
  <2> HIDE DEF parents
  <2>3. LogOK(log') /\ Longer(log, log') /\ Len(log') = n + 1
    BY <1>1, <2>1, <2>2, AppendGrows DEF n
  <2>4. Len(log') \in 1..Len(log')
    BY <1>1, <2>3
  <2>5. IsPull(pulls[p])
    BY DEF HistoryOK
  <2>6. r = [state |-> pulls[p].state, base |-> pulls[p].base, head |-> Len(log'), at |-> pulls[p].at,
             merge |-> pulls[p].merge, originals |-> pulls[p].originals, brought |-> pulls[p].brought]
    BY <2>5 DEF IsPull
  <2>7. IsPull(r) /\ r.head = Len(log') /\ r.base = pulls[p].base
    BY <2>6 DEF IsPull
  <2>8. pulls' = [pulls EXCEPT ![p] = r] /\ UNCHANGED branches
    BY <1>9 DEF Repository!UpdateBranch
  <2> HIDE DEF r
  <2> QED
    BY <1>2, <1>4, <1>9, <2>1, <2>3, <2>4, <2>7, <2>8, PullChanges DEF Repository!UpdateBranch
<1>10. ASSUME NEW p \in Pulls, Repository!Merge(p) \/ Repository!Squash(p)
       PROVE  HistoryOK' /\ Longer(log, log') /\ OnlyGitHub
  <2> DEFINE b == pulls[p].base
  <2>1. pulls[p].state = "open" /\ b \in Sources /\ pulls[p].head \in 1..n /\ branches[b] \in 1..n
    BY <1>1, <1>2, <1>10 DEF Repository!Merge, Repository!Squash
  <2>2. <<branches[b], pulls[p].head>> \in Seq(1..n) /\ <<branches[b]>> \in Seq(1..n)
    BY <1>3, <2>1
  <2>3. /\ \E parents \in Seq(1..n) : \E patch : log' = Repository!Append1(parents, patch)
        /\ branches' = [branches EXCEPT ![b] = Len(log')]
        /\ pulls' = Repository!Landed(b, log', Len(log'), p)
        /\ OnlyGitHub
    <3>1. CASE Repository!Merge(p)
      BY <1>4, <2>2, <3>1 DEF Repository!Merge
    <3>2. CASE Repository!Squash(p)
      BY <1>4, <2>2, <3>2 DEF Repository!Squash
    <3> QED
      BY <1>10, <3>1, <3>2
  <2> QED
    BY <1>6, <2>1, <2>3
<1>11. ASSUME NEW p \in Pulls, Repository!Rebase(p)
       PROVE  HistoryOK' /\ Longer(log, log') /\ OnlyGitHub
  <2> DEFINE b == pulls[p].base
             own == Repository!TopoOrder(log, branches[b], pulls[p].head)
             patches == [k \in 1..Len(own) |-> log[own[k]].patch]
             S == {log[own[k]].patch : k \in 1..Len(own)}
  <2>1. pulls[p].state = "open" /\ b \in Sources /\ branches[b] \in 1..n
    BY <1>1, <1>2, <1>11 DEF Repository!Rebase
  <2>2. Len(own) \in Nat
    BY <1>11 DEF Repository!Rebase, Repository!Room
  <2>3. patches \in [1..Len(own) -> S]
    OBVIOUS
  <2>4. log' = Repository!Grown(branches[b], patches)
    BY <1>11 DEF Repository!Rebase, Repository!Copies
  <2>5. /\ branches' = [branches EXCEPT ![b] = Len(log')]
        /\ pulls' = Repository!Landed(b, log', Len(log'), p) /\ OnlyGitHub
    BY <1>4, <1>11 DEF Repository!Rebase
  <2> HIDE DEF own, S, patches, b
  <2>6. patches \in Seq(S) /\ Len(patches) = Len(own)
    BY <2>2, <2>3
  <2>7. LogOK(log') /\ Longer(log, log') /\ Len(log') = n + Len(own)
    BY <1>1, <2>1, <2>2, <2>4, <2>6, GrownGrows DEF n
  <2>8. Len(log') \in 1..Len(log')
    <3>1. n >= 1
      BY <1>1, <2>1
    <3> QED
      BY <1>1, <2>2, <2>7, <3>1
  <2> QED
    BY <1>1, <2>1, <2>5, <2>7, <2>8, BranchLands
<1>12. ASSUME NEW c \in 1..n, Repository!Release(c) PROVE HistoryOK' /\ Longer(log, log') /\ OnlyGitHub
  BY <1>1, <1>4, <1>12, BranchMoves DEF Repository!Release, n
<1>13. ASSUME NEW c \in 1..n, Repository!CherryPick(c) PROVE HistoryOK' /\ Longer(log, log') /\ OnlyGitHub
  BY <1>1, <1>3, <1>4, <1>6, <1>13 DEF Repository!CherryPick
<1>14. ASSUME Repository!MergeBack
       PROVE  HistoryOK' /\ Longer(log, log') /\ OnlyGitHub
  BY <1>1, <1>3, <1>4, <1>6, <1>14 DEF Repository!MergeBack
<1>15. ASSUME NEW amended \in BOOLEAN, Repository!ForcePush(amended)
       PROVE  HistoryOK' /\ Longer(log, log') /\ OnlyGitHub
  <2> DEFINE b == projected.branch
             below == Repository!FirstParent(log, branches[b])
  <2>1. below # 0 /\ branches[b] \in 1..n
    BY <1>1, <1>15 DEF Repository!ForcePush, Repository!NoCommit
  <2>2. log[branches[b]].parents \in Seq(1..(branches[b] - 1))
    BY <1>1, <2>1 DEF LogOK, n
  <2>3. below = log[branches[b]].parents[1] /\ log[branches[b]].parents # <<>>
    BY <2>1 DEF Repository!FirstParent
  <2>4. below \in 1..(branches[b] - 1)
    <3> DEFINE s == log[branches[b]].parents
    <3> HIDE DEF s
    <3>1. ASSUME NEW T, s \in Seq(T), s # <<>> PROVE s[1] \in T
      BY <3>1
    <3> QED
      BY <2>2, <2>3, <3>1 DEF s
  <2>5. below \in 1..n
    BY <1>1, <2>1, <2>4
  <2>6. CASE amended
    <3>1. log' = Repository!Append1(<<below>>, log[branches[b]].patch)
          /\ branches' = [branches EXCEPT ![b] = Len(log')] /\ UNCHANGED pulls
      BY <1>15, <2>6 DEF Repository!ForcePush
    <3>2. OnlyGitHub
      BY <1>4, <1>15 DEF Repository!ForcePush
    <3> QED
      BY <1>3, <1>6, <1>15, <2>5, <3>1, <3>2
  <2>7. CASE ~amended
    <3>1. UNCHANGED <<log, pulls>> /\ branches' = [branches EXCEPT ![b] = below]
      BY <1>15, <2>7 DEF Repository!ForcePush
    <3>2. OnlyGitHub
      BY <1>4, <1>15 DEF Repository!ForcePush
    <3> QED
      BY <1>1, <1>15, <2>5, <3>1, <3>2, BranchMoves DEF n
  <2> QED
    BY <2>6, <2>7
<1> QED
  BY <1>7, <1>8, <1>9, <1>10, <1>11, <1>12, <1>13, <1>14, <1>15
     DEF Repository!GitHub, Repository!Commits, n

-----------------------------------------------------------------------------
(* Decisions about changes                                                  *)

ProjectRow == [status : {"initializing", "active", "degraded"}, branch : Sources, projected : BOOLEAN,
               configuration : Nat, epoch : Nat, source : Nat, production : Nat]

Descends(source, production, from) == source \in log[from.source].reach /\ production \in log[from.production].reach

ProjectOK ==
  /\ projected \in ProjectRow
  /\ projected.source \in 1..Len(log) /\ projected.production \in 1..Len(log)

(* A decision of the current epoch and configuration was made on ancestors  *)
(* of the projected heads.                                                  *)
QaOK ==
  /\ \E S : qa \in Seq(S)
  /\ \A k \in 1..Len(qa) :
       /\ qa[k].epoch \in 0..projected.epoch /\ qa[k].configuration \in 0..projected.configuration
       /\ qa[k].epoch = projected.epoch /\ qa[k].configuration = projected.configuration =>
            Descends(qa[k].source, qa[k].production, projected)

(* A reconciliation has archived the projection, so that no decision is     *)
(* current, or its heads descend from the projected ones.                   *)
RunOK ==
  /\ run.pc \in {"idle", "read", "retry"} /\ run.archived \in BOOLEAN
  /\ run.pc = "idle" => ~run.archived
  /\ run.pc # "idle" => /\ run.source \in 1..Len(log) /\ run.production \in 1..Len(log)
                        /\ run.configuration \in 0..projected.configuration
  /\ run.archived => /\ projected.status # "active"
                     /\ \A k \in 1..Len(qa) : qa[k].epoch < projected.epoch
  /\ run.pc = "read" /\ run.configuration = projected.configuration /\ ~run.archived =>
       Descends(projected.source, projected.production, run)

QInv == HistoryOK /\ ProjectOK /\ QaOK /\ RunOK

LEMMA NoRunIs == Repository!NoRun.pc = "idle" /\ Repository!NoRun.archived = FALSE
BY DEF Repository!NoRun

LEMMA RunBegun ==
  ASSUME NEW rewritten \in BOOLEAN, Repository!Begin(rewritten)
  PROVE  /\ run'.pc = "read" /\ run'.configuration = projected.configuration
         /\ run'.source = branches[projected.branch] /\ run'.production = branches[Repository!Production]
         /\ run'.rewritten = rewritten
         /\ run'.unknown = IF projected.projected THEN Repository!Unknown ELSE {}
         /\ run'.stored = Repository!StoredProjection
         /\ run'.archived = (run.archived \/ rewritten)
<1>1. PICK o : o = Repository!NoRun
  OBVIOUS
<1>2. o = [pc |-> o.pc, source |-> o.source, production |-> o.production,
           configuration |-> o.configuration, rewritten |-> o.rewritten, unknown |-> o.unknown,
           stored |-> o.stored, archived |-> o.archived]
  BY <1>1 DEF Repository!NoRun
<1>3. run' = [o EXCEPT !.pc = "read",
               !.source = Repository!Observed.source, !.production = Repository!Observed.production,
               !.configuration = projected.configuration,
               !.rewritten = rewritten,
               !.unknown = IF projected.projected THEN Repository!Unknown ELSE {},
               !.stored = Repository!StoredProjection,
               !.archived = run.archived \/ rewritten]
  BY <1>1 DEF Repository!Begin
<1>4. run' = [pc |-> "read",
              source |-> Repository!Observed.source, production |-> Repository!Observed.production,
              configuration |-> projected.configuration, rewritten |-> rewritten,
              unknown |-> IF projected.projected THEN Repository!Unknown ELSE {},
              stored |-> Repository!StoredProjection,
              archived |-> run.archived \/ rewritten]
  BY <1>2, <1>3
<1>5. Repository!Observed.source = branches[projected.branch]
      /\ Repository!Observed.production = branches[Repository!Production]
  BY DEF Repository!Observed
<1> QED
  BY <1>4, <1>5

LEMMA RunCrashed ==
  ASSUME Repository!Crash
  PROVE  /\ run'.pc = "retry" /\ run'.source = run.source /\ run'.production = run.production
         /\ run'.configuration = run.configuration /\ run'.archived = run.archived
<1>1. PICK o : o = Repository!NoRun
  OBVIOUS
<1>2. o = [pc |-> o.pc, source |-> o.source, production |-> o.production,
           configuration |-> o.configuration, rewritten |-> o.rewritten, unknown |-> o.unknown,
           stored |-> o.stored, archived |-> o.archived]
  BY <1>1 DEF Repository!NoRun
<1>3. run' = [o EXCEPT !.pc = "retry", !.source = run.source, !.production = run.production,
               !.configuration = run.configuration, !.archived = run.archived]
  BY <1>1 DEF Repository!Crash
<1>4. run' = [pc |-> "retry", source |-> run.source, production |-> run.production,
              configuration |-> run.configuration, rewritten |-> o.rewritten, unknown |-> o.unknown,
              stored |-> o.stored, archived |-> run.archived]
  BY <1>2, <1>3
<1> QED
  BY <1>4

LEMMA OnlyGitHubKeeps ==
  ASSUME QInv, HistoryOK', Longer(log, log'), UNCHANGED <<projected, qa, run>>
  PROVE  QInv'
<1>1. Len(log) \in Nat /\ Len(log') \in Nat /\ Len(log) <= Len(log')
  BY CommitNumbers DEF QInv, HistoryOK, LogOK, Longer
<1>2. \A c \in 1..Len(log) : c \in 1..Len(log') /\ log'[c] = log[c]
  BY <1>1 DEF Longer
<1>3. ProjectOK'
  BY <1>2 DEF QInv, ProjectOK
<1>4. QaOK'
  BY <1>2 DEF QInv, ProjectOK, QaOK, Descends
<1>5. RunOK'
  BY <1>2 DEF QInv, ProjectOK, RunOK, Descends
<1> QED
  BY <1>3, <1>4, <1>5 DEF QInv

LEMMA BeginKeeps ==
  ASSUME QInv, NEW rewritten \in BOOLEAN, Repository!Begin(rewritten), UNCHANGED <<log, branches, pulls, qa>>,
         rewritten = Repository!Rewritten(branches[projected.branch], branches[Repository!Production])
  PROVE  QInv'
<1>1. /\ run'.pc = "read" /\ run'.configuration = projected.configuration
      /\ run'.source = branches[projected.branch] /\ run'.production = branches[Repository!Production]
      /\ run'.archived = (run.archived \/ rewritten)
  BY RunBegun
<1>2. projected' = IF rewritten THEN [projected EXCEPT !.status = "degraded",
                        !.epoch = IF run.archived THEN @ ELSE @ + 1]
                   ELSE projected
  BY DEF Repository!Begin
<1>3. HistoryOK'
  BY DEF QInv, HistoryOK
<1>4. projected \in ProjectRow /\ run.archived \in BOOLEAN
  BY DEF QInv, ProjectOK, RunOK
<1>5. /\ projected' \in ProjectRow /\ projected'.configuration = projected.configuration
      /\ projected'.source = projected.source /\ projected'.production = projected.production
      /\ rewritten => projected'.status = "degraded"
      /\ ~rewritten => projected' = projected
      /\ projected'.epoch = IF rewritten /\ ~run.archived THEN projected.epoch + 1 ELSE projected.epoch
  <2>1. CASE ~rewritten
    BY <1>2, <1>4, <2>1
  <2>2. CASE rewritten
    <3>1. projected.epoch \in Nat
      BY <1>4 DEF ProjectRow
    <3>2. PICK e \in Nat : e = IF run.archived THEN projected.epoch ELSE projected.epoch + 1
      BY <3>1
    <3>3. projected' = [projected EXCEPT !.status = "degraded", !.epoch = e]
      BY <1>2, <2>2, <3>2
    <3>4. projected' = [status |-> "degraded", branch |-> projected.branch,
             projected |-> projected.projected, configuration |-> projected.configuration,
             epoch |-> e, source |-> projected.source, production |-> projected.production]
      BY <1>4, <3>3 DEF ProjectRow
    <3> QED
      BY <1>4, <2>2, <3>2, <3>4 DEF ProjectRow
  <2> QED
    BY <2>1, <2>2
<1>6. ProjectOK'
  BY <1>5 DEF QInv, ProjectOK
<1>7. \A k \in 1..Len(qa) : /\ qa[k].epoch \in Nat /\ qa[k].epoch <= projected.epoch
                            /\ qa[k].configuration \in 0..projected.configuration
  BY <1>4 DEF QInv, QaOK, ProjectRow
<1>8. projected.epoch \in Nat
  BY <1>4 DEF ProjectRow
<1>9. QaOK'
  <2>1. ASSUME NEW k \in 1..Len(qa)
        PROVE  /\ qa[k].epoch \in 0..projected'.epoch
               /\ qa[k].epoch = projected'.epoch => qa[k].epoch = projected.epoch
    BY <1>5, <1>7, <1>8
  <2> QED
    BY <1>5, <2>1 DEF QInv, QaOK, Descends
<1>10. RunOK'
  <2>1. /\ run'.source \in 1..Len(log) /\ run'.production \in 1..Len(log)
        /\ run'.configuration \in 0..projected'.configuration
    BY <1>1, <1>4, <1>5 DEF QInv, HistoryOK, Protected, ProjectRow
  <2>2. ASSUME run'.archived
        PROVE  projected'.status # "active" /\ \A k \in 1..Len(qa) : qa[k].epoch < projected'.epoch
    BY <1>1, <1>5, <1>7, <1>8, <2>2 DEF QInv, RunOK
  <2>3. ASSUME ~run'.archived PROVE Descends(projected.source, projected.production, run')
    BY <1>1, <2>3 DEF Repository!Rewritten, Repository!IsAncestor, Descends
  <2> QED
    BY <1>1, <1>4, <1>5, <2>1, <2>2, <2>3 DEF RunOK, Descends
<1> QED
  BY <1>3, <1>6, <1>9, <1>10 DEF QInv

LEMMA FailKeeps ==
  ASSUME QInv, run' = Repository!NoRun, UNCHANGED <<log, branches, pulls, qa>>,
         projected' \in {projected, [projected EXCEPT !.status = "degraded"]}
  PROVE  QInv'
<1>1. projected \in ProjectRow
  BY DEF QInv, ProjectOK
<1>2. /\ projected' \in ProjectRow /\ projected'.configuration = projected.configuration
      /\ projected'.source = projected.source /\ projected'.production = projected.production
      /\ projected'.epoch = projected.epoch
  BY <1>1 DEF ProjectRow
<1>3. HistoryOK' /\ ProjectOK'
  BY <1>2 DEF QInv, HistoryOK, ProjectOK
<1>4. QaOK'
  BY <1>2 DEF QInv, QaOK, Descends
<1>5. RunOK'
  BY NoRunIs DEF RunOK
<1> QED
  BY <1>3, <1>4, <1>5 DEF QInv

LEMMA AppliedRow ==
  ASSUME projected \in ProjectRow, NEW git, NEW attribution, Repository!Apply(git, attribution)
  PROVE  \E status \in {"active", "degraded"} :
           projected' = [status |-> status, branch |-> projected.branch, projected |-> TRUE,
                         configuration |-> projected.configuration, epoch |-> projected.epoch,
                         source |-> git.source, production |-> git.production]
<1>1. PICK status \in {"active", "degraded"} :
        projected' = [projected EXCEPT !.status = status, !.projected = TRUE,
                        !.source = git.source, !.production = git.production]
  BY DEF Repository!Apply
<1> QED
  BY <1>1 DEF ProjectRow

LEMMA ApplyKeeps ==
  ASSUME QInv, run' = Repository!NoRun, UNCHANGED <<log, branches, pulls, qa>>,
         run.pc = "read", run.configuration = projected.configuration,
         NEW git, NEW attribution, Repository!Apply(git, attribution),
         git.source = run.source, git.production = run.production
  PROVE  QInv'
<1>1. projected \in ProjectRow
  BY DEF QInv, ProjectOK
<1>2. PICK status \in {"active", "degraded"} :
           projected' = [status |-> status, branch |-> projected.branch, projected |-> TRUE,
                         configuration |-> projected.configuration, epoch |-> projected.epoch,
                         source |-> run.source, production |-> run.production]
  BY <1>1, AppliedRow
<1>3. run.source \in 1..Len(log) /\ run.production \in 1..Len(log)
  BY DEF QInv, RunOK
<1>4. /\ projected' \in ProjectRow /\ projected'.configuration = projected.configuration
      /\ projected'.source = run.source /\ projected'.production = run.production
      /\ projected'.epoch = projected.epoch
  BY <1>1, <1>2, <1>3 DEF ProjectRow
<1>5. HistoryOK' /\ ProjectOK'
  BY <1>3, <1>4 DEF QInv, HistoryOK, ProjectOK
<1>6. ASSUME NEW k \in 1..Len(qa), qa[k].epoch = projected.epoch,
             qa[k].configuration = projected.configuration
      PROVE  Descends(qa[k].source, qa[k].production, run)
  <2>1. Descends(qa[k].source, qa[k].production, projected)
    BY <1>6 DEF QInv, QaOK
  <2>2. ~run.archived
    <3>1. projected.epoch \in Nat
      BY <1>1 DEF ProjectRow
    <3> QED
      BY <1>6, <3>1 DEF QInv, RunOK
  <2>3. Descends(projected.source, projected.production, run)
    BY <2>2 DEF QInv, RunOK
  <2> QED
    BY <1>3, <2>1, <2>3 DEF Descends, QInv, HistoryOK, LogOK
<1>7. QaOK'
  BY <1>4, <1>6 DEF QInv, QaOK, Descends
<1>8. RunOK'
  BY NoRunIs DEF RunOK
<1> QED
  BY <1>5, <1>7, <1>8 DEF QInv

LEMMA SnapshotHeads ==
  ASSUME NEW l, NEW production, NEW source
  PROVE  /\ Repository!GitSnapshot(l, production, source).source = source
         /\ Repository!GitSnapshot(l, production, source).production = production
BY DEF Repository!GitSnapshot

LEMMA FinishKeeps ==
  ASSUME QInv, NEW answers, Repository!Finish(answers)
  PROVE  QInv'
<1> DEFINE git == Repository!GitSnapshot(log, run.production, run.source)
           attribution == Repository!Attribution(log, pulls, projected.branch, git, answers)
<1>1. git.source = run.source /\ git.production = run.production
  BY SnapshotHeads
<1>2. run.pc = "read" /\ run' = Repository!NoRun /\ UNCHANGED <<log, branches, pulls, qa>>
  BY DEF Repository!Finish, Repository!github
<1>3. \/ projected' \in {projected, [projected EXCEPT !.status = "degraded"]}
      \/ run.configuration = projected.configuration /\ Repository!Apply(git, attribution)
  BY DEF Repository!Finish
<1> HIDE DEF git, attribution
<1> QED
  BY <1>1, <1>2, <1>3, FailKeeps, ApplyKeeps

LEMMA RetryKeeps ==
  ASSUME QInv, Repository!Retry
  PROVE  QInv'
<1>1. UNCHANGED <<log, branches, pulls, qa>>
  BY DEF Repository!Retry, Repository!github
<1>2. CASE run' = Repository!NoRun /\ UNCHANGED projected
  BY <1>1, <1>2, FailKeeps
<1>3. CASE /\ run.source = Repository!Observed.source /\ run.production = Repository!Observed.production
           /\ Repository!Begin(Repository!Rewritten(run.source, run.production))
  <2>1. run.source = branches[projected.branch] /\ run.production = branches[Repository!Production]
    BY <1>3 DEF Repository!Observed
  <2>2. Repository!Rewritten(run.source, run.production) \in BOOLEAN
    BY DEF Repository!Rewritten
  <2> QED
    BY <1>1, <1>3, <2>1, <2>2, BeginKeeps
<1> QED
  BY <1>2, <1>3 DEF Repository!Retry

LEMMA StartKeeps ==
  ASSUME QInv, Repository!Start
  PROVE  QInv'
<1>1. UNCHANGED <<log, branches, pulls, qa>>
  BY DEF Repository!Start, Repository!github
<1>2. Repository!Begin(Repository!Rewritten(branches[projected.branch], branches[Repository!Production]))
  BY DEF Repository!Start, Repository!Observed
<1>3. Repository!Rewritten(branches[projected.branch], branches[Repository!Production]) \in BOOLEAN
  BY DEF Repository!Rewritten
<1> QED
  BY <1>1, <1>2, <1>3, BeginKeeps

LEMMA CrashKeeps ==
  ASSUME QInv, Repository!Crash
  PROVE  QInv'
<1>1. UNCHANGED <<log, branches, pulls, qa, projected>> /\ run.pc = "read"
  BY DEF Repository!Crash, Repository!github
<1>2. HistoryOK' /\ ProjectOK' /\ QaOK'
  BY <1>1 DEF QInv, HistoryOK, ProjectOK, QaOK, Descends
<1>3. RunOK'
  BY <1>1, RunCrashed DEF QInv, RunOK
<1> QED
  BY <1>2, <1>3 DEF QInv

LEMMA ConfigureKeeps ==
  ASSUME QInv, NEW b \in Sources, Repository!Configure(b)
  PROVE  QInv'
<1>1. UNCHANGED <<log, branches, pulls, qa, run>>
  BY DEF Repository!Configure, Repository!github
<1>2. projected \in ProjectRow /\ projected.configuration \in Nat
  BY DEF QInv, ProjectOK, ProjectRow
<1>3. branches[b] \in 1..Len(log) /\ branches[Repository!Production] \in 1..Len(log)
  BY DEF QInv, HistoryOK, Protected
<1>4. projected' = [status |-> "initializing", branch |-> b, projected |-> FALSE,
                    configuration |-> projected.configuration + 1, epoch |-> projected.epoch,
                    source |-> branches[b], production |-> branches[Repository!Production]]
  <2>1. projected' = [projected EXCEPT !.branch = b, !.status = "initializing",
                   !.projected = FALSE, !.configuration = projected.configuration + 1,
                   !.source = branches[b], !.production = branches[Repository!Production]]
    BY DEF Repository!Configure
  <2> QED
    BY <1>2, <2>1 DEF ProjectRow
<1>5. /\ projected' \in ProjectRow /\ projected'.configuration = projected.configuration + 1
      /\ projected'.epoch = projected.epoch /\ projected'.status = "initializing"
      /\ projected'.source \in 1..Len(log) /\ projected'.production \in 1..Len(log)
  BY <1>2, <1>3, <1>4 DEF ProjectRow
<1>6. HistoryOK' /\ ProjectOK'
  BY <1>1, <1>5 DEF QInv, HistoryOK, ProjectOK
<1>7. QaOK'
  <2>1. ASSUME NEW k \in 1..Len(qa)
        PROVE  /\ qa[k].configuration \in 0..(projected.configuration + 1)
               /\ qa[k].configuration # projected.configuration + 1
    BY <1>2 DEF QInv, QaOK
  <2> QED
    BY <1>1, <1>5, <2>1 DEF QInv, QaOK
<1>8. RunOK'
  <2>1. run.pc # "idle" => /\ run.configuration \in 0..projected'.configuration
                           /\ run.configuration # projected'.configuration
    BY <1>2, <1>5 DEF QInv, RunOK
  <2> QED
    BY <1>1, <1>2, <1>5, <2>1 DEF QInv, RunOK
<1> QED
  BY <1>6, <1>7, <1>8 DEF QInv

LEMMA RecordKeeps ==
  ASSUME QInv, NEW p \in Pulls, NEW status, Repository!RecordQa(p, status)
  PROVE  QInv'
<1> DEFINE e == [pull |-> p, row |-> rows[p].id, head |-> rows[p].head,
        commits |-> rows[p].commits, epoch |-> projected.epoch, status |-> status,
        source |-> projected.source, production |-> projected.production,
        configuration |-> projected.configuration]
<1>1. /\ UNCHANGED <<log, branches, pulls, projected, run>>
      /\ qa' = Append(qa, e) /\ projected.status = "active"
  BY DEF Repository!RecordQa, Repository!github
<1>2. PICK S : qa \in Seq(S)
  BY DEF QInv, QaOK
<1>3. /\ e.epoch = projected.epoch /\ e.configuration = projected.configuration
      /\ e.source = projected.source /\ e.production = projected.production
  OBVIOUS
<1> HIDE DEF e
<1>4. /\ qa' \in Seq(S \cup {e}) /\ Len(qa') = Len(qa) + 1 /\ Len(qa) \in Nat
      /\ qa'[Len(qa) + 1] = e /\ \A k \in 1..Len(qa) : qa'[k] = qa[k]
  <2>1. qa \in Seq(S \cup {e})
    BY <1>2
  <2> QED
    BY <1>1, <1>2, <2>1, AppendProperties
<1>5. HistoryOK' /\ ProjectOK'
  BY <1>1 DEF QInv, HistoryOK, ProjectOK
<1>6. projected.epoch \in Nat /\ projected.configuration \in Nat
  BY DEF QInv, ProjectOK, ProjectRow
<1>7. QaOK'
  <2>1. ASSUME NEW k \in 1..Len(qa')
        PROVE  /\ qa'[k].epoch \in 0..projected.epoch /\ qa'[k].configuration \in 0..projected.configuration
               /\ qa'[k].epoch = projected.epoch /\ qa'[k].configuration = projected.configuration =>
                    Descends(qa'[k].source, qa'[k].production, projected)
    <3>1. CASE k \in 1..Len(qa)
      BY <1>4, <3>1 DEF QInv, QaOK
    <3>2. CASE k = Len(qa) + 1
      <4>1. Descends(projected.source, projected.production, projected)
        BY DEF QInv, HistoryOK, LogOK, ProjectOK, Descends
      <4>2. projected.epoch \in 0..projected.epoch /\ projected.configuration \in 0..projected.configuration
        BY <1>6
      <4> QED
        BY <1>3, <1>4, <3>2, <4>1, <4>2
    <3> QED
      BY <1>4, <3>1, <3>2
  <2> QED
    BY <1>1, <1>4, <2>1 DEF QaOK, Descends
<1>8. RunOK'
  <2>1. ~run.archived
    BY <1>1 DEF QInv, RunOK
  <2> QED
    BY <1>1, <2>1 DEF QInv, RunOK, Descends
<1> QED
  BY <1>5, <1>7, <1>8 DEF QInv

LEMMA QaInit == Repository!Init => QInv
<1> SUFFICES ASSUME Repository!Init PROVE QInv
  OBVIOUS
<1>1. log = <<Repository!NewCommit(<<>>, <<>>, 1)>>
  BY DEF Repository!Init
<1>2. LogOK(log) /\ Len(log) = 1
  <2> DEFINE e == Repository!NewCommit(<<>>, <<>>, 1)
  <2>1. e.parents = <<>> /\ e.reach = {1}
    BY DEF Repository!NewCommit, Repository!ToSet
  <2> HIDE DEF e
  <2>2. log \in Seq({e}) /\ Len(log) = 1 /\ log[1] = e
    BY <1>1 DEF e
  <2>3. <<>> \in Seq(1..0)
    OBVIOUS
  <2>4. \A c \in 1..Len(log) : c = 1 /\ c - 1 = 0 /\ 1..c = {1} /\ log[c] = e
    BY <2>2
  <2> QED
    BY <2>1, <2>2, <2>3, <2>4 DEF LogOK
<1>3. HistoryOK
  <2>1. branches \in [Protected -> 1..Len(log)]
    BY <1>2 DEF Repository!Init, Protected
  <2>2. pulls = [p \in Pulls |-> Repository!NoPull]
    BY DEF Repository!Init
  <2> QED
    BY <1>2, <2>1, <2>2, NoPullIs DEF HistoryOK
<1>4. ProjectOK
  BY <1>2 DEF Repository!Init, ProjectOK, ProjectRow
<1>5. qa = <<>> /\ run = Repository!NoRun
  BY DEF Repository!Init
<1>6. QaOK
  BY <1>5 DEF QaOK
<1>7. RunOK
  BY <1>5, NoRunIs DEF RunOK
<1> QED
  BY <1>3, <1>4, <1>6, <1>7 DEF QInv

LEMMA QaNext == QInv /\ [Repository!Next]_(Repository!vars) => QInv'
<1> SUFFICES ASSUME QInv, [Repository!Next]_(Repository!vars) PROVE QInv'
  OBVIOUS
<1>1. CASE Repository!GitHub
  <2>1. projected.branch \in Sources
    BY DEF QInv, ProjectOK, ProjectRow
  <2> QED
    BY <1>1, <2>1, GitHubGrows, OnlyGitHubKeeps DEF QInv, OnlyGitHub
<1>2. CASE Repository!Start
  BY <1>2, StartKeeps
<1>3. CASE Repository!Retry
  BY <1>3, RetryKeeps
<1>4. CASE Repository!Crash
  BY <1>4, CrashKeeps
<1>5. CASE \E answers \in Repository!Answers : Repository!Finish(answers)
  BY <1>5, FinishKeeps
<1>6. CASE \E p \in Pulls, status \in {"passed", "failed"} : Repository!RecordQa(p, status)
  BY <1>6, RecordKeeps
<1>7. CASE \E b \in Sources : Repository!Configure(b)
  BY <1>7, ConfigureKeeps
<1>8. CASE UNCHANGED Repository!vars
  BY <1>8 DEF Repository!vars, QInv, HistoryOK, ProjectOK, QaOK, RunOK, Descends
<1> QED
  BY <1>1, <1>2, <1>3, <1>4, <1>5, <1>6, <1>7, <1>8 DEF Repository!Next

(* The decision in effect is one of those that were recorded.               *)
LEMMA EffectiveRecorded ==
  ASSUME QInv, NEW p, Repository!Effective(p) # 0
  PROVE  /\ Repository!Effective(p) \in 1..Len(qa)
         /\ qa[Repository!Effective(p)].epoch = projected.epoch
<1> DEFINE current == {k \in DOMAIN qa :
        /\ qa[k].row = rows[p].id /\ qa[k].pull = p
        /\ qa[k].head = rows[p].head /\ qa[k].commits = rows[p].commits
        /\ qa[k].epoch = projected.epoch}
<1>1. PICK S : qa \in Seq(S)
  BY DEF QInv, QaOK
<1>2. Repository!Effective(p) = Repository!Max(current) /\ current # {}
  BY DEF Repository!Effective
<1>3. Len(qa) \in Nat /\ DOMAIN qa = 1..Len(qa)
  BY <1>1
<1>4. current \in SUBSET (1..Len(qa)) /\ \A k \in current : qa[k].epoch = projected.epoch
  BY <1>3
<1> HIDE DEF current
<1> QED
  BY <1>2, <1>3, <1>4, MaxIsMember

(* A QA decision does not outlive a rewrite: the log only grows and its     *)
(* reach is transitive, a reconciliation that sees a rewrite starts a new   *)
(* epoch and any other leaves heads that descend from the projected ones    *)
(* (archiveRepositoryProjectionInTransaction, qa_epoch).                    *)
THEOREM DecisionsEnd == Repository!Spec => []RewriteResetsQa
<1>1. QInv => RewriteResetsQa
  <2> SUFFICES ASSUME QInv, NEW p \in Pulls, Repository!Effective(p) # 0,
                      qa[Repository!Effective(p)].configuration = projected.configuration
               PROVE  Descends(qa[Repository!Effective(p)].source, qa[Repository!Effective(p)].production, projected)
    BY DEF RewriteResetsQa, Repository!RewriteResetsQa, Repository!IsAncestor, Descends
  <2> QED
    BY EffectiveRecorded DEF QInv, QaOK
<1> QED
  BY <1>1, QaInit, QaNext, PTL DEF Repository!Spec

-----------------------------------------------------------------------------
(* A repository that stands still                                           *)

IsRow(r) ==
  r = [id |-> r.id, state |-> r.state, presence |-> r.presence, commits |-> r.commits,
       integration |-> r.integration, head |-> r.head]

Git == Repository!GitSnapshot(log, projected.production, projected.source)
Found == Repository!Attribution(log, pulls, projected.branch, Git, Repository!FullAnswer)

(* The rows are those of the changes that are found, and unknown ones.      *)
RowsFound ==
  \A p \in Pulls :
    IF p \in DOMAIN Found.changes
    THEN rows[p] = [Repository!Changes(Found)[p] EXCEPT !.id = rows[p].id]
    ELSE rows[p] = Repository!NoRow \/ rows[p].state = "unknown"

(* What a reconciliation that is running has read is what the rows hold.    *)
RunCurrent ==
  /\ run.pc # "idle" => /\ run.source = projected.source /\ run.production = projected.production
                        /\ run.configuration = projected.configuration
  /\ run.pc = "read" => /\ ~run.rewritten /\ run.unknown = Repository!Unknown
                        /\ run.stored = Repository!StoredProjection

(* The projection is that of the heads, with full answers.                  *)
Settled ==
  /\ projected.projected
  /\ projected.source = branches[projected.branch]
  /\ projected.production = branches[Repository!Production]
  /\ Repository!IsAncestor(log, projected.production, projected.source)
  /\ Repository!SnapshotIsCoherent(log, pulls, Git, Found)
  /\ last = Repository!Fingerprint(Git, Found)
  /\ RowsFound /\ RunCurrent

Steady == projected.status = IF Repository!Unknown = {} THEN "active" ELSE "degraded"

SInv ==
  /\ rows = [p \in Pulls |-> rows[p]] /\ \A p \in Pulls : IsRow(rows[p])
  /\ quiet \in 0..3
  /\ quiet >= 1 => Settled
  /\ quiet >= 2 => Steady
  /\ outcome = "applied" => quiet <= 2

LEMMA FoundAmongPulls ==
  ASSUME NEW l, NEW ps, NEW branch, NEW git, NEW answers
  PROVE  /\ DOMAIN Repository!Attribution(l, ps, branch, git, answers).changes \subseteq Pulls
<1>1. ASSUME NEW result, NEW doubtful
      PROVE  DOMAIN Repository!Settled(ps, git, result, doubtful).changes \subseteq DOMAIN result
  BY DEF Repository!Settled
<1>2. \E result, doubtful : /\ Repository!Attribution(l, ps, branch, git, answers)
                                 = Repository!Settled(ps, git, result, doubtful)
                            /\ DOMAIN result \subseteq Pulls
  <2> DEFINE delta == Repository!ToSet(git.delta)
             evidence == [c \in delta |-> Repository!CommitEvidence(ps, branch, answers, c)]
             contested == {c \in delta : \/ evidence[c].contradictory
                                         \/ Repository!Cardinality(evidence[c].candidates) > 1}
             provisional == [p \in Pulls |-> Repository!Provisional(git, evidence, contested, p)]
             asked == {p \in Pulls : provisional[p] # <<>>}
             unreadable == asked \cap answers.garbled
             result == [p \in asked \ unreadable |->
                         Repository!AttributePull(l, ps, evidence, git, p, provisional[p])]
             doubtful == contested \cup UNION {Repository!ToSet(provisional[p]) : p \in unreadable}
  <2>1. Repository!Attribution(l, ps, branch, git, answers) = Repository!Settled(ps, git, result, doubtful)
    BY DEF Repository!Attribution
  <2>2. DOMAIN result \subseteq Pulls
    OBVIOUS
  <2> HIDE DEF result, doubtful
  <2> QED
    BY <2>1, <2>2
<1> QED
  BY <1>1, <1>2

LEMMA NoRowIs ==
  /\ Repository!NoRow = [id |-> 0, state |-> "absent", presence |-> "unknown", commits |-> <<>>,
                         integration |-> Repository!NoCommit, head |-> Repository!NoCommit]
  /\ IsRow(Repository!NoRow) /\ Repository!NoRow.state = "absent" /\ Repository!NoRow.id = 0
<1>1. Repository!NoRow = [id |-> 0, state |-> "absent", presence |-> "unknown", commits |-> <<>>,
                         integration |-> Repository!NoCommit, head |-> Repository!NoCommit]
  BY Zenon DEF Repository!NoRow
<1> QED
  BY <1>1 DEF IsRow

LEMMA ChangeRow ==
  ASSUME NEW attribution, NEW p \in DOMAIN attribution.changes
  PROVE  LET c == Repository!Changes(attribution)[p] IN
         /\ IsRow(c) /\ c.state = "known" /\ c.id = 0
         /\ DOMAIN Repository!Changes(attribution) = DOMAIN attribution.changes
<1> DEFINE c == Repository!Changes(attribution)[p]
<1>1. PICK o : o = Repository!NoRow
  OBVIOUS
<1>2. IsRow(o) /\ o.id = 0
  BY <1>1, NoRowIs
<1>3. /\ c = [o EXCEPT !.state = "known", !.head = pulls[p].head,
                !.presence = attribution.changes[p].presence,
                !.commits = attribution.changes[p].commits,
                !.integration = attribution.changes[p].integration]
      /\ DOMAIN Repository!Changes(attribution) = DOMAIN attribution.changes
  BY <1>1 DEF Repository!Changes
<1> HIDE DEF c
<1>4. c = [id |-> 0, state |-> "known", presence |-> attribution.changes[p].presence,
           commits |-> attribution.changes[p].commits,
           integration |-> attribution.changes[p].integration, head |-> pulls[p].head]
  BY <1>2, <1>3 DEF IsRow
<1>5. IsRow(c) /\ c.state = "known" /\ c.id = 0
  BY <1>4 DEF IsRow
<1> QED
  BY <1>3, <1>5 DEF c

(* A reconciliation of a repository that has settled.                       *)
LEMMA NothingFound ==
  ASSUME SInv, Settled, run.pc = "read",
         NEW changes, changes = Repository!Changes(Found)
  PROVE  /\ DOMAIN changes = DOMAIN Found.changes
         /\ Repository!NextRows(changes, FALSE) = rows
         /\ Repository!Classify(Repository!Fingerprint(Git, Found), DOMAIN changes) =
              IF Repository!Unknown = {} THEN "expected_change" ELSE "unknown_inconsistency"
<1> DEFINE D == DOMAIN Found.changes
<1>1. D \subseteq Pulls
  BY FoundAmongPulls DEF Found
<1>2. /\ \A p \in D : IsRow(changes[p]) /\ changes[p].state = "known" /\ changes[p].id = 0
      /\ DOMAIN changes = D /\ changes = [p \in D |-> changes[p]]
  BY ChangeRow DEF Repository!Changes
<1>3. ASSUME NEW p \in D
      PROVE  /\ rows[p] = [changes[p] EXCEPT !.id = rows[p].id]
             /\ rows[p].state = "known" /\ [rows[p] EXCEPT !.id = 0] = changes[p]
  <2>1. PICK c : c = changes[p]
    OBVIOUS
  <2>2. PICK i : i = rows[p].id
    OBVIOUS
  <2>3. PICK r : r = rows[p]
    OBVIOUS
  <2>4. c = [id |-> 0, state |-> "known", presence |-> c.presence, commits |-> c.commits,
             integration |-> c.integration, head |-> c.head]
    BY <1>2, <2>1 DEF IsRow
  <2>5. r = [c EXCEPT !.id = i]
    BY <1>1, <2>1, <2>2, <2>3 DEF Settled, RowsFound
  <2>6. r = [id |-> i, state |-> "known", presence |-> c.presence, commits |-> c.commits,
             integration |-> c.integration, head |-> c.head]
    BY <2>4, <2>5
  <2>7. r.state = "known"
    BY <2>6
  <2>8. PICK s : s = [r EXCEPT !.id = 0]
    OBVIOUS
  <2>9. s = [id |-> 0, state |-> "known", presence |-> c.presence, commits |-> c.commits,
             integration |-> c.integration, head |-> c.head]
    BY <2>6, <2>8
  <2> QED
    BY <2>1, <2>2, <2>3, <2>4, <2>5, <2>7, <2>8, <2>9
<1>4. \A p \in Pulls \ D : rows[p] = Repository!NoRow \/ rows[p].state = "unknown"
  BY DEF Settled, RowsFound
<1>5. Repository!Unknown \cap D = {} /\ Repository!Stored = D \cup Repository!Unknown
  BY <1>1, <1>3, <1>4, NoRowIs DEF Repository!Unknown, Repository!Stored
<1> HIDE DEF D
<1>6. Repository!NextRows(changes, FALSE) = rows
  <2>1. ASSUME NEW p \in Pulls PROVE Repository!NextRows(changes, FALSE)[p] = rows[p]
    <3>1. CASE p \in D
      <4>1. Repository!NextRows(changes, FALSE)[p]
              = [changes[p] EXCEPT !.id = IF rows[p].state = "absent" THEN runs ELSE rows[p].id]
        BY <1>2, <3>1 DEF Repository!NextRows
      <4>2. rows[p].state # "absent" /\ rows[p] = [changes[p] EXCEPT !.id = rows[p].id]
        BY <1>3, <3>1
      <4> QED
        BY <4>1, <4>2
    <3>2. CASE p \notin D
      <4>1. Repository!NextRows(changes, FALSE)[p]
              = IF rows[p].state = "absent" THEN Repository!NoRow
                ELSE IF rows[p].state = "unknown" THEN rows[p] ELSE Repository!NoRow
        BY <1>2, <3>2 DEF Repository!NextRows
      <4> QED
        BY <1>4, <3>2, <4>1, NoRowIs
    <3> QED
      BY <3>1, <3>2
  <2>2. rows = [p \in Pulls |-> rows[p]]
    BY DEF SInv
  <2>3. Repository!NextRows(changes, FALSE) = [p \in Pulls |-> Repository!NextRows(changes, FALSE)[p]]
    BY DEF Repository!NextRows
  <2> QED
    BY <2>1, <2>2, <2>3
<1>7. /\ ~run.rewritten /\ run.unknown = Repository!Unknown /\ run.stored = Repository!StoredProjection
  BY DEF Settled, RunCurrent
<1>8. CASE Repository!Unknown # {}
  <2>1. run.unknown \ DOMAIN changes # {}
    BY <1>2, <1>5, <1>7, <1>8
  <2>2. Repository!Classify(Repository!Fingerprint(Git, Found), DOMAIN changes) = "unknown_inconsistency"
    BY <1>7, <2>1 DEF Repository!Classify
  <2> QED
    BY <1>2, <1>6, <1>8, <2>2 DEF D
<1>9. CASE Repository!Unknown = {}
  <2>1. Repository!Stored = D
    BY <1>5, <1>9
  <2>2. [p \in Repository!Stored |-> [rows[p] EXCEPT !.id = 0]] = changes
    BY <1>2, <1>3, <2>1
  <2>3. Repository!StoredProjection = Repository!Fingerprint(Git, Found)
    <3>1. Git.source = projected.source /\ Git.production = projected.production
      BY SnapshotHeads DEF Git
    <3>2. last.ambiguous = Found.ambiguous
      BY DEF Settled, Repository!Fingerprint
    <3> QED
      BY <2>2, <3>1, <3>2 DEF Repository!StoredProjection, Repository!Fingerprint, Settled
  <2>4. Repository!Classify(Repository!Fingerprint(Git, Found), DOMAIN changes) = "expected_change"
    BY <1>7, <1>9, <2>3 DEF Repository!Classify
  <2> QED
    BY <1>2, <1>6, <1>9, <2>4 DEF D
<1> QED
  BY <1>8, <1>9

(* The rows that a reconciliation leaves are those of the changes it found. *)
LEMMA RowsApplied ==
  ASSUME SInv, NEW attribution, NEW preserve \in BOOLEAN,
         NEW next, next = Repository!NextRows(Repository!Changes(attribution), preserve)
  PROVE  /\ next = [p \in Pulls |-> next[p]] /\ \A p \in Pulls : IsRow(next[p])
         /\ \A p \in Pulls :
              IF p \in DOMAIN attribution.changes
              THEN next[p] = [Repository!Changes(attribution)[p] EXCEPT !.id = next[p].id]
              ELSE next[p] = Repository!NoRow \/ next[p].state = "unknown"
<1> DEFINE changes == Repository!Changes(attribution)
           D == DOMAIN attribution.changes
<1>1. DOMAIN changes = D /\ \A p \in D : IsRow(changes[p])
  BY ChangeRow DEF Repository!Changes
<1>2. next = [p \in Pulls |-> next[p]]
  BY DEF Repository!NextRows
<1> HIDE DEF changes
<1>3. ASSUME NEW p \in Pulls
      PROVE  /\ IsRow(next[p])
             /\ IF p \in D THEN next[p] = [changes[p] EXCEPT !.id = next[p].id]
                ELSE next[p] = Repository!NoRow \/ next[p].state = "unknown"
  <2>1. CASE p \in D
    <3>1. PICK i : i = IF rows[p].state = "absent" THEN runs ELSE rows[p].id
      OBVIOUS
    <3>2. PICK c : c = changes[p]
      OBVIOUS
    <3>3. PICK r : r = next[p]
      OBVIOUS
    <3>4. r = [c EXCEPT !.id = i]
      BY <1>1, <2>1, <3>1, <3>2, <3>3 DEF Repository!NextRows, changes
    <3>5. c = [id |-> c.id, state |-> c.state, presence |-> c.presence, commits |-> c.commits,
               integration |-> c.integration, head |-> c.head]
      BY <1>1, <2>1, <3>2 DEF IsRow
    <3>6. r = [id |-> i, state |-> c.state, presence |-> c.presence, commits |-> c.commits,
               integration |-> c.integration, head |-> c.head]
      BY <3>4, <3>5
    <3>7. IsRow(r) /\ r.id = i
      BY <3>6 DEF IsRow
    <3> QED
      BY <2>1, <3>2, <3>3, <3>4, <3>7
  <2>2. CASE p \notin D
    <3>1. next[p] = IF rows[p].state = "absent" THEN Repository!NoRow
                    ELSE IF preserve THEN [rows[p] EXCEPT !.state = "unknown", !.presence = "unknown"]
                    ELSE IF rows[p].state = "unknown" THEN rows[p] ELSE Repository!NoRow
      BY <1>1, <2>2 DEF Repository!NextRows, changes
    <3>2. IsRow(rows[p])
      BY DEF SInv
    <3>3. ASSUME NEW r, r = [rows[p] EXCEPT !.state = "unknown", !.presence = "unknown"]
          PROVE  IsRow(r) /\ r.state = "unknown"
      <4>1. r = [id |-> rows[p].id, state |-> "unknown", presence |-> "unknown", commits |-> rows[p].commits,
                 integration |-> rows[p].integration, head |-> rows[p].head]
        BY <3>2, <3>3 DEF IsRow
      <4> QED
        BY <4>1 DEF IsRow
    <3> QED
      BY <2>2, <3>1, <3>2, <3>3, NoRowIs
  <2> QED
    BY <2>1, <2>2
<1> QED
  BY <1>2, <1>3 DEF changes

(* The project and its rows after a reconciliation.                         *)
LEMMA Reconciled ==
  ASSUME QInv, SInv, run.pc = "read", run.configuration = projected.configuration,
         run.source = branches[projected.branch], run.production = branches[Repository!Production],
         NEW git, git = Repository!GitSnapshot(log, run.production, run.source),
         NEW attribution,
         attribution = Repository!Attribution(log, pulls, projected.branch, git, Repository!FullAnswer),
         Repository!IsAncestor(log, run.production, run.source),
         Repository!SnapshotIsCoherent(log, pulls, git, attribution),
         Repository!Apply(git, attribution),
         run' = Repository!NoRun, UNCHANGED <<log, branches, pulls>>
  PROVE  /\ Settled' /\ rows' = [p \in Pulls |-> rows'[p]] /\ \A p \in Pulls : IsRow(rows'[p])
<1>1. git.source = run.source /\ git.production = run.production
  BY SnapshotHeads
<1>2. PICK status \in {"active", "degraded"} :
           projected' = [status |-> status, branch |-> projected.branch, projected |-> TRUE,
                         configuration |-> projected.configuration, epoch |-> projected.epoch,
                         source |-> run.source, production |-> run.production]
  BY <1>1, AppliedRow DEF QInv, ProjectOK
<1>3. /\ projected'.branch = projected.branch /\ projected'.projected
      /\ projected'.source = run.source /\ projected'.production = run.production
  BY <1>2
<1>4. Git' = git /\ Found' = attribution
  BY <1>3 DEF Git, Found
<1>5. Repository!Changes(attribution)' = Repository!Changes(attribution)
  BY <1>4 DEF Repository!Changes
<1>6. last' = Repository!Fingerprint(git, attribution)
  BY DEF Repository!Apply
<1>7. Repository!Fingerprint(Git, Found)' = Repository!Fingerprint(git, attribution)
  BY <1>4, <1>5 DEF Repository!Fingerprint
<1>8. PICK preserve \in BOOLEAN : rows' = Repository!NextRows(Repository!Changes(attribution), preserve)
  BY DEF Repository!Apply
<1>9. RowsFound' /\ rows' = [p \in Pulls |-> rows'[p]] /\ \A p \in Pulls : IsRow(rows'[p])
  BY <1>4, <1>5, <1>8, RowsApplied DEF RowsFound
<1>10. RunCurrent'
  BY NoRunIs DEF RunCurrent
<1> QED
  BY <1>3, <1>4, <1>6, <1>7, <1>9, <1>10 DEF Settled

(* A reconciliation of a repository that has settled changes nothing but    *)
(* the status, once.                                                        *)
LEMMA NothingApplied ==
  ASSUME QInv, SInv, Settled, run.pc = "read", Repository!Apply(Git, Found)
  PROVE  /\ rows' = rows
         /\ projected'.status = IF Repository!Unknown = {} THEN "active" ELSE "degraded"
         /\ Steady => outcome' = "unchanged"
<1> DEFINE changes == Repository!Changes(Found)
           fingerprint == Repository!Fingerprint(Git, Found)
           class == Repository!Classify(fingerprint, DOMAIN changes)
           status == IF class \in {"destructive_history_change", "unknown_inconsistency"}
                     THEN "degraded" ELSE "active"
<1>1. /\ Repository!NextRows(changes, FALSE) = rows
      /\ class = IF Repository!Unknown = {} THEN "expected_change" ELSE "unknown_inconsistency"
  BY NothingFound
<1>2. /\ rows' = Repository!NextRows(changes, class = "destructive_history_change")
      /\ projected' = [projected EXCEPT !.status = status, !.projected = TRUE,
                         !.source = Git.source, !.production = Git.production]
      /\ outcome' = IF \/ ~projected.projected \/ last # fingerprint
                       \/ projected.status # status
                       \/ class = "recoverable_drift"
                    THEN "applied" ELSE "unchanged"
  BY DEF Repository!Apply
<1>3. projected.projected /\ last = fingerprint
  BY DEF Settled
<1> HIDE DEF changes, fingerprint, class
<1>4. (class = "destructive_history_change") = FALSE /\ class # "recoverable_drift"
      /\ status = IF Repository!Unknown = {} THEN "active" ELSE "degraded"
  BY <1>1
<1> HIDE DEF status
<1>5. projected'.status = status
  <2>1. projected \in ProjectRow
    BY DEF QInv, ProjectOK
  <2> QED
    BY <1>2, <2>1 DEF ProjectRow
<1>6. rows' = rows
  BY <1>1, <1>2, <1>4
<1>7. Steady => outcome' = "unchanged"
  BY <1>2, <1>3, <1>4 DEF Steady
<1> QED
  BY <1>4, <1>5, <1>6, <1>7

LEMMA FinishSettles ==
  ASSUME QInv, SInv, NEW answers, Repository!Finish(answers)
  PROVE  SInv'
<1> DEFINE git == Repository!GitSnapshot(log, run.production, run.source)
           attribution == Repository!Attribution(log, pulls, projected.branch, git, answers)
           read == [source |-> run.source, production |-> run.production]
<1>1. run.pc = "read" /\ run' = Repository!NoRun /\ UNCHANGED <<log, branches, pulls, qa>>
  BY DEF Repository!Finish, Repository!github
<1>2. quiet \in 0..3
  BY DEF SInv
<1>3. CASE /\ answers = Repository!FullAnswer \/ ~Repository!SnapshotIsCoherent(log, pulls, git, attribution)
           /\ ~Repository!IsAncestor(log, run.production, run.source)
              \/ ~Repository!SnapshotIsCoherent(log, pulls, git, attribution)
           /\ outcome' \in {"not_ancestor", "rejected"}
           /\ quiet' = IF answers = Repository!FullAnswer THEN quiet ELSE 0
           /\ UNCHANGED <<rows, last>>
  <2>1. CASE quiet' = 0
    BY <1>3, <2>1 DEF SInv
  <2>2. CASE quiet' # 0
    <3>1. answers = Repository!FullAnswer /\ quiet >= 1
      BY <1>2, <1>3, <2>2
    <3>2. Settled /\ run.source = projected.source /\ run.production = projected.production
      BY <1>1, <3>1 DEF SInv, Settled, RunCurrent
    <3>3. git = Git /\ attribution = Found
      BY <3>1, <3>2 DEF Git, Found
    <3> QED
      BY <1>3, <3>2, <3>3 DEF Settled
  <2> QED
    BY <2>1, <2>2
<1>4. CASE outcome' = "superseded" /\ UNCHANGED <<projected, rows, last, quiet>>
  <2>1. UNCHANGED <<Git, Found, Repository!Unknown>> /\ (RowsFound => RowsFound')
    BY <1>1, <1>4 DEF Git, Found, Repository!Unknown, RowsFound, Repository!Changes
  <2>2. RunCurrent'
    BY <1>1, NoRunIs DEF RunCurrent
  <2>3. Settled => Settled'
    BY <1>1, <1>4, <2>1, <2>2 DEF Settled, Repository!Fingerprint, Repository!Changes
  <2>4. Steady => Steady'
    BY <1>4, <2>1 DEF Steady
  <2> QED
    BY <1>4, <2>3, <2>4 DEF SInv
<1>5. CASE /\ Repository!IsAncestor(log, run.production, run.source)
           /\ run.configuration = projected.configuration
           /\ read = Repository!Observed
           /\ Repository!SnapshotIsCoherent(log, pulls, git, attribution)
           /\ Repository!Apply(git, attribution)
           /\ quiet' = IF answers # Repository!FullAnswer THEN 0 ELSE IF quiet = 3 THEN 3 ELSE quiet + 1
  <2>1. run.source = branches[projected.branch] /\ run.production = branches[Repository!Production]
    BY <1>5 DEF Repository!Observed
  <2>2. PICK preserve \in BOOLEAN : rows' = Repository!NextRows(Repository!Changes(attribution), preserve)
    BY <1>5 DEF Repository!Apply
  <2>3. rows' = [p \in Pulls |-> rows'[p]] /\ \A p \in Pulls : IsRow(rows'[p])
    BY <2>2, RowsApplied
  <2>4. CASE answers # Repository!FullAnswer
    BY <1>5, <2>3, <2>4 DEF SInv
  <2>5. CASE answers = Repository!FullAnswer
    <3>1. Settled'
      BY <1>1, <1>5, <2>1, <2>5, Reconciled
    <3>2. CASE quiet = 0
      BY <1>5, <2>3, <2>5, <3>1, <3>2 DEF SInv
    <3>3. CASE quiet # 0
      <4>1. Settled /\ run.source = projected.source /\ run.production = projected.production
        BY <1>1, <1>2, <3>3 DEF SInv, Settled, RunCurrent
      <4>2. git = Git /\ attribution = Found
        BY <2>5, <4>1 DEF Git, Found
      <4>3. /\ rows' = rows
            /\ projected'.status = IF Repository!Unknown = {} THEN "active" ELSE "degraded"
            /\ Steady => outcome' = "unchanged"
        BY <1>1, <1>5, <4>1, <4>2, NothingApplied
      <4>4. Steady'
        BY <4>3 DEF Steady, Repository!Unknown
      <4>5. quiet' \in 0..3 /\ (quiet' > 2 => quiet >= 2)
        BY <1>2, <1>5, <2>5
      <4>6. outcome' = "applied" => quiet' <= 2
        BY <4>3, <4>5 DEF SInv
      <4> QED
        BY <2>3, <3>1, <4>4, <4>5, <4>6 DEF SInv
    <3> QED
      BY <3>2, <3>3
  <2> QED
    BY <2>4, <2>5
<1> HIDE DEF git, attribution, read
<1>6. \/ /\ answers = Repository!FullAnswer \/ ~Repository!SnapshotIsCoherent(log, pulls, git, attribution)
         /\ ~Repository!IsAncestor(log, run.production, run.source)
              \/ ~Repository!SnapshotIsCoherent(log, pulls, git, attribution)
         /\ outcome' \in {"not_ancestor", "rejected"}
         /\ quiet' = IF answers = Repository!FullAnswer THEN quiet ELSE 0
         /\ UNCHANGED <<rows, last>>
      \/ outcome' = "superseded" /\ UNCHANGED <<projected, rows, last, quiet>>
      \/ /\ Repository!IsAncestor(log, run.production, run.source)
         /\ run.configuration = projected.configuration
         /\ read = Repository!Observed
         /\ Repository!SnapshotIsCoherent(log, pulls, git, attribution)
         /\ Repository!Apply(git, attribution)
         /\ quiet' = IF answers # Repository!FullAnswer THEN 0 ELSE IF quiet = 3 THEN 3 ELSE quiet + 1
  BY DEF Repository!Finish, git, attribution, read
<1> QED
  BY <1>3, <1>4, <1>5, <1>6

(* What the settled state reads.                                            *)
LEMMA StandsStill ==
  ASSUME SInv, UNCHANGED <<log, branches, pulls, projected, rows, last>>, quiet' \in 0..3,
         quiet' >= 1 => quiet' = quiet /\ RunCurrent',
         outcome' = "applied" => quiet' <= 2
  PROVE  SInv'
<1>1. UNCHANGED <<Git, Found, Repository!Unknown>>
  BY DEF Git, Found, Repository!Unknown
<1>2. RowsFound => RowsFound'
  BY <1>1 DEF RowsFound, Repository!Changes
<1>3. Settled /\ RunCurrent' => Settled'
  BY <1>1, <1>2 DEF Settled, Repository!Fingerprint, Repository!Changes
<1>4. Steady => Steady'
  BY <1>1 DEF Steady
<1>5. quiet' >= 2 => quiet' >= 1
  OBVIOUS
<1> QED
  BY <1>3, <1>4, <1>5 DEF SInv

(* The heads of a settled repository are no rewrite of the projected ones.  *)
LEMMA BeginSettled ==
  ASSUME QInv, SInv, quiet >= 1, Repository!Begin(Repository!Rewritten(branches[projected.branch], branches[Repository!Production])),
         UNCHANGED <<log, branches, pulls, rows, last>>
  PROVE  UNCHANGED projected /\ RunCurrent'
<1>1. /\ projected.projected /\ projected.source = branches[projected.branch]
      /\ projected.production = branches[Repository!Production]
  BY DEF SInv, Settled
<1>2. projected.source \in log[projected.source].reach /\ projected.production \in log[projected.production].reach
  BY DEF QInv, HistoryOK, LogOK, ProjectOK
<1>3. Repository!Rewritten(branches[projected.branch], branches[Repository!Production]) = FALSE
  BY <1>1, <1>2 DEF Repository!Rewritten, Repository!IsAncestor
<1>4. UNCHANGED projected
  BY <1>3 DEF Repository!Begin
<1>5. /\ run'.pc = "read" /\ run'.configuration = projected.configuration
      /\ run'.source = projected.source /\ run'.production = projected.production
      /\ run'.rewritten = FALSE /\ run'.unknown = Repository!Unknown
      /\ run'.stored = Repository!StoredProjection
  BY <1>1, <1>3, RunBegun
<1>6. Repository!Unknown' = Repository!Unknown /\ Repository!StoredProjection' = Repository!StoredProjection
  BY <1>4 DEF Repository!Unknown, Repository!StoredProjection, Repository!Stored
<1> QED
  BY <1>4, <1>5, <1>6 DEF RunCurrent

(* The projection of a repository that has moved is not the one it had.     *)
LEMMA UnsettledKeeps ==
  ASSUME SInv, quiet' = 0, rows' = [p \in Pulls |-> rows'[p]], \A p \in Pulls : IsRow(rows'[p])
  PROVE  SInv'
BY DEF SInv

LEMMA GitHubSettles ==
  ASSUME QInv, SInv, Repository!GitHub
  PROVE  SInv'
<1>1. OnlyGitHub
  BY GitHubGrows DEF QInv, ProjectOK, ProjectRow
<1> QED
  BY <1>1, UnsettledKeeps DEF OnlyGitHub, SInv

LEMMA BeginSettles ==
  ASSUME QInv, SInv, Repository!Begin(Repository!Rewritten(branches[projected.branch], branches[Repository!Production])),
         UNCHANGED <<log, branches, pulls, rows, last, outcome, quiet>>
  PROVE  SInv'
<1>1. quiet \in 0..3 /\ (outcome = "applied" => quiet <= 2)
  BY DEF SInv
<1>2. CASE quiet = 0
  BY <1>2, UnsettledKeeps DEF SInv
<1>3. CASE quiet >= 1
  <2>1. UNCHANGED projected /\ RunCurrent'
    BY <1>3, BeginSettled
  <2> QED
    BY <1>1, <2>1, StandsStill
<1> QED
  BY <1>1, <1>2, <1>3

LEMMA StartSettles ==
  ASSUME QInv, SInv, Repository!Start
  PROVE  SInv'
<1>1. UNCHANGED <<log, branches, pulls, rows, last, outcome, quiet>>
  BY DEF Repository!Start, Repository!github
<1>2. Repository!Begin(Repository!Rewritten(branches[projected.branch], branches[Repository!Production]))
  BY DEF Repository!Start, Repository!Observed
<1> QED
  BY <1>1, <1>2, BeginSettles

LEMMA RetrySettles ==
  ASSUME QInv, SInv, Repository!Retry
  PROVE  SInv'
<1>1. UNCHANGED <<log, branches, pulls, rows, last, quiet>>
  BY DEF Repository!Retry, Repository!github
<1>2. CASE run' = Repository!NoRun /\ outcome' = "superseded" /\ UNCHANGED projected
  <2>1. RunCurrent'
    BY <1>2, NoRunIs DEF RunCurrent
  <2>2. quiet' \in 0..3
    BY <1>1 DEF SInv
  <2> QED
    BY <1>1, <1>2, <2>1, <2>2, StandsStill
<1>3. CASE /\ run.source = Repository!Observed.source /\ run.production = Repository!Observed.production
           /\ Repository!Begin(Repository!Rewritten(run.source, run.production))
           /\ UNCHANGED outcome
  <2>1. run.source = branches[projected.branch] /\ run.production = branches[Repository!Production]
    BY <1>3 DEF Repository!Observed
  <2> QED
    BY <1>1, <1>3, <2>1, BeginSettles
<1> QED
  BY <1>2, <1>3 DEF Repository!Retry

LEMMA CrashSettles ==
  ASSUME QInv, SInv, Repository!Crash
  PROVE  SInv'
<1>1. UNCHANGED <<log, branches, pulls, projected, rows, last, outcome, quiet>> /\ run.pc = "read"
  BY DEF Repository!Crash, Repository!github
<1>2. quiet >= 1 => RunCurrent'
  BY <1>1, RunCrashed DEF SInv, Settled, RunCurrent
<1> QED
  BY <1>1, <1>2, StandsStill DEF SInv

LEMMA ConfigureSettles ==
  ASSUME QInv, SInv, NEW b \in Sources, Repository!Configure(b)
  PROVE  SInv'
<1>1. quiet' = 0
  BY DEF Repository!Configure
<1>2. rows' = [p \in Pulls |->
       IF rows[p].state = "absent" THEN Repository!NoRow
       ELSE [rows[p] EXCEPT !.state = "unknown", !.presence = "unknown",
               !.commits = <<>>, !.integration = Repository!NoCommit]]
  BY DEF Repository!Configure
<1>3. ASSUME NEW p \in Pulls
      PROVE  IsRow(rows'[p])
  <2>1. PICK r : r = [rows[p] EXCEPT !.state = "unknown", !.presence = "unknown",
                        !.commits = <<>>, !.integration = Repository!NoCommit]
    OBVIOUS
  <2>2. IsRow(rows[p])
    BY DEF SInv
  <2>3. r = [id |-> rows[p].id, state |-> "unknown", presence |-> "unknown", commits |-> <<>>,
             integration |-> Repository!NoCommit, head |-> rows[p].head]
    BY <2>1, <2>2 DEF IsRow
  <2>4. IsRow(r)
    BY <2>3 DEF IsRow
  <2>5. rows'[p] = IF rows[p].state = "absent" THEN Repository!NoRow ELSE r
    BY <1>2, <2>1
  <2> QED
    BY <2>4, <2>5, NoRowIs
<1>4. rows' = [p \in Pulls |-> rows'[p]]
  BY <1>2
<1> QED
  BY <1>1, <1>3, <1>4, UnsettledKeeps

LEMMA SettledInit == Repository!Init => SInv
<1> SUFFICES ASSUME Repository!Init PROVE SInv
  OBVIOUS
<1>1. rows = [p \in Pulls |-> Repository!NoRow] /\ quiet = 0 /\ outcome = "none"
  BY DEF Repository!Init
<1>2. rows = [p \in Pulls |-> rows[p]] /\ \A p \in Pulls : rows[p] = Repository!NoRow
  BY <1>1
<1> QED
  BY <1>1, <1>2, NoRowIs DEF SInv

LEMMA SettledNext == QInv /\ SInv /\ [Repository!Next]_(Repository!vars) => SInv'
<1> SUFFICES ASSUME QInv, SInv, [Repository!Next]_(Repository!vars) PROVE SInv'
  OBVIOUS
<1>1. CASE Repository!GitHub
  BY <1>1, GitHubSettles
<1>2. CASE Repository!Start
  BY <1>2, StartSettles
<1>3. CASE Repository!Retry
  BY <1>3, RetrySettles
<1>4. CASE Repository!Crash
  BY <1>4, CrashSettles
<1>5. CASE \E answers \in Repository!Answers : Repository!Finish(answers)
  BY <1>5, FinishSettles
<1>6. CASE UNCHANGED <<log, branches, pulls, projected, rows, last, run, outcome, quiet>>
  <2>1. quiet >= 1 => RunCurrent
    BY DEF SInv, Settled
  <2>2. RunCurrent => RunCurrent'
    BY <1>6 DEF RunCurrent, Repository!Unknown, Repository!StoredProjection, Repository!Stored
  <2> QED
    BY <1>6, <2>1, <2>2, StandsStill DEF SInv
<1>7. CASE \E p \in Pulls, status \in {"passed", "failed"} : Repository!RecordQa(p, status)
  BY <1>6, <1>7 DEF Repository!RecordQa, Repository!github
<1>8. CASE \E b \in Sources : Repository!Configure(b)
  BY <1>8, ConfigureSettles
<1>9. CASE UNCHANGED Repository!vars
  BY <1>6, <1>9 DEF Repository!vars
<1> QED
  BY <1>1, <1>2, <1>3, <1>4, <1>5, <1>7, <1>8, <1>9 DEF Repository!Next

(* While nobody touches a repository and GitHub answers in full, a third    *)
(* reconciliation finds nothing to change, and a project shown as active by *)
(* then has no change of unknown state (classifyRepositoryDifference).      *)
THEOREM ReconciliationSettles == Repository!Spec => []SettlesAfterTwo
<1>1. SInv => SettlesAfterTwo
  <2> SUFFICES ASSUME SInv PROVE SettlesAfterTwo
    OBVIOUS
  <2>1. projected.status = "active" /\ quiet >= 2 => Repository!Unknown = {}
    BY DEF SInv, Steady
  <2>2. outcome = "applied" => quiet <= 2
    BY DEF SInv
  <2> QED
    BY <2>1, <2>2 DEF SettlesAfterTwo, Repository!SettlesAfterTwo, Repository!ActiveMeansKnown
<1> QED
  BY <1>1, QaInit, QaNext, SettledInit, SettledNext, PTL DEF Repository!Spec
=============================================================================
