------------------------ MODULE RepositorySync_proofs ------------------------
(***************************************************************************)
(* The queues and handlers of RepositorySync, for any number of requests,  *)
(* workers, events and faults.                                             *)
(***************************************************************************)
EXTENDS RepositorySync, FiniteSetTheorems, NaturalsInduction, WellFoundedInduction,
        TLAPS

(* Steps that only one of the two handlers takes. *)
HandlersApart ==
  \A w \in Worker :
    /\ exec[w].pc \in {"archive", "verify", "apply", "supersede"} => Reconciles(w)
    /\ exec[w].pc \in {"commit", "finish"} => ~Reconciles(w)

(* A reconciliation that records its failure still holds the lock. *)
FailsLocked ==
  \A w \in Worker : Reconciles(w) /\ exec[w].pc = "fail" => lock = w

(* A rewrite is archived before its snapshot is loaded. *)
ArchivedFirst ==
  \A w \in Worker :
    exec[w].pc \in {"verify", "apply"} /\ Destructive(w) => exec[w].request \in archived

(* A job that is at work is leased, by one worker, for a request that exists. *)
Attended ==
  /\ \A w \in Worker : Busy(w) =>
       exec[w].request \in SyncRequest /\ job[exec[w].request].state = "leased"
  /\ \A v, w \in Worker :
       Busy(v) /\ Busy(w) /\ exec[v].request = exec[w].request => v = w

Existing ==
  /\ \A r \in Reconciliation : job[r].state # "none" => recon[r].status # "absent"
  /\ \A i \in Incremental : job[i].state # "none" => incr[i].status # "absent"

(* No request is of a configuration that the project has not reached. *)
Versioned ==
  \A r \in Reconciliation : recon[r].status # "absent" =>
    /\ recon[r].configuration <= project.configuration
    /\ recon[r].key.configuration <= project.configuration

(* An incremental request that was claimed is not queued again while it is handled, *)
(* and what is acknowledged has ended.                                              *)
EndedAcknowledged ==
  \A w \in Worker :
    /\ exec[w].pc \in {"observe", "commit", "finish", "fail"} /\ ~Reconciles(w) =>
         incr[exec[w].request].status \in {"running"} \cup Terminal
    /\ exec[w].pc = "acknowledge" =>
         IF Reconciles(w) THEN recon[exec[w].request].status \in Terminal
         ELSE incr[exec[w].request].status \in Terminal

IInv ==
  /\ TypeOK /\ OneQueued /\ ClaimHolds /\ Carried
  /\ HandlersApart /\ FailsLocked /\ ArchivedFirst
  /\ Attended /\ Existing /\ Versioned /\ EndedAcknowledged
-----------------------------------------------------------------------------
(* The least absent row exists while there is one: ids are natural numbers. *)
LEMMA FirstAbsentFacts ==
  ASSUME NEW ids \in SUBSET Nat, NEW rows, \E r \in ids : rows[r].status = "absent"
  PROVE  FirstAbsent(ids, rows) \in ids /\ rows[FirstAbsent(ids, rows)].status = "absent"
<1> DEFINE T == {r \in ids : rows[r].status = "absent"}
<1>1. IsWellFoundedOn(OpToRel(<, Nat), Nat)
  BY NatLessThanWellFounded
<1>2. PICK x \in T : \A y \in T : ~(<<y, x>> \in OpToRel(<, Nat))
  BY <1>1, WFMin
<1>3. ASSUME NEW y \in T PROVE x <= y
  <2>1. <<y, x>> \notin {ss \in Nat \X Nat : ss[1] < ss[2]}
    BY <1>2 DEF OpToRel
  <2> HIDE DEF T
  <2>2. x \in Nat /\ y \in Nat
    BY DEF T
  <2> QED
    BY <2>1, <2>2
<1> QED
  BY <1>3 DEF FirstAbsent

(* What a transaction finds when it queues a reconciliation: rows of one type, of  *)
(* which at most one is queued; what it stores keeps this, and touches no request  *)
(* that runs or has ended (queueRepositoryInitialSync).                            *)
Waiting(rows) ==
  \A r, s \in Reconciliation : rows[r].status = "queued" /\ rows[s].status = "queued" => r = s

Stored(o, rows, configuration, key) ==
  /\ o.kind \in {"merged", "known", "inserted"} /\ o.id \in Reconciliation
  /\ o.rows \in [Reconciliation -> Recon] /\ Waiting(o.rows)
  /\ \A r \in Reconciliation :
       /\ rows[r].status \in {"running"} \cup Terminal => o.rows[r] = rows[r]
       /\ rows[r].status = "queued" => o.rows[r].status \in {"queued", "superseded"}
       /\ rows[r].status = "absent" => o.rows[r].status = "absent"
                                       \/ (r = o.id /\ o.kind = "inserted")
       /\ rows[r].status # "absent" => o.rows[r].configuration = rows[r].configuration
                                       /\ o.rows[r].key = rows[r].key
  /\ o.kind = "inserted" =>
       /\ rows[o.id].status = "absent" /\ o.rows[o.id].status = "queued"
       /\ o.rows[o.id].configuration = configuration /\ o.rows[o.id].key = key
  /\ o.kind = "known" => rows[o.id].status # "absent" /\ rows[o.id].key = key
  /\ o.kind = "merged" =>
       rows[o.id].status = "queued" /\ rows[o.id].configuration = configuration

LEMMA QueueFacts ==
  ASSUME NEW configuration \in Nat, NEW heads \in Heads, NEW key \in Key,
         NEW reason \in Reason, NEW forced \in BOOLEAN,
         NEW rows \in [Reconciliation -> Recon], Waiting(rows),
         Commits(QueueReconciliation(configuration, heads, key, reason, forced, rows))
  PROVE  Stored(QueueReconciliation(configuration, heads, key, reason, forced, rows),
                rows, configuration, key)
<1> DEFINE o == QueueReconciliation(configuration, heads, key, reason, forced, rows)
           queued == {r \in Reconciliation : rows[r].status = "queued"}
           merged == {r \in queued : rows[r].configuration = configuration}
           cleared == [r \in Reconciliation |->
             IF r \in queued THEN [rows[r] EXCEPT !.status = "superseded"] ELSE rows[r]]
           known == {r \in Reconciliation : rows[r].status # "absent" /\ rows[r].key = key}
<1> SUFFICES Stored(o, rows, configuration, key)
  OBVIOUS
<1>1. /\ cleared \in [Reconciliation -> Recon]
      /\ \A r \in Reconciliation :
           /\ cleared[r].status # "queued"
           /\ rows[r].status # "queued" => cleared[r] = rows[r]
           /\ rows[r].status = "queued" => cleared[r].status = "superseded"
           /\ cleared[r].configuration = rows[r].configuration /\ cleared[r].key = rows[r].key
  <2>1. ASSUME NEW r \in Reconciliation
        PROVE  LET gone == [rows[r] EXCEPT !.status = "superseded"]
               IN /\ gone \in Recon /\ gone.status = "superseded"
                  /\ gone.configuration = rows[r].configuration /\ gone.key = rows[r].key
    BY DEF Recon, Terminal
  <2> QED
    BY <2>1
<1>2. CASE merged # {}
  <2> DEFINE r == CHOOSE r \in merged : TRUE
             row == [rows[r] EXCEPT !.heads = heads, !.forced = @ \/ forced]
  <2>1. r \in merged
    BY <1>2
  <2>2. /\ row \in Recon /\ row.status = "queued"
        /\ row.configuration = rows[r].configuration /\ row.key = rows[r].key
    <3>1. rows[r] \in Recon /\ rows[r].status = "queued"
      BY <2>1
    <3>2. (rows[r].forced \/ forced) \in BOOLEAN
      OBVIOUS
    <3> HIDE DEF r
    <3> QED
      BY <3>1, <3>2 DEF Recon
  <2>3. o = [kind |-> "merged", id |-> r, rows |-> [rows EXCEPT ![r] = row]]
    BY <1>2, <2>1 DEF QueueReconciliation
  <2> HIDE DEF r, row, o, known, cleared
  <2> QED
    BY <2>1, <2>2, <2>3 DEF Stored, Waiting, Terminal
<1>3. CASE merged = {} /\ known # {}
  <2> DEFINE r == CHOOSE r \in known : TRUE
  <2>1. r \in known
    BY <1>3
  <2>2. o = [kind |-> "known", id |-> r, rows |-> cleared]
    BY <1>3 DEF QueueReconciliation, Commits
  <2>3. o.kind = "known" /\ o.id = r /\ o.rows = cleared
    BY <2>2
  <2>4. r \in Reconciliation /\ rows[r].status # "absent" /\ rows[r].key = key
    BY <2>1
  <2> HIDE DEF r, o, merged, cleared, queued, known
  <2> QED
    BY <1>1, <2>3, <2>4 DEF Stored, Waiting, Terminal
<1>4. CASE merged = {} /\ known = {}
  <2> DEFINE r == FirstAbsent(Reconciliation, rows)
             row == [status |-> "queued", configuration |-> configuration, heads |-> heads,
                     key |-> key, reason |-> reason, forced |-> forced, next |-> 0]
  <2>1. ~\A s \in Reconciliation : rows[s].status # "absent"
    BY <1>4 DEF QueueReconciliation, Commits
  <2>2. r \in Reconciliation /\ rows[r].status = "absent"
    BY <2>1, FirstAbsentFacts, IdAssumption
  <2>3. o = [kind |-> "inserted", id |-> r, rows |-> [cleared EXCEPT ![r] = row]]
    BY <1>4, <2>1 DEF QueueReconciliation
  <2>4. /\ row \in Recon /\ row.status = "queued"
        /\ row.configuration = configuration /\ row.key = key
    BY DEF Recon, Active
  <2>5. o.kind = "inserted" /\ o.id = r /\ o.rows = [cleared EXCEPT ![r] = row]
    BY <2>3
  <2>6. /\ o.rows \in [Reconciliation -> Recon] /\ o.rows[r] = row
        /\ \A s \in Reconciliation : s # r => o.rows[s] = cleared[s]
    BY <1>1, <2>2, <2>4, <2>5
  <2> HIDE DEF r, row, o, merged, known, cleared, queued
  <2>7. Waiting(o.rows)
    BY <1>1, <2>6 DEF Waiting
  <2> QED
    BY <1>1, <2>2, <2>4, <2>5, <2>6, <2>7 DEF Stored, Terminal
<1> QED
  BY <1>2, <1>3, <1>4

(* What a webhook finds when it queues an incremental request, and what it stores:  *)
(* requests that run or have ended are left alone, and a new one has its job        *)
(* (queueRepositoryIncrementalSync).                                                *)
WaitingIncr(rows) ==
  \A i, k \in Incremental :
    rows[i].status = "queued" /\ rows[k].status = "queued" /\ rows[i].type = rows[k].type => i = k

StoredIncr ==
  /\ incr' \in [Incremental -> Incr] /\ job' \in [SyncRequest -> Job] /\ WaitingIncr(incr')
  /\ \A k \in Incremental :
       /\ incr[k].status \in {"running"} \cup Terminal => incr'[k] = incr[k]
       /\ incr[k].status = "queued" => incr'[k].status \in {"queued", "superseded"}
       /\ incr'[k].status = "absent" => incr[k].status = "absent"
  /\ \A r \in SyncRequest :
       \/ job'[r] = job[r] /\ (r \in Incremental /\ incr[r].status = "absent" =>
                                 incr'[r].status = "absent")
       \/ /\ r \in Incremental /\ incr[r].status = "absent"
          /\ job'[r] = NewJob /\ incr'[r].status = "queued"

LEMMA QueueIncrementalFacts ==
  ASSUME NEW type \in SyncType, NEW forced \in BOOLEAN, NEW required \in BOOLEAN,
         TypeOK, WaitingIncr(incr), QueueIncremental(type, forced, required)
  PROVE  StoredIncr
<1> DEFINE queued == {i \in Incremental : incr[i].status = "queued" /\ incr[i].type = type}
           merged == {i \in queued : incr[i].configuration = project.configuration}
           i == FirstAbsent(Incremental, incr)
           new == [status |-> "queued", configuration |-> project.configuration,
                   type |-> type, forced |-> forced, required |-> required]
<1>1. incr \in [Incremental -> Incr] /\ job \in [SyncRequest -> Job] /\ project.configuration \in Nat
  BY DEF TypeOK, Project
<1>2. CASE merged # {}
  <2> DEFINE row(k) == [incr[k] EXCEPT !.forced = @ \/ forced, !.required = @ \/ required]
  <2>1. UNCHANGED job /\ incr' = [k \in Incremental |-> IF k \in merged THEN row(k) ELSE incr[k]]
    BY <1>2 DEF QueueIncremental
  <2>3. ASSUME NEW k \in Incremental
        PROVE  row(k) \in Incr /\ row(k).status = incr[k].status /\ row(k).type = incr[k].type
    <3>1. /\ incr[k] \in Incr
          /\ (incr[k].forced \/ forced) \in BOOLEAN /\ (incr[k].required \/ required) \in BOOLEAN
      BY <1>1
    <3> QED
      BY <3>1 DEF Incr
  <2> HIDE DEF row
  <2>2. /\ incr' \in [Incremental -> Incr]
        /\ \A k \in Incremental : incr'[k].status = incr[k].status /\ incr'[k].type = incr[k].type
        /\ \A k \in Incremental : incr[k].status # "queued" => incr'[k] = incr[k]
    BY <1>1, <2>1, <2>3
  <2> HIDE DEF merged
  <2> QED
    BY <1>1, <2>1, <2>2 DEF StoredIncr, WaitingIncr, Terminal
<1>3. CASE merged = {}
  <2>1. /\ \E k \in Incremental : incr[k].status = "absent"
        /\ incr' = [k \in Incremental |->
             IF k = i THEN new
             ELSE IF k \in queued THEN [incr[k] EXCEPT !.status = "superseded"]
             ELSE incr[k]]
        /\ job' = [job EXCEPT ![i] = NewJob]
    BY <1>3 DEF QueueIncremental
  <2>2. i \in Incremental /\ incr[i].status = "absent"
    BY <2>1, FirstAbsentFacts, IdAssumption
  <2>3. new \in Incr /\ new.status = "queued" /\ new.type = type
    BY <1>1 DEF Incr, Active
  <2> HIDE DEF i, new, merged
  <2>4. /\ incr' \in [Incremental -> Incr] /\ incr'[i] = new
        /\ \A k \in Incremental \ {i} :
             IF incr[k].status = "queued" /\ incr[k].type = type
             THEN incr'[k].status = "superseded" ELSE incr'[k] = incr[k]
    BY <1>1, <2>1, <2>2, <2>3 DEF Incr, Active, Terminal
  <2>5. /\ job' \in [SyncRequest -> Job] /\ job'[i] = NewJob
        /\ \A r \in SyncRequest \ {i} : job'[r] = job[r]
    BY <1>1, <2>1, <2>2 DEF SyncRequest, NewJob, Job
  <2> HIDE DEF queued
  <2>6. WaitingIncr(incr')
    BY <2>2, <2>3, <2>4, <1>1 DEF WaitingIncr
  <2>7. \A k \in Incremental :
          /\ incr[k].status \in {"running"} \cup Terminal => incr'[k] = incr[k]
          /\ incr[k].status = "queued" => incr'[k].status \in {"queued", "superseded"}
          /\ incr'[k].status = "absent" => incr[k].status = "absent"
    BY <2>2, <2>4 DEF Terminal
  <2> QED
    BY <2>2, <2>3, <2>4, <2>5, <2>6, <2>7 DEF StoredIncr, SyncRequest
<1> QED
  BY <1>2, <1>3

(* What a transaction does to the requests, of which it may end or start those of T:  *)
(* what has ended stays so, no other request stops running, none changes what it      *)
(* asks for, and a new one is of the given configuration and has its job.             *)
ReconMoves(T, configuration) ==
  /\ recon' \in [Reconciliation -> Recon] /\ job' \in [SyncRequest -> Job] /\ Waiting(recon')
  /\ \A r \in Reconciliation :
       /\ recon[r].status \in Terminal => recon'[r].status = recon[r].status
       /\ recon[r].status = "running" /\ r \notin T => recon'[r].status = "running"
       /\ recon[r].status # "absent" => /\ recon'[r].status # "absent"
                                        /\ recon'[r].configuration = recon[r].configuration
                                        /\ recon'[r].key = recon[r].key
  /\ \A r \in SyncRequest :
       \/ job'[r] = job[r] /\ (r \in Reconciliation /\ recon[r].status = "absent" =>
                                 recon'[r].status = "absent")
       \/ /\ r \in Reconciliation /\ recon[r].status = "absent"
          /\ job'[r] = NewJob /\ recon'[r].status = "queued"
          /\ recon'[r].configuration = configuration
          /\ recon'[r].key.configuration = configuration

LEMMA ApplyFacts ==
  ASSUME NEW configuration \in Nat, NEW heads \in Heads, NEW key \in Key,
         NEW reason \in Reason, NEW forced \in BOOLEAN, TypeOK, Waiting(recon),
         key.configuration = configuration,
         Apply(QueueReconciliation(configuration, heads, key, reason, forced, recon))
  PROVE  ReconMoves({}, configuration)
<1> DEFINE o == QueueReconciliation(configuration, heads, key, reason, forced, recon)
<1>1. recon \in [Reconciliation -> Recon] /\ job \in [SyncRequest -> Job]
  BY DEF TypeOK
<1>2. /\ Commits(o) /\ recon' = o.rows
      /\ job' = IF o.kind = "inserted" THEN [job EXCEPT ![o.id] = NewJob] ELSE job
  BY DEF Apply
<1>3. Stored(o, recon, configuration, key)
  BY <1>1, <1>2, QueueFacts
<1> HIDE DEF o
<1>4. job' \in [SyncRequest -> Job]
  BY <1>1, <1>2 DEF NewJob, Job, NoRow
<1>5. \A r \in SyncRequest :
        job'[r] = IF o.kind = "inserted" /\ r = o.id THEN NewJob ELSE job[r]
  BY <1>1, <1>2
<1>6. o.id \in SyncRequest
  BY <1>3 DEF Stored, SyncRequest
<1>7. recon' \in [Reconciliation -> Recon] /\ Waiting(recon')
  BY <1>2, <1>3 DEF Stored
<1>8. ASSUME NEW r \in Reconciliation
      PROVE  /\ recon[r].status \in Terminal => recon'[r].status = recon[r].status
             /\ recon[r].status = "running" => recon'[r].status = "running"
             /\ recon[r].status # "absent" => /\ recon'[r].status # "absent"
                                              /\ recon'[r].configuration = recon[r].configuration
                                              /\ recon'[r].key = recon[r].key
  BY <1>1, <1>2, <1>3 DEF Stored, Recon, Active, Terminal
<1>9. ASSUME NEW r \in SyncRequest
      PROVE  \/ job'[r] = job[r] /\ (r \in Reconciliation /\ recon[r].status = "absent" =>
                                        recon'[r].status = "absent")
             \/ /\ r \in Reconciliation /\ recon[r].status = "absent"
                /\ job'[r] = NewJob /\ recon'[r].status = "queued"
                /\ recon'[r].configuration = configuration
                /\ recon'[r].key.configuration = configuration
  <2>1. CASE o.kind = "inserted" /\ r = o.id
    BY <2>1, <1>2, <1>3, <1>5 DEF Stored
  <2>2. CASE ~(o.kind = "inserted" /\ r = o.id)
    BY <2>2, <1>2, <1>3, <1>5 DEF Stored
  <2> QED
    BY <2>1, <2>2
<1> QED
  BY <1>4, <1>7, <1>8, <1>9 DEF ReconMoves

(* The same for requests with the configuration and heads of the project            *)
(* (queueRepositoryReconciliationForProject).                                       *)
LEMMA ForProjectFacts ==
  ASSUME NEW kind \in {"manual", "recovery", "periodic"}, NEW of \in SUBSET Nat,
         TypeOK, Waiting(recon), Apply(ForProject(kind, of))
  PROVE  ReconMoves({}, project.configuration)
<1>1. project.configuration \in Nat /\ project.heads \in Heads
  BY DEF TypeOK, Project
<1>2. /\ KeyOf(kind, project.configuration, of) \in Key
      /\ KeyOf(kind, project.configuration, of).configuration = project.configuration
  BY <1>1 DEF KeyOf, Key
<1>3. kind \in Reason
  BY DEF Reason
<1> QED
  BY <1>1, <1>2, <1>3, ApplyFacts DEF ForProject

(* The initial values have their types.                                             *)
LEMMA ExecutionTypes ==
  /\ NoClaim \in Claim
  /\ \A pc \in Step : IdleExec(pc) \in Execution
  /\ NoJob \in Job /\ NewJob \in Job /\ LostJob \in Job
<1>1. NoClaim \in Claim
  BY BoundAssumption DEF NoClaim, Claim, Heads
<1> QED
  BY <1>1, BoundAssumption DEF IdleExec, Execution, Heads, NoJob, NewJob, LostJob, Job, NoRow

LEMMA QueuesWait == OneQueued => Waiting(recon) /\ WaitingIncr(incr)
  BY DEF OneQueued, Waiting, WaitingIncr

(* A finite set of ids has a latest one.                                            *)
LEMMA Latest ==
  ASSUME NEW S \in SUBSET Nat, IsFiniteSet(S), S # {}
  PROVE  \E x \in S : \A y \in S : y <= x
<1> DEFINE after(x) == {y \in S : x < y}
           T == {after(x) : x \in S}
<1>1. IsWellFoundedOn(StrictSubsetOrdering(S), FiniteSubsetsOf(S))
  BY FS_StrictSubsetOrderingWellFounded
<1>2. \A x \in S : after(x) \in FiniteSubsetsOf(S)
  BY FS_Subset DEF FiniteSubsetsOf
<1>3. T \subseteq FiniteSubsetsOf(S) /\ T # {}
  BY <1>2
<1>4. PICK A \in T : \A B \in T : ~(<<B, A>> \in StrictSubsetOrdering(S))
  <2> HIDE DEF T
  <2> QED
    BY <1>1, <1>3, WFMin
<1>5. PICK x \in S : A = after(x)
  OBVIOUS
<1>6. ASSUME NEW y \in S, x < y PROVE FALSE
  <2>1. after(y) \in T
    OBVIOUS
  <2>2. after(y) \subseteq A
    <3> SUFFICES ASSUME NEW z \in S, y < z PROVE x < z
      BY <1>5
    <3>1. x \in Nat /\ y \in Nat /\ z \in Nat
      OBVIOUS
    <3> QED
      BY <3>1, <1>6
  <2>3. y \in A /\ y \notin after(y)
    BY <1>5, <1>6
  <2>4. after(y) \in SUBSET S /\ A \in SUBSET S
    BY <1>5
  <2> HIDE DEF after, T
  <2>5. <<after(y), A>> \in StrictSubsetOrdering(S)
    BY <2>2, <2>3, <2>4 DEF StrictSubsetOrdering
  <2> QED
    BY <1>4, <2>1, <2>5
<1>7. \A y \in S : y <= x
  BY <1>6
<1> QED
  BY <1>7

(* New overrides end the active requests; the one that replaces them is new, because  *)
(* nothing has been asked for in the new configuration                                *)
(* (updateProjectRequiredCheckOverrides).                                             *)
LEMMA OverrideFacts ==
  ASSUME TypeOK, OneQueued, Versioned, OverrideRequiredChecks
  PROVE  ReconMoves({r \in Reconciliation : recon[r].status \in Active},
                    project.configuration + 1)
<1> DEFINE configuration == project.configuration + 1
           active == {r \in Reconciliation : recon[r].status \in Active}
           latest == CHOOSE r \in active : \A s \in active : s <= r
           key == KeyOf("overrides", configuration, {})
           o == QueueReconciliation(configuration, recon[latest].heads, key, "overrides",
                                    FALSE, recon)
<1>1. /\ recon \in [Reconciliation -> Recon] /\ job \in [SyncRequest -> Job]
      /\ project.configuration \in Nat /\ configuration \in Nat /\ Waiting(recon)
  BY QueuesWait DEF TypeOK, Project
<1>2. CASE active = {}
  BY <1>1, <1>2 DEF OverrideRequiredChecks, ReconMoves, Active
<1>3. CASE active # {}
  <2>1. latest \in active
    BY <1>3, Latest, FS_Subset, IdAssumption
  <2>2. key \in Key /\ key.configuration = configuration
    BY <1>1 DEF KeyOf, Key
  <2>3. recon[latest].heads \in Heads /\ "overrides" \in Reason /\ FALSE \in BOOLEAN
    BY <2>1, <1>1 DEF Recon, Reason
  <2> DEFINE row(r) == [o.rows[r] EXCEPT !.status = "superseded",
                          !.next = IF recon[r].status = "running" THEN o.id ELSE @]
  <2>4. /\ Commits(o)
        /\ recon' = [r \in Reconciliation |-> IF r \in active THEN row(r) ELSE o.rows[r]]
        /\ job' = [job EXCEPT ![o.id] = NewJob]
    BY <1>3 DEF OverrideRequiredChecks
  <2> HIDE DEF latest, configuration, key
  <2>5. Stored(o, recon, configuration, key)
    BY <1>1, <2>2, <2>3, <2>4, QueueFacts
  <2> HIDE DEF o
  <2>6. o.kind = "inserted"
    <3>1. \A r \in Reconciliation : recon[r].status # "absent" =>
            recon[r].configuration # configuration /\ recon[r].key # key
      BY <1>1, <2>2 DEF Versioned, configuration, Recon, Key
    <3> QED
      BY <3>1, <2>5 DEF Stored
  <2>7. o.id \in Reconciliation /\ recon[o.id].status = "absent" /\ o.id \notin active
    BY <2>5, <2>6 DEF Stored, Active
  <2>8. /\ job' \in [SyncRequest -> Job] /\ job'[o.id] = NewJob
        /\ \A r \in SyncRequest \ {o.id} : job'[r] = job[r]
    BY <1>1, <2>4, <2>7, ExecutionTypes DEF SyncRequest
  <2>9. ASSUME NEW r \in active
        PROVE  /\ row(r) \in Recon /\ row(r).status = "superseded"
               /\ row(r).configuration = recon[r].configuration /\ row(r).key = recon[r].key
    <3> DEFINE next == IF recon[r].status = "running" THEN o.id ELSE o.rows[r].next
    <3>1. /\ o.rows[r] \in Recon /\ o.rows[r].configuration = recon[r].configuration
          /\ o.rows[r].key = recon[r].key
      BY <2>5 DEF Stored, Active
    <3>2. next \in Reconciliation \cup {0}
      BY <3>1, <2>7 DEF Recon
    <3>3. row(r) = [o.rows[r] EXCEPT !.status = "superseded", !.next = next]
      OBVIOUS
    <3> HIDE DEF next, row
    <3> QED
      BY <3>1, <3>2, <3>3 DEF Recon, Terminal
  <2> HIDE DEF row
  <2>10. recon' \in [Reconciliation -> Recon]
    BY <2>4, <2>5, <2>9 DEF Stored
  <2>11. \A r \in Reconciliation :
           IF r \in active THEN recon'[r] = row(r) ELSE recon'[r] = o.rows[r]
    BY <2>4
  <2>12. Waiting(recon')
    BY <2>5, <2>9, <2>11 DEF Stored, Waiting
  <2>13. ASSUME NEW r \in Reconciliation
         PROVE  /\ recon[r].status \in Terminal => recon'[r].status = recon[r].status
                /\ recon[r].status = "running" => r \in active
                /\ recon[r].status # "absent" =>
                     /\ recon'[r].status # "absent"
                     /\ recon'[r].configuration = recon[r].configuration
                     /\ recon'[r].key = recon[r].key
    BY <1>1, <2>5, <2>9, <2>11 DEF Stored, Recon, Active, Terminal
  <2>14. /\ recon'[o.id].status = "queued"
         /\ recon'[o.id].configuration = configuration
         /\ recon'[o.id].key.configuration = configuration
    BY <2>2, <2>5, <2>6, <2>7, <2>11 DEF Stored
  <2>15. \A r \in Reconciliation \ {o.id} :
           recon[r].status = "absent" => recon'[r].status = "absent"
    BY <2>5, <2>11 DEF Stored, Active
  <2> QED
    BY <2>7, <2>8, <2>10, <2>12, <2>13, <2>14, <2>15 DEF ReconMoves, configuration
<1> QED
  BY <1>2, <1>3

(* A transaction that leaves the requests alone, and one that starts or ends one.     *)
LEMMA NoneMoves ==
  ASSUME NEW T, NEW configuration, TypeOK, OneQueued, UNCHANGED <<recon, job>>
  PROVE  ReconMoves(T, configuration)
<1>1. recon \in [Reconciliation -> Recon] /\ job \in [SyncRequest -> Job] /\ Waiting(recon)
  BY QueuesWait DEF TypeOK
<1> QED
  BY <1>1 DEF ReconMoves

LEMMA OneMoves ==
  ASSUME NEW r \in Reconciliation, NEW row \in Recon, NEW configuration, TypeOK, OneQueued,
         recon[r].status \in Active, row.status \in {"running"} \cup Terminal,
         row.configuration = recon[r].configuration, row.key = recon[r].key,
         recon' = [recon EXCEPT ![r] = row], UNCHANGED job
  PROVE  ReconMoves({r}, configuration)
<1>1. recon \in [Reconciliation -> Recon] /\ job \in [SyncRequest -> Job] /\ Waiting(recon)
  BY QueuesWait DEF TypeOK
<1>2. /\ recon' \in [Reconciliation -> Recon] /\ recon'[r] = row
      /\ \A s \in Reconciliation \ {r} : recon'[s] = recon[s]
  BY <1>1
<1>3. Waiting(recon')
  BY <1>1, <1>2 DEF Waiting, Terminal
<1> QED
  BY <1>1, <1>2, <1>3 DEF ReconMoves, Active, Terminal

(* A superseded reconciliation hands over to one for the heads that GitHub has        *)
(* (supersedeSynchronization).                                                        *)
LEMMA SupersedeFacts ==
  ASSUME NEW w \in Worker, TypeOK, OneQueued, Reconciles(w), Supersede(w)
  PROVE  /\ ReconMoves({exec[w].request}, project.configuration)
         /\ recon[exec[w].request].status \in Active =>
              \/ recon'[exec[w].request].status = "superseded"
              \/ Throw(w, "transient") /\ UNCHANGED lock
<1> DEFINE r == exec[w].request
           configuration == exec[w].claim.configuration
           key == KeyOf("heads", configuration, {exec[w].seen})
           o == Replacement(w)
           ended == [recon[r] EXCEPT !.status = "superseded"]
<1>1. /\ recon \in [Reconciliation -> Recon] /\ job \in [SyncRequest -> Job] /\ Waiting(recon)
      /\ exec[w] \in Execution /\ r \in Reconciliation
  BY QueuesWait DEF TypeOK, Reconciles
<1>2. CASE recon[r].status \in Active /\ Current(w) /\ o.kind = "throws"
  <2>1. UNCHANGED <<recon, job, lock>> /\ Throw(w, "transient")
    BY <1>2 DEF Supersede
  <2> QED
    BY <2>1, NoneMoves
<1>3. CASE recon[r].status \in Active /\ Current(w) /\ o.kind # "throws"
  <2> DEFINE row == [o.rows[r] EXCEPT !.status = "superseded", !.next = o.id]
  <2>1. /\ Commits(o) /\ recon' = [o.rows EXCEPT ![r] = row]
        /\ job' = IF o.kind = "inserted" THEN [job EXCEPT ![o.id] = NewJob] ELSE job
    BY <1>3 DEF Supersede
  <2>2. /\ configuration \in Nat /\ exec[w].seen \in Heads /\ exec[w].claim.forced \in BOOLEAN
        /\ {exec[w].seen} \in SUBSET Nat /\ configuration = project.configuration
    BY <1>1, <1>3, BoundAssumption DEF Execution, Claim, Heads, Current
  <2>3. key \in Key /\ key.configuration = configuration /\ "heads" \in Reason
    BY <2>2 DEF KeyOf, Key, Reason
  <2> HIDE DEF configuration, key
  <2>4. Stored(o, recon, configuration, key)
    BY <1>1, <2>1, <2>2, <2>3, QueueFacts DEF Replacement, configuration, key
  <2> HIDE DEF o
  <2>5. /\ row \in Recon /\ row.status = "superseded"
        /\ row.configuration = recon[r].configuration /\ row.key = recon[r].key
    <3>1. /\ o.rows[r] \in Recon /\ o.id \in Reconciliation
          /\ o.rows[r].configuration = recon[r].configuration /\ o.rows[r].key = recon[r].key
      BY <1>1, <1>3, <2>4 DEF Stored, Active
    <3> QED
      BY <3>1 DEF Recon, Terminal
  <2> HIDE DEF row
  <2>6. /\ recon' \in [Reconciliation -> Recon] /\ recon'[r] = row
        /\ \A s \in Reconciliation \ {r} : recon'[s] = o.rows[s]
    BY <1>1, <2>1, <2>4, <2>5 DEF Stored
  <2>7. Waiting(recon')
    BY <2>4, <2>5, <2>6 DEF Stored, Waiting
  <2>8. ASSUME NEW s \in Reconciliation
        PROVE  /\ recon[s].status \in Terminal => recon'[s].status = recon[s].status
               /\ recon[s].status = "running" /\ s \notin {r} => recon'[s].status = "running"
               /\ recon[s].status # "absent" =>
                    /\ recon'[s].status # "absent"
                    /\ recon'[s].configuration = recon[s].configuration
                    /\ recon'[s].key = recon[s].key
    <3>1. CASE s = r
      BY <1>1, <1>3, <2>5, <2>6, <3>1 DEF Active, Terminal
    <3>2. CASE s # r
      BY <1>1, <2>4, <2>6, <3>2 DEF Stored, Recon, Active, Terminal
    <3> QED
      BY <3>1, <3>2
  <2>9. /\ job' \in [SyncRequest -> Job]
         /\ \A s \in SyncRequest :
              job'[s] = IF o.kind = "inserted" /\ s = o.id THEN NewJob ELSE job[s]
    BY <1>1, <2>1, <2>4, ExecutionTypes DEF Stored, SyncRequest
  <2>10. ASSUME NEW s \in SyncRequest
         PROVE  \/ job'[s] = job[s] /\ (s \in Reconciliation /\ recon[s].status = "absent" =>
                                           recon'[s].status = "absent")
                \/ /\ s \in Reconciliation /\ recon[s].status = "absent"
                   /\ job'[s] = NewJob /\ recon'[s].status = "queued"
                   /\ recon'[s].configuration = configuration
                   /\ recon'[s].key.configuration = configuration
    <3>1. recon[r].status # "absent"
      BY <1>3 DEF Active
    <3>2. CASE o.kind = "inserted" /\ s = o.id
      BY <2>3, <2>4, <2>6, <2>9, <3>1, <3>2 DEF Stored
    <3>3. CASE ~(o.kind = "inserted" /\ s = o.id)
      BY <2>4, <2>6, <2>9, <3>1, <3>3 DEF Stored
    <3> QED
      BY <3>2, <3>3
  <2> QED
    BY <2>2, <2>5, <2>6, <2>7, <2>8, <2>9, <2>10 DEF ReconMoves
<1>4. CASE recon[r].status \in Active /\ ~Current(w)
  <2>1. recon' = [recon EXCEPT ![r] = ended] /\ UNCHANGED job
    BY <1>1, <1>4 DEF Supersede
  <2>2. /\ ended \in Recon /\ ended.status = "superseded"
        /\ ended.configuration = recon[r].configuration /\ ended.key = recon[r].key
    BY <1>1 DEF Recon, Terminal
  <2> HIDE DEF ended
  <2> QED
    BY <1>1, <1>4, <2>1, <2>2, OneMoves DEF Terminal
<1>5. CASE recon[r].status \notin Active
  <2>1. recon' = [recon EXCEPT ![r].status = @] /\ UNCHANGED job
    BY <1>1, <1>5 DEF Supersede
  <2>2. recon' = recon
    BY <1>1, <2>1 DEF Recon
  <2> QED
    BY <1>5, <2>1, <2>2, NoneMoves
<1> QED
  BY <1>2, <1>3, <1>4, <1>5

-----------------------------------------------------------------------------
(* Type correctness: every column and every execution keeps its type.              *)
LEMMA AdvanceTypes ==
  ASSUME NEW w \in Worker, NEW pc \in Step, exec \in [Worker -> Execution], Advance(w, pc)
  PROVE  /\ exec' \in [Worker -> Execution]
         /\ exec'[w] = [exec[w] EXCEPT !.pc = pc]
         /\ \A v \in Worker \ {w} : exec'[v] = exec[v]
  BY DEF Advance, Execution

LEMMA EventTypes == TypeOK /\ OneQueued /\ Versioned /\ Event => TypeOK'
<1> SUFFICES ASSUME TypeOK, OneQueued, Versioned, Event PROVE TypeOK'
  OBVIOUS
<1> USE IdAssumption, BoundAssumption
<1>0. Waiting(recon)
  BY QueuesWait
<1>1. ASSUME NEW heads \in Heads, Push(heads) PROVE TypeOK'
  BY <1>1 DEF Push, Write, Post, TypeOK, Delivery
<1>2. CASE MergePullRequest
  <2>1. remote' \in Heads
    BY <1>2 DEF MergePullRequest, TypeOK, Heads
  <2>2. mail' \in [Delivery -> Nat]
    <3>1. mail["push"] + 1 \in Nat /\ mail["merged"] + 1 \in Nat
      BY DEF TypeOK, Delivery
    <3> DEFINE more == mail["push"] + 1
               merged == mail["merged"] + 1
    <3>2. mail' = [mail EXCEPT !["push"] = more, !["merged"] = merged]
      BY <1>2 DEF MergePullRequest
    <3> HIDE DEF more, merged
    <3> QED
      BY <3>1, <3>2 DEF TypeOK, more, merged
  <2> QED
    BY <2>1, <2>2, <1>2 DEF MergePullRequest, Write, TypeOK
<1>3. CASE UnsuspendInstallation
  <2>1. mail' \in [Delivery -> Nat]
    BY <1>3 DEF UnsuspendInstallation, Post, TypeOK, Delivery
  <2> QED
    BY <2>1, <1>3 DEF UnsuspendInstallation, Write, TypeOK
<1>4. CASE ReconcileManually
  <2>1. ReconMoves({}, project.configuration)
    <3>1. {writes} \in SUBSET Nat
      BY DEF TypeOK
    <3> QED
      BY <3>1, <1>0, <1>4, ForProjectFacts DEF ReconcileManually
  <2> QED
    BY <2>1, <1>4 DEF ReconcileManually, Write, ReconMoves, TypeOK
<1>5. CASE ValidateTopology
  BY <1>5 DEF ValidateTopology, TypeOK
<1>6. CASE ConfigureBranches
  <2> DEFINE configuration == project.configuration + 1
  <2>1. configuration \in Nat /\ validated \in Heads
    BY <1>6 DEF ConfigureBranches, TypeOK, Project
  <2>2. ReconMoves({}, configuration)
    <3>1. /\ KeyOf("configuration", configuration, {}) \in Key
          /\ KeyOf("configuration", configuration, {}).configuration = configuration
          /\ "project_configuration_changed" \in Reason
      BY <2>1 DEF KeyOf, Key, Reason
    <3> QED
      BY <3>1, <2>1, <1>0, <1>6, ApplyFacts DEF ConfigureBranches
  <2>3. project' \in Project
    <3>1. project' = [project EXCEPT !.status = "initializing", !.heads = validated,
                                     !.configuration = configuration, !.synced = 0]
      BY <1>6 DEF ConfigureBranches
    <3> HIDE DEF configuration
    <3> QED
      BY <2>1, <3>1 DEF Project, Connected, TypeOK
  <2> QED
    BY <2>2, <2>3, <1>6 DEF ConfigureBranches, Write, ReconMoves, TypeOK
<1>7. CASE OverrideRequiredChecks
  <2>1. project' \in Project
    <3> DEFINE configuration == project.configuration + 1
    <3>1. project' = [project EXCEPT !.configuration = configuration]
      BY <1>7 DEF OverrideRequiredChecks
    <3>2. configuration \in Nat
      BY DEF TypeOK, Project
    <3> HIDE DEF configuration
    <3> QED
      BY <3>1, <3>2 DEF Project, TypeOK
  <2>2. recon' \in [Reconciliation -> Recon] /\ job' \in [SyncRequest -> Job]
    BY <1>7, OverrideFacts DEF ReconMoves
  <2>3. /\ writes' = writes + 1 /\ validated' = 0
        /\ UNCHANGED <<remote, mail, bucket, incr, archived, lock, exec, faults>>
    BY <1>7 DEF OverrideRequiredChecks, Write
  <2> QED
    BY <2>1, <2>2, <2>3 DEF TypeOK
<1>8. CASE RequestDeletion
  <2>1. project' \in Project
    <3> DEFINE configuration == project.configuration + 1
    <3>1. project' = [project EXCEPT !.status = "pending_deletion", !.configuration = configuration]
      BY <1>8 DEF RequestDeletion
    <3>2. configuration \in Nat
      BY DEF TypeOK, Project
    <3> HIDE DEF configuration
    <3> QED
      BY <3>1, <3>2 DEF Project, TypeOK
  <2>2. recon' \in [Reconciliation -> Recon]
    BY <1>8 DEF RequestDeletion, Recon, Terminal, TypeOK
  <2> QED
    BY <2>1, <2>2, <1>8 DEF RequestDeletion, Write, TypeOK
<1> QED
  BY <1>1, <1>2, <1>3, <1>4, <1>5, <1>6, <1>7, <1>8 DEF Event

(* A request that is at work exists.                                                  *)
LEMMA AttendedExists ==
  ASSUME Attended, Existing, NEW w \in Worker, Busy(w)
  PROVE  /\ exec[w].request \in SyncRequest
         /\ exec[w].request \in Reconciliation => recon[exec[w].request].status # "absent"
         /\ exec[w].request \in Incremental => incr[exec[w].request].status # "absent"
  BY DEF Attended, Existing

(* The transactions of the handlers, the start of a worker and the scheduler.         *)
LEMMA HandlerMoves ==
  ASSUME NEW w \in Worker, IInv,
         \/ ClaimReconciliation(w) \/ Supersede(w)
         \/ \E unknown \in BOOLEAN : ApplySnapshot(w, unknown)
         \/ \E status \in {"degraded", "disconnected"} : MarkReconciliationFailed(w, status)
  PROVE  Reconciles(w) /\ ReconMoves({exec[w].request}, project.configuration)
<1> DEFINE r == exec[w].request
<1>1. Reconciles(w) /\ r \in Reconciliation /\ TypeOK /\ OneQueued /\ recon[r] \in Recon
  BY DEF IInv, HandlersApart, ClaimReconciliation, ApplySnapshot, Supersede,
         MarkReconciliationFailed, Reconciles, TypeOK
<1>2. ASSUME NEW status \in {"running"} \cup Terminal, recon[r].status \in Active,
             recon' = [recon EXCEPT ![r].status = status], UNCHANGED job
      PROVE  ReconMoves({r}, project.configuration)
  <2> DEFINE row == [recon[r] EXCEPT !.status = status]
  <2>1. /\ row \in Recon /\ row.status = status
        /\ row.configuration = recon[r].configuration /\ row.key = recon[r].key
    BY <1>1 DEF Recon, Active, Terminal
  <2>2. recon' = [recon EXCEPT ![r] = row]
    BY <1>2
  <2> HIDE DEF row
  <2> QED
    BY <1>1, <1>2, <2>1, <2>2, OneMoves
<1>3. CASE ClaimReconciliation(w)
  <2>1. CASE UNCHANGED recon
    BY <1>1, <1>3, <2>1, NoneMoves DEF ClaimReconciliation
  <2>2. CASE recon[r].status \in Active /\ recon' = [recon EXCEPT ![r].status = "superseded"]
    BY <1>2, <1>3, <2>2 DEF ClaimReconciliation, Terminal
  <2>3. CASE recon[r].status \in Active /\ recon' = [recon EXCEPT ![r].status = "running"]
    BY <1>2, <1>3, <2>3 DEF ClaimReconciliation, Terminal
  <2> QED
    BY <1>1, <1>3, <2>1, <2>2, <2>3 DEF ClaimReconciliation
<1>4. CASE Supersede(w)
  BY <1>1, <1>4, SupersedeFacts
<1>5. ASSUME NEW unknown \in BOOLEAN, ApplySnapshot(w, unknown)
      PROVE  ReconMoves({r}, project.configuration)
  <2>1. UNCHANGED job
    BY <1>5 DEF ApplySnapshot
  <2>2. CASE recon[r].status = "running" /\ Current(w)
    <3> DEFINE row == [recon[r] EXCEPT !.status = "succeeded", !.heads = exec[w].claim.heads]
    <3>1. exec[w].claim.heads \in Heads
      BY <1>1 DEF TypeOK, Execution, Claim
    <3>2. /\ row \in Recon /\ row.status = "succeeded"
          /\ row.configuration = recon[r].configuration /\ row.key = recon[r].key
      BY <1>1, <3>1 DEF Recon, Terminal
    <3>3. recon' = [recon EXCEPT ![r] = row]
      BY <1>1, <1>5, <2>2 DEF ApplySnapshot, TypeOK
    <3> HIDE DEF row
    <3> QED
      BY <1>1, <2>1, <2>2, <3>2, <3>3, OneMoves DEF Active, Terminal
  <2>3. CASE ~(recon[r].status = "running" /\ Current(w)) /\ recon[r].status \in Active
    <3>1. recon' = [recon EXCEPT ![r].status = "superseded"]
      BY <1>5, <2>3 DEF ApplySnapshot
    <3> QED
      BY <1>2, <2>1, <2>3, <3>1 DEF Terminal
  <2>4. CASE recon[r].status \notin Active
    <3>1. recon' = [recon EXCEPT ![r].status = @]
      BY <1>5, <2>4 DEF ApplySnapshot, Active
    <3>2. recon' = recon
      BY <1>1, <3>1 DEF Recon, TypeOK
    <3> QED
      BY <1>1, <2>1, <3>2, NoneMoves
  <2> QED
    BY <2>2, <2>3, <2>4
<1>6. ASSUME NEW status \in {"degraded", "disconnected"}, MarkReconciliationFailed(w, status)
      PROVE  ReconMoves({r}, project.configuration)
  <2>1. UNCHANGED job
    BY <1>6 DEF MarkReconciliationFailed
  <2>2. CASE recon[r].status \in Active
    BY <1>2, <1>6, <2>1, <2>2 DEF MarkReconciliationFailed, Active, Terminal
  <2>3. CASE recon[r].status \notin Active
    <3>1. Busy(w)
      BY <1>6 DEF MarkReconciliationFailed, Busy, Started
    <3>2. recon[r].status \in Terminal
      BY <1>1, <2>3, <3>1, AttendedExists DEF IInv, Recon
    <3>3. UNCHANGED recon
      BY <1>6, <3>2 DEF MarkReconciliationFailed
    <3> QED
      BY <1>1, <2>1, <3>3, NoneMoves
  <2> QED
    BY <2>2, <2>3
<1> QED
  BY <1>1, <1>3, <1>4, <1>5, <1>6

(* Whoever else asks for a reconciliation does so for the project's configuration.    *)
LEMMA AskedMoves ==
  ASSUME NEW w \in Worker, IInv,
         \/ ReconcileRecovered(w) \/ Scan(w) \/ CommitObserved(w)
         \/ \E status \in {"degraded", "disconnected"} : MarkIncrementalFailed(w, status)
  PROVE  ReconMoves({}, project.configuration)
<1>1. /\ TypeOK /\ OneQueued /\ Waiting(recon) /\ exec[w] \in Execution
      /\ project.configuration \in Nat /\ project.heads \in Heads
  BY QueuesWait DEF IInv, TypeOK, Project
<1>2. /\ exec[w].recovered \in SUBSET Nat /\ {bucket} \in SUBSET Nat
      /\ {exec[w].request} \in SUBSET Nat
      /\ exec[w].seen \in Heads /\ exec[w].claim.forced \in BOOLEAN
  <2>1. exec[w].recovered \in SUBSET Nat
    BY <1>1, IdAssumption DEF Execution
  <2>2. {bucket} \in SUBSET Nat
    BY <1>1 DEF TypeOK
  <2>3. exec[w].request \in Nat
    <3>1. exec[w].request \in (Reconciliation \cup Incremental) \cup {0}
      BY <1>1 DEF Execution, SyncRequest
    <3>2. \A n \in Reconciliation \cup Incremental : n \in Nat
      BY IdAssumption
    <3> QED
      BY <3>1, <3>2
  <2>4. exec[w].seen \in Heads /\ exec[w].claim.forced \in BOOLEAN
    BY <1>1 DEF Execution, Claim
  <2> QED
    BY <2>1, <2>2, <2>3, <2>4
<1>3. CASE UNCHANGED <<recon, job>>
  BY <1>1, <1>3, NoneMoves
<1>4. CASE Apply(ForProject("recovery", exec[w].recovered))
  BY <1>1, <1>2, <1>4, ForProjectFacts
<1>5. CASE Apply(Periodic)
  BY <1>1, <1>2, <1>5, ForProjectFacts DEF Periodic
<1>6. CASE Current(w) /\ Apply(Observed(w))
  <2> DEFINE key == KeyOf("observed", project.configuration, {exec[w].request})
             reason == IF exec[w].claim.forced THEN "force_push_detected" ELSE "observed"
  <2>1. key \in Key /\ key.configuration = project.configuration /\ reason \in Reason
    BY <1>1, <1>2 DEF KeyOf, Key, Reason
  <2>2. Apply(QueueReconciliation(project.configuration, exec[w].seen, key, reason,
                                  exec[w].claim.forced, recon))
    BY <1>6 DEF Observed, Current
  <2> HIDE DEF key, reason
  <2> QED
    BY <1>1, <1>2, <2>1, <2>2, ApplyFacts
<1>7. CASE Current(w) /\ Apply(Inconsistency(w))
  <2> DEFINE key == KeyOf("inconsistency", project.configuration, {exec[w].request})
  <2>1. key \in Key /\ key.configuration = project.configuration /\ "inconsistency" \in Reason
    BY <1>1, <1>2 DEF KeyOf, Key, Reason
  <2>2. Apply(QueueReconciliation(project.configuration, project.heads, key, "inconsistency",
                                  FALSE, recon))
    BY <1>7 DEF Inconsistency, Current
  <2> HIDE DEF key
  <2> QED
    BY <1>1, <1>2, <2>1, <2>2, ApplyFacts
<1>8. CASE ReconcileRecovered(w)
  BY <1>3, <1>4, <1>8 DEF ReconcileRecovered
<1>9. CASE Scan(w)
  BY <1>3, <1>5, <1>9 DEF Scan
<1>10. CASE CommitObserved(w)
  <2>1. CASE UNCHANGED <<recon, job>>
    BY <1>3, <2>1
  <2>2. CASE ~UNCHANGED <<recon, job>>
    <3>1. Current(w) /\ Apply(Observed(w))
      BY <1>10, <2>2 DEF CommitObserved
    <3> QED
      BY <1>6, <3>1
  <2> QED
    BY <2>1, <2>2
<1>11. ASSUME NEW status \in {"degraded", "disconnected"}, MarkIncrementalFailed(w, status)
       PROVE  ReconMoves({}, project.configuration)
  BY <1>3, <1>7, <1>11 DEF MarkIncrementalFailed
<1> QED
  BY <1>8, <1>9, <1>10, <1>11

(* What a transaction does to the incremental requests, of which it may end or start  *)
(* those of T.                                                                        *)
IncrMoves(T) ==
  /\ incr' \in [Incremental -> Incr] /\ WaitingIncr(incr')
  /\ \A k \in Incremental :
       /\ incr[k].status \in Terminal => incr'[k].status = incr[k].status
       /\ incr[k].status = "running" /\ k \notin T => incr'[k].status = "running"
       /\ incr[k].status # "absent" => incr'[k].status # "absent"
       /\ incr[k].status = "absent" => incr'[k].status = "absent" \/ job'[k] = NewJob

LEMMA OneIncrMoves ==
  ASSUME NEW i \in Incremental, NEW status \in {"running"} \cup Terminal, TypeOK, OneQueued,
         incr[i].status \in Active, incr' = [incr EXCEPT ![i].status = status]
  PROVE  IncrMoves({i})
<1> DEFINE row == [incr[i] EXCEPT !.status = status]
<1>1. incr \in [Incremental -> Incr] /\ WaitingIncr(incr)
  BY QueuesWait DEF TypeOK
<1>2. row \in Incr /\ row.status = status /\ row.type = incr[i].type
  BY <1>1 DEF Incr, Active, Terminal
<1>3. incr' = [incr EXCEPT ![i] = row]
  OBVIOUS
<1> HIDE DEF row
<1>4. /\ incr' \in [Incremental -> Incr] /\ incr'[i] = row
      /\ \A k \in Incremental \ {i} : incr'[k] = incr[k]
  BY <1>1, <1>2, <1>3
<1>5. WaitingIncr(incr')
  BY <1>1, <1>2, <1>4 DEF WaitingIncr, Terminal
<1> QED
  BY <1>2, <1>4, <1>5 DEF IncrMoves, Active, Terminal

LEMMA IncrementalMoves ==
  ASSUME NEW w \in Worker, IInv,
         \/ ClaimIncremental(w) \/ Finish(w)
         \/ \E status \in {"degraded", "disconnected"} : MarkIncrementalFailed(w, status)
  PROVE  /\ exec[w].request \in Incremental
         /\ UNCHANGED incr \/ IncrMoves({exec[w].request})
<1> DEFINE i == exec[w].request
<1>1. Busy(w) /\ ~Reconciles(w)
  BY DEF IInv, HandlersApart, ClaimIncremental, Finish, MarkIncrementalFailed, Busy, Started
<1>2. i \in Incremental /\ TypeOK /\ OneQueued /\ incr \in [Incremental -> Incr]
  BY <1>1 DEF IInv, Attended, Reconciles, SyncRequest, TypeOK
<1> SUFFICES UNCHANGED incr \/ IncrMoves({i})
  BY <1>2
<1>3. ASSUME NEW status \in {"running"} \cup Terminal, incr[i].status \in Active,
             incr' = [incr EXCEPT ![i].status = status]
      PROVE  IncrMoves({i})
  BY <1>2, <1>3, OneIncrMoves
<1>4. ASSUME incr' = [incr EXCEPT ![i].status = incr[i].status] PROVE UNCHANGED incr
  BY <1>2, <1>4 DEF Incr
<1>5. CASE ClaimIncremental(w)
  <2>1. CASE UNCHANGED incr
    BY <2>1
  <2>2. CASE incr[i].status \in Active /\ incr' = [incr EXCEPT ![i].status = "superseded"]
    BY <1>3, <2>2 DEF Terminal
  <2>3. CASE incr[i].status \in Active /\ incr' = [incr EXCEPT ![i].status = "running"]
    BY <1>3, <2>3
  <2> QED
    BY <1>5, <2>1, <2>2, <2>3 DEF ClaimIncremental
<1>6. CASE Finish(w)
  <2>1. CASE incr[i].status = "running"
    <3> DEFINE status == IF Current(w) THEN "succeeded" ELSE "superseded"
    <3>1. incr' = [incr EXCEPT ![i].status = status] /\ status \in Terminal
      BY <1>6, <2>1 DEF Finish, Terminal
    <3> HIDE DEF status
    <3> QED
      BY <1>3, <2>1, <3>1 DEF Active
  <2>2. CASE incr[i].status # "running"
    <3>1. incr' = [incr EXCEPT ![i].status = incr[i].status]
      BY <1>6, <2>2 DEF Finish
    <3> QED
      BY <1>4, <3>1
  <2> QED
    BY <2>1, <2>2
<1>7. ASSUME NEW status \in {"degraded", "disconnected"}, MarkIncrementalFailed(w, status)
      PROVE  UNCHANGED incr \/ IncrMoves({i})
  <2>1. CASE incr[i].status \in Active
    BY <1>3, <1>7, <2>1 DEF MarkIncrementalFailed, Terminal
  <2>2. CASE incr[i].status \notin Active
    BY <1>4, <1>7, <2>2 DEF MarkIncrementalFailed
  <2> QED
    BY <2>1, <2>2
<1> QED
  BY <1>5, <1>6, <1>7

(* The start of a worker leaves one of the lost requests of a type, with its job      *)
(* (recoverRepositoryIncrementalSyncJobs).                                            *)
LEMMA RecoveryMoves ==
  ASSUME NEW w \in Worker, IInv, RecoverIncrementals(w)
  PROVE  /\ IncrMoves(Lost(Incremental, incr)) /\ job' \in [SyncRequest -> Job]
         /\ \A i \in Incremental :
              /\ incr[i].status = "absent" => incr'[i].status = "absent"
              /\ incr'[i].status \in Active =>
                   incr[i].status \in Active /\ (job[i].state \in NoRow => job'[i] = NewJob)
         /\ \A r \in SyncRequest :
              job'[r] = job[r] \/ (r \in Lost(Incremental, incr) /\ job'[r] = NewJob)
<1> DEFINE lost == Lost(Incremental, incr)
           queued(type) == {i \in Incremental : incr[i].status = "queued" /\ incr[i].type = type}
           runnable == UNION {Runnable(type) : type \in SyncType}
           scopes(i) == {i} \cup {k \in lost : incr[k].type = incr[i].type}
           row(i) == [incr[i] EXCEPT !.status = "queued",
                        !.forced = \E k \in scopes(i) : incr[k].forced,
                        !.required = \E k \in scopes(i) : incr[k].required]
           given(i) == [incr[i] EXCEPT !.status = "superseded"]
<1>1. /\ incr \in [Incremental -> Incr] /\ job \in [SyncRequest -> Job] /\ WaitingIncr(incr)
  BY QueuesWait DEF IInv, TypeOK
<1>2. /\ incr' = [i \in Incremental |-> IF i \in runnable THEN row(i)
                    ELSE IF i \in lost THEN given(i) ELSE incr[i]]
      /\ job' = [r \in SyncRequest |-> IF r \in lost \cap runnable THEN NewJob ELSE job[r]]
  BY DEF RecoverIncrementals
<1>3. ASSUME NEW i \in Incremental
      PROVE  /\ row(i) \in Incr /\ row(i).status = "queued" /\ row(i).type = incr[i].type
             /\ given(i) \in Incr /\ given(i).status = "superseded"
             /\ given(i).type = incr[i].type
  <2>1. /\ incr[i] \in Incr
        /\ (\E k \in scopes(i) : incr[k].forced) \in BOOLEAN
        /\ (\E k \in scopes(i) : incr[k].required) \in BOOLEAN
    BY <1>1
  <2> HIDE DEF scopes
  <2> QED
    BY <2>1 DEF Incr, Active, Terminal
<1>4. \A i \in lost : i \in Incremental /\ incr[i].status \in Active /\ job[i].state \in NoRow
  BY DEF Lost
<1>5. \A i, k \in Incremental :
        incr[i].type = incr[k].type /\ i \in runnable =>
          /\ incr[i].status \in Active
          /\ i \in lost \/ incr[i].status = "queued"
          /\ k \in runnable \/ (incr[k].status = "queued" /\ k \notin lost) => k = i
  <2>1. ASSUME NEW type \in SyncType, NEW i \in Runnable(type)
        PROVE  /\ i \in Incremental /\ incr[i].type = type /\ incr[i].status \in Active
               /\ i \in lost \/ incr[i].status = "queued"
    BY <1>4 DEF Runnable, Active
  <2>2. ASSUME NEW type \in SyncType, NEW i \in Runnable(type), NEW k \in Incremental,
               incr[k].type = type,
               k \in Runnable(type) \/ (incr[k].status = "queued" /\ k \notin lost)
        PROVE  k = i
    <3> DEFINE mine == {j \in lost : incr[j].type = type}
    <3>1. i \in Incremental /\ incr[i].type = type
      BY <2>1
    <3>2. CASE \A j \in mine : incr[j].status = "queued"
      <4>1. Runnable(type) = mine
        BY <3>2 DEF Runnable
      <4>2. incr[i].status = "queued" /\ incr[k].status = "queued"
        BY <2>2, <3>2, <4>1
      <4> QED
        BY <1>1, <2>2, <3>1, <4>2 DEF WaitingIncr
    <3>3. CASE ~(\A j \in mine : incr[j].status = "queued") /\ queued(type) # {}
      <4>1. Runnable(type) = queued(type)
        BY <3>3 DEF Runnable
      <4>2. incr[i].status = "queued" /\ incr[k].status = "queued"
        BY <2>2, <4>1
      <4> QED
        BY <1>1, <2>2, <3>1, <4>2 DEF WaitingIncr
    <3>4. CASE ~(\A j \in mine : incr[j].status = "queued") /\ queued(type) = {}
      <4>1. Runnable(type) = {j \in mine : \A l \in mine : j <= l}
        BY <3>4 DEF Runnable
      <4>2. k \in Runnable(type)
        BY <2>2, <3>4
      <4>3. i <= k /\ k <= i /\ i \in Nat /\ k \in Nat
        BY <2>2, <4>1, <4>2, <1>4, IdAssumption
      <4> QED
        BY <4>3
    <3> QED
      BY <3>2, <3>3, <3>4
  <2>3. \A i \in Incremental : i \in runnable => i \in Runnable(incr[i].type)
    BY <2>1
  <2>4. \A i \in Incremental : incr[i].type \in SyncType
    BY <1>1 DEF Incr
  <2> QED
    BY <2>1, <2>2, <2>3, <2>4
<1> HIDE DEF row, given, lost, runnable
<1>6. /\ incr' \in [Incremental -> Incr]
      /\ \A i \in Incremental : incr'[i].type = incr[i].type
      /\ \A i \in Incremental :
           /\ i \in runnable => incr'[i].status = "queued"
           /\ i \notin runnable /\ i \in lost => incr'[i].status = "superseded"
           /\ i \notin runnable /\ i \notin lost => incr'[i] = incr[i]
  BY <1>1, <1>2, <1>3
<1>7. WaitingIncr(incr')
  BY <1>5, <1>6, <1>1 DEF WaitingIncr
<1>8. IncrMoves(lost)
  BY <1>4, <1>5, <1>6, <1>7 DEF IncrMoves, Active, Terminal
<1>9. \A r \in SyncRequest : job'[r] = IF r \in lost \cap runnable THEN NewJob ELSE job[r]
  BY <1>2
<1>10. job' \in [SyncRequest -> Job]
  BY <1>1, <1>2, ExecutionTypes
<1>11. ASSUME NEW i \in Incremental, incr'[i].status \in Active, job[i].state \in NoRow
       PROVE  incr[i].status \in Active /\ job'[i] = NewJob
  <2>1. incr[i].status \in Active
    BY <1>4, <1>5, <1>6, <1>11
  <2>2. i \in lost
    BY <1>11, <2>1 DEF Lost, lost
  <2>3. i \in runnable
    BY <1>6, <1>11, <2>2 DEF Active
  <2> QED
    BY <1>9, <2>1, <2>2, <2>3 DEF SyncRequest
<1>12. \A i \in Incremental : /\ incr[i].status = "absent" => incr'[i].status = "absent"
                              /\ incr'[i].status \in Active => incr[i].status \in Active
  BY <1>4, <1>5, <1>6 DEF Active
<1> QED
  BY <1>8, <1>9, <1>10, <1>11, <1>12 DEF lost

LEMMA DeliverMoves ==
  ASSUME NEW kind \in Delivery, IInv, Deliver(kind)
  PROVE  UNCHANGED <<incr, job>> \/ StoredIncr
<1>1. WaitingIncr(incr) /\ TypeOK
  BY QueuesWait DEF IInv
<1> DEFINE type == IF kind = "merged" THEN "refresh_change" ELSE "refresh_branches"
           forced == kind = "forced"
           required == kind = "unsuspended"
<1>2. type \in SyncType /\ forced \in BOOLEAN /\ required \in BOOLEAN
  BY DEF SyncType
<1>3. CASE QueueIncremental(type, forced, required)
  <2> HIDE DEF type, forced, required
  <2> QED
    BY <1>1, <1>2, <1>3, QueueIncrementalFacts
<1>4. CASE UNCHANGED <<incr, job>>
  BY <1>4
<1> QED
  BY <1>3, <1>4 DEF Deliver

(* What happens to an execution: it is replaced as a whole, and no other is.          *)
Goes(w, e) == exec' = [exec EXCEPT ![w] = e]

LEMMA ReleaseTypes ==
  ASSUME NEW r, job \in [SyncRequest -> Job], Release(r)
  PROVE  /\ job' \in [SyncRequest -> Job]
         /\ \A s \in SyncRequest : s # r => job'[s] = job[s]
         /\ \A s \in SyncRequest : job[s].state # "none" => job'[s].state # "none"
<1> DEFINE state == IF job[r].attempts >= MaxAttempts THEN "dead" ELSE "ready"
<1>1. job' = [job EXCEPT ![r].state = state] /\ state \in {"dead", "ready"}
  BY DEF Release
<1> HIDE DEF state
<1> QED
  BY <1>1 DEF Job, NoRow

LEMMA StartTypes ==
  ASSUME NEW w \in Worker, IInv,
         \/ RecoverReconciliations(w) \/ RecoverIncrementals(w) \/ ReconcileRecovered(w)
         \/ Scan(w) \/ Acknowledge(w) \/ Retry(w) \/ Crash(w) \/ RawFail(w)
         \/ \E r \in SyncRequest : Take(w, r)
         \/ \E kind \in {"transient", "permanent"} : Fail(w, kind)
  PROVE  TypeOK'
<1> USE DEF Outside
<1>1. TypeOK /\ exec \in [Worker -> Execution] /\ job \in [SyncRequest -> Job]
      /\ lock \in Worker \cup {NoWorker}
  BY DEF IInv, TypeOK
<1>2. \A e \in Execution : Goes(w, e) => exec' \in [Worker -> Execution]
  BY <1>1 DEF Goes
<1>3. ASSUME NEW pc \in Step, Advance(w, pc) PROVE exec' \in [Worker -> Execution]
  BY <1>1, <1>3, AdvanceTypes
<1>4. \A pc \in Step : IdleExec(pc) \in Execution
  BY ExecutionTypes
<1>5. "idle" \in Step /\ "down" \in Step /\ "recover" \in Step /\ "retry" \in Step
      /\ "fail" \in Step /\ "reconcile" \in Step /\ "scan" \in Step /\ "claim" \in Step
  BY DEF Step
<1>6. CASE RecoverReconciliations(w)
  <2>1. job' \in [SyncRequest -> Job]
    BY <1>1, <1>6, ExecutionTypes DEF RecoverReconciliations
  <2> QED
    BY <1>1, <1>3, <1>5, <1>6, <2>1 DEF RecoverReconciliations, TypeOK
<1>7. CASE RecoverIncrementals(w)
  <2>1. incr' \in [Incremental -> Incr] /\ job' \in [SyncRequest -> Job]
    BY <1>7, RecoveryMoves DEF IncrMoves
  <2> DEFINE recovered == Lost(Incremental, incr) \cup UNION {Runnable(type) : type \in SyncType}
  <2>2. recovered \in SUBSET Incremental
    BY DEF Lost, Runnable
  <2>3. exec' = [exec EXCEPT ![w].pc = "reconcile", ![w].recovered = recovered]
    BY <1>7 DEF RecoverIncrementals
  <2> HIDE DEF recovered
  <2>4. exec' \in [Worker -> Execution]
    <3> DEFINE e == [exec[w] EXCEPT !.pc = "reconcile", !.recovered = recovered]
    <3>1. e \in Execution
      BY <1>1, <1>5, <2>2 DEF Execution
    <3>2. exec' = [exec EXCEPT ![w] = e]
      BY <2>3
    <3> HIDE DEF e
    <3> QED
      BY <1>2, <3>1, <3>2 DEF Goes
  <2>5. UNCHANGED <<Outside, project, recon, archived, lock, faults>>
    BY <1>7 DEF RecoverIncrementals
  <2> QED
    BY <1>1, <2>1, <2>4, <2>5 DEF TypeOK
<1>8. CASE ReconcileRecovered(w)
  <2>1. recon' \in [Reconciliation -> Recon] /\ job' \in [SyncRequest -> Job]
    BY <1>8, AskedMoves DEF ReconMoves
  <2>2. exec' \in [Worker -> Execution]
    <3>1. CASE exec' = [exec EXCEPT ![w].pc = "scan", ![w].recovered = {}]
      <4> DEFINE e == [exec[w] EXCEPT !.pc = "scan", !.recovered = {}]
      <4>1. e \in Execution
        BY <1>1, <1>5 DEF Execution
      <4>2. exec' = [exec EXCEPT ![w] = e]
        BY <3>1
      <4> HIDE DEF e
      <4> QED
        BY <1>2, <4>1, <4>2 DEF Goes
    <3>2. CASE exec' = [exec EXCEPT ![w] = IdleExec("down")]
      BY <1>2, <1>4, <1>5, <3>2 DEF Goes
    <3> QED
      BY <1>8, <3>1, <3>2 DEF ReconcileRecovered
  <2> QED
    BY <1>1, <1>8, <2>1, <2>2 DEF ReconcileRecovered, TypeOK
<1>9. CASE Scan(w)
  <2>1. recon' \in [Reconciliation -> Recon] /\ job' \in [SyncRequest -> Job]
    BY <1>9, AskedMoves DEF ReconMoves
  <2>2. exec' \in [Worker -> Execution]
    <3> DEFINE pc == IF exec[w].pc = "scan" THEN "idle" ELSE exec[w].pc
    <3>1. CASE Advance(w, "idle")
      BY <1>3, <1>5, <3>1
    <3>2. CASE exec' = [exec EXCEPT ![w] = IdleExec("down")]
      BY <1>2, <1>4, <1>5, <3>2 DEF Goes
    <3>3. CASE exec' = [exec EXCEPT ![w].pc = pc]
      <4>1. pc \in Step
        BY <1>1, <1>5 DEF Execution
      <4> HIDE DEF pc
      <4> QED
        BY <1>3, <3>3, <4>1 DEF Advance
    <3> QED
      BY <1>9, <3>1, <3>2, <3>3 DEF Scan
  <2> QED
    BY <1>1, <1>9, <2>1, <2>2 DEF Scan, TypeOK
<1>10. CASE Acknowledge(w)
  <2>1. job' \in [SyncRequest -> Job] /\ exec' \in [Worker -> Execution]
    BY <1>1, <1>2, <1>4, <1>5, <1>10, ExecutionTypes DEF Acknowledge, Goes
  <2> QED
    BY <1>1, <1>10, <2>1 DEF Acknowledge, Unlock, TypeOK
<1>11. CASE Retry(w)
  <2>1. job' \in [SyncRequest -> Job] /\ exec' \in [Worker -> Execution]
    BY <1>1, <1>2, <1>4, <1>5, <1>11, ReleaseTypes DEF Retry, Goes
  <2> QED
    BY <1>1, <1>11, <2>1 DEF Retry, Unlock, TypeOK
<1>12. CASE Crash(w)
  <2>1. exec' \in [Worker -> Execution]
    BY <1>2, <1>4, <1>5, <1>12 DEF Crash, Goes
  <2> QED
    BY <1>1, <1>12, <2>1 DEF Crash, Fault, Unlock, TypeOK
<1>13. CASE RawFail(w)
  <2>1. exec' \in [Worker -> Execution]
    BY <1>3, <1>5, <1>13 DEF RawFail
  <2> QED
    BY <1>1, <1>13, <2>1 DEF RawFail, Fault, TypeOK
<1>14. ASSUME NEW r \in SyncRequest, Take(w, r) PROVE TypeOK'
  <2> DEFINE leased == [state |-> "leased", attempts |-> job[r].attempts + 1]
  <2>1. leased \in Job
    BY <1>1 DEF Job
  <2>2. job' = [job EXCEPT ![r] = leased]
    BY <1>14 DEF Take
  <2> HIDE DEF leased
  <2>3. job' \in [SyncRequest -> Job]
    BY <1>1, <2>1, <2>2
  <2>4. exec' \in [Worker -> Execution]
    <3> DEFINE e == [exec[w] EXCEPT !.pc = "claim", !.request = r]
    <3>1. e \in Execution
      BY <1>1, <1>5 DEF Execution
    <3>2. exec' = [exec EXCEPT ![w] = e]
      BY <1>14 DEF Take
    <3> HIDE DEF e
    <3> QED
      BY <1>2, <3>1, <3>2 DEF Goes
  <2> QED
    BY <1>1, <1>14, <2>3, <2>4 DEF Take, TypeOK
<1>15. ASSUME NEW kind \in {"transient", "permanent"}, Fail(w, kind) PROVE TypeOK'
  <2>1. exec' \in [Worker -> Execution]
    <3>1. Advance(w, "fail") \/ Advance(w, "retry")
      BY <1>15 DEF Fail, Throw
    <3> QED
      BY <1>3, <1>5, <3>1
  <2> QED
    BY <1>1, <1>15, <2>1 DEF Fail, Fault, TypeOK
<1> QED
  BY <1>6, <1>7, <1>8, <1>9, <1>10, <1>11, <1>12, <1>13, <1>14, <1>15

LEMMA ProjectTypes ==
  ASSUME NEW status \in {"degraded", "disconnected"}, project \in Project
  PROVE  [project EXCEPT !.status = status] \in Project
  BY DEF Project, Connected

LEMMA HandleTypes ==
  ASSUME NEW w \in Worker, IInv, Handle(w)
  PROVE  TypeOK'
<1> USE DEF Outside
<1>1. /\ TypeOK /\ exec \in [Worker -> Execution] /\ exec[w] \in Execution
      /\ lock \in Worker \cup {NoWorker} /\ project \in Project /\ remote \in Heads
      /\ recon \in [Reconciliation -> Recon] /\ incr \in [Incremental -> Incr]
  BY DEF IInv, TypeOK
<1>2. ASSUME NEW pc \in Step, Advance(w, pc) PROVE exec' \in [Worker -> Execution]
  BY <1>1, <1>2, AdvanceTypes
<1>3. /\ "verify" \in Step /\ "acknowledge" \in Step /\ "finish" \in Step /\ "fail" \in Step
      /\ "retry" \in Step /\ "observe" \in Step /\ "archive" \in Step /\ "supersede" \in Step
      /\ "apply" \in Step /\ "commit" \in Step
  BY DEF Step
<1>4. ASSUME NEW claim \in Claim, exec' = [exec EXCEPT ![w].pc = "observe", ![w].claim = claim]
      PROVE  exec' \in [Worker -> Execution]
  BY <1>1, <1>3, <1>4 DEF Execution
<1>5. ASSUME NEW pc \in Step, exec' = [exec EXCEPT ![w].seen = remote, ![w].pc = pc]
      PROVE  exec' \in [Worker -> Execution]
  BY <1>1, <1>5 DEF Execution
<1>6. ASSUME NEW kind \in {"transient", "permanent"}, Throw(w, kind)
      PROVE  exec' \in [Worker -> Execution]
  <2>1. Advance(w, "fail") \/ Advance(w, "retry")
    BY <1>6 DEF Throw
  <2> QED
    BY <1>2, <1>3, <2>1
<1>7. CASE ClaimReconciliation(w)
  <2>1. recon' \in [Reconciliation -> Recon] /\ exec[w].request \in Reconciliation
    BY <1>7, HandlerMoves DEF ReconMoves, Reconciles
  <2> DEFINE r == exec[w].request
             claim == [configuration |-> recon[r].configuration, heads |-> recon[r].heads,
                       previous |-> project.heads, forced |-> recon[r].forced, required |-> FALSE]
  <2>2. exec' \in [Worker -> Execution]
    <3>1. claim \in Claim
      BY <1>1, <2>1 DEF Recon, Project, Claim
    <3>2. \/ Advance(w, "acknowledge")
          \/ exec' = [exec EXCEPT ![w].pc = "observe", ![w].claim = claim]
      BY <1>7 DEF ClaimReconciliation
    <3> HIDE DEF claim
    <3> QED
      BY <1>2, <1>3, <1>4, <3>1, <3>2
  <2>3. lock' \in Worker \cup {NoWorker} /\ UNCHANGED <<Outside, project, incr, archived, job, faults>>
    BY <1>1, <1>7 DEF ClaimReconciliation
  <2> QED
    BY <1>1, <2>1, <2>2, <2>3 DEF TypeOK
<1>8. CASE ObserveReconciliation(w)
  <2> DEFINE pc == IF remote # exec[w].claim.heads THEN "supersede"
                   ELSE IF Destructive(w) THEN "archive" ELSE "verify"
  <2>1. pc \in Step /\ exec' = [exec EXCEPT ![w].seen = remote, ![w].pc = pc]
    BY <1>3, <1>8 DEF ObserveReconciliation
  <2> HIDE DEF pc
  <2>2. exec' \in [Worker -> Execution]
    BY <1>5, <2>1
  <2> QED
    BY <1>1, <1>8, <2>2 DEF ObserveReconciliation, TypeOK
<1>9. CASE Archive(w)
  <2>1. exec' \in [Worker -> Execution]
    BY <1>2, <1>3, <1>9 DEF Archive
  <2>2. project' \in Project
    BY <1>1, <1>9, ProjectTypes DEF Archive
  <2>3. exec[w].request \in Reconciliation
    BY <1>9 DEF Archive, IInv, HandlersApart, Reconciles
  <2> QED
    BY <1>1, <1>9, <2>1, <2>2, <2>3 DEF Archive, TypeOK
<1>10. CASE Verify(w)
  <2> DEFINE pc == IF remote # exec[w].claim.heads THEN "supersede" ELSE "apply"
  <2>1. pc \in Step /\ exec' = [exec EXCEPT ![w].seen = remote, ![w].pc = pc]
    BY <1>3, <1>10 DEF Verify
  <2> HIDE DEF pc
  <2>2. exec' \in [Worker -> Execution]
    BY <1>5, <2>1
  <2> QED
    BY <1>1, <1>10, <2>2 DEF Verify, TypeOK
<1>11. ASSUME NEW unknown \in BOOLEAN, ApplySnapshot(w, unknown) PROVE TypeOK'
  <2>1. recon' \in [Reconciliation -> Recon]
    BY <1>11, HandlerMoves DEF ReconMoves
  <2>2. exec' \in [Worker -> Execution]
    BY <1>2, <1>3, <1>11 DEF ApplySnapshot
  <2>3. project' \in Project
    <3> DEFINE status == IF Destructive(w) \/ unknown THEN "degraded" ELSE "active"
    <3>1. UNCHANGED project \/ project' = [project EXCEPT !.status = status,
                                              !.heads = exec[w].claim.heads, !.synced = bucket]
      BY <1>11 DEF ApplySnapshot
    <3>2. status \in Connected /\ exec[w].claim.heads \in Heads /\ bucket \in Nat
      BY <1>1 DEF Connected, Execution, Claim, TypeOK
    <3> HIDE DEF status
    <3> QED
      BY <1>1, <3>1, <3>2 DEF Project
  <2> QED
    BY <1>1, <1>11, <2>1, <2>2, <2>3 DEF ApplySnapshot, Unlock, TypeOK
<1>12. CASE Supersede(w)
  <2>1. recon' \in [Reconciliation -> Recon] /\ job' \in [SyncRequest -> Job]
    BY <1>12, HandlerMoves DEF ReconMoves
  <2>2. exec' \in [Worker -> Execution] /\ lock' \in Worker \cup {NoWorker}
    BY <1>1, <1>2, <1>3, <1>6, <1>12 DEF Supersede, Unlock
  <2> QED
    BY <1>1, <1>12, <2>1, <2>2 DEF Supersede, TypeOK
<1>13. ASSUME NEW status \in {"degraded", "disconnected"}, MarkReconciliationFailed(w, status)
       PROVE  TypeOK'
  <2>1. recon' \in [Reconciliation -> Recon]
    BY <1>13, HandlerMoves DEF ReconMoves
  <2>2. exec' \in [Worker -> Execution]
    BY <1>2, <1>3, <1>13 DEF MarkReconciliationFailed
  <2>3. project' \in Project
    BY <1>1, <1>13, ProjectTypes DEF MarkReconciliationFailed
  <2> QED
    BY <1>1, <1>13, <2>1, <2>2, <2>3 DEF MarkReconciliationFailed, Unlock, TypeOK
<1>14. CASE ClaimIncremental(w)
  <2>1. incr' \in [Incremental -> Incr] /\ exec[w].request \in Incremental
    BY <1>1, <1>14, IncrementalMoves DEF IncrMoves
  <2> DEFINE i == exec[w].request
             claim == [NoClaim EXCEPT !.configuration = incr[i].configuration,
                         !.forced = incr[i].forced, !.required = incr[i].required]
  <2>2. exec' \in [Worker -> Execution]
    <3>1. claim \in Claim
      BY <1>1, <2>1, ExecutionTypes DEF Incr, Claim
    <3>2. \/ Advance(w, "acknowledge")
          \/ exec' = [exec EXCEPT ![w].pc = "observe", ![w].claim = claim]
      BY <1>14 DEF ClaimIncremental
    <3> HIDE DEF claim
    <3> QED
      BY <1>2, <1>3, <1>4, <3>1, <3>2
  <2>3. UNCHANGED <<Outside, project, recon, archived, job, lock, faults>>
    BY <1>14 DEF ClaimIncremental
  <2> QED
    BY <1>1, <2>1, <2>2, <2>3 DEF TypeOK
<1>15. CASE ObserveIncremental(w)
  <2>1. exec' \in [Worker -> Execution]
    BY <1>1, <1>3, <1>15 DEF ObserveIncremental, Execution
  <2> QED
    BY <1>1, <1>15, <2>1 DEF ObserveIncremental, TypeOK
<1>16. CASE CommitObserved(w)
  <2>1. recon' \in [Reconciliation -> Recon] /\ job' \in [SyncRequest -> Job]
    BY <1>16, AskedMoves DEF ReconMoves
  <2>2. exec' \in [Worker -> Execution]
    BY <1>2, <1>3, <1>6, <1>16 DEF CommitObserved
  <2>3. project' \in Project
    BY <1>1, <1>16, ProjectTypes DEF CommitObserved
  <2> QED
    BY <1>1, <1>16, <2>1, <2>2, <2>3 DEF CommitObserved, TypeOK
<1>17. CASE Finish(w)
  <2>1. incr' \in [Incremental -> Incr]
    BY <1>1, <1>17, IncrementalMoves DEF IncrMoves
  <2>2. exec' \in [Worker -> Execution]
    BY <1>2, <1>3, <1>17 DEF Finish
  <2> QED
    BY <1>1, <1>17, <2>1, <2>2 DEF Finish, TypeOK
<1>18. ASSUME NEW status \in {"degraded", "disconnected"}, MarkIncrementalFailed(w, status)
       PROVE  TypeOK'
  <2>1. recon' \in [Reconciliation -> Recon] /\ job' \in [SyncRequest -> Job]
    BY <1>18, AskedMoves DEF ReconMoves
  <2>2. incr' \in [Incremental -> Incr]
    BY <1>1, <1>18, IncrementalMoves DEF IncrMoves
  <2>3. exec' \in [Worker -> Execution]
    BY <1>2, <1>3, <1>18 DEF MarkIncrementalFailed
  <2>4. project' \in Project
    BY <1>1, <1>18, ProjectTypes DEF MarkIncrementalFailed
  <2> QED
    BY <1>1, <1>18, <2>1, <2>2, <2>3, <2>4 DEF MarkIncrementalFailed, TypeOK
<1> QED
  BY <1>7, <1>8, <1>9, <1>10, <1>11, <1>12, <1>13, <1>14, <1>15, <1>16, <1>17, <1>18 DEF Handle

(* A deletion cancels the requests that wait or run.                                  *)
LEMMA DeletionMoves ==
  ASSUME TypeOK, OneQueued, RequestDeletion
  PROVE  /\ ReconMoves({r \in Reconciliation : recon[r].status \in Active},
                       project.configuration + 1)
         /\ project' \in Project /\ project'.configuration = project.configuration + 1
<1> DEFINE cancelled(r) == [recon[r] EXCEPT !.status = "cancelled"]
           configuration == project.configuration + 1
<1>1. /\ recon \in [Reconciliation -> Recon] /\ job \in [SyncRequest -> Job]
      /\ Waiting(recon) /\ project \in Project
  BY QueuesWait DEF TypeOK
<1>2. ASSUME NEW r \in Reconciliation
      PROVE  /\ cancelled(r) \in Recon /\ cancelled(r).status = "cancelled"
             /\ cancelled(r).configuration = recon[r].configuration
             /\ cancelled(r).key = recon[r].key
  BY <1>1 DEF Recon, Terminal
<1>3. /\ recon' = [r \in Reconciliation |->
                     IF recon[r].status \in Active THEN cancelled(r) ELSE recon[r]]
      /\ UNCHANGED job
  BY DEF RequestDeletion
<1>4. project' \in Project /\ project'.configuration = configuration
  <2>1. project' = [project EXCEPT !.status = "pending_deletion",
                                   !.configuration = configuration]
    BY DEF RequestDeletion
  <2>2. configuration \in Nat
    BY <1>1 DEF Project
  <2> HIDE DEF configuration
  <2> QED
    BY <1>1, <2>1, <2>2 DEF Project
<1> HIDE DEF cancelled
<1>5. /\ recon' \in [Reconciliation -> Recon]
      /\ \A r \in Reconciliation :
           IF recon[r].status \in Active THEN recon'[r] = cancelled(r) ELSE recon'[r] = recon[r]
  BY <1>1, <1>2, <1>3
<1>6. Waiting(recon')
  BY <1>2, <1>5 DEF Waiting, Active
<1> QED
  BY <1>1, <1>2, <1>3, <1>4, <1>5, <1>6 DEF ReconMoves, Active, Terminal

(* The steps that reach neither requests, nor jobs, nor handlers.                     *)
Quiet == UNCHANGED <<project, recon, incr, archived, job, lock, exec>>

LEMMA EnvironmentTypes ==
  ASSUME IInv,
         \/ Tick
         \/ \E kind \in Delivery : Deliver(kind) \/ LoseDelivery(kind)
         \/ \E r \in SyncRequest : LeaseExpires(r) \/ LoseJob(r)
  PROVE  TypeOK'
<1>1. TypeOK /\ job \in [SyncRequest -> Job] /\ incr \in [Incremental -> Incr]
      /\ mail \in [Delivery -> Nat] /\ bucket \in Nat /\ faults \in Nat
  BY DEF IInv, TypeOK
<1>2. CASE Tick
  BY <1>1, <1>2 DEF Tick, TypeOK
<1>3. ASSUME NEW kind \in Delivery, mail[kind] > 0, mail' = [mail EXCEPT ![kind] = @ - 1]
      PROVE  mail' \in [Delivery -> Nat]
  BY <1>1, <1>3
<1>4. ASSUME NEW kind \in Delivery, Deliver(kind) PROVE TypeOK'
  <2>1. incr' \in [Incremental -> Incr] /\ job' \in [SyncRequest -> Job]
    BY <1>1, <1>4, DeliverMoves DEF StoredIncr
  <2> QED
    BY <1>1, <1>3, <1>4, <2>1 DEF Deliver, TypeOK
<1>5. ASSUME NEW kind \in Delivery, LoseDelivery(kind) PROVE TypeOK'
  BY <1>1, <1>3, <1>5 DEF LoseDelivery, Fault, TypeOK
<1>6. ASSUME NEW r \in SyncRequest, LeaseExpires(r) PROVE TypeOK'
  BY <1>1, <1>6, ReleaseTypes DEF LeaseExpires, Outside, TypeOK
<1>7. ASSUME NEW r \in SyncRequest, LoseJob(r) PROVE TypeOK'
  <2>1. job' \in [SyncRequest -> Job]
    BY <1>1, <1>7, ExecutionTypes DEF LoseJob
  <2> QED
    BY <1>1, <1>7, <2>1 DEF LoseJob, Outside, Fault, TypeOK
<1> QED
  BY <1>2, <1>4, <1>5, <1>6, <1>7

LEMMA TypeInvariant == IInv /\ [Next]_vars => TypeOK'
<1> SUFFICES ASSUME IInv, [Next]_vars PROVE TypeOK'
  OBVIOUS
<1>1. CASE UNCHANGED vars
  BY <1>1 DEF vars, IInv, TypeOK
<1>2. CASE Event
  BY <1>2, EventTypes DEF IInv
<1>3. CASE Tick \/ \E kind \in Delivery : Deliver(kind) \/ LoseDelivery(kind)
  BY <1>3, EnvironmentTypes
<1>4. CASE \E r \in SyncRequest : LeaseExpires(r) \/ LoseJob(r)
  BY <1>4, EnvironmentTypes
<1>5. ASSUME NEW w \in Worker, Progress(w) \/ Scan(w) \/ Trouble(w) PROVE TypeOK'
  <2>1. CASE Handle(w)
    BY <2>1, HandleTypes
  <2>2. CASE ~Handle(w)
    BY <1>5, <2>2, StartTypes DEF Progress, Trouble
  <2> QED
    BY <2>1, <2>2
<1> QED
  BY <1>1, <1>2, <1>3, <1>4, <1>5 DEF Next

-----------------------------------------------------------------------------
(* The requests and their jobs.                                                       *)
Requests == OneQueued /\ Carried /\ Existing /\ Versioned

(* A step that moves requests as transactions do keeps them.                          *)
LEMMA MovesKeep ==
  ASSUME IInv, TypeOK', NEW R, NEW I, NEW configuration \in Nat,
         ReconMoves(R, configuration), UNCHANGED incr \/ IncrMoves(I),
         configuration <= project'.configuration,
         project.configuration <= project'.configuration
  PROVE  Requests'
<1>1. /\ TypeOK /\ Requests /\ WaitingIncr(incr)
      /\ project.configuration \in Nat /\ project'.configuration \in Nat
      /\ recon \in [Reconciliation -> Recon] /\ recon' \in [Reconciliation -> Recon]
      /\ incr \in [Incremental -> Incr]
  BY QueuesWait DEF IInv, TypeOK, Requests, Project
<1>2. OneQueued'
  <2>1. Waiting(recon') /\ WaitingIncr(incr')
    BY <1>1 DEF ReconMoves, IncrMoves
  <2> QED
    BY <2>1 DEF Waiting, WaitingIncr, OneQueued
<1>3. ASSUME NEW r \in Reconciliation
      PROVE  /\ recon'[r].status \in Active => job'[r].state # "none"
             /\ job'[r].state # "none" => recon'[r].status # "absent"
             /\ recon'[r].status # "absent" =>
                  /\ recon'[r].configuration <= project'.configuration
                  /\ recon'[r].key.configuration <= project'.configuration
  <2> DEFINE asked == /\ recon[r].status = "absent" /\ job'[r] = NewJob
                      /\ recon'[r].status = "queued"
                      /\ recon'[r].configuration = configuration
                      /\ recon'[r].key.configuration = configuration
             same == job'[r] = job[r] /\ (recon[r].status = "absent" => recon'[r].status = "absent")
  <2>0. r \in SyncRequest
    BY DEF SyncRequest
  <2>1. same \/ asked
    BY <2>0 DEF ReconMoves
  <2>2. CASE asked
    BY <2>2 DEF NewJob
  <2>3. CASE same
    <3>1. /\ recon[r] \in Recon /\ recon'[r] \in Recon
          /\ recon[r].status \in Active => job[r].state # "none"
          /\ job[r].state # "none" => recon[r].status # "absent"
          /\ recon[r].status # "absent" =>
               /\ recon[r].configuration <= project.configuration
               /\ recon[r].key.configuration <= project.configuration
          /\ recon[r].status \in Terminal => recon'[r].status = recon[r].status
          /\ recon[r].status # "absent" => /\ recon'[r].status # "absent"
                                           /\ recon'[r].configuration = recon[r].configuration
                                           /\ recon'[r].key = recon[r].key
      BY <1>1 DEF Requests, Carried, Existing, Versioned, ReconMoves
    <3>2. /\ recon[r].configuration \in Nat /\ recon[r].key.configuration \in Nat
          /\ recon[r].status \in {"absent"} \cup Active \cup Terminal
      BY <3>1 DEF Recon, Key
    <3>3. recon'[r].status \in Active => recon[r].status \in Active
      BY <2>3, <3>1, <3>2 DEF Active, Terminal
    <3> QED
      BY <1>1, <2>3, <3>1, <3>2, <3>3
  <2> QED
    BY <2>1, <2>2, <2>3
<1>4. ASSUME NEW i \in Incremental
      PROVE  /\ incr'[i].status \in Active => job'[i].state # "none"
             /\ job'[i].state # "none" => incr'[i].status # "absent"
  <2>1. job'[i] = job[i]
    BY IdAssumption DEF ReconMoves, SyncRequest
  <2>2. /\ incr[i].status \in {"absent"} \cup Active \cup Terminal
        /\ incr[i].status \in Active => job[i].state # "none"
        /\ job[i].state # "none" => incr[i].status # "absent"
    BY <1>1 DEF Requests, Carried, Existing, Incr
  <2>3. CASE UNCHANGED incr
    BY <2>1, <2>2, <2>3
  <2>4. CASE IncrMoves(I)
    BY <2>1, <2>2, <2>4 DEF IncrMoves, Active, Terminal, NewJob
  <2> QED
    BY <2>3, <2>4
<1>5. Carried' /\ Existing' /\ Versioned'
  BY <1>3, <1>4 DEF Carried, Existing, Versioned
<1> QED
  BY <1>2, <1>5 DEF Requests

(* So does a step that only takes, gives back or ends jobs.                           *)
Status(r) == IF r \in Reconciliation THEN recon[r].status ELSE incr[r].status

LEMMA JobsKeep ==
  ASSUME IInv, UNCHANGED <<recon, incr, project>>,
         \A r \in SyncRequest :
           /\ job[r].state # "none" => job'[r].state # "none" \/ Status(r) \in Terminal
           /\ job'[r].state # "none" => job[r].state # "none" \/ Status(r) \in Active
  PROVE  Requests'
<1>1. TypeOK /\ Requests
  BY DEF IInv, Requests
<1>2. OneQueued' /\ Versioned'
  BY <1>1 DEF Requests, OneQueued, Versioned
<1>3. Carried' /\ Existing'
  <2>1. \A i \in Incremental : i \notin Reconciliation
    BY IdAssumption
  <2> QED
    BY <1>1, <2>1 DEF Requests, Carried, Existing, Status, SyncRequest, Active, Terminal
<1> QED
  BY <1>2, <1>3 DEF Requests

LEMMA ReleaseKeeps ==
  ASSUME IInv, NEW r \in SyncRequest, job[r].state # "none", Release(r),
         UNCHANGED <<recon, incr, project>>
  PROVE  Requests'
<1>1. job \in [SyncRequest -> Job] /\ job' \in [SyncRequest -> Job]
  BY ReleaseTypes DEF IInv, TypeOK
<1>2. /\ \A s \in SyncRequest \ {r} : job'[s] = job[s]
      /\ \A s \in SyncRequest : job[s].state # "none" => job'[s].state # "none"
  BY <1>1, ReleaseTypes
<1> QED
  BY <1>1, <1>2, JobsKeep

(* An event leaves requests and handlers alone, or is a transaction under the lock.   *)
LockedMove ==
  /\ lock = NoWorker /\ UNCHANGED <<incr, archived, exec>>
  /\ project.configuration <= project'.configuration
  /\ \E R : \E configuration \in Nat :
       ReconMoves(R, configuration) /\ configuration <= project'.configuration

LEMMA EventMoves ==
  ASSUME IInv, Event
  PROVE  Quiet \/ LockedMove
<1>1. /\ TypeOK /\ OneQueued /\ Versioned /\ Waiting(recon) /\ project \in Project
      /\ project.configuration \in Nat /\ project.configuration + 1 \in Nat
      /\ project.configuration <= project.configuration + 1
  BY QueuesWait DEF IInv, TypeOK, Project
<1>2. CASE ReconcileManually
  <2>1. {writes} \in SUBSET Nat
    BY <1>1 DEF TypeOK
  <2>2. ReconMoves({}, project.configuration)
    BY <1>1, <1>2, <2>1, ForProjectFacts DEF ReconcileManually
  <2> QED
    BY <1>1, <1>2, <2>2 DEF ReconcileManually, LockedMove
<1>3. CASE ConfigureBranches
  <2> DEFINE configuration == project.configuration + 1
  <2>1. ReconMoves({}, configuration)
    <3>1. /\ KeyOf("configuration", configuration, {}) \in Key
          /\ KeyOf("configuration", configuration, {}).configuration = configuration
          /\ "project_configuration_changed" \in Reason
      BY <1>1 DEF KeyOf, Key, Reason
    <3>2. validated \in Heads
      BY <1>1, <1>3 DEF ConfigureBranches, TypeOK
    <3> QED
      BY <3>1, <3>2, <1>1, <1>3, ApplyFacts DEF ConfigureBranches
  <2>2. project'.configuration = configuration
    BY <1>1, <1>3 DEF ConfigureBranches, Project
  <2>3. lock = NoWorker /\ UNCHANGED <<incr, archived, exec>>
    BY <1>3 DEF ConfigureBranches
  <2> QED
    BY <1>1, <2>1, <2>2, <2>3 DEF LockedMove
<1>4. CASE OverrideRequiredChecks
  <2>1. ReconMoves({r \in Reconciliation : recon[r].status \in Active},
                   project.configuration + 1)
    BY <1>1, <1>4, OverrideFacts
  <2>2. project'.configuration = project.configuration + 1
    BY <1>1, <1>4 DEF OverrideRequiredChecks, Project
  <2>3. lock = NoWorker /\ UNCHANGED <<incr, archived, exec>>
    BY <1>4 DEF OverrideRequiredChecks
  <2> QED
    BY <1>1, <2>1, <2>2, <2>3 DEF LockedMove
<1>5. CASE RequestDeletion
  <2>1. /\ ReconMoves({r \in Reconciliation : recon[r].status \in Active},
                      project.configuration + 1)
        /\ project'.configuration = project.configuration + 1
    BY <1>1, <1>5, DeletionMoves
  <2>2. lock = NoWorker /\ UNCHANGED <<incr, archived, exec>>
    BY <1>5 DEF RequestDeletion
  <2> QED
    BY <1>1, <2>1, <2>2 DEF LockedMove
<1>6. ASSUME NEW heads \in Heads, Push(heads) PROVE Quiet
  BY <1>6 DEF Push, Quiet
<1> QED
  BY <1>2, <1>3, <1>4, <1>5, <1>6
  DEF Event, Quiet, MergePullRequest, UnsuspendInstallation, ValidateTopology

(* What a worker does: it only moves its own request or jobs, recovers incremental    *)
(* requests that have lost their job, or asks for a reconciliation.                   *)
WorkerMove(w) ==
  \E R, I \in {{}, {exec[w].request}} :
    /\ ReconMoves(R, project.configuration)
    /\ UNCHANGED incr \/ IncrMoves(I)
    /\ project'.configuration = project.configuration

JobMove(w) ==
  \/ RecoverReconciliations(w) \/ Acknowledge(w) \/ Retry(w) \/ Trouble(w)
  \/ \E r \in SyncRequest : Take(w, r)

LEMMA WorkerMoves ==
  ASSUME IInv, NEW w \in Worker, Progress(w) \/ Scan(w) \/ Trouble(w)
  PROVE  \/ WorkerMove(w)
         \/ RecoverIncrementals(w)
         \/ JobMove(w) /\ UNCHANGED <<recon, incr, project>>
<1>1. TypeOK /\ OneQueued /\ project \in Project
  BY DEF IInv, TypeOK
<1>2. CASE JobMove(w)
  BY <1>2 DEF JobMove, RecoverReconciliations, Acknowledge, Retry, Trouble, Fail, RawFail, Crash,
              Take
<1>3. CASE ReconcileRecovered(w) \/ Scan(w)
  <2>1. ReconMoves({}, project.configuration)
    BY <1>3, AskedMoves
  <2>2. UNCHANGED <<incr, project>>
    BY <1>3 DEF ReconcileRecovered, Scan
  <2> QED
    BY <2>1, <2>2 DEF WorkerMove
<1>4. CASE Handle(w)
  <2>0. project'.configuration = project.configuration
    BY <1>1, <1>4
    DEF Handle, ClaimReconciliation, ObserveReconciliation, Archive, Verify, ApplySnapshot,
        Supersede, MarkReconciliationFailed, ClaimIncremental, ObserveIncremental,
        CommitObserved, Finish, MarkIncrementalFailed, Project
  <2>1. CASE \/ ClaimReconciliation(w) \/ Supersede(w)
             \/ \E unknown \in BOOLEAN : ApplySnapshot(w, unknown)
             \/ \E status \in {"degraded", "disconnected"} : MarkReconciliationFailed(w, status)
    <3>1. ReconMoves({exec[w].request}, project.configuration)
      BY <2>1, HandlerMoves
    <3>2. UNCHANGED incr
      BY <2>1 DEF ClaimReconciliation, Supersede, ApplySnapshot, MarkReconciliationFailed
    <3> QED
      BY <2>0, <3>1, <3>2 DEF WorkerMove
  <2>2. CASE ObserveReconciliation(w) \/ Archive(w) \/ Verify(w) \/ ObserveIncremental(w)
    <3>1. ReconMoves({}, project.configuration)
      BY <1>1, <2>2, NoneMoves DEF ObserveReconciliation, Archive, Verify, ObserveIncremental
    <3>2. UNCHANGED incr
      BY <2>2 DEF ObserveReconciliation, Archive, Verify, ObserveIncremental
    <3> QED
      BY <2>0, <3>1, <3>2 DEF WorkerMove
  <2>3. CASE ClaimIncremental(w) \/ Finish(w)
    <3>1. ReconMoves({}, project.configuration)
      BY <1>1, <2>3, NoneMoves DEF ClaimIncremental, Finish
    <3>2. UNCHANGED incr \/ IncrMoves({exec[w].request})
      BY <2>3, IncrementalMoves
    <3> QED
      BY <2>0, <3>1, <3>2 DEF WorkerMove
  <2>4. CASE CommitObserved(w)
    <3>1. ReconMoves({}, project.configuration)
      BY <2>4, AskedMoves
    <3>2. UNCHANGED incr
      BY <2>4 DEF CommitObserved
    <3> QED
      BY <2>0, <3>1, <3>2 DEF WorkerMove
  <2>5. CASE \E status \in {"degraded", "disconnected"} : MarkIncrementalFailed(w, status)
    <3>1. ReconMoves({}, project.configuration)
      BY <2>5, AskedMoves
    <3>2. UNCHANGED incr \/ IncrMoves({exec[w].request})
      BY <2>5, IncrementalMoves
    <3> QED
      BY <2>0, <3>1, <3>2 DEF WorkerMove
  <2> QED
    BY <1>4, <2>1, <2>2, <2>3, <2>4, <2>5 DEF Handle
<1> QED
  BY <1>2, <1>3, <1>4 DEF Progress, JobMove

LEMMA EventKeeps ==
  ASSUME IInv, TypeOK', Event
  PROVE  Requests'
  BY EventMoves, JobsKeep, MovesKeep DEF Quiet, LockedMove

LEMMA EnvironmentKeeps ==
  ASSUME IInv,
         \/ Tick
         \/ \E kind \in Delivery : Deliver(kind) \/ LoseDelivery(kind)
         \/ \E r \in SyncRequest : LeaseExpires(r) \/ LoseJob(r)
  PROVE  Requests'
<1>1. /\ TypeOK /\ Requests /\ job \in [SyncRequest -> Job]
      /\ recon \in [Reconciliation -> Recon] /\ incr \in [Incremental -> Incr]
  BY DEF IInv, Requests, TypeOK
<1>2. CASE Quiet
  BY <1>2, JobsKeep DEF Quiet
<1>3. ASSUME NEW kind \in Delivery, Deliver(kind) PROVE Requests'
  <2>1. UNCHANGED <<recon, project>>
    BY <1>3 DEF Deliver
  <2>2. CASE UNCHANGED <<incr, job>>
    BY <2>1, <2>2, JobsKeep
  <2>3. CASE StoredIncr
    <3>1. OneQueued' /\ Versioned'
      BY <1>1, <2>1, <2>3 DEF Requests, OneQueued, Versioned, StoredIncr, WaitingIncr
    <3>2. \A r \in Reconciliation : job'[r] = job[r]
      BY <2>3, IdAssumption DEF StoredIncr, SyncRequest
    <3>3. ASSUME NEW i \in Incremental
          PROVE  /\ incr'[i].status \in Active => job'[i].state # "none"
                 /\ job'[i].state # "none" => incr'[i].status # "absent"
      <4>1. /\ incr[i].status \in {"absent"} \cup Active \cup Terminal
            /\ incr[i].status \in Active => job[i].state # "none"
            /\ job[i].state # "none" => incr[i].status # "absent"
        BY <1>1 DEF Requests, Carried, Existing, Incr
      <4>2. \/ job'[i] = job[i] /\ (incr[i].status = "absent" => incr'[i].status = "absent")
            \/ job'[i] = NewJob /\ incr'[i].status = "queued"
        BY <2>3 DEF StoredIncr, SyncRequest
      <4>3. /\ incr[i].status \in {"running"} \cup Terminal => incr'[i] = incr[i]
            /\ incr'[i].status = "absent" => incr[i].status = "absent"
        BY <2>3 DEF StoredIncr
      <4> QED
        BY <4>1, <4>2, <4>3 DEF Active, Terminal, NewJob
    <3> QED
      BY <1>1, <2>1, <3>1, <3>2, <3>3 DEF Requests, Carried, Existing
  <2> QED
    BY <1>3, <2>2, <2>3, DeliverMoves
<1>4. ASSUME NEW r \in SyncRequest, LeaseExpires(r) PROVE Requests'
  BY <1>4, ReleaseKeeps DEF LeaseExpires
<1>5. ASSUME NEW r \in SyncRequest, LoseJob(r) PROVE Requests'
  <2>1. /\ UNCHANGED <<recon, incr, project>> /\ job[r].state # "none"
        /\ \A s \in SyncRequest : job'[s] = IF s = r THEN LostJob ELSE job[s]
    BY <1>1, <1>5 DEF LoseJob, NoRow
  <2> QED
    BY <2>1, JobsKeep DEF LostJob
<1>6. ASSUME NEW kind \in Delivery, LoseDelivery(kind) PROVE Quiet
  BY <1>6 DEF LoseDelivery, Quiet
<1> QED
  BY <1>2, <1>3, <1>4, <1>5, <1>6 DEF Tick, Quiet

LEMMA RecoveryKeeps ==
  ASSUME IInv, NEW w \in Worker, RecoverIncrementals(w)
  PROVE  Requests'
<1> DEFINE lost == Lost(Incremental, incr)
<1>1. /\ TypeOK /\ Requests /\ incr \in [Incremental -> Incr] /\ UNCHANGED <<recon, project>>
  BY DEF IInv, Requests, TypeOK, RecoverIncrementals
<1>2. /\ IncrMoves(lost)
      /\ \A i \in Incremental :
           /\ incr[i].status = "absent" => incr'[i].status = "absent"
           /\ incr'[i].status \in Active =>
                incr[i].status \in Active /\ (job[i].state \in NoRow => job'[i] = NewJob)
      /\ \A r \in SyncRequest : job'[r] = job[r] \/ (r \in lost /\ job'[r] = NewJob)
  BY RecoveryMoves
<1>3. lost \subseteq Incremental /\ \A i \in lost : incr[i].status \in Active
  BY DEF Lost
<1> HIDE DEF lost
<1>4. OneQueued' /\ Versioned'
  BY <1>1, <1>2 DEF Requests, OneQueued, Versioned, IncrMoves, WaitingIncr
<1>5. \A r \in Reconciliation : job'[r] = job[r]
  BY <1>2, <1>3, IdAssumption DEF SyncRequest
<1>6. ASSUME NEW i \in Incremental
      PROVE  /\ incr'[i].status \in Active => job'[i].state # "none"
             /\ job'[i].state # "none" => incr'[i].status # "absent"
  <2>1. /\ incr[i].status \in Active => job[i].state # "none"
        /\ job[i].state # "none" => incr[i].status # "absent"
        /\ incr[i].status # "absent" => incr'[i].status # "absent"
    BY <1>1, <1>2 DEF Requests, Carried, Existing, IncrMoves
  <2>2. job'[i] = job[i] \/ (i \in lost /\ job'[i] = NewJob)
    BY <1>2 DEF SyncRequest
  <2>3. i \in lost => incr'[i].status # "absent"
    BY <1>3, <2>1 DEF Active
  <2> QED
    BY <1>2, <2>1, <2>2, <2>3 DEF NewJob, NoRow
<1> QED
  BY <1>1, <1>4, <1>5, <1>6 DEF Requests, Carried, Existing

LEMMA WorkerKeeps ==
  ASSUME IInv, TypeOK', NEW w \in Worker, Progress(w) \/ Scan(w) \/ Trouble(w)
  PROVE  Requests'
<1>1. /\ project.configuration \in Nat
      /\ job \in [SyncRequest -> Job] /\ exec[w] \in Execution
  BY DEF IInv, TypeOK, Project
<1>2. CASE WorkerMove(w)
  BY <1>1, <1>2, MovesKeep DEF WorkerMove
<1>3. CASE RecoverIncrementals(w)
  BY <1>3, RecoveryKeeps
<1>4. CASE UNCHANGED <<recon, incr, project>> /\ RecoverReconciliations(w)
  <2>1. \A r \in SyncRequest :
          job'[r] = IF r \in Lost(Reconciliation, recon) THEN NewJob ELSE job[r]
    BY <1>4 DEF RecoverReconciliations
  <2> QED
    BY <1>4, <2>1, JobsKeep DEF Lost, Status, NewJob
<1>5. ASSUME UNCHANGED <<recon, incr, project>>, NEW r \in SyncRequest, Take(w, r)
      PROVE  Requests'
  <2>1. /\ job[r].state = "ready" /\ job'[r].state = "leased"
        /\ \A s \in SyncRequest \ {r} : job'[s] = job[s]
    BY <1>1, <1>5 DEF Take
  <2> QED
    BY <1>5, <2>1, JobsKeep
<1>6. CASE UNCHANGED <<recon, incr, project>> /\ Acknowledge(w)
  <2>1. \A r \in SyncRequest : job'[r] = IF r = exec[w].request THEN NoJob ELSE job[r]
    BY <1>1, <1>6 DEF Acknowledge
  <2>2. Busy(w) /\ exec[w].request \in SyncRequest
    BY <1>6 DEF Acknowledge, Busy, Started, IInv, Attended
  <2>3. Status(exec[w].request) \in Terminal
    BY <1>6, <2>2 DEF Acknowledge, IInv, EndedAcknowledged, Status, Reconciles
  <2> QED
    BY <1>6, <2>1, <2>2, <2>3, JobsKeep DEF NoJob
<1>7. CASE UNCHANGED <<recon, incr, project>> /\ Retry(w)
  <2>1. exec[w].request \in SyncRequest /\ job[exec[w].request].state # "none"
    BY <1>7 DEF Retry, Busy, Started, IInv, Attended
  <2> QED
    BY <1>7, <2>1, ReleaseKeeps DEF Retry
<1>8. CASE UNCHANGED <<recon, incr, project>> /\ Trouble(w)
  BY <1>8, JobsKeep DEF Trouble, Fail, RawFail, Crash
<1> QED
  BY <1>2, <1>3, <1>4, <1>5, <1>6, <1>7, <1>8, WorkerMoves DEF JobMove

LEMMA RequestsInvariant == IInv /\ [Next]_vars => Requests'
<1> SUFFICES ASSUME IInv, [Next]_vars PROVE Requests'
  OBVIOUS
<1>1. TypeOK'
  BY TypeInvariant
<1>2. CASE UNCHANGED vars
  BY <1>2, JobsKeep DEF vars
<1>3. CASE Event
  BY <1>1, <1>3, EventKeeps
<1>4. CASE \/ Tick
           \/ \E kind \in Delivery : Deliver(kind) \/ LoseDelivery(kind)
           \/ \E r \in SyncRequest : LeaseExpires(r) \/ LoseJob(r)
  BY <1>4, EnvironmentKeeps
<1>5. ASSUME NEW w \in Worker, Progress(w) \/ Scan(w) \/ Trouble(w) PROVE Requests'
  BY <1>1, <1>5, WorkerKeeps
<1> QED
  BY <1>2, <1>3, <1>4, <1>5 DEF Next

-----------------------------------------------------------------------------
(* The handlers.  What the invariant says of one of them:                             *)
HandlerAt(w) ==
  LET r == exec[w].request IN
  /\ exec[w].pc \in {"archive", "verify", "apply", "supersede"} => Reconciles(w)
  /\ exec[w].pc \in {"commit", "finish"} => ~Reconciles(w)
  /\ Reconciles(w) /\ exec[w].pc \in Holding =>
       /\ lock = w
       /\ Current(w)
       /\ project.heads = exec[w].claim.previous
       /\ recon[r].status = "running"
  /\ Reconciles(w) /\ exec[w].pc = "fail" => lock = w
  /\ exec[w].pc \in {"verify", "apply"} /\ Destructive(w) => r \in archived
  /\ Busy(w) => r \in SyncRequest /\ job[r].state = "leased"
  /\ exec[w].pc \in {"observe", "commit", "finish", "fail"} /\ ~Reconciles(w) =>
       incr[r].status \in {"running"} \cup Terminal
  /\ exec[w].pc = "acknowledge" =>
       IF Reconciles(w) THEN recon[r].status \in Terminal ELSE incr[r].status \in Terminal

(* One worker per request.                                                            *)
Exclusive ==
  \A v, w \in Worker : Busy(v) /\ Busy(w) /\ exec[v].request = exec[w].request => v = w

Handlers == Exclusive /\ \A w \in Worker : HandlerAt(w)

LEMMA Parts == TypeOK /\ Requests /\ Handlers <=> IInv
  BY DEF IInv, Requests, Handlers, HandlerAt, Exclusive, ClaimHolds, HandlersApart, FailsLocked,
         ArchivedFirst, Attended, EndedAcknowledged

(* What the steps of others leave to a handler: its lock and with it the project and  *)
(* the request that it runs, its job, and what has ended.                             *)
Undisturbed(v) ==
  LET r == exec[v].request IN
  /\ exec'[v] = exec[v]
  /\ archived \subseteq archived'
  /\ lock = v => /\ lock' = v /\ UNCHANGED project
                 /\ Reconciles(v) /\ Busy(v) /\ recon[r].status = "running" =>
                      recon'[r].status = "running"
  /\ Busy(v) => /\ job'[r].state = "leased"
                /\ Reconciles(v) /\ recon[r].status \in Terminal =>
                     recon'[r].status = recon[r].status
                /\ ~Reconciles(v) /\ incr[r].status \in {"running"} \cup Terminal =>
                     incr'[r].status = incr[r].status

LEMMA UndisturbedAt ==
  ASSUME NEW v \in Worker, HandlerAt(v), Undisturbed(v)
  PROVE  HandlerAt(v)' /\ (Busy(v)' <=> Busy(v))
<1>1. /\ exec'[v] = exec[v] /\ (Busy(v)' <=> Busy(v)) /\ (Reconciles(v)' <=> Reconciles(v))
      /\ (Destructive(v)' <=> Destructive(v))
  BY DEF Undisturbed, Busy, Started, Reconciles, Destructive
<1>2. exec[v].pc \in Holding \cup {"fail", "acknowledge", "commit", "finish"} => Busy(v)
  BY DEF Holding, Busy, Started
<1>3. Reconciles(v) /\ exec[v].pc \in Holding =>
        /\ lock' = v
        /\ Current(v)'
        /\ project'.heads = exec'[v].claim.previous
        /\ recon'[exec'[v].request].status = "running"
  BY <1>1, <1>2 DEF Undisturbed, HandlerAt, Current, Deleting
<1>4. Busy(v) => exec[v].request \in SyncRequest /\ job'[exec[v].request].state = "leased"
  BY DEF Undisturbed, HandlerAt
<1>5. /\ exec[v].pc \in {"observe", "commit", "finish", "fail"} /\ ~Reconciles(v) =>
           incr'[exec[v].request].status \in {"running"} \cup Terminal
      /\ exec[v].pc = "acknowledge" =>
           IF Reconciles(v) THEN recon'[exec[v].request].status \in Terminal
           ELSE incr'[exec[v].request].status \in Terminal
  BY <1>2 DEF Undisturbed, HandlerAt, Holding
<1>6. /\ exec[v].pc \in {"verify", "apply"} /\ Destructive(v) => exec[v].request \in archived'
      /\ Reconciles(v) /\ exec[v].pc = "fail" => lock' = v
  BY DEF Undisturbed, HandlerAt
<1>7. /\ exec[v].pc \in {"archive", "verify", "apply", "supersede"} => Reconciles(v)
      /\ exec[v].pc \in {"commit", "finish"} => ~Reconciles(v)
  BY DEF HandlerAt
<1> QED
  BY <1>1, <1>3, <1>4, <1>5, <1>6, <1>7 DEF HandlerAt

LEMMA AllUndisturbed ==
  ASSUME Handlers, \A v \in Worker : Undisturbed(v)
  PROVE  Handlers'
<1>1. \A v \in Worker : HandlerAt(v)' /\ (Busy(v)' <=> Busy(v))
  BY UndisturbedAt DEF Handlers
<1>2. \A v \in Worker : exec'[v].request = exec[v].request
  BY DEF Undisturbed
<1>3. Exclusive'
  BY <1>1, <1>2 DEF Handlers, Exclusive
<1> QED
  BY <1>1, <1>3 DEF Handlers

(* A job at work carries a request that exists, so no transaction replaces the job.   *)
LEMMA Occupied ==
  ASSUME IInv, NEW v \in Worker, Busy(v)
  PROVE  LET r == exec[v].request IN
         /\ r \in SyncRequest /\ job[r].state = "leased"
         /\ r \in Reconciliation => recon[r].status # "absent"
         /\ r \in Incremental => incr[r].status # "absent"
         /\ Reconciles(v) <=> r \notin Incremental
  BY AttendedExists, IdAssumption DEF IInv, Attended, Reconciles, SyncRequest

(* Transactions that need the lock find no handler that holds it.                     *)
LEMMA UnlockedUndisturbed ==
  ASSUME IInv, lock = NoWorker, UNCHANGED <<incr, archived, exec>>,
         NEW R, NEW configuration, ReconMoves(R, configuration), NEW v \in Worker
  PROVE  Undisturbed(v)
<1>1. lock # v
  BY IdAssumption
<1>2. ASSUME Busy(v)
      PROVE  LET r == exec[v].request IN
             /\ job'[r].state = "leased"
             /\ Reconciles(v) /\ recon[r].status \in Terminal => recon'[r].status = recon[r].status
  BY <1>2, Occupied DEF ReconMoves, Reconciles
<1> QED
  BY <1>1, <1>2 DEF Undisturbed

LEMMA QuietUndisturbed ==
  ASSUME IInv, Quiet, NEW v \in Worker
  PROVE  Undisturbed(v)
  BY Occupied DEF Quiet, Undisturbed

LEMMA EventHandlers ==
  ASSUME IInv, Event
  PROVE  Handlers'
<1>1. Handlers
  BY Parts
<1> QED
  BY <1>1, EventMoves, QuietUndisturbed, UnlockedUndisturbed, AllUndisturbed DEF LockedMove

LEMMA EnvironmentHandlers ==
  ASSUME IInv,
         \/ Tick
         \/ \E kind \in Delivery : Deliver(kind) \/ LoseDelivery(kind)
         \/ \E r \in SyncRequest : LeaseExpires(r) \/ LoseJob(r)
  PROVE  Handlers'
<1>1. /\ TypeOK /\ Handlers /\ job \in [SyncRequest -> Job]
  BY Parts DEF IInv, TypeOK
<1>2. SUFFICES ASSUME NEW v \in Worker PROVE Undisturbed(v)
  BY <1>1, AllUndisturbed
<1>3. CASE Quiet
  BY <1>3, QuietUndisturbed
<1>4. ASSUME NEW kind \in Delivery, Deliver(kind) PROVE Undisturbed(v)
  <2>1. UNCHANGED <<recon, project, archived, lock, exec>>
    BY <1>4 DEF Deliver
  <2>2. CASE StoredIncr
    <3>1. ASSUME Busy(v)
          PROVE  LET r == exec[v].request IN
                 /\ job'[r].state = "leased"
                 /\ ~Reconciles(v) /\ incr[r].status \in {"running"} \cup Terminal =>
                      incr'[r].status = incr[r].status
      BY <2>2, <3>1, Occupied DEF StoredIncr, Reconciles, SyncRequest
    <3> QED
      BY <2>1, <3>1 DEF Undisturbed
  <2>3. CASE UNCHANGED <<incr, job>>
    BY <2>1, <2>3, QuietUndisturbed DEF Quiet
  <2> QED
    BY <1>4, <2>2, <2>3, DeliverMoves
<1>5. ASSUME NEW r \in SyncRequest, LeaseExpires(r) \/ LoseJob(r) PROVE Undisturbed(v)
  <2>1. UNCHANGED <<recon, incr, project, archived, lock, exec>> /\ exec[v].request # r
    BY <1>5 DEF LeaseExpires, LoseJob, Outside, Unattended
  <2>2. \A s \in SyncRequest \ {r} : job'[s] = job[s]
    BY <1>1, <1>5, ReleaseTypes DEF LeaseExpires, LoseJob
  <2> QED
    BY <2>1, <2>2, Occupied DEF Undisturbed
<1>6. ASSUME NEW kind \in Delivery, LoseDelivery(kind) PROVE Quiet
  BY <1>6 DEF LoseDelivery, Quiet
<1> QED
  BY <1>3, <1>4, <1>5, <1>6 DEF Tick, Quiet

(* What one worker does disturbs no other.                                            *)
LEMMA OthersUndisturbed ==
  ASSUME IInv, NEW w \in Worker, Progress(w) \/ Scan(w) \/ Trouble(w),
         NEW v \in Worker \ {w}
  PROVE  Undisturbed(v)
<1>1. /\ TypeOK /\ OneQueued /\ exec \in [Worker -> Execution] /\ job \in [SyncRequest -> Job]
      /\ v # NoWorker /\ v # w /\ HandlerAt(w)
      /\ Busy(v) /\ Busy(w) => exec[v].request # exec[w].request
  BY Parts, IdAssumption DEF IInv, TypeOK, Attended, Handlers
<1>2. exec'[v] = exec[v]
  <2>1. CASE Handle(w)
    BY <1>1, <2>1
    DEF Handle, ClaimReconciliation, ObserveReconciliation, Archive, Verify, ApplySnapshot,
        Supersede, MarkReconciliationFailed, ClaimIncremental, ObserveIncremental,
        CommitObserved, Finish, MarkIncrementalFailed, Advance, Throw
  <2>2. CASE ~Handle(w)
    BY <1>1, <2>2
    DEF Progress, Trouble, RecoverReconciliations, RecoverIncrementals, ReconcileRecovered,
        Scan, Take, Acknowledge, Retry, Fail, RawFail, Crash, Advance, Throw
  <2> QED
    BY <2>1, <2>2
<1>3. archived \subseteq archived'
  BY DEF Progress, Trouble, RecoverReconciliations, RecoverIncrementals, ReconcileRecovered,
         Scan, Take, Acknowledge, Retry, Fail, RawFail, Crash,
         Handle, ClaimReconciliation, ObserveReconciliation, Archive, Verify, ApplySnapshot,
         Supersede, MarkReconciliationFailed, ClaimIncremental, ObserveIncremental,
         CommitObserved, Finish, MarkIncrementalFailed
<1>4. ASSUME lock = v PROVE lock' = v /\ UNCHANGED project
  <2>1. CASE Handle(w)
    <3>1. lock' = v
      BY <1>1, <1>4, <2>1
      DEF Handle, ClaimReconciliation, ObserveReconciliation, Archive, Verify, ApplySnapshot,
          Supersede, MarkReconciliationFailed, ClaimIncremental, ObserveIncremental,
          CommitObserved, Finish, MarkIncrementalFailed, Unlock
    <3>2. ~(Archive(w) \/ \E unknown \in BOOLEAN : ApplySnapshot(w, unknown))
      BY <1>1, <1>4 DEF Archive, ApplySnapshot, HandlerAt, Holding
    <3>3. ~\E status \in {"degraded", "disconnected"} : MarkReconciliationFailed(w, status)
      BY <1>1, <1>4 DEF MarkReconciliationFailed, HandlerAt
    <3> QED
      BY <1>1, <1>4, <2>1, <3>1, <3>2, <3>3
      DEF Handle, ClaimReconciliation, ObserveReconciliation, Verify, Supersede,
          ClaimIncremental, ObserveIncremental, CommitObserved, Finish, MarkIncrementalFailed
  <2>2. CASE ~Handle(w)
    BY <1>1, <1>4, <2>2
    DEF Progress, Trouble, RecoverReconciliations, RecoverIncrementals, ReconcileRecovered,
        Scan, Take, Acknowledge, Retry, Fail, RawFail, Crash, Unlock
  <2> QED
    BY <2>1, <2>2
<1> DEFINE r == exec[v].request
           moved == /\ job'[r].state = "leased"
                    /\ Reconciles(v) /\ recon[r].status \in {"running"} \cup Terminal =>
                         recon'[r].status = recon[r].status
                    /\ ~Reconciles(v) /\ incr[r].status \in {"running"} \cup Terminal =>
                         incr'[r].status = incr[r].status
<1>5. ASSUME Busy(v) PROVE moved
  <2>1. /\ r \in SyncRequest /\ job[r].state = "leased"
        /\ r \in Reconciliation => recon[r].status # "absent"
        /\ r \in Incremental => incr[r].status # "absent"
        /\ Reconciles(v) <=> r \in Reconciliation
        /\ ~Reconciles(v) <=> r \in Incremental
    BY <1>5, Occupied DEF Reconciles
  <2> HIDE DEF r
  <2>2. ASSUME NEW R, NEW I, NEW configuration, ReconMoves(R, configuration), r \notin R,
               UNCHANGED incr \/ IncrMoves(I), r \notin I
        PROVE  moved
    <3>1. job'[r] = job[r]
      BY <2>1, <2>2 DEF ReconMoves
    <3> QED
      BY <2>1, <2>2, <3>1 DEF ReconMoves, IncrMoves
  <2>3. CASE UNCHANGED <<recon, incr>> /\ job'[r].state = "leased"
    BY <2>3
  <2>4. CASE RecoverReconciliations(w)
    <3>1. job'[r] = job[r]
      BY <2>1, <2>4 DEF RecoverReconciliations, Lost, NoRow
    <3> QED
      BY <2>1, <2>3, <2>4, <3>1 DEF RecoverReconciliations
  <2>5. CASE RecoverIncrementals(w)
    <3>1. /\ IncrMoves(Lost(Incremental, incr)) /\ UNCHANGED recon
          /\ r \notin Lost(Incremental, incr)
          /\ job'[r] = job[r] \/ r \in Lost(Incremental, incr)
      BY <2>1, <2>5, RecoveryMoves DEF RecoverIncrementals, Lost, NoRow
    <3> QED
      BY <2>1, <3>1 DEF IncrMoves
  <2>6. CASE ReconcileRecovered(w) \/ Scan(w) \/ CommitObserved(w)
    <3>1. ReconMoves({}, project.configuration) /\ UNCHANGED incr
      BY <2>6, AskedMoves DEF ReconcileRecovered, Scan, CommitObserved
    <3> QED
      BY <2>2, <3>1
  <2>7. ASSUME NEW s \in SyncRequest, Take(w, s) PROVE moved
    <3>1. r # s
      BY <2>1, <2>7 DEF Take
    <3> QED
      BY <1>1, <2>1, <2>3, <2>7, <3>1 DEF Take
  <2>8. CASE Acknowledge(w) \/ Retry(w)
    <3>1. r # exec[w].request
      BY <1>1, <1>5, <2>8 DEF Acknowledge, Retry, Busy, Started, r
    <3>2. job'[r] = job[r]
      BY <1>1, <2>1, <2>8, <3>1 DEF Acknowledge, Retry, Release
    <3> QED
      BY <2>1, <2>3, <2>8, <3>2 DEF Acknowledge, Retry
  <2>9. CASE Trouble(w)
    BY <2>1, <2>3, <2>9 DEF Trouble, Fail, RawFail, Crash
  <2>10. CASE Handle(w) /\ ~CommitObserved(w)
    <3>1. r # exec[w].request
      <4>1. Busy(w)
        BY <2>10
        DEF Handle, ClaimReconciliation, ObserveReconciliation, Archive, Verify, ApplySnapshot,
            Supersede, MarkReconciliationFailed, ClaimIncremental, ObserveIncremental,
            CommitObserved, Finish, MarkIncrementalFailed, Busy, Started
      <4> QED
        BY <1>1, <1>5, <4>1 DEF r
    <3>2. CASE \/ ClaimReconciliation(w) \/ Supersede(w)
               \/ \E unknown \in BOOLEAN : ApplySnapshot(w, unknown)
               \/ \E status \in {"degraded", "disconnected"} : MarkReconciliationFailed(w, status)
      <4>1. ReconMoves({exec[w].request}, project.configuration)
        BY <3>2, HandlerMoves
      <4>2. UNCHANGED incr
        BY <3>2 DEF ClaimReconciliation, Supersede, ApplySnapshot, MarkReconciliationFailed
      <4> QED
        BY <2>2, <3>1, <4>1, <4>2
    <3>3. CASE ObserveReconciliation(w) \/ Archive(w) \/ Verify(w) \/ ObserveIncremental(w)
      BY <2>1, <2>3, <3>3 DEF ObserveReconciliation, Archive, Verify, ObserveIncremental
    <3>4. CASE ClaimIncremental(w) \/ Finish(w)
      <4>1. ReconMoves({}, project.configuration)
        BY <1>1, <3>4, NoneMoves DEF ClaimIncremental, Finish
      <4>2. UNCHANGED incr \/ IncrMoves({exec[w].request})
        BY <3>4, IncrementalMoves
      <4> QED
        BY <2>2, <3>1, <4>1, <4>2
    <3>5. CASE \E status \in {"degraded", "disconnected"} : MarkIncrementalFailed(w, status)
      <4>1. ReconMoves({}, project.configuration)
        BY <3>5, AskedMoves
      <4>2. UNCHANGED incr \/ IncrMoves({exec[w].request})
        BY <3>5, IncrementalMoves
      <4> QED
        BY <2>2, <3>1, <4>1, <4>2
    <3> QED
      BY <2>10, <3>2, <3>3, <3>4, <3>5 DEF Handle
  <2> QED
    BY <2>4, <2>5, <2>6, <2>7, <2>8, <2>9, <2>10 DEF Progress
<1> QED
  BY <1>2, <1>3, <1>4, <1>5 DEF Undisturbed

(* The worker's own step.  Where it is afterwards:                                    *)
AtRest(w) == exec'[w].pc \in {"down", "recover", "reconcile", "scan", "idle"}

LEMMA RestAt ==
  ASSUME NEW w \in Worker, AtRest(w)
  PROVE  HandlerAt(w)' /\ ~Busy(w)'
  BY DEF AtRest, HandlerAt, Holding, Busy, Started

\* The handler goes on with the request that it has.
Continues(w) ==
  /\ exec'[w].request = exec[w].request
  /\ exec[w].request \in SyncRequest
  /\ job'[exec[w].request].state = "leased"

LEMMA WaitsAt ==
  ASSUME NEW w \in Worker, Continues(w), exec'[w].pc = "retry"
  PROVE  HandlerAt(w)'
  BY DEF HandlerAt, Continues, Holding

LEMMA EndsAt ==
  ASSUME NEW w \in Worker, Continues(w), exec'[w].pc = "acknowledge",
         Reconciles(w) => recon'[exec[w].request].status \in Terminal,
         ~Reconciles(w) => incr'[exec[w].request].status \in Terminal
  PROVE  HandlerAt(w)'
  BY DEF HandlerAt, Continues, Holding, Reconciles

LEMMA StartAt ==
  ASSUME NEW w \in Worker, IInv,
         \/ RecoverReconciliations(w) \/ RecoverIncrementals(w) \/ ReconcileRecovered(w)
         \/ Scan(w) \/ Acknowledge(w) \/ Retry(w) \/ Crash(w)
  PROVE  HandlerAt(w)' /\ (AtRest(w) \/ exec' = exec)
<1>1. TypeOK /\ OneQueued /\ exec \in [Worker -> Execution] /\ exec[w] \in Execution
      /\ HandlerAt(w)
  BY Parts DEF IInv, TypeOK, Handlers
<1>2. CASE AtRest(w)
  BY <1>2, RestAt
<1>3. ASSUME RecoverReconciliations(w) \/ RecoverIncrementals(w) \/ ReconcileRecovered(w)
             \/ Acknowledge(w) \/ Retry(w) \/ Crash(w)
      PROVE  AtRest(w)
  <2>1. CASE RecoverReconciliations(w)
    BY <1>1, <2>1 DEF AtRest, RecoverReconciliations, Advance, Execution
  <2>2. CASE RecoverIncrementals(w)
    BY <1>1, <2>2 DEF AtRest, RecoverIncrementals, Execution
  <2>3. ASSUME NEW pc \in {"down", "idle"}, exec' = [exec EXCEPT ![w] = IdleExec(pc)]
        PROVE  AtRest(w)
    BY <1>1, <2>3 DEF AtRest, IdleExec
  <2>4. CASE ReconcileRecovered(w)
    BY <1>1, <2>3, <2>4 DEF AtRest, ReconcileRecovered, Execution
  <2>5. CASE Acknowledge(w) \/ Retry(w) \/ Crash(w)
    BY <2>3, <2>5 DEF Acknowledge, Retry, Crash
  <2> QED
    BY <1>3, <2>1, <2>2, <2>4, <2>5
<1>4. CASE Scan(w)
  <2>1. CASE exec[w].pc = "scan" \/ ~Due
    <3>1. exec[w].pc = "scan"
      BY <1>4, <2>1 DEF Scan
    <3>2. AtRest(w)
      BY <1>1, <1>4, <3>1 DEF AtRest, Scan, Advance, IdleExec, Execution
    <3> QED
      BY <3>2, RestAt
  <2>2. CASE exec[w].pc # "scan" /\ Due
    <3>1. /\ lock = NoWorker /\ UNCHANGED <<incr, archived>>
          /\ exec' = [exec EXCEPT ![w].pc = exec[w].pc]
      BY <1>1, <1>4, <2>2 DEF Scan
    <3>2. exec' = exec
      BY <1>1, <3>1 DEF Execution
    <3>3. ReconMoves({}, project.configuration)
      BY <1>4, AskedMoves
    <3>4. Undisturbed(w)
      BY <3>1, <3>2, <3>3, UnlockedUndisturbed
    <3> QED
      BY <1>1, <3>2, <3>4, UndisturbedAt
  <2> QED
    BY <2>1, <2>2
<1> QED
  BY <1>2, <1>3, <1>4

LEMMA TakeAt ==
  ASSUME NEW w \in Worker, NEW r \in SyncRequest, IInv, Take(w, r)
  PROVE  HandlerAt(w)' /\ exec'[w].request = r
<1>1. exec \in [Worker -> Execution] /\ job \in [SyncRequest -> Job]
  BY DEF IInv, TypeOK
<1>2. exec'[w].pc = "claim" /\ exec'[w].request = r /\ job'[r].state = "leased"
  BY <1>1 DEF Take, Execution
<1> QED
  BY <1>2 DEF HandlerAt, Holding

LEMMA FailAt ==
  ASSUME NEW w \in Worker, IInv,
         RawFail(w) \/ \E kind \in {"transient", "permanent"} : Fail(w, kind)
  PROVE  HandlerAt(w)' /\ Continues(w)
<1>1. /\ exec \in [Worker -> Execution] /\ exec[w] \in Execution /\ HandlerAt(w)
      /\ UNCHANGED <<project, recon, incr, archived, job, lock>>
  BY Parts DEF IInv, TypeOK, Handlers, RawFail, Fail
<1>2. Busy(w)
  BY DEF RawFail, Fail, Busy, Started
<1>3. /\ exec'[w].request = exec[w].request /\ exec'[w].pc \in {"fail", "retry"}
      /\ exec'[w].pc = "fail" => exec[w].pc \in {"observe", "archive", "verify", "apply",
                                                 "supersede", "commit", "finish"}
  BY <1>1 DEF RawFail, Fail, Throw, Advance, Execution
<1>4. Continues(w)
  BY <1>1, <1>2, <1>3 DEF Continues, HandlerAt
<1>5. CASE exec'[w].pc = "retry"
  BY <1>4, <1>5, WaitsAt
<1>6. CASE exec'[w].pc = "fail"
  <2>1. Reconciles(w) => lock = w
    BY <1>1, <1>3, <1>6 DEF HandlerAt, Holding
  <2>2. ~Reconciles(w) => incr[exec[w].request].status \in {"running"} \cup Terminal
    BY <1>1, <1>3, <1>6 DEF HandlerAt
  <2> QED
    BY <1>1, <1>3, <1>4, <1>6, <2>1, <2>2 DEF HandlerAt, Continues, Holding, Reconciles
<1> QED
  BY <1>3, <1>4, <1>5, <1>6

LEMMA HandleContinues ==
  ASSUME NEW w \in Worker, IInv, Handle(w)
  PROVE  Continues(w)
<1>1. /\ exec \in [Worker -> Execution] /\ exec[w] \in Execution /\ TypeOK /\ OneQueued
  BY DEF IInv, TypeOK
<1>2. Busy(w)
  BY DEF Handle, ClaimReconciliation, ObserveReconciliation, Archive, Verify, ApplySnapshot,
         Supersede, MarkReconciliationFailed, ClaimIncremental, ObserveIncremental,
         CommitObserved, Finish, MarkIncrementalFailed, Busy, Started
<1>3. exec'[w].request = exec[w].request
  <2>1. ASSUME NEW pc, Advance(w, pc) PROVE exec'[w].request = exec[w].request
    BY <1>1, <2>1 DEF Advance, Execution
  <2>2. CASE ClaimReconciliation(w)
    BY <1>1, <2>1, <2>2 DEF ClaimReconciliation, Execution
  <2>3. CASE ObserveReconciliation(w) \/ Verify(w)
    BY <1>1, <2>3 DEF ObserveReconciliation, Verify, Execution
  <2>4. CASE ClaimIncremental(w)
    BY <1>1, <2>1, <2>4 DEF ClaimIncremental, Execution
  <2>5. CASE ObserveIncremental(w)
    BY <1>1, <2>5 DEF ObserveIncremental, Execution
  <2>6. CASE Supersede(w)
    BY <2>1, <2>6 DEF Supersede, Throw
  <2>7. CASE CommitObserved(w)
    BY <2>1, <2>7 DEF CommitObserved, Throw
  <2>8. CASE Archive(w) \/ Finish(w) \/ \E unknown \in BOOLEAN : ApplySnapshot(w, unknown)
    BY <2>1, <2>8 DEF Archive, Finish, ApplySnapshot
  <2>9. CASE \E status \in {"degraded", "disconnected"} :
               MarkReconciliationFailed(w, status) \/ MarkIncrementalFailed(w, status)
    BY <2>1, <2>9 DEF MarkReconciliationFailed, MarkIncrementalFailed
  <2> QED
    BY <2>2, <2>3, <2>4, <2>5, <2>6, <2>7, <2>8, <2>9 DEF Handle
<1>4. \/ UNCHANGED job
      \/ \E R : ReconMoves(R, project.configuration)
  <2>1. CASE Supersede(w)
    BY <2>1, HandlerMoves
  <2>2. CASE CommitObserved(w)
    BY <2>2, AskedMoves
  <2>3. CASE \E status \in {"degraded", "disconnected"} : MarkIncrementalFailed(w, status)
    BY <2>3, AskedMoves
  <2> QED
    BY <2>1, <2>2, <2>3
    DEF Handle, ClaimReconciliation, ObserveReconciliation, Archive, Verify, ApplySnapshot,
        MarkReconciliationFailed, ClaimIncremental, ObserveIncremental, Finish
<1> QED
  BY <1>2, <1>3, <1>4, Occupied DEF Continues, ReconMoves

LEMMA ReconciliationAt ==
  ASSUME NEW w \in Worker, IInv,
         \/ ClaimReconciliation(w) \/ ObserveReconciliation(w) \/ Archive(w) \/ Verify(w)
         \/ \E unknown \in BOOLEAN : ApplySnapshot(w, unknown)
         \/ Supersede(w)
         \/ \E status \in {"degraded", "disconnected"} : MarkReconciliationFailed(w, status)
  PROVE  HandlerAt(w)'
<1> DEFINE r == exec[w].request
<1>1. /\ exec \in [Worker -> Execution] /\ exec[w] \in Execution /\ TypeOK /\ OneQueued
      /\ HandlerAt(w) /\ recon \in [Reconciliation -> Recon] /\ project \in Project
  BY Parts DEF IInv, TypeOK, Handlers
<1>2. Continues(w) /\ Reconciles(w) /\ Reconciles(w)' /\ r \in Reconciliation
  <2>1. Continues(w)
    BY HandleContinues DEF Handle
  <2>2. Reconciles(w)
    BY <1>1 DEF HandlerAt, ClaimReconciliation, ObserveReconciliation, Archive, Verify,
                ApplySnapshot, Supersede, MarkReconciliationFailed
  <2> QED
    BY <2>1, <2>2 DEF Continues, Reconciles
<1>3. exec[w].pc \in Holding =>
        /\ lock = w /\ Current(w) /\ project.heads = exec[w].claim.previous
        /\ recon[r].status = "running"
  BY <1>1, <1>2 DEF HandlerAt
<1>4. ASSUME NEW pc \in Step, Advance(w, pc)
      PROVE  /\ exec'[w].pc = pc /\ exec'[w].claim = exec[w].claim
             /\ (Destructive(w)' <=> Destructive(w))
  BY <1>1, <1>4 DEF Advance, Execution, Destructive
<1>5. {"acknowledge", "verify", "fail", "retry"} \subseteq Step
  BY DEF Step
<1>6. ASSUME Advance(w, "acknowledge"), recon'[r].status \in Terminal PROVE HandlerAt(w)'
  BY <1>2, <1>4, <1>5, <1>6, EndsAt
<1>7. \* The handler holds on to what it claimed.
      ASSUME exec'[w].pc \in {"archive", "verify", "apply", "supersede"},
             exec'[w].claim = exec[w].claim, UNCHANGED <<recon, lock>>,
             project'.configuration = project.configuration, project'.heads = project.heads,
             project'.status = project.status \/ project'.status # "pending_deletion",
             exec[w].pc \in Holding,
             exec'[w].pc \in {"verify", "apply"} /\ Destructive(w) => r \in archived'
      PROVE  HandlerAt(w)'
  <2>1. Current(w)'
    BY <1>3, <1>7 DEF Current, Deleting
  <2>2. Destructive(w)' <=> Destructive(w)
    BY <1>7 DEF Destructive
  <2> QED
    BY <1>2, <1>3, <1>7, <2>1, <2>2 DEF HandlerAt, Continues
<1>8. CASE ClaimReconciliation(w)
  <2>1. CASE recon[r].status \in Terminal /\ Advance(w, "acknowledge") /\ UNCHANGED recon
    BY <1>6, <2>1
  <2>2. CASE recon' = [recon EXCEPT ![r].status = "superseded"] /\ Advance(w, "acknowledge")
    <3>1. recon'[r].status = "superseded"
      BY <1>1, <1>2, <2>2 DEF Recon
    <3> QED
      BY <1>6, <2>2, <3>1 DEF Terminal
  <2>3. CASE /\ recon[r].configuration = project.configuration /\ ~Deleting
             /\ recon' = [recon EXCEPT ![r].status = "running"]
             /\ lock' = w
             /\ exec' = [exec EXCEPT ![w].pc = "observe", ![w].claim =
                  [configuration |-> recon[r].configuration, heads |-> recon[r].heads,
                   previous |-> project.heads, forced |-> recon[r].forced, required |-> FALSE]]
    <3>1. recon'[r].status = "running"
      BY <1>1, <1>2, <2>3 DEF Recon
    <3>2. /\ exec'[w].pc = "observe"
          /\ exec'[w].claim.configuration = recon[r].configuration
          /\ exec'[w].claim.previous = project.heads
      BY <1>1, <2>3 DEF Execution
    <3>3. UNCHANGED project
      BY <1>8 DEF ClaimReconciliation
    <3>4. Current(w)' /\ project'.heads = exec'[w].claim.previous
      BY <2>3, <3>2, <3>3 DEF Current, Deleting
    <3> QED
      BY <1>2, <2>3, <3>1, <3>2, <3>4 DEF HandlerAt, Continues
  <2> QED
    BY <1>8, <2>1, <2>2, <2>3 DEF ClaimReconciliation
<1>9. CASE ObserveReconciliation(w)
  <2>1. /\ exec'[w].claim = exec[w].claim
        /\ exec'[w].pc \in {"supersede", "archive", "verify"}
        /\ exec'[w].pc = "verify" => ~Destructive(w)
        /\ UNCHANGED <<recon, lock, project, archived>> /\ exec[w].pc \in Holding
    BY <1>1, <1>9 DEF ObserveReconciliation, Execution, Holding
  <2> QED
    BY <1>7, <2>1
<1>10. CASE Archive(w)
  <2>1. /\ r \in archived' /\ UNCHANGED <<recon, lock>> /\ Advance(w, "verify")
        /\ exec[w].pc \in Holding
    BY <1>10 DEF Archive, Holding
  <2>2. /\ project'.configuration = project.configuration /\ project'.heads = project.heads
        /\ project'.status = project.status \/ project'.status # "pending_deletion"
    BY <1>1, <1>10 DEF Archive, Project
  <2>3. exec'[w].pc = "verify" /\ exec'[w].claim = exec[w].claim
    BY <1>4, <1>5, <2>1
  <2> QED
    BY <1>7, <2>1, <2>2, <2>3
<1>11. CASE Verify(w)
  <2>1. /\ exec'[w].claim = exec[w].claim
        /\ exec'[w].pc \in {"supersede", "apply"}
        /\ Destructive(w) => r \in archived
        /\ UNCHANGED <<recon, lock, project, archived>> /\ exec[w].pc \in Holding
    BY <1>1, <1>11 DEF Verify, Execution, Holding, HandlerAt
  <2> QED
    BY <1>7, <2>1
<1>12. ASSUME NEW unknown \in BOOLEAN, ApplySnapshot(w, unknown) PROVE HandlerAt(w)'
  <2>1. recon[r].status = "running" /\ Current(w) /\ Advance(w, "acknowledge")
    BY <1>3, <1>12 DEF ApplySnapshot, Holding
  <2>2. recon' = [recon EXCEPT ![r].status = "succeeded", ![r].heads = exec[w].claim.heads]
    BY <1>12, <2>1 DEF ApplySnapshot
  <2>3. recon'[r].status = "succeeded"
    BY <1>1, <1>2, <2>2 DEF Recon
  <2> QED
    BY <1>6, <2>1, <2>3 DEF Terminal
<1>13. CASE Supersede(w)
  <2>1. recon[r].status = "running" /\ lock = w
    BY <1>3, <1>13 DEF Supersede, Holding
  <2>2. CASE recon'[r].status = "superseded" /\ Advance(w, "acknowledge")
    BY <1>6, <2>2 DEF Terminal
  <2>3. CASE Throw(w, "transient") /\ UNCHANGED lock
    <3>1. exec'[w].pc \in {"fail", "retry"}
      BY <1>4, <1>5, <2>3 DEF Throw
    <3> QED
      BY <1>2, <2>1, <2>3, <3>1 DEF HandlerAt, Continues, Holding
  <2>4. recon'[r].status = "superseded" \/ (Throw(w, "transient") /\ UNCHANGED lock)
    BY <1>1, <1>2, <1>13, <2>1, SupersedeFacts DEF Active
  <2>5. Advance(w, "acknowledge") \/ (Throw(w, "transient") /\ UNCHANGED lock)
    BY <1>13 DEF Supersede
  <2> QED
    BY <2>2, <2>3, <2>4, <2>5
<1>14. ASSUME NEW status \in {"degraded", "disconnected"}, MarkReconciliationFailed(w, status)
       PROVE  HandlerAt(w)'
  <2>1. recon'[r].status \in Terminal
    <3>1. \/ recon[r].status \in Terminal /\ UNCHANGED recon
          \/ recon' = [recon EXCEPT ![r].status = "failed"]
      BY <1>14 DEF MarkReconciliationFailed
    <3> QED
      BY <1>1, <1>2, <3>1 DEF Recon, Terminal
  <2> QED
    BY <1>6, <1>14, <2>1 DEF MarkReconciliationFailed
<1> QED
  BY <1>8, <1>9, <1>10, <1>11, <1>12, <1>13, <1>14

LEMMA IncrementalAt ==
  ASSUME NEW w \in Worker, IInv,
         \/ ClaimIncremental(w) \/ ObserveIncremental(w) \/ CommitObserved(w) \/ Finish(w)
         \/ \E status \in {"degraded", "disconnected"} : MarkIncrementalFailed(w, status)
  PROVE  HandlerAt(w)'
<1> DEFINE i == exec[w].request
           held(status) == status \in {"running"} \cup Terminal
<1>1. /\ exec \in [Worker -> Execution] /\ exec[w] \in Execution /\ TypeOK
      /\ HandlerAt(w) /\ incr \in [Incremental -> Incr]
  BY Parts DEF IInv, TypeOK, Handlers
<1>2. Continues(w) /\ ~Reconciles(w) /\ ~Reconciles(w)' /\ i \in Incremental
  <2>1. Continues(w)
    BY HandleContinues DEF Handle
  <2>2. ~Reconciles(w)
    BY <1>1 DEF HandlerAt, ClaimIncremental, ObserveIncremental, CommitObserved, Finish,
                MarkIncrementalFailed
  <2> QED
    BY <2>1, <2>2 DEF Continues, Reconciles, SyncRequest
<1>3. exec[w].pc \in {"observe", "commit", "finish", "fail"} => held(incr[i].status)
  BY <1>1, <1>2 DEF HandlerAt
<1>4. ASSUME NEW pc \in Step, Advance(w, pc) PROVE exec'[w].pc = pc
  BY <1>1, <1>4 DEF Advance, Execution
<1>5. {"acknowledge", "finish", "fail", "retry"} \subseteq Step
  BY DEF Step
<1>6. ASSUME Advance(w, "acknowledge"), incr'[i].status \in Terminal PROVE HandlerAt(w)'
  BY <1>2, <1>4, <1>5, <1>6, EndsAt
<1>7. ASSUME exec'[w].pc \in {"observe", "commit", "finish", "fail", "retry"},
             held(incr'[i].status)
      PROVE  HandlerAt(w)'
  BY <1>2, <1>7 DEF HandlerAt, Continues, Holding
<1>8. CASE ClaimIncremental(w)
  <2>1. CASE incr[i].status \in Terminal /\ Advance(w, "acknowledge") /\ UNCHANGED incr
    BY <1>6, <2>1
  <2>2. CASE incr' = [incr EXCEPT ![i].status = "superseded"] /\ Advance(w, "acknowledge")
    <3>1. incr'[i].status = "superseded"
      BY <1>1, <1>2, <2>2 DEF Incr
    <3> QED
      BY <1>6, <2>2, <3>1 DEF Terminal
  <2>3. CASE incr' = [incr EXCEPT ![i].status = "running"] /\ exec'[w].pc = "observe"
    <3>1. incr'[i].status = "running"
      BY <1>1, <1>2, <2>3 DEF Incr
    <3> QED
      BY <1>7, <2>3, <3>1
  <2>4. exec' = [exec EXCEPT ![w].pc = "observe", ![w].claim =
             [NoClaim EXCEPT !.configuration = incr[i].configuration,
                !.forced = incr[i].forced, !.required = incr[i].required]] =>
        exec'[w].pc = "observe"
    BY <1>1 DEF Execution
  <2> QED
    BY <1>8, <2>1, <2>2, <2>3, <2>4 DEF ClaimIncremental
<1>9. CASE ObserveIncremental(w)
  <2>1. exec'[w].pc = "commit" /\ UNCHANGED incr /\ exec[w].pc = "observe"
    BY <1>1, <1>9 DEF ObserveIncremental, Execution
  <2> QED
    BY <1>3, <1>7, <2>1
<1>10. CASE CommitObserved(w)
  <2>1. Advance(w, "finish") \/ Throw(w, "transient")
    BY <1>10 DEF CommitObserved
  <2>2. exec'[w].pc \in {"finish", "fail", "retry"} /\ UNCHANGED incr /\ exec[w].pc = "commit"
    BY <1>4, <1>5, <1>10, <2>1 DEF CommitObserved, Throw
  <2> QED
    BY <1>3, <1>7, <2>2
<1>11. CASE Finish(w)
  <2> DEFINE status == IF incr[i].status # "running" THEN incr[i].status
                       ELSE IF Current(w) THEN "succeeded" ELSE "superseded"
  <2>1. incr' = [incr EXCEPT ![i].status = status] /\ Advance(w, "acknowledge")
    BY <1>11 DEF Finish
  <2>2. status \in Terminal
    BY <1>3, <1>11 DEF Finish, Terminal
  <2> HIDE DEF status
  <2>3. incr'[i].status \in Terminal
    BY <1>1, <1>2, <2>1, <2>2 DEF Incr
  <2> QED
    BY <1>6, <2>1, <2>3
<1>12. ASSUME NEW status \in {"degraded", "disconnected"}, MarkIncrementalFailed(w, status)
       PROVE  HandlerAt(w)'
  <2>1. exec[w].pc = "fail"
    BY <1>12 DEF MarkIncrementalFailed
  <2>2. CASE Advance(w, "retry") /\ UNCHANGED incr
    BY <1>2, <1>4, <1>5, <2>2, WaitsAt
  <2>3. CASE /\ Advance(w, "acknowledge")
             /\ incr' = [incr EXCEPT ![i].status =
                           IF incr[i].status \in Active THEN "failed" ELSE incr[i].status]
    <3> DEFINE after == IF incr[i].status \in Active THEN "failed" ELSE incr[i].status
    <3>1. after \in Terminal
      BY <1>3, <2>1 DEF Active, Terminal
    <3>2. incr' = [incr EXCEPT ![i].status = after]
      BY <2>3
    <3> HIDE DEF after
    <3>3. incr'[i].status \in Terminal
      BY <1>1, <1>2, <3>1, <3>2 DEF Incr
    <3> QED
      BY <1>6, <2>3, <3>3
  <2>4. \/ Advance(w, "retry") /\ UNCHANGED incr
        \/ /\ Advance(w, "acknowledge")
           /\ incr' = [incr EXCEPT ![i].status =
                         IF incr[i].status \in Active THEN "failed" ELSE incr[i].status]
    BY <1>12 DEF MarkIncrementalFailed
  <2> QED
    BY <2>2, <2>3, <2>4
<1> QED
  BY <1>8, <1>9, <1>10, <1>11, <1>12

LEMMA WorkerHandlers ==
  ASSUME IInv, NEW w \in Worker, Progress(w) \/ Scan(w) \/ Trouble(w)
  PROVE  Handlers'
<1> DEFINE took == \E r \in SyncRequest : Take(w, r) /\ exec'[w].request = r
<1>1. TypeOK /\ Handlers /\ exec \in [Worker -> Execution] /\ job \in [SyncRequest -> Job]
  BY Parts DEF IInv, TypeOK
<1>2. HandlerAt(w)' /\ (AtRest(w) \/ exec' = exec \/ Continues(w) \/ took)
  <2>1. CASE \/ RecoverReconciliations(w) \/ RecoverIncrementals(w) \/ ReconcileRecovered(w)
             \/ Scan(w) \/ Acknowledge(w) \/ Retry(w) \/ Crash(w)
    BY <2>1, StartAt
  <2>2. CASE \E r \in SyncRequest : Take(w, r)
    BY <2>2, TakeAt
  <2>3. CASE RawFail(w) \/ \E kind \in {"transient", "permanent"} : Fail(w, kind)
    BY <2>3, FailAt
  <2>4. CASE Handle(w)
    <3>1. HandlerAt(w)'
      BY <2>4, ReconciliationAt, IncrementalAt DEF Handle
    <3> QED
      BY <2>4, <3>1, HandleContinues
  <2> QED
    BY <2>1, <2>2, <2>3, <2>4 DEF Progress, Trouble
<1>3. \A v \in Worker \ {w} : /\ HandlerAt(v)' /\ (Busy(v)' <=> Busy(v))
                              /\ exec'[v].request = exec[v].request
  <2>1. \A v \in Worker \ {w} : Undisturbed(v)
    BY OthersUndisturbed
  <2> QED
    BY <1>1, <2>1, UndisturbedAt DEF Handlers, Undisturbed
<1>4. ASSUME NEW v \in Worker \ {w}, Busy(v)', Busy(w)', exec'[v].request = exec'[w].request
      PROVE  FALSE
  <2>1. Busy(v) /\ exec[v].request = exec'[w].request /\ job[exec[v].request].state = "leased"
    BY <1>1, <1>3, <1>4 DEF Handlers, HandlerAt
  <2>2. CASE AtRest(w)
    BY <1>4, <2>2, RestAt
  <2>3. CASE took
    BY <2>1, <2>3 DEF Take
  <2>4. CASE (exec' = exec \/ Continues(w)) /\ Busy(w)
    BY <1>1, <2>1, <2>4 DEF Continues, Handlers, Exclusive
  <2>5. CASE exec' = exec /\ ~Busy(w)
    BY <1>4, <2>5 DEF Busy, Started
  <2>6. CASE Continues(w) /\ ~Busy(w) /\ ~took /\ ~AtRest(w)
    <3>1. ~Handle(w) /\ ~RawFail(w) /\ ~\E kind \in {"transient", "permanent"} : Fail(w, kind)
      BY <2>6
      DEF Handle, ClaimReconciliation, ObserveReconciliation, Archive, Verify, ApplySnapshot,
          Supersede, MarkReconciliationFailed, ClaimIncremental, ObserveIncremental,
          CommitObserved, Finish, MarkIncrementalFailed, RawFail, Fail, Busy, Started
    <3>2. \/ RecoverReconciliations(w) \/ RecoverIncrementals(w) \/ ReconcileRecovered(w)
          \/ Scan(w) \/ Acknowledge(w) \/ Retry(w) \/ Crash(w)
      <4>1. ~\E r \in SyncRequest : Take(w, r)
        BY <2>6, TakeAt
      <4> QED
        BY <3>1, <4>1 DEF Progress, Trouble
    <3>3. exec' = exec
      BY <2>6, <3>2, StartAt
    <3> QED
      BY <1>4, <2>6, <3>3 DEF Busy, Started
  <2> QED
    BY <1>2, <2>2, <2>3, <2>4, <2>5, <2>6
<1>5. Exclusive'
  <2> SUFFICES ASSUME NEW u \in Worker, NEW v \in Worker, Busy(u)', Busy(v)',
                      exec'[u].request = exec'[v].request
               PROVE  u = v
    BY DEF Exclusive
  <2>1. CASE u = w \/ v = w
    BY <1>4, <2>1
  <2>2. CASE u # w /\ v # w
    BY <1>1, <1>3, <2>2 DEF Handlers, Exclusive
  <2> QED
    BY <2>1, <2>2
<1>6. \A v \in Worker : HandlerAt(v)'
  BY <1>2, <1>3
<1> QED
  BY <1>5, <1>6 DEF Handlers

-----------------------------------------------------------------------------
LEMMA Earliest == \E r \in Reconciliation : \A s \in Reconciliation : r <= s
<1>1. IsWellFoundedOn(OpToRel(<, Nat), Nat)
  BY NatLessThanWellFounded
<1>2. Reconciliation \subseteq Nat /\ Reconciliation # {}
  BY IdAssumption
<1>3. PICK r \in Reconciliation : \A s \in Reconciliation : ~(<<s, r>> \in OpToRel(<, Nat))
  BY <1>1, <1>2, WFMin
<1>4. ASSUME NEW s \in Reconciliation PROVE r <= s
  <2>1. <<s, r>> \notin {ss \in Nat \X Nat : ss[1] < ss[2]}
    BY <1>3 DEF OpToRel
  <2>2. r \in Nat /\ s \in Nat
    BY <1>2
  <2> QED
    BY <2>1, <2>2
<1> QED
  BY <1>4

LEMMA Initially == Init => IInv
<1> SUFFICES ASSUME Init PROVE IInv
  OBVIOUS
<1> USE IdAssumption, BoundAssumption
<1> DEFINE r == CHOOSE r \in Reconciliation : \A s \in Reconciliation : r <= s
           first == [status |-> "queued", configuration |-> 1, heads |-> 1,
                     key |-> KeyOf("configuration", 1, {}), reason |-> "project_created",
                     forced |-> FALSE, next |-> 0]
           none == [s \in Reconciliation |-> NoRecon]
<1>1. /\ recon = [none EXCEPT ![r] = first]
      /\ job = [[s \in SyncRequest |-> NoJob] EXCEPT ![r] = NewJob]
      /\ project.configuration = 1
  BY DEF Init
<1>2. /\ first \in Recon /\ first.configuration = 1 /\ first.key.configuration = 1
      /\ NoRecon \in Recon
  BY DEF Recon, KeyOf, Key, Heads, Reason, Active, NoRecon, NoKey
<1>3. none \in [Reconciliation -> Recon] /\ \A s \in Reconciliation : none[s].status = "absent"
  BY <1>2 DEF NoRecon
<1> HIDE DEF first, none
<1>4. recon \in [Reconciliation -> Recon] /\ job \in [SyncRequest -> Job]
  BY <1>1, <1>2, <1>3, ExecutionTypes
<1>5. /\ \A s \in Reconciliation : recon[s] = IF s = r THEN first ELSE none[s]
      /\ \A s \in SyncRequest : job[s] = IF s = r THEN NewJob ELSE NoJob
  BY <1>1, <1>3
<1>6. TypeOK
  <2>1. /\ remote \in Heads /\ mail \in [Delivery -> Nat] /\ validated \in Heads \cup {0}
        /\ bucket \in Nat /\ archived \subseteq Reconciliation /\ lock \in Worker \cup {NoWorker}
        /\ writes \in Nat /\ faults \in Nat
    BY DEF Init, Heads
  <2>2. project \in Project
    BY DEF Init, Project, Connected, Heads
  <2>3. incr \in [Incremental -> Incr]
    BY DEF Init, NoIncr, Incr, SyncType
  <2>4. exec \in [Worker -> Execution]
    BY ExecutionTypes DEF Init, Step
  <2> QED
    BY <1>4, <2>1, <2>2, <2>3, <2>4 DEF TypeOK
<1>7. \A i \in Incremental : incr[i].status = "absent"
  BY DEF Init, NoIncr
<1>8. Requests
  <2> HIDE DEF r
  <2>1. \A s \in Reconciliation : s # r => recon[s].status = "absent" /\ job[s].state = "none"
    <3> SUFFICES ASSUME NEW s \in Reconciliation, s # r
                 PROVE  recon[s].status = "absent" /\ job[s].state = "none"
      OBVIOUS
    <3>1. s \in SyncRequest
      BY DEF SyncRequest
    <3>2. recon[s] = none[s] /\ job[s] = NoJob
      BY <1>5, <3>1
    <3>3. job[s].state = "none"
      BY <3>2 DEF NoJob
    <3>4. none[s].status = "absent"
      BY <1>3
    <3> QED
      BY <3>2, <3>3, <3>4
  <2>2. r \in Reconciliation => recon[r] = first /\ job[r] = NewJob
    BY <1>5 DEF SyncRequest
  <2>3. /\ recon[r] = first => recon[r].configuration <= project.configuration
        /\ recon[r] = first => recon[r].key.configuration <= project.configuration
    BY <1>1, <1>2
  <2>4. first.status = "queued"
    BY DEF first
  <2>5. OneQueued
    BY <1>7, <2>1 DEF OneQueued
  <2>6. r \in Incremental => r \notin Reconciliation
    OBVIOUS
  <2>7. r \in Reconciliation
    BY Earliest DEF r
  <2>8. \A i \in Incremental : job[i].state = "none"
    <3> SUFFICES ASSUME NEW i \in Incremental PROVE job[i].state = "none"
      OBVIOUS
    <3>1. i # r /\ i \in SyncRequest
      BY <2>6, <2>7 DEF SyncRequest
    <3>2. job[i] = NoJob
      BY <1>5, <3>1
    <3> QED
      BY <3>2 DEF NoJob
  <2>9. /\ recon[r].status # "absent" /\ job[r].state # "none"
        /\ "absent" \notin Active
    BY <2>2, <2>4, <2>7 DEF NewJob, Active
  <2>10. Carried
    BY <1>7, <2>1, <2>9 DEF Carried
  <2>11. Existing
    BY <2>1, <2>8, <2>9 DEF Existing
  <2>12. Versioned
    BY <2>1, <2>2, <2>3, <2>7 DEF Versioned
  <2> QED
    BY <2>5, <2>10, <2>11, <2>12 DEF Requests
<1>9. Handlers
  BY DEF Init, Handlers, HandlerAt, Exclusive, IdleExec, Holding, Busy, Started
<1> QED
  BY <1>6, <1>8, <1>9, Parts

LEMMA Inductive == IInv /\ [Next]_vars => IInv'
<1> SUFFICES ASSUME IInv, [Next]_vars PROVE IInv'
  OBVIOUS
<1>1. TypeOK' /\ Requests'
  BY TypeInvariant, RequestsInvariant
<1>2. Handlers'
  <2>1. CASE UNCHANGED vars
    BY <2>1, QuietUndisturbed, AllUndisturbed, Parts DEF vars, Quiet
  <2>2. CASE Event
    BY <2>2, EventHandlers
  <2>3. CASE \/ Tick
             \/ \E kind \in Delivery : Deliver(kind) \/ LoseDelivery(kind)
             \/ \E r \in SyncRequest : LeaseExpires(r) \/ LoseJob(r)
    BY <2>3, EnvironmentHandlers
  <2>4. ASSUME NEW w \in Worker, Progress(w) \/ Scan(w) \/ Trouble(w) PROVE Handlers'
    BY <2>4, WorkerHandlers
  <2> QED
    BY <2>1, <2>2, <2>3, <2>4 DEF Next
<1> QED
  BY <1>1, <1>2, Parts, PTL

LEMMA Invariant == Spec => []IInv
<1> QED
  BY Initially, Inductive, PTL DEF Spec

(* However claims, supersessions, new configurations and recoveries interleave, one   *)
(* reconciliation and one incremental request of each type wait at most               *)
(* (queueRepositoryInitialSync, queueRepositoryIncrementalSync).                      *)
THEOREM OneWaits == Spec => []OneQueued
<1>1. IInv => OneQueued
  BY DEF IInv
<1> QED
  BY <1>1, Invariant, PTL

(* What a reconciliation has claimed stays true until it commits or gives up, whoever *)
(* configures, deletes, recovers or handles other requests in between                 *)
(* (claimSynchronization).                                                            *)
THEOREM ClaimsHold == Spec => []ClaimHolds
<1>1. IInv => ClaimHolds
  BY DEF IInv
<1> QED
  BY <1>1, Invariant, PTL

(* Every active request has its job, or had one that was lost, through every crash    *)
(* between two statements (queueRepositoryInitialSync, recoverRepositorySyncJobs).    *)
THEOREM AllCarried == Spec => []RequestsCarried
<1>1. IInv => RequestsCarried
  BY DEF IInv, RequestsCarried
<1> QED
  BY <1>1, Invariant, PTL

(* No transaction touches a request that has ended.                                   *)
LEMMA EndedStay ==
  ASSUME IInv, [Next]_vars
  PROVE  /\ \A r \in Reconciliation :
              recon[r].status \in Terminal => recon'[r].status = recon[r].status
         /\ \A i \in Incremental :
              incr[i].status \in Terminal => incr'[i].status = incr[i].status
<1>1. CASE UNCHANGED <<recon, incr>>
  BY <1>1
<1>2. ASSUME NEW R, NEW I, NEW configuration, ReconMoves(R, configuration) \/ UNCHANGED recon,
             IncrMoves(I) \/ UNCHANGED incr
      PROVE  /\ \A r \in Reconciliation :
                  recon[r].status \in Terminal => recon'[r].status = recon[r].status
             /\ \A i \in Incremental :
                  incr[i].status \in Terminal => incr'[i].status = incr[i].status
  BY <1>2 DEF ReconMoves, IncrMoves
<1>3. CASE Event
  BY <1>1, <1>2, <1>3, EventMoves DEF Quiet, LockedMove
<1>4. CASE Tick \/ \E r \in SyncRequest : LeaseExpires(r) \/ LoseJob(r)
  BY <1>1, <1>4 DEF Tick, LeaseExpires, LoseJob
<1>5. ASSUME NEW kind \in Delivery, Deliver(kind) \/ LoseDelivery(kind)
      PROVE  /\ UNCHANGED recon
             /\ \A i \in Incremental :
                  incr[i].status \in Terminal => incr'[i].status = incr[i].status
  BY <1>5, DeliverMoves DEF Deliver, LoseDelivery, StoredIncr
<1>6. ASSUME NEW w \in Worker, Progress(w) \/ Scan(w) \/ Trouble(w)
      PROVE  \/ \E R, I : /\ ReconMoves(R, project.configuration) \/ UNCHANGED recon
                          /\ IncrMoves(I) \/ UNCHANGED incr
             \/ UNCHANGED <<recon, incr>>
  <2>1. CASE RecoverIncrementals(w)
    BY <2>1, RecoveryMoves DEF RecoverIncrementals
  <2>2. CASE ~RecoverIncrementals(w)
    BY <1>6, <2>2, WorkerMoves DEF WorkerMove
  <2> QED
    BY <2>1, <2>2
<1>7. CASE \E w \in Worker : Progress(w) \/ Scan(w) \/ Trouble(w)
  BY <1>1, <1>2, <1>6, <1>7
<1>8. CASE UNCHANGED vars
  BY <1>1, <1>8 DEF vars
<1> QED
  BY <1>3, <1>4, <1>5, <1>7, <1>8 DEF Next

(* Only a new configuration and an applied snapshot move the heads of the projection. *)
LEMMA HeadsMove ==
  ASSUME IInv, [Next]_vars, project'.configuration = project.configuration,
         project'.heads < project.heads
  PROVE  \E w \in Worker, unknown \in BOOLEAN : ApplySnapshot(w, unknown)
<1>1. project \in Project /\ project.heads \in Nat /\ project.configuration \in Nat
  BY DEF IInv, TypeOK, Project, Heads
<1>2. project'.heads # project.heads
  BY <1>1
<1>3. ~Event
  <2>1. ASSUME NEW heads \in Heads, Push(heads) PROVE FALSE
    BY <1>2, <2>1 DEF Push
  <2>2. ~ConfigureBranches
    <3> SUFFICES ASSUME ConfigureBranches PROVE FALSE
      OBVIOUS
    <3>1. project' = [project EXCEPT !.status = "initializing", !.heads = validated,
                        !.configuration = project.configuration + 1, !.synced = 0]
      BY DEF ConfigureBranches
    <3>2. project'.configuration = project.configuration + 1
      BY <1>1, <3>1 DEF Project
    <3> QED
      BY <1>1, <3>2
  <2>3. ~OverrideRequiredChecks /\ ~RequestDeletion
    BY <1>1, <1>2 DEF OverrideRequiredChecks, RequestDeletion, Project
  <2> QED
    BY <1>2, <2>1, <2>2, <2>3
    DEF Event, MergePullRequest, UnsuspendInstallation, ReconcileManually, ValidateTopology
<1>4. ASSUME NEW w \in Worker, Progress(w) \/ Scan(w) \/ Trouble(w)
      PROVE  \E unknown \in BOOLEAN : ApplySnapshot(w, unknown)
  <2>1. ~(Scan(w) \/ Trouble(w))
    BY <1>2 DEF Scan, Trouble, Fail, RawFail, Crash
  <2>2. ~(\/ RecoverReconciliations(w) \/ RecoverIncrementals(w) \/ ReconcileRecovered(w)
          \/ Acknowledge(w) \/ Retry(w) \/ \E r \in SyncRequest : Take(w, r))
    BY <1>2 DEF RecoverReconciliations, RecoverIncrementals, ReconcileRecovered, Acknowledge,
                Retry, Take
  <2>3. ASSUME NEW status \in {"degraded", "disconnected"}
        PROVE  ~MarkReconciliationFailed(w, status) /\ ~MarkIncrementalFailed(w, status)
    BY <1>1, <1>2 DEF MarkReconciliationFailed, MarkIncrementalFailed, Project
  <2>4. ~Archive(w) /\ ~CommitObserved(w)
    BY <1>1, <1>2 DEF Archive, CommitObserved, Project
  <2> QED
    BY <1>2, <1>4, <2>1, <2>2, <2>3, <2>4
    DEF Progress, Handle, ClaimReconciliation, ObserveReconciliation, Verify, Supersede,
        ClaimIncremental, ObserveIncremental, Finish
<1>5. ~UNCHANGED vars /\ ~Tick
  BY <1>2 DEF vars, Tick
<1>6. ASSUME NEW kind \in Delivery PROVE ~Deliver(kind) /\ ~LoseDelivery(kind)
  BY <1>2 DEF Deliver, LoseDelivery
<1>7. ASSUME NEW r \in SyncRequest PROVE ~LeaseExpires(r) /\ ~LoseJob(r)
  BY <1>2 DEF LeaseExpires, LoseJob
<1> QED
  BY <1>3, <1>4, <1>5, <1>6, <1>7 DEF Next

LEMMA Rewrites ==
  ASSUME IInv, [Next]_vars, project'.configuration = project.configuration,
         project'.heads < project.heads
  PROVE  \E r \in archived : recon[r].status = "running" /\ recon'[r].status = "succeeded"
<1>1. PICK w \in Worker, unknown \in BOOLEAN : ApplySnapshot(w, unknown)
  BY HeadsMove
<1> DEFINE r == exec[w].request
<1>2. /\ project \in Project /\ exec[w] \in Execution /\ recon \in [Reconciliation -> Recon]
      /\ exec[w].pc = "apply"
  BY <1>1 DEF IInv, TypeOK, ApplySnapshot
<1>3. Reconciles(w) /\ r \in Reconciliation
  BY <1>2 DEF IInv, HandlersApart, Reconciles
<1>4. recon[r].status = "running" /\ Current(w) /\ project.heads = exec[w].claim.previous
  BY <1>2, <1>3 DEF IInv, ClaimHolds, Holding
<1>5. /\ project'.heads = exec[w].claim.heads
      /\ recon' = [recon EXCEPT ![r].status = "succeeded", ![r].heads = exec[w].claim.heads]
  BY <1>1, <1>2, <1>4 DEF ApplySnapshot, Project
<1>6. Destructive(w)
  BY <1>4, <1>5 DEF Destructive
<1>7. r \in archived
  BY <1>2, <1>6 DEF IInv, ArchivedFirst
<1>8. recon'[r].status = "succeeded"
  BY <1>2, <1>3, <1>5 DEF Recon
<1> QED
  BY <1>4, <1>7, <1>8

(* A request that ended stays what it is, and the heads of a projection go back only  *)
(* after the reconciliation that moves them archived that projection                  *)
(* (persistDestructiveProjectionArchive, applyRepositoryProjection).                  *)
THEOREM HistoryKept == Spec => HistoryStands
<1> DEFINE stays == /\ \A r \in Reconciliation :
                         recon[r].status \in Terminal => recon'[r].status = recon[r].status
                    /\ \A i \in Incremental :
                         incr[i].status \in Terminal => incr'[i].status = incr[i].status
           rewrites == project'.heads < project.heads
                         /\ project'.configuration = project.configuration =>
                       \E r \in archived : recon[r].status = "running"
                                             /\ recon'[r].status = "succeeded"
<1>1. IInv /\ [Next]_vars => [stays]_vars
  BY EndedStay
<1>2. IInv /\ [Next]_vars => [rewrites]_vars
  BY Rewrites
<1> HIDE DEF stays, rewrites
<1>3. Spec => [][stays]_vars /\ [][rewrites]_vars
  BY <1>1, <1>2, Invariant, PTL DEF Spec
<1> QED
  BY <1>3 DEF HistoryStands, TerminalStays, RewritesArchived, stays, rewrites
==============================================================================
