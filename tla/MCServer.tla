-------------------------------- MODULE MCServer --------------------------------
(***************************************************************************)
(* What the processes of the server share, for TLC, in six parts: the      *)
(* life of a process; handlers of one repository on a pool that is large   *)
(* enough for them to contend for the lock; imports of webhooks on a pool  *)
(* that is too small for them; the sessions of a user; the clients of an   *)
(* installation; and two jobs, with a payload for each way attempts end.   *)
(* The modules that are not chosen stay in their initial states.           *)
(***************************************************************************)
EXTENDS Server

CONSTANT SmallPool

VARIABLE part

mcvars == <<vars, pvars, uvars, ivars, jvars, part>>

Imports == INSTANCE RepositoryLock
             WITH Plain <- Import, Import <- Plain, Connection <- SmallPool, MaxAttempts <- 2

\* Two orders of the same repositories, and another list.
MCLists == {<<1, 2>>, <<2, 1, 2>>, <<1>>}

MCAsks ==
  {[outcome |-> "success", until |-> 0], [outcome |-> "permanent", until |-> 0],
   [outcome |-> "invalid", until |-> 0], [outcome |-> "retryable", until |-> 0],
   [outcome |-> "retryable", until |-> 1]}

MCInit ==
  /\ part \in {"process", "lock", "imports", "sessions", "clients", "jobs"}
  /\ IF part = "imports" THEN Imports!Init ELSE Init
  /\ Process!Init /\ (part # "process" => kind = "api")
  /\ Sessions!Init /\ Clients!Init /\ Jobs!Init

LockStep == Next /\ UNCHANGED <<pvars, uvars, ivars, jvars, part>>
ImportsStep == Imports!Next /\ UNCHANGED <<pvars, uvars, ivars, jvars, part>>
ProcessStep == Process!Next /\ UNCHANGED <<vars, uvars, ivars, jvars, part>>
SessionsStep == Sessions!Next /\ UNCHANGED <<vars, pvars, ivars, jvars, part>>
ClientsStep == Clients!Next /\ UNCHANGED <<vars, pvars, uvars, jvars, part>>
JobsStep == Jobs!Next /\ UNCHANGED <<vars, pvars, uvars, ivars, part>>

MCNext ==
  \/ part = "lock" /\ LockStep
  \/ part = "imports" /\ ImportsStep
  \/ part = "process" /\ ProcessStep
  \/ part = "sessions" /\ SessionsStep
  \/ part = "clients" /\ ClientsStep
  \/ part = "jobs" /\ JobsStep

MCFairness ==
  /\ \A h \in Handler : WF_mcvars(part = "lock" /\ Step(h) /\ UNCHANGED <<pvars, uvars, ivars, jvars, part>>)
  /\ \A h \in Handler : WF_mcvars(part = "imports" /\ Imports!Step(h) /\ UNCHANGED <<pvars, uvars, ivars, jvars, part>>)
  /\ WF_mcvars(/\ part = "process"
               /\ Process!Start \/ (Process!StartFails /\ pool # "open")
               /\ UNCHANGED <<vars, uvars, ivars, jvars, part>>)
  /\ WF_mcvars(part = "process" /\ Process!Run /\ UNCHANGED <<vars, uvars, ivars, jvars, part>>)
  /\ WF_mcvars(part = "process" /\ Process!StopLateWorker /\ UNCHANGED <<vars, uvars, ivars, jvars, part>>)
  /\ WF_mcvars(part = "process" /\ Process!EndWork /\ UNCHANGED <<vars, uvars, ivars, jvars, part>>)
  /\ WF_mcvars(part = "process" /\ Process!Deadline /\ UNCHANGED <<vars, uvars, ivars, jvars, part>>)
  /\ \A c \in Caller :
       WF_mcvars(part = "clients" /\ Clients!CallerStep(c) /\ UNCHANGED <<vars, pvars, uvars, jvars, part>>)
  /\ \A a \in Slot :
       WF_mcvars(part = "clients" /\ Clients!AttemptStep(a) /\ UNCHANGED <<vars, pvars, uvars, jvars, part>>)
  /\ \A j \in Job :
       /\ WF_mcvars(part = "jobs" /\ Jobs!Take(j) /\ UNCHANGED <<vars, pvars, uvars, ivars, part>>)
       /\ WF_mcvars(part = "jobs" /\ Jobs!Attempts(j) /\ UNCHANGED <<vars, pvars, uvars, ivars, part>>)
       /\ WF_mcvars(part = "jobs" /\ Jobs!LockExpires(j) /\ UNCHANGED <<vars, pvars, uvars, ivars, part>>)

MCSpec == MCInit /\ [][MCNext]_mcvars /\ MCFairness

\* Handlers that wait for connections and for the lock come to an end, a process that was
\* told to end does, whatever hangs, and every job that was queued shows how it ended,
\* unless a fault hit its last attempt.
WorkEnds ==
  <>[](/\ part \in {"lock", "imports"} => \A h \in Handler : pc[h] \in {"done", "failed"}
       /\ signalled => exited
       /\ \A j \in Job : asked[j] # Jobs!Nothing =>
            shadow[j].status \in Jobs!Final \/ 2 \in hit[j])

\* Callers keep getting clients, in the end only working ones, and those that list the same
\* repositories share one token request at a time.
ClientsServed ==
  /\ \A c \in Caller : []<>(part = "clients" => caller[c].pc = "using")
  /\ <>[](\A c \in Caller : caller[c].pc = "using" => caller[c].client.epoch = epoch)
  /\ [](part = "clients" => Clients!TypeOK /\ Clients!OneRequestPerKey)
=============================================================================
