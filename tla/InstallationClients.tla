-------------------------- MODULE InstallationClients --------------------------
(***************************************************************************)
(* The clients of one installation that a process hands to its jobs and    *)
(* requests (auth-provider.ts, client.ts).  A client holds a token for a   *)
(* set of repositories; concurrent callers share one token request, and an *)
(* invalidation (a 401 of any client, or a verification of access that     *)
(* fails) drops every client.                                              *)
(* Invalid scopes are refused before anything else and are left out, as    *)
(* are the permissions: every caller asks for the default ones.            *)
(***************************************************************************)
EXTENDS Naturals, FiniteSets

CONSTANTS Caller,
          Slot,        \* token requests that may be in flight
          Lists,       \* the repositories callers list, in any order
          None,
          MaxRevoked,  \* bound on the times GitHub revokes the tokens
          MaxDenials,  \* bound on verifications that fail
          MaxDue,      \* bound on clients that come near their expiry
          MaxFaults    \* bound on failing token requests

VARIABLES app,       \* #appClient is usable
          cached,    \* #installationClients
          due,       \* the cached clients past usableUntil
          keys,      \* #installationCacheKeys
          pending,   \* #installationClientPromises
          gen,       \* #installationGenerations
          making,   \* executions of #createInstallationClient
          caller,
          epoch,     \* GitHub: tokens of an earlier epoch are revoked
          denials,   \* verifications of access that failed
          dues, failures

vars == <<app, cached, due, keys, pending, gen, making, caller, epoch, denials, dues, failures>>

(* normalizeInstallationScope: order and repetition make no difference. *)
Key(list) == {list[i] : i \in DOMAIN list}
Keys == {Key(list) : list \in Lists}

Free == [pc |-> "free", key |-> {}, gen |-> 0, epoch |-> 0]
Idle == [pc |-> "idle", on |-> None, client |-> None]
Using(client) == [pc |-> "using", on |-> None, client |-> client]
Rejected == [pc |-> "rejected", on |-> None, client |-> None]
-----------------------------------------------------------------------------
(* getInstallationClient *)

Usable(k) == cached[k] # None /\ k \notin due

AskCached(c, k) ==
  /\ caller[c].pc = "idle" /\ Usable(k)
  /\ caller' = [caller EXCEPT ![c] = Using(cached[k])]
  /\ UNCHANGED <<app, cached, due, keys, pending, gen, making, epoch, denials, dues, failures>>

Waits(c, a) == caller' = [caller EXCEPT ![c] = [pc |-> "waiting", on |-> a, client |-> None]]

AskJoin(c, k) ==
  /\ caller[c].pc = "idle" /\ ~Usable(k) /\ pending[k] # None
  /\ Waits(c, pending[k])
  /\ UNCHANGED <<app, cached, due, keys, pending, gen, making, epoch, denials, dues, failures>>

FreeSlots == {a \in Slot : making[a].pc = "free"}

AskCreate(c, k) ==
  /\ caller[c].pc = "idle" /\ ~Usable(k) /\ pending[k] = None /\ FreeSlots # {}
  /\ LET a == CHOOSE x \in FreeSlots : TRUE
     IN  /\ making' = [making EXCEPT ![a] = [Free EXCEPT !.pc = "app", !.key = k, !.gen = gen]]
         /\ pending' = [pending EXCEPT ![k] = a]
         /\ Waits(c, a)
  /\ UNCHANGED <<app, cached, due, keys, gen, epoch, denials, dues, failures>>

Ask(c) == \E list \in Lists : AskCached(c, Key(list)) \/ AskJoin(c, Key(list)) \/ AskCreate(c, Key(list))

(* getAppClient: the JWT of the app is made when there is none in time. *)
WithApp(a) ==
  /\ making[a].pc = "app"
  /\ app' = TRUE
  /\ making' = [making EXCEPT ![a].pc = "post"]
  /\ UNCHANGED <<cached, due, keys, pending, gen, caller, epoch, denials, dues, failures>>

\* GitHub makes the token.
Mint(a) ==
  /\ making[a].pc = "post"
  /\ making' = [making EXCEPT ![a].pc = "minted", ![a].epoch = epoch]
  /\ UNCHANGED <<app, cached, due, keys, pending, gen, caller, epoch, denials, dues, failures>>

(* removePromiseWhenSettled: only its own promise. *)
Settled(a) ==
  /\ pending' = [k \in Keys |-> IF pending[k] = a THEN None ELSE pending[k]]
  /\ making' = [making EXCEPT ![a] = Free]

Answered(a, what) ==
  caller' = [c \in Caller |-> IF caller[c].pc = "waiting" /\ caller[c].on = a THEN what ELSE caller[c]]

\* Mutant of Create: the client is kept whatever happened meanwhile.
CreateUnchecked(a) ==
  /\ making[a].pc = "minted"
  /\ LET client == [gen |-> making[a].gen, epoch |-> making[a].epoch]
     IN  /\ cached' = [cached EXCEPT ![making[a].key] = client]
         /\ Answered(a, Using(client))
  /\ due' = due \ {making[a].key}
  /\ keys' = keys \cup {making[a].key}
  /\ Settled(a)
  /\ UNCHANGED <<app, gen, epoch, denials, dues, failures>>

\* The token arrives in the generation it was asked for in.
Create(a) ==
  /\ making[a].pc = "minted" /\ making[a].gen = gen
  /\ LET client == [gen |-> gen, epoch |-> making[a].epoch]
     IN  /\ cached' = [cached EXCEPT ![making[a].key] = client]
         /\ Answered(a, Using(client))
  /\ due' = due \ {making[a].key}
  /\ keys' = keys \cup {making[a].key}
  /\ Settled(a)
  /\ UNCHANGED <<app, gen, epoch, denials, dues, failures>>

\* Mutant of Reject: a promise that was rejected stays pending.
RejectKept(a) ==
  /\ making[a].pc = "minted" /\ making[a].gen # gen
  /\ Answered(a, Rejected)
  /\ UNCHANGED <<app, cached, due, keys, gen, epoch, denials, dues, failures, pending, making>>

\* The installation was invalidated while its token was being created.
Reject(a) ==
  /\ making[a].pc = "minted" /\ making[a].gen # gen
  /\ Answered(a, Rejected)
  /\ Settled(a)
  /\ UNCHANGED <<app, cached, due, keys, gen, epoch, denials, dues, failures>>

\* The token request fails and is not retried; a 401 drops the client of the app.
PostFails(a) ==
  /\ making[a].pc = "post" /\ failures < MaxFaults
  /\ failures' = failures + 1
  /\ app' \in {app, FALSE}
  /\ Answered(a, Rejected)
  /\ Settled(a)
  /\ UNCHANGED <<cached, due, keys, gen, epoch, denials, dues>>

(* invalidateInstallation *)
Invalidate ==
  /\ gen' = gen + 1
  /\ cached' = [k \in Keys |-> IF k \in keys THEN None ELSE cached[k]]
  /\ pending' = [k \in Keys |-> IF k \in keys THEN None ELSE pending[k]]
  /\ due' = due \ keys
  /\ keys' = {}

\* A request of a client succeeds, or is refused with 401 and first reported.
Use(c) ==
  /\ caller[c].pc = "using"
  /\ caller' = [caller EXCEPT ![c] = IF caller[c].client.epoch = epoch THEN Idle
                                     ELSE [Rejected EXCEPT !.pc = "refused"]]
  /\ UNCHANGED <<app, cached, due, keys, pending, gen, making, epoch, denials, dues, failures>>

Unauthorized(c) ==
  /\ caller[c].pc = "refused"
  /\ Invalidate
  /\ caller' = [caller EXCEPT ![c] = Rejected]
  /\ UNCHANGED <<app, making, epoch, denials, dues, failures>>

\* The job that was rejected is tried again.
Again(c) ==
  /\ caller[c].pc = "rejected"
  /\ caller' = [caller EXCEPT ![c] = Idle]
  /\ UNCHANGED <<app, cached, due, keys, pending, gen, making, epoch, denials, dues, failures>>

\* GitHub revokes every token (a suspension, an uninstallation, new permissions).
Revoke ==
  /\ epoch < MaxRevoked
  /\ epoch' = epoch + 1
  /\ UNCHANGED <<app, cached, due, keys, pending, gen, making, caller, denials, dues, failures>>

\* The verification of somebody's access meets a 401 or a 403.
VerificationFails ==
  /\ denials < MaxDenials
  /\ denials' = denials + 1
  /\ Invalidate
  /\ UNCHANGED <<app, making, caller, epoch, dues, failures>>

\* A client, or the app's, comes near its expiry.
ComeDue ==
  /\ dues < MaxDue
  /\ dues' = dues + 1
  /\ \/ \E k \in Keys : cached[k] # None /\ due' = due \cup {k} /\ UNCHANGED app
     \/ app' = FALSE /\ UNCHANGED due
  /\ UNCHANGED <<cached, keys, pending, gen, making, caller, epoch, denials, failures>>
-----------------------------------------------------------------------------
Init ==
  /\ app = FALSE /\ cached = [k \in Keys |-> None] /\ due = {} /\ keys = {}
  /\ pending = [k \in Keys |-> None] /\ gen = 0
  /\ making = [a \in Slot |-> Free] /\ caller = [c \in Caller |-> Idle]
  /\ epoch = 0 /\ denials = 0 /\ dues = 0 /\ failures = 0

CallerStep(c) == Ask(c) \/ Use(c) \/ Unauthorized(c) \/ Again(c)
AttemptStep(a) == WithApp(a) \/ Mint(a) \/ Create(a) \/ Reject(a)

Next ==
  \/ \E c \in Caller : CallerStep(c)
  \/ \E a \in Slot : AttemptStep(a) \/ PostFails(a)
  \/ Revoke \/ VerificationFails \/ ComeDue

Spec ==
  /\ Init /\ [][Next]_vars
  /\ \A c \in Caller : WF_vars(CallerStep(c))
  /\ \A a \in Slot : WF_vars(AttemptStep(a))
-----------------------------------------------------------------------------
(* Properties *)

\* The clients kept, due and handed out have their types, and what is kept is tracked.
TypeOK ==
  /\ due \subseteq {k \in Keys : cached[k] # None} /\ keys = {k \in Keys : cached[k] # None}
  /\ \A k \in Keys : pending[k] \in Slot \cup {None}
  /\ \A c \in Caller : caller[c].pc \in {"idle", "waiting", "using", "refused", "rejected"}
  /\ \A a \in Slot : making[a].pc \in {"free", "app", "post", "minted"}

\* However token requests, invalidations and callers interleave, no client that was asked
\* for before an invalidation is handed out after it.
HandedOutIsCurrent ==
  [][\A c \in Caller :
       caller[c].pc # "using" /\ caller'[c].pc = "using" => caller'[c].client.gen = gen']_vars

\* Callers that list the same repositories share one token request at a time.
OneRequestPerKey ==
  \A a, b \in Slot :
    a # b /\ making[a].pc # "free" /\ making[b].pc # "free" /\ making[a].gen = making[b].gen =>
      making[a].key # making[b].key

\* A caller that keeps asking keeps getting clients, and in the end only working ones: no
\* rejected promise, cached client or late invalidation stands in the way for ever.
ClientsServed ==
  /\ \A c \in Caller : []<>(caller[c].pc = "using")
  /\ <>[](\A c \in Caller : caller[c].pc = "using" => caller[c].client.epoch = epoch)
=============================================================================
