--------------------------- MODULE UserAuthorization ---------------------------
(***************************************************************************)
(* One GitHub user's authorization: the credentials row with its version   *)
(* and refresh lease, the clients every process caches, the login and      *)
(* disconnect routes, and the sessions that hang on the credentials row.   *)
(*                                                                         *)
(* A token is an access token and the refresh token issued with it.  The   *)
(* generation of a user in a process is only ever compared with the one a  *)
(* resolution started with, so it is modelled by that comparison: a        *)
(* resolution is current until the generation advances.                    *)
(***************************************************************************)
EXTENDS Integers, FiniteSets

CONSTANTS Process,    \* the processes of the application
          Resolution, \* calls of #resolveUserClient that can run at once
          Login,      \* browsers that can log in; also the ids of their sessions
          NoOne,      \* no lease, no resolution joined
          Lost,       \* the holder of a lease whose process died
          MaxToken,   \* bound on the tokens GitHub issues
          MaxFaults,  \* bound on the faults
          Scenarios   \* a behaviour has the events, tokens and calls of one of them

ASSUME AuthorizationAssumption ==
  /\ MaxToken \in Nat \ {0} /\ MaxFaults \in Nat /\ Login # {}
  /\ Scenarios \subseteq [events : SUBSET {"login", "disconnect", "unauthorized", "revoked",
                                         "expired", "answers", "crash"},
                         tokens : 1 .. MaxToken, calls : SUBSET Resolution]
  /\ NoOne \notin Resolution /\ Lost \notin Resolution /\ NoOne # Lost

VARIABLES scenario, \* what happens in this behaviour
          cred,     \* github_user_credentials: a set of at most one row
          sessions, \* sessions rows that are neither revoked nor expired
          token,    \* what GitHub knows of each token
          age,      \* how near a token is to its expiry
          issued,   \* number of tokens issued
          cache,    \* #userClients, by process: a set of at most one token
          force,    \* #forceUserRefresh, by process
          res,      \* the resolutions
          login,    \* the callbacks of /auth/github/callback
          disc,     \* the handler of /auth/disconnect
          faults,   \* faults so far
          lost      \* history: tokens whose successor never reached the row

vars == <<scenario, cred, sessions, token, age, issued, cache, force, res, login, disc,
          faults, lost>>
-----------------------------------------------------------------------------
Token == 1 .. MaxToken
Row == [ver : Nat, tok : Token, lease : Resolution \cup {NoOne, Lost}, over : BOOLEAN]
Outcome == {"ok", "notFound", "reauthorize", "failed"}
Ended == Outcome \cup {"idle"}
Busy == {"load", "decide", "lease", "wait", "github", "commit", "recheck",
         "release", "revoke", "delete"}

Resolving == [phase : Ended \cup Busy, proc : Process \cup {NoOne}, current : BOOLEAN, listed : BOOLEAN,
              polled : BOOLEAN, bad : BOOLEAN, ver : Nat, tok : Token \cup {0},
              got : Token \cup {0}]
Callback == [phase : {"idle", "attempt", "exchange", "upsert", "adopt", "session",
                      "revoke", "delete", "sessions", "done"},
             proc : Process \cup {NoOne}, tok : Token \cup {0}]
Disconnecting == [phase : {"idle", "joined", "load", "grant", "revoke", "delete", "done"},
                  proc : Process \cup {NoOne}, join : Resolution \cup {NoOne}]

Happens(e) == e \in scenario.events
Fault(e) == Happens(e) /\ faults < MaxFaults /\ faults' = faults + 1
Live(t) == token[t] = "live" /\ age[t] # "expired"
Joined(r) == disc.phase = "joined" /\ disc.join = r

Blank == [phase |-> "idle", proc |-> NoOne, current |-> FALSE,
          listed |-> FALSE, polled |-> FALSE, bad |-> FALSE, ver |-> 0, tok |-> 0, got |-> 0]

\* A resolution ends, with an outcome if somebody waits for it.
End(r, outcome) ==
  [res EXCEPT ![r] = [Blank EXCEPT !.phase = IF Joined(r) THEN outcome ELSE "idle"]]

\* The user's generation advances in process p and its promise is forgotten.
Forget(p, resolutions) ==
  [r \in Resolution |-> IF resolutions[r].proc = p
                        THEN [resolutions[r] EXCEPT !.current = FALSE, !.listed = FALSE]
                        ELSE resolutions[r]]

\* Deleting the credentials deletes the sessions with them (on delete cascade).
DeleteCredentials == cred' = {} /\ sessions' = {}

\* GitHub issues a token.
Issue(t) ==
  /\ issued < scenario.tokens
  /\ t = issued + 1
  /\ issued' = t
-----------------------------------------------------------------------------
(* getUserClient and #resolveUserClient *)

Cached(p) == ~force[p] /\ \E t \in cache[p] : age[t] = "fresh"

NewResolution(r, p) ==
  /\ r \in scenario.calls /\ res[r].phase \in Ended /\ ~Joined(r)
  /\ \A q \in Resolution : ~(res[q].listed /\ res[q].proc = p)
  /\ res' = [res EXCEPT ![r] = [Blank EXCEPT !.phase = "load", !.proc = p,
                                            !.current = TRUE, !.listed = TRUE]]

\* A request asks process p for the user's client and finds none to use.
GetUserClient(r, p) ==
  /\ ~Cached(p)
  /\ NewResolution(r, p)
  /\ UNCHANGED <<cred, sessions, token, age, issued, cache, force, login,
                 disc, faults, lost>>

\* The row is read: before the first decision and after every wait for another's lease.
Load(r) ==
  /\ res[r].phase \in {"load", "wait"}
  /\ \/ cred = {} /\ res' = End(r, "notFound")
     \/ \E row \in cred :
          res' = [res EXCEPT ![r] = [@ EXCEPT !.phase = "decide", !.ver = row.ver, !.tok = row.tok,
                                              !.polled = res[r].polled /\ row.ver = res[r].ver]]
  /\ UNCHANGED <<cred, sessions, token, age, issued, cache, force, login,
                 disc, faults, lost>>

\* The client of token t is cached, unless the user was invalidated meanwhile.
CacheUserClient(r, t) ==
  LET p == res[r].proc
  IN /\ force' = [force EXCEPT ![p] = FALSE]
     /\ cache' = IF res[r].current THEN [cache EXCEPT ![p] = {t}] ELSE cache
     /\ res' = End(r, IF res[r].current THEN "ok" ELSE "failed")

MustRefreshUserToken(p, t) == force[p] \/ age[t] # "fresh"

\* The loaded row is used as it is, or its token is due for a refresh; after a
\* wait only a row of another version is used.
Decide(r) ==
  /\ res[r].phase = "decide"
  /\ IF res[r].polled \/ MustRefreshUserToken(res[r].proc, res[r].tok)
     THEN /\ res' = [res EXCEPT ![r] =
                       [@ EXCEPT !.phase = IF age[res[r].tok] = "expired" THEN "revoke" ELSE "lease",
                                 !.polled = FALSE]]
          /\ UNCHANGED <<cache, force>>
     ELSE CacheUserClient(r, res[r].tok)
  /\ UNCHANGED <<cred, sessions, token, age, issued, login, disc, faults, lost>>

\* A lease can be taken for the version read, when none is held or it has expired.
Leasable(r, row) == row.ver = res[r].ver /\ (row.lease = NoOne \/ row.over)

TryAcquireRefreshLease(r) ==
  /\ res[r].phase = "lease"
  /\ \/ /\ cred = {}
        /\ res' = End(r, "notFound")
        /\ UNCHANGED cred
     \/ \E row \in cred :
          /\ Leasable(r, row)
          /\ cred' = {[row EXCEPT !.lease = r, !.over = FALSE]}
          /\ res' = [res EXCEPT ![r].phase = "github"]
     \/ \E row \in cred :
          /\ ~Leasable(r, row)
          /\ res' = [res EXCEPT ![r] = [@ EXCEPT !.phase = "wait", !.polled = TRUE]]
          /\ UNCHANGED cred
  /\ UNCHANGED <<sessions, token, age, issued, cache, force, login, disc,
                 faults, lost>>

\* Mutant of StopWaiting: the deadline is computed anew at every poll, and never met.
StopWaitingNever(r) == res[r].phase = "wait" /\ res[r].ver < 0 /\ UNCHANGED vars

\* The wait for another process's refresh passes its deadline.
StopWaiting(r) ==
  /\ res[r].phase = "wait"
  /\ res' = End(r, "failed")
  /\ UNCHANGED <<cred, sessions, token, age, issued, cache, force, login,
                 disc, faults, lost>>
-----------------------------------------------------------------------------
(* #refreshUserTokenUnderLease *)

Rotate(t) ==
  \E n \in Token :
    /\ Issue(n)
    /\ token' = [token EXCEPT ![t] = "rotated", ![n] = "live"]

\* GitHub answers the refresh: with a new token, with bad_refresh_token, with
\* another error (and always when the bound on tokens is reached), or with a new
\* token whose answer is lost.
RefreshUserToken(r) ==
  /\ res[r].phase = "github"
  /\ \/ /\ Live(res[r].tok) /\ Rotate(res[r].tok)
        /\ res' = [res EXCEPT ![r] = [@ EXCEPT !.phase = "commit", !.got = issued']]
        /\ UNCHANGED <<faults, lost>>
     \/ /\ ~Live(res[r].tok)
        /\ res' = [res EXCEPT ![r] = [@ EXCEPT !.phase = "release", !.bad = TRUE]]
        /\ UNCHANGED <<token, issued, faults, lost>>
     \/ /\ IF issued = scenario.tokens THEN UNCHANGED faults ELSE Fault("answers")
        /\ res' = [res EXCEPT ![r].phase = "release"]
        /\ UNCHANGED <<token, issued, lost>>
     \/ /\ Fault("answers")
        /\ Live(res[r].tok) /\ Rotate(res[r].tok)
        /\ lost' = lost \cup {res[r].tok}
        /\ res' = [res EXCEPT ![r].phase = "release"]
  /\ UNCHANGED <<cred, sessions, age, cache, force, login, disc>>

CompleteRefresh(r) ==
  /\ res[r].phase = "commit"
  /\ \/ \E row \in cred :
          /\ row.ver = res[r].ver /\ row.lease = r
          /\ cred' = {[ver |-> row.ver + 1, tok |-> res[r].got, lease |-> NoOne, over |-> FALSE]}
          /\ CacheUserClient(r, res[r].got)
          /\ UNCHANGED <<faults, lost>>
     \/ /\ ~\E row \in cred : row.ver = res[r].ver /\ row.lease = r
        /\ res' = [res EXCEPT ![r].phase = "recheck"]
        /\ UNCHANGED <<cred, cache, force, faults, lost>>
     \/ /\ Fault("answers")
        /\ res' = [res EXCEPT ![r].phase = "release"]
        /\ lost' = lost \cup {res[r].tok}
        /\ UNCHANGED <<cred, cache, force>>
  /\ UNCHANGED <<sessions, token, age, issued, login, disc>>

\* The row was replaced or deleted while GitHub rotated the token.
Recheck(r) ==
  /\ res[r].phase = "recheck"
  /\ \/ \E row \in cred : row.ver # res[r].ver /\ CacheUserClient(r, row.tok)
     \/ /\ ~\E row \in cred : row.ver # res[r].ver
        /\ res' = [res EXCEPT ![r].phase = "release"]
        /\ UNCHANGED <<cache, force>>
  /\ UNCHANGED <<cred, sessions, token, age, issued, login, disc, faults, lost>>

\* Mutant of Releases: a refresh that failed releases the lease whoever holds it.
ReleasesAny(r, row) == row.ver = res[r].ver

Releases(r, row) == row.ver = res[r].ver /\ row.lease = r

ReleaseRefreshLease(r) ==
  /\ res[r].phase = "release"
  /\ cred' = {IF Releases(r, row) THEN [row EXCEPT !.lease = NoOne, !.over = FALSE] ELSE row
              : row \in cred}
  /\ res' = IF res[r].bad THEN [res EXCEPT ![r].phase = "revoke"] ELSE End(r, "failed")
  /\ UNCHANGED <<sessions, token, age, issued, cache, force, login, disc,
                 faults, lost>>

\* revokeUser forgets the user in its process and then deletes the row, whatever
\* the row holds by then.
RevokeUser(p) ==
  /\ cache' = [cache EXCEPT ![p] = {}]
  /\ force' = [force EXCEPT ![p] = FALSE]

RevokeRefused(r) ==
  /\ res[r].phase = "revoke"
  /\ RevokeUser(res[r].proc)
  /\ res' = [Forget(res[r].proc, res) EXCEPT ![r].phase = "delete"]
  /\ UNCHANGED <<cred, sessions, token, age, issued, login, disc, faults, lost>>

DeleteRefused(r) ==
  /\ res[r].phase = "delete"
  /\ DeleteCredentials
  /\ res' = End(r, "reauthorize")
  /\ UNCHANGED <<token, age, issued, cache, force, login, disc, faults, lost>>
-----------------------------------------------------------------------------
(* Invalidation *)

\* A client of a token that GitHub no longer accepts is used: onUnauthorized.
InvalidateUser(p) ==
  /\ Happens("unauthorized") /\ \E t \in 1 .. issued : ~Live(t)
  /\ cache[p] # {} \/ \E r \in Resolution : res[r].proc = p /\ res[r].current
  /\ cache' = [cache EXCEPT ![p] = {}]
  /\ force' = [force EXCEPT ![p] = TRUE]
  /\ res' = Forget(p, res)
  /\ UNCHANGED <<cred, sessions, token, age, issued, login, disc, faults, lost>>
-----------------------------------------------------------------------------
(* The login routes.  A browser keeps the cookie of its last session. *)

LoginTo(l, phase) == login' = [login EXCEPT ![l].phase = phase]
LoginEnds(l) == login' = [login EXCEPT ![l] = [phase |-> "done", proc |-> NoOne, tok |-> 0]]

\* createOAuthAttempt.
StartLogin(l) ==
  /\ Happens("login") /\ login[l].phase = "idle"
  /\ LoginTo(l, "attempt")
  /\ UNCHANGED <<cred, sessions, token, age, issued, cache, force, res, disc, faults, lost>>

\* The callback consumes the attempt of its state parameter, whatever comes after;
\* an attempt that has expired, or one that was denied on GitHub, ends here.
ConsumeAttempt(l, p) ==
  /\ login[l].phase = "attempt"
  /\ \/ login' = [login EXCEPT ![l] = [phase |-> "exchange", proc |-> p, tok |-> 0]]
     \/ LoginEnds(l)
  /\ UNCHANGED <<cred, sessions, token, age, issued, cache, force, res, disc, faults, lost>>

\* The code is exchanged for a token; before the user is known a failure revokes nobody.
ExchangeAuthorizationCode(l) ==
  /\ login[l].phase = "exchange"
  /\ \/ \E n \in Token :
          /\ Issue(n)
          /\ token' = [token EXCEPT ![n] = "live"]
          /\ login' = [login EXCEPT ![l] = [@ EXCEPT !.phase = "upsert", !.tok = n]]
     \/ LoginEnds(l) /\ UNCHANGED <<token, issued>>
  /\ UNCHANGED <<cred, sessions, age, cache, force, res, disc, faults, lost>>

\* The credentials replace the row and its lease, or start a new row at version 1.
Upserted(t) == {[ver |-> IF cred = {} THEN 1 ELSE (CHOOSE row \in cred : TRUE).ver + 1,
                 tok |-> t, lease |-> NoOne, over |-> FALSE]}
UpsertCredentials(l) ==
  /\ login[l].phase = "upsert"
  /\ cred' = Upserted(login[l].tok)
  /\ LoginTo(l, "adopt")
  /\ UNCHANGED <<sessions, token, age, issued, cache, force, res, disc,
                 faults, lost>>

\* The rest of authorizeUser: what the process knew of the user is replaced.
AuthorizeUser(l) ==
  LET p == login[l].proc
  IN /\ login[l].phase = "adopt"
     /\ cache' = [cache EXCEPT ![p] = {login[l].tok}]
     /\ force' = [force EXCEPT ![p] = FALSE]
     /\ res' = Forget(p, res)
     /\ LoginTo(l, "session")
     /\ UNCHANGED <<cred, sessions, token, age, issued, disc, faults, lost>>

\* Identity and repository access are loaded and the session is created; it
\* references the credentials and replaces the browser's last session.  Any
\* failure takes the way of the revocation.
CreateLoginSession(l) ==
  /\ login[l].phase = "session"
  /\ \/ cred # {} /\ sessions' = sessions \cup {l} /\ LoginEnds(l)
     \/ LoginTo(l, "revoke") /\ UNCHANGED sessions
  /\ UNCHANGED <<cred, token, age, issued, cache, force, res, disc, faults, lost>>

RevokeFailedLogin(l) ==
  /\ login[l].phase = "revoke"
  /\ RevokeUser(login[l].proc)
  /\ res' = Forget(login[l].proc, res)
  /\ LoginTo(l, "delete")
  /\ UNCHANGED <<cred, sessions, token, age, issued, disc, faults, lost>>

DeleteFailedLogin(l) ==
  /\ login[l].phase = "delete"
  /\ DeleteCredentials
  /\ LoginTo(l, "sessions")
  /\ UNCHANGED <<token, age, issued, cache, force, res, disc, faults, lost>>

RevokeUserSessions(l) ==
  /\ login[l].phase = "sessions"
  /\ sessions' = {}
  /\ LoginEnds(l)
  /\ UNCHANGED <<cred, token, age, issued, cache, force, res, disc, faults, lost>>

\* Logout, or the expiry of the session.
EndSession(l) ==
  /\ l \in sessions
  /\ sessions' = sessions \ {l}
  /\ UNCHANGED <<cred, token, age, issued, cache, force, res, login, disc,
                 faults, lost>>

-----------------------------------------------------------------------------
(* disconnectUser, behind the route of a user with a session *)

DiscTo(phase) == disc' = [disc EXCEPT !.phase = phase]
DiscEnds == disc' = [phase |-> "done", proc |-> NoOne, join |-> NoOne]

\* It asks for the user's client, joining the resolution that runs for it.
Disconnect(p) ==
  /\ Happens("disconnect") /\ disc.phase = "idle" /\ sessions # {}
  /\ \/ Cached(p) /\ disc' = [phase |-> "load", proc |-> p, join |-> NoOne] /\ UNCHANGED res
     \/ \E r \in Resolution :
          /\ ~Cached(p)
          /\ disc' = [phase |-> "joined", proc |-> p, join |-> r]
          /\ \/ NewResolution(r, p)
             \/ res[r].listed /\ res[r].proc = p /\ UNCHANGED res
  /\ UNCHANGED <<cred, sessions, token, age, issued, cache, force, login,
                 faults, lost>>

DisconnectResolved ==
  /\ disc.phase = "joined" /\ res[disc.join].phase \in Outcome
  /\ LET outcome == res[disc.join].phase
     IN /\ outcome = "ok" => DiscTo("load")
        /\ outcome \in {"notFound", "reauthorize"} => DiscTo("revoke")
        /\ outcome = "failed" => DiscEnds
  /\ res' = [res EXCEPT ![disc.join] = Blank]
  /\ UNCHANGED <<cred, sessions, token, age, issued, cache, force, login,
                 faults, lost>>

DisconnectLoad ==
  /\ disc.phase = "load"
  /\ DiscTo(IF cred = {} THEN "revoke" ELSE "grant")
  /\ UNCHANGED <<cred, sessions, token, age, issued, cache, force, res, login,
                 faults, lost>>

\* GitHub revokes the grant of the user: every token of it.
RevokeGrant ==
  token' = [t \in Token |-> IF token[t] = "live" THEN "revoked" ELSE token[t]]

RevokeUserAuthorization ==
  /\ disc.phase = "grant"
  /\ \/ RevokeGrant /\ DiscTo("revoke")
     \/ DiscEnds /\ UNCHANGED token
  /\ UNCHANGED <<cred, sessions, age, issued, cache, force, res, login, faults,
                 lost>>

DisconnectRevoke ==
  /\ disc.phase = "revoke"
  /\ RevokeUser(disc.proc)
  /\ res' = Forget(disc.proc, res)
  /\ DiscTo("delete")
  /\ UNCHANGED <<cred, sessions, token, age, issued, login, faults, lost>>

DisconnectDelete ==
  /\ disc.phase = "delete"
  /\ DeleteCredentials
  /\ DiscEnds
  /\ UNCHANGED <<token, age, issued, cache, force, res, login, faults, lost>>
-----------------------------------------------------------------------------
(* GitHub, the clock and the processes *)

\* The user revokes the App on GitHub.
RevokeOnGitHub ==
  /\ Fault("revoked")
  /\ RevokeGrant
  /\ UNCHANGED <<cred, sessions, age, issued, cache, force, res, login, disc, lost>>

\* github_app_authorization.revoked is processed by a worker.
AuthorizationRevoked ==
  /\ cred # {} /\ \E t \in Token : token[t] = "revoked"
  /\ DeleteCredentials
  /\ UNCHANGED <<token, age, issued, cache, force, res, login, disc, faults, lost>>

TokenAges(t) ==
  /\ issued < scenario.tokens /\ \E row \in cred : row.tok = t
  /\ \/ age[t] = "fresh" /\ age' = [age EXCEPT ![t] = "due"] /\ UNCHANGED faults
     \/ age[t] = "due" /\ age' = [age EXCEPT ![t] = "expired"] /\ Fault("expired")
  /\ UNCHANGED <<cred, sessions, token, issued, cache, force, res, login, disc, lost>>

\* The lease lasts three request timeouts at least, so it does not expire while
\* its holder waits for GitHub's answer; it may while the holder writes the row.
LeaseExpires ==
  /\ \E row \in cred :
       /\ row.lease # NoOne /\ ~row.over
       /\ row.lease \in Resolution => res[row.lease].phase # "github"
       /\ cred' = {[row EXCEPT !.over = TRUE]}
       /\ lost' = IF row.lease \in Resolution /\ res[row.lease].phase = "commit"
                  THEN lost \cup {row.tok} ELSE lost
  /\ UNCHANGED <<sessions, token, age, issued, cache, force, res, login, disc,
                 faults>>

\* A process dies with its caches, its resolutions and the requests it serves.
Crash(p) ==
  LET dead == {r \in Resolution : res[r].proc = p /\ res[r].phase \in Busy}
  IN /\ Fault("crash")
     /\ cache' = [cache EXCEPT ![p] = {}]
     /\ force' = [force EXCEPT ![p] = FALSE]
     /\ res' = [r \in Resolution |-> IF r \in dead \/ (disc.proc = p /\ Joined(r))
                                     THEN Blank ELSE res[r]]
     /\ login' = [l \in Login |-> IF login[l].proc = p
                                  THEN [phase |-> "done", proc |-> NoOne, tok |-> 0]
                                  ELSE login[l]]
     /\ IF disc.proc = p THEN DiscEnds ELSE UNCHANGED disc
     /\ cred' = {[row EXCEPT !.lease = IF @ \in dead THEN Lost ELSE @] : row \in cred}
     /\ lost' = lost \cup {res[r].tok : r \in {q \in dead : res[q].phase = "commit"}}
     /\ UNCHANGED <<sessions, token, age, issued>>
-----------------------------------------------------------------------------
\* A user with one session and fresh credentials.
Init ==
  /\ scenario \in Scenarios
  /\ cred = {[ver |-> 1, tok |-> 1, lease |-> NoOne, over |-> FALSE]}
  /\ sessions = {CHOOSE l \in Login : TRUE}
  /\ issued = 1
  /\ token = [t \in Token |-> IF t = 1 THEN "live" ELSE "none"]
  /\ age = [t \in Token |-> "fresh"]
  /\ cache = [p \in Process |-> {}]
  /\ force = [p \in Process |-> FALSE]
  /\ res = [r \in Resolution |-> Blank]
  /\ login = [l \in Login |-> [phase |-> "idle", proc |-> NoOne, tok |-> 0]]
  /\ disc = [phase |-> "idle", proc |-> NoOne, join |-> NoOne]
  /\ faults = 0
  /\ lost = {}

Resolves(r) ==
  \/ Load(r) \/ Decide(r) \/ TryAcquireRefreshLease(r) \/ RefreshUserToken(r)
  \/ CompleteRefresh(r) \/ Recheck(r) \/ ReleaseRefreshLease(r)
  \/ RevokeRefused(r) \/ DeleteRefused(r)

LogsIn(l) ==
  \/ ExchangeAuthorizationCode(l) \/ UpsertCredentials(l) \/ AuthorizeUser(l)
  \/ CreateLoginSession(l) \/ RevokeFailedLogin(l) \/ DeleteFailedLogin(l)
  \/ RevokeUserSessions(l)

Disconnects ==
  \/ DisconnectResolved \/ DisconnectLoad \/ RevokeUserAuthorization
  \/ DisconnectRevoke \/ DisconnectDelete

Steps ==
  \/ \E r \in Resolution : Resolves(r) \/ StopWaiting(r) \/ \E p \in Process : GetUserClient(r, p)
  \/ \E l \in Login : LogsIn(l) \/ StartLogin(l) \/ EndSession(l)
  \/ \E l \in Login, p \in Process : ConsumeAttempt(l, p)
  \/ \E p \in Process : InvalidateUser(p) \/ Disconnect(p) \/ Crash(p)
  \/ Disconnects
  \/ RevokeOnGitHub \/ AuthorizationRevoked \/ LeaseExpires
  \/ \E t \in Token : TokenAges(t)

Next == Steps /\ UNCHANGED scenario

\* A process goes on with what it has begun; a lease that nobody releases expires.
\* A resolution that waits again and again for the leases of others reaches the
\* deadline of its wait, which is not renewed: strong fairness.
Fairness ==
  /\ \A r \in Resolution : WF_vars(Resolves(r) /\ UNCHANGED scenario)
  /\ \A r \in Resolution : SF_vars(StopWaiting(r) /\ UNCHANGED scenario)
  /\ \A l \in Login : WF_vars(LogsIn(l) /\ UNCHANGED scenario)
  /\ WF_vars(Disconnects /\ UNCHANGED scenario)
  /\ WF_vars(LeaseExpires /\ UNCHANGED scenario)

Spec == Init /\ [][Next]_vars /\ Fairness
-----------------------------------------------------------------------------
(* Properties *)

\* Every row, cache and handler keeps its type.
TypeOK ==
  /\ scenario \in Scenarios
  /\ cred \subseteq Row /\ Cardinality(cred) <= 1
  /\ sessions \subseteq Login
  /\ token \in [Token -> {"none", "live", "rotated", "revoked"}]
  /\ age \in [Token -> {"fresh", "due", "expired"}]
  /\ issued \in Token
  /\ cache \in [Process -> SUBSET Token] /\ force \in [Process -> BOOLEAN]
  /\ res \in [Resolution -> Resolving]
  /\ login \in [Login -> Callback]
  /\ disc \in Disconnecting
  /\ faults \in 0 .. MaxFaults /\ lost \subseteq Token

\* The stored token is one that GitHub accepts, or was revoked there, or its
\* successor is on the way to the row; only a lost answer, a failed write, a
\* write slower than the lease or a crash leaves a rotated token behind.
StoredTokenLive ==
  \A row \in cred :
    \/ token[row.tok] \in {"live", "revoked"}
    \/ row.tok \in lost
    \/ \E r \in Resolution : res[r].phase = "commit" /\ res[r].tok = row.tok

\* The refresh token of the row is never sent to GitHub by two refreshes at once.
OneRotation ==
  \A q, r \in Resolution, row \in cred :
    q # r /\ res[q].phase = "github" /\ res[r].phase = "github" =>
      ~(res[q].tok = row.tok /\ res[r].tok = row.tok)

\* The stored token is one that GitHub accepts or was revoked there, unless its successor was
\* lost on the way, and its refresh token is never sent twice at once.
TokenStands == TypeOK /\ StoredTokenLive /\ OneRotation

\* Every resolution of a client ends, also when the holder of the lease has died.
ResolutionsEnd == \A r \in Resolution : []<>(res[r].phase \in Ended)
=============================================================================
