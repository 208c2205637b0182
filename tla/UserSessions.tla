----------------------------- MODULE UserSessions -----------------------------
(***************************************************************************)
(* The sessions of one user in several browsers: logins through GitHub,    *)
(* the cookies they leave, and the requests that end sessions, disconnect  *)
(* GitHub or delete the account, interleaved at every await of their       *)
(* handlers (auth.ts and connection.ts of the routes, auth/store.ts).      *)
(***************************************************************************)
EXTENDS Naturals

CONSTANTS Browser,
          Attempt,    \* OAuth attempts
          Request,    \* requests; a callback's session bears its name
          Kinds,      \* what users ask for: a subset of Ending
          NoSession,  \* no cookie
          MaxFaults   \* bound on answers of GitHub that fail, and expiries

Ending == {"logout", "disconnect", "delete"}

VARIABLES attempt,   \* rows of oauth_attempts
          session,   \* rows of sessions
          credential,\* the user's row of github_user_credentials exists
          user,      \* the user's row of github_users exists
          jar,       \* the two cookies of each browser, which one answer sets
          request,
          deleted,   \* history: the account was deleted and not created again
          faults

vars == <<attempt, session, credential, user, jar, request, deleted, faults>>
-----------------------------------------------------------------------------
Cookie == Request \cup {NoSession}
NoRequest == [kind |-> "none", phase |-> "none", by |-> "none", state |-> "none",
              cookie |-> NoSession, header |-> NoSession, ok |-> FALSE]

(* A row of oauth_attempts before, while and after it is there, and one of  *)
(* sessions, whose revoked_at and revocation_reason are set together.       *)
AttemptRow == [status : {"none", "open", "consumed", "expired", "gone"}, by : Browser \cup {"none"}]
SessionRow == {"none", "active", "revoked", "expired", "gone"}

TypeOK ==
  /\ \A a \in Attempt : attempt[a].status \in {r.status : r \in AttemptRow}
  /\ session \in [Request -> SessionRow]
  /\ credential \in BOOLEAN /\ user \in BOOLEAN /\ deleted \in BOOLEAN
  /\ jar \in [Browser -> Cookie]
  /\ \A r \in Request : request[r].phase \in {"none", "built", "sent", "exchange", "session", "revoke",
                                              "sessions", "handle", "rows", "answer", "done"}

Init ==
  /\ attempt = [a \in Attempt |-> [status |-> "none", by |-> "none"]]
  /\ session = [r \in Request |-> "none"]
  /\ credential = FALSE /\ user = FALSE
  /\ jar = [b \in Browser |-> NoSession]
  /\ request = [r \in Request |-> NoRequest]
  /\ deleted = FALSE /\ faults = 0

Goto(r, phase) == request' = [request EXCEPT ![r].phase = phase]
Answer(r, ok) == request' = [request EXCEPT ![r].phase = "answer", ![r].ok = ok]
Fault == faults < MaxFaults /\ faults' = faults + 1
At(r, kinds, phase) == request[r].kind \in kinds /\ request[r].phase = phase

Revoked(rows) ==
  [s \in Request |-> IF s \in rows /\ session[s] = "active" THEN "revoked" ELSE session[s]]

(* The sessions go with the credentials they refer to (on delete cascade). *)
DeleteCredentials ==
  /\ credential' = FALSE
  /\ session' = [s \in Request |-> IF session[s] = "none" THEN "none" ELSE "gone"]

-----------------------------------------------------------------------------
(* The login                                                               *)

Purged(rows, ended) ==
  [k \in DOMAIN rows |-> IF rows[k] \in ended THEN "gone" ELSE rows[k]]

(* GET /auth/github: ended rows are purged, and an attempt begins. *)
StartLogin(b, a) ==
  /\ attempt[a].status = "none"
  /\ session' = Purged(session, {"expired", "revoked"})
  /\ attempt' = [k \in Attempt |->
                   IF k = a THEN [status |-> "open", by |-> b]
                   ELSE IF attempt[k].status \in {"consumed", "expired"}
                        THEN [attempt[k] EXCEPT !.status = "gone"] ELSE attempt[k]]
  /\ UNCHANGED <<credential, user, jar, request, deleted, faults>>

(* GitHub sends the browser back; a reload does it again. *)
Callback(r, a) ==
  /\ request[r].phase = "none" /\ attempt[a].status # "none"
  /\ request' = [request EXCEPT ![r] = [NoRequest EXCEPT !.kind = "callback", !.phase = "sent",
                   !.by = attempt[a].by, !.state = a, !.cookie = jar[attempt[a].by]]]
  /\ UNCHANGED <<attempt, session, credential, user, jar, deleted, faults>>

Consumable(a) == attempt[a].status = "open"

(* consumeOAuthAttempt, one update. *)
ConsumeOAuthAttempt(r) ==
  /\ At(r, {"callback"}, "sent")
  /\ IF Consumable(request[r].state)
     THEN attempt' = [attempt EXCEPT ![request[r].state].status = "consumed"] /\ Goto(r, "exchange")
     ELSE UNCHANGED attempt /\ Answer(r, FALSE)
  /\ UNCHANGED <<session, credential, user, jar, deleted, faults>>

(* GitHub's code becomes a token, and the credentials are stored. *)
AuthorizeUser(r) ==
  /\ At(r, {"callback"}, "exchange")
  /\ credential' = TRUE
  /\ Goto(r, "session")
  /\ UNCHANGED <<attempt, session, user, jar, deleted, faults>>

(* The user declined, or GitHub fails: nothing has been stored. *)
NotAuthorized(r) ==
  /\ Fault
  /\ At(r, {"callback"}, "exchange")
  /\ Answer(r, FALSE)
  /\ UNCHANGED <<attempt, session, credential, user, jar, deleted>>

(* createLoginSession: the user's row, the end of the session the browser   *)
(* had, and the new one, or nothing when the credentials are gone.          *)
CreateLoginSession(r) ==
  /\ At(r, {"callback"}, "session")
  /\ IF credential
     THEN /\ user' = TRUE
          /\ session' = [Revoked({request[r].cookie}) EXCEPT ![r] = "active"]
          /\ deleted' = FALSE
          /\ Answer(r, TRUE)
     ELSE UNCHANGED <<user, session, deleted>> /\ Goto(r, "revoke")
  /\ UNCHANGED <<attempt, credential, jar, faults>>

(* The identity or the installations cannot be read. *)
LoginFails(r) ==
  /\ Fault
  /\ At(r, {"callback"}, "session")
  /\ Goto(r, "revoke")
  /\ UNCHANGED <<attempt, session, credential, user, jar, deleted>>

(* The catch block: the credentials, then what sessions there are again. *)
RevokeUser(r) ==
  /\ At(r, {"callback"}, "revoke")
  /\ DeleteCredentials
  /\ Goto(r, "sessions")
  /\ UNCHANGED <<attempt, user, jar, deleted, faults>>

RevokeUserSessions(r) ==
  /\ At(r, {"callback"}, "sessions")
  /\ session' = Revoked(Request)
  /\ Answer(r, FALSE)
  /\ UNCHANGED <<attempt, credential, user, jar, deleted, faults>>

-----------------------------------------------------------------------------
(* Requests of the account page                                            *)

(* The page reads the CSRF cookie, *)
Build(r, b, kind) ==
  /\ request[r].phase = "none" /\ jar[b] # NoSession
  /\ request' = [request EXCEPT ![r] = [NoRequest EXCEPT !.kind = kind, !.phase = "built",
                                         !.by = b, !.header = jar[b]]]
  /\ UNCHANGED <<attempt, session, credential, user, jar, deleted, faults>>

(* and the browser adds the cookies when it sends. *)
Send(r) ==
  /\ At(r, Ending, "built")
  /\ request' = [request EXCEPT ![r].phase = "sent", ![r].cookie = jar[request[r].by]]
  /\ UNCHANGED <<attempt, session, credential, user, jar, deleted, faults>>

(* findActiveSession and requireCsrfProtection. *)
Authentic(r) ==
  /\ request[r].cookie # NoSession /\ session[request[r].cookie] = "active"
  /\ credential /\ user
  /\ request[r].header = request[r].cookie

Authenticate(r) ==
  /\ At(r, Ending, "sent")
  /\ IF Authentic(r) THEN Goto(r, "handle") ELSE Answer(r, FALSE)
  /\ UNCHANGED <<attempt, session, credential, user, jar, deleted, faults>>

Logout(r) ==
  /\ At(r, {"logout"}, "handle")
  /\ session' = Revoked({request[r].cookie})
  /\ Answer(r, TRUE)
  /\ UNCHANGED <<attempt, credential, user, jar, deleted, faults>>

(* disconnectUser: GitHub's grant is revoked, then the credentials go. *)
Disconnect(r) ==
  /\ At(r, {"disconnect"}, "handle")
  /\ DeleteCredentials
  /\ Answer(r, TRUE)
  /\ UNCHANGED <<attempt, user, jar, deleted, faults>>

DisconnectFails(r) ==
  /\ Fault
  /\ At(r, {"disconnect"}, "handle")
  /\ Answer(r, FALSE)
  /\ UNCHANGED <<attempt, session, credential, user, jar, deleted>>

(* DELETE /account: revokeUser, *)
DeleteAccount(r) ==
  /\ At(r, {"delete"}, "handle")
  /\ DeleteCredentials
  /\ Goto(r, "rows")
  /\ UNCHANGED <<attempt, user, jar, deleted, faults>>

(* Mutant of DeleteLocalAccount: the credentials were deleted already. *)
DeleteLocalAccountUserOnly(r) ==
  /\ At(r, {"delete"}, "rows")
  /\ user' = FALSE /\ deleted' = TRUE
  /\ Answer(r, TRUE)
  /\ UNCHANGED <<attempt, session, credential, jar, faults>>

(* then the credentials once more, with the user's row, in one transaction. *)
DeleteLocalAccount(r) ==
  /\ At(r, {"delete"}, "rows")
  /\ DeleteCredentials
  /\ user' = FALSE /\ deleted' = TRUE
  /\ Answer(r, TRUE)
  /\ UNCHANGED <<attempt, jar, faults>>

(* The cookies an answer leaves in the browser. *)
Cookies(r) ==
  IF ~request[r].ok THEN jar[request[r].by]
  ELSE IF request[r].kind = "callback" THEN r ELSE NoSession

Answered(r) ==
  /\ request[r].phase = "answer"
  /\ jar' = [jar EXCEPT ![request[r].by] = Cookies(r)]
  /\ Goto(r, "done")
  /\ UNCHANGED <<attempt, session, credential, user, deleted, faults>>

(* The time to live of an attempt or a session is over. *)
Expire ==
  /\ Fault
  /\ \/ \E a \in Attempt : /\ attempt[a].status = "open"
                           /\ attempt' = [attempt EXCEPT ![a].status = "expired"]
                           /\ UNCHANGED session
     \/ \E s \in Request : /\ session[s] = "active"
                           /\ session' = [session EXCEPT ![s] = "expired"]
                           /\ UNCHANGED attempt
  /\ UNCHANGED <<credential, user, jar, request, deleted>>

Login(r) ==
  \/ \E a \in Attempt : Callback(r, a)
  \/ ConsumeOAuthAttempt(r) \/ AuthorizeUser(r) \/ NotAuthorized(r) \/ CreateLoginSession(r)
  \/ LoginFails(r) \/ RevokeUser(r) \/ RevokeUserSessions(r)

End(r) ==
  \/ \E b \in Browser, kind \in Kinds : Build(r, b, kind)
  \/ Send(r) \/ Authenticate(r) \/ Logout(r) \/ Disconnect(r) \/ DisconnectFails(r)
  \/ DeleteAccount(r) \/ DeleteLocalAccount(r)

Next ==
  \/ \E b \in Browser, a \in Attempt : StartLogin(b, a)
  \/ \E r \in Request : Login(r) \/ End(r) \/ Answered(r)
  \/ Expire

Spec == Init /\ [][Next]_vars
-----------------------------------------------------------------------------
(* An attempt makes one session at most, however often and at once the      *)
(* browser presents it.                                                     *)
OneLogin ==
  \A r, q \in Request :
    session[r] # "none" /\ session[q] # "none" /\ request[r].state = request[q].state => r = q

(* A session that is active has the rows that findActiveSession joins, so a *)
(* login that succeeds beside the removal of the account is not left with   *)
(* a session nobody can end.                                                *)
SessionsBacked == (\E s \in Request : session[s] = "active") => credential /\ user

(* An account that was deleted leaves nothing, whatever logins were on      *)
(* their way, until a login creates it anew.                                *)
AccountGone == deleted => ~user /\ \A s \in Request : session[s] # "active"

(* A user who was told to be signed out is: the session whose token the     *)
(* page had read has ended, whichever cookies the browser sent meanwhile.   *)
SignedOut ==
  \A r \in Request :
    request[r].kind \in Ending /\ request[r].phase = "done" /\ request[r].ok =>
      session[request[r].header] # "active"
=============================================================================
