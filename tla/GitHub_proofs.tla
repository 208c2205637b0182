----------------------------- MODULE GitHub_proofs -----------------------------
(***************************************************************************)
(* No refresh token is spent twice and the stored token is the one GitHub  *)
(* accepts, for any number of processes, calls, logins, tokens and faults; *)
(* and what the deliveries leave behind, for any number of events,         *)
(* attempts, slots and faults.                                             *)
(***************************************************************************)
EXTENDS GitHub, Sequences, FiniteSetTheorems, TLAPS

(* The row, the calls and the callbacks have their types; a call that has decided to  *)
(* refresh, and a callback that has exchanged its code, hold a token.                 *)
OneRow(c) == c = {} \/ \E row \in Row : c = {row}

Decided == Busy \ {"load"}
ResOK(rs) ==
  /\ rs \in [Resolution -> Resolving]
  /\ \A r \in Resolution : rs[r].phase \in Decided => rs[r].tok \in Token

LoginOK(ls) ==
  /\ ls \in [Login -> Callback]
  /\ \A l \in Login : ls[l].phase \in {"upsert", "adopt"} => ls[l].tok \in Token

(* The call that a disconnect has joined runs in the process of the disconnect.       *)
JoinOK(d, rs) ==
  /\ d \in Disconnecting
  /\ d.phase = "joined" => /\ d.join \in Resolution
                           /\ rs[d.join].phase \in Ended \/ rs[d.join].proc = d.proc

OthersOK ==
  /\ scenario \in Scenarios /\ sessions \subseteq Login
  /\ token \in [Token -> {"none", "live", "rotated", "revoked"}]
  /\ age \in [Token -> {"fresh", "due", "expired"}]
  /\ issued \in Token
  /\ cache \in [Process -> SUBSET Token] /\ force \in [Process -> BOOLEAN]
  /\ faults \in 0 .. MaxFaults /\ lost \subseteq Token

----------------------------------------------------------------------------
(* The token t is on its way to the row: GitHub knows it, and nobody else does.       *)
Unused(t, c, k, n, rs) ==
  /\ t \in Token /\ t <= n /\ k[t] \in {"live", "revoked"}
  /\ \A row \in c : row.tok # t
  /\ \A q \in Resolution : rs[q].tok # t

Carried(c, k, n, rs, ls) ==
  /\ \A r \in Resolution : rs[r].phase = "commit" => Unused(rs[r].got, c, k, n, rs)
  /\ \A l \in Login : ls[l].phase = "upsert" => Unused(ls[l].tok, c, k, n, rs)

(* No two refreshes or logins carry the same token.                                   *)
Differ(rs, ls) ==
  /\ \A q, r \in Resolution :
       q # r /\ rs[q].phase = "commit" /\ rs[r].phase = "commit" => rs[q].got # rs[r].got
  /\ \A l, m \in Login :
       l # m /\ ls[l].phase = "upsert" /\ ls[m].phase = "upsert" => ls[l].tok # ls[m].tok
  /\ \A r \in Resolution, l \in Login :
       rs[r].phase = "commit" /\ ls[l].phase = "upsert" => rs[r].got # ls[l].tok

Uncarried(t, rs, ls) ==
  /\ \A r \in Resolution : rs[r].phase = "commit" => rs[r].got # t
  /\ \A l \in Login : ls[l].phase = "upsert" => ls[l].tok # t

Known(c, n, rs) ==
  /\ \A row \in c : row.tok <= n
  /\ \A r \in Resolution : rs[r].tok <= n

(* Who spends the refresh token of the row holds its lease, until the lease runs out  *)
(* after GitHub's answer.                                                             *)
Holding(c, rs, lo) ==
  \A row \in c, r \in Resolution :
    rs[r].tok = row.tok =>
      /\ rs[r].ver = row.ver
      /\ rs[r].phase = "github" => row.lease = r /\ ~row.over
      /\ rs[r].phase = "commit" => (row.lease = r /\ ~row.over) \/ row.tok \in lo

Accepted(c, k, rs, lo) ==
  \A row \in c :
    \/ k[row.tok] \in {"live", "revoked"}
    \/ row.tok \in lo
    \/ \E r \in Resolution : rs[r].phase = "commit" /\ rs[r].tok = row.tok

Safe(c, k, n, rs, ls, lo) ==
  /\ Known(c, n, rs) /\ Carried(c, k, n, rs, ls) /\ Differ(rs, ls)
  /\ Holding(c, rs, lo) /\ Accepted(c, k, rs, lo)

Core ==
  /\ OneRow(cred) /\ ResOK(res) /\ LoginOK(login) /\ JoinOK(disc, res)
  /\ Safe(cred, token, issued, res, login, lost)

IInv == OthersOK /\ Core
-----------------------------------------------------------------------------
(* What one step may do to the calls: leave a call's token and progress as they are,  *)
(* or take it out of its refresh with no token, its own or that of the row.           *)
Retires(w, v, c, lo) ==
  \/ v.phase = w.phase /\ v.tok = w.tok /\ v.ver = w.ver /\ v.got = w.got
  \/ /\ v.phase \notin {"github", "commit"}
     /\ w.phase = "commit" => \A row \in c : row.tok = w.tok => w.tok \in lo
     /\ \/ v.tok = 0
        \/ v.tok = w.tok /\ v.ver = w.ver
        \/ \E row \in c : v.tok = row.tok /\ v.ver = row.ver

LEMMA RetiredSafe ==
  ASSUME NEW c, OneRow(c), NEW k, NEW n \in Token, NEW ls, NEW lo,
         NEW rs \in [Resolution -> Resolving], NEW after \in [Resolution -> Resolving],
         Safe(c, k, n, rs, ls, lo),
         \A r \in Resolution : Retires(rs[r], after[r], c, lo)
  PROVE  Safe(c, k, n, after, ls, lo)
<1>1. /\ n \in Nat /\ 0 <= n
      /\ \A row \in c : row \in Row /\ c = {row}
  BY AuthorizationAssumption DEF OneRow, Token
<1>2. \A r \in Resolution : after[r].phase \in {"github", "commit"} =>
        /\ after[r].phase = rs[r].phase /\ after[r].tok = rs[r].tok
        /\ after[r].ver = rs[r].ver /\ after[r].got = rs[r].got
  BY DEF Retires
<1>3. \A r \in Resolution :
        \/ after[r].tok = 0
        \/ after[r].tok = rs[r].tok /\ after[r].ver = rs[r].ver
        \/ \E row \in c : after[r].tok = row.tok /\ after[r].ver = row.ver
  BY DEF Retires
<1>4. Known(c, n, after)
  BY <1>1, <1>3 DEF Safe, Known
<1>5. ASSUME NEW t, Unused(t, c, k, n, rs) PROVE Unused(t, c, k, n, after)
  <2>1. t # 0
    BY <1>5 DEF Unused, Token
  <2> QED
    BY <2>1, <1>3, <1>5 DEF Unused
<1>6. Carried(c, k, n, after, ls)
  BY <1>2, <1>5 DEF Safe, Carried
<1>7. Differ(after, ls)
  BY <1>2 DEF Safe, Differ
<1>8. Holding(c, after, lo)
  <2> SUFFICES ASSUME NEW row \in c, NEW r \in Resolution, after[r].tok = row.tok
               PROVE  /\ after[r].ver = row.ver
                      /\ after[r].phase = "github" => row.lease = r /\ ~row.over
                      /\ after[r].phase = "commit" =>
                           (row.lease = r /\ ~row.over) \/ row.tok \in lo
    BY DEF Holding
  <2>1. after[r].tok # 0 /\ c = {row}
    BY <1>1 DEF Row, Token
  <2>2. after[r].ver = row.ver
    BY <2>1, <1>3 DEF Safe, Holding
  <2> QED
    BY <1>2, <2>2 DEF Safe, Holding
<1>9. Accepted(c, k, after, lo)
  <2> SUFFICES ASSUME NEW row \in c, NEW r \in Resolution,
                      rs[r].phase = "commit", rs[r].tok = row.tok, row.tok \notin lo
               PROVE  after[r].phase = "commit" /\ after[r].tok = row.tok
    BY DEF Safe, Accepted
  <2> QED
    BY DEF Retires
<1> QED
  BY <1>4, <1>6, <1>7, <1>8, <1>9 DEF Safe

(* The row is deleted, more is lost, callbacks go on, a grant is revoked.             *)
LEMMA DeletedSafe ==
  ASSUME NEW c, NEW k, NEW n, NEW rs, NEW ls, NEW lo, Safe(c, k, n, rs, ls, lo)
  PROVE  Safe({}, k, n, rs, ls, lo)
  BY DEF Safe, Known, Carried, Unused, Differ, Holding, Accepted

LEMMA LostSafe ==
  ASSUME NEW c, NEW k, NEW n, NEW rs, NEW ls, NEW lo, NEW more,
         Safe(c, k, n, rs, ls, lo), lo \subseteq more
  PROVE  Safe(c, k, n, rs, ls, more)
  BY DEF Safe, Holding, Accepted

LEMMA LoginsSafe ==
  ASSUME NEW c, NEW k, NEW n, NEW rs, NEW ls, NEW after, NEW lo,
         Safe(c, k, n, rs, ls, lo),
         \A l \in Login : \/ after[l].phase = ls[l].phase /\ after[l].tok = ls[l].tok
                          \/ after[l].phase # "upsert"
  PROVE  Safe(c, k, n, rs, after, lo)
  BY DEF Safe, Carried, Differ

LEMMA RevokedSafe ==
  ASSUME NEW c, OneRow(c), NEW k, NEW n, NEW rs, NEW ls, NEW lo, Safe(c, k, n, rs, ls, lo),
         NEW after, after = [t \in Token |-> IF k[t] = "live" THEN "revoked" ELSE k[t]]
  PROVE  Safe(c, after, n, rs, ls, lo)
<1>1. \A t \in Token : k[t] \in {"live", "revoked"} => after[t] \in {"live", "revoked"}
  OBVIOUS
<1>2. \A row \in c : row.tok \in Token
  BY DEF OneRow, Row
<1>3. Carried(c, after, n, rs, ls)
  BY <1>1 DEF Safe, Carried, Unused
<1>4. Accepted(c, after, rs, lo)
  BY <1>1, <1>2 DEF Safe, Accepted
<1> QED
  BY <1>3, <1>4 DEF Safe

(* A token that nobody carries any more replaces the row.                             *)
LEMMA StoredSafe ==
  ASSUME NEW k, NEW n, NEW rs, NEW ls, NEW lo, Safe({}, k, n, rs, ls, lo),
         NEW t, Unused(t, {}, k, n, rs), NEW v,
         Uncarried(t, rs, ls)
  PROVE  Safe({[ver |-> v, tok |-> t, lease |-> NoOne, over |-> FALSE]}, k, n, rs, ls, lo)
<1> DEFINE fresh == [ver |-> v, tok |-> t, lease |-> NoOne, over |-> FALSE]
<1>1. fresh.tok = t
  OBVIOUS
<1> HIDE DEF fresh
<1>2. Safe({fresh}, k, n, rs, ls, lo)
  BY <1>1 DEF Safe, Known, Carried, Uncarried, Unused, Differ, Holding, Accepted
<1> QED
  BY <1>2 DEF fresh

(* The lease of the row changes hands; nobody who spends its token loses the lease,   *)
(* or what he fetched is lost.                                                        *)
LEMMA LeaseSafe ==
  ASSUME NEW k, NEW n, NEW rs, NEW ls, NEW lo, NEW row, Safe({row}, k, n, rs, ls, lo),
         NEW after, after.tok = row.tok, after.ver = row.ver,
         \A q \in Resolution :
           rs[q].tok = row.tok /\ rs[q].phase \in {"github", "commit"}
             /\ row.lease = q /\ ~row.over =>
               \/ after.lease = q /\ ~after.over
               \/ rs[q].phase = "commit" /\ row.tok \in lo
  PROVE  Safe({after}, k, n, rs, ls, lo)
<1>1. Known({after}, n, rs) /\ Carried({after}, k, n, rs, ls) /\ Differ(rs, ls)
  BY DEF Safe, Known, Carried, Unused
<1>2. Holding({after}, rs, lo)
  BY DEF Safe, Holding
<1>3. Accepted({after}, k, rs, lo)
  BY DEF Safe, Accepted
<1> QED
  BY <1>1, <1>2, <1>3 DEF Safe

(* The holder of the lease sends the token to GitHub.                                 *)
LEMMA SentSafe ==
  ASSUME NEW k, NEW n, NEW rs \in [Resolution -> Resolving], NEW ls, NEW lo, NEW row,
         Safe({row}, k, n, rs, ls, lo),
         NEW r \in Resolution, rs[r].phase # "commit", row.lease = r, ~row.over,
         NEW w, w.phase = "github", w.tok = rs[r].tok, w.ver = rs[r].ver
  PROVE  Safe({row}, k, n, [rs EXCEPT ![r] = w], ls, lo)
<1> DEFINE after == [rs EXCEPT ![r] = w]
<1>1. /\ after[r] = w
      /\ \A q \in Resolution \ {r} : after[q] = rs[q]
      /\ \A q \in Resolution : after[q].tok = rs[q].tok /\ after[q].ver = rs[q].ver
      /\ \A q \in Resolution : after[q].phase = "commit" =>
                                 rs[q].phase = "commit" /\ after[q] = rs[q]
      /\ \A q \in Resolution : rs[q].phase = "commit" => after[q] = rs[q]
  OBVIOUS
<1> HIDE DEF after
<1>2. Known({row}, n, after) /\ Carried({row}, k, n, after, ls)
  BY <1>1 DEF Safe, Known, Carried, Unused
<1>3. Differ(after, ls)
  BY <1>1 DEF Safe, Differ
<1>4. Holding({row}, after, lo)
  BY <1>1 DEF Safe, Holding
<1>5. Accepted({row}, k, after, lo)
  BY <1>1 DEF Safe, Accepted
<1> QED
  BY <1>2, <1>3, <1>4, <1>5 DEF Safe, after
-----------------------------------------------------------------------------
(* GitHub issues the next token.                                                      *)
Issues(k, n, m, after) ==
  m \in Token /\ m = n + 1 /\ after = [k EXCEPT ![m] = "live"]

(* The token issued is on its way, and nobody carries it yet.                         *)
LEMMA IssuedSafe ==
  ASSUME NEW c, OneRow(c), NEW k \in [Token -> {"none", "live", "rotated", "revoked"}],
         NEW n \in Token, NEW rs \in [Resolution -> Resolving], NEW ls, NEW lo,
         Safe(c, k, n, rs, ls, lo), NEW m, NEW after, Issues(k, n, m, after)
  PROVE  /\ Safe(c, after, m, rs, ls, lo) /\ Unused(m, c, after, m, rs)
         /\ Uncarried(m, rs, ls)
<1> USE DEF Issues
<1>1. /\ after[m] = "live" /\ \A t \in Token \ {m} : after[t] = k[t]
      /\ after \in [Token -> {"none", "live", "rotated", "revoked"}]
  OBVIOUS
<1>2. n \in Nat /\ m \in Nat /\ \A t \in Token : t \in Nat
  BY AuthorizationAssumption DEF Token
<1>3. \A row \in c : row.tok \in Token /\ row.tok <= n /\ row.tok # m
  BY <1>2 DEF OneRow, Row, Safe, Known
<1>4. \A r \in Resolution : rs[r].tok \in Token \cup {0} /\ rs[r].tok <= n /\ rs[r].tok # m
  BY <1>2 DEF Resolving, Safe, Known
<1>5. ASSUME NEW t, Unused(t, c, k, n, rs) PROVE Unused(t, c, after, m, rs) /\ t # m
  <2>1. t \in Token /\ t <= n
    BY <1>5 DEF Unused
  <2>2. t <= m /\ t # m
    BY <1>2, <2>1
  <2> QED
    BY <1>1, <1>5, <2>1, <2>2 DEF Unused
<1>6. Known(c, m, rs)
  <2>1. \A x \in Token \cup {0} : x <= n => x <= m
    BY <1>2
  <2> QED
    BY <1>3, <1>4, <2>1 DEF Known
<1>7. Carried(c, after, m, rs, ls)
  BY <1>5 DEF Safe, Carried
<1>8. Accepted(c, after, rs, lo)
  BY <1>1, <1>3 DEF Safe, Accepted
<1>9. Unused(m, c, after, m, rs)
  BY <1>1, <1>2, <1>3, <1>4 DEF Unused
<1>10. Uncarried(m, rs, ls)
  BY <1>5 DEF Safe, Carried, Uncarried
<1> QED
  BY <1>6, <1>7, <1>8, <1>9, <1>10 DEF Safe

(* The token sent to GitHub is spent; its successor is lost or carried.               *)
LEMMA SpentSafe ==
  ASSUME NEW c, OneRow(c), NEW k \in [Token -> {"none", "live", "rotated", "revoked"}],
         NEW n, NEW rs, NEW ls, NEW lo, Safe(c, k, n, rs, ls, lo),
         NEW r \in Resolution, NEW t \in Token, rs[r].tok = t,
         NEW after, after = [k EXCEPT ![t] = "rotated"], NEW more, more = lo \cup {t}
  PROVE  Safe(c, after, n, rs, ls, more)
<1>1. \A s \in Token \ {t} : after[s] = k[s]
  OBVIOUS
<1>2. Carried(c, after, n, rs, ls)
  BY <1>1 DEF Safe, Carried, Unused
<1>3. Accepted(c, after, rs, more)
  BY <1>1 DEF Safe, Accepted, OneRow, Row
<1>4. Holding(c, rs, more)
  BY DEF Safe, Holding
<1> QED
  BY <1>2, <1>3, <1>4 DEF Safe

LEMMA FetchedSafe ==
  ASSUME NEW c, OneRow(c), NEW k \in [Token -> {"none", "live", "rotated", "revoked"}],
         NEW n, NEW rs \in [Resolution -> Resolving], NEW ls, NEW lo, Safe(c, k, n, rs, ls, lo),
         NEW r \in Resolution, rs[r].phase = "github", NEW t \in Token, rs[r].tok = t,
         NEW m, Unused(m, c, k, n, rs),
         Uncarried(m, rs, ls),
         NEW w, w.phase = "commit", w.tok = t, w.ver = rs[r].ver, w.got = m,
         NEW known, known = [k EXCEPT ![t] = "rotated"],
         NEW after, after = [rs EXCEPT ![r] = w]
  PROVE  Safe(c, known, n, after, ls, lo)
<1>1. \A s \in Token \ {t} : known[s] = k[s]
  OBVIOUS
<1>2. /\ after[r] = w /\ \A q \in Resolution \ {r} : after[q] = rs[q]
      /\ \A q \in Resolution : after[q].tok = rs[q].tok /\ after[q].ver = rs[q].ver
  OBVIOUS
<1>3. ASSUME NEW s, Unused(s, c, k, n, rs) PROVE Unused(s, c, known, n, after)
  BY <1>1, <1>2, <1>3 DEF Unused
<1>4. Known(c, n, after)
  BY <1>2 DEF Safe, Known
<1>5. Carried(c, known, n, after, ls)
  BY <1>2, <1>3 DEF Safe, Carried
<1>6. Differ(after, ls)
  BY <1>2 DEF Safe, Differ, Uncarried
<1>7. Holding(c, after, lo)
  BY <1>2 DEF Safe, Holding
<1>8. Accepted(c, known, after, lo)
  <2> SUFFICES ASSUME NEW row \in c
               PROVE  \/ known[row.tok] \in {"live", "revoked"} \/ row.tok \in lo
                      \/ \E q \in Resolution : after[q].phase = "commit"
                                                /\ after[q].tok = row.tok
    BY DEF Accepted
  <2>1. CASE row.tok = t
    BY <1>2, <2>1
  <2>2. CASE row.tok # t
    <3>1. known[row.tok] = k[row.tok]
      BY <1>1, <2>2 DEF OneRow, Row
    <3>2. \A q \in Resolution : rs[q].phase = "commit" => after[q] = rs[q]
      BY <1>2
    <3> QED
      BY <3>1, <3>2 DEF Safe, Accepted
  <2> QED
    BY <2>1, <2>2
<1> QED
  BY <1>4, <1>5, <1>6, <1>7, <1>8 DEF Safe
-----------------------------------------------------------------------------
(* What a step may do to the call r.                                                  *)
Goes(w, v, r, c, lo, d) ==
  /\ Retires(w, v, c, lo)
  /\ v.phase \in Decided => v.tok \in Token
  /\ \/ v.phase \in Ended
     \/ v.proc = w.proc /\ w.phase \notin Ended
     \/ ~(d.phase = "joined" /\ d.join = r)

LEMMA CallsGo ==
  ASSUME NEW c, OneRow(c), NEW k, NEW n \in Token, NEW ls, NEW lo, NEW d, NEW rs, ResOK(rs),
         JoinOK(d, rs), Safe(c, k, n, rs, ls, lo), NEW after \in [Resolution -> Resolving],
         \A r \in Resolution : rs[r] = after[r] \/ Goes(rs[r], after[r], r, c, lo, d)
  PROVE  ResOK(after) /\ JoinOK(d, after) /\ Safe(c, k, n, after, ls, lo)
<1>1. \A r \in Resolution : Retires(rs[r], after[r], c, lo)
  BY DEF Goes, Retires
<1>2. Safe(c, k, n, after, ls, lo)
  BY <1>1, RetiredSafe DEF ResOK
<1>3. ResOK(after)
  BY DEF ResOK, Goes
<1>4. JoinOK(d, after)
  BY DEF JoinOK, Goes
<1> QED
  BY <1>2, <1>3, <1>4

LEMMA CallGoes ==
  ASSUME NEW c, OneRow(c), NEW k, NEW n \in Token, NEW ls, NEW lo, NEW d, NEW rs, ResOK(rs),
         JoinOK(d, rs), Safe(c, k, n, rs, ls, lo), NEW r \in Resolution,
         NEW v \in Resolving, Goes(rs[r], v, r, c, lo, d)
  PROVE  LET after == [rs EXCEPT ![r] = v]
         IN ResOK(after) /\ JoinOK(d, after) /\ Safe(c, k, n, after, ls, lo)
<1> DEFINE after == [rs EXCEPT ![r] = v]
<1>1. /\ after \in [Resolution -> Resolving] /\ after[r] = v
      /\ \A q \in Resolution \ {r} : after[q] = rs[q]
  BY DEF ResOK
<1> HIDE DEF after
<1>2. \A q \in Resolution : rs[q] = after[q] \/ Goes(rs[q], after[q], q, c, lo, d)
  BY <1>1
<1>3. ResOK(after) /\ JoinOK(d, after) /\ Safe(c, k, n, after, ls, lo)
  BY <1>1, <1>2, CallsGo
<1> QED
  BY <1>3 DEF after

LEMMA BlankTyped == Blank \in Resolving /\ Blank.tok = 0 /\ Blank.phase = "idle"
  BY DEF Blank, Resolving, Ended, Outcome

LEMMA EndCall ==
  ASSUME NEW r \in Resolution, NEW outcome \in Outcome
  PROVE  \E v \in Resolving : /\ End(r, outcome) = [res EXCEPT ![r] = v]
                              /\ v.tok = 0 /\ v.phase \in Ended
<1> DEFINE v == [Blank EXCEPT !.phase = IF Joined(r) THEN outcome ELSE "idle"]
<1>1. v \in Resolving /\ v.tok = 0 /\ v.phase \in Ended
  BY DEF Blank, Resolving, Ended, Outcome
<1>2. End(r, outcome) = [res EXCEPT ![r] = v]
  BY DEF End
<1> QED
  BY <1>1, <1>2

LEMMA Phases ==
  /\ "github" \notin Ended /\ "commit" \notin Ended /\ Ended \cap Decided = {}
  /\ "load" \notin Ended /\ "load" \notin Decided
  /\ \A x \in {"decide", "lease", "wait", "github", "commit", "recheck", "release", "revoke",
               "delete"} : x \in Decided /\ x \notin Ended /\ x \in Busy
  BY DEF Ended, Outcome, Decided, Busy

LEMMA EndSafe ==
  ASSUME NEW c, OneRow(c), NEW k, NEW n \in Token, NEW ls, NEW lo, ResOK(res),
         JoinOK(disc, res), Safe(c, k, n, res, ls, lo), NEW r \in Resolution,
         NEW outcome \in Outcome,
         res[r].phase = "commit" => \A row \in c : row.tok = res[r].tok => row.tok \in lo
  PROVE  /\ ResOK(End(r, outcome)) /\ JoinOK(disc, End(r, outcome))
         /\ Safe(c, k, n, End(r, outcome), ls, lo)
<1>1. PICK v \in Resolving : /\ End(r, outcome) = [res EXCEPT ![r] = v]
                             /\ v.tok = 0 /\ v.phase \in Ended
  BY EndCall
<1>2. Goes(res[r], v, r, c, lo, disc)
  BY <1>1, Phases DEF Goes, Retires
<1> DEFINE after == [res EXCEPT ![r] = v]
<1>3. ResOK(after) /\ JoinOK(disc, after) /\ Safe(c, k, n, after, ls, lo)
  BY <1>2, CallGoes
<1>4. End(r, outcome) = after
  BY <1>1
<1> HIDE DEF after
<1> QED
  BY <1>3, <1>4

(* Forgetting the calls of a process changes neither their progress nor their tokens. *)
LEMMA ForgetSafe ==
  ASSUME NEW c, OneRow(c), NEW k, NEW n \in Token, NEW ls, NEW lo, NEW d, NEW rs, ResOK(rs),
         JoinOK(d, rs), Safe(c, k, n, rs, ls, lo), NEW p
  PROVE  /\ ResOK(Forget(p, rs)) /\ JoinOK(d, Forget(p, rs))
         /\ Safe(c, k, n, Forget(p, rs), ls, lo)
         /\ \A r \in Resolution : Forget(p, rs)[r].phase = rs[r].phase
                                  /\ Forget(p, rs)[r].tok = rs[r].tok
                                  /\ Forget(p, rs)[r].ver = rs[r].ver
<1> DEFINE after == Forget(p, rs)
<1>1. after \in [Resolution -> Resolving]
  <2>1. \A r \in Resolution :
          /\ rs[r] \in Resolving
          /\ [rs[r] EXCEPT !.current = FALSE, !.listed = FALSE] \in Resolving
    BY DEF ResOK, Resolving
  <2> QED
    BY <2>1 DEF Forget
<1>2. \A r \in Resolution :
        /\ after[r].phase = rs[r].phase /\ after[r].tok = rs[r].tok
        /\ after[r].ver = rs[r].ver /\ after[r].got = rs[r].got /\ after[r].proc = rs[r].proc
  BY DEF Forget, ResOK, Resolving
<1> HIDE DEF after
<1>3. \A r \in Resolution : Retires(rs[r], after[r], c, lo)
  BY <1>2 DEF Retires
<1>4. Safe(c, k, n, after, ls, lo)
  BY <1>1, <1>3, RetiredSafe DEF ResOK
<1>5. ResOK(after) /\ JoinOK(d, after)
  BY <1>1, <1>2 DEF ResOK, JoinOK
<1> QED
  BY <1>2, <1>4, <1>5 DEF after
-----------------------------------------------------------------------------
LEMMA GetUserClientKeeps ==
  ASSUME IInv, NEW r \in Resolution, NEW p \in Process, GetUserClient(r, p)
  PROVE  Core'
<1>1. NewResolution(r, p) /\ UNCHANGED <<cred, token, issued, login, disc, lost>>
  BY DEF GetUserClient
<1> DEFINE v == [Blank EXCEPT !.phase = "load", !.proc = p, !.current = TRUE, !.listed = TRUE]
<1>2. v \in Resolving /\ v.tok = 0 /\ v.phase = "load"
  BY DEF Blank, Resolving, Busy
<1>3. res[r].phase \in Ended /\ ~Joined(r) /\ res' = [res EXCEPT ![r] = v]
  BY <1>1 DEF NewResolution
<1> HIDE DEF v
<1>4. Goes(res[r], v, r, cred, lost, disc)
  BY <1>2, <1>3, Phases DEF Goes, Retires, Joined
<1>5. ResOK(res') /\ JoinOK(disc, res') /\ Safe(cred, token, issued, res', login, lost)
  BY <1>2, <1>3, <1>4, CallGoes DEF IInv, OthersOK, Core
<1> QED
  BY <1>1, <1>5 DEF IInv, Core

LEMMA LoadKeeps ==
  ASSUME IInv, NEW r \in Resolution, Load(r)
  PROVE  Core'
<1>1. /\ res[r].phase \in {"load", "wait"}
      /\ UNCHANGED <<cred, token, issued, login, disc, lost>>
  BY DEF Load
<1>2. issued \in Token /\ OneRow(cred) /\ ResOK(res)
  BY DEF IInv, OthersOK, Core
<1>3. ResOK(res') /\ JoinOK(disc, res') /\ Safe(cred, token, issued, res', login, lost)
  <2>1. CASE cred = {}
    <3>1. res' = End(r, "notFound")
      BY <2>1 DEF Load
    <3> QED
      BY <3>1, <1>1, <1>2, EndSafe DEF IInv, Core, Outcome
  <2>2. CASE cred # {}
    <3> DEFINE w == res[r]
               v(row) == [w EXCEPT !.phase = "decide", !.ver = row.ver, !.tok = row.tok,
                                   !.polled = w.polled /\ row.ver = w.ver]
    <3>2. PICK row \in cred : res' = [res EXCEPT ![r] = v(row)]
      BY <2>2 DEF Load
    <3>1. row \in Row /\ cred = {row}
      BY <1>2 DEF OneRow
    <3>4. w \in Resolving
      BY <1>2 DEF ResOK
    <3>5. /\ v(row) \in Resolving /\ v(row).phase = "decide"
          /\ v(row).tok = row.tok /\ v(row).ver = row.ver /\ v(row).proc = w.proc
      <4>1. (w.polled /\ row.ver = w.ver) \in BOOLEAN /\ row.ver \in Nat /\ row.tok \in Token
        BY <3>1 DEF Row
      <4> QED
        BY <3>4, <4>1 DEF Resolving, Busy
    <3> HIDE DEF v
    <3>6. Goes(res[r], v(row), r, cred, lost, disc)
      BY <1>1, <3>1, <3>5, Phases DEF Goes, Retires, Row
    <3> QED
      BY <1>2, <3>2, <3>5, <3>6, CallGoes DEF IInv, Core
  <2> QED
    BY <2>1, <2>2
<1> QED
  BY <1>1, <1>3 DEF IInv, Core

(* A client is cached: the call ends.                                                 *)
LEMMA CachedKeeps ==
  ASSUME NEW r \in Resolution, NEW t, CacheUserClient(r, t)
  PROVE  \E outcome \in Outcome : res' = End(r, outcome)
  BY DEF CacheUserClient, Outcome

LEMMA DecideKeeps ==
  ASSUME IInv, NEW r \in Resolution, Decide(r)
  PROVE  Core'
<1>1. res[r].phase = "decide" /\ UNCHANGED <<cred, token, issued, login, disc, lost>>
  BY DEF Decide
<1>2. issued \in Token /\ OneRow(cred) /\ ResOK(res)
  BY DEF IInv, OthersOK, Core
<1>3. ResOK(res') /\ JoinOK(disc, res') /\ Safe(cred, token, issued, res', login, lost)
  <2>1. CASE res[r].polled \/ MustRefreshUserToken(res[r].proc, res[r].tok)
    <3> DEFINE w == res[r]
               to == IF age[res[r].tok] = "expired" THEN "revoke" ELSE "lease"
               v == [w EXCEPT !.phase = to, !.polled = FALSE]
    <3>1. res' = [res EXCEPT ![r] = v]
      BY <2>1 DEF Decide
    <3>2. w \in Resolving /\ w.tok \in Token /\ to \in {"revoke", "lease"}
      BY <1>1, <1>2, Phases DEF ResOK
    <3> HIDE DEF to
    <3>3. /\ v \in Resolving /\ v.phase = to /\ v.tok = w.tok /\ v.ver = w.ver
          /\ v.proc = w.proc
      BY <3>2 DEF Resolving, Busy
    <3> HIDE DEF v
    <3>4. Goes(res[r], v, r, cred, lost, disc)
      BY <1>1, <3>2, <3>3, Phases DEF Goes, Retires
    <3> QED
      BY <1>2, <3>1, <3>3, <3>4, CallGoes DEF IInv, Core
  <2>2. CASE ~(res[r].polled \/ MustRefreshUserToken(res[r].proc, res[r].tok))
    <3>1. PICK outcome \in Outcome : res' = End(r, outcome)
      BY <2>2, CachedKeeps DEF Decide
    <3> QED
      BY <3>1, <1>1, <1>2, EndSafe DEF IInv, Core
  <2> QED
    BY <2>1, <2>2
<1> QED
  BY <1>1, <1>3 DEF IInv, Core

LEMMA TryAcquireKeeps ==
  ASSUME IInv, NEW r \in Resolution, TryAcquireRefreshLease(r)
  PROVE  Core'
<1>1. res[r].phase = "lease" /\ UNCHANGED <<token, issued, login, disc, lost>>
  BY DEF TryAcquireRefreshLease
<1>2. /\ issued \in Token /\ OneRow(cred) /\ ResOK(res) /\ JoinOK(disc, res)
      /\ Safe(cred, token, issued, res, login, lost)
      /\ res[r] \in Resolving /\ res[r].tok \in Token
  BY <1>1, Phases DEF IInv, OthersOK, Core, ResOK
<1> DEFINE w == res[r]
<1>3. /\ OneRow(cred') /\ ResOK(res') /\ JoinOK(disc, res')
      /\ Safe(cred', token, issued, res', login, lost)
  <2>1. CASE cred = {} /\ res' = End(r, "notFound") /\ UNCHANGED cred
    BY <1>1, <1>2, <2>1, EndSafe DEF Outcome
  <2>2. ASSUME NEW row \in cred, Leasable(r, row),
               cred' = {[row EXCEPT !.lease = r, !.over = FALSE]},
               res' = [res EXCEPT ![r].phase = "github"]
        PROVE  /\ OneRow(cred') /\ ResOK(res') /\ JoinOK(disc, res')
               /\ Safe(cred', token, issued, res', login, lost)
    <3> DEFINE after == [row EXCEPT !.lease = r, !.over = FALSE]
               v == [w EXCEPT !.phase = "github"]
    <3>1. row \in Row /\ cred = {row}
      BY <1>2 DEF OneRow
    <3>2. /\ after \in Row /\ after.tok = row.tok /\ after.ver = row.ver
          /\ after.lease = r /\ ~after.over
      BY <3>1 DEF Row
    <3>3. res' = [res EXCEPT ![r] = v]
      BY <2>2
    <3>4. /\ v \in Resolving /\ v.phase = "github" /\ v.tok = w.tok /\ v.ver = w.ver
          /\ v.proc = w.proc
      BY <1>2, Phases DEF Resolving
    <3>5. cred' = {after}
      BY <2>2
    <3> HIDE DEF after, v
    <3>6. Safe({after}, token, issued, res, login, lost)
      <4>1. \A q \in Resolution : ~(row.lease = q /\ ~row.over)
        BY <2>2, AuthorizationAssumption DEF Leasable
      <4>2. Safe({row}, token, issued, res, login, lost)
        BY <1>2, <3>1
      <4> QED
        BY <3>2, <4>1, <4>2, LeaseSafe
    <3>7. Safe({after}, token, issued, res', login, lost)
      BY <1>1, <1>2, <3>2, <3>3, <3>4, <3>6, SentSafe DEF ResOK
    <3>8. ResOK(res') /\ JoinOK(disc, res')
      BY <1>1, <1>2, <3>3, <3>4, Phases DEF ResOK, JoinOK
    <3> QED
      BY <3>2, <3>5, <3>7, <3>8 DEF OneRow
  <2>3. CASE res' = [res EXCEPT ![r] = [@ EXCEPT !.phase = "wait", !.polled = TRUE]]
             /\ UNCHANGED cred
    <3> DEFINE v == [w EXCEPT !.phase = "wait", !.polled = TRUE]
    <3>1. res' = [res EXCEPT ![r] = v]
      BY <2>3
    <3>2. /\ v \in Resolving /\ v.phase = "wait" /\ v.tok = w.tok /\ v.ver = w.ver
          /\ v.proc = w.proc
      BY <1>2, Phases DEF Resolving
    <3> HIDE DEF v
    <3>3. Goes(res[r], v, r, cred, lost, disc)
      BY <1>1, <1>2, <3>2, Phases DEF Goes, Retires
    <3> DEFINE then == [res EXCEPT ![r] = v]
    <3>4. /\ ResOK(then) /\ JoinOK(disc, then)
          /\ Safe(cred, token, issued, then, login, lost)
      BY <1>2, <3>2, <3>3, CallGoes
    <3>5. res' = then
      BY <3>1
    <3> HIDE DEF then
    <3> QED
      BY <1>2, <2>3, <3>4, <3>5
  <2> QED
    BY <2>1, <2>2, <2>3 DEF TryAcquireRefreshLease
<1> QED
  BY <1>1, <1>3 DEF IInv, Core

LEMMA StopWaitingKeeps ==
  ASSUME IInv, NEW r \in Resolution, StopWaiting(r)
  PROVE  Core'
<1>1. /\ res[r].phase = "wait" /\ res' = End(r, "failed")
      /\ UNCHANGED <<cred, token, issued, login, disc, lost>>
  BY DEF StopWaiting
<1>2. ResOK(res') /\ JoinOK(disc, res') /\ Safe(cred, token, issued, res', login, lost)
  BY <1>1, EndSafe DEF IInv, OthersOK, Core, Outcome
<1> QED
  BY <1>1, <1>2 DEF IInv, Core

(* A call leaves GitHub, or the write, without a token.                               *)
LEMMA ReleasesCall ==
  ASSUME NEW c, OneRow(c), NEW k, NEW n \in Token, NEW ls, NEW lo, NEW d, NEW rs, ResOK(rs),
         JoinOK(d, rs), Safe(c, k, n, rs, ls, lo), NEW r \in Resolution,
         rs[r].phase \in Decided,
         rs[r].phase = "commit" => \A row \in c : row.tok = rs[r].tok => rs[r].tok \in lo,
         NEW x \in {"release", "recheck", "revoke", "delete"}
  PROVE  LET after == [rs EXCEPT ![r] = [@ EXCEPT !.phase = x, !.bad = TRUE]]
         IN ResOK(after) /\ JoinOK(d, after) /\ Safe(c, k, n, after, ls, lo)
<1> DEFINE w == rs[r]
           v == [w EXCEPT !.phase = x, !.bad = TRUE]
<1>1. w \in Resolving /\ w.tok \in Token
  BY DEF ResOK
<1>2. /\ v \in Resolving /\ v.phase = x /\ v.tok = w.tok /\ v.ver = w.ver
      /\ v.proc = w.proc
  BY <1>1, Phases DEF Resolving
<1> HIDE DEF v
<1>3. Goes(rs[r], v, r, c, lo, d)
  BY <1>1, <1>2, Phases DEF Goes, Retires
<1> DEFINE after == [rs EXCEPT ![r] = v]
<1>4. ResOK(after) /\ JoinOK(d, after) /\ Safe(c, k, n, after, ls, lo)
  BY <1>2, <1>3, CallGoes
<1> QED
  BY <1>4 DEF v

LEMMA ReleasesPhase ==
  ASSUME NEW c, OneRow(c), NEW k, NEW n \in Token, NEW ls, NEW lo, NEW d, NEW rs, ResOK(rs),
         JoinOK(d, rs), Safe(c, k, n, rs, ls, lo), NEW r \in Resolution,
         rs[r].phase \in Decided,
         rs[r].phase = "commit" => \A row \in c : row.tok = rs[r].tok => rs[r].tok \in lo,
         NEW x \in {"release", "recheck", "revoke", "delete"}
  PROVE  LET after == [rs EXCEPT ![r].phase = x]
         IN ResOK(after) /\ JoinOK(d, after) /\ Safe(c, k, n, after, ls, lo)
<1> DEFINE w == rs[r]
           v == [w EXCEPT !.phase = x]
<1>1. w \in Resolving /\ w.tok \in Token
  BY DEF ResOK
<1>2. /\ v \in Resolving /\ v.phase = x /\ v.tok = w.tok /\ v.ver = w.ver
      /\ v.proc = w.proc
  BY <1>1, Phases DEF Resolving
<1> HIDE DEF v
<1>3. Goes(rs[r], v, r, c, lo, d)
  BY <1>1, <1>2, Phases DEF Goes, Retires
<1> DEFINE after == [rs EXCEPT ![r] = v]
<1>4. ResOK(after) /\ JoinOK(d, after) /\ Safe(c, k, n, after, ls, lo)
  BY <1>2, <1>3, CallGoes
<1> QED
  BY <1>4 DEF v

(* GitHub rotates a token that a call has sent: as issuing one, then spending one.    *)
LEMMA RotateSplits ==
  ASSUME IInv, NEW r \in Resolution, NEW t, t = res[r].tok, t \in Token, Rotate(t)
  PROVE  /\ issued' \in Token /\ issued' = issued + 1
         /\ token' = [[token EXCEPT ![issued'] = "live"] EXCEPT ![t] = "rotated"]
         /\ [token EXCEPT ![issued'] = "live"]
              \in [Token -> {"none", "live", "rotated", "revoked"}]
<1>1. PICK m \in Token : /\ issued' = m /\ m = issued + 1
                         /\ token' = [token EXCEPT ![t] = "rotated", ![m] = "live"]
  BY DEF Rotate, Issue
<1>2. t <= issued /\ issued \in Token
  BY DEF IInv, Core, OthersOK, Safe, Known
<1>3. t # m
  BY <1>1, <1>2, AuthorizationAssumption DEF Token
<1>4. token \in [Token -> {"none", "live", "rotated", "revoked"}]
  BY DEF IInv, OthersOK
<1>5. [token EXCEPT ![t] = "rotated", ![m] = "live"]
        = [[token EXCEPT ![m] = "live"] EXCEPT ![t] = "rotated"]
  BY <1>3, <1>4
<1>6. [token EXCEPT ![m] = "live"] \in [Token -> {"none", "live", "rotated", "revoked"}]
  BY <1>4
<1> QED
  BY <1>1, <1>5, <1>6

LEMMA RefreshUserTokenKeeps ==
  ASSUME IInv, NEW r \in Resolution, RefreshUserToken(r)
  PROVE  Core'
<1>1. res[r].phase = "github" /\ UNCHANGED <<cred, login, disc>>
  BY DEF RefreshUserToken
<1>2. /\ issued \in Token /\ OneRow(cred) /\ ResOK(res) /\ JoinOK(disc, res)
      /\ Safe(cred, token, issued, res, login, lost)
      /\ res[r] \in Resolving /\ res[r].tok \in Token /\ res \in [Resolution -> Resolving]
      /\ res[r].phase \in Decided /\ res[r].phase # "commit"
      /\ token \in [Token -> {"none", "live", "rotated", "revoked"}]
  BY <1>1, Phases DEF IInv, OthersOK, Core, ResOK
<1> DEFINE w == res[r]
           t == w.tok
           first == [token EXCEPT ![issued'] = "live"]
<1>3. ASSUME Rotate(t)
      PROVE  /\ issued' \in Token /\ token' = [first EXCEPT ![t] = "rotated"]
             /\ first \in [Token -> {"none", "live", "rotated", "revoked"}]
             /\ Safe(cred, first, issued', res, login, lost)
             /\ Unused(issued', cred, first, issued', res)
             /\ Uncarried(issued', res, login)
  <2>1. /\ issued' \in Token /\ issued' = issued + 1
        /\ token' = [first EXCEPT ![t] = "rotated"]
        /\ first \in [Token -> {"none", "live", "rotated", "revoked"}]
    BY <1>2, <1>3, RotateSplits
  <2>2. first = [token EXCEPT ![issued'] = "live"]
    OBVIOUS
  <2> HIDE DEF first
  <2>3. /\ OneRow(cred) /\ token \in [Token -> {"none", "live", "rotated", "revoked"}]
        /\ issued \in Token /\ res \in [Resolution -> Resolving]
        /\ Safe(cred, token, issued, res, login, lost)
    BY <1>2
  <2>4. Issues(token, issued, issued', first)
    BY <2>1, <2>2 DEF Issues
  <2>5. /\ Safe(cred, first, issued', res, login, lost)
        /\ Unused(issued', cred, first, issued', res)
        /\ Uncarried(issued', res, login)
    BY <2>3, <2>4, IssuedSafe
  <2> QED
    BY <2>1, <2>5
<1> HIDE DEF first
<1>4. ResOK(res') /\ JoinOK(disc, res') /\ Safe(cred, token', issued', res', login, lost')
  <2>1. CASE /\ Rotate(t) /\ UNCHANGED lost
             /\ res' = [res EXCEPT ![r] = [@ EXCEPT !.phase = "commit", !.got = issued']]
    <3> DEFINE v == [w EXCEPT !.phase = "commit", !.got = issued']
    <3>1. res' = [res EXCEPT ![r] = v]
      BY <2>1
    <3>2. /\ v \in Resolving /\ v.phase = "commit" /\ v.tok = t /\ v.ver = w.ver
          /\ v.proc = w.proc /\ v.got = issued'
      BY <1>2, <1>3, <2>1, Phases DEF Resolving
    <3> HIDE DEF v
    <3>3. Safe(cred, token', issued', res', login, lost)
      <4>1. /\ token' = [first EXCEPT ![t] = "rotated"]
            /\ first \in [Token -> {"none", "live", "rotated", "revoked"}]
            /\ Safe(cred, first, issued', res, login, lost)
            /\ Unused(issued', cred, first, issued', res)
            /\ Uncarried(issued', res, login)
        BY <1>3, <2>1
      <4> QED
        BY <1>1, <1>2, <3>1, <3>2, <4>1, FetchedSafe
    <3>4. ResOK(res') /\ JoinOK(disc, res')
      BY <1>1, <1>2, <3>1, <3>2, Phases DEF ResOK, JoinOK
    <3> QED
      BY <2>1, <3>3, <3>4
  <2>2. CASE /\ UNCHANGED <<token, issued, lost>>
             /\ res' = [res EXCEPT ![r] = [@ EXCEPT !.phase = "release", !.bad = TRUE]]
    <3> DEFINE then == [res EXCEPT ![r] = [@ EXCEPT !.phase = "release", !.bad = TRUE]]
    <3>1. /\ ResOK(then) /\ JoinOK(disc, then)
          /\ Safe(cred, token, issued, then, login, lost)
      BY <1>2, ReleasesCall
    <3>2. res' = then
      BY <2>2
    <3> HIDE DEF then
    <3> QED
      BY <2>2, <3>1, <3>2
  <2>3. CASE /\ UNCHANGED <<token, issued, lost>>
             /\ res' = [res EXCEPT ![r].phase = "release"]
    <3> DEFINE then == [res EXCEPT ![r].phase = "release"]
    <3>1. /\ ResOK(then) /\ JoinOK(disc, then)
          /\ Safe(cred, token, issued, then, login, lost)
      BY <1>2, ReleasesPhase
    <3>2. res' = then
      BY <2>3
    <3> HIDE DEF then
    <3> QED
      BY <2>3, <3>1, <3>2
  <2>4. CASE /\ Rotate(t) /\ lost' = lost \cup {t}
             /\ res' = [res EXCEPT ![r].phase = "release"]
    <3> DEFINE then == [res EXCEPT ![r].phase = "release"]
    <3>1. Safe(cred, token', issued', res, login, lost')
      BY <1>2, <1>3, <2>4, SpentSafe
    <3>2. /\ ResOK(then) /\ JoinOK(disc, then)
          /\ Safe(cred, token', issued', then, login, lost')
      BY <1>2, <1>3, <2>4, <3>1, ReleasesPhase
    <3>3. res' = then
      BY <2>4
    <3> HIDE DEF then
    <3> QED
      BY <3>2, <3>3
  <2> QED
    BY <2>1, <2>2, <2>3, <2>4 DEF RefreshUserToken
<1> QED
  BY <1>1, <1>4 DEF IInv, Core

(* The token that a call or a callback carries replaces the row.                      *)
LEMMA CompleteKeeps ==
  ASSUME IInv, NEW r \in Resolution, res[r].phase = "commit", NEW ver \in Nat,
         NEW outcome \in Outcome, UNCHANGED <<token, issued, login, disc, lost>>,
         res' = End(r, outcome),
         cred' = {[ver |-> ver, tok |-> res[r].got, lease |-> NoOne, over |-> FALSE]}
  PROVE  Core'
<1> DEFINE t == res[r].got
<1>1. /\ issued \in Token /\ OneRow({}) /\ ResOK(res) /\ JoinOK(disc, res)
      /\ Safe({}, token, issued, res, login, lost)
  BY DeletedSafe DEF IInv, OthersOK, Core, OneRow
<1>2. Unused(t, {}, token, issued, res)
  BY <1>1 DEF Safe, Carried
<1>3. ResOK(res') /\ JoinOK(disc, res') /\ Safe({}, token, issued, res', login, lost)
  BY <1>1, EndSafe
<1>4. PICK v \in Resolving : res' = [res EXCEPT ![r] = v] /\ v.tok = 0 /\ v.phase \in Ended
  BY EndCall
<1>5. res'[r] = v /\ \A q \in Resolution \ {r} : res'[q] = res[q]
  BY <1>1, <1>4 DEF ResOK
<1>6. Unused(t, {}, token, issued, res')
  <2>1. t \in Token /\ t # 0
    BY <1>2 DEF Unused, Token
  <2> QED
    BY <1>2, <1>4, <1>5, <2>1 DEF Unused
<1>7. Uncarried(t, res', login)
  BY <1>1, <1>4, <1>5, Phases DEF Safe, Differ, Uncarried
<1>8. Safe(cred', token, issued, res', login, lost)
  BY <1>3, <1>6, <1>7, StoredSafe
<1>9. OneRow(cred')
  <2>1. t \in Token
    BY <1>2 DEF Unused
  <2> QED
    BY <2>1 DEF OneRow, Row
<1> QED
  BY <1>3, <1>8, <1>9 DEF IInv, Core

LEMMA CompleteRefreshKeeps ==
  ASSUME IInv, NEW r \in Resolution, CompleteRefresh(r)
  PROVE  Core'
<1>1. res[r].phase = "commit" /\ UNCHANGED <<token, issued, login, disc>>
  BY DEF CompleteRefresh
<1>2. /\ issued \in Token /\ OneRow(cred) /\ ResOK(res) /\ JoinOK(disc, res)
      /\ Safe(cred, token, issued, res, login, lost)
      /\ res[r] \in Resolving /\ res[r].tok \in Token
  BY <1>1, Phases DEF IInv, OthersOK, Core, ResOK
<1>3. ASSUME NEW row \in cred, UNCHANGED lost,
             cred' = {[ver |-> row.ver + 1, tok |-> res[r].got, lease |-> NoOne, over |-> FALSE]},
             CacheUserClient(r, res[r].got)
      PROVE  Core'
  <2>1. PICK outcome \in Outcome : res' = End(r, outcome)
    BY <1>3, CachedKeeps
  <2>2. row.ver + 1 \in Nat
    BY <1>2 DEF OneRow, Row
  <2> QED
    BY <1>1, <1>3, <2>1, <2>2, CompleteKeeps
<1>4. CASE /\ ~\E row \in cred : row.ver = res[r].ver /\ row.lease = r
           /\ res' = [res EXCEPT ![r].phase = "recheck"] /\ UNCHANGED <<cred, lost>>
  <2> DEFINE then == [res EXCEPT ![r].phase = "recheck"]
  <2>1. \A row \in cred : row.tok = res[r].tok => res[r].tok \in lost
    BY <1>1, <1>2, <1>4 DEF Safe, Holding
  <2>2. ResOK(then) /\ JoinOK(disc, then) /\ Safe(cred, token, issued, then, login, lost)
    BY <1>1, <1>2, <2>1, Phases, ReleasesPhase
  <2>3. res' = then
    BY <1>4
  <2> HIDE DEF then
  <2> QED
    BY <1>1, <1>4, <2>2, <2>3 DEF IInv, Core
<1>5. CASE /\ res' = [res EXCEPT ![r].phase = "release"]
           /\ lost' = lost \cup {res[r].tok} /\ UNCHANGED cred
  <2> DEFINE then == [res EXCEPT ![r].phase = "release"]
  <2>1. Safe(cred, token, issued, res, login, lost')
    BY <1>2, <1>5, LostSafe
  <2>4. res[r].phase \in Decided /\ res[r].tok \in lost'
    BY <1>1, <1>5, Phases
  <2>2. ResOK(then) /\ JoinOK(disc, then) /\ Safe(cred, token, issued, then, login, lost')
    BY <1>2, <2>1, <2>4, ReleasesPhase
  <2>3. res' = then
    BY <1>5
  <2> HIDE DEF then
  <2> QED
    BY <1>1, <1>5, <2>2, <2>3 DEF IInv, Core
<1> QED
  BY <1>3, <1>4, <1>5 DEF CompleteRefresh

LEMMA RecheckKeeps ==
  ASSUME IInv, NEW r \in Resolution, Recheck(r)
  PROVE  Core'
<1>1. res[r].phase = "recheck" /\ UNCHANGED <<cred, token, issued, login, disc, lost>>
  BY DEF Recheck
<1>2. /\ issued \in Token /\ OneRow(cred) /\ ResOK(res) /\ JoinOK(disc, res)
      /\ Safe(cred, token, issued, res, login, lost)
  BY DEF IInv, OthersOK, Core
<1>3. ResOK(res') /\ JoinOK(disc, res') /\ Safe(cred, token, issued, res', login, lost)
  <2>1. ASSUME NEW row \in cred, CacheUserClient(r, row.tok)
        PROVE  ResOK(res') /\ JoinOK(disc, res')
               /\ Safe(cred, token, issued, res', login, lost)
    <3>1. PICK outcome \in Outcome : res' = End(r, outcome)
      BY <2>1, CachedKeeps
    <3> QED
      BY <1>1, <1>2, <3>1, EndSafe
  <2>2. CASE res' = [res EXCEPT ![r].phase = "release"]
    <3> DEFINE then == [res EXCEPT ![r].phase = "release"]
    <3>1. res[r].phase \in Decided \ {"commit"}
      BY <1>1, Phases
    <3>2. /\ ResOK(then) /\ JoinOK(disc, then)
          /\ Safe(cred, token, issued, then, login, lost)
      BY <1>2, <3>1, ReleasesPhase
    <3>3. res' = then
      BY <2>2
    <3> HIDE DEF then
    <3> QED
      BY <3>2, <3>3
  <2> QED
    BY <2>1, <2>2 DEF Recheck
<1> QED
  BY <1>1, <1>3 DEF IInv, Core

LEMMA ReleaseRefreshLeaseKeeps ==
  ASSUME IInv, NEW r \in Resolution, ReleaseRefreshLease(r)
  PROVE  Core'
<1>1. res[r].phase = "release" /\ UNCHANGED <<token, issued, login, disc, lost>>
  BY DEF ReleaseRefreshLease
<1>2. /\ issued \in Token /\ OneRow(cred) /\ ResOK(res) /\ JoinOK(disc, res)
      /\ Safe(cred, token, issued, res, login, lost)
      /\ res[r].phase \in Decided /\ res[r].phase # "commit"
  BY <1>1, Phases DEF IInv, OthersOK, Core
<1>3. OneRow(cred') /\ Safe(cred', token, issued, res, login, lost)
  <2>1. CASE cred = {}
    <3>1. cred' = {}
      BY <2>1 DEF ReleaseRefreshLease
    <3> QED
      BY <1>2, <2>1, <3>1 DEF OneRow
  <2>2. CASE cred # {}
    <3>1. PICK row \in Row : cred = {row}
      BY <1>2, <2>2 DEF OneRow
    <3> DEFINE after == IF Releases(r, row) THEN [row EXCEPT !.lease = NoOne, !.over = FALSE]
                        ELSE row
    <3>2. cred' = {after}
      BY <3>1 DEF ReleaseRefreshLease
    <3>3. /\ after \in Row /\ after.tok = row.tok /\ after.ver = row.ver
          /\ row.lease # r => after = row
      BY DEF Row, Releases
    <3> HIDE DEF after
    <3>4. Safe({row}, token, issued, res, login, lost)
      BY <1>2, <3>1
    <3>5. Safe({after}, token, issued, res, login, lost)
      BY <1>1, <3>3, <3>4, LeaseSafe
    <3> QED
      BY <3>2, <3>3, <3>5 DEF OneRow
  <2> QED
    BY <2>1, <2>2
<1>4. ResOK(res') /\ JoinOK(disc, res') /\ Safe(cred', token, issued, res', login, lost)
  <2>1. CASE res[r].bad
    <3> DEFINE then == [res EXCEPT ![r].phase = "revoke"]
    <3>1. /\ ResOK(then) /\ JoinOK(disc, then)
          /\ Safe(cred', token, issued, then, login, lost)
      BY <1>2, <1>3, ReleasesPhase
    <3>2. res' = then
      BY <2>1 DEF ReleaseRefreshLease
    <3> HIDE DEF then
    <3> QED
      BY <3>1, <3>2
  <2>2. CASE ~res[r].bad
    <3>1. res' = End(r, "failed")
      BY <2>2 DEF ReleaseRefreshLease
    <3> QED
      BY <1>2, <1>3, <3>1, EndSafe DEF Outcome
  <2> QED
    BY <2>1, <2>2
<1> QED
  BY <1>1, <1>3, <1>4 DEF IInv, Core

LEMMA RevokeRefusedKeeps ==
  ASSUME IInv, NEW r \in Resolution, RevokeRefused(r)
  PROVE  Core'
<1>1. res[r].phase = "revoke" /\ UNCHANGED <<cred, token, issued, login, disc, lost>>
  BY DEF RevokeRefused
<1> DEFINE mid == Forget(res[r].proc, res)
           then == [mid EXCEPT ![r].phase = "delete"]
<1>2. /\ issued \in Token /\ OneRow(cred) /\ ResOK(res) /\ JoinOK(disc, res)
      /\ Safe(cred, token, issued, res, login, lost)
  BY DEF IInv, OthersOK, Core
<1>3. /\ ResOK(mid) /\ JoinOK(disc, mid) /\ Safe(cred, token, issued, mid, login, lost)
      /\ mid[r].phase = res[r].phase
  BY <1>2, ForgetSafe
<1>4. res' = then
  BY DEF RevokeRefused
<1>5. mid[r].phase \in Decided /\ mid[r].phase # "commit"
  BY <1>1, <1>3, Phases
<1> HIDE DEF mid
<1>6. ResOK(then) /\ JoinOK(disc, then) /\ Safe(cred, token, issued, then, login, lost)
  BY <1>2, <1>3, <1>5, ReleasesPhase
<1> HIDE DEF then
<1> QED
  BY <1>1, <1>4, <1>6 DEF IInv, Core

LEMMA DeleteRefusedKeeps ==
  ASSUME IInv, NEW r \in Resolution, DeleteRefused(r)
  PROVE  Core'
<1>1. /\ res[r].phase = "delete" /\ cred' = {} /\ res' = End(r, "reauthorize")
      /\ UNCHANGED <<token, issued, login, disc, lost>>
  BY DEF DeleteRefused, DeleteCredentials
<1>2. /\ issued \in Token /\ OneRow({}) /\ ResOK(res) /\ JoinOK(disc, res)
      /\ Safe({}, token, issued, res, login, lost)
  BY DeletedSafe DEF IInv, OthersOK, Core, OneRow
<1>3. ResOK(res') /\ JoinOK(disc, res') /\ Safe({}, token, issued, res', login, lost)
  BY <1>1, <1>2, EndSafe DEF Outcome
<1> QED
  BY <1>1, <1>2, <1>3 DEF IInv, Core
-----------------------------------------------------------------------------
(* The callbacks of a login, and the user forgotten on the way.                       *)
LEMMA ForgetKeeps ==
  ASSUME IInv, NEW p, res' = Forget(p, res),
         UNCHANGED <<cred, token, issued, lost>>, LoginOK(login'),
         \A l \in Login : \/ login'[l].phase = login[l].phase /\ login'[l].tok = login[l].tok
                          \/ login'[l].phase # "upsert",
         disc' \in Disconnecting, UNCHANGED disc \/ disc'.phase # "joined"
  PROVE  Core'
<1>1. /\ issued \in Token /\ OneRow(cred) /\ ResOK(res) /\ JoinOK(disc, res)
      /\ Safe(cred, token, issued, res, login, lost)
  BY DEF IInv, OthersOK, Core
<1>2. /\ ResOK(res') /\ JoinOK(disc, res')
      /\ Safe(cred, token, issued, res', login, lost)
  BY <1>1, ForgetSafe
<1>3. Safe(cred, token, issued, res', login', lost)
  BY <1>2, LoginsSafe
<1>4. JoinOK(disc', res')
  BY <1>2 DEF JoinOK
<1> QED
  BY <1>1, <1>2, <1>3, <1>4 DEF Core

LEMMA CallbackKeeps ==
  ASSUME IInv, UNCHANGED <<res, token, issued, lost>>, cred' = cred \/ cred' = {},
         LoginOK(login'),
         \A l \in Login : \/ login'[l].phase = login[l].phase /\ login'[l].tok = login[l].tok
                          \/ login'[l].phase # "upsert",
         disc' \in Disconnecting, UNCHANGED disc \/ disc'.phase # "joined"
  PROVE  Core'
<1>1. /\ OneRow(cred) /\ ResOK(res) /\ JoinOK(disc, res)
      /\ Safe(cred, token, issued, res, login, lost)
  BY DEF IInv, Core
<1>2. OneRow(cred') /\ Safe(cred', token, issued, res, login, lost)
  BY <1>1, DeletedSafe DEF OneRow
<1>3. Safe(cred', token, issued, res, login', lost)
  BY <1>2, LoginsSafe
<1>4. JoinOK(disc', res)
  BY <1>1 DEF JoinOK
<1> QED
  BY <1>1, <1>2, <1>3, <1>4 DEF Core

(* One callback goes on to a phase in which it carries no token to the row.           *)
LEMMA LoginGoes ==
  ASSUME LoginOK(login), NEW l \in Login, NEW v \in Callback, v.phase # "upsert",
         v.phase = "adopt" => v.tok \in Token, NEW after, after = [login EXCEPT ![l] = v]
  PROVE  /\ LoginOK(after)
         /\ \A m \in Login : \/ after[m].phase = login[m].phase /\ after[m].tok = login[m].tok
                             \/ after[m].phase # "upsert"
  BY DEF LoginOK

LEMMA LoginToGoes ==
  ASSUME LoginOK(login), NEW l \in Login,
         NEW x \in {"attempt", "session", "revoke", "delete", "sessions"}, LoginTo(l, x)
  PROVE  /\ LoginOK(login')
         /\ \A m \in Login : \/ login'[m].phase = login[m].phase /\ login'[m].tok = login[m].tok
                             \/ login'[m].phase # "upsert"
<1> DEFINE w == login[l]
           v == [w EXCEPT !.phase = x]
<1>1. login' = [login EXCEPT ![l] = v]
  BY DEF LoginTo
<1>2. w \in Callback
  BY DEF LoginOK
<1>3. v \in Callback /\ v.phase = x
  BY <1>2 DEF Callback
<1> HIDE DEF v
<1> QED
  BY <1>1, <1>3, LoginGoes

LEMMA LoginEndsGoes ==
  ASSUME LoginOK(login), NEW l \in Login, LoginEnds(l)
  PROVE  /\ LoginOK(login')
         /\ \A m \in Login : \/ login'[m].phase = login[m].phase /\ login'[m].tok = login[m].tok
                             \/ login'[m].phase # "upsert"
<1> DEFINE v == [phase |-> "done", proc |-> NoOne, tok |-> 0]
<1>1. v \in Callback /\ v.phase = "done"
  BY DEF Callback
<1>2. login' = [login EXCEPT ![l] = v]
  BY DEF LoginEnds
<1> HIDE DEF v
<1> QED
  BY <1>1, <1>2, LoginGoes

LEMMA Steady == IInv => LoginOK(login) /\ disc \in Disconnecting
  BY DEF IInv, Core, JoinOK

(* The steps of a callback that carry no token.                                       *)
LEMMA LoginKeeps ==
  ASSUME IInv, NEW l \in Login,
         \/ StartLogin(l) \/ (\E p \in Process : ConsumeAttempt(l, p)) \/ AuthorizeUser(l)
         \/ CreateLoginSession(l) \/ RevokeFailedLogin(l) \/ DeleteFailedLogin(l)
         \/ RevokeUserSessions(l) \/ EndSession(l)
  PROVE  Core'
<1>1. CASE StartLogin(l)
  BY <1>1, Steady, LoginToGoes, CallbackKeeps DEF StartLogin
<1>2. ASSUME NEW p \in Process, ConsumeAttempt(l, p) PROVE Core'
  <2>1. CASE login' = [login EXCEPT ![l] = [phase |-> "exchange", proc |-> p, tok |-> 0]]
    <3> DEFINE v == [phase |-> "exchange", proc |-> p, tok |-> 0]
    <3>1. v \in Callback /\ v.phase = "exchange"
      BY DEF Callback
    <3>2. login' = [login EXCEPT ![l] = v]
      BY <2>1
    <3> HIDE DEF v
    <3>3. /\ LoginOK(login')
          /\ \A m \in Login : \/ login'[m].phase = login[m].phase /\ login'[m].tok = login[m].tok
                              \/ login'[m].phase # "upsert"
      BY <3>1, <3>2, Steady, LoginGoes
    <3> QED
      BY <1>2, <3>3, Steady, CallbackKeeps DEF ConsumeAttempt
  <2>2. CASE LoginEnds(l)
    BY <1>2, <2>2, Steady, LoginEndsGoes, CallbackKeeps DEF ConsumeAttempt
  <2> QED
    BY <1>2, <2>1, <2>2 DEF ConsumeAttempt
<1>3. CASE AuthorizeUser(l)
  BY <1>3, Steady, LoginToGoes, ForgetKeeps DEF AuthorizeUser
<1>4. CASE CreateLoginSession(l)
  <2>1. LoginEnds(l) \/ LoginTo(l, "revoke")
    BY <1>4 DEF CreateLoginSession
  <2>2. /\ LoginOK(login')
        /\ \A m \in Login : \/ login'[m].phase = login[m].phase /\ login'[m].tok = login[m].tok
                            \/ login'[m].phase # "upsert"
    BY <2>1, Steady, LoginEndsGoes, LoginToGoes
  <2> QED
    BY <1>4, <2>2, Steady, CallbackKeeps DEF CreateLoginSession
<1>5. CASE RevokeFailedLogin(l)
  BY <1>5, Steady, LoginToGoes, ForgetKeeps DEF RevokeFailedLogin
<1>6. CASE DeleteFailedLogin(l)
  BY <1>6, Steady, LoginToGoes, CallbackKeeps DEF DeleteFailedLogin, DeleteCredentials
<1>7. CASE RevokeUserSessions(l)
  BY <1>7, Steady, LoginEndsGoes, CallbackKeeps DEF RevokeUserSessions
<1>8. CASE EndSession(l)
  <2>1. UNCHANGED <<cred, token, issued, res, login, disc, lost>>
    BY <1>8 DEF EndSession
  <2> QED
    BY <2>1 DEF IInv, Core
<1> QED
  BY <1>1, <1>2, <1>3, <1>4, <1>5, <1>6, <1>7, <1>8

LEMMA ExchangeKeeps ==
  ASSUME IInv, NEW l \in Login, ExchangeAuthorizationCode(l)
  PROVE  Core'
<1>1. login[l].phase = "exchange" /\ UNCHANGED <<cred, res, disc, lost>>
  BY DEF ExchangeAuthorizationCode
<1>2. /\ issued \in Token /\ OneRow(cred) /\ res \in [Resolution -> Resolving]
      /\ Safe(cred, token, issued, res, login, lost) /\ LoginOK(login)
      /\ token \in [Token -> {"none", "live", "rotated", "revoked"}]
  BY DEF IInv, OthersOK, Core, ResOK
<1>3. CASE LoginEnds(l) /\ UNCHANGED <<token, issued>>
  BY <1>1, <1>3, Steady, LoginEndsGoes, CallbackKeeps
<1>4. ASSUME NEW m \in Token, Issue(m), token' = [token EXCEPT ![m] = "live"],
             login' = [login EXCEPT ![l] = [@ EXCEPT !.phase = "upsert", !.tok = m]]
      PROVE  Core'
  <2> DEFINE w == login[l]
             v == [w EXCEPT !.phase = "upsert", !.tok = m]
  <2>1. issued' = m /\ m = issued + 1
    BY <1>4 DEF Issue
  <2>2. Issues(token, issued, m, token')
    BY <1>4, <2>1 DEF Issues
  <2>3. Safe(cred, token', m, res, login, lost) /\ Unused(m, cred, token', m, res)
    BY <1>2, <2>2, IssuedSafe
  <2>4. Uncarried(m, res, login)
    BY <1>2, <2>2, IssuedSafe
  <2>5. login' = [login EXCEPT ![l] = v] /\ w \in Callback
    BY <1>2, <1>4 DEF LoginOK
  <2>6. v \in Callback /\ v.phase = "upsert" /\ v.tok = m
    BY <2>5 DEF Callback
  <2> HIDE DEF v
  <2>7. login'[l] = v /\ \A q \in Login \ {l} : login'[q] = login[q]
    BY <1>2, <2>5 DEF LoginOK
  <2>8. LoginOK(login')
    BY <1>2, <2>5, <2>6, <2>7 DEF LoginOK
  <2>9. Carried(cred, token', m, res, login')
    BY <2>3, <2>6, <2>7 DEF Safe, Carried
  <2>10. Differ(res, login')
    BY <2>3, <2>4, <2>6, <2>7 DEF Safe, Differ, Uncarried
  <2>11. Safe(cred, token', issued', res, login', lost)
    BY <2>1, <2>3, <2>9, <2>10 DEF Safe
  <2> QED
    BY <1>1, <2>8, <2>11 DEF IInv, Core
<1> QED
  BY <1>3, <1>4 DEF ExchangeAuthorizationCode

LEMMA UpsertKeeps ==
  ASSUME IInv, NEW l \in Login, UpsertCredentials(l)
  PROVE  Core'
<1>1. /\ login[l].phase = "upsert" /\ cred' = Upserted(login[l].tok) /\ LoginTo(l, "adopt")
      /\ UNCHANGED <<token, issued, res, disc, lost>>
  BY DEF UpsertCredentials
<1> DEFINE w == login[l]
           t == w.tok
           v == [w EXCEPT !.phase = "adopt"]
<1>2. /\ Safe({}, token, issued, res, login, lost) /\ LoginOK(login)
      /\ w \in Callback /\ t \in Token /\ OneRow(cred)
  BY <1>1, DeletedSafe DEF IInv, Core, LoginOK
<1>3. Unused(t, {}, token, issued, res)
  BY <1>1, <1>2 DEF Safe, Carried
<1>4. /\ login' = [login EXCEPT ![l] = v] /\ v \in Callback /\ v.phase = "adopt" /\ v.tok = t
  BY <1>1, <1>2 DEF LoginTo, Callback
<1> HIDE DEF v
<1>5. login'[l] = v /\ \A q \in Login \ {l} : login'[q] = login[q]
  BY <1>2, <1>4 DEF LoginOK
<1>6. /\ LoginOK(login')
      /\ \A m \in Login : \/ login'[m].phase = login[m].phase /\ login'[m].tok = login[m].tok
                          \/ login'[m].phase # "upsert"
  BY <1>2, <1>4, LoginGoes
<1>7. Safe({}, token, issued, res, login', lost)
  BY <1>2, <1>6, LoginsSafe
<1>8. Uncarried(t, res, login')
  BY <1>1, <1>2, <1>4, <1>5 DEF Safe, Differ, Uncarried
<1> DEFINE ver == IF cred = {} THEN 1 ELSE (CHOOSE row \in cred : TRUE).ver + 1
<1>9. cred' = {[ver |-> ver, tok |-> t, lease |-> NoOne, over |-> FALSE]}
  BY <1>1 DEF Upserted
<1>10. ver \in Nat
  <2>1. CASE cred = {}
    BY <2>1
  <2>2. CASE cred # {}
    <3>1. (CHOOSE row \in cred : TRUE) \in cred
      BY <2>2
    <3>2. \A row \in cred : row.ver \in Nat
      BY <1>2 DEF OneRow, Row
    <3> QED
      BY <2>2, <3>1, <3>2
  <2> QED
    BY <2>1, <2>2
<1> HIDE DEF ver
<1>11. Safe(cred', token, issued, res, login', lost)
  BY <1>3, <1>7, <1>8, <1>9, StoredSafe
<1>12. OneRow(cred')
  BY <1>2, <1>9, <1>10 DEF OneRow, Row
<1> QED
  BY <1>1, <1>6, <1>11, <1>12 DEF IInv, Core
-----------------------------------------------------------------------------
(* The disconnect.                                                                    *)
LEMMA DisconnectKeeps ==
  ASSUME IInv, NEW p \in Process, Disconnect(p)
  PROVE  Core'
<1>1. UNCHANGED <<cred, token, issued, login, lost>>
  BY DEF Disconnect
<1>2. CASE disc' = [phase |-> "load", proc |-> p, join |-> NoOne] /\ UNCHANGED res
  <2>1. disc' \in Disconnecting /\ disc'.phase # "joined"
    BY <1>2 DEF Disconnecting
  <2> QED
    BY <1>1, <1>2, <2>1, Steady, CallbackKeeps
<1>3. ASSUME NEW r \in Resolution, disc' = [phase |-> "joined", proc |-> p, join |-> r],
             NewResolution(r, p) \/ (res[r].listed /\ res[r].proc = p /\ UNCHANGED res)
      PROVE  Core'
  <2>1. disc' \in Disconnecting /\ disc'.join = r /\ disc'.proc = p
    BY <1>3 DEF Disconnecting
  <2>2. /\ issued \in Token /\ OneRow(cred) /\ ResOK(res) /\ JoinOK(disc, res)
        /\ Safe(cred, token, issued, res, login, lost)
    BY DEF IInv, OthersOK, Core
  <2>3. CASE NewResolution(r, p)
    <3> DEFINE v == [Blank EXCEPT !.phase = "load", !.proc = p, !.current = TRUE,
                                  !.listed = TRUE]
    <3>1. v \in Resolving /\ v.tok = 0 /\ v.phase = "load" /\ v.proc = p
      BY DEF Blank, Resolving, Busy
    <3>2. res[r].phase \in Ended /\ ~Joined(r) /\ res' = [res EXCEPT ![r] = v]
      BY <2>3 DEF NewResolution
    <3> HIDE DEF v
    <3>3. Goes(res[r], v, r, cred, lost, disc)
      BY <3>1, <3>2, Phases DEF Goes, Retires, Joined
    <3> DEFINE then == [res EXCEPT ![r] = v]
    <3>4. ResOK(then) /\ Safe(cred, token, issued, then, login, lost)
      BY <2>2, <3>1, <3>3, CallGoes
    <3>5. res' = then /\ res'[r] = v
      BY <2>2, <3>2 DEF ResOK
    <3> HIDE DEF then
    <3>6. JoinOK(disc', res')
      BY <2>1, <3>1, <3>5 DEF JoinOK
    <3> QED
      BY <1>1, <3>4, <3>5, <3>6 DEF IInv, Core
  <2>4. CASE res[r].listed /\ res[r].proc = p /\ UNCHANGED res
    <3>1. JoinOK(disc', res')
      BY <2>1, <2>4 DEF JoinOK
    <3> QED
      BY <1>1, <2>2, <2>4, <3>1 DEF IInv, Core
  <2> QED
    BY <1>3, <2>3, <2>4
<1> QED
  BY <1>2, <1>3 DEF Disconnect

LEMMA DiscToType ==
  ASSUME disc \in Disconnecting, NEW x \in {"load", "grant", "revoke", "delete"},
         DiscTo(x)
  PROVE  disc' \in Disconnecting /\ disc'.phase = x /\ disc'.phase # "joined"
  BY DEF DiscTo, Disconnecting

LEMMA DiscEndsType ==
  ASSUME DiscEnds
  PROVE  disc' \in Disconnecting /\ disc'.phase # "joined"
  BY DEF DiscEnds, Disconnecting

LEMMA DisconnectResolvedKeeps ==
  ASSUME IInv, DisconnectResolved
  PROVE  Core'
<1>1. /\ disc.phase = "joined" /\ res[disc.join].phase \in Outcome
      /\ res' = [res EXCEPT ![disc.join] = Blank]
      /\ UNCHANGED <<cred, token, issued, login, lost>>
  BY DEF DisconnectResolved
<1>2. DiscTo("load") \/ DiscTo("revoke") \/ DiscEnds
  BY DEF DisconnectResolved, Outcome
<1>3. disc' \in Disconnecting /\ disc'.phase # "joined"
  BY <1>2, Steady, DiscToType, DiscEndsType
<1>4. /\ issued \in Token /\ OneRow(cred) /\ ResOK(res) /\ JoinOK(disc, res)
      /\ Safe(cred, token, issued, res, login, lost)
  BY DEF IInv, OthersOK, Core
<1> DEFINE r == disc.join
           then == [res EXCEPT ![r] = Blank]
<1>5. r \in Resolution
  BY <1>1, <1>4 DEF JoinOK
<1>6. Goes(res[r], Blank, r, cred, lost, disc)
  BY <1>1, BlankTyped, Phases DEF Goes, Retires, Ended, Outcome
<1>7. ResOK(then) /\ Safe(cred, token, issued, then, login, lost)
  BY <1>4, <1>5, <1>6, BlankTyped, CallGoes
<1>8. res' = then
  BY <1>1
<1> HIDE DEF then
<1>9. JoinOK(disc', res')
  BY <1>3 DEF JoinOK
<1> QED
  BY <1>1, <1>7, <1>8, <1>9 DEF IInv, Core

LEMMA DisconnectsKeep ==
  ASSUME IInv, DisconnectLoad \/ DisconnectRevoke \/ DisconnectDelete
  PROVE  Core'
<1>1. CASE DisconnectLoad
  <2>1. disc' \in Disconnecting /\ disc'.phase # "joined"
    BY <1>1, Steady, DiscToType DEF DisconnectLoad
  <2>2. LoginOK(login') /\ UNCHANGED login
    BY <1>1, Steady DEF DisconnectLoad
  <2> QED
    BY <1>1, <2>1, <2>2, CallbackKeeps DEF DisconnectLoad
<1>2. CASE DisconnectRevoke
  <2>1. disc' \in Disconnecting /\ disc'.phase # "joined"
    BY <1>2, Steady, DiscToType DEF DisconnectRevoke
  <2>2. LoginOK(login') /\ UNCHANGED login
    BY <1>2, Steady DEF DisconnectRevoke
  <2> QED
    BY <1>2, <2>1, <2>2, ForgetKeeps DEF DisconnectRevoke
<1>3. CASE DisconnectDelete
  <2>1. disc' \in Disconnecting /\ disc'.phase # "joined"
    BY <1>3, DiscEndsType DEF DisconnectDelete
  <2>2. LoginOK(login') /\ UNCHANGED login
    BY <1>3, Steady DEF DisconnectDelete
  <2> QED
    BY <1>3, <2>1, <2>2, CallbackKeeps DEF DisconnectDelete, DeleteCredentials
<1> QED
  BY <1>1, <1>2, <1>3
-----------------------------------------------------------------------------
(* GitHub, the clock and the processes.                                               *)
LEMMA GrantKeeps ==
  ASSUME IInv, RevokeGrant \/ UNCHANGED token, UNCHANGED <<cred, issued, res, login, lost>>,
         disc' \in Disconnecting, UNCHANGED disc \/ disc'.phase # "joined"
  PROVE  Core'
<1>1. /\ OneRow(cred) /\ JoinOK(disc, res) /\ Safe(cred, token, issued, res, login, lost)
  BY DEF IInv, Core
<1>2. Safe(cred, token', issued, res, login, lost)
  BY <1>1, RevokedSafe DEF RevokeGrant
<1>3. JoinOK(disc', res)
  BY <1>1 DEF JoinOK
<1> QED
  BY <1>2, <1>3 DEF IInv, Core

LEMMA OutsideKeeps ==
  ASSUME IInv,
         \/ RevokeUserAuthorization \/ RevokeOnGitHub \/ AuthorizationRevoked
         \/ (\E t \in Token : TokenAges(t)) \/ (\E p \in Process : InvalidateUser(p))
  PROVE  Core'
<1>1. CASE RevokeUserAuthorization
  <2>1. disc' \in Disconnecting /\ disc'.phase # "joined"
    BY <1>1, Steady, DiscToType, DiscEndsType DEF RevokeUserAuthorization
  <2> QED
    BY <1>1, <2>1, GrantKeeps DEF RevokeUserAuthorization
<1>2. CASE RevokeOnGitHub
  BY <1>2, Steady, GrantKeeps DEF RevokeOnGitHub
<1>3. CASE AuthorizationRevoked
  BY <1>3, Steady, CallbackKeeps DEF AuthorizationRevoked, DeleteCredentials
<1>4. CASE \E t \in Token : TokenAges(t)
  <2>1. UNCHANGED <<cred, token, issued, res, login, disc, lost>>
    BY <1>4 DEF TokenAges
  <2> QED
    BY <2>1 DEF IInv, Core
<1>5. CASE \E p \in Process : InvalidateUser(p)
  BY <1>5, Steady, ForgetKeeps DEF InvalidateUser
<1> QED
  BY <1>1, <1>2, <1>3, <1>4, <1>5

LEMMA LeaseExpiresKeeps ==
  ASSUME IInv, LeaseExpires
  PROVE  Core'
<1>1. UNCHANGED <<token, issued, res, login, disc>>
  BY DEF LeaseExpires
<1>2. PICK row \in cred :
        /\ row.lease # NoOne /\ ~row.over
        /\ row.lease \in Resolution => res[row.lease].phase # "github"
        /\ cred' = {[row EXCEPT !.over = TRUE]}
        /\ lost' = IF row.lease \in Resolution /\ res[row.lease].phase = "commit"
                   THEN lost \cup {row.tok} ELSE lost
  BY DEF LeaseExpires
<1> DEFINE after == [row EXCEPT !.over = TRUE]
<1>3. row \in Row /\ cred = {row} /\ Safe({row}, token, issued, res, login, lost)
  <2>1. OneRow(cred) /\ Safe(cred, token, issued, res, login, lost)
    BY DEF IInv, Core
  <2>2. row \in Row /\ cred = {row}
    BY <2>1 DEF OneRow
  <2> QED
    BY <2>1, <2>2
<1>4. cred' = {after} /\ after \in Row /\ after.tok = row.tok /\ after.ver = row.ver
  BY <1>2, <1>3 DEF Row
<1> HIDE DEF after
<1>5. Safe({row}, token, issued, res, login, lost')
  BY <1>2, <1>3, LostSafe
<1>6. \A q \in Resolution :
        res[q].tok = row.tok /\ res[q].phase \in {"github", "commit"}
          /\ row.lease = q /\ ~row.over =>
            \/ after.lease = q /\ ~after.over
            \/ res[q].phase = "commit" /\ row.tok \in lost'
  BY <1>2
<1>7. Safe({after}, token, issued, res, login, lost')
  BY <1>4, <1>5, <1>6, LeaseSafe
<1> QED
  BY <1>1, <1>4, <1>7 DEF IInv, Core, OneRow

LEMMA CrashKeeps ==
  ASSUME IInv, NEW p \in Process, Crash(p)
  PROVE  Core'
<1> DEFINE dead == {r \in Resolution : res[r].proc = p /\ res[r].phase \in Busy}
           died == {res[r].tok : r \in {q \in dead : res[q].phase = "commit"}}
<1>1. /\ res' = [r \in Resolution |-> IF r \in dead \/ (disc.proc = p /\ Joined(r))
                                      THEN Blank ELSE res[r]]
      /\ login' = [l \in Login |-> IF login[l].proc = p
                                   THEN [phase |-> "done", proc |-> NoOne, tok |-> 0]
                                   ELSE login[l]]
      /\ IF disc.proc = p THEN DiscEnds ELSE UNCHANGED disc
      /\ cred' = {[row EXCEPT !.lease = IF @ \in dead THEN Lost ELSE @] : row \in cred}
      /\ lost' = lost \cup died /\ UNCHANGED <<token, issued>>
  BY DEF Crash
<1>2. /\ issued \in Token /\ OneRow(cred) /\ ResOK(res) /\ JoinOK(disc, res) /\ LoginOK(login)
      /\ Safe(cred, token, issued, res, login, lost) /\ res \in [Resolution -> Resolving]
  BY DEF IInv, OthersOK, Core, ResOK
<1>3. \A r \in dead : res[r].phase = "commit" => res[r].tok \in lost'
  BY <1>1
<1>4. \A r \in Resolution :
        \/ res'[r] = res[r] /\ r \notin dead
        \/ res'[r] = Blank /\ (r \in dead \/ res[r].phase \in Ended)
  <2> SUFFICES ASSUME NEW r \in Resolution, r \notin dead, disc.proc = p, Joined(r)
               PROVE  res[r].phase \in Ended
    BY <1>1
  <2>1. res[r].phase \in Ended \/ res[r].proc = p
    BY <1>2 DEF JoinOK, Joined
  <2>2. res[r].phase \in Ended \cup Busy
    BY <1>2 DEF Resolving
  <2> QED
    BY <2>1, <2>2
<1>5. Safe(cred, token, issued, res, login, lost')
  BY <1>1, <1>2, LostSafe
<1>6. res' \in [Resolution -> Resolving]
  BY <1>1, <1>2, BlankTyped
<1> HIDE DEF dead, died
<1>7. \A r \in Resolution :
        res[r] = res'[r] \/ Goes(res[r], res'[r], r, cred, lost', disc)
  BY <1>3, <1>4, BlankTyped, Phases DEF Goes, Retires, Ended
<1>8. ResOK(res') /\ JoinOK(disc, res') /\ Safe(cred, token, issued, res', login, lost')
  BY <1>2, <1>5, <1>6, <1>7, CallsGo
<1>9. JoinOK(disc', res')
  BY <1>1, <1>8, DiscEndsType DEF JoinOK
<1>10. /\ LoginOK(login')
       /\ \A l \in Login : \/ login'[l].phase = login[l].phase /\ login'[l].tok = login[l].tok
                           \/ login'[l].phase # "upsert"
  <2> DEFINE done == [phase |-> "done", proc |-> NoOne, tok |-> 0]
  <2>1. done \in Callback /\ done.phase = "done"
    BY DEF Callback
  <2>2. \A l \in Login : login'[l] = done \/ login'[l] = login[l]
    BY <1>1
  <2>3. login' \in [Login -> Callback]
    BY <1>1, <1>2, <2>1 DEF LoginOK
  <2> HIDE DEF done
  <2> QED
    BY <1>2, <2>1, <2>2, <2>3 DEF LoginOK
<1>11. Safe(cred, token, issued, res', login', lost')
  BY <1>8, <1>10, LoginsSafe
<1>12. OneRow(cred') /\ Safe(cred', token, issued, res', login', lost')
  <2>1. CASE cred = {}
    <3>1. cred' = {}
      BY <1>1, <2>1
    <3> QED
      BY <1>11, <2>1, <3>1 DEF OneRow
  <2>2. CASE cred # {}
    <3>1. PICK row \in Row : cred = {row}
      BY <1>2, <2>2 DEF OneRow
    <3> DEFINE after == [row EXCEPT !.lease = IF @ \in dead THEN Lost ELSE @]
    <3>2. cred' = {after}
      BY <1>1, <3>1
    <3>3. /\ after \in Row /\ after.tok = row.tok /\ after.ver = row.ver
          /\ after.over = row.over
          /\ row.lease \notin dead => after.lease = row.lease
      BY DEF Row
    <3> HIDE DEF after
    <3>4. \A q \in Resolution : res'[q].phase \in {"github", "commit"} => q \notin dead
      BY <1>4, BlankTyped
    <3>5. Safe({row}, token, issued, res', login', lost')
      BY <1>11, <3>1
    <3>6. \A q \in Resolution :
            res'[q].tok = row.tok /\ res'[q].phase \in {"github", "commit"}
              /\ row.lease = q /\ ~row.over =>
                \/ after.lease = q /\ ~after.over
                \/ res'[q].phase = "commit" /\ row.tok \in lost'
      BY <3>3, <3>4
    <3>7. Safe({after}, token, issued, res', login', lost')
      BY <3>3, <3>5, <3>6, LeaseSafe
    <3> QED
      BY <3>2, <3>3, <3>7 DEF OneRow
  <2> QED
    BY <2>1, <2>2
<1> QED
  BY <1>1, <1>8, <1>9, <1>10, <1>12 DEF Core
-----------------------------------------------------------------------------
LEMMA CoreKept == IInv /\ Next => Core'
<1> SUFFICES ASSUME IInv, Next PROVE Core'
  OBVIOUS
<1>1. ASSUME NEW r \in Resolution, Resolves(r) PROVE Core'
  BY <1>1, LoadKeeps, DecideKeeps, TryAcquireKeeps, RefreshUserTokenKeeps, CompleteRefreshKeeps,
     RecheckKeeps, ReleaseRefreshLeaseKeeps, RevokeRefusedKeeps, DeleteRefusedKeeps
  DEF Resolves
<1>2. ASSUME NEW l \in Login, LogsIn(l) PROVE Core'
  BY <1>2, LoginKeeps, ExchangeKeeps, UpsertKeeps DEF LogsIn
<1>3. CASE Disconnects
  BY <1>3, DisconnectResolvedKeeps, DisconnectsKeep, OutsideKeeps DEF Disconnects
<1> QED
  BY <1>1, <1>2, <1>3, StopWaitingKeeps, GetUserClientKeeps, LoginKeeps, OutsideKeeps,
     DisconnectKeeps, CrashKeeps, LeaseExpiresKeeps
  DEF Next, Steps

(* The other variables.                                                               *)
LEMMA ClientType ==
  ASSUME OthersOK, NEW r \in Resolution, NEW t \in Token, CacheUserClient(r, t)
  PROVE  cache' \in [Process -> SUBSET Token] /\ force' \in [Process -> BOOLEAN]
  BY DEF OthersOK, CacheUserClient

LEMMA RevokeUserType ==
  ASSUME OthersOK, NEW p, RevokeUser(p)
  PROVE  cache' \in [Process -> SUBSET Token] /\ force' \in [Process -> BOOLEAN]
  BY DEF OthersOK, RevokeUser

LEMMA FaultType ==
  ASSUME OthersOK, NEW e, Fault(e)
  PROVE  faults' \in 0 .. MaxFaults
  BY AuthorizationAssumption DEF OthersOK, Fault

LEMMA OthersCall ==
  ASSUME IInv, UNCHANGED scenario, NEW r \in Resolution,
         Resolves(r) \/ StopWaiting(r) \/ \E p \in Process : GetUserClient(r, p)
  PROVE  OthersOK'
<1>1. OthersOK /\ ResOK(res) /\ OneRow(cred)
  BY DEF IInv, Core
<1>2. \A row \in cred : row.tok \in Token
  BY <1>1 DEF OneRow, Row
<1>3. res[r].phase \in Decided => res[r].tok \in Token
  BY <1>1 DEF ResOK
<1>4. CASE Load(r) \/ TryAcquireRefreshLease(r) \/ ReleaseRefreshLease(r) \/ StopWaiting(r)
           \/ \E p \in Process : GetUserClient(r, p)
  BY <1>1, <1>4
  DEF OthersOK, Load, TryAcquireRefreshLease, ReleaseRefreshLease, StopWaiting, GetUserClient
<1>5. CASE Decide(r)
  <2>1. CASE CacheUserClient(r, res[r].tok)
    <3>1. res[r].tok \in Token
      BY <1>3, <1>5, Phases DEF Decide
    <3> QED
      BY <1>1, <1>5, <2>1, <3>1, ClientType DEF Decide, OthersOK
  <2>2. CASE UNCHANGED <<cache, force>>
    BY <1>1, <1>5, <2>2 DEF Decide, OthersOK
  <2> QED
    BY <1>5, <2>1, <2>2 DEF Decide
<1>6. CASE RefreshUserToken(r)
  <2>1. UNCHANGED <<sessions, age, cache, force>> /\ res[r].tok \in Token
    BY <1>3, <1>6, Phases DEF RefreshUserToken
  <2>2. /\ token' \in [Token -> {"none", "live", "rotated", "revoked"}]
        /\ issued' \in Token /\ lost' \subseteq Token
    BY <1>1, <1>6, <2>1 DEF RefreshUserToken, Rotate, Issue, OthersOK
  <2>3. faults' \in 0 .. MaxFaults
    BY <1>1, <1>6, FaultType DEF RefreshUserToken, OthersOK
  <2> QED
    BY <1>1, <2>1, <2>2, <2>3 DEF OthersOK
<1>7. CASE CompleteRefresh(r)
  <2>1. UNCHANGED <<sessions, token, age, issued>> /\ res[r].tok \in Token
    BY <1>3, <1>7, Phases DEF CompleteRefresh
  <2>2. lost' \subseteq Token /\ faults' \in 0 .. MaxFaults
    BY <1>1, <1>7, <2>1, FaultType DEF CompleteRefresh, OthersOK
  <2>3. res[r].got \in Token
    BY <1>7 DEF CompleteRefresh, IInv, Core, Safe, Carried, Unused
  <2>4. cache' \in [Process -> SUBSET Token] /\ force' \in [Process -> BOOLEAN]
    BY <1>1, <1>7, <2>3, ClientType DEF CompleteRefresh, OthersOK
  <2> QED
    BY <1>1, <2>1, <2>2, <2>4 DEF OthersOK
<1>8. CASE Recheck(r)
  <2>1. cache' \in [Process -> SUBSET Token] /\ force' \in [Process -> BOOLEAN]
    BY <1>1, <1>2, <1>8, ClientType DEF Recheck, OthersOK
  <2> QED
    BY <1>1, <1>8, <2>1 DEF Recheck, OthersOK
<1>9. CASE RevokeRefused(r)
  BY <1>1, <1>9, RevokeUserType DEF RevokeRefused, OthersOK
<1>10. CASE DeleteRefused(r)
  BY <1>1, <1>10 DEF DeleteRefused, DeleteCredentials, OthersOK
<1> QED
  BY <1>4, <1>5, <1>6, <1>7, <1>8, <1>9, <1>10 DEF Resolves

LEMMA OthersLogin ==
  ASSUME IInv, UNCHANGED scenario, NEW l \in Login,
         LogsIn(l) \/ StartLogin(l) \/ EndSession(l) \/ \E p \in Process : ConsumeAttempt(l, p)
  PROVE  OthersOK'
<1>1. OthersOK /\ LoginOK(login)
  BY DEF IInv, Core
<1>2. CASE StartLogin(l) \/ EndSession(l) \/ UpsertCredentials(l) \/ CreateLoginSession(l)
           \/ RevokeUserSessions(l) \/ \E p \in Process : ConsumeAttempt(l, p)
  BY <1>1, <1>2 DEF OthersOK, StartLogin, EndSession, UpsertCredentials, CreateLoginSession,
                    RevokeUserSessions, ConsumeAttempt
<1>3. CASE ExchangeAuthorizationCode(l)
  <2>1. UNCHANGED <<sessions, age, cache, force, faults, lost>>
    BY <1>3 DEF ExchangeAuthorizationCode
  <2>2. /\ token' \in [Token -> {"none", "live", "rotated", "revoked"}]
        /\ issued' \in Token
    <3>1. /\ token \in [Token -> {"none", "live", "rotated", "revoked"}]
          /\ issued \in Token
      BY <1>1 DEF OthersOK
    <3>2. CASE UNCHANGED <<token, issued>>
      BY <3>1, <3>2
    <3>3. ASSUME NEW n \in Token, Issue(n), token' = [token EXCEPT ![n] = "live"]
          PROVE  /\ token' \in [Token -> {"none", "live", "rotated", "revoked"}]
                 /\ issued' \in Token
      BY <3>1, <3>3 DEF Issue
    <3> QED
      BY <1>3, <3>2, <3>3 DEF ExchangeAuthorizationCode
  <2> QED
    BY <1>1, <2>1, <2>2 DEF OthersOK
<1>4. CASE AuthorizeUser(l)
  <2>1. login[l].tok \in Token
    BY <1>1, <1>4 DEF AuthorizeUser, LoginOK
  <2> QED
    BY <1>1, <1>4, <2>1 DEF OthersOK, AuthorizeUser
<1>5. CASE RevokeFailedLogin(l)
  BY <1>1, <1>5, RevokeUserType DEF RevokeFailedLogin, OthersOK
<1>6. CASE DeleteFailedLogin(l)
  BY <1>1, <1>6 DEF DeleteFailedLogin, DeleteCredentials, OthersOK
<1> QED
  BY <1>2, <1>3, <1>4, <1>5, <1>6 DEF LogsIn

LEMMA OthersKept == IInv /\ Next => OthersOK'
<1> SUFFICES ASSUME IInv, Next PROVE OthersOK'
  OBVIOUS
<1>1. OthersOK /\ ResOK(res) /\ OneRow(cred) /\ UNCHANGED scenario
  BY DEF IInv, Core, Next
<1>2. CASE Disconnects \/ \E p \in Process : Disconnect(p)
  <2>1. CASE DisconnectResolved \/ DisconnectLoad \/ \E p \in Process : Disconnect(p)
    BY <1>1, <2>1 DEF DisconnectResolved, DisconnectLoad, Disconnect, OthersOK
  <2>2. CASE RevokeUserAuthorization
    BY <1>1, <2>2 DEF RevokeUserAuthorization, RevokeGrant, OthersOK
  <2>3. CASE DisconnectRevoke
    BY <1>1, <2>3, RevokeUserType DEF DisconnectRevoke, OthersOK
  <2>4. CASE DisconnectDelete
    BY <1>1, <2>4 DEF DisconnectDelete, DeleteCredentials, OthersOK
  <2> QED
    BY <1>2, <2>1, <2>2, <2>3, <2>4 DEF Disconnects
<1>3. CASE \E p \in Process : InvalidateUser(p)
  BY <1>1, <1>3 DEF InvalidateUser, OthersOK
<1>4. ASSUME NEW p \in Process, Crash(p) PROVE OthersOK'
  <2> DEFINE dead == {r \in Resolution : res[r].proc = p /\ res[r].phase \in Busy}
             died == {res[r].tok : r \in {q \in dead : res[q].phase = "commit"}}
  <2>1. died \subseteq Token
    BY <1>1, Phases DEF ResOK
  <2>2. lost' = lost \cup died /\ UNCHANGED <<sessions, token, age, issued>>
    BY <1>4 DEF Crash
  <2> HIDE DEF died
  <2>3. cache' \in [Process -> SUBSET Token] /\ force' \in [Process -> BOOLEAN]
    BY <1>1, <1>4 DEF Crash, OthersOK
  <2>4. faults' \in 0 .. MaxFaults
    BY <1>1, <1>4, FaultType DEF Crash
  <2> QED
    BY <1>1, <2>1, <2>2, <2>3, <2>4 DEF OthersOK
<1>5. CASE RevokeOnGitHub
  <2>1. faults' \in 0 .. MaxFaults
    BY <1>1, <1>5, FaultType DEF RevokeOnGitHub
  <2> QED
    BY <1>1, <1>5, <2>1 DEF RevokeOnGitHub, RevokeGrant, OthersOK
<1>6. CASE AuthorizationRevoked
  BY <1>1, <1>6 DEF AuthorizationRevoked, DeleteCredentials, OthersOK
<1>7. CASE LeaseExpires
  <2>1. UNCHANGED <<sessions, token, age, issued, cache, force, faults>>
    BY <1>7 DEF LeaseExpires
  <2>2. lost' \subseteq Token
    BY <1>1, <1>7 DEF LeaseExpires, OthersOK, OneRow, Row
  <2> QED
    BY <1>1, <2>1, <2>2 DEF OthersOK
<1>8. ASSUME NEW t \in Token, TokenAges(t) PROVE OthersOK'
  <2>1. faults' \in 0 .. MaxFaults
    BY <1>1, <1>8, FaultType DEF TokenAges, OthersOK
  <2>2. age' \in [Token -> {"fresh", "due", "expired"}]
    BY <1>1, <1>8 DEF TokenAges, OthersOK
  <2> QED
    BY <1>1, <1>8, <2>1, <2>2 DEF TokenAges, OthersOK
<1> QED
  BY <1>1, <1>2, <1>3, <1>4, <1>5, <1>6, <1>7, <1>8, OthersCall, OthersLogin DEF Next, Steps
-----------------------------------------------------------------------------
LEMMA InitGood == Init => IInv
<1> SUFFICES ASSUME Init PROVE IInv
  OBVIOUS
<1> DEFINE row == [ver |-> 1, tok |-> 1, lease |-> NoOne, over |-> FALSE]
<1>1. 1 \in Token
  BY AuthorizationAssumption DEF Token
<1>2. OthersOK
  <2>1. (CHOOSE l \in Login : TRUE) \in Login
    BY AuthorizationAssumption
  <2>2. 0 \in 0 .. MaxFaults
    BY AuthorizationAssumption
  <2> QED
    BY <1>1, <2>1, <2>2 DEF Init, OthersOK
<1>3. cred = {row} /\ row \in Row /\ row.tok = 1
  BY <1>1 DEF Init, Row
<1>4. /\ ResOK(res)
      /\ \A r \in Resolution : res[r].tok = 0 /\ res[r].phase = "idle"
  BY BlankTyped, Phases DEF Init, ResOK, Ended
<1>5. /\ LoginOK(login)
      /\ \A l \in Login : login[l].phase = "idle"
  BY DEF Init, LoginOK, Callback
<1>6. JoinOK(disc, res)
  BY DEF Init, JoinOK, Disconnecting
<1>7. token[1] = "live" /\ issued = 1
  BY <1>1 DEF Init
<1> HIDE DEF row
<1>8. Safe(cred, token, issued, res, login, lost)
  BY <1>3, <1>4, <1>5, <1>7
  DEF Safe, Known, Carried, Differ, Holding, Accepted
<1> QED
  BY <1>2, <1>3, <1>4, <1>5, <1>6, <1>8 DEF IInv, Core, OneRow

LEMMA Stutters == IInv /\ UNCHANGED vars => IInv'
  BY DEF IInv, vars, OthersOK, Core

LEMMA Invariance == Spec => []IInv
<1>1. IInv /\ [Next]_vars => IInv'
  BY CoreKept, OthersKept, Stutters DEF IInv
<1> QED
  BY <1>1, InitGood, PTL DEF Spec

LEMMA Stands == IInv => TokenStands
<1> SUFFICES ASSUME IInv PROVE TokenStands
  OBVIOUS
<1>1. OthersOK /\ OneRow(cred) /\ ResOK(res) /\ LoginOK(login) /\ JoinOK(disc, res)
  BY DEF IInv, Core
<1>2. cred \subseteq Row /\ Cardinality(cred) <= 1
  <2>1. CASE cred = {}
    BY <2>1, FS_EmptySet
  <2>2. CASE cred # {}
    <3>1. PICK row \in Row : cred = {row}
      BY <1>1, <2>2 DEF OneRow
    <3> QED
      BY <3>1, FS_Singleton
  <2> QED
    BY <2>1, <2>2
<1>3. TypeOK
  BY <1>1, <1>2 DEF TypeOK, OthersOK, ResOK, LoginOK, JoinOK
<1>4. StoredTokenLive
  BY DEF IInv, Core, Safe, Accepted, StoredTokenLive
<1>5. OneRotation
  BY DEF IInv, Core, Safe, Holding, OneRotation
<1> QED
  BY <1>3, <1>4, <1>5 DEF TokenStands

(* The stored token is one that GitHub accepts or was revoked there, unless its       *)
(* successor was lost on the way, and two refreshes never spend it at once: the lease *)
(* of tryAcquireRefreshLease and the version of completeRefresh are enough, however   *)
(* logins, deletions, expiries of the lease and crashes come between.                 *)
THEOREM TokenKept == Spec => []TokenStands
  BY Invariance, Stands, PTL
-----------------------------------------------------------------------------
(* The deliveries of an installation. *)

Sent == Deliveries!Delivery

DeliveryRow == [state : {"absent", "queued", "processing", "succeeded", "failed", "ignored"},
                attempt : 0 .. MaxAttempts, payload : BOOLEAN]
DeliveryJob == [state : {"absent", "ready", "locked", "done"}, attempts : 0 .. MaxAttempts]
DeliveryHandler == [pc : {"idle", "start", "load", "apply", "failed", "purge", "succeed", "fail"},
                    error : {"none", "retryable", "permanent"}]

(* The rows and the queue of a delivery belong together: a handler has a locked job, a job *)
(* a row that is not ignored, a row an event; an attempt claims a row once.                *)
Belongs(d) ==
  /\ net[d] > 0 => sent[d].kind # "none"
  /\ deliveries[d].state # "absent" => sent[d].kind # "none"
  /\ deliveries[d].state = "ignored" => sent[d].kind = "future_action"
  /\ deliveries[d].state \notin {"absent", "ignored"} => sent[d].kind # "future_action"
  /\ exec[d] # "absent" => job[d].state # "absent"
  /\ job[d].state # "absent" => deliveries[d].state \notin {"absent", "ignored"}
  /\ handler[d].pc # "idle" => job[d].state = "locked"
  /\ deliveries[d].attempt <= job[d].attempts
  /\ handler[d].pc \in {"start", "load"} => deliveries[d].attempt < job[d].attempts

(* What was applied succeeded, and only a fault after it makes the queue retry it, and only *)
(* a second one makes a retry claim it.                                                     *)
Succeeds(d) ==
  /\ deliveries[d].state = "succeeded" => Deliveries!Applies(d)
  /\ handler[d].pc \in {"purge", "succeed"} => deliveries[d].state = "succeeded"
  /\ handler[d].pc = "apply" => deliveries[d].state = "processing"
  /\ Deliveries!Applies(d) =>
       /\ deliveries[d].state \notin {"absent", "ignored"}
       /\ deliveries[d].state = "succeeded" \/ dfaults > 1
       /\ handler[d].pc # "failed" \/ dfaults > 1
       /\ handler[d].pc \in {"purge", "succeed"} \/ job[d].state = "done" \/ dfaults > 0

(* A status that is final belongs to a job that no attempt follows.                         *)
Ends(d) ==
  /\ handler[d].pc = "fail" => deliveries[d].state = "failed" \/ dfaults > 0
  /\ exec[d] = "succeeded" => deliveries[d].state = "succeeded" /\ job[d].state = "done"
  /\ exec[d] = "retrying" /\ job[d].attempts = MaxAttempts => handler[d].pc = "start" \/ dfaults > 0
  /\ exec[d] = "failed" => /\ deliveries[d].state = "failed" \/ dfaults > 0
                           /\ handler[d].pc = "idle"
                           /\ job[d].state = "done" \/ job[d].attempts = MaxAttempts

Fine(d) == Belongs(d) /\ Succeeds(d) /\ Ends(d)

DInv == Deliveries!TypeOK /\ Deliveries!AppliedOnce /\ \A d \in Sent : Fine(d)

Typed ==
  /\ github \in Deliveries!GitHubState
  /\ sent \in [Sent -> Deliveries!Event]
  /\ net \in [Sent -> {0, 1}]
  /\ deliveries \in [Sent -> DeliveryRow]
  /\ job \in [Sent -> DeliveryJob]
  /\ exec \in [Sent -> {"absent", "queued", "running", "retrying", "succeeded", "failed"}]
  /\ handler \in [Sent -> DeliveryHandler]
  /\ inst \in [life : {"absent", "active", "suspended", "pending_deletion"},
               perm : {"current", "stale", "suspended", "revoked"}, repo : BOOLEAN]
  /\ applied \in Seq(Sent)
  /\ dfaults \in 0 .. MaxTrouble

LEMMA DTypes == (Deliveries!TypeOK <=> Typed) /\ (Deliveries!TypeOK' <=> Typed')
BY DEF Deliveries!TypeOK, Typed, Sent, DeliveryRow, DeliveryJob, DeliveryHandler, Deliveries!Delivery

(* A step of delivery d leaves what it does not touch of another delivery as it was.       *)
Apart(e) ==
  /\ sent'[e] = sent[e] /\ net'[e] = net[e] /\ deliveries'[e] = deliveries[e]
  /\ job'[e] = job[e] /\ exec'[e] = exec[e] /\ handler'[e] = handler[e]
  /\ Deliveries!Applies(e)' <=> Deliveries!Applies(e)

LEMMA ApartKeeps ==
  ASSUME NEW e \in Sent, Fine(e), Apart(e), dfaults \in Nat, dfaults' \in Nat, dfaults <= dfaults'
  PROVE  Fine(e)'
BY DEF Fine, Belongs, Succeeds, Ends, Apart

(* A step that applies nothing keeps the invariant if its own delivery stays fine.         *)
LEMMA StepKeeps ==
  ASSUME DInv, NEW d \in Sent, Deliveries!TypeOK', applied' = applied, dfaults <= dfaults',
         \A e \in Sent \ {d} : Apart(e), Fine(d)'
  PROVE  DInv'
<1>1. dfaults \in Nat /\ dfaults' \in Nat
  BY GitHubAssumption, DTypes DEF Typed, DInv, Deliveries!TypeOK
<1>2. Deliveries!AppliedOnce'
  BY <1>1 DEF DInv, Deliveries!AppliedOnce
<1>3. \A e \in Sent : Fine(e)'
  BY <1>1, ApartKeeps DEF DInv
<1> QED BY <1>2, <1>3 DEF DInv, Sent, Deliveries!Delivery

LEMMA FaultCounts ==
  ASSUME DInv, NEW f, Deliveries!Fault(f)
  PROVE  dfaults' \in 0 .. MaxTrouble /\ dfaults' > dfaults /\ dfaults' > 0 /\ (dfaults > 0 => dfaults' > 1)
BY GitHubAssumption, DTypes DEF Typed, DInv, Deliveries!Fault, Deliveries!TypeOK

LEMMA AcceptKeeps == ASSUME DInv, NEW d \in Sent, Deliveries!Accept(d) PROVE DInv'
<1>t. Deliveries!TypeOK BY DEF DInv
<1> USE DTypes, GitHubAssumption DEF Typed
<1>0. Fine(d) BY DEF DInv
<1>1. net' \in [Sent -> {0, 1}] BY <1>t DEF Deliveries!Accept
<1>2. UNCHANGED <<github, sent, handler, inst, applied, dfaults>> BY DEF Deliveries!Accept
<1>a. \A e \in Sent \ {d} : net'[e] = net[e] BY <1>t DEF Deliveries!Accept
<1>3. CASE UNCHANGED <<deliveries, job, exec>>
  <2>1. Deliveries!TypeOK' BY <1>t, <1>1, <1>2, <1>3
  <2>2. Fine(d)'
    BY <1>t, <1>0, <1>1, <1>2, <1>3 DEF Deliveries!Accept, Fine, Belongs, Succeeds, Ends, Deliveries!Applies
  <2>3. \A e \in Sent \ {d} : Apart(e) BY <1>a, <1>2, <1>3 DEF Apart, Deliveries!Applies
  <2> QED BY <1>t, <1>2, <2>1, <2>2, <2>3, StepKeeps
<1>4. CASE ~ UNCHANGED <<deliveries, job, exec>>
  <2>0. deliveries[d].state = "absent" /\ net[d] > 0
    BY <1>4 DEF Deliveries!Accept, Deliveries!Known
  <2>k. sent[d].kind # "none" /\ ~Deliveries!Applies(d) /\ handler[d].pc = "idle" /\ job[d].state = "absent"
        /\ exec[d] = "absent"
    BY <2>0, <1>0, <1>t DEF Fine, Belongs, Succeeds, Ends
  <2>1. CASE Deliveries!ActionSupported(d)
    <3>1. deliveries' = [deliveries EXCEPT ![d] = [state |-> "queued", attempt |-> 0, payload |-> TRUE]]
          /\ job' = [job EXCEPT ![d] = [state |-> "ready", attempts |-> 0]]
          /\ exec' = [exec EXCEPT ![d] = "queued"]
      BY <2>0, <2>1 DEF Deliveries!Accept, Deliveries!Known, Deliveries!Enqueue
    <3>2. Deliveries!TypeOK'
      <4>1. deliveries' \in [Sent -> DeliveryRow] BY <1>t, <3>1 DEF DeliveryRow
      <4>2. job' \in [Sent -> DeliveryJob] BY <1>t, <3>1 DEF DeliveryJob
      <4> QED BY <1>t, <1>1, <1>2, <3>1, <4>1, <4>2
    <3>3. Fine(d)'
      BY <2>k, <3>1, <1>t, <1>0, <1>1, <1>2, <2>1
      DEF Fine, Belongs, Succeeds, Ends, Deliveries!Applies, Deliveries!ActionSupported
    <3>4. \A e \in Sent \ {d} : Apart(e) BY <1>a, <1>2, <3>1 DEF Apart, Deliveries!Applies
    <3> QED BY <1>t, <1>2, <3>2, <3>3, <3>4, StepKeeps
  <2>2. CASE ~Deliveries!ActionSupported(d)
    <3>1. deliveries' = [deliveries EXCEPT ![d] = [state |-> "ignored", attempt |-> 0, payload |-> TRUE]]
          /\ UNCHANGED <<job, exec>>
      BY <2>0, <2>2 DEF Deliveries!Accept, Deliveries!Known
    <3>2. Deliveries!TypeOK'
      <4>1. deliveries' \in [Sent -> DeliveryRow] BY <1>t, <3>1 DEF DeliveryRow
      <4> QED BY <1>t, <1>1, <1>2, <3>1, <4>1
    <3>a. sent[d].kind = "future_action" BY <2>2 DEF Deliveries!ActionSupported
    <3>b. deliveries'[d].state = "ignored" /\ deliveries'[d].attempt = 0 BY <1>t, <3>1
    <3>3. Fine(d)'
      BY <2>k, <3>1, <3>a, <3>b, <1>t, <1>0, <1>1, <1>2
      DEF Fine, Belongs, Succeeds, Ends, Deliveries!Applies, DeliveryJob
    <3>4. \A e \in Sent \ {d} : Apart(e) BY <1>a, <1>2, <3>1 DEF Apart, Deliveries!Applies
    <3> QED BY <1>t, <1>2, <3>2, <3>3, <3>4, StepKeeps
  <2> QED BY <2>1, <2>2
<1> QED BY <1>3, <1>4

LEMMA NetKeeps == ASSUME DInv, NEW d \in Sent,
                         Deliveries!Lose(d) \/ Deliveries!Redeliver(d) \/ Deliveries!RetentionCleanup(d)
                  PROVE  DInv'
<1>t. Deliveries!TypeOK /\ Fine(d) BY DEF DInv
<1> USE DTypes, GitHubAssumption DEF Typed
<1>f. dfaults' \in 0 .. MaxTrouble /\ dfaults <= dfaults' /\ dfaults \in Nat
  BY <1>t, FaultCounts DEF Deliveries!Lose, Deliveries!Redeliver, Deliveries!RetentionCleanup
<1>1. CASE Deliveries!Lose(d) \/ Deliveries!Redeliver(d)
  <2>1. UNCHANGED <<github, sent, deliveries, job, exec, handler, inst, applied>>
    BY <1>1 DEF Deliveries!Lose, Deliveries!Redeliver
  <2>2. net' \in [Sent -> {0, 1}] /\ (net'[d] > 0 => net[d] > 0 \/ sent[d].kind # "none")
        /\ \A e \in Sent \ {d} : net'[e] = net[e]
    BY <1>t, <1>1 DEF Deliveries!Lose, Deliveries!Redeliver
  <2>3. Deliveries!TypeOK' BY <1>t, <1>f, <2>1, <2>2
  <2>4. Fine(d)' BY <1>t, <1>f, <2>1, <2>2 DEF Fine, Belongs, Succeeds, Ends, Deliveries!Applies
  <2>5. \A e \in Sent \ {d} : Apart(e) BY <2>1, <2>2 DEF Apart, Deliveries!Applies
  <2> QED BY <1>f, <2>1, <2>3, <2>4, <2>5, StepKeeps
<1>2. CASE Deliveries!RetentionCleanup(d)
  <2>1. UNCHANGED <<github, sent, net, job, exec, handler, inst, applied>>
        /\ deliveries' = [deliveries EXCEPT ![d] = [deliveries[d] EXCEPT !.payload = FALSE]]
    BY <1>2 DEF Deliveries!RetentionCleanup
  <2> DEFINE m == [deliveries[d] EXCEPT !.payload = FALSE]
  <2>a. deliveries[d] \in DeliveryRow BY <1>t
  <2>2. m \in DeliveryRow /\ m.state = deliveries[d].state /\ m.attempt = deliveries[d].attempt
    BY <2>a DEF DeliveryRow
  <2> HIDE DEF m
  <2>3. deliveries' = [deliveries EXCEPT ![d] = m] BY <2>1 DEF m
  <2>4. Deliveries!TypeOK' BY <1>t, <1>f, <2>1, <2>2, <2>3
  <2>5. Fine(d)' BY <1>t, <1>f, <2>1, <2>2, <2>3 DEF Fine, Belongs, Succeeds, Ends, Deliveries!Applies
  <2>6. \A e \in Sent \ {d} : Apart(e) BY <2>1, <2>3 DEF Apart, Deliveries!Applies
  <2> QED BY <1>f, <2>1, <2>4, <2>5, <2>6, StepKeeps
<1> QED BY <1>1, <1>2

(* What a step does to the row, the job and the handler of a delivery.                      *)
LEMMA RowMoves ==
  ASSUME deliveries \in [Sent -> DeliveryRow], NEW d \in Sent,
         NEW s \in {"absent", "queued", "processing", "succeeded", "failed", "ignored"},
         deliveries' = [deliveries EXCEPT ![d].state = s]
  PROVE  /\ deliveries' \in [Sent -> DeliveryRow]
         /\ deliveries'[d].state = s /\ deliveries'[d].attempt = deliveries[d].attempt
         /\ \A e \in Sent \ {d} : deliveries'[e] = deliveries[e]
<1> DEFINE m == [deliveries[d] EXCEPT !.state = s]
<1>1. deliveries[d] \in DeliveryRow OBVIOUS
<1>2. m \in DeliveryRow /\ m.state = s /\ m.attempt = deliveries[d].attempt BY <1>1 DEF DeliveryRow
<1>3. deliveries' = [deliveries EXCEPT ![d] = m] OBVIOUS
<1> HIDE DEF m
<1> QED BY <1>2, <1>3

LEMMA JobMoves ==
  ASSUME job \in [Sent -> DeliveryJob], NEW d \in Sent, NEW s \in {"absent", "ready", "locked", "done"},
         job' = [job EXCEPT ![d].state = s]
  PROVE  /\ job' \in [Sent -> DeliveryJob]
         /\ job'[d].state = s /\ job'[d].attempts = job[d].attempts
         /\ \A e \in Sent \ {d} : job'[e] = job[e]
<1> DEFINE m == [job[d] EXCEPT !.state = s]
<1>1. job[d] \in DeliveryJob OBVIOUS
<1>2. m \in DeliveryJob /\ m.state = s /\ m.attempts = job[d].attempts BY <1>1 DEF DeliveryJob
<1>3. job' = [job EXCEPT ![d] = m] OBVIOUS
<1> HIDE DEF m
<1> QED BY <1>2, <1>3

LEMMA HandlerMoves ==
  ASSUME handler \in [Sent -> DeliveryHandler], NEW d \in Sent,
         NEW s \in {"idle", "start", "load", "apply", "failed", "purge", "succeed", "fail"},
         Deliveries!HandlerTo(d, s)
  PROVE  /\ handler' \in [Sent -> DeliveryHandler]
         /\ handler'[d].pc = s
         /\ \A e \in Sent \ {d} : handler'[e] = handler[e]
<1> DEFINE m == [handler[d] EXCEPT !.pc = s]
<1>1. handler[d] \in DeliveryHandler OBVIOUS
<1>2. m \in DeliveryHandler /\ m.pc = s BY <1>1 DEF DeliveryHandler
<1>3. handler' = [handler EXCEPT ![d] = m] BY DEF Deliveries!HandlerTo
<1> HIDE DEF m
<1> QED BY <1>2, <1>3

LEMMA HandlerThrows ==
  ASSUME handler \in [Sent -> DeliveryHandler], NEW d \in Sent,
         NEW s \in {"failed", "fail"}, NEW e0 \in {"retryable", "permanent"},
         Deliveries!Throws(d, s, e0)
  PROVE  /\ handler' \in [Sent -> DeliveryHandler]
         /\ handler'[d].pc = s
         /\ \A e \in Sent \ {d} : handler'[e] = handler[e]
<1>1. [pc |-> s, error |-> e0] \in DeliveryHandler BY DEF DeliveryHandler
<1> QED BY <1>1 DEF Deliveries!Throws

(* The attempt ends, with the job done or back in the queue.                                *)
LEMMA AttemptEnds ==
  ASSUME DInv, NEW d \in Sent, Deliveries!Complete(d) \/ Deliveries!FailJob(d)
  PROVE  /\ job' \in [Sent -> DeliveryJob] /\ handler' \in [Sent -> DeliveryHandler]
         /\ handler'[d].pc = "idle" /\ job'[d].attempts = job[d].attempts
         /\ Deliveries!Complete(d) => job'[d].state = "done"
         /\ job'[d].state \in {"ready", "done"}
         /\ \A e \in Sent \ {d} : job'[e] = job[e] /\ handler'[e] = handler[e]
<1>1. job \in [Sent -> DeliveryJob] /\ handler \in [Sent -> DeliveryHandler]
  BY DTypes DEF DInv, Typed
<1>2. handler' \in [Sent -> DeliveryHandler] /\ handler'[d].pc = "idle"
      /\ \A e \in Sent \ {d} : handler'[e] = handler[e]
  <2>1. Deliveries!Idle \in DeliveryHandler /\ Deliveries!Idle.pc = "idle"
    BY DEF Deliveries!Idle, DeliveryHandler
  <2>2. handler' = [handler EXCEPT ![d] = Deliveries!Idle] BY DEF Deliveries!Complete, Deliveries!FailJob
  <2> QED BY <1>1, <2>1, <2>2
<1>3. CASE Deliveries!Complete(d)
  <2>1. job' = [job EXCEPT ![d].state = "done"] BY <1>3 DEF Deliveries!Complete
  <2> QED BY <1>1, <1>2, <2>1, JobMoves
<1>4. CASE Deliveries!FailJob(d) /\ ~Deliveries!Complete(d)
  <2>1. job' = [job EXCEPT ![d].state = "ready"] BY <1>4 DEF Deliveries!FailJob
  <2> QED BY <1>1, <1>2, <1>4, <2>1, JobMoves
<1> QED BY <1>3, <1>4

LEMMA TakeKeeps == ASSUME DInv, NEW d \in Sent, Deliveries!Take(d) PROVE DInv'
<1>t. Typed /\ Fine(d) BY DTypes DEF DInv
<1>1. UNCHANGED <<github, sent, net, deliveries, exec, inst, applied, dfaults>>
      /\ job[d].state = "ready" /\ job[d].attempts < MaxAttempts
      /\ job' = [job EXCEPT ![d] = [state |-> "locked", attempts |-> job[d].attempts + 1]]
      /\ Deliveries!HandlerTo(d, "start")
  BY DEF Deliveries!Take
<1>2. handler' \in [Sent -> DeliveryHandler] /\ handler'[d].pc = "start"
      /\ \A e \in Sent \ {d} : handler'[e] = handler[e]
  BY <1>t, <1>1, HandlerMoves DEF Typed
<1> DEFINE m == [state |-> "locked", attempts |-> job[d].attempts + 1]
<1>3. m \in DeliveryJob /\ m.state = "locked" /\ m.attempts = job[d].attempts + 1
  BY <1>t, <1>1, GitHubAssumption DEF Typed, DeliveryJob
<1>4. job' = [job EXCEPT ![d] = m] BY <1>1
<1> HIDE DEF m
<1>5. job' \in [Sent -> DeliveryJob] /\ job'[d].state = "locked" /\ job'[d].attempts = job[d].attempts + 1
      /\ \A e \in Sent \ {d} : job'[e] = job[e]
  BY <1>t, <1>3, <1>4 DEF Typed
<1>6. Deliveries!TypeOK' BY <1>t, <1>1, <1>2, <1>5, DTypes DEF Typed
<1>7. deliveries[d].attempt \in Nat /\ job[d].attempts \in Nat BY <1>t DEF Typed, DeliveryRow, DeliveryJob
<1>8. Fine(d)'
  <2>1. Belongs(d)' BY <1>t, <1>1, <1>2, <1>5, <1>7 DEF Fine, Belongs
  <2>2. Succeeds(d)' BY <1>t, <1>1, <1>2, <1>5 DEF Fine, Belongs, Succeeds, Deliveries!Applies
  <2>3. Ends(d)' BY <1>t, <1>1, <1>2, <1>5, <1>7 DEF Fine, Belongs, Ends
  <2> QED BY <2>1, <2>2, <2>3 DEF Fine
<1>9. \A e \in Sent \ {d} : Apart(e) BY <1>1, <1>2, <1>5 DEF Apart, Deliveries!Applies
<1>a. dfaults <= dfaults' BY <1>t, <1>1, GitHubAssumption DEF Typed
<1> QED BY <1>1, <1>6, <1>8, <1>9, <1>a, StepKeeps

LEMMA LockExpiresKeeps == ASSUME DInv, NEW d \in Sent, Deliveries!LockExpires(d) PROVE DInv'
<1>t. Typed /\ Fine(d) BY DTypes DEF DInv
<1>1. UNCHANGED <<github, sent, net, deliveries, exec, handler, inst, applied, dfaults>>
      /\ job[d].state = "locked" /\ handler[d].pc = "idle"
      /\ job' = [job EXCEPT ![d].state = "ready"]
  BY DEF Deliveries!LockExpires
<1>2. job' \in [Sent -> DeliveryJob] /\ job'[d].state = "ready" /\ job'[d].attempts = job[d].attempts
      /\ \A e \in Sent \ {d} : job'[e] = job[e]
  BY <1>t, <1>1, JobMoves DEF Typed
<1>3. Deliveries!TypeOK' BY <1>t, <1>1, <1>2, DTypes DEF Typed
<1>4. Fine(d)'
  BY <1>t, <1>1, <1>2 DEF Fine, Belongs, Succeeds, Ends, Deliveries!Applies
<1>5. \A e \in Sent \ {d} : Apart(e) BY <1>1, <1>2 DEF Apart, Deliveries!Applies
<1>6. dfaults <= dfaults' BY <1>t, <1>1, GitHubAssumption DEF Typed
<1> QED BY <1>1, <1>3, <1>4, <1>5, <1>6, StepKeeps

(* A step of a handler: it writes the row, the job, the status and the handler of its       *)
(* delivery, and may count a fault.                                                         *)
HandlerStep(d) ==
  /\ UNCHANGED <<github, sent, net, inst, applied>>
  /\ deliveries' \in [Sent -> DeliveryRow] /\ job' \in [Sent -> DeliveryJob]
  /\ exec' \in [Sent -> {"absent", "queued", "running", "retrying", "succeeded", "failed"}]
  /\ handler' \in [Sent -> DeliveryHandler]
  /\ \A e \in Sent \ {d} : /\ deliveries'[e] = deliveries[e] /\ job'[e] = job[e]
                           /\ exec'[e] = exec[e] /\ handler'[e] = handler[e]
  /\ dfaults' \in 0 .. MaxTrouble /\ dfaults <= dfaults'

LEMMA HandlerStepKeeps ==
  ASSUME DInv, NEW d \in Sent, HandlerStep(d), Fine(d)'
  PROVE  DInv'
<1>1. Deliveries!TypeOK' BY DTypes DEF DInv, Typed, HandlerStep
<1>2. \A e \in Sent \ {d} : Apart(e) BY DEF HandlerStep, Apart, Deliveries!Applies
<1> QED BY <1>1, <1>2, StepKeeps DEF HandlerStep

LEMMA MarkJobStartedKeeps == ASSUME DInv, NEW d \in Sent, Deliveries!MarkJobStarted(d) PROVE DInv'
<1>t. Typed /\ Fine(d) /\ dfaults <= dfaults BY DTypes, GitHubAssumption DEF DInv, Typed
<1>1. handler[d].pc = "start" /\ UNCHANGED <<github, sent, net, deliveries, inst, applied>>
  BY DEF Deliveries!MarkJobStarted
<1>2. CASE exec' = [exec EXCEPT ![d] = "running"] /\ Deliveries!HandlerTo(d, "load") /\ UNCHANGED <<job, dfaults>>
  <2>1. handler' \in [Sent -> DeliveryHandler] /\ handler'[d].pc = "load"
        /\ \A e \in Sent \ {d} : handler'[e] = handler[e]
    BY <1>t, <1>2, HandlerMoves DEF Typed
  <2>2. HandlerStep(d) BY <1>t, <1>1, <1>2, <2>1 DEF Typed, HandlerStep
  <2>3. exec'[d] = "running" BY <1>t, <1>2 DEF Typed
  <2>4. Fine(d)'
    BY <1>t, <1>1, <1>2, <2>1, <2>3 DEF Fine, Belongs, Succeeds, Ends, Deliveries!Applies
  <2> QED BY <2>2, <2>4, HandlerStepKeeps
<1>3. CASE Deliveries!Fault("error") /\ Deliveries!FailJob(d) /\ UNCHANGED exec
  <2>1. /\ job' \in [Sent -> DeliveryJob] /\ handler' \in [Sent -> DeliveryHandler]
        /\ handler'[d].pc = "idle" /\ job'[d].attempts = job[d].attempts
        /\ job'[d].state \in {"ready", "done"}
        /\ \A e \in Sent \ {d} : job'[e] = job[e] /\ handler'[e] = handler[e]
    BY <1>3, AttemptEnds
  <2>2. dfaults' \in 0 .. MaxTrouble /\ dfaults <= dfaults' /\ dfaults' > 0 /\ (dfaults > 1 => dfaults' > 1)
    BY <1>t, <1>3, FaultCounts, GitHubAssumption DEF Typed
  <2>3. HandlerStep(d) BY <1>t, <1>1, <1>3, <2>1, <2>2 DEF Typed, HandlerStep
  <2>4. Fine(d)'
    BY <1>t, <1>1, <1>3, <2>1, <2>2 DEF Fine, Belongs, Succeeds, Ends, Deliveries!Applies
  <2> QED BY <2>3, <2>4, HandlerStepKeeps
<1> QED BY <1>2, <1>3 DEF Deliveries!MarkJobStarted

LEMMA MarkJobSucceededKeeps == ASSUME DInv, NEW d \in Sent, Deliveries!MarkJobSucceeded(d) PROVE DInv'
<1>t. Typed /\ Fine(d) /\ dfaults <= dfaults BY DTypes, GitHubAssumption DEF DInv, Typed
<1>1. handler[d].pc = "succeed" /\ UNCHANGED <<github, sent, net, deliveries, inst, applied>>
  BY DEF Deliveries!MarkJobSucceeded
<1>2. CASE exec' = [exec EXCEPT ![d] = "succeeded"] /\ Deliveries!Complete(d) /\ UNCHANGED dfaults
  <2>1. /\ job' \in [Sent -> DeliveryJob] /\ handler' \in [Sent -> DeliveryHandler]
        /\ handler'[d].pc = "idle" /\ job'[d].attempts = job[d].attempts
        /\ job'[d].state = "done"
        /\ \A e \in Sent \ {d} : job'[e] = job[e] /\ handler'[e] = handler[e]
    BY <1>2, AttemptEnds
  <2>2. HandlerStep(d) BY <1>t, <1>1, <1>2, <2>1 DEF Typed, HandlerStep
  <2>3. exec'[d] = "succeeded" BY <1>t, <1>2 DEF Typed
  <2>4. Fine(d)'
    BY <1>t, <1>1, <1>2, <2>1, <2>3 DEF Fine, Belongs, Succeeds, Ends, Deliveries!Applies
  <2> QED BY <2>2, <2>4, HandlerStepKeeps
<1>3. CASE Deliveries!Fault("error") /\ Deliveries!Throws(d, "fail", "retryable") /\ UNCHANGED <<exec, job>>
  <2>1. handler' \in [Sent -> DeliveryHandler] /\ handler'[d].pc = "fail"
        /\ \A e \in Sent \ {d} : handler'[e] = handler[e]
    BY <1>t, <1>3, HandlerThrows DEF Typed
  <2>2. dfaults' \in 0 .. MaxTrouble /\ dfaults <= dfaults' /\ dfaults' > 0 /\ (dfaults > 1 => dfaults' > 1)
    BY <1>t, <1>3, FaultCounts, GitHubAssumption DEF Typed
  <2>3. HandlerStep(d) BY <1>t, <1>1, <1>3, <2>1, <2>2 DEF Typed, HandlerStep
  <2>4. Fine(d)'
    BY <1>t, <1>1, <1>3, <2>1, <2>2 DEF Fine, Belongs, Succeeds, Ends, Deliveries!Applies
  <2> QED BY <2>3, <2>4, HandlerStepKeeps
<1> QED BY <1>2, <1>3 DEF Deliveries!MarkJobSucceeded

LEMMA MarkJobFailedKeeps == ASSUME DInv, NEW d \in Sent, Deliveries!MarkJobFailed(d) PROVE DInv'
<1>t. Typed /\ Fine(d) /\ dfaults <= dfaults BY DTypes, GitHubAssumption DEF DInv, Typed
<1>1. handler[d].pc = "fail" /\ UNCHANGED <<github, sent, net, deliveries, inst, applied>>
      /\ (Deliveries!Complete(d) \/ Deliveries!FailJob(d))
  BY DEF Deliveries!MarkJobFailed
<1>2. /\ job' \in [Sent -> DeliveryJob] /\ handler' \in [Sent -> DeliveryHandler]
      /\ handler'[d].pc = "idle" /\ job'[d].attempts = job[d].attempts
      /\ Deliveries!Complete(d) => job'[d].state = "done"
      /\ job'[d].state \in {"ready", "done"}
      /\ \A e \in Sent \ {d} : job'[e] = job[e] /\ handler'[e] = handler[e]
  BY <1>1, AttemptEnds
<1>3. CASE /\ exec' = [exec EXCEPT ![d] = Deliveries!FailedStatus(d)]
           /\ IF handler[d].error = "permanent" THEN Deliveries!Complete(d) ELSE Deliveries!FailJob(d)
           /\ UNCHANGED dfaults
  <2>1. Deliveries!FailedStatus(d) \in {"failed", "retrying"} BY DEF Deliveries!FailedStatus
  <2>2. exec' \in [Sent -> {"absent", "queued", "running", "retrying", "succeeded", "failed"}]
        /\ exec'[d] = Deliveries!FailedStatus(d) /\ \A e \in Sent \ {d} : exec'[e] = exec[e]
    BY <1>t, <1>3, <2>1 DEF Typed
  <2>3. HandlerStep(d) BY <1>t, <1>1, <1>2, <1>3, <2>2 DEF Typed, HandlerStep
  <2>a. job[d].attempts \in 0 .. MaxAttempts BY <1>t DEF Typed, DeliveryJob
  <2>4. exec'[d] = "retrying" => job[d].attempts # MaxAttempts
    BY <2>2, <2>a, GitHubAssumption DEF Deliveries!FailedStatus
  <2>5. exec'[d] = "failed" => job'[d].state = "done" \/ job[d].attempts = MaxAttempts
    BY <1>2, <1>3, <2>2, <2>a, GitHubAssumption DEF Deliveries!FailedStatus
  <2>6. Fine(d)'
    <3>1. Belongs(d)' /\ Succeeds(d)'
      BY <1>t, <1>1, <1>2, <1>3, <2>1, <2>2 DEF Fine, Belongs, Succeeds, Deliveries!Applies
    <3>2. Ends(d)' BY <1>t, <1>1, <1>2, <1>3, <2>1, <2>2, <2>4, <2>5 DEF Fine, Ends
    <3> QED BY <3>1, <3>2 DEF Fine
  <2> QED BY <2>3, <2>6, HandlerStepKeeps
<1>4. CASE Deliveries!Fault("error") /\ Deliveries!FailJob(d) /\ UNCHANGED exec
  <2>2. dfaults' \in 0 .. MaxTrouble /\ dfaults <= dfaults' /\ dfaults' > 0 /\ (dfaults > 1 => dfaults' > 1)
    BY <1>t, <1>4, FaultCounts, GitHubAssumption DEF Typed
  <2>3. HandlerStep(d) BY <1>t, <1>1, <1>2, <1>4, <2>2 DEF Typed, HandlerStep
  <2>4. Fine(d)'
    BY <1>t, <1>1, <1>2, <1>4, <2>2 DEF Fine, Belongs, Succeeds, Ends, Deliveries!Applies
  <2> QED BY <2>3, <2>4, HandlerStepKeeps
<1> QED BY <1>3, <1>4 DEF Deliveries!MarkJobFailed

LEMMA LoadDeliveryKeeps == ASSUME DInv, NEW d \in Sent, Deliveries!LoadDelivery(d) PROVE DInv'
<1>t. Typed /\ Fine(d) /\ dfaults <= dfaults BY DTypes, GitHubAssumption DEF DInv, Typed
<1>1. handler[d].pc = "load" /\ UNCHANGED <<github, sent, net, job, exec, inst, applied>>
  BY DEF Deliveries!LoadDelivery
<1>r. job[d].attempts \in 0 .. MaxAttempts /\ deliveries[d] \in DeliveryRow BY <1>t DEF Typed, DeliveryJob
<1>2. CASE /\ Deliveries!Claimable(d)
           /\ deliveries' = [deliveries EXCEPT ![d] = Deliveries!Claimed(d)]
           /\ IF deliveries[d].payload THEN Deliveries!HandlerTo(d, "apply")
              ELSE Deliveries!Throws(d, "failed", "permanent")
           /\ UNCHANGED dfaults
  <2> DEFINE m == Deliveries!Claimed(d)
  <2>1. m \in DeliveryRow /\ m.state = "processing" /\ m.attempt = job[d].attempts
    BY <1>r DEF Deliveries!Claimed, DeliveryRow
  <2>2. deliveries' = [deliveries EXCEPT ![d] = m] BY <1>2
  <2> HIDE DEF m
  <2>3. deliveries' \in [Sent -> DeliveryRow] /\ deliveries'[d].state = "processing"
        /\ deliveries'[d].attempt = job[d].attempts /\ \A e \in Sent \ {d} : deliveries'[e] = deliveries[e]
    BY <1>t, <2>1, <2>2 DEF Typed
  <2>4. handler' \in [Sent -> DeliveryHandler] /\ handler'[d].pc \in {"apply", "failed"}
        /\ \A e \in Sent \ {d} : handler'[e] = handler[e]
    <3>1. CASE Deliveries!HandlerTo(d, "apply") BY <1>t, <3>1, HandlerMoves DEF Typed
    <3>2. CASE Deliveries!Throws(d, "failed", "permanent") BY <1>t, <3>2, HandlerThrows DEF Typed
    <3> QED BY <1>2, <3>1, <3>2
  <2>5. HandlerStep(d) BY <1>t, <1>1, <1>2, <2>3, <2>4 DEF Typed, HandlerStep
  <2>6. deliveries[d].state \notin {"succeeded", "ignored"} BY <1>2 DEF Deliveries!Claimable
  <2>7. Fine(d)'
    <3>1. Belongs(d)' BY <1>t, <1>1, <1>r, <2>3, <2>4, <2>6 DEF Fine, Belongs
    <3>2. Succeeds(d)'
      BY <1>t, <1>1, <1>2, <2>3, <2>4, <2>6 DEF Fine, Belongs, Succeeds, Deliveries!Applies
    <3>3. Ends(d)' BY <1>t, <1>1, <1>2, <2>3, <2>4, <2>6 DEF Fine, Belongs, Ends
    <3> QED BY <3>1, <3>2, <3>3 DEF Fine
  <2> QED BY <2>5, <2>7, HandlerStepKeeps
<1>3. CASE ~Deliveries!Claimable(d) /\ Deliveries!HandlerTo(d, "succeed") /\ UNCHANGED <<deliveries, dfaults>>
  <2>1. handler' \in [Sent -> DeliveryHandler] /\ handler'[d].pc = "succeed"
        /\ \A e \in Sent \ {d} : handler'[e] = handler[e]
    BY <1>t, <1>3, HandlerMoves DEF Typed
  <2>2. HandlerStep(d) BY <1>t, <1>1, <1>3, <2>1 DEF Typed, HandlerStep
  <2>3. deliveries[d].state = "succeeded"
    BY <1>t, <1>1, <1>3 DEF Fine, Belongs, Deliveries!Claimable
  <2>4. Fine(d)'
    BY <1>t, <1>1, <1>3, <2>1, <2>3 DEF Fine, Belongs, Succeeds, Ends, Deliveries!Applies
  <2> QED BY <2>2, <2>4, HandlerStepKeeps
<1>4. CASE Deliveries!Fault("error") /\ Deliveries!Throws(d, "failed", "retryable") /\ UNCHANGED deliveries
  <2>1. handler' \in [Sent -> DeliveryHandler] /\ handler'[d].pc = "failed"
        /\ \A e \in Sent \ {d} : handler'[e] = handler[e]
    BY <1>t, <1>4, HandlerThrows DEF Typed
  <2>2. dfaults' \in 0 .. MaxTrouble /\ dfaults <= dfaults' /\ dfaults' > 0 /\ (dfaults > 0 => dfaults' > 1)
    BY <1>t, <1>4, FaultCounts, GitHubAssumption DEF Typed
  <2>3. HandlerStep(d) BY <1>t, <1>1, <1>4, <2>1, <2>2 DEF Typed, HandlerStep
  <2>4. Belongs(d)' BY <1>t, <1>1, <1>4, <2>1 DEF Fine, Belongs
  <2>a. Deliveries!Applies(d) => dfaults' > 1
    BY <1>t, <1>1, <2>2 DEF Fine, Belongs, Succeeds
  <2>5. Succeeds(d)'
    BY <1>t, <1>1, <1>4, <2>1, <2>2, <2>a DEF Fine, Succeeds, Deliveries!Applies
  <2>6. Ends(d)' BY <1>t, <1>1, <1>4, <2>1, <2>2 DEF Fine, Ends
  <2> QED BY <2>3, <2>4, <2>5, <2>6, HandlerStepKeeps DEF Fine
<1> QED BY <1>2, <1>3, <1>4 DEF Deliveries!LoadDelivery

LEMMA MarkDeliveryFailedKeeps == ASSUME DInv, NEW d \in Sent, Deliveries!MarkDeliveryFailed(d) PROVE DInv'
<1>t. Typed /\ Fine(d) /\ dfaults <= dfaults BY DTypes, GitHubAssumption DEF DInv, Typed
<1>1. handler[d].pc = "failed" /\ UNCHANGED <<github, sent, net, job, exec, inst, applied>>
  BY DEF Deliveries!MarkDeliveryFailed
<1>2. CASE deliveries' = [deliveries EXCEPT ![d].state = "failed"] /\ Deliveries!HandlerTo(d, "fail") /\ UNCHANGED dfaults
  <2>1. handler' \in [Sent -> DeliveryHandler] /\ handler'[d].pc = "fail"
        /\ \A e \in Sent \ {d} : handler'[e] = handler[e]
    BY <1>t, <1>2, HandlerMoves DEF Typed
  <2>2. /\ deliveries' \in [Sent -> DeliveryRow]
        /\ deliveries'[d].state = "failed" /\ deliveries'[d].attempt = deliveries[d].attempt
        /\ \A e \in Sent \ {d} : deliveries'[e] = deliveries[e]
    BY <1>t, <1>2, RowMoves DEF Typed
  <2>3. HandlerStep(d) BY <1>t, <1>1, <1>2, <2>1, <2>2 DEF Typed, HandlerStep
  <2>4. Fine(d)'
    BY <1>t, <1>1, <1>2, <2>1, <2>2 DEF Fine, Belongs, Succeeds, Ends, Deliveries!Applies
  <2> QED BY <2>3, <2>4, HandlerStepKeeps
<1>3. CASE Deliveries!Fault("error") /\ Deliveries!Throws(d, "fail", "retryable") /\ UNCHANGED deliveries
  <2>1. handler' \in [Sent -> DeliveryHandler] /\ handler'[d].pc = "fail"
        /\ \A e \in Sent \ {d} : handler'[e] = handler[e]
    BY <1>t, <1>3, HandlerThrows DEF Typed
  <2>2. dfaults' \in 0 .. MaxTrouble /\ dfaults <= dfaults' /\ dfaults' > 0 /\ (dfaults > 1 => dfaults' > 1)
    BY <1>t, <1>3, FaultCounts, GitHubAssumption DEF Typed
  <2>3. HandlerStep(d) BY <1>t, <1>1, <1>3, <2>1, <2>2 DEF Typed, HandlerStep
  <2>4. Fine(d)'
    BY <1>t, <1>1, <1>3, <2>1, <2>2 DEF Fine, Belongs, Succeeds, Ends, Deliveries!Applies
  <2> QED BY <2>3, <2>4, HandlerStepKeeps
<1> QED BY <1>2, <1>3 DEF Deliveries!MarkDeliveryFailed

LEMMA PurgeAfterKeeps == ASSUME DInv, NEW d \in Sent, Deliveries!PurgeAfter(d) PROVE DInv'
<1>t. Typed /\ Fine(d) /\ dfaults <= dfaults BY DTypes, GitHubAssumption DEF DInv, Typed
<1>1. handler[d].pc = "purge" /\ UNCHANGED <<github, sent, net, deliveries, job, exec, inst, applied>>
  BY DEF Deliveries!PurgeAfter
<1>2. CASE Deliveries!HandlerTo(d, "succeed") /\ UNCHANGED dfaults
  <2>1. handler' \in [Sent -> DeliveryHandler] /\ handler'[d].pc = "succeed"
        /\ \A e \in Sent \ {d} : handler'[e] = handler[e]
    BY <1>t, <1>2, HandlerMoves DEF Typed
  <2>2. HandlerStep(d) BY <1>t, <1>1, <1>2, <2>1 DEF Typed, HandlerStep
  <2>3. Fine(d)'
    BY <1>t, <1>1, <1>2, <2>1 DEF Fine, Belongs, Succeeds, Ends, Deliveries!Applies
  <2> QED BY <2>2, <2>3, HandlerStepKeeps
<1>3. CASE Deliveries!Fault("error") /\ Deliveries!Throws(d, "fail", "retryable")
  <2>1. handler' \in [Sent -> DeliveryHandler] /\ handler'[d].pc = "fail"
        /\ \A e \in Sent \ {d} : handler'[e] = handler[e]
    BY <1>t, <1>3, HandlerThrows DEF Typed
  <2>2. dfaults' \in 0 .. MaxTrouble /\ dfaults <= dfaults' /\ dfaults' > 0 /\ (dfaults > 1 => dfaults' > 1)
    BY <1>t, <1>3, FaultCounts, GitHubAssumption DEF Typed
  <2>3. HandlerStep(d) BY <1>t, <1>1, <1>3, <2>1, <2>2 DEF Typed, HandlerStep
  <2>4. Fine(d)'
    BY <1>t, <1>1, <1>3, <2>1, <2>2 DEF Fine, Belongs, Succeeds, Ends, Deliveries!Applies
  <2> QED BY <2>3, <2>4, HandlerStepKeeps
<1> QED BY <1>2, <1>3 DEF Deliveries!PurgeAfter

(* What applying delivery d adds to the history.                                            *)
LEMMA Appends ==
  ASSUME applied \in Seq(Sent), NEW d \in Sent, applied' = Append(applied, d)
  PROVE  /\ applied' \in Seq(Sent)
         /\ Len(applied') = Len(applied) + 1 /\ applied'[Len(applied) + 1] = d
         /\ DOMAIN applied = 1 .. Len(applied) /\ DOMAIN applied' = 1 .. Len(applied) + 1
         /\ \A i \in 1 .. Len(applied) : applied'[i] = applied[i] /\ applied[i] \in Sent
         /\ \A e : Deliveries!Applies(e)' <=> Deliveries!Applies(e) \/ e = d
<1>1. /\ applied' \in Seq(Sent)
      /\ Len(applied') = Len(applied) + 1 /\ applied'[Len(applied) + 1] = d
      /\ DOMAIN applied = 1 .. Len(applied) /\ DOMAIN applied' = 1 .. Len(applied) + 1
      /\ \A i \in 1 .. Len(applied) : applied'[i] = applied[i] /\ applied[i] \in Sent
      /\ Len(applied) \in Nat
  OBVIOUS
<1>2. ASSUME NEW e PROVE Deliveries!Applies(e)' <=> Deliveries!Applies(e) \/ e = d
  <2>1. Deliveries!Applies(e)' => Deliveries!Applies(e) \/ e = d
    <3>1. SUFFICES ASSUME NEW i \in 1 .. Len(applied) + 1, applied'[i] = e
                   PROVE  Deliveries!Applies(e) \/ e = d
      BY <1>1 DEF Deliveries!Applies
    <3>2. i \in 1 .. Len(applied) \/ i = Len(applied) + 1 BY <1>1, <3>1
    <3> QED BY <1>1, <3>1, <3>2 DEF Deliveries!Applies
  <2>2. Deliveries!Applies(e) => Deliveries!Applies(e)'
    <3>1. SUFFICES ASSUME NEW i \in 1 .. Len(applied), applied[i] = e
                   PROVE  Deliveries!Applies(e)'
      BY <1>1 DEF Deliveries!Applies
    <3>2. i \in 1 .. Len(applied) + 1 /\ applied'[i] = e BY <1>1, <3>1
    <3> QED BY <1>1, <3>2 DEF Deliveries!Applies
  <2>3. e = d => Deliveries!Applies(e)'
    <3>1. Len(applied) + 1 \in 1 .. Len(applied) + 1 BY <1>1
    <3> QED BY <1>1, <3>1 DEF Deliveries!Applies
  <2> QED BY <2>1, <2>2, <2>3
<1> QED BY <1>1, <1>2

LEMMA AppliedType ==
  ASSUME Typed, NEW d \in Sent
  PROVE  Deliveries!Applied(d) \in [life : {"absent", "active", "suspended", "pending_deletion"},
                                    perm : {"current", "stale", "suspended", "revoked"}, repo : BOOLEAN]
<1> DEFINE I == [life : {"absent", "active", "suspended", "pending_deletion"},
                 perm : {"current", "stale", "suspended", "revoked"}, repo : BOOLEAN]
<1>1. inst \in I /\ sent[d].after.repo \in BOOLEAN
  BY DEF Typed, Deliveries!Event, Deliveries!GitHubState
<1>2. ASSUME NEW perm \in {"current", "stale"} PROVE Deliveries!UpsertInstallation(d, perm) \in I
  BY <1>1, <1>2 DEF Deliveries!UpsertInstallation
<1>3. \A i \in I : /\ \A b \in BOOLEAN : [i EXCEPT !.repo = b] \in I
                   /\ [i EXCEPT !.life = "suspended", !.perm = "suspended"] \in I
                   /\ [i EXCEPT !.life = "pending_deletion", !.perm = "revoked", !.repo = FALSE] \in I
  OBVIOUS
<1>4. \A i \in I, b \in BOOLEAN : [i EXCEPT !.repo = @ \/ b] \in I OBVIOUS
<1> DEFINE U(perm) == Deliveries!UpsertInstallation(d, perm)
           k == sent[d].kind
<1>5. /\ k = "created" => Deliveries!Applied(d) = [U("current") EXCEPT !.repo = @ \/ sent[d].after.repo]
      /\ k = "suspend" => Deliveries!Applied(d) = [U("current") EXCEPT !.life = "suspended", !.perm = "suspended"]
      /\ k = "unsuspend" => Deliveries!Applied(d) = U("stale")
      /\ k = "deleted" => Deliveries!Applied(d) =
                            [U("current") EXCEPT !.life = "pending_deletion", !.perm = "revoked", !.repo = FALSE]
      /\ k = "new_permissions_accepted" => Deliveries!Applied(d) = U("current")
      /\ k = "added" => Deliveries!Applied(d) = [inst EXCEPT !.repo = TRUE]
      /\ k = "removed" => Deliveries!Applied(d) = [inst EXCEPT !.repo = FALSE]
      /\ k \notin {"created", "suspend", "unsuspend", "deleted", "new_permissions_accepted", "added", "removed"}
           => Deliveries!Applied(d) = inst
  BY DEF Deliveries!Applied
<1>6. U("current") \in I /\ U("stale") \in I BY <1>2
<1>7. /\ k = "suspend" => Deliveries!Applied(d) \in I
      /\ k = "deleted" => Deliveries!Applied(d) \in I
      /\ k = "added" => Deliveries!Applied(d) \in I
      /\ k = "removed" => Deliveries!Applied(d) \in I
  <2> HIDE DEF I, U, k
  <2> QED BY <1>1, <1>3, <1>5, <1>6
<1>8. k = "created" => Deliveries!Applied(d) \in I
  <2> HIDE DEF I, U, k
  <2> QED BY <1>1, <1>4, <1>5, <1>6
<1>9. k \notin {"created", "suspend", "deleted", "added", "removed"} => Deliveries!Applied(d) \in I
  <2> HIDE DEF I, U, k
  <2> QED BY <1>1, <1>5, <1>6
<1>a. Deliveries!Applied(d) \in I
  <2> HIDE DEF I, U, k
  <2> QED BY <1>7, <1>8, <1>9
<1> QED BY <1>a

(* The step that applies the event of delivery d.                                           *)
Commit(d) ==
  /\ handler[d].pc = "apply" /\ sent[d].kind # "malformed"
  /\ UNCHANGED <<github, sent, net, job, exec, dfaults>>
  /\ inst' = Deliveries!Applied(d) /\ applied' = Append(applied, d)
  /\ deliveries' = [deliveries EXCEPT ![d].state = "succeeded"]
  /\ Deliveries!HandlerTo(d, "purge")

LEMMA CommitKeeps == ASSUME DInv, NEW d \in Sent, Commit(d) PROVE DInv'
<1>t. Typed /\ Fine(d) /\ dfaults \in Nat BY DTypes, GitHubAssumption DEF DInv, Typed
<1>1. handler' \in [Sent -> DeliveryHandler] /\ handler'[d].pc = "purge"
      /\ \A e \in Sent \ {d} : handler'[e] = handler[e]
  BY <1>t, HandlerMoves DEF Typed, Commit
<1>2. /\ deliveries' \in [Sent -> DeliveryRow]
      /\ deliveries'[d].state = "succeeded" /\ deliveries'[d].attempt = deliveries[d].attempt
      /\ \A e \in Sent \ {d} : deliveries'[e] = deliveries[e]
  BY <1>t, RowMoves DEF Typed, Commit
<1>3. /\ applied' \in Seq(Sent)
      /\ Len(applied') = Len(applied) + 1 /\ applied'[Len(applied) + 1] = d
      /\ DOMAIN applied = 1 .. Len(applied) /\ DOMAIN applied' = 1 .. Len(applied) + 1
      /\ \A i \in 1 .. Len(applied) : applied'[i] = applied[i] /\ applied[i] \in Sent
      /\ \A e : Deliveries!Applies(e)' <=> Deliveries!Applies(e) \/ e = d
  BY <1>t, Appends DEF Typed, Commit
<1>4. Deliveries!TypeOK'
  <2>1. inst' \in [life : {"absent", "active", "suspended", "pending_deletion"},
                   perm : {"current", "stale", "suspended", "revoked"}, repo : BOOLEAN]
    BY <1>t, AppliedType DEF Commit
  <2> QED BY <1>t, <1>1, <1>2, <1>3, <2>1, DTypes DEF Typed, Commit
<1>5. Deliveries!Applies(d) => dfaults > 1 BY <1>t DEF Fine, Succeeds, Commit
<1>6. Fine(d)' BY <1>t, <1>1, <1>2, <1>3, <1>5 DEF Fine, Belongs, Succeeds, Ends, Commit
<1>7. \A e \in Sent \ {d} : Apart(e) BY <1>1, <1>2, <1>3 DEF Apart, Commit
<1>8. \A e \in Sent : Fine(e)'
  BY <1>t, <1>6, <1>7, ApartKeeps DEF DInv, Commit
<1>9. Deliveries!AppliedOnce'
  <2> SUFFICES ASSUME NEW i \in 1 .. Len(applied) + 1, NEW j \in 1 .. Len(applied) + 1,
                      applied'[i] = applied'[j], i # j
               PROVE  dfaults' > 1
    BY <1>3 DEF Deliveries!AppliedOnce
  <2>0. Len(applied) \in Nat /\ dfaults' = dfaults BY <1>t DEF Typed, Commit
  <2>1. CASE i \in 1 .. Len(applied) /\ j \in 1 .. Len(applied)
    BY <1>3, <2>0, <2>1 DEF DInv, Deliveries!AppliedOnce
  <2>2. CASE i = Len(applied) + 1 \/ j = Len(applied) + 1
    <3>1. PICK k \in 1 .. Len(applied) : applied[k] = d BY <1>3, <2>0, <2>2
    <3>2. Deliveries!Applies(d) BY <1>3, <3>1 DEF Deliveries!Applies
    <3> QED BY <1>5, <2>0, <3>2
  <2> QED BY <2>0, <2>1, <2>2
<1> QED BY <1>4, <1>8, <1>9 DEF DInv, Sent, Deliveries!Delivery

LEMMA ApplyDeliveryKeeps == ASSUME DInv, NEW d \in Sent, Deliveries!ApplyDelivery(d) PROVE DInv'
<1>t. Typed /\ Fine(d) /\ dfaults <= dfaults BY DTypes, GitHubAssumption DEF DInv, Typed
<1>1. CASE Commit(d) BY <1>1, CommitKeeps
<1>2. CASE ~Commit(d)
  <2>1. /\ handler[d].pc = "apply" /\ UNCHANGED <<github, sent, net, job, exec, inst, applied, deliveries>>
        /\ Deliveries!Throws(d, "failed", "permanent") \/ Deliveries!Throws(d, "failed", "retryable")
        /\ UNCHANGED dfaults \/ Deliveries!Fault("error")
    BY <1>2 DEF Deliveries!ApplyDelivery, Commit
  <2>2. handler' \in [Sent -> DeliveryHandler] /\ handler'[d].pc = "failed"
        /\ \A e \in Sent \ {d} : handler'[e] = handler[e]
    <3>1. CASE Deliveries!Throws(d, "failed", "permanent") BY <1>t, <3>1, HandlerThrows DEF Typed
    <3>2. CASE Deliveries!Throws(d, "failed", "retryable") BY <1>t, <3>2, HandlerThrows DEF Typed
    <3> QED BY <2>1, <3>1, <3>2
  <2>3. dfaults' \in 0 .. MaxTrouble /\ dfaults <= dfaults' /\ (dfaults > 1 => dfaults' > 1)
        /\ (dfaults > 0 => dfaults' > 0)
    BY <1>t, <2>1, FaultCounts, GitHubAssumption DEF Typed
  <2>4. HandlerStep(d) BY <1>t, <2>1, <2>2, <2>3 DEF Typed, HandlerStep
  <2>5. Fine(d)'
    BY <1>t, <2>1, <2>2, <2>3 DEF Fine, Belongs, Succeeds, Ends, Deliveries!Applies
  <2> QED BY <2>4, <2>5, HandlerStepKeeps
<1> QED BY <1>1, <1>2

LEMMA CrashDeliveriesKeeps == ASSUME DInv, Deliveries!Crash PROVE DInv'
<1>t. Typed BY DTypes DEF DInv
<1>1. UNCHANGED <<github, sent, net, deliveries, job, exec, inst, applied>>
      /\ handler' = [d \in Sent |-> Deliveries!Idle] /\ Deliveries!Fault("crash")
  BY DEF Deliveries!Crash, Sent
<1>2. handler' \in [Sent -> DeliveryHandler] /\ \A d \in Sent : handler'[d].pc = "idle"
  BY <1>1 DEF Deliveries!Idle, DeliveryHandler
<1>3. dfaults' \in 0 .. MaxTrouble /\ dfaults < dfaults' /\ dfaults' > 0 /\ (dfaults > 1 => dfaults' > 1)
  BY <1>t, <1>1, FaultCounts, GitHubAssumption DEF Typed
<1>4. Deliveries!TypeOK' BY <1>t, <1>1, <1>2, <1>3, DTypes DEF Typed
<1>5. ASSUME NEW d \in Sent PROVE Fine(d)'
  <2>1. Fine(d) BY DEF DInv
  <2> QED BY <1>1, <1>2, <1>3, <2>1 DEF Fine, Belongs, Succeeds, Ends, Deliveries!Applies
<1>6. Deliveries!AppliedOnce' BY <1>1, <1>3 DEF DInv, Deliveries!AppliedOnce
<1> QED BY <1>4, <1>5, <1>6 DEF DInv, Sent, Deliveries!Delivery

LEMMA GitHubSendsKeeps == ASSUME DInv, NEW d \in Sent, Deliveries!GitHubSends(d) PROVE DInv'
<1>t. Typed /\ Fine(d) /\ dfaults <= dfaults BY DTypes, GitHubAssumption DEF DInv, Typed
<1>1. PICK kind \in Kind, after \in Deliveries!GitHubState :
        /\ sent[d].kind = "none" /\ github' = after
        /\ after \in Deliveries!Effects(kind, github)
        /\ sent' = [sent EXCEPT ![d] = [kind |-> kind, after |-> after]]
        /\ net' = [net EXCEPT ![d] = 1]
        /\ UNCHANGED <<deliveries, job, exec, handler, inst, applied, dfaults>>
  BY DEF Deliveries!GitHubSends
<1>2. [kind |-> kind, after |-> after] \in Deliveries!Event /\ kind # "none"
  BY EventsAssumption DEF Deliveries!Event, Deliveries!AllKinds
<1>3. Deliveries!TypeOK' BY <1>t, <1>1, <1>2, DTypes DEF Typed
<1>4. sent'[d].kind = kind BY <1>t, <1>1, <1>2 DEF Typed
<1>5. Fine(d)'
  BY <1>t, <1>1, <1>2, <1>4 DEF Fine, Belongs, Succeeds, Ends, Deliveries!Applies
<1>6. \A e \in Sent \ {d} : Apart(e) BY <1>t, <1>1 DEF Typed, Apart, Deliveries!Applies
<1> QED BY <1>t, <1>1, <1>3, <1>5, <1>6, StepKeeps

LEMMA DeliveriesStart == Deliveries!Init => DInv
<1> SUFFICES ASSUME Deliveries!Init PROVE DInv OBVIOUS
<1>1. github \in Deliveries!GitHubState BY DEF Deliveries!Init, Deliveries!GitHubState
<1>2. Typed
  <2>1. sent \in [Sent -> Deliveries!Event]
    BY <1>1 DEF Deliveries!Init, Sent, Deliveries!Event
  <2>2. deliveries \in [Sent -> DeliveryRow]
    BY GitHubAssumption DEF Deliveries!Init, Sent, Deliveries!Absent, DeliveryRow
  <2>3. job \in [Sent -> DeliveryJob]
    BY GitHubAssumption DEF Deliveries!Init, Sent, Deliveries!NoJob, DeliveryJob
  <2>4. handler \in [Sent -> DeliveryHandler]
    BY DEF Deliveries!Init, Sent, Deliveries!Idle, DeliveryHandler
  <2>5. inst \in [life : {"absent", "active", "suspended", "pending_deletion"},
                  perm : {"current", "stale", "suspended", "revoked"}, repo : BOOLEAN]
    BY <1>1 DEF Deliveries!Init, Deliveries!GitHubState
  <2> QED BY <1>1, <2>1, <2>2, <2>3, <2>4, <2>5, GitHubAssumption DEF Typed, Deliveries!Init, Sent
<1>3. ASSUME NEW d \in Sent PROVE Fine(d)
  <2>1. /\ net[d] = 0 /\ sent[d].kind = "none" /\ deliveries[d].state = "absent" /\ deliveries[d].attempt = 0
        /\ job[d].state = "absent" /\ job[d].attempts = 0 /\ exec[d] = "absent" /\ handler[d].pc = "idle"
    BY DEF Deliveries!Init, Sent, Deliveries!Absent, Deliveries!NoJob, Deliveries!Idle
  <2>2. ~Deliveries!Applies(d) BY DEF Deliveries!Init, Deliveries!Applies
  <2> QED BY <2>1, <2>2 DEF Fine, Belongs, Succeeds, Ends
<1>4. Deliveries!AppliedOnce BY DEF Deliveries!Init, Deliveries!AppliedOnce
<1> QED BY <1>2, <1>3, <1>4, DTypes DEF DInv

LEMMA DeliveriesKeep == DInv /\ Deliveries!Next => DInv'
<1> SUFFICES ASSUME DInv, Deliveries!Next PROVE DInv' OBVIOUS
<1>1. CASE Deliveries!Crash BY <1>1, CrashDeliveriesKeeps
<1>2. ASSUME NEW d \in Sent, Deliveries!Handles(d) PROVE DInv'
  BY <1>2, MarkJobStartedKeeps, LoadDeliveryKeeps, ApplyDeliveryKeeps, MarkDeliveryFailedKeeps,
     PurgeAfterKeeps, MarkJobSucceededKeeps, MarkJobFailedKeeps
  DEF Deliveries!Handles
<1> QED BY <1>1, <1>2, GitHubSendsKeeps, NetKeeps, AcceptKeeps, TakeKeeps, LockExpiresKeeps
        DEF Deliveries!Next, Sent

LEMMA DeliveriesStutter == DInv /\ UNCHANGED Deliveries!vars => DInv'
<1> SUFFICES ASSUME DInv, UNCHANGED Deliveries!vars PROVE DInv' OBVIOUS
<1>1. UNCHANGED <<github, sent, net, deliveries, job, exec, handler, inst, applied, dfaults>>
  BY DEF Deliveries!vars
<1>2. Deliveries!TypeOK' BY <1>1, DTypes DEF DInv, Typed
<1>3. \A d \in Sent : Fine(d)' BY <1>1 DEF DInv, Fine, Belongs, Succeeds, Ends, Deliveries!Applies
<1>4. Deliveries!AppliedOnce' BY <1>1 DEF DInv, Deliveries!AppliedOnce
<1> QED BY <1>2, <1>3, <1>4 DEF DInv, Sent, Deliveries!Delivery

LEMMA DeliveriesInvariant == Deliveries!Spec => []DInv
<1>1. DInv /\ [Deliveries!Next]_Deliveries!vars => DInv' BY DeliveriesKeep, DeliveriesStutter
<1> QED BY <1>1, DeliveriesStart, PTL DEF Deliveries!Spec

(* Whatever the numbers of events, attempts, slots and faults: an event that is delivered   *)
(* again or whose job is retried is applied again only after two faults, and the status of  *)
(* its job is true of it.                                                                   *)
THEOREM EventsAppliedOnce == Deliveries!Spec => []AppliedOnce
<1>1. DInv => AppliedOnce
  <2> SUFFICES ASSUME DInv PROVE Deliveries!StatusHonest
    BY DEF DInv, AppliedOnce
  <2>1. \A d \in Sent : Fine(d) BY DEF DInv
  <2> QED BY <2>1 DEF Fine, Succeeds, Ends, Deliveries!StatusHonest, Sent
<1> QED BY <1>1, DeliveriesInvariant, PTL

(* The rows i say what GitHub says of the installation.                                     *)
Mirrors(i, g) ==
  /\ i.life = IF g.life = "deleted" THEN "pending_deletion" ELSE g.life
  /\ i.repo <=> g.repo
  /\ i.perm = "suspended" <=> g.life = "suspended"
  /\ g.life = "absent" => ~g.repo

LEMMA EffectMirrored ==
  ASSUME Typed, NEW d \in Sent, NEW g \in Deliveries!GitHubState, Mirrors(inst, g),
         sent[d].after \in Deliveries!Effects(sent[d].kind, g),
         sent[d].kind \notin {"malformed", "future_action"}
  PROVE  Mirrors(Deliveries!Applied(d), sent[d].after)
<1> DEFINE k == sent[d].kind
           a == sent[d].after
<1>1. /\ inst \in [life : {"absent", "active", "suspended", "pending_deletion"},
                   perm : {"current", "stale", "suspended", "revoked"}, repo : BOOLEAN]
      /\ g \in [life : {"absent", "active", "suspended", "deleted"}, repo : BOOLEAN]
  BY DEF Typed, Deliveries!GitHubState
<1>2. \/ k = "created" /\ g.life = "absent" /\ (\E r \in BOOLEAN : a = [life |-> "active", repo |-> r])
      \/ k = "suspend" /\ g.life = "active" /\ a = [g EXCEPT !.life = "suspended"]
      \/ k = "unsuspend" /\ g.life = "suspended" /\ a = [g EXCEPT !.life = "active"]
      \/ k = "deleted" /\ g.life \in {"active", "suspended"} /\ a = [life |-> "deleted", repo |-> FALSE]
      \/ k = "added" /\ g.life = "active" /\ a = [g EXCEPT !.repo = TRUE]
      \/ k = "removed" /\ g.life = "active" /\ a = [g EXCEPT !.repo = FALSE]
      \/ k = "new_permissions_accepted" /\ g.life = "active" /\ a = g
  BY DEF Deliveries!Effects
<1>3. /\ k = "created" => Deliveries!Applied(d) = [Deliveries!UpsertInstallation(d, "current") EXCEPT !.repo = @ \/ a.repo]
      /\ k = "suspend" => Deliveries!Applied(d) =
           [Deliveries!UpsertInstallation(d, "current") EXCEPT !.life = "suspended", !.perm = "suspended"]
      /\ k = "unsuspend" => Deliveries!Applied(d) = Deliveries!UpsertInstallation(d, "stale")
      /\ k = "deleted" => Deliveries!Applied(d) =
           [Deliveries!UpsertInstallation(d, "current") EXCEPT !.life = "pending_deletion", !.perm = "revoked", !.repo = FALSE]
      /\ k = "new_permissions_accepted" => Deliveries!Applied(d) = Deliveries!UpsertInstallation(d, "current")
      /\ k = "added" => Deliveries!Applied(d) = [inst EXCEPT !.repo = TRUE]
      /\ k = "removed" => Deliveries!Applied(d) = [inst EXCEPT !.repo = FALSE]
  BY DEF Deliveries!Applied
<1>4. ASSUME NEW perm \in {"current", "stale"}
      PROVE  LET u == Deliveries!UpsertInstallation(d, perm) IN
             /\ u \in [life : {"active", "suspended"}, perm : {"current", "stale", "suspended"}, repo : BOOLEAN]
             /\ u.life = IF a.life = "suspended" THEN "suspended" ELSE "active"
             /\ u.perm = IF a.life = "suspended" THEN "suspended" ELSE perm
             /\ u.repo <=> inst.repo
  BY <1>1, <1>4 DEF Deliveries!UpsertInstallation, Deliveries!Suspended
<1> HIDE DEF k, a
<1>5. CASE k = "created"
  <2>1. PICK r \in BOOLEAN : a = [life |-> "active", repo |-> r] BY <1>2, <1>5
  <2>2. g.life = "absent" /\ ~inst.repo BY <1>2, <1>5 DEF Mirrors
  <2> DEFINE u == Deliveries!UpsertInstallation(d, "current")
  <2>3. /\ u \in [life : {"active", "suspended"}, perm : {"current", "stale", "suspended"}, repo : BOOLEAN]
        /\ u.life = "active" /\ u.perm = "current" /\ ~u.repo
    BY <1>4, <2>1, <2>2
  <2>4. Deliveries!Applied(d) = [u EXCEPT !.repo = @ \/ a.repo] BY <1>3, <1>5
  <2> HIDE DEF u
  <2>5. /\ Deliveries!Applied(d).life = "active" /\ Deliveries!Applied(d).perm = "current"
        /\ Deliveries!Applied(d).repo <=> a.repo
    BY <2>3, <2>4
  <2> QED BY <2>1, <2>5 DEF Mirrors, a
<1>6. CASE k = "suspend"
  <2> DEFINE u == Deliveries!UpsertInstallation(d, "current")
  <2>1. u \in [life : {"active", "suspended"}, perm : {"current", "stale", "suspended"}, repo : BOOLEAN]
        /\ (u.repo <=> inst.repo) /\ Deliveries!Applied(d) = [u EXCEPT !.life = "suspended", !.perm = "suspended"]
    BY <1>3, <1>4, <1>6
  <2> HIDE DEF u
  <2>2. a = [g EXCEPT !.life = "suspended"] BY <1>2, <1>6
  <2> QED BY <1>1, <2>1, <2>2 DEF Mirrors, a
<1>7. CASE k = "unsuspend"
  <2>1. a = [g EXCEPT !.life = "active"] BY <1>2, <1>7
  <2>2. a.life = "active" /\ (a.repo <=> g.repo) BY <1>1, <2>1
  <2> QED BY <1>3, <1>4, <1>7, <2>2 DEF Mirrors, a
<1>8. CASE k = "deleted"
  <2> DEFINE u == Deliveries!UpsertInstallation(d, "current")
  <2>1. u \in [life : {"active", "suspended"}, perm : {"current", "stale", "suspended"}, repo : BOOLEAN]
        /\ Deliveries!Applied(d) = [u EXCEPT !.life = "pending_deletion", !.perm = "revoked", !.repo = FALSE]
    BY <1>3, <1>4, <1>8
  <2> HIDE DEF u
  <2>2. a = [life |-> "deleted", repo |-> FALSE] BY <1>2, <1>8
  <2> QED BY <2>1, <2>2 DEF Mirrors, a
<1>9. CASE k = "added"
  <2>1. a = [g EXCEPT !.repo = TRUE] /\ g.life = "active" BY <1>2, <1>9
  <2>2. a.life = "active" /\ a.repo BY <1>1, <2>1
  <2>3. Deliveries!Applied(d).life = inst.life /\ Deliveries!Applied(d).perm = inst.perm /\ Deliveries!Applied(d).repo
    BY <1>1, <1>3, <1>9
  <2> QED BY <2>1, <2>2, <2>3 DEF Mirrors, a
<1>a. CASE k = "removed"
  <2>1. a = [g EXCEPT !.repo = FALSE] /\ g.life = "active" BY <1>2, <1>a
  <2>2. a.life = "active" /\ ~a.repo BY <1>1, <2>1
  <2>3. Deliveries!Applied(d).life = inst.life /\ Deliveries!Applied(d).perm = inst.perm /\ ~Deliveries!Applied(d).repo
    BY <1>1, <1>3, <1>a
  <2> QED BY <2>1, <2>2, <2>3 DEF Mirrors, a
<1>b. CASE k = "new_permissions_accepted"
  <2>1. a = g /\ g.life = "active" BY <1>2, <1>b
  <2> QED BY <1>3, <1>4, <1>b, <2>1 DEF Mirrors, a
<1> QED BY <1>2, <1>5, <1>6, <1>7, <1>8, <1>9, <1>a, <1>b

(* What GitHub said of the installation after event m; g0 is what it said at the start.     *)
After(g0, m) == IF m = 0 THEN g0 ELSE sent[m].after

Happened(m) == m = 0 \/ sent[m].kind # "none"

(* Nothing changed at GitHub after event m, and each event after m that only follows        *)
(* unsupported ones found the installation as m left it.                                    *)
Follows(g0, m) ==
  /\ (\A e \in Sent : e > m => sent[e].kind \in {"none", "future_action"}) => github = After(g0, m)
  /\ \A d \in Sent :
       /\ d > m /\ sent[d].kind # "none"
       /\ \A e \in Sent : m < e /\ e < d => sent[e].kind = "future_action"
       => sent[d].after \in Deliveries!Effects(sent[d].kind, After(g0, m))

Chained(g0) ==
  /\ \A d, e \in Sent : sent[d].kind # "none" /\ e < d => sent[e].kind # "none"
  /\ \A m \in Sent \cup {0} : Happened(m) => Follows(g0, m)

(* The event applied last; applied in order and without a gap, the rows mirror it.          *)
Last == IF applied = <<>> THEN 0 ELSE applied[Len(applied)]
NoGap(m) == \A e \in Sent : e < m => Deliveries!Applies(e) \/ sent[e].kind = "future_action"
Mirrored(g0) == Deliveries!InOrder /\ NoGap(Last) => Mirrors(inst, After(g0, Last))

Synced == \E g0 \in Deliveries!GitHubState : Chained(g0) /\ Mirrored(g0)

LEMMA SentNumbers == Sent \subseteq Nat \ {0}
BY GitHubAssumption DEF Sent, Deliveries!Delivery

LEMMA AppliedHappened == DInv => \A e \in Sent : Deliveries!Applies(e) => sent[e].kind # "none"
BY DEF DInv, Fine, Belongs, Succeeds

LEMMA LastApplied ==
  ASSUME Typed
  PROVE  /\ Last \in Sent \cup {0} /\ (Last # 0 => Deliveries!Applies(Last))
         /\ Deliveries!InOrder => \A e \in Sent : Deliveries!Applies(e) => e <= Last
<1>1. /\ applied \in Seq(Sent) /\ DOMAIN applied = 1 .. Len(applied) /\ Len(applied) \in Nat
      /\ \A i \in 1 .. Len(applied) : applied[i] \in Nat
  <2>1. applied \in Seq(Sent) BY DEF Typed
  <2>2. /\ DOMAIN applied = 1 .. Len(applied) /\ Len(applied) \in Nat
        /\ \A i \in 1 .. Len(applied) : applied[i] \in Sent
    BY <2>1
  <2> QED BY <2>1, <2>2, SentNumbers
<1>2. CASE applied = <<>> BY <1>1, <1>2 DEF Last, Deliveries!Applies
<1>3. CASE applied # <<>>
  <2>1. Len(applied) \in 1 .. Len(applied) BY <1>1, <1>3
  <2>2. Last = applied[Len(applied)] /\ Last \in Sent BY <1>1, <1>3, <2>1 DEF Last
  <2>3. Deliveries!Applies(Last) BY <1>1, <2>1, <2>2 DEF Deliveries!Applies
  <2>4. ASSUME Deliveries!InOrder, NEW i \in 1 .. Len(applied) PROVE applied[i] <= Last
    <3>1. applied[i] \in Nat /\ Last \in Nat BY <1>1, <2>2, <2>4, SentNumbers
    <3> DEFINE n == Len(applied)
    <3>2. n \in Nat /\ i \in 1 .. n BY <1>1, <2>4
    <3>3. DOMAIN applied = 1 .. n /\ n \in 1 .. n /\ applied[n] = Last BY <1>1, <2>1, <2>2
    <3> HIDE DEF n
    <3>4. i = n \/ i < n BY <3>2
    <3>5. i < n => applied[i] < Last BY <2>4, <3>2, <3>3 DEF Deliveries!InOrder
    <3> QED BY <3>1, <3>3, <3>4, <3>5
  <2> QED BY <1>1, <2>2, <2>3, <2>4 DEF Deliveries!Applies
<1> QED BY <1>2, <1>3

LEMMA GitHubSendsSynced ==
  ASSUME DInv, Synced, NEW d \in Sent, Deliveries!GitHubSends(d) PROVE Synced'
<1>t. Typed BY DTypes DEF DInv
<1>1. PICK kind \in Kind, after \in Deliveries!GitHubState :
        /\ sent[d].kind = "none" /\ (\A e \in 1 .. d - 1 : sent[e].kind # "none") /\ github' = after
        /\ after \in Deliveries!Effects(kind, github)
        /\ sent' = [sent EXCEPT ![d] = [kind |-> kind, after |-> after]]
        /\ UNCHANGED <<inst, applied>>
  BY DEF Deliveries!GitHubSends
<1>2. kind # "none" BY EventsAssumption DEF Deliveries!AllKinds
<1>3. sent'[d].kind = kind /\ sent'[d].after = after /\ \A e \in Sent \ {d} : sent'[e] = sent[e]
  BY <1>t, <1>1 DEF Typed
<1>4. PICK g0 \in Deliveries!GitHubState : Chained(g0) /\ Mirrored(g0) BY DEF Synced
<1>5. \A e \in Sent : e < d => sent[e].kind # "none" BY <1>1, SentNumbers DEF Sent, Deliveries!Delivery
<1>6. \A e \in Sent : e > d => sent[e].kind = "none" BY <1>1, <1>4 DEF Chained
<1>7. \A m \in Sent \cup {0} : m # d => After(g0, m)' = After(g0, m) BY <1>3 DEF After
<1>8. Chained(g0)'
  <2>1. \A x, e \in Sent : sent'[x].kind # "none" /\ e < x => sent'[e].kind # "none"
    BY <1>2, <1>3, <1>4, <1>5, <1>6, SentNumbers DEF Chained
  <2>2. ASSUME NEW m \in Sent \cup {0}, Happened(m)' PROVE Follows(g0, m)'
    <3>1. CASE m = d
      <4>1. After(g0, m)' = after BY <1>3, <3>1, SentNumbers DEF After
      <4>2. \A x \in Sent : x > m => sent'[x].kind = "none" BY <1>3, <1>6, <3>1, SentNumbers
      <4> QED BY <1>1, <4>1, <4>2 DEF Follows
    <3>2. CASE m # d
      <4>1. Happened(m) /\ m < d /\ m \in Nat
        BY <1>3, <1>6, <2>2, <3>2, SentNumbers DEF Happened
      <4>2. Follows(g0, m) BY <1>4, <4>1 DEF Chained
      <4>3. After(g0, m)' = After(g0, m) BY <1>7, <3>2
      <4>4. ASSUME \A e \in Sent : e > m => sent'[e].kind \in {"none", "future_action"}
            PROVE  github' = After(g0, m)
        <5>1. kind = "future_action" BY <1>2, <1>3, <4>1, <4>4
        <5>2. github' = github BY <1>1, <5>1 DEF Deliveries!Effects
        <5>3. \A e \in Sent : e > m => sent[e].kind \in {"none", "future_action"} BY <1>1, <1>3, <4>4
        <5> QED BY <4>2, <5>2, <5>3 DEF Follows
      <4>5. ASSUME NEW x \in Sent, x > m, sent'[x].kind # "none",
                   \A e \in Sent : m < e /\ e < x => sent'[e].kind = "future_action"
            PROVE  sent'[x].after \in Deliveries!Effects(sent'[x].kind, After(g0, m))
        <5>1. CASE x = d
          <6>1. \A e \in Sent : e > m => sent[e].kind \in {"none", "future_action"}
            BY <1>1, <1>3, <1>6, <4>5, <5>1, SentNumbers
          <6>2. github = After(g0, m) BY <4>2, <6>1 DEF Follows
          <6> QED BY <1>1, <1>3, <5>1, <6>2
        <5>2. CASE x # d
          <6>1. x < d BY <1>3, <1>6, <4>5, <5>2, SentNumbers
          <6>2. \A e \in Sent : m < e /\ e < x => sent[e].kind = "future_action"
            BY <1>3, <4>5, <6>1, SentNumbers
          <6> QED BY <1>3, <4>2, <4>5, <5>2, <6>2 DEF Follows
        <5> QED BY <5>1, <5>2
      <4> QED BY <4>3, <4>4, <4>5 DEF Follows
    <3> QED BY <3>1, <3>2
  <2> QED BY <2>1, <2>2 DEF Chained, Sent, Deliveries!Delivery
<1>9. Mirrored(g0)'
  <2> SUFFICES ASSUME Deliveries!InOrder', NoGap(Last)'
               PROVE  Mirrors(inst, After(g0, Last))'
    BY DEF Mirrored
  <2>1. Last' = Last /\ Deliveries!InOrder BY <1>1 DEF Last, Deliveries!InOrder
  <2>2. Last \in Sent \cup {0} /\ (Last # 0 => Deliveries!Applies(Last)) BY <1>t, LastApplied
  <2>3. Last # d /\ (Last # 0 => Last < d)
    BY <1>1, <1>6, <2>2, SentNumbers DEF DInv, Fine, Belongs, Succeeds
  <2>4. NoGap(Last)
    BY <1>1, <1>3, <2>1, <2>2, <2>3, SentNumbers DEF NoGap, Deliveries!Applies, Sent, Deliveries!Delivery
  <2>5. Mirrors(inst, After(g0, Last)) BY <1>4, <2>1, <2>4 DEF Mirrored
  <2>6. After(g0, Last)' = After(g0, Last) BY <1>7, <2>1, <2>2, <2>3 DEF After
  <2> QED BY <1>1, <2>5, <2>6 DEF Mirrors
<1> QED BY <1>4, <1>8, <1>9 DEF Synced, Deliveries!GitHubState

LEMMA CommitSynced == ASSUME DInv, Synced, NEW d \in Sent, Commit(d) PROVE Synced'
<1>t. Typed /\ Fine(d) BY DTypes DEF DInv
<1>1. UNCHANGED <<github, sent>> /\ inst' = Deliveries!Applied(d) /\ applied' = Append(applied, d) BY DEF Commit
<1>2. PICK g0 \in Deliveries!GitHubState : Chained(g0) /\ Mirrored(g0) BY DEF Synced
<1>3. Chained(g0)' BY <1>1, <1>2 DEF Chained, Happened, Follows, After, Sent, Deliveries!Delivery
<1>4. /\ applied' \in Seq(Sent)
      /\ Len(applied') = Len(applied) + 1 /\ applied'[Len(applied) + 1] = d
      /\ DOMAIN applied = 1 .. Len(applied) /\ DOMAIN applied' = 1 .. Len(applied) + 1
      /\ \A i \in 1 .. Len(applied) : applied'[i] = applied[i] /\ applied[i] \in Sent
      /\ \A e : Deliveries!Applies(e)' <=> Deliveries!Applies(e) \/ e = d
  BY <1>t, <1>1, Appends DEF Typed
<1>n. Len(applied) \in Nat BY <1>t DEF Typed
<1>5. Mirrored(g0)'
  <2> SUFFICES ASSUME Deliveries!InOrder', NoGap(Last)'
               PROVE  Mirrors(inst', After(g0, Last)')
    BY DEF Mirrored, Mirrors
  <2>1. Last' = d BY <1>4, <1>n DEF Last
  <2>2. Deliveries!InOrder
    <3> SUFFICES ASSUME NEW i \in 1 .. Len(applied), NEW j \in 1 .. Len(applied), i < j
                 PROVE  applied[i] < applied[j]
      BY <1>4 DEF Deliveries!InOrder
    <3>1. i \in 1 .. Len(applied) + 1 /\ j \in 1 .. Len(applied) + 1 BY <1>n
    <3> QED BY <1>4, <3>1 DEF Deliveries!InOrder
  <2>3. ASSUME NEW e \in Sent, Deliveries!Applies(e) PROVE e < d
    <3>1. PICK i \in 1 .. Len(applied) : applied[i] = e BY <1>4, <2>3 DEF Deliveries!Applies
    <3>2. i \in 1 .. Len(applied) + 1 /\ i < Len(applied) + 1 /\ Len(applied) + 1 \in 1 .. Len(applied) + 1
      BY <1>n, <3>1
    <3> QED BY <1>4, <3>1, <3>2 DEF Deliveries!InOrder
  <2>4. Last \in Sent \cup {0} /\ (Last # 0 => Deliveries!Applies(Last))
        /\ \A e \in Sent : Deliveries!Applies(e) => e <= Last
    BY <1>t, <2>2, LastApplied
  <2>5. Last < d BY <2>3, <2>4, SentNumbers
  <2>6. \A e \in Sent : e < d => Deliveries!Applies(e) \/ sent[e].kind = "future_action"
    BY <1>1, <1>4, <2>1, SentNumbers DEF NoGap, Sent, Deliveries!Delivery
  <2>7. NoGap(Last) BY <2>4, <2>5, <2>6, SentNumbers DEF NoGap
  <2>8. Mirrors(inst, After(g0, Last)) BY <1>2, <2>2, <2>7 DEF Mirrored
  <2>9. Happened(Last) BY <2>4, AppliedHappened DEF Happened
  <2>a. ASSUME NEW e \in Sent, Last < e, e < d PROVE sent[e].kind = "future_action"
    <3>1. e \in Nat /\ Last \in Nat BY <2>4, SentNumbers
    <3>2. ~Deliveries!Applies(e) BY <2>4, <2>a, <3>1
    <3> QED BY <2>6, <2>a, <3>2
  <2>b. sent[d].kind \notin {"none", "future_action", "malformed"}
    BY <1>t DEF Fine, Belongs, Succeeds, Commit
  <2>c. sent[d].after \in Deliveries!Effects(sent[d].kind, After(g0, Last))
    BY <1>2, <2>4, <2>5, <2>9, <2>a, <2>b DEF Chained, Follows
  <2>d. After(g0, Last) \in Deliveries!GitHubState
    BY <1>t, <2>4 DEF After, Typed, Deliveries!Event
  <2>e. Mirrors(Deliveries!Applied(d), sent[d].after)
    BY <1>t, <2>8, <2>b, <2>c, <2>d, EffectMirrored
  <2>f. After(g0, Last)' = sent[d].after BY <1>1, <2>1, SentNumbers DEF After
  <2> QED BY <1>1, <2>e, <2>f
<1> QED BY <1>2, <1>3, <1>5 DEF Synced, Deliveries!GitHubState

LEMMA OthersSynced ==
  ASSUME Synced, UNCHANGED <<github, sent, inst, applied>> PROVE Synced'
<1>1. PICK g0 \in Deliveries!GitHubState : Chained(g0) /\ Mirrored(g0) BY DEF Synced
<1>2. Chained(g0)' BY <1>1 DEF Chained, Happened, Follows, After, Sent, Deliveries!Delivery
<1>3. Mirrored(g0)'
  BY <1>1 DEF Mirrored, Mirrors, After, Last, NoGap, Deliveries!InOrder, Deliveries!Applies, Sent, Deliveries!Delivery
<1> QED BY <1>1, <1>2, <1>3 DEF Synced, Deliveries!GitHubState

LEMMA SyncedKeeps == DInv /\ Synced /\ [Deliveries!Next]_Deliveries!vars => Synced'
<1> SUFFICES ASSUME DInv, Synced, [Deliveries!Next]_Deliveries!vars PROVE Synced' OBVIOUS
<1>1. CASE UNCHANGED Deliveries!vars BY <1>1, OthersSynced DEF Deliveries!vars
<1>2. CASE Deliveries!Crash BY <1>2, OthersSynced DEF Deliveries!Crash
<1>3. ASSUME NEW d \in Sent, Deliveries!GitHubSends(d) PROVE Synced' BY <1>3, GitHubSendsSynced
<1>4. ASSUME NEW d \in Sent, Deliveries!ApplyDelivery(d) PROVE Synced'
  <2>1. CASE Commit(d) BY <2>1, CommitSynced
  <2>2. CASE ~Commit(d)
    <3>1. UNCHANGED <<github, sent, inst, applied>> BY <1>4, <2>2 DEF Deliveries!ApplyDelivery, Commit
    <3> QED BY <3>1, OthersSynced
  <2> QED BY <2>1, <2>2
<1>5. ASSUME NEW d \in Sent,
             \/ Deliveries!Lose(d) \/ Deliveries!Redeliver(d) \/ Deliveries!Accept(d) \/ Deliveries!Take(d)
             \/ Deliveries!LockExpires(d) \/ Deliveries!RetentionCleanup(d)
             \/ Deliveries!MarkJobStarted(d) \/ Deliveries!LoadDelivery(d) \/ Deliveries!MarkDeliveryFailed(d)
             \/ Deliveries!PurgeAfter(d) \/ Deliveries!MarkJobSucceeded(d) \/ Deliveries!MarkJobFailed(d)
      PROVE  Synced'
  <2>1. UNCHANGED <<github, sent, inst, applied>>
    BY <1>5 DEF Deliveries!Lose, Deliveries!Redeliver, Deliveries!Accept, Deliveries!Take, Deliveries!LockExpires,
         Deliveries!RetentionCleanup, Deliveries!MarkJobStarted, Deliveries!LoadDelivery, Deliveries!MarkDeliveryFailed,
         Deliveries!PurgeAfter, Deliveries!MarkJobSucceeded, Deliveries!MarkJobFailed
  <2> QED BY <2>1, OthersSynced
<1> QED BY <1>1, <1>2, <1>3, <1>4, <1>5 DEF Deliveries!Next, Deliveries!Handles, Sent

LEMMA SyncedStarts == Deliveries!Init => Synced
<1> SUFFICES ASSUME Deliveries!Init PROVE Synced OBVIOUS
<1>1. github \in Deliveries!GitHubState BY DEF Deliveries!Init, Deliveries!GitHubState
<1>2. \A d \in Sent : sent[d].kind = "none" BY DEF Deliveries!Init, Sent
<1>3. Chained(github)
  <2>1. ASSUME NEW m \in Sent \cup {0}, Happened(m) PROVE Follows(github, m)
    <3>1. m = 0 BY <1>2, <2>1 DEF Happened
    <3> QED BY <1>2, <3>1 DEF Follows, After
  <2> QED BY <1>2, <2>1 DEF Chained
<1>4. Mirrors(inst, github)
  BY <1>1 DEF Deliveries!Init, Mirrors, Deliveries!GitHubState
<1>5. Last = 0 BY DEF Deliveries!Init, Last
<1> QED BY <1>1, <1>3, <1>4, <1>5 DEF Synced, Mirrored, After

(* Whatever the numbers of events, attempts, slots and faults: applied in the order in      *)
(* which GitHub sent them, the events leave the rows as GitHub has the installation.        *)
THEOREM RowsKeepUp == Deliveries!Spec => []RowsFollowGitHub
<1>1. DInv /\ Synced => RowsFollowGitHub
  <2> SUFFICES ASSUME DInv, Synced, Deliveries!Quiet, Deliveries!InOrder, github.life # "absent"
               PROVE  /\ inst.life = IF github.life = "deleted" THEN "pending_deletion" ELSE github.life
                      /\ inst.repo = github.repo
                      /\ inst.perm = "suspended" <=> github.life = "suspended"
    BY DEF RowsFollowGitHub, Deliveries!RowsFollowGitHub
  <2>t. Typed BY DTypes DEF DInv
  <2>1. PICK g0 \in Deliveries!GitHubState : Chained(g0) /\ Mirrored(g0) BY DEF Synced
  <2>2. Last \in Sent \cup {0} /\ (Last # 0 => Deliveries!Applies(Last))
        /\ \A e \in Sent : Deliveries!Applies(e) => e <= Last
    BY <2>t, LastApplied
  <2>3. Happened(Last) BY <2>2, AppliedHappened DEF Happened
  <2>4. \A e \in Sent : sent[e].kind # "none" => Deliveries!Applies(e) \/ sent[e].kind = "future_action"
    BY DEF Deliveries!Quiet, DInv, Fine, Belongs, Succeeds, Sent
  <2>5. NoGap(Last)
    <3> SUFFICES ASSUME NEW e \in Sent, e < Last PROVE sent[e].kind # "none" BY <2>4 DEF NoGap
    <3>1. Last \in Sent BY <2>2, SentNumbers
    <3> QED BY <2>1, <2>3, <3>1, SentNumbers DEF Chained, Happened
  <2>6. \A e \in Sent : e > Last => sent[e].kind \in {"none", "future_action"}
    BY <2>2, <2>4, SentNumbers
  <2>7. github = After(g0, Last) BY <2>1, <2>2, <2>3, <2>6 DEF Chained, Follows
  <2>8. Mirrors(inst, github) BY <2>1, <2>5, <2>7 DEF Mirrored
  <2>9. inst.repo \in BOOLEAN /\ github.repo \in BOOLEAN BY <2>t DEF Typed, Deliveries!GitHubState
  <2> QED BY <2>8, <2>9 DEF Mirrors
<1>2. Synced /\ DInv /\ [Deliveries!Next]_Deliveries!vars => Synced' BY SyncedKeeps
<1> QED BY <1>1, <1>2, SyncedStarts, DeliveriesInvariant, PTL DEF Deliveries!Spec
=============================================================================
