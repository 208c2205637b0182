------------------------ MODULE RepositoryAccess_proofs ------------------------
(***************************************************************************)
(* What a user is allowed from the cache, for any number of processes,     *)
(* reconciliations, changes and faults and any time to live.               *)
(***************************************************************************)
EXTENDS RepositoryAccess, FiniteSetTheorems, TLAPS

(* When each condition of an access was last seen to hold by somebody who asks now.   *)
Held == [c \in Condition |-> LastHeld(c)]

(* A decision that allows an access was true of GitHub after its reconciliation began *)
(* (its age counts from there).                                                       *)
GoodEntry(e, held) ==
  /\ e \in Entry
  /\ e.by = "reconciliation" => e.current \/ e.state = "revoked"
  /\ Allows(e) => \A c \in Condition : e.at <= held[c]

GoodCache(entries, held) ==
  /\ entries \in [Process -> SUBSET Entry]
  /\ \A p \in Process : entries[p] = {} \/ \E e \in Entry : entries[p] = {e}
  /\ \A p \in Process : \A e \in entries[p] : GoodEntry(e, held)

(* The same of what a reconciliation has seen so far; it looks at the installation    *)
(* before anything else, and goes on to the repositories of an active one only.       *)
Looked == {"accept", "persistMetadata", "repositories", "user", "acceptAll", "persist",
           "remove", "answer"}
GoodRec(w, t, held) ==
  /\ w \in Working
  /\ w.at <= t
  /\ w.listed => w.step # "idle"
  /\ w.seen.repo => w.at <= held["repo"]
  /\ w.seen.user = "read" => w.at <= held["user"]
  /\ w.step \in Looked => /\ w.seen.inst \in {"active", "suspended"}
                          /\ w.seen.inst = "active" => w.at <= held["inst"]
  /\ w.step \in {"repositories", "user", "acceptAll", "persist", "remove"} =>
       w.seen.inst = "active"

GoodRecs(recs, t, held) ==
  /\ recs \in [Reconciliation -> Working]
  /\ \A r \in Reconciliation : GoodRec(recs[r], t, held)
  /\ \A q, r \in Reconciliation :
       recs[q].listed /\ recs[r].listed /\ recs[q].proc = recs[r].proc => q = r

Row == [life : {"active", "suspended", "pending_deletion"},
        perm : {"current", "stale", "suspended", "revoked"}, at : Time]

(* The variables that are no table, cache or reconciliation.                          *)
OutsideOK ==
  /\ github \in GitHub /\ hooks \subseteq [kind : AllChanges, suspended : BOOLEAN]
  /\ now \in Time /\ until \in [Condition -> Time] /\ hookAt \in Time
  /\ \A c \in Condition : until[c] <= now
  /\ changes \in 0 .. MaxChanges /\ faults \in 0 .. MaxFaults

RowsOK == row \in Row /\ repo \in BOOLEAN /\ member \in BOOLEAN

IInv == OutsideOK /\ RowsOK /\ GoodCache(cache, Held) /\ GoodRecs(rec, now, Held)
-----------------------------------------------------------------------------
LEMMA HeldType ==
  ASSUME OutsideOK
  PROVE  /\ Held \in [Condition -> Time] /\ \A c \in Condition : Held[c] <= now
         /\ github.inst = "active" => Held["inst"] = now
         /\ github.repo => Held["repo"] = now
         /\ github.user = "read" => Held["user"] = now
<1>1. /\ Holds["inst"] = (github.inst = "active") /\ Holds["repo"] = github.repo
      /\ Holds["user"] = (github.user = "read")
  BY DEF Holds
<1>2. now \in Time /\ \A c \in Condition : until[c] \in Time /\ until[c] <= now
  BY DEF OutsideOK
<1>3. \A c \in Condition : Held[c] = IF Holds[c] THEN now ELSE until[c]
  BY DEF Held, LastHeld
<1>4. Held \in [Condition -> Time] /\ \A c \in Condition : Held[c] <= now
  <2>1. \A c \in Condition : Held[c] \in Time /\ Held[c] <= now
    BY <1>2, <1>3 DEF Time
  <2> QED
    BY <2>1 DEF Held
<1> QED
  BY <1>1, <1>3, <1>4 DEF Condition

LEMMA HeldTyped == OutsideOK => Held \in [Condition -> Time]
  BY HeldType

(* Time passes and GitHub changes: what held has held.                                *)
LEMMA HeldGrows ==
  ASSUME OutsideOK, OutsideOK', now <= now',
         UNCHANGED <<github, until>> \/ (UNCHANGED now /\ until' = Falls)
  PROVE  \A c \in Condition : Held[c] <= Held'[c]
<1>1. /\ now \in Nat /\ now' \in Nat
      /\ \A c \in Condition : until[c] \in Nat /\ until[c] <= now
  BY DEF OutsideOK, Time
<1>2. CASE UNCHANGED <<github, until>>
  BY <1>1, <1>2 DEF Held, LastHeld, Holds
<1>3. CASE UNCHANGED now /\ until' = Falls
  BY <1>1, <1>3 DEF Held, LastHeld, Holds, Falls
<1> QED
  BY <1>2, <1>3

LEMMA Later ==
  ASSUME NEW entries, NEW recs, NEW t \in Time, NEW u \in Time, t <= u,
         NEW held \in [Condition -> Time], NEW after \in [Condition -> Time],
         \A c \in Condition : held[c] <= after[c]
  PROVE  /\ GoodCache(entries, held) => GoodCache(entries, after)
         /\ GoodRecs(recs, t, held) => GoodRecs(recs, u, after)
<1>1. ASSUME NEW e, GoodEntry(e, held) PROVE GoodEntry(e, after)
  <2>1. e.at \in Time
    BY <1>1 DEF GoodEntry, Entry
  <2> QED
    BY <1>1, <2>1 DEF GoodEntry, Time
<1>2. ASSUME NEW w, GoodRec(w, t, held) PROVE GoodRec(w, u, after)
  <2>1. w.at \in Time
    BY <1>2 DEF GoodRec, Working
  <2> QED
    BY <1>2, <2>1 DEF GoodRec, Time, Condition
<1> QED
  BY <1>1, <1>2 DEF GoodCache, GoodRecs

(* The operations on one reconciliation.                                              *)
LEMMA Replaced ==
  ASSUME NEW recs, NEW t, NEW held, GoodRecs(recs, t, held), NEW r \in Reconciliation,
         NEW w, GoodRec(w, t, held),
         \/ ~w.listed
         \/ recs[r].listed /\ w.proc = recs[r].proc
         \/ \A q \in Reconciliation : recs[q].proc = w.proc => ~recs[q].listed
  PROVE  GoodRecs([recs EXCEPT ![r] = w], t, held)
<1>1. w \in Working /\ recs \in [Reconciliation -> Working]
  BY DEF GoodRec, GoodRecs
<1> DEFINE after == [recs EXCEPT ![r] = w]
<1>2. /\ after \in [Reconciliation -> Working] /\ after[r] = w
      /\ \A q \in Reconciliation \ {r} : after[q] = recs[q]
  BY <1>1
<1> HIDE DEF after
<1>3. \A q, s \in Reconciliation :
        after[q].listed /\ after[s].listed /\ after[q].proc = after[s].proc => q = s
  BY <1>2 DEF GoodRecs
<1>4. GoodRecs(after, t, held)
  BY <1>2, <1>3 DEF GoodRecs
<1> QED
  BY <1>4 DEF after

LEMMA IdleGood ==
  ASSUME NEW t \in Time, NEW held
  PROVE  /\ GoodRec(Idle, t, held) /\ ~Idle.listed /\ Idle \in Working
  BY AccessAssumption DEF GoodRec, Idle, Working, Steps, GitHub, Time, Looked

LEMMA Forgotten ==
  ASSUME NEW recs, NEW t, NEW held, GoodRecs(recs, t, held), NEW p
  PROVE  /\ GoodRecs(Forget(p, recs), t, held)
         /\ \A r \in Reconciliation : /\ Forget(p, recs)[r].proc = recs[r].proc
                                      /\ Forget(p, recs)[r].step = recs[r].step
                                      /\ recs[r].proc = p => ~Forget(p, recs)[r].listed
<1> DEFINE gone(r) == [recs[r] EXCEPT !.current = FALSE, !.listed = FALSE]
           after == [r \in Reconciliation |-> IF recs[r].proc = p THEN gone(r) ELSE recs[r]]
<1>1. Forget(p, recs) = after
  BY DEF Forget
<1>2. ASSUME NEW r \in Reconciliation
      PROVE  /\ gone(r) \in Working /\ ~gone(r).listed /\ gone(r).proc = recs[r].proc
             /\ gone(r).step = recs[r].step /\ GoodRec(gone(r), t, held)
  BY DEF GoodRecs, GoodRec, Working
<1> HIDE DEF gone
<1>3. /\ after \in [Reconciliation -> Working]
      /\ \A r \in Reconciliation : after[r] = IF recs[r].proc = p THEN gone(r) ELSE recs[r]
  BY <1>2 DEF GoodRecs
<1> HIDE DEF after
<1>4. \A q, s \in Reconciliation :
        after[q].listed /\ after[s].listed /\ after[q].proc = after[s].proc => q = s
  BY <1>2, <1>3 DEF GoodRecs
<1>5. GoodRecs(after, t, held)
  BY <1>2, <1>3, <1>4 DEF GoodRecs
<1> QED
  BY <1>1, <1>2, <1>3, <1>5

LEMMA Stepped ==
  ASSUME NEW t, NEW held, GoodRecs(rec, t, held), NEW r \in Reconciliation,
         NEW step \in Steps \ {"idle"}, To(r, step),
         step \in Looked => rec[r].step \in Looked,
         step \in {"repositories", "user", "acceptAll", "persist", "remove"} =>
           rec[r].step \in {"repositories", "user", "acceptAll", "persist", "remove"}
  PROVE  GoodRecs(rec', t, held)
<1> DEFINE w == [rec[r] EXCEPT !.step = step]
<1>1. GoodRec(rec[r], t, held) /\ rec \in [Reconciliation -> Working]
  BY DEF GoodRecs
<1>2. GoodRec(w, t, held) /\ w.listed = rec[r].listed /\ w.proc = rec[r].proc
  BY <1>1 DEF GoodRec, Working
<1>3. rec' = [rec EXCEPT ![r] = w]
  BY DEF To
<1> HIDE DEF w
<1> QED
  BY <1>2, <1>3, Replaced

LEMMA Ended ==
  ASSUME NEW t \in Time, NEW held, GoodRecs(rec, t, held), NEW r \in Reconciliation, Ends(r)
  PROVE  GoodRecs(rec', t, held)
  BY IdleGood, Replaced DEF Ends

LEMMA CacheReplaced ==
  ASSUME NEW held, GoodCache(cache, held), NEW p, NEW S,
         S = {} \/ \E e \in Entry : GoodEntry(e, held) /\ S = {e}
  PROVE  GoodCache([cache EXCEPT ![p] = S], held)
<1> DEFINE after == [cache EXCEPT ![p] = S]
<1>1. S \in SUBSET Entry /\ (S = {} \/ \E e \in Entry : S = {e})
      /\ \A e \in S : GoodEntry(e, held)
  OBVIOUS
<1>2. /\ after \in [Process -> SUBSET Entry]
      /\ \A q \in Process : after[q] = cache[q] \/ after[q] = S
  BY <1>1 DEF GoodCache
<1> HIDE DEF after
<1>3. GoodCache(after, held)
  BY <1>1, <1>2 DEF GoodCache
<1> QED
  BY <1>3 DEF after

(* What a reconciliation says of what it saw: it says "current" of an installation    *)
(* that it found active.                                                              *)
Answered(r, state) ==
  /\ state \in {"current", "suspended", "inaccessible"}
  /\ state = "current" => rec[r].step \in Looked /\ rec[r].seen.inst = "active"

(* At most one entry, which allows no later than everything it rests on held.         *)
Found(entries, current, held) ==
  \/ entries = {}
  \/ \E e \in Entry : /\ entries = {e} /\ e.current = current
                      /\ Allows(e) => \A c \in Condition : e.at <= held[c]

(* What a reconciliation found is worth caching, if it looked at an active            *)
(* installation before it says "current" (primeSnapshot, primeDecision).              *)
LEMMA EntriesGood ==
  ASSUME NEW t, NEW held, GoodRecs(rec, t, held), NEW r \in Reconciliation, NEW state,
         Answered(r, state), NEW requested \in BOOLEAN
  PROVE  Found(Entries(r, state, requested), rec[r].current, held)
<1> DEFINE e == [state |-> state, selected |-> rec[r].seen.repo,
                 permission |-> IF rec[r].seen.repo THEN rec[r].seen.user ELSE "none",
                 at |-> rec[r].at, current |-> rec[r].current, by |-> "reconciliation"]
<1>1. GoodRec(rec[r], t, held) /\ rec[r].seen \in GitHub
  BY DEF GoodRecs, GoodRec, Working
<1>2. Entries(r, state, requested) \in {{}, {e}}
  BY DEF Entries
<1>3. e \in Entry /\ e.current = rec[r].current
  BY <1>1 DEF Answered, Entry, GitHub, GoodRec, Working
<1>4. Allows(e) => \A c \in Condition : e.at <= held[c]
  BY <1>1 DEF Answered, Allows, Condition, GoodRec
<1> HIDE DEF e
<1> QED
  BY <1>2, <1>3, <1>4 DEF Found

LEMMA Primed ==
  ASSUME NEW t, NEW held, GoodRecs(rec, t, held), GoodCache(cache, held),
         NEW r \in Reconciliation, NEW state, Answered(r, state), Prime(r, state)
  PROVE  GoodCache(cache', held)
<1> DEFINE S == Entries(r, state, ~rec[r].login)
<1>1. CASE rec[r].current
  <2>1. S = {} \/ \E e \in Entry : S = {e} /\ e.current /\ e.by \in {"reconciliation", "request"}
                     /\ (Allows(e) => \A c \in Condition : e.at <= held[c])
    <3>1. (~rec[r].login) \in BOOLEAN
      OBVIOUS
    <3>2. \A e \in Entry : e.by \in {"reconciliation", "request"}
      BY DEF Entry
    <3>3. Found(S, rec[r].current, held)
      BY <3>1, EntriesGood
    <3> QED
      BY <1>1, <3>2, <3>3 DEF Found
  <2>2. cache' = [cache EXCEPT ![rec[r].proc] = S]
    BY <1>1 DEF Prime
  <2> HIDE DEF S
  <2>3. S = {} \/ \E e \in Entry : GoodEntry(e, held) /\ S = {e}
    BY <2>1 DEF GoodEntry
  <2> QED
    BY <2>2, <2>3, CacheReplaced
<1>2. CASE ~rec[r].current
  BY <1>2 DEF Prime
<1> QED
  BY <1>1, <1>2

(* What an operation of the App leaves behind, GitHub and the clock standing still.   *)
Keeps == RowsOK' /\ GoodCache(cache', Held) /\ GoodRecs(rec', now, Held)

LEMMA Cleared ==
  ASSUME IInv, NEW p, cache' = [cache EXCEPT ![p] = {}]
  PROVE  GoodCache(cache', Held)
  BY CacheReplaced DEF IInv

LEMMA FailsKeeps ==
  ASSUME IInv, NEW r \in Reconciliation, Fails(r)
  PROVE  GoodCache(cache', Held) /\ GoodRecs(rec', now, Held)
<1> DEFINE forgotten == Forget(rec[r].proc, rec)
           w == [forgotten[r] EXCEPT !.step = "stale"]
<1>1. GoodRecs(forgotten, now, Held) /\ ~forgotten[r].listed
  BY Forgotten DEF IInv
<1>2. rec' = [forgotten EXCEPT ![r] = w]
  BY DEF Fails
<1> HIDE DEF forgotten
<1>3. GoodRec(w, now, Held) /\ ~w.listed
  BY <1>1 DEF GoodRecs, GoodRec, Working, Steps, Looked
<1> HIDE DEF w
<1>4. GoodRecs(rec', now, Held)
  BY <1>1, <1>2, <1>3, Replaced
<1>5. GoodCache(cache', Held)
  BY Cleared DEF Fails
<1> QED
  BY <1>4, <1>5

(* A reconciliation begins when its process has none that is listed.                  *)
LEMMA BegunKeeps ==
  ASSUME OutsideOK, NEW recs, GoodRecs(recs, now, Held), NEW r \in Reconciliation,
         NEW p \in Process, NEW login \in BOOLEAN,
         \A q \in Reconciliation : recs[q].proc = p => ~recs[q].listed
  PROVE  GoodRecs(Begun(recs, r, p, login), now, Held)
<1> DEFINE w == [Idle EXCEPT !.step = "metadata", !.proc = p, !.current = TRUE,
                             !.listed = TRUE, !.login = login, !.asked = ~login, !.at = now]
<1>1. now \in Time
  BY DEF OutsideOK
<1>2. /\ w.step = "metadata" /\ w.proc = p /\ w.at = now /\ w.listed
      /\ ~w.seen.repo /\ w.seen.user = "none"
  BY DEF Idle
<1>3. w \in Working
  <2>1. (~login) \in BOOLEAN /\ Idle \in Working /\ "metadata" \in Steps
    BY <1>1, IdleGood DEF Steps
  <2> QED
    BY <1>1, <2>1 DEF Working
<1>4. GoodRec(w, now, Held)
  BY <1>1, <1>2, <1>3 DEF GoodRec, Looked, Time
<1>5. Begun(recs, r, p, login) = [recs EXCEPT ![r] = w]
  BY DEF Begun
<1>6. \A q \in Reconciliation : recs[q].proc = w.proc => ~recs[q].listed
  BY <1>2
<1> HIDE DEF w
<1>7. GoodRecs([recs EXCEPT ![r] = w], now, Held)
  BY <1>4, <1>6, Replaced
<1> QED
  BY <1>5, <1>7

LEMMA RequestsKeep ==
  ASSUME IInv,
         \/ \E r \in Reconciliation, p \in Process :
              Ask(r, p) \/ AskFails(r, p) \/ ReconcileLogin(r, p)
         \/ \E p \in Process : DenyLocally(p) \/ Invalidate(p)
         \/ PruneUnlisted
  PROVE  Keeps
<1>1. /\ OutsideOK /\ RowsOK /\ GoodCache(cache, Held) /\ GoodRecs(rec, now, Held)
      /\ now \in Time /\ rec \in [Reconciliation -> Working]
  BY DEF IInv, OutsideOK, GoodRecs
<1>2. ASSUME NEW r \in Reconciliation, NEW p \in Process, Ask(r, p) PROVE Keeps
  <2>1. GoodRecs(rec', now, Held)
    <3>1. CASE Joinable(p) # {}
      <4> DEFINE w == [rec[r] EXCEPT !.asked = TRUE]
      <4>1. rec' = [rec EXCEPT ![r] = w]
        BY <1>2, <3>1 DEF Ask, Start
      <4>2. GoodRec(w, now, Held) /\ w.proc = rec[r].proc /\ (w.listed => rec[r].listed)
        BY <1>1 DEF GoodRecs, GoodRec, Working
      <4> HIDE DEF w
      <4> QED
        BY <1>1, <4>1, <4>2, Replaced
    <3>2. CASE Joinable(p) = {}
      <4>1. \A q \in Reconciliation : rec[q].proc = p => ~rec[q].listed
        BY <3>2 DEF Joinable
      <4>2. rec' = Begun(rec, r, p, FALSE)
        BY <1>2, <3>2 DEF Ask, Start
      <4> QED
        BY <1>1, <4>1, <4>2, BegunKeeps
    <3> QED
      BY <3>1, <3>2
  <2> QED
    BY <1>1, <1>2, <2>1, Cleared DEF Ask, Keeps, RowsOK, rows
<1>3. ASSUME NEW r \in Reconciliation, NEW p \in Process, AskFails(r, p) PROVE Keeps
  <2> DEFINE w == [Idle EXCEPT !.step = "stale", !.proc = p, !.at = now]
             forgotten == Forget(p, rec)
  <2>1. GoodRecs(forgotten, now, Held)
    BY <1>1, Forgotten
  <2>2. GoodRec(w, now, Held) /\ ~w.listed
    <3>1. Idle \in Working /\ "stale" \in Steps
      BY <1>1, IdleGood DEF Steps
    <3>2. w \in Working
      BY <1>1, <3>1 DEF Working
    <3>3. w.step = "stale" /\ w.at = now /\ ~w.listed /\ ~w.seen.repo /\ w.seen.user = "none"
      BY DEF Idle
    <3> QED
      BY <1>1, <3>2, <3>3 DEF GoodRec, Looked, Time
  <2>3. rec' = [forgotten EXCEPT ![r] = w]
    BY <1>3 DEF AskFails
  <2> HIDE DEF w, forgotten
  <2>4. GoodRecs(rec', now, Held)
    BY <2>1, <2>2, <2>3, Replaced
  <2> QED
    BY <1>1, <1>3, <2>4, Cleared DEF AskFails, Keeps, RowsOK, rows
<1>4. ASSUME NEW r \in Reconciliation, NEW p \in Process, ReconcileLogin(r, p) PROVE Keeps
  <2>1. GoodRecs(Forget(p, rec), now, Held)
        /\ \A q \in Reconciliation : Forget(p, rec)[q].proc = p => ~Forget(p, rec)[q].listed
    BY <1>1, Forgotten
  <2>2. rec' = Begun(Forget(p, rec), r, p, TRUE)
    BY <1>4 DEF ReconcileLogin
  <2>3. GoodRecs(rec', now, Held)
    BY <1>1, <2>1, <2>2, BegunKeeps
  <2> QED
    BY <1>1, <1>4, <2>3, Cleared DEF ReconcileLogin, Keeps, RowsOK, rows
<1>5. ASSUME NEW p \in Process, DenyLocally(p) PROVE Keeps
  BY <1>1, <1>5, Cleared DEF DenyLocally, Keeps, RowsOK, rows
<1>6. ASSUME NEW p \in Process, Invalidate(p) PROVE Keeps
  <2>1. GoodRecs(rec', now, Held)
    BY <1>1, <1>6, Forgotten DEF Invalidate
  <2> QED
    BY <1>1, <1>6, <2>1, Cleared DEF Invalidate, Keeps, RowsOK, rows
<1>7. CASE PruneUnlisted
  BY <1>1, <1>7 DEF PruneUnlisted, Keeps, RowsOK
<1> QED
  BY <1>2, <1>3, <1>4, <1>5, <1>6, <1>7

(* What GitHub answers is true now, and the reconciliation began before.              *)
LEMMA FetchKeeps ==
  ASSUME IInv, NEW r \in Reconciliation,
         FetchMetadata(r) \/ FetchRepositories(r) \/ FetchUserRepositories(r)
  PROVE  Keeps
<1>1. /\ OutsideOK /\ RowsOK /\ GoodCache(cache, Held) /\ GoodRecs(rec, now, Held)
      /\ now \in Time /\ github \in GitHub /\ GoodRec(rec[r], now, Held) /\ rec[r] \in Working
  BY DEF IInv, OutsideOK, GoodRecs
<1>2. /\ github.inst = "active" => rec[r].at <= Held["inst"]
      /\ github.repo => rec[r].at <= Held["repo"]
      /\ github.user = "read" => rec[r].at <= Held["user"]
  BY <1>1, HeldType DEF GoodRec
<1>3. RowsOK'
  BY <1>1 DEF RowsOK, rows, FetchMetadata, FetchRepositories, FetchUserRepositories
<1>4. CASE Fails(r)
  BY <1>3, <1>4, FailsKeeps DEF Keeps
<1>5. ASSUME NEW w, GoodRec(w, now, Held), w.listed = rec[r].listed, w.proc = rec[r].proc,
             GoesOn(r, [rec EXCEPT ![r] = w]), UNCHANGED cache
      PROVE  Keeps
  <2>1. GoodRecs(rec', now, Held)
    BY <1>1, <1>5, Replaced, Ended DEF GoesOn
  <2> QED
    BY <1>1, <1>3, <1>5, <2>1 DEF Keeps
<1>6. CASE FetchMetadata(r) /\ ~Fails(r)
  <2> DEFINE w == [rec[r] EXCEPT
                     !.step = IF github.inst = "deleted" THEN "revoke" ELSE "accept",
                     !.seen.inst = github.inst]
  <2>1. GoesOn(r, [rec EXCEPT ![r] = w]) /\ UNCHANGED cache
    BY <1>6 DEF FetchMetadata
  <2>2. /\ w \in Working /\ w.seen.inst = github.inst /\ w.seen.repo = rec[r].seen.repo
        /\ w.seen.user = rec[r].seen.user /\ w.at = rec[r].at /\ w.listed = rec[r].listed
        /\ w.proc = rec[r].proc
        /\ w.step = IF github.inst = "deleted" THEN "revoke" ELSE "accept"
    BY <1>1 DEF Working, Steps, GitHub
  <2> HIDE DEF w
  <2>3. GoodRec(w, now, Held)
    BY <1>1, <1>2, <2>2 DEF GoodRec, GitHub, Looked
  <2> QED
    BY <1>5, <2>1, <2>2, <2>3
<1>7. CASE FetchRepositories(r) /\ ~Fails(r)
  <2> DEFINE w == [rec[r] EXCEPT
                     !.step = IF github.inst = "deleted" THEN "revoke" ELSE "user",
                     !.seen.repo = github.repo]
  <2>1. GoesOn(r, [rec EXCEPT ![r] = w]) /\ UNCHANGED cache /\ rec[r].step = "repositories"
    BY <1>7 DEF FetchRepositories
  <2>2. /\ w \in Working /\ w.seen.inst = rec[r].seen.inst /\ w.seen.repo = github.repo
        /\ w.seen.user = rec[r].seen.user /\ w.at = rec[r].at /\ w.listed = rec[r].listed
        /\ w.proc = rec[r].proc
        /\ w.step = IF github.inst = "deleted" THEN "revoke" ELSE "user"
    BY <1>1 DEF Working, Steps, GitHub
  <2> HIDE DEF w
  <2>3. GoodRec(w, now, Held)
    BY <1>1, <1>2, <2>1, <2>2 DEF GoodRec, Looked
  <2> QED
    BY <1>5, <2>1, <2>2, <2>3
<1>8. CASE FetchUserRepositories(r) /\ ~Fails(r)
  <2> DEFINE w == [rec[r] EXCEPT !.step = "acceptAll", !.seen.user = github.user]
  <2>1. GoesOn(r, [rec EXCEPT ![r] = w]) /\ UNCHANGED cache /\ rec[r].step = "user"
    BY <1>8 DEF FetchUserRepositories
  <2>2. /\ w \in Working /\ w.seen.inst = rec[r].seen.inst /\ w.seen.repo = rec[r].seen.repo
        /\ w.seen.user = github.user /\ w.at = rec[r].at /\ w.listed = rec[r].listed
        /\ w.proc = rec[r].proc /\ w.step = "acceptAll"
    BY <1>1 DEF Working, Steps, GitHub
  <2> HIDE DEF w
  <2>3. GoodRec(w, now, Held)
    BY <1>1, <1>2, <2>1, <2>2 DEF GoodRec, Looked
  <2> QED
    BY <1>5, <2>1, <2>2, <2>3
<1> QED
  BY <1>4, <1>6, <1>7, <1>8

LEMMA VerifiedKeeps ==
  ASSUME IInv, NEW r \in Reconciliation, Verified(r), rec[r].step \in Looked
  PROVE  GoodRecs(rec', now, Held)
<1> DEFINE w == [rec[r] EXCEPT !.step = "answer", !.listed = FALSE]
<1>1. GoodRecs(rec, now, Held) /\ GoodRec(rec[r], now, Held) /\ now \in Time
  BY DEF IInv, GoodRecs, OutsideOK
<1>2. GoodRec(w, now, Held) /\ ~w.listed
  BY <1>1 DEF GoodRec, Working, Steps, Looked
<1>3. rec' = [rec EXCEPT ![r] = w] \/ Ends(r)
  BY DEF Verified
<1> HIDE DEF w
<1> QED
  BY <1>1, <1>2, <1>3, Replaced, Ended

LEMMA PersistKeeps ==
  ASSUME IInv, NEW r \in Reconciliation, PersistMetadata(r) \/ Persist(r)
  PROVE  Keeps
<1>1. /\ OutsideOK /\ RowsOK /\ GoodCache(cache, Held) /\ GoodRecs(rec, now, Held)
      /\ now \in Time /\ GoodRec(rec[r], now, Held) /\ rec[r] \in Working
  BY DEF IInv, OutsideOK, GoodRecs, GoodRec
<1>2. ASSUME NEW perm \in {"current", "stale", "suspended"}, Replace(r, perm) PROVE row' \in Row
  BY <1>1, <1>2 DEF Replace, Row, Working
<1>3. CASE ~Replaceable(r)
  <2>1. Fails(r) /\ RowsOK'
    BY <1>1, <1>3 DEF PersistMetadata, Persist, RowsOK, rows
  <2> QED
    BY <2>1, FailsKeeps DEF Keeps
<1>4. CASE PersistMetadata(r) /\ Replaceable(r)
  <2>1. RowsOK' /\ rec[r].step = "persistMetadata"
    BY <1>1, <1>2, <1>4 DEF PersistMetadata, RowsOK
  <2>2. CASE rec[r].seen.inst = "suspended"
    <3>1. Answered(r, "suspended") /\ Prime(r, "suspended") /\ Verified(r)
      BY <1>4, <2>2 DEF PersistMetadata, Answered
    <3>2. rec[r].step \in Looked
      BY <2>1 DEF Looked
    <3>3. GoodCache(cache', Held)
      BY <1>1, <3>1, Primed
    <3>4. GoodRecs(rec', now, Held)
      BY <1>1, <3>1, <3>2, VerifiedKeeps
    <3> QED
      BY <2>1, <3>3, <3>4 DEF Keeps
  <2>3. CASE rec[r].seen.inst # "suspended"
    <3> DEFINE w == [rec[r] EXCEPT !.step = "repositories"]
    <3>1. rec' = [rec EXCEPT ![r] = w] \/ Ends(r)
      BY <1>4, <2>3 DEF PersistMetadata, GoesOn
    <3>2. GoodRec(w, now, Held) /\ w.listed = rec[r].listed /\ w.proc = rec[r].proc
      BY <1>1, <2>1, <2>3 DEF GoodRec, Working, Steps, Looked
    <3> HIDE DEF w
    <3>3. GoodRecs(rec', now, Held)
      BY <1>1, <3>1, <3>2, Replaced, Ended
    <3> QED
      BY <1>1, <1>4, <2>1, <2>3, <3>3 DEF PersistMetadata, Keeps
  <2> QED
    BY <2>2, <2>3
<1>5. CASE Persist(r) /\ Replaceable(r)
  <2>1. RowsOK' /\ rec[r].step = "persist" /\ rec[r].seen.inst = "active"
    BY <1>1, <1>2, <1>5 DEF Persist, RowsOK, Working, GitHub, GoodRec
  <2>2. CASE rec[r].seen.user = "outsider"
    <3>1. To(r, "remove") /\ "remove" \in Steps \ {"idle"}
      BY <1>5, <2>2 DEF Persist, Steps
    <3>2. GoodRecs(rec', now, Held)
      BY <1>1, <2>1, <3>1, Stepped DEF Looked
    <3> QED
      BY <1>1, <1>5, <2>1, <2>2, <3>2 DEF Persist, Keeps
  <2>3. CASE rec[r].seen.user # "outsider"
    <3>1. Prime(r, "current") /\ Verified(r) /\ rec[r].step \in Looked
      BY <1>5, <2>1, <2>3 DEF Persist, Looked
    <3>2. Answered(r, "current")
      BY <2>1, <3>1 DEF Answered
    <3>3. GoodCache(cache', Held)
      BY <1>1, <3>1, <3>2, Primed
    <3>4. GoodRecs(rec', now, Held)
      BY <1>1, <3>1, VerifiedKeeps
    <3> QED
      BY <2>1, <3>3, <3>4 DEF Keeps
  <2> QED
    BY <2>2, <2>3
<1> QED
  BY <1>3, <1>4, <1>5

LEMMA AnswerKeeps ==
  ASSUME IInv, NEW r \in Reconciliation, Answer(r)
  PROVE  Keeps
<1>1. /\ RowsOK /\ GoodCache(cache, Held) /\ GoodRecs(rec, now, Held) /\ now \in Time
      /\ GoodRec(rec[r], now, Held) /\ rec[r] \in Working
  BY DEF IInv, OutsideOK, GoodRecs, GoodRec
<1> DEFINE state == IF rec[r].seen.inst = "suspended" THEN "suspended" ELSE "current"
           S == {[e EXCEPT !.by = "request"] : e \in Entries(r, state, TRUE)}
<1>2. state \in {"current", "suspended"} /\ rec[r].step = "answer" /\ rec[r].step \in Looked
      /\ (state = "current" => rec[r].seen.inst = "active")
  BY <1>1 DEF Answer, GoodRec, Looked
<1> HIDE DEF state
<1>3. Found(Entries(r, state, TRUE), rec[r].current, Held)
  <2>1. GoodRecs(rec, now, Held) /\ TRUE \in BOOLEAN
    BY <1>1
  <2>2. Answered(r, state)
    BY <1>2 DEF Answered
  <2> QED
    BY <2>1, <2>2, EntriesGood
<1>4. S = {} \/ \E e \in Entry : GoodEntry(e, Held) /\ S = {e}
  <2>1. CASE Entries(r, state, TRUE) = {}
    BY <2>1
  <2>2. ASSUME NEW e \in Entry, Entries(r, state, TRUE) = {e},
               Allows(e) => \A c \in Condition : e.at <= Held[c]
        PROVE  \E d \in Entry : GoodEntry(d, Held) /\ S = {d}
    <3> DEFINE d == [e EXCEPT !.by = "request"]
    <3>1. d \in Entry /\ d.by = "request" /\ (Allows(d) <=> Allows(e)) /\ d.at = e.at
      BY DEF Entry, Allows
    <3>2. S = {d}
      BY <2>2
    <3> HIDE DEF d, S
    <3> QED
      BY <2>2, <3>1, <3>2 DEF GoodEntry
  <2> QED
    BY <1>3, <2>1, <2>2 DEF Found
<1>5. cache' = cache \/ cache' = [cache EXCEPT ![rec[r].proc] = S]
  BY DEF Answer, state
<1> HIDE DEF S
<1>6. GoodCache(cache', Held)
  BY <1>1, <1>4, <1>5, CacheReplaced
<1>7. GoodRecs(rec', now, Held)
  BY <1>1, Ended DEF Answer
<1> QED
  BY <1>1, <1>6, <1>7 DEF Keeps, Answer, RowsOK, rows

LEMMA EndingsKeep ==
  ASSUME IInv, NEW r \in Reconciliation,
         Accept(r) \/ Remove(r) \/ Revoke(r) \/ Prune(r) \/ MarkStale(r)
  PROVE  Keeps
<1>1. /\ RowsOK /\ GoodCache(cache, Held) /\ GoodRecs(rec, now, Held) /\ now \in Time
      /\ GoodRec(rec[r], now, Held) /\ rec[r] \in Working
  BY DEF IInv, OutsideOK, GoodRecs, GoodRec
<1>2. CASE Accept(r)
  <2> DEFINE step == IF rec[r].step = "accept" THEN "persistMetadata" ELSE "persist"
  <2>1. /\ step \in Steps \ {"idle"} /\ rec[r].step \in Looked
        /\ step = "persist" => rec[r].step = "acceptAll"
        /\ step \in {"persist", "persistMetadata"}
    BY <1>2 DEF Accept, Steps, Looked
  <2>2. To(r, step) \/ Ends(r)
    BY <1>2 DEF Accept
  <2> HIDE DEF step
  <2>3. GoodRecs(rec', now, Held)
    BY <1>1, <2>1, <2>2, Stepped, Ended
  <2> QED
    BY <1>1, <1>2, <2>3 DEF Accept, Keeps, RowsOK, rows
<1>3. ASSUME To(r, "prune") \/ Ends(r) PROVE GoodRecs(rec', now, Held)
  BY <1>1, <1>3, Stepped, Ended DEF Steps, Looked
<1>4. CASE Remove(r)
  <2>1. GoodRecs(rec', now, Held)
    BY <1>3, <1>4 DEF Remove
  <2>2. Answered(r, "inaccessible") /\ Prime(r, "inaccessible")
    BY <1>4 DEF Remove, Answered
  <2>3. GoodCache(cache', Held)
    BY <1>1, <2>2, Primed
  <2> QED
    BY <1>1, <1>4, <2>1, <2>3 DEF Remove, Keeps, RowsOK
<1>5. CASE Revoke(r)
  <2> DEFINE e == [state |-> "revoked", selected |-> FALSE, permission |-> "none",
                   at |-> rec[r].at, current |-> rec[r].current,
                   by |-> "reconciliation"]
             S == IF rec[r].login THEN {} ELSE {e}
  <2>1. e \in Entry /\ GoodEntry(e, Held)
    BY <1>1 DEF Entry, GoodEntry, Allows, Working
  <2>2. S = {} \/ \E d \in Entry : GoodEntry(d, Held) /\ S = {d}
    BY <2>1
  <2>3. cache' = [cache EXCEPT ![rec[r].proc] = S]
    BY <1>5 DEF Revoke
  <2> HIDE DEF S, e
  <2>4. GoodCache(cache', Held)
    BY <1>1, <2>2, <2>3, CacheReplaced
  <2>6. GoodRecs(rec', now, Held)
    BY <1>3, <1>5 DEF Revoke
  <2>5. row' \in Row
    BY <1>1, <1>5 DEF Revoke, RowsOK, Row, Working
  <2> QED
    BY <1>1, <1>5, <2>4, <2>5, <2>6 DEF Revoke, Keeps, RowsOK
<1>6. CASE Prune(r)
  BY <1>1, <1>3, <1>6 DEF Prune, Keeps, RowsOK
<1>7. CASE MarkStale(r)
  <2>1. row' \in Row
    BY <1>1, <1>7 DEF MarkStale, RowsOK, Row, Working
  <2> QED
    BY <1>1, <1>3, <1>7, <2>1 DEF MarkStale, Keeps, RowsOK
<1> QED
  BY <1>2, <1>4, <1>5, <1>6, <1>7

LEMMA InternalKeeps ==
  ASSUME IInv,
         \/ \E r \in Reconciliation : Reconciles(r)
         \/ \E r \in Reconciliation, p \in Process :
              Ask(r, p) \/ AskFails(r, p) \/ ReconcileLogin(r, p)
         \/ \E p \in Process : DenyLocally(p) \/ Invalidate(p)
         \/ PruneUnlisted
  PROVE  Keeps
  BY RequestsKeep, FetchKeeps, PersistKeeps, AnswerKeeps, EndingsKeep DEF Reconciles

LEMMA InternalOutside ==
  ASSUME IInv,
         \/ \E r \in Reconciliation : Reconciles(r)
         \/ \E r \in Reconciliation, p \in Process :
              Ask(r, p) \/ AskFails(r, p) \/ ReconcileLogin(r, p)
         \/ \E p \in Process : DenyLocally(p) \/ Invalidate(p)
         \/ PruneUnlisted
  PROVE  UNCHANGED outside /\ (UNCHANGED faults \/ Fault)
<1>1. ASSUME NEW r \in Reconciliation, Reconciles(r)
      PROVE  UNCHANGED outside /\ (UNCHANGED faults \/ Fault)
  BY <1>1 DEF Reconciles, FetchMetadata, Accept, PersistMetadata, FetchRepositories,
              FetchUserRepositories, Persist, Remove, Revoke, Prune, MarkStale, Answer
<1>2. ASSUME NEW r \in Reconciliation, NEW p \in Process,
             Ask(r, p) \/ AskFails(r, p) \/ ReconcileLogin(r, p)
      PROVE  UNCHANGED outside /\ (UNCHANGED faults \/ Fault)
  BY <1>2 DEF Ask, AskFails, ReconcileLogin
<1>3. ASSUME NEW p \in Process, DenyLocally(p) \/ Invalidate(p)
      PROVE  UNCHANGED outside /\ (UNCHANGED faults \/ Fault)
  BY <1>3 DEF DenyLocally, Invalidate
<1>4. PruneUnlisted => UNCHANGED outside /\ (UNCHANGED faults \/ Fault)
  BY DEF PruneUnlisted
<1> QED
  BY <1>1, <1>2, <1>3, <1>4

LEMMA AfterType ==
  ASSUME OutsideOK, NEW change \in AllChanges, NEW next \in After(change)
  PROVE  next \in GitHub
<1>1. github \in GitHub
  BY DEF OutsideOK
<1>2. CASE change = "suspend"
  BY <1>1, <1>2 DEF After, GitHub
<1>3. CASE change = "unsuspend"
  BY <1>1, <1>3 DEF After, GitHub
<1>4. CASE change = "deleted"
  <2>1. next = [inst |-> "deleted", repo |-> FALSE, user |-> "outsider"]
    BY <1>4 DEF After
  <2> QED
    BY <2>1 DEF GitHub
<1>5. CASE change = "added"
  BY <1>1, <1>5 DEF After, GitHub
<1>6. CASE change = "removed"
  BY <1>1, <1>6 DEF After, GitHub
<1>7. CASE change = "permission"
  BY <1>1, <1>7 DEF After, GitHub
<1> QED
  BY <1>2, <1>3, <1>4, <1>5, <1>6, <1>7 DEF AllChanges

LEMMA WebhookRows ==
  ASSUME IInv, NEW h, Webhook(h)
  PROVE  RowsOK' /\ OutsideOK'
<1>1. OutsideOK /\ RowsOK /\ h \in [kind : AllChanges, suspended : BOOLEAN] /\ now' \in Time
  BY AccessAssumption DEF IInv, Webhook, OutsideOK, Time
<1>2. /\ Lifecycle(h) \in {"active", "suspended", "pending_deletion"}
      /\ Permission(h) \in {"current", "stale", "suspended", "revoked"}
  BY <1>1 DEF Lifecycle, Permission, RowsOK, Row, AllChanges
<1>3. row' \in Row
  BY <1>1, <1>2 DEF Webhook, Row, RowsOK
<1>4. repo' \in BOOLEAN
  <2>1. (h.kind = "added") \in BOOLEAN
    OBVIOUS
  <2> QED
    BY <1>1, <2>1 DEF Webhook, RowsOK
<1>5. RowsOK'
  BY <1>1, <1>3, <1>4 DEF Webhook, RowsOK
<1>6. \A c \in Condition : until'[c] <= now'
  BY <1>1 DEF Webhook, OutsideOK, Time
<1>7. OutsideOK'
  BY <1>1, <1>6 DEF Webhook, OutsideOK
<1> QED
  BY <1>5, <1>7

LEMMA EnvironmentKeeps ==
  ASSUME IInv,
         \/ \E change \in Change : GitHubChanges(change)
         \/ \E h \in hooks : Webhook(h) \/ LoseWebhook(h)
         \/ Tick
  PROVE  IInv'
<1>1. OutsideOK /\ RowsOK /\ GoodCache(cache, Held) /\ GoodRecs(rec, now, Held)
  BY DEF IInv
<1>2. UNCHANGED <<cache, rec>>
  BY DEF GitHubChanges, Webhook, LoseWebhook, Tick
<1>3. ASSUME OutsideOK', RowsOK', now <= now',
             UNCHANGED <<github, until>> \/ (UNCHANGED now /\ until' = Falls)
      PROVE  IInv'
  <2>1. \A c \in Condition : Held[c] <= Held'[c]
    BY <1>1, <1>3, HeldGrows
  <2>2. Held \in [Condition -> Time] /\ now \in Time
    BY <1>1, HeldType DEF OutsideOK
  <2>3. (Held \in [Condition -> Time])' /\ now' \in Time
    <3>1. OutsideOK'
      BY <1>3
    <3>2. (Held \in [Condition -> Time])'
      BY <3>1, HeldTyped, PTL
    <3> QED
      BY <3>1, <3>2 DEF OutsideOK
  <2>4. GoodCache(cache, Held') /\ GoodRecs(rec, now', Held')
    BY <1>1, <1>3, <2>1, <2>2, <2>3, Later
  <2> QED
    BY <1>2, <1>3, <2>4 DEF IInv
<1>4. ASSUME NEW change \in Change, GitHubChanges(change) PROVE IInv'
  <2>1. change \in AllChanges /\ github' \in GitHub
    BY <1>1, <1>4, AfterType, AccessAssumption DEF GitHubChanges
  <2>2. hooks' \subseteq [kind : AllChanges, suspended : BOOLEAN]
    <3>1. (github'.inst = "suspended") \in BOOLEAN
      OBVIOUS
    <3>2. [kind |-> change, suspended |-> github'.inst = "suspended"]
            \in [kind : AllChanges, suspended : BOOLEAN]
      BY <2>1, <3>1
    <3> QED
      BY <1>1, <1>4, <3>2 DEF GitHubChanges, OutsideOK
  <2>3. until' \in [Condition -> Time] /\ \A c \in Condition : until'[c] <= now
    <3>1. until' = [c \in Condition |-> IF Holds[c]' THEN 0 ELSE LastHeld(c)]
      BY <1>4 DEF GitHubChanges, Falls
    <3>2. \A c \in Condition : LastHeld(c) \in Time /\ LastHeld(c) <= now
      BY <1>1 DEF LastHeld, OutsideOK, Time
    <3>3. 0 \in Time /\ 0 <= now
      BY <1>1, AccessAssumption DEF OutsideOK, Time
    <3> QED
      BY <3>1, <3>2, <3>3
  <2>4. changes' \in 0 .. MaxChanges /\ UNCHANGED <<now, hookAt, faults, row, repo, member>>
    BY <1>1, <1>4, AccessAssumption DEF GitHubChanges, OutsideOK, rows
  <2>5. OutsideOK'
    BY <1>1, <2>1, <2>2, <2>3, <2>4 DEF OutsideOK
  <2>6. RowsOK' /\ now <= now' /\ until' = Falls
    BY <1>1, <1>4, <2>4 DEF RowsOK, GitHubChanges, OutsideOK, Time
  <2> QED
    BY <1>3, <2>4, <2>5, <2>6
<1>5. ASSUME NEW h \in hooks, Webhook(h) PROVE IInv'
  <2>1. OutsideOK' /\ RowsOK'
    BY <1>5, WebhookRows
  <2>2. now <= now' /\ UNCHANGED <<github, until>>
    BY <1>1, <1>5 DEF Webhook, OutsideOK, Time
  <2> QED
    BY <1>3, <2>1, <2>2
<1>6. ASSUME NEW h \in hooks, LoseWebhook(h) PROVE IInv'
  <2>1. OutsideOK' /\ RowsOK'
    BY <1>1, <1>6, AccessAssumption DEF LoseWebhook, Fault, OutsideOK, RowsOK, rows
  <2>2. now <= now' /\ UNCHANGED <<github, until>>
    BY <1>1, <1>6 DEF LoseWebhook, OutsideOK, Time
  <2> QED
    BY <1>3, <2>1, <2>2
<1>7. CASE Tick
  <2>1. OutsideOK' /\ RowsOK'
    BY <1>1, <1>7, AccessAssumption DEF Tick, OutsideOK, RowsOK, rows, Time
  <2>2. now <= now' /\ UNCHANGED <<github, until>>
    BY <1>1, <1>7 DEF Tick, OutsideOK, Time
  <2> QED
    BY <1>3, <2>1, <2>2
<1> QED
  BY <1>4, <1>5, <1>6, <1>7

LEMMA Initially == Init => IInv
<1> SUFFICES ASSUME Init PROVE IInv
  OBVIOUS
<1>1. OutsideOK
  BY AccessAssumption DEF Init, OutsideOK, GitHub, Time, Condition
<1>2. RowsOK
  BY AccessAssumption DEF Init, RowsOK, Row, Time
<1>3. GoodCache(cache, Held)
  BY DEF Init, GoodCache
<1>4. GoodRecs(rec, now, Held)
  <2>1. now \in Time
    BY <1>1 DEF OutsideOK
  <2>2. GoodRec(Idle, now, Held) /\ Idle \in Working /\ ~Idle.listed
    BY <2>1, IdleGood
  <2>3. rec = [r \in Reconciliation |-> Idle]
    BY DEF Init
  <2> QED
    BY <2>2, <2>3 DEF GoodRecs
<1> QED
  BY <1>1, <1>2, <1>3, <1>4 DEF IInv

(* Every step keeps the invariant.                                                    *)
LEMMA Inductive == IInv /\ [Next]_vars => IInv'
<1> SUFFICES ASSUME IInv, [Next]_vars PROVE IInv'
  OBVIOUS
<1>1. CASE UNCHANGED vars
  <2>1. OutsideOK' /\ RowsOK' /\ UNCHANGED <<cache, rec, now, github, until>>
    BY <1>1 DEF IInv, OutsideOK, RowsOK, vars
  <2>2. Held' = Held
    BY <2>1 DEF Held, LastHeld, Holds
  <2> QED
    BY <2>1, <2>2 DEF IInv
<1>2. CASE \/ \E change \in Change : GitHubChanges(change)
           \/ \E h \in hooks : Webhook(h) \/ LoseWebhook(h)
           \/ Tick
  BY <1>2, EnvironmentKeeps
<1>3. CASE \/ \E r \in Reconciliation : Reconciles(r)
           \/ \E r \in Reconciliation, p \in Process :
                Ask(r, p) \/ AskFails(r, p) \/ ReconcileLogin(r, p)
           \/ \E p \in Process : DenyLocally(p) \/ Invalidate(p)
           \/ PruneUnlisted
  <2>1. Keeps
    BY <1>3, InternalKeeps
  <2>2. UNCHANGED outside /\ (UNCHANGED faults \/ Fault)
    BY <1>3, InternalOutside
  <2>3. Held' = Held /\ now' = now
    BY <2>2 DEF outside, Held, LastHeld, Holds
  <2>4. OutsideOK'
    BY <2>2, AccessAssumption DEF outside, IInv, OutsideOK, Fault
  <2> QED
    BY <2>1, <2>3, <2>4 DEF Keeps, IInv
<1> QED
  BY <1>1, <1>2, <1>3 DEF Next

LEMMA Invariant == Spec => []IInv
  BY Initially, Inductive, PTL DEF Spec

(* While GitHub has the installation, nobody has seen or cached that it is gone.      *)
Unrevoked(recs, entries) ==
  /\ \A r \in Reconciliation : recs[r].step # "revoke"
  /\ \A p \in Process : \A e \in entries[p] : e.state # "revoked"

RevokedIsGone == github.inst # "deleted" => Unrevoked(rec, cache)

(* Forgetting, beginning and failing reconciliations revoke nothing.                  *)
LEMMA UnrevokedForgotten ==
  ASSUME IInv, Unrevoked(rec, cache), NEW p
  PROVE  /\ Unrevoked(Forget(p, rec), cache)
         /\ Forget(p, rec) \in [Reconciliation -> Working]
<1>1. GoodRecs(rec, now, Held)
  BY DEF IInv
<1>2. /\ GoodRecs(Forget(p, rec), now, Held)
      /\ \A r \in Reconciliation : Forget(p, rec)[r].step = rec[r].step
  BY <1>1, Forgotten
<1> QED
  BY <1>2 DEF Unrevoked, GoodRecs

LEMMA UnrevokedReplaced ==
  ASSUME NEW recs \in [Reconciliation -> Working], Unrevoked(recs, cache),
         NEW r \in Reconciliation, NEW w, w.step # "revoke"
  PROVE  Unrevoked([recs EXCEPT ![r] = w], cache)
  BY DEF Unrevoked

LEMMA UnrevokedCached ==
  ASSUME IInv, NEW recs, Unrevoked(recs, cache), NEW p, NEW S,
         \A e \in S : e.state # "revoked"
  PROVE  Unrevoked(recs, [cache EXCEPT ![p] = S])
<1>1. cache \in [Process -> SUBSET Entry]
  BY DEF IInv, GoodCache
<1> QED
  BY <1>1 DEF Unrevoked

(* An operation of the App revokes only what GitHub has deleted.                      *)
LEMMA InternalRevokesNothing ==
  ASSUME IInv, Unrevoked(rec, cache), github.inst # "deleted",
         \/ \E r \in Reconciliation : Reconciles(r)
         \/ \E r \in Reconciliation, p \in Process :
              Ask(r, p) \/ AskFails(r, p) \/ ReconcileLogin(r, p)
         \/ \E p \in Process : DenyLocally(p) \/ Invalidate(p)
         \/ PruneUnlisted
  PROVE  Unrevoked(rec', cache')
<1>1. rec \in [Reconciliation -> Working]
  BY DEF IInv, GoodRecs
<1>2. ASSUME NEW r \in Reconciliation, NEW w, w.step # "revoke", rec' = [rec EXCEPT ![r] = w]
      PROVE  Unrevoked(rec', cache)
  BY <1>1, <1>2, UnrevokedReplaced
<1>3. ASSUME NEW r \in Reconciliation, Ends(r) PROVE Unrevoked(rec', cache)
  <2>1. Idle.step # "revoke"
    BY DEF Idle
  <2> QED
    BY <1>2, <1>3, <2>1 DEF Ends
<1>4. ASSUME NEW r \in Reconciliation, NEW step \in Steps \ {"revoke"}, To(r, step)
      PROVE  Unrevoked(rec', cache)
  <2> DEFINE w == [rec[r] EXCEPT !.step = step]
  <2>1. rec' = [rec EXCEPT ![r] = w]
    BY <1>4 DEF To
  <2>2. w.step # "revoke"
    BY <1>1, <1>4 DEF Working
  <2> HIDE DEF w
  <2> QED
    BY <1>2, <2>1, <2>2
<1>5. ASSUME NEW p, cache' = [cache EXCEPT ![p] = {}], Unrevoked(rec', cache)
      PROVE  Unrevoked(rec', cache')
  BY <1>5, UnrevokedCached
<1>6. ASSUME NEW r \in Reconciliation, NEW state \in {"current", "suspended", "inaccessible"},
             Prime(r, state), Unrevoked(rec', cache)
      PROVE  Unrevoked(rec', cache')
  <2>1. \A e \in Entries(r, state, ~rec[r].login) : e.state # "revoked"
    BY <1>6 DEF Entries
  <2>2. \/ cache' = cache
        \/ cache' = [cache EXCEPT ![rec[r].proc] = Entries(r, state, ~rec[r].login)]
    BY <1>6 DEF Prime
  <2> QED
    BY <1>6, <2>1, <2>2, UnrevokedCached
<1>7. ASSUME NEW r \in Reconciliation, NEW w, w.step # "revoke",
             GoesOn(r, [rec EXCEPT ![r] = w]), UNCHANGED cache
      PROVE  Unrevoked(rec', cache')
  BY <1>2, <1>3, <1>7 DEF GoesOn
<1>8. ASSUME NEW p, NEW r \in Reconciliation, NEW w, w.step # "revoke",
             rec' = [Forget(p, rec) EXCEPT ![r] = w], cache' = [cache EXCEPT ![p] = {}]
      PROVE  Unrevoked(rec', cache')
  <2>1. Unrevoked(rec', cache)
    BY <1>8, UnrevokedForgotten, UnrevokedReplaced
  <2> QED
    BY <1>5, <1>8, <2>1
<1>9. ASSUME NEW r \in Reconciliation, Fails(r) PROVE Unrevoked(rec', cache')
  <2> DEFINE p == rec[r].proc
             w == [Forget(p, rec)[r] EXCEPT !.step = "stale"]
  <2>1. rec' = [Forget(p, rec) EXCEPT ![r] = w] /\ cache' = [cache EXCEPT ![p] = {}]
    BY <1>9 DEF Fails
  <2>2. Forget(p, rec)[r] \in Working
    BY UnrevokedForgotten
  <2>3. w.step # "revoke"
    BY <2>2 DEF Working
  <2> HIDE DEF w, p
  <2> QED
    BY <1>8, <2>1, <2>3
<1>10. ASSUME NEW r \in Reconciliation,
              FetchMetadata(r) \/ FetchRepositories(r) \/ FetchUserRepositories(r)
       PROVE  Unrevoked(rec', cache')
  <2> DEFINE a == [rec[r] EXCEPT
                     !.step = IF github.inst = "deleted" THEN "revoke" ELSE "accept",
                     !.seen.inst = github.inst]
             b == [rec[r] EXCEPT
                     !.step = IF github.inst = "deleted" THEN "revoke" ELSE "user",
                     !.seen.repo = github.repo]
             c == [rec[r] EXCEPT !.step = "acceptAll", !.seen.user = github.user]
  <2>1. a.step # "revoke" /\ b.step # "revoke" /\ c.step # "revoke"
    BY <1>1 DEF Working
  <2>2. \/ Fails(r)
        \/ GoesOn(r, [rec EXCEPT ![r] = a]) /\ UNCHANGED cache
        \/ GoesOn(r, [rec EXCEPT ![r] = b]) /\ UNCHANGED cache
        \/ GoesOn(r, [rec EXCEPT ![r] = c]) /\ UNCHANGED cache
    BY <1>10 DEF FetchMetadata, FetchRepositories, FetchUserRepositories
  <2> HIDE DEF a, b, c
  <2> QED
    BY <1>7, <1>9, <2>1, <2>2
<1>11. ASSUME NEW r \in Reconciliation, Verified(r) PROVE Unrevoked(rec', cache)
  <2> DEFINE w == [rec[r] EXCEPT !.step = "answer", !.listed = FALSE]
  <2>1. w.step # "revoke"
    BY <1>1 DEF Working
  <2>2. rec' = [rec EXCEPT ![r] = w] \/ Ends(r)
    BY <1>11 DEF Verified
  <2> HIDE DEF w
  <2> QED
    BY <1>2, <1>3, <2>1, <2>2
<1>12. ASSUME NEW r \in Reconciliation, PersistMetadata(r) PROVE Unrevoked(rec', cache')
  <2> DEFINE w == [rec[r] EXCEPT !.step = "repositories"]
  <2>1. w.step # "revoke"
    BY <1>1 DEF Working
  <2>2. \/ Prime(r, "suspended") /\ Verified(r)
        \/ GoesOn(r, [rec EXCEPT ![r] = w]) /\ UNCHANGED cache
        \/ Fails(r)
    BY <1>12 DEF PersistMetadata
  <2> HIDE DEF w
  <2> QED
    BY <1>6, <1>7, <1>9, <1>11, <2>1, <2>2
<1>13. ASSUME NEW r \in Reconciliation, Persist(r) PROVE Unrevoked(rec', cache')
  <2>1. \/ To(r, "remove") /\ UNCHANGED cache
        \/ Prime(r, "current") /\ Verified(r)
        \/ Fails(r)
    BY <1>13 DEF Persist
  <2> QED
    BY <1>4, <1>6, <1>9, <1>11, <2>1 DEF Steps
<1>14. ASSUME NEW r \in Reconciliation, Accept(r) \/ Prune(r) \/ MarkStale(r)
       PROVE  Unrevoked(rec', cache')
  <2>1. (To(r, "persistMetadata") \/ To(r, "persist") \/ Ends(r)) /\ UNCHANGED cache
    BY <1>14 DEF Accept, Prune, MarkStale
  <2> QED
    BY <1>3, <1>4, <2>1 DEF Steps
<1>15. ASSUME NEW r \in Reconciliation, Remove(r) PROVE Unrevoked(rec', cache')
  <2>1. Prime(r, "inaccessible") /\ (To(r, "prune") \/ Ends(r))
    BY <1>15 DEF Remove
  <2>2. Unrevoked(rec', cache)
    BY <1>3, <1>4, <2>1 DEF Steps
  <2> QED
    BY <1>6, <2>1, <2>2
<1>16. ASSUME NEW r \in Reconciliation, Revoke(r) PROVE FALSE
  BY <1>16 DEF Revoke, Unrevoked
<1>17. ASSUME NEW r \in Reconciliation, Answer(r) PROVE Unrevoked(rec', cache')
  <2> DEFINE state == IF rec[r].seen.inst = "suspended" THEN "suspended" ELSE "current"
             S == {[e EXCEPT !.by = "request"] : e \in Entries(r, state, TRUE)}
  <2>1. \A e \in S : e.state # "revoked"
    BY DEF Entries
  <2>2. cache' = cache \/ cache' = [cache EXCEPT ![rec[r].proc] = S]
    BY <1>17 DEF Answer
  <2> HIDE DEF S, state
  <2>3. Unrevoked(rec', cache)
    BY <1>3, <1>17 DEF Answer
  <2> QED
    BY <2>1, <2>2, <2>3, UnrevokedCached
<1>18. ASSUME NEW r \in Reconciliation, NEW p \in Process, NEW login \in BOOLEAN,
              NEW recs \in [Reconciliation -> Working], Unrevoked(recs, cache)
       PROVE  Unrevoked(Begun(recs, r, p, login), cache)
  <2> DEFINE w == [Idle EXCEPT !.step = "metadata", !.proc = p, !.current = TRUE,
                               !.listed = TRUE, !.login = login, !.asked = ~login, !.at = now]
  <2>1. w.step # "revoke" /\ Begun(recs, r, p, login) = [recs EXCEPT ![r] = w]
    BY DEF Idle, Begun
  <2> HIDE DEF w
  <2>2. Unrevoked([recs EXCEPT ![r] = w], cache)
    BY <1>18, <2>1 DEF Unrevoked
  <2> QED
    BY <2>1, <2>2
<1>19. ASSUME NEW r \in Reconciliation, NEW p \in Process, Ask(r, p)
       PROVE  Unrevoked(rec', cache')
  <2> DEFINE w == [rec[r] EXCEPT !.asked = TRUE]
  <2>1. rec' = [rec EXCEPT ![r] = w] \/ rec' = Begun(rec, r, p, FALSE)
    BY <1>19 DEF Ask, Start
  <2>2. w.step # "revoke"
    BY <1>1 DEF Working, Unrevoked
  <2> HIDE DEF w
  <2>3. Unrevoked(rec', cache)
    BY <1>1, <1>2, <1>18, <2>1, <2>2
  <2> QED
    BY <1>5, <1>19, <2>3 DEF Ask
<1>20. ASSUME NEW r \in Reconciliation, NEW p \in Process, AskFails(r, p)
       PROVE  Unrevoked(rec', cache')
  <2> DEFINE w == [Idle EXCEPT !.step = "stale", !.proc = p, !.at = now]
  <2>1. w.step # "revoke" /\ rec' = [Forget(p, rec) EXCEPT ![r] = w]
    BY <1>20 DEF Idle, AskFails
  <2> HIDE DEF w
  <2> QED
    BY <1>8, <1>20, <2>1 DEF AskFails
<1>21. ASSUME NEW r \in Reconciliation, NEW p \in Process, ReconcileLogin(r, p)
       PROVE  Unrevoked(rec', cache')
  <2>1. Unrevoked(rec', cache)
    BY <1>18, <1>21, UnrevokedForgotten DEF ReconcileLogin
  <2> QED
    BY <1>5, <1>21, <2>1 DEF ReconcileLogin
<1>22. ASSUME NEW p \in Process, DenyLocally(p) \/ Invalidate(p)
       PROVE  Unrevoked(rec', cache')
  <2>1. cache' = [cache EXCEPT ![p] = {}] /\ (UNCHANGED rec \/ rec' = Forget(p, rec))
    BY <1>22 DEF DenyLocally, Invalidate
  <2>2. Unrevoked(rec', cache)
    BY <2>1, UnrevokedForgotten
  <2> QED
    BY <1>5, <2>1, <2>2
<1>23. CASE PruneUnlisted
  BY <1>23 DEF PruneUnlisted
<1> QED
  BY <1>10, <1>12, <1>13, <1>14, <1>15, <1>16, <1>17, <1>19, <1>20, <1>21, <1>22, <1>23
  DEF Reconciles

(* What GitHub has deleted stays deleted.                                             *)
LEMMA DeletedForGood ==
  ASSUME NEW change \in AllChanges, github.inst = "deleted"
  PROVE  After(change) = {}
  BY DEF After, AllChanges

LEMMA RevokedInductive == IInv /\ RevokedIsGone /\ [Next]_vars => RevokedIsGone'
<1> SUFFICES ASSUME IInv, RevokedIsGone, [Next]_vars, github'.inst # "deleted"
             PROVE  Unrevoked(rec', cache')
  BY DEF RevokedIsGone
<1>1. CASE UNCHANGED <<rec, cache>> /\ UNCHANGED github
  BY <1>1 DEF RevokedIsGone
<1>2. ASSUME NEW change \in Change, GitHubChanges(change) PROVE Unrevoked(rec', cache')
  <2>1. github.inst # "deleted"
    BY <1>2, DeletedForGood, AccessAssumption DEF GitHubChanges
  <2> QED
    BY <1>2, <2>1 DEF GitHubChanges, RevokedIsGone
<1>3. CASE \/ \E r \in Reconciliation : Reconciles(r)
           \/ \E r \in Reconciliation, p \in Process :
                Ask(r, p) \/ AskFails(r, p) \/ ReconcileLogin(r, p)
           \/ \E p \in Process : DenyLocally(p) \/ Invalidate(p)
           \/ PruneUnlisted
  <2>1. github' = github
    BY <1>3, InternalOutside DEF outside
  <2> QED
    BY <1>3, <2>1, InternalRevokesNothing DEF RevokedIsGone
<1>4. CASE \/ \E h \in hooks : Webhook(h) \/ LoseWebhook(h)
           \/ Tick
           \/ UNCHANGED vars
  BY <1>1, <1>4 DEF Webhook, LoseWebhook, Tick, vars
<1> QED
  BY <1>2, <1>3, <1>4 DEF Next

LEMMA Revoked == Spec => []RevokedIsGone
<1>1. Init => RevokedIsGone
  BY DEF Init, RevokedIsGone, Unrevoked, Idle
<1> QED
  BY <1>1, RevokedInductive, Invariant, PTL DEF Spec
-----------------------------------------------------------------------------
(* Every row, cache and reconciliation has its type, requests share at most one       *)
(* reconciliation of their process, and one that was invalidated meanwhile caches     *)
(* nothing, or that an installation is gone which GitHub has deleted                  *)
(* (#reconcileInstallation, primeSnapshot, #markRevoked).                             *)
THEOREM SharingIsHonest == Spec => []SharedHonestly
<1>1. IInv /\ RevokedIsGone => SharedHonestly
  <2> SUFFICES ASSUME IInv, RevokedIsGone PROVE SharedHonestly
    OBVIOUS
  <2>1. \A p \in Process : Cardinality(cache[p]) <= 1
    <3> SUFFICES ASSUME NEW p \in Process PROVE Cardinality(cache[p]) <= 1
      OBVIOUS
    <3>1. cache[p] = {} \/ \E e \in Entry : cache[p] = {e}
      BY DEF IInv, GoodCache
    <3>2. Cardinality(cache[p]) \in {0, 1}
      BY <3>1, FS_EmptySet, FS_Singleton
    <3> QED
      BY <3>2
  <2>2. TypeOK
    <3>1. cache \in [Process -> SUBSET Entry] /\ rec \in [Reconciliation -> Working]
          /\ \A r \in Reconciliation : rec[r].listed => rec[r].step # "idle"
      BY DEF IInv, GoodCache, GoodRecs, GoodRec
    <3> QED
      BY <2>1, <3>1 DEF IInv, OutsideOK, RowsOK, Row, TypeOK
  <2>3. OneListed
    BY DEF OneListed, IInv, GoodRecs
  <2>4. InvalidatedOnlyRevokes
    BY DEF InvalidatedOnlyRevokes, IInv, GoodCache, GoodEntry, RevokedIsGone, Unrevoked
  <2> QED
    BY <2>2, <2>3, <2>4 DEF SharedHonestly
<1> QED
  BY <1>1, Invariant, Revoked, PTL

(* Nobody is admitted from the cache on what GitHub has denied for longer than the    *)
(* time to live (get, createRepositoryAccessDecision).                                *)
THEOREM AdmissionIsRecent == Spec => []AllowedIsRecent
<1>1. IInv => AllowedIsRecent
  <2> SUFFICES ASSUME IInv, NEW p \in Process, Admitted(p), NEW c \in Condition
               PROVE  now - LastHeld(c) < Ttl
    BY DEF AllowedIsRecent
  <2>1. PICK e \in cache[p] : now < e.at + Ttl /\ Allows(e)
    BY DEF Admitted, Fresh
  <2>2. e \in Entry /\ e.at <= Held[c] /\ Held[c] = LastHeld(c)
    BY <2>1 DEF IInv, GoodCache, GoodEntry, Held
  <2>3. Held \in [Condition -> Time] /\ now \in Time
    BY HeldType DEF IInv, OutsideOK
  <2>4. e.at \in Nat /\ LastHeld(c) \in Nat /\ now \in Nat /\ Ttl \in Nat
    BY <2>2, <2>3, AccessAssumption DEF Entry, Time
  <2> QED
    BY <2>1, <2>2, <2>4
<1> QED
  BY <1>1, Invariant, PTL

(* No reconciliation revives an installation that a webhook has marked for deletion   *)
(* (the conflict clause of replaceGitHubInstallationSnapshot).                        *)
THEOREM DeletionKept == Spec => DeletionStands
<1>1. ASSUME IInv, Next, row.life = "pending_deletion", hooks' = hooks
      PROVE  row'.life = "pending_deletion"
  <2>1. row \in Row
    BY <1>1 DEF IInv, RowsOK
  <2>2. ASSUME NEW r \in Reconciliation, Reconciles(r) PROVE row'.life = "pending_deletion"
    <3>1. CASE PersistMetadata(r) \/ Persist(r)
      BY <1>1, <3>1 DEF PersistMetadata, Persist, Replaceable, rows
    <3>2. CASE Revoke(r) \/ MarkStale(r)
      BY <1>1, <2>1, <3>2 DEF Revoke, MarkStale, Row
    <3>3. CASE FetchMetadata(r) \/ Accept(r) \/ FetchRepositories(r) \/ FetchUserRepositories(r)
               \/ Remove(r) \/ Prune(r) \/ Answer(r)
      BY <1>1, <3>3 DEF FetchMetadata, Accept, FetchRepositories, FetchUserRepositories,
                        Remove, Prune, Answer, rows
    <3> QED
      BY <2>2, <3>1, <3>2, <3>3 DEF Reconciles
  <2>3. ASSUME NEW h \in hooks, Webhook(h) PROVE FALSE
    BY <1>1, <2>3 DEF Webhook
  <2>4. ASSUME \/ \E r \in Reconciliation, p \in Process :
                    Ask(r, p) \/ AskFails(r, p) \/ ReconcileLogin(r, p)
               \/ \E p \in Process : DenyLocally(p) \/ Invalidate(p)
               \/ PruneUnlisted
               \/ \E change \in Change : GitHubChanges(change)
               \/ \E h \in hooks : LoseWebhook(h)
               \/ Tick
        PROVE  row'.life = "pending_deletion"
    BY <1>1, <2>4 DEF Ask, AskFails, ReconcileLogin, DenyLocally, Invalidate, PruneUnlisted,
                      GitHubChanges, LoseWebhook, Tick, rows
  <2> QED
    BY <1>1, <2>2, <2>3, <2>4 DEF Next
<1>2. IInv /\ [Next]_vars
        => [row.life = "pending_deletion" /\ hooks' = hooks => row'.life = "pending_deletion"]_vars
  BY <1>1
<1> QED
  BY <1>2, Invariant, PTL DEF Spec, DeletionStands
==============================================================================
