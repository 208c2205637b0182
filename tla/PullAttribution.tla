-------------------------- MODULE PullAttribution --------------------------
(***************************************************************************)
(* What the program makes of the commits between the production and the    *)
(* source head: the snapshot it reads with git (git-workspace.ts) and the  *)
(* merged pull request it attributes each commit to (pr-attribution.ts).   *)
(* A pull request is a record of what GitHub knows of it:                  *)
(*   state, base   where it stands and the branch it targets               *)
(*   head, at      its final head and when it was merged                   *)
(*   merge         the commit GitHub names as its merge commit             *)
(*   originals     its own commits, in order                               *)
(*   brought       the commits its merge added to the base branch          *)
(* An answer of GitHub may lag: `rest` and `graph` are the merged pull     *)
(* requests each API lists, `garbled` those whose metadata contradicts     *)
(* itself while it is read.                                                *)
(***************************************************************************)
EXTENDS CommitGraph

CONSTANT Pulls

(***************************************************************************)
(* The snapshot of the git workspace.                                      *)
(***************************************************************************)

(* The commits each first-parent commit integrates: those of the delta that *)
(* it reaches, its first parent does not and no earlier window was given.   *)
IntegrationWindows(log, delta, firstParents) ==
    LET window(c, given) ==
            LET first == FirstParent(log, c)
                second == IF IsMerge(log, c) THEN log[c].parents[2] ELSE 0
            IN  [integration |-> c, first |-> first, second |-> second,
                 commits |-> SelectSeq(TopoOrder(log, first, c),
                                 LAMBDA d : d \in ToSet(delta) \ given),
                 introduced |-> IF second = 0 THEN <<>>
                                ELSE TopoOrder(log, first, second)]
        windows[k \in 0..Len(firstParents)] ==
            IF k = 0 THEN <<>>
            ELSE LET earlier == windows[k - 1]
                     given == UNION {ToSet(earlier[j].commits) : j \in DOMAIN earlier}
                 IN  Append(earlier, window(firstParents[k], given))
    IN  windows[Len(firstParents)]

(* Mutant of ProductionEquivalent: production is compared from its merge    *)
(* base with the source head, as `git cherry` does.                         *)
ProductionEquivalentToHead(log, production, source, firstParents) ==
    LET base == MergeBase(log, production, source)
        picked == Patches(log, Between(log, base, production))
    IN  {c \in Between(log, production, source) :
            ~IsMerge(log, c) /\ log[c].patch \in picked}

(* The source commits whose patch production already has.  Production is    *)
(* compared from where it left the source history, since it may have been   *)
(* merged back after a cherry-pick.                                         *)
ProductionEquivalent(log, production, source, firstParents) ==
    IF firstParents = <<>> THEN {}
    ELSE LET baseline == FirstParent(log, firstParents[1])
             base == MergeBase(log, production, baseline)
             picked == Patches(log, Between(log, base, production))
         IN  {c \in Between(log, production, source) :
                 ~IsMerge(log, c) /\ log[c].patch \in picked}

GitSnapshot(log, production, source) ==
    LET delta == TopoOrder(log, production, source)
        firstParents == FirstParents(log, production, source)
        windows == IntegrationWindows(log, delta, firstParents)
    IN  [source |-> source,
         production |-> production,
         mergeBase |-> MergeBase(log, production, source),
         delta |-> delta,
         firstParents |-> firstParents,
         windows |-> windows,
         integration |-> [c \in ToSet(delta) |->
             LET ks == {k \in DOMAIN windows : c \in ToSet(windows[k].commits)}
             IN  IF ks = {} THEN 0 ELSE windows[Min(ks)].integration],
         equivalent |-> ProductionEquivalent(log, production, source, firstParents)]

(***************************************************************************)
(* Evidence: the merged pull requests GitHub associates with a commit.     *)
(***************************************************************************)
Associated(pulls, branch, listed, c) ==
    {p \in listed : /\ pulls[p].state = "merged"
                    /\ pulls[p].base = branch
                    /\ c \in pulls[p].brought \cup ToSet(pulls[p].originals)}

CommitEvidence(pulls, branch, answers, c) ==
    LET rest == Associated(pulls, branch, answers.rest, c)
        graph == Associated(pulls, branch, answers.graph, c)
    IN  [candidates |-> rest \cup graph,
         contradictory |-> rest # {} /\ graph # {} /\ rest # graph]

(***************************************************************************)
(* One pull request.                                                       *)
(***************************************************************************)
Position(git, c) == CHOOSE k \in DOMAIN git.delta : git.delta[k] = c

IsSubsequence(needle, haystack) ==
    LET found[n \in 0..Len(haystack)] ==
            IF n = 0 THEN 0
            ELSE LET k == found[n - 1] IN
                 IF k < Len(needle) /\ needle[k + 1] = haystack[n] THEN k + 1 ELSE k
    IN  found[Len(haystack)] = Len(needle)

(* The commits stand next to each other in the sequence `order`. *)
Contiguous(commits, order) ==
    /\ ToSet(commits) \subseteq ToSet(order)
    /\ \A k \in 2..Len(commits) :
           \E j \in 2..Len(order) : order[j - 1] = commits[k - 1] /\ order[j] = commits[k]

Presence(git, commits) ==
    LET present == ToSet(commits) \cap git.equivalent
    IN  CASE commits = <<>> -> "unknown"
          [] present = {} /\ commits # <<>> -> "unreleased"
          [] present = ToSet(commits) /\ commits # <<>> -> "released"
          [] OTHER -> "partially_present"

Unattributed(commits) == [attributed |-> FALSE, commits |-> commits]

Attributed(commits, integration, first, second, method, presence) ==
    [attributed |-> TRUE, commits |-> commits, integration |-> integration,
     first |-> first, second |-> second, method |-> method, presence |-> presence]

(* Mutant of AttributeMergeCommit: the commits that another pull request    *)
(* claims as well are left out.                                             *)
AttributeMergeCommitPartly(pulls, evidence, git, p, provisional) ==
    LET windows == {w \in ToSet(git.windows) : w.integration = pulls[p].merge}
        window == CHOOSE w \in windows : TRUE
        managed == SelectSeq(window.commits, LAMBDA c : evidence[c].candidates = {p})
    IN  IF windows = {} \/ ~IsSubsequence(pulls[p].originals, window.introduced)
        THEN Unattributed(provisional)
        ELSE Attributed(managed, pulls[p].merge, window.first, window.second, "merge",
                 Presence(git, window.introduced))

AttributeMergeCommit(pulls, evidence, git, p, provisional) ==
    LET windows == {w \in ToSet(git.windows) : w.integration = pulls[p].merge}
        window == CHOOSE w \in windows : TRUE
        originals == pulls[p].originals
        managed == SelectSeq(window.commits,
            LAMBDA c : \/ c = pulls[p].merge
                       \/ c \in ToSet(originals)
                       \/ evidence[c].candidates = {p})
    IN  CASE windows = {} -> Unattributed(provisional)
          [] windows # {} /\
             \/ ~IsSubsequence(originals, window.introduced)
             \/ managed # window.commits
             \/ ~(ToSet(window.introduced) \subseteq ToSet(git.delta)) ->
                 Unattributed(window.commits)
          [] OTHER ->
                 Attributed(
                     SortSeq(managed, LAMBDA c, d : Position(git, c) < Position(git, d)),
                     pulls[p].merge, window.first, window.second, "merge",
                     IF window.introduced = <<>> THEN "released"
                     ELSE Presence(git, window.introduced))

(* The merge method of n source commits for a pull request of m commits. *)
LinearMethod(n, m) ==
    CASE n = 1 /\ m > 1 -> "squash"
      [] n > 1 /\ n = m -> "rebase"
      [] n = 1 /\ m = 1 -> "unknown"
      [] OTHER -> "conflict"

AttributeLinear(log, pulls, git, p, provisional) ==
    LET method == LinearMethod(Len(provisional), Len(pulls[p].originals))
    IN  IF /\ provisional # <<>>
           /\ Contiguous(provisional, git.delta)
           /\ \A c \in ToSet(provisional) :
                  Len(log[c].parents) = 1 /\ git.integration[c] = c
           /\ Contiguous(provisional, git.firstParents)
           /\ method # "conflict"
        THEN Attributed(provisional, Last(provisional),
                 FirstParent(log, provisional[1]), 0, method, Presence(git, provisional))
        ELSE Unattributed(provisional)

AttributePull(log, pulls, evidence, git, p, provisional) ==
    IF pulls[p].merge \in ToSet(git.delta) /\ IsMerge(log, pulls[p].merge)
    THEN AttributeMergeCommit(pulls, evidence, git, p, provisional)
    ELSE AttributeLinear(log, pulls, git, p, provisional)

(***************************************************************************)
(* All pull requests.                                                      *)
(***************************************************************************)

(* The pull requests in the order of their places. *)
Placed(git, result, pulls) ==
    SetToSortSeq(pulls,
        LAMBDA p, q : Position(git, result[p].integration) < Position(git, result[q].integration))

(* Of the pull requests that got commits, those that overlap, or whose      *)
(* places contradict the times they were merged at, make every commit of    *)
(* theirs ambiguous, like those that were in doubt before.                  *)
Settled(pulls, git, result, doubtful) ==
    LET proposals == {p \in DOMAIN result : result[p].attributed}
        owns(p) == ToSet(result[p].commits)
        disputed == doubtful \cup UNION {owns(p) : p \in DOMAIN result \ proposals}
        overlapping == {p \in proposals :
            \/ owns(p) \cap disputed # {}
            \/ \E q \in proposals \ {p} : owns(p) \cap owns(q) # {}}
        inOrder == Placed(git, result, proposals \ overlapping)
        misordered == UNION {{inOrder[k - 1], inOrder[k]} : k \in
            {j \in 2..Len(inOrder) : pulls[inOrder[j]].at < pulls[inOrder[j - 1]].at}}
        ambiguous == disputed \cup UNION {owns(p) : p \in overlapping \cup misordered}
        valid == {p \in proposals \ (overlapping \cup misordered) :
                      owns(p) \cap ambiguous = {}}
    IN  [changes |-> [p \in valid |-> result[p]], ambiguous |-> ambiguous]

(* The commits that nobody but `p` claims. *)
Provisional(git, evidence, contested, p) ==
    SelectSeq(git.delta, LAMBDA c : c \notin contested /\ evidence[c].candidates = {p})

(* attributePullRequestChanges: whatever is claimed twice, contradicted or  *)
(* out of order makes every commit involved ambiguous, and a pull request   *)
(* with an ambiguous commit is given none.                                  *)
Attribution(log, pulls, branch, git, answers) ==
    LET delta == ToSet(git.delta)
        evidence == [c \in delta |-> CommitEvidence(pulls, branch, answers, c)]
        contested == {c \in delta : \/ evidence[c].contradictory
                                    \/ Cardinality(evidence[c].candidates) > 1}
        provisional == [p \in Pulls |-> Provisional(git, evidence, contested, p)]
        asked == {p \in Pulls : provisional[p] # <<>>}
        unreadable == asked \cap answers.garbled
    IN  Settled(pulls, git,
            [p \in asked \ unreadable |->
                AttributePull(log, pulls, evidence, git, p, provisional[p])],
            contested \cup UNION {ToSet(provisional[p]) : p \in unreadable})
=============================================================================
