------------------------- MODULE SnapshotValidation -------------------------
(***************************************************************************)
(* validateRepositoryProjectionSnapshot (store.ts): the checks a snapshot  *)
(* passes before it may replace the projection.  They are written against  *)
(* the projected rows alone and know nothing of how git-workspace.ts and   *)
(* pr-attribution.ts made them.                                            *)
(***************************************************************************)
EXTENDS PullAttribution

(* Positions, integration points and heads of the projected commits. *)
TopologyIsCoherent(git) ==
    LET delta == ToSet(git.delta) IN
    /\ git.mergeBase = git.production
    /\ Cardinality(delta) = Len(git.delta)
    /\ Cardinality(ToSet(git.firstParents)) = Len(git.firstParents)
    /\ \A c \in delta : /\ git.integration[c] \in delta
                        /\ git.integration[c] \in ToSet(git.firstParents)
    /\ IF git.source = git.production
       THEN git.delta = <<>> /\ git.firstParents = <<>>
       ELSE /\ git.delta # <<>> /\ Last(git.delta) = git.source
            /\ git.firstParents # <<>> /\ Last(git.firstParents) = git.source

ChangeIsCoherent(log, pulls, git, p, change) ==
    LET commits == change.commits
        delta == ToSet(git.delta)
    IN  /\ commits # <<>>
        /\ change.presence # "unknown"
        /\ change.integration \in delta
        /\ ToSet(commits) \subseteq delta
        /\ \A k \in 2..Len(commits) :
               Position(git, commits[k - 1]) < Position(git, commits[k])
        /\ \A c \in ToSet(commits) :
               IF change.method = "rebase"
               THEN c \in ToSet(git.firstParents) /\ git.integration[c] = c
               ELSE git.integration[c] = change.integration
        /\ Last(commits) = change.integration
        /\ change.method # "merge" =>
               FirstParent(log, commits[1]) = change.first /\ change.second = 0
        /\ change.method = "unknown" => Len(commits) = 1
        /\ change.method = "rebase" => Contiguous(commits, git.firstParents)
        /\ change.method = "merge" =>
               /\ pulls[p].merge = change.integration
               /\ change.second # 0
               /\ <<change.first, change.second>>
                      = SubSeq(log[change.integration].parents, 1, 2)

(* The state pr-attribution.ts projects for a commit of the delta. *)
AttributionState(attribution, c) ==
    CASE c \in attribution.ambiguous -> "ambiguous"
      [] c \notin attribution.ambiguous /\
         \E p \in DOMAIN attribution.changes : c \in ToSet(attribution.changes[p].commits)
           -> "managed"
      [] OTHER -> "unmanaged"

SnapshotIsCoherent(log, pulls, git, attribution) ==
    LET changes == attribution.changes IN
    /\ TopologyIsCoherent(git)
    /\ \A p \in DOMAIN changes : ChangeIsCoherent(log, pulls, git, p, changes[p])
    /\ \A p, q \in DOMAIN changes :
           p # q => ToSet(changes[p].commits) \cap ToSet(changes[q].commits) = {}
    /\ \A c \in ToSet(git.delta) :
           AttributionState(attribution, c) = "managed"
           <=> \E p \in DOMAIN changes : c \in ToSet(changes[p].commits)
=============================================================================
