---------------------------- MODULE CommitGraph ----------------------------
(***************************************************************************)
(* Commit histories and the git commands the read-only workspace runs on   *)
(* them (git-workspace.ts).  A history is a sequence of commits, a commit  *)
(* is named by its place in it, and parents come before their children.    *)
(* `patch` stands for the stable patch ID of a commit (0 for a merge), and *)
(* `reach` is the set of commits reachable from it, itself included.       *)
(***************************************************************************)
EXTENDS Naturals, FiniteSets, SequencesExt

(* A commit that can be appended to the history `log`. *)
NewCommit(log, parents, patch) ==
    [parents |-> parents, patch |-> patch,
     reach |-> {Len(log) + 1} \cup UNION {log[c].reach : c \in ToSet(parents)}]

(* git merge-base --is-ancestor *)
IsAncestor(log, old, new) == old \in log[new].reach

(* git merge-base: a common ancestor no other common ancestor descends from. *)
MergeBase(log, a, b) == Max(log[a].reach \cap log[b].reach)

(* The range from..to. *)
Between(log, from, to) == log[to].reach \ log[from].reach

IsMerge(log, c) == Len(log[c].parents) > 1

FirstParent(log, c) == IF log[c].parents = <<>> THEN 0 ELSE log[c].parents[1]

(* git rev-list --first-parent --reverse from..to *)
FirstParents(log, from, to) ==
    LET chain[c \in 0..Len(log)] ==
            IF c = 0 \/ c \in log[from].reach
            THEN <<>>
            ELSE Append(chain[FirstParent(log, c)], c)
    IN  chain[to]

(* git rev-list --reverse --topo-order from..to.  Git emits a commit once   *)
(* all its children in the range are out, and keeps those that wait on a    *)
(* stack, so a merged branch is shown whole.                                *)
TopoOrder(log, from, to) ==
    LET range == Between(log, from, to)
        Freed(c, out) ==
            SelectSeq(log[c].parents,
                LAMBDA p : /\ p \in range
                           /\ \A d \in range :
                                  p \in ToSet(log[d].parents) => d \in out)
        walk[n \in 0..Cardinality(range)] ==
            IF n = 0
            THEN [out |-> <<>>, stack |-> <<to>>]
            ELSE LET before == walk[n - 1]
                     c == Last(before.stack)
                     out == Append(before.out, c)
                 IN  [out |-> out,
                      stack |-> Front(before.stack) \o Freed(c, ToSet(out))]
    IN  IF range = {} THEN <<>> ELSE Reverse(walk[Cardinality(range)].out)

(* git log --no-merges --patch | git patch-id --stable *)
Patches(log, S) == {log[c].patch : c \in {d \in S : ~IsMerge(log, d)}}
=============================================================================
