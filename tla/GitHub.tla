------------------------------- MODULE GitHub -------------------------------
(***************************************************************************)
(* What the server does on behalf of GitHub, side by side: the             *)
(* authorization of a user, and the deliveries of an installation.  The    *)
(* parts share no state; each property is about one of them.               *)
(***************************************************************************)
EXTENDS UserAuthorization

CONSTANTS MaxDelivery, MaxAttempts, Concurrency, Kind, Faults,
          MaxTrouble \* bound on the faults of the deliveries

ASSUME GitHubAssumption ==
  /\ MaxDelivery \in Nat /\ MaxAttempts \in Nat \ {0} /\ Concurrency \in Nat \ {0}
  /\ MaxTrouble \in Nat

VARIABLES github, sent, net, deliveries, job, exec, handler, inst, applied, dfaults

dvars == <<github, sent, net, deliveries, job, exec, handler, inst, applied, dfaults>>

Deliveries == INSTANCE WebhookDelivery
                WITH row <- deliveries, faults <- dfaults, MaxFaults <- MaxTrouble

ASSUME EventsAssumption == Kind \subseteq Deliveries!AllKinds /\ Faults \subseteq Deliveries!AllFaults
-----------------------------------------------------------------------------
\* An event is applied once, however often it is delivered or retried, unless a fault after
\* its application is followed by one in the claim of its retry, and the status of its job is
\* true of it (processGitHubWebhookDelivery, executeJobAttempt).
AppliedOnce == Deliveries!TypeOK /\ Deliveries!AppliedOnce /\ Deliveries!StatusHonest

\* When every event was applied in the order GitHub sent them, the rows say what
\* GitHub does (processGitHubWebhookDelivery).
RowsFollowGitHub == Deliveries!RowsFollowGitHub
=============================================================================
