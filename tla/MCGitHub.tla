-------------------------------- MODULE MCGitHub --------------------------------
(***************************************************************************)
(* The server and GitHub, for TLC, in two parts: the authorization of one  *)
(* user in two processes, with one kind of trouble at a time, and the      *)
(* deliveries of one installation.  A login needs a third token to         *)
(* overtake a refresh; two refreshes beside it have two.  The module that  *)
(* is not chosen stays in a fixed state.                                   *)
(***************************************************************************)
EXTENDS GitHub

VARIABLE part

mcvars == <<vars, dvars, part>>

One == {CHOOSE r \in Resolution : TRUE}

MCScenarios ==
  {[events |-> {"login"}, tokens |-> 3, calls |-> One],
   [events |-> {"login"}, tokens |-> 2, calls |-> Resolution],
   [events |-> {"answers"}, tokens |-> 3, calls |-> Resolution],
   [events |-> {"expired"}, tokens |-> 2, calls |-> Resolution],
   [events |-> {"crash"}, tokens |-> 2, calls |-> Resolution],
   [events |-> {"disconnect", "answers"}, tokens |-> 2, calls |-> One],
   [events |-> {"disconnect"}, tokens |-> 1, calls |-> Resolution],
   [events |-> {"disconnect", "unauthorized"}, tokens |-> 2, calls |-> One],
   [events |-> {"unauthorized", "revoked"}, tokens |-> 2, calls |-> One],
   [events |-> {"unauthorized", "revoked"}, tokens |-> 1, calls |-> Resolution]}

MCInit ==
  \/ /\ part = "authorization" /\ Init
     /\ Deliveries!Init /\ github = [life |-> "active", repo |-> TRUE]
  \/ /\ part = "deliveries" /\ Deliveries!Init
     /\ Init /\ scenario = CHOOSE s \in Scenarios : TRUE

\* Two faults meet one delivery; with two deliveries there is one.
Bounded == dfaults' = MaxTrouble => \A d \in Deliveries!Delivery \ {1} : sent'[d].kind = "none"

AuthorizationIdle == UNCHANGED <<vars, part>>
DeliveriesIdle == UNCHANGED <<dvars, part>>

MCNext ==
  \/ part = "authorization" /\ Next /\ DeliveriesIdle
  \/ part = "deliveries" /\ Deliveries!Next /\ Bounded /\ AuthorizationIdle

\* The fairness of both modules.  There is a slot for each delivery, so that weak
\* fairness is enough for taking its job.
Authorizing(step) == part = "authorization" /\ step /\ UNCHANGED scenario /\ DeliveriesIdle
Delivering(step) == part = "deliveries" /\ step /\ AuthorizationIdle

MCFairness ==
  /\ \A r \in Resolution : WF_mcvars(Authorizing(Resolves(r))) /\ SF_mcvars(Authorizing(StopWaiting(r)))
  /\ \A l \in Login : WF_mcvars(Authorizing(LogsIn(l)))
  /\ WF_mcvars(Authorizing(Disconnects)) /\ WF_mcvars(Authorizing(LeaseExpires))
  /\ \A d \in Deliveries!Delivery :
       /\ WF_mcvars(Delivering(Deliveries!Accept(d))) /\ WF_mcvars(Delivering(Deliveries!Take(d)))
       /\ WF_mcvars(Delivering(Deliveries!Handles(d)))
       /\ WF_mcvars(Delivering(Deliveries!LockExpires(d)))

MCSpec == MCInit /\ [][MCNext]_mcvars /\ MCFairness
-----------------------------------------------------------------------------
\* Every resolution of a client ends, also when the holder of the lease has died, and so does
\* a disconnect; and fewer errors and crashes than attempts never lose an accepted event,
\* unless its payload is purged first or it is about a repository of an unknown installation.
EverythingEnds ==
  /\ ResolutionsEnd
  /\ <>[](/\ disc.phase \in {"idle", "done"}
          /\ part = "deliveries" => \A d \in Deliveries!Delivery :
               deliveries[d].state \notin {"absent", "ignored"} /\ sent[d].kind \notin {"malformed", "added"}
                 => Deliveries!Applies(d) \/ ~deliveries[d].payload)
=============================================================================
