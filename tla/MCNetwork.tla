----------------------------- MODULE MCNetwork ------------------------------
(* What must come through a network that may fail, for TLC: the events         *)
(* (LiveDelivery) and the job of an agent (JobLease).  The two share no state: *)
(* a behaviour is one of either, `part' says which, and the other stays in its *)
(* initial state.                                                              *)
EXTENDS LiveDelivery

CONSTANTS Agent, LeaseTicks, IntervalTicks, PostTicks, MaxPosts, MaxLeases, MaxFaults,
          MaxCrashes

VARIABLES part, status, lease, ttl, endedBy, requests, at, mine, call, keeper, outcome,
          local, faults, crashes

leaseVars == <<status, lease, ttl, endedBy, requests, at, mine, call, keeper, outcome,
               local, faults, crashes>>

Lease == INSTANCE JobLease WITH wire <- requests, pc <- at

ASSUME NetworkAssumption == Lease!LeaseAssumption

DeliveryMoves == part = "delivery" /\ Next /\ UNCHANGED <<part, leaseVars>>
LeaseMoves    == part = "lease" /\ Lease!Next /\ UNCHANGED <<part, vars>>

allVars == <<part, vars, leaseVars>>

\* The fairness of the two modules, each while it is the one that moves.
OfDelivery(A) == part = "delivery" /\ A /\ UNCHANGED <<part, leaseVars>>
OfLease(A)    == part = "lease" /\ A /\ UNCHANGED <<part, vars>>

FairOne ==
  /\ WF_allVars(OfDelivery(Drain \/ Poll))
  /\ SF_allVars(OfDelivery(\E e \in Event : Apply(e)))
  /\ SF_allVars(OfDelivery(AnswerSent))
  /\ \A a \in Agent :
       /\ WF_allVars(OfLease(Lease!Runs(a))) /\ SF_allVars(OfLease(Lease!HandlerEnds(a)))
       /\ WF_allVars(OfLease(Lease!PostFails(a)))
       /\ WF_allVars(OfLease(Lease!KeeperPostFails(a)))
  /\ WF_allVars(OfLease(Lease!Network)) /\ SF_allVars(OfLease(Lease!Tick))

InitOne == part \in {"delivery", "lease"} /\ Init /\ Lease!Init

NextOne == DeliveryMoves \/ LeaseMoves

SpecOne == InitOne /\ [][NextOne]_allVars /\ FairOne
-----------------------------------------------------------------------------
\* JobLease: a job ends, completed or failed, when only finitely many requests fail
\* and agents die.
JobEnds == part = "lease" => <>(status \in {"complete", "fail"})
=============================================================================
