------------------------------ MODULE JobLease ------------------------------
(***************************************************************************)
(* One job of the control plane and the agents that may work on it.  A     *)
(* claim gives a lease that expires unless it is renewed; JobRunner runs   *)
(* the handler while _LeaseKeeper renews the lease from another thread.    *)
(* Every request is posted several times by AgentApiClient.request: a      *)
(* request or its answer may be lost, or arrive after the caller gave up.  *)
(*                                                                         *)
(* Time advances by ticks (10 seconds, the HTTP timeout); local            *)
(* computation between two requests takes no time, a handler any time.     *)
(***************************************************************************)
EXTENDS Integers

CONSTANTS Agent,
          LeaseTicks,     \* the server's lease window (60 seconds)
          IntervalTicks,  \* HEARTBEAT_INTERVAL_SECONDS (20 seconds)
          PostTicks,      \* the longest a POST may take (10 seconds)
          MaxPosts,       \* 1 + MAX_RETRIES
          MaxLeases,      \* bound: leases given
          MaxFaults,      \* bound: POSTs that time out or lose their answer
          MaxCrashes      \* bound: agents killed

LeaseAssumption ==
  /\ LeaseTicks \in Nat \ {0} /\ IntervalTicks \in Nat \ {0}
  /\ PostTicks \in Nat \ {0} /\ MaxPosts \in Nat \ {0}
  /\ MaxLeases \in Nat /\ MaxFaults \in Nat /\ MaxCrashes \in Nat

VARIABLES
  status,   \* the job at the control plane
  lease,    \* the number of the last lease given, 0 before the first claim
  ttl,      \* ticks until that lease expires
  endedBy,  \* the lease under which the job ended, 0 before
  wire,     \* requests the control plane may still receive
  pc,       \* where run_once stands; the name of the request it waits for
  mine,     \* the lease the agent works under, 0 for none
  call,     \* the request of the main thread
  keeper,   \* the thread of _LeaseKeeper
  outcome,  \* how the handler was left
  local,    \* the state file: status and lease
  faults, crashes

serverVars == <<status, lease, ttl, endedBy>>
agentVars  == <<pc, mine, call, keeper, outcome, local>>
vars == <<serverVars, wire, agentVars, faults, crashes>>

Request == {"claim", "running", "checkpoint", "require", "confirm", "complete", "fail"}
Call    == [state : {"none", "waiting", "ok", "refused", "raised"},
            posts : 0..MaxPosts, age : Nat]
Keeper  == [state : {"off", "asleep", "waiting", "lost"},
            posts : 0..MaxPosts, age : Nat]
Message == [from : Agent, kind : Request \cup {"keep"}, lease : 0..MaxLeases]

NoCall == [state |-> "none", posts |-> 0, age |-> 0]
Off    == [state |-> "off", posts |-> 0, age |-> 0]
Asleep == [state |-> "asleep", posts |-> 0, age |-> 0]
Posted == [state |-> "waiting", posts |-> 1, age |-> 0]

Init ==
  /\ status = "queued" /\ lease = 0 /\ ttl = 0 /\ endedBy = 0
  /\ wire = {}
  /\ pc = [a \in Agent |-> "idle"] /\ mine = [a \in Agent |-> 0]
  /\ call = [a \in Agent |-> NoCall] /\ keeper = [a \in Agent |-> Off]
  /\ outcome = [a \in Agent |-> "none"]
  /\ local = [a \in Agent |-> [status |-> "none", lease |-> 0]]
  /\ faults = 0 /\ crashes = 0

-----------------------------------------------------------------------------
(* Requests.                                                                *)

Msg(a, kind, l) == [from |-> a, kind |-> kind, lease |-> l]

\* The main thread begins a request and waits.
Ask(a, kind, l) ==
  /\ pc' = [pc EXCEPT ![a] = kind]
  /\ call' = [call EXCEPT ![a] = Posted]
  /\ wire' = wire \cup {Msg(a, kind, l)}

\* request() posts again after a transport error or a 5xx, then raises.
Repost(a, c, m) ==
  IF c.posts < MaxPosts
  THEN /\ call' = [call EXCEPT ![a] = [c EXCEPT !.posts = @ + 1, !.age = 0]]
       /\ wire' = wire \cup {m}
  ELSE /\ call' = [call EXCEPT ![a].state = "raised"]
       /\ UNCHANGED wire

\* A POST fails; without a fault only when its answer was lost already.
CountFault(m) ==
  IF m \in wire THEN faults < MaxFaults /\ faults' = faults + 1
                ELSE UNCHANGED faults

PostFails(a) ==
  /\ call[a].state = "waiting"
  /\ LET m == Msg(a, pc[a], mine[a])
     IN  CountFault(m) /\ Repost(a, call[a], m)
  /\ UNCHANGED <<serverVars, pc, mine, keeper, outcome, local, crashes>>

KeeperPostFails(a) ==
  /\ keeper[a].state = "waiting"
  /\ LET m == Msg(a, "keep", mine[a])
     IN  /\ CountFault(m)
         /\ IF keeper[a].posts < MaxPosts
            THEN /\ keeper' = [keeper EXCEPT ![a] =
                                 [keeper[a] EXCEPT !.posts = @ + 1, !.age = 0]]
                 /\ wire' = wire \cup {m}
            ELSE /\ keeper' = [keeper EXCEPT ![a] = [Off EXCEPT !.state = "lost"]]
                 /\ UNCHANGED wire
  /\ UNCHANGED <<serverVars, pc, mine, call, outcome, local, crashes>>

-----------------------------------------------------------------------------
(* The control plane.                                                       *)

\* A claim gives a queued job, or one whose lease has expired.
ServeClaim(got) ==
  \/ /\ \/ status = "queued"
        \/ status = "leased" /\ ttl = 0
     /\ lease < MaxLeases
     /\ status' = "leased" /\ lease' = lease + 1 /\ ttl' = LeaseTicks
     /\ got = "ok"
     /\ UNCHANGED endedBy
  \/ /\ status # "queued"
     /\ status = "leased" => ttl > 0 \/ lease = MaxLeases
     /\ got = "refused"
     /\ UNCHANGED serverVars

\* A lease that expired and was not given again may or may not be honoured.
Honoured(l, yes) ==
  IF status = "leased" /\ lease = l THEN (ttl = 0 \/ yes) ELSE ~yes

\* Heartbeats renew the lease; a transition ends the job.
ServeLeased(kind, l, got) ==
  \E yes \in BOOLEAN :
    /\ Honoured(l, yes)
    /\ got = IF yes THEN "ok" ELSE "refused"
    /\ ttl' = IF yes /\ kind \in {"keep", "require", "confirm"} THEN LeaseTicks ELSE ttl
    /\ IF yes /\ kind \in {"complete", "fail"}
       THEN status' = kind /\ endedBy' = l
       ELSE UNCHANGED <<status, endedBy>>
    /\ UNCHANGED lease

\* The answer reaches a caller that still waits for it, or is lost.
WaitsFor(m) ==
  /\ mine[m.from] = m.lease
  /\ IF m.kind = "keep" THEN keeper[m.from].state = "waiting"
     ELSE pc[m.from] = m.kind /\ call[m.from].state = "waiting"

Receive(m, got) ==
  LET a == m.from
  IN  IF m.kind = "keep"
      THEN /\ keeper' = [keeper EXCEPT ![a] =
                IF got = "ok" THEN Asleep ELSE [Off EXCEPT !.state = "lost"]]
           /\ UNCHANGED <<call, mine>>
      ELSE /\ call' = [call EXCEPT ![a].state = got]
           /\ mine' = IF m.kind = "claim" /\ got = "ok"
                      THEN [mine EXCEPT ![a] = lease'] ELSE mine
           /\ UNCHANGED keeper

Answer(m, got) ==
  IF WaitsFor(m)
  THEN \/ Receive(m, got) /\ UNCHANGED faults
       \/ /\ faults < MaxFaults /\ faults' = faults + 1
          /\ UNCHANGED <<call, mine, keeper>>
  ELSE UNCHANGED <<call, mine, keeper, faults>>

Serve(m) ==
  /\ wire' = wire \ {m}
  /\ \E got \in {"ok", "refused"} :
       /\ IF m.kind = "claim" THEN ServeClaim(got) ELSE ServeLeased(m.kind, m.lease, got)
       /\ Answer(m, got)
  /\ UNCHANGED <<pc, outcome, local, crashes>>

-----------------------------------------------------------------------------
(* JobRunner.run_once.                                                      *)

Record(a, s) == local' = [local EXCEPT ![a] = [status |-> s, lease |-> mine[a]]]

\* run_once returns; the next poll starts from nothing, and when it returned
\* False after the poll interval.
Return(a, s) ==
  /\ Record(a, s)
  /\ pc' = [pc EXCEPT ![a] = IF s = "lease_lost" THEN "asleep" ELSE "idle"]
  /\ mine' = [mine EXCEPT ![a] = 0]
  /\ call' = [call EXCEPT ![a] = NoCall] /\ keeper' = [keeper EXCEPT ![a] = Off]
  /\ outcome' = [outcome EXCEPT ![a] = "none"]
  /\ UNCHANGED wire

Answered(a, kind, results) == pc[a] = kind /\ call[a].state \in results

Claim(a) ==
  /\ pc[a] = "idle"
  /\ Ask(a, "claim", 0)
  /\ UNCHANGED <<serverVars, mine, keeper, outcome, local, faults, crashes>>

NothingClaimed(a) ==
  /\ Answered(a, "claim", {"refused", "raised"})
  /\ pc' = [pc EXCEPT ![a] = "asleep"] /\ call' = [call EXCEPT ![a] = NoCall]
  /\ UNCHANGED <<serverVars, wire, mine, keeper, outcome, local, faults, crashes>>

StartRunning(a) ==
  /\ Answered(a, "claim", {"ok"})
  /\ Record(a, "running")
  /\ Ask(a, "running", mine[a])
  /\ UNCHANGED <<serverVars, mine, keeper, outcome, faults, crashes>>

StartUnkept(a) ==   \* mutant: the keeper's thread is not started
  /\ Answered(a, "running", {"ok"})
  /\ pc' = [pc EXCEPT ![a] = "handler"] /\ call' = [call EXCEPT ![a] = NoCall]
  /\ UNCHANGED <<serverVars, wire, mine, keeper, outcome, local, faults, crashes>>

StartHandler(a) ==
  /\ Answered(a, "running", {"ok"})
  /\ pc' = [pc EXCEPT ![a] = "handler"] /\ call' = [call EXCEPT ![a] = NoCall]
  /\ keeper' = [keeper EXCEPT ![a] = Asleep]
  /\ UNCHANGED <<serverVars, wire, mine, outcome, local, faults, crashes>>

\* A transition that is refused or not acknowledged: the server decides.
TransitionUncertain(a) ==
  /\ \E kind \in {"running", "complete", "fail"} :
       Answered(a, kind, {"refused", "raised"})
  /\ Return(a, "lease_lost")
  /\ UNCHANGED <<serverVars, faults, crashes>>

\* The handler is left, and with it the context of the keeper.
Leave(a, how) ==
  /\ pc' = [pc EXCEPT ![a] = "join"]
  /\ outcome' = [outcome EXCEPT ![a] = how]
  /\ call' = [call EXCEPT ![a] = NoCall]
  /\ UNCHANGED <<serverVars, wire, mine, keeper, local, faults, crashes>>

HandlerEnds(a) ==
  /\ pc[a] = "handler"
  /\ \E how \in {"returned", "raised"} : Leave(a, how)

\* _record_checkpoint, or _require_lease after its guard.
AskInHandler(a) ==
  /\ pc[a] = "handler"
  /\ \E kind \in {"checkpoint", "require"} :
       /\ kind = "require" => keeper[a].state # "lost"
       /\ Ask(a, kind, mine[a])
  /\ UNCHANGED <<serverVars, mine, keeper, outcome, local, faults, crashes>>

GuardRaises(a) ==
  /\ pc[a] = "handler" /\ keeper[a].state = "lost"
  /\ Leave(a, "lost")

HandlerGoesOn(a) ==
  /\ \E kind \in {"checkpoint", "require"} : Answered(a, kind, {"ok"})
  /\ pc' = [pc EXCEPT ![a] = "handler"] /\ call' = [call EXCEPT ![a] = NoCall]
  /\ UNCHANGED <<serverVars, wire, mine, keeper, outcome, local, faults, crashes>>

\* A heartbeat that raises is not a LeaseLost, an unacknowledged checkpoint is.
HandlerInterrupted(a) ==
  \/ Answered(a, "checkpoint", {"refused", "raised"}) /\ Leave(a, "lost")
  \/ Answered(a, "require", {"refused"}) /\ Leave(a, "lost")
  \/ Answered(a, "require", {"raised"}) /\ Leave(a, "uncertain")

\* __exit__ waits for the keeper, at most an interval, and drops it; a lost
\* lease that is known by then stops the job.
Join(a) ==
  /\ pc[a] = "join"
  /\ keeper[a].state = "waiting" => call[a].age >= IntervalTicks
  /\ \/ /\ outcome[a] = "returned" /\ keeper[a].state # "lost"
        /\ Ask(a, "confirm", mine[a])
        /\ keeper' = [keeper EXCEPT ![a] = Off]
        /\ UNCHANGED <<mine, local, outcome>>
     \/ /\ outcome[a] \in {"raised", "uncertain"}
        /\ Ask(a, "fail", mine[a])
        /\ keeper' = [keeper EXCEPT ![a] = Off]
        /\ UNCHANGED <<mine, local, outcome>>
     \/ /\ outcome[a] = "lost" \/ (outcome[a] = "returned" /\ keeper[a].state = "lost")
        /\ Return(a, "lease_lost")
  /\ UNCHANGED <<serverVars, faults, crashes>>

\* The heartbeat before the completion.
Confirmed(a) ==
  /\ Answered(a, "confirm", {"ok"})
  /\ Ask(a, "complete", mine[a])
  /\ UNCHANGED <<serverVars, mine, keeper, outcome, local, faults, crashes>>

ConfirmRefused(a) ==
  /\ Answered(a, "confirm", {"refused"})
  /\ Return(a, "lease_lost")
  /\ UNCHANGED <<serverVars, faults, crashes>>

ConfirmRaises(a) ==
  /\ Answered(a, "confirm", {"raised"})
  /\ Ask(a, "fail", mine[a])
  /\ outcome' = [outcome EXCEPT ![a] = "uncertain"]
  /\ UNCHANGED <<serverVars, mine, keeper, local, faults, crashes>>

RecordUnchecked(a) ==   \* mutant: the answer of a transition is not looked at
  /\ \E kind \in {"complete", "fail"} :
       Answered(a, kind, {"ok", "refused"}) /\ Return(a, kind)
  /\ UNCHANGED <<serverVars, faults, crashes>>

RecordEnd(a) ==
  /\ \E kind \in {"complete", "fail"} :
       Answered(a, kind, {"ok"}) /\ Return(a, kind)
  /\ UNCHANGED <<serverVars, faults, crashes>>

\* The agent dies; its state file stays and is only logged at the next start.
Crash(a) ==
  /\ crashes < MaxCrashes
  /\ crashes' = crashes + 1
  /\ pc[a] \notin {"idle", "asleep"}
  /\ pc' = [pc EXCEPT ![a] = "idle"] /\ mine' = [mine EXCEPT ![a] = 0]
  /\ call' = [call EXCEPT ![a] = NoCall] /\ keeper' = [keeper EXCEPT ![a] = Off]
  /\ outcome' = [outcome EXCEPT ![a] = "none"]
  /\ UNCHANGED <<serverVars, wire, local, faults>>

-----------------------------------------------------------------------------
(* _LeaseKeeper and time.                                                   *)

KeeperWakes(a) ==
  /\ keeper[a].state = "asleep" /\ keeper[a].age = IntervalTicks
  /\ keeper' = [keeper EXCEPT ![a] = Posted]
  /\ wire' = wire \cup {Msg(a, "keep", mine[a])}
  /\ UNCHANGED <<serverVars, pc, mine, call, outcome, local, faults, crashes>>

\* Nothing is due now.
NothingDue ==
  \A a \in Agent :
    /\ call[a].state \in {"none", "waiting"}
    /\ call[a].state = "waiting" => call[a].age < PostTicks
    /\ pc[a] = "join" => keeper[a].state = "waiting" /\ call[a].age < IntervalTicks
    /\ keeper[a].state = "asleep" => keeper[a].age < IntervalTicks
    /\ keeper[a].state = "waiting" => keeper[a].age < PostTicks

Tick ==
  /\ NothingDue
  /\ ttl' = IF ttl > 0 THEN ttl - 1 ELSE 0
  /\ call' = [a \in Agent |-> IF call[a].state = "waiting" \/ pc[a] = "join"
                              THEN [call[a] EXCEPT !.age = @ + 1] ELSE call[a]]
  /\ keeper' = [a \in Agent |-> IF keeper[a].state \in {"asleep", "waiting"}
                                THEN [keeper[a] EXCEPT !.age = @ + 1] ELSE keeper[a]]
  /\ pc' = [a \in Agent |-> IF pc[a] = "asleep" THEN "idle" ELSE pc[a]]
  /\ UNCHANGED <<status, lease, endedBy, wire, mine, outcome, local, faults, crashes>>

-----------------------------------------------------------------------------
\* What the agent does by itself.
Runs(a) ==
  \/ Claim(a) \/ NothingClaimed(a) \/ StartRunning(a) \/ StartHandler(a)
  \/ TransitionUncertain(a) \/ AskInHandler(a) \/ GuardRaises(a)
  \/ HandlerGoesOn(a) \/ HandlerInterrupted(a) \/ Join(a) \/ Confirmed(a)
  \/ ConfirmRefused(a) \/ ConfirmRaises(a) \/ RecordEnd(a) \/ KeeperWakes(a)

Network == \E m \in wire : Serve(m)

Next ==
  \/ Network
  \/ \E a \in Agent :
       \/ Runs(a) \/ HandlerEnds(a)
       \/ PostFails(a) \/ KeeperPostFails(a) \/ Crash(a)
  \/ Tick

Spec == Init /\ [][Next]_vars

\* run_forever polls for ever, a handler has finitely many checkpoints and time
\* passes between its requests; the network answers or a POST times out.
Fairness ==
  /\ \A a \in Agent :
       WF_vars(Runs(a)) /\ SF_vars(HandlerEnds(a))
         /\ WF_vars(PostFails(a)) /\ WF_vars(KeeperPostFails(a))
  /\ WF_vars(Network)
  /\ SF_vars(Tick)

FairSpec == Spec /\ Fairness

-----------------------------------------------------------------------------
ServerType ==
  /\ status \in {"queued", "leased", "complete", "fail"}
  /\ lease \in 0..MaxLeases /\ ttl \in 0..LeaseTicks /\ endedBy \in 0..MaxLeases

ThreadType ==
  /\ pc \in [Agent -> Request \cup {"idle", "asleep", "handler", "join"}]
  /\ mine \in [Agent -> 0..MaxLeases]
  /\ call \in [Agent -> Call] /\ keeper \in [Agent -> Keeper]
  /\ outcome \in [Agent -> {"none", "returned", "raised", "uncertain", "lost"}]
  /\ local \in [Agent -> [status : {"none", "running", "lease_lost", "complete", "fail"},
                          lease : 0..MaxLeases]]

TypeOK ==
  /\ ServerType /\ ThreadType /\ wire \subseteq Message
  /\ faults \in 0..MaxFaults /\ crashes \in 0..MaxCrashes

\* What the state file says of the end of a job is what the control plane
\* holds, under the same lease, whatever requests were lost or repeated
\* (job_runner.py _transition, _require_transition).
RecordedIsTrue ==
  \A a \in Agent : local[a].status \in {"complete", "fail"} =>
    status = local[a].status /\ endedBy = local[a].lease

\* An agent whose requests are answered in time keeps its lease however long
\* the handler runs (_LeaseKeeper).
KeepsLease ==
  faults = 0 =>
    \A a \in Agent : mine[a] # 0 =>
      lease = mine[a] /\ (status = "leased" => ttl > 0)

\* Every job ends, when only finitely many requests fail.
JobEnds == <>(status \in {"complete", "fail"})
-----------------------------------------------------------------------------
(* The inductive invariant of the proofs.                                   *)

\* The times of the code: 10, 20 and 60 seconds.
TimingAssumption ==
  PostTicks < IntervalTicks /\ 2 * PostTicks + IntervalTicks < LeaseTicks

Kept   == {"handler", "checkpoint", "require", "join"}
Ending == {"complete", "fail"}

\* A request is under way where run_once waits for one, a keeper runs beside the
\* handler, and neither waits longer than a POST.
ThreadInv ==
  \A a \in Agent :
    /\ call[a].state # "none" <=> pc[a] \in Request
    /\ pc[a] \in {"idle", "asleep"} => mine[a] = 0
    /\ pc[a] = "claim" /\ call[a].state # "ok" => mine[a] = 0
    /\ keeper[a].state # "off" => pc[a] \in Kept
    /\ pc[a] \in Request => call[a].age <= PostTicks
    /\ keeper[a].state = "asleep" => keeper[a].age <= IntervalTicks
    /\ keeper[a].state = "waiting" => keeper[a].age <= PostTicks

\* Leases are given in order, and a transition that was acknowledged has ended
\* the job.
RecordInv ==
  /\ status = "queued" => lease = 0
  /\ \A a \in Agent : mine[a] <= lease
  /\ \A m \in wire : m.lease <= lease
  /\ \A a \in Agent :
       pc[a] \in Ending /\ call[a].state = "ok" => status = pc[a] /\ endedBy = mine[a]
  /\ RecordedIsTrue

\* The agent of a lease is the only one, and no message but its own names it.
Alone(a) ==
  /\ lease = mine[a]
  /\ \A b \in Agent : mine[b] # 0 => b = a
  /\ \A m \in wire : m.lease = mine[a] =>
       m.from = a /\ (m.kind \in Ending => pc[a] \in Ending)
  /\ status = "leased" \/ pc[a] \in Ending

\* What is left of the lease where the agent stands.
Lasts(a) ==
  /\ pc[a] = "claim" => ttl = LeaseTicks
  /\ pc[a] = "running" => ttl + call[a].age >= LeaseTicks
  /\ pc[a] \in Kept => keeper[a].state \in {"asleep", "waiting"}
  /\ keeper[a].state = "asleep" => ttl + keeper[a].age + PostTicks >= LeaseTicks
  /\ keeper[a].state = "waiting" =>
       ttl + keeper[a].age + PostTicks + IntervalTicks >= LeaseTicks
  /\ pc[a] = "join" =>
       /\ keeper[a].state = "waiting" => call[a].age <= keeper[a].age
       /\ keeper[a].state = "asleep" => call[a].age = 0 \/ keeper[a].age = 0
  /\ pc[a] \in {"confirm"} \cup Ending =>
       ttl + call[a].age + PostTicks + IntervalTicks >= LeaseTicks
  /\ pc[a] = "confirm" /\ call[a].state = "ok" => ttl = LeaseTicks

\* What an agent waits for is on its way.
OnItsWay(a) ==
  /\ call[a].state = "waiting" => Msg(a, pc[a], mine[a]) \in wire
  /\ keeper[a].state = "waiting" => Msg(a, "keep", mine[a]) \in wire
  /\ call[a].state # "raised"

\* While no POST has failed, a lease lasts until its next renewal.
KeepInv ==
  faults = 0 => \A a \in Agent :
    OnItsWay(a) /\ (mine[a] # 0 => Alone(a) /\ (status = "leased" => Lasts(a)))
=============================================================================
