------------------------------ MODULE MCAgent -------------------------------
(* What the agent does with a job, a terminal, a history and a price, for TLC: *)
(* the lease two agents contend for (JobLease), the calls that start and       *)
(* resume a terminal (NativeRuntime), the handoff from the import to the live  *)
(* stream (HistoryHandoff), the reconstruction of balances and costs           *)
(* (HistoryBalance) and the extrema of an open position (Excursion).  They     *)
(* share no state here: a behaviour is one of any of them, `part' says which,  *)
(* and the others stay in an initial state.                                    *)
EXTENDS HistoryHandoff, TLC

CONSTANTS Position, None, CloseBy, MaxVolume, MaxRows, MaxArchived,
          Distance, MaxMoves, MaxPolls, MaxInterrupts,
          Agent, LeaseTicks, IntervalTicks, PostTicks, MaxPosts, MaxLeases, MaxFaults,
          MaxCrashes,
          Servers, MaxCalls, MaxSessions, MaxHostFaults

VARIABLES
  part,
  ledger, balance, held, before, charged, irregular, cut, archived,
  side, life, path, price, stream, positionsFile, acked, saved, store, closes, step,
  current, records, memory, enriched, sampled, moves, polls, interrupts,
  jobStatus, lease, ttl, endedBy, wire, at, mine, call, keeper, outcome, local, faults,
  crashes,
  rights, worker, passwords, launch, terminal, sessions, kept, log, account, heartbeat,
  discovered, handoff, template, calls, ends, stopFaults, runFaults

balanceVars == <<ledger, balance, held, before, charged, irregular, cut, archived>>
excursionVars == <<side, life, path, price, stream, positionsFile, acked, saved, store,
                   closes, step, current, records, memory, enriched, sampled, moves,
                   polls, interrupts>>

leaseVars == <<jobStatus, lease, ttl, endedBy, wire, at, mine, call, keeper, outcome,
               local, faults, crashes>>
runtimeVars == <<rights, worker, passwords, launch, terminal, sessions, kept, log,
                 account, heartbeat, discovered, handoff, template, calls, ends,
                 stopFaults, runFaults>>

Balance == INSTANCE HistoryBalance WITH MaxDeals <- MaxRows
Tracker == INSTANCE Excursion WITH bundle <- positionsFile, journal <- closes, pc <- step
Lease   == INSTANCE JobLease WITH status <- jobStatus, pc <- at
Runtime == INSTANCE NativeRuntime WITH journal <- log, crashes <- ends

ASSUME AgentAssumption ==
  /\ Balance!BalanceAssumption /\ Tracker!ExcursionAssumption
  /\ Lease!LeaseAssumption /\ Runtime!RuntimeAssumption

InitOne ==
  /\ part \in {"handoff", "balance", "excursion", "lease", "runtime"}
  /\ Init /\ Balance!Init /\ Tracker!Init /\ Lease!Init /\ Runtime!Init
  \* of several initial states, only the part that moves has all of them
  /\ part # "excursion" => side = "buy"
  /\ part # "runtime" => rights = "investor"

HandoffMoves ==
  part = "handoff" /\ Next
    /\ UNCHANGED <<part, balanceVars, excursionVars, leaseVars, runtimeVars>>
BalanceMoves ==
  part = "balance" /\ Balance!Next
    /\ UNCHANGED <<part, vars, excursionVars, leaseVars, runtimeVars>>
TrackerMoves ==
  part = "excursion" /\ Tracker!Next
    /\ UNCHANGED <<part, vars, balanceVars, leaseVars, runtimeVars>>
LeaseMoves ==
  part = "lease" /\ Lease!Next
    /\ UNCHANGED <<part, vars, balanceVars, excursionVars, runtimeVars>>
RuntimeMoves ==
  part = "runtime" /\ Runtime!Next
    /\ UNCHANGED <<part, vars, balanceVars, excursionVars, leaseVars>>

NextOne == HandoffMoves \/ BalanceMoves \/ TrackerMoves \/ LeaseMoves \/ RuntimeMoves

SpecOne ==
  InitOne
    /\ [][NextOne]_<<part, vars, balanceVars, excursionVars, leaseVars, runtimeVars>>

\* No definition tells one position, agent or server from another.
Interchangeable ==
  Permutations(Position) \cup Permutations(Agent) \cup Permutations(Servers)
-----------------------------------------------------------------------------
(* Each of these is everything its module says of its states; it is asked of *)
(* the behaviours in which that module moves, the others stay where it began. *)

\* What the reconstruction publishes - balances, costs, lifecycles - is what the
\* broker's own account knows, and what can be proved is published
\* (history_balance.py).
ReconstructionIsExact ==
  part = "balance" =>
    /\ Balance!TypeOK
    /\ Balance!BalanceIsExact /\ Balance!CostsAreExact
    /\ Balance!LifecycleIsWhole /\ Balance!ProvableIsPublished

\* What a start or a resume concludes is about the terminal it has launched and
\* the account it has proved, the expert waits for that proof, and a call leaves
\* no password behind, nor a terminal or a task when it fails
\* (native_mt5_runtime.py start, resume, stop).
CallsAreSound ==
  part = "runtime" =>
    /\ Runtime!TypeOK
    /\ Runtime!ReadyIsProved /\ Runtime!JournalIsCurrent /\ Runtime!ExpertNeedsProof
    /\ Runtime!PasswordRemoved /\ Runtime!FailureLeavesNothing

\* The first durable close carries the extremes of every sample, and no close
\* tells of a price the position did not live through (excursion_tracker.py).
ExtremaAreKept ==
  part = "excursion" =>
    Tracker!TypeOK /\ Tracker!CloseCarriesExtrema /\ Tracker!ExtremaAreReal

\* A record leaves the file only when a close that carries extrema is durable
\* (live_sync.py poll_once); ExtremaAreKept says which ones it carries.
RemovedOnlyWhenReported == Tracker!RemovedOnlyWhenReported

\* What the state file says of a job's end is what the control plane holds
\* (job_runner.py _transition).
RecordedIsTrue == part = "lease" => Lease!TypeOK /\ Lease!RecordedIsTrue

\* An agent whose requests are answered in time keeps its lease (_LeaseKeeper).
KeepsLease == part = "lease" => Lease!KeepsLease
=============================================================================
