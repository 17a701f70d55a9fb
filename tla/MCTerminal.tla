----------------------------- MODULE MCTerminal -----------------------------
(* The terminal's expert for TLC: the bundle it writes (BridgeBundle) and its  *)
(* rotation (ManagedExpert).  The two share no state, so a behaviour is one of *)
(* either: `part' says which, and the other stays in its initial state.        *)
EXTENDS BridgeBundle

CONSTANTS None,
          Releases, MaxJobs, MaxUpgrades, MaxFaults

VARIABLES
  part,
  release, target, upgrade, rollback, pins, loaded, job, good, jobs, upgrades, faults

expertVars == <<release, target, upgrade, rollback, pins, loaded, job, good, jobs,
                upgrades, faults>>

Expert == INSTANCE ManagedExpert WITH worker <- job

ASSUME TerminalAssumption == Expert!ExpertAssumption

InitOne ==
  /\ part \in {"bundle", "expert"}
  /\ Init /\ Expert!Init
  \* of several initial states, only the part that moves has all of them
  /\ part # "expert" => {release, target} = {CHOOSE v \in Releases : TRUE}
                        /\ pins.assets = None /\ loaded = None

BundleMoves == part = "bundle" /\ Next /\ UNCHANGED <<part, expertVars>>
ExpertMoves == part = "expert" /\ Expert!Next /\ UNCHANGED <<part, vars>>

NextOne == BundleMoves \/ ExpertMoves

SpecOne == InitOne /\ [][NextOne]_<<part, vars, expertVars>>

-----------------------------------------------------------------------------
\* A sound expert is in place or kept as the rollback copy, never replaced under
\* a running terminal; success is reported only with the release's expert sealed,
\* and a failed rotation puts expert and pins back (mt5_instance.py
\* rotate_managed_expert).
RotationIsSound ==
  part = "expert" =>
    /\ Expert!TypeOK
    /\ Expert!Recoverable /\ Expert!RunsWhatIsInstalled
    /\ Expert!ReportedIsCurrent /\ Expert!FailureRestores
=============================================================================
