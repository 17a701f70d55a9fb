----------------------------- MODULE MCAccounts -----------------------------
(* An account for TLC: its life under the job handlers of the Windows agent    *)
(* (AccountLifecycle) and, in the laboratory, under its worker host            *)
(* (LabWorker).  The two share no state, so a behaviour is one of either:      *)
(* `part' says which, and the other stays in one initial state.                *)
EXTENDS LabWorker

CONSTANTS Logins, MaxCandidates, Labelled, Supervised, MaxJobs, MaxFailures

VARIABLES part,
          root, status, creds, terminal, profile, sealed, registry, pc, kind, try,
          error, lock, sup, activated, ended, jobs, failures

accountVars == <<root, status, creds, terminal, profile, sealed, registry, pc, kind,
                 try, error, lock, sup, activated, ended, jobs, failures>>
allVars == <<part, vars, accountVars>>

Account == INSTANCE AccountLifecycle

ASSUME AccountsAssumption == Account!LifecycleAssumption

InitOne ==
  /\ part \in {"account", "lab"}
  /\ Init /\ Account!Init
  /\ part # "account" => registry = FALSE

OfAccount(A) == part = "account" /\ A /\ UNCHANGED <<part, vars>>
OfLab(A)     == part = "lab" /\ A /\ UNCHANGED <<part, accountVars>>

NextOne == OfAccount(Account!Next) \/ OfLab(Next)

\* The fairness that the two modules state.
FairOne ==
  /\ WF_allVars(OfAccount(Account!Handler)) /\ WF_allVars(OfAccount(Account!Supervisor))
  /\ SF_allVars(OfAccount(Account!Attempt)) /\ SF_allVars(OfAccount(Account!HistoryLocks))
  /\ SF_allVars(OfAccount(Account!Synced \/ Account!SyncFails))
  /\ \A h \in Hosts : WF_allVars(OfLab(HostStep(h)))
  /\ \A c \in Clis : WF_allVars(OfLab(CommandStep(c)))

SpecOne == InitOne /\ [][NextOne]_allVars /\ FairOne
-----------------------------------------------------------------------------
\* What a reader of the disk - supervisor, next job, restarted agent - may rely on,
\* whatever step the jobs before it stopped at: a connected account is published,
\* with all its secrets under the login of its profile, and no terminal runs
\* without its instance (event_supervisor.py:89, real_handlers.py:1379).
AccountIsWhole == part = "account" => Account!AccountIsWhole

\* A provision that reached `connected' keeps the account although a later step
\* fails (real_handlers.py:1411).
ConnectedIsKept == Account!ConnectedIsKept

\* Every handler ends, with the supervisor taking the same lock.
HandlerEnds == Account!HandlerEnds
=============================================================================
