-------------------------- MODULE LabWorkerProofs ---------------------------
(***************************************************************************)
(* Theorems about LabWorker, for every set of hosts and every number of    *)
(* restarts, commands and incidents.                                       *)
(***************************************************************************)
EXTENDS LabWorker, TLAPS

\* A failure trigger and STOP lead to a terminal onboarding state from every
\* state, and from there nowhere.
LEMMA Applied ==
  ASSUME NEW o \in OnboardingStates, NEW trigger \in {"PROCESS_DIED", "STOP"}
  PROVE  Apply(o, trigger) \in OnboardingStates \cap Terminal
<1>1. Terminal \subseteq OnboardingStates
  BY DEF OnboardingStates
<1>2. \A t \in Transitions : t[2] = trigger => t[3] \in Terminal
  BY DEF Transitions, HappyPath, FailureTriggers, Terminal
<1>3. CASE \E t \in Transitions : t[1] = o /\ t[2] = trigger
  BY <1>1, <1>2, <1>3 DEF Apply
<1>4. CASE ~\E t \in Transitions : t[1] = o /\ t[2] = trigger
  <2>1. o \in Terminal
    <3>1. ASSUME o \notin Terminal  PROVE FALSE
      <4>1. <<o, trigger, IF trigger = "STOP" THEN "STOPPED" ELSE "FAILED_CLOSED">>
              \in Transitions
        BY <3>1 DEF Transitions, FailureTriggers
      <4>. QED  BY <1>4, <4>1
    <3>. QED  BY <3>1
  <2>. QED  BY <1>1, <1>4, <2>1 DEF Apply
<1>. QED  BY <1>3, <1>4

\* What a process saves is its own record and the file, and no other's record.
LEMMA Saved ==
  ASSUME RecordType, NEW h \in Hosts, NEW r \in Records, Persist(h, r)
  PROVE  /\ RecordType' /\ file' = r /\ mem'[h] = r
         /\ \A g \in Hosts \ {h} : mem'[g] = mem[g]
BY DEF RecordType, Persist

\* The four things a host saves.
LEMMA StateSet ==
  ASSUME RecordType, NEW h \in Hosts, NEW s \in WorkerStates, SetState(h, s)
  PROVE  /\ RecordType' /\ file' = mem'[h] /\ file'.state = s
         /\ file'.onboarding = mem[h].onboarding /\ file'.restarts = mem[h].restarts
         /\ \A g \in Hosts \ {h} : mem'[g] = mem[g]
<1>. DEFINE r == [mem[h] EXCEPT !.state = s]
<1>1. /\ r \in Records /\ r.state = s
      /\ r.onboarding = mem[h].onboarding /\ r.restarts = mem[h].restarts
  BY DEF RecordType, Records
<1>2. Persist(h, r)
  BY DEF SetState
<1>. HIDE DEF r
<1>. QED  BY <1>1, <1>2, Saved

LEMMA Triggered ==
  ASSUME RecordType, NEW h \in Hosts, NEW trigger \in {"PROCESS_DIED", "STOP"},
         Trigger(h, trigger)
  PROVE  /\ RecordType' /\ file' = mem'[h] /\ file'.onboarding \in Terminal
         /\ file'.state = mem[h].state /\ file'.restarts = mem[h].restarts
         /\ \A g \in Hosts \ {h} : mem'[g] = mem[g]
<1>. DEFINE r == [mem[h] EXCEPT !.onboarding = Apply(mem[h].onboarding, trigger)]
<1>1. Apply(mem[h].onboarding, trigger) \in OnboardingStates \cap Terminal
  BY Applied DEF RecordType, Records
<1>2. /\ r \in Records /\ r.onboarding \in Terminal
      /\ r.state = mem[h].state /\ r.restarts = mem[h].restarts
  BY <1>1 DEF RecordType, Records
<1>3. Persist(h, r)
  BY DEF Trigger
<1>. HIDE DEF r
<1>. QED  BY <1>2, <1>3, Saved

LEMMA Tracked ==
  ASSUME RecordType, NEW h \in Hosts, NEW l \in Launchers \cup {None},
         Persist(h, [mem[h] EXCEPT !.launcher = l])
  PROVE  /\ RecordType' /\ file' = mem'[h]
         /\ file'.state = mem[h].state /\ file'.onboarding = mem[h].onboarding
         /\ file'.restarts = mem[h].restarts
         /\ \A g \in Hosts \ {h} : mem'[g] = mem[g]
<1>. DEFINE r == [mem[h] EXCEPT !.launcher = l]
<1>1. /\ r \in Records /\ r.state = mem[h].state
      /\ r.onboarding = mem[h].onboarding /\ r.restarts = mem[h].restarts
  BY DEF RecordType, Records
<1>2. Persist(h, r)
  OBVIOUS
<1>. HIDE DEF r
<1>. QED  BY <1>1, <1>2, Saved

LEMMA Counted ==
  ASSUME RecordType, NEW h \in Hosts,
         Persist(h, [mem[h] EXCEPT !.restarts = mem[h].restarts + 1,
                                   !.state = "RESTARTING"])
  PROVE  /\ RecordType' /\ file' = mem'[h] /\ file'.state = "RESTARTING"
         /\ file'.onboarding = mem[h].onboarding
         /\ file'.restarts = mem[h].restarts + 1
         /\ \A g \in Hosts \ {h} : mem'[g] = mem[g]
<1>. DEFINE r == [mem[h] EXCEPT !.restarts = mem[h].restarts + 1,
                                !.state = "RESTARTING"]
<1>1. /\ r \in Records /\ r.state = "RESTARTING"
      /\ r.onboarding = mem[h].onboarding /\ r.restarts = mem[h].restarts + 1
  <2>1. mem[h] \in Records
    BY DEF RecordType
  <2>2. mem[h].restarts + 1 \in Nat /\ "RESTARTING" \in WorkerStates
    BY <2>1 DEF Records, WorkerStates
  <2>. QED  BY <2>1, <2>2 DEF Records
<1>2. Persist(h, r)
  OBVIOUS
<1>. HIDE DEF r
<1>. QED  BY <1>1, <1>2, Saved


\* What is not touched keeps its type.
LEMMA TypeFrame ==
  ASSUME TypeOK
  PROVE  /\ UNCHANGED <<file, mem>> => RecordType'
         /\ UNCHANGED <<at, handle, live, foreign>> => ProcessType'
         /\ UNCHANGED cli => CommandType'
         /\ UNCHANGED <<pidFile, control, restarted, world>> => SharedType'
<1>1. UNCHANGED <<file, mem>> => RecordType'
  BY DEF TypeOK, RecordType
<1>2. UNCHANGED <<at, handle, live, foreign>> => ProcessType'
  BY DEF TypeOK, ProcessType
<1>3. UNCHANGED cli => CommandType'
  BY DEF TypeOK, CommandType
<1>4. UNCHANGED <<pidFile, control, restarted, world>> => SharedType'
  BY DEF TypeOK, SharedType
<1>. QED  BY <1>1, <1>2, <1>3, <1>4

\* A budget that is spent keeps its type.
LEMMA Spent ==
  ASSUME SharedType
  PROVE  /\ Command => world' \in [commands : Nat, incidents : Nat, disturbed : BOOLEAN]
         /\ Incident => world' \in [commands : Nat, incidents : Nat, disturbed : BOOLEAN]
         /\ Disturbance => world' \in [commands : Nat, incidents : Nat, disturbed : BOOLEAN]
         /\ Command \/ Incident => world'.disturbed = world.disturbed
         /\ Disturbance => world'.disturbed = TRUE
<1>. USE DEF SharedType
<1>1. ASSUME Command
      PROVE  /\ world' \in [commands : Nat, incidents : Nat, disturbed : BOOLEAN]
             /\ world'.disturbed = world.disturbed
  BY <1>1 DEF Command
<1>2. ASSUME Incident
      PROVE  /\ world' \in [commands : Nat, incidents : Nat, disturbed : BOOLEAN]
             /\ world'.disturbed = world.disturbed
  BY <1>2 DEF Incident
<1>3. ASSUME Disturbance
      PROVE  /\ world' \in [commands : Nat, incidents : Nat, disturbed : BOOLEAN]
             /\ world'.disturbed = TRUE
  <2>1. world.incidents - 1 \in Nat
    BY <1>3 DEF Disturbance
  <2>2. world' = [world EXCEPT !.incidents = world.incidents - 1, !.disturbed = TRUE]
    BY <1>3 DEF Disturbance
  <2>. QED  BY <2>1, <2>2
<1>. QED  BY <1>1, <1>2, <1>3

\* The records the accounts and the commands begin with.
LEMMA Beginnings ==
  /\ Fresh \in Records /\ Fresh.restarts = 0
  /\ Idle.at = "idle" /\ Idle.seen = Fresh
  /\ Idle \in [at : {"idle", "loaded", "started", "ask", "wait", "kill", "finish"},
               host : Hosts \cup {None}, seen : Records]
  /\ LET r == [Idle EXCEPT !.at = "loaded"]
     IN  /\ r \in [at : {"idle", "loaded", "started", "ask", "wait", "kill", "finish"},
                   host : Hosts \cup {None}, seen : Records]
         /\ r.at = "loaded" /\ r.seen = Fresh
  /\ \A k \in {"started", "ask"}, g \in Hosts \cup {None} :
       LET r == [Idle EXCEPT !.at = k, !.host = g]
       IN  /\ r \in [at : {"idle", "loaded", "started", "ask", "wait", "kill", "finish"},
                     host : Hosts \cup {None}, seen : Records]
           /\ r.at = k /\ r.host = g /\ r.seen = Fresh
<1>1. "NEW" \in OnboardingStates
  <2>1. <<"NEW", "CREATE_PORTABLE_DIRECTORY", "PORTABLE_DIRECTORY_CREATED">> \in HappyPath
    BY DEF HappyPath
  <2>. QED  BY <2>1 DEF OnboardingStates
<1>2. Fresh \in Records /\ Fresh.restarts = 0
  BY <1>1 DEF Fresh, Records, WorkerStates
<1>3. /\ Idle \in [at : {"idle", "loaded", "started", "ask", "wait", "kill", "finish"},
                   host : Hosts \cup {None}, seen : Records]
      /\ Idle.at = "idle" /\ Idle.seen = Fresh
  BY <1>2 DEF Idle
<1>. QED  BY <1>2, <1>3

LEMMA AtRest == Idle.at = "idle" /\ Idle.seen.restarts = 0
BY Beginnings

\* The variables keep their types: the number of a launcher within its bound
\* because each one after the first is paid for with a restart.
LEMMA TypeStep ==
  ASSUME WorkerAssumption, TypeOK, RestInv, [Next]_vars
  PROVE  TypeOK'
<1>1. ASSUME NEW h \in Hosts, HostResume(h)  PROVE TypeOK'
  <2>1. RecordType'
    BY <1>1 DEF HostResume, TypeOK, RecordType
  <2>2. ProcessType'
    BY <1>1 DEF HostResume, TypeOK, ProcessType, Places, Goto
  <2>. QED  BY <1>1, <2>1, <2>2, TypeFrame DEF HostResume, TypeOK, Goto
<1>2. ASSUME NEW h \in Hosts, HostLook(h)  PROVE TypeOK'
  <2>1. ProcessType'
    BY <1>2 DEF HostLook, TypeOK, ProcessType, Places, Goto
  <2>. QED  BY <1>2, <2>1, TypeFrame DEF HostLook, TypeOK, Goto
<1>3. ASSUME NEW h \in Hosts, HostClaim(h)  PROVE TypeOK'
  <2>1. ProcessType'
    BY <1>3 DEF HostClaim, TypeOK, ProcessType, Places, Goto
  <2>2. SharedType'
    BY <1>3, Spent DEF HostClaim, TypeOK, SharedType, Goto
  <2>. QED  BY <1>3, <2>1, <2>2, TypeFrame DEF HostClaim, TypeOK, Goto
<1>4. ASSUME NEW h \in Hosts, HostStart(h)  PROVE TypeOK'
  <2>1. RecordType'
    BY <1>4, TypeFrame, StateSet DEF HostStart, TypeOK, WorkerStates
  <2>2. ProcessType'
    BY <1>4 DEF HostStart, TypeOK, ProcessType, Places, Goto
  <2>. QED  BY <1>4, <2>1, <2>2, TypeFrame DEF HostStart, TypeOK, Goto
<1>5. ASSUME NEW h \in Hosts, HostLaunch(h)  PROVE TypeOK'
  <2>1. ProcessType'
    BY <1>5, WorkerAssumption DEF HostLaunch, TypeOK, ProcessType, Places,
       Goto, Launch, StartFails, RestInv, RecordType, Records, Launchers,
       Launching, WorkerAssumption
  <2>2. SharedType'
    BY <1>5, Spent DEF HostLaunch, TypeOK, SharedType, Goto, Launch, StartFails
  <2>. QED  BY <1>5, <2>1, <2>2, TypeFrame DEF HostLaunch, TypeOK, Goto,
          Launch, StartFails
<1>6. ASSUME NEW h \in Hosts, HostFail(h)  PROVE TypeOK'
  <2>1. RecordType'
    BY <1>6, TypeFrame, Triggered DEF HostFail, TypeOK, WorkerStates
  <2>2. ProcessType'
    BY <1>6 DEF HostFail, TypeOK, ProcessType, Places, Goto
  <2>. QED  BY <1>6, <2>1, <2>2, TypeFrame DEF HostFail, TypeOK, Goto
<1>7. ASSUME NEW h \in Hosts, HostFailed(h)  PROVE TypeOK'
  <2>1. RecordType'
    BY <1>7, TypeFrame, StateSet DEF HostFailed, TypeOK, WorkerStates
  <2>2. ProcessType'
    BY <1>7 DEF HostFailed, TypeOK, ProcessType, Places, Goto
  <2>. QED  BY <1>7, <2>1, <2>2, TypeFrame DEF HostFailed, TypeOK, Goto
<1>8. ASSUME NEW h \in Hosts, HostHealthy(h)  PROVE TypeOK'
  <2>1. RecordType'
    BY <1>8, TypeFrame, StateSet DEF HostHealthy, TypeOK, WorkerStates
  <2>2. ProcessType'
    BY <1>8 DEF HostHealthy, TypeOK, ProcessType, Places, Goto
  <2>. QED  BY <1>8, <2>1, <2>2, TypeFrame DEF HostHealthy, TypeOK, Goto
<1>9. ASSUME NEW h \in Hosts, HostRunning(h)  PROVE TypeOK'
  <2>1. RecordType'
    BY <1>9, TypeFrame, StateSet DEF HostRunning, TypeOK, WorkerStates
  <2>2. ProcessType'
    BY <1>9 DEF HostRunning, TypeOK, ProcessType, Places, Goto
  <2>. QED  BY <1>9, <2>1, <2>2, TypeFrame DEF HostRunning, TypeOK, Goto
<1>10. ASSUME NEW h \in Hosts, HostTrack(h)  PROVE TypeOK'
  <2>1. RecordType'
    BY <1>10, TypeFrame, Tracked DEF HostTrack, TypeOK, WorkerStates,
       ProcessType, RestInv, Watching, Held, Launchers
  <2>2. ProcessType'
    BY <1>10 DEF HostTrack, TypeOK, ProcessType, Places, Goto
  <2>. QED  BY <1>10, <2>1, <2>2, TypeFrame DEF HostTrack, TypeOK, Goto
<1>11. ASSUME NEW h \in Hosts, HostLoop(h)  PROVE TypeOK'
  <2>1. ProcessType'
    BY <1>11 DEF HostLoop, TypeOK, ProcessType, Places, Goto
  <2>. QED  BY <1>11, <2>1, TypeFrame DEF HostLoop, TypeOK, Goto
<1>12. ASSUME NEW h \in Hosts, HostCheck(h)  PROVE TypeOK'
  <2>1. RecordType'
    BY <1>12, TypeFrame, Counted DEF HostCheck, TypeOK, WorkerStates
  <2>2. ProcessType'
    BY <1>12 DEF HostCheck, TypeOK, ProcessType, Places, Goto
  <2>. QED  BY <1>12, <2>1, <2>2, TypeFrame DEF HostCheck, TypeOK, Goto
<1>13. ASSUME NEW h \in Hosts, HostRelaunch(h)  PROVE TypeOK'
  <2>1. ProcessType'
    BY <1>13, WorkerAssumption DEF HostRelaunch, TypeOK, ProcessType, Places,
       Goto, Launch, StartFails, RestInv, RecordType, Records, Launchers,
       Launching, WorkerAssumption
  <2>3. SharedType'
    <3>1. world' \in [commands : Nat, incidents : Nat, disturbed : BOOLEAN]
      BY <1>13, Spent DEF HostRelaunch, Launch, StartFails, TypeOK, SharedType
    <3>. QED  BY <1>13, <3>1 DEF HostRelaunch, TypeOK, SharedType
  <2>. QED  BY <1>13, <2>1, <2>3, TypeFrame DEF HostRelaunch, TypeOK, Goto,
          Launch, StartFails
<1>14. ASSUME NEW h \in Hosts, HostTerminate(h)  PROVE TypeOK'
  <2>1. ProcessType'
    BY <1>14 DEF HostTerminate, TypeOK, ProcessType, Places, Goto
  <2>2. SharedType'
    BY <1>14, Spent DEF HostTerminate, TypeOK, SharedType, Goto
  <2>. QED  BY <1>14, <2>1, <2>2, TypeFrame DEF HostTerminate, TypeOK, Goto
<1>15. ASSUME NEW h \in Hosts, HostStopped(h)  PROVE TypeOK'
  <2>1. RecordType'
    BY <1>15, TypeFrame, Triggered DEF HostStopped, TypeOK, WorkerStates
  <2>2. ProcessType'
    BY <1>15 DEF HostStopped, TypeOK, ProcessType, Places, Goto
  <2>. QED  BY <1>15, <2>1, <2>2, TypeFrame DEF HostStopped, TypeOK, Goto
<1>16. ASSUME NEW h \in Hosts, HostDeclare(h)  PROVE TypeOK'
  <2>1. RecordType'
    BY <1>16, TypeFrame, StateSet DEF HostDeclare, TypeOK, WorkerStates
  <2>2. ProcessType'
    BY <1>16 DEF HostDeclare, TypeOK, ProcessType, Places, Goto
  <2>. QED  BY <1>16, <2>1, <2>2, TypeFrame DEF HostDeclare, TypeOK, Goto
<1>17. ASSUME NEW h \in Hosts, HostCleanup(h)  PROVE TypeOK'
  <2>1. ProcessType'
    BY <1>17 DEF HostCleanup, TypeOK, ProcessType, Places, Goto
  <2>2. SharedType'
    BY <1>17, Spent DEF HostCleanup, TypeOK, SharedType, Goto
  <2>. QED  BY <1>17, <2>1, <2>2, TypeFrame DEF HostCleanup, TypeOK, Goto
<1>18. ASSUME NEW h \in Hosts, HostUntrack(h)  PROVE TypeOK'
  <2>1. RecordType'
    BY <1>18, TypeFrame, Tracked DEF HostUntrack, TypeOK, WorkerStates
  <2>2. ProcessType'
    BY <1>18 DEF HostUntrack, TypeOK, ProcessType, Places, Goto
  <2>. QED  BY <1>18, <2>1, <2>2, TypeFrame DEF HostUntrack, TypeOK, Goto
<1>19. ASSUME NEW h \in Hosts, HostUnlink(h)  PROVE TypeOK'
  <2>1. ProcessType'
    BY <1>19 DEF HostUnlink, TypeOK, ProcessType, Places, Goto
  <2>2. SharedType'
    BY <1>19, Spent DEF HostUnlink, TypeOK, SharedType, Goto
  <2>. QED  BY <1>19, <2>1, <2>2, TypeFrame DEF HostUnlink, TypeOK, Goto
<1>20. ASSUME NEW h \in Hosts, HostSignalled(h)  PROVE TypeOK'
  <2>1. ProcessType'
    BY <1>20 DEF HostSignalled, TypeOK, ProcessType, Places, Goto
  <2>2. SharedType'
    BY <1>20, Spent DEF HostSignalled, TypeOK, SharedType, Goto
  <2>. QED  BY <1>20, <2>1, <2>2, TypeFrame DEF HostSignalled, TypeOK, Goto
<1>21. ASSUME NEW h \in Hosts, HostKilled(h)  PROVE TypeOK'
  <2>1. ProcessType'
    BY <1>21 DEF HostKilled, TypeOK, ProcessType, Places, Goto
  <2>2. SharedType'
    BY <1>21, Spent DEF HostKilled, TypeOK, SharedType, Goto
  <2>. QED  BY <1>21, <2>1, <2>2, TypeFrame DEF HostKilled, TypeOK, Goto
<1>22. ASSUME NEW h \in Hosts, Reuse(h)  PROVE TypeOK'
  <2>1. ProcessType'
    BY <1>22 DEF Reuse, TypeOK, ProcessType, Places
  <2>2. SharedType'
    BY <1>22, Spent DEF Reuse, TypeOK, SharedType
  <2>. QED  BY <1>22, <2>1, <2>2, TypeFrame DEF Reuse, TypeOK
<1>23. ASSUME NEW c \in Clis, StartWorker(c)  PROVE TypeOK'
  <2>1. CommandType'
    <3>1. PICK r \in [at : {"idle", "loaded", "started", "ask", "wait", "kill", "finish"},
                      host : Hosts \cup {None}, seen : Records] :
            cli' \in {cli, [cli EXCEPT ![c] = r]}
      BY <1>23, Beginnings DEF StartWorker
    <3>. QED  BY <3>1 DEF TypeOK, CommandType
  <2>2. SharedType'
    BY <1>23, Spent DEF StartWorker, TypeOK, SharedType
  <2>. QED  BY <1>23, <2>1, <2>2, TypeFrame DEF StartWorker, TypeOK
<1>33. ASSUME NEW c \in Clis, StartSpawn(c)  PROVE TypeOK'
  <2>1. ProcessType'
    BY <1>33 DEF StartSpawn, TypeOK, ProcessType, Places, Goto
  <2>2. CommandType'
    <3>1. PICK r \in [at : {"idle", "loaded", "started", "ask", "wait", "kill", "finish"},
                      host : Hosts \cup {None}, seen : Records] :
            cli' = [cli EXCEPT ![c] = r]
      BY <1>33, Beginnings DEF StartSpawn
    <3>. QED  BY <3>1 DEF TypeOK, CommandType
  <2>. QED  BY <1>33, <2>1, <2>2, TypeFrame DEF StartSpawn, TypeOK, Goto
<1>24. ASSUME NEW c \in Clis, StopWorker(c)  PROVE TypeOK'
  <2>1. CommandType'
    BY <1>24, Beginnings DEF StopWorker, TypeOK, CommandType, SharedType,
       PidAlive, RecordType, Records
  <2>2. SharedType'
    BY <1>24, Spent DEF StopWorker, TypeOK, SharedType
  <2>. QED  BY <1>24, <2>1, <2>2, TypeFrame DEF StopWorker, TypeOK
<1>25. ASSUME NEW c \in Clis, StartReturns(c)  PROVE TypeOK'
  <2>1. CommandType'
    BY <1>25, Beginnings DEF StartReturns, TypeOK, CommandType, RecordType,
       Records
  <2>2. SharedType'
    BY <1>25, Spent DEF StartReturns, TypeOK, SharedType
  <2>. QED  BY <1>25, <2>1, <2>2, TypeFrame DEF StartReturns, TypeOK
<1>26. ASSUME NEW c \in Clis, StopAsk(c)  PROVE TypeOK'
  <2>1. CommandType'
    BY <1>26 DEF StopAsk, TypeOK, CommandType, RecordType, Records
  <2>2. SharedType'
    BY <1>26, Spent DEF StopAsk, TypeOK, SharedType
  <2>. QED  BY <1>26, <2>1, <2>2, TypeFrame DEF StopAsk, TypeOK
<1>27. ASSUME NEW c \in Clis, StopReturns(c)  PROVE TypeOK'
  <2>1. CommandType'
    BY <1>27, Beginnings DEF StopReturns, TypeOK, CommandType, RecordType,
       Records
  <2>. QED  BY <1>27, <2>1, TypeFrame DEF StopReturns, TypeOK
<1>28. ASSUME NEW c \in Clis, StopEscalate(c)  PROVE TypeOK'
  <2>1. CommandType'
    BY <1>28 DEF StopEscalate, TypeOK, CommandType, RecordType, Records
  <2>2. SharedType'
    BY <1>28, Spent DEF StopEscalate, TypeOK, SharedType
  <2>. QED  BY <1>28, <2>1, <2>2, TypeFrame DEF StopEscalate, TypeOK
<1>29. ASSUME NEW c \in Clis, StopKill(c)  PROVE TypeOK'
  <2>1. ProcessType'
    BY <1>29 DEF StopKill, TypeOK, ProcessType, Places, Goto
  <2>2. CommandType'
    BY <1>29 DEF StopKill, TypeOK, CommandType, RecordType, Records
  <2>. QED  BY <1>29, <2>1, <2>2, TypeFrame DEF StopKill, TypeOK, Goto
<1>30. ASSUME NEW c \in Clis, StopFinish(c)  PROVE TypeOK'
  <2>1. RecordType'
    <3>1. cli[c].seen \in Records
      BY DEF TypeOK, CommandType
    <3>2. file' \in Records
      BY <1>30, <3>1 DEF StopFinish, Records, WorkerStates
    <3>. QED  BY <1>30, <3>2 DEF StopFinish, TypeOK, RecordType
  <2>2. CommandType'
    BY <1>30, Beginnings DEF StopFinish, TypeOK, CommandType, RecordType,
       Records
  <2>3. SharedType'
    BY <1>30, Spent DEF StopFinish, TypeOK, SharedType
  <2>. QED  BY <1>30, <2>1, <2>2, <2>3, TypeFrame DEF StopFinish, TypeOK
<1>31. CASE LauncherDies
  <2>1. ProcessType'
    BY <1>31 DEF LauncherDies, TypeOK, ProcessType, Places
  <2>2. SharedType'
    BY <1>31, Spent DEF LauncherDies, TypeOK, SharedType
  <2>. QED  BY <1>31, <2>1, <2>2, TypeFrame DEF LauncherDies, TypeOK
<1>32. CASE UNCHANGED vars
  BY <1>32, TypeFrame DEF vars, TypeOK
<1>. QED
  BY <1>1, <1>2, <1>3, <1>4, <1>5, <1>6, <1>7, <1>8, <1>9, <1>10, <1>11, <1>12,
     <1>13, <1>14, <1>15, <1>16, <1>17, <1>18, <1>19, <1>20, <1>21, <1>22,
     <1>23, <1>24, <1>25, <1>26, <1>27, <1>28, <1>29, <1>30, <1>31, <1>32, <1>33 DEF
     Next, HostStep, CommandStep

\* A host whose launcher is gone counts a restart, if one is left, and saves it.
LEMMA Restarted ==
  ASSUME WorkerAssumption, TypeOK, NEW h \in Hosts, HostCheck(h), Held(h) \notin live,
         mem[h].restarts < MaxRestarts
  PROVE  /\ mem'[h].restarts = mem[h].restarts + 1 /\ mem'[h].state = "RESTARTING"
         /\ mem'[h].onboarding = mem[h].onboarding /\ file' = mem'[h]
         /\ \A g \in Hosts \ {h} : mem'[g] = mem[g]
         /\ at' = [at EXCEPT ![h] = "relaunch"]
<1>1. /\ Persist(h, [mem[h] EXCEPT !.restarts = mem[h].restarts + 1,
                                   !.state = "RESTARTING"])
      /\ Goto(h, "relaunch")
  BY WorkerAssumption DEF HostCheck, WorkerAssumption, TypeOK, RecordType, Records
<1>. QED  BY <1>1, Counted DEF TypeOK, Goto

\* Restarts are counted before they are spent, a host holds every launcher of
\* its own that may run, and declares STOPPED when none is left.
LEMMA RestStep ==
  ASSUME WorkerAssumption, TypeOK, RestInv, StoppedIsQuiet, [Next]_vars
  PROVE  RestInv' /\ StoppedIsQuiet'
<1>1. ASSUME NEW h \in Hosts, HostResume(h)  PROVE RestInv' /\ StoppedIsQuiet'
  BY <1>1, WorkerAssumption DEF HostResume, Goto, RestInv, StoppedIsQuiet,
     Entering, Launching, Watching, LaunchersBounded, Quiet, Held, TypeOK, RecordType,
     ProcessType, Records, WorkerAssumption
<1>2. ASSUME NEW h \in Hosts, HostLook(h)  PROVE RestInv' /\ StoppedIsQuiet'
  BY <1>2, WorkerAssumption DEF HostLook, Goto, RestInv, StoppedIsQuiet,
     Entering, Launching, Watching, LaunchersBounded, Quiet, Held, TypeOK, RecordType,
     ProcessType, Records, WorkerAssumption
<1>3. ASSUME NEW h \in Hosts, HostClaim(h)  PROVE RestInv' /\ StoppedIsQuiet'
  BY <1>3, WorkerAssumption DEF HostClaim, Goto, RestInv, StoppedIsQuiet,
     Entering, Launching, Watching, LaunchersBounded, Quiet, Held, TypeOK, RecordType,
     ProcessType, Records, WorkerAssumption
<1>4. ASSUME NEW h \in Hosts, HostStart(h)  PROVE RestInv' /\ StoppedIsQuiet'
  BY <1>4, StateSet, WorkerAssumption DEF HostStart, Goto, RestInv,
     StoppedIsQuiet, Entering, Launching, Watching, LaunchersBounded, Quiet, Held, TypeOK,
     RecordType, ProcessType, WorkerStates, Records, WorkerAssumption
<1>5. ASSUME NEW h \in Hosts, HostLaunch(h)  PROVE RestInv' /\ StoppedIsQuiet'
  BY <1>5, WorkerAssumption DEF HostLaunch, Launch, StartFails, Goto, RestInv,
     StoppedIsQuiet, Entering, Launching, Watching, LaunchersBounded, Quiet, Held, TypeOK,
     RecordType, ProcessType, Records, WorkerAssumption
<1>6. ASSUME NEW h \in Hosts, HostFail(h)  PROVE RestInv' /\ StoppedIsQuiet'
  BY <1>6, Triggered, WorkerAssumption DEF HostFail, Goto, RestInv,
     StoppedIsQuiet, Entering, Launching, Watching, LaunchersBounded, Quiet, Held, TypeOK,
     RecordType, ProcessType, WorkerStates, Records, WorkerAssumption
<1>7. ASSUME NEW h \in Hosts, HostFailed(h)  PROVE RestInv' /\ StoppedIsQuiet'
  BY <1>7, StateSet, WorkerAssumption DEF HostFailed, Goto, RestInv,
     StoppedIsQuiet, Entering, Launching, Watching, LaunchersBounded, Quiet, Held, TypeOK,
     RecordType, ProcessType, WorkerStates, Records, WorkerAssumption
<1>8. ASSUME NEW h \in Hosts, HostHealthy(h)  PROVE RestInv' /\ StoppedIsQuiet'
  BY <1>8, StateSet, WorkerAssumption DEF HostHealthy, Goto, RestInv,
     StoppedIsQuiet, Entering, Launching, Watching, LaunchersBounded, Quiet, Held, TypeOK,
     RecordType, ProcessType, WorkerStates, Records, WorkerAssumption
<1>9. ASSUME NEW h \in Hosts, HostRunning(h)  PROVE RestInv' /\ StoppedIsQuiet'
  BY <1>9, StateSet, WorkerAssumption DEF HostRunning, Goto, RestInv,
     StoppedIsQuiet, Entering, Launching, Watching, LaunchersBounded, Quiet, Held, TypeOK,
     RecordType, ProcessType, WorkerStates, Records, WorkerAssumption
<1>10. ASSUME NEW h \in Hosts, HostTrack(h)  PROVE RestInv' /\ StoppedIsQuiet'
  <2>1. Held(h) \in Launchers
    BY <1>10 DEF HostTrack, RestInv, Watching, LaunchersBounded, Held, Launchers, TypeOK, ProcessType
  <2>2. /\ mem'[h].state = mem[h].state /\ mem'[h].restarts = mem[h].restarts
        /\ file' = mem'[h] /\ \A g \in Hosts \ {h} : mem'[g] = mem[g]
    BY <1>10, <2>1, Tracked DEF HostTrack, TypeOK
  <2>. QED
    BY <1>10, <2>2 DEF HostTrack, Goto, RestInv, StoppedIsQuiet, Entering, Launching,
       Watching, LaunchersBounded, Quiet, Held, TypeOK, RecordType, ProcessType, Records
<1>11. ASSUME NEW h \in Hosts, HostLoop(h)  PROVE RestInv' /\ StoppedIsQuiet'
  BY <1>11, WorkerAssumption DEF HostLoop, Goto, RestInv, StoppedIsQuiet,
     Entering, Launching, Watching, LaunchersBounded, Quiet, Held, TypeOK, RecordType,
     ProcessType, Records, WorkerAssumption
<1>12. ASSUME NEW h \in Hosts, HostCheck(h)  PROVE RestInv' /\ StoppedIsQuiet'
  <2>1. CASE Held(h) \notin live /\ mem[h].restarts < MaxRestarts
    <3>1. Quiet(h) /\ UNCHANGED <<pidFile, handle, live, cli>>
      BY <1>12, <2>1 DEF HostCheck, RestInv, Watching, LaunchersBounded, Held, Quiet
    <3>. QED
      BY <1>12, <2>1, <3>1, Restarted, WorkerAssumption DEF WorkerAssumption,
         RestInv, StoppedIsQuiet, Entering, Launching,
         Watching, LaunchersBounded, Quiet, Held, TypeOK, RecordType, ProcessType, Records
  <2>2. CASE Held(h) \in live
    BY <1>12, <2>2 DEF HostCheck, Goto, RestInv, StoppedIsQuiet, Entering, Launching,
       Watching, LaunchersBounded, Quiet, Held, TypeOK, RecordType, ProcessType, Records
  <2>3. CASE Held(h) \notin live /\ mem[h].restarts >= MaxRestarts
    BY <1>12, <2>3 DEF HostCheck, Goto, RestInv, StoppedIsQuiet, Entering, Launching,
       Watching, LaunchersBounded, Quiet, Held, TypeOK, RecordType, ProcessType, Records
  <2>. QED
    BY <1>12, <2>1, <2>2, <2>3, WorkerAssumption DEF HostCheck, WorkerAssumption,
       TypeOK, RecordType, Records
<1>13. ASSUME NEW h \in Hosts, HostRelaunch(h)
       PROVE  RestInv' /\ StoppedIsQuiet'
  BY <1>13, WorkerAssumption DEF HostRelaunch, Launch, StartFails, Goto,
     RestInv, StoppedIsQuiet, Entering, Launching, Watching, LaunchersBounded, Quiet, Held,
     TypeOK, RecordType, ProcessType, Records, WorkerAssumption
<1>14. ASSUME NEW h \in Hosts, HostTerminate(h)
       PROVE  RestInv' /\ StoppedIsQuiet'
  BY <1>14, WorkerAssumption DEF HostTerminate, Goto, RestInv, StoppedIsQuiet,
     Entering, Launching, Watching, LaunchersBounded, Quiet, Held, TypeOK, RecordType,
     ProcessType, Records, WorkerAssumption
<1>15. ASSUME NEW h \in Hosts, HostStopped(h)
       PROVE  RestInv' /\ StoppedIsQuiet'
  BY <1>15, Triggered, WorkerAssumption DEF HostStopped, Goto, RestInv,
     StoppedIsQuiet, Entering, Launching, Watching, LaunchersBounded, Quiet, Held, TypeOK,
     RecordType, ProcessType, WorkerStates, Records, WorkerAssumption
<1>16. ASSUME NEW h \in Hosts, HostDeclare(h)
       PROVE  RestInv' /\ StoppedIsQuiet'
  BY <1>16, StateSet, WorkerAssumption DEF HostDeclare, Goto, RestInv,
     StoppedIsQuiet, Entering, Launching, Watching, LaunchersBounded, Quiet, Held, TypeOK,
     RecordType, ProcessType, WorkerStates, Records, WorkerAssumption
<1>17. ASSUME NEW h \in Hosts, HostCleanup(h)
       PROVE  RestInv' /\ StoppedIsQuiet'
  BY <1>17, WorkerAssumption DEF HostCleanup, Goto, RestInv, StoppedIsQuiet,
     Entering, Launching, Watching, LaunchersBounded, Quiet, Held, TypeOK, RecordType,
     ProcessType, Records, WorkerAssumption
<1>18. ASSUME NEW h \in Hosts, HostUntrack(h)
       PROVE  RestInv' /\ StoppedIsQuiet'
  <2>1. /\ mem'[h].state = mem[h].state /\ mem'[h].restarts = mem[h].restarts
        /\ file' = mem'[h] /\ \A g \in Hosts \ {h} : mem'[g] = mem[g]
    BY <1>18, Tracked DEF HostUntrack, TypeOK
  <2>. QED
    BY <1>18, <2>1 DEF HostUntrack, Goto, RestInv, StoppedIsQuiet, Entering, Launching,
       Watching, LaunchersBounded, Quiet, Held, TypeOK, RecordType, ProcessType, Records
<1>19. ASSUME NEW h \in Hosts, HostUnlink(h)  PROVE RestInv' /\ StoppedIsQuiet'
  BY <1>19, WorkerAssumption DEF HostUnlink, Goto, RestInv, StoppedIsQuiet,
     Entering, Launching, Watching, LaunchersBounded, Quiet, Held, TypeOK, RecordType,
     ProcessType, Records, WorkerAssumption
<1>20. ASSUME NEW h \in Hosts, HostSignalled(h)
       PROVE  RestInv' /\ StoppedIsQuiet'
  BY <1>20, WorkerAssumption DEF HostSignalled, Goto, RestInv, StoppedIsQuiet,
     Entering, Launching, Watching, LaunchersBounded, Quiet, Held, TypeOK, RecordType,
     ProcessType, Records, WorkerAssumption
<1>21. ASSUME NEW h \in Hosts, HostKilled(h)  PROVE RestInv' /\ StoppedIsQuiet'
  BY <1>21, WorkerAssumption DEF HostKilled, Goto, RestInv, StoppedIsQuiet,
     Entering, Launching, Watching, LaunchersBounded, Quiet, Held, TypeOK, RecordType,
     ProcessType, Running, Records, WorkerAssumption
<1>22. ASSUME NEW h \in Hosts, Reuse(h)  PROVE RestInv' /\ StoppedIsQuiet'
  BY <1>22, WorkerAssumption DEF Reuse, RestInv, StoppedIsQuiet, Entering,
     Launching, Watching, LaunchersBounded, Quiet, Held, TypeOK, RecordType, ProcessType,
     Records, WorkerAssumption
<1>23. ASSUME NEW c \in Clis, StartWorker(c)  PROVE RestInv' /\ StoppedIsQuiet'
  <2>1. \A d \in Clis : cli'[d].seen.restarts \in {0, cli[d].seen.restarts}
    <3>1. [Idle EXCEPT !.at = "loaded"].seen.restarts = 0
      BY Beginnings
    <3>. QED  BY <1>23, <3>1 DEF StartWorker, TypeOK, CommandType
  <2>. QED
    BY <1>23, <2>1, WorkerAssumption DEF StartWorker, WorkerAssumption,
       RestInv, StoppedIsQuiet, Entering, Launching,
       Watching, LaunchersBounded, Quiet, Held, TypeOK, RecordType, ProcessType, Records
<1>33. ASSUME NEW c \in Clis, StartSpawn(c)  PROVE RestInv' /\ StoppedIsQuiet'
  <2>1. UNCHANGED <<file, pidFile, mem, handle, live>>
    BY <1>33 DEF StartSpawn
  <2>2. CASE PidAlive(pidFile)
    <3>1. cli' = [cli EXCEPT ![c] = Idle] /\ UNCHANGED at
      BY <1>33, <2>2 DEF StartSpawn
    <3>2. \A d \in Clis : cli'[d].seen.restarts \in {0, cli[d].seen.restarts}
      BY <3>1, AtRest DEF TypeOK, CommandType
    <3>. QED
      BY <2>1, <3>1, <3>2, WorkerAssumption DEF WorkerAssumption,
         RestInv, StoppedIsQuiet, Entering, Launching,
         Watching, LaunchersBounded, Quiet, Held, TypeOK, RecordType, ProcessType, Records
  <2>3. CASE ~PidAlive(pidFile)
    <3>1. PICK h \in Hosts :
            /\ at[h] = "unborn" /\ Goto(h, "resume")
            /\ cli' = [cli EXCEPT ![c] = [Idle EXCEPT !.at = "started", !.host = h]]
      BY <1>33, <2>3 DEF StartSpawn
    <3>2. [Idle EXCEPT !.at = "started", !.host = h].seen.restarts = 0
      BY Beginnings
    <3>3. \A d \in Clis : cli'[d].seen.restarts \in {0, cli[d].seen.restarts}
      BY <3>1, <3>2 DEF TypeOK, CommandType
    <3>4. at' = [at EXCEPT ![h] = "resume"]
      BY <3>1 DEF Goto
    <3>. QED
      BY <2>1, <3>1, <3>3, <3>4, WorkerAssumption DEF WorkerAssumption,
         RestInv, StoppedIsQuiet, Entering, Launching,
         Watching, LaunchersBounded, Quiet, Held, TypeOK, RecordType, ProcessType, Records
  <2>. QED  BY <2>2, <2>3
<1>24. ASSUME NEW c \in Clis, StopWorker(c)  PROVE RestInv' /\ StoppedIsQuiet'
  <2>1. \A d \in Clis : cli'[d].seen.restarts \in {0, cli[d].seen.restarts}
    <3>1. PICK r \in {Idle, [Idle EXCEPT !.at = "ask", !.host = pidFile]} :
            cli' = [cli EXCEPT ![c] = r]
      BY <1>24 DEF StopWorker
    <3>2. r.seen.restarts = 0
      <4>1. pidFile \in Hosts \cup {None}
        BY DEF TypeOK, SharedType
      <4>2. [Idle EXCEPT !.at = "ask", !.host = pidFile].seen = Fresh
        BY <4>1, Beginnings
      <4>3. Fresh.restarts = 0
        BY Beginnings
      <4>. QED  BY <4>2, <4>3, AtRest
    <3>. QED  BY <3>1, <3>2 DEF TypeOK, CommandType
  <2>. QED
    BY <1>24, <2>1, WorkerAssumption DEF StopWorker, WorkerAssumption,
       RestInv, StoppedIsQuiet, Entering, Launching,
       Watching, LaunchersBounded, Quiet, Held, TypeOK, RecordType, ProcessType, Records
<1>25. ASSUME NEW c \in Clis, StartReturns(c)
       PROVE  RestInv' /\ StoppedIsQuiet'
  <2>1. \A d \in Clis : cli'[d].seen.restarts \in {0, cli[d].seen.restarts}
    <3>1. cli' = [cli EXCEPT ![c] = Idle]
      BY <1>25 DEF StartReturns
    <3>. QED  BY <3>1, AtRest DEF TypeOK, CommandType
  <2>. QED
    BY <1>25, <2>1, WorkerAssumption DEF StartReturns, WorkerAssumption,
       RestInv, StoppedIsQuiet, Entering, Launching,
       Watching, LaunchersBounded, Quiet, Held, TypeOK, RecordType, ProcessType, Records
<1>26. ASSUME NEW c \in Clis, StopAsk(c)  PROVE RestInv' /\ StoppedIsQuiet'
  BY <1>26, WorkerAssumption DEF StopAsk, RestInv, StoppedIsQuiet, Entering,
     Launching, Watching, LaunchersBounded, Quiet, Held, TypeOK, RecordType, ProcessType,
     CommandType, Records, WorkerAssumption
<1>27. ASSUME NEW c \in Clis, StopReturns(c)  PROVE RestInv' /\ StoppedIsQuiet'
  <2>1. \A d \in Clis : cli'[d].seen.restarts \in {0, cli[d].seen.restarts}
    <3>1. cli' = [cli EXCEPT ![c] = Idle]
      BY <1>27 DEF StopReturns
    <3>. QED  BY <3>1, AtRest DEF TypeOK, CommandType
  <2>. QED
    BY <1>27, <2>1, WorkerAssumption DEF StopReturns, WorkerAssumption,
       RestInv, StoppedIsQuiet, Entering, Launching,
       Watching, LaunchersBounded, Quiet, Held, TypeOK, RecordType, ProcessType, Records
<1>28. ASSUME NEW c \in Clis, StopEscalate(c)
       PROVE  RestInv' /\ StoppedIsQuiet'
  BY <1>28, WorkerAssumption DEF StopEscalate, RestInv, StoppedIsQuiet,
     Entering, Launching, Watching, LaunchersBounded, Quiet, Held, TypeOK, RecordType,
     ProcessType, Running, CommandType, Records, WorkerAssumption
<1>29. ASSUME NEW c \in Clis, StopKill(c)  PROVE RestInv' /\ StoppedIsQuiet'
  BY <1>29, WorkerAssumption DEF StopKill, Goto, RestInv, StoppedIsQuiet,
     Entering, Launching, Watching, LaunchersBounded, Quiet, Held, TypeOK, RecordType,
     ProcessType, Running, CommandType, Records, WorkerAssumption
<1>30. ASSUME NEW c \in Clis, StopFinish(c)  PROVE RestInv' /\ StoppedIsQuiet'
  <2>1. \A d \in Clis : cli'[d].seen.restarts \in {0, cli[d].seen.restarts}
    <3>1. cli' = [cli EXCEPT ![c] = Idle]
      BY <1>30 DEF StopFinish
    <3>. QED  BY <3>1, AtRest DEF TypeOK, CommandType
  <2>2. file'.restarts = cli[c].seen.restarts /\ pidFile' = None
    BY <1>30 DEF StopFinish, TypeOK, CommandType, Records
  <2>. QED
    BY <1>30, <2>1, <2>2, WorkerAssumption DEF StopFinish, WorkerAssumption,
       RestInv, StoppedIsQuiet, Entering, Launching,
       Watching, LaunchersBounded, Quiet, Held, TypeOK, RecordType, ProcessType, Records
<1>31. CASE LauncherDies
  BY <1>31, WorkerAssumption DEF LauncherDies, RestInv, StoppedIsQuiet,
     Entering, Launching, Watching, LaunchersBounded, Quiet, Held, TypeOK, RecordType,
     ProcessType, Records, WorkerAssumption
<1>32. CASE UNCHANGED vars
  BY <1>32 DEF vars, RestInv, StoppedIsQuiet, LaunchersBounded, Quiet, Held
<1>. QED
  BY <1>1, <1>2, <1>3, <1>4, <1>5, <1>6, <1>7, <1>8, <1>9, <1>10, <1>11, <1>12,
     <1>13, <1>14, <1>15, <1>16, <1>17, <1>18, <1>19, <1>20, <1>21, <1>22,
     <1>23, <1>24, <1>25, <1>26, <1>27, <1>28, <1>29, <1>30, <1>31, <1>32, <1>33 DEF
     Next, HostStep, CommandStep

\* What was disturbed once stays disturbed.
LEMMA Calm ==
  ASSUME SharedType, [Next]_vars, ~Disturbed'
  PROVE  ~Disturbed
<1>1. \/ Command \/ Incident \/ Disturbance \/ UNCHANGED world
  BY DEF Next, HostStep, CommandStep, vars, HostResume, HostLook, HostClaim,
     HostStart, HostLaunch, HostFail, HostFailed, HostHealthy, HostRunning,
     HostTrack, HostLoop, HostCheck, HostRelaunch, HostTerminate, HostStopped,
     HostDeclare, HostCleanup, HostUntrack, HostUnlink, HostSignalled,
     HostKilled, Reuse, StartWorker, StartSpawn, StopWorker, StartReturns, StopAsk,
     StopReturns, StopEscalate, StopKill, StopFinish, LauncherDies, Launch,
     StartFails
<1>. QED  BY <1>1, Spent DEF Disturbed, SharedType

\* While nothing is disturbed and the account has not failed closed, one operator
\* has one host.
LEMMA SoleStep ==
  ASSUME WorkerAssumption, OneOperator, TypeOK, RestInv, FileInv, Sole, foreign = {},
     ~CommandAt({"kill", "finish"}), file.state # "FAILED_CLOSED", [Next]_vars,
     ~Disturbed', file'.state # "FAILED_CLOSED"
  PROVE  Sole'
<1>1. ASSUME NEW h \in Hosts, HostResume(h)  PROVE Sole'
  BY <1>1 DEF HostResume, Goto, Sole, Running, CommandAt, Entering,
     Stopping, Leaving, TypeOK, ProcessType
<1>2. ASSUME NEW h \in Hosts, HostLook(h)  PROVE Sole'
  BY <1>2 DEF HostLook, Goto, Sole, Running, CommandAt, Entering, Stopping,
     Leaving, TypeOK, ProcessType, PidAlive
<1>3. ASSUME NEW h \in Hosts, HostClaim(h)  PROVE Sole'
  BY <1>3 DEF HostClaim, Goto, Sole, Running, CommandAt, Entering,
     Stopping, Leaving, TypeOK, ProcessType
<1>4. ASSUME NEW h \in Hosts, HostStart(h)  PROVE Sole'
  <2>1. mem[h].state # "FAILED_CLOSED"
    BY <1>4 DEF HostStart, FileInv, Agree, Running
  <2>2. at[h] = "starting" /\ Goto(h, "launch")
        /\ UNCHANGED <<pidFile, control, cli, foreign>>
    BY <1>4, <2>1 DEF HostStart
  <2>. QED
    BY <2>2 DEF Goto, TypeOK, ProcessType,
       Sole, Running, CommandAt, Entering, Stopping, Leaving
<1>5. ASSUME NEW h \in Hosts, HostLaunch(h)  PROVE Sole'
  BY <1>5 DEF HostLaunch, Launch, StartFails, Goto, Sole, Running,
     CommandAt, Entering, Stopping, Leaving, TypeOK, ProcessType
<1>6. ASSUME NEW h \in Hosts, HostFail(h)  PROVE Sole'
  BY <1>6 DEF HostFail, Goto, Sole, Running, CommandAt, Entering, Stopping,
     Leaving, TypeOK, ProcessType
<1>7. ASSUME NEW h \in Hosts, HostFailed(h)  PROVE Sole'
  <2>1. file'.state = "FAILED_CLOSED"
    BY <1>7, StateSet DEF HostFailed, TypeOK, WorkerStates
  <2>. QED  BY <2>1
<1>8. ASSUME NEW h \in Hosts, HostHealthy(h)  PROVE Sole'
  BY <1>8 DEF HostHealthy, Goto, Sole, Running, CommandAt, Entering,
     Stopping, Leaving, TypeOK, ProcessType
<1>9. ASSUME NEW h \in Hosts, HostRunning(h)  PROVE Sole'
  BY <1>9 DEF HostRunning, Goto, Sole, Running, CommandAt, Entering,
     Stopping, Leaving, TypeOK, ProcessType
<1>10. ASSUME NEW h \in Hosts, HostTrack(h)  PROVE Sole'
  BY <1>10 DEF HostTrack, Goto, Sole, Running, CommandAt, Entering,
     Stopping, Leaving, TypeOK, ProcessType
<1>11. ASSUME NEW h \in Hosts, HostLoop(h)  PROVE Sole'
  BY <1>11 DEF HostLoop, Goto, Sole, Running, CommandAt, Entering,
     Stopping, Leaving, TypeOK, ProcessType
<1>12. ASSUME NEW h \in Hosts, HostCheck(h)  PROVE Sole'
  BY <1>12 DEF HostCheck, Goto, Sole, Running, CommandAt, Entering,
     Stopping, Leaving, TypeOK, ProcessType
<1>13. ASSUME NEW h \in Hosts, HostRelaunch(h)  PROVE Sole'
  BY <1>13 DEF HostRelaunch, Launch, StartFails, Goto, Sole, Running,
     CommandAt, Entering, Stopping, Leaving, TypeOK, ProcessType
<1>14. ASSUME NEW h \in Hosts, HostTerminate(h)  PROVE Sole'
  BY <1>14 DEF HostTerminate, Goto, Sole, Running, CommandAt, Entering,
     Stopping, Leaving, TypeOK, ProcessType
<1>15. ASSUME NEW h \in Hosts, HostStopped(h)  PROVE Sole'
  BY <1>15 DEF HostStopped, Goto, Sole, Running, CommandAt, Entering,
     Stopping, Leaving, TypeOK, ProcessType
<1>16. ASSUME NEW h \in Hosts, HostDeclare(h)  PROVE Sole'
  BY <1>16 DEF HostDeclare, Goto, Sole, Running, CommandAt, Entering,
     Stopping, Leaving, TypeOK, ProcessType
<1>17. ASSUME NEW h \in Hosts, HostCleanup(h)  PROVE Sole'
  BY <1>17 DEF HostCleanup, Goto, Sole, Running, CommandAt, Entering,
     Stopping, Leaving, TypeOK, ProcessType
<1>18. ASSUME NEW h \in Hosts, HostUntrack(h)  PROVE Sole'
  BY <1>18 DEF HostUntrack, Goto, TypeOK, ProcessType,
     Sole, Running, CommandAt, Entering, Stopping, Leaving
<1>19. ASSUME NEW h \in Hosts, HostUnlink(h)  PROVE Sole'
  BY <1>19 DEF HostUnlink, Goto, Sole, Running, CommandAt, Entering,
     Stopping, Leaving, TypeOK, ProcessType
<1>20. ASSUME NEW h \in Hosts, HostSignalled(h)  PROVE Sole'
  BY <1>20, Spent DEF HostSignalled, Goto, Sole, Running, CommandAt,
     Entering, Stopping, Leaving, TypeOK, ProcessType, Disturbed
<1>21. ASSUME NEW h \in Hosts, HostKilled(h)  PROVE Sole'
  BY <1>21 DEF HostKilled, Goto, Sole, Running, CommandAt, Entering,
     Stopping, Leaving, TypeOK, ProcessType
<1>22. ASSUME NEW h \in Hosts, Reuse(h)  PROVE Sole'
  BY <1>22, Spent DEF Reuse, Sole, Running, CommandAt, Entering, Stopping,
     Leaving, TypeOK, ProcessType, Disturbed
<1>23. ASSUME NEW c \in Clis, StartWorker(c)  PROVE Sole'
  <2>1. \A d \in Clis : d = c
    BY OneOperator DEF OneOperator
  <2>2. /\ cli[c].at = "idle" /\ UNCHANGED <<pidFile, control, at>>
        /\ cli' \in {cli, [cli EXCEPT ![c] = [Idle EXCEPT !.at = "loaded"]]}
    BY <1>23 DEF StartWorker
  <2>3. cli'[c].at \in {"idle", "loaded"}
    <3>1. [Idle EXCEPT !.at = "loaded"].at = "loaded"
      BY Beginnings
    <3>. QED  BY <2>2, <3>1 DEF TypeOK, CommandType
  <2>. QED
    BY <2>1, <2>2, <2>3 DEF Sole, Running, CommandAt, Entering, Stopping, Leaving
<1>33. ASSUME NEW c \in Clis, StartSpawn(c)  PROVE Sole'
  <2>1. \A d \in Clis : d = c
    BY OneOperator DEF OneOperator
  <2>2. cli[c].at = "loaded" /\ UNCHANGED <<file, pidFile, control, foreign>>
    BY <1>33 DEF StartSpawn
  <2>3. CASE PidAlive(pidFile)
    <3>1. cli' = [cli EXCEPT ![c] = Idle] /\ UNCHANGED at
      BY <1>33, <2>3 DEF StartSpawn
    <3>2. cli'[c].at = "idle"
      BY <3>1, AtRest DEF TypeOK, CommandType
    <3>. QED
      BY <2>1, <2>2, <3>1, <3>2 DEF Sole, Running, CommandAt, Entering, Stopping,
         Leaving
  <2>4. CASE ~PidAlive(pidFile)
    <3>1. PICK h \in Hosts :
            /\ Goto(h, "resume")
            /\ cli' = [cli EXCEPT ![c] = [Idle EXCEPT !.at = "started", !.host = h]]
      BY <1>33, <2>4 DEF StartSpawn
    <3>2. cli'[c].at = "started" /\ cli'[c].host = h
      BY <3>1, Beginnings DEF TypeOK, CommandType
    <3>3. \A g \in Hosts : ~Running(g)
      <4>1. ASSUME NEW g \in Hosts, Running(g)  PROVE FALSE
        <5>1. at[g] \notin Entering \cup Leaving
          BY <2>1, <2>2, <4>1 DEF Sole, CommandAt
        <5>2. pidFile = g
          BY <4>1, <5>1 DEF Sole
        <5>. QED  BY <2>4, <4>1, <5>2, WorkerAssumption DEF PidAlive, WorkerAssumption
      <4>. QED  BY <4>1
    <3>4. at' = [at EXCEPT ![h] = "resume"]
      BY <3>1 DEF Goto
    <3>. QED
      BY <2>1, <2>2, <3>2, <3>3, <3>4 DEF TypeOK, ProcessType,
         Sole, Running, CommandAt, Entering, Stopping, Leaving
  <2>. QED  BY <2>3, <2>4
<1>24. ASSUME NEW c \in Clis, StopWorker(c)  PROVE Sole'
  <2>1. \A d \in Clis : d = c
    BY OneOperator DEF OneOperator
  <2>2. CASE PidAlive(pidFile)
    <3>1. /\ cli' = [cli EXCEPT ![c] = [Idle EXCEPT !.at = "ask", !.host = pidFile]]
          /\ UNCHANGED <<file, pidFile, control, at, foreign>> /\ cli[c].at = "idle"
      BY <1>24, <2>2 DEF StopWorker
    <3>2. cli'[c].at = "ask" /\ cli'[c].host = pidFile
      <4>1. pidFile \in Hosts \cup {None}
        BY DEF TypeOK, SharedType
      <4>2. /\ [Idle EXCEPT !.at = "ask", !.host = pidFile].at = "ask"
            /\ [Idle EXCEPT !.at = "ask", !.host = pidFile].host = pidFile
        BY <4>1, Beginnings
      <4>. QED  BY <3>1, <4>2 DEF TypeOK, CommandType
    <3>3. pidFile \in Hosts /\ Running(pidFile)
      BY <2>2 DEF PidAlive, Sole, TypeOK, SharedType
    <3>. QED
      BY <2>1, <3>1, <3>2, <3>3 DEF Sole, Running, CommandAt, Entering,
         Stopping, Leaving
  <2>3. CASE ~PidAlive(pidFile)
    <3>1. /\ cli' = [cli EXCEPT ![c] = Idle]
          /\ UNCHANGED <<file, pidFile, control, at, foreign>> /\ cli[c].at = "idle"
      BY <1>24, <2>3 DEF StopWorker
    <3>2. cli'[c].at = "idle"
      BY <3>1, AtRest DEF TypeOK, CommandType
    <3>. QED
      BY <2>1, <3>1, <3>2 DEF Sole, Running, CommandAt, Entering, Stopping, Leaving
  <2>. QED  BY <2>2, <2>3
<1>25. ASSUME NEW c \in Clis, StartReturns(c)  PROVE Sole'
  <2>1. \A d \in Clis : d = c
    BY OneOperator DEF OneOperator
  <2>2. cli' = [cli EXCEPT ![c] = Idle] /\ cli'[c].at = "idle" /\ cli[c].at = "started"
    BY <1>25, AtRest DEF StartReturns, TypeOK, CommandType
  <2>3. \A h \in Hosts : Running(h) => pidFile = h
    <3>1. \/ PidAlive(pidFile)
          \/ ~Running(cli[c].host)
      BY <1>25, Spent DEF StartReturns, Disturbed, TypeOK
    <3>. QED  BY <2>2, <3>1 DEF PidAlive, Sole, TypeOK, SharedType
  <2>4. UNCHANGED <<file, pidFile, control, at, foreign>>
    BY <1>25 DEF StartReturns
  <2>5. \A h \in Hosts : Running(h) => at[h] \notin Entering
    BY <2>3 DEF RestInv
  <2>. QED
    BY <2>1, <2>2, <2>3, <2>4, <2>5 DEF Sole, Running, CommandAt, Entering,
       Stopping, Leaving
<1>26. ASSUME NEW c \in Clis, StopAsk(c)  PROVE Sole'
  BY <1>26, OneOperator DEF StopAsk, Sole, Running, CommandAt, Entering,
     Stopping, Leaving, TypeOK, ProcessType, CommandType, OneOperator
<1>27. ASSUME NEW c \in Clis, StopReturns(c)  PROVE Sole'
  <2>1. \A d \in Clis : d = c
    BY OneOperator DEF OneOperator
  <2>2. cli' = [cli EXCEPT ![c] = Idle] /\ cli'[c].at = "idle"
    BY <1>27, AtRest DEF StopReturns, TypeOK, CommandType
  <2>3. \A h \in Hosts : ~Running(h)
    BY <1>27 DEF StopReturns, PidAlive, Sole, TypeOK, CommandType
  <2>4. UNCHANGED <<at, foreign>>
    BY <1>27 DEF StopReturns
  <2>. QED
    BY <2>1, <2>2, <2>3, <2>4 DEF Sole, Running, CommandAt, Entering, Stopping, Leaving
<1>28. ASSUME NEW c \in Clis, StopEscalate(c)  PROVE Sole'
  BY <1>28, OneOperator, Spent DEF StopEscalate, Sole, Running, CommandAt,
     Entering, Stopping, Leaving, TypeOK, ProcessType, CommandType,
     OneOperator, PidAlive, Disturbed
<1>29. ASSUME NEW c \in Clis, StopKill(c)  PROVE Sole'
  BY <1>29 DEF StopKill, CommandAt
<1>30. ASSUME NEW c \in Clis, StopFinish(c)  PROVE Sole'
  BY <1>30 DEF StopFinish, CommandAt
<1>31. CASE LauncherDies
  BY <1>31 DEF LauncherDies, Sole, Running, CommandAt, Entering, Stopping,
     Leaving, TypeOK, ProcessType
<1>32. CASE UNCHANGED vars
  BY <1>32 DEF vars, Sole, Running, CommandAt, Entering, Stopping, Leaving
<1>. QED
  BY <1>1, <1>2, <1>3, <1>4, <1>5, <1>6, <1>7, <1>8, <1>9, <1>10, <1>11, <1>12,
     <1>13, <1>14, <1>15, <1>16, <1>17, <1>18, <1>19, <1>20, <1>21, <1>22,
     <1>23, <1>24, <1>25, <1>26, <1>27, <1>28, <1>29, <1>30, <1>31, <1>32, <1>33 DEF
     Next, HostStep, CommandStep

\* The only host that runs saves its record, and goes on.
LEMMA SavedAlone ==
  ASSUME TypeOK, AloneInv, FileInv, NEW h \in Hosts, NEW place \in Places \ {"relaunch"},
         Running(h), file.state # "FAILED_CLOSED",
         at' = [at EXCEPT ![h] = place], UNCHANGED restarted,
         file' = mem'[h], file'.restarts = file.restarts,
         file'.state \in Terminal => file'.onboarding \in Terminal,
         place \in {"failed", "declare"} => file'.onboarding \in Terminal,
         file'.state = "FAILED_CLOSED" => place \in Leaving
  PROVE  FileInv'
<1>1. \A g \in Hosts : Running(g)' => g = h
  BY DEF AloneInv, Sole, Running, TypeOK, ProcessType
<1>. QED  BY <1>1 DEF FileInv, Agree, TypeOK, ProcessType

\* While nothing is disturbed, the file is the record of every host that runs.
LEMMA FileStep ==
  ASSUME WorkerAssumption, TypeOK, RestInv, AloneInv, FileInv, [Next]_vars, ~Disturbed'
  PROVE  FileInv'
<1>1. ASSUME NEW h \in Hosts, HostResume(h)  PROVE FileInv'
  BY <1>1 DEF HostResume, Goto, FileInv, Agree, Running, Entering, Leaving, TypeOK,
     ProcessType, RecordType
<1>2. ASSUME NEW h \in Hosts, HostLook(h)  PROVE FileInv'
  BY <1>2 DEF HostLook, Goto, FileInv, Agree, Running, Entering, Leaving, TypeOK,
     ProcessType
<1>3. ASSUME NEW h \in Hosts, HostClaim(h)  PROVE FileInv'
  BY <1>3 DEF HostClaim, Goto, FileInv, Agree, Running, Entering, Leaving, TypeOK,
     ProcessType
<1>4. ASSUME NEW h \in Hosts, HostStart(h)  PROVE FileInv'
  <2>1. CASE mem[h].state = "FAILED_CLOSED"
    BY <1>4, <2>1 DEF HostStart, Goto, FileInv, Agree, Running, Entering,
       Leaving, Terminal, TypeOK, RecordType, ProcessType, Records
  <2>2. CASE mem[h].state # "FAILED_CLOSED"
    <3>1. SetState(h, "STARTING") /\ Goto(h, "launch") /\ UNCHANGED restarted
          /\ at[h] = "starting" /\ "STARTING" \in WorkerStates
      BY <1>4, <2>2 DEF HostStart, WorkerStates
    <3>2. /\ file' = mem'[h] /\ file'.state = "STARTING"
          /\ file'.restarts = mem[h].restarts
      BY <3>1, StateSet DEF TypeOK
    <3>3. Running(h) /\ Agree(mem[h], file) /\ file.state # "FAILED_CLOSED"
      BY <2>2, <3>1 DEF FileInv, Running, Agree
    <3>. QED
      BY <3>1, <3>2, <3>3, SavedAlone DEF Goto, Agree, Places, Terminal
  <2>. QED  BY <2>1, <2>2
<1>5. ASSUME NEW h \in Hosts, HostLaunch(h)  PROVE FileInv'
  BY <1>5 DEF HostLaunch, Launch, StartFails, Goto, FileInv, Agree, Running, Entering,
     Leaving, TypeOK, ProcessType
<1>6. ASSUME NEW h \in Hosts, HostFail(h)  PROVE FileInv'
  <2>1. /\ file' = mem'[h] /\ file'.onboarding \in Terminal
        /\ file'.state = mem[h].state /\ file'.restarts = mem[h].restarts
    BY <1>6, Triggered DEF HostFail, TypeOK
  <2>2. /\ at[h] = "fail" /\ at' = [at EXCEPT ![h] = "failed"] /\ UNCHANGED restarted
    BY <1>6 DEF HostFail, Goto
  <2>3. Running(h) /\ Agree(mem[h], file) /\ file.state # "FAILED_CLOSED"
    BY <2>2 DEF FileInv, Running, Entering, Leaving
  <2>. QED
    BY <2>1, <2>2, <2>3, SavedAlone DEF Agree, FileInv, Agree, Running, Places, Leaving, Terminal
<1>7. ASSUME NEW h \in Hosts, HostFailed(h)  PROVE FileInv'
  <2>1. /\ file' = mem'[h] /\ file'.state = "FAILED_CLOSED"
        /\ file'.onboarding = mem[h].onboarding /\ file'.restarts = mem[h].restarts
    BY <1>7, StateSet DEF HostFailed, TypeOK, WorkerStates
  <2>2. /\ at[h] = "failed" /\ at' = [at EXCEPT ![h] = "cleanup"] /\ UNCHANGED restarted
    BY <1>7 DEF HostFailed, Goto
  <2>3. /\ Running(h) /\ Agree(mem[h], file) /\ file.state # "FAILED_CLOSED"
        /\ file.onboarding \in Terminal
    BY <2>2 DEF FileInv, Running, Entering, Leaving
  <2>. QED
    BY <2>1, <2>2, <2>3, SavedAlone DEF Agree, FileInv, Agree, Running, Places, Leaving, Terminal
<1>8. ASSUME NEW h \in Hosts, HostHealthy(h)  PROVE FileInv'
  <2>1. /\ file' = mem'[h] /\ file'.state = "HEALTHY"
        /\ file'.onboarding = mem[h].onboarding /\ file'.restarts = mem[h].restarts
    BY <1>8, StateSet DEF HostHealthy, TypeOK, WorkerStates
  <2>2. /\ at[h] = "healthy" /\ at' = [at EXCEPT ![h] = "running"] /\ UNCHANGED restarted
    BY <1>8 DEF HostHealthy, Goto
  <2>3. Running(h) /\ Agree(mem[h], file) /\ file.state # "FAILED_CLOSED"
    BY <2>2 DEF FileInv, Running, Entering, Leaving
  <2>. QED
    BY <2>1, <2>2, <2>3, SavedAlone DEF Agree, FileInv, Agree, Running, Places, Leaving, Terminal
<1>9. ASSUME NEW h \in Hosts, HostRunning(h)  PROVE FileInv'
  <2>1. /\ file' = mem'[h] /\ file'.state = "RUNNING"
        /\ file'.onboarding = mem[h].onboarding /\ file'.restarts = mem[h].restarts
    BY <1>9, StateSet DEF HostRunning, TypeOK, WorkerStates
  <2>2. /\ at[h] = "running" /\ at' = [at EXCEPT ![h] = "track"] /\ UNCHANGED restarted
    BY <1>9 DEF HostRunning, Goto
  <2>3. Running(h) /\ Agree(mem[h], file) /\ file.state # "FAILED_CLOSED"
    BY <2>2 DEF FileInv, Running, Entering, Leaving
  <2>. QED
    BY <2>1, <2>2, <2>3, SavedAlone DEF Agree, FileInv, Agree, Running, Places, Leaving, Terminal
<1>10. ASSUME NEW h \in Hosts, HostTrack(h)  PROVE FileInv'
  <2>1. Held(h) \in Launchers
    BY <1>10 DEF HostTrack, RestInv, Watching, Held, Launchers, TypeOK, ProcessType
  <2>2. /\ file' = mem'[h] /\ file'.state = mem[h].state
        /\ file'.onboarding = mem[h].onboarding /\ file'.restarts = mem[h].restarts
    BY <1>10, <2>1, Tracked DEF HostTrack, TypeOK
  <2>3. /\ at[h] = "track" /\ at' = [at EXCEPT ![h] = "loop"] /\ UNCHANGED restarted
    BY <1>10 DEF HostTrack, Goto
  <2>4. Running(h) /\ Agree(mem[h], file) /\ file.state # "FAILED_CLOSED"
    BY <2>3 DEF FileInv, Running, Entering, Leaving
  <2>. QED
    BY <2>2, <2>3, <2>4, SavedAlone DEF Agree, FileInv, Places
<1>11. ASSUME NEW h \in Hosts, HostLoop(h)  PROVE FileInv'
  BY <1>11 DEF HostLoop, Goto, FileInv, Agree, Running, Entering, Leaving, TypeOK,
     ProcessType
<1>12. ASSUME NEW h \in Hosts, HostCheck(h)  PROVE FileInv'
  <2>0. /\ at[h] = "check" /\ Running(h) /\ Agree(mem[h], file)
        /\ file.state # "FAILED_CLOSED"
    BY <1>12 DEF HostCheck, FileInv, Agree, Running, Entering, Leaving
  <2>1. CASE Held(h) \notin live /\ mem[h].restarts < MaxRestarts
    <3>1. /\ restarted \in Nat /\ mem[h].restarts \in Nat /\ UNCHANGED restarted
          /\ restarted <= mem[h].restarts
      BY <1>12, <2>0 DEF HostCheck, TypeOK, SharedType, RecordType, Records, FileInv,
         Agree
    <3>2. /\ file'.restarts = mem[h].restarts + 1 /\ file'.state = "RESTARTING"
          /\ file' = mem'[h] /\ at' = [at EXCEPT ![h] = "relaunch"]
      BY <1>12, <2>1, Restarted
    <3>3. \A g \in Hosts : Running(g)' => g = h
      BY <2>0, <3>2 DEF AloneInv, Sole, Running, TypeOK, ProcessType
    <3>. QED
      BY <3>1, <3>2, <3>3 DEF FileInv, Agree, Entering, Leaving, Terminal, TypeOK,
         ProcessType
  <2>2. CASE ~(Held(h) \notin live /\ mem[h].restarts < MaxRestarts)
    <3>1. /\ UNCHANGED <<file, mem, restarted>> /\ (Goto(h, "healthy") \/ Goto(h, "fail"))
      BY <1>12, <2>2 DEF HostCheck
    <3>. QED
      BY <2>0, <3>1 DEF Goto, FileInv, Agree, Running, Entering,
       Leaving, Terminal, TypeOK, RecordType, ProcessType, Records
  <2>. QED  BY <2>1, <2>2
<1>13. ASSUME NEW h \in Hosts, HostRelaunch(h)  PROVE FileInv'
  <2>1. /\ at[h] = "relaunch" /\ restarted' = restarted + 1 /\ UNCHANGED <<file, mem>>
        /\ at' \in {[at EXCEPT ![h] = "healthy"], [at EXCEPT ![h] = "fail"]}
    BY <1>13 DEF HostRelaunch, Launch, Goto
  <2>2. Running(h) /\ restarted < file.restarts /\ file.state # "FAILED_CLOSED"
    BY <2>1 DEF FileInv, Running, Entering, Leaving
  <2>3. restarted \in Nat /\ file.restarts \in Nat
    BY DEF TypeOK, SharedType, RecordType, Records
  <2>4. \A g \in Hosts : Running(g)' => g = h
    BY <2>1, <2>2 DEF AloneInv, Sole, Running, TypeOK, ProcessType
  <2>. QED
    BY <2>1, <2>2, <2>3, <2>4 DEF FileInv, Agree, TypeOK, ProcessType
<1>14. ASSUME NEW h \in Hosts, HostTerminate(h)  PROVE FileInv'
  BY <1>14 DEF HostTerminate, Goto, FileInv, Agree, Running, Entering, Leaving,
     TypeOK, ProcessType
<1>15. ASSUME NEW h \in Hosts, HostStopped(h)  PROVE FileInv'
  <2>1. /\ file' = mem'[h] /\ file'.onboarding \in Terminal
        /\ file'.state = mem[h].state /\ file'.restarts = mem[h].restarts
    BY <1>15, Triggered DEF HostStopped, TypeOK
  <2>2. /\ at[h] = "stopped" /\ at' = [at EXCEPT ![h] = "declare"] /\ UNCHANGED restarted
    BY <1>15 DEF HostStopped, Goto
  <2>3. Running(h) /\ Agree(mem[h], file) /\ file.state # "FAILED_CLOSED"
    BY <2>2 DEF FileInv, Running, Entering, Leaving
  <2>. QED
    BY <2>1, <2>2, <2>3, SavedAlone DEF Agree, FileInv, Agree, Running, Places, Leaving, Terminal
<1>16. ASSUME NEW h \in Hosts, HostDeclare(h)  PROVE FileInv'
  <2>1. /\ file' = mem'[h] /\ file'.state = "STOPPED"
        /\ file'.onboarding = mem[h].onboarding /\ file'.restarts = mem[h].restarts
    BY <1>16, StateSet DEF HostDeclare, TypeOK, WorkerStates
  <2>2. /\ at[h] = "declare" /\ at' = [at EXCEPT ![h] = "cleanup"] /\ UNCHANGED restarted
    BY <1>16 DEF HostDeclare, Goto
  <2>3. /\ Running(h) /\ Agree(mem[h], file) /\ file.state # "FAILED_CLOSED"
        /\ file.onboarding \in Terminal
    BY <2>2 DEF FileInv, Running, Entering, Leaving
  <2>. QED
    BY <2>1, <2>2, <2>3, SavedAlone DEF Agree, FileInv, Agree, Running, Places, Leaving, Terminal
<1>17. ASSUME NEW h \in Hosts, HostCleanup(h)  PROVE FileInv'
  BY <1>17 DEF HostCleanup, Goto, FileInv, Agree, Running, Entering, Leaving, TypeOK,
     ProcessType
<1>18. ASSUME NEW h \in Hosts, HostUntrack(h)  PROVE FileInv'
  <2>1. /\ file' = mem'[h] /\ file'.state = mem[h].state
        /\ file'.onboarding = mem[h].onboarding /\ file'.restarts = mem[h].restarts
        /\ \A g \in Hosts \ {h} : mem'[g] = mem[g]
    BY <1>18, Tracked DEF HostUntrack, TypeOK
  <2>2. /\ at[h] = "untrack" /\ at' = [at EXCEPT ![h] = "unlink"] /\ UNCHANGED restarted
    BY <1>18 DEF HostUntrack, Goto
  <2>3. Agree(mem[h], file)
    BY <2>2 DEF FileInv, Running
  <2>4. Agree(file', file)
    BY <2>1, <2>3 DEF Agree
  <2>. QED
    BY <2>1, <2>2, <2>4 DEF FileInv, Agree, Running, Entering,
       Leaving, Terminal, TypeOK, ProcessType
<1>19. ASSUME NEW h \in Hosts, HostUnlink(h)  PROVE FileInv'
  BY <1>19 DEF HostUnlink, Goto, FileInv, Agree, Running, Entering, Leaving, TypeOK,
     ProcessType
<1>20. ASSUME NEW h \in Hosts, HostSignalled(h)  PROVE FileInv'
  BY <1>20, Spent DEF HostSignalled, Goto, FileInv, Agree, Running, Entering, Leaving,
     TypeOK, ProcessType, Disturbed
<1>21. ASSUME NEW h \in Hosts, HostKilled(h)  PROVE FileInv'
  BY <1>21 DEF HostKilled, Goto, FileInv, Agree, Running, Entering, Leaving, TypeOK,
     ProcessType
<1>22. ASSUME NEW h \in Hosts, Reuse(h)  PROVE FileInv'
  BY <1>22, Spent DEF Reuse, FileInv, Agree, Running, Entering, Leaving, TypeOK,
     ProcessType, Disturbed
<1>23. ASSUME NEW c \in Clis, StartWorker(c)  PROVE FileInv'
  BY <1>23 DEF StartWorker, FileInv, Agree, Running, Entering, Leaving, TypeOK,
     ProcessType
<1>33. ASSUME NEW c \in Clis, StartSpawn(c)  PROVE FileInv'
  BY <1>33 DEF StartSpawn, Goto, FileInv, Agree, Running, Entering, Leaving, TypeOK,
     ProcessType
<1>24. ASSUME NEW c \in Clis, StopWorker(c)  PROVE FileInv'
  BY <1>24 DEF StopWorker, FileInv, Agree, Running, Entering, Leaving, TypeOK,
     ProcessType
<1>25. ASSUME NEW c \in Clis, StartReturns(c)  PROVE FileInv'
  BY <1>25, Spent DEF StartReturns, FileInv, Agree, Running, Entering, Leaving,
     TypeOK, ProcessType, Disturbed
<1>26. ASSUME NEW c \in Clis, StopAsk(c)  PROVE FileInv'
  BY <1>26 DEF StopAsk, FileInv, Agree, Running, Entering, Leaving, TypeOK,
     ProcessType
<1>27. ASSUME NEW c \in Clis, StopReturns(c)  PROVE FileInv'
  BY <1>27 DEF StopReturns, FileInv, Agree, Running, Entering, Leaving, TypeOK,
     ProcessType
<1>28. ASSUME NEW c \in Clis, StopEscalate(c)  PROVE FileInv'
  BY <1>28, Spent DEF StopEscalate, FileInv, Agree, Running, Entering, Leaving,
     TypeOK, ProcessType, Disturbed
<1>29. ASSUME NEW c \in Clis, StopKill(c)  PROVE FileInv'
  BY <1>29 DEF StopKill, AloneInv, CommandAt
<1>30. ASSUME NEW c \in Clis, StopFinish(c)  PROVE FileInv'
  BY <1>30 DEF StopFinish, AloneInv, CommandAt
<1>31. CASE LauncherDies
  BY <1>31 DEF LauncherDies, FileInv, Agree, Running, Entering, Leaving, TypeOK,
     ProcessType
<1>32. CASE UNCHANGED vars
  BY <1>32 DEF vars, FileInv, Agree, Running, Entering, Leaving
<1>. QED
  BY <1>1, <1>2, <1>3, <1>4, <1>5, <1>6, <1>7, <1>8, <1>9, <1>10, <1>11, <1>12,
     <1>13, <1>14, <1>15, <1>16, <1>17, <1>18, <1>19, <1>20, <1>21, <1>22,
     <1>23, <1>24, <1>25, <1>26, <1>27, <1>28, <1>29, <1>30, <1>31, <1>32, <1>33 DEF
     Next, HostStep, CommandStep

\* Neither a command nor a process that still runs takes the account out of
\* FAILED_CLOSED or starts a launcher in it.
LEMMA FailedStep ==
  ASSUME TypeOK, AloneInv, FileInv, [Next]_vars, file.state = "FAILED_CLOSED"
  PROVE  file'.state = "FAILED_CLOSED" /\ live' \subseteq live
<1>2. ASSUME NEW h \in Hosts, HostStep(h)
      PROVE  file'.state = "FAILED_CLOSED" /\ live' \subseteq live
  <2>1. Running(h)
    BY <1>2 DEF HostStep, Running, HostResume, HostLook, HostClaim, HostStart,
       HostLaunch, HostFail, HostFailed, HostHealthy, HostRunning, HostTrack,
       HostLoop, HostCheck, HostRelaunch, HostTerminate, HostStopped,
       HostDeclare, HostCleanup, HostUntrack, HostUnlink
  <2>2. /\ at[h] \in Entering \cup Leaving \cup {"starting"}
        /\ at[h] # "resume" => mem[h].state = file.state
    BY <2>1 DEF FileInv, Agree
  <2>3. CASE HostStart(h)
    BY <2>2, <2>3 DEF HostStart
  <2>4. CASE HostUntrack(h)
    <3>1. file'.state = mem[h].state /\ mem[h].state = file.state /\ live' = live
      BY <2>2, <2>4, Tracked DEF HostUntrack, TypeOK
    <3>. QED  BY <3>1
  <2>5. CASE HostResume(h) \/ HostLook(h) \/ HostClaim(h) \/ HostCleanup(h) \/ HostUnlink(h)
    BY <2>5 DEF HostResume, HostLook, HostClaim, HostCleanup, HostUnlink
  <2>. QED
    BY <1>2, <2>2, <2>3, <2>4, <2>5 DEF HostStep, Entering, Leaving,
       HostLaunch, HostFail, HostFailed, HostHealthy, HostRunning, HostTrack,
       HostLoop, HostCheck, HostRelaunch, HostTerminate, HostStopped,
       HostDeclare
<1>3. ASSUME NEW h \in Hosts, HostSignalled(h) \/ HostKilled(h) \/ Reuse(h)
      PROVE  file'.state = "FAILED_CLOSED" /\ live' \subseteq live
  BY <1>3 DEF HostSignalled, HostKilled, Reuse
<1>4. ASSUME NEW c \in Clis, StartWorker(c) \/ StopWorker(c) \/ CommandStep(c)
      PROVE  file'.state = "FAILED_CLOSED" /\ live' \subseteq live
  <2>1. ~StopKill(c) /\ ~StopFinish(c)
    BY DEF AloneInv, CommandAt, StopKill, StopFinish
  <2>. QED
    BY <1>4, <2>1 DEF CommandStep, StartWorker, StartSpawn, StopWorker, StartReturns, StopAsk,
       StopReturns, StopEscalate
<1>5. CASE LauncherDies
  BY <1>5 DEF LauncherDies
<1>6. CASE UNCHANGED vars
  BY <1>6 DEF vars
<1>. QED  BY <1>2, <1>3, <1>4, <1>5, <1>6 DEF Next

\* What disturbs the account aside, no command kills and no number is reused.
LEMMA AloneStep ==
  ASSUME WorkerAssumption, OneOperator, TypeOK, RestInv, AloneInv, FileInv,
     [Next]_vars, ~Disturbed'
  PROVE  AloneInv'
<1>1. ~\E c \in Clis : StopKill(c) \/ StopFinish(c)
  BY DEF AloneInv, CommandAt, StopKill, StopFinish
<1>2. foreign' = {}
  <2>1. ASSUME NEW h \in Hosts, Reuse(h)  PROVE FALSE
    BY <2>1, Spent DEF Reuse, Disturbed, TypeOK
  <2>. QED
    BY <1>1, <2>1 DEF AloneInv, Next, HostStep, CommandStep, vars, HostResume,
       HostLook, HostClaim, HostStart, HostLaunch, HostFail, HostFailed,
       HostHealthy, HostRunning, HostTrack, HostLoop, HostCheck, HostRelaunch,
       HostTerminate, HostStopped, HostDeclare, HostCleanup, HostUntrack,
       HostUnlink, HostSignalled, HostKilled, StartWorker, StartSpawn, StopWorker,
       StartReturns, StopAsk, StopReturns, StopEscalate, LauncherDies
<1>3. ~CommandAt({"kill", "finish"})'
  <2>1. ASSUME NEW c \in Clis, StopEscalate(c)  PROVE FALSE
    BY <2>1, Spent DEF StopEscalate, PidAlive, AloneInv, Disturbed, TypeOK
  <2>2. ASSUME NEW c \in Clis, NEW r, r.at \notin {"kill", "finish"},
               cli' \in {cli, [cli EXCEPT ![c] = r]}
        PROVE  ~CommandAt({"kill", "finish"})'
    BY <2>2 DEF AloneInv, CommandAt, TypeOK, CommandType
  <2>3. ASSUME NEW c \in Clis, StartWorker(c)  PROVE ~CommandAt({"kill", "finish"})'
    BY <2>2, <2>3, Beginnings DEF StartWorker
  <2>4. ASSUME NEW c \in Clis, StartSpawn(c)  PROVE ~CommandAt({"kill", "finish"})'
    <3>1. CASE PidAlive(pidFile)
      BY <2>2, <2>4, <3>1, AtRest DEF StartSpawn
    <3>2. CASE ~PidAlive(pidFile)
      <4>1. PICK h \in Hosts : cli' = [cli EXCEPT ![c] = [Idle EXCEPT !.at = "started", !.host = h]]
        BY <2>4, <3>2 DEF StartSpawn
      <4>2. [Idle EXCEPT !.at = "started", !.host = h].at = "started"
        BY Beginnings
      <4>. QED  BY <2>2, <4>1, <4>2
    <3>. QED  BY <3>1, <3>2
  <2>5. ASSUME NEW c \in Clis, StopWorker(c)  PROVE ~CommandAt({"kill", "finish"})'
    BY <2>2, <2>5, Beginnings DEF StopWorker, TypeOK, SharedType
  <2>6. ASSUME NEW c \in Clis, StopAsk(c)  PROVE ~CommandAt({"kill", "finish"})'
    BY <2>6 DEF StopAsk, AloneInv, CommandAt, TypeOK, CommandType
  <2>7. ASSUME NEW c \in Clis, StartReturns(c) \/ StopReturns(c)
        PROVE  ~CommandAt({"kill", "finish"})'
    BY <2>2, <2>7, Beginnings DEF StartReturns, StopReturns
  <2>8. CASE UNCHANGED cli
    BY <2>8 DEF AloneInv, CommandAt
  <2>. QED
    BY <1>1, <2>1, <2>3, <2>4, <2>5, <2>6, <2>7, <2>8 DEF Next, HostStep,
       CommandStep, vars, HostResume, HostLook, HostClaim, HostStart, HostLaunch,
       HostFail, HostFailed, HostHealthy, HostRunning, HostTrack, HostLoop,
       HostCheck, HostRelaunch, HostTerminate, HostStopped, HostDeclare,
       HostCleanup, HostUntrack, HostUnlink, HostSignalled, HostKilled, Reuse,
       LauncherDies
<1>4. file'.state # "FAILED_CLOSED" => Sole'
  BY FailedStep, SoleStep DEF AloneInv
<1>. QED  BY <1>2, <1>3, <1>4 DEF AloneInv

\* At first no host was born and nothing was recorded.
LEMMA InitInv ==
  ASSUME WorkerAssumption, Init
  PROVE  IInv
<1>. USE DEF Init
<1>1. RecordType /\ CommandType
  BY Beginnings DEF RecordType, CommandType
<1>2. ProcessType
  BY WorkerAssumption DEF ProcessType, Places, WorkerAssumption
<1>3. SharedType
  BY WorkerAssumption DEF SharedType, WorkerAssumption
<1>4. RestInv /\ StoppedIsQuiet
  <2>1. file.restarts = 0 /\ \A h \in Hosts : mem[h].restarts = 0 /\ handle[h] = 0
    BY Beginnings
  <2>2. \A c \in Clis : cli[c].seen.restarts = 0
    <3>1. Idle.seen.restarts = 0
      BY Beginnings
    <3>. QED  BY <3>1
  <2>3. \A h \in Hosts : at[h] = "unborn" /\ pidFile # h
    BY WorkerAssumption DEF WorkerAssumption
  <2>4. MaxRestarts \in Nat
    BY WorkerAssumption DEF WorkerAssumption
  <2>. QED
    BY <2>1, <2>2, <2>3, <2>4 DEF RestInv, StoppedIsQuiet, Entering, Launching,
       Watching, LaunchersBounded, Quiet
<1>5. AloneInv /\ FileInv
  <2>1. \A h \in Hosts : ~Running(h)
    BY DEF Running
  <2>2. ~CommandAt({"kill", "finish"})
    BY Beginnings DEF CommandAt
  <2>3. file.state \notin Terminal /\ restarted <= file.restarts
    <3>1. file.state = "STARTING"
      BY DEF Fresh
    <3>2. file.restarts = 0
      BY Beginnings
    <3>. QED  BY <3>1, <3>2 DEF Terminal
  <2>. QED  BY <2>1, <2>2, <2>3 DEF AloneInv, Sole, FileInv
<1>. QED  BY <1>1, <1>2, <1>3, <1>4, <1>5 DEF IInv, TypeOK

\* Whatever happens - any number of operators, killed hosts, forced stops, numbers
\* given to other programs - one host starts at most MaxRestarts + 1 launchers and
\* never has two that run, and a host whose own record came to say STOPPED has none
\* left (worker_supervisor.py _on_crash_detected, stop).  Of two hosts that run
\* together, and of a forced stop, which declares STOPPED in the place of the host it
\* killed (worker_host.py request_stop_and_wait), it says no more than that.
THEOREM Restrained ==
  ASSUME WorkerAssumption
  PROVE  Spec => [](LaunchersBounded /\ StoppedIsQuiet)
<1>. DEFINE Inv == TypeOK /\ RestInv /\ StoppedIsQuiet
<1>1. Init => Inv
  BY InitInv DEF IInv
<1>2. Inv /\ [Next]_vars => Inv'
  BY TypeStep, RestStep
<1>3. Inv => LaunchersBounded /\ StoppedIsQuiet
  BY DEF RestInv
<1>. QED  BY <1>1, <1>2, <1>3, PTL DEF Spec

\* The invariant of one operator, whose last two parts hold until a disturbance.
LEMMA InvStep ==
  ASSUME WorkerAssumption, OneOperator, IInv, [Next]_vars
  PROVE  IInv'
<1>1. TypeOK' /\ RestInv' /\ StoppedIsQuiet'
  BY TypeStep, RestStep DEF IInv
<1>2. ASSUME ~Disturbed'  PROVE AloneInv' /\ FileInv'
  <2>1. AloneInv /\ FileInv
    BY <1>2, Calm DEF IInv, TypeOK
  <2>. QED  BY <1>2, <2>1, AloneStep, FileStep DEF IInv
<1>. QED  BY <1>1, <1>2 DEF IInv

LEMMA Sound ==
  ASSUME IInv
  PROVE  HostsAreSound
<1>1. ASSUME ~Disturbed
      PROVE  OneHost /\ PidNamesHost /\ RestartsBounded /\ TerminalAgrees
  <2>. USE <1>1 DEF IInv
  <2>1. OneHost
    BY DEF OneHost, AloneInv, Sole
  <2>2. PidNamesHost
    <3>1. ASSUME NEW h \in Hosts, InCharge(h)
          PROVE  Running(h) /\ at[h] \notin Entering \cup Leaving
                   /\ file.state # "FAILED_CLOSED"
      BY <3>1 DEF InCharge, Entering, Leaving, FileInv, Agree
    <3>. QED  BY <3>1 DEF PidNamesHost, AloneInv, Sole
  <2>3. RestartsBounded
    BY DEF RestartsBounded, FileInv, RestInv
  <2>4. TerminalAgrees
    BY DEF TerminalAgrees, FileInv
  <2>. QED  BY <2>1, <2>2, <2>3, <2>4
<1>2. CASE Disturbed
  BY <1>2 DEF IInv, RestInv, HostsAreSound, OneHost, PidNamesHost, RestartsBounded, TerminalAgrees
<1>. QED  BY <1>1, <1>2 DEF IInv, RestInv, HostsAreSound

\* One account that one operator at a time drives, undisturbed: one host runs, unless
\* the record says FAILED_CLOSED; the pid file names the host in charge, restarts are
\* bounded over the account's life, a STOPPED host is quiet and a terminal record says
\* why (worker_host.py, worker_supervisor.py).
THEOREM HostsSound ==
  ASSUME WorkerAssumption, OneOperator
  PROVE  Spec => []HostsAreSound
<1>1. Init => IInv
  BY InitInv
<1>2. IInv /\ [Next]_vars => IInv'
  BY InvStep
<1>3. IInv => HostsAreSound
  BY Sound
<1>. QED  BY <1>1, <1>2, <1>3, PTL DEF Spec

\* While nothing disturbs one operator, FAILED_CLOSED stays: a start is refused
\* (worker_host.py start_persistent_worker, worker_supervisor.py start), no host that
\* still runs writes another state over it, and no launcher is started in it.  A
\* forced stop of a busy host does overwrite it, and is a disturbance.
THEOREM FailedAbsorbs ==
  ASSUME WorkerAssumption, OneOperator
  PROVE  Spec => FailedIsAbsorbing
<1>1. Init => IInv
  BY InitInv
<1>2. IInv /\ [Next]_vars => IInv'
  BY InvStep
<1>3. IInv /\ [Next]_vars =>
        [~Disturbed' /\ file.state = "FAILED_CLOSED"
           => file'.state = "FAILED_CLOSED" /\ live' \subseteq live]_vars
  BY FailedStep, Calm DEF IInv, TypeOK
<1>. QED  BY <1>1, <1>2, <1>3, PTL DEF Spec, FailedIsAbsorbing
=============================================================================
