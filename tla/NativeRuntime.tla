---------------------------- MODULE NativeRuntime ----------------------------
(***************************************************************************)
(* How an account gets a terminal with the bridge (native_mt5_runtime.py): *)
(* start authenticates once without a chart so that the terminal keeps the *)
(* credential, restarts it with the discovery script, and hands over to the*)
(* expert once the journal proves investor mode; resume relies on the kept *)
(* credential.  Worker and terminal know each other only through files: the*)
(* journal, the start configuration, and what script and expert publish.   *)
(***************************************************************************)
EXTENDS Integers, Sequences

CONSTANTS Servers,     \* what the broker may call itself
          None,
          MaxCalls,    \* bound: calls of start or resume
          MaxSessions, \* bound: terminals launched
          MaxCrashes,  \* bound: crashes of the agent
          MaxHostFaults \* bound: crashes, terminals that cannot be stopped, and
                        \* tasks that are created and cannot be run, together

RuntimeAssumption ==
  /\ None \notin Servers
  /\ MaxCalls \in Nat /\ MaxSessions \in Nat
  /\ MaxCrashes \in Nat /\ MaxHostFaults \in Nat

VARIABLES
  rights,     \* what the supplied password grants: "investor" or "master"
  worker,     \* the call: its step, kind, phase, server and journal checkpoint, its task,
              \* and whether it found a task due that an interrupted call had left
  passwords,  \* configuration files with the password in state/
  launch,     \* the scheduled task: what its launcher starts, and whether it is due
  terminal,   \* the running terminal, or NoTerminal
  sessions,   \* terminals launched so far
  kept,       \* accounts.dat holds the credential
  journal,    \* the terminal's log, from the current call on: no checkpoint is older
  account, heartbeat, discovered,  \* published files: the session they are from
  handoff,    \* bridge-ready
  template,   \* TradeJournalBridge.tpl
  calls, crashes, stopFaults, runFaults

readiness == <<account, heartbeat, discovered, handoff>>
counts == <<calls, crashes, stopFaults, runFaults>>
\* Left alone by a step of the worker, or of the terminal, unless it says so.
machine == <<rights, terminal, sessions, kept, journal>>
vars == <<rights, worker, passwords, launch, terminal, sessions, kept, journal, account,
          heartbeat, discovered, handoff, template, counts>>

Waiting == {"authorize", "persist", "investor", "probe", "ready?", "hide"}
Steps == Waiting \cup {"idle", "configure", "launch", "erase", "halt", "clear", "attach",
                       "except", "finally", "ready", "failed"}
NoTerminal == [session |-> 0, phase |-> 0, server |-> None, ea |-> FALSE]
NoTask == [due |-> FALSE, phase |-> 0, ea |-> FALSE]
NoCall == [pc |-> "idle", kind |-> None, phase |-> 0, server |-> None,
           checkpoint |-> 0, task |-> FALSE, left |-> FALSE, stopFailed |-> FALSE]
NoAccount == [session |-> 0, server |-> None]
Line == [what : {"authorized", "invalid", "synchronized", "disabled", "enabled"},
         server : Servers \cup {None}]
Entry(what, server) == [what |-> what, server |-> server]

Init ==
  /\ rights \in {"investor", "master"}
  /\ worker = NoCall /\ passwords = {} /\ launch = NoTask
  /\ terminal = NoTerminal /\ sessions = 0
  /\ kept = FALSE /\ journal = <<>>
  /\ account = NoAccount /\ heartbeat = 0 /\ discovered = 0 /\ handoff = FALSE
  /\ template = FALSE
  /\ calls = 0 /\ crashes = 0 /\ stopFaults = 0 /\ runFaults = 0

At(pc) == worker.pc = pc
Goto(pc) == worker' = [worker EXCEPT !.pc = pc]
Alive == terminal # NoTerminal
\* The lines a wait looks at: those written since the checkpoint of this launch.
Fresh == {journal[i] : i \in {j \in DOMAIN journal : j > worker.checkpoint}}
Logged(what) == \E l \in Fresh : l.what = what

-----------------------------------------------------------------------------
(* The calls.                                                               *)

\* A provision has removed a terminal that was left over before it calls start.
Start ==
  /\ At("idle") /\ calls < MaxCalls /\ calls' = calls + 1
  /\ \E s \in Servers :
       worker' = [NoCall EXCEPT !.pc = "configure", !.kind = "start", !.phase = 1, !.server = s,
                                !.left = launch.due]
  /\ terminal' = NoTerminal /\ journal' = <<>>
  /\ UNCHANGED <<rights, passwords, launch, sessions, kept, readiness, template,
                 crashes, stopFaults, runFaults>>

ResumeAsIs ==   \* mutant: what an earlier terminal published stays
  /\ At("idle") /\ calls < MaxCalls /\ calls' = calls + 1 /\ template
  /\ \E s \in Servers :
       worker' = [NoCall EXCEPT !.pc = "configure", !.kind = "resume", !.phase = 2, !.server = s,
                                !.left = launch.due]
  /\ terminal' = NoTerminal /\ journal' = <<>>
  /\ UNCHANGED <<rights, sessions, kept, passwords, launch, readiness, template,
                 crashes, stopFaults, runFaults>>

HasTemplate == template   \* names the symbol that discovery has resolved

\* _remove_readiness_files.
Unpublish ==
  account' = NoAccount /\ heartbeat' = 0 /\ discovered' = 0 /\ handoff' = FALSE

\* A job resumes an account whose terminal does not run, or was stopped for a change
\* of the expert or of the history mode.  What was published before goes.
Resume ==
  /\ At("idle") /\ calls < MaxCalls /\ calls' = calls + 1 /\ HasTemplate
  /\ \E s \in Servers :
       worker' = [NoCall EXCEPT !.pc = "configure", !.kind = "resume", !.phase = 2, !.server = s,
                                !.left = launch.due]
  /\ terminal' = NoTerminal /\ journal' = <<>>
  /\ Unpublish
  /\ UNCHANGED <<rights, sessions, kept, passwords, launch, template, crashes,
                 stopFaults, runFaults>>

HasFault == stopFaults + runFaults + crashes < MaxHostFaults

ConfigFile == IF worker.phase = 1 THEN "login-bootstrap.ini" ELSE "startup.ini"

\* start writes the password into the configuration, resume does not; a file that
\* cannot be given its access rights is destroyed again.
Configure ==
  /\ At("configure")
  /\ \/ /\ passwords' = IF worker.kind = "start" THEN passwords \cup {ConfigFile} ELSE passwords
        /\ Goto("launch")
     \/ /\ UNCHANGED passwords
        /\ Goto(IF worker.kind = "start" THEN "except" ELSE "failed")
  /\ UNCHANGED <<machine, launch, readiness, template, counts>>

\* _journal_checkpoint, then the scheduled task is created and run.
Launch ==
  /\ At("launch")
  /\ launch' = [due |-> TRUE, phase |-> worker.phase, ea |-> worker.kind = "resume"]
  /\ worker' = [worker EXCEPT !.pc = "authorize", !.checkpoint = Len(journal), !.task = TRUE]
  /\ UNCHANGED <<machine, passwords, readiness, template, counts>>

\* The task exists and could not be run; its name is not kept.
LaunchFails ==
  /\ At("launch") /\ HasFault /\ runFaults' = runFaults + 1
  /\ launch' = [due |-> TRUE, phase |-> worker.phase, ea |-> worker.kind = "resume"]
  /\ Goto("except")
  /\ UNCHANGED <<machine, passwords, readiness, template, calls, crashes, stopFaults>>

\* The task is deleted without stopping the terminal it started.
ReleaseTask == launch' = NoTask

\* The oldest line that says anything decides.
FirstVerdict(j) ==
  LET Verdict(i) == i > worker.checkpoint /\ journal[i].what \in {"authorized", "invalid"}
  IN  Verdict(j) /\ \A i \in 1..(j - 1) : ~Verdict(i)

\* Phase 1 learns the name under which the broker authorised the account.
Authorize ==
  /\ At("authorize")
  /\ \E j \in DOMAIN journal :
       /\ FirstVerdict(j) /\ journal[j].what = "authorized"
       /\ worker' = [worker EXCEPT
            !.pc = IF worker.phase = 1 THEN "persist" ELSE "investor", !.task = FALSE,
            !.server = IF worker.phase = 1 THEN journal[j].server ELSE @]
  /\ ReleaseTask
  /\ UNCHANGED <<machine, passwords, readiness, template, counts>>

Persist ==
  /\ At("persist") /\ kept
  /\ Goto("erase")
  /\ UNCHANGED <<machine, passwords, launch, readiness, template, counts>>

\* _secure_delete_config.
Erase ==
  /\ At("erase")
  /\ passwords' = passwords \ {"login-bootstrap.ini"}
  /\ Goto("halt")
  /\ UNCHANGED <<machine, launch, readiness, template, counts>>

\* stop deletes the task it knows of, the launcher any task would run, and every
\* terminal of the instance.
StopAll ==
  /\ launch' = IF worker.task THEN NoTask ELSE [launch EXCEPT !.due = FALSE]
  /\ \/ terminal' = NoTerminal /\ UNCHANGED stopFaults
     \/ /\ Alive /\ HasFault /\ stopFaults' = stopFaults + 1
        /\ UNCHANGED terminal

Halt ==
  /\ At("halt") /\ StopAll
  /\ worker' = [worker EXCEPT !.pc = IF terminal' = NoTerminal THEN "clear" ELSE "except"]
  /\ UNCHANGED <<rights, passwords, sessions, kept, journal, readiness, template, calls, crashes,
                 runFaults>>

\* Chart profile, examples and published files are cleared, the preference written.
Clear ==
  /\ At("clear")
  /\ Unpublish
  /\ worker' = [worker EXCEPT !.pc = "configure", !.phase = 2]
  /\ UNCHANGED <<machine, passwords, launch, template, counts>>

\* The journal proves that the password cannot trade.
Investor ==
  /\ At("investor")
  /\ \/ /\ Logged("enabled") /\ Goto("except")
     \/ /\ Logged("synchronized") /\ Logged("disabled") /\ ~Logged("enabled")
        /\ Goto(IF worker.kind = "start" THEN "probe" ELSE "ready?")
  /\ UNCHANGED <<machine, passwords, launch, readiness, template, counts>>

\* discovered-symbol.json names login, server and instance.
Probe ==
  /\ At("probe") /\ discovered # 0
  /\ Goto("attach")
  /\ UNCHANGED <<machine, passwords, launch, readiness, template, counts>>

Attach ==
  /\ At("attach")
  /\ template' = TRUE /\ handoff' = TRUE
  /\ Goto("ready?")
  /\ UNCHANGED <<machine, passwords, launch, account, heartbeat, discovered, counts>>

\* _wait_for_heartbeat: the expert has published and what it says of the account fits.
Ready ==
  /\ At("ready?") /\ heartbeat # 0 /\ account.server # None
  /\ Goto(IF account.server # worker.server \/ rights = "master" THEN "except" ELSE "hide")
  /\ UNCHANGED <<machine, passwords, launch, readiness, template, counts>>

\* set_terminal_window_visibility: a helper in the terminal's session finds its process.
Hide ==
  /\ At("hide")
  /\ Goto(IF ~Alive THEN "except" ELSE IF worker.kind = "start" THEN "finally" ELSE "ready")
  /\ UNCHANGED <<machine, passwords, launch, readiness, template, counts>>

\* A wait fails: a bad line, a dead terminal, its deadline, a cancelled job.
WaitFails ==
  /\ worker.pc \in Waiting \cup {"launch"}
  /\ Goto("except")
  /\ UNCHANGED <<machine, passwords, launch, readiness, template, counts>>

\* The result of stop is not looked at.
StopFailed ==
  /\ At("except") /\ StopAll
  /\ worker' = [worker EXCEPT !.pc = "finally", !.phase = 0, !.task = FALSE,
                              !.stopFailed = terminal' # NoTerminal]
  /\ UNCHANGED <<rights, passwords, sessions, kept, journal, readiness, template, calls, crashes,
                 runFaults>>

Written == IF worker.kind = "resume" THEN {} ELSE {"login-bootstrap.ini", "startup.ini"}

\* Both configurations this call has written are destroyed.
Finally ==
  /\ At("finally")
  /\ passwords' = passwords \ Written
  /\ Goto(IF worker.phase = 0 THEN "failed" ELSE "ready")
  /\ UNCHANGED <<machine, launch, readiness, template, counts>>

End ==
  /\ worker.pc \in {"ready", "failed"}
  /\ worker' = NoCall
  /\ UNCHANGED <<machine, passwords, launch, readiness, template, counts>>

\* The task of the interrupted call and its launcher stay: the task's time will come.
Crash ==
  /\ ~At("idle") /\ crashes < MaxCrashes /\ HasFault
  /\ crashes' = crashes + 1
  /\ worker' = NoCall
  /\ launch' = IF worker.task THEN [launch EXCEPT !.due = TRUE] ELSE launch
  /\ UNCHANGED <<machine, passwords, readiness, template, calls, stopFaults, runFaults>>

-----------------------------------------------------------------------------
(* The terminal, its script and the expert.                                 *)

env == <<rights, worker, passwords, counts, template>>

\* A second terminal in the same directory ends at once.
Boot ==
  /\ launch.due /\ sessions < MaxSessions
  /\ launch' = [launch EXCEPT !.due = FALSE]
  /\ IF Alive THEN UNCHANGED <<terminal, sessions>>
     ELSE /\ sessions' = sessions + 1
          /\ terminal' = [NoTerminal EXCEPT !.session = sessions + 1, !.phase = launch.phase,
                                            !.ea = launch.ea]
  /\ UNCHANGED <<env, kept, journal, readiness>>

Says(line) ==
  /\ journal' = Append(journal, line)
  /\ UNCHANGED <<env, launch, sessions, readiness>>

Login ==
  /\ Alive /\ terminal.server = None
  /\ \/ \E s \in Servers : /\ terminal' = [terminal EXCEPT !.server = s]
                           /\ Says(Entry("authorized", s)) /\ UNCHANGED kept
     \/ /\ \A i \in DOMAIN journal : journal[i].what # "invalid"
        /\ Says(Entry("invalid", None))
        /\ UNCHANGED <<terminal, kept>>

KeepPrivate ==
  /\ Alive /\ terminal.server # None /\ ~kept
  /\ kept' = TRUE
  /\ UNCHANGED <<env, launch, terminal, sessions, journal, readiness>>

\* After the synchronisation the terminal says whether the password can trade.
Synchronize ==
  /\ Alive /\ journal # <<>>
  /\ \/ /\ journal[Len(journal)].what = "authorized"
        /\ Says(Entry("synchronized", terminal.server))
     \/ /\ journal[Len(journal)].what = "synchronized"
        /\ Says(Entry(IF rights = "investor" THEN "disabled" ELSE "enabled", terminal.server))
  /\ UNCHANGED <<terminal, kept>>

\* The discovery script runs in the terminal that start launches second.
Discover ==
  /\ Alive /\ terminal.phase = 2 /\ ~terminal.ea /\ terminal.server # None
  /\ discovered' = terminal.session
  /\ UNCHANGED <<env, launch, terminal, sessions, kept, journal, account, heartbeat, handoff>>

ApplyTemplate ==
  /\ Alive /\ discovered = terminal.session /\ handoff /\ ~terminal.ea
  /\ terminal' = [terminal EXCEPT !.ea = TRUE]
  /\ UNCHANGED <<env, launch, sessions, kept, journal, readiness>>

\* The expert publishes account.json and heartbeat.json one after the other.
Publish ==
  /\ Alive /\ terminal.ea
  /\ \/ /\ account' = [session |-> terminal.session, server |-> terminal.server]
        /\ UNCHANGED heartbeat
     \/ /\ account.session = terminal.session /\ heartbeat' = terminal.session
        /\ UNCHANGED account
  /\ UNCHANGED <<env, launch, terminal, sessions, kept, journal, discovered, handoff>>

Die ==
  /\ Alive /\ terminal' = NoTerminal
  /\ UNCHANGED <<env, launch, sessions, kept, journal, readiness>>

Worker == \/ Configure \/ Launch \/ LaunchFails \/ Authorize \/ Persist \/ Erase \/ Halt \/ Clear
          \/ Investor \/ Probe \/ Attach \/ Ready \/ Hide \/ WaitFails \/ StopFailed
          \/ Finally \/ End
Terminal == Boot \/ Login \/ KeepPrivate \/ Synchronize \/ Discover \/ ApplyTemplate
            \/ Publish \/ Die
Next == Start \/ Resume \/ Worker \/ Crash \/ Terminal

Spec == Init /\ [][Next]_vars

-----------------------------------------------------------------------------
Call == [pc : Steps, kind : {None, "start", "resume"}, phase : 0..2,
         server : Servers \cup {None}, checkpoint : Nat,
         task : BOOLEAN, left : BOOLEAN, stopFailed : BOOLEAN]
Task == [due : BOOLEAN, phase : 0..2, ea : BOOLEAN]
Process == [session : 0..MaxSessions, phase : 0..2, server : Servers \cup {None}, ea : BOOLEAN]
Published == [session : 0..MaxSessions, server : Servers \cup {None}]

TypeOK ==
  /\ rights \in {"investor", "master"}
  /\ worker \in Call
  /\ passwords \subseteq {"login-bootstrap.ini", "startup.ini"}
  /\ launch \in Task
  /\ terminal \in Process
  /\ sessions \in 0..MaxSessions /\ kept \in BOOLEAN /\ journal \in Seq(Line)
  /\ account \in Published
  /\ heartbeat \in 0..MaxSessions /\ discovered \in 0..MaxSessions
  /\ handoff \in BOOLEAN /\ template \in BOOLEAN
  /\ calls \in 0..MaxCalls /\ crashes \in 0..MaxCrashes
  /\ stopFaults \in Nat /\ runFaults \in Nat

\* A task that an interrupted call left behind may start its terminal between the look
\* at the processes and the launch of a resume; if that terminal then ends, its lines and
\* files are taken for those of the terminal launched.  A start stops what it began
\* with before the terminal whose expert it waits for.
Undisturbed == worker.kind = "resume" => ~worker.left

\* A call that succeeds has seen what the expert of the terminal it launched says,
\* on the server it reports, and never what an earlier terminal left behind.
ReadyIsProved ==
  At("ready") =>
    /\ rights = "investor"
    /\ Undisturbed => /\ account.session = sessions /\ heartbeat = sessions
                      /\ account.server = worker.server

\* The expert is not started before the journal has proved investor mode
\* (native_mt5_runtime.py:1353).
ExpertNeedsProof ==
  worker.kind = "start" /\ terminal.ea /\ terminal.phase = 2 /\ handoff => rights = "investor"

\* What a call concludes from the journal is about the terminal it has launched,
\* not about the one it stopped between the phases.
JournalIsCurrent ==
  worker.pc \in {"investor", "probe", "attach"} /\ Undisturbed /\ Alive
    => terminal.server # None

\* A failed call leaves neither a terminal nor a task that could start one, unless it
\* could not stop the terminal, or a crash has left a task: no path of a later call that
\* fails early deletes it.  A task that was created and could not be run stays as well,
\* without the launcher it would run (native_mt5_runtime.py:1543).
FailureLeavesNothing ==
  At("failed") /\ ~worker.stopFailed /\ crashes = 0 => ~Alive /\ ~launch.due

\* A password is on disk only while a call is running, unless the agent crashed.
PasswordRemoved ==
  crashes = 0 /\ worker.pc \in {"idle", "ready", "failed"} => passwords = {}

-----------------------------------------------------------------------------
(* The inductive invariant.                                                 *)

Ending == {"ready?", "hide", "finally", "ready"}

\* A call's kind and phase at its steps.
CallInv ==
  /\ At("idle") => worker = NoCall
  /\ ~At("idle") => worker.kind \in {"start", "resume"}
  /\ worker.pc \in {"configure", "launch", "authorize"} => worker.phase \in {1, 2}
  /\ worker.pc \in {"investor", "probe", "attach", "ready?", "hide", "ready"}
       => worker.phase = 2
  /\ At("finally") => worker.phase \in {0, 2}

\* Whose password is on disk.
SecretInv ==
  crashes = 0 /\ (worker.kind = "resume" \/ worker.pc \in {"idle", "ready", "failed"})
    => passwords = {}

\* When a task may start a terminal, and when none runs, if no call was interrupted.
TaskInv ==
  crashes = 0 =>
    /\ launch.due => worker.pc \in {"authorize", "except"}
    /\ worker.pc \in {"configure", "launch"} => ~Alive
    /\ (At("finally") /\ worker.phase = 0) \/ At("failed") => worker.stopFailed \/ ~Alive

\* What depends on the journal's proof of investor mode.
InvestorInv ==
  /\ \A i \in DOMAIN journal : journal[i].what = "disabled" => rights = "investor"
  /\ handoff \/ worker.pc \in {"probe", "attach", "ready?", "hide", "ready"}
              \/ (At("finally") /\ worker.phase = 2)
       => rights = "investor"

Unpublished == account = NoAccount /\ heartbeat = 0
\* What is published is from the last terminal.
Current ==
  /\ account = NoAccount \/ account.session = sessions
  /\ heartbeat \in {0, sessions}
  /\ Alive => account.server \in {None, terminal.server}
\* No terminal, no task that could start one, and nothing published.
Quiet == ~Alive /\ ~launch.due /\ Unpublished

\* The second phase of a start, and a resume, know the terminal they launch.
OwnTerminal ==
  /\ worker.pc \in {"configure", "launch"} => Quiet
  /\ At("authorize") /\ launch.due
       => ~Alive /\ Unpublished /\ Len(journal) = worker.checkpoint
  /\ At("authorize") /\ ~launch.due
       => Current /\ (Alive /\ Logged("authorized") => terminal.server # None)
  /\ worker.pc \in {"investor", "probe", "attach"} \cup Ending
       => Current /\ ~launch.due /\ (Alive => terminal.server # None)
  /\ worker.pc \in Ending \ {"ready?"}
       => account.server = worker.server /\ worker.server # None /\ heartbeat # 0

SessionInv ==
  /\ Alive => terminal.session = sessions
  /\ At("clear") => ~Alive /\ ~launch.due
  /\ worker.phase = 2 /\ Undisturbed => OwnTerminal

IInv == TypeOK /\ CallInv /\ SecretInv /\ TaskInv /\ InvestorInv /\ SessionInv
=============================================================================
