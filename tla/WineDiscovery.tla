---------------------------- MODULE WineDiscovery ----------------------------
(***************************************************************************)
(* The discovery of a server in the first-start wizard of a terminal that  *)
(* runs in Wine, prepared and not yet wired to the image.  A call of the   *)
(* Linux launcher takes the lock of the Wine prefix, runs one helper in a  *)
(* process group of its own and waits for it with a deadline; the helper   *)
(* opens every row of every query's result, reads the server of the page   *)
(* behind it, and accepts the only row that shows the expected one.        *)
(*                                                                         *)
(* Every call of this model asks for the same server in the same terminal. *)
(* The dialog is shared and has no owner: whoever runs may click.          *)
(***************************************************************************)
EXTENDS Naturals, Sequences, SequencesExt, FiniteSets

CONSTANTS
    Calls,        \* calls of discover
    Brokers,      \* what the search can list
    None,
    Queries,      \* number of queries of a request
    MaxIncidents  \* bound: operations that fail or hang, launchers killed and times
                  \* the dialog replaces its list on its own

Codes == {"ok", "terminal_not_found", "ui_unknown", "no_exact_match",
          "ambiguous_exact_match", "timeout"}

DiscoveryAssumption ==
    /\ None \notin Brokers \cup Calls \cup Codes
    /\ IsFiniteSet(Brokers)
    /\ Queries \in Nat \ {0}
    /\ MaxIncidents \in Nat

VARIABLES
    world,    \* what a query lists, and whose page shows the expected server
    ui,       \* the dialog: page, list, selected broker, broker of the page
    lock,     \* the call that holds .broker-discovery.lock
    at,       \* call -> where discover stands
    outcome,  \* call -> what discover returned or raised
    exchange, \* call -> its exchange directory exists
    result,   \* call -> result.json, or None
    helper,   \* call -> its helper's locals
    budget    \* incidents to come; did the dialog replace its list?

vars == <<world, ui, lock, at, outcome, exchange, result, helper, budget>>
launcher == <<lock, at, outcome, exchange>>

Lists == {s \in UNION {[1 .. n -> Brokers] : n \in 0 .. Cardinality(Brokers)} :
            IsInjective(s)}

LauncherPlaces == {"begin", "spawn", "wait", "kill", "read", "clean", "unlock",
                   "done", "killed"}

\* "exited" by main's return, "died" in any other way.
HelperPlaces == {"unborn", "open", "search", "row", "next", "server", "back",
                 "match", "accept", "verify", "close", "cleanup", "write", "exit",
                 "hung", "exited", "died"}

Locals == [at : HelperPlaces, query : 1 .. Queries, count : 0 .. Cardinality(Brokers),
           read : Seq(BOOLEAN), code : Codes, late : BOOLEAN]

TypeOK ==
    /\ world \in [lists : [1 .. Queries -> Lists], exact : SUBSET Brokers]
    /\ ui \in [page : {"none", "brokers", "servers"}, list : Lists,
               row : Brokers \cup {None}, shown : Brokers \cup {None}]
    /\ lock \in Calls \cup {None}
    /\ at \in [Calls -> LauncherPlaces]
    /\ outcome \in [Calls -> Codes \cup {"none", "busy", "helper_failed",
                                         "cleanup_failed"}]
    /\ exchange \in [Calls -> BOOLEAN]
    /\ result \in [Calls -> Codes \cup {None}]
    /\ helper \in [Calls -> Locals]
    /\ \A c \in Calls : Len(helper[c].read) <= helper[c].count
    /\ budget \in [incidents : Nat, rebuilt : BOOLEAN]

Init ==
    /\ world \in [lists : [1 .. Queries -> Lists], exact : SUBSET Brokers]
    /\ ui = [page |-> "brokers", list |-> <<>>, row |-> None, shown |-> None]
    /\ lock = None
    /\ at = [c \in Calls |-> "begin"]
    /\ outcome = [c \in Calls |-> "none"]
    /\ exchange = [c \in Calls |-> FALSE]
    /\ result = [c \in Calls |-> None]
    /\ helper = [c \in Calls |-> [at |-> "unborn", query |-> 1, count |-> 0,
                                  read |-> <<>>, code |-> "ok", late |-> FALSE]]
    /\ budget = [incidents |-> MaxIncidents, rebuilt |-> FALSE]

Fault ==
    budget.incidents > 0 /\ budget' = [budget EXCEPT !.incidents = @ - 1]

----------------------------------------------------------------------------
(* The helper: _WineWin32Session under WindowsMt5BrokerDiscovery.discover. *)

Helper(c, place) == helper[c].at = place
Go(c, place) == helper' = [helper EXCEPT ![c].at = place]

\* A process that is gone keeps no locals (but its query, for the properties).
Ended(c, how) ==
    helper' = [helper EXCEPT ![c].at = how, ![c].read = <<>>, ![c].count = 0,
                             ![c].code = "ok", ![c].late = FALSE]

\* Any BrokerDiscoveryError ends in the finally of discover.
Raise(c, code) == helper' = [helper EXCEPT ![c].at = "cleanup", ![c].code = code]

HelperOnly == UNCHANGED <<world, launcher, result>>

\* A control is missing, does not answer, or the deadline has passed.
Breaks(c) ==
    /\ Fault
    /\ \E code \in {"ui_unknown", "timeout"}, late \in BOOLEAN :
         /\ code = "timeout" => late
         /\ helper' = [helper EXCEPT ![c].at = "cleanup", ![c].code = code,
                                     ![c].late = late]
    /\ UNCHANGED ui

\* A step on a page: another page than the one expected is not recognised.
On(c, page, Step) ==
    \/ ui.page = page /\ Step /\ UNCHANGED budget
    \/ ui.page # page /\ Raise(c, "ui_unknown") /\ UNCHANGED <<ui, budget>>
    \/ Breaks(c)

\* _wait_unique_control: the deadline passes.
Expires(c) ==
    helper' = [helper EXCEPT ![c].at = "cleanup", ![c].code = "timeout",
                             ![c].late = TRUE]

\* A look at the server combo, which alone is waited for: a dialog that stays on
\* its other page is waited for to the deadline.
Look(c, Step) ==
    \/ ui.page = "servers" /\ Step /\ UNCHANGED <<ui, budget>>
    \/ ui.page = "brokers" /\ Expires(c) /\ UNCHANGED <<ui, budget>>
    \/ ui.page = "none" /\ Raise(c, "ui_unknown") /\ UNCHANGED <<ui, budget>>
    \/ Breaks(c)

\* open_session waits for the page; without a session there is nothing to close.
HelperOpen(c) ==
    /\ Helper(c, "open")
    /\ \/ ui.page = "brokers" /\ Go(c, "search") /\ UNCHANGED budget
       \/ /\ ui.page # "brokers"
          /\ helper' = [helper EXCEPT ![c].at = "write", ![c].code = "ui_unknown"]
          /\ UNCHANGED budget
       \/ /\ Fault
          /\ \E code \in {"terminal_not_found", "ui_unknown"} :
               helper' = [helper EXCEPT ![c].at = "write", ![c].code = code]
    /\ UNCHANGED ui
    /\ HelperOnly

\* The rows are counted once, when Find is enabled again and the count rests.
HelperSearch(c) ==
    /\ Helper(c, "search")
    /\ LET found == world.lists[helper[c].query]
       IN  On(c, "brokers",
             /\ ui' = [ui EXCEPT !.list = found, !.row = None, !.shown = None]
             /\ helper' = [helper EXCEPT ![c].at = "row", ![c].read = <<>>,
                                         ![c].count = Len(found)])
    /\ HelperOnly

\* LVM_SETITEMSTATE on the row of this position.
Select(c, i, next) ==
    IF i \in DOMAIN ui.list
    THEN ui' = [ui EXCEPT !.row = ui.list[i]] /\ Go(c, next)
    ELSE Raise(c, "ui_unknown") /\ UNCHANGED ui

HelperRow(c) ==
    /\ Helper(c, "row")
    /\ IF Len(helper[c].read) = helper[c].count
       THEN Go(c, "match") /\ UNCHANGED <<ui, budget>>
       ELSE On(c, "brokers", Select(c, Len(helper[c].read) + 1, "next"))
    /\ HelperOnly

\* Next is disabled while nothing is selected.
ClickNext(c, next) ==
    On(c, "brokers",
       IF ui.row # None
       THEN ui' = [ui EXCEPT !.page = "servers", !.shown = ui.row] /\ Go(c, next)
       ELSE Raise(c, "ui_unknown") /\ UNCHANGED ui)

HelperNext(c) == Helper(c, "next") /\ ClickNext(c, "server") /\ HelperOnly

\* _read_server_combo: does the page show the expected server?
Exact == ui.shown \in world.exact

HelperServer(c) ==
    /\ Helper(c, "server")
    /\ Look(c, helper' = [helper EXCEPT ![c].at = "back",
                                        ![c].read = Append(@, Exact)])
    /\ HelperOnly

HelperBack(c) ==
    /\ Helper(c, "back")
    /\ On(c, "servers",
          ui' = [ui EXCEPT !.page = "brokers", !.shown = None] /\ Go(c, "row"))
    /\ HelperOnly

Matches(read) == {i \in DOMAIN read : read[i]}

\* Mutant: the first of several matches will do.
FirstMatch(c) ==
    /\ Helper(c, "match")
    /\ IF Matches(helper[c].read) # {}
       THEN On(c, "brokers", Select(c, CHOOSE i \in Matches(helper[c].read) :
                                         \A j \in Matches(helper[c].read) : i <= j,
                                    "accept"))
       ELSE /\ IF helper[c].query < Queries
               THEN helper' = [helper EXCEPT ![c].at = "search", ![c].query = @ + 1]
               ELSE Raise(c, "no_exact_match")
            /\ UNCHANGED <<ui, budget>>
    /\ HelperOnly

\* select_exact_server, and what discover makes of it.
HelperMatch(c) ==
    /\ Helper(c, "match")
    /\ LET matches == Matches(helper[c].read)
       IN  \/ /\ Cardinality(matches) > 1
              /\ Raise(c, "ambiguous_exact_match")
              /\ UNCHANGED <<ui, budget>>
           \/ \E i \in matches :
                /\ matches = {i}
                /\ On(c, "brokers", Select(c, i, "accept"))
           \/ /\ matches = {}
              /\ IF helper[c].query < Queries
                 THEN helper' = [helper EXCEPT ![c].at = "search",
                                               ![c].query = @ + 1]
                 ELSE Raise(c, "no_exact_match")
              /\ UNCHANGED <<ui, budget>>
    /\ HelperOnly

HelperAccept(c) == Helper(c, "accept") /\ ClickNext(c, "verify") /\ HelperOnly

\* The rest of accept.
HelperVerify(c) ==
    /\ Helper(c, "verify")
    /\ Look(c, IF Exact THEN Go(c, "close") ELSE Raise(c, "ui_unknown"))
    /\ HelperOnly

Cancelled == [ui EXCEPT !.page = "none", !.list = <<>>, !.row = None]

\* After success close must work; a dialog that is gone is closed.
HelperClose(c) ==
    /\ Helper(c, "close")
    /\ \/ ui' = Cancelled /\ Go(c, "write") /\ UNCHANGED budget
       \/ ui.page # "none" /\ Breaks(c)
    /\ HelperOnly

\* The finally: close again, whatever comes of it.  Past the deadline Cancel is
\* not clicked any more, because its own wait has no time left.
HelperCleanup(c) ==
    /\ Helper(c, "cleanup")
    /\ Go(c, "write")
    /\ \/ ~helper[c].late /\ ui' = Cancelled /\ UNCHANGED budget
       \/ helper[c].late /\ UNCHANGED <<ui, budget>>
       \/ Fault /\ UNCHANGED ui
    /\ HelperOnly

HelperWrite(c) ==
    /\ Helper(c, "write")
    /\ result' = [result EXCEPT ![c] = helper[c].code]
    /\ Go(c, "exit")
    /\ UNCHANGED <<world, ui, launcher, budget>>

HelperExit(c) ==
    /\ Helper(c, "exit")
    /\ Ended(c, "exited")
    /\ UNCHANGED <<world, ui, launcher, result, budget>>

Running(c) == helper[c].at \notin {"unborn", "exited", "died"}

\* Wine ends the process, or a call into the terminal does not return.
HelperFails(c) ==
    /\ Running(c) /\ ~Helper(c, "hung")
    /\ Fault
    /\ Ended(c, "died") \/ Go(c, "hung")
    /\ UNCHANGED <<world, ui, launcher, result>>

----------------------------------------------------------------------------
(* The launcher. *)

At(c, place) == at[c] = place
Move(c, place) == at' = [at EXCEPT ![c] = place]
Ends(c, place, code) ==
    at' = [at EXCEPT ![c] = place] /\ outcome' = [outcome EXCEPT ![c] = code]

LauncherOnly == UNCHANGED <<world, ui>>

\* _acquire_prefix_lock does not wait; then a fresh exchange with the request.
Begin(c) ==
    /\ At(c, "begin")
    /\ \/ /\ lock = None
          /\ lock' = c
          /\ exchange' = [exchange EXCEPT ![c] = TRUE]
          /\ Move(c, "spawn") /\ UNCHANGED outcome
       \/ /\ lock # None
          /\ Ends(c, "done", "busy")
          /\ UNCHANGED <<lock, exchange>>
    /\ UNCHANGED <<result, helper, budget>> /\ LauncherOnly

Spawn(c) ==
    /\ At(c, "spawn")
    /\ \/ /\ Move(c, "wait") /\ Go(c, "open")
          /\ UNCHANGED <<outcome, budget>>
       \/ /\ Fault
          /\ Ends(c, "clean", "helper_failed") /\ UNCHANGED helper
    /\ UNCHANGED <<lock, exchange, result>> /\ LauncherOnly

Exited(c) ==
    /\ At(c, "wait")
    /\ ~Running(c)
    /\ Move(c, "read")
    /\ UNCHANGED <<lock, outcome, exchange, result, helper, budget>> /\ LauncherOnly

\* Mutant: the launcher waits as long as the helper lives.
WaitsForEver(c) ==
    /\ At(c, "wait")
    /\ FALSE
    /\ UNCHANGED vars

\* The deadline, ten seconds after the helper's.  (An exception in the wait does
\* the same under its own name.)
WaitEnds(c) ==
    /\ At(c, "wait")
    /\ Ends(c, "kill", "timeout")
    /\ UNCHANGED <<lock, exchange, result, helper, budget>> /\ LauncherOnly

\* _terminate_helper: nothing to do, SIGTERM or SIGKILL; or it is still there after
\* both waits, with a SIGKILL pending that lets it do nothing more.
Terminate(c) ==
    /\ At(c, "kill")
    /\ \/ /\ Move(c, "clean")
          /\ IF Running(c) THEN Ended(c, "died") ELSE UNCHANGED helper
          /\ UNCHANGED <<outcome, budget>>
       \/ /\ Running(c)
          /\ Fault
          /\ Ends(c, "clean", "cleanup_failed")
          /\ Ended(c, "died")
    /\ UNCHANGED <<lock, exchange, result>> /\ LauncherOnly

\* _read_result: a result that does not fit the exit code is none.
ReadResult(c) ==
    /\ At(c, "read")
    /\ Ends(c, "clean", IF Helper(c, "exited") THEN result[c] ELSE "helper_failed")
    /\ UNCHANGED <<lock, exchange, result, helper, budget>> /\ LauncherOnly

\* The inner finally: a failing rmtree matters only where nothing else failed.
Clean(c) ==
    /\ At(c, "clean")
    /\ \/ /\ exchange' = [exchange EXCEPT ![c] = FALSE]
          /\ result' = [result EXCEPT ![c] = None]
          /\ Move(c, "unlock") /\ UNCHANGED <<outcome, budget>>
       \/ /\ Fault
          /\ Ends(c, "unlock",
                  IF outcome[c] = "ok" THEN "cleanup_failed" ELSE outcome[c])
          /\ UNCHANGED <<exchange, result>>
    /\ UNCHANGED <<lock, helper>> /\ LauncherOnly

Unlock(c) ==
    /\ At(c, "unlock")
    /\ lock' = None
    /\ Move(c, "done")
    /\ UNCHANGED <<outcome, exchange, result, helper, budget>> /\ LauncherOnly

\* SIGKILL, or a SIGTERM nobody handles: the kernel drops the lock, the helper is
\* in a session of its own and goes on.
Kill(c) ==
    /\ at[c] \notin {"begin", "done", "killed"}
    /\ Fault
    /\ lock' = IF lock = c THEN None ELSE lock
    /\ Move(c, "killed")
    /\ UNCHANGED <<outcome, exchange, result, helper>> /\ LauncherOnly

----------------------------------------------------------------------------
\* Rows that arrive after the count has rested, or go.
Rebuild ==
    /\ ui.page = "brokers"
    /\ budget.incidents > 0
    /\ budget' = [incidents |-> budget.incidents - 1, rebuilt |-> TRUE]
    /\ \E l \in Lists : ui' = [ui EXCEPT !.list = l, !.row = None]
    /\ UNCHANGED <<world, launcher, result, helper>>

HelperStep(c) ==
    \/ HelperOpen(c) \/ HelperSearch(c) \/ HelperRow(c) \/ HelperNext(c)
    \/ HelperServer(c) \/ HelperBack(c) \/ HelperMatch(c) \/ HelperAccept(c)
    \/ HelperVerify(c) \/ HelperClose(c) \/ HelperCleanup(c) \/ HelperWrite(c)
    \/ HelperExit(c)

LauncherStep(c) ==
    \/ Begin(c) \/ Spawn(c) \/ Exited(c) \/ WaitEnds(c) \/ Terminate(c)
    \/ ReadResult(c) \/ Clean(c) \/ Unlock(c)

Next ==
    \/ \E c \in Calls : HelperStep(c) \/ HelperFails(c) \/ LauncherStep(c) \/ Kill(c)
    \/ Rebuild

Spec == Init /\ [][Next]_vars

\* The launcher runs; nothing is assumed of the helper or the terminal.
FairSpec == Spec /\ \A c \in Calls : WF_vars(LauncherStep(c))

----------------------------------------------------------------------------
(* Properties. *)

\* discover reports the server as found only if the broker whose page was open
\* when the wizard was cancelled shows exactly that server, however the list
\* changed between the probing of its rows and the acceptance of one.
FoundWasAccepted ==
    \A c \in Calls : outcome[c] = "ok" => ui.shown \in world.exact

\* "A modal wizard left open can block the subsequent credential bootstrap": a
\* successful call leaves no dialog, no helper and no exchange directory.
FoundIsQuiet ==
    \A c \in Calls :
      outcome[c] = "ok" /\ at[c] = "done" =>
        ui.page = "none" /\ ~Running(c) /\ ~exchange[c]

\* Nobody killed a launcher: its helper would go on without the lock.
NoneKilled == \A c \in Calls : at[c] # "killed"

\* The rows of a query whose page shows the server.
Rows(q) == {i \in DOMAIN world.lists[q] : world.lists[q][i] \in world.exact}

\* While the list stands still: found means that one row of the query shows the
\* server and no other does; no_exact_match means that no row of any query does.
ExactOrNothing ==
    ~budget.rebuilt /\ NoneKilled => \A c \in Calls :
      /\ outcome[c] = "ok" => Cardinality(Rows(helper[c].query)) = 1
      /\ outcome[c] = "no_exact_match" => \A q \in 1 .. Queries : Rows(q) = {}

\* The lock on the prefix keeps retries and concurrent jobs from driving the same
\* window at the same time.
OneDriver == NoneKilled => Cardinality({c \in Calls : Running(c)}) <= 1

\* Whatever the helper does or does not do, a call comes back unless its launcher
\* is killed: again and again no launcher waits.
DiscoverReturns == []<>(\A c \in Calls : at[c] # "wait")

----------------------------------------------------------------------------
(* The inductive invariant. *)

\* A call that is neither killed nor back holds the lock, nobody else does, and its
\* helper lives only while the launcher waits for it or is gone itself.
LockInv ==
    \A c \in Calls :
      /\ lock = c <=> at[c] \in {"spawn", "wait", "kill", "read", "clean", "unlock"}
      /\ at[c] \in {"begin", "spawn"} => Helper(c, "unborn")
      /\ Running(c) => at[c] \in {"wait", "kill", "killed"}

\* A helper starts with the first query, finds no reason to fail before it fails, and
\* has written its result when it exits.
Orderly(c) ==
    /\ helper[c].at \in {"unborn", "open"} => helper[c].query = 1
    /\ helper[c].at \in {"unborn", "open", "search", "row", "next", "server", "back",
                         "match", "accept", "verify", "close"} => helper[c].code = "ok"
    /\ helper[c].at = "cleanup" => helper[c].code # "ok"
    /\ helper[c].at \in {"next", "server"} => Len(helper[c].read) < helper[c].count
    /\ result[c] # None => helper[c].at \in {"exit", "hung", "exited", "died"}
    /\ helper[c].at \in {"exit", "exited"} /\ at[c] \in {"wait", "kill", "read"}
         => result[c] # None
    /\ outcome[c] \in {"ok", "no_exact_match"} =>
         /\ Helper(c, "exited")
         /\ at[c] \in {"clean", "unlock", "done", "killed"}
         /\ outcome[c] = "ok" /\ at[c] \in {"unlock", "done"} => ~exchange[c]

LocalsInv == \A c \in Calls : Orderly(c)

\* A helper's code, its result or its launcher's outcome says so.
Claims(c, code) ==
    \/ helper[c].at \in {"cleanup", "write", "exit"} /\ helper[c].code = code
    \/ result[c] = code
    \/ outcome[c] = code

OnServers(c) == helper[c].at \in {"server", "back", "verify", "close"}

\* Two helpers may run where a launcher was killed; of these one at most came to the
\* page of servers that is open, for only the list of brokers leads there.  A dialog
\* that is closed stays closed, and keeps what it showed.
PageInv ==
    /\ \A c \in Calls :
         /\ OnServers(c) => ui.page # "brokers"
         /\ Helper(c, "close") => Exact
         /\ Claims(c, "ok") => ui.page = "none" /\ Exact
    /\ \A c, d \in Calls :
         ui.page = "servers" /\ OnServers(c) /\ OnServers(d) => c = d

\* What the helper of a call has read is what the pages of its query show.
HasRead(c) ==
    LET h == helper[c]
        list == world.lists[h.query]
    IN  /\ ui.list = list /\ h.count = Len(list)
        /\ \A i \in 1 .. Len(h.read) : h.read[i] = (list[i] \in world.exact)
        /\ Helper(c, "next") => ui.row = list[Len(h.read) + 1]
        /\ Helper(c, "server") => ui.shown = list[Len(h.read) + 1]
        /\ Helper(c, "match") => Len(h.read) = h.count

\* It has passed over the queries without such a row, and accepts the only one.
Probed(c) ==
    /\ helper[c].at \in {"row", "next", "server", "back", "match"} => HasRead(c)
    /\ helper[c].at \in {"search", "row", "next", "server", "back", "match"}
         => \A q \in 1 .. helper[c].query - 1 : Rows(q) = {}
    /\ helper[c].at \in {"accept", "verify", "close"}
         => Cardinality(Rows(helper[c].query)) = 1

\* While the list stands still and no launcher is killed.
ExactInv ==
    ~budget.rebuilt /\ NoneKilled => \A c \in Calls :
      /\ Probed(c)
      /\ Claims(c, "ok") => Cardinality(Rows(helper[c].query)) = 1
      /\ Claims(c, "no_exact_match") => \A q \in 1 .. Queries : Rows(q) = {}

IInv == TypeOK /\ LockInv /\ LocalsInv /\ PageInv /\ ExactInv
=============================================================================
