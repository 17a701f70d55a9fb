---------------------------- MODULE BrokerWizard ----------------------------
(***************************************************************************)
(* The census of a broker's servers through MT5's "Open an Account"        *)
(* dialog.  The agent's service (HiddenSessionBrokerWizard) publishes a    *)
(* request, runs a one-shot helper as a scheduled task on the interactive  *)
(* desktop and polls for its result; the helper (broker_wizard_ui._run)    *)
(* drives the terminal's dialog: it searches a term, clicks one result row *)
(* after the other, reads the servers of the broker that Next opened, and  *)
(* returns with Back.                                                      *)
(*                                                                         *)
(* The dialog is a process of its own.  A result row has no name a driver  *)
(* can hold on to: the helper knows it by its position, the dialog by its  *)
(* selection, and the list may be filled or rebuilt at any moment.         *)
(***************************************************************************)
EXTENDS Naturals, Sequences, FiniteSets, SequencesExt

CONSTANTS
    Brokers,      \* what the search can list
    None,
    Terms,        \* number of search terms of a request
    MaxResults,   \* _MAX_BROKER_RESULTS
    MaxFaults,    \* bound: operations that fail, deadlines that pass on a helper
    MaxRebuilds,  \* bound: times the dialog replaces its list on its own
    EndKills      \* schtasks /End takes the helper process with it

Failures == {"terminal_start_failed", "terminal_process_ambiguous",
             "wizard_not_found", "driver_failure", "server_not_found",
             "timeout", "cleanup_failed"}

Reasons == Failures \cup {None}

WizardAssumption ==
    /\ None \notin Brokers \cup Failures
    /\ IsFiniteSet(Brokers)
    /\ Terms \in Nat \ {0}
    /\ {MaxResults, MaxFaults, MaxRebuilds} \subseteq Nat
    /\ EndKills \in BOOLEAN

VARIABLES
    world,     \* what the search lists, who owns the server, whose row is legible
    ui,        \* the dialog: page, result list, selected broker, broker of the menu
    terminal,  \* a terminal of this instance runs
    helper,    \* the helper's locals
    result,    \* result.json, or None
    service,   \* the service's locals
    request,   \* request.json exists
    budget

vars == <<world, ui, terminal, helper, result, service, request, budget>>

Lists == {s \in UNION {[1 .. n -> Brokers] : n \in 0 .. Cardinality(Brokers)} :
            IsInjective(s)}

HelperPlaces == {"unborn", "read", "launch", "attach", "open", "search", "row",
                 "click", "next", "servers", "back", "choose", "close", "write",
                 "exited", "killed"}

ServicePlaces == {"request", "grant", "create", "run", "poll", "end", "delete",
                  "terminal", "files", "done"}

Results == [reason : Reasons, label : Brokers \cup {None}]

TypeOK ==
    /\ world \in [lists : [1 .. Terms -> Lists], owners : SUBSET Brokers,
                  legible : SUBSET Brokers]
    /\ ui \in [page : {"none", "brokers", "servers"}, list : Lists,
               row : Brokers \cup {None}, menu : Brokers \cup {None}]
    /\ terminal \in BOOLEAN /\ request \in BOOLEAN
    /\ helper \in [at : HelperPlaces, term : 1 .. Terms, todo : SUBSET (Nat \ {0}),
                   tested : SUBSET Brokers, again : BOOLEAN, index : Nat \ {0},
                   label : Brokers \cup {None}, reason : Reasons,
                   chosen : Brokers \cup {None}]
    /\ result \in Results \cup {None}
    /\ service \in [at : ServicePlaces, task : BOOLEAN, reason : Reasons,
                    outcome : {"none", "evidence", "failed", "cancelled", "unclean"}]
    /\ budget \in [faults : 0 .. MaxFaults, rebuilds : 0 .. MaxRebuilds]

Init ==
    /\ world \in [lists : [1 .. Terms -> Lists], owners : SUBSET Brokers,
                  legible : SUBSET Brokers]
    /\ ui = [page |-> "none", list |-> <<>>, row |-> None, menu |-> None]
    /\ terminal = FALSE
    /\ helper = [at |-> "unborn", term |-> 1, todo |-> {}, tested |-> {},
                 again |-> TRUE, index |-> 1, label |-> None, reason |-> None,
                 chosen |-> None]
    /\ result = None
    /\ service = [at |-> "request", task |-> FALSE, outcome |-> "none",
                  reason |-> None]
    /\ request = FALSE
    /\ budget = [faults |-> MaxFaults, rebuilds |-> MaxRebuilds]

Fault == budget.faults > 0 /\ budget' = [budget EXCEPT !.faults = @ - 1]

----------------------------------------------------------------------------
(* The helper. *)

Helper(place) == helper.at = place
Go(place) == helper' = [helper EXCEPT !.at = place]

\* Every failure inside _run ends in its finally.
Fail(reason) == helper' = [helper EXCEPT !.at = "close", !.reason = reason]

HelperOnly == UNCHANGED <<world, service, request, result>>

\* _read_request: without its request the helper exits and writes no result.
HelperRead ==
    /\ Helper("read")
    /\ Go(IF request THEN "launch" ELSE "exited")
    /\ UNCHANGED <<ui, terminal, budget>> /\ HelperOnly

HelperLaunch ==
    /\ Helper("launch")
    /\ \/ terminal' = TRUE /\ Go("attach") /\ UNCHANGED budget
       \/ Fault /\ Go("exited") /\ UNCHANGED terminal
    /\ UNCHANGED ui /\ HelperOnly

\* Exactly one process of this executable that is as young as this run.
HelperAttach ==
    /\ Helper("attach")
    /\ \/ Go("open") /\ UNCHANGED budget
       \/ /\ Fault
          /\ \E r \in {"terminal_start_failed", "terminal_process_ambiguous"} :
               Fail(r)
    /\ UNCHANGED <<ui, terminal>> /\ HelperOnly

\* The dialog MT5 shows on its first start, or the one its menu opens.
HelperOpen ==
    /\ Helper("open")
    /\ \/ /\ ui' = [ui EXCEPT !.page = "brokers"]
          /\ Go("search")
          /\ UNCHANGED budget
       \/ /\ Fault
          /\ Fail("wizard_not_found")
          /\ UNCHANGED ui
    /\ UNCHANGED terminal /\ HelperOnly

\* _broker_result_labels: the row's own text, nothing when it has none.
Labels(list, i) ==
    IF i \in DOMAIN list /\ list[i] \in world.legible THEN list[i] ELSE None

\* _ordered_broker_result_indices: the positions whose label was not met before.
Unread(list) ==
    {i \in DOMAIN list : i <= MaxResults /\ Labels(list, i) \notin helper.tested}

\* What a query, or a rebuilt page, shows.
Searched(term) ==
    [page |-> "brokers", list |-> world.lists[term], row |-> None,
     menu |-> None]

\* All rows of a result are marked as tested before the first is opened, and a
\* row without text forbids the next term.
HelperSearch ==
    /\ Helper("search")
    /\ LET found == Searched(helper.term)
           rows == Unread(found.list)
           seen == {Labels(found.list, i) : i \in rows}
       IN  \/ /\ ui' = found
              /\ helper' = [helper EXCEPT !.at = "row", !.todo = rows,
                              !.tested = @ \cup (seen \ {None}),
                              !.again = @ /\ None \notin seen]
              /\ UNCHANGED budget
           \/ /\ Fault
              /\ Fail("driver_failure")
              /\ UNCHANGED ui
    /\ UNCHANGED terminal /\ HelperOnly

\* The next row: its label is read from the list of this moment.
HelperRow ==
    /\ Helper("row")
    /\ \/ /\ \E i \in helper.todo :
                /\ \A j \in helper.todo : i <= j
                /\ helper' = [helper EXCEPT !.at = "click", !.index = i,
                                !.todo = @ \ {i}, !.label = Labels(ui.list, i)]
          /\ UNCHANGED budget
       \/ /\ helper.todo # {}
          /\ Fault
          /\ \E r \in {"timeout", "driver_failure"} : Fail(r)
       \/ /\ helper.todo = {}
          /\ helper.term < Terms /\ helper.again
          /\ helper' = [helper EXCEPT !.at = "search", !.term = @ + 1]
          /\ UNCHANGED budget
       \/ /\ helper.todo = {}
          /\ ~(helper.term < Terms /\ helper.again)
          /\ Fail("server_not_found")
          /\ UNCHANGED budget
    /\ UNCHANGED <<ui, terminal>> /\ HelperOnly

\* The click goes to the middle of the row's rectangle.  A row that is not in view
\* has no rectangle, or does not take the click: the selection stays what it was.
HelperClick ==
    /\ Helper("click")
    /\ \/ /\ helper.index \in DOMAIN ui.list
          /\ ui' = [ui EXCEPT !.row = ui.list[helper.index]]
          /\ Go("next")
          /\ UNCHANGED budget
       \/ /\ helper.index \in DOMAIN ui.list
          /\ Fault
          /\ Go("next") \/ Fail("driver_failure")
          /\ UNCHANGED ui
       \/ /\ helper.index \notin DOMAIN ui.list
          /\ Fail("driver_failure")
          /\ UNCHANGED <<ui, budget>>
    /\ UNCHANGED terminal /\ HelperOnly

\* _resume_broker_results: the visible page again, or a fresh query.
Resume ==
    /\ ui' \in {ui, Searched(helper.term)}
    /\ Go("row")

\* Next opens the servers of the selected broker; where it stays disabled the
\* row is given up, and a page that cannot be resumed ends the census.
HelperNext ==
    /\ Helper("next")
    /\ \/ /\ ui.row # None
          /\ ui' = [ui EXCEPT !.page = "servers", !.menu = ui.row]
          /\ Go("servers")
          /\ UNCHANGED budget
       \/ /\ ui.row = None
          /\ Resume
          /\ UNCHANGED budget
       \/ /\ Fault
          /\ Resume \/ (Fail("driver_failure") /\ UNCHANGED ui)
    /\ UNCHANGED terminal /\ HelperOnly

\* _server_names_from_dialog: the menu of the broker whose page is open.  A menu
\* that cannot be enabled gives the row up, any other failure the census.
Serves == ui.menu \in world.owners

\* Mutant: any broker with a server menu will do.
ServersAny ==
    /\ Helper("servers")
    /\ Go("choose")
    /\ UNCHANGED <<ui, terminal, budget>> /\ HelperOnly

HelperServers ==
    /\ Helper("servers")
    /\ \/ /\ Go(IF Serves THEN "choose" ELSE "back")
          /\ UNCHANGED budget
       \/ Fault /\ (Go("back") \/ Fail("driver_failure"))
    /\ UNCHANGED <<ui, terminal>> /\ HelperOnly

\* _recover_broker_results: Back twice, then a fresh query, then no more.
HelperBack ==
    /\ Helper("back")
    /\ \/ /\ ui' \in {[ui EXCEPT !.page = "brokers", !.menu = None],
                      Searched(helper.term)}
          /\ Go("row")
          /\ UNCHANGED budget
       \/ /\ Fault
          /\ Fail("driver_failure")
          /\ UNCHANGED ui
    /\ UNCHANGED terminal /\ HelperOnly

\* _selected_broker_label: a label that was observed, never the suggestion.
HelperChoose ==
    /\ Helper("choose")
    /\ IF helper.label = None
       THEN Fail("driver_failure")
       ELSE helper' = [helper EXCEPT !.at = "close", !.chosen = helper.label]
    /\ UNCHANGED <<ui, terminal, budget>> /\ HelperOnly

\* _close_run_terminals, in the finally.
HelperClose ==
    /\ Helper("close")
    /\ ui' = [ui EXCEPT !.page = "none", !.row = None, !.menu = None]
    /\ \/ /\ terminal' = FALSE
          /\ Go("write")
          /\ UNCHANGED budget
       \/ /\ Fault
          /\ helper' = [helper EXCEPT !.at = "write",
                                      !.reason = "cleanup_failed"]
          /\ UNCHANGED terminal
    /\ HelperOnly

\* main: a result that cannot be written leaves none.
HelperWrite ==
    /\ Helper("write")
    /\ \/ /\ result' = [reason |-> helper.reason,
                        label |-> IF helper.reason = None THEN helper.chosen
                                                          ELSE None]
          /\ UNCHANGED budget
       \/ Fault /\ UNCHANGED result
    /\ Go("exited")
    /\ UNCHANGED <<world, ui, terminal, service, request>>

----------------------------------------------------------------------------
(* The service. *)

Service(place) == service.at = place
Move(place) == service' = [service EXCEPT !.at = place]
Raise(outcome, reason) ==
    service' = [service EXCEPT !.at = "end", !.outcome = outcome,
                               !.reason = reason]

ServiceOnly == UNCHANGED <<world, ui>>

\* The request and the launcher are written before the try: where that fails the
\* call ends there, and a request that was written stays.
SvcRequest ==
    /\ Service("request")
    /\ \/ /\ request' = TRUE
          /\ Move("grant")
          /\ UNCHANGED budget
       \/ /\ Fault
          /\ request' \in BOOLEAN
          /\ service' = [service EXCEPT !.at = "done", !.outcome = "failed"]
    /\ UNCHANGED <<helper, terminal, result>> /\ ServiceOnly

SvcGrant ==
    /\ Service("grant")
    /\ \/ Move("create") /\ UNCHANGED budget
       \/ Fault /\ Raise("failed", None)
    /\ UNCHANGED <<helper, terminal, result, request>> /\ ServiceOnly

SvcCreate ==
    /\ Service("create")
    /\ \/ /\ service' = [service EXCEPT !.at = "run", !.task = TRUE]
          /\ UNCHANGED budget
       \/ Fault /\ Raise("failed", None)
    /\ UNCHANGED <<helper, terminal, result, request>> /\ ServiceOnly

SvcRun ==
    /\ Service("run")
    /\ \/ /\ Move("poll")
          /\ Go("read")
          /\ UNCHANGED budget
       \/ /\ Fault
          /\ Raise("failed", None)
          /\ UNCHANGED helper
    /\ UNCHANGED <<terminal, result, request>> /\ ServiceOnly

\* load_wizard_evidence: a result of this run is evidence or a named failure.
SvcLoad ==
    /\ Service("poll")
    /\ result # None
    /\ IF result.reason = None
       THEN Raise("evidence", None)
       ELSE Raise("failed", result.reason)
    /\ UNCHANGED <<helper, terminal, result, request, budget>> /\ ServiceOnly

\* A helper that left no result: the service polls until its deadline.
SvcTimeout ==
    /\ Service("poll")
    /\ result = None
    /\ helper.at \in {"exited", "killed"}
    /\ Raise("failed", "timeout")
    /\ UNCHANGED <<helper, terminal, result, request, budget>> /\ ServiceOnly

\* The deadline passes while the helper works.
SvcLate ==
    /\ Service("poll")
    /\ result = None
    /\ Fault
    /\ Raise("failed", "timeout")
    /\ UNCHANGED <<helper, terminal, result, request>> /\ ServiceOnly

\* cancel_check is the job's lease guard.
SvcCancel ==
    /\ Service("poll")
    /\ Fault
    /\ Raise("cancelled", None)
    /\ UNCHANGED <<helper, terminal, result, request>> /\ ServiceOnly

\* The finally, in its order: end the task, delete it, clean the path, unlink.
SvcEnd ==
    /\ Service("end")
    /\ Move(IF service.task THEN "delete" ELSE "terminal")
    /\ IF service.task /\ EndKills /\ helper.at \notin {"unborn", "exited"}
       THEN Go("killed")
       ELSE UNCHANGED helper
    /\ UNCHANGED <<terminal, result, request, budget>> /\ ServiceOnly

SvcDelete ==
    /\ Service("delete")
    /\ \/ /\ service' = [service EXCEPT !.at = "terminal", !.task = FALSE]
          /\ UNCHANGED budget
       \/ /\ Fault
          /\ service' = [service EXCEPT !.at = "terminal",
                                        !.outcome = "unclean"]
    /\ UNCHANGED <<helper, terminal, result, request>> /\ ServiceOnly

SvcTerminal ==
    /\ Service("terminal")
    /\ \/ /\ terminal' = FALSE
          /\ Move("files")
          /\ UNCHANGED budget
       \/ /\ Fault
          /\ service' = [service EXCEPT !.at = "files", !.outcome = "unclean",
                                        !.reason = "cleanup_failed"]
          /\ UNCHANGED terminal
    /\ UNCHANGED <<helper, result, request>> /\ ServiceOnly

\* An unlink that raises takes the place of what the call would have said.
SvcFiles ==
    /\ Service("files")
    /\ \/ /\ request' = FALSE
          /\ Move("done")
          /\ UNCHANGED budget
       \/ /\ Fault
          /\ service' = [service EXCEPT !.at = "done", !.outcome = "unclean"]
          /\ UNCHANGED request
    /\ UNCHANGED <<helper, terminal, result>> /\ ServiceOnly

----------------------------------------------------------------------------
\* The dialog shows another list: an answer that took longer than the four
\* seconds the driver grants, or one that comes in parts.
Rebuild ==
    /\ ui.page = "brokers"
    /\ budget.rebuilds > 0
    /\ budget' = [budget EXCEPT !.rebuilds = @ - 1]
    /\ \E l \in Lists : ui' = [ui EXCEPT !.list = l, !.row = None]
    /\ UNCHANGED <<world, terminal, helper, result, service, request>>

HelperStep ==
    \/ HelperRead \/ HelperLaunch \/ HelperAttach \/ HelperOpen
    \/ HelperSearch \/ HelperRow \/ HelperClick \/ HelperNext \/ HelperServers \/ HelperBack
    \/ HelperChoose \/ HelperClose \/ HelperWrite

ServiceStep ==
    \/ SvcRequest \/ SvcGrant \/ SvcCreate \/ SvcRun \/ SvcLoad \/ SvcTimeout
    \/ SvcEnd \/ SvcDelete \/ SvcTerminal \/ SvcFiles

Next == HelperStep \/ ServiceStep \/ SvcLate \/ SvcCancel \/ Rebuild

Spec == Init /\ [][Next]_vars

\* Both processes keep running.
FairSpec == Spec /\ WF_vars(HelperStep) /\ WF_vars(ServiceStep)

----------------------------------------------------------------------------
(* Properties. *)

\* The label a successful census reports is the label of a broker whose server
\* menu holds the expected server: what was read from the list, what was
\* selected and what the menu showed are of one broker, although an operation
\* fails.  The list stands still: a row is known by its position alone.  (Two
\* failures are too many: where the menu of the broker with the server could not be
\* read and the next row does not take its click, Next opens that broker again and
\* its server is reported under the next row's label.)
EvidenceIsOfOneBroker ==
    service.outcome = "evidence"
      /\ budget.rebuilds = MaxRebuilds /\ budget.faults >= MaxFaults - 1
      => result.label \in world.owners

\* "Return unread rows in their native MT5 order": an undisturbed census that
\* ends in server_not_found has opened every row its queries listed.  (All rows
\* of a query count as tested before the first is opened, so after one failed
\* operation a row is never opened again.)
NotFoundIsExhaustive ==
    helper.reason = "server_not_found"
      /\ budget = [faults |-> MaxFaults, rebuilds |-> MaxRebuilds] =>
      \A t \in 1 .. helper.term :
        \A i \in DOMAIN world.lists[t] :
          i <= MaxResults => world.lists[t][i] \notin world.owners

\* When the call returns, evidence or failure, and does not complain of its
\* cleanup, no terminal of the instance, no task and no helper is left: the
\* provisioning starts its own terminal in the same directory next.  (A request
\* that was written before its launcher could not be stays.)
ReturnsQuiet ==
    service.at = "done" /\ service.outcome # "unclean" =>
      /\ ~terminal /\ ~service.task
      /\ helper.at \in {"unborn", "exited", "killed"}

\* A census whose helper keeps working ends by the helper's own doing.
CensusEnds == (service.at = "poll") ~> (service.at = "done")

----------------------------------------------------------------------------
(* The inductive invariant. *)

\* The helper lives between the run of its task and its end; a result is its last
\* act, and evidence is a result; a call that is not unclean has undone what it did.
RunInv ==
    /\ service.at \in {"request", "grant", "create", "run"} =>
         helper.at = "unborn" /\ result = None
    /\ service.at = "request" => ~service.task
    /\ service.at \in {"run", "poll"} => service.task
    /\ service.at = "end" /\ helper.at # "unborn" => service.task
    /\ result # None => helper.at = "exited"
    /\ helper.reason # None => helper.at \in {"close", "write", "exited", "killed"}
    /\ service.outcome = "evidence" => result # None /\ result.reason = None
    /\ service.at \in {"request", "grant", "create", "run", "poll"} =>
         service.outcome = "none"
    /\ service.at \in {"terminal", "files", "done"} /\ service.outcome # "unclean"
         => ~service.task
    /\ helper.at = "unborn" => ~terminal
    /\ EndKills /\ service.at \in {"delete", "terminal", "files", "done"} =>
         /\ helper.at \in {"unborn", "exited", "killed"}
         /\ service.at \in {"files", "done"} /\ service.outcome # "unclean" => ~terminal

Listed == world.lists[helper.term]

OnList == helper.at \in {"row", "click", "next", "servers", "back"}

Undisturbed == budget = [faults |-> MaxFaults, rebuilds |-> MaxRebuilds]

\* The row the helper is at is this broker's.
IsCurrent(b) == helper.index \in DOMAIN Listed /\ Listed[helper.index] = b

\* Where one operation has failed at most: the page that is open is the current row's
\* or of a broker without the server.
EvidenceInv ==
    budget.rebuilds = MaxRebuilds /\ budget.faults >= MaxFaults - 1 =>
      /\ OnList => ui.list = Listed
      /\ helper.at \in {"click", "next", "servers"} =>
           helper.label = None \/ IsCurrent(helper.label)
      /\ helper.at = "next" => ui.row \notin world.owners \/ IsCurrent(ui.row)
      /\ helper.at = "servers" => ui.menu \notin world.owners \/ IsCurrent(ui.menu)
      /\ budget.faults = MaxFaults =>
           /\ helper.at \in {"row", "click", "back"} => ui.row \notin world.owners
           /\ helper.at \in {"next", "servers"} => IsCurrent(ui.row)
           /\ helper.at = "servers" => ui.menu = ui.row
      /\ helper.at = "choose" => helper.label \in world.owners \cup {None}
      /\ helper.at \in {"close", "write"} /\ helper.reason = None =>
           helper.chosen \in world.owners
      /\ result # None /\ result.reason = None => result.label \in world.owners

\* No row of this term's result has the server.
Clear(t) ==
    \A i \in DOMAIN world.lists[t] : i <= MaxResults => world.lists[t][i] \notin world.owners

\* Undisturbed: a row with the server is still to come, and what counts as tested
\* without having been opened is one of these.
ExhaustInv ==
    Undisturbed =>
      /\ \A t \in 1 .. helper.term - 1 : Clear(t)
      /\ helper.at = "search" => helper.tested \cap world.owners = {}
      /\ OnList =>
           /\ \A i \in DOMAIN Listed :
                i <= MaxResults /\ Listed[i] \in world.owners =>
                  \/ i \in helper.todo
                  \/ helper.at \in {"click", "next", "servers"} /\ i = helper.index
           /\ \A b \in helper.tested \cap world.owners :
                \E i \in DOMAIN Listed : i <= MaxResults /\ Listed[i] = b
      /\ helper.reason = "server_not_found" => Clear(helper.term)
      /\ helper.at \in {"unborn", "read", "launch", "attach", "open"} => helper.tested = {}

IInv == TypeOK /\ RunInv /\ EvidenceInv /\ ExhaustInv
=============================================================================
