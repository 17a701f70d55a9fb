---------------------------- MODULE MCDiscovery -----------------------------
(* How a broker and its address are found, for TLC: the census of the Windows  *)
(* agent (BrokerWizard), the discovery under Wine (WineDiscovery) and what a   *)
(* provision does with an address (BrokerEndpoint).  The three share no state: *)
(* a behaviour is one of any of them, `part' says which, and the others stay   *)
(* in one initial state.                                                       *)
EXTENDS BrokerWizard

CONSTANTS Calls, Queries, MaxIncidents,
          Hosts, Cdn, Reconnects, MaxJobs, MaxCrashes, MaxChanges

VARIABLES part,
          offers, wizard, lock, at, outcome, exchange, results, drivers, incidents,
          registry, manifest, files, job, route, online, jobs, faults, crashes, changes

wineVars == <<offers, wizard, lock, at, outcome, exchange, results, drivers, incidents>>
endpointVars == <<registry, manifest, files, job, route, online, jobs, faults, crashes,
                  changes>>
allVars == <<part, vars, wineVars, endpointVars>>

Wine == INSTANCE WineDiscovery WITH world <- offers, ui <- wizard, result <- results,
                                    helper <- drivers, budget <- incidents
Endpoint == INSTANCE BrokerEndpoint

ASSUME DiscoveryAssumptions ==
  WizardAssumption /\ Wine!DiscoveryAssumption /\ Endpoint!EndpointAssumption

\* No definition tells one broker from another: of the lists that differ in the
\* names of their brokers one is enough, the one whose first brokers are met in
\* the order of this list.
InOrder == CHOOSE l \in Lists : Len(l) = Cardinality(Brokers)
Canonical(lists) == FlattenSeq(lists) = <<>> \/ Head(FlattenSeq(lists)) = Head(InOrder)

InitOne ==
  /\ part \in {"wizard", "wine", "endpoint"}
  /\ Init /\ Wine!Init /\ Endpoint!Init
  /\ Canonical(world.lists) /\ Canonical(offers.lists)
  \* of several initial states, only the part that moves has all of them
  /\ part # "wizard" => /\ world.lists = [t \in 1 .. Terms |-> <<>>]
                        /\ world.owners = {} /\ world.legible = {}
  /\ part # "wine" => offers.lists = [q \in 1 .. Queries |-> <<>>] /\ offers.exact = {}
  /\ part # "endpoint" => registry.version = 3 /\ route = CHOOSE h \in Hosts : TRUE

OfWizard(A)   == part = "wizard" /\ A /\ UNCHANGED <<part, wineVars, endpointVars>>
OfWine(A)     == /\ part = "wine" /\ A /\ UNCHANGED <<part, vars, endpointVars>>
                 \* bound: two calls meet where only the first query shows anything
                 /\ at'[CHOOSE c \in Calls : TRUE] # "begin" => offers.lists[Queries] = <<>>
OfEndpoint(A) == part = "endpoint" /\ A /\ UNCHANGED <<part, vars, wineVars>>

NextOne == OfWizard(Next) \/ OfWine(Wine!Next) \/ OfEndpoint(Endpoint!Next)

\* The fairness of the two modules that state one.
FairOne ==
  /\ WF_allVars(OfWizard(HelperStep)) /\ WF_allVars(OfWizard(ServiceStep))
  /\ \A c \in Calls : WF_allVars(OfWine(Wine!LauncherStep(c)))

SpecOne == InitOne /\ [][NextOne]_allVars /\ FairOne
-----------------------------------------------------------------------------
(* Each of the first three is everything its module says of its states; it is *)
(* asked of the behaviours in which that module moves.                        *)

\* What the census reports was read from one broker, a server it does not know
\* was on no row, and a call that returns leaves nothing driving the terminal
\* (broker_wizard.py, broker_wizard_ui.py).
CensusIsSound ==
  part = "wizard" =>
    TypeOK /\ EvidenceIsOfOneBroker /\ NotFoundIsExhaustive /\ ReturnsQuiet

\* Under Wine: found means that one row of the query shows the server and no other,
\* that the page was read again before it was accepted, and that no dialog and no
\* helper stays; the prefix has one driver (wine_mt5_broker_discovery.py,
\* linux_wine_broker_discovery.py).
FoundIsExact ==
  part = "wine" =>
    /\ Wine!TypeOK
    /\ Wine!FoundWasAccepted /\ Wine!FoundIsQuiet /\ Wine!ExactOrNothing
    /\ Wine!OneDriver

\* A verified record can be resolved, with its evidence on disk and listed by a
\* manifest that is whole, and the broker serves the server at the address that
\* is published (broker_endpoint_registry.py).
EndpointIsSound ==
  part = "endpoint" =>
    /\ Endpoint!TypeOK
    /\ Endpoint!VerifiedResolves /\ Endpoint!ManifestIsWhole
    /\ Endpoint!PublishedIsBrokers

\* Only an attempt on an endpoint whose connection failed invalidates it
\* (real_handlers.py _provision).
OnlyUnreachable == Endpoint!OnlyUnreachable

\* A census ends when its helper keeps working, and a call under Wine comes back
\* whatever its helper does.
CallsReturn == CensusEnds /\ Wine!DiscoverReturns
=============================================================================
