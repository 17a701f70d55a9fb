---------------------------- MODULE BrokerEndpoint ----------------------------
(***************************************************************************)
(* Which address a terminal is given for the customer's server, and how an *)
(* address becomes shared knowledge.  A provision asks the registry of     *)
(* verified endpoints, MTAPI Search, and the broker wizard, logs in, and   *)
(* publishes the address it has seen under the terminal: an artifact, its  *)
(* provenance, the manifest of both, and the registry last                 *)
(* (broker_endpoint_registry.py, broker_endpoint_resolver.py,              *)
(* real_handlers.py _provision).  The model follows one server name.       *)
(***************************************************************************)
EXTENDS Integers, FiniteSets

CONSTANTS Brokers,     \* labels under which the server may be known
          Hosts,       \* addresses the broker may serve it at
          Cdn,         \* an address of MetaQuotes every terminal may keep open
          None,
          Reconnects,  \* TRUE: the broker's connection may break while observed
          MaxJobs,     \* bound: provisions
          MaxFaults,   \* bound: file operations that fail
          MaxCrashes,  \* bound: crashes of the agent
          MaxChanges   \* bound: moves of the broker and outages of this host

EndpointAssumption ==
  /\ IsFiniteSet(Brokers) /\ Brokers # {} /\ Hosts # {} /\ Cdn \notin Hosts
  /\ None \notin Brokers \cup Hosts \cup {Cdn} /\ Reconnects \in BOOLEAN
  /\ {MaxJobs, MaxFaults, MaxCrashes, MaxChanges} \subseteq Nat

VARIABLES
  registry,  \* verified-endpoints.json: its schema version and its records
  manifest,  \* artifacts the manifest lists
  files,     \* artifacts on disk
  job,       \* the provision that runs
  route,     \* where the broker serves the server now
  online,    \* whether this host reaches the network
  jobs, faults, crashes, changes

shared == <<registry, manifest, files>>
world == <<route, online, changes>>
counts == <<jobs, faults, crashes>>
vars == <<shared, job, world, counts>>

Endpoints == Hosts \cup {Cdn}
Kinds == {"artifact", "provenance"}
Record == [broker : Brokers, endpoint : Endpoints, session : 0..MaxJobs,
           status : {"VERIFIED", "SUPERSEDED", "INVALID"}]
\* What MTAPI says of an address: the companies that list it.
Candidate == [endpoint : Hosts, companies : (SUBSET Brokers) \ {{}}]
NoJob == [pc |-> "idle", broker |-> None, asked |-> FALSE, verified |-> None,
          candidates |-> {}, source |-> None, observed |-> None,
          original |-> None, listed |-> {}, written |-> {}]
Working == {"registry", "search", "identity", "broker registry", "wizard", "candidates",
            "login", "observe"}
Writing == {"artifact", "provenance", "manifest", "save", "confirm"}
Publishing == Writing \cup {"load"}
Undoing == {"undo save", "undo manifest", "undo artifact", "undo provenance"}

Legacy(b, h) == [broker |-> b, endpoint |-> h, session |-> 0, status |-> "VERIFIED"]

Init ==
  /\ route \in Hosts /\ online = TRUE
  /\ \/ registry = [version |-> 3, records |-> {}] /\ manifest = {} /\ files = {}
     \/ /\ \E v \in 1..2, b \in Brokers :
             registry = [version |-> v, records |-> {Legacy(b, route)}]
        /\ manifest = {<<0, "artifact">>} /\ files = manifest
  /\ job = NoJob /\ jobs = 0 /\ faults = 0 /\ crashes = 0 /\ changes = 0

At(pc) == job.pc = pc
Goto(pc) == job' = [job EXCEPT !.pc = pc]
Fault == faults < MaxFaults /\ faults' = faults + 1

-----------------------------------------------------------------------------
(* The registry.                                                            *)

\* Records of earlier schemas as the publisher reads them: those of version 1 name
\* neither server nor process and are never used again.
Migrate(r) == IF registry.version = 1 THEN [r EXCEPT !.status = "INVALID"] ELSE r
Load == {Migrate(r) : r \in registry.records}

Matches(label) == {r \in registry.records : /\ r.status = "VERIFIED"
                                            /\ label \in {None, r.broker}}
\* The resolver looks at the artifact, not at its provenance.
Backed(r) == <<r.session, "artifact">> \in manifest \cap files
Resolves(label, r) == registry.version = 3 /\ Matches(label) = {r} /\ Backed(r)
Hit(label) == \E r \in registry.records : Resolves(label, r)

\* Only the record that was attempted is invalidated.
Invalidate(target) ==
  registry' = [version |-> 3,
               records |-> {IF r = target THEN [r EXCEPT !.status = "INVALID"] ELSE r :
                              r \in Load}]

-----------------------------------------------------------------------------
(* Choosing an address.                                                     *)

\* broker_label is optional in the request.
Begin ==
  /\ At("idle") /\ jobs < MaxJobs /\ jobs' = jobs + 1
  /\ \E b \in Brokers \cup {None} :
       job' = [NoJob EXCEPT !.pc = IF b = None THEN "registry" ELSE "search", !.broker = b]
  /\ UNCHANGED <<shared, world, faults, crashes>>

\* An exact server names its broker.
ResolveServer ==
  /\ At("registry")
  /\ \/ \E r \in registry.records :
          /\ Resolves(None, r)
          /\ job' = [job EXCEPT !.pc = "login", !.source = "registry", !.asked = TRUE,
                                !.verified = r, !.broker = r.broker]
     \/ ~Hit(None) /\ job' = [job EXCEPT !.pc = "search", !.asked = TRUE]
  /\ UNCHANGED <<shared, world, counts>>

\* MTAPI Search is unavailable or disabled, knows nothing, or lists addresses.
Search ==
  /\ At("search")
  /\ \/ job' = [job EXCEPT !.pc = IF job.broker = None THEN "identity" ELSE "broker registry"]
     \/ \E first, second \in Candidate :
          job' = [job EXCEPT !.pc = "candidates", !.candidates = {first, second}]
  /\ UNCHANGED <<shared, world, counts>>

Identify ==
  /\ At("identity")
  /\ \/ Goto("failed")
     \/ \E b \in Brokers :
          job' = [job EXCEPT !.broker = b,
                             !.pc = IF job.source = "mtapi" THEN "wizard" ELSE "broker registry"]
  /\ UNCHANGED <<shared, world, counts>>

ResolveBroker ==
  /\ At("broker registry")
  /\ \/ \E r \in registry.records :
          /\ Resolves(job.broker, r)
          /\ job' = [job EXCEPT !.pc = "login", !.source = "registry", !.asked = TRUE,
                                !.verified = r]
     \/ ~Hit(job.broker) /\ job' = [job EXCEPT !.pc = "wizard", !.asked = TRUE]
  /\ UNCHANGED <<shared, world, counts>>

\* The wizard fails closed, or names the broker of the row that lists the server.
Wizard ==
  /\ At("wizard")
  /\ \/ Goto("failed")
     \/ \E b \in Brokers :
          job' = [job EXCEPT !.pc = "login", !.source = "wizard", !.broker = b]
  /\ UNCHANGED <<shared, world, counts>>

\* A label is taken from a candidate only if a single company lists it.
Labelled(c) ==
  IF job.broker = None /\ Cardinality(c.companies) = 1
  THEN CHOOSE b \in c.companies : TRUE ELSE job.broker

NoSingleBroker(c) == Labelled(c) = None

\* The candidates one after the other, in an order the search has fixed.
TryCandidate ==
  /\ At("candidates") /\ job.candidates # {}
  /\ \E c \in job.candidates :
       \/ /\ online /\ c.endpoint = route
          /\ job' = [job EXCEPT !.pc = IF NoSingleBroker(c) THEN "done" ELSE "observe",
                                !.source = "mtapi", !.broker = Labelled(c),
                                !.observed = c.endpoint]
       \/ /\ ~(online /\ c.endpoint = route)
          /\ job' = [job EXCEPT !.candidates = @ \ {c}, !.source = "mtapi"]
       \/ job' = [job EXCEPT !.pc = "failed"]
  /\ UNCHANGED <<shared, world, counts>>

CandidatesFail ==
  /\ At("candidates") /\ job.candidates = {}
  /\ Goto(IF job.broker = None THEN "identity" ELSE "wizard")
  /\ UNCHANGED <<shared, world, counts>>

\* The terminal reports that its connection to the verified address failed: the
\* broker is not there, or this host is offline.  A wrong password, a timeout, a
\* dead process say nothing of an address.
Unreachable == job.source = "registry" /\ ~(online /\ job.verified.endpoint = route)

LoginBlames ==   \* mutant: every failed login invalidates the endpoint
  /\ At("login")
  /\ \/ /\ online /\ (job.source = "registry" => job.verified.endpoint = route)
        /\ Goto(IF job.source = "registry" THEN "done" ELSE "observe")
        /\ UNCHANGED shared
     \/ /\ job.source = "registry" /\ Invalidate(job.verified) /\ Goto("failed")
        /\ UNCHANGED <<manifest, files>>
  /\ UNCHANGED <<world, counts>>

Login ==
  /\ At("login")
  /\ \/ /\ online /\ (job.source = "registry" => job.verified.endpoint = route)
        /\ Goto(IF job.source = "registry" THEN "done" ELSE "observe")
        /\ UNCHANGED shared
     \/ Goto("failed") /\ UNCHANGED shared
     \/ /\ Unreachable /\ Invalidate(job.verified) /\ Goto("failed")
        /\ UNCHANGED <<manifest, files>>
  /\ UNCHANGED <<world, counts>>

\* Two samples of the terminal's connections; only what is in both counts.
Samples == {s \in SUBSET {route, Cdn} : Reconnects \/ route \in s}

\* An address that MTAPI named must be among the stable ones, any other the only one.
Observe ==
  /\ At("observe")
  /\ \E s1, s2 \in Samples :
       LET stable == s1 \cap s2
           fits(e) == IF job.source = "mtapi" THEN e = job.observed ELSE stable = {e}
       IN  \/ \E e \in stable : fits(e) /\ job' = [job EXCEPT !.pc = "load", !.observed = e]
           \/ ~(\E e \in stable : fits(e)) /\ Goto("done")
  /\ UNCHANGED <<shared, world, counts>>

-----------------------------------------------------------------------------
(* Publication.                                                             *)

\* The registry is read before the first write; what the manifest lists must be there.
LoadAll ==
  /\ At("load")
  /\ \/ manifest \subseteq files /\ job' = [job EXCEPT !.pc = "artifact", !.original = registry,
                                                        !.listed = manifest]
     \/ ~(manifest \subseteq files) /\ Goto("done")
  /\ UNCHANGED <<shared, world, counts>>

\* An operation of the publication takes effect, or fails and the undoing begins.
Attempt(pc, effect, next) ==
  /\ At(pc)
  /\ \/ effect /\ job' = [job EXCEPT !.pc = next, !.written = @ \cup {pc}] /\ UNCHANGED faults
     \/ Fault /\ Goto("undo save") /\ UNCHANGED shared
  /\ UNCHANGED <<world, jobs, crashes>>

CopyArtifact == Attempt("artifact", files' = files \cup {<<jobs, "artifact">>}
                                    /\ UNCHANGED <<registry, manifest>>, "provenance")
CopyProvenance == Attempt("provenance", files' = files \cup {<<jobs, "provenance">>}
                                        /\ UNCHANGED <<registry, manifest>>, "manifest")

\* The verified record of the same broker and server gives way to the new one.
Promoted ==
  {IF r.status = "VERIFIED" /\ r.broker = job.broker THEN [r EXCEPT !.status = "SUPERSEDED"]
   ELSE r : r \in Load}
  \cup {[broker |-> job.broker, endpoint |-> job.observed, session |-> jobs,
         status |-> "VERIFIED"]}

SaveEarly ==   \* mutant: the registry is written before the manifest
  \/ Attempt("manifest", registry' = [version |-> 3, records |-> Promoted]
                         /\ UNCHANGED <<manifest, files>>, "save")
  \/ Attempt("save", manifest' = manifest \cup ({jobs} \X Kinds)
                     /\ UNCHANGED <<registry, files>>, "confirm")

\* Manifest first, registry last.
Save ==
  \/ Attempt("manifest", manifest' = manifest \cup ({jobs} \X Kinds)
                         /\ UNCHANGED <<registry, files>>, "save")
  \/ Attempt("save", registry' = [version |-> 3, records |-> Promoted]
                     /\ UNCHANGED <<manifest, files>>, "confirm")

\* The new record must be found by the resolver.
Confirm ==
  /\ At("confirm")
  /\ \/ Goto(IF Hit(job.broker) THEN "done" ELSE "undo save") /\ UNCHANGED faults
     \/ Fault /\ Goto("undo save")
  /\ UNCHANGED <<shared, world, jobs, crashes>>

\* Undoing is best effort: an operation that fails is passed over.
Undo(pc, done, effect, next) ==
  /\ At(pc)
  /\ \/ done \in job.written /\ effect /\ UNCHANGED faults
     \/ done \notin job.written /\ UNCHANGED <<shared, faults>>
     \/ done \in job.written /\ Fault /\ UNCHANGED shared
  /\ Goto(next)
  /\ UNCHANGED <<world, jobs, crashes>>

UndoManifest == manifest' = job.listed /\ UNCHANGED <<registry, files>>

RollBack ==
  \/ Undo("undo save", "save", registry' = job.original /\ UNCHANGED <<manifest, files>>,
          "undo manifest")
  \/ Undo("undo manifest", "manifest", UndoManifest, "undo artifact")
  \/ Undo("undo artifact", "artifact", files' = files \ {<<jobs, "artifact">>}
                                       /\ UNCHANGED <<registry, manifest>>, "undo provenance")
  \/ Undo("undo provenance", "provenance", files' = files \ {<<jobs, "provenance">>}
                                           /\ UNCHANGED <<registry, manifest>>, "done")

\* A publication that fails does not fail the provision.
End ==
  /\ job.pc \in {"done", "failed"} /\ job' = NoJob
  /\ UNCHANGED <<shared, world, counts>>

Crash ==
  /\ ~At("idle") /\ crashes < MaxCrashes /\ crashes' = crashes + 1
  /\ job' = NoJob
  /\ UNCHANGED <<shared, world, jobs, faults>>

\* The broker moves the server, or this host loses or regains its network.
Change ==
  /\ At("idle") /\ changes < MaxChanges /\ changes' = changes + 1
  /\ \/ route' \in Hosts \ {route} /\ UNCHANGED online
     \/ online' = ~online /\ UNCHANGED route
  /\ UNCHANGED <<shared, job, counts>>

Choose == \/ Begin \/ ResolveServer \/ Search \/ Identify \/ ResolveBroker \/ Wizard
          \/ TryCandidate \/ CandidatesFail \/ Login \/ Observe
Publish == LoadAll \/ CopyArtifact \/ CopyProvenance \/ Save \/ Confirm \/ RollBack
Next == Choose \/ Publish \/ End \/ Crash \/ Change

Spec == Init /\ [][Next]_vars

-----------------------------------------------------------------------------
Steps == Working \cup Publishing \cup Undoing \cup {"idle", "done", "failed"}
Registry == [version : 1..3, records : SUBSET Record]
Evidence == (0..MaxJobs) \X Kinds
Job == [pc : Steps, broker : Brokers \cup {None}, asked : BOOLEAN,
        verified : Record \cup {None}, candidates : SUBSET Candidate,
        source : {None, "registry", "mtapi", "wizard"}, observed : Endpoints \cup {None},
        original : Registry \cup {None}, listed : SUBSET Evidence,
        written : SUBSET Publishing]

TypeOK ==
  /\ registry \in Registry /\ manifest \subseteq Evidence /\ files \subseteq Evidence
  /\ job \in Job /\ (job.pc \in Writing \cup Undoing => job.original \in Registry)
  /\ route \in Hosts /\ online \in BOOLEAN
  /\ jobs \in 0..MaxJobs /\ faults \in 0..MaxFaults
  /\ crashes \in 0..MaxCrashes /\ changes \in 0..MaxChanges

\* Whatever a crash, a fault or an undoing leaves: a verified record of the current
\* schema is found by the resolver, with artifact and provenance on disk.
VerifiedResolves ==
  At("idle") /\ registry.version = 3 =>
    \A r \in registry.records :
      r.status = "VERIFIED" => /\ Resolves(r.broker, r)
                               /\ r.session # 0 => <<r.session, "provenance">> \in files

Invalidated(r) ==
  r.status = "VERIFIED" /\ [r EXCEPT !.status = "INVALID"] \in registry'.records

\* An endpoint is invalidated only by an attempt on it whose connection failed, never
\* for a password, a timeout, a crash, or an attempt on another (real_handlers.py
\* _invalidate_failed_endpoint).
OnlyUnreachable ==
  [][\A r \in registry.records :
       Invalidated(r) => registry.version = 1 \/ (r = job.verified /\ Unreachable)]_vars

\* "an unhealthy VPS cannot invalidate a shared verified endpoint"
\* (real_handlers.py:394), nor can "environmental failures"
\* (broker_endpoint_registry.py:899): only a broker that is not there does.
OnlyDisproved ==
  [][\A r \in registry.records :
       Invalidated(r) => registry.version = 1 \/ r.endpoint # route]_vars

\* What the manifest lists is on disk; otherwise no publication succeeds again.
ManifestIsWhole == manifest \subseteq files

\* An address is published only if the broker serves the server there.
PublishedIsBrokers == At("artifact") => job.observed = route
-----------------------------------------------------------------------------
(* The inductive invariant of MCDiscoveryProofs.  BackedInv is about at most  *)
(* one failure: the undoing passes over a second one.                        *)

\* A provision that publishes knows the broker, and has seen the address.
KnownInv ==
  /\ job.pc \in {"broker registry", "login", "observe"} \cup Publishing => job.broker # None
  /\ job.pc = "login" => job.source # "mtapi"
  /\ job.pc = "observe" /\ job.source = "mtapi" => job.observed = route
  /\ job.pc \in Publishing => job.observed # None /\ (~Reconnects => job.observed = route)

\* A provision that has not begun to write.
Unlisting == Working \cup {"load"}

\* A session has one record; this provision's has none before it is saved.
Distinct(records) == \A r, s \in records : r.session = s.session => r = s

SessionInv ==
  /\ Distinct(registry.records)
  /\ \A r \in registry.records : r.session <= jobs
  /\ \A e \in manifest : e[1] <= jobs
  /\ job.pc \in Unlisting \cup (Writing \ {"confirm"}) =>
       \A r \in registry.records : r.session # jobs
  /\ job.pc \in Unlisting => \A e \in manifest : e[1] # jobs

\* What the publication would put back: what it found, where what was invalid still is.
SnapshotInv ==
  job.pc \in Writing \cup Undoing =>
    /\ Distinct(job.original.records)
    /\ \A r \in job.original.records :
         r.session <= jobs /\ (r.status = "INVALID" => r \in registry.records)
    /\ \A e \in job.listed : e[1] # jobs /\ e[1] <= jobs

\* One verified record of a broker, with its evidence in the manifest.
Sound(records, evidence) ==
  /\ \A r, s \in records :
       r.status = "VERIFIED" /\ s.status = "VERIFIED" /\ r.broker = s.broker => r = s
  /\ \A r \in records :
       r.status = "VERIFIED" =>
         /\ <<r.session, "artifact">> \in evidence
         /\ r.session # 0 => <<r.session, "provenance">> \in evidence

Unsaved == registry = job.original
Unlisted == manifest = job.listed

BackedInv ==
  faults <= 1 =>
    /\ manifest \subseteq files /\ Sound(registry.records, manifest)
    /\ job.pc \in Writing \cup Undoing =>
         job.listed \subseteq manifest /\ Sound(job.original.records, job.listed)
    /\ job.pc \in Writing \ {"artifact"} => <<jobs, "artifact">> \in files
    /\ job.pc \in Writing \ {"artifact", "provenance"} => <<jobs, "provenance">> \in files
    /\ job.pc \in {"save", "confirm"} =>
         "manifest" \in job.written /\ {jobs} \X Kinds \subseteq manifest
    /\ job.pc \in {"artifact", "provenance", "manifest"} => Unlisted
    /\ job.pc \in Writing \ {"confirm"} => Unsaved
    /\ job.pc = "confirm" =>
         /\ "save" \in job.written /\ registry.version = 3
         /\ [broker |-> job.broker, endpoint |-> job.observed, session |-> jobs,
             status |-> "VERIFIED"] \in registry.records
    /\ job.pc \in Undoing => faults > 0
    /\ job.pc = "undo save" => "save" \in job.written \/ Unsaved
    /\ job.pc \in Undoing \ {"undo save"} => Unsaved
    /\ job.pc \in {"undo save", "undo manifest"} => "manifest" \in job.written \/ Unlisted
    /\ job.pc \in {"undo artifact", "undo provenance"} => Unlisted

IInv == TypeOK /\ KnownInv /\ SessionInv /\ SnapshotInv /\ BackedInv
=============================================================================
