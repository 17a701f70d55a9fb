-------------------------- MODULE MCDiscoveryProofs --------------------------
(* Proofs about the parts of MCDiscovery.  Endpoints: one is invalidated only  *)
(* by an attempt that disproved it, and what the registry publishes can be     *)
(* resolved whatever one failing operation or a crash leaves behind.  Under    *)
(* Wine: what is found was on the page, and nothing is left of the search.     *)
(* The census: what it reports is of one broker, what it misses was nowhere.   *)
EXTENDS MCDiscovery, TLAPS, FiniteSetTheorems

-----------------------------------------------------------------------------
(* What a provision becomes.                                                *)

\* A step that moves the program counter changes nothing else of the provision.
LEMMA GotoForms ==
  ASSUME Endpoint!TypeOK, NEW p \in Endpoint!Steps, Endpoint!Goto(p)
  PROVE  /\ job' \in Endpoint!Job /\ job'.pc = p
         /\ job'.broker = job.broker /\ job'.source = job.source
         /\ job'.verified = job.verified /\ job'.observed = job.observed
         /\ job'.original = job.original /\ job'.listed = job.listed
         /\ job'.written = job.written
BY DEF Endpoint!TypeOK, Endpoint!Goto, Endpoint!Job

\* An operation of the publication that succeeds notes that it did.
LEMMA WrittenForms ==
  ASSUME Endpoint!TypeOK, NEW p \in Endpoint!Publishing, NEW q \in Endpoint!Steps,
         job' = [job EXCEPT !.pc = q, !.written = @ \cup {p}]
  PROVE  /\ job' \in Endpoint!Job /\ job'.pc = q
         /\ job'.broker = job.broker /\ job'.source = job.source
         /\ job'.verified = job.verified /\ job'.observed = job.observed
         /\ job'.original = job.original /\ job'.listed = job.listed
         /\ job'.written = job.written \cup {p}
BY DEF Endpoint!TypeOK, Endpoint!Job

\* No provision.
LEMMA NoJobForms ==
  Endpoint!NoJob \in Endpoint!Job /\ Endpoint!NoJob.pc = "idle"
BY DEF Endpoint!NoJob, Endpoint!Job, Endpoint!Steps

\* A provision at a step, of a broker, whose address has a source and was seen.
Becomes(p, b, s, o) ==
  /\ job' \in Endpoint!Job /\ job'.pc = p /\ job'.broker = b
  /\ job'.source = s /\ job'.observed = o

Sources == {None, "registry", "mtapi", "wizard"}

\* Provisions are closed under the updates of their fields.
LEMMA Updates ==
  ASSUME NEW j \in Endpoint!Job
  PROVE  /\ \A p \in Endpoint!Steps : [j EXCEPT !.pc = p] \in Endpoint!Job
         /\ \A b \in Brokers \cup {None} : [j EXCEPT !.broker = b] \in Endpoint!Job
         /\ [j EXCEPT !.asked = TRUE] \in Endpoint!Job
         /\ \A v \in Endpoint!Record : [j EXCEPT !.verified = v] \in Endpoint!Job
         /\ \A C \in SUBSET Endpoint!Candidate : [j EXCEPT !.candidates = C] \in Endpoint!Job
         /\ \A x \in Sources : [j EXCEPT !.source = x] \in Endpoint!Job
         /\ \A e \in Endpoint!Endpoints : [j EXCEPT !.observed = e] \in Endpoint!Job
BY DEF Endpoint!Job, Sources

\* What each of the updates of a provision that looks for an address makes of it.
LEMMA UpdateForms ==
  ASSUME Endpoint!TypeOK
  PROVE  /\ \A p \in Endpoint!Steps, b \in Brokers \cup {None} :
              job' = [Endpoint!NoJob EXCEPT !.pc = p, !.broker = b]
                => Becomes(p, b, None, None)
         /\ \A p \in Endpoint!Steps, x \in Sources, v \in Endpoint!Record,
               b \in Brokers \cup {None} :
              job' = [job EXCEPT !.pc = p, !.source = x, !.asked = TRUE, !.verified = v,
                                 !.broker = b]
                => Becomes(p, b, x, job.observed)
         /\ \A p \in Endpoint!Steps, x \in Sources, v \in Endpoint!Record :
              job' = [job EXCEPT !.pc = p, !.source = x, !.asked = TRUE, !.verified = v]
                => Becomes(p, job.broker, x, job.observed)
         /\ \A p \in Endpoint!Steps :
              job' = [job EXCEPT !.pc = p, !.asked = TRUE]
                => Becomes(p, job.broker, job.source, job.observed)
         /\ \A p \in Endpoint!Steps :
              job' = [job EXCEPT !.pc = p]
                => Becomes(p, job.broker, job.source, job.observed)
         /\ \A p \in Endpoint!Steps, C \in SUBSET Endpoint!Candidate :
              job' = [job EXCEPT !.pc = p, !.candidates = C]
                => Becomes(p, job.broker, job.source, job.observed)
         /\ \A C \in SUBSET Endpoint!Candidate, x \in Sources :
              job' = [job EXCEPT !.candidates = C, !.source = x]
                => Becomes(job.pc, job.broker, x, job.observed)
         /\ \A p \in Endpoint!Steps, b \in Brokers \cup {None} :
              job' = [job EXCEPT !.broker = b, !.pc = p]
                => Becomes(p, b, job.source, job.observed)
         /\ \A p \in Endpoint!Steps, x \in Sources, b \in Brokers \cup {None} :
              job' = [job EXCEPT !.pc = p, !.source = x, !.broker = b]
                => Becomes(p, b, x, job.observed)
         /\ \A p \in Endpoint!Steps, x \in Sources, b \in Brokers \cup {None},
               e \in Endpoint!Endpoints :
              job' = [job EXCEPT !.pc = p, !.source = x, !.broker = b, !.observed = e]
                => Becomes(p, b, x, e)
         /\ \A p \in Endpoint!Steps, e \in Endpoint!Endpoints :
              job' = [job EXCEPT !.pc = p, !.observed = e]
                => Becomes(p, job.broker, job.source, e)
<1>0. job \in Endpoint!Job /\ Endpoint!NoJob \in Endpoint!Job
  BY NoJobForms DEF Endpoint!TypeOK
<1>1. ASSUME NEW p \in Endpoint!Steps, NEW b \in Brokers \cup {None},
             job' = [Endpoint!NoJob EXCEPT !.pc = p, !.broker = b]
      PROVE  Becomes(p, b, None, None)
  <2>1. job' \in Endpoint!Job
    BY <1>0, <1>1, Updates
  <2>. QED  BY <1>0, <1>1, <2>1 DEF Becomes, Endpoint!Job, Endpoint!NoJob
<1>2. ASSUME NEW p \in Endpoint!Steps, NEW x \in Sources, NEW v \in Endpoint!Record,
             NEW b \in Brokers \cup {None},
             job' = [job EXCEPT !.pc = p, !.source = x, !.asked = TRUE, !.verified = v,
                                !.broker = b]
      PROVE  Becomes(p, b, x, job.observed)
  <2>1. job' \in Endpoint!Job
    BY <1>0, <1>2, Updates
  <2>. QED  BY <1>0, <1>2, <2>1 DEF Becomes, Endpoint!Job
<1>3. ASSUME NEW p \in Endpoint!Steps, NEW x \in Sources, NEW v \in Endpoint!Record,
             job' = [job EXCEPT !.pc = p, !.source = x, !.asked = TRUE, !.verified = v]
      PROVE  Becomes(p, job.broker, x, job.observed)
  <2>1. job' \in Endpoint!Job
    BY <1>0, <1>3, Updates
  <2>. QED  BY <1>0, <1>3, <2>1 DEF Becomes, Endpoint!Job
<1>4. ASSUME NEW p \in Endpoint!Steps,
             job' = [job EXCEPT !.pc = p, !.asked = TRUE]
      PROVE  Becomes(p, job.broker, job.source, job.observed)
  <2>1. job' \in Endpoint!Job
    BY <1>0, <1>4, Updates
  <2>. QED  BY <1>0, <1>4, <2>1 DEF Becomes, Endpoint!Job
<1>5. ASSUME NEW p \in Endpoint!Steps,
             job' = [job EXCEPT !.pc = p]
      PROVE  Becomes(p, job.broker, job.source, job.observed)
  <2>1. job' \in Endpoint!Job
    BY <1>0, <1>5, Updates
  <2>. QED  BY <1>0, <1>5, <2>1 DEF Becomes, Endpoint!Job
<1>6. ASSUME NEW p \in Endpoint!Steps, NEW C \in SUBSET Endpoint!Candidate,
             job' = [job EXCEPT !.pc = p, !.candidates = C]
      PROVE  Becomes(p, job.broker, job.source, job.observed)
  <2>1. job' \in Endpoint!Job
    BY <1>0, <1>6, Updates
  <2>. QED  BY <1>0, <1>6, <2>1 DEF Becomes, Endpoint!Job
<1>7. ASSUME NEW C \in SUBSET Endpoint!Candidate, NEW x \in Sources,
             job' = [job EXCEPT !.candidates = C, !.source = x]
      PROVE  Becomes(job.pc, job.broker, x, job.observed)
  <2>1. job' \in Endpoint!Job
    BY <1>0, <1>7, Updates
  <2>. QED  BY <1>0, <1>7, <2>1 DEF Becomes, Endpoint!Job
<1>8. ASSUME NEW p \in Endpoint!Steps, NEW b \in Brokers \cup {None},
             job' = [job EXCEPT !.broker = b, !.pc = p]
      PROVE  Becomes(p, b, job.source, job.observed)
  <2>1. job' \in Endpoint!Job
    BY <1>0, <1>8, Updates
  <2>. QED  BY <1>0, <1>8, <2>1 DEF Becomes, Endpoint!Job
<1>9. ASSUME NEW p \in Endpoint!Steps, NEW x \in Sources, NEW b \in Brokers \cup {None},
             job' = [job EXCEPT !.pc = p, !.source = x, !.broker = b]
      PROVE  Becomes(p, b, x, job.observed)
  <2>1. job' \in Endpoint!Job
    BY <1>0, <1>9, Updates
  <2>. QED  BY <1>0, <1>9, <2>1 DEF Becomes, Endpoint!Job
<1>10. ASSUME NEW p \in Endpoint!Steps, NEW x \in Sources, NEW b \in Brokers \cup {None},
              NEW e \in Endpoint!Endpoints,
             job' = [job EXCEPT !.pc = p, !.source = x, !.broker = b, !.observed = e]
      PROVE  Becomes(p, b, x, e)
  <2>1. job' \in Endpoint!Job
    BY <1>0, <1>10, Updates
  <2>. QED  BY <1>0, <1>10, <2>1 DEF Becomes, Endpoint!Job
<1>11. ASSUME NEW p \in Endpoint!Steps, NEW e \in Endpoint!Endpoints,
             job' = [job EXCEPT !.pc = p, !.observed = e]
      PROVE  Becomes(p, job.broker, job.source, e)
  <2>1. job' \in Endpoint!Job
    BY <1>0, <1>11, Updates
  <2>. QED  BY <1>0, <1>11, <2>1 DEF Becomes, Endpoint!Job
<1>. QED  BY <1>1, <1>2, <1>3, <1>4, <1>5, <1>6, <1>7, <1>8, <1>9, <1>10, <1>11

\* The steps of a provision that still looks for its address.
Searching == Endpoint!Working \cup {"load", "done", "failed"}

\* Each way of choosing an address leaves a provision, and what KnownInv says of it.
LEMMA ChooseForms ==
  ASSUME Endpoint!TypeOK, Endpoint!KnownInv, Endpoint!Choose
  PROVE  job' \in Endpoint!Job /\ job'.pc \in Searching /\ Endpoint!KnownInv'
<1>. DEFINE Known == /\ job' \in Endpoint!Job /\ job'.pc \in Searching
                     /\ Endpoint!KnownInv'
<1>0. /\ None \notin Brokers /\ None \notin Endpoint!Endpoints
      /\ Endpoint!Record = [broker : Brokers, endpoint : Endpoint!Endpoints,
                            session : 0..MaxJobs,
                            status : {"VERIFIED", "SUPERSEDED", "INVALID"}]
      /\ Hosts \subseteq Endpoint!Endpoints /\ Reconnects \in BOOLEAN
  BY DiscoveryAssumptions DEF DiscoveryAssumptions, Endpoint!EndpointAssumption,
     Endpoint!Endpoints, Endpoint!Record
<1>00. /\ Searching \subseteq Endpoint!Steps
       /\ Searching \cap Endpoint!Writing = {} /\ "load" \in Endpoint!Publishing
       /\ Searching \cap Endpoint!Publishing = {"load"}
       /\ {"registry", "search", "identity", "broker registry", "wizard", "candidates",
           "login", "observe", "load", "done", "failed"} = Searching
  BY DEF Searching, Endpoint!Steps, Endpoint!Working, Endpoint!Publishing, Endpoint!Writing
<1>r. UNCHANGED route
  BY DEF Endpoint!Choose, Endpoint!Begin, Endpoint!ResolveServer, Endpoint!Search,
     Endpoint!Identify, Endpoint!ResolveBroker, Endpoint!Wizard, Endpoint!TryCandidate,
     Endpoint!CandidatesFail, Endpoint!Login, Endpoint!Observe, Endpoint!world
\* KnownInv is all about these fields.
<1>a. ASSUME NEW p \in Searching, NEW b \in Brokers \cup {None},
             NEW s \in Sources, NEW o \in Endpoint!Endpoints \cup {None},
             Becomes(p, b, s, o),
             p \in {"broker registry", "login", "observe", "load"} => b # None,
             p = "login" => s # "mtapi",
             p = "observe" /\ s = "mtapi" => o = route,
             p = "load" => o # None /\ (~Reconnects => o = route)
      PROVE  Known
  BY <1>a, <1>00, <1>r DEF Becomes, Endpoint!KnownInv
<1>j. /\ job.broker \in Brokers \cup {None} /\ job.source \in Sources
      /\ job.observed \in Endpoint!Endpoints \cup {None} /\ route \in Hosts
      /\ job.candidates \in SUBSET Endpoint!Candidate
      /\ \A r \in registry.records :
           r \in Endpoint!Record /\ r.broker \in Brokers
      /\ {None, "registry", "mtapi", "wizard"} = Sources
      /\ \A c \in Endpoint!Candidate : /\ c.endpoint \in Endpoint!Endpoints
                                       /\ c.companies \subseteq Brokers /\ c.companies # {}
  <2>1. registry.records \subseteq Endpoint!Record
    BY DEF Endpoint!TypeOK, Endpoint!Registry
  <2>2. \A c \in Endpoint!Candidate : /\ c.endpoint \in Endpoint!Endpoints
                                     /\ c.companies \subseteq Brokers /\ c.companies # {}
    BY <1>0 DEF Endpoint!Candidate
  <2>3. \A r \in registry.records : r \in Endpoint!Record /\ r.broker \in Brokers
    BY <1>0, <2>1
  <2>. QED  BY <2>2, <2>3 DEF Endpoint!TypeOK, Endpoint!Job, Sources
<1>k. /\ job.broker \in Brokers \cup {None} /\ job.source \in Sources 
      /\ "mtapi" \in Sources /\ None \in Sources
      /\ job.observed \in Endpoint!Endpoints \cup {None}
  BY <1>j
<1>. SUFFICES Known
  BY DEF Known
<1>. HIDE DEF Known
\* At the other steps KnownInv says nothing.
<1>q. ASSUME NEW p \in {"registry", "search", "identity", "wizard", "candidates", "done",
                      "failed"},
             NEW b \in Brokers \cup {None}, NEW x \in Sources,
             NEW o \in Endpoint!Endpoints \cup {None}, Becomes(p, b, x, o)
      PROVE  Known
  BY <1>q, <1>a, <1>00
<1>1. CASE Endpoint!Begin
  <2>1. PICK b \in Brokers \cup {None} :
             job' = [Endpoint!NoJob EXCEPT !.pc = IF b = None THEN "registry" ELSE "search",
                                           !.broker = b]
    BY <1>1 DEF Endpoint!Begin
  <2>2. Becomes(IF b = None THEN "registry" ELSE "search", b, None, None)
    BY <2>1, <1>00, <1>j, UpdateForms
  <2>. QED  BY <2>2, <1>k, <1>q
<1>2. CASE Endpoint!ResolveServer
  <2>1. CASE \E r \in registry.records :
               job' = [job EXCEPT !.pc = "login", !.source = "registry", !.asked = TRUE,
                                  !.verified = r, !.broker = r.broker]
    <3>1. PICK r \in registry.records :
               job' = [job EXCEPT !.pc = "login", !.source = "registry", !.asked = TRUE,
                                  !.verified = r, !.broker = r.broker]
      BY <2>1
    <3>2. Becomes("login", r.broker, "registry", job.observed)
      BY <3>1, <1>00, <1>j, UpdateForms
    <3>3. r.broker \in Brokers /\ r.broker # None /\ "registry" \in Sources
      BY <1>0, <1>j
    <3>. QED  BY <3>2, <3>3, <1>a, <1>k, <1>00
  <2>2. CASE job' = [job EXCEPT !.pc = "search", !.asked = TRUE]
    <3>1. Becomes("search", job.broker, job.source, job.observed)
      BY <2>2, <1>00, <1>j, UpdateForms
    <3>. QED  BY <3>1, <1>k, <1>q
  <2>. QED  BY <1>2, <2>1, <2>2 DEF Endpoint!ResolveServer
<1>3. CASE Endpoint!Search
  <2>1. CASE job' = [job EXCEPT !.pc = IF job.broker = None THEN "identity"
                                       ELSE "broker registry"]
    <3>1. Becomes(IF job.broker = None THEN "identity" ELSE "broker registry",
                  job.broker, job.source, job.observed)
      BY <2>1, <1>00, <1>j, UpdateForms
    <3>2. CASE job.broker = None
      BY <3>1, <3>2, <1>k, <1>q
    <3>3. CASE job.broker # None
      BY <3>1, <3>3, <1>k, <1>a, <1>00
    <3>. QED  BY <3>2, <3>3
  <2>2. CASE \E first, second \in Endpoint!Candidate :
               job' = [job EXCEPT !.pc = "candidates", !.candidates = {first, second}]
    <3>1. Becomes("candidates", job.broker, job.source, job.observed)
      <4>1. PICK first \in Endpoint!Candidate, second \in Endpoint!Candidate :
                 job' = [job EXCEPT !.pc = "candidates", !.candidates = {first, second}]
        BY <2>2
      <4>2. {first, second} \in SUBSET Endpoint!Candidate
        OBVIOUS
      <4>. QED  BY <4>1, <4>2, <1>00, <1>j, UpdateForms
    <3>. QED  BY <3>1, <1>k, <1>q
  <2>. QED  BY <1>3, <2>1, <2>2 DEF Endpoint!Search
<1>4. CASE Endpoint!Identify
  <2>1. CASE Endpoint!Goto("failed")
    <3>1. Becomes("failed", job.broker, job.source, job.observed)
      BY <2>1, <1>00, <1>j, UpdateForms DEF Endpoint!Goto
    <3>. QED  BY <3>1, <1>k, <1>q
  <2>2. CASE \E b \in Brokers :
               job' = [job EXCEPT !.broker = b,
                                  !.pc = IF job.source = "mtapi" THEN "wizard"
                                         ELSE "broker registry"]
    <3>1. PICK b \in Brokers :
               Becomes(IF job.source = "mtapi" THEN "wizard" ELSE "broker registry", b,
                       job.source, job.observed)
      BY <2>2, <1>00, <1>j, UpdateForms
    <3>. QED  BY <3>1, <1>a, <1>00, <1>0, <1>j
  <2>. QED  BY <1>4, <2>1, <2>2 DEF Endpoint!Identify
<1>5. CASE Endpoint!ResolveBroker
  <2>0. job.broker # None
    BY <1>5 DEF Endpoint!ResolveBroker, Endpoint!At, Endpoint!KnownInv
  <2>1. CASE \E r \in registry.records :
               job' = [job EXCEPT !.pc = "login", !.source = "registry", !.asked = TRUE,
                                  !.verified = r]
    <3>1. Becomes("login", job.broker, "registry", job.observed)
      BY <2>1, <1>00, <1>j, UpdateForms
    <3>. QED  BY <3>1, <2>0, <1>a, <1>00, <1>j
  <2>2. CASE job' = [job EXCEPT !.pc = "wizard", !.asked = TRUE]
    <3>1. Becomes("wizard", job.broker, job.source, job.observed)
      BY <2>2, <1>00, <1>j, UpdateForms
    <3>. QED  BY <3>1, <1>k, <1>q
  <2>. QED  BY <1>5, <2>1, <2>2 DEF Endpoint!ResolveBroker
<1>6. CASE Endpoint!Wizard
  <2>1. CASE Endpoint!Goto("failed")
    <3>1. Becomes("failed", job.broker, job.source, job.observed)
      BY <2>1, <1>00, <1>j, UpdateForms DEF Endpoint!Goto
    <3>. QED  BY <3>1, <1>k, <1>q
  <2>2. CASE \E b \in Brokers :
               job' = [job EXCEPT !.pc = "login", !.source = "wizard", !.broker = b]
    <3>1. PICK b \in Brokers : Becomes("login", b, "wizard", job.observed)
      BY <2>2, <1>00, <1>j, UpdateForms
    <3>. QED  BY <3>1, <1>a, <1>00, <1>0, <1>j
  <2>. QED  BY <1>6, <2>1, <2>2 DEF Endpoint!Wizard
<1>7. CASE Endpoint!TryCandidate
  <2>1. PICK c \in job.candidates :
             \/ /\ c.endpoint = route
                /\ job' = [job EXCEPT !.pc = IF Endpoint!NoSingleBroker(c) THEN "done"
                                             ELSE "observe",
                                      !.source = "mtapi", !.broker = Endpoint!Labelled(c),
                                      !.observed = c.endpoint]
             \/ job' = [job EXCEPT !.candidates = @ \ {c}, !.source = "mtapi"]
             \/ job' = [job EXCEPT !.pc = "failed"]
    BY <1>7 DEF Endpoint!TryCandidate
  <2>2. CASE /\ c.endpoint = route
             /\ job' = [job EXCEPT !.pc = IF Endpoint!NoSingleBroker(c) THEN "done"
                                          ELSE "observe",
                                   !.source = "mtapi", !.broker = Endpoint!Labelled(c),
                                   !.observed = c.endpoint]
    <3>1. Endpoint!Labelled(c) \in Brokers \cup {None}
      <4>1. c.companies \subseteq Brokers /\ c.companies # {}
        BY <1>j
      <4>. QED  BY <4>1, <1>j DEF Endpoint!Labelled
    <3>2. Becomes(IF Endpoint!NoSingleBroker(c) THEN "done" ELSE "observe",
                  Endpoint!Labelled(c), "mtapi", c.endpoint)
      BY <2>2, <3>1, <1>00, <1>j, UpdateForms
    <3>. QED  BY <2>2, <3>1, <3>2, <1>a, <1>00, <1>j DEF Endpoint!NoSingleBroker
  <2>3. CASE job' = [job EXCEPT !.candidates = @ \ {c}, !.source = "mtapi"]
    <3>1. job.pc = "candidates"
      BY <1>7 DEF Endpoint!TryCandidate, Endpoint!At
    <3>2. Becomes("candidates", job.broker, "mtapi", job.observed)
      BY <2>3, <3>1, <1>00, <1>j, UpdateForms
    <3>. QED  BY <3>2, <1>k, <1>q
  <2>4. CASE job' = [job EXCEPT !.pc = "failed"]
    <3>1. Becomes("failed", job.broker, job.source, job.observed)
      BY <2>4, <1>00, <1>j, UpdateForms
    <3>. QED  BY <3>1, <1>k, <1>q
  <2>. QED  BY <2>1, <2>2, <2>3, <2>4
<1>8. CASE Endpoint!CandidatesFail
  <2>1. Becomes(IF job.broker = None THEN "identity" ELSE "wizard", job.broker, job.source,
                job.observed)
    BY <1>8, <1>00, <1>j, UpdateForms DEF Endpoint!CandidatesFail, Endpoint!Goto
  <2>. QED  BY <2>1, <1>k, <1>q
<1>9. CASE Endpoint!Login
  <2>1. job.broker # None /\ job.source # "mtapi"
    BY <1>9 DEF Endpoint!Login, Endpoint!At, Endpoint!KnownInv
  <2>2. PICK p \in {"done", "observe", "failed"} : Endpoint!Goto(p)
    BY <1>9 DEF Endpoint!Login
  <2>3. Becomes(p, job.broker, job.source, job.observed)
    BY <2>2, <1>00, <1>j, UpdateForms DEF Endpoint!Goto
  <2>. QED  BY <2>1, <2>3, <1>a, <1>00, <1>j
<1>10. CASE Endpoint!Observe
  <2>1. job.broker # None /\ (job.source = "mtapi" => job.observed = route)
    BY <1>10 DEF Endpoint!Observe, Endpoint!At, Endpoint!KnownInv
  <2>2. CASE Endpoint!Goto("done")
    <3>1. Becomes("done", job.broker, job.source, job.observed)
      BY <2>2, <1>00, <1>j, UpdateForms DEF Endpoint!Goto
    <3>. QED  BY <3>1, <1>k, <1>q
  <2>3. CASE ~Endpoint!Goto("done")
    <3>1. PICK s1 \in Endpoint!Samples, s2 \in Endpoint!Samples : \E e \in s1 \cap s2 :
               /\ IF job.source = "mtapi" THEN e = job.observed ELSE s1 \cap s2 = {e}
               /\ job' = [job EXCEPT !.pc = "load", !.observed = e]
      BY <2>3, <1>10 DEF Endpoint!Observe
    <3>4. PICK e \in s1 \cap s2 :
               /\ IF job.source = "mtapi" THEN e = job.observed ELSE s1 \cap s2 = {e}
               /\ job' = [job EXCEPT !.pc = "load", !.observed = e]
      BY <3>1
    <3>2. e \in Endpoint!Endpoints /\ (~Reconnects => e = route)
      BY <3>4, <2>1, <1>j, <1>0 DEF Endpoint!Samples, Endpoint!Endpoints
    <3>3. Becomes("load", job.broker, job.source, e)
      BY <3>4, <3>2, <1>00, <1>j, UpdateForms
    <3>. QED  BY <2>1, <3>2, <3>3, <1>a, <1>00, <1>0, <1>j
  <2>. QED  BY <2>2, <2>3
<1>. QED
  BY <1>1, <1>2, <1>3, <1>4, <1>5, <1>6, <1>7, <1>8, <1>9, <1>10 DEF Endpoint!Choose

-----------------------------------------------------------------------------
(* What reading and writing the registry does to its records: each stays the *)
(* record of its session, and what is invalid stays invalid.                *)

\* Records that come from those of the registry.
Derived(records) ==
  /\ records \subseteq Endpoint!Record /\ Endpoint!Distinct(records)
  /\ \A r \in records : \E x \in registry.records : x.session = r.session
  /\ \A r \in records : r.status = "VERIFIED" => r \in registry.records
  /\ \A x \in registry.records : x.status = "INVALID" => x \in records

\* A change of status is a record, of the same session and broker.
LEMMA StatusForms ==
  ASSUME NEW r \in Endpoint!Record, NEW st \in {"VERIFIED", "SUPERSEDED", "INVALID"}
  PROVE  /\ [r EXCEPT !.status = st] \in Endpoint!Record
         /\ [r EXCEPT !.status = st].session = r.session
         /\ [r EXCEPT !.status = st].broker = r.broker
         /\ [r EXCEPT !.status = st].status = st
         /\ r.status = st => [r EXCEPT !.status = st] = r
BY DEF Endpoint!Record

LEMMA LoadIsDerived ==
  ASSUME Endpoint!TypeOK, Endpoint!Distinct(registry.records)
  PROVE  Derived(Endpoint!Load) /\ (registry.version # 1 => Endpoint!Load = registry.records)
<1>1. registry.records \subseteq Endpoint!Record
  BY DEF Endpoint!TypeOK, Endpoint!Registry
<1>2. \A x \in registry.records :
        /\ Endpoint!Migrate(x) \in Endpoint!Record /\ Endpoint!Migrate(x).session = x.session
        /\ Endpoint!Migrate(x).status \in {x.status, "INVALID"}
        /\ (Endpoint!Migrate(x).status = x.status => Endpoint!Migrate(x) = x)
        /\ (registry.version # 1 => Endpoint!Migrate(x) = x)
  <2>. SUFFICES ASSUME NEW x \in registry.records
                PROVE  /\ Endpoint!Migrate(x) \in Endpoint!Record
                       /\ Endpoint!Migrate(x).session = x.session
                       /\ Endpoint!Migrate(x).status \in {x.status, "INVALID"}
                       /\ (Endpoint!Migrate(x).status = x.status => Endpoint!Migrate(x) = x)
                       /\ (registry.version # 1 => Endpoint!Migrate(x) = x)
    OBVIOUS
  <2>1. CASE registry.version = 1
    <3>1. Endpoint!Migrate(x) = [x EXCEPT !.status = "INVALID"]
      BY <2>1 DEF Endpoint!Migrate
    <3>. DEFINE y == [x EXCEPT !.status = "INVALID"]
    <3>2. /\ y \in Endpoint!Record /\ y.session = x.session /\ y.status = "INVALID"
          /\ (x.status = "INVALID" => y = x)
      BY <1>1, StatusForms
    <3>. HIDE DEF y
    <3>3. Endpoint!Migrate(x) = y
      BY <3>1 DEF y
    <3>. QED  BY <2>1, <3>2, <3>3
  <2>2. CASE registry.version # 1
    <3>1. Endpoint!Migrate(x) = x
      BY <2>2 DEF Endpoint!Migrate
    <3>. QED  BY <1>1, <2>2, <3>1
  <2>. QED  BY <2>1, <2>2
<1>3. Endpoint!Load = {Endpoint!Migrate(x) : x \in registry.records}
  BY DEF Endpoint!Load
<1>4. Endpoint!Distinct(Endpoint!Load)
  BY <1>2, <1>3 DEF Endpoint!Distinct
<1>5. \A x \in registry.records : x.status = "INVALID" => x \in Endpoint!Load
  BY <1>2, <1>3
<1>. QED  BY <1>2, <1>3, <1>4, <1>5 DEF Derived

\* Invalidating an endpoint (invalidate).
LEMMA InvalidateIsDerived ==
  ASSUME Endpoint!TypeOK, Endpoint!Distinct(registry.records), NEW v, Endpoint!Invalidate(v)
  PROVE  registry' \in Endpoint!Registry /\ registry'.version = 3 /\ Derived(registry'.records)
<1>. DEFINE Now(x) == IF x = v THEN [x EXCEPT !.status = "INVALID"] ELSE x
<1>1. Derived(Endpoint!Load)
  BY LoadIsDerived
<1>2. /\ registry' = [version |-> 3, records |-> {Now(x) : x \in Endpoint!Load}]
      /\ registry'.records = {Now(x) : x \in Endpoint!Load} /\ registry'.version = 3
  BY DEF Endpoint!Invalidate
<1>3. \A x \in Endpoint!Load :
        /\ Now(x) \in Endpoint!Record /\ Now(x).session = x.session
        /\ (Now(x).status = "VERIFIED" => Now(x) = x)
        /\ (x.status = "INVALID" => Now(x) = x)
  BY <1>1, StatusForms DEF Derived
<1>. HIDE DEF Now
<1>4. registry'.records \subseteq Endpoint!Record
  BY <1>2, <1>3
<1>5. Endpoint!Distinct(registry'.records)
  BY <1>1, <1>2, <1>3 DEF Endpoint!Distinct, Derived
<1>6. /\ \A r \in registry'.records : \E x \in registry.records : x.session = r.session
      /\ \A r \in registry'.records : r.status = "VERIFIED" => r \in registry.records
  BY <1>1, <1>2, <1>3 DEF Derived
<1>7. \A x \in registry.records : x.status = "INVALID" => x \in registry'.records
  BY <1>1, <1>2, <1>3 DEF Derived
<1>8. registry' \in Endpoint!Registry
  BY <1>2, <1>4 DEF Endpoint!Registry
<1>. QED  BY <1>2, <1>4, <1>5, <1>6, <1>7, <1>8 DEF Derived

\* The record a publication adds.
Published == [broker |-> job.broker, endpoint |-> job.observed, session |-> jobs,
              status |-> "VERIFIED"]

\* Publishing an endpoint (publish): the records of before, none of them verified for
\* this broker, and the new one.
LEMMA PromotedIsDerived ==
  ASSUME Endpoint!TypeOK, Endpoint!Distinct(registry.records),
         job.broker # None, job.observed # None
  PROVE  \E old : /\ Endpoint!Promoted = old \cup {Published} /\ Derived(old)
                  /\ \A r \in old : r.status = "VERIFIED" => r.broker # job.broker
                  /\ registry.version # 1 =>
                       \A r \in old : r.status = "INVALID" => r \in registry.records
                  /\ Published \in Endpoint!Record
<1>. DEFINE Now(x) == IF x.status = "VERIFIED" /\ x.broker = job.broker
                      THEN [x EXCEPT !.status = "SUPERSEDED"] ELSE x
            old == {Now(x) : x \in Endpoint!Load}
<1>1. Derived(Endpoint!Load)
  BY LoadIsDerived
<1>2. Endpoint!Promoted = old \cup {Published}
  BY DEF Endpoint!Promoted, Published
<1>3. \A x \in Endpoint!Load :
        /\ Now(x) \in Endpoint!Record /\ Now(x).session = x.session
        /\ (Now(x).status = "VERIFIED" => Now(x) = x /\ Now(x).broker # job.broker)
        /\ (x.status = "INVALID" \/ Now(x).status = "INVALID" => Now(x) = x)
  BY <1>1, StatusForms DEF Derived
<1>4. Published \in Endpoint!Record
  BY DEF Endpoint!TypeOK, Endpoint!Job, Endpoint!Record, Published
<1>. HIDE DEF Now
<1>5. Endpoint!Distinct(old) /\ old \subseteq Endpoint!Record
  BY <1>1, <1>3 DEF Endpoint!Distinct, Derived
<1>6. /\ \A r \in old : \E x \in registry.records : x.session = r.session
      /\ \A r \in old : r.status = "VERIFIED" => r \in registry.records
      /\ \A r \in old : r.status = "VERIFIED" => r.broker # job.broker
  BY <1>1, <1>3 DEF Derived
<1>7. \A x \in registry.records : x.status = "INVALID" => x \in old
  BY <1>1, <1>3 DEF Derived
<1>9. registry.version # 1 =>
        \A r \in old : r.status = "INVALID" => r \in registry.records
  BY <1>1, <1>3, LoadIsDerived DEF Derived
<1>. HIDE DEF old
<1>8. Derived(old)
  BY <1>5, <1>6, <1>7 DEF Derived
<1>. QED  BY <1>2, <1>4, <1>6, <1>8, <1>9

-----------------------------------------------------------------------------
(* Sessions and snapshots.                                                  *)

\* The sets of steps and how they meet.
LEMMA StepSets ==
  /\ Searching \subseteq Endpoint!Unlisting \cup {"done", "failed"}
  /\ Endpoint!Unlisting = Endpoint!Working \cup {"load"}
  /\ Endpoint!Working = {"registry", "search", "identity", "broker registry", "wizard",
                         "candidates", "login", "observe"}
  /\ Endpoint!Writing = {"artifact", "provenance", "manifest", "save", "confirm"}
  /\ Endpoint!Publishing = Endpoint!Writing \cup {"load"}
  /\ Endpoint!Undoing = {"undo save", "undo manifest", "undo artifact", "undo provenance"}
  /\ Endpoint!Steps = Endpoint!Working \cup Endpoint!Publishing \cup Endpoint!Undoing
                      \cup {"idle", "done", "failed"}
BY DEF Searching, Endpoint!Unlisting, Endpoint!Working, Endpoint!Writing,
   Endpoint!Publishing, Endpoint!Undoing, Endpoint!Steps

\* What choosing an address changes besides the provision: a failed login may
\* invalidate the record it used.
LEMMA ChooseEffect ==
  ASSUME Endpoint!TypeOK, Endpoint!Choose
  PROVE  /\ UNCHANGED <<manifest, files, faults, route, online, changes, crashes>>
         /\ \/ UNCHANGED registry
            \/ /\ job.pc = "login" /\ Endpoint!Unreachable
               /\ Endpoint!Invalidate(job.verified) /\ job'.pc = "failed"
         /\ \/ job.pc = "idle" /\ jobs < MaxJobs /\ jobs' = jobs + 1 /\ UNCHANGED registry
            \/ job.pc \in Endpoint!Working /\ jobs' = jobs
<1>. USE DEF Endpoint!At, Endpoint!world, Endpoint!shared, Endpoint!counts
<1>1. CASE Endpoint!Begin
  BY <1>1 DEF Endpoint!Begin
<1>2. CASE Endpoint!ResolveServer
  BY <1>2 DEF Endpoint!ResolveServer, Endpoint!Working
<1>3. CASE Endpoint!Search
  BY <1>3 DEF Endpoint!Search, Endpoint!Working
<1>4. CASE Endpoint!Identify
  BY <1>4 DEF Endpoint!Identify, Endpoint!Working
<1>5. CASE Endpoint!ResolveBroker
  BY <1>5 DEF Endpoint!ResolveBroker, Endpoint!Working
<1>6. CASE Endpoint!Wizard
  BY <1>6 DEF Endpoint!Wizard, Endpoint!Working
<1>7. CASE Endpoint!TryCandidate
  BY <1>7 DEF Endpoint!TryCandidate, Endpoint!Working
<1>8. CASE Endpoint!CandidatesFail
  BY <1>8 DEF Endpoint!CandidatesFail, Endpoint!Working
<1>9. CASE Endpoint!Login
  <2>1. Endpoint!Goto("failed") => job'.pc = "failed"
    BY GotoForms DEF Endpoint!Steps
  <2>. QED  BY <1>9, <2>1 DEF Endpoint!Login, Endpoint!Working
<1>10. CASE Endpoint!Observe
  BY <1>10 DEF Endpoint!Observe, Endpoint!Working
<1>. QED
  BY <1>1, <1>2, <1>3, <1>4, <1>5, <1>6, <1>7, <1>8, <1>9, <1>10 DEF Endpoint!Choose

\* A step that touches neither registry nor manifest, and does not go back before
\* what was written.
LEMMA QuietKeeps ==
  ASSUME Endpoint!SessionInv, Endpoint!SnapshotInv, UNCHANGED <<registry, manifest, jobs>>,
         job'.pc \in Endpoint!Unlisting => job.pc \in Endpoint!Unlisting,
         job'.pc \in Endpoint!Writing \ {"confirm"} =>
           job.pc \in Endpoint!Unlisting \cup (Endpoint!Writing \ {"confirm"}),
         job'.pc \in Endpoint!Writing \cup Endpoint!Undoing =>
           /\ job.pc \in Endpoint!Writing \cup Endpoint!Undoing
           /\ job'.original = job.original /\ job'.listed = job.listed
  PROVE  Endpoint!SessionInv' /\ Endpoint!SnapshotInv'
<1>1. Endpoint!SessionInv'
  BY DEF Endpoint!SessionInv, Endpoint!Distinct
<1>2. Endpoint!SnapshotInv'
  BY DEF Endpoint!SnapshotInv, Endpoint!Distinct
<1>. QED  BY <1>1, <1>2

\* Types and counts of what a step leaves.
LEMMA TypeKeeps ==
  ASSUME Endpoint!TypeOK, registry' \in Endpoint!Registry,
         manifest' \subseteq Endpoint!Evidence, files' \subseteq Endpoint!Evidence,
         job' \in Endpoint!Job,
         job'.pc \in Endpoint!Writing \cup Endpoint!Undoing =>
           job'.original \in Endpoint!Registry,
         UNCHANGED <<route, online, changes>>,
         jobs' \in 0..MaxJobs, faults' \in 0..MaxFaults, crashes' \in 0..MaxCrashes
  PROVE  Endpoint!TypeOK'
BY DEF Endpoint!TypeOK

\* The evidence of a provision.
LEMMA EvidenceOf ==
  ASSUME Endpoint!TypeOK
  PROVE  /\ <<jobs, "artifact">> \in Endpoint!Evidence
         /\ <<jobs, "provenance">> \in Endpoint!Evidence
         /\ {jobs} \X Endpoint!Kinds = {<<jobs, "artifact">>, <<jobs, "provenance">>}
         /\ <<jobs, "artifact">>[1] = jobs /\ <<jobs, "provenance">>[1] = jobs
         /\ jobs \in Nat /\ MaxJobs \in Nat
BY DiscoveryAssumptions
   DEF DiscoveryAssumptions, Endpoint!EndpointAssumption, Endpoint!TypeOK,
       Endpoint!Evidence, Endpoint!Kinds

\* A provision chooses an address.
LEMMA ChooseKeeps ==
  ASSUME Endpoint!TypeOK, Endpoint!KnownInv, Endpoint!SessionInv, Endpoint!SnapshotInv,
         Endpoint!Choose
  PROVE  /\ Endpoint!TypeOK' /\ Endpoint!KnownInv'
         /\ Endpoint!SessionInv' /\ Endpoint!SnapshotInv'
<1>1. /\ job' \in Endpoint!Job /\ job'.pc \in Searching /\ Endpoint!KnownInv'
  BY ChooseForms
<1>2. Endpoint!Distinct(registry.records)
  BY DEF Endpoint!SessionInv
<1>3. ~(job'.pc \in Endpoint!Writing \cup Endpoint!Undoing)
  BY <1>1, StepSets DEF Searching
<1>4. jobs \in Nat /\ MaxJobs \in Nat /\ jobs' \in 0..MaxJobs
  BY ChooseEffect, EvidenceOf DEF Endpoint!TypeOK
<1>5. registry' \in Endpoint!Registry
  BY <1>2, ChooseEffect, InvalidateIsDerived DEF Endpoint!TypeOK
<1>6. Endpoint!TypeOK'
  BY <1>1, <1>3, <1>4, <1>5, ChooseEffect, TypeKeeps DEF Endpoint!TypeOK
<1>7. Endpoint!SnapshotInv'
  BY <1>3 DEF Endpoint!SnapshotInv
<1>8. Endpoint!SessionInv'
  <2>1. CASE job.pc = "idle" /\ jobs' = jobs + 1 /\ UNCHANGED <<registry, manifest>>
    <3>1. \A r \in registry.records : r.session \in Nat
      BY DEF Endpoint!TypeOK, Endpoint!Registry, Endpoint!Record
    <3>2. \A e \in manifest : e[1] \in Nat
      BY DEF Endpoint!TypeOK, Endpoint!Evidence
    <3>. QED  BY <1>4, <2>1, <3>1, <3>2 DEF Endpoint!SessionInv, Endpoint!Distinct
  <2>2. CASE /\ job.pc \in Endpoint!Working /\ UNCHANGED <<jobs, manifest, registry>>
    BY <1>1, <1>3, <2>2, StepSets DEF Endpoint!SessionInv, Endpoint!Distinct
  <2>3. CASE /\ job'.pc = "failed" /\ UNCHANGED <<jobs, manifest>>
             /\ Endpoint!Invalidate(job.verified)
    <3>1. Derived(registry'.records)
      BY <1>2, <2>3, InvalidateIsDerived
    <3>. QED  BY <2>3, <3>1, StepSets DEF Endpoint!SessionInv, Derived, Endpoint!Distinct
  <2>. QED  BY <2>1, <2>2, <2>3, ChooseEffect
<1>. QED  BY <1>1, <1>6, <1>7, <1>8

\* What a provision knows it keeps while it publishes.
LEMMA KnownKeeps ==
  ASSUME Endpoint!KnownInv, UNCHANGED route,
         \/ job'.pc \in {"idle", "done", "failed"} \cup Endpoint!Undoing
         \/ /\ job.pc \in Endpoint!Publishing /\ job'.pc \in Endpoint!Writing
            /\ job'.broker = job.broker /\ job'.observed = job.observed
  PROVE  Endpoint!KnownInv'
BY StepSets DEF Endpoint!KnownInv

\* What is known before the first write is noted (the publisher's snapshot).
LEMMA LoadAllForms ==
  ASSUME Endpoint!TypeOK, Endpoint!LoadAll
  PROVE  /\ job.pc = "load" /\ UNCHANGED <<registry, manifest, files, faults>>
         /\ UNCHANGED <<route, online, changes, jobs, crashes>> /\ job' \in Endpoint!Job
         /\ \/ job'.pc = "done"
            \/ /\ job'.pc = "artifact" /\ manifest \subseteq files
               /\ job'.original = registry /\ job'.listed = manifest
               /\ job'.broker = job.broker /\ job'.observed = job.observed
<1>0. "done" \in Endpoint!Steps /\ "artifact" \in Endpoint!Steps
  BY StepSets
<1>1. CASE Endpoint!Goto("done")
  BY <1>0, <1>1, GotoForms
     DEF Endpoint!LoadAll, Endpoint!At, Endpoint!shared, Endpoint!world, Endpoint!counts
<1>2. CASE /\ manifest \subseteq files
           /\ job' = [job EXCEPT !.pc = "artifact", !.original = registry, !.listed = manifest]
  <2>1. job' \in Endpoint!Job
    BY <1>0, <1>2 DEF Endpoint!TypeOK, Endpoint!Job
  <2>2. /\ job'.pc = "artifact" /\ job'.original = registry /\ job'.listed = manifest
        /\ job'.broker = job.broker /\ job'.observed = job.observed
    BY <1>2 DEF Endpoint!TypeOK, Endpoint!Job
  <2>. QED
    BY <1>2, <2>1, <2>2
       DEF Endpoint!LoadAll, Endpoint!At, Endpoint!shared, Endpoint!world, Endpoint!counts
<1>. QED  BY <1>1, <1>2 DEF Endpoint!LoadAll

\* An operation of the publication that takes effect.
Advances(p, q) ==
  /\ job.pc = p /\ job' \in Endpoint!Job /\ job'.pc = q
  /\ job'.broker = job.broker /\ job'.observed = job.observed
  /\ job'.original = job.original /\ job'.listed = job.listed
  /\ job'.written = job.written \cup {p} /\ UNCHANGED faults

\* One that does not: it fails, or what it has published is not found.
Reverts ==
  /\ job.pc \in Endpoint!Writing /\ job' \in Endpoint!Job /\ job'.pc = "undo save"
  /\ job'.original = job.original /\ job'.listed = job.listed
  /\ job'.written = job.written /\ UNCHANGED <<registry, manifest, files>>
  /\ \/ faults < MaxFaults /\ faults' = faults + 1
     \/ job.pc = "confirm" /\ ~Endpoint!Hit(job.broker) /\ UNCHANGED faults

\* What the operations of a publication do (publish).
LEMMA WriteForms ==
  ASSUME Endpoint!TypeOK,
         Endpoint!CopyArtifact \/ Endpoint!CopyProvenance \/ Endpoint!Save \/ Endpoint!Confirm
  PROVE  /\ UNCHANGED <<route, online, changes, jobs, crashes>>
         /\ \/ Reverts
            \/ /\ Advances("artifact", "provenance") /\ UNCHANGED <<registry, manifest>>
               /\ files' = files \cup {<<jobs, "artifact">>}
            \/ /\ Advances("provenance", "manifest") /\ UNCHANGED <<registry, manifest>>
               /\ files' = files \cup {<<jobs, "provenance">>}
            \/ /\ Advances("manifest", "save") /\ UNCHANGED <<registry, files>>
               /\ manifest' = manifest \cup ({jobs} \X Endpoint!Kinds)
            \/ /\ Advances("save", "confirm") /\ UNCHANGED <<manifest, files>>
               /\ registry' = [version |-> 3, records |-> Endpoint!Promoted]
            \/ /\ job.pc = "confirm" /\ job'.pc = "done" /\ job' \in Endpoint!Job
               /\ Endpoint!Hit(job.broker) /\ UNCHANGED <<registry, manifest, files, faults>>
<1>0. \A p \in Endpoint!Writing : p \in Endpoint!Publishing /\ p \in Endpoint!Steps
  BY StepSets
<1>01. "done" \in Endpoint!Steps /\ "undo save" \in Endpoint!Steps
  BY StepSets
<1>02. {"artifact", "provenance", "manifest", "save", "confirm"} = Endpoint!Writing
  BY StepSets
\* Both outcomes of an operation.
<1>a. ASSUME NEW p \in Endpoint!Writing, Endpoint!At(p), Endpoint!Fault,
             Endpoint!Goto("undo save"), UNCHANGED Endpoint!shared
      PROVE  Reverts
  BY <1>a, <1>01, GotoForms DEF Reverts, Endpoint!At, Endpoint!Fault, Endpoint!shared
<1>b. ASSUME NEW p \in Endpoint!Writing, NEW q \in Endpoint!Writing, Endpoint!At(p),
             job' = [job EXCEPT !.pc = q, !.written = @ \cup {p}], UNCHANGED faults
      PROVE  Advances(p, q)
  BY <1>b, <1>0, WrittenForms DEF Advances, Endpoint!At
<1>1. CASE Endpoint!CopyArtifact
  BY <1>1, <1>a, <1>b, <1>02 DEF Endpoint!CopyArtifact, Endpoint!Attempt, Endpoint!world
<1>2. CASE Endpoint!CopyProvenance
  BY <1>2, <1>a, <1>b, <1>02 DEF Endpoint!CopyProvenance, Endpoint!Attempt, Endpoint!world
<1>3. CASE Endpoint!Save
  BY <1>3, <1>a, <1>b, <1>02 DEF Endpoint!Save, Endpoint!Attempt, Endpoint!world
<1>4. CASE Endpoint!Confirm
  <2>1. CASE Endpoint!Fault /\ Endpoint!Goto("undo save")
    BY <1>4, <2>1, <1>a, <1>02 DEF Endpoint!Confirm, Endpoint!world
  <2>2. CASE /\ ~Endpoint!Hit(job.broker) /\ Endpoint!Goto("undo save") /\ UNCHANGED faults
    BY <1>4, <2>2, <1>01, <1>02, GotoForms
       DEF Endpoint!Confirm, Reverts, Endpoint!At, Endpoint!shared, Endpoint!world
  <2>3. CASE Endpoint!Hit(job.broker) /\ Endpoint!Goto("done") /\ UNCHANGED faults
    BY <1>4, <2>3, <1>01, GotoForms
       DEF Endpoint!Confirm, Endpoint!At, Endpoint!shared, Endpoint!world
  <2>. QED  BY <1>4, <2>1, <2>2, <2>3 DEF Endpoint!Confirm
<1>. QED  BY <1>1, <1>2, <1>3, <1>4

\* What undoing does (the rollback of publish): a step takes back one effect, has
\* nothing to take back, or fails and passes over it.
LEMMA UndoForms ==
  ASSUME Endpoint!TypeOK, Endpoint!RollBack
  PROVE  /\ UNCHANGED <<route, online, changes, jobs, crashes>>
         /\ job' \in Endpoint!Job /\ job'.original = job.original
         /\ job'.listed = job.listed /\ job'.written = job.written
         /\ \/ job.pc = "undo save" /\ job'.pc = "undo manifest"
            \/ job.pc = "undo manifest" /\ job'.pc = "undo artifact"
            \/ job.pc = "undo artifact" /\ job'.pc = "undo provenance"
            \/ job.pc = "undo provenance" /\ job'.pc = "done"
         /\ \/ /\ UNCHANGED <<registry, manifest, files>>
               /\ faults < MaxFaults /\ faults' = faults + 1
            \/ /\ UNCHANGED <<registry, manifest, files, faults>>
               /\ job.pc = "undo save" => "save" \notin job.written
               /\ job.pc = "undo manifest" => "manifest" \notin job.written
            \/ /\ job.pc = "undo save" /\ registry' = job.original
               /\ UNCHANGED <<manifest, files, faults>>
            \/ /\ job.pc = "undo manifest" /\ manifest' = job.listed
               /\ UNCHANGED <<registry, files, faults>>
            \/ /\ job.pc = "undo artifact" /\ files' = files \ {<<jobs, "artifact">>}
               /\ UNCHANGED <<registry, manifest, faults>>
            \/ /\ job.pc = "undo provenance" /\ files' = files \ {<<jobs, "provenance">>}
               /\ UNCHANGED <<registry, manifest, faults>>
<1>0. {"undo manifest", "undo artifact", "undo provenance", "done"} \subseteq Endpoint!Steps
  BY StepSets
<1>a. \A q \in {"undo manifest", "undo artifact", "undo provenance", "done"} :
        Endpoint!Goto(q) =>
          /\ job' \in Endpoint!Job /\ job'.pc = q /\ job'.original = job.original
          /\ job'.listed = job.listed /\ job'.written = job.written
  BY <1>0, GotoForms
<1>. USE DEF Endpoint!Undo, Endpoint!At, Endpoint!Fault, Endpoint!shared, Endpoint!world
<1>1. CASE Endpoint!Undo("undo save", "save",
                         registry' = job.original /\ UNCHANGED <<manifest, files>>,
                         "undo manifest")
  BY <1>1, <1>a
<1>2. CASE Endpoint!Undo("undo manifest", "manifest", Endpoint!UndoManifest, "undo artifact")
  BY <1>2, <1>a DEF Endpoint!UndoManifest
<1>3. CASE Endpoint!Undo("undo artifact", "artifact",
                         files' = files \ {<<jobs, "artifact">>}
                           /\ UNCHANGED <<registry, manifest>>, "undo provenance")
  BY <1>3, <1>a
<1>4. CASE Endpoint!Undo("undo provenance", "provenance",
                         files' = files \ {<<jobs, "provenance">>}
                           /\ UNCHANGED <<registry, manifest>>, "done")
  BY <1>4, <1>a
<1>. HIDE DEF Endpoint!Undo
<1>. QED  BY <1>1, <1>2, <1>3, <1>4 DEF Endpoint!RollBack

\* One failure more is one within the bound.
LEMMA FaultRange ==
  ASSUME Endpoint!TypeOK
  PROVE  /\ faults \in 0..MaxFaults /\ faults \in Nat
         /\ faults < MaxFaults => faults + 1 \in 0..MaxFaults
BY DiscoveryAssumptions
   DEF DiscoveryAssumptions, Endpoint!EndpointAssumption, Endpoint!TypeOK

\* A publication begins: what it found is what it will put back.
LEMMA LoadAllKeeps ==
  ASSUME Endpoint!TypeOK, Endpoint!KnownInv, Endpoint!SessionInv, Endpoint!SnapshotInv,
         Endpoint!LoadAll
  PROVE  /\ Endpoint!TypeOK' /\ Endpoint!KnownInv'
         /\ Endpoint!SessionInv' /\ Endpoint!SnapshotInv'
<1>1. Endpoint!TypeOK'
  BY LoadAllForms, TypeKeeps, StepSets DEF Endpoint!TypeOK
<1>2. Endpoint!KnownInv'
  BY LoadAllForms, KnownKeeps, StepSets
<1>3. Endpoint!SessionInv'
  BY LoadAllForms, StepSets DEF Endpoint!SessionInv, Endpoint!Distinct
<1>4. Endpoint!SnapshotInv'
  BY LoadAllForms, StepSets DEF Endpoint!SnapshotInv, Endpoint!SessionInv, Endpoint!Distinct
<1>. QED  BY <1>1, <1>2, <1>3, <1>4

\* An operation of the publication.
LEMMA WriteKeeps ==
  ASSUME Endpoint!TypeOK, Endpoint!KnownInv, Endpoint!SessionInv, Endpoint!SnapshotInv,
         Endpoint!CopyArtifact \/ Endpoint!CopyProvenance \/ Endpoint!Save \/ Endpoint!Confirm
  PROVE  /\ Endpoint!TypeOK' /\ Endpoint!KnownInv'
         /\ Endpoint!SessionInv' /\ Endpoint!SnapshotInv'
<1>0. UNCHANGED <<route, online, changes, jobs, crashes>>
  BY WriteForms
<1>t. /\ registry \in Endpoint!Registry /\ manifest \subseteq Endpoint!Evidence
      /\ files \subseteq Endpoint!Evidence /\ jobs \in 0..MaxJobs /\ crashes \in 0..MaxCrashes
      /\ job.pc \in Endpoint!Writing => job.original \in Endpoint!Registry
  BY DEF Endpoint!TypeOK
<1>1. CASE Reverts
  <2>1. Endpoint!TypeOK'
    BY <1>0, <1>t, <1>1, FaultRange, TypeKeeps DEF Reverts
  <2>2. Endpoint!KnownInv'
    BY <1>0, <1>1, KnownKeeps, StepSets DEF Reverts
  <2>3. Endpoint!SessionInv' /\ Endpoint!SnapshotInv'
    BY <1>0, <1>1, QuietKeeps, StepSets DEF Reverts
  <2>. QED  BY <2>1, <2>2, <2>3
<1>2. ASSUME NEW p \in {"artifact", "provenance"}, NEW q \in {"provenance", "manifest"},
             Advances(p, q), UNCHANGED <<registry, manifest>>,
             files' = files \cup {<<jobs, p>>}
      PROVE  /\ Endpoint!TypeOK' /\ Endpoint!KnownInv'
             /\ Endpoint!SessionInv' /\ Endpoint!SnapshotInv'
  <2>1. Endpoint!TypeOK'
    BY <1>0, <1>t, <1>2, FaultRange, TypeKeeps, EvidenceOf, StepSets DEF Advances
  <2>2. Endpoint!KnownInv'
    BY <1>0, <1>2, KnownKeeps, StepSets DEF Advances
  <2>3. Endpoint!SessionInv' /\ Endpoint!SnapshotInv'
    BY <1>0, <1>2, QuietKeeps, StepSets DEF Advances
  <2>. QED  BY <2>1, <2>2, <2>3
<1>3. CASE /\ Advances("manifest", "save") /\ UNCHANGED <<registry, files>>
           /\ manifest' = manifest \cup ({jobs} \X Endpoint!Kinds)
  <2>1. Endpoint!TypeOK'
    BY <1>0, <1>t, <1>3, FaultRange, TypeKeeps, EvidenceOf, StepSets DEF Advances
  <2>2. Endpoint!KnownInv'
    BY <1>0, <1>3, KnownKeeps, StepSets DEF Advances
  <2>3. Endpoint!SessionInv'
    <3>1. \A e \in manifest' : e \in manifest \/ e[1] = jobs
      BY <1>3, EvidenceOf
    <3>2. \A e \in manifest' : e[1] <= jobs'
      BY <1>0, <3>1, EvidenceOf DEF Endpoint!SessionInv
    <3>. QED  BY <1>0, <1>3, <3>2, StepSets
              DEF Advances, Endpoint!SessionInv, Endpoint!Distinct
  <2>4. Endpoint!SnapshotInv'
    BY <1>0, <1>3, StepSets DEF Advances, Endpoint!SnapshotInv, Endpoint!Distinct
  <2>. QED  BY <2>1, <2>2, <2>3, <2>4
<1>4. CASE /\ Advances("save", "confirm") /\ UNCHANGED <<manifest, files>>
           /\ registry' = [version |-> 3, records |-> Endpoint!Promoted]
  <2>0. job.broker # None /\ job.observed # None
    BY <1>4, StepSets DEF Advances, Endpoint!KnownInv
  <2>1. PICK old : /\ Endpoint!Promoted = old \cup {Published} /\ Derived(old)
                   /\ Published \in Endpoint!Record
    BY <2>0, PromotedIsDerived DEF Endpoint!SessionInv
  <2>2. registry'.records = old \cup {Published} /\ registry'.version = 3
    BY <1>4, <2>1
  <2>3. registry' \in Endpoint!Registry
    BY <1>4, <2>1 DEF Derived, Endpoint!Registry
  <2>4. Published.session = jobs /\ Published.status = "VERIFIED"
    BY DEF Published
  <2>5. Endpoint!TypeOK'
    BY <1>0, <1>t, <1>4, <2>3, FaultRange, TypeKeeps, StepSets DEF Advances
  <2>6. Endpoint!KnownInv'
    BY <1>0, <1>4, KnownKeeps, StepSets DEF Advances
  <2>7. \A r \in registry.records : r.session <= jobs /\ r.session # jobs
    BY <1>4, StepSets DEF Advances, Endpoint!SessionInv
  <2>8. Endpoint!SessionInv'
    <3>1. \A r \in old : r.session <= jobs /\ r.session # jobs
      BY <2>1, <2>7 DEF Derived
    <3>2. Endpoint!Distinct(registry'.records)
      BY <2>1, <2>2, <2>4, <3>1 DEF Derived, Endpoint!Distinct
    <3>3. \A r \in registry'.records : r.session <= jobs'
      BY <1>0, <2>2, <2>4, <3>1, EvidenceOf
    <3>. QED  BY <1>0, <1>4, <3>2, <3>3, StepSets
              DEF Advances, Endpoint!SessionInv, Endpoint!Distinct
  <2>9. Endpoint!SnapshotInv'
    BY <1>0, <1>4, <2>1, <2>2, StepSets
       DEF Advances, Endpoint!SnapshotInv, Endpoint!Distinct, Derived
  <2>. QED  BY <2>5, <2>6, <2>8, <2>9
<1>5. CASE /\ job'.pc = "done" /\ job' \in Endpoint!Job
           /\ UNCHANGED <<registry, manifest, files, faults>>
  <2>1. Endpoint!TypeOK'
    BY <1>0, <1>t, <1>5, FaultRange, TypeKeeps, StepSets
  <2>2. Endpoint!KnownInv'
    BY <1>0, <1>5, KnownKeeps
  <2>3. Endpoint!SessionInv' /\ Endpoint!SnapshotInv'
    BY <1>0, <1>5, QuietKeeps, StepSets
  <2>. QED  BY <2>1, <2>2, <2>3
<1>. QED  BY <1>1, <1>2, <1>3, <1>4, <1>5, WriteForms

\* A step of the undoing.
LEMMA UndoKeeps ==
  ASSUME Endpoint!TypeOK, Endpoint!KnownInv, Endpoint!SessionInv, Endpoint!SnapshotInv,
         Endpoint!RollBack
  PROVE  /\ Endpoint!TypeOK' /\ Endpoint!KnownInv'
         /\ Endpoint!SessionInv' /\ Endpoint!SnapshotInv'
<1>0. /\ UNCHANGED <<route, online, changes, jobs, crashes>> /\ job' \in Endpoint!Job
      /\ job'.original = job.original /\ job'.listed = job.listed
      /\ job.pc \in Endpoint!Undoing /\ job'.pc \in Endpoint!Undoing \cup {"done"}
  BY UndoForms, StepSets
<1>t. /\ registry \in Endpoint!Registry /\ manifest \subseteq Endpoint!Evidence
      /\ files \subseteq Endpoint!Evidence /\ jobs \in 0..MaxJobs /\ crashes \in 0..MaxCrashes
      /\ job.original \in Endpoint!Registry /\ job.listed \subseteq Endpoint!Evidence
  BY <1>0 DEF Endpoint!TypeOK, Endpoint!Job
<1>1. /\ registry' \in {registry, job.original} /\ manifest' \in {manifest, job.listed}
      /\ files' \subseteq files
  BY UndoForms
<1>2. faults' \in 0..MaxFaults
  BY UndoForms, FaultRange
<1>3. Endpoint!TypeOK'
  <2>1. registry' \in Endpoint!Registry /\ manifest' \subseteq Endpoint!Evidence
        /\ files' \subseteq Endpoint!Evidence
    BY <1>t, <1>1
  <2>. QED  BY <1>0, <1>t, <1>2, <2>1, TypeKeeps
<1>4. Endpoint!KnownInv'
  BY <1>0, KnownKeeps
<1>5. Endpoint!SessionInv'
  BY <1>0, <1>1, StepSets DEF Endpoint!SessionInv, Endpoint!SnapshotInv, Endpoint!Distinct
<1>6. Endpoint!SnapshotInv'
  BY <1>0, <1>1, StepSets DEF Endpoint!SnapshotInv, Endpoint!Distinct
<1>. QED  BY <1>3, <1>4, <1>5, <1>6

\* A provision ends, the agent crashes, or the world changes between provisions.
LEMMA RestKeeps ==
  ASSUME Endpoint!TypeOK, Endpoint!KnownInv, Endpoint!SessionInv, Endpoint!SnapshotInv,
         Endpoint!End \/ Endpoint!Crash \/ Endpoint!Change \/ UNCHANGED Endpoint!vars
  PROVE  /\ Endpoint!TypeOK' /\ Endpoint!KnownInv'
         /\ Endpoint!SessionInv' /\ Endpoint!SnapshotInv'
<1>1. CASE Endpoint!End \/ Endpoint!Crash
  <2>0. /\ UNCHANGED <<registry, manifest, files, route, online, changes, jobs, faults>>
        /\ job' = Endpoint!NoJob
    BY <1>1 DEF Endpoint!End, Endpoint!Crash, Endpoint!shared, Endpoint!world,
       Endpoint!counts
  <2>1. job' \in Endpoint!Job /\ job'.pc = "idle"
    BY <2>0, NoJobForms
  <2>2. crashes' \in 0..MaxCrashes
    BY <1>1, DiscoveryAssumptions
       DEF DiscoveryAssumptions, Endpoint!EndpointAssumption, Endpoint!TypeOK,
           Endpoint!End, Endpoint!Crash, Endpoint!counts
  <2>3. Endpoint!TypeOK'
    BY <2>0, <2>1, <2>2, TypeKeeps, StepSets DEF Endpoint!TypeOK
  <2>4. Endpoint!KnownInv'
    BY <2>0, <2>1, KnownKeeps
  <2>5. Endpoint!SessionInv' /\ Endpoint!SnapshotInv'
    BY <2>0, <2>1, QuietKeeps, StepSets
  <2>. QED  BY <2>3, <2>4, <2>5
<1>2. CASE Endpoint!Change
  <2>0. /\ UNCHANGED <<registry, manifest, files, job, jobs, faults, crashes>>
        /\ job.pc = "idle"
    BY <1>2 DEF Endpoint!Change, Endpoint!At, Endpoint!shared, Endpoint!counts
  <2>1. route' \in Hosts /\ online' \in BOOLEAN
    BY <1>2 DEF Endpoint!Change, Endpoint!TypeOK
  <2>2. changes' \in 0..MaxChanges
    BY <1>2, DiscoveryAssumptions
       DEF DiscoveryAssumptions, Endpoint!EndpointAssumption, Endpoint!TypeOK,
           Endpoint!Change
  <2>3. Endpoint!TypeOK'
    BY <2>0, <2>1, <2>2 DEF Endpoint!TypeOK
  <2>4. Endpoint!KnownInv'
    BY <2>0, StepSets DEF Endpoint!KnownInv
  <2>5. Endpoint!SessionInv' /\ Endpoint!SnapshotInv'
    BY <2>0, QuietKeeps, StepSets
  <2>. QED  BY <2>3, <2>4, <2>5
<1>3. CASE UNCHANGED Endpoint!vars
  <2>. USE <1>3 DEF Endpoint!vars, Endpoint!shared, Endpoint!world, Endpoint!counts
  <2>1. Endpoint!TypeOK'
    BY DEF Endpoint!TypeOK
  <2>2. Endpoint!KnownInv'
    BY DEF Endpoint!KnownInv
  <2>3. Endpoint!SessionInv' /\ Endpoint!SnapshotInv'
    BY QuietKeeps
  <2>. QED  BY <2>1, <2>2, <2>3
<1>. QED  BY <1>1, <1>2, <1>3

-----------------------------------------------------------------------------
(* Only what was not reached.                                               *)

\* No step invalidates a verified record but the failed login that used it.
LEMMA UnreachableStep ==
  ASSUME Endpoint!TypeOK, Endpoint!SessionInv, Endpoint!SnapshotInv,
         Endpoint!KnownInv, [Endpoint!Next]_Endpoint!vars,
         NEW r \in registry.records, r.status = "VERIFIED",
         [r EXCEPT !.status = "INVALID"] \in registry'.records, registry.version # 1
  PROVE  r = job.verified /\ Endpoint!Unreachable
<1>. DEFINE i == [r EXCEPT !.status = "INVALID"]
<1>1. i.session = r.session /\ i.status = "INVALID" /\ i \in registry'.records
  BY StatusForms DEF Endpoint!TypeOK, Endpoint!Registry
<1>. HIDE DEF i
\* The record of that session is r.
<1>2. i \notin registry.records
  BY <1>1 DEF Endpoint!SessionInv, Endpoint!Distinct
<1>3. registry' # registry
  BY <1>1, <1>2
<1>4. CASE Endpoint!Choose
  <2>1. Endpoint!Unreachable /\ Endpoint!Invalidate(job.verified)
    BY <1>3, <1>4, ChooseEffect
  <2>2. registry'.records = {IF x = job.verified THEN [x EXCEPT !.status = "INVALID"]
                                                 ELSE x : x \in registry.records}
    BY <2>1, LoadIsDerived DEF Endpoint!Invalidate, Endpoint!SessionInv
  <2>3. job.verified \in registry.records /\ i = [job.verified EXCEPT !.status = "INVALID"]
    BY <1>1, <1>2, <2>2
  <2>4. i.session = job.verified.session
    BY <2>3, StatusForms DEF Endpoint!TypeOK, Endpoint!Registry
  <2>. QED  BY <1>1, <2>1, <2>3, <2>4 DEF Endpoint!SessionInv, Endpoint!Distinct
<1>5. CASE Endpoint!CopyArtifact \/ Endpoint!CopyProvenance \/ Endpoint!Save
             \/ Endpoint!Confirm
  <2>1. CASE /\ Advances("save", "confirm")
             /\ registry' = [version |-> 3, records |-> Endpoint!Promoted]
    <3>1. job.broker # None /\ job.observed # None
      BY <2>1, StepSets DEF Advances, Endpoint!KnownInv
    <3>2. PICK old : /\ Endpoint!Promoted = old \cup {Published}
                     /\ \A x \in old : x.status = "INVALID" => x \in registry.records
      BY <3>1, PromotedIsDerived DEF Endpoint!SessionInv
    <3>3. Published.status = "VERIFIED"
      BY DEF Published
    <3>4. registry'.records = old \cup {Published}
      BY <2>1, <3>2
    <3>. QED  BY <1>1, <1>2, <3>2, <3>3, <3>4
  <2>. QED  BY <1>3, <1>5, <2>1, WriteForms DEF Reverts
<1>6. CASE Endpoint!RollBack
  <2>1. registry' = job.original /\ job.pc = "undo save"
    BY <1>3, <1>6, UndoForms
  <2>. QED  BY <1>1, <1>2, <2>1, StepSets DEF Endpoint!SnapshotInv
<1>. QED
  BY <1>3, <1>4, <1>5, <1>6, LoadAllForms
     DEF Endpoint!Next, Endpoint!Publish, Endpoint!End, Endpoint!Crash, Endpoint!Change,
         Endpoint!vars, Endpoint!shared

-----------------------------------------------------------------------------
(* What a failure leaves.                                                   *)

\* A sound registry loses nothing when the evidence grows.
LEMMA SoundGrows ==
  ASSUME NEW R, NEW E, NEW F, Endpoint!Sound(R, E), E \subseteq F
  PROVE  Endpoint!Sound(R, F)
BY DEF Endpoint!Sound

\* A verified record of a sound registry is what the resolver finds.
LEMMA SoundResolves ==
  ASSUME NEW r \in registry.records, Endpoint!Sound(registry.records, manifest),
         manifest \subseteq files, registry.version = 3, r.status = "VERIFIED",
         r.broker # None
  PROVE  Endpoint!Resolves(r.broker, r)
<1>1. Endpoint!Matches(r.broker) = {r}
  BY DEF Endpoint!Matches, Endpoint!Sound
<1>2. Endpoint!Backed(r)
  BY DEF Endpoint!Backed, Endpoint!Sound
<1>. QED  BY <1>1, <1>2 DEF Endpoint!Resolves

\* A publication that has saved its record finds it.
LEMMA ConfirmHits ==
  ASSUME Endpoint!KnownInv, Endpoint!BackedInv, faults <= 1, job.pc = "confirm"
  PROVE  Endpoint!Hit(job.broker)
<1>1. /\ Published \in registry.records /\ registry.version = 3 /\ job.broker # None
      /\ Endpoint!Sound(registry.records, manifest) /\ manifest \subseteq files
  BY StepSets DEF Endpoint!KnownInv, Endpoint!BackedInv, Published
<1>2. Published.broker = job.broker /\ Published.status = "VERIFIED"
  BY DEF Published
<1>. QED  BY <1>1, <1>2, SoundResolves DEF Endpoint!Hit

\* A step that fails at most once in all keeps the evidence and its snapshot.
LEMMA BackedStep ==
  ASSUME Endpoint!IInv, [Endpoint!Next]_Endpoint!vars, faults' <= 1
  PROVE  Endpoint!BackedInv'
<1>. USE DEF Endpoint!IInv
<1>0. faults <= 1 /\ faults \in Nat
  <2>1. faults' \in {faults, faults + 1}
    BY LoadAllForms, WriteForms, UndoForms, ChooseEffect
       DEF Reverts, Advances, Endpoint!Next, Endpoint!Publish, Endpoint!End, Endpoint!Crash,
           Endpoint!Change, Endpoint!vars, Endpoint!counts
  <2>. QED  BY <2>1, FaultRange
<1>b. /\ manifest \subseteq files /\ Endpoint!Sound(registry.records, manifest)
      /\ job.pc \in Endpoint!Writing \cup Endpoint!Undoing =>
           /\ job.listed \subseteq manifest
           /\ Endpoint!Sound(job.original.records, job.listed)
  BY <1>0 DEF Endpoint!BackedInv
<1>1. CASE Endpoint!Choose
  <2>1. \A r \in registry'.records : r.status = "VERIFIED" => r \in registry.records
    BY <1>1, ChooseEffect, InvalidateIsDerived DEF Derived, Endpoint!SessionInv
  <2>2. Endpoint!Sound(registry'.records, manifest)
    BY <1>b, <2>1 DEF Endpoint!Sound
  <2>3. job'.pc \notin Endpoint!Writing \cup Endpoint!Undoing
    BY <1>1, ChooseForms, StepSets DEF Searching
  <2>. QED  BY <1>1, <1>b, <2>2, <2>3, ChooseEffect, StepSets DEF Endpoint!BackedInv
<1>2. CASE Endpoint!LoadAll
  BY <1>2, <1>b, LoadAllForms, StepSets
     DEF Endpoint!BackedInv, Endpoint!Unsaved, Endpoint!Unlisted, Endpoint!Sound
<1>3. CASE Endpoint!CopyArtifact \/ Endpoint!CopyProvenance \/ Endpoint!Save
             \/ Endpoint!Confirm
  <2>0. UNCHANGED jobs
    BY <1>3, WriteForms
  <2>1. CASE Reverts
    <3>1. faults' > 0
      <4>1. job.pc = "confirm" => Endpoint!Hit(job.broker)
        BY <1>0, ConfirmHits
      <4>2. faults' = faults + 1
        BY <2>1, <4>1 DEF Reverts
      <4>. QED  BY <1>0, <4>2
    <3>2. /\ "save" \in job.written \/ Endpoint!Unsaved
          /\ "manifest" \in job.written \/ Endpoint!Unlisted
      BY <1>0, <2>1, StepSets DEF Reverts, Endpoint!BackedInv
    <3>. QED  BY <1>b, <2>0, <2>1, <3>1, <3>2, StepSets
              DEF Reverts, Endpoint!BackedInv, Endpoint!Unsaved, Endpoint!Unlisted
  <2>2. CASE /\ Advances("artifact", "provenance") /\ UNCHANGED <<registry, manifest>>
             /\ files' = files \cup {<<jobs, "artifact">>}
    BY <1>0, <1>b, <2>0, <2>2, StepSets
       DEF Advances, Endpoint!BackedInv, Endpoint!Unsaved, Endpoint!Unlisted
  <2>3. CASE /\ Advances("provenance", "manifest") /\ UNCHANGED <<registry, manifest>>
             /\ files' = files \cup {<<jobs, "provenance">>}
    BY <1>0, <1>b, <2>0, <2>3, StepSets
       DEF Advances, Endpoint!BackedInv, Endpoint!Unsaved, Endpoint!Unlisted
  <2>4. CASE /\ Advances("manifest", "save") /\ UNCHANGED <<registry, files>>
             /\ manifest' = manifest \cup ({jobs} \X Endpoint!Kinds)
    <3>1. <<jobs, "artifact">> \in files /\ <<jobs, "provenance">> \in files
      BY <1>0, <2>4, StepSets DEF Advances, Endpoint!BackedInv
    <3>2. manifest' \subseteq files
      BY <1>b, <2>4, <3>1, EvidenceOf
    <3>3. Endpoint!Sound(registry.records, manifest')
      BY <1>b, <2>4, SoundGrows
    <3>4. job.listed \subseteq manifest' /\ Endpoint!Sound(job.original.records, job.listed)
      BY <1>b, <2>4, StepSets DEF Advances
    <3>. QED  BY <1>0, <2>0, <2>4, <3>1, <3>2, <3>3, <3>4, StepSets
              DEF Advances, Endpoint!BackedInv, Endpoint!Unsaved, Endpoint!Unlisted
  <2>5. CASE /\ Advances("save", "confirm") /\ UNCHANGED <<manifest, files>>
             /\ registry' = [version |-> 3, records |-> Endpoint!Promoted]
    <3>0. /\ job.broker # None /\ job.observed # None
          /\ "manifest" \in job.written /\ {jobs} \X Endpoint!Kinds \subseteq manifest
          /\ <<jobs, "artifact">> \in files /\ <<jobs, "provenance">> \in files
      BY <1>0, <2>5, StepSets DEF Advances, Endpoint!KnownInv, Endpoint!BackedInv
    <3>1. PICK old : /\ Endpoint!Promoted = old \cup {Published} /\ Derived(old)
                     /\ \A r \in old : r.status = "VERIFIED" => r.broker # job.broker
      BY <3>0, PromotedIsDerived DEF Endpoint!SessionInv
    <3>2. registry'.records = old \cup {Published} /\ registry'.version = 3
      BY <2>5, <3>1
    <3>3. Published.session = jobs /\ Published.broker = job.broker
      BY DEF Published
    <3>4. <<jobs, "artifact">> \in manifest /\ <<jobs, "provenance">> \in manifest
      BY <3>0, EvidenceOf
    <3>5. Endpoint!Sound(registry'.records, manifest)
      BY <1>b, <3>1, <3>2, <3>3, <3>4 DEF Endpoint!Sound, Derived
    <3>6. job'.pc = "confirm" /\ "save" \in job'.written /\ "manifest" \in job'.written
      BY <2>5, <3>0 DEF Advances
    <3>7. Published' = Published
      BY <2>0, <2>5 DEF Published, Advances
    <3>8. job'.listed \subseteq manifest /\ Endpoint!Sound(job'.original.records, job'.listed)
      BY <1>b, <2>5, StepSets DEF Advances
    <3>. QED  BY <1>b, <2>0, <2>5, <3>0, <3>2, <3>5, <3>6, <3>7, <3>8, StepSets
              DEF Endpoint!BackedInv, Published
  <2>6. CASE /\ job'.pc = "done" /\ UNCHANGED <<registry, manifest, files, faults>>
    BY <1>b, <2>0, <2>6, StepSets DEF Endpoint!BackedInv
  <2>. QED  BY <1>3, <2>1, <2>2, <2>3, <2>4, <2>5, <2>6, WriteForms
<1>4. CASE Endpoint!RollBack
  <2>0. /\ UNCHANGED jobs /\ job'.original = job.original /\ job'.listed = job.listed
        /\ job'.written = job.written /\ job.pc \in Endpoint!Undoing
        /\ job'.pc \in Endpoint!Undoing \cup {"done"}
    BY <1>4, UndoForms, StepSets
  \* There has been a failure already.
  <2>1. faults > 0 /\ UNCHANGED faults
    <3>1. faults > 0
      BY <1>0, <2>0 DEF Endpoint!BackedInv
    <3>2. faults' = faults \/ faults' = faults + 1
      BY <1>4, UndoForms
    <3>. QED  BY <1>0, <3>1, <3>2
  <2>2. CASE job.pc = "undo save"
    <3>1. /\ registry' = job.original /\ UNCHANGED <<manifest, files>>
          /\ job'.pc = "undo manifest"
      <4>1. "save" \in job.written \/ registry = job.original
        BY <1>0, <2>2 DEF Endpoint!BackedInv, Endpoint!Unsaved
      <4>2. faults' # faults + 1
        BY <1>0, <2>1
      <4>. QED  BY <1>4, <2>2, <4>1, <4>2, UndoForms
    <3>2. "manifest" \in job.written \/ Endpoint!Unlisted
      BY <1>0, <2>2 DEF Endpoint!BackedInv
    <3>3. Endpoint!Sound(registry'.records, manifest)
      BY <1>b, <2>0, <3>1, SoundGrows
    <3>. QED  BY <1>b, <2>0, <2>1, <3>1, <3>2, <3>3, StepSets
              DEF Endpoint!BackedInv, Endpoint!Unsaved, Endpoint!Unlisted
  <2>3. CASE job.pc = "undo manifest"
    <3>1. /\ manifest' = job.listed /\ UNCHANGED <<registry, files>>
          /\ job'.pc = "undo artifact"
      <4>1. "manifest" \in job.written \/ manifest = job.listed
        BY <1>0, <2>3 DEF Endpoint!BackedInv, Endpoint!Unlisted
      <4>2. faults' # faults + 1
        BY <1>0, <2>1
      <4>. QED  BY <1>4, <2>3, <4>1, <4>2, UndoForms
    <3>2. registry = job.original
      BY <1>0, <2>3, StepSets DEF Endpoint!BackedInv, Endpoint!Unsaved
    <3>. QED  BY <1>b, <2>0, <2>1, <3>1, <3>2, StepSets
              DEF Endpoint!BackedInv, Endpoint!Unsaved, Endpoint!Unlisted
  <2>4. CASE job.pc \in {"undo artifact", "undo provenance"}
    <3>1. /\ \E k : files' = files \ {<<jobs, k>>} \/ files' = files
          /\ UNCHANGED <<registry, manifest>> /\ job'.pc \in {"undo provenance", "done"}
      BY <1>4, <2>4, UndoForms
    <3>2. registry = job.original /\ manifest = job.listed
      BY <1>0, <2>4, StepSets DEF Endpoint!BackedInv, Endpoint!Unsaved, Endpoint!Unlisted
    <3>3. manifest \subseteq files'
      <4>1. \A e \in manifest : \A k : e # <<jobs, k>>
        BY <2>0, <3>2 DEF Endpoint!SnapshotInv
      <4>. QED  BY <1>b, <3>1, <4>1
    <3>. QED  BY <1>b, <2>0, <2>1, <3>1, <3>2, <3>3, StepSets
              DEF Endpoint!BackedInv, Endpoint!Unsaved, Endpoint!Unlisted
  <2>. QED  BY <2>0, <2>2, <2>3, <2>4, StepSets
<1>5. CASE Endpoint!End \/ Endpoint!Crash \/ Endpoint!Change
  <2>1. UNCHANGED <<registry, manifest, files, faults>> /\ job'.pc = "idle"
    BY <1>5, NoJobForms
       DEF Endpoint!End, Endpoint!Crash, Endpoint!Change, Endpoint!shared, Endpoint!counts,
           Endpoint!At
  <2>. QED  BY <1>b, <2>1, StepSets DEF Endpoint!BackedInv
<1>6. CASE UNCHANGED Endpoint!vars
  BY <1>0, <1>6
     DEF Endpoint!vars, Endpoint!shared, Endpoint!counts, Endpoint!BackedInv,
         Endpoint!Unsaved, Endpoint!Unlisted
<1>. QED
  BY <1>1, <1>2, <1>3, <1>4, <1>5, <1>6 DEF Endpoint!Next, Endpoint!Publish

-----------------------------------------------------------------------------
(* The theorems.                                                            *)

\* A host that has published nothing, or an address under an earlier schema.
LEMMA EndpointInit == Endpoint!Init => Endpoint!IInv
<1>. SUFFICES ASSUME Endpoint!Init PROVE Endpoint!IInv
  OBVIOUS
<1>a. /\ Hosts \subseteq Endpoint!Endpoints
      /\ {MaxJobs, MaxFaults, MaxCrashes, MaxChanges} \subseteq Nat
  BY DiscoveryAssumptions
     DEF DiscoveryAssumptions, Endpoint!EndpointAssumption, Endpoint!Endpoints
<1>1. /\ route \in Hosts /\ online = TRUE /\ job = Endpoint!NoJob
      /\ jobs = 0 /\ faults = 0 /\ crashes = 0 /\ changes = 0 /\ files = manifest
  BY DEF Endpoint!Init
<1>2. job \in Endpoint!Job /\ job.pc = "idle"
  BY <1>1, NoJobForms
<1>c. /\ jobs \in 0..MaxJobs /\ faults \in 0..MaxFaults
      /\ crashes \in 0..MaxCrashes /\ changes \in 0..MaxChanges
  BY <1>a, <1>1
<1>d. ~(job.pc \in Endpoint!Writing \cup Endpoint!Undoing) /\ online \in BOOLEAN
  BY <1>1, <1>2, StepSets
<1>3. CASE registry = [version |-> 3, records |-> {}] /\ manifest = {}
  <2>1. registry.version = 3 /\ registry.records = {} /\ registry \in Endpoint!Registry
    BY <1>3 DEF Endpoint!Registry
  <2>2. Endpoint!TypeOK
    BY <1>1, <1>2, <1>3, <1>c, <1>d, <2>1 DEF Endpoint!TypeOK
  <2>3. Endpoint!KnownInv /\ Endpoint!SnapshotInv
    BY <1>2, StepSets DEF Endpoint!KnownInv, Endpoint!SnapshotInv
  <2>4. Endpoint!SessionInv
    BY <1>2, <1>3, <2>1, StepSets DEF Endpoint!SessionInv, Endpoint!Distinct
  <2>5. Endpoint!BackedInv
    BY <1>1, <1>2, <1>3, <2>1, StepSets DEF Endpoint!BackedInv, Endpoint!Sound
  <2>. QED  BY <2>2, <2>3, <2>4, <2>5 DEF Endpoint!IInv
<1>4. CASE /\ \E v \in 1..2, b \in Brokers :
                registry = [version |-> v, records |-> {Endpoint!Legacy(b, route)}]
           /\ manifest = {<<0, "artifact">>}
  <2>1. PICK v \in 1..2, b \in Brokers :
               registry = [version |-> v, records |-> {Endpoint!Legacy(b, route)}]
    BY <1>4
  <2>. DEFINE l == Endpoint!Legacy(b, route)
  <2>2. /\ l \in Endpoint!Record /\ l.session = 0
    BY <1>a, <1>1 DEF Endpoint!Legacy, Endpoint!Record
  <2>. HIDE DEF l
  <2>3. registry.version = v /\ registry.records = {l} /\ registry \in Endpoint!Registry
    <3>1. registry = [version |-> v, records |-> {l}]
      BY <2>1 DEF l
    <3>. QED  BY <2>2, <3>1 DEF Endpoint!Registry
  <2>4. manifest \subseteq Endpoint!Evidence /\ \A e \in manifest : e[1] = 0
    BY <1>a, <1>4 DEF Endpoint!Evidence, Endpoint!Kinds
  <2>5. Endpoint!TypeOK
    BY <1>1, <1>2, <1>c, <1>d, <2>3, <2>4 DEF Endpoint!TypeOK
  <2>6. Endpoint!KnownInv /\ Endpoint!SnapshotInv
    BY <1>2, StepSets DEF Endpoint!KnownInv, Endpoint!SnapshotInv
  <2>7. Endpoint!SessionInv
    <3>1. \A r \in registry.records : r.session <= jobs
      BY <1>1, <2>2, <2>3
    <3>2. \A e \in manifest : e[1] <= jobs
      BY <1>1, <2>4
    <3>3. Endpoint!Distinct(registry.records)
      BY <2>3 DEF Endpoint!Distinct
    <3>. QED  BY <1>2, <3>1, <3>2, <3>3, StepSets DEF Endpoint!SessionInv
  <2>8. Endpoint!BackedInv
    BY <1>1, <1>2, <1>4, <2>2, <2>3, StepSets DEF Endpoint!BackedInv, Endpoint!Sound
  <2>. QED  BY <2>5, <2>6, <2>7, <2>8 DEF Endpoint!IInv
<1>. QED  BY <1>3, <1>4 DEF Endpoint!Init

\* Every step keeps the invariant.
LEMMA EndpointStep == Endpoint!IInv /\ [Endpoint!Next]_Endpoint!vars => Endpoint!IInv'
<1>. SUFFICES ASSUME Endpoint!IInv, [Endpoint!Next]_Endpoint!vars PROVE Endpoint!IInv'
  OBVIOUS
<1>1. /\ Endpoint!TypeOK' /\ Endpoint!KnownInv' /\ Endpoint!SessionInv'
      /\ Endpoint!SnapshotInv'
  BY ChooseKeeps, LoadAllKeeps, WriteKeeps, UndoKeeps, RestKeeps
     DEF Endpoint!IInv, Endpoint!Next, Endpoint!Publish
<1>2. CASE faults' <= 1
  BY <1>1, <1>2, BackedStep DEF Endpoint!IInv
<1>3. CASE ~(faults' <= 1)
  BY <1>1, <1>3 DEF Endpoint!IInv, Endpoint!BackedInv
<1>. QED  BY <1>2, <1>3

\* What a provision knows, whose session a record is, what an undoing puts back and,
\* while one operation at most has failed, where the evidence is: the inductive
\* invariant of the endpoints (broker_endpoint_registry.py, real_handlers.py
\* _provision).
THEOREM EndpointInvariant == Endpoint!Spec => []Endpoint!IInv
BY EndpointInit, EndpointStep, PTL DEF Endpoint!Spec

\* A behaviour of the composition is one of the endpoints.
LEMMA EndpointComposed == SpecOne => Endpoint!Spec
<1>1. InitOne => Endpoint!Init
  BY DEF InitOne
<1>2. [NextOne]_allVars => [Endpoint!Next]_Endpoint!vars
  BY DEF NextOne, OfWizard, OfWine, OfEndpoint, allVars, endpointVars, Endpoint!vars,
     Endpoint!shared, Endpoint!world, Endpoint!counts
<1>. QED  BY <1>1, <1>2, PTL DEF SpecOne, Endpoint!Spec

\* OnlyUnreachable: whatever fails, crashes or is undone, an endpoint is invalidated only
\* by the login that used it and could not connect to it (real_handlers.py _provision);
\* a record of the first schema, which names no process, apart.  That the connection
\* may have failed because this host was offline is BrokerEndpoint's OnlyDisproved,
\* which the code violates.
THEOREM OnlyUnreachableHolds == SpecOne => OnlyUnreachable
<1>1. Endpoint!IInv /\ [Endpoint!Next]_Endpoint!vars =>
        [\A r \in registry.records :
           Endpoint!Invalidated(r)
             => registry.version = 1 \/ (r = job.verified /\ Endpoint!Unreachable)]_Endpoint!vars
  BY UnreachableStep DEF Endpoint!IInv, Endpoint!Invalidated
<1>. QED
  BY <1>1, EndpointComposed, EndpointInvariant, PTL
     DEF Endpoint!Spec, OnlyUnreachable, Endpoint!OnlyUnreachable

\* EndpointIsSound: while at most one operation of the publications has failed and
\* connections do not break while they are observed, a verified record can be resolved,
\* its evidence is on disk and in a whole manifest, and the address published is the
\* broker's, whatever crashes come between (broker_endpoint_registry.py publish).
THEOREM EndpointSound == SpecOne => [](faults <= 1 /\ ~Reconnects => EndpointIsSound)
<1>1. Endpoint!IInv => (faults <= 1 /\ ~Reconnects => EndpointIsSound)
  <2>. SUFFICES ASSUME Endpoint!IInv, faults <= 1, ~Reconnects
                PROVE  /\ Endpoint!TypeOK /\ Endpoint!VerifiedResolves
                       /\ Endpoint!ManifestIsWhole /\ Endpoint!PublishedIsBrokers
    BY DEF EndpointIsSound
  <2>1. /\ Endpoint!TypeOK /\ manifest \subseteq files
        /\ Endpoint!Sound(registry.records, manifest)
    BY DEF Endpoint!IInv, Endpoint!BackedInv
  <2>2. \A r \in registry.records : r.broker # None
    BY <2>1, DiscoveryAssumptions
       DEF DiscoveryAssumptions, Endpoint!EndpointAssumption, Endpoint!TypeOK,
           Endpoint!Registry, Endpoint!Record
  <2>3. Endpoint!VerifiedResolves
    <3>1. \A r \in registry.records :
            r.status = "VERIFIED" /\ r.session # 0 => <<r.session, "provenance">> \in files
      BY <2>1 DEF Endpoint!Sound
    <3>. QED  BY <2>1, <2>2, <3>1, SoundResolves DEF Endpoint!VerifiedResolves
  <2>4. Endpoint!PublishedIsBrokers
    BY StepSets DEF Endpoint!IInv, Endpoint!KnownInv, Endpoint!PublishedIsBrokers,
       Endpoint!At
  <2>. QED  BY <2>1, <2>3, <2>4 DEF Endpoint!ManifestIsWhole
<1>. QED  BY <1>1, EndpointComposed, EndpointInvariant, PTL

-----------------------------------------------------------------------------
(* The discovery under Wine: what a step makes of a helper and of the dialog. *)

\* The helper of call c stands at p, with this query, count, reading and code; the other
\* helpers are as they were.
Stands(c, p, q, n, r, k) ==
  /\ drivers' \in [Calls -> Wine!Locals]
  /\ \A d \in Calls : d # c => drivers'[d] = drivers[d]
  /\ drivers'[c].at = p /\ drivers'[c].query = q /\ drivers'[c].count = n
  /\ drivers'[c].read = r /\ drivers'[c].code = k

Steps(c, p) ==
  Stands(c, p, drivers[c].query, drivers[c].count, drivers[c].read, drivers[c].code)

Fallen(c, p, k) ==
  /\ Stands(c, p, drivers[c].query, drivers[c].count, drivers[c].read, k)
  /\ wizard' = wizard

Shows(page, list, row, shown) ==
  /\ wizard' \in [page : {"none", "brokers", "servers"}, list : Wine!Lists,
                  row : Brokers \cup {None}, shown : Brokers \cup {None}]
  /\ wizard'.page = page /\ wizard'.list = list /\ wizard'.row = row
  /\ wizard'.shown = shown

\* The budget of incidents, whatever was spent of it.
Spends ==
  /\ incidents' \in [incidents : Nat, rebuilt : BOOLEAN]
  /\ incidents'.rebuilt = incidents.rebuilt

\* The instance has its own names for the operators of the sets it counts.
LEMMA WineSets ==
  /\ \A S : Wine!IsFiniteSet(S) <=> IsFiniteSet(S)
  /\ \A S : Wine!Cardinality(S) = Cardinality(S)
  /\ \A f : Wine!IsInjective(f) <=> IsInjective(f)
<1>1. \A S : Wine!IsFiniteSet(S) <=> IsFiniteSet(S)
  BY DEF IsFiniteSet, Wine!IsFiniteSet
<1>2. \A S : Wine!Cardinality(S) = Cardinality(S)
  BY DEF Cardinality, Wine!Cardinality
<1>3. \A f : Wine!IsInjective(f) <=> IsInjective(f)
  BY DEF IsInjective, Wine!IsInjective
<1>. QED  BY <1>1, <1>2, <1>3

\* A list of brokers is a sequence, none longer than there are brokers.
LEMMA ListForms ==
  /\ <<>> \in Wine!Lists
  /\ \A l \in Wine!Lists : /\ l \in Seq(Brokers) /\ DOMAIN l = 1 .. Len(l)
                           /\ Len(l) \in 0 .. Wine!Cardinality(Brokers)
<1>. DEFINE N == Wine!Cardinality(Brokers)
<1>1. N \in Nat
  BY DiscoveryAssumptions, FS_CardinalityType, WineSets
     DEF DiscoveryAssumptions, Wine!DiscoveryAssumption
<1>. HIDE DEF N
<1>2. Wine!Lists = {s \in UNION {[1 .. n -> Brokers] : n \in 0 .. N} :
                      Wine!IsInjective(s)}
  BY DEF Wine!Lists, N
<1>3. <<>> \in Wine!Lists
  <2>1. <<>> \in [1 .. 0 -> Brokers]
    OBVIOUS
  <2>2. <<>> \in UNION {[1 .. n -> Brokers] : n \in 0 .. N}
    BY <1>1, <2>1
  <2>3. Wine!IsInjective(<<>>)
    BY DEF Wine!IsInjective
  <2>. QED  BY <1>2, <2>2, <2>3
<1>4. ASSUME NEW l \in Wine!Lists
      PROVE  /\ l \in Seq(Brokers) /\ DOMAIN l = 1 .. Len(l) /\ Len(l) \in 0 .. N
  <2>1. PICK n \in 0 .. N : l \in [1 .. n -> Brokers]
    BY <1>2
  <2>. QED  BY <1>1, <2>1
<1>. QED  BY <1>3, <1>4 DEF N

\* The locals of a helper are closed under the updates of their fields.
LEMMA LocalUpdates ==
  ASSUME NEW h \in Wine!Locals
  PROVE  /\ \A p \in Wine!HelperPlaces : [h EXCEPT !.at = p] \in Wine!Locals
         /\ \A q \in 1 .. Queries : [h EXCEPT !.query = q] \in Wine!Locals
         /\ \A n \in 0 .. Wine!Cardinality(Brokers) : [h EXCEPT !.count = n] \in Wine!Locals
         /\ \A r \in Seq(BOOLEAN) : [h EXCEPT !.read = r] \in Wine!Locals
         /\ \A k \in Wine!Codes : [h EXCEPT !.code = k] \in Wine!Locals
         /\ \A l \in BOOLEAN : [h EXCEPT !.late = l] \in Wine!Locals
<1>. DEFINE R(C) == [at : Wine!HelperPlaces, query : 1 .. Queries, count : C,
                     read : Seq(BOOLEAN), code : Wine!Codes, late : BOOLEAN]
<1>1. ASSUME NEW C, NEW g \in R(C)
      PROVE  /\ \A p \in Wine!HelperPlaces : [g EXCEPT !.at = p] \in R(C)
             /\ \A q \in 1 .. Queries : [g EXCEPT !.query = q] \in R(C)
             /\ \A n \in C : [g EXCEPT !.count = n] \in R(C)
             /\ \A r \in Seq(BOOLEAN) : [g EXCEPT !.read = r] \in R(C)
             /\ \A k \in Wine!Codes : [g EXCEPT !.code = k] \in R(C)
             /\ \A l \in BOOLEAN : [g EXCEPT !.late = l] \in R(C)
  OBVIOUS
<1>. HIDE DEF R
<1>2. Wine!Locals = R(0 .. Wine!Cardinality(Brokers))
  BY DEF Wine!Locals, R
<1>. QED  BY <1>1, <1>2

\* The helper of one call changes.
LEMMA OneStands ==
  ASSUME Wine!TypeOK, NEW c \in Calls, NEW h \in Wine!Locals,
         drivers' = [drivers EXCEPT ![c] = h]
  PROVE  Stands(c, h.at, h.query, h.count, h.read, h.code)
BY DEF Wine!TypeOK, Stands

LEMMA LocalsType ==
  ASSUME Wine!TypeOK, NEW c \in Calls
  PROVE  /\ drivers \in [Calls -> Wine!Locals] /\ drivers[c] \in Wine!Locals
         /\ drivers[c].at \in Wine!HelperPlaces /\ drivers[c].query \in 1 .. Queries
         /\ drivers[c].read \in Seq(BOOLEAN) /\ drivers[c].code \in Wine!Codes
         /\ drivers[c].count \in 0 .. Wine!Cardinality(Brokers)
BY DEF Wine!TypeOK, Wine!Locals

LEMMA GoForms ==
  ASSUME Wine!TypeOK, NEW c \in Calls, NEW p \in Wine!HelperPlaces, Wine!Go(c, p)
  PROVE  Steps(c, p)
<1>. DEFINE h == [drivers[c] EXCEPT !.at = p]
<1>1. h \in Wine!Locals
  BY LocalsType, LocalUpdates
<1>2. drivers' = [drivers EXCEPT ![c] = h]
  BY DEF Wine!Go
<1>3. Stands(c, h.at, h.query, h.count, h.read, h.code)
  BY <1>1, <1>2, OneStands
<1>. QED  BY <1>3, LocalsType DEF Steps, Wine!Locals

LEMMA RaiseForms ==
  ASSUME Wine!TypeOK, NEW c \in Calls, NEW k \in Wine!Codes,
         NEW p \in Wine!HelperPlaces, NEW late \in BOOLEAN,
         drivers' = [drivers EXCEPT ![c].at = p, ![c].code = k]
         \/ drivers' = [drivers EXCEPT ![c].at = p, ![c].code = k, ![c].late = late]
  PROVE  Stands(c, p, drivers[c].query, drivers[c].count, drivers[c].read, k)
<1>. DEFINE g == [drivers[c] EXCEPT !.at = p]
            h == [drivers[c] EXCEPT !.at = p, !.code = k]
            i == [drivers[c] EXCEPT !.at = p, !.code = k, !.late = late]
<1>1. g \in Wine!Locals
  BY LocalsType, LocalUpdates
<1>2. h = [g EXCEPT !.code = k] /\ i = [h EXCEPT !.late = late]
  BY LocalsType DEF Wine!Locals
<1>3. h \in Wine!Locals /\ i \in Wine!Locals
  BY <1>1, <1>2, LocalUpdates
<1>4. drivers' = [drivers EXCEPT ![c] = h] \/ drivers' = [drivers EXCEPT ![c] = i]
  BY LocalsType
<1>5. \/ Stands(c, h.at, h.query, h.count, h.read, h.code)
      \/ Stands(c, i.at, i.query, i.count, i.read, i.code)
  BY <1>3, <1>4, OneStands
<1>. QED  BY <1>5, LocalsType DEF Wine!Locals

LEMMA EndedForms ==
  ASSUME Wine!TypeOK, NEW c \in Calls, NEW p \in Wine!HelperPlaces, Wine!Ended(c, p)
  PROVE  Stands(c, p, drivers[c].query, 0, <<>>, "ok")
<1>. DEFINE g == [drivers[c] EXCEPT !.at = p]
            h == [g EXCEPT !.read = <<>>]
            i == [h EXCEPT !.count = 0]
            j == [i EXCEPT !.code = "ok"]
            k == [j EXCEPT !.late = FALSE]
<1>1. 0 \in 0 .. Wine!Cardinality(Brokers) /\ <<>> \in Seq(BOOLEAN) /\ "ok" \in Wine!Codes
  BY ListForms DEF Wine!Codes
<1>2. g \in Wine!Locals /\ h \in Wine!Locals /\ i \in Wine!Locals
  BY <1>1, LocalsType, LocalUpdates
<1>3. j \in Wine!Locals /\ k \in Wine!Locals
  BY <1>1, <1>2, LocalUpdates
<1>4. drivers' = [drivers EXCEPT ![c] = k]
  BY LocalsType DEF Wine!Ended, Wine!Locals
<1>5. Stands(c, k.at, k.query, k.count, k.read, k.code)
  BY <1>3, <1>4, OneStands
<1>6. /\ k.at = p /\ k.query = drivers[c].query /\ k.count = 0
      /\ k.read = <<>> /\ k.code = "ok"
  BY LocalsType DEF Wine!Locals
<1>. QED  BY <1>5, <1>6

LEMMA SearchForms ==
  ASSUME Wine!TypeOK, NEW c \in Calls, NEW l \in Wine!Lists,
         drivers' = [drivers EXCEPT ![c].at = "row", ![c].read = <<>>,
                                    ![c].count = Len(l)]
  PROVE  Stands(c, "row", drivers[c].query, Len(l), <<>>, drivers[c].code)
<1>. DEFINE g == [drivers[c] EXCEPT !.at = "row"]
            h == [g EXCEPT !.read = <<>>]
            i == [h EXCEPT !.count = Len(l)]
<1>1. Len(l) \in 0 .. Wine!Cardinality(Brokers) /\ <<>> \in Seq(BOOLEAN)
  BY ListForms
<1>2. "row" \in Wine!HelperPlaces
  BY DEF Wine!HelperPlaces
<1>3. g \in Wine!Locals /\ h \in Wine!Locals /\ i \in Wine!Locals
  BY <1>1, <1>2, LocalsType, LocalUpdates
<1>4. drivers' = [drivers EXCEPT ![c] = i]
  BY LocalsType DEF Wine!Locals
<1>5. Stands(c, i.at, i.query, i.count, i.read, i.code)
  BY <1>3, <1>4, OneStands
<1>. QED  BY <1>5, LocalsType DEF Wine!Locals

LEMMA ServerForms ==
  ASSUME Wine!TypeOK, NEW c \in Calls, NEW e \in BOOLEAN,
         drivers' = [drivers EXCEPT ![c].at = "back", ![c].read = Append(@, e)]
  PROVE  Stands(c, "back", drivers[c].query, drivers[c].count,
                Append(drivers[c].read, e), drivers[c].code)
<1>. DEFINE g == [drivers[c] EXCEPT !.at = "back"]
            h == [g EXCEPT !.read = Append(drivers[c].read, e)]
<1>1. Append(drivers[c].read, e) \in Seq(BOOLEAN)
  BY LocalsType
<1>2. "back" \in Wine!HelperPlaces
  BY DEF Wine!HelperPlaces
<1>3. g \in Wine!Locals /\ h \in Wine!Locals
  BY <1>1, <1>2, LocalsType, LocalUpdates
<1>4. drivers' = [drivers EXCEPT ![c] = h]
  BY LocalsType DEF Wine!Locals
<1>5. Stands(c, h.at, h.query, h.count, h.read, h.code)
  BY <1>3, <1>4, OneStands
<1>. QED  BY <1>5, LocalsType DEF Wine!Locals

LEMMA QueryForms ==
  ASSUME Wine!TypeOK, NEW c \in Calls, drivers[c].query < Queries,
         drivers' = [drivers EXCEPT ![c].at = "search", ![c].query = @ + 1]
  PROVE  Stands(c, "search", drivers[c].query + 1, drivers[c].count,
                drivers[c].read, drivers[c].code)
<1>. DEFINE g == [drivers[c] EXCEPT !.at = "search"]
            h == [g EXCEPT !.query = drivers[c].query + 1]
<1>1. drivers[c].query + 1 \in 1 .. Queries
  BY LocalsType, DiscoveryAssumptions DEF DiscoveryAssumptions, Wine!DiscoveryAssumption
<1>2. "search" \in Wine!HelperPlaces
  BY DEF Wine!HelperPlaces
<1>3. g \in Wine!Locals /\ h \in Wine!Locals
  BY <1>1, <1>2, LocalsType, LocalUpdates
<1>4. drivers' = [drivers EXCEPT ![c] = h]
  BY LocalsType DEF Wine!Locals
<1>5. Stands(c, h.at, h.query, h.count, h.read, h.code)
  BY <1>3, <1>4, OneStands
<1>. QED  BY <1>5, LocalsType DEF Wine!Locals

LEMMA FaultForms ==
  ASSUME Wine!TypeOK
  PROVE  Wine!Fault \/ UNCHANGED incidents => Spends
BY DEF Wine!TypeOK, Wine!Fault, Spends

\* An operation that breaks.
LEMMA BreaksForms ==
  ASSUME Wine!TypeOK, NEW c \in Calls, Wine!Breaks(c)
  PROVE  \E k \in {"ui_unknown", "timeout"} : Fallen(c, "cleanup", k)
<1>1. PICK k \in {"ui_unknown", "timeout"}, late \in BOOLEAN :
        drivers' = [drivers EXCEPT ![c].at = "cleanup", ![c].code = k, ![c].late = late]
  BY DEF Wine!Breaks
<1>2. k \in Wine!Codes /\ "cleanup" \in Wine!HelperPlaces
  BY DEF Wine!Codes, Wine!HelperPlaces
<1>3. Stands(c, "cleanup", drivers[c].query, drivers[c].count, drivers[c].read, k)
  BY <1>1, <1>2, RaiseForms
<1>. QED  BY <1>3 DEF Fallen, Wine!Breaks

\* A control that is waited for in vain.
LEMMA ExpiresForms ==
  ASSUME Wine!TypeOK, NEW c \in Calls, Wine!Expires(c)
  PROVE  Stands(c, "cleanup", drivers[c].query, drivers[c].count, drivers[c].read, "timeout")
<1>1. drivers' = [drivers EXCEPT ![c].at = "cleanup", ![c].code = "timeout",
                                 ![c].late = TRUE]
  BY DEF Wine!Expires
<1>2. "timeout" \in Wine!Codes /\ "cleanup" \in Wine!HelperPlaces
  BY DEF Wine!Codes, Wine!HelperPlaces
<1>3. TRUE \in BOOLEAN
  OBVIOUS
<1>. QED  BY <1>1, <1>2, <1>3, RaiseForms

-----------------------------------------------------------------------------
(* What the steps of a helper do to its locals and to the dialog.            *)

\* A page that is not the one expected, an operation that breaks, a row that is gone.
Stumbles(c) ==
  \E k \in {"ui_unknown", "timeout", "ambiguous_exact_match"} : Fallen(c, "cleanup", k)

HelperAtOnce == Spends /\ UNCHANGED <<offers, lock, at, outcome, exchange>>

LEMMA Places ==
  /\ {"open", "search", "row", "next", "server", "back", "match", "accept", "verify",
      "close", "cleanup", "write", "exit", "hung", "exited", "died"} \subseteq Wine!HelperPlaces
  /\ {"ok", "terminal_not_found", "ui_unknown", "no_exact_match",
      "ambiguous_exact_match", "timeout"} \subseteq Wine!Codes
BY DEF Wine!HelperPlaces, Wine!Codes

LEMMA RaiseStumbles ==
  ASSUME Wine!TypeOK, NEW c \in Calls, NEW k \in Wine!Codes, Wine!Raise(c, k)
  PROVE  Stands(c, "cleanup", drivers[c].query, drivers[c].count, drivers[c].read, k)
<1>1. drivers' = [drivers EXCEPT ![c].at = "cleanup", ![c].code = k]
  BY DEF Wine!Raise
<1>2. "cleanup" \in Wine!HelperPlaces
  BY Places
<1>3. TRUE \in BOOLEAN
  OBVIOUS
<1>. QED  BY <1>1, <1>2, <1>3, RaiseForms

LEMMA UiForms ==
  ASSUME Wine!TypeOK
  PROVE  /\ \A l \in Wine!Lists : wizard' = [wizard EXCEPT !.list = l, !.row = None,
                                                         !.shown = None]
              => Shows(wizard.page, l, None, None)
         /\ \A b \in Brokers : wizard' = [wizard EXCEPT !.row = b]
              => Shows(wizard.page, wizard.list, b, wizard.shown)
         /\ \A b \in Brokers : wizard' = [wizard EXCEPT !.page = "servers", !.shown = b]
              => Shows("servers", wizard.list, wizard.row, b)
         /\ wizard' = [wizard EXCEPT !.page = "brokers", !.shown = None]
              => Shows("brokers", wizard.list, wizard.row, None)
         /\ wizard' = Wine!Cancelled => Shows("none", <<>>, None, wizard.shown)
         /\ \A l \in Wine!Lists : wizard' = [wizard EXCEPT !.list = l, !.row = None]
              => Shows(wizard.page, l, None, wizard.shown)
<1>. USE ListForms DEF Wine!TypeOK, Shows
<1>1. \A l \in Wine!Lists : wizard' = [wizard EXCEPT !.list = l, !.row = None,
                                                     !.shown = None]
        => Shows(wizard.page, l, None, None)
  OBVIOUS
<1>2. \A b \in Brokers : wizard' = [wizard EXCEPT !.row = b]
        => Shows(wizard.page, wizard.list, b, wizard.shown)
  OBVIOUS
<1>3. \A b \in Brokers : wizard' = [wizard EXCEPT !.page = "servers", !.shown = b]
        => Shows("servers", wizard.list, wizard.row, b)
  OBVIOUS
<1>4. wizard' = [wizard EXCEPT !.page = "brokers", !.shown = None]
        => Shows("brokers", wizard.list, wizard.row, None)
  OBVIOUS
<1>5. wizard' = Wine!Cancelled => Shows("none", <<>>, None, wizard.shown)
  BY DEF Wine!Cancelled
<1>6. \A l \in Wine!Lists : wizard' = [wizard EXCEPT !.list = l, !.row = None]
        => Shows(wizard.page, l, None, wizard.shown)
  OBVIOUS
<1>. QED  BY <1>1, <1>2, <1>3, <1>4, <1>5, <1>6

LEMMA Rows ==
  ASSUME Wine!TypeOK, NEW i \in DOMAIN wizard.list
  PROVE  wizard.list[i] \in Brokers
BY ListForms DEF Wine!TypeOK

LEMMA OpenEffect ==
  ASSUME Wine!TypeOK, NEW c \in Calls, Wine!HelperOpen(c)
  PROVE  /\ wizard' = wizard /\ results' = results /\ HelperAtOnce
         /\ \/ wizard.page = "brokers" /\ Steps(c, "search")
            \/ \E k \in {"terminal_not_found", "ui_unknown"} : Fallen(c, "write", k)
<1>1. wizard' = wizard /\ results' = results /\ HelperAtOnce
  BY FaultForms DEF Wine!HelperOpen, Wine!HelperOnly, Wine!launcher, HelperAtOnce, Wine!Helper
<1>2. \/ wizard.page = "brokers" /\ Wine!Go(c, "search")
      \/ \E k \in {"terminal_not_found", "ui_unknown"} :
           drivers' = [drivers EXCEPT ![c].at = "write", ![c].code = k]
  BY DEF Wine!HelperOpen
<1>3. ASSUME NEW k \in {"terminal_not_found", "ui_unknown"},
             drivers' = [drivers EXCEPT ![c].at = "write", ![c].code = k]
      PROVE  Fallen(c, "write", k)
  <2>1. k \in Wine!Codes /\ "write" \in Wine!HelperPlaces /\ TRUE \in BOOLEAN
    BY Places
  <2>. QED  BY <1>1, <1>3, <2>1, RaiseForms DEF Fallen
<1>. QED  BY <1>1, <1>2, <1>3, GoForms, Places

LEMMA SearchEffect ==
  ASSUME Wine!TypeOK, NEW c \in Calls, Wine!HelperSearch(c)
  PROVE  /\ results' = results /\ HelperAtOnce
         /\ \/ \E l \in Wine!Lists :
                 /\ l = offers.lists[drivers[c].query]
                 /\ wizard.page = "brokers" /\ Shows("brokers", l, None, None)
                 /\ Stands(c, "row", drivers[c].query, Len(l), <<>>, drivers[c].code)
            \/ Stumbles(c)
<1>1. results' = results /\ HelperAtOnce
  BY FaultForms DEF Wine!HelperSearch, Wine!On, Wine!Breaks, Wine!HelperOnly,
     Wine!launcher, HelperAtOnce
<1>. DEFINE l == offers.lists[drivers[c].query]
<1>2. l \in Wine!Lists
  BY LocalsType DEF Wine!TypeOK
<1>3. CASE /\ wizard.page = "brokers"
           /\ wizard' = [wizard EXCEPT !.list = l, !.row = None, !.shown = None]
           /\ drivers' = [drivers EXCEPT ![c].at = "row", ![c].read = <<>>,
                                         ![c].count = Len(l)]
  BY <1>1, <1>2, <1>3, UiForms, SearchForms
<1>4. CASE Wine!Raise(c, "ui_unknown") /\ UNCHANGED wizard
  BY <1>1, <1>4, RaiseStumbles, Places DEF Stumbles, Fallen
<1>5. CASE Wine!Breaks(c)
  BY <1>1, <1>5, BreaksForms DEF Stumbles
<1>. QED  BY <1>3, <1>4, <1>5 DEF Wine!HelperSearch, Wine!On

\* Select: a row, or none at that position.
LEMMA SelectForms ==
  ASSUME Wine!TypeOK, NEW c \in Calls, NEW p \in Wine!HelperPlaces, NEW i,
         Wine!On(c, "brokers", Wine!Select(c, i, p))
  PROVE  \/ /\ i \in DOMAIN wizard.list /\ wizard.page = "brokers"
            /\ Shows("brokers", wizard.list, wizard.list[i], wizard.shown)
            /\ Steps(c, p)
         \/ Stumbles(c)
<1>1. CASE /\ wizard.page = "brokers" /\ i \in DOMAIN wizard.list
           /\ wizard' = [wizard EXCEPT !.row = wizard.list[i]] /\ Wine!Go(c, p)
  BY <1>1, UiForms, Rows, GoForms
<1>2. CASE Wine!Raise(c, "ui_unknown") /\ UNCHANGED wizard
  BY <1>2, RaiseStumbles, Places DEF Stumbles, Fallen
<1>3. CASE Wine!Breaks(c)
  BY <1>3, BreaksForms DEF Stumbles
<1>. QED  BY <1>1, <1>2, <1>3 DEF Wine!On, Wine!Select

LEMMA ClickForms ==
  ASSUME Wine!TypeOK, NEW c \in Calls, NEW p \in Wine!HelperPlaces, Wine!ClickNext(c, p)
  PROVE  \/ /\ wizard.row # None /\ wizard.page = "brokers"
            /\ Shows("servers", wizard.list, wizard.row, wizard.row)
            /\ Steps(c, p)
         \/ Stumbles(c)
<1>1. CASE /\ wizard.page = "brokers" /\ wizard.row # None
           /\ wizard' = [wizard EXCEPT !.page = "servers", !.shown = wizard.row]
           /\ Wine!Go(c, p)
  <2>1. wizard.row \in Brokers
    BY <1>1 DEF Wine!TypeOK
  <2>. QED  BY <1>1, <2>1, UiForms, GoForms
<1>2. CASE Wine!Raise(c, "ui_unknown") /\ UNCHANGED wizard
  BY <1>2, RaiseStumbles, Places DEF Stumbles, Fallen
<1>3. CASE Wine!Breaks(c)
  BY <1>3, BreaksForms DEF Stumbles
<1>. QED  BY <1>1, <1>2, <1>3 DEF Wine!On, Wine!ClickNext

LEMMA OnSpends ==
  ASSUME Wine!TypeOK, NEW c \in Calls
  PROVE  /\ \A i, p : Wine!On(c, "brokers", Wine!Select(c, i, p)) => Spends
         /\ \A p : Wine!ClickNext(c, p) => Spends
BY FaultForms DEF Wine!On, Wine!Breaks, Wine!ClickNext

LEMMA RowEffect ==
  ASSUME Wine!TypeOK, NEW c \in Calls, Wine!HelperRow(c)
  PROVE  /\ results' = results /\ HelperAtOnce
         /\ \/ /\ Len(drivers[c].read) = drivers[c].count
               /\ wizard' = wizard /\ Steps(c, "match")
            \/ LET i == Len(drivers[c].read) + 1
               IN  /\ Len(drivers[c].read) # drivers[c].count
                   /\ i \in DOMAIN wizard.list /\ wizard.page = "brokers"
                   /\ Shows("brokers", wizard.list, wizard.list[i], wizard.shown)
                   /\ Steps(c, "next")
            \/ Stumbles(c)
<1>1. results' = results /\ UNCHANGED <<offers, lock, at, outcome, exchange>>
  BY DEF Wine!HelperRow, Wine!HelperOnly, Wine!launcher
<1>2. CASE /\ Len(drivers[c].read) = drivers[c].count /\ Wine!Go(c, "match")
           /\ UNCHANGED <<wizard, incidents>>
  BY <1>1, <1>2, GoForms, Places, FaultForms DEF HelperAtOnce
<1>3. CASE /\ Len(drivers[c].read) # drivers[c].count
           /\ Wine!On(c, "brokers", Wine!Select(c, Len(drivers[c].read) + 1, "next"))
  <2>1. "next" \in Wine!HelperPlaces
    BY Places
  <2>2. Spends
    BY <1>3, OnSpends
  <2>. QED  BY <1>1, <1>3, <2>1, <2>2, SelectForms DEF HelperAtOnce
<1>. QED  BY <1>2, <1>3 DEF Wine!HelperRow

LEMMA NextEffect ==
  ASSUME Wine!TypeOK, NEW c \in Calls, Wine!HelperNext(c)
  PROVE  /\ results' = results /\ HelperAtOnce
         /\ \/ /\ wizard.row # None /\ wizard.page = "brokers"
               /\ Shows("servers", wizard.list, wizard.row, wizard.row)
               /\ Steps(c, "server")
            \/ Stumbles(c)
BY ClickForms, OnSpends, Places
   DEF Wine!HelperNext, Wine!HelperOnly, Wine!launcher, HelperAtOnce

LEMMA AcceptEffect ==
  ASSUME Wine!TypeOK, NEW c \in Calls, Wine!HelperAccept(c)
  PROVE  /\ results' = results /\ HelperAtOnce
         /\ \/ /\ wizard.row # None /\ wizard.page = "brokers"
               /\ Shows("servers", wizard.list, wizard.row, wizard.row)
               /\ Steps(c, "verify")
            \/ Stumbles(c)
BY ClickForms, OnSpends, Places
   DEF Wine!HelperAccept, Wine!HelperOnly, Wine!launcher, HelperAtOnce

LEMMA ServerEffect ==
  ASSUME Wine!TypeOK, NEW c \in Calls, Wine!HelperServer(c)
  PROVE  /\ results' = results /\ HelperAtOnce /\ wizard' = wizard
         /\ \/ /\ wizard.page = "servers"
               /\ Stands(c, "back", drivers[c].query, drivers[c].count,
                         Append(drivers[c].read, Wine!Exact), drivers[c].code)
            \/ Stumbles(c)
<1>1. results' = results /\ UNCHANGED <<offers, lock, at, outcome, exchange>>
  BY DEF Wine!HelperServer, Wine!HelperOnly, Wine!launcher
<1>2. CASE /\ wizard.page = "servers" /\ UNCHANGED <<wizard, incidents>>
           /\ drivers' = [drivers EXCEPT ![c].at = "back",
                                         ![c].read = Append(@, Wine!Exact)]
  <2>1. Wine!Exact \in BOOLEAN
    BY DEF Wine!Exact
  <2>. QED  BY <1>1, <1>2, <2>1, ServerForms, FaultForms DEF HelperAtOnce
<1>3. CASE Wine!Raise(c, "ui_unknown") /\ UNCHANGED <<wizard, incidents>>
  BY <1>1, <1>3, RaiseStumbles, Places, FaultForms DEF Stumbles, Fallen, HelperAtOnce
<1>4. CASE Wine!Breaks(c)
  BY <1>1, <1>4, BreaksForms, FaultForms DEF Stumbles, HelperAtOnce, Wine!Breaks
<1>5. CASE Wine!Expires(c) /\ UNCHANGED <<wizard, incidents>>
  BY <1>1, <1>5, ExpiresForms, FaultForms DEF Stumbles, Fallen, HelperAtOnce
<1>. QED  BY <1>2, <1>3, <1>4, <1>5 DEF Wine!HelperServer, Wine!Look

LEMMA BackEffect ==
  ASSUME Wine!TypeOK, NEW c \in Calls, Wine!HelperBack(c)
  PROVE  /\ results' = results /\ HelperAtOnce
         /\ \/ /\ wizard.page = "servers"
               /\ Shows("brokers", wizard.list, wizard.row, None)
               /\ Steps(c, "row")
            \/ Stumbles(c)
<1>1. results' = results /\ UNCHANGED <<offers, lock, at, outcome, exchange>>
  BY DEF Wine!HelperBack, Wine!HelperOnly, Wine!launcher
<1>2. CASE /\ wizard.page = "servers" /\ UNCHANGED incidents
           /\ wizard' = [wizard EXCEPT !.page = "brokers", !.shown = None]
           /\ Wine!Go(c, "row")
  BY <1>1, <1>2, GoForms, UiForms, Places, FaultForms DEF HelperAtOnce
<1>3. CASE Wine!Raise(c, "ui_unknown") /\ UNCHANGED <<wizard, incidents>>
  BY <1>1, <1>3, RaiseStumbles, Places, FaultForms DEF Stumbles, Fallen, HelperAtOnce
<1>4. CASE Wine!Breaks(c)
  BY <1>1, <1>4, BreaksForms, FaultForms DEF Stumbles, HelperAtOnce, Wine!Breaks
<1>. QED  BY <1>2, <1>3, <1>4 DEF Wine!HelperBack, Wine!On

LEMMA MatchEffect ==
  ASSUME Wine!TypeOK, NEW c \in Calls, Wine!HelperMatch(c)
  PROVE  /\ results' = results /\ HelperAtOnce
         /\ LET matches == Wine!Matches(drivers[c].read)
            IN  \/ \E i \in matches :
                     /\ matches = {i} /\ i \in DOMAIN wizard.list
                     /\ wizard.page = "brokers"
                     /\ Shows("brokers", wizard.list, wizard.list[i], wizard.shown)
                     /\ Steps(c, "accept")
                \/ /\ matches = {} /\ drivers[c].query < Queries /\ wizard' = wizard
                   /\ Stands(c, "search", drivers[c].query + 1, drivers[c].count,
                             drivers[c].read, drivers[c].code)
                \/ /\ matches = {} /\ ~(drivers[c].query < Queries)
                   /\ Fallen(c, "cleanup", "no_exact_match")
                \/ Stumbles(c)
<1>. DEFINE matches == Wine!Matches(drivers[c].read)
<1>1. results' = results /\ UNCHANGED <<offers, lock, at, outcome, exchange>>
  BY DEF Wine!HelperMatch, Wine!HelperOnly, Wine!launcher
<1>2. CASE Wine!Raise(c, "ambiguous_exact_match") /\ UNCHANGED <<wizard, incidents>>
  BY <1>1, <1>2, RaiseStumbles, Places, FaultForms DEF Stumbles, Fallen, HelperAtOnce
<1>3. ASSUME NEW i \in matches, matches = {i},
             Wine!On(c, "brokers", Wine!Select(c, i, "accept"))
      PROVE  /\ Spends
             /\ \/ /\ i \in DOMAIN wizard.list /\ wizard.page = "brokers"
                   /\ Shows("brokers", wizard.list, wizard.list[i], wizard.shown)
                   /\ Steps(c, "accept")
                \/ Stumbles(c)
  <2>1. "accept" \in Wine!HelperPlaces
    BY Places
  <2>. QED  BY <1>3, <2>1, SelectForms, OnSpends
<1>4. CASE /\ matches = {} /\ drivers[c].query < Queries
           /\ drivers' = [drivers EXCEPT ![c].at = "search", ![c].query = @ + 1]
           /\ UNCHANGED <<wizard, incidents>>
  BY <1>1, <1>4, QueryForms, FaultForms DEF HelperAtOnce
<1>5. CASE /\ matches = {} /\ ~(drivers[c].query < Queries)
           /\ Wine!Raise(c, "no_exact_match") /\ UNCHANGED <<wizard, incidents>>
  BY <1>1, <1>5, RaiseStumbles, Places, FaultForms DEF Fallen, HelperAtOnce
<1>6. \/ Wine!Raise(c, "ambiguous_exact_match") /\ UNCHANGED <<wizard, incidents>>
      \/ \E i \in matches :
           matches = {i} /\ Wine!On(c, "brokers", Wine!Select(c, i, "accept"))
      \/ /\ matches = {} /\ drivers[c].query < Queries
         /\ drivers' = [drivers EXCEPT ![c].at = "search", ![c].query = @ + 1]
         /\ UNCHANGED <<wizard, incidents>>
      \/ /\ matches = {} /\ ~(drivers[c].query < Queries)
         /\ Wine!Raise(c, "no_exact_match") /\ UNCHANGED <<wizard, incidents>>
  BY DEF Wine!HelperMatch
<1>. QED  BY <1>1, <1>2, <1>3, <1>4, <1>5, <1>6 DEF HelperAtOnce

LEMMA VerifyEffect ==
  ASSUME Wine!TypeOK, NEW c \in Calls, Wine!HelperVerify(c)
  PROVE  /\ results' = results /\ HelperAtOnce /\ wizard' = wizard
         /\ \/ wizard.page = "servers" /\ Wine!Exact /\ Steps(c, "close")
            \/ Stumbles(c)
<1>1. results' = results /\ UNCHANGED <<offers, lock, at, outcome, exchange>>
  BY DEF Wine!HelperVerify, Wine!HelperOnly, Wine!launcher
<1>2. CASE /\ wizard.page = "servers" /\ UNCHANGED <<wizard, incidents>>
           /\ Wine!Exact /\ Wine!Go(c, "close")
  BY <1>1, <1>2, GoForms, Places, FaultForms DEF HelperAtOnce
<1>3. CASE Wine!Raise(c, "ui_unknown") /\ UNCHANGED <<wizard, incidents>>
  BY <1>1, <1>3, RaiseStumbles, Places, FaultForms DEF Stumbles, Fallen, HelperAtOnce
<1>4. CASE Wine!Breaks(c)
  BY <1>1, <1>4, BreaksForms, FaultForms DEF Stumbles, HelperAtOnce, Wine!Breaks
<1>5. CASE Wine!Expires(c) /\ UNCHANGED <<wizard, incidents>>
  BY <1>1, <1>5, ExpiresForms, FaultForms DEF Stumbles, Fallen, HelperAtOnce
<1>. QED  BY <1>2, <1>3, <1>4, <1>5 DEF Wine!HelperVerify, Wine!Look

LEMMA CloseEffect ==
  ASSUME Wine!TypeOK, NEW c \in Calls, Wine!HelperClose(c)
  PROVE  /\ results' = results /\ HelperAtOnce
         /\ \/ Shows("none", <<>>, None, wizard.shown) /\ Steps(c, "write")
            \/ Stumbles(c)
<1>1. results' = results /\ HelperAtOnce
  BY FaultForms DEF Wine!HelperClose, Wine!HelperOnly, Wine!launcher, HelperAtOnce,
     Wine!Breaks
<1>2. CASE wizard' = Wine!Cancelled /\ Wine!Go(c, "write")
  BY <1>1, <1>2, GoForms, UiForms, Places
<1>3. CASE Wine!Breaks(c)
  BY <1>1, <1>3, BreaksForms DEF Stumbles
<1>. QED  BY <1>2, <1>3 DEF Wine!HelperClose

LEMMA CleanupEffect ==
  ASSUME Wine!TypeOK, NEW c \in Calls, Wine!HelperCleanup(c)
  PROVE  /\ results' = results /\ HelperAtOnce /\ Steps(c, "write")
         /\ wizard' = wizard \/ Shows("none", <<>>, None, wizard.shown)
<1>1. results' = results /\ HelperAtOnce
  BY FaultForms DEF Wine!HelperCleanup, Wine!HelperOnly, Wine!launcher, HelperAtOnce
<1>2. Wine!Go(c, "write") /\ (wizard' = Wine!Cancelled \/ wizard' = wizard)
  BY DEF Wine!HelperCleanup
<1>. QED  BY <1>1, <1>2, GoForms, UiForms, Places

LEMMA WriteEffect ==
  ASSUME Wine!TypeOK, NEW c \in Calls, Wine!HelperWrite(c)
  PROVE  /\ results' = [results EXCEPT ![c] = drivers[c].code] /\ wizard' = wizard
         /\ HelperAtOnce /\ Steps(c, "exit")
BY FaultForms, GoForms, Places DEF Wine!HelperWrite, Wine!launcher, HelperAtOnce

LEMMA ExitEffect ==
  ASSUME Wine!TypeOK, NEW c \in Calls, Wine!HelperExit(c)
  PROVE  /\ results' = results /\ wizard' = wizard /\ HelperAtOnce
         /\ Stands(c, "exited", drivers[c].query, 0, <<>>, "ok")
BY FaultForms, EndedForms, Places DEF Wine!HelperExit, Wine!launcher, HelperAtOnce

LEMMA FailsEffect ==
  ASSUME Wine!TypeOK, NEW c \in Calls, Wine!HelperFails(c)
  PROVE  /\ results' = results /\ wizard' = wizard /\ HelperAtOnce
         /\ Wine!Running(c)
         /\ \/ Stands(c, "died", drivers[c].query, 0, <<>>, "ok")
            \/ Steps(c, "hung")
BY FaultForms, EndedForms, GoForms, Places DEF Wine!HelperFails, Wine!launcher, HelperAtOnce

Ui == [page : {"none", "brokers", "servers"}, list : Wine!Lists,
       row : Brokers \cup {None}, shown : Brokers \cup {None}]

HelperMoves(c) == Wine!HelperStep(c) \/ Wine!HelperFails(c)

\* Whatever a helper does, it runs, it is the only one, and the launchers stand still.
LEMMA HelperShape ==
  ASSUME Wine!TypeOK, NEW c \in Calls, HelperMoves(c)
  PROVE  /\ HelperAtOnce /\ Wine!Running(c) /\ wizard' \in Ui
         /\ drivers' \in [Calls -> Wine!Locals]
         /\ \A d \in Calls : d # c => drivers'[d] = drivers[d]
         /\ results' \in [Calls -> Wine!Codes \cup {None}]
         /\ \A d \in Calls : d # c => results'[d] = results[d]
<1>. USE DEF Ui, Stumbles, Fallen, Steps, Stands, Shows, Wine!Running
<1>0. /\ wizard \in Ui /\ results \in [Calls -> Wine!Codes \cup {None}]
      /\ drivers[c].code \in Wine!Codes
  BY LocalsType DEF Wine!TypeOK
<1>1. CASE Wine!HelperOpen(c)
  BY <1>0, <1>1, OpenEffect DEF Wine!HelperOpen, Wine!Helper
<1>2. CASE Wine!HelperSearch(c)
  BY <1>0, <1>2, SearchEffect DEF Wine!HelperSearch, Wine!Helper
<1>3. CASE Wine!HelperRow(c)
  BY <1>0, <1>3, RowEffect DEF Wine!HelperRow, Wine!Helper
<1>4. CASE Wine!HelperNext(c)
  BY <1>0, <1>4, NextEffect DEF Wine!HelperNext, Wine!Helper
<1>5. CASE Wine!HelperServer(c)
  BY <1>0, <1>5, ServerEffect DEF Wine!HelperServer, Wine!Helper
<1>6. CASE Wine!HelperBack(c)
  BY <1>0, <1>6, BackEffect DEF Wine!HelperBack, Wine!Helper
<1>7. CASE Wine!HelperMatch(c)
  BY <1>0, <1>7, MatchEffect DEF Wine!HelperMatch, Wine!Helper
<1>8. CASE Wine!HelperAccept(c)
  BY <1>0, <1>8, AcceptEffect DEF Wine!HelperAccept, Wine!Helper
<1>9. CASE Wine!HelperVerify(c)
  BY <1>0, <1>9, VerifyEffect DEF Wine!HelperVerify, Wine!Helper
<1>10. CASE Wine!HelperClose(c)
  BY <1>0, <1>10, CloseEffect DEF Wine!HelperClose, Wine!Helper
<1>11. CASE Wine!HelperCleanup(c)
  BY <1>0, <1>11, CleanupEffect DEF Wine!HelperCleanup, Wine!Helper
<1>12. CASE Wine!HelperWrite(c)
  BY <1>0, <1>12, WriteEffect DEF Wine!HelperWrite, Wine!Helper
<1>13. CASE Wine!HelperExit(c)
  BY <1>0, <1>13, ExitEffect DEF Wine!HelperExit, Wine!Helper
<1>14. CASE Wine!HelperFails(c)
  BY <1>0, <1>14, FailsEffect
<1>. QED
  BY <1>1, <1>2, <1>3, <1>4, <1>5, <1>6, <1>7, <1>8, <1>9, <1>10, <1>11, <1>12, <1>13,
     <1>14 DEF HelperMoves, Wine!HelperStep

\* A helper never has read more rows than it counted.
LEMMA ReadKeeps ==
  ASSUME Wine!TypeOK, Wine!LocalsInv, NEW c \in Calls, HelperMoves(c)
  PROVE  Len(drivers'[c].read) <= drivers'[c].count
<1>. USE DEF Stumbles, Fallen, Steps, Stands
<1>0. /\ Len(drivers[c].read) <= drivers[c].count
      /\ drivers[c].count \in Nat /\ Len(drivers[c].read) \in Nat
  <2>1. Wine!Cardinality(Brokers) \in Nat
    BY DiscoveryAssumptions, FS_CardinalityType, WineSets
       DEF DiscoveryAssumptions, Wine!DiscoveryAssumption
  <2>. QED  BY <2>1, LocalsType DEF Wine!TypeOK
<1>1. CASE Wine!HelperOpen(c)
  BY <1>0, <1>1, OpenEffect
<1>2. CASE Wine!HelperSearch(c)
  BY <1>2, SearchEffect, ListForms, <1>0
<1>3. CASE Wine!HelperRow(c)
  BY <1>0, <1>3, RowEffect
<1>4. CASE Wine!HelperNext(c)
  BY <1>0, <1>4, NextEffect
<1>5. CASE Wine!HelperServer(c)
  <2>1. Len(drivers[c].read) < drivers[c].count
    BY <1>5 DEF Wine!HelperServer, Wine!Helper, Wine!LocalsInv, Wine!Orderly
  <2>2. Len(Append(drivers[c].read, Wine!Exact)) = Len(drivers[c].read) + 1
    BY LocalsType
  <2>. QED  BY <1>0, <1>5, <2>1, <2>2, ServerEffect
<1>6. CASE Wine!HelperBack(c)
  BY <1>0, <1>6, BackEffect
<1>7. CASE Wine!HelperMatch(c)
  BY <1>0, <1>7, MatchEffect
<1>8. CASE Wine!HelperAccept(c)
  BY <1>0, <1>8, AcceptEffect
<1>9. CASE Wine!HelperVerify(c)
  BY <1>0, <1>9, VerifyEffect
<1>10. CASE Wine!HelperClose(c)
  BY <1>0, <1>10, CloseEffect
<1>11. CASE Wine!HelperCleanup(c)
  BY <1>0, <1>11, CleanupEffect
<1>12. CASE Wine!HelperWrite(c)
  BY <1>0, <1>12, WriteEffect
<1>13. CASE Wine!HelperExit(c)
  BY <1>13, ExitEffect
<1>14. CASE Wine!HelperFails(c)
  BY <1>0, <1>14, FailsEffect
<1>. QED
  BY <1>1, <1>2, <1>3, <1>4, <1>5, <1>6, <1>7, <1>8, <1>9, <1>10, <1>11, <1>12, <1>13,
     <1>14 DEF HelperMoves, Wine!HelperStep

-----------------------------------------------------------------------------
(* The launcher.                                                             *)

LauncherMoves(c) == Wine!LauncherStep(c) \/ Wine!Kill(c)

\* Whatever a launcher does, the dialog stands still, and of the helpers only its own
\* begins or ends.
LEMMA LauncherShape ==
  ASSUME Wine!TypeOK, Wine!LocalsInv, NEW c \in Calls, LauncherMoves(c)
  PROVE  /\ UNCHANGED <<offers, wizard>> /\ Spends
         /\ \A d \in Calls : d # c => /\ drivers'[d] = drivers[d] /\ at'[d] = at[d]
                                      /\ results'[d] = results[d]
                                      /\ outcome'[d] = outcome[d]
                                      /\ exchange'[d] = exchange[d]
         /\ \/ UNCHANGED drivers /\ ~(Wine!Terminate(c) /\ Wine!Running(c))
            \/ Wine!Spawn(c) /\ Steps(c, "open")
            \/ /\ Wine!Terminate(c) /\ Wine!Running(c)
               /\ Stands(c, "died", drivers[c].query, 0, <<>>, "ok")
<1>1. UNCHANGED <<offers, wizard>>
  BY DEF LauncherMoves, Wine!LauncherStep, Wine!LauncherOnly, Wine!Begin, Wine!Spawn,
     Wine!Exited, Wine!WaitEnds, Wine!Terminate, Wine!ReadResult, Wine!Clean,
     Wine!Unlock, Wine!Kill
<1>2. Wine!Fault \/ UNCHANGED incidents
  BY DEF LauncherMoves, Wine!LauncherStep, Wine!Begin, Wine!Spawn,
     Wine!Exited, Wine!WaitEnds, Wine!Terminate, Wine!ReadResult, Wine!Clean,
     Wine!Unlock, Wine!Kill
<1>3. \/ UNCHANGED drivers /\ ~(Wine!Terminate(c) /\ Wine!Running(c))
      \/ Wine!Spawn(c) /\ Wine!Go(c, "open")
      \/ Wine!Terminate(c) /\ Wine!Running(c) /\ Wine!Ended(c, "died")
  <2>1. CASE Wine!Terminate(c)
    BY <2>1 DEF Wine!Terminate
  <2>2. CASE ~Wine!Terminate(c)
    BY <2>2 DEF LauncherMoves, Wine!LauncherStep, Wine!Begin, Wine!Spawn, Wine!Exited,
       Wine!WaitEnds, Wine!ReadResult, Wine!Clean, Wine!Unlock, Wine!Kill
  <2>. QED  BY <2>1, <2>2
<1>4. /\ UNCHANGED at \/ \E p : at' = [at EXCEPT ![c] = p]
      /\ UNCHANGED outcome \/ \E k : outcome' = [outcome EXCEPT ![c] = k]
      /\ UNCHANGED results \/ results' = [results EXCEPT ![c] = None]
      /\ UNCHANGED exchange \/ \E e : exchange' = [exchange EXCEPT ![c] = e]
  BY DEF LauncherMoves, Wine!LauncherStep, Wine!Begin, Wine!Spawn,
     Wine!Exited, Wine!WaitEnds, Wine!Terminate, Wine!ReadResult, Wine!Clean,
     Wine!Unlock, Wine!Kill, Wine!Move, Wine!Ends
<1>5. \A d \in Calls : d # c => /\ at'[d] = at[d] /\ results'[d] = results[d]
                                /\ outcome'[d] = outcome[d]
                                /\ exchange'[d] = exchange[d]
  BY <1>4 DEF Wine!TypeOK
<1>6. \/ UNCHANGED drivers /\ ~(Wine!Terminate(c) /\ Wine!Running(c))
      \/ Wine!Spawn(c) /\ Steps(c, "open")
      \/ /\ Wine!Terminate(c) /\ Wine!Running(c)
         /\ Stands(c, "died", drivers[c].query, 0, <<>>, "ok")
  BY <1>3, GoForms, EndedForms, Places
<1>. QED  BY <1>1, <1>2, <1>5, <1>6, FaultForms DEF Steps, Stands

\* What each of them does with its call.
LEMMA LauncherForms ==
  ASSUME Wine!TypeOK, NEW c \in Calls
  PROVE  /\ Wine!Begin(c) =>
              /\ at[c] = "begin" /\ results' = results /\ drivers' = drivers
              /\ \/ lock = None /\ lock' = c /\ at'[c] = "spawn" /\ outcome' = outcome
                 \/ lock' = lock /\ at'[c] = "done" /\ outcome'[c] = "busy"
         /\ Wine!Spawn(c) =>
              /\ at[c] = "spawn" /\ lock' = lock /\ results' = results
              /\ \/ at'[c] = "wait" /\ outcome' = outcome
                 \/ at'[c] = "clean" /\ outcome'[c] = "helper_failed" /\ drivers' = drivers
         /\ Wine!Exited(c) =>
              /\ at[c] = "wait" /\ lock' = lock /\ results' = results /\ drivers' = drivers
              /\ at'[c] = "read" /\ outcome' = outcome /\ ~Wine!Running(c)
         /\ Wine!WaitEnds(c) =>
              /\ at[c] = "wait" /\ lock' = lock /\ results' = results /\ drivers' = drivers
              /\ at'[c] = "kill" /\ outcome'[c] = "timeout"
         /\ Wine!Terminate(c) =>
              /\ at[c] = "kill" /\ lock' = lock /\ results' = results
              /\ at'[c] = "clean"
              /\ outcome' = outcome \/ outcome'[c] = "cleanup_failed"
         /\ Wine!ReadResult(c) =>
              /\ at[c] = "read" /\ lock' = lock /\ results' = results /\ drivers' = drivers
              /\ at'[c] = "clean"
              /\ outcome'[c] = IF drivers[c].at = "exited" THEN results[c]
                               ELSE "helper_failed"
         /\ Wine!Clean(c) =>
              /\ at[c] = "clean" /\ lock' = lock /\ drivers' = drivers
              /\ at'[c] = "unlock"
              /\ \/ results'[c] = None /\ outcome' = outcome /\ ~exchange'[c]
                 \/ /\ results' = results
                    /\ outcome'[c] = IF outcome[c] = "ok" THEN "cleanup_failed"
                                     ELSE outcome[c]
         /\ Wine!Unlock(c) =>
              /\ at[c] = "unlock" /\ lock' = None /\ results' = results
              /\ drivers' = drivers /\ outcome' = outcome /\ at'[c] = "done"
              /\ exchange' = exchange
         /\ Wine!Kill(c) =>
              /\ at[c] \notin {"begin", "done", "killed"}
              /\ lock' = (IF lock = c THEN None ELSE lock) /\ results' = results
              /\ drivers' = drivers /\ outcome' = outcome /\ at'[c] = "killed"
BY DEF Wine!TypeOK, Wine!Begin, Wine!Spawn, Wine!Exited, Wine!WaitEnds, Wine!Terminate,
   Wine!ReadResult, Wine!Clean, Wine!Unlock, Wine!Kill, Wine!Move, Wine!Ends, Wine!At,
   Wine!Helper

\* The dialog replaces its list.
LEMMA RebuildForms ==
  ASSUME Wine!TypeOK, Wine!Rebuild
  PROVE  /\ UNCHANGED <<offers, lock, at, outcome, exchange, results, drivers>>
         /\ wizard' \in Ui /\ wizard.page = "brokers" /\ wizard'.page = "brokers"
         /\ incidents' \in [incidents : Nat, rebuilt : BOOLEAN] /\ incidents'.rebuilt
<1>1. PICK l \in Wine!Lists : wizard' = [wizard EXCEPT !.list = l, !.row = None]
  BY DEF Wine!Rebuild
<1>2. Shows(wizard.page, l, None, wizard.shown)
  BY <1>1, UiForms
<1>. QED  BY <1>2 DEF Wine!TypeOK, Wine!Rebuild, Wine!launcher, Shows, Ui

-----------------------------------------------------------------------------
(* The parts of the invariant, step by step.                                 *)

LEMMA WineTypeKeeps ==
  ASSUME Wine!TypeOK, Wine!LocalsInv, [Wine!Next]_(Wine!vars)
  PROVE  Wine!TypeOK'
<1>1. ASSUME NEW c \in Calls, HelperMoves(c)
      PROVE  Wine!TypeOK'
  <2>1. \A d \in Calls : Len(drivers'[d].read) <= drivers'[d].count
    BY <1>1, HelperShape, ReadKeeps DEF Wine!TypeOK
  <2>. QED
    BY <1>1, <2>1, HelperShape DEF Wine!TypeOK, Ui, HelperAtOnce, Spends
<1>2. ASSUME NEW c \in Calls, LauncherMoves(c)
      PROVE  Wine!TypeOK'
  <2>1. lock' \in Calls \cup {None}
    BY <1>2, LauncherForms DEF LauncherMoves, Wine!LauncherStep, Wine!TypeOK
  <2>2. at' \in [Calls -> Wine!LauncherPlaces]
    BY <1>2 DEF LauncherMoves, Wine!LauncherStep, Wine!Begin, Wine!Spawn,
       Wine!Exited, Wine!WaitEnds, Wine!Terminate, Wine!ReadResult, Wine!Clean,
       Wine!Unlock, Wine!Kill, Wine!Move, Wine!Ends, Wine!TypeOK, Wine!LauncherPlaces
  <2>3. outcome' \in [Calls -> Wine!Codes \cup {"none", "busy", "helper_failed",
                                               "cleanup_failed"}]
    <3>. DEFINE K == Wine!Codes \cup {"none", "busy", "helper_failed", "cleanup_failed"}
    <3>1. outcome \in [Calls -> K]
      BY DEF Wine!TypeOK
    <3>2. Wine!ReadResult(c) /\ drivers[c].at = "exited" => results[c] \in K
      BY DEF Wine!ReadResult, Wine!At, Wine!TypeOK, Wine!LocalsInv, Wine!Orderly
    <3>3. outcome' = outcome \/ \E k \in K : outcome' = [outcome EXCEPT ![c] = k]
      BY <1>2, <3>1, <3>2, Places
         DEF LauncherMoves, Wine!LauncherStep, Wine!Begin, Wine!Spawn,
         Wine!Exited, Wine!WaitEnds, Wine!Terminate, Wine!ReadResult, Wine!Clean,
         Wine!Unlock, Wine!Kill, Wine!Ends, Wine!Helper
    <3>. QED  BY <3>1, <3>3
  <2>4. exchange' \in [Calls -> BOOLEAN]
    BY <1>2 DEF LauncherMoves, Wine!LauncherStep, Wine!Begin, Wine!Spawn,
       Wine!Exited, Wine!WaitEnds, Wine!Terminate, Wine!ReadResult, Wine!Clean,
       Wine!Unlock, Wine!Kill, Wine!TypeOK
  <2>5. results' \in [Calls -> Wine!Codes \cup {None}]
    BY <1>2 DEF LauncherMoves, Wine!LauncherStep, Wine!Begin, Wine!Spawn,
       Wine!Exited, Wine!WaitEnds, Wine!Terminate, Wine!ReadResult, Wine!Clean,
       Wine!Unlock, Wine!Kill, Wine!TypeOK
  <2>6. drivers' \in [Calls -> Wine!Locals]
    BY <1>2, LauncherShape DEF Steps, Stands, Wine!TypeOK
  <2>7. \A d \in Calls : Len(drivers'[d].read) <= drivers'[d].count
    BY <1>2, LauncherShape DEF Steps, Stands, Wine!TypeOK
  <2>. QED
    BY <1>2, <2>1, <2>2, <2>3, <2>4, <2>5, <2>6, <2>7, LauncherShape
       DEF Wine!TypeOK, Spends
<1>3. CASE Wine!Rebuild
  BY <1>3, RebuildForms DEF Wine!TypeOK, Ui
<1>4. CASE UNCHANGED Wine!vars
  BY <1>4 DEF Wine!TypeOK, Wine!vars
<1>. QED
  BY <1>1, <1>2, <1>3, <1>4 DEF Wine!Next, HelperMoves, LauncherMoves

LEMMA LockKeeps ==
  ASSUME Wine!TypeOK, Wine!LocalsInv, Wine!LockInv, [Wine!Next]_(Wine!vars)
  PROVE  Wine!LockInv'
<1>0. None \notin Calls
  BY DiscoveryAssumptions DEF DiscoveryAssumptions, Wine!DiscoveryAssumption
<1>1. ASSUME NEW c \in Calls, HelperMoves(c)
      PROVE  Wine!LockInv'
  BY <1>1, HelperShape DEF Wine!LockInv, HelperAtOnce, Wine!Helper, Wine!Running
<1>2. ASSUME NEW c \in Calls, LauncherMoves(c)
      PROVE  Wine!LockInv'
  <2>. USE DEF Wine!LockInv, Wine!Helper, Wine!Running
  <2>1. \A d \in Calls : d # c => drivers'[d] = drivers[d] /\ at'[d] = at[d]
    BY <1>2, LauncherShape
  <2>2. CASE UNCHANGED drivers /\ ~Wine!Spawn(c)
    <3>1. ~(Wine!Terminate(c) /\ Wine!Running(c))
      BY <1>2, <2>2, LauncherShape DEF Stands, Wine!Running
    <3>. QED
      BY <1>0, <1>2, <2>1, <2>2, <3>1, LauncherForms
         DEF LauncherMoves, Wine!LauncherStep
  <2>3. CASE UNCHANGED drivers /\ Wine!Spawn(c)
    BY <1>0, <1>2, <2>1, <2>3, LauncherForms DEF Wine!Spawn
  <2>4. CASE Wine!Spawn(c) /\ Steps(c, "open")
    <3>1. at'[c] = "wait"
      BY <1>2, <2>4, LauncherForms DEF Steps, Stands
    <3>. QED  BY <1>0, <2>1, <2>4, <3>1, LauncherForms DEF Steps, Stands
  <2>5. CASE Wine!Terminate(c) /\ Stands(c, "died", drivers[c].query, 0, <<>>, "ok")
    BY <1>0, <2>1, <2>5, LauncherForms DEF Stands
  <2>. QED  BY <1>2, <2>2, <2>3, <2>4, <2>5, LauncherShape
<1>3. CASE Wine!Rebuild
  BY <1>3, RebuildForms DEF Wine!LockInv, Wine!Helper, Wine!Running
<1>4. CASE UNCHANGED Wine!vars
  BY <1>4 DEF Wine!LockInv, Wine!vars, Wine!Helper, Wine!Running
<1>. QED
  BY <1>1, <1>2, <1>3, <1>4 DEF Wine!Next, HelperMoves, LauncherMoves

\* What the invariant says of the helper that moves.
LEMMA LocalsHelper ==
  ASSUME Wine!TypeOK, Wine!LocalsInv, Wine!LockInv, NEW c \in Calls, HelperMoves(c)
  PROVE  Wine!LocalsInv'
<1>. USE DEF Stumbles, Fallen, Steps, Stands
<1>0. /\ Wine!Orderly(c) /\ HelperAtOnce /\ Wine!Running(c)
      /\ drivers[c].count \in Nat /\ Len(drivers[c].read) \in Nat
      /\ Len(drivers[c].read) <= drivers[c].count
      /\ drivers[c].code \in Wine!Codes /\ None \notin Wine!Codes
  <2>1. Wine!Orderly(c) /\ HelperAtOnce /\ Wine!Running(c)
    BY HelperShape DEF Wine!LocalsInv
  <2>2. Wine!Cardinality(Brokers) \in Nat /\ None \notin Wine!Codes
    BY DiscoveryAssumptions, FS_CardinalityType, WineSets
       DEF DiscoveryAssumptions, Wine!DiscoveryAssumption
  <2>. QED  BY <2>1, <2>2, LocalsType DEF Wine!TypeOK
<1>. SUFFICES Wine!Orderly(c)'
  <2>1. \A d \in Calls : d # c => (Wine!Orderly(d) => Wine!Orderly(d)')
    BY HelperShape DEF Wine!Orderly, Wine!Helper, HelperAtOnce
  <2>. QED  BY <2>1 DEF Wine!LocalsInv
<1>. USE DEF HelperAtOnce, Wine!Helper, Wine!Orderly
<1>1. CASE Wine!HelperOpen(c)
  BY <1>0, <1>1, OpenEffect DEF Wine!HelperOpen
<1>2. CASE Wine!HelperSearch(c)
  BY <1>0, <1>2, SearchEffect DEF Wine!HelperSearch
<1>3. CASE Wine!HelperRow(c)
  BY <1>0, <1>3, RowEffect DEF Wine!HelperRow
<1>4. CASE Wine!HelperNext(c)
  BY <1>0, <1>4, NextEffect DEF Wine!HelperNext
<1>5. CASE Wine!HelperServer(c)
  BY <1>0, <1>5, ServerEffect DEF Wine!HelperServer
<1>6. CASE Wine!HelperBack(c)
  BY <1>0, <1>6, BackEffect DEF Wine!HelperBack
<1>7. CASE Wine!HelperMatch(c)
  BY <1>0, <1>7, MatchEffect DEF Wine!HelperMatch
<1>8. CASE Wine!HelperAccept(c)
  BY <1>0, <1>8, AcceptEffect DEF Wine!HelperAccept
<1>9. CASE Wine!HelperVerify(c)
  BY <1>0, <1>9, VerifyEffect DEF Wine!HelperVerify
<1>10. CASE Wine!HelperClose(c)
  BY <1>0, <1>10, CloseEffect DEF Wine!HelperClose
<1>11. CASE Wine!HelperCleanup(c)
  BY <1>0, <1>11, CleanupEffect DEF Wine!HelperCleanup
<1>12. CASE Wine!HelperWrite(c)
  BY <1>0, <1>12, WriteEffect DEF Wine!HelperWrite, Wine!TypeOK
<1>13. CASE Wine!HelperExit(c)
  BY <1>0, <1>13, ExitEffect DEF Wine!HelperExit
<1>14. CASE Wine!HelperFails(c)
  BY <1>0, <1>14, FailsEffect DEF Wine!Running
<1>. QED
  BY <1>1, <1>2, <1>3, <1>4, <1>5, <1>6, <1>7, <1>8, <1>9, <1>10, <1>11, <1>12, <1>13,
     <1>14 DEF HelperMoves, Wine!HelperStep

LEMMA LocalsKeeps ==
  ASSUME Wine!TypeOK, Wine!LocalsInv, Wine!LockInv, [Wine!Next]_(Wine!vars)
  PROVE  Wine!LocalsInv'
<1>1. ASSUME NEW c \in Calls, HelperMoves(c)
      PROVE  Wine!LocalsInv'
  BY <1>1, LocalsHelper
<1>2. ASSUME NEW c \in Calls, LauncherMoves(c)
      PROVE  Wine!LocalsInv'
  <2>1. \A d \in Calls : d # c => (Wine!Orderly(d) => Wine!Orderly(d)')
    BY <1>2, LauncherShape DEF Wine!Orderly, Wine!Helper
  <2>2. Wine!Orderly(c) /\ (at[c] \in {"begin", "spawn"} => drivers[c].at = "unborn")
    BY DEF Wine!LocalsInv, Wine!LockInv, Wine!Helper
  <2>. SUFFICES Wine!Orderly(c)'
    BY <2>1 DEF Wine!LocalsInv
  <2>. USE DEF Wine!Orderly, Wine!Helper
  <2>3. CASE UNCHANGED drivers
    BY <1>2, <2>2, <2>3, LauncherForms DEF LauncherMoves, Wine!LauncherStep
  <2>4. CASE Wine!Spawn(c) /\ Steps(c, "open")
    BY <2>2, <2>4, LauncherForms DEF Steps, Stands
  <2>5. CASE Wine!Terminate(c) /\ Stands(c, "died", drivers[c].query, 0, <<>>, "ok")
    BY <2>2, <2>5, LauncherForms DEF Stands
  <2>. QED  BY <1>2, <2>3, <2>4, <2>5, LauncherShape
<1>3. CASE Wine!Rebuild
  BY <1>3, RebuildForms DEF Wine!LocalsInv, Wine!Orderly, Wine!Helper
<1>4. CASE UNCHANGED Wine!vars
  BY <1>4 DEF Wine!LocalsInv, Wine!Orderly, Wine!vars, Wine!Helper
<1>. QED
  BY <1>1, <1>2, <1>3, <1>4 DEF Wine!Next, HelperMoves, LauncherMoves

\* The claims of a call come from its helper alone.
LEMMA ClaimKeeps ==
  ASSUME Wine!TypeOK, Wine!LocalsInv, [Wine!Next]_(Wine!vars), NEW d \in Calls,
         NEW k \in {"ok", "no_exact_match"}, Wine!Claims(d, k)'
  PROVE  \/ Wine!Claims(d, k) /\ drivers'[d].query = drivers[d].query
         \/ k = "ok" /\ Wine!HelperClose(d) /\ wizard' = Wine!Cancelled
         \/ k = "no_exact_match" /\ Wine!HelperMatch(d) /\ Wine!Matches(drivers[d].read) = {}
            /\ ~(drivers[d].query < Queries)
<1>. USE DEF Wine!Claims
<1>0. None \notin Wine!Codes /\ {"ok", "no_exact_match"} \subseteq Wine!Codes
  BY Places, DiscoveryAssumptions DEF DiscoveryAssumptions, Wine!DiscoveryAssumption
<1>1. ASSUME NEW c \in Calls, HelperMoves(c), c # d
      PROVE  Wine!Claims(d, k) /\ drivers'[d].query = drivers[d].query
  BY <1>1, HelperShape DEF HelperAtOnce
<1>2. ASSUME HelperMoves(d)
      PROVE  \/ Wine!Claims(d, k) /\ drivers'[d].query = drivers[d].query
             \/ k = "ok" /\ Wine!HelperClose(d) /\ wizard' = Wine!Cancelled
             \/ k = "no_exact_match" /\ Wine!HelperMatch(d)
                /\ Wine!Matches(drivers[d].read) = {} /\ ~(drivers[d].query < Queries)
  <2>. USE DEF Stumbles, Fallen, Steps, Stands, HelperAtOnce, Wine!Helper
  <2>0. Wine!Orderly(d) /\ results[d] \in Wine!Codes \cup {None}
    BY DEF Wine!LocalsInv, Wine!TypeOK
  <2>1. CASE Wine!HelperOpen(d)
    BY <2>1, OpenEffect
  <2>2. CASE Wine!HelperSearch(d)
    BY <2>2, SearchEffect
  <2>3. CASE Wine!HelperRow(d)
    BY <2>3, RowEffect
  <2>4. CASE Wine!HelperNext(d)
    BY <2>4, NextEffect
  <2>5. CASE Wine!HelperServer(d)
    BY <2>5, ServerEffect
  <2>6. CASE Wine!HelperBack(d)
    BY <2>6, BackEffect
  <2>7. CASE Wine!HelperMatch(d)
    <3>1. drivers[d].at = "match" /\ results[d] = None
      BY <2>0, <2>7 DEF Wine!HelperMatch, Wine!Orderly
    <3>2. outcome[d] # k
      BY <2>0, <3>1 DEF Wine!Orderly
    <3>. QED  BY <1>0, <2>7, <3>1, <3>2, MatchEffect
  <2>8. CASE Wine!HelperAccept(d)
    BY <2>8, AcceptEffect
  <2>9. CASE Wine!HelperVerify(d)
    BY <2>9, VerifyEffect
  <2>10. CASE Wine!HelperClose(d)
    <3>1. wizard' = Wine!Cancelled \/ Wine!Breaks(d)
      BY <2>10 DEF Wine!HelperClose
    <3>2. drivers[d].at = "close" /\ drivers[d].code = "ok"
      BY <2>0, <2>10 DEF Wine!HelperClose, Wine!Orderly
    <3>3. CASE Wine!Breaks(d)
      BY <2>10, <3>3, BreaksForms, CloseEffect
    <3>. QED  BY <2>10, <3>1, <3>2, <3>3, CloseEffect
  <2>11. CASE Wine!HelperCleanup(d)
    BY <2>11, CleanupEffect DEF Wine!HelperCleanup
  <2>12. CASE Wine!HelperWrite(d)
    BY <2>12, WriteEffect DEF Wine!HelperWrite, Wine!TypeOK
  <2>13. CASE Wine!HelperExit(d)
    BY <2>13, ExitEffect DEF Wine!HelperExit
  <2>14. CASE Wine!HelperFails(d)
    BY <2>14, FailsEffect
  <2>. QED
    BY <1>2, <2>1, <2>2, <2>3, <2>4, <2>5, <2>6, <2>7, <2>8, <2>9, <2>10, <2>11, <2>12,
       <2>13, <2>14 DEF HelperMoves, Wine!HelperStep
<1>3. ASSUME NEW c \in Calls, LauncherMoves(c), c # d
      PROVE  Wine!Claims(d, k) /\ drivers'[d].query = drivers[d].query
  BY <1>3, LauncherShape
<1>4. ASSUME LauncherMoves(d)
      PROVE  Wine!Claims(d, k) /\ drivers'[d].query = drivers[d].query
  <2>1. CASE UNCHANGED drivers
    BY <1>0, <1>4, <2>1, LauncherForms DEF LauncherMoves, Wine!LauncherStep
  <2>2. CASE Wine!Spawn(d) /\ Steps(d, "open")
    BY <2>2, LauncherForms DEF Steps, Stands
  <2>3. CASE Wine!Terminate(d) /\ Stands(d, "died", drivers[d].query, 0, <<>>, "ok")
    BY <2>3, LauncherForms DEF Stands
  <2>. QED  BY <1>4, <2>1, <2>2, <2>3, LauncherShape
<1>5. CASE Wine!Rebuild
  BY <1>5, RebuildForms
<1>6. CASE UNCHANGED Wine!vars
  BY <1>6 DEF Wine!vars
<1>. QED
  BY <1>1, <1>2, <1>3, <1>4, <1>5, <1>6 DEF Wine!Next, HelperMoves, LauncherMoves

\* A dialog that is closed stays closed and keeps what it showed.
LEMMA ClosedStays ==
  ASSUME Wine!TypeOK, Wine!LocalsInv, [Wine!Next]_(Wine!vars)
  PROVE  /\ offers' = offers
         /\ wizard.page = "none" => wizard'.page = "none" /\ wizard'.shown = wizard.shown
<1>1. ASSUME NEW c \in Calls, HelperMoves(c), wizard.page = "none"
      PROVE  wizard'.page = "none" /\ wizard'.shown = wizard.shown
  BY <1>1, OpenEffect, SearchEffect, RowEffect, NextEffect, ServerEffect, BackEffect,
     MatchEffect, AcceptEffect, VerifyEffect, CloseEffect, CleanupEffect, WriteEffect,
     ExitEffect, FailsEffect
     DEF HelperMoves, Wine!HelperStep, Stumbles, Fallen, Shows
<1>2. ASSUME NEW c \in Calls, HelperMoves(c)
      PROVE  offers' = offers
  BY <1>2, HelperShape DEF HelperAtOnce
<1>3. ASSUME NEW c \in Calls, LauncherMoves(c)
      PROVE  offers' = offers /\ wizard' = wizard
  BY <1>3, LauncherShape
<1>4. CASE Wine!Rebuild
  BY <1>4, RebuildForms
<1>5. CASE UNCHANGED Wine!vars
  BY <1>5 DEF Wine!vars
<1>. QED
  BY <1>1, <1>2, <1>3, <1>4, <1>5 DEF Wine!Next, HelperMoves, LauncherMoves

\* The page of servers has one helper at most.
Alone ==
  /\ \A c \in Calls : /\ Wine!OnServers(c) => wizard.page # "brokers"
                      /\ drivers[c].at = "close" => Wine!Exact
  /\ \A c, d \in Calls : wizard.page = "servers" /\ Wine!OnServers(c) /\ Wine!OnServers(d)
                           => c = d

LEMMA AloneHelper ==
  ASSUME Wine!TypeOK, Wine!LocalsInv, Alone, NEW c \in Calls, HelperMoves(c)
  PROVE  Alone'
<1>. USE DEF Stumbles, Fallen, Steps, Stands, Shows, HelperAtOnce, Wine!Helper,
             Alone, Wine!OnServers, Wine!Exact
<1>1. CASE Wine!HelperOpen(c)
  BY <1>1, OpenEffect
<1>2. CASE Wine!HelperSearch(c)
  BY <1>2, SearchEffect
<1>3. CASE Wine!HelperRow(c)
  BY <1>3, RowEffect
<1>4. CASE Wine!HelperNext(c)
  BY <1>4, NextEffect
<1>5. CASE Wine!HelperServer(c)
  <2>1. /\ wizard' = wizard /\ offers' = offers /\ drivers[c].at = "server"
        /\ drivers'[c].at \in {"back", "cleanup"}
        /\ \A d \in Calls : d # c => drivers'[d] = drivers[d]
    BY <1>5, ServerEffect DEF Wine!HelperServer
  <2>. QED  BY <2>1
<1>6. CASE Wine!HelperBack(c)
  BY <1>6, BackEffect DEF Wine!HelperBack
<1>7. CASE Wine!HelperMatch(c)
  BY <1>7, MatchEffect
<1>8. CASE Wine!HelperAccept(c)
  BY <1>8, AcceptEffect
<1>9. CASE Wine!HelperVerify(c)
  <2>1. /\ wizard' = wizard /\ offers' = offers /\ drivers[c].at = "verify"
        /\ \/ drivers'[c].at = "cleanup"
           \/ drivers'[c].at = "close" /\ wizard.shown \in offers.exact
        /\ \A d \in Calls : d # c => drivers'[d] = drivers[d]
    BY <1>9, VerifyEffect DEF Wine!HelperVerify
  <2>. QED  BY <2>1
<1>10. CASE Wine!HelperClose(c)
  BY <1>10, CloseEffect
<1>11. CASE Wine!HelperCleanup(c)
  BY <1>11, CleanupEffect
<1>12. CASE Wine!HelperWrite(c)
  BY <1>12, WriteEffect
<1>13. CASE Wine!HelperExit(c)
  BY <1>13, ExitEffect
<1>14. CASE Wine!HelperFails(c)
  BY <1>14, FailsEffect
<1>. QED
  BY <1>1, <1>2, <1>3, <1>4, <1>5, <1>6, <1>7, <1>8, <1>9, <1>10, <1>11, <1>12, <1>13,
     <1>14 DEF HelperMoves, Wine!HelperStep

LEMMA PageKeeps ==
  ASSUME Wine!TypeOK, Wine!LocalsInv, Wine!PageInv, [Wine!Next]_(Wine!vars)
  PROVE  Wine!PageInv'
<1>0. Alone
  BY DEF Alone, Wine!PageInv, Wine!Helper
<1>1. ASSUME NEW c \in Calls, HelperMoves(c)
      PROVE  Alone'
  BY <1>0, <1>1, AloneHelper
<1>2. ASSUME NEW c \in Calls, LauncherMoves(c)
      PROVE  Alone'
  BY <1>0, <1>2, LauncherShape
     DEF Alone, Steps, Stands, Wine!OnServers, Wine!Exact
<1>3. ASSUME Wine!Rebuild
      PROVE  Alone'
  BY <1>0, <1>3, RebuildForms DEF Alone, Wine!OnServers, Wine!Exact
<1>4. ASSUME UNCHANGED Wine!vars
      PROVE  Alone'
  BY <1>0, <1>4 DEF Alone, Wine!OnServers, Wine!Exact, Wine!vars
<1>5. Alone'
  BY <1>1, <1>2, <1>3, <1>4 DEF Wine!Next, HelperMoves, LauncherMoves
<1>6. ASSUME NEW d \in Calls, Wine!Claims(d, "ok")'
      PROVE  wizard'.page = "none" /\ Wine!Exact'
  <2>1. CASE Wine!Claims(d, "ok")
    BY <2>1, ClosedStays DEF Wine!PageInv, Wine!Exact
  <2>2. CASE Wine!HelperClose(d) /\ wizard' = Wine!Cancelled
    <3>1. Wine!Exact /\ offers' = offers
      BY <1>0, <2>2, ClosedStays DEF Alone, Wine!HelperClose, Wine!Helper
    <3>2. Shows("none", <<>>, None, wizard.shown)
      BY <2>2, UiForms
    <3>. QED  BY <3>1, <3>2 DEF Shows, Wine!Exact
  <2>. QED  BY <1>6, <2>1, <2>2, ClaimKeeps
<1>. QED  BY <1>5, <1>6 DEF Alone, Wine!PageInv, Wine!Helper

\* Where no launcher is killed, one helper runs at most.
LEMMA OneRuns ==
  ASSUME Wine!LockInv, Wine!NoneKilled, NEW c \in Calls, NEW d \in Calls,
         Wine!Running(c), Wine!Running(d)
  PROVE  c = d
BY DEF Wine!LockInv, Wine!NoneKilled

\* What was read of the rows of a query, one entry for each, names those that match.
LEMMA MatchesAreRows ==
  ASSUME Wine!TypeOK, NEW c \in Calls, Wine!HasRead(c), drivers[c].at = "match"
  PROVE  Wine!Matches(drivers[c].read) = Wine!Rows(drivers[c].query)
<1>. DEFINE r == drivers[c].read
            l == offers.lists[drivers[c].query]
<1>1. l \in Wine!Lists
  BY LocalsType DEF Wine!TypeOK
<1>2. DOMAIN l = 1 .. Len(l) /\ DOMAIN r = 1 .. Len(r)
  BY <1>1, ListForms, LocalsType
<1>3. /\ Len(r) = Len(l)
      /\ \A i \in 1 .. Len(r) : r[i] = (l[i] \in offers.exact)
  BY DEF Wine!HasRead, Wine!Helper
<1>. QED  BY <1>2, <1>3 DEF Wine!Matches, Wine!Rows

LEMMA ProbedHelper ==
  ASSUME Wine!TypeOK, Wine!LocalsInv, NEW c \in Calls, HelperMoves(c), Wine!Probed(c)
  PROVE  Wine!Probed(c)'
<1>0. /\ Wine!Orderly(c) /\ offers' = offers
      /\ drivers[c].query \in 1 .. Queries /\ drivers[c].read \in Seq(BOOLEAN)
      /\ Len(drivers[c].read) \in Nat /\ drivers[c].count \in Nat
      /\ Len(drivers[c].read) <= drivers[c].count
      /\ Queries \in Nat
  <2>1. Wine!Cardinality(Brokers) \in Nat /\ Queries \in Nat
    BY DiscoveryAssumptions, FS_CardinalityType, WineSets
       DEF DiscoveryAssumptions, Wine!DiscoveryAssumption
  <2>. QED
    BY <2>1, LocalsType, HelperShape DEF Wine!LocalsInv, Wine!TypeOK, HelperAtOnce
<1>1. \A q : Wine!Rows(q)' = Wine!Rows(q)
  BY <1>0 DEF Wine!Rows
<1>. USE DEF Stumbles, Fallen, Steps, Stands, Shows, Wine!Helper
<1>2. CASE Wine!HelperOpen(c)
  BY <1>0, <1>2, OpenEffect DEF Wine!Probed, Wine!HelperOpen, Wine!Orderly
<1>. DEFINE l == offers.lists[drivers[c].query]
            r == drivers[c].read
<1>3. CASE Wine!HelperSearch(c)
  <2>1. CASE /\ Shows("brokers", l, None, None)
             /\ Stands(c, "row", drivers[c].query, Len(l), <<>>, drivers[c].code)
    <3>1. Wine!HasRead(c)'
      BY <1>0, <2>1 DEF Wine!HasRead
    <3>2. \A q \in 1 .. drivers[c].query - 1 : Wine!Rows(q) = {}
      BY <1>3 DEF Wine!HelperSearch, Wine!Probed
    <3>. QED  BY <1>1, <2>1, <3>1, <3>2 DEF Wine!Probed
  <2>2. CASE Stumbles(c)
    BY <2>2 DEF Wine!Probed
  <2>. QED  BY <1>3, <2>1, <2>2, SearchEffect
<1>a. ASSUME drivers[c].at \in {"row", "next", "server", "back"},
             drivers'[c].query = drivers[c].query, Wine!HasRead(c)',
             drivers'[c].at \in {"row", "next", "server", "back", "match"}
      PROVE  Wine!Probed(c)'
  BY <1>1, <1>a DEF Wine!Probed
<1>b. ASSUME drivers[c].at \in {"row", "next", "server", "back"}
      PROVE  /\ wizard.list = l /\ drivers[c].count = Len(l)
             /\ \A i \in 1 .. Len(r) : r[i] = (l[i] \in offers.exact)
             /\ drivers[c].at = "next" => wizard.row = l[Len(r) + 1]
             /\ drivers[c].at = "server" => wizard.shown = l[Len(r) + 1]
  BY <1>b DEF Wine!Probed, Wine!HasRead
<1>4. CASE Wine!HelperRow(c)
  <2>0. drivers[c].at = "row"
    BY <1>4 DEF Wine!HelperRow
  <2>1. CASE Len(r) = drivers[c].count /\ wizard' = wizard /\ Steps(c, "match")
    <3>1. Wine!HasRead(c)'
      BY <1>0, <1>b, <2>0, <2>1 DEF Wine!HasRead
    <3>. QED  BY <1>a, <2>0, <2>1, <3>1
  <2>2. CASE /\ Shows("brokers", wizard.list, wizard.list[Len(r) + 1], wizard.shown)
             /\ Steps(c, "next")
    <3>1. Wine!HasRead(c)'
      BY <1>0, <1>b, <2>0, <2>2 DEF Wine!HasRead
    <3>. QED  BY <1>a, <2>0, <2>2, <3>1
  <2>3. CASE Stumbles(c)
    BY <2>3 DEF Wine!Probed
  <2>. QED  BY <1>4, <2>1, <2>2, <2>3, RowEffect
<1>5. CASE Wine!HelperNext(c)
  <2>0. drivers[c].at = "next"
    BY <1>5 DEF Wine!HelperNext
  <2>1. CASE /\ Shows("servers", wizard.list, wizard.row, wizard.row)
             /\ Steps(c, "server")
    <3>1. Wine!HasRead(c)'
      BY <1>0, <1>b, <2>0, <2>1 DEF Wine!HasRead
    <3>. QED  BY <1>a, <2>0, <2>1, <3>1
  <2>2. CASE Stumbles(c)
    BY <2>2 DEF Wine!Probed
  <2>. QED  BY <1>5, <2>1, <2>2, NextEffect
<1>6. CASE Wine!HelperServer(c)
  <2>0. drivers[c].at = "server" /\ wizard' = wizard
    BY <1>6, ServerEffect DEF Wine!HelperServer
  <2>1. CASE Stands(c, "back", drivers[c].query, drivers[c].count,
                    Append(r, Wine!Exact), drivers[c].code)
    <3>1. Wine!Exact = (l[Len(r) + 1] \in offers.exact) /\ Wine!Exact \in BOOLEAN
      BY <1>b, <2>0 DEF Wine!Exact
    <3>2. \A i \in 1 .. Len(Append(r, Wine!Exact)) :
            Append(r, Wine!Exact)[i] = (l[i] \in offers.exact)
      <4>. DEFINE e == Wine!Exact
      <4>. HIDE DEF e
      <4>1. Len(Append(r, e)) = Len(r) + 1 /\ Append(r, e)[Len(r) + 1] = e
        BY <1>0
      <4>2. \A i \in 1 .. Len(r) : Append(r, e)[i] = r[i]
        BY <1>0
      <4>3. ASSUME NEW i \in 1 .. Len(Append(r, e))
            PROVE  Append(r, e)[i] = (l[i] \in offers.exact)
        <5>1. CASE i \in 1 .. Len(r)
          BY <1>b, <2>0, <4>2, <5>1
        <5>2. CASE i = Len(r) + 1
          BY <3>1, <4>1, <5>2 DEF e
        <5>3. Len(r) \in Nat
          BY <1>0
        <5>. QED  BY <4>1, <5>1, <5>2, <5>3
      <4>. QED  BY <4>3 DEF e
    <3>3. Wine!HasRead(c)'
      BY <1>0, <1>b, <2>0, <2>1, <3>2 DEF Wine!HasRead
    <3>. QED  BY <1>a, <2>0, <2>1, <3>3
  <2>2. CASE Stumbles(c)
    BY <2>2 DEF Wine!Probed
  <2>. QED  BY <1>6, <2>1, <2>2, ServerEffect
<1>7. CASE Wine!HelperBack(c)
  BY <1>0, <1>1, <1>7, BackEffect DEF Wine!Probed, Wine!HelperBack, Wine!HasRead
<1>8. CASE Wine!HelperMatch(c)
  <2>1. /\ drivers[c].at = "match" /\ Wine!HasRead(c)
        /\ \A q \in 1 .. drivers[c].query - 1 : Wine!Rows(q) = {}
    BY <1>8 DEF Wine!HelperMatch, Wine!Probed
  <2>2. Wine!Matches(drivers[c].read) = Wine!Rows(drivers[c].query)
    BY <2>1, MatchesAreRows
  <2>3. ASSUME NEW i, Wine!Rows(drivers[c].query) = {i}, Steps(c, "accept")
        PROVE  Wine!Probed(c)'
    <3>1. Wine!Cardinality(Wine!Rows(drivers[c].query)) = 1
      BY <2>3, WineSets, FS_Singleton
    <3>. QED  BY <1>0, <1>1, <2>3, <3>1 DEF Wine!Probed
  <2>4. ASSUME Wine!Rows(drivers[c].query) = {},
               Stands(c, "search", drivers[c].query + 1, drivers[c].count,
                      drivers[c].read, drivers[c].code)
        PROVE  Wine!Probed(c)'
    <3>1. ASSUME NEW q \in 1 .. drivers'[c].query - 1
          PROVE  Wine!Rows(q)' = {}
      <4>1. drivers'[c].query = drivers[c].query + 1
        BY <2>4
      <4>2. q = drivers[c].query \/ q \in 1 .. drivers[c].query - 1
        BY <1>0, <4>1
      <4>. QED  BY <1>1, <2>1, <2>4, <4>2
    <3>. QED  BY <2>4, <3>1 DEF Wine!Probed
  <2>5. ASSUME drivers'[c].at = "cleanup"
        PROVE  Wine!Probed(c)'
    BY <2>5 DEF Wine!Probed
  <2>. QED  BY <1>8, <2>2, <2>3, <2>4, <2>5, MatchEffect
<1>9. CASE Wine!HelperAccept(c)
  BY <1>1, <1>9, AcceptEffect DEF Wine!Probed, Wine!HelperAccept
<1>10. CASE Wine!HelperVerify(c)
  BY <1>1, <1>10, VerifyEffect DEF Wine!Probed, Wine!HelperVerify
<1>11. CASE Wine!HelperClose(c)
  BY <1>11, CloseEffect DEF Wine!Probed
<1>12. CASE Wine!HelperCleanup(c)
  BY <1>12, CleanupEffect DEF Wine!Probed
<1>13. CASE Wine!HelperWrite(c)
  BY <1>13, WriteEffect DEF Wine!Probed
<1>14. CASE Wine!HelperExit(c)
  BY <1>14, ExitEffect DEF Wine!Probed
<1>15. CASE Wine!HelperFails(c)
  BY <1>15, FailsEffect DEF Wine!Probed
<1>. QED
  BY <1>15, <1>2, <1>3, <1>4, <1>5, <1>6, <1>7, <1>8, <1>9, <1>10, <1>11, <1>12, <1>13,
     <1>14 DEF HelperMoves, Wine!HelperStep

\* The list stood still, and nobody was killed, before a step after which that is so.
LEMMA StillBefore ==
  ASSUME Wine!TypeOK, Wine!LocalsInv, [Wine!Next]_(Wine!vars),
         ~incidents'.rebuilt, Wine!NoneKilled'
  PROVE  ~incidents.rebuilt /\ Wine!NoneKilled /\ ~Wine!Rebuild
<1>1. ASSUME NEW c \in Calls, HelperMoves(c)
      PROVE  incidents'.rebuilt = incidents.rebuilt /\ at' = at
  BY <1>1, HelperShape DEF HelperAtOnce, Spends
<1>2. ASSUME NEW c \in Calls, LauncherMoves(c)
      PROVE  /\ incidents'.rebuilt = incidents.rebuilt
             /\ \A d \in Calls : at[d] = "killed" => at'[d] = "killed"
  <2>1. \A d \in Calls : d # c => at'[d] = at[d]
    BY <1>2, LauncherShape
  <2>2. at[c] # "killed"
    BY <1>2, LauncherForms DEF LauncherMoves, Wine!LauncherStep
  <2>. QED  BY <1>2, <2>1, <2>2, LauncherShape DEF Spends
<1>3. ASSUME UNCHANGED Wine!vars
      PROVE  incidents'.rebuilt = incidents.rebuilt /\ at' = at
  BY <1>3 DEF Wine!vars
<1>4. ~Wine!Rebuild
  BY RebuildForms
<1>. QED
  BY <1>1, <1>2, <1>3, <1>4 DEF Wine!Next, HelperMoves, LauncherMoves, Wine!NoneKilled

LEMMA ExactKeeps ==
  ASSUME Wine!TypeOK, Wine!LocalsInv, Wine!LockInv, Wine!ExactInv, [Wine!Next]_(Wine!vars)
  PROVE  Wine!ExactInv'
<1>. SUFFICES ASSUME ~incidents'.rebuilt, Wine!NoneKilled', NEW d \in Calls
              PROVE  /\ Wine!Probed(d)'
                     /\ Wine!Claims(d, "ok")'
                          => Wine!Cardinality(Wine!Rows(drivers[d].query))' = 1
                     /\ Wine!Claims(d, "no_exact_match")'
                          => \A q \in 1 .. Queries : Wine!Rows(q)' = {}
  BY DEF Wine!ExactInv
<1>1. ~incidents.rebuilt /\ Wine!NoneKilled /\ ~Wine!Rebuild
  BY StillBefore
<1>2. /\ Wine!Probed(d)
      /\ Wine!Claims(d, "ok") => Wine!Cardinality(Wine!Rows(drivers[d].query)) = 1
      /\ Wine!Claims(d, "no_exact_match") => \A q \in 1 .. Queries : Wine!Rows(q) = {}
  BY <1>1 DEF Wine!ExactInv
<1>3. offers' = offers /\ \A q : Wine!Rows(q)' = Wine!Rows(q)
  BY ClosedStays DEF Wine!Rows
<1>4. ASSUME NEW c \in Calls, HelperMoves(c)
      PROVE  Wine!Probed(d)'
  <2>1. CASE c = d
    BY <1>2, <1>4, <2>1, ProbedHelper
  <2>2. CASE c # d
    <3>1. ~Wine!Running(d)
      BY <1>1, <1>4, <2>2, HelperShape, OneRuns
    <3>2. drivers'[d] = drivers[d]
      BY <1>4, <2>2, HelperShape
    <3>. QED  BY <3>1, <3>2 DEF Wine!Probed, Wine!Running
  <2>. QED  BY <2>1, <2>2
<1>5. ASSUME NEW c \in Calls, LauncherMoves(c)
      PROVE  Wine!Probed(d)'
  <2>1. wizard' = wizard
    BY <1>5, LauncherShape
  <2>2. CASE drivers'[d] = drivers[d]
    BY <1>2, <1>3, <2>1, <2>2 DEF Wine!Probed, Wine!HasRead, Wine!Helper
  <2>3. CASE drivers'[d].at \in {"open", "died"}
    BY <2>3 DEF Wine!Probed
  <2>. QED  BY <1>5, <2>2, <2>3, LauncherShape DEF Steps, Stands
<1>6. ASSUME UNCHANGED Wine!vars
      PROVE  Wine!Probed(d)'
  BY <1>2, <1>3, <1>6 DEF Wine!Probed, Wine!HasRead, Wine!Helper, Wine!vars
<1>7. Wine!Probed(d)'
  BY <1>1, <1>4, <1>5, <1>6 DEF Wine!Next, HelperMoves, LauncherMoves
<1>8. ASSUME Wine!Claims(d, "ok")'
      PROVE  Wine!Cardinality(Wine!Rows(drivers[d].query))' = 1
  <2>1. CASE Wine!Claims(d, "ok") /\ drivers'[d].query = drivers[d].query
    BY <1>2, <1>3, <2>1
  <2>2. CASE Wine!HelperClose(d)
    <3>1. Wine!Cardinality(Wine!Rows(drivers[d].query)) = 1
      BY <1>2, <2>2 DEF Wine!HelperClose, Wine!Helper, Wine!Probed
    <3>2. drivers'[d].query = drivers[d].query
      BY <2>2, CloseEffect DEF Stumbles, Fallen, Steps, Stands
    <3>. QED  BY <1>3, <3>1, <3>2
  <2>. QED  BY <1>8, <2>1, <2>2, ClaimKeeps
<1>9. ASSUME Wine!Claims(d, "no_exact_match")', NEW q \in 1 .. Queries
      PROVE  Wine!Rows(q)' = {}
  <2>1. CASE Wine!Claims(d, "no_exact_match")
    BY <1>2, <1>3, <2>1
  <2>2. CASE /\ Wine!HelperMatch(d) /\ Wine!Matches(drivers[d].read) = {}
             /\ ~(drivers[d].query < Queries)
    <3>1. /\ drivers[d].at = "match" /\ Wine!HasRead(d)
          /\ \A p \in 1 .. drivers[d].query - 1 : Wine!Rows(p) = {}
      BY <1>2, <2>2 DEF Wine!HelperMatch, Wine!Helper, Wine!Probed
    <3>2. Wine!Rows(drivers[d].query) = {}
      BY <2>2, <3>1, MatchesAreRows
    <3>3. q = drivers[d].query \/ q \in 1 .. drivers[d].query - 1
      <4>1. drivers[d].query \in 1 .. Queries /\ Queries \in Nat
        BY LocalsType, DiscoveryAssumptions
           DEF DiscoveryAssumptions, Wine!DiscoveryAssumption
      <4>. QED  BY <2>2, <4>1
    <3>. QED  BY <1>3, <3>1, <3>2, <3>3
  <2>. QED  BY <1>9, <2>1, <2>2, ClaimKeeps
<1>. QED  BY <1>7, <1>8, <1>9

LEMMA WineInit == Wine!Init => Wine!IInv
<1>. SUFFICES ASSUME Wine!Init
              PROVE  Wine!IInv
  OBVIOUS
<1>0. /\ None \notin Calls /\ None \notin Wine!Codes /\ 1 \in 1 .. Queries
      /\ 0 \in 0 .. Wine!Cardinality(Brokers) /\ MaxIncidents \in Nat
      /\ <<>> \in Wine!Lists
  BY ListForms, DiscoveryAssumptions DEF DiscoveryAssumptions, Wine!DiscoveryAssumption
<1>. DEFINE h == [at |-> "unborn", query |-> 1, count |-> 0, read |-> <<>>, code |-> "ok",
                  late |-> FALSE]
<1>1. h \in Wine!Locals
  <2>1. "unborn" \in Wine!HelperPlaces /\ "ok" \in Wine!Codes /\ <<>> \in Seq(BOOLEAN)
    BY DEF Wine!HelperPlaces, Wine!Codes
  <2>. QED  BY <1>0, <2>1 DEF Wine!Locals
<1>2. \A c \in Calls : drivers[c] = h /\ at[c] = "begin" /\ outcome[c] = "none"
                       /\ results[c] = None
  BY DEF Wine!Init
<1>3. Wine!TypeOK
  <2>1. drivers \in [Calls -> Wine!Locals]
    BY <1>1 DEF Wine!Init
  <2>2. "begin" \in Wine!LauncherPlaces
    BY DEF Wine!LauncherPlaces
  <2>3. \A c \in Calls : Len(drivers[c].read) <= drivers[c].count
    BY <1>2
  <2>. QED  BY <1>0, <2>1, <2>2, <2>3 DEF Wine!Init, Wine!TypeOK
<1>4. Wine!LockInv
  BY <1>0, <1>2 DEF Wine!LockInv, Wine!Init, Wine!Helper, Wine!Running
<1>5. Wine!LocalsInv
  BY <1>2 DEF Wine!LocalsInv, Wine!Orderly, Wine!Helper
<1>6. \A c \in Calls, k \in Wine!Codes : ~Wine!Claims(c, k)
  BY <1>0, <1>2 DEF Wine!Claims, Wine!Codes
<1>7. Wine!PageInv
  BY <1>2, <1>6, Places DEF Wine!PageInv, Wine!OnServers, Wine!Helper
<1>8. Wine!ExactInv
  BY <1>2, <1>6, Places DEF Wine!ExactInv, Wine!Probed
<1>. QED  BY <1>3, <1>4, <1>5, <1>7, <1>8 DEF Wine!IInv

LEMMA WineStep == Wine!IInv /\ [Wine!Next]_(Wine!vars) => Wine!IInv'
BY WineTypeKeeps, LockKeeps, LocalsKeeps, PageKeeps, ExactKeeps DEF Wine!IInv

\* The lock and its helper, the page of servers and its one driver, and what a helper
\* that nobody disturbs has read: the inductive invariant of the discovery under Wine
\* (linux_wine_broker_discovery.py, wine_mt5_broker_discovery.py).
THEOREM WineInvariant == Wine!Spec => []Wine!IInv
BY WineInit, WineStep, PTL DEF Wine!Spec

\* A behaviour of the composition is one of the discovery.
LEMMA WineComposed == SpecOne => Wine!Spec
<1>1. InitOne => Wine!Init
  BY DEF InitOne
<1>2. [NextOne]_allVars => [Wine!Next]_(Wine!vars)
  BY DEF NextOne, OfWizard, OfWine, OfEndpoint, allVars, wineVars, Wine!vars
<1>. QED  BY <1>1, <1>2, PTL DEF SpecOne, Wine!Spec

\* FoundIsExact: whatever fails, hangs or is killed, a server that was found was on the
\* page when the wizard was cancelled, with no dialog and no helper left; and while the
\* list stands still and no launcher is killed, one row of its query shows it, a search
\* that found none looked at every row, and one helper drives the prefix.
THEOREM FoundSound == SpecOne => []FoundIsExact
<1>1. Wine!IInv => FoundIsExact
  <2>. SUFFICES ASSUME Wine!IInv
                PROVE  /\ Wine!TypeOK /\ Wine!FoundWasAccepted /\ Wine!FoundIsQuiet
                       /\ Wine!ExactOrNothing /\ Wine!OneDriver
    BY DEF FoundIsExact
  <2>. USE DEF Wine!IInv
  <2>1. \A c \in Calls, k \in {"ok", "no_exact_match"} :
          outcome[c] = k => Wine!Claims(c, k)
    BY DEF Wine!Claims
  <2>2. Wine!FoundWasAccepted
    BY <2>1 DEF Wine!FoundWasAccepted, Wine!PageInv, Wine!Exact
  <2>3. Wine!FoundIsQuiet
    BY <2>1 DEF Wine!FoundIsQuiet, Wine!PageInv, Wine!LocalsInv, Wine!Orderly,
       Wine!Helper, Wine!Running
  <2>4. Wine!ExactOrNothing
    BY <2>1 DEF Wine!ExactOrNothing, Wine!ExactInv
  <2>5. ASSUME Wine!NoneKilled
        PROVE  Wine!Cardinality({c \in Calls : Wine!Running(c)}) <= 1
    <3>. DEFINE S == {c \in Calls : Wine!Running(c)}
    <3>1. CASE S = {}
      BY <3>1, WineSets, FS_EmptySet
    <3>2. ASSUME NEW c \in S
          PROVE  Wine!Cardinality(S) <= 1
      <4>1. S = {c}
        BY <2>5, <3>2, OneRuns
      <4>. QED  BY <4>1, WineSets, FS_Singleton
    <3>. QED  BY <3>1, <3>2
  <2>. QED  BY <2>2, <2>3, <2>4, <2>5 DEF Wine!OneDriver
<1>. QED  BY <1>1, WineComposed, WineInvariant, PTL

-----------------------------------------------------------------------------
(* The census: the dialog and the helper.                                    *)

Locals == [at : HelperPlaces, term : 1 .. Terms, todo : SUBSET (Nat \ {0}),
           tested : SUBSET Brokers, again : BOOLEAN, index : Nat \ {0},
           label : Brokers \cup {None}, reason : Reasons, chosen : Brokers \cup {None}]

Dialog == [page : {"none", "brokers", "servers"}, list : Lists,
           row : Brokers \cup {None}, menu : Brokers \cup {None}]

\* A list of brokers is a sequence, and may be empty.
LEMMA CensusLists ==
  /\ <<>> \in Lists
  /\ \A l \in Lists : l \in Seq(Brokers) /\ DOMAIN l = 1 .. Len(l)
<1>1. Cardinality(Brokers) \in Nat
  BY DiscoveryAssumptions, FS_CardinalityType DEF DiscoveryAssumptions, WizardAssumption
<1>2. <<>> \in Lists
  <2>1. <<>> \in [1 .. 0 -> Brokers]
    OBVIOUS
  <2>2. <<>> \in UNION {[1 .. n -> Brokers] : n \in 0 .. Cardinality(Brokers)}
    BY <1>1, <2>1
  <2>3. IsInjective(<<>>)
    BY DEF IsInjective
  <2>. QED  BY <2>2, <2>3 DEF Lists
<1>3. ASSUME NEW l \in Lists
      PROVE  l \in Seq(Brokers) /\ DOMAIN l = 1 .. Len(l)
  <2>1. PICK n \in 0 .. Cardinality(Brokers) : l \in [1 .. n -> Brokers]
    BY DEF Lists
  <2>. QED  BY <1>1, <2>1
<1>. QED  BY <1>2, <1>3

LEMMA CensusTypes ==
  ASSUME TypeOK
  PROVE  /\ helper \in Locals /\ ui \in Dialog
         /\ Listed \in Seq(Brokers) /\ DOMAIN Listed = 1 .. Len(Listed)
         /\ ui.list \in Seq(Brokers) /\ DOMAIN ui.list = 1 .. Len(ui.list)
         /\ \A t \in 1 .. Terms : world.lists[t] \in Lists
         /\ None \notin Brokers /\ world.owners \subseteq Brokers
         /\ Terms \in Nat \ {0} /\ MaxResults \in Nat /\ MaxFaults \in Nat
         /\ MaxRebuilds \in Nat
BY CensusLists, DiscoveryAssumptions
   DEF DiscoveryAssumptions, WizardAssumption, TypeOK, Locals, Dialog, Listed

\* A label is that of the row, or nothing.
LEMMA LabelForms ==
  ASSUME NEW l \in Lists, NEW i
  PROVE  /\ Labels(l, i) \in Brokers \cup {None}
         /\ Labels(l, i) # None => i \in DOMAIN l /\ Labels(l, i) = l[i]
BY CensusLists DEF Labels

-----------------------------------------------------------------------------
(* What the steps of the helper make of its locals.                          *)

\* The helper goes on, with its term, rows, marks, row and label, or with others.
Has(p, t, todo, tested, i, label, r, b) ==
  /\ helper' \in Locals
  /\ helper'.at = p /\ helper'.term = t /\ helper'.todo = todo /\ helper'.tested = tested
  /\ helper'.index = i /\ helper'.label = label /\ helper'.reason = r
  /\ helper'.chosen = b

Goes(p) ==
  Has(p, helper.term, helper.todo, helper.tested, helper.index, helper.label,
      helper.reason, helper.chosen)

Falls(p, r) ==
  Has(p, helper.term, helper.todo, helper.tested, helper.index, helper.label,
      r, helper.chosen)

LEMMA CensusPlaces ==
  /\ {"read", "launch", "attach", "open", "search", "row", "click", "next", "servers",
      "back", "choose", "close", "write", "exited", "killed"} \subseteq HelperPlaces
  /\ {"terminal_start_failed", "terminal_process_ambiguous", "wizard_not_found",
      "driver_failure", "server_not_found", "timeout", "cleanup_failed"} \subseteq Reasons
BY DEF HelperPlaces, Reasons, Failures

LEMMA CensusGo ==
  ASSUME TypeOK, NEW p \in HelperPlaces
  PROVE  /\ Go(p) => Goes(p)
         /\ \A r \in Reasons :
              helper' = [helper EXCEPT !.at = p, !.reason = r] => Falls(p, r)
BY CensusTypes DEF Go, Goes, Falls, Has, Locals

LEMMA CensusFail ==
  ASSUME TypeOK, NEW r \in Reasons, Fail(r)
  PROVE  Falls("close", r)
BY CensusGo, CensusPlaces DEF Fail

LEMMA CensusMarks ==
  ASSUME TypeOK, NEW todo \in SUBSET (Nat \ {0}), NEW tested \in SUBSET Brokers,
         NEW again \in BOOLEAN,
         helper' = [helper EXCEPT !.at = "row", !.todo = todo, !.tested = tested,
                                  !.again = again]
  PROVE  Has("row", helper.term, todo, tested, helper.index, helper.label,
             helper.reason, helper.chosen)
BY CensusTypes, CensusPlaces DEF Has, Locals

LEMMA CensusPick ==
  ASSUME TypeOK, NEW i \in Nat \ {0}, NEW todo \in SUBSET (Nat \ {0}),
         NEW l \in Brokers \cup {None},
         helper' = [helper EXCEPT !.at = "click", !.index = i, !.todo = todo, !.label = l]
  PROVE  Has("click", helper.term, todo, helper.tested, i, l, helper.reason, helper.chosen)
BY CensusTypes, CensusPlaces DEF Has, Locals

LEMMA CensusTerm ==
  ASSUME TypeOK, NEW t \in 1 .. Terms,
         helper' = [helper EXCEPT !.at = "search", !.term = t]
  PROVE  Has("search", t, helper.todo, helper.tested, helper.index, helper.label,
             helper.reason, helper.chosen)
BY CensusTypes, CensusPlaces DEF Has, Locals

LEMMA CensusChosen ==
  ASSUME TypeOK, NEW b \in Brokers \cup {None},
         helper' = [helper EXCEPT !.at = "close", !.chosen = b]
  PROVE  Has("close", helper.term, helper.todo, helper.tested, helper.index, helper.label,
             helper.reason, b)
BY CensusTypes, CensusPlaces DEF Has, Locals

\* The dialog shows a page, a list, a selected row and a menu.
Displays(page, list, row, menu) ==
  /\ ui' \in Dialog
  /\ ui'.page = page /\ ui'.list = list /\ ui'.row = row /\ ui'.menu = menu

Searches == Displays("brokers", Listed, None, None)

LEMMA CensusDialog ==
  ASSUME TypeOK
  PROVE  /\ ui' = Searched(helper.term) => Searches
         /\ ui' = [ui EXCEPT !.page = "brokers"]
              => Displays("brokers", ui.list, ui.row, ui.menu)
         /\ \A b \in Brokers : ui' = [ui EXCEPT !.row = b]
              => Displays(ui.page, ui.list, b, ui.menu)
         /\ ui' = [ui EXCEPT !.page = "servers", !.menu = ui.row]
              => Displays("servers", ui.list, ui.row, ui.row)
         /\ ui' = [ui EXCEPT !.page = "brokers", !.menu = None]
              => Displays("brokers", ui.list, ui.row, None)
         /\ ui' = [ui EXCEPT !.page = "none", !.row = None, !.menu = None]
              => Displays("none", ui.list, None, None)
         /\ \A l \in Lists : ui' = [ui EXCEPT !.list = l, !.row = None]
              => Displays(ui.page, l, None, ui.menu)
<1>1. Listed \in Lists
  BY DEF TypeOK, Listed
<1>2. ui' = Searched(helper.term) => Searches
  <2>1. Searched(helper.term) =
          [page |-> "brokers", list |-> Listed, row |-> None, menu |-> None]
    BY DEF Searched, Listed
  <2>. QED  BY <1>1, <2>1 DEF Searches, Displays, Dialog
<1>3. ui \in Dialog
  BY CensusTypes
<1>. QED  BY <1>2, <1>3 DEF Displays, Dialog

\* The budget of faults, spent or not.
Pays ==
  /\ budget' \in [faults : 0 .. MaxFaults, rebuilds : 0 .. MaxRebuilds]
  /\ budget'.rebuilds = budget.rebuilds
  /\ budget'.faults = budget.faults - 1

LEMMA CensusFault ==
  ASSUME TypeOK
  PROVE  Fault => Pays
<1>1. /\ budget \in [faults : 0 .. MaxFaults, rebuilds : 0 .. MaxRebuilds]
      /\ MaxFaults \in Nat
  BY CensusTypes DEF TypeOK
<1>. QED  BY <1>1 DEF Fault, Pays

AtOnce == UNCHANGED <<world, service, request>>

LEMMA EarlyEffect ==
  ASSUME TypeOK
  PROVE  /\ HelperRead => /\ helper.at = "read" /\ AtOnce
                          /\ UNCHANGED <<ui, terminal, budget, result>>
                          /\ Goes("launch") \/ Goes("exited")
         /\ HelperLaunch => /\ helper.at = "launch" /\ AtOnce /\ UNCHANGED <<ui, result>>
                            /\ terminal' \in BOOLEAN
                            /\ \/ Goes("attach") /\ UNCHANGED budget
                               \/ Goes("exited") /\ Pays
         /\ HelperAttach => /\ helper.at = "attach" /\ AtOnce
                            /\ UNCHANGED <<ui, terminal, result>>
                            /\ \/ Goes("open") /\ UNCHANGED budget
                               \/ Pays /\ \E r \in Reasons \ {None, "server_not_found"} :
                                            Falls("close", r)
         /\ HelperOpen => /\ helper.at = "open" /\ AtOnce /\ UNCHANGED <<terminal, result>>
                          /\ \/ /\ Displays("brokers", ui.list, ui.row, ui.menu)
                                /\ Goes("search") /\ UNCHANGED budget
                             \/ /\ Pays /\ ui' = ui
                                /\ Falls("close", "wizard_not_found")
<1>. USE DEF AtOnce, HelperOnly, Helper
<1>0. None \notin {"terminal_start_failed", "terminal_process_ambiguous",
                   "wizard_not_found", "driver_failure", "server_not_found", "timeout",
                   "cleanup_failed"}
  BY DiscoveryAssumptions DEF DiscoveryAssumptions, WizardAssumption, Failures
<1>1. ASSUME HelperRead
      PROVE  Goes("launch") \/ Goes("exited")
  BY <1>1, CensusGo, CensusPlaces DEF HelperRead
<1>2. ASSUME HelperLaunch
      PROVE  \/ Goes("attach") /\ UNCHANGED budget
             \/ Goes("exited") /\ Pays
  BY <1>2, CensusGo, CensusPlaces, CensusFault DEF HelperLaunch
<1>3. ASSUME HelperAttach
      PROVE  \/ Goes("open") /\ UNCHANGED budget
             \/ Pays /\ \E r \in Reasons \ {None, "server_not_found"} : Falls("close", r)
  BY <1>0, <1>3, CensusGo, CensusFail, CensusPlaces, CensusFault DEF HelperAttach
<1>4. ASSUME HelperOpen
      PROVE  \/ /\ Displays("brokers", ui.list, ui.row, ui.menu)
                /\ Goes("search") /\ UNCHANGED budget
             \/ Pays /\ ui' = ui /\ Falls("close", "wizard_not_found")
  BY <1>4, CensusGo, CensusFail, CensusPlaces, CensusFault, CensusDialog DEF HelperOpen
<1>5. HelperRead => /\ helper.at = "read" /\ AtOnce
                    /\ UNCHANGED <<ui, terminal, budget, result>>
  BY DEF HelperRead
<1>6. HelperLaunch => /\ helper.at = "launch" /\ AtOnce /\ UNCHANGED <<ui, result>>
                      /\ terminal' \in BOOLEAN
  BY DEF HelperLaunch, TypeOK
<1>7. HelperAttach => /\ helper.at = "attach" /\ AtOnce
                      /\ UNCHANGED <<ui, terminal, result>>
  BY DEF HelperAttach
<1>8. HelperOpen => helper.at = "open" /\ AtOnce /\ UNCHANGED <<terminal, result>>
  BY DEF HelperOpen
<1>. QED  BY <1>1, <1>2, <1>3, <1>4, <1>5, <1>6, <1>7, <1>8

\* The rows a search leaves to open, and what it marks as tested.
Fresh == {i \in DOMAIN Listed : i <= MaxResults /\ Labels(Listed, i) \notin helper.tested}

Marks == {Labels(Listed, i) : i \in Fresh} \ {None}

LEMMA CensusSearch ==
  ASSUME TypeOK, HelperSearch
  PROVE  /\ helper.at = "search" /\ AtOnce /\ UNCHANGED <<terminal, result>>
         /\ \/ /\ Searches /\ UNCHANGED budget
               /\ Has("row", helper.term, Fresh, helper.tested \cup Marks, helper.index,
                      helper.label, helper.reason, helper.chosen)
            \/ Pays /\ ui' = ui /\ Falls("close", "driver_failure")
<1>1. helper.at = "search" /\ AtOnce /\ UNCHANGED <<terminal, result>>
  BY DEF HelperSearch, HelperOnly, AtOnce, Helper
<1>2. Listed \in Lists /\ Searched(helper.term).list = Listed
  BY DEF TypeOK, Listed, Searched
<1>3. Unread(Searched(helper.term).list) = Fresh
  BY <1>2 DEF Unread, Fresh
<1>4. Fresh \in SUBSET (Nat \ {0}) /\ Marks \in SUBSET Brokers
  BY <1>2, CensusTypes, LabelForms DEF Fresh, Marks
<1>5. CASE /\ ui' = Searched(helper.term)
           /\ \E again \in BOOLEAN :
                helper' = [helper EXCEPT !.at = "row", !.todo = Fresh,
                             !.tested = helper.tested \cup Marks, !.again = again]
           /\ UNCHANGED budget
  <2>1. helper.tested \cup Marks \in SUBSET Brokers
    BY <1>4, CensusTypes DEF Locals
  <2>. QED  BY <1>1, <1>4, <1>5, <2>1, CensusMarks, CensusDialog
<1>6. CASE Fault /\ Fail("driver_failure") /\ UNCHANGED ui
  BY <1>1, <1>6, CensusFault, CensusFail, CensusPlaces
<1>7. \/ /\ ui' = Searched(helper.term)
         /\ helper' = [helper EXCEPT !.at = "row", !.todo = Fresh,
                         !.tested = @ \cup Marks,
                         !.again = @ /\ None \notin {Labels(Listed, i) : i \in Fresh}]
         /\ UNCHANGED budget
      \/ Fault /\ Fail("driver_failure") /\ UNCHANGED ui
  BY <1>2, <1>3 DEF HelperSearch, Marks
<1>8. (helper.again /\ None \notin {Labels(Listed, i) : i \in Fresh}) \in BOOLEAN
  OBVIOUS
<1>9. helper' = [helper EXCEPT !.at = "row", !.todo = Fresh, !.tested = @ \cup Marks,
                       !.again = @ /\ None \notin {Labels(Listed, i) : i \in Fresh}]
        => \E again \in BOOLEAN :
             helper' = [helper EXCEPT !.at = "row", !.todo = Fresh,
                          !.tested = helper.tested \cup Marks, !.again = again]
  BY <1>8, CensusTypes DEF Locals
<1>. QED  BY <1>5, <1>6, <1>7, <1>9

LEMMA CensusRow ==
  ASSUME TypeOK, HelperRow
  PROVE  /\ helper.at = "row" /\ AtOnce /\ UNCHANGED <<ui, terminal, result>>
         /\ \/ /\ UNCHANGED budget
               /\ \E i \in helper.todo :
                    Has("click", helper.term, helper.todo \ {i}, helper.tested, i,
                        Labels(ui.list, i), helper.reason, helper.chosen)
            \/ Pays /\ \E r \in {"timeout", "driver_failure"} : Falls("close", r)
            \/ /\ helper.todo = {} /\ helper.term < Terms /\ UNCHANGED budget
               /\ Has("search", helper.term + 1, helper.todo, helper.tested, helper.index,
                      helper.label, helper.reason, helper.chosen)
            \/ helper.todo = {} /\ UNCHANGED budget /\ Falls("close", "server_not_found")
<1>1. helper.at = "row" /\ AtOnce /\ UNCHANGED <<ui, terminal, result>>
  BY DEF HelperRow, HelperOnly, AtOnce, Helper
<1>2. ASSUME NEW i \in helper.todo,
             helper' = [helper EXCEPT !.at = "click", !.index = i, !.todo = @ \ {i},
                                      !.label = Labels(ui.list, i)]
      PROVE  Has("click", helper.term, helper.todo \ {i}, helper.tested, i,
                 Labels(ui.list, i), helper.reason, helper.chosen)
  <2>1. Labels(ui.list, i) \in Brokers \cup {None}
    BY LabelForms DEF TypeOK
  <2>2. i \in Nat \ {0} /\ helper.todo \ {i} \in SUBSET (Nat \ {0})
    BY CensusTypes DEF Locals
  <2>3. helper' = [helper EXCEPT !.at = "click", !.index = i, !.todo = helper.todo \ {i},
                                 !.label = Labels(ui.list, i)]
    BY <1>2, CensusTypes DEF Locals
  <2>. QED  BY <2>1, <2>2, <2>3, CensusPick
<1>3. CASE Fault /\ \E r \in {"timeout", "driver_failure"} : Fail(r)
  BY <1>1, <1>3, CensusFault, CensusFail, CensusPlaces
<1>4. CASE /\ helper.todo = {} /\ helper.term < Terms /\ UNCHANGED budget
           /\ helper' = [helper EXCEPT !.at = "search", !.term = @ + 1]
  <2>1. helper.term + 1 \in 1 .. Terms
    BY <1>4, CensusTypes DEF Locals
  <2>2. helper' = [helper EXCEPT !.at = "search", !.term = helper.term + 1]
    BY <1>4, CensusTypes DEF Locals
  <2>. QED  BY <1>1, <1>4, <2>1, <2>2, CensusTerm
<1>5. CASE helper.todo = {} /\ UNCHANGED budget /\ Fail("server_not_found")
  BY <1>1, <1>5, CensusFail, CensusPlaces
<1>. QED  BY <1>1, <1>2, <1>3, <1>4, <1>5 DEF HelperRow

LEMMA CensusClick ==
  ASSUME TypeOK, HelperClick
  PROVE  /\ helper.at = "click" /\ AtOnce /\ UNCHANGED <<terminal, result>>
         /\ \/ /\ helper.index \in DOMAIN ui.list /\ UNCHANGED budget
               /\ Displays(ui.page, ui.list, ui.list[helper.index], ui.menu)
               /\ Goes("next")
            \/ helper.index \in DOMAIN ui.list /\ Pays /\ ui' = ui /\ Goes("next")
            \/ /\ UNCHANGED budget \/ Pays
               /\ ui' = ui /\ Falls("close", "driver_failure")
<1>1. helper.at = "click" /\ AtOnce /\ UNCHANGED <<terminal, result>>
  BY DEF HelperClick, HelperOnly, AtOnce, Helper
<1>2. helper.index \in DOMAIN ui.list => ui.list[helper.index] \in Brokers
  BY CensusTypes
<1>3. CASE /\ helper.index \in DOMAIN ui.list /\ UNCHANGED budget
           /\ ui' = [ui EXCEPT !.row = ui.list[helper.index]] /\ Go("next")
  BY <1>1, <1>2, <1>3, CensusDialog, CensusGo, CensusPlaces
<1>4. CASE helper.index \in DOMAIN ui.list /\ Fault /\ Go("next") /\ UNCHANGED ui
  BY <1>1, <1>4, CensusFault, CensusGo, CensusPlaces
<1>5. CASE Fail("driver_failure") /\ UNCHANGED ui /\ (UNCHANGED budget \/ Fault)
  BY <1>1, <1>5, CensusFault, CensusFail, CensusPlaces
<1>. QED  BY <1>3, <1>4, <1>5 DEF HelperClick

LEMMA CensusNext ==
  ASSUME TypeOK, HelperNext
  PROVE  /\ helper.at = "next" /\ AtOnce /\ UNCHANGED <<terminal, result>>
         /\ \/ /\ ui.row # None /\ UNCHANGED budget
               /\ Displays("servers", ui.list, ui.row, ui.row) /\ Goes("servers")
            \/ /\ ui.row = None /\ UNCHANGED budget
               /\ ui' = ui \/ Searches
               /\ Goes("row")
            \/ /\ Pays
               /\ ui' = ui \/ Searches
               /\ Goes("row")
            \/ Pays /\ ui' = ui /\ Falls("close", "driver_failure")
<1>1. helper.at = "next" /\ AtOnce /\ UNCHANGED <<terminal, result>>
  BY DEF HelperNext, HelperOnly, AtOnce, Helper
<1>2. CASE /\ ui.row # None /\ UNCHANGED budget /\ Go("servers")
           /\ ui' = [ui EXCEPT !.page = "servers", !.menu = ui.row]
  BY <1>1, <1>2, CensusDialog, CensusGo, CensusPlaces
<1>3. CASE ui.row = None /\ UNCHANGED budget /\ Resume
  BY <1>1, <1>3, CensusDialog, CensusGo, CensusPlaces DEF Resume
<1>4. CASE Fault /\ Resume
  BY <1>1, <1>4, CensusFault, CensusDialog, CensusGo, CensusPlaces DEF Resume
<1>5. CASE Fault /\ Fail("driver_failure") /\ UNCHANGED ui
  BY <1>1, <1>5, CensusFault, CensusFail, CensusPlaces
<1>. QED  BY <1>2, <1>3, <1>4, <1>5 DEF HelperNext

LEMMA CensusServers ==
  ASSUME TypeOK, HelperServers
  PROVE  /\ helper.at = "servers" /\ AtOnce /\ UNCHANGED <<ui, terminal, result>>
         /\ \/ ui.menu \in world.owners /\ UNCHANGED budget /\ Goes("choose")
            \/ ui.menu \notin world.owners /\ UNCHANGED budget /\ Goes("back")
            \/ Pays /\ (Goes("back") \/ Falls("close", "driver_failure"))
<1>1. helper.at = "servers" /\ AtOnce /\ UNCHANGED <<ui, terminal, result>>
  BY DEF HelperServers, HelperOnly, AtOnce, Helper
<1>. QED
  BY <1>1, CensusFault, CensusGo, CensusFail, CensusPlaces DEF HelperServers, Serves

LEMMA CensusBack ==
  ASSUME TypeOK, HelperBack
  PROVE  /\ helper.at = "back" /\ AtOnce /\ UNCHANGED <<terminal, result>>
         /\ \/ /\ UNCHANGED budget /\ Goes("row")
               /\ Displays("brokers", ui.list, ui.row, None) \/ Searches
            \/ Pays /\ ui' = ui /\ Falls("close", "driver_failure")
<1>1. helper.at = "back" /\ AtOnce /\ UNCHANGED <<terminal, result>>
  BY DEF HelperBack, HelperOnly, AtOnce, Helper
<1>. QED
  BY <1>1, CensusFault, CensusGo, CensusFail, CensusPlaces, CensusDialog DEF HelperBack

LEMMA CensusChoose ==
  ASSUME TypeOK, HelperChoose
  PROVE  /\ helper.at = "choose" /\ AtOnce /\ UNCHANGED <<ui, terminal, result, budget>>
         /\ \/ Falls("close", "driver_failure")
            \/ /\ helper.label # None
               /\ Has("close", helper.term, helper.todo, helper.tested, helper.index,
                      helper.label, helper.reason, helper.label)
<1>1. helper.at = "choose" /\ AtOnce /\ UNCHANGED <<ui, terminal, result, budget>>
  BY DEF HelperChoose, HelperOnly, AtOnce, Helper
<1>2. CASE helper.label = None /\ Fail("driver_failure")
  BY <1>1, <1>2, CensusFail, CensusPlaces
<1>3. CASE /\ helper.label # None
           /\ helper' = [helper EXCEPT !.at = "close", !.chosen = helper.label]
  <2>1. helper.label \in Brokers \cup {None}
    BY CensusTypes DEF Locals
  <2>. QED  BY <1>1, <1>3, <2>1, CensusChosen
<1>. QED  BY <1>2, <1>3 DEF HelperChoose

LEMMA CensusClose ==
  ASSUME TypeOK, HelperClose
  PROVE  /\ helper.at = "close" /\ AtOnce /\ UNCHANGED result
         /\ Displays("none", ui.list, None, None) /\ terminal' \in BOOLEAN
         /\ \/ Goes("write") /\ UNCHANGED budget
            \/ Pays /\ Falls("write", "cleanup_failed")
<1>1. /\ helper.at = "close" /\ AtOnce /\ UNCHANGED result /\ terminal' \in BOOLEAN
      /\ Displays("none", ui.list, None, None)
  BY CensusDialog DEF HelperClose, HelperOnly, AtOnce, Helper, TypeOK
<1>. QED
  BY <1>1, CensusFault, CensusGo, CensusPlaces DEF HelperClose

LEMMA CensusWrite ==
  ASSUME TypeOK, HelperWrite
  PROVE  /\ helper.at = "write" /\ AtOnce /\ UNCHANGED <<ui, terminal>>
         /\ Goes("exited")
         /\ \/ /\ UNCHANGED budget
               /\ result' = [reason |-> helper.reason,
                             label |-> IF helper.reason = None THEN helper.chosen ELSE None]
            \/ Pays /\ UNCHANGED result
BY CensusFault, CensusGo, CensusPlaces DEF HelperWrite, AtOnce, Helper

\* The service leaves the helper alone, but for the run and the end of its task.
LEMMA ServiceShape ==
  ASSUME TypeOK, ServiceStep \/ SvcLate \/ SvcCancel
  PROVE  /\ UNCHANGED <<world, ui, result>>
         /\ budget' = budget \/ Pays
         /\ \/ UNCHANGED helper
            \/ SvcRun /\ Goes("read")
            \/ /\ SvcEnd /\ EndKills /\ helper.at \notin {"unborn", "exited"}
               /\ Goes("killed")
<1>1. UNCHANGED <<world, ui, result>>
  BY DEF ServiceStep, SvcRequest, SvcGrant, SvcCreate, SvcRun, SvcLoad, SvcTimeout,
     SvcEnd, SvcDelete, SvcTerminal, SvcFiles, SvcLate, SvcCancel, ServiceOnly
<1>2. budget' = budget \/ Fault
  BY DEF ServiceStep, SvcRequest, SvcGrant, SvcCreate, SvcRun, SvcLoad, SvcTimeout,
     SvcEnd, SvcDelete, SvcTerminal, SvcFiles, SvcLate, SvcCancel
<1>3. \/ UNCHANGED helper
      \/ SvcRun /\ Go("read")
      \/ SvcEnd /\ EndKills /\ helper.at \notin {"unborn", "exited"} /\ Go("killed")
  BY DEF ServiceStep, SvcRequest, SvcGrant, SvcCreate, SvcRun, SvcLoad, SvcTimeout,
     SvcEnd, SvcDelete, SvcTerminal, SvcFiles, SvcLate, SvcCancel
<1>. QED  BY <1>1, <1>2, <1>3, CensusFault, CensusGo, CensusPlaces

-----------------------------------------------------------------------------
(* The parts of the invariant of the census, step by step.                   *)

Waiting == [at : ServicePlaces, task : BOOLEAN, reason : Reasons,
            outcome : {"none", "evidence", "failed", "cancelled", "unclean"}]

\* What an update of the service's locals makes of them.
LEMMA ServiceUpdates ==
  ASSUME TypeOK, NEW p \in ServicePlaces
  PROVE  /\ Move(p) => /\ service' \in Waiting /\ service'.at = p
                       /\ service'.task = service.task
                       /\ service'.outcome = service.outcome
         /\ \A t \in BOOLEAN : service' = [service EXCEPT !.at = p, !.task = t] =>
              /\ service' \in Waiting /\ service'.at = p /\ service'.task = t
              /\ service'.outcome = service.outcome
         /\ service' = [service EXCEPT !.at = p, !.outcome = "unclean"] =>
              /\ service' \in Waiting /\ service'.at = p /\ service'.task = service.task
              /\ service'.outcome = "unclean"
         /\ \A r \in Reasons :
              service' = [service EXCEPT !.at = p, !.outcome = "unclean", !.reason = r] =>
                /\ service' \in Waiting /\ service'.at = p /\ service'.task = service.task
                /\ service'.outcome = "unclean"
         /\ service' = [service EXCEPT !.at = p, !.outcome = "failed"] =>
              /\ service' \in Waiting /\ service'.at = p /\ service'.task = service.task
              /\ service'.outcome = "failed"
         /\ \A r \in Reasons, o \in {"evidence", "failed", "cancelled"} :
              service' = [service EXCEPT !.at = p, !.outcome = o, !.reason = r] =>
                /\ service' \in Waiting /\ service'.at = p /\ service'.task = service.task
                /\ service'.outcome = o
<1>0. service \in Waiting
  BY DEF TypeOK, Waiting
<1>1. Move(p) => /\ service' \in Waiting /\ service'.at = p
                 /\ service'.task = service.task
                 /\ service'.outcome = service.outcome
  BY <1>0 DEF Waiting, Move
<1>2. \A t \in BOOLEAN : service' = [service EXCEPT !.at = p, !.task = t] =>
        /\ service' \in Waiting /\ service'.at = p /\ service'.task = t
        /\ service'.outcome = service.outcome
  BY <1>0 DEF Waiting
<1>3. service' = [service EXCEPT !.at = p, !.outcome = "unclean"] =>
        /\ service' \in Waiting /\ service'.at = p /\ service'.task = service.task
        /\ service'.outcome = "unclean"
  BY <1>0 DEF Waiting
<1>4. \A r \in Reasons :
        service' = [service EXCEPT !.at = p, !.outcome = "unclean", !.reason = r] =>
          /\ service' \in Waiting /\ service'.at = p /\ service'.task = service.task
          /\ service'.outcome = "unclean"
  BY <1>0 DEF Waiting
<1>5. \A r \in Reasons, o \in {"evidence", "failed", "cancelled"} :
        service' = [service EXCEPT !.at = p, !.outcome = o, !.reason = r] =>
          /\ service' \in Waiting /\ service'.at = p /\ service'.task = service.task
          /\ service'.outcome = o
  BY <1>0 DEF Waiting
<1>6. service' = [service EXCEPT !.at = p, !.outcome = "failed"] =>
        /\ service' \in Waiting /\ service'.at = p /\ service'.task = service.task
        /\ service'.outcome = "failed"
  BY <1>0 DEF Waiting
<1>. QED  BY <1>1, <1>2, <1>3, <1>4, <1>5, <1>6

\* What each step of the service does.
LEMMA ServiceForms ==
  ASSUME TypeOK
  PROVE  /\ SvcRequest => /\ service.at = "request" /\ service' \in Waiting
                          /\ service'.task = service.task /\ UNCHANGED terminal
                          /\ request' \in BOOLEAN
                          /\ \/ /\ service'.at = "grant"
                                /\ service'.outcome = service.outcome
                             \/ service'.at = "done" /\ service'.outcome = "failed"
         /\ SvcGrant => /\ service.at = "grant" /\ service' \in Waiting
                        /\ service'.task = service.task /\ UNCHANGED <<terminal, request>>
                        /\ \/ service'.at = "create" /\ service'.outcome = service.outcome
                           \/ service'.at = "end" /\ service'.outcome = "failed"
         /\ SvcCreate => /\ service.at = "create" /\ service' \in Waiting
                         /\ UNCHANGED <<terminal, request>>
                         /\ \/ /\ service'.at = "run" /\ service'.task
                               /\ service'.outcome = service.outcome
                            \/ /\ service'.at = "end" /\ service'.task = service.task
                               /\ service'.outcome = "failed"
         /\ SvcRun => /\ service.at = "run" /\ service' \in Waiting
                      /\ service'.task = service.task /\ UNCHANGED <<terminal, request>>
                      /\ \/ service'.at = "poll" /\ service'.outcome = service.outcome
                         \/ /\ service'.at = "end" /\ service'.outcome = "failed"
                            /\ UNCHANGED helper
<1>0. /\ {"grant", "create", "run", "poll", "end", "done"} \subseteq ServicePlaces
      /\ None \in Reasons
  BY DEF ServicePlaces, Reasons
<1>. USE DEF Service
<1>1. ASSUME SvcRequest
      PROVE  /\ service.at = "request" /\ service' \in Waiting
             /\ service'.task = service.task /\ UNCHANGED terminal
             /\ request' \in BOOLEAN
             /\ \/ service'.at = "grant" /\ service'.outcome = service.outcome
                \/ service'.at = "done" /\ service'.outcome = "failed"
  BY <1>0, <1>1, ServiceUpdates DEF SvcRequest
<1>2. ASSUME SvcGrant
      PROVE  /\ service.at = "grant" /\ service' \in Waiting
             /\ service'.task = service.task /\ UNCHANGED <<terminal, request>>
             /\ \/ service'.at = "create" /\ service'.outcome = service.outcome
                \/ service'.at = "end" /\ service'.outcome = "failed"
  BY <1>0, <1>2, ServiceUpdates DEF SvcGrant, Raise
<1>3. ASSUME SvcCreate
      PROVE  /\ service.at = "create" /\ service' \in Waiting
             /\ UNCHANGED <<terminal, request>>
             /\ \/ /\ service'.at = "run" /\ service'.task
                   /\ service'.outcome = service.outcome
                \/ /\ service'.at = "end" /\ service'.task = service.task
                   /\ service'.outcome = "failed"
  BY <1>0, <1>3, ServiceUpdates DEF SvcCreate, Raise
<1>4. ASSUME SvcRun
      PROVE  /\ service.at = "run" /\ service' \in Waiting
             /\ service'.task = service.task /\ UNCHANGED <<terminal, request>>
             /\ \/ service'.at = "poll" /\ service'.outcome = service.outcome
                \/ /\ service'.at = "end" /\ service'.outcome = "failed"
                   /\ UNCHANGED helper
  BY <1>0, <1>4, ServiceUpdates DEF SvcRun, Raise
<1>. QED  BY <1>1, <1>2, <1>3, <1>4

Polls == SvcLoad \/ SvcTimeout \/ SvcLate \/ SvcCancel

LEMMA PollForms ==
  ASSUME TypeOK, Polls
  PROVE  /\ service.at = "poll" /\ service' \in Waiting /\ service'.at = "end"
         /\ service'.task = service.task
         /\ UNCHANGED <<helper, terminal, request, result>>
         /\ service'.outcome # "unclean"
         /\ service'.outcome = "evidence" => result # None /\ result.reason = None
<1>0. "end" \in ServicePlaces /\ None \in Reasons /\ "timeout" \in Reasons
      /\ (result # None => result.reason \in Reasons)
  BY DEF ServicePlaces, Reasons, Failures, TypeOK, Results
<1>. USE DEF Service, Raise
<1>1. CASE SvcLoad
  BY <1>0, <1>1, ServiceUpdates DEF SvcLoad
<1>2. CASE SvcTimeout
  BY <1>0, <1>2, ServiceUpdates DEF SvcTimeout
<1>3. CASE SvcLate
  BY <1>0, <1>3, ServiceUpdates DEF SvcLate
<1>4. CASE SvcCancel
  BY <1>0, <1>4, ServiceUpdates DEF SvcCancel
<1>. QED  BY <1>1, <1>2, <1>3, <1>4 DEF Polls

LEMMA FinallyForms ==
  ASSUME TypeOK
  PROVE  /\ SvcEnd => /\ service.at = "end" /\ service' \in Waiting
                      /\ service'.at = IF service.task THEN "delete" ELSE "terminal"
                      /\ service'.task = service.task
                      /\ service'.outcome = service.outcome
                      /\ UNCHANGED <<terminal, request>>
                      /\ service.task /\ EndKills /\ helper.at \notin {"unborn", "exited"}
                           => helper'.at = "killed"
         /\ SvcDelete => /\ service.at = "delete" /\ service' \in Waiting
                         /\ service'.at = "terminal" /\ UNCHANGED <<terminal, request>>
                         /\ \/ ~service'.task /\ service'.outcome = service.outcome
                            \/ service'.outcome = "unclean"
         /\ SvcTerminal => /\ service.at = "terminal" /\ service' \in Waiting
                           /\ service'.at = "files" /\ service'.task = service.task
                           /\ UNCHANGED request /\ terminal' \in BOOLEAN
                           /\ \/ ~terminal' /\ service'.outcome = service.outcome
                              \/ UNCHANGED terminal /\ service'.outcome = "unclean"
         /\ SvcFiles => /\ service.at = "files" /\ service' \in Waiting
                        /\ service'.at = "done" /\ service'.task = service.task
                        /\ service'.outcome \in {service.outcome, "unclean"}
                        /\ UNCHANGED terminal /\ request' \in {request, FALSE}
<1>0. /\ {"delete", "terminal", "files", "done"} \subseteq ServicePlaces
      /\ "cleanup_failed" \in Reasons
  BY DEF ServicePlaces, Reasons, Failures
<1>. USE DEF Service
<1>1. ASSUME SvcEnd
      PROVE  /\ service.at = "end" /\ service' \in Waiting
             /\ service'.at = IF service.task THEN "delete" ELSE "terminal"
             /\ service'.task = service.task
             /\ service'.outcome = service.outcome
             /\ UNCHANGED <<terminal, request>>
  BY <1>0, <1>1, ServiceUpdates DEF SvcEnd
<1>2. ASSUME SvcEnd, service.task, EndKills, helper.at \notin {"unborn", "exited"}
      PROVE  helper'.at = "killed"
  BY <1>2, CensusGo, CensusPlaces DEF SvcEnd, Goes, Has
<1>3. ASSUME SvcDelete
      PROVE  /\ service.at = "delete" /\ service' \in Waiting
             /\ service'.at = "terminal" /\ UNCHANGED <<terminal, request>>
             /\ \/ ~service'.task /\ service'.outcome = service.outcome
                \/ service'.outcome = "unclean"
  BY <1>0, <1>3, ServiceUpdates DEF SvcDelete
<1>4. ASSUME SvcTerminal
      PROVE  /\ service.at = "terminal" /\ service' \in Waiting
             /\ service'.at = "files" /\ service'.task = service.task
             /\ UNCHANGED request /\ terminal' \in BOOLEAN
             /\ \/ ~terminal' /\ service'.outcome = service.outcome
                \/ UNCHANGED terminal /\ service'.outcome = "unclean"
  <2>1. terminal \in BOOLEAN
    BY DEF TypeOK
  <2>2. CASE terminal' = FALSE /\ Move("files")
    BY <1>0, <1>4, <2>2, ServiceUpdates DEF SvcTerminal
  <2>3. CASE /\ service' = [service EXCEPT !.at = "files", !.outcome = "unclean",
                                           !.reason = "cleanup_failed"]
             /\ UNCHANGED terminal
    BY <1>0, <1>4, <2>1, <2>3, ServiceUpdates DEF SvcTerminal
  <2>. QED  BY <1>4, <2>2, <2>3 DEF SvcTerminal
<1>5. ASSUME SvcFiles
      PROVE  /\ service.at = "files" /\ service' \in Waiting
             /\ service'.at = "done" /\ service'.task = service.task
             /\ service'.outcome \in {service.outcome, "unclean"}
             /\ UNCHANGED terminal /\ request' \in {request, FALSE}
  BY <1>0, <1>5, ServiceUpdates DEF SvcFiles
<1>. QED  BY <1>1, <1>2, <1>3, <1>4, <1>5

LEMMA CensusRebuild ==
  ASSUME TypeOK, Rebuild
  PROVE  /\ UNCHANGED <<world, terminal, helper, result, service, request>>
         /\ ui' \in Dialog /\ budget'.rebuilds = budget.rebuilds - 1
         /\ budget' \in [faults : 0 .. MaxFaults, rebuilds : 0 .. MaxRebuilds]
         /\ budget.rebuilds <= MaxRebuilds
<1>1. /\ budget' \in [faults : 0 .. MaxFaults, rebuilds : 0 .. MaxRebuilds]
      /\ budget'.rebuilds = budget.rebuilds - 1 /\ budget.rebuilds <= MaxRebuilds
  <2>1. budget \in [faults : 0 .. MaxFaults, rebuilds : 0 .. MaxRebuilds]
    BY DEF TypeOK
  <2>2. budget.rebuilds > 0 /\ budget' = [budget EXCEPT !.rebuilds = @ - 1]
    BY DEF Rebuild
  <2>. QED  BY <2>1, <2>2, CensusTypes
<1>2. PICK l \in Lists : ui' = [ui EXCEPT !.list = l, !.row = None]
  BY DEF Rebuild
<1>. QED  BY <1>1, <1>2, CensusDialog DEF Rebuild, Displays

\* Every step of the helper starts and ends at a place of a helper that runs, or ends.
LEMMA CensusShape ==
  ASSUME TypeOK, HelperStep
  PROVE  /\ AtOnce /\ helper' \in Locals /\ ui' \in Dialog
         /\ terminal' \in BOOLEAN /\ result' \in Results \cup {None}
         /\ budget' = budget \/ Pays
         /\ helper.at \notin {"unborn", "exited", "killed"} /\ helper'.at # "unborn"
         /\ result' # result => helper'.at = "exited"
         /\ helper'.reason # None => helper.reason # None
                                     \/ helper'.at \in {"close", "write"}
         /\ helper.at \in {"close", "write"} => helper'.at \in {"write", "exited"}
<1>0. /\ ui \in Dialog /\ terminal \in BOOLEAN /\ result \in Results \cup {None}
  BY CensusTypes DEF TypeOK
<1>. USE <1>0 DEF Goes, Falls, Has, Displays, Searches
<1>1. CASE HelperRead \/ HelperLaunch \/ HelperAttach \/ HelperOpen
  BY <1>1, EarlyEffect
<1>2. CASE HelperSearch
  BY <1>2, CensusSearch
<1>3. CASE HelperRow
  BY <1>3, CensusRow
<1>4. CASE HelperClick
  BY <1>4, CensusClick
<1>5. CASE HelperNext
  BY <1>5, CensusNext
<1>6. CASE HelperServers
  BY <1>6, CensusServers
<1>7. CASE HelperBack
  BY <1>7, CensusBack
<1>8. CASE HelperChoose
  BY <1>8, CensusChoose
<1>9. CASE HelperClose
  BY <1>9, CensusClose
<1>10. CASE HelperWrite
  <2>1. result' \in Results \cup {None}
    BY <1>0, <1>10, CensusWrite, CensusTypes DEF Results, Locals
  <2>. QED  BY <1>10, <2>1, CensusWrite
<1>. QED
  BY <1>1, <1>2, <1>3, <1>4, <1>5, <1>6, <1>7, <1>8, <1>9, <1>10 DEF HelperStep

LEMMA CensusTypeKeeps ==
  ASSUME TypeOK, [Next]_vars
  PROVE  TypeOK'
<1>. USE DEF TypeOK, Locals, Dialog, Waiting
<1>1. CASE HelperStep
  BY <1>1, CensusShape DEF AtOnce, Pays
<1>2. CASE ServiceStep \/ SvcLate \/ SvcCancel
  <2>1. service' \in Waiting /\ terminal' \in BOOLEAN /\ request' \in BOOLEAN
    <3>. HIDE DEF Locals, Dialog, Waiting, TypeOK
    <3>0. terminal \in BOOLEAN /\ request \in BOOLEAN
      BY DEF TypeOK
    <3>. QED
      BY <1>2, <3>0, ServiceForms, PollForms, FinallyForms DEF Polls, ServiceStep
  <2>2. helper' \in Locals
    <3>. HIDE DEF Locals, Dialog, Waiting, TypeOK
    <3>. QED  BY <1>2, ServiceShape, CensusTypes DEF Goes, Has
  <2>. QED  BY <1>2, <2>1, <2>2, ServiceShape DEF Pays
<1>3. CASE Rebuild
  BY <1>3, CensusRebuild
<1>4. CASE UNCHANGED vars
  BY <1>4 DEF vars
<1>. QED  BY <1>1, <1>2, <1>3, <1>4 DEF Next

LEMMA RunKeeps ==
  ASSUME TypeOK, RunInv, [Next]_vars
  PROVE  RunInv'
<1>1. CASE HelperStep
  BY <1>1, CensusShape DEF RunInv, AtOnce, TypeOK
<1>2. SvcRequest \/ SvcGrant \/ SvcCreate \/ SvcDelete \/ SvcTerminal \/ SvcFiles
        => UNCHANGED <<helper, result>>
  BY DEF SvcRequest, SvcGrant, SvcCreate, SvcDelete, SvcTerminal, SvcFiles
<1>3. CASE SvcRequest
  BY <1>2, <1>3, ServiceForms DEF RunInv
<1>4. CASE SvcGrant
  BY <1>2, <1>4, ServiceForms DEF RunInv
<1>5. CASE SvcCreate
  BY <1>2, <1>5, ServiceForms DEF RunInv
<1>6. CASE SvcRun
  <2>1. UNCHANGED result /\ service.at = "run"
    BY <1>6, ServiceShape, ServiceForms DEF ServiceStep
  <2>2. \/ UNCHANGED helper
        \/ helper'.at = "read" /\ helper'.reason = helper.reason
    <3>1. UNCHANGED helper \/ Go("read")
      BY <1>6 DEF SvcRun
    <3>. QED  BY <3>1, CensusGo, CensusPlaces DEF Goes, Has
  <2>3. helper.at = "unborn" /\ helper.reason = None /\ result = None /\ service.task
        /\ service.outcome = "none"
    BY <2>1 DEF RunInv
  <2>4. /\ service'.task /\ UNCHANGED terminal
        /\ \/ service'.at = "poll" /\ service'.outcome = "none"
           \/ service'.at = "end" /\ service'.outcome = "failed"
    BY <1>6, <2>3, ServiceForms
  <2>. QED
    BY <2>1, <2>2, <2>3, <2>4 DEF RunInv
<1>7. CASE Polls
  BY <1>7, PollForms DEF RunInv
<1>8. CASE SvcEnd
  <2>1. /\ UNCHANGED result
        /\ \/ UNCHANGED helper
           \/ /\ helper'.at = "killed" /\ helper'.reason = helper.reason
              /\ helper.at \notin {"unborn", "exited"}
    <3>1. /\ UNCHANGED result
          /\ \/ UNCHANGED helper
             \/ helper.at \notin {"unborn", "exited"} /\ Go("killed")
      BY <1>8 DEF SvcEnd
    <3>. QED  BY <3>1, CensusGo, CensusPlaces DEF Goes, Has
  <2>2. service.task \in BOOLEAN
    BY DEF TypeOK
  <2>. QED
    BY <1>8, <2>1, <2>2, FinallyForms DEF RunInv
<1>9. CASE SvcDelete
  BY <1>2, <1>9, FinallyForms DEF RunInv
<1>10. CASE SvcTerminal
  BY <1>2, <1>10, FinallyForms DEF RunInv
<1>11. CASE SvcFiles
  BY <1>2, <1>11, FinallyForms DEF RunInv
<1>12. CASE Rebuild
  BY <1>12, CensusRebuild DEF RunInv
<1>13. CASE UNCHANGED vars
  BY <1>13 DEF vars, RunInv
<1>. QED
  BY <1>1, <1>3, <1>4, <1>5, <1>6, <1>7, <1>8, <1>9, <1>10, <1>11, <1>12, <1>13
     DEF Next, ServiceStep, Polls

LEMMA CensusReasons ==
  None \notin {"terminal_start_failed", "terminal_process_ambiguous", "wizard_not_found",
               "driver_failure", "server_not_found", "timeout", "cleanup_failed"}
BY DiscoveryAssumptions DEF DiscoveryAssumptions, WizardAssumption, Failures

\* One operation has failed at most, and the list stands still.
FewFaults == budget.rebuilds = MaxRebuilds /\ budget.faults >= MaxFaults - 1

\* Where a step leaves few faults there were few before it, and none if it was one.
LEMMA CensusBudget ==
  ASSUME TypeOK, budget' = budget \/ Pays
  PROVE  /\ FewFaults' => FewFaults
         /\ FewFaults' /\ Pays => /\ budget.faults = MaxFaults
                                  /\ budget'.faults # MaxFaults
         /\ Undisturbed' => budget' = budget /\ Undisturbed
         /\ Undisturbed => FewFaults /\ budget.faults = MaxFaults
<1>1. /\ budget \in [faults : 0 .. MaxFaults, rebuilds : 0 .. MaxRebuilds]
      /\ MaxFaults \in Nat /\ MaxRebuilds \in Nat
  BY CensusTypes DEF TypeOK
<1>2. CASE Pays
  BY <1>1, <1>2 DEF FewFaults, Undisturbed, Pays
<1>3. CASE budget' = budget
  BY <1>1, <1>3 DEF FewFaults, Undisturbed, Pays
<1>. QED  BY <1>2, <1>3

\* What is said of the evidence where few operations fail, in the helper's locals.
Evidence ==
  /\ OnList => ui.list = Listed
  /\ helper.at \in {"click", "next", "servers"} =>
       helper.label = None \/ IsCurrent(helper.label)
  /\ helper.at = "next" => ui.row \notin world.owners \/ IsCurrent(ui.row)
  /\ helper.at = "servers" => ui.menu \notin world.owners \/ IsCurrent(ui.menu)
  /\ budget.faults = MaxFaults =>
       /\ helper.at \in {"row", "click", "back"} => ui.row \notin world.owners
       /\ helper.at \in {"next", "servers"} => IsCurrent(ui.row)
       /\ helper.at = "servers" => ui.menu = ui.row
  /\ helper.at = "choose" => helper.label \in world.owners \cup {None}
  /\ helper.at \in {"close", "write"} /\ helper.reason = None =>
       helper.chosen \in world.owners
  /\ result # None /\ result.reason = None => result.label \in world.owners

LEMMA EvidenceIs == EvidenceInv <=> (FewFaults => Evidence)
BY DEF EvidenceInv, FewFaults, Evidence

\* A helper off the list, and not about to report, leaves only the result to say.
LEMMA EvidenceAway ==
  ASSUME Evidence, UNCHANGED <<world, result>>,
         \/ helper'.at \in {"read", "launch", "attach", "open", "search", "exited", "killed"}
         \/ helper'.at \in {"close", "write"} /\ helper'.reason # None
  PROVE  Evidence'
BY DEF Evidence, OnList

LEMMA EvidenceHelper ==
  ASSUME TypeOK, Evidence, HelperStep, budget' = budget \/ budget'.faults # MaxFaults,
         budget' # budget => budget.faults = MaxFaults
  PROVE  Evidence'
<1>. USE CensusReasons DEF AtOnce, Goes, Falls, Has, Displays, Searches
<1>0. /\ None \notin world.owners /\ world.owners \subseteq Brokers
      /\ Listed \in Seq(Brokers) /\ DOMAIN Listed = 1 .. Len(Listed)
      /\ budget.faults \in Nat
  BY CensusTypes DEF TypeOK
<1>1. CASE HelperRead \/ HelperLaunch \/ HelperAttach \/ HelperOpen
  <2>1. CASE HelperAttach
    BY <2>1, EarlyEffect, EvidenceAway
  <2>. QED  BY <1>1, <2>1, EarlyEffect, EvidenceAway
<1>2. CASE HelperSearch
  BY <1>0, <1>2, CensusSearch, EvidenceAway DEF Evidence, OnList, Listed
<1>3. CASE HelperRow
  <2>1. helper.at = "row" /\ ui.list = Listed /\ UNCHANGED <<world, ui, result>>
    BY <1>3, CensusRow DEF Evidence, OnList
  <2>2. ASSUME UNCHANGED budget, NEW i \in helper.todo,
               Has("click", helper.term, helper.todo \ {i}, helper.tested, i,
                   Labels(ui.list, i), helper.reason, helper.chosen)
        PROVE  Evidence'
    <3>1. /\ Labels(Listed, i) # None => /\ i \in DOMAIN Listed
                                         /\ Listed[i] = Labels(Listed, i)
          /\ Listed' = Listed
      BY <2>1, <2>2, LabelForms DEF Listed, TypeOK
    <3>. QED  BY <2>1, <2>2, <3>1 DEF Evidence, OnList, IsCurrent
  <2>. QED  BY <1>3, <2>1, <2>2, CensusRow, EvidenceAway
<1>4. CASE HelperClick
  <2>1. /\ helper.at = "click" /\ ui.list = Listed /\ UNCHANGED <<world, result>>
        /\ helper.label = None \/ IsCurrent(helper.label)
        /\ budget.faults = MaxFaults => ui.row \notin world.owners
    BY <1>4, CensusClick DEF Evidence, OnList
  <2>2. CASE Falls("close", "driver_failure")
    BY <2>1, <2>2, EvidenceAway
  <2>3. CASE /\ Goes("next") /\ UNCHANGED budget /\ helper.index \in DOMAIN ui.list
             /\ Displays(ui.page, ui.list, ui.list[helper.index], ui.menu)
    BY <2>1, <2>3 DEF Evidence, OnList, Listed, IsCurrent
  <2>4. CASE Goes("next") /\ Pays /\ ui' = ui
    <3>1. budget'.faults # MaxFaults /\ ui.row \notin world.owners
      BY <1>0, <2>1, <2>4 DEF Pays, TypeOK
    <3>. QED  BY <2>1, <2>4, <3>1 DEF Evidence, OnList, Listed, IsCurrent
  <2>. QED  BY <1>4, <2>2, <2>3, <2>4, CensusClick
<1>5. CASE HelperNext
  <2>1. /\ helper.at = "next" /\ ui.list = Listed /\ UNCHANGED <<world, result>>
        /\ helper.label = None \/ IsCurrent(helper.label)
        /\ ui.row \notin world.owners \/ IsCurrent(ui.row)
        /\ budget.faults = MaxFaults => IsCurrent(ui.row)
    BY <1>5, CensusNext DEF Evidence, OnList
  <2>2. CASE /\ Displays("servers", ui.list, ui.row, ui.row) /\ Goes("servers")
             /\ UNCHANGED budget
    BY <2>1, <2>2 DEF Evidence, OnList, Listed, IsCurrent
  <2>3. CASE /\ Goes("row")
             /\ ui' = ui \/ Searches
             /\ ui.row = None \/ budget' # budget
    <3>1. ui'.list = Listed /\ (budget'.faults = MaxFaults => ui'.row = None)
      BY <2>1, <2>3
    <3>a. helper'.at = "row" /\ helper'.term = helper.term
      BY <2>3
    <3>b. world' = world /\ result' = result
      BY <2>1
    <3>2. helper'.at = "row" /\ Listed' = Listed /\ world' = world /\ result' = result
      BY <3>a, <3>b DEF Listed
    <3>3. ui'.list = Listed' /\ (budget'.faults = MaxFaults => ui'.row \notin world'.owners)
      BY <1>0, <3>1, <3>2
    <3>4. result # None /\ result.reason = None => result.label \in world.owners
      BY DEF Evidence
    <3>. HIDE DEF Goes, Falls, Has, Displays, Searches
    <3>. QED  BY <3>2, <3>3, <3>4 DEF Evidence, OnList
  <2>4. Pays => budget' # budget
    BY <1>0 DEF Pays, TypeOK
  <2>5. CASE Falls("close", "driver_failure")
    BY <2>1, <2>5, EvidenceAway
  <2>. QED  BY <1>5, <2>2, <2>3, <2>4, <2>5, CensusNext
<1>6. CASE HelperServers
  <2>1. /\ helper.at = "servers" /\ ui.list = Listed /\ UNCHANGED <<world, ui, result>>
        /\ helper.label = None \/ IsCurrent(helper.label)
        /\ ui.menu \notin world.owners \/ IsCurrent(ui.menu)
        /\ budget.faults = MaxFaults => ui.menu = ui.row
    BY <1>6, CensusServers DEF Evidence, OnList
  <2>2. CASE Goes("choose") /\ ui.menu \in world.owners
    <3>1. helper.label \in world.owners \cup {None}
      BY <2>1, <2>2 DEF IsCurrent
    <3>. QED  BY <2>1, <2>2, <3>1 DEF Evidence, OnList
  <2>3. CASE /\ Goes("back")
             /\ (ui.menu \notin world.owners /\ UNCHANGED budget) \/ budget' # budget
    BY <2>1, <2>3 DEF Evidence, OnList, Listed
  <2>4. Pays => budget' # budget
    BY <1>0 DEF Pays, TypeOK
  <2>5. CASE Falls("close", "driver_failure")
    BY <2>1, <2>5, EvidenceAway
  <2>. QED  BY <1>6, <2>2, <2>3, <2>4, <2>5, CensusServers
<1>7. CASE HelperBack
  BY <1>0, <1>7, CensusBack, EvidenceAway DEF Evidence, OnList, Listed
<1>8. CASE HelperChoose
  BY <1>0, <1>8, CensusChoose, EvidenceAway DEF Evidence, OnList
<1>9. CASE HelperClose
  BY <1>9, CensusClose, EvidenceAway DEF Evidence, OnList
<1>10. CASE HelperWrite
  <2>1. CASE UNCHANGED result
    BY <1>10, <2>1, CensusWrite, EvidenceAway
  <2>2. CASE result' = [reason |-> helper.reason,
                        label |-> IF helper.reason = None THEN helper.chosen ELSE None]
    BY <1>10, <2>2, CensusWrite DEF Evidence, OnList
  <2>. QED  BY <1>10, <2>1, <2>2, CensusWrite
<1>. QED
  BY <1>1, <1>2, <1>3, <1>4, <1>5, <1>6, <1>7, <1>8, <1>9, <1>10 DEF HelperStep

LEMMA EvidenceKeeps ==
  ASSUME TypeOK, RunInv, EvidenceInv, [Next]_vars
  PROVE  EvidenceInv'
<1>. SUFFICES ASSUME FewFaults'
              PROVE  Evidence'
  BY EvidenceIs, PTL
<1>1. CASE HelperStep
  <2>1. budget' = budget \/ Pays
    BY <1>1, CensusShape
  <2>. QED  BY <1>1, <2>1, CensusBudget, EvidenceIs, EvidenceHelper
<1>2. CASE ServiceStep \/ SvcLate \/ SvcCancel
  <2>1. /\ budget' = budget \/ Pays
        /\ UNCHANGED <<world, ui, result>>
        /\ UNCHANGED helper \/ Goes("read") \/ Goes("killed")
    BY <1>2, ServiceShape
  <2>2. Evidence /\ (budget'.faults = MaxFaults => budget.faults = MaxFaults)
    BY <2>1, CensusBudget, EvidenceIs
  <2>3. CASE UNCHANGED helper
    BY <2>1, <2>2, <2>3 DEF Evidence, OnList, Listed, IsCurrent
  <2>4. CASE Goes("read") \/ Goes("killed")
    BY <2>1, <2>2, <2>4, EvidenceAway DEF Goes, Has
  <2>. QED  BY <2>1, <2>3, <2>4
<1>3. CASE Rebuild
  BY <1>3, CensusRebuild, CensusTypes DEF FewFaults, TypeOK
<1>4. CASE UNCHANGED vars
  BY <1>4, EvidenceIs DEF vars, FewFaults, Evidence, OnList, Listed, IsCurrent
<1>. QED  BY <1>1, <1>2, <1>3, <1>4 DEF Next

\* What is said of the rows where nothing fails, in the helper's locals.
Exhaust ==
  /\ \A t \in 1 .. helper.term - 1 : Clear(t)
  /\ helper.at = "search" => helper.tested \cap world.owners = {}
  /\ OnList =>
       /\ \A i \in DOMAIN Listed :
            i <= MaxResults /\ Listed[i] \in world.owners =>
              \/ i \in helper.todo
              \/ helper.at \in {"click", "next", "servers"} /\ i = helper.index
       /\ \A b \in helper.tested \cap world.owners :
            \E i \in DOMAIN Listed : i <= MaxResults /\ Listed[i] = b
  /\ helper.reason = "server_not_found" => Clear(helper.term)
  /\ helper.at \in {"unborn", "read", "launch", "attach", "open"} => helper.tested = {}

LEMMA ExhaustIs == ExhaustInv <=> (Undisturbed => Exhaust)
BY DEF ExhaustInv, Exhaust

\* The term and the reason stay: of a helper off the list nothing else is said.
LEMMA ExhaustAway ==
  ASSUME Exhaust, UNCHANGED world, helper'.term = helper.term,
         \/ helper'.reason = helper.reason
         \/ helper'.reason # "server_not_found",
         \/ helper'.at \in {"choose", "close", "write", "exited", "killed"}
         \/ /\ helper'.at \in {"read", "launch", "attach", "open"}
            /\ helper'.tested = {}
         \/ helper'.at = "search" /\ helper'.tested \cap world.owners = {}
  PROVE  Exhaust'
BY DEF Exhaust, OnList, Clear

\* On the list: the rows with the server that are still to come.
LEMMA ExhaustOn ==
  ASSUME Exhaust, UNCHANGED world, helper'.term = helper.term,
         helper'.reason = helper.reason, helper'.tested = helper.tested, OnList,
         helper'.at \in {"row", "click", "next", "servers", "back"},
         \A i \in DOMAIN Listed :
           i <= MaxResults /\ Listed[i] \in world.owners =>
             \/ i \in helper'.todo
             \/ helper'.at \in {"click", "next", "servers"} /\ i = helper'.index
  PROVE  Exhaust'
<1>1. Listed' = Listed
  BY DEF Listed
<1>. QED  BY <1>1 DEF Exhaust, OnList, Clear

LEMMA ExhaustSearch ==
  ASSUME TypeOK, Exhaust, helper.at = "search", UNCHANGED world,
         Has("row", helper.term, Fresh, helper.tested \cup Marks, helper.index,
             helper.label, helper.reason, helper.chosen)
  PROVE  Exhaust'
<1>1. Listed' = Listed /\ Listed \in Lists
  BY DEF Has, Listed, TypeOK
<1>2. ASSUME NEW i \in DOMAIN Listed, i <= MaxResults, Listed[i] \in world.owners
      PROVE  i \in Fresh
  <2>1. Listed[i] \in Brokers /\ Listed[i] # None
    BY <1>2, CensusTypes
  <2>2. Labels(Listed, i) \in {Listed[i], None}
    BY DEF Labels
  <2>3. Labels(Listed, i) \notin helper.tested
    BY <1>2, <2>2, CensusTypes DEF Locals, Exhaust
  <2>. QED  BY <1>2, <2>3 DEF Fresh
<1>3. ASSUME NEW b \in (helper.tested \cup Marks) \cap world.owners
      PROVE  \E i \in DOMAIN Listed : i <= MaxResults /\ Listed[i] = b
  <2>1. b \in Marks
    BY <1>3 DEF Exhaust
  <2>2. PICK i \in Fresh : b = Labels(Listed, i) /\ b # None
    BY <2>1 DEF Marks
  <2>. QED  BY <1>1, <2>2, LabelForms DEF Fresh
<1>4. /\ helper'.at = "row" /\ helper'.todo = Fresh /\ helper'.tested = helper.tested \cup Marks
      /\ helper'.term = helper.term /\ helper'.reason = helper.reason
  BY DEF Has
<1>. QED  BY <1>1, <1>2, <1>3, <1>4 DEF Exhaust, OnList, Clear

LEMMA ExhaustRow ==
  ASSUME TypeOK, RunInv, Exhaust, HelperRow, UNCHANGED budget
  PROVE  Exhaust'
<1>0. helper.at = "row" /\ UNCHANGED world /\ helper.term \in Nat \ {0}
  BY CensusRow, CensusTypes DEF AtOnce, Locals
<1>1. ASSUME NEW i \in helper.todo,
             Has("click", helper.term, helper.todo \ {i}, helper.tested, i,
                 Labels(ui.list, i), helper.reason, helper.chosen)
      PROVE  Exhaust'
  BY <1>0, <1>1, ExhaustOn DEF Has, Exhaust, OnList
<1>2. helper.todo = {} => Clear(helper.term) /\ helper.tested \cap world.owners = {}
  BY <1>0 DEF Exhaust, OnList, Clear, Listed
<1>3. CASE /\ helper.todo = {}
           /\ Has("search", helper.term + 1, helper.todo, helper.tested, helper.index,
                  helper.label, helper.reason, helper.chosen)
  <2>1. helper.reason = None
    BY <1>0 DEF RunInv
  <2>2. helper'.term = helper.term + 1 /\ helper'.at = "search" /\ helper'.reason = None
        /\ helper'.tested = helper.tested
    BY <1>3, <2>1 DEF Has
  <2>3. \A t \in 1 .. helper'.term - 1 : Clear(t)'
    BY <1>0, <1>2, <1>3, <2>2 DEF Exhaust, Clear
  <2>. QED  BY <1>0, <1>2, <1>3, <2>2, <2>3, CensusReasons DEF Exhaust, OnList
<1>4. CASE helper.todo = {} /\ Falls("close", "server_not_found")
  <2>1. helper'.term = helper.term /\ helper'.at = "close" /\ world' = world
    BY <1>0, <1>4 DEF Falls, Has
  <2>. QED  BY <1>2, <1>4, <2>1 DEF Exhaust, OnList, Clear
<1>5. ~Pays
  BY CensusTypes DEF Pays, TypeOK
<1>. QED  BY <1>1, <1>3, <1>4, <1>5, CensusRow

LEMMA ExhaustHelper ==
  ASSUME TypeOK, RunInv, Evidence, budget.faults = MaxFaults, Exhaust, HelperStep,
         UNCHANGED budget
  PROVE  Exhaust'
<1>0. /\ ~Pays /\ Listed \in Seq(Brokers) /\ DOMAIN Listed = 1 .. Len(Listed)
      /\ None \notin Brokers
  BY CensusTypes DEF Pays, TypeOK
<1>. USE DEF AtOnce, Goes, Falls, Has
<1>1. CASE HelperRead \/ HelperLaunch \/ HelperAttach \/ HelperOpen
  <2>1. helper.at \in {"read", "launch", "attach", "open"} /\ helper.tested = {}
    BY <1>1, EarlyEffect DEF Exhaust
  <2>2. UNCHANGED world /\ helper'.term = helper.term /\ helper'.reason = helper.reason
        /\ helper'.tested = helper.tested
        /\ helper'.at \in {"launch", "attach", "open", "search", "exited"}
    BY <1>0, <1>1, EarlyEffect
  <2>. QED  BY <2>1, <2>2, ExhaustAway
<1>2. CASE HelperSearch
  <2>. HIDE DEF Has
  <2>. QED  BY <1>0, <1>2, CensusSearch, ExhaustSearch
<1>3. CASE HelperRow
  BY <1>3, ExhaustRow
<1>4. CASE HelperClick
  <2>1. CASE Goes("next")
    BY <1>4, <2>1, CensusClick, ExhaustOn DEF Exhaust, OnList
  <2>2. CASE Falls("close", "driver_failure")
    BY <1>4, <2>2, CensusClick, ExhaustAway
  <2>. QED  BY <1>0, <1>4, <2>1, <2>2, CensusClick
<1>5. CASE HelperNext
  <2>1. CASE Goes("servers")
    BY <1>5, <2>1, CensusNext, ExhaustOn DEF Exhaust, OnList
  <2>2. CASE Goes("row") /\ ui.row = None
    <3>1. helper.index \in DOMAIN Listed /\ Listed[helper.index] = None
      BY <1>5, <2>2, CensusNext DEF Evidence, IsCurrent
    <3>. QED  BY <1>0, <3>1
  <2>. QED  BY <1>0, <1>5, <2>1, <2>2, CensusNext
<1>6. CASE HelperServers
  <2>1. CASE Goes("choose")
    BY <1>6, <2>1, CensusServers, ExhaustAway
  <2>2. CASE Goes("back") /\ ui.menu \notin world.owners
    <3>1. Listed[helper.index] \notin world.owners /\ helper.at = "servers"
      BY <1>6, <2>2, CensusServers DEF Evidence, IsCurrent
    <3>. QED  BY <1>6, <2>2, <3>1, CensusServers, ExhaustOn DEF Exhaust, OnList
  <2>. QED  BY <1>0, <1>6, <2>1, <2>2, CensusServers
<1>7. CASE HelperBack
  BY <1>0, <1>7, CensusBack, ExhaustOn DEF Exhaust, OnList
<1>8. CASE HelperChoose
  BY <1>8, CensusChoose, CensusReasons, ExhaustAway
<1>9. CASE HelperClose
  BY <1>0, <1>9, CensusClose, ExhaustAway
<1>10. CASE HelperWrite
  BY <1>10, CensusWrite, ExhaustAway
<1>. QED
  BY <1>1, <1>2, <1>3, <1>4, <1>5, <1>6, <1>7, <1>8, <1>9, <1>10 DEF HelperStep

LEMMA ExhaustKeeps ==
  ASSUME TypeOK, RunInv, EvidenceInv, ExhaustInv, [Next]_vars
  PROVE  ExhaustInv'
<1>. SUFFICES ASSUME Undisturbed'
              PROVE  Exhaust'
  BY ExhaustIs, PTL
<1>1. CASE HelperStep
  <2>1. budget' = budget \/ Pays
    BY <1>1, CensusShape
  <2>. QED  BY <1>1, <2>1, CensusBudget, EvidenceIs, ExhaustIs, ExhaustHelper
<1>2. CASE ServiceStep \/ SvcLate \/ SvcCancel
  <2>1. /\ budget' = budget \/ Pays
        /\ UNCHANGED world
        /\ \/ UNCHANGED helper
           \/ SvcRun /\ Goes("read")
           \/ Goes("killed")
    BY <1>2, ServiceShape
  <2>2. Exhaust
    BY <2>1, CensusBudget, ExhaustIs
  <2>3. CASE UNCHANGED helper
    BY <2>1, <2>2, <2>3 DEF Exhaust, OnList, Listed, Clear
  <2>4. CASE SvcRun /\ Goes("read")
    <3>1. helper.tested = {}
      BY <2>2, <2>4, ServiceForms DEF RunInv, Exhaust
    <3>. QED  BY <2>1, <2>2, <2>4, <3>1, ExhaustAway DEF Goes, Has
  <2>5. CASE Goes("killed")
    BY <2>1, <2>2, <2>5, ExhaustAway DEF Goes, Has
  <2>. QED  BY <2>1, <2>3, <2>4, <2>5
<1>3. CASE Rebuild
  BY <1>3, CensusRebuild, CensusTypes DEF Undisturbed, TypeOK
<1>4. CASE UNCHANGED vars
  BY <1>4, ExhaustIs DEF vars, Undisturbed, Exhaust, OnList, Listed, Clear
<1>. QED  BY <1>1, <1>2, <1>3, <1>4 DEF Next

LEMMA CensusInit ==
  ASSUME Init
  PROVE  IInv
<1>1. TypeOK
  <2>1. /\ MaxFaults \in Nat /\ MaxRebuilds \in Nat /\ Terms \in Nat \ {0}
        /\ None \in Reasons /\ "unborn" \in HelperPlaces /\ "request" \in ServicePlaces
    BY DiscoveryAssumptions
       DEF DiscoveryAssumptions, WizardAssumption, Reasons, HelperPlaces, ServicePlaces
  <2>2. helper \in Locals /\ ui \in Dialog
    BY <2>1, CensusLists DEF Init, Locals, Dialog
  <2>3. service \in Waiting /\ result = None
    BY <2>1 DEF Init, Waiting
  <2>4. budget \in [faults : 0 .. MaxFaults, rebuilds : 0 .. MaxRebuilds]
    BY <2>1 DEF Init
  <2>5. /\ world \in [lists : [1 .. Terms -> Lists], owners : SUBSET Brokers,
                      legible : SUBSET Brokers]
        /\ terminal \in BOOLEAN /\ request \in BOOLEAN
    BY DEF Init
  <2>. QED  BY <2>2, <2>3, <2>4, <2>5 DEF TypeOK, Locals, Dialog, Waiting
<1>2. RunInv
  BY DEF Init, RunInv
<1>3. Evidence
  BY DEF Init, Evidence, OnList
<1>4. Exhaust
  BY CensusReasons DEF Init, Exhaust, OnList
<1>. QED  BY <1>1, <1>2, <1>3, <1>4, EvidenceIs, ExhaustIs DEF IInv

\* What the census of a broker's servers keeps, whatever the brokers, the terms, the
\* operations that fail and the lists the dialog shows (broker_wizard.py,
\* broker_wizard_ui.py).
THEOREM CensusInvariant == Spec => []IInv
<1>1. IInv /\ [Next]_vars => IInv'
  BY CensusTypeKeeps, RunKeeps, EvidenceKeeps, ExhaustKeeps DEF IInv
<1>. QED  BY <1>1, CensusInit, PTL DEF Spec

LEMMA CensusComposed == SpecOne => Spec
<1>1. InitOne => Init
  BY DEF InitOne
<1>2. [NextOne]_allVars => [Next]_vars
  BY DEF NextOne, OfWizard, OfWine, OfEndpoint, allVars, vars
<1>. QED  BY <1>1, <1>2, PTL DEF SpecOne, Spec

\* What a census reports was read from one broker, and a server it does not know was
\* on no row, whatever becomes of the task (broker_wizard_ui.py 668-800).
THEOREM CensusExact == SpecOne => [](EvidenceIsOfOneBroker /\ NotFoundIsExhaustive)
<1>1. IInv => EvidenceIsOfOneBroker
  BY DEF IInv, RunInv, EvidenceInv, EvidenceIsOfOneBroker
<1>2. IInv => NotFoundIsExhaustive
  <2>1. ASSUME IInv, helper.reason = "server_not_found", Undisturbed
        PROVE  \A t \in 1 .. helper.term : Clear(t)
    <3>1. helper.term \in Nat \ {0} /\ Exhaust
      BY <2>1, CensusTypes, ExhaustIs DEF IInv, Locals
    <3>2. \A t \in 1 .. helper.term : t \in 1 .. helper.term - 1 \/ t = helper.term
      BY <3>1
    <3>. QED  BY <2>1, <3>1, <3>2 DEF Exhaust
  <2>. QED  BY <2>1 DEF NotFoundIsExhaustive, Undisturbed, Clear
<1>. QED  BY <1>1, <1>2, CensusComposed, CensusInvariant, PTL

\* Where the end of a task takes the helper with it, a call that returns leaves
\* nothing that drives the terminal: with the two properties above, all that is said
\* of a census (broker_wizard.py 163-343).
THEOREM CensusSound == SpecOne => [](EndKills => CensusIsSound)
<1>1. IInv /\ EndKills => ReturnsQuiet
  BY DEF IInv, RunInv, ReturnsQuiet
<1>2. IInv => TypeOK
  BY DEF IInv
<1>3. IInv /\ EvidenceIsOfOneBroker /\ NotFoundIsExhaustive => (EndKills => CensusIsSound)
  BY <1>1, <1>2 DEF CensusIsSound
<1>. QED  BY <1>3, CensusComposed, CensusInvariant, CensusExact, PTL
=============================================================================
