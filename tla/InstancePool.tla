---------------------------- MODULE InstancePool ----------------------------
(***************************************************************************)
(* The pool of prebuilt MT5 instances (mt5_instance_pool.py): a thread that*)
(* retires outdated slots and builds new ones, claimers that move a slot   *)
(* from ready/ through claimed/<connection> to instances/<connection>, and *)
(* the recovery at the agent's start.  Directories are what the threads    *)
(* share; only the moves between them are atomic.  Any file operation may  *)
(* fail; a move either happens or not, as on Windows, where durable_replace*)
(* is one call and fsync_directory none.                                   *)
(***************************************************************************)
EXTENDS Integers, FiniteSets

CONSTANTS Slots,        \* slot identities; each is built once
          Conns,        \* connections
          Claimers,     \* threads that claim; the agent has one, its tests two
          Releases,     \* releases of the terminal template
          TargetSize,   \* slots to hold ready; no more than max_size
          None,
          MaxClaims,    \* bound: claims begun
          MaxEvents     \* bound: crashes, new templates, failing operations, damaged instances

ASSUME PoolAssumption ==
  /\ TargetSize \in Nat
  /\ None \notin Slots \cup Conns
  /\ MaxClaims \in Nat /\ MaxEvents \in Nat /\ Releases # {}

VARIABLES
  template,      \* the release the golden template holds
  slot,          \* what is known of a slot's tree: its release and its state
  building, ready, claimed,   \* the three directories of the pool
  reservations,  \* reservations/: a file per connection that is being claimed
  orphaned,      \* history: files that a failing operation has left there since the start
  instance,      \* instances/<connection>: a slot, or how it came to be there
  builder,       \* the maintenance thread
  claimer,       \* the claims in flight
  up,            \* is the agent running, or recovering?
  claims, events

pool == <<slot, building, ready, claimed, reservations, orphaned>>
vars == <<template, pool, instance, builder, claimer, up, claims, events>>

Tree == [release : Releases \cup {None},
         state : {"unborn", "copied", "anonymous", "ready", "bound", "partial"}]
Publication == [kind : {"none", "direct", "pooled", "incomplete", "damaged"},
                slot : Slots \cup {None}]
Round == [pc : {"resting", "judging", "removing", "building"}, list : SUBSET Slots,
          slot : Slots \cup {None}]
ClaimStep == {"idle", "look", "retire", "reserve", "recheck", "take", "check", "bind",
              "publish", "confirm", "unwind", "empty", "direct"}
Flight == [pc : ClaimStep, conn : Conns \cup {None}, list : SUBSET Slots]
Idle == [pc |-> "idle", conn |-> None, list |-> {}]
Resting == [pc |-> "resting", list |-> {}, slot |-> None]
NoInstance == [kind |-> "none", slot |-> None]
Whole(c) == \/ instance[c].kind = "direct"
            \/ instance[c].kind = "pooled" /\ slot[instance[c].slot].state = "bound"

Init ==
  /\ template \in Releases
  /\ slot = [s \in Slots |-> [release |-> None, state |-> "unborn"]]
  /\ building = {} /\ ready = {} /\ claimed = [c \in Conns |-> None]
  /\ reservations = {} /\ orphaned = {}
  /\ instance = [c \in Conns |-> NoInstance]
  /\ builder = Resting
  /\ claimer = [p \in Claimers |-> Idle]
  /\ up = TRUE /\ claims = 0 /\ events = 0

Event == events < MaxEvents /\ events' = events + 1

\* _validate_slot: complete, anonymous, and of the current release.
Valid(s) == slot[s] = [release |-> template, state |-> "ready"]

-----------------------------------------------------------------------------
(* The maintenance thread: maintain_once.                                   *)

Maintain ==
  /\ up /\ builder.pc = "resting"
  /\ builder' = [Resting EXCEPT !.pc = "judging", !.list = ready]
  /\ UNCHANGED <<template, pool, instance, claimer, up, claims, events>>

JudgeAllGood ==   \* mutant: outdated slots are left in ready/
  /\ builder.pc = "judging"
  /\ \E s \in builder.list :
       builder' = [builder EXCEPT !.list = @ \ {s}]
  /\ UNCHANGED <<template, pool, instance, claimer, up, claims, events>>

\* The slots listed at the start are validated one by one; one that a claimer
\* has taken since is found invalid, and then there is nothing to remove.
Judge ==
  /\ builder.pc = "judging"
  /\ \E s \in builder.list :
       builder' = IF s \in ready /\ ~Valid(s)
                    THEN [pc |-> "removing", list |-> builder.list \ {s}, slot |-> s]
                    ELSE [builder EXCEPT !.list = @ \ {s}]
  /\ UNCHANGED <<template, pool, instance, claimer, up, claims, events>>

\* rmtree deletes file after file; the slot can be moved away under it.
RemoveBegins ==
  /\ builder.pc = "removing" /\ builder.slot \in ready
  /\ slot[builder.slot].state # "partial"
  /\ slot' = [slot EXCEPT ![builder.slot].state = "partial"]
  /\ UNCHANGED <<template, building, ready, claimed, reservations, orphaned, instance,
                 builder, claimer, up, claims, events>>

RemoveEnds ==
  /\ builder.pc = "removing"
  /\ builder.slot \notin ready \/ slot[builder.slot].state = "partial"
  /\ ready' = ready \ {builder.slot}
  /\ builder' = [builder EXCEPT !.pc = "judging", !.slot = None]
  /\ UNCHANGED <<template, slot, building, claimed, reservations, orphaned, instance, claimer,
                 up, claims, events>>

\* A removal raises, for one because the slot was moved away under it; the round ends.
RemoveFails ==
  /\ builder.pc = "removing"
  /\ \/ Event
     \/ builder.slot \notin ready /\ UNCHANGED events
  /\ builder' = Resting
  /\ UNCHANGED <<template, pool, instance, claimer, up, claims>>

Judged == builder.pc = "judging" /\ builder.list = {}

\* build_one: a copy of the template in building/, made there by provision, which
\* itself stages the copy and refuses a template that changes meanwhile.
Build ==
  /\ Judged /\ Cardinality(ready) < TargetSize
  /\ \E s \in Slots :
       /\ slot[s].state = "unborn"
       /\ slot' = [slot EXCEPT ![s] = [release |-> template, state |-> "copied"]]
       /\ building' = building \cup {s}
       /\ builder' = [pc |-> "building", list |-> {}, slot |-> s]
  /\ UNCHANGED <<template, ready, claimed, reservations, orphaned, instance, claimer, up,
                 claims, events>>

\* _sanitize_slot empties what belongs to an account.
Sanitize ==
  /\ builder.pc = "building"
  /\ slot[builder.slot].state = "copied"
  /\ slot' = [slot EXCEPT ![builder.slot].state = "anonymous"]
  /\ UNCHANGED <<template, building, ready, claimed, reservations, orphaned, instance,
                 builder, claimer, up, claims, events>>

\* instance.json is rewritten for the sanitized tree, then pool.json says READY.
Certify ==
  /\ builder.pc = "building"
  /\ slot[builder.slot].state = "anonymous"
  /\ slot' = [slot EXCEPT ![builder.slot].state = "ready"]
  /\ UNCHANGED <<template, building, ready, claimed, reservations, orphaned, instance,
                 builder, claimer, up, claims, events>>

\* The validated slot is moved to ready/; the loop counts again.
Shelve ==
  /\ builder.pc = "building" /\ Valid(builder.slot)
  /\ building' = building \ {builder.slot} /\ ready' = ready \cup {builder.slot}
  /\ builder' = [builder EXCEPT !.pc = "judging", !.slot = None]
  /\ UNCHANGED <<template, slot, claimed, reservations, orphaned, instance, claimer, up,
                 claims, events>>

\* A build that fails, or whose slot is outdated when it is validated, removes
\* its tree, unless that fails too, and ends the round.
BuildFails ==
  /\ builder.pc = "building"
  /\ \/ Event /\ building' \in {building, building \ {builder.slot}}
     \/ /\ slot[builder.slot].state = "ready" /\ ~Valid(builder.slot)
        /\ building' = building \ {builder.slot} /\ UNCHANGED events
  /\ builder' = Resting
  /\ UNCHANGED <<template, slot, ready, claimed, reservations, orphaned, instance, claimer, up,
                 claims>>

Rest ==
  /\ Judged /\ Cardinality(ready) >= TargetSize
  /\ builder' = Resting
  /\ UNCHANGED <<template, pool, instance, claimer, up, claims, events>>

-----------------------------------------------------------------------------
(* claim.                                                                   *)

At(p, pc) == up /\ claimer[p].pc = pc
Move(p, pc) == claimer' = [claimer EXCEPT ![p].pc = pc]
End(p) == claimer' = [claimer EXCEPT ![p] = Idle]
conn(p) == claimer[p].conn
Begin(p, c) ==
  /\ At(p, "idle") /\ claims < MaxClaims
  /\ claims' = claims + 1
  /\ claimer' = [claimer EXCEPT ![p] = [Idle EXCEPT !.pc = "look", !.conn = c]]
  /\ UNCHANGED <<template, pool, instance, builder, up, events>>

\* A publication is reused, an invalid one refused, an incomplete one retired.
Look(p) ==
  /\ At(p, "look")
  /\ CASE instance[conn(p)].kind = "none" -> Move(p, "reserve")
       [] instance[conn(p)].kind = "incomplete" -> Move(p, "retire")
       [] OTHER -> End(p)
  /\ UNCHANGED <<template, pool, instance, builder, up, claims, events>>

Retire(p) ==
  /\ At(p, "retire")
  /\ instance' = [instance EXCEPT ![conn(p)] = NoInstance]
  /\ Move(p, "reserve")
  /\ UNCHANGED <<template, pool, builder, up, claims, events>>

\* An operation raises before the reservation or after the claim: the job fails.
Refuse(p) ==
  /\ At(p, "look") \/ At(p, "retire") \/ At(p, "direct")
  /\ Event /\ End(p)
  /\ UNCHANGED <<template, pool, instance, builder, up, claims>>

\* O_CREAT | O_EXCL: the second claim of a connection is refused.
ReserveShared(p) ==   \* mutant: the reservation is not exclusive
  /\ At(p, "reserve")
  /\ reservations' = reservations \cup {conn(p)} /\ Move(p, "recheck")
  /\ UNCHANGED <<template, slot, building, ready, claimed, orphaned, instance, builder, up, claims,
                 events>>

Reserve(p) ==
  /\ At(p, "reserve")
  /\ IF conn(p) \in reservations THEN End(p) /\ UNCHANGED reservations
     ELSE reservations' = reservations \cup {conn(p)} /\ Move(p, "recheck")
  /\ UNCHANGED <<template, slot, building, ready, claimed, orphaned, instance, builder, up, claims,
                 events>>

\* The file is created before it is written and synced, outside the try whose
\* finally removes it: when one of these raises it stays.
ReserveFails(p) ==
  /\ At(p, "reserve") /\ Event
  /\ conn(p) \notin reservations
  /\ reservations' = reservations \cup {conn(p)}
  /\ orphaned' = orphaned \cup {conn(p)}
  /\ End(p)
  /\ UNCHANGED <<template, slot, building, ready, claimed, instance, builder, up, claims>>

Recheck(p) ==
  /\ At(p, "recheck")
  /\ IF instance[conn(p)].kind = "none"
       THEN claimer' = [claimer EXCEPT ![p] = [@ EXCEPT !.pc = "take", !.list = ready]]
       ELSE Move(p, "unwind")
  /\ UNCHANGED <<template, pool, instance, builder, up, claims, events>>

CopySlot(p) ==   \* mutant: the slot is copied, not moved
  /\ At(p, "take")
  /\ \E s \in claimer[p].list :
       IF s \in ready
         THEN /\ claimed' = [claimed EXCEPT ![conn(p)] = s]
              /\ Move(p, "check")
         ELSE /\ claimer' = [claimer EXCEPT ![p].list = @ \ {s}]
              /\ UNCHANGED claimed
  /\ UNCHANGED <<template, slot, building, ready, reservations, orphaned, instance, builder, up,
                 claims, events>>

\* A slot of the list is moved to claimed/<connection>, unless another claimer
\* or the maintenance thread was there first.
Take(p) ==
  /\ At(p, "take")
  /\ \E s \in claimer[p].list :
       IF s \in ready
         THEN /\ claimed' = [claimed EXCEPT ![conn(p)] = s]
              /\ ready' = ready \ {s}
              /\ Move(p, "check")
         ELSE /\ claimer' = [claimer EXCEPT ![p].list = @ \ {s}]
              /\ UNCHANGED <<claimed, ready>>
  /\ UNCHANGED <<template, slot, building, reservations, orphaned, instance, builder, up, claims,
                 events>>

\* An invalid slot is destroyed and the next one tried.
Check(p) ==
  /\ At(p, "check")
  /\ IF Valid(claimed[conn(p)]) THEN Move(p, "bind") /\ UNCHANGED claimed
     ELSE /\ claimed' = [claimed EXCEPT ![conn(p)] = None]
          /\ claimer' = [claimer EXCEPT ![p].pc = "take"]
  /\ UNCHANGED <<template, slot, building, ready, reservations, orphaned, instance, builder, up,
                 claims, events>>

\* instance.json names the connection; pool.json goes.
Bind(p) ==
  /\ At(p, "bind")
  /\ slot' = [slot EXCEPT ![claimed[conn(p)]].state =
                              IF @ = "ready" THEN "bound" ELSE @]
  /\ Move(p, "publish")
  /\ UNCHANGED <<template, building, ready, claimed, reservations, orphaned, instance, builder,
                 up, claims, events>>

Publish(p) ==
  /\ At(p, "publish")
  /\ IF instance[conn(p)].kind = "none"
       THEN /\ instance' = [instance EXCEPT ![conn(p)] =
                             [kind |-> "pooled", slot |-> claimed[conn(p)]]]
            /\ claimed' = [claimed EXCEPT ![conn(p)] = None]
            /\ Move(p, "confirm")
       ELSE Move(p, "unwind") /\ UNCHANGED <<instance, claimed>>
  /\ UNCHANGED <<template, slot, building, ready, reservations, orphaned, builder, up, claims,
                 events>>

\* The publication is validated where it is; an invalid one is removed.
Confirm(p) ==
  /\ At(p, "confirm")
  /\ instance' = [instance EXCEPT ![conn(p)] = IF Whole(conn(p)) THEN @ ELSE NoInstance]
  /\ Move(p, "unwind")
  /\ UNCHANGED <<template, pool, builder, up, claims, events>>

\* The validation cannot read a file: what was published is removed, if that does
\* not fail half-way.
ConfirmFails(p) ==
  /\ At(p, "confirm") /\ Event
  /\ \/ instance' = [instance EXCEPT ![conn(p)] = NoInstance]
     \/ /\ Whole(conn(p))
        /\ \E k \in {"incomplete", "damaged"} :
             instance' = [instance EXCEPT ![conn(p)].kind = k]
  /\ Move(p, "unwind")
  /\ UNCHANGED <<template, pool, builder, up, claims>>

\* Another operation of the try raises; a tree that is being removed or bound may
\* be left partial.
ClaimFails(p) ==
  /\ \E pc \in {"recheck", "take", "check", "bind", "publish"} : At(p, pc)
  /\ Event
  /\ \/ UNCHANGED slot
     \/ /\ claimer[p].pc \in {"check", "bind"}
        /\ slot' = [slot EXCEPT ![claimed[conn(p)]].state = "partial"]
  /\ Move(p, "unwind")
  /\ UNCHANGED <<template, building, ready, claimed, reservations, orphaned, instance, builder,
                 up, claims>>

\* The pool is empty: None is returned.
NoneLeft(p) ==
  /\ At(p, "take") /\ claimer[p].list = {}
  /\ Move(p, "empty")
  /\ UNCHANGED <<template, pool, instance, builder, up, claims, events>>

Unwinding(p) == At(p, "unwind") \/ At(p, "empty")

\* The finally clause; a caller that was returned None copies the template itself.
Release(p) ==
  /\ Unwinding(p)
  /\ claimed' = [claimed EXCEPT ![conn(p)] = None]
  /\ reservations' = reservations \ {conn(p)}
  /\ IF claimer[p].pc = "empty" THEN Move(p, "direct") ELSE End(p)
  /\ UNCHANGED <<template, slot, building, ready, orphaned, instance, builder, up, claims, events>>

\* When the removal of the claimed tree or that of the reservation raises, the
\* reservation stays, and the tree may.
ReleaseFails(p) ==
  /\ Unwinding(p) /\ Event
  /\ \/ claimed' = [claimed EXCEPT ![conn(p)] = None] /\ UNCHANGED slot
     \/ /\ claimed[conn(p)] # None /\ UNCHANGED claimed
        /\ slot' = [slot EXCEPT ![claimed[conn(p)]].state = "partial"]
  /\ orphaned' = orphaned \cup {conn(p)}
  /\ End(p)
  /\ UNCHANGED <<template, building, ready, reservations, instance, builder, up, claims>>

\* InstanceProvisioner.provision copies to a stage and moves it into place.
DirectPublish(p) ==
  /\ At(p, "direct")
  /\ instance' = [instance EXCEPT ![conn(p)] =
                    IF @.kind = "none" THEN [kind |-> "direct", slot |-> None] ELSE @]
  /\ End(p)
  /\ UNCHANGED <<template, pool, builder, up, claims, events>>

-----------------------------------------------------------------------------
(* The host, the release process and the rest of the agent.                 *)

NewTemplate ==
  /\ Event
  /\ \E r \in Releases : template' = r
  /\ UNCHANGED <<pool, instance, builder, claimer, up, claims>>

\* A terminal update, or a cleanup that stops half-way.
Spoil(c) ==
  /\ Event
  /\ Whole(c) /\ \A p \in Claimers : conn(p) # c
  /\ \E k \in {"incomplete", "damaged"} :
       instance' = [instance EXCEPT ![c].kind = k]
  /\ UNCHANGED <<template, pool, builder, claimer, up, claims>>

\* Deprovision and cleanup remove an account when no claim of it is running.
Discard(c) ==
  /\ \A p \in Claimers : conn(p) # c
  /\ up /\ instance[c].kind # "none" /\ claims < MaxClaims
  /\ instance' = [instance EXCEPT ![c] = NoInstance]
  /\ UNCHANGED <<template, pool, builder, claimer, up, claims, events>>

Crash ==
  /\ up /\ Event
  /\ up' = FALSE /\ builder' = Resting /\ claimer' = [p \in Claimers |-> Idle]
  /\ UNCHANGED <<template, pool, instance, claims>>

RecoverDirectories ==   \* mutant: the reservations are left
  /\ ~up
  /\ building' = {} /\ claimed' = [c \in Conns |-> None]
  /\ ready' = {s \in ready : Valid(s)}
  /\ up' = TRUE
  /\ orphaned' = {}
  /\ UNCHANGED <<template, slot, reservations, instance, builder, claimer, claims, events>>

\* recover_incomplete runs before any thread is started.
Recover ==
  /\ ~up
  /\ building' = {} /\ claimed' = [c \in Conns |-> None]
  /\ reservations' = {} /\ orphaned' = {}
  /\ ready' = {s \in ready : Valid(s)}
  /\ up' = TRUE
  /\ UNCHANGED <<template, slot, instance, builder, claimer, claims, events>>

-----------------------------------------------------------------------------
Maintenance == up /\ (Maintain \/ Judge \/ RemoveBegins \/ RemoveEnds \/ RemoveFails \/ Build
                      \/ Sanitize \/ Certify \/ Shelve \/ BuildFails \/ Rest)
Claim(p) == \/ Look(p) \/ Retire(p) \/ Refuse(p) \/ Reserve(p) \/ ReserveFails(p)
            \/ Recheck(p) \/ Take(p) \/ Check(p) \/ Bind(p) \/ Publish(p) \/ Confirm(p)
            \/ ConfirmFails(p) \/ ClaimFails(p) \/ NoneLeft(p) \/ Release(p) \/ ReleaseFails(p)
            \/ DirectPublish(p)

Next ==
  \/ Maintenance
  \/ \E p \in Claimers : Claim(p) \/ \E c \in Conns : Begin(p, c)
  \/ NewTemplate
  \/ \E c \in Conns : Spoil(c) \/ Discard(c)
  \/ Crash \/ Recover

Spec == Init /\ [][Next]_vars

\* The maintenance thread wakes up every few seconds, and the service restarts
\* the agent.
FairSpec == Spec /\ WF_vars(Maintenance) /\ WF_vars(Recover)

-----------------------------------------------------------------------------
TypeOK ==
  /\ template \in Releases
  /\ slot \in [Slots -> Tree]
  /\ building \subseteq Slots /\ ready \subseteq Slots
  /\ claimed \in [Conns -> Slots \cup {None}]
  /\ reservations \subseteq Conns /\ orphaned \subseteq Conns
  /\ instance \in [Conns -> Publication]
  /\ builder \in Round /\ claimer \in [Claimers -> Flight]
  /\ up \in BOOLEAN /\ claims \in 0..MaxClaims /\ events \in 0..MaxEvents

\* A slot is in one place, so no two accounts share a terminal tree, whatever
\* the claimers, the maintenance thread and crashes do.
OnePlace ==
  /\ building \cap ready = {}
  /\ \A c \in Conns : claimed[c] # None =>
       /\ claimed[c] \notin building \cup ready
       /\ \A d \in Conns : /\ d # c => claimed[d] # claimed[c]
                           /\ instance[d].slot # claimed[c]
  /\ \A c \in Conns : instance[c].slot # None =>
       /\ instance[c].slot \notin building \cup ready
       /\ \A d \in Conns \ {c} : instance[d].slot # instance[c].slot

\* ready/ holds no slot whose tree still carries the private data of the template.
ReadyIsAnonymous ==
  \A s \in ready : slot[s].state \in {"ready", "partial"}

\* What a claim publishes is a whole tree bound to its connection, although
\* slots are removed file by file beside it.
PublishedIsWhole ==
  \A c \in Conns : instance[c].kind = "pooled" => slot[instance[c].slot].state = "bound"

InFlight(p) ==
  claimer[p].pc \in {"recheck", "take", "check", "bind", "publish", "confirm", "unwind", "empty"}

Holds(p, c) == InFlight(p) /\ conn(p) = c

\* While the agent runs, a reservation belongs to exactly one claim in flight, or
\* to none and then a failing operation of _reserve or of the finally clause has left
\* it: such a connection is refused, as if it were being claimed, until the agent
\* starts again.
ReservedIsHeld ==
  up => /\ orphaned \subseteq reservations
        /\ \A c \in reservations :
             IF c \in orphaned THEN ~\E p \in Claimers : Holds(p, c)
             ELSE \E p \in Claimers : Holds(p, c) /\ \A q \in Claimers : Holds(q, c) => q = p

\* The pool never holds more than it is to hold.
PoolBounded == Cardinality(ready) <= TargetSize

\* The pool fills up again, with slots of the current template.
Replenished ==
  []<>(\/ \A s \in Slots : slot[s].state # "unborn"
       \/ Cardinality({s \in ready : slot[s].release = template}) >= TargetSize)

\* The pool keeps its size: never more than it is to hold, although ready/ is
\* counted before every build, and again and again that many.
PoolKeepsItsSize == []PoolBounded /\ Replenished

-----------------------------------------------------------------------------
(* The inductive invariant.                                                 *)

\* A slot that is not built yet is nowhere.
Nowhere ==
  \A s \in Slots : slot[s].state = "unborn" =>
    /\ s \notin building \cup ready
    /\ \A c \in Conns : claimed[c] # s /\ instance[c].slot # s

\* The threads know the slot they work on; none works while the agent is down.
ThreadInv ==
  /\ builder.pc = "building" => builder.slot \in building
  /\ builder.pc = "removing" => builder.slot \in Slots
  /\ \A p \in Claimers : claimer[p].pc # "idle" => conn(p) \in Conns
  /\ ~up => builder = Resting /\ \A p \in Claimers : claimer[p] = Idle

\* A claim in flight holds its connection's reservation, alone.
FlightInv ==
  /\ \A p \in Claimers : InFlight(p) => conn(p) \in reservations
  /\ \A p, q \in Claimers : InFlight(p) /\ InFlight(q) /\ conn(p) = conn(q) => p = q

\* A claim that took a slot still has it, in the state its step expects.
TakenInv ==
  /\ \A p \in Claimers : claimer[p].pc \in {"check", "bind", "publish"} =>
       claimed[conn(p)] # None
  /\ \A p \in Claimers : claimer[p].pc = "bind" => slot[claimed[conn(p)]].state = "ready"
  /\ \A p \in Claimers : claimer[p].pc = "publish" => slot[claimed[conn(p)]].state = "bound"
  /\ \A c \in Conns : instance[c].kind = "pooled" => instance[c].slot # None

IInv == /\ TypeOK /\ OnePlace /\ Nowhere /\ ThreadInv /\ FlightInv /\ ReservedIsHeld
        /\ TakenInv /\ ReadyIsAnonymous /\ PublishedIsWhole
=============================================================================
