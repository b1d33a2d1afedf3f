---------------------------- MODULE ServiceRounds ----------------------------
(***************************************************************************)
(* Finalizing Room Service: the worker's pipeline                          *)
(* (apps/worker/src/room-service) and the SQL function it ends in          *)
(* (finalize_room_service_round).                                          *)
(*                                                                         *)
(* For every due service, oldest first, a worker collects the fees into    *)
(* the contract, reads what the contract ever received at the block of     *)
(* the receipt, subtracts what earlier rounds allocated, divides the rest  *)
(* among the guests by weight and submits the round.  Each await is a      *)
(* step of its own, so several workers (a restart that overlaps the old    *)
(* process is enough) interleave between any two of them; the SQL function *)
(* runs under an advisory lock in one transaction and is one step.         *)
(*                                                                         *)
(* The weights stand for the whole snapshot (holders at the snapshot       *)
(* block, eligibility, ranking, escrow boost); any weights may come out    *)
(* of it.  The worker's audit rows are left out.                           *)
(***************************************************************************)
EXTENDS Totals, Integers

CONSTANTS
  Worker,
  Guest,
  Weights,              \* the weight functions a snapshot may yield
  Fee,                  \* ETH a block may bring, 0 included
  FirstService,         \* first service after the hotel opens
  MAX_ATTEMPTS,         \* COLLECTION_MAX_ATTEMPTS
  CATCHUP_MAX,          \* SERVICE_CATCHUP_MAX
  NotMined,
  \* Bounds of the model.
  MaxService,           \* the last service that becomes due
  MaxReceived           \* ETH that ever reaches the contract

Service == FirstService .. MaxService

ASSUME ServiceRoundsAssumption ==
  /\ IsFiniteSet(Guest)
  /\ Weights \subseteq [Guest -> Nat]
  /\ Fee \subseteq Nat
  /\ FirstService \in Nat \ {0}
  /\ MAX_ATTEMPTS \in Nat \ {0}
  /\ CATCHUP_MAX \in Nat \ {0}
  /\ NotMined \notin Nat
  /\ MaxService \in Nat /\ FirstService <= MaxService
  /\ MaxReceived \in Nat

VARIABLES
  \* The chain and the clock.
  latestDue,      \* the greatest service number whose boundary has passed
  received,       \* contract balance + total claimed, at the last block
  pending,        \* fees still in the Pons escrow
  \* The database.
  serviceRounds,      \* service_rounds by number
  allocations,        \* service_allocations by number
  guestEntitlements,  \* guest_entitlements.cumulative_earned_wei
  roomServiceDelayed, \* the flag, and public_status = ROOM SERVICE DELAYED
  collectionStuck,    \* the flag, and operational_status = STUCK
  delayIncident,      \* the ROOM_SERVICE_DELAYED incident
  \* Each worker.
  pc,
  service,        \* the service being finalized
  until,          \* the last service of this run
  attempt,        \* of collecting
  receipt,        \* of the last broadcast: what the contract had received at
                  \* the end of its block, or NotMined
  read,           \* the financial read
  earned          \* totalFinalizedEarnedWei as read

chain  == <<latestDue, received, pending>>
rounds == <<serviceRounds, allocations, guestEntitlements>>
flags  == <<roomServiceDelayed, collectionStuck, delayIncident>>
worker == <<pc, service, until, attempt, receipt, read, earned>>
vars   == <<latestDue, received, pending, serviceRounds, allocations,
            guestEntitlements, roomServiceDelayed, collectionStuck,
            delayIncident, pc, service, until, attempt, receipt, read, earned>>

-----------------------------------------------------------------------------
Round == [finalized : BOOLEAN, totalReceived : Nat, pool : Nat, allocated : Nat]
NoRound ==
  [finalized |-> FALSE, totalReceived |-> 0, pool |-> 0, allocated |-> 0]

Label == {"idle", "collect", "verify", "read", "earned", "submit", "resolve",
          "clear", "delay", "incident", "stuck"}

TypeOK ==
  /\ latestDue \in Nat /\ latestDue <= MaxService
  /\ received \in Nat
  /\ pending \in Nat
  /\ serviceRounds \in [Service -> Round]
  /\ allocations \in [Service -> [Guest -> Nat]]
  /\ guestEntitlements \in [Guest -> Nat]
  /\ roomServiceDelayed \in BOOLEAN
  /\ collectionStuck \in BOOLEAN
  /\ delayIncident \in {"none", "open", "overdue"}
  /\ pc \in [Worker -> Label]
  /\ service \in [Worker -> Nat]
  /\ until \in [Worker -> Nat]
  /\ attempt \in [Worker -> Nat]
  /\ receipt \in [Worker -> Nat \cup {NotMined}]
  /\ read \in [Worker -> Nat]
  /\ earned \in [Worker -> Nat]

Init ==
  /\ latestDue = FirstService - 1
  /\ received = 0
  /\ pending = 0
  /\ serviceRounds = [n \in Service |-> NoRound]
  /\ allocations = [n \in Service |-> [g \in Guest |-> 0]]
  /\ guestEntitlements = [g \in Guest |-> 0]
  /\ roomServiceDelayed = FALSE
  /\ collectionStuck = FALSE
  /\ delayIncident = "none"
  /\ pc = [w \in Worker |-> "idle"]
  /\ service = [w \in Worker |-> FirstService]
  /\ until = [w \in Worker |-> FirstService]
  /\ attempt = [w \in Worker |-> 1]
  /\ receipt = [w \in Worker |-> NotMined]
  /\ read = [w \in Worker |-> 0]
  /\ earned = [w \in Worker |-> 0]

-----------------------------------------------------------------------------
(***************************************************************************)
(* Faulty variants of definitions below, one slip each; no action uses     *)
(* them.                                                                   *)
(***************************************************************************)
\* Services are due from the one after the first.
FaultyIsDue(n) == n < latestDue
\* A failed service does not stop the run.
FaultyGoesOn(w, succeeded) == service[w] < until[w]
\* The pool forgets what earlier rounds allocated.
FaultyUnallocated(totalReceived, totalEarned) == totalReceived
\* Clearing a delay forgets collection_stuck.
FaultyStuckAfterClear == collectionStuck
\* The upsert replaces the entitlement instead of adding to it.
FaultyCredit(g, amount) == amount

-----------------------------------------------------------------------------
(* Reads of the database. *)

Finalized == {n \in Service : serviceRounds[n].finalized}

\* MAX(service_number) is n (lastFinalizedServiceNumber).
IsLastFinalized(n) == n \in Finalized /\ \A m \in Finalized : m <= n

\* The first service a run tries (dueServiceNumbers).
IsStart(n) ==
  \/ Finalized = {} /\ n = FirstService
  \/ IsLastFinalized(n - 1)

\* SUM(total_allocated_wei) (totalFinalizedEarnedWei).
TotalFinalizedEarned == Total([n \in Service |-> serviceRounds[n].allocated])

-----------------------------------------------------------------------------
(* Money. *)

Unallocated(totalReceived, totalEarned) == totalReceived - totalEarned

\* Floor of each guest's share; nothing when there is no weight.
ProRata(pool, weight) ==
  [g \in Guest |-> IF Total(weight) = 0 THEN 0
                   ELSE (pool * weight[g]) \div Total(weight)]

\* The upsert of guest_entitlements.
Credit(g, amount) == guestEntitlements[g] + amount

-----------------------------------------------------------------------------
(* The steps of a worker. *)

Goto(w, label) == pc' = [pc EXCEPT ![w] = label]

IsDue(n) == n <= latestDue

\* run(): the due services from the first open one, at most CATCHUP_MAX.
Run(w) ==
  /\ pc[w] = "idle"
  /\ \E n \in Service :
       /\ IsStart(n)
       /\ IsDue(n)
       /\ service' = [service EXCEPT ![w] = n]
       /\ until' = [until EXCEPT ![w] =
                      IF latestDue < n + CATCHUP_MAX THEN latestDue
                      ELSE n + CATCHUP_MAX - 1]
  /\ attempt' = [attempt EXCEPT ![w] = 1]
  /\ Goto(w, "collect")
  /\ UNCHANGED <<chain, rounds, flags, receipt, read, earned>>

\* simulateCollect succeeds, broadcastCollect sends the transaction.
Broadcast(w) ==
  /\ pc[w] = "collect"
  /\ receipt' = [receipt EXCEPT ![w] = NotMined]
  /\ Goto(w, "verify")
  /\ UNCHANGED <<chain, rounds, flags, service, until, attempt, read, earned>>

\* The simulation fails or the receipt is not there in time: the next attempt, or
\* the service is delayed.  A transaction already sent may still be mined.
AttemptFails(w) ==
  /\ pc[w] \in {"collect", "verify"}
  /\ IF attempt[w] < MAX_ATTEMPTS
     THEN /\ attempt' = [attempt EXCEPT ![w] = @ + 1]
          /\ Goto(w, "collect")
     ELSE Goto(w, "delay") /\ UNCHANGED attempt
  /\ UNCHANGED <<chain, rounds, flags, service, until, receipt, read, earned>>

\* verifyReceipt sees one confirmation.
Verify(w) ==
  /\ pc[w] = "verify"
  /\ receipt[w] # NotMined
  /\ Goto(w, "read")
  /\ UNCHANGED <<chain, rounds, flags, service, until, attempt, receipt, read,
                 earned>>

\* readAtBlock(receiptBlock): balance and total claimed at one block.
ReadFinancials(w) ==
  /\ pc[w] = "read"
  /\ read' = [read EXCEPT ![w] = receipt[w]]
  /\ Goto(w, "earned")
  /\ UNCHANGED <<chain, rounds, flags, service, until, attempt, receipt, earned>>

\* totalFinalizedEarnedWei and computeUnallocated, which throws when more was
\* allocated than received.
ReadEarned(w) ==
  /\ pc[w] = "earned"
  /\ TotalFinalizedEarned <= read[w]
  /\ earned' = [earned EXCEPT ![w] = TotalFinalizedEarned]
  /\ Goto(w, "submit")
  /\ UNCHANGED <<chain, rounds, flags, service, until, attempt, receipt, read>>

AlreadyFinalized(n) == n \in Finalized

\* Faulty variant: an upsert without the duplicate and sequence checks.
FaultyFinalizeRound(n, totalReceived, pool, allocation) ==
  /\ Total(allocation) <= pool
  /\ serviceRounds' = [serviceRounds EXCEPT ![n] =
       [finalized |-> TRUE, totalReceived |-> totalReceived, pool |-> pool,
        allocated |-> Total(allocation)]]
  /\ allocations' = [allocations EXCEPT ![n] = allocation]
  /\ guestEntitlements' = [g \in Guest |-> Credit(g, allocation[g])]

\* The transaction of finalize_room_service_round for service n, if it commits.
FinalizeRound(n, totalReceived, pool, allocation) ==
  /\ ~AlreadyFinalized(n)
  /\ Finalized # {} => IsLastFinalized(n - 1)
  /\ Total(allocation) <= pool
  /\ serviceRounds' = [serviceRounds EXCEPT ![n] =
       [finalized |-> TRUE, totalReceived |-> totalReceived, pool |-> pool,
        allocated |-> Total(allocation)]]
  /\ allocations' = [allocations EXCEPT ![n] = allocation]
  /\ guestEntitlements' = [g \in Guest |-> Credit(g, allocation[g])]

\* submitServiceFinalization: the round is written, or somebody wrote it before,
\* which is as good.
Submit(w) ==
  /\ pc[w] = "submit"
  /\ \/ AlreadyFinalized(service[w]) /\ UNCHANGED rounds
     \/ \E weight \in Weights :
          LET pool == Unallocated(read[w], earned[w]) IN
          FinalizeRound(service[w], read[w], pool, ProRata(pool, weight))
  /\ Goto(w, "resolve")
  /\ UNCHANGED <<chain, flags, service, until, attempt, receipt, read, earned>>

\* clearDelay, first statement: the incident is resolved.
ResolveIncident(w) ==
  /\ pc[w] = "resolve"
  /\ delayIncident' = "none"
  /\ Goto(w, "clear")
  /\ UNCHANGED <<chain, rounds, roomServiceDelayed, collectionStuck, service,
                 until, attempt, receipt, read, earned>>

StuckAfterClear == FALSE

\* The loop of run(): the next due service, unless this one failed.
GoesOn(w, succeeded) == succeeded /\ service[w] < until[w]

NextServiceOrIdle(w, succeeded) ==
  IF GoesOn(w, succeeded)
  THEN /\ service' = [service EXCEPT ![w] = @ + 1]
       /\ attempt' = [attempt EXCEPT ![w] = 1]
       /\ Goto(w, "collect")
  ELSE Goto(w, "idle") /\ UNCHANGED <<service, attempt>>

\* clearDelay, second statement: the flags; then the loop of run() goes on.
ClearDelay(w) ==
  /\ pc[w] = "clear"
  /\ roomServiceDelayed' = FALSE
  /\ collectionStuck' = StuckAfterClear
  /\ NextServiceOrIdle(w, TRUE)
  /\ UNCHANGED <<chain, rounds, delayIncident, until, receipt, read, earned>>

\* markDelayed: the flag.
MarkDelayed(w) ==
  /\ pc[w] = "delay"
  /\ roomServiceDelayed' = TRUE
  /\ Goto(w, "incident")
  /\ UNCHANGED <<chain, rounds, collectionStuck, delayIncident, service, until,
                 attempt, receipt, read, earned>>

\* markDelayed: an incident is opened unless one is open.
OpenIncident(w) ==
  /\ pc[w] = "incident"
  /\ delayIncident' = IF delayIncident = "none" THEN "open" ELSE delayIncident
  /\ Goto(w, "stuck")
  /\ UNCHANGED <<chain, rounds, roomServiceDelayed, collectionStuck, service,
                 until, attempt, receipt, read, earned>>

\* markDelayed: collection is stuck when the incident is old enough.
MarkStuck(w) ==
  /\ pc[w] = "stuck"
  /\ collectionStuck' = (collectionStuck \/ delayIncident = "overdue")
  /\ NextServiceOrIdle(w, FALSE)
  /\ UNCHANGED <<chain, rounds, roomServiceDelayed, delayIncident, until,
                 receipt, read, earned>>

\* No snapshot block, an exception of an RPC or of the database, a round refused
\* by the database, or the process dying: the run ends where it is.
Abort(w) ==
  /\ pc[w] # "idle"
  /\ Goto(w, "idle")
  /\ UNCHANGED <<chain, rounds, flags, service, until, attempt, receipt, read,
                 earned>>

-----------------------------------------------------------------------------
(* The chain and the clock. *)

\* A block: it may bring fees and direct transfers, mine some of the workers'
\* collect transactions, and anybody may collect in it.
Mine(fee, direct, mined, collected) ==
  LET inBlock == direct + (IF collected THEN pending + fee ELSE 0) IN
  /\ received + pending + fee + direct <= MaxReceived
  /\ \A w \in mined : pc[w] = "verify" /\ receipt[w] = NotMined
  /\ mined # {} => collected
  /\ received' = received + inBlock
  /\ pending' = IF collected THEN 0 ELSE pending + fee
  /\ receipt' = [w \in Worker |-> IF w \in mined THEN received + inBlock
                                  ELSE receipt[w]]
  /\ UNCHANGED <<latestDue, rounds, flags, pc, service, until, attempt, read,
                 earned>>

\* The boundary of the next service passes.
BoundaryPasses ==
  /\ latestDue < MaxService
  /\ latestDue' = latestDue + 1
  /\ UNCHANGED <<received, pending, rounds, flags, worker>>

\* COLLECTION_STUCK_AFTER_MS passes after the incident was opened.
IncidentAges ==
  /\ delayIncident = "open"
  /\ delayIncident' = "overdue"
  /\ UNCHANGED <<chain, rounds, roomServiceDelayed, collectionStuck, worker>>

-----------------------------------------------------------------------------
WorkerStep(w) ==
  \/ Run(w) \/ Broadcast(w) \/ AttemptFails(w) \/ Verify(w)
  \/ ReadFinancials(w) \/ ReadEarned(w) \/ Submit(w)
  \/ ResolveIncident(w) \/ ClearDelay(w)
  \/ MarkDelayed(w) \/ OpenIncident(w) \/ MarkStuck(w)
  \/ Abort(w)

ChainStep ==
  \/ \E fee, direct \in Fee, mined \in SUBSET Worker, collected \in BOOLEAN :
       Mine(fee, direct, mined, collected)
  \/ BoundaryPasses
  \/ IncidentAges

Next == (\E w \in Worker : WorkerStep(w)) \/ ChainStep

Spec == Init /\ [][Next]_vars

\* The poll loop runs every minute and every call it makes that is tried again
\* and again succeeds again and again; a transaction waiting to be mined is mined.
FairSpec ==
  /\ Spec
  /\ \A w \in Worker :
       /\ WF_vars(Run(w))
       /\ SF_vars(Broadcast(w))
       /\ SF_vars(Mine(0, 0, {w}, TRUE))
       /\ SF_vars(Verify(w))
       /\ SF_vars(ReadFinancials(w))
       /\ SF_vars(ReadEarned(w))
       /\ SF_vars(Submit(w))
       /\ SF_vars(ResolveIncident(w))
       /\ SF_vars(ClearDelay(w))
       /\ WF_vars(MarkDelayed(w) \/ OpenIncident(w) \/ MarkStuck(w))

-----------------------------------------------------------------------------
(* Properties. *)

\* Service numbers are finalized without a gap from the first service on, though
\* the SQL function accepts any number as the first.
RoundsContiguous ==
  \A n \in Finalized : \A m \in FirstService .. n : m \in Finalized

\* The rounds before n allocated this much.
EarnedBefore(n) ==
  Total([m \in Service |-> IF m < n THEN serviceRounds[m].allocated ELSE 0])

\* The pool of every round is what the contract had received, as read for that
\* round, less exactly what all earlier rounds allocated: no worker finalizes
\* on a stale sum, so no wei is allocated twice.
PoolIsUnallocated ==
  \A n \in Finalized :
    serviceRounds[n].totalReceived = serviceRounds[n].pool + EarnedBefore(n)

\* The contract has received everything the guests have been allocated.
Solvent == TotalFinalizedEarned <= received

\* What a guest has earned is the sum of the guest's allocations over all rounds.
EntitlementsMatchRounds ==
  \A g \in Guest :
    guestEntitlements[g] = Total([n \in Service |-> allocations[n][g]])

\* What the guests may claim all together is what the rounds allocated.
EntitlementsAddUp == Total(guestEntitlements) = TotalFinalizedEarned

\* The inductive invariant.  A round is blank until it is finalized; a worker only
\* works on a service whose predecessors are all finalized; and while its service
\* is still open nobody can have finalized another, so the sum it read is the sum.
BlankUntilFinalized ==
  \A n \in Service \ Finalized :
    /\ serviceRounds[n].allocated = 0
    /\ \A g \in Guest : allocations[n][g] = 0

WorkerInv(w) ==
  /\ pc[w] # "idle" =>
       /\ service[w] \in Service
       /\ until[w] <= MaxService
       /\ \A m \in FirstService .. (service[w] - 1) : m \in Finalized
  /\ pc[w] \in {"resolve", "clear"} => service[w] \in Finalized
  /\ receipt[w] # NotMined => receipt[w] <= received
  /\ pc[w] = "read" => receipt[w] # NotMined
  /\ pc[w] \in {"earned", "submit"} => read[w] <= received
  /\ pc[w] = "submit" =>
       /\ earned[w] <= read[w]
       /\ service[w] \in Finalized \/ earned[w] = TotalFinalizedEarned

LedgerInv ==
  /\ RoundsContiguous
  /\ BlankUntilFinalized
  /\ PoolIsUnallocated
  /\ Solvent
  /\ EntitlementsMatchRounds
  /\ EntitlementsAddUp

IInv == TypeOK /\ LedgerInv /\ \A w \in Worker : WorkerInv(w)

\* A finalized round and its allocations never change, and no entitlement falls.
KeepsHistory ==
  /\ \A n \in Finalized : /\ serviceRounds'[n] = serviceRounds[n]
                          /\ allocations'[n] = allocations[n]
  /\ \A g \in Guest : guestEntitlements'[g] >= guestEntitlements[g]

RoundsAreImmutable == [][KeepsHistory]_vars

\* Any number of workers keep the pipeline's half of the promise of Room Service:
\* wei arrive and guests earn, never less than before, out of what has arrived.
Earnings == INSTANCE PayoutLedger WITH
  earned <- guestEntitlements, paid <- [g \in Guest |-> 0]

ImplementsEarnings == Earnings!Spec

\* With one worker, however often it dies half way through marking or clearing a
\* delay, collection is never shown as stuck while service is not delayed.
StuckIsDelayed == collectionStuck => roomServiceDelayed

\* The strengthening: a worker about to look at the incident has set the flag.
DelayInv ==
  /\ StuckIsDelayed
  /\ \A w \in Worker : pc[w] \in {"incident", "stuck"} => roomServiceDelayed

\* Every service that becomes due is finalized in the end.
DueServicesAreFinalized ==
  \A n \in Service : latestDue >= n ~> n \in Finalized

=============================================================================
