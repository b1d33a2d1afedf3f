------------------------- MODULE ServiceRounds_proofs -------------------------
(***************************************************************************)
(* Theorems about the finalization of Room Service, for any number of      *)
(* workers, guests, services and fees, with workers failing anywhere.      *)
(***************************************************************************)
EXTENDS ServiceRounds, Totals_proofs

LEMMA ServiceFinite == IsFiniteSet(Service) /\ Service \subseteq Nat
BY ServiceRoundsAssumption, FS_Interval DEF Service

\* Shares are natural numbers.
LEMMA ProRataType ==
  ASSUME NEW pool \in Nat, NEW weight \in [Guest -> Nat]
  PROVE  ProRata(pool, weight) \in [Guest -> Nat]
<1>. DEFINE T == Total(weight)
<1>1. T \in Nat
  BY ServiceRoundsAssumption, TotalType
<1>2. ASSUME NEW g \in Guest, T # 0
      PROVE  (pool * weight[g]) \div T \in Nat
  <2>. DEFINE a == pool * weight[g]
  <2>1. a \in Nat
    OBVIOUS
  <2>. HIDE DEF a, T
  <2>. QED
    BY <1>1, <1>2, <2>1
<1>. QED
  BY <1>2 DEF ProRata

\* The sum of what the rounds allocated is a natural number.
LEMMA EarnedType ==
  ASSUME TypeOK
  PROVE  /\ TotalFinalizedEarned \in Nat
         /\ [n \in Service |-> serviceRounds[n].allocated] \in [Service -> Nat]
<1>1. [n \in Service |-> serviceRounds[n].allocated] \in [Service -> Nat]
  BY DEF TypeOK, Round
<1>. QED
  BY <1>1, ServiceFinite, TotalType DEF TotalFinalizedEarned

\* The initial state satisfies the inductive invariant.
LEMMA InitIInv == Init => IInv
<1>. SUFFICES ASSUME Init PROVE IInv
  OBVIOUS
<1>. USE ServiceRoundsAssumption DEF Init
<1>1. Finalized = {}
  BY DEF Finalized, NoRound
<1>2. TypeOK
  <2>1. latestDue \in Nat /\ latestDue <= MaxService
    OBVIOUS
  <2>2. serviceRounds \in [Service -> Round]
    BY DEF Round, NoRound
  <2>3. allocations \in [Service -> [Guest -> Nat]]
    OBVIOUS
  <2>4. pc \in [Worker -> Label]
    BY DEF Label
  <2>. QED
    BY <2>1, <2>2, <2>3, <2>4 DEF TypeOK
<1>3. RoundsContiguous /\ PoolIsUnallocated
  BY <1>1 DEF RoundsContiguous, PoolIsUnallocated
<1>4. BlankUntilFinalized
  BY DEF BlankUntilFinalized, NoRound
<1>5. Solvent
  <2>1. [n \in Service |-> serviceRounds[n].allocated] = [n \in Service |-> 0]
    BY DEF NoRound
  <2>. QED
    BY <2>1, TotalZero DEF Solvent, TotalFinalizedEarned
<1>6. EntitlementsMatchRounds
  <2>. SUFFICES ASSUME NEW g \in Guest
                PROVE  guestEntitlements[g]
                         = Total([n \in Service |-> allocations[n][g]])
    BY DEF EntitlementsMatchRounds
  <2>1. [n \in Service |-> allocations[n][g]] = [n \in Service |-> 0]
    OBVIOUS
  <2>. QED
    BY <2>1, TotalZero
<1>7. EntitlementsAddUp
  <2>1. [n \in Service |-> serviceRounds[n].allocated] = [n \in Service |-> 0]
    BY DEF NoRound
  <2>. QED
    BY <2>1, TotalZero DEF EntitlementsAddUp, TotalFinalizedEarned
<1>8. \A w \in Worker : WorkerInv(w)
  BY DEF WorkerInv
<1>. QED
  BY <1>2, <1>3, <1>4, <1>5, <1>6, <1>7, <1>8 DEF IInv, LedgerInv

\* A step that writes no round keeps everything said of the rounds, as long as
\* what was received does not fall.
LEMMA LedgerKept ==
  ASSUME TypeOK, LedgerInv, UNCHANGED rounds, received' \in Nat,
         received <= received'
  PROVE  /\ LedgerInv'
         /\ Finalized' = Finalized
         /\ TotalFinalizedEarned' = TotalFinalizedEarned
<1>. USE DEF rounds
<1>1. Finalized' = Finalized
  BY DEF Finalized
<1>2. TotalFinalizedEarned' = TotalFinalizedEarned
  BY DEF TotalFinalizedEarned
<1>3. Solvent'
  BY <1>2, EarnedType DEF LedgerInv, Solvent, TypeOK
<1>4. RoundsContiguous' /\ BlankUntilFinalized'
  BY <1>1 DEF LedgerInv, RoundsContiguous, BlankUntilFinalized
<1>5. PoolIsUnallocated' /\ EntitlementsMatchRounds'
  BY <1>1 DEF LedgerInv, PoolIsUnallocated, EarnedBefore, EntitlementsMatchRounds
<1>6. EntitlementsAddUp'
  BY <1>2 DEF LedgerInv, EntitlementsAddUp
<1>. QED
  BY <1>1, <1>2, <1>3, <1>4, <1>5, <1>6 DEF LedgerInv

\* The steps of a worker that touch neither the rounds nor the chain.
LEMMA QuietStep ==
  ASSUME IInv, NEW w \in Worker,
         \/ Run(w) \/ Broadcast(w) \/ AttemptFails(w) \/ Verify(w)
         \/ ReadFinancials(w) \/ ReadEarned(w)
         \/ ResolveIncident(w) \/ ClearDelay(w)
         \/ MarkDelayed(w) \/ OpenIncident(w) \/ MarkStuck(w)
         \/ Abort(w)
  PROVE  IInv'
<1>. USE ServiceRoundsAssumption, ServiceFinite
     DEF IInv, chain, flags, Goto, GoesOn, NextServiceOrIdle
<1>1. UNCHANGED rounds /\ UNCHANGED received
  BY DEF Run, Broadcast, AttemptFails, Verify, ReadFinancials, ReadEarned,
         ResolveIncident, ClearDelay, MarkDelayed, OpenIncident, MarkStuck, Abort
<1>2. LedgerInv' /\ Finalized' = Finalized
      /\ TotalFinalizedEarned' = TotalFinalizedEarned
  <2>1. received' \in Nat /\ received <= received'
    BY <1>1 DEF TypeOK
  <2>. QED
    BY <1>1, <2>1, LedgerKept
<1>3. TypeOK' /\ \A v \in Worker : WorkerInv(v)'
  <2>. USE <1>1, <1>2 DEF rounds
  <2>1. CASE Run(w)
    <3>1. PICK n \in Service :
            /\ IsStart(n) /\ IsDue(n)
            /\ service' = [service EXCEPT ![w] = n]
            /\ until' = [until EXCEPT ![w] =
                           IF latestDue < n + CATCHUP_MAX THEN latestDue
                           ELSE n + CATCHUP_MAX - 1]
      BY <2>1 DEF Run
    <3>2. \A m \in FirstService .. (n - 1) : m \in Finalized
      BY <3>1 DEF IsStart, IsLastFinalized, LedgerInv, RoundsContiguous
    <3>3. until'[w] \in Nat /\ until'[w] <= MaxService
      BY <3>1 DEF TypeOK
    <3>4. TypeOK'
      BY <2>1, <3>1, <3>3 DEF Run, TypeOK, Label
    <3>5. ASSUME NEW v \in Worker
          PROVE  WorkerInv(v)'
      BY <2>1, <3>1, <3>2, <3>3 DEF Run, TypeOK, WorkerInv
    <3>. QED
      BY <3>4, <3>5
  <2>2. CASE Broadcast(w)
    BY <2>2 DEF Broadcast, TypeOK, Label, WorkerInv
  <2>3. CASE AttemptFails(w)
    BY <2>3 DEF AttemptFails, TypeOK, Label, WorkerInv
  <2>4. CASE Verify(w)
    BY <2>4 DEF Verify, TypeOK, Label, WorkerInv
  <2>5. CASE ReadFinancials(w)
    BY <2>5 DEF ReadFinancials, TypeOK, Label, WorkerInv
  <2>6. CASE ReadEarned(w)
    BY <2>6, EarnedType DEF ReadEarned, TypeOK, Label, WorkerInv
  <2>7. CASE ResolveIncident(w)
    BY <2>7 DEF ResolveIncident, TypeOK, Label, WorkerInv
  <2>8. CASE ClearDelay(w)
    <3>1. TypeOK'
      <4>1. /\ service' \in [Worker -> Nat] /\ attempt' \in [Worker -> Nat]
            /\ pc' \in [Worker -> Label]
        BY <2>8 DEF ClearDelay, TypeOK, Label
      <4>2. roomServiceDelayed' \in BOOLEAN /\ collectionStuck' \in BOOLEAN
        BY <2>8 DEF ClearDelay, StuckAfterClear
      <4>. QED
        BY <2>8, <4>1, <4>2 DEF ClearDelay, TypeOK
    <3>2. ASSUME NEW v \in Worker
          PROVE  WorkerInv(v)'
      <4>1. CASE service[w] < until[w] /\ v = w
        <5>1. /\ service[w] \in Service /\ until[w] <= MaxService
              /\ service[w] \in Finalized
              /\ \A m \in FirstService .. (service[w] - 1) : m \in Finalized
          BY <2>8 DEF ClearDelay, WorkerInv
        <5>2. service'[w] = service[w] + 1 /\ until' = until /\ pc'[w] = "collect"
              /\ receipt' = receipt
          BY <2>8, <4>1 DEF ClearDelay, TypeOK
        <5>3. service[w] + 1 \in Service
          BY <5>1, <4>1 DEF Service, TypeOK
        <5>4. \A m \in FirstService .. service[w] : m \in Finalized
          BY <5>1 DEF Service
        <5>5. service[w] \in Nat
          BY DEF TypeOK
        <5>. QED
          BY <4>1, <5>1, <5>2, <5>3, <5>4, <5>5 DEF WorkerInv
      <4>2. CASE ~(service[w] < until[w]) \/ v # w
        BY <2>8, <4>2 DEF ClearDelay, TypeOK, WorkerInv
      <4>. QED
        BY <4>1, <4>2
    <3>. QED
      BY <3>1, <3>2
  <2>9. CASE MarkDelayed(w)
    BY <2>9 DEF MarkDelayed, TypeOK, Label, WorkerInv
  <2>10. CASE OpenIncident(w)
    BY <2>10 DEF OpenIncident, TypeOK, Label, WorkerInv
  <2>11. CASE MarkStuck(w)
    BY <2>11 DEF MarkStuck, TypeOK, Label, WorkerInv
  <2>12. CASE Abort(w)
    BY <2>12 DEF Abort, TypeOK, Label, WorkerInv
  <2>. QED
    BY <2>1, <2>2, <2>3, <2>4, <2>5, <2>6, <2>7, <2>8, <2>9, <2>10, <2>11, <2>12
<1>. QED
  BY <1>2, <1>3

\* Writing the round of the first open service, from a sum that is up to date,
\* keeps everything said of the rounds.
LEMMA RoundWritten ==
  ASSUME TypeOK, LedgerInv, NEW n \in Service,
         \A m \in FirstService .. (n - 1) : m \in Finalized,
         NEW totalReceived \in Nat, NEW pool \in Nat,
         totalReceived = pool + TotalFinalizedEarned,
         totalReceived <= received, received' = received,
         NEW allocation \in [Guest -> Nat],
         FinalizeRound(n, totalReceived, pool, allocation)
  PROVE  /\ LedgerInv'
         /\ Finalized' = Finalized \cup {n}
         /\ serviceRounds' \in [Service -> Round]
         /\ allocations' \in [Service -> [Guest -> Nat]]
         /\ guestEntitlements' \in [Guest -> Nat]
<1>. USE ServiceRoundsAssumption, ServiceFinite
<1>. DEFINE sum == Total(allocation)
            new == [finalized |-> TRUE, totalReceived |-> totalReceived,
                    pool |-> pool, allocated |-> sum]
            amounts == [m \in Service |-> serviceRounds[m].allocated]
<1>1. sum \in Nat /\ sum <= pool
  BY TotalType DEF FinalizeRound
<1>2. new \in Round
  BY <1>1 DEF Round
<1>3. /\ n \notin Finalized
      /\ serviceRounds' = [serviceRounds EXCEPT ![n] = new]
      /\ allocations' = [allocations EXCEPT ![n] = allocation]
      /\ guestEntitlements' = [g \in Guest |-> guestEntitlements[g] + allocation[g]]
  BY DEF FinalizeRound, AlreadyFinalized, Credit
<1>4. /\ serviceRounds' \in [Service -> Round]
      /\ allocations' \in [Service -> [Guest -> Nat]]
      /\ guestEntitlements' \in [Guest -> Nat]
  <2>. HIDE DEF new
  <2>. QED
    BY <1>2, <1>3 DEF TypeOK
<1>5. /\ new.finalized = TRUE /\ new.allocated = sum /\ new.pool = pool
      /\ new.totalReceived = totalReceived
      /\ serviceRounds'[n] = new
      /\ \A m \in Service : m # n => serviceRounds'[m] = serviceRounds[m]
  BY <1>3 DEF TypeOK
<1>6. Finalized' = Finalized \cup {n}
  <2>. HIDE DEF new
  <2>. QED
    BY <1>5 DEF Finalized
<1>7. \A m \in Finalized : m < n
  BY <1>3 DEF LedgerInv, RoundsContiguous, Service, Finalized
<1>8. \A m \in Service \ Finalized : serviceRounds[m].allocated = 0
  BY DEF LedgerInv, BlankUntilFinalized
<1>9. amounts \in [Service -> Nat] /\ TotalFinalizedEarned = Total(amounts)
      /\ TotalFinalizedEarned \in Nat
  BY EarnedType DEF TotalFinalizedEarned
<1>10. TotalFinalizedEarned' = TotalFinalizedEarned + sum
  <2>1. [m \in Service |-> serviceRounds'[m].allocated]
          = [amounts EXCEPT ![n] = sum]
    <3>. HIDE DEF new, sum
    <3>. QED
      BY <1>5
  <2>2. amounts[n] = 0
    BY <1>3, <1>8
  <2>3. Total([amounts EXCEPT ![n] = sum]) = (Total(amounts) - amounts[n]) + sum
    <3>. HIDE DEF amounts, sum
    <3>. QED
      BY ONLY <1>1, <1>9, ServiceFinite, TotalUpdate, n \in Service
  <2>4. TotalFinalizedEarned' = Total([m \in Service |-> serviceRounds'[m].allocated])
    BY DEF TotalFinalizedEarned
  <2>. HIDE DEF amounts, sum
  <2>. QED
    BY <1>1, <1>9, <2>1, <2>2, <2>3, <2>4
<1>11. RoundsContiguous'
  BY <1>6 DEF LedgerInv, RoundsContiguous, Service
<1>12. BlankUntilFinalized'
  <2>. HIDE DEF new
  <2>. QED
    BY <1>3, <1>5, <1>6 DEF LedgerInv, BlankUntilFinalized, TypeOK
<1>13. PoolIsUnallocated'
  <2>. SUFFICES ASSUME NEW m \in Finalized'
                PROVE  serviceRounds'[m].totalReceived
                         = serviceRounds'[m].pool + EarnedBefore(m)'
    BY DEF PoolIsUnallocated
  <2>1. CASE m = n
    <3>1. [k \in Service |-> IF k < n THEN serviceRounds'[k].allocated ELSE 0]
            = amounts
      <4>1. ASSUME NEW k \in Service, ~(k < n)
            PROVE  serviceRounds[k].allocated = 0
        BY <4>1, <1>7, <1>8
      <4>2. ASSUME NEW k \in Service, k < n
            PROVE  serviceRounds'[k] = serviceRounds[k]
        BY <4>2, <1>5
      <4>. QED
        BY <4>1, <4>2
    <3>2. EarnedBefore(n)' = Total(amounts)
      BY <3>1 DEF EarnedBefore
    <3>. HIDE DEF amounts, new
    <3>. QED
      BY <2>1, <3>2, <1>5, <1>9
  <2>2. CASE m # n
    <3>1. m \in Finalized /\ m \in Service
      BY <2>2, <1>6 DEF Finalized
    <3>2. \A k \in Service : k < m => serviceRounds'[k] = serviceRounds[k]
      <4>1. m < n
        BY <3>1, <1>7
      <4>2. m \in Nat /\ n \in Nat /\ Service \subseteq Nat
        BY <3>1
      <4>3. \A k \in Service : k < m => k # n
        BY ONLY <4>1, <4>2
      <4>. QED
        BY <4>3, <1>5
    <3>3. EarnedBefore(m)' = EarnedBefore(m)
      <4>1. [k \in Service |-> IF k < m THEN serviceRounds'[k].allocated ELSE 0]
              = [k \in Service |-> IF k < m THEN serviceRounds[k].allocated ELSE 0]
        BY <3>2
      <4>. QED
        BY <4>1 DEF EarnedBefore
    <3>4. serviceRounds'[m] = serviceRounds[m]
      BY <3>1, <2>2, <1>5
    <3>. QED
      BY <3>1, <3>3, <3>4 DEF LedgerInv, PoolIsUnallocated
  <2>. QED
    BY <2>1, <2>2
<1>14. Solvent'
  <2>. HIDE DEF sum
  <2>. QED
    BY <1>1, <1>9, <1>10 DEF Solvent, TypeOK
<1>15. EntitlementsMatchRounds'
  <2>. SUFFICES ASSUME NEW g \in Guest
                PROVE  guestEntitlements'[g]
                         = Total([m \in Service |-> allocations'[m][g]])
    BY DEF EntitlementsMatchRounds
  <2>. DEFINE mine == [m \in Service |-> allocations[m][g]]
              share == allocation[g]
  <2>1. mine \in [Service -> Nat] /\ guestEntitlements[g] = Total(mine)
    BY DEF TypeOK, LedgerInv, EntitlementsMatchRounds
  <2>2. [m \in Service |-> allocations'[m][g]]
          = [mine EXCEPT ![n] = share]
    BY <1>3 DEF TypeOK
  <2>3. mine[n] = 0
    BY <1>3 DEF LedgerInv, BlankUntilFinalized
  <2>4. share \in Nat
    OBVIOUS
  <2>. HIDE DEF mine, share
  <2>5. Total(mine) \in Nat
    <3>1. mine \in [Service -> Nat] /\ IsFiniteSet(Service)
      BY <2>1
    <3>. QED
      BY ONLY <3>1, TotalType
  <2>6. Total([mine EXCEPT ![n] = share]) = (Total(mine) - mine[n]) + share
    <3>1. mine \in [Service -> Nat] /\ IsFiniteSet(Service)
      BY <2>1
    <3>. QED
      BY ONLY <3>1, <2>4, TotalUpdate, n \in Service
  <2>7. guestEntitlements'[g] = guestEntitlements[g] + share
    BY <1>3 DEF share
  <2>. QED
    BY <2>1, <2>2, <2>3, <2>4, <2>5, <2>6, <2>7
<1>16. EntitlementsAddUp'
  <2>1. guestEntitlements \in [Guest -> Nat] /\ IsFiniteSet(Guest)
        /\ allocation \in [Guest -> Nat]
    BY DEF TypeOK
  <2>2. Total([g \in Guest |-> guestEntitlements[g] + allocation[g]])
          = Total(guestEntitlements) + Total(allocation)
    BY ONLY <2>1, TotalSum
  <2>3. Total(guestEntitlements') = Total(guestEntitlements) + sum
    BY <1>3, <2>2
  <2>4. Total(guestEntitlements) = TotalFinalizedEarned
    BY DEF LedgerInv, EntitlementsAddUp
  <2>. HIDE DEF sum
  <2>. QED
    BY <1>10, <2>3, <2>4 DEF EntitlementsAddUp
<1>. QED
  BY <1>4, <1>6, <1>11, <1>12, <1>13, <1>14, <1>15, <1>16 DEF LedgerInv

\* A submission finalizes the worker's service or finds it finalized; a worker
\* that was about to submit the same service finds it finalized from then on, and
\* none can be about to submit another.
LEMMA SubmitStep ==
  ASSUME IInv, NEW w \in Worker, Submit(w)
  PROVE  IInv'
<1>. USE ServiceRoundsAssumption, ServiceFinite DEF IInv, chain, flags, Goto
<1>. DEFINE n == service[w]
<1>1. /\ pc[w] = "submit" /\ pc' = [pc EXCEPT ![w] = "resolve"]
      /\ UNCHANGED <<latestDue, received, pending, roomServiceDelayed,
                     collectionStuck, delayIncident, service, until, attempt,
                     receipt, read, earned>>
  BY DEF Submit
<1>2. /\ n \in Service
      /\ until[w] <= MaxService
      /\ \A m \in FirstService .. (n - 1) : m \in Finalized
      /\ read[w] \in Nat /\ earned[w] \in Nat /\ received \in Nat
      /\ earned[w] <= read[w] /\ read[w] <= received
      /\ n \in Finalized \/ earned[w] = TotalFinalizedEarned
  BY <1>1 DEF WorkerInv, TypeOK
<1>3. CASE AlreadyFinalized(n) /\ UNCHANGED rounds
  <2>1. LedgerInv' /\ Finalized' = Finalized
        /\ TotalFinalizedEarned' = TotalFinalizedEarned
    <3>1. received' \in Nat /\ received <= received'
      BY <1>1, <1>2
    <3>. QED
      BY <1>3, <3>1, LedgerKept
  <2>2. TypeOK'
    BY <1>1, <1>3 DEF TypeOK, Label, rounds
  <2>3. ASSUME NEW v \in Worker
        PROVE  WorkerInv(v)'
    BY <1>1, <1>3, <2>1 DEF WorkerInv, TypeOK, AlreadyFinalized
  <2>. QED
    BY <2>1, <2>2, <2>3
<1>4. ASSUME NEW weight \in Weights,
             FinalizeRound(n, read[w], Unallocated(read[w], earned[w]),
                           ProRata(Unallocated(read[w], earned[w]), weight))
      PROVE  IInv'
  <2>. DEFINE pool == Unallocated(read[w], earned[w])
              allocation == ProRata(pool, weight)
  <2>1. n \notin Finalized /\ earned[w] = TotalFinalizedEarned
    BY <1>2, <1>4 DEF FinalizeRound, AlreadyFinalized
  <2>2. pool \in Nat /\ read[w] = pool + TotalFinalizedEarned
    BY <1>2, <2>1 DEF Unallocated
  <2>3. allocation \in [Guest -> Nat]
    <3>1. weight \in [Guest -> Nat]
      OBVIOUS
    <3>. HIDE DEF pool
    <3>. QED
      BY <2>2, <3>1, ProRataType
  <2>4. /\ LedgerInv'
        /\ Finalized' = Finalized \cup {n}
        /\ serviceRounds' \in [Service -> Round]
        /\ allocations' \in [Service -> [Guest -> Nat]]
        /\ guestEntitlements' \in [Guest -> Nat]
    <3>1. FinalizeRound(n, read[w], pool, allocation)
      BY <1>4
    <3>2. TypeOK /\ LedgerInv /\ received' = received
      BY <1>1
    <3>. HIDE DEF pool, allocation, n
    <3>. QED
      BY ONLY <1>2, <2>2, <2>3, <3>1, <3>2, RoundWritten
  <2>5. TypeOK'
    BY <1>1, <2>4 DEF TypeOK, Label
  <2>6. ASSUME NEW v \in Worker
        PROVE  WorkerInv(v)'
    <3>1. CASE v = w
      BY <1>1, <1>2, <2>4, <3>1 DEF WorkerInv, TypeOK
    <3>2. CASE v # w
      <4>1. pc'[v] = pc[v] /\ service'[v] = service[v]
        BY <1>1, <3>2 DEF TypeOK
      <4>2. ASSUME pc[v] = "submit"
            PROVE  service[v] \in Finalized'
        <5>1. /\ service[v] \in Service /\ service[v] \in Nat
              /\ \A m \in FirstService .. (service[v] - 1) : m \in Finalized
          BY <4>2 DEF WorkerInv
        <5>2. CASE service[v] < n
          BY <1>2, <2>4, <5>1, <5>2 DEF Service
        <5>3. CASE service[v] = n
          BY <2>4, <5>3
        <5>4. CASE service[v] > n
          BY <1>2, <2>1, <5>1, <5>4 DEF Service
        <5>5. n \in Nat
          BY <1>2
        <5>. QED
          BY ONLY <5>1, <5>2, <5>3, <5>4, <5>5
      <4>. QED
        BY <1>1, <2>4, <4>1, <4>2 DEF WorkerInv
    <3>. QED
      BY <3>1, <3>2
  <2>. QED
    BY <2>4, <2>5, <2>6
<1>. QED
  BY <1>3, <1>4 DEF Submit

\* The chain and the clock.
LEMMA ChainStepIInv ==
  ASSUME IInv, ChainStep
  PROVE  IInv'
<1>. USE ServiceRoundsAssumption, ServiceFinite
     DEF IInv, chain, flags, worker, rounds
<1>1. UNCHANGED rounds
  BY DEF ChainStep, Mine, BoundaryPasses, IncidentAges
<1>2. received' \in Nat /\ received <= received'
  BY DEF ChainStep, Mine, BoundaryPasses, IncidentAges, TypeOK
<1>3. LedgerInv' /\ Finalized' = Finalized
      /\ TotalFinalizedEarned' = TotalFinalizedEarned
  BY <1>1, <1>2, LedgerKept
<1>4. TypeOK' /\ \A v \in Worker : WorkerInv(v)'
  <2>1. ASSUME NEW fee \in Fee, NEW direct \in Fee, NEW mined \in SUBSET Worker,
               NEW collected \in BOOLEAN, Mine(fee, direct, mined, collected)
        PROVE  TypeOK' /\ \A v \in Worker : WorkerInv(v)'
    <3>1. /\ receipt' = [v \in Worker |-> IF v \in mined THEN received'
                                          ELSE receipt[v]]
          /\ pending' \in Nat
          /\ UNCHANGED <<latestDue, serviceRounds, allocations, guestEntitlements,
                         roomServiceDelayed, collectionStuck, delayIncident, pc,
                         service, until, attempt, read, earned>>
          /\ \A v \in mined : pc[v] = "verify"
      BY <2>1 DEF Mine, TypeOK
    <3>2. TypeOK'
      BY <1>2, <3>1 DEF TypeOK
    <3>3. ASSUME NEW v \in Worker
          PROVE  WorkerInv(v)'
      BY <1>2, <1>3, <3>1 DEF WorkerInv, TypeOK
    <3>. QED
      BY <3>2, <3>3
  <2>2. CASE BoundaryPasses
    BY <2>2, <1>3 DEF BoundaryPasses, TypeOK, WorkerInv
  <2>3. CASE IncidentAges
    BY <2>3, <1>3 DEF IncidentAges, TypeOK, WorkerInv
  <2>. QED
    BY <2>1, <2>2, <2>3 DEF ChainStep
<1>. QED
  BY <1>3, <1>4

\* Every step of the specification keeps the inductive invariant.
LEMMA StepIInv == IInv /\ [Next]_vars => IInv'
<1>. SUFFICES ASSUME IInv, [Next]_vars PROVE IInv'
  OBVIOUS
<1>1. CASE \E w \in Worker : WorkerStep(w)
  BY <1>1, QuietStep, SubmitStep DEF WorkerStep
<1>2. CASE ChainStep
  BY <1>2, ChainStepIInv
<1>3. CASE UNCHANGED vars
  <2>1. TypeOK'
    BY <1>3 DEF vars, IInv, TypeOK
  <2>2. LedgerInv' /\ Finalized' = Finalized
        /\ TotalFinalizedEarned' = TotalFinalizedEarned
    BY <1>3, LedgerKept DEF vars, rounds, IInv, TypeOK
  <2>3. \A v \in Worker : WorkerInv(v)'
    BY <1>3, <2>2 DEF vars, IInv, WorkerInv
  <2>. QED
    BY <2>1, <2>2, <2>3 DEF IInv
<1>. QED
  BY <1>1, <1>2, <1>3 DEF Next

THEOREM InductiveInvariant == Spec => []IInv
BY InitIInv, StepIInv, PTL DEF Spec

\* Type correctness.
THEOREM TypeCorrect == Spec => []TypeOK
BY InductiveInvariant, PTL DEF IInv

\* Whatever the workers do, the contract has received all the guests were
\* allocated.
THEOREM Solvency == Spec => []Solvent
BY InductiveInvariant, PTL DEF IInv, LedgerInv

\* No round is computed from a stale sum: no wei is allocated in two rounds.
THEOREM PoolsAreUnallocated == Spec => []PoolIsUnallocated
BY InductiveInvariant, PTL DEF IInv, LedgerInv

\* Services are finalized without a gap.
THEOREM ServicesAreContiguous == Spec => []RoundsContiguous
BY InductiveInvariant, PTL DEF IInv, LedgerInv

\* Entitlements are the sums of the allocations.
THEOREM EntitlementsAreSums == Spec => []EntitlementsMatchRounds
BY InductiveInvariant, PTL DEF IInv, LedgerInv

\* A step keeps the finalized rounds, and no entitlement falls.
LEMMA HistoryKept ==
  ASSUME IInv, [Next]_vars
  PROVE  [KeepsHistory]_vars
<1>1. CASE UNCHANGED rounds
  BY <1>1 DEF KeepsHistory, rounds, IInv, TypeOK
<1>2. ASSUME NEW w \in Worker, NEW weight \in Weights,
             pc[w] = "submit",
             FinalizeRound(service[w], read[w], Unallocated(read[w], earned[w]),
                           ProRata(Unallocated(read[w], earned[w]), weight))
      PROVE  KeepsHistory
  <2>. DEFINE pool == Unallocated(read[w], earned[w])
              allocation == ProRata(pool, weight)
  <2>1. pool \in Nat
    BY <1>2 DEF IInv, WorkerInv, TypeOK, Unallocated
  <2>2. allocation \in [Guest -> Nat]
    <3>1. weight \in [Guest -> Nat]
      BY ServiceRoundsAssumption
    <3>. HIDE DEF pool
    <3>. QED
      BY <2>1, <3>1, ProRataType
  <2>3. \A g \in Guest : guestEntitlements'[g] = guestEntitlements[g] + allocation[g]
    BY <1>2 DEF FinalizeRound, Credit
  <2>4. \A n \in Finalized : n # service[w]
    BY <1>2 DEF FinalizeRound, AlreadyFinalized
  <2>5. \A n \in Finalized : /\ serviceRounds'[n] = serviceRounds[n]
                             /\ allocations'[n] = allocations[n]
    BY <1>2, <2>4 DEF FinalizeRound, IInv, TypeOK, Finalized
  <2>6. \A g \in Guest : guestEntitlements[g] \in Nat
    BY DEF IInv, TypeOK
  <2>. HIDE DEF allocation
  <2>. QED
    BY <2>2, <2>3, <2>5, <2>6 DEF KeepsHistory
<1>3. \/ UNCHANGED rounds
      \/ \E w \in Worker : Submit(w)
  BY DEF Next, WorkerStep, ChainStep, Run, Broadcast, AttemptFails, Verify,
       ReadFinancials, ReadEarned, ResolveIncident, ClearDelay, MarkDelayed,
       OpenIncident, MarkStuck, Abort, Mine, BoundaryPasses, IncidentAges, vars,
       rounds
<1>. QED
  BY <1>1, <1>2, <1>3 DEF Submit

\* History is not rewritten, whichever worker writes.
THEOREM HistoryIsImmutable == Spec => RoundsAreImmutable
BY HistoryKept, InductiveInvariant, PTL DEF Spec, RoundsAreImmutable

\* Any number of workers, aborted anywhere, let the guests earn only what arrived
\* and never take an earning back: a submitted round is an Earn, a block that
\* brings ETH a Receive, and the rest stutters.
THEOREM PipelineImplementsEarnings == Spec => ImplementsEarnings
<1>1. Init => Earnings!Init
  BY DEF Init, Earnings!Init, Earnings!Nothing
<1>2. ASSUME IInv, IInv', [Next]_vars
      PROVE  [Earnings!Next]_(Earnings!vars)
  <2>1. /\ received \in Nat /\ received' \in Nat
        /\ guestEntitlements \in [Guest -> Nat] /\ guestEntitlements' \in [Guest -> Nat]
    BY <1>2 DEF IInv, TypeOK
  <2>2. \A g \in Guest : guestEntitlements[g] <= guestEntitlements'[g]
    BY <1>2, <2>1, HistoryKept DEF KeepsHistory, vars
  <2>3. CASE \E w \in Worker : WorkerStep(w)
    <3>1. received' = received
      BY <2>3 DEF WorkerStep, Run, Broadcast, AttemptFails, Verify, ReadFinancials,
           ReadEarned, Submit, ResolveIncident, ClearDelay, MarkDelayed,
           OpenIncident, MarkStuck, Abort, chain
    <3>2. Total(guestEntitlements') <= received
      BY <1>2, <3>1 DEF IInv, LedgerInv, EntitlementsAddUp, Solvent
    <3>3. Earnings!Total(guestEntitlements') = Total(guestEntitlements')
      BY DEF Earnings!Total, Earnings!Units, Earnings!Cardinality, Total, Units,
             Cardinality
    <3>. QED
      BY <2>1, <2>2, <3>1, <3>2, <3>3 DEF Earnings!Next, Earnings!Earn
  <2>4. CASE ChainStep
    <3>1. guestEntitlements' = guestEntitlements
      BY <2>4 DEF ChainStep, Mine, BoundaryPasses, IncidentAges, rounds
    <3>2. received <= received'
      BY <1>2, <2>4, ServiceRoundsAssumption
         DEF ChainStep, Mine, BoundaryPasses, IncidentAges, chain, IInv, TypeOK
    <3>. QED
      BY <2>1, <3>1, <3>2 DEF Earnings!Next, Earnings!Receive, Earnings!vars
  <2>5. CASE UNCHANGED vars
    BY <2>5 DEF vars, Earnings!vars
  <2>. QED
    BY <1>2, <2>3, <2>4, <2>5 DEF Next
<1>. QED
  BY <1>1, <1>2, InductiveInvariant, PTL
     DEF Spec, ImplementsEarnings, Earnings!Spec

-----------------------------------------------------------------------------
(* The flags of a delay. *)

OneWorker == \A v, w \in Worker : v = w

\* A worker alone clears both flags at once and sets the first one first, so an
\* abort between two statements leaves no stuck collection without a delay.
LEMMA DelayStep == ASSUME OneWorker, IInv, DelayInv, [Next]_vars PROVE DelayInv'
<1>1. /\ pc \in [Worker -> Label] /\ roomServiceDelayed \in BOOLEAN
      /\ collectionStuck \in BOOLEAN
  BY DEF IInv, TypeOK
<1>2. CASE UNCHANGED <<pc, roomServiceDelayed, collectionStuck>>
  BY <1>2 DEF DelayInv, StuckIsDelayed
<1>3. ASSUME NEW w \in Worker, WorkerStep(w) PROVE DelayInv'
  <2>1. CASE UNCHANGED flags /\ \E l \in Label \ {"incident", "stuck"} : Goto(w, l)
    BY <1>1, <2>1 DEF DelayInv, StuckIsDelayed, Goto, flags
  <2>2. CASE ResolveIncident(w)
    BY <1>1, <2>2 DEF ResolveIncident, DelayInv, StuckIsDelayed, Goto
  <2>3. CASE ClearDelay(w)
    <3>1. collectionStuck' = FALSE
      BY <2>3 DEF ClearDelay, StuckAfterClear
    <3>2. pc'[w] \in {"collect", "idle"}
      BY <1>1, <2>3 DEF ClearDelay, NextServiceOrIdle, Goto
    <3>. QED
      BY <3>1, <3>2 DEF OneWorker, DelayInv, StuckIsDelayed
  <2>4. CASE MarkDelayed(w)
    BY <2>4 DEF MarkDelayed, DelayInv, StuckIsDelayed
  <2>5. CASE OpenIncident(w)
    BY <1>1, <2>5 DEF OpenIncident, DelayInv, StuckIsDelayed, Goto
  <2>6. CASE MarkStuck(w)
    BY <1>1, <2>6 DEF MarkStuck, DelayInv, StuckIsDelayed
  <2>7. \/ Run(w) \/ Broadcast(w) \/ AttemptFails(w) \/ Verify(w)
        \/ ReadFinancials(w) \/ ReadEarned(w) \/ Submit(w) \/ Abort(w)
        => UNCHANGED flags /\ \E l \in Label \ {"incident", "stuck"} : Goto(w, l)
    BY DEF Run, Broadcast, AttemptFails, Verify, ReadFinancials, ReadEarned, Submit,
         Abort, Label
  <2>. QED
    BY <1>3, <2>1, <2>2, <2>3, <2>4, <2>5, <2>6, <2>7 DEF WorkerStep
<1>4. ChainStep \/ UNCHANGED vars => UNCHANGED <<pc, roomServiceDelayed, collectionStuck>>
  BY DEF ChainStep, Mine, BoundaryPasses, IncidentAges, flags, worker, vars
<1>. QED
  BY <1>2, <1>3, <1>4 DEF Next

\* With one worker, collection is never shown as stuck while service is not
\* delayed, however often the worker dies half way through either.
THEOREM StuckShowsADelay == ASSUME OneWorker PROVE Spec => []StuckIsDelayed
<1>1. Init => DelayInv
  BY DEF Init, DelayInv, StuckIsDelayed
<1>2. IInv /\ DelayInv /\ [Next]_vars => DelayInv'
  BY DelayStep
<1>3. DelayInv => StuckIsDelayed
  BY DEF DelayInv
<1>. QED
  BY <1>1, <1>2, <1>3, InductiveInvariant, PTL DEF Spec

=============================================================================
