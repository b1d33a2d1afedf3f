-------------------------- MODULE RoomService_proofs --------------------------
(***************************************************************************)
(* Theorems about the RoomService contract, for any guests, amounts,       *)
(* signatures and number of calls.                                         *)
(***************************************************************************)
EXTENDS RoomService, Totals_proofs

USE DEF Time, Account

\* Writing a stay moves the sum of the amounts by the difference it makes.
LEMMA StayTotal ==
  ASSUME stays \in [Guest -> Stay], NEW guest \in Guest, NEW stay \in Stay
  PROVE  /\ Total(StayAmount(stays)) \in Nat
         /\ stays[guest].amount <= Total(StayAmount(stays))
         /\ Total(StayAmount([stays EXCEPT ![guest] = stay]))
              = (Total(StayAmount(stays)) - stays[guest].amount) + stay.amount
<1>. DEFINE f == StayAmount(stays)
            v == stay.amount
<1>1. f \in [Guest -> Nat] /\ v \in Nat /\ f[guest] = stays[guest].amount
  BY DEF StayAmount, Stay
<1>2. StayAmount([stays EXCEPT ![guest] = stay]) = [f EXCEPT ![guest] = v]
  BY DEF StayAmount, Stay
<1>3. IsFiniteSet(Guest)
  BY RoomServiceAssumption
<1>. HIDE DEF f, v
<1>4. /\ Total(f) \in Nat
      /\ f[guest] <= Total(f)
      /\ Total([f EXCEPT ![guest] = v]) = (Total(f) - f[guest]) + v
  BY <1>1, <1>3, TotalType, TotalUpdate
<1>. QED
  BY <1>1, <1>2, <1>4 DEF f, v

\* The initial state satisfies the inductive invariant.
LEMMA InitIInv == Init => IInv
<1>. SUFFICES ASSUME Init PROVE IInv
  OBVIOUS
<1>. USE RoomServiceAssumption DEF Init
<1>1. TypeOK
  BY DEF TypeOK, Stay, NoStay
<1>2. EthConservation /\ PaidIsClaimed /\ LiabilityBacked
  BY DEF EthConservation, PaidIsClaimed, LiabilityBacked
<1>3. ClaimedTotalExact
  BY TotalZero DEF ClaimedTotalExact
<1>4. LiabilityExact
  <2>1. StayAmount(stays) = [g \in Guest |-> 0]
    BY DEF StayAmount, NoStay
  <2>. QED
    BY <2>1, TotalZero DEF LiabilityExact
<1>5. NonceSpentOnce
  BY FS_EmptySet DEF NonceSpentOnce
<1>6. UnlockTimes
  BY DEF UnlockTimes, NoStay
<1>. QED
  BY <1>1, <1>2, <1>3, <1>4, <1>5, <1>6 DEF IInv

\* A claim pays the difference, moves both totals by it, and touches no stay.
LEMMA ClaimIInv ==
  ASSUME IInv, NEW guest \in Guest, NEW cumulative \in Entitlement,
         NEW deadline \in Time, NEW epoch \in 1 .. MaxEpoch,
         NEW signer \in Signer,
         ClaimRoomService(guest, cumulative, deadline, epoch, signer)
  PROVE  IInv'
<1>. USE RoomServiceAssumption
     DEF IInv, ClaimRoomService, CanPay, Claimable, Payout, TotalAfterClaim,
         clock, fees, escrow, signers, control
<1>1. /\ cumulative \in Nat /\ roomServiceClaimed[guest] \in Nat
      /\ cumulative - roomServiceClaimed[guest] \in Nat
      /\ ethBalance - (cumulative - roomServiceClaimed[guest]) \in Nat
  BY DEF TypeOK
<1>2. TypeOK'
  BY <1>1 DEF TypeOK
<1>3. EthConservation'
  BY <1>1 DEF EthConservation, TypeOK
<1>4. ClaimedTotalExact'
  <2>1. Total(roomServiceClaimed')
          = (Total(roomServiceClaimed) - roomServiceClaimed[guest]) + cumulative
    <3>1. /\ IsFiniteSet(Guest) /\ roomServiceClaimed \in [Guest -> Nat]
          /\ roomServiceClaimed' = [roomServiceClaimed EXCEPT ![guest] = cumulative]
      BY DEF TypeOK
    <3>2. Total([roomServiceClaimed EXCEPT ![guest] = cumulative])
            = (Total(roomServiceClaimed) - roomServiceClaimed[guest]) + cumulative
      BY ONLY <1>1, <3>1, TotalUpdate, guest \in Guest
    <3>. QED
      BY ONLY <3>1, <3>2
  <2>2. Total(roomServiceClaimed) \in Nat
    BY TotalType DEF TypeOK
  <2>. QED
    BY <1>1, <2>1, <2>2 DEF ClaimedTotalExact
<1>5. PaidIsClaimed'
  BY <1>1 DEF PaidIsClaimed, TypeOK
<1>6. LiabilityExact' /\ LiabilityBacked' /\ NonceSpentOnce' /\ UnlockTimes'
  BY DEF LiabilityExact, LiabilityBacked, NonceSpentOnce, UnlockTimes
<1>. QED
  BY <1>2, <1>3, <1>4, <1>5, <1>6

\* A check-in adds one stay where there was none and spends one fresh nonce.
LEMMA CheckInIInv ==
  ASSUME IInv, NEW guest \in Guest, NEW amount \in HotelAmount,
         NEW minAmount, NEW maxAmount, NEW deadline,
         NEW nonce \in CheckInNonce, NEW epoch, NEW signer,
         CheckIn(guest, amount, minAmount, maxAmount, deadline, nonce, epoch,
                 signer)
  PROVE  IInv'
<1>. DEFINE stay == [amount |-> amount, checkInTimestamp |-> now,
                     unlockTimestamp |-> now + CHECK_IN_DURATION]
<1>. USE RoomServiceAssumption
     DEF IInv, CheckIn, clock, claims, fees, signers, control
<1>1. amount \in Nat /\ stay \in Stay /\ guest \in Account
  BY DEF TypeOK, Stay
<1>2. TypeOK'
  <2>1. wallet' \in [Account -> Nat]
    BY <1>1 DEF TypeOK
  <2>2. stays' \in [Guest -> Stay]
    BY <1>1 DEF TypeOK
  <2>. QED
    BY <1>1, <2>1, <2>2 DEF TypeOK
<1>3. EthConservation' /\ ClaimedTotalExact' /\ PaidIsClaimed'
  BY DEF EthConservation, ClaimedTotalExact, PaidIsClaimed
<1>4. LiabilityExact'
  <2>1. /\ stays[guest].amount = 0
        /\ stays' = [stays EXCEPT ![guest] = stay] /\ stay.amount = amount
    BY DEF HasNoStay
  <2>2. /\ Total(StayAmount(stays)) \in Nat
        /\ Total(StayAmount([stays EXCEPT ![guest] = stay]))
             = (Total(StayAmount(stays)) - 0) + amount
    BY <1>1, <2>1, StayTotal DEF TypeOK
  <2>. QED
    BY <1>1, <2>1, <2>2 DEF LiabilityExact
<1>5. LiabilityBacked'
  BY <1>1 DEF LiabilityBacked, TypeOK
<1>6. NonceSpentOnce'
  <2>1. IsFiniteSet(usedCheckInNonces)
    BY FS_Subset DEF TypeOK
  <2>2. nonce \notin usedCheckInNonces
    BY DEF CheckInAuthorized, NonceIsFresh
  <2>3. Cardinality(usedCheckInNonces \cup {nonce})
          = Cardinality(usedCheckInNonces) + 1
    BY <2>1, <2>2, FS_AddElement
  <2>. QED
    BY <2>3 DEF NonceSpentOnce
<1>7. UnlockTimes'
  BY <1>1 DEF UnlockTimes, TypeOK
<1>. QED
  BY <1>2, <1>3, <1>4, <1>5, <1>6, <1>7

\* A check-out removes one stay and pays back exactly its amount.
LEMMA CheckOutIInv ==
  ASSUME IInv, NEW guest \in Guest, CheckOut(guest)
  PROVE  IInv'
<1>. DEFINE amount == stays[guest].amount
<1>. USE RoomServiceAssumption
     DEF IInv, CheckOut, clock, claims, fees, signers, control
<1>1. amount \in Nat /\ NoStay \in Stay /\ guest \in Account
  BY DEF TypeOK, Stay, NoStay
<1>2. stays' = [stays EXCEPT ![guest] = NoStay] /\ NoStay.amount = 0
  BY DEF NoStay
<1>3. /\ Total(StayAmount(stays)) \in Nat
      /\ amount <= Total(StayAmount(stays))
      /\ Total(StayAmount([stays EXCEPT ![guest] = NoStay]))
           = (Total(StayAmount(stays)) - amount) + 0
  BY <1>1, <1>2, StayTotal DEF TypeOK
<1>4. LiabilityExact'
  BY <1>1, <1>2, <1>3 DEF LiabilityExact, TypeOK
<1>5. totalGuestEscrowLiability - amount \in Nat /\ hotelBalance - amount \in Nat
  BY <1>1, <1>3 DEF LiabilityExact, LiabilityBacked, TypeOK
<1>6. TypeOK'
  <2>1. wallet' \in [Account -> Nat]
    BY <1>1 DEF TypeOK
  <2>2. stays' \in [Guest -> Stay]
    BY <1>1 DEF TypeOK
  <2>. QED
    BY <1>5, <2>1, <2>2 DEF TypeOK
<1>7. EthConservation' /\ ClaimedTotalExact' /\ PaidIsClaimed' /\ NonceSpentOnce'
  BY DEF EthConservation, ClaimedTotalExact, PaidIsClaimed, NonceSpentOnce
<1>8. LiabilityBacked'
  BY <1>1 DEF LiabilityBacked, TypeOK
<1>9. UnlockTimes'
  BY DEF UnlockTimes, NoStay, TypeOK
<1>. QED
  BY <1>4, <1>6, <1>7, <1>8, <1>9

\* The owner's functions leave every ledger alone but the surplus.
LEMMA OwnerIInv ==
  ASSUME IInv, OwnerStep
  PROVE  IInv'
<1>. USE RoomServiceAssumption
     DEF IInv, OnlyOwner, NonReentrant, NextEpoch, clock, claims, fees,
         escrow, signers, control
<1>1. PICK a \in Account : OwnerStep!(a)
  BY DEF OwnerStep
<1>2. CASE PauseClaims(a) \/ UnpauseClaims(a) \/ PauseCheckIns(a)
            \/ UnpauseCheckIns(a)
  <2>. USE <1>2 DEF PauseClaims, UnpauseClaims, PauseCheckIns, UnpauseCheckIns
  <2>1. TypeOK'
    BY DEF TypeOK
  <2>2. EthConservation' /\ ClaimedTotalExact' /\ PaidIsClaimed' /\ LiabilityExact'
        /\ LiabilityBacked' /\ NonceSpentOnce' /\ UnlockTimes'
    BY DEF EthConservation, ClaimedTotalExact, PaidIsClaimed, LiabilityExact,
           LiabilityBacked, NonceSpentOnce, UnlockTimes
  <2>. QED
    BY <2>1, <2>2
<1>3. ASSUME NEW newSigner \in Signer,
             RotateEntitlementSigner(a, newSigner)
               \/ RotateEligibilitySigner(a, newSigner)
      PROVE  IInv'
  <2>. USE <1>3 DEF RotateEntitlementSigner, RotateEligibilitySigner
  <2>1. TypeOK'
    BY DEF TypeOK
  <2>2. EthConservation' /\ ClaimedTotalExact' /\ PaidIsClaimed' /\ LiabilityExact'
        /\ LiabilityBacked' /\ NonceSpentOnce' /\ UnlockTimes'
    BY DEF EthConservation, ClaimedTotalExact, PaidIsClaimed, LiabilityExact,
           LiabilityBacked, NonceSpentOnce, UnlockTimes
  <2>. QED
    BY <2>1, <2>2
<1>4. ASSUME NEW to \in Account, NEW amount \in HotelAmount,
             RecoverSurplusHotel(a, to, amount)
      PROVE  IInv'
  <2>. USE <1>4 DEF RecoverSurplusHotel, Surplus
  <2>1. /\ amount \in Nat
        /\ hotelBalance - amount \in Nat
        /\ hotelBalance - amount >= totalGuestEscrowLiability
    BY DEF TypeOK
  <2>2. wallet' \in [Account -> Nat]
    BY <2>1 DEF TypeOK
  <2>3. TypeOK'
    BY <2>1, <2>2 DEF TypeOK
  <2>4. LiabilityBacked'
    BY <2>1 DEF LiabilityBacked
  <2>5. EthConservation' /\ ClaimedTotalExact' /\ PaidIsClaimed' /\ LiabilityExact'
        /\ NonceSpentOnce' /\ UnlockTimes'
    BY DEF EthConservation, ClaimedTotalExact, PaidIsClaimed, LiabilityExact,
           NonceSpentOnce, UnlockTimes
  <2>. QED
    BY <2>3, <2>4, <2>5
<1>5. ASSUME NEW newOwner \in Account \cup {Nobody},
             TransferOwnership(a, newOwner) \/ AcceptOwnership(a)
      PROVE  IInv'
  <2>. USE <1>5 DEF TransferOwnership, AcceptOwnership
  <2>1. TypeOK'
    BY DEF TypeOK
  <2>2. EthConservation' /\ ClaimedTotalExact' /\ PaidIsClaimed' /\ LiabilityExact'
        /\ LiabilityBacked' /\ NonceSpentOnce' /\ UnlockTimes'
    BY DEF EthConservation, ClaimedTotalExact, PaidIsClaimed, LiabilityExact,
           LiabilityBacked, NonceSpentOnce, UnlockTimes
  <2>. QED
    BY <2>1, <2>2
<1>. HIDE DEF IInv, OnlyOwner
<1>. QED
  BY <1>1, <1>2, <1>3, <1>4, <1>5

\* Transfers from outside only add to what the contract holds.
LEMMA ChainIInv ==
  ASSUME IInv, ChainStep
  PROVE  IInv'
<1>. USE RoomServiceAssumption
     DEF IInv, NonReentrant, clock, claims, fees, escrow, signers, control
<1>1. ASSUME NEW amount \in WeiAmount, SendEth(amount)
      PROVE  IInv'
  <2>. USE <1>1 DEF SendEth
  <2>1. amount \in Nat
    OBVIOUS
  <2>2. TypeOK' /\ EthConservation'
    BY <2>1 DEF TypeOK, EthConservation
  <2>3. ClaimedTotalExact' /\ PaidIsClaimed' /\ LiabilityExact'
        /\ LiabilityBacked' /\ NonceSpentOnce' /\ UnlockTimes'
    BY DEF ClaimedTotalExact, PaidIsClaimed, LiabilityExact,
           LiabilityBacked, NonceSpentOnce, UnlockTimes
  <2>. QED
    BY <2>2, <2>3
<1>2. ASSUME NEW amount \in WeiAmount, CreditFees(amount)
      PROVE  IInv'
  <2>. USE <1>2 DEF CreditFees
  <2>1. amount \in Nat
    OBVIOUS
  <2>2. TypeOK'
    BY <2>1 DEF TypeOK
  <2>3. EthConservation' /\ ClaimedTotalExact' /\ PaidIsClaimed' /\ LiabilityExact'
        /\ LiabilityBacked' /\ NonceSpentOnce' /\ UnlockTimes'
    BY DEF EthConservation, ClaimedTotalExact, PaidIsClaimed, LiabilityExact,
           LiabilityBacked, NonceSpentOnce, UnlockTimes
  <2>. QED
    BY <2>2, <2>3
<1>3. ASSUME NEW a \in Account, NEW amount \in HotelAmount, SendHotel(a, amount)
      PROVE  IInv'
  <2>. USE <1>3 DEF SendHotel
  <2>1. amount \in Nat /\ wallet[a] - amount \in Nat
    BY DEF TypeOK
  <2>2. wallet' \in [Account -> Nat]
    BY <2>1 DEF TypeOK
  <2>3. TypeOK' /\ LiabilityBacked'
    BY <2>1, <2>2 DEF TypeOK, LiabilityBacked
  <2>4. EthConservation' /\ ClaimedTotalExact' /\ PaidIsClaimed' /\ LiabilityExact'
        /\ NonceSpentOnce' /\ UnlockTimes'
    BY DEF EthConservation, ClaimedTotalExact, PaidIsClaimed, LiabilityExact,
           NonceSpentOnce, UnlockTimes
  <2>. QED
    BY <2>3, <2>4
<1>4. CASE Tick
  <2>. USE <1>4 DEF Tick
  <2>1. TypeOK'
    BY DEF TypeOK
  <2>2. EthConservation' /\ ClaimedTotalExact' /\ PaidIsClaimed' /\ LiabilityExact'
        /\ LiabilityBacked' /\ NonceSpentOnce' /\ UnlockTimes'
    BY DEF EthConservation, ClaimedTotalExact, PaidIsClaimed, LiabilityExact,
           LiabilityBacked, NonceSpentOnce, UnlockTimes
  <2>. QED
    BY <2>1, <2>2
<1>. HIDE DEF IInv
<1>. QED
  BY <1>1, <1>2, <1>3, <1>4 DEF ChainStep

\* Every step preserves the inductive invariant.
LEMMA StepIInv == IInv /\ [Next]_vars => IInv'
<1>. SUFFICES ASSUME IInv, [Next]_vars PROVE IInv'
  OBVIOUS
<1>1. CASE GuestStep
  <2>1. CASE ClaimReturns
    <3>. USE <2>1, RoomServiceAssumption
         DEF IInv, ClaimReturns, clock, claims, fees, escrow, signers, control
    <3>1. TypeOK'
      BY DEF TypeOK
    <3>2. EthConservation' /\ ClaimedTotalExact' /\ PaidIsClaimed' /\ LiabilityExact'
          /\ LiabilityBacked' /\ NonceSpentOnce' /\ UnlockTimes'
      BY DEF EthConservation, ClaimedTotalExact, PaidIsClaimed, LiabilityExact,
             LiabilityBacked, NonceSpentOnce, UnlockTimes
    <3>. QED
      BY <3>1, <3>2
  <2>2. CASE CollectRoomService
    <3>. USE <2>2, RoomServiceAssumption
         DEF IInv, CollectRoomService, clock, escrow, signers, control
    <3>1. TypeOK' /\ EthConservation'
      BY DEF TypeOK, EthConservation
    <3>2. ClaimedTotalExact' /\ PaidIsClaimed' /\ LiabilityExact'
          /\ LiabilityBacked' /\ NonceSpentOnce' /\ UnlockTimes'
      BY DEF ClaimedTotalExact, PaidIsClaimed, LiabilityExact,
             LiabilityBacked, NonceSpentOnce, UnlockTimes
    <3>. QED
      BY <3>1, <3>2
  <2>. QED
    BY <1>1, <2>1, <2>2, ClaimIInv, CheckInIInv, CheckOutIInv DEF GuestStep
<1>2. CASE UNCHANGED vars
  <2>. USE <1>2 DEF IInv, vars
  <2>1. TypeOK'
    BY DEF TypeOK
  <2>2. EthConservation' /\ ClaimedTotalExact' /\ PaidIsClaimed' /\ LiabilityExact'
        /\ LiabilityBacked' /\ NonceSpentOnce' /\ UnlockTimes'
    BY DEF EthConservation, ClaimedTotalExact, PaidIsClaimed, LiabilityExact,
           LiabilityBacked, NonceSpentOnce, UnlockTimes
  <2>. QED
    BY <2>1, <2>2
<1>. QED
  BY <1>1, <1>2, OwnerIInv, ChainIInv DEF Next

\* The inductive invariant holds in every reachable state of the contract.
THEOREM InductiveInvariant == Spec => []IInv
BY InitIInv, StepIInv, PTL DEF Spec

\* Every variable keeps its type; in particular no ledger ever goes below zero.
THEOREM TypeCorrect == Spec => []TypeOK
<1>1. IInv => TypeOK
  BY DEF IInv
<1>. QED
  BY <1>1, InductiveInvariant, PTL

\* ETH received is ETH held plus ETH claimed, also while a guest is being paid
\* (claimRoomService, collectRoomService, receive).
THEOREM EthIsConserved == Spec => []EthConservation
<1>1. IInv => EthConservation
  BY DEF IInv
<1>. QED
  BY <1>1, InductiveInvariant, PTL

\* The stored total of claims is the sum of the guests' claims, and each guest
\* was paid exactly the cumulative figure last redeemed (claimRoomService).
THEOREM ClaimsAreExact == Spec => [](ClaimedTotalExact /\ PaidIsClaimed)
<1>1. IInv => ClaimedTotalExact /\ PaidIsClaimed
  BY DEF IInv
<1>. QED
  BY <1>1, InductiveInvariant, PTL

\* The stored liability is the sum of the open stays and the contract holds at
\* least that much HOTEL (checkIn, checkOut, recoverSurplusHotel).
THEOREM EscrowIsBacked == Spec => [](LiabilityExact /\ EscrowBacked)
<1>1. IInv => LiabilityExact /\ EscrowBacked
  BY DEF IInv, LiabilityExact, LiabilityBacked, EscrowBacked
<1>. QED
  BY <1>1, InductiveInvariant, PTL

\* As many nonces are spent as guests have checked in
\* (_assertAndConsumeCheckInAuth).
THEOREM NoncesAreSpentOnce == Spec => []NonceSpentOnce
<1>1. IInv => NonceSpentOnce
  BY DEF IInv
<1>. QED
  BY <1>1, InductiveInvariant, PTL

\* A step that changes a stay opens it where there was none, or ends it late
\* enough and pays it back whole.
LEMMA StepStay ==
  ASSUME IInv, Next, NEW g \in Guest, stays'[g] # stays[g]
  PROVE  \/ stays[g].amount = 0
         \/ /\ stays'[g].amount = 0
            /\ now >= stays[g].checkInTimestamp + CHECK_IN_DURATION
            /\ wallet'[g] = wallet[g] + stays[g].amount
<1>. USE DEF clock, claims, fees, escrow, signers, control
<1>1. CASE GuestStep
  <2>1. ASSUME NEW guest \in Guest, NEW cumulative, NEW deadline, NEW epoch,
               NEW signer,
               ClaimRoomService(guest, cumulative, deadline, epoch, signer)
        PROVE  stays' = stays
    BY <2>1 DEF ClaimRoomService
  <2>2. ClaimReturns \/ CollectRoomService => stays' = stays
    BY DEF ClaimReturns, CollectRoomService
  <2>3. ASSUME NEW guest \in Guest, NEW amount, NEW minAmount, NEW maxAmount,
               NEW deadline, NEW nonce, NEW epoch, NEW signer,
               CheckIn(guest, amount, minAmount, maxAmount, deadline, nonce,
                       epoch, signer)
        PROVE  stays[g].amount = 0
    <3>1. /\ stays[guest].amount = 0
          /\ \A h \in Guest \ {guest} : stays'[h] = stays[h]
      BY <2>3 DEF CheckIn, HasNoStay, IInv, TypeOK
    <3>. QED
      BY <3>1
  <2>4. ASSUME NEW guest \in Guest, CheckOut(guest), stays[g].amount # 0
        PROVE  /\ stays'[g].amount = 0
               /\ now >= stays[g].checkInTimestamp + CHECK_IN_DURATION
               /\ wallet'[g] = wallet[g] + stays[g].amount
    <3>1. \A h \in Guest \ {guest} : stays'[h] = stays[h]
      BY <2>4 DEF CheckOut, IInv, TypeOK
    <3>2. guest = g
      BY <3>1
    <3>3. stays'[g].amount = 0
      BY <3>2, <2>4 DEF CheckOut, NoStay, IInv, TypeOK
    <3>4. now >= stays[g].checkInTimestamp + CHECK_IN_DURATION
      BY <3>2, <2>4 DEF CheckOut, Unlocked, IInv, UnlockTimes
    <3>5. wallet'[g] = wallet[g] + stays[g].amount
      BY <3>2, <2>4 DEF CheckOut, IInv, TypeOK
    <3>. QED
      BY <3>3, <3>4, <3>5
  <2>. QED
    BY <1>1, <2>1, <2>2, <2>3, <2>4 DEF GuestStep
<1>2. OwnerStep => stays' = stays
  BY DEF OwnerStep, PauseClaims, UnpauseClaims, PauseCheckIns, UnpauseCheckIns,
         RotateEntitlementSigner, RotateEligibilitySigner, RecoverSurplusHotel,
         TransferOwnership, AcceptOwnership
<1>3. ChainStep => stays' = stays
  BY DEF ChainStep, SendEth, CreditFees, SendHotel, Tick
<1>. QED
  BY <1>1, <1>2, <1>3 DEF Next

\* Stays run their full duration and are returned whole (checkOut).
THEOREM StaysAreReturnedWhole == Spec => StayReturnedWhole
<1>. DEFINE Returned ==
       \A g \in Guest :
         stays'[g] # stays[g] =>
           \/ stays[g].amount = 0
           \/ /\ stays'[g].amount = 0
              /\ now >= stays[g].checkInTimestamp + CHECK_IN_DURATION
              /\ wallet'[g] = wallet[g] + stays[g].amount
<1>1. IInv /\ [Next]_vars => [Returned]_vars
  <2>. SUFFICES ASSUME IInv, Next PROVE Returned
    OBVIOUS
  <2>. QED
    BY StepStay
<1>. QED
  BY <1>1, InductiveInvariant, PTL DEF Spec, StayReturnedWhole

\* An epoch names one key for ever (rotateEntitlementSigner,
\* rotateEligibilitySigner).
THEOREM EpochsNameOneKey == Spec => EpochNamesOneKey
<1>. DEFINE OneKey ==
       /\ entitlementSigner' # entitlementSigner => signerEpoch' > signerEpoch
       /\ eligibilitySigner' # eligibilitySigner =>
            eligibilitySignerEpoch' > eligibilitySignerEpoch
       /\ signerEpoch' >= signerEpoch
       /\ eligibilitySignerEpoch' >= eligibilitySignerEpoch
<1>1. IInv /\ [Next]_vars => [OneKey]_vars
  <2>. SUFFICES ASSUME IInv, Next PROVE OneKey
    OBVIOUS
  <2>. USE DEF clock, claims, fees, escrow, signers, control, IInv, TypeOK
  <2>1. CASE GuestStep
    BY <2>1 DEF GuestStep, ClaimRoomService, ClaimReturns, CollectRoomService,
                CheckIn, CheckOut
  <2>2. CASE OwnerStep
    BY <2>2 DEF OwnerStep, PauseClaims, UnpauseClaims, PauseCheckIns,
         UnpauseCheckIns, RotateEntitlementSigner, RotateEligibilitySigner,
         NextEpoch, RecoverSurplusHotel, TransferOwnership, AcceptOwnership
  <2>3. CASE ChainStep
    BY <2>3 DEF ChainStep, SendEth, CreditFees, SendHotel, Tick
  <2>. QED
    BY <2>1, <2>2, <2>3 DEF Next
<1>. QED
  BY <1>1, InductiveInvariant, PTL DEF Spec, EpochNamesOneKey

=============================================================================
