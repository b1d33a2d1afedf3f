----------------------------- MODULE RoomService -----------------------------
(***************************************************************************)
(* The RoomService contract (contracts/src/RoomService.sol).               *)
(*                                                                         *)
(* It receives the creator fees of the HOTEL token as ETH, pays guests     *)
(* their cumulative Room Service entitlements against signatures of the    *)
(* entitlement signer, and keeps in escrow the HOTEL of guests who check   *)
(* in for one stay of CHECK_IN_DURATION against signatures of the          *)
(* eligibility signer.                                                     *)
(*                                                                         *)
(* One action is one successful external call; a call that reverts leaves  *)
(* the chain unchanged and is a stuttering step.  The one call that hands  *)
(* control to a stranger in the middle is claimRoomService, which sends    *)
(* ETH to the guest: it is two steps, and between them the guest's code    *)
(* may call anything (`payee' is the guest whose code is running, and is   *)
(* also what ReentrancyGuard's status word says).                          *)
(*                                                                         *)
(* A signature is modelled by the address the contract recovers from it,   *)
(* so a caller may present any signed message; which claims the signing    *)
(* service really signs is the subject of Settlement.                      *)
(***************************************************************************)
EXTENDS Totals

CONSTANTS
  Guest,          \* addresses that claim and check in
  Deployer,       \* the initial owner, not a guest
  Signer,         \* addresses of the signing keys
  FirstEntitlementSigner, FirstEligibilitySigner,
  Nobody,         \* the zero address
  CheckInNonce,   \* nonces of check-in authorizations
  HotelAmount,    \* amounts of HOTEL a call may name
  WeiAmount,      \* amounts of ETH a call or a fee may carry
  Entitlement,    \* cumulative entitlements that may be signed
  InitialHotel,   \* HOTEL in each guest's wallet at the start
  CHECK_IN_DURATION,
  \* Bounds of the model.
  MaxTime,        \* the last block time
  MaxEpoch,       \* signer rotations stop at this epoch
  MaxReceived     \* ETH that ever reaches the contract or its fee escrow

Account == Guest \cup {Deployer}
Time == 0 .. MaxTime

ASSUME RoomServiceAssumption ==
  /\ IsFiniteSet(Guest)
  /\ Deployer \notin Guest
  /\ Nobody \notin Account \cup Signer
  /\ FirstEntitlementSigner \in Signer
  /\ FirstEligibilitySigner \in Signer
  /\ IsFiniteSet(CheckInNonce)
  /\ HotelAmount \subseteq Nat \ {0}
  /\ WeiAmount \subseteq Nat \ {0}
  /\ Entitlement \subseteq Nat
  /\ InitialHotel \in Nat
  /\ CHECK_IN_DURATION \in Nat \ {0}
  /\ MaxTime \in Nat
  /\ MaxEpoch \in Nat
  /\ MaxReceived \in Nat

VARIABLES
  \* The chain around the contract.
  now,            \* block.timestamp
  wallet,         \* HOTEL of each account
  ponsPending,    \* ETH the Pons fee escrow owes the contract
  \* The contract.
  ethBalance, roomServiceClaimed, totalRoomServiceClaimed,
  hotelBalance, stays, totalGuestEscrowLiability, usedCheckInNonces,
  entitlementSigner, signerEpoch,
  eligibilitySigner, eligibilitySignerEpoch,
  owner, pendingOwner, claimsPaused, checkInsPaused,
  payee,          \* the guest being paid, or Nobody: _status of ReentrancyGuard
  \* History, read by properties only.
  ethReceived,    \* ETH that ever landed in the contract
  paid,           \* ETH each guest has received from it
  checkIns        \* CheckedIn events emitted

clock    == <<now>>
claims   == <<ethBalance, roomServiceClaimed, totalRoomServiceClaimed, paid>>
fees     == <<ponsPending, ethReceived>>
escrow   == <<hotelBalance, stays, totalGuestEscrowLiability, usedCheckInNonces,
              checkIns>>
signers  == <<entitlementSigner, signerEpoch, eligibilitySigner,
              eligibilitySignerEpoch>>
control  == <<owner, pendingOwner, claimsPaused, checkInsPaused>>
vars     == <<now, wallet, ponsPending, ethBalance, roomServiceClaimed,
              totalRoomServiceClaimed, hotelBalance, stays,
              totalGuestEscrowLiability, usedCheckInNonces, entitlementSigner,
              signerEpoch, eligibilitySigner, eligibilitySignerEpoch, owner,
              pendingOwner, claimsPaused, checkInsPaused, payee, ethReceived,
              paid, checkIns>>

-----------------------------------------------------------------------------
Stay == [amount : Nat, checkInTimestamp : Nat, unlockTimestamp : Nat]
NoStay == [amount |-> 0, checkInTimestamp |-> 0, unlockTimestamp |-> 0]

\* What the contract owes each guest in HOTEL.
StayAmount(s) == [g \in Guest |-> s[g].amount]

\* The type of the state; stays never hold more units than the wallets began
\* with, but that is a matter of the token and not stated here.
TypeOK ==
  /\ now \in Nat
  /\ wallet \in [Account -> Nat]
  /\ ponsPending \in Nat
  /\ ethBalance \in Nat
  /\ roomServiceClaimed \in [Guest -> Nat]
  /\ totalRoomServiceClaimed \in Nat
  /\ hotelBalance \in Nat
  /\ stays \in [Guest -> Stay]
  /\ totalGuestEscrowLiability \in Nat
  /\ usedCheckInNonces \in SUBSET CheckInNonce
  /\ entitlementSigner \in Signer
  /\ signerEpoch \in Nat
  /\ eligibilitySigner \in Signer
  /\ eligibilitySignerEpoch \in Nat
  /\ owner \in Account
  /\ pendingOwner \in Account \cup {Nobody}
  /\ claimsPaused \in BOOLEAN
  /\ checkInsPaused \in BOOLEAN
  /\ payee \in Guest \cup {Nobody}
  /\ ethReceived \in Nat
  /\ paid \in [Guest -> Nat]
  /\ checkIns \in Nat

Init ==
  /\ now = 0
  /\ wallet = [a \in Account |-> IF a \in Guest THEN InitialHotel ELSE 0]
  /\ ponsPending = 0
  /\ ethBalance = 0
  /\ roomServiceClaimed = [g \in Guest |-> 0]
  /\ totalRoomServiceClaimed = 0
  /\ hotelBalance = 0
  /\ stays = [g \in Guest |-> NoStay]
  /\ totalGuestEscrowLiability = 0
  /\ usedCheckInNonces = {}
  /\ entitlementSigner = FirstEntitlementSigner
  /\ signerEpoch = 1
  /\ eligibilitySigner = FirstEligibilitySigner
  /\ eligibilitySignerEpoch = 1
  /\ owner = Deployer
  /\ pendingOwner = Nobody
  /\ claimsPaused = FALSE
  /\ checkInsPaused = FALSE
  /\ payee = Nobody
  /\ ethReceived = 0
  /\ paid = [g \in Guest |-> 0]
  /\ checkIns = 0

-----------------------------------------------------------------------------
(***************************************************************************)
(* Faulty variants: definitions of the next sections with one slip each.   *)
(* They show that the properties below can fail; no action uses them.      *)
(***************************************************************************)
\* The payout forgets what was already claimed.
FaultyPayout(guest, cumulative) == cumulative
\* The running total adds the cumulative figure instead of the payout.
FaultyTotalAfterClaim(guest, cumulative) == totalRoomServiceClaimed + cumulative
\* Surplus forgets the liability.
FaultySurplus == hotelBalance
\* Check-out looks at the wrong time stamp.
FaultyUnlocked(guest) == now >= stays[guest].checkInTimestamp
\* Check-out stops when check-ins are paused.
FaultyCheckOutIsOpen == payee = Nobody /\ ~checkInsPaused

-----------------------------------------------------------------------------
(***************************************************************************)
(* Who can call.  While a guest is being paid the guest's code may call    *)
(* this contract and any other, so any account may act; a nonReentrant     *)
(* function reverts throughout.                                            *)
(***************************************************************************)
NonReentrant == payee = Nobody
OnlyOwner(a) == a = owner

-----------------------------------------------------------------------------
(* Room Service claims. *)

Claimable(guest, cumulative) == cumulative > roomServiceClaimed[guest]
Payout(guest, cumulative) == cumulative - roomServiceClaimed[guest]
CanPay(payout) == ethBalance >= payout
TotalAfterClaim(guest, cumulative) ==
  totalRoomServiceClaimed + Payout(guest, cumulative)

\* claimRoomService up to and including the transfer of the payout: the effects
\* come before the call.
ClaimRoomService(guest, cumulative, deadline, epoch, signer) ==
  LET payout == Payout(guest, cumulative) IN
  /\ NonReentrant
  /\ ~claimsPaused
  /\ now <= deadline
  /\ epoch = signerEpoch
  /\ signer = entitlementSigner
  /\ Claimable(guest, cumulative)
  /\ CanPay(payout)
  /\ roomServiceClaimed' = [roomServiceClaimed EXCEPT ![guest] = cumulative]
  /\ totalRoomServiceClaimed' = TotalAfterClaim(guest, cumulative)
  /\ ethBalance' = ethBalance - payout
  /\ paid' = [paid EXCEPT ![guest] = @ + payout]
  /\ payee' = guest
  /\ UNCHANGED <<clock, wallet, fees, escrow, signers, control>>

\* The guest's code returns.  (If it fails, the whole claim reverts and the
\* states it passed through are states of a claim that succeeds.)
ClaimReturns ==
  /\ payee # Nobody
  /\ payee' = Nobody
  /\ UNCHANGED <<clock, wallet, claims, fees, escrow, signers, control>>

\* Anyone collects: nothing pending is a no-op, otherwise the escrow sends all.
CollectRoomService ==
  /\ NonReentrant
  /\ ponsPending > 0
  /\ ponsPending' = 0
  /\ ethBalance' = ethBalance + ponsPending
  /\ ethReceived' = ethReceived + ponsPending
  /\ UNCHANGED <<clock, wallet, roomServiceClaimed, totalRoomServiceClaimed,
                 paid, escrow, signers, control, payee>>

-----------------------------------------------------------------------------
(* Stays. *)

HasNoStay(guest) == stays[guest].amount = 0
NonceIsFresh(nonce) == nonce \notin usedCheckInNonces
Unlocked(guest) == now >= stays[guest].unlockTimestamp
CheckOutIsOpen == NonReentrant
Surplus == hotelBalance - totalGuestEscrowLiability

\* _assertAndConsumeCheckInAuth: the checks; the nonce is marked by CheckIn.
CheckInAuthorized(deadline, nonce, epoch, signer) ==
  /\ now <= deadline
  /\ epoch = eligibilitySignerEpoch
  /\ NonceIsFresh(nonce)
  /\ signer = eligibilitySigner

CheckIn(guest, amount, minAmount, maxAmount, deadline, nonce, epoch, signer) ==
  /\ NonReentrant
  /\ ~checkInsPaused
  /\ amount # 0
  /\ minAmount <= amount /\ amount <= maxAmount
  /\ HasNoStay(guest)
  /\ CheckInAuthorized(deadline, nonce, epoch, signer)
  /\ wallet[guest] >= amount
  /\ usedCheckInNonces' = usedCheckInNonces \cup {nonce}
  /\ stays' = [stays EXCEPT ![guest] =
                 [amount |-> amount, checkInTimestamp |-> now,
                  unlockTimestamp |-> now + CHECK_IN_DURATION]]
  /\ totalGuestEscrowLiability' = totalGuestEscrowLiability + amount
  /\ wallet' = [wallet EXCEPT ![guest] = @ - amount]
  /\ hotelBalance' = hotelBalance + amount
  /\ checkIns' = checkIns + 1
  /\ UNCHANGED <<clock, claims, fees, signers, control, payee>>

CheckOut(guest) ==
  LET amount == stays[guest].amount IN
  /\ CheckOutIsOpen
  /\ amount # 0
  /\ Unlocked(guest)
  /\ stays' = [stays EXCEPT ![guest] = NoStay]
  /\ totalGuestEscrowLiability' = totalGuestEscrowLiability - amount
  /\ hotelBalance' = hotelBalance - amount
  /\ wallet' = [wallet EXCEPT ![guest] = @ + amount]
  /\ UNCHANGED <<clock, claims, fees, usedCheckInNonces, checkIns, signers,
                 control, payee>>

-----------------------------------------------------------------------------
(* The owner's functions. *)

NextEpoch(epoch) == epoch + 1

PauseClaims(a) ==
  /\ OnlyOwner(a)
  /\ ~claimsPaused
  /\ claimsPaused' = TRUE
  /\ UNCHANGED <<clock, wallet, claims, fees, escrow, signers, owner,
                 pendingOwner, checkInsPaused, payee>>

UnpauseClaims(a) ==
  /\ OnlyOwner(a)
  /\ claimsPaused
  /\ claimsPaused' = FALSE
  /\ UNCHANGED <<clock, wallet, claims, fees, escrow, signers, owner,
                 pendingOwner, checkInsPaused, payee>>

PauseCheckIns(a) ==
  /\ OnlyOwner(a)
  /\ checkInsPaused' = TRUE
  /\ UNCHANGED <<clock, wallet, claims, fees, escrow, signers, owner,
                 pendingOwner, claimsPaused, payee>>

UnpauseCheckIns(a) ==
  /\ OnlyOwner(a)
  /\ checkInsPaused' = FALSE
  /\ UNCHANGED <<clock, wallet, claims, fees, escrow, signers, owner,
                 pendingOwner, claimsPaused, payee>>

RotateEntitlementSigner(a, newSigner) ==
  /\ OnlyOwner(a)
  /\ newSigner # Nobody
  /\ signerEpoch < MaxEpoch
  /\ entitlementSigner' = newSigner
  /\ signerEpoch' = NextEpoch(signerEpoch)
  /\ UNCHANGED <<clock, wallet, claims, fees, escrow, eligibilitySigner,
                 eligibilitySignerEpoch, control, payee>>

RotateEligibilitySigner(a, newSigner) ==
  /\ OnlyOwner(a)
  /\ newSigner # Nobody
  /\ eligibilitySignerEpoch < MaxEpoch
  /\ eligibilitySigner' = newSigner
  /\ eligibilitySignerEpoch' = NextEpoch(eligibilitySignerEpoch)
  /\ UNCHANGED <<clock, wallet, claims, fees, escrow, entitlementSigner,
                 signerEpoch, control, payee>>

\* Only HOTEL above the escrow liability can leave this way.
RecoverSurplusHotel(a, to, amount) ==
  /\ OnlyOwner(a)
  /\ NonReentrant
  /\ amount # 0
  /\ hotelBalance >= totalGuestEscrowLiability
  /\ amount <= Surplus
  /\ hotelBalance' = hotelBalance - amount
  /\ wallet' = [wallet EXCEPT ![to] = @ + amount]
  /\ UNCHANGED <<clock, claims, fees, stays, totalGuestEscrowLiability,
                 usedCheckInNonces, checkIns, signers, control, payee>>

\* Ownable2Step: a transfer names a candidate (or clears it), who must accept.
TransferOwnership(a, newOwner) ==
  /\ OnlyOwner(a)
  /\ pendingOwner' = newOwner
  /\ UNCHANGED <<clock, wallet, claims, fees, escrow, signers, owner,
                 claimsPaused, checkInsPaused, payee>>

AcceptOwnership(a) ==
  /\ a = pendingOwner
  /\ owner' = a
  /\ pendingOwner' = Nobody
  /\ UNCHANGED <<clock, wallet, claims, fees, escrow, signers, claimsPaused,
                 checkInsPaused, payee>>

-----------------------------------------------------------------------------
(* The chain around the contract. *)

\* receive(): ETH sent by anyone, the guest being paid included.
SendEth(amount) ==
  /\ ethReceived + ponsPending + amount <= MaxReceived
  /\ ethBalance' = ethBalance + amount
  /\ ethReceived' = ethReceived + amount
  /\ UNCHANGED <<clock, wallet, roomServiceClaimed, totalRoomServiceClaimed,
                 paid, ponsPending, escrow, signers, control, payee>>

\* Pons credits creator fees to the contract; trades made by the guest being
\* paid earn fees too.
CreditFees(amount) ==
  /\ ethReceived + ponsPending + amount <= MaxReceived
  /\ ponsPending' = ponsPending + amount
  /\ UNCHANGED <<clock, wallet, claims, ethReceived, escrow, signers, control,
                 payee>>

\* A plain token transfer to the contract creates no stay.
SendHotel(a, amount) ==
  /\ wallet[a] >= amount
  /\ wallet' = [wallet EXCEPT ![a] = @ - amount]
  /\ hotelBalance' = hotelBalance + amount
  /\ UNCHANGED <<clock, claims, fees, stays, totalGuestEscrowLiability,
                 usedCheckInNonces, checkIns, signers, control, payee>>

\* A later block.
Tick ==
  /\ NonReentrant
  /\ now < MaxTime
  /\ now' = now + 1
  /\ UNCHANGED <<wallet, claims, fees, escrow, signers, control, payee>>

-----------------------------------------------------------------------------
GuestStep ==
  \/ \E guest \in Guest, cumulative \in Entitlement, deadline \in Time,
        epoch \in 1 .. MaxEpoch, signer \in Signer :
       ClaimRoomService(guest, cumulative, deadline, epoch, signer)
  \/ ClaimReturns
  \/ CollectRoomService
  \/ \E guest \in Guest, amount, minAmount, maxAmount \in HotelAmount,
        deadline \in Time, nonce \in CheckInNonce, epoch \in 1 .. MaxEpoch,
        signer \in Signer :
       /\ now + CHECK_IN_DURATION <= MaxTime   \* the stay ends within the model
       /\ CheckIn(guest, amount, minAmount, maxAmount, deadline, nonce, epoch,
                  signer)
  \/ \E guest \in Guest : CheckOut(guest)

OwnerStep ==
  \E a \in Account :
    \/ PauseClaims(a)
    \/ UnpauseClaims(a)
    \/ PauseCheckIns(a)
    \/ UnpauseCheckIns(a)
    \/ \E newSigner \in Signer :
         \/ RotateEntitlementSigner(a, newSigner)
         \/ RotateEligibilitySigner(a, newSigner)
    \/ \E to \in Account, amount \in HotelAmount :
         RecoverSurplusHotel(a, to, amount)
    \/ \E newOwner \in Account \cup {Nobody} : TransferOwnership(a, newOwner)
    \/ AcceptOwnership(a)

ChainStep ==
  \/ \E amount \in WeiAmount : SendEth(amount) \/ CreditFees(amount)
  \/ \E a \in Account, amount \in HotelAmount : SendHotel(a, amount)
  \/ Tick

Next == GuestStep \/ OwnerStep \/ ChainStep

Spec == Init /\ [][Next]_vars

\* Blocks keep coming, a called guest's code ends, and a guest who may check out
\* does so: nothing is asked of the owner or of anyone else.
FairSpec ==
  /\ Spec
  /\ WF_vars(Tick)
  /\ WF_vars(ClaimReturns)
  /\ \A guest \in Guest : WF_vars(CheckOut(guest))

-----------------------------------------------------------------------------
(***************************************************************************)
(* Properties.                                                             *)
(***************************************************************************)

\* In every state, the ones a guest being paid can look at included, the ETH
\* that ever landed is what is still there plus what was claimed.  The worker
\* computes lifetime fees as balance + totalRoomServiceClaimed and relies on it.
EthConservation == ethBalance + totalRoomServiceClaimed = ethReceived

\* The running total of claims is the sum of the guests' claims.
ClaimedTotalExact == totalRoomServiceClaimed = Total(roomServiceClaimed)

\* Whatever cumulative figures are signed, in whatever order they are redeemed,
\* a guest has been paid exactly the figure last redeemed.
PaidIsClaimed == \A g \in Guest : paid[g] = roomServiceClaimed[g]

\* The liability is the sum of the open stays.
LiabilityExact == totalGuestEscrowLiability = Total(StayAmount(stays))

\* The HOTEL of every guest with a stay is in the contract, whatever the owner
\* recovers as surplus.
EscrowBacked == hotelBalance >= Total(StayAmount(stays))

\* Every check-in spent a nonce of its own, and no nonce was spent otherwise.
NonceSpentOnce == checkIns = Cardinality(usedCheckInNonces)

\* The inductive invariant.  The type of the liability after a check-out needs
\* LiabilityExact (no stay exceeds the sum), the backing of the escrow is
\* inductive against the stored liability, and StayReturnedWhole needs to know
\* when an open stay unlocks.
LiabilityBacked == hotelBalance >= totalGuestEscrowLiability
UnlockTimes ==
  \A g \in Guest : stays[g].amount # 0 =>
    stays[g].unlockTimestamp = stays[g].checkInTimestamp + CHECK_IN_DURATION
IInv ==
  /\ TypeOK
  /\ EthConservation
  /\ ClaimedTotalExact
  /\ PaidIsClaimed
  /\ LiabilityExact
  /\ LiabilityBacked
  /\ NonceSpentOnce
  /\ UnlockTimes

\* A stay changes only by being opened where there was none, or by ending no
\* earlier than CHECK_IN_DURATION after it began with its whole amount back in
\* the guest's wallet.
StayReturnedWhole ==
  [][\A g \in Guest :
       stays'[g] # stays[g] =>
         \/ stays[g].amount = 0
         \/ /\ stays'[g].amount = 0
            /\ now >= stays[g].checkInTimestamp + CHECK_IN_DURATION
            /\ wallet'[g] = wallet[g] + stays[g].amount]_vars

\* An epoch names one signing key for ever: a rotation, even back to an earlier
\* key, makes a new epoch, and epochs never go back, so a signature given under
\* an old epoch can never be redeemed again.
EpochNamesOneKey ==
  [][/\ entitlementSigner' # entitlementSigner => signerEpoch' > signerEpoch
     /\ eligibilitySigner' # eligibilitySigner =>
          eligibilitySignerEpoch' > eligibilitySignerEpoch
     /\ signerEpoch' >= signerEpoch
     /\ eligibilitySignerEpoch' >= eligibilitySignerEpoch]_vars

\* A guest who checked in gets out, whatever the owner pauses, rotates or
\* recovers and whoever is being paid meanwhile.
CheckoutNeverBlocked ==
  \A g \in Guest : stays[g].amount > 0 ~> stays[g].amount = 0

=============================================================================
