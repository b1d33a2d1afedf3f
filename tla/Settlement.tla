------------------------------ MODULE Settlement ------------------------------
(***************************************************************************)
(* From a finalized round to ETH in a guest's wallet: the entitlements the *)
(* worker credits, the entitlement API that signs vouchers for them        *)
(* (apps/web/src/entitlement) and the contract that redeems vouchers.      *)
(*                                                                         *)
(* The API runs any number of requests at once.  A request reads the       *)
(* guest's earnings from the database and three values from the contract   *)
(* by four concurrent calls, then consumes its challenge, then signs; the  *)
(* worker, the contract and other requests may move between any two.       *)
(*                                                                         *)
(* The worker and the contract are reduced to what ServiceRounds_proofs    *)
(* and RoomService_proofs show of them: a round credits no more than has   *)
(* arrived, and a claim pays the difference to what was claimed before.    *)
(* Deadlines are events that may come at any moment.                       *)
(***************************************************************************)
EXTENDS Integers, Totals

CONSTANTS
  Guest,
  Signer,           \* keys
  ApiSigner,        \* the key the API is configured with
  Challenge,        \* sign-in nonces
  Request,          \* requests in flight at once
  Nobody,           \* null
  \* Bounds of the model.
  MaxReceived, MaxEpoch, MaxFaults

ASSUME SettlementAssumption ==
  /\ IsFiniteSet(Guest)
  /\ ApiSigner \in Signer
  /\ Nobody \notin Guest /\ Nobody \notin Challenge
  /\ {MaxReceived, MaxEpoch, MaxFaults} \subseteq Nat

VARIABLES
  \* The contract.
  ethBalance, roomServiceClaimed, entitlementSigner, signerEpoch,
  \* The database.
  cumulativeEarned,   \* guest_entitlements.cumulative_earned_wei
  authNonces,         \* auth_nonces
  \* The API.
  request,            \* each request's local variables
  vouchers,           \* signed and not past their deadline
  signed,             \* how many vouchers were signed for a challenge
  faults              \* deadlines missed and requests lost so far

contract == <<ethBalance, roomServiceClaimed, entitlementSigner, signerEpoch>>
api == <<authNonces, request, vouchers, signed>>
vars == <<ethBalance, roomServiceClaimed, entitlementSigner, signerEpoch,
          cumulativeEarned, authNonces, request, vouchers, signed, faults>>

-----------------------------------------------------------------------------
\* What a request reads before it decides.
Field == {"earned", "claimed", "epoch", "signer"}

Nonce == [state : {"none", "open", "expired", "consumed"}, wallet : Guest \cup {Nobody}]

RequestState ==
  [pc : {"idle", "read", "sign"}, nonce : Challenge \cup {Nobody},
   guest : Guest \cup {Nobody}, read : SUBSET Field,
   earned : Nat, claimed : Nat, epoch : Nat, signer : Signer]

NoNonce == [state |-> "none", wallet |-> Nobody]
NoRequest ==
  [pc |-> "idle", nonce |-> Nobody, guest |-> Nobody, read |-> {},
   earned |-> 0, claimed |-> 0, epoch |-> 0, signer |-> ApiSigner]

Voucher == [guest : Guest, cumulative : Nat \ {0}, epoch : Nat, signer : Signer]

\* The type of the state; no voucher is for nothing.
TypeOK ==
  /\ ethBalance \in Nat
  /\ roomServiceClaimed \in [Guest -> Nat]
  /\ entitlementSigner \in Signer /\ signerEpoch \in Nat
  /\ cumulativeEarned \in [Guest -> Nat]
  /\ authNonces \in [Challenge -> Nonce]
  /\ request \in [Request -> RequestState]
  /\ vouchers \subseteq Voucher
  /\ signed \in [Challenge -> Nat]
  /\ faults \in Nat

Nothing == [g \in Guest |-> 0]

Init ==
  /\ ethBalance = 0
  /\ roomServiceClaimed = Nothing
  /\ entitlementSigner = ApiSigner /\ signerEpoch = 1
  /\ cumulativeEarned = Nothing
  /\ authNonces = [n \in Challenge |-> NoNonce]
  /\ request = [r \in Request |-> NoRequest]
  /\ vouchers = {}
  /\ signed = [n \in Challenge |-> 0]
  /\ faults = 0

-----------------------------------------------------------------------------
(* Faulty variants, one slip each; no action uses them. *)

\* A challenge is not single-use.
FaultyConsumable(n) == authNonces[n].state \in {"open", "consumed"}
\* What is left is signed, in place of the cumulative figure.
FaultyCumulative(q) == q.earned - q.claimed
\* A round's credit replaces the earlier ones.
FaultyCredited(g, wei) == wei
\* The whole figure is paid, whatever was paid before.
FaultyPayout(g, cumulative) == cumulative

-----------------------------------------------------------------------------
(* The worker, and ETH arriving at the contract. *)

Received == ethBalance + Total(roomServiceClaimed)

ReceiveEth ==
  /\ Received < MaxReceived
  /\ ethBalance' = ethBalance + 1
  /\ UNCHANGED <<roomServiceClaimed, entitlementSigner, signerEpoch,
                 cumulativeEarned, api, faults>>

\* The upsert of guest_entitlements.
Credited(g, wei) == cumulativeEarned[g] + wei

\* A round credits its guests, out of what has arrived and is not yet allocated.
FinalizeRound ==
  /\ \E credit \in [Guest -> 0 .. MaxReceived] :
       cumulativeEarned' = [g \in Guest |-> Credited(g, credit[g])]
  /\ Total(cumulativeEarned') <= Received
  /\ UNCHANGED <<contract, api, faults>>

-----------------------------------------------------------------------------
(* Challenges. *)

InFlight(n) == \E r \in Request : request[r].pc # "idle" /\ request[r].nonce = n

\* insertAuthNonce.
Issued(g) == [state |-> "open", wallet |-> g]

\* handleCreateChallenge: a nonce never used before.  The model takes one up
\* again once no answer can be given for it.
CreateChallenge(n, g) ==
  /\ authNonces[n].state # "open" /\ ~InFlight(n)
  /\ authNonces' = [authNonces EXCEPT ![n] = Issued(g)]
  /\ signed' = [signed EXCEPT ![n] = 0]
  /\ UNCHANGED <<contract, cumulativeEarned, request, vouchers, faults>>

ExpireChallenge(n) ==
  /\ faults < MaxFaults
  /\ authNonces[n].state = "open"
  /\ authNonces' = [authNonces EXCEPT ![n].state = "expired"]
  /\ faults' = faults + 1
  /\ UNCHANGED <<contract, cumulativeEarned, request, vouchers, signed>>

-----------------------------------------------------------------------------
(* Requests: handleEntitlement. *)

\* findAuthNonce: a row that was inserted, whatever has become of it.
Found(n) == authNonces[n].state # "none"
Consumable(n) == authNonces[n].state = "open"

\* The signed message names a challenge that was issued to the wallet; whether it
\* can still be consumed is only looked at later, and one that cannot is presented
\* by mistake.
Submit(r, n) ==
  /\ request[r].pc = "idle"
  /\ Found(n)
  /\ \/ Consumable(n) /\ UNCHANGED faults
     \/ ~Consumable(n) /\ faults < MaxFaults /\ faults' = faults + 1
  /\ request' = [request EXCEPT ![r] =
       [NoRequest EXCEPT !.pc = "read", !.nonce = n, !.guest = authNonces[n].wallet]]
  /\ UNCHANGED <<contract, cumulativeEarned, authNonces, vouchers, signed>>

\* What a view call of the contract, or the statement on guest_entitlements, answers
\* at the moment it is served.
Answered(q, field) ==
  [q EXCEPT !.earned = IF field = "earned" THEN cumulativeEarned[q.guest] ELSE @,
            !.claimed = IF field = "claimed" THEN roomServiceClaimed[q.guest] ELSE @,
            !.epoch = IF field = "epoch" THEN signerEpoch ELSE @,
            !.signer = IF field = "signer" THEN entitlementSigner ELSE @]

\* One of the concurrent reads returns.  (The fifth, of room_service_claims,
\* always returns 0: nothing writes that table.)
Read(r, field) ==
  LET q == request[r] IN
  /\ q.pc = "read"
  /\ field \notin q.read
  /\ request' = [request EXCEPT ![r] =
       [Answered(q, field) EXCEPT !.read = q.read \cup {field}]]
  /\ UNCHANGED <<contract, cumulativeEarned, authNonces, vouchers, signed, faults>>

\* All reads are back and the key is the one on chain: the challenge is consumed,
\* or had been already, or has expired.
Consume(r) ==
  LET q == request[r] IN
  /\ q.pc = "read" /\ q.read = Field
  /\ IF q.signer = ApiSigner /\ Consumable(q.nonce)
     THEN /\ authNonces' = [authNonces EXCEPT ![q.nonce].state = "consumed"]
          /\ request' = [request EXCEPT ![r].pc = "sign"]
     ELSE /\ request' = [request EXCEPT ![r] = NoRequest]
          /\ UNCHANGED authNonces
  /\ UNCHANGED <<contract, cumulativeEarned, vouchers, signed, faults>>

\* reconcileClaimable: the figure signed is the cumulative one; no more claimed
\* than earned, and something left.
Claimable(q) == q.earned > q.claimed
Cumulative(q) == q.earned

\* signRoomServiceClaim: the voucher binds the guest, the figure and the epoch read.
SignRoomServiceClaim(q) ==
  [guest |-> q.guest, cumulative |-> Cumulative(q), epoch |-> q.epoch,
   signer |-> ApiSigner]

Sign(r) ==
  LET q == request[r] IN
  /\ q.pc = "sign"
  /\ IF Claimable(q)
     THEN /\ vouchers' = vouchers \cup {SignRoomServiceClaim(q)}
          /\ signed' = [signed EXCEPT ![q.nonce] = @ + 1]
     ELSE UNCHANGED <<vouchers, signed>>
  /\ request' = [request EXCEPT ![r] = NoRequest]
  /\ UNCHANGED <<contract, cumulativeEarned, authNonces, faults>>

\* A read throws, a rate limit applies, or the server goes away.
Abandon(r) ==
  /\ faults < MaxFaults
  /\ request[r].pc # "idle"
  /\ request' = [request EXCEPT ![r] = NoRequest]
  /\ faults' = faults + 1
  /\ UNCHANGED <<contract, cumulativeEarned, authNonces, vouchers, signed>>

-----------------------------------------------------------------------------
(* The contract. *)

Payout(g, cumulative) == cumulative - roomServiceClaimed[g]

\* claimRoomService, by the guest the voucher names.  That claims may be paused,
\* which only delays them, and the guest's code running inside are in RoomService.
ClaimRoomService(v) ==
  /\ v.epoch = signerEpoch /\ v.signer = entitlementSigner
  /\ v.cumulative > roomServiceClaimed[v.guest]
  /\ Payout(v.guest, v.cumulative) <= ethBalance
  /\ ethBalance' = ethBalance - Payout(v.guest, v.cumulative)
  /\ roomServiceClaimed' = [roomServiceClaimed EXCEPT ![v.guest] = v.cumulative]
  /\ UNCHANGED <<entitlementSigner, signerEpoch, cumulativeEarned, api, faults>>

ExpireVoucher(v) ==
  /\ faults < MaxFaults
  /\ vouchers' = vouchers \ {v}
  /\ faults' = faults + 1
  /\ UNCHANGED <<contract, cumulativeEarned, authNonces, request, signed>>

RotateEntitlementSigner(k) ==
  /\ signerEpoch < MaxEpoch
  /\ entitlementSigner' = k
  /\ signerEpoch' = signerEpoch + 1
  /\ UNCHANGED <<ethBalance, roomServiceClaimed, cumulativeEarned, api, faults>>

-----------------------------------------------------------------------------
RequestStep(r) == (\E field \in Field : Read(r, field)) \/ Consume(r) \/ Sign(r)

Next ==
  \/ ReceiveEth \/ FinalizeRound
  \/ \E n \in Challenge :
       \/ \E g \in Guest : CreateChallenge(n, g)
       \/ ExpireChallenge(n)
       \/ \E r \in Request : Submit(r, n)
  \/ \E r \in Request : RequestStep(r) \/ Abandon(r)
  \/ \E v \in vouchers : ClaimRoomService(v) \/ ExpireVoucher(v)
  \/ \E k \in Signer : RotateEntitlementSigner(k)

Spec == Init /\ [][Next]_vars

\* A guest keeps asking for challenges, presenting them and redeeming vouchers,
\* and requests run on; strong fairness because another guest may be served first.
FairSpec ==
  /\ Spec
  /\ \A r \in Request : WF_vars(RequestStep(r))
  /\ \A g \in Guest :
       /\ SF_vars(\E n \in Challenge : CreateChallenge(n, g))
       /\ SF_vars(\E r \in Request, n \in Challenge :
                    Consumable(n) /\ authNonces[n].wallet = g /\ Submit(r, n))
       /\ SF_vars(\E v \in vouchers : v.guest = g /\ ClaimRoomService(v))

-----------------------------------------------------------------------------
(* Properties. *)

\* A voucher the contract would redeem can always be paid: claimRoomService never
\* reverts for want of ETH.
VouchersArePayable ==
  \A v \in vouchers :
    v.cumulative > roomServiceClaimed[v.guest] =>
      Payout(v.guest, v.cumulative) <= ethBalance

\* However many requests present one challenge at once, one voucher comes of it.
OneVoucherPerChallenge == \A n \in Challenge : signed[n] <= 1

\* What holds them up, all of it inductive together: a figure that was read, signed
\* or paid was earned, and what was earned has arrived.
ReadWasEarned ==
  \A r \in Request : request[r].pc # "idle" =>
    /\ request[r].guest \in Guest /\ request[r].nonce \in Challenge
    /\ request[r].earned <= cumulativeEarned[request[r].guest]
SignedWasEarned == \A v \in vouchers : v.cumulative <= cumulativeEarned[v.guest]
PaidWasEarned == \A g \in Guest : roomServiceClaimed[g] <= cumulativeEarned[g]
EarnedHasArrived == Total(cumulativeEarned) <= Received

\* And a challenge about to yield a voucher is consumed, has yielded none, and is
\* held by one request.
SingleUse ==
  /\ \A n \in Challenge :
       /\ authNonces[n].state # "none" => authNonces[n].wallet \in Guest
       /\ signed[n] <= 1
       /\ authNonces[n].state = "open" => signed[n] = 0
  /\ \A r \in Request : request[r].pc = "sign" =>
       /\ authNonces[request[r].nonce].state = "consumed"
       /\ signed[request[r].nonce] = 0
       /\ \A s \in Request : request[s].pc = "sign" /\ request[s].nonce = request[r].nonce
                             => s = r

IInv ==
  /\ TypeOK /\ ReadWasEarned /\ SignedWasEarned /\ PaidWasEarned
  /\ EarnedHasArrived /\ SingleUse

\* The worker, the API and the contract together are a ledger that pays each guest
\* what they earned, once, out of what has arrived.
Ledger == INSTANCE PayoutLedger
  WITH received <- Received, earned <- cumulativeEarned, paid <- roomServiceClaimed

ImplementsLedger == Ledger!Spec

\* As long as the key on chain is the one the API has, everyone gets everything
\* they earned.
EveryWeiIsPaid ==
  <>[](entitlementSigner = ApiSigner) =>
    \A g \in Guest : []<>(roomServiceClaimed[g] = cumulativeEarned[g])

=============================================================================
