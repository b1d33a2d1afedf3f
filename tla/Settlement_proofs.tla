--------------------------- MODULE Settlement_proofs ---------------------------
(***************************************************************************)
(* Theorems about the way of a guest's earnings, for any guests, amounts,  *)
(* keys, challenges and number of concurrent requests, and about the rate  *)
(* limits in front of the API that signs for them.                         *)
(***************************************************************************)
EXTENDS Settlement, RateLimits, Totals_proofs

\* The parts of the invariant that speak of requests and challenges.
ApiInv == ReadWasEarned /\ SignedWasEarned /\ SingleUse

LEMMA InitIInv == Init => IInv
<1>. SUFFICES ASSUME Init PROVE IInv
  OBVIOUS
<1>. USE SettlementAssumption DEF Init
<1>1. TypeOK
  BY DEF TypeOK, Nothing, NoNonce, NoRequest, Nonce, RequestState, Voucher, Field
<1>2. ReadWasEarned /\ SignedWasEarned
  BY DEF ReadWasEarned, SignedWasEarned, NoRequest
<1>3. PaidWasEarned
  BY DEF PaidWasEarned, Nothing
<1>4. EarnedHasArrived
  BY TotalZero DEF EarnedHasArrived, Received, Nothing
<1>5. SingleUse
  BY DEF SingleUse, NoNonce, NoRequest
<1>. QED
  BY <1>1, <1>2, <1>3, <1>4, <1>5 DEF IInv

\* ETH arrives.
LEMMA ReceiveIInv ==
  ASSUME IInv, ReceiveEth
  PROVE  IInv'
<1>. USE DEF IInv, ReceiveEth, api
<1>1. TypeOK'
  BY DEF TypeOK
<1>2. ApiInv'
  BY DEF ApiInv, ReadWasEarned, SignedWasEarned, SingleUse
<1>3. PaidWasEarned'
  BY DEF PaidWasEarned
<1>4. EarnedHasArrived'
  <2>1. Total(roomServiceClaimed) \in Nat /\ Total(cumulativeEarned) \in Nat
    BY TotalType, SettlementAssumption DEF TypeOK
  <2>. QED
    BY <2>1 DEF EarnedHasArrived, Received, TypeOK
<1>. QED
  BY <1>1, <1>2, <1>3, <1>4 DEF ApiInv

\* A round only adds to what was earned.
LEMMA FinalizeIInv ==
  ASSUME IInv, FinalizeRound
  PROVE  IInv'
<1>. USE DEF IInv, FinalizeRound, contract, api
<1>1. PICK credit \in [Guest -> 0 .. MaxReceived] :
        cumulativeEarned' = [g \in Guest |-> cumulativeEarned[g] + credit[g]]
  BY DEF Credited
<1>2. /\ cumulativeEarned' \in [Guest -> Nat]
      /\ \A g \in Guest : cumulativeEarned[g] <= cumulativeEarned'[g]
  BY <1>1, SettlementAssumption DEF TypeOK
<1>3. TypeOK'
  BY <1>2 DEF TypeOK
<1>4. ReadWasEarned'
  BY <1>2 DEF ReadWasEarned, TypeOK, RequestState
<1>5. SignedWasEarned'
  BY <1>2 DEF SignedWasEarned, TypeOK, Voucher
<1>6. PaidWasEarned'
  BY <1>2 DEF PaidWasEarned, TypeOK
<1>7. EarnedHasArrived'
  BY DEF EarnedHasArrived, Received
<1>8. SingleUse'
  BY DEF SingleUse
<1>. QED
  BY <1>3, <1>4, <1>5, <1>6, <1>7, <1>8

\* Challenges come and go: nothing about money changes, and a challenge is only
\* taken up again when no request holds it.
LEMMA ChallengeIInv ==
  ASSUME IInv, NEW n \in Challenge,
         \/ \E g \in Guest : CreateChallenge(n, g)
         \/ ExpireChallenge(n)
  PROVE  IInv'
<1>1. CASE \E g \in Guest : CreateChallenge(n, g)
  <2>. PICK g \in Guest : CreateChallenge(n, g)
    BY <1>1
  <2>. USE DEF IInv, CreateChallenge, Issued, contract
  <2>1. TypeOK'
    BY DEF TypeOK, Nonce
  <2>2. ReadWasEarned' /\ SignedWasEarned' /\ PaidWasEarned' /\ EarnedHasArrived'
    BY DEF ReadWasEarned, SignedWasEarned, PaidWasEarned, EarnedHasArrived, Received
  <2>3. SingleUse'
    <3>1. \A r \in Request : request[r].pc = "sign" => request[r].nonce # n
      BY DEF InFlight
    <3>. QED
      BY <3>1 DEF SingleUse, TypeOK, Nonce, ReadWasEarned
  <2>. QED
    BY <2>1, <2>2, <2>3
<1>2. CASE ExpireChallenge(n)
  <2>. USE <1>2 DEF IInv, ExpireChallenge, contract
  <2>1. TypeOK'
    BY DEF TypeOK, Nonce
  <2>2. ReadWasEarned' /\ SignedWasEarned' /\ PaidWasEarned' /\ EarnedHasArrived'
    BY DEF ReadWasEarned, SignedWasEarned, PaidWasEarned, EarnedHasArrived, Received
  <2>3. SingleUse'
    BY DEF SingleUse, TypeOK, Nonce, ReadWasEarned
  <2>. QED
    BY <2>1, <2>2, <2>3
<1>. QED
  BY <1>1, <1>2

\* A request begins with the wallet its challenge was issued to.
LEMMA SubmitIInv ==
  ASSUME IInv, NEW r \in Request, NEW n \in Challenge, Submit(r, n)
  PROVE  IInv'
<1>. DEFINE q == [NoRequest EXCEPT !.pc = "read", !.nonce = n,
                                   !.guest = authNonces[n].wallet]
<1>. USE DEF IInv, Submit, Found, contract
<1>1. authNonces[n].wallet \in Guest
  BY DEF SingleUse
<1>2. /\ q \in RequestState
      /\ q.pc = "read" /\ q.nonce = n /\ q.guest = authNonces[n].wallet /\ q.earned = 0
  BY <1>1, SettlementAssumption DEF NoRequest, RequestState, Field
<1>. HIDE DEF q
<1>3. request' = [request EXCEPT ![r] = q] /\ faults' \in Nat
  BY DEF q, TypeOK
<1>4. TypeOK'
  BY <1>2, <1>3 DEF TypeOK
<1>5. ReadWasEarned'
  <2>1. q.guest \in Guest /\ q.nonce \in Challenge /\ q.earned <= cumulativeEarned'[q.guest]
    BY <1>1, <1>2 DEF TypeOK
  <2>2. \A s \in Request : s # r => request'[s] = request[s]
    BY <1>3 DEF TypeOK
  <2>3. request'[r] = q /\ ReadWasEarned /\ UNCHANGED cumulativeEarned
    BY <1>3 DEF TypeOK
  <2>. QED
    BY ONLY <2>1, <2>2, <2>3 DEF ReadWasEarned
<1>6. SignedWasEarned' /\ PaidWasEarned' /\ EarnedHasArrived'
  BY DEF SignedWasEarned, PaidWasEarned, EarnedHasArrived, Received
<1>7. SingleUse'
  BY <1>2, <1>3 DEF SingleUse, TypeOK
<1>. QED
  BY <1>4, <1>5, <1>6, <1>7

\* Earnings only grow, so what was read stays below them.
LEMMA ReadIInv ==
  ASSUME IInv, NEW r \in Request, NEW field \in Field, Read(r, field)
  PROVE  IInv'
<1>. DEFINE q == request[r]
            p == request'[r]
<1>. USE DEF IInv, Read, Answered, contract
<1>1. /\ q \in RequestState /\ q.pc = "read" /\ q.guest \in Guest
      /\ q.nonce \in Challenge /\ q.earned <= cumulativeEarned[q.guest]
  BY DEF TypeOK, ReadWasEarned
<1>2. request' = [request EXCEPT ![r] = p]
  BY DEF TypeOK
<1>3. /\ p \in RequestState /\ p.pc = "read" /\ p.guest = q.guest
      /\ p.nonce = q.nonce /\ p.earned <= cumulativeEarned[q.guest]
  <2>1. p = [q EXCEPT
               !.read = q.read \cup {field},
               !.earned = IF field = "earned" THEN cumulativeEarned[q.guest] ELSE @,
               !.claimed = IF field = "claimed" THEN roomServiceClaimed[q.guest] ELSE @,
               !.epoch = IF field = "epoch" THEN signerEpoch ELSE @,
               !.signer = IF field = "signer" THEN entitlementSigner ELSE @]
    BY DEF TypeOK
  <2>2. /\ cumulativeEarned[q.guest] \in Nat /\ roomServiceClaimed[q.guest] \in Nat
        /\ signerEpoch \in Nat /\ entitlementSigner \in Signer
    BY <1>1 DEF TypeOK
  <2>3. p = [pc |-> q.pc, nonce |-> q.nonce, guest |-> q.guest,
             read |-> q.read \cup {field},
             earned |-> IF field = "earned" THEN cumulativeEarned[q.guest] ELSE q.earned,
             claimed |-> IF field = "claimed" THEN roomServiceClaimed[q.guest] ELSE q.claimed,
             epoch |-> IF field = "epoch" THEN signerEpoch ELSE q.epoch,
             signer |-> IF field = "signer" THEN entitlementSigner ELSE q.signer]
    <3>. HIDE DEF q, p
    <3>. QED
      BY ONLY <1>1, <2>1 DEF RequestState
  <2>4. field \in Field
    OBVIOUS
  <2>. HIDE DEF q, p
  <2>. QED
    BY ONLY <1>1, <2>2, <2>3, <2>4 DEF RequestState
<1>. HIDE DEF q, p
<1>4. TypeOK'
  BY <1>2, <1>3 DEF TypeOK
<1>5. ReadWasEarned'
  BY <1>1, <1>2, <1>3 DEF ReadWasEarned, TypeOK
<1>6. SignedWasEarned' /\ PaidWasEarned' /\ EarnedHasArrived'
  BY DEF SignedWasEarned, PaidWasEarned, EarnedHasArrived, Received
<1>7. SingleUse'
  BY <1>2, <1>3 DEF SingleUse, TypeOK
<1>. QED
  BY <1>4, <1>5, <1>6, <1>7

\* A request that ends leaves everything else as it is.
LEMMA EndOfRequest ==
  ASSUME IInv, NEW r \in Request,
         request' = [request EXCEPT ![r] = NoRequest],
         faults' \in Nat,
         UNCHANGED <<contract, cumulativeEarned, authNonces, vouchers, signed>>
  PROVE  IInv'
<1>. USE DEF IInv, contract
<1>1. NoRequest \in RequestState /\ NoRequest.pc = "idle"
  BY SettlementAssumption DEF NoRequest, RequestState, Field
<1>2. TypeOK'
  BY <1>1 DEF TypeOK
<1>3. ReadWasEarned'
  BY <1>1 DEF ReadWasEarned, TypeOK
<1>4. SignedWasEarned' /\ PaidWasEarned' /\ EarnedHasArrived'
  BY DEF SignedWasEarned, PaidWasEarned, EarnedHasArrived, Received
<1>5. SingleUse'
  BY <1>1 DEF SingleUse, TypeOK
<1>. QED
  BY <1>2, <1>3, <1>4, <1>5

\* Of all requests that hold a challenge only one consumes it.
LEMMA ConsumeIInv ==
  ASSUME IInv, NEW r \in Request, Consume(r)
  PROVE  IInv'
<1>. DEFINE q == request[r]
            p == [q EXCEPT !.pc = "sign"]
<1>1. CASE q.signer = ApiSigner /\ Consumable(q.nonce)
  <2>. USE <1>1 DEF IInv, Consume, Consumable, contract
  <2>1. /\ q \in RequestState /\ q.guest \in Guest /\ q.nonce \in Challenge
        /\ q.earned <= cumulativeEarned[q.guest]
        /\ authNonces[q.nonce].state = "open"
    BY DEF TypeOK, ReadWasEarned
  <2>2. /\ p \in RequestState /\ p.pc = "sign" /\ p.nonce = q.nonce
        /\ p.guest = q.guest /\ p.earned = q.earned
    BY <2>1 DEF RequestState
  <2>3. /\ request' = [request EXCEPT ![r] = p]
        /\ authNonces' = [authNonces EXCEPT ![q.nonce].state = "consumed"]
    BY DEF TypeOK
  <2>. HIDE DEF q, p
  <2>4. TypeOK'
    BY <2>1, <2>2, <2>3 DEF TypeOK, Nonce
  <2>5. ReadWasEarned'
    BY <2>1, <2>2, <2>3 DEF ReadWasEarned, TypeOK
  <2>6. SignedWasEarned' /\ PaidWasEarned' /\ EarnedHasArrived'
    BY DEF SignedWasEarned, PaidWasEarned, EarnedHasArrived, Received
  <2>7. SingleUse'
    BY <2>1, <2>2, <2>3 DEF SingleUse, TypeOK, Nonce, ReadWasEarned
  <2>. QED
    BY <2>4, <2>5, <2>6, <2>7
<1>2. CASE ~(q.signer = ApiSigner /\ Consumable(q.nonce))
  BY <1>2, EndOfRequest DEF Consume, IInv, TypeOK
<1>. QED
  BY <1>1, <1>2

\* What is signed was read, and the challenge it is signed for is used up.
LEMMA SignIInv ==
  ASSUME IInv, NEW r \in Request, Sign(r)
  PROVE  IInv'
<1>. DEFINE q == request[r]
            v == [guest |-> q.guest, cumulative |-> Cumulative(q),
                  epoch |-> q.epoch, signer |-> ApiSigner]
<1>1. CASE Claimable(q)
  <2>. USE <1>1 DEF IInv, Sign, SignRoomServiceClaim, contract
  <2>1. /\ q \in RequestState /\ q.pc = "sign" /\ q.guest \in Guest
        /\ q.nonce \in Challenge /\ q.earned <= cumulativeEarned[q.guest]
    BY DEF TypeOK, ReadWasEarned
  <2>2. /\ v \in Voucher /\ v.guest = q.guest /\ v.cumulative = q.earned
    BY <2>1, SettlementAssumption DEF RequestState, Voucher, Claimable, Cumulative
  <2>3. /\ vouchers' = vouchers \cup {v}
        /\ signed' = [signed EXCEPT ![q.nonce] = @ + 1]
        /\ request' = [request EXCEPT ![r] = NoRequest]
    OBVIOUS
  <2>4. NoRequest \in RequestState /\ NoRequest.pc = "idle"
    BY SettlementAssumption DEF NoRequest, RequestState, Field
  <2>. HIDE DEF q, v
  <2>5. TypeOK'
    BY <2>1, <2>2, <2>3, <2>4 DEF TypeOK
  <2>6. ReadWasEarned'
    BY <2>3, <2>4 DEF ReadWasEarned, TypeOK
  <2>7. SignedWasEarned'
    BY <2>1, <2>2, <2>3 DEF SignedWasEarned
  <2>8. PaidWasEarned' /\ EarnedHasArrived'
    BY DEF PaidWasEarned, EarnedHasArrived, Received
  <2>9. SingleUse'
    <3>1. signed[q.nonce] = 0 /\ authNonces[q.nonce].state = "consumed"
      BY <2>1 DEF SingleUse, q
    <3>2. \A s \in Request : s # r /\ request[s].pc = "sign" => request[s].nonce # q.nonce
      BY <2>1 DEF SingleUse, q
    <3>. QED
      BY <2>1, <2>3, <2>4, <3>1, <3>2 DEF SingleUse, TypeOK
  <2>. QED
    BY <2>5, <2>6, <2>7, <2>8, <2>9
<1>2. CASE ~Claimable(q)
  BY <1>2, EndOfRequest DEF Sign, IInv, TypeOK
<1>. QED
  BY <1>1, <1>2

\* A claim raises what was claimed to a figure that was earned; the balance falls
\* by as much as the total claimed grows.
LEMMA ClaimSteps ==
  ASSUME IInv, NEW v \in vouchers, ClaimRoomService(v)
  PROVE  /\ v.guest \in Guest /\ v.cumulative \in Nat
         /\ roomServiceClaimed[v.guest] < v.cumulative
         /\ v.cumulative <= cumulativeEarned[v.guest]
         /\ roomServiceClaimed' \in [Guest -> Nat]
         /\ ethBalance' \in Nat
         /\ Received' = Received
<1>. USE DEF IInv, ClaimRoomService, Payout
<1>1. v.guest \in Guest /\ v.cumulative \in Nat
  BY DEF TypeOK, Voucher
<1>2. v.cumulative <= cumulativeEarned[v.guest]
  BY DEF SignedWasEarned
<1>3. roomServiceClaimed \in [Guest -> Nat] /\ IsFiniteSet(Guest)
  BY SettlementAssumption DEF TypeOK
<1>4. roomServiceClaimed' \in [Guest -> Nat]
  BY <1>1, <1>3
<1>5. /\ roomServiceClaimed[v.guest] \in Nat /\ Total(roomServiceClaimed) \in Nat
      /\ Total(roomServiceClaimed')
           = (Total(roomServiceClaimed) - roomServiceClaimed[v.guest]) + v.cumulative
  BY <1>1, <1>3, TotalType, TotalUpdate
<1>6. ethBalance' \in Nat /\ Received' = Received
  BY <1>1, <1>5 DEF Received, TypeOK
<1>. QED
  BY <1>1, <1>2, <1>4, <1>6

LEMMA ClaimIInv ==
  ASSUME IInv, NEW v \in vouchers, ClaimRoomService(v)
  PROVE  IInv'
<1>1. /\ v.guest \in Guest /\ v.cumulative \in Nat
      /\ v.cumulative <= cumulativeEarned[v.guest]
      /\ roomServiceClaimed' \in [Guest -> Nat]
      /\ ethBalance' \in Nat
      /\ Received' = Received
  BY ClaimSteps
<1>. USE DEF IInv, ClaimRoomService, api
<1>2. TypeOK'
  BY <1>1 DEF TypeOK
<1>3. ApiInv'
  BY DEF ApiInv, ReadWasEarned, SignedWasEarned, SingleUse
<1>4. PaidWasEarned'
  BY <1>1 DEF PaidWasEarned, TypeOK
<1>5. EarnedHasArrived'
  BY <1>1 DEF EarnedHasArrived
<1>. QED
  BY <1>2, <1>3, <1>4, <1>5 DEF ApiInv

\* Deadlines and key rotations.
LEMMA ExpireIInv ==
  ASSUME IInv, NEW v \in vouchers, ExpireVoucher(v)
  PROVE  IInv'
BY DEF IInv, ExpireVoucher, contract, TypeOK, ReadWasEarned, SignedWasEarned,
       PaidWasEarned, EarnedHasArrived, Received, SingleUse

LEMMA RotateIInv ==
  ASSUME IInv, NEW k \in Signer, RotateEntitlementSigner(k)
  PROVE  IInv'
BY DEF IInv, RotateEntitlementSigner, api, TypeOK, ReadWasEarned, SignedWasEarned,
       PaidWasEarned, EarnedHasArrived, Received, SingleUse

LEMMA StutterIInv ==
  ASSUME IInv, UNCHANGED vars
  PROVE  IInv'
BY DEF IInv, vars, TypeOK, ReadWasEarned, SignedWasEarned, PaidWasEarned,
       EarnedHasArrived, Received, SingleUse

LEMMA NextIInv == IInv /\ [Next]_vars => IInv'
<1>. SUFFICES ASSUME IInv, [Next]_vars PROVE IInv'
  OBVIOUS
<1>1. CASE ReceiveEth
  BY <1>1, ReceiveIInv
<1>2. CASE FinalizeRound
  BY <1>2, FinalizeIInv
<1>3. ASSUME NEW n \in Challenge,
             \/ \E g \in Guest : CreateChallenge(n, g)
             \/ ExpireChallenge(n)
      PROVE  IInv'
  BY <1>3, ChallengeIInv
<1>4. ASSUME NEW n \in Challenge, NEW r \in Request, Submit(r, n)
      PROVE  IInv'
  BY <1>4, SubmitIInv
<1>5. ASSUME NEW r \in Request, RequestStep(r)
      PROVE  IInv'
  BY <1>5, ReadIInv, ConsumeIInv, SignIInv DEF RequestStep
<1>6. ASSUME NEW r \in Request, Abandon(r)
      PROVE  IInv'
  <2>1. faults' \in Nat
    BY <1>6 DEF Abandon, IInv, TypeOK
  <2>. QED
    BY <1>6, <2>1, EndOfRequest DEF Abandon
<1>7. ASSUME NEW v \in vouchers, ClaimRoomService(v) \/ ExpireVoucher(v)
      PROVE  IInv'
  BY <1>7, ClaimIInv, ExpireIInv
<1>8. ASSUME NEW k \in Signer, RotateEntitlementSigner(k)
      PROVE  IInv'
  BY <1>8, RotateIInv
<1>9. CASE UNCHANGED vars
  BY <1>9, StutterIInv
<1>. QED
  BY <1>1, <1>2, <1>3, <1>4, <1>5, <1>6, <1>7, <1>8, <1>9 DEF Next

\* The inductive invariant holds in every state.
THEOREM Invariance == Spec => []IInv
BY InitIInv, NextIInv, PTL DEF Spec

\* The state is well typed, and no voucher is ever signed for nothing.
THEOREM TypeCorrect == Spec => []TypeOK
<1>1. IInv => TypeOK
  BY DEF IInv
<1>. QED
  BY Invariance, <1>1, PTL

\* One challenge yields one voucher, however many requests of the entitlement API
\* present it at the same time.
THEOREM ChallengesAreSingleUse == Spec => []OneVoucherPerChallenge
<1>1. IInv => OneVoucherPerChallenge
  BY DEF IInv, SingleUse, OneVoucherPerChallenge
<1>. QED
  BY Invariance, <1>1, PTL

\* Every voucher the contract would redeem is covered by its balance: what others
\* earned and have not claimed is still there as well.
THEOREM VouchersAreCovered == Spec => []VouchersArePayable
<1>1. IInv => VouchersArePayable
  <2>. SUFFICES ASSUME IInv, NEW v \in vouchers,
                       v.cumulative > roomServiceClaimed[v.guest]
                PROVE  Payout(v.guest, v.cumulative) <= ethBalance
    BY DEF VouchersArePayable
  <2>. DEFINE after == [roomServiceClaimed EXCEPT ![v.guest] = v.cumulative]
  <2>1. v.guest \in Guest /\ v.cumulative \in Nat /\ ethBalance \in Nat
    BY DEF IInv, TypeOK, Voucher
  <2>2. /\ roomServiceClaimed \in [Guest -> Nat] /\ cumulativeEarned \in [Guest -> Nat]
        /\ IsFiniteSet(Guest) /\ after \in [Guest -> Nat]
    BY <2>1, SettlementAssumption DEF IInv, TypeOK
  <2>3. \A g \in Guest : after[g] <= cumulativeEarned[g]
    BY <2>1, <2>2 DEF IInv, SignedWasEarned, PaidWasEarned
  <2>4. Total(after) = (Total(roomServiceClaimed) - roomServiceClaimed[v.guest])
                         + v.cumulative
    <3>1. IsFiniteSet(Guest) /\ roomServiceClaimed \in [Guest -> Nat]
      BY <2>2
    <3>. QED
      BY ONLY <2>1, <3>1, TotalUpdate
  <2>. HIDE DEF after
  <2>5. Total(after) <= Total(cumulativeEarned)
    BY <2>2, <2>3, TotalMonotone
  <2>6. Total(cumulativeEarned) <= ethBalance + Total(roomServiceClaimed)
    BY DEF IInv, EarnedHasArrived, Received
  <2>7. /\ Total(after) \in Nat /\ Total(cumulativeEarned) \in Nat
        /\ Total(roomServiceClaimed) \in Nat /\ roomServiceClaimed[v.guest] \in Nat
    BY <2>1, <2>2, TotalType
  <2>. QED
    BY <2>1, <2>4, <2>5, <2>6, <2>7 DEF Payout
<1>. QED
  BY Invariance, <1>1, PTL

\* The worker, the API and the contract implement the ledger: every step of theirs
\* is one of its steps or leaves it alone.
THEOREM SettlementImplementsLedger == Spec => ImplementsLedger
<1>1. Init => Ledger!Init
  BY SettlementAssumption, TotalZero
     DEF Init, Ledger!Init, Ledger!Nothing, Nothing, Received
<1>2. IInv /\ [Next]_vars => [Ledger!Next]_(Ledger!vars)
  <2>. SUFFICES ASSUME IInv, [Next]_vars
                PROVE  [Ledger!Next]_(Ledger!vars)
    OBVIOUS
  <2>0. /\ Total(roomServiceClaimed) \in Nat /\ ethBalance \in Nat
        /\ Received \in Nat
    BY SettlementAssumption, TotalType DEF IInv, TypeOK, Received
  <2>1. CASE ReceiveEth
    <3>1. /\ Received' = Received + 1
          /\ UNCHANGED <<cumulativeEarned, roomServiceClaimed>>
      BY <2>0, <2>1 DEF ReceiveEth, Received
    <3>. QED
      BY <2>0, <3>1 DEF Ledger!Next, Ledger!Receive
  <2>2. CASE FinalizeRound
    <3>1. PICK credit \in [Guest -> 0 .. MaxReceived] :
            cumulativeEarned' = [g \in Guest |-> cumulativeEarned[g] + credit[g]]
      BY <2>2 DEF FinalizeRound, Credited
    <3>2. /\ cumulativeEarned' \in [Guest -> Nat]
          /\ \A g \in Guest : cumulativeEarned[g] <= cumulativeEarned'[g]
      BY <3>1, SettlementAssumption DEF IInv, TypeOK
    <3>3. /\ Received' = Received /\ UNCHANGED roomServiceClaimed
          /\ Total(cumulativeEarned') <= Received
      BY <2>2 DEF FinalizeRound, contract, Received
    <3>4. Ledger!Total(cumulativeEarned') = Total(cumulativeEarned')
      BY DEF Ledger!Total, Ledger!Units, Ledger!Cardinality, Total, Units, Cardinality
    <3>5. Ledger!Earn
      BY <3>2, <3>3, <3>4 DEF Ledger!Earn
    <3>. QED
      BY <3>5 DEF Ledger!Next
  <2>3. ASSUME NEW v \in vouchers, ClaimRoomService(v)
        PROVE  Ledger!Next
    <3>1. /\ v.guest \in Guest /\ v.cumulative \in Nat
          /\ roomServiceClaimed[v.guest] < v.cumulative
          /\ v.cumulative <= cumulativeEarned[v.guest]
          /\ Received' = Received
      BY <2>3, ClaimSteps
    <3>2. roomServiceClaimed[v.guest] \in Nat /\ cumulativeEarned[v.guest] \in Nat
      BY <3>1 DEF IInv, TypeOK
    <3>3. v.cumulative \in (roomServiceClaimed[v.guest] + 1) .. cumulativeEarned[v.guest]
      BY <3>1, <3>2
    <3>4. /\ roomServiceClaimed' = [roomServiceClaimed EXCEPT ![v.guest] = v.cumulative]
          /\ UNCHANGED cumulativeEarned
      BY <2>3 DEF ClaimRoomService
    <3>5. Ledger!Pay(v.guest)
      BY <3>1, <3>3, <3>4 DEF Ledger!Pay
    <3>. QED
      BY <3>1, <3>5 DEF Ledger!Next
  <2>4. ASSUME UNCHANGED <<ethBalance, roomServiceClaimed, cumulativeEarned>>
        PROVE  UNCHANGED Ledger!vars
    BY <2>4 DEF Ledger!vars, Received
  <2>5. ASSUME NEW n \in Challenge,
               \/ \E g \in Guest : CreateChallenge(n, g)
               \/ ExpireChallenge(n)
               \/ \E r \in Request : Submit(r, n)
        PROVE  UNCHANGED Ledger!vars
    BY <2>4, <2>5 DEF CreateChallenge, ExpireChallenge, Submit, contract
  <2>6. ASSUME NEW r \in Request, RequestStep(r) \/ Abandon(r)
        PROVE  UNCHANGED Ledger!vars
    BY <2>4, <2>6 DEF RequestStep, Read, Consume, Sign, Abandon, contract
  <2>7. ASSUME NEW v \in vouchers, ExpireVoucher(v)
        PROVE  UNCHANGED Ledger!vars
    BY <2>4, <2>7 DEF ExpireVoucher, contract
  <2>8. ASSUME NEW k \in Signer, RotateEntitlementSigner(k)
        PROVE  UNCHANGED Ledger!vars
    BY <2>4, <2>8 DEF RotateEntitlementSigner
  <2>9. CASE UNCHANGED vars
    BY <2>4, <2>9 DEF vars
  <2>. QED
    BY <2>1, <2>2, <2>3, <2>5, <2>6, <2>7, <2>8, <2>9 DEF Next
<1>. QED
  BY <1>1, <1>2, Invariance, PTL DEF Spec, ImplementsLedger, Ledger!Spec

-----------------------------------------------------------------------------
(* The rate limits in front of the API. *)

LEMMA LimitPositive == \A b : Limit(b) \in Nat \ {0}
BY RateLimitsAssumption DEF Limit

LEMMA InitLimitInv == LimitInit => LimitInv
<1>. SUFFICES ASSUME LimitInit PROVE LimitInv
  OBVIOUS
<1>. USE RateLimitsAssumption DEF LimitInit
<1>1. 0 \in Time
  BY DEF Time
<1>2. \A b \in Bucket : limits[b] = NoLimitRow /\ \A t \in Time : granted[b][t] = 0
  OBVIOUS
<1>3. LimitTypeOK
  BY <1>1 DEF LimitTypeOK, NoLimitRow, LimitRow
<1>4. WindowIsLimited /\ WindowsAreApart /\ FullBeforeRefusing
  BY <1>2, LimitPositive DEF WindowIsLimited, WindowsAreApart, FullBeforeRefusing
<1>5. \A b \in Bucket : RowIsLastWindow(b)
  BY <1>1, <1>2, LimitPositive DEF RowIsLastWindow, Allows, NoLimitRow
<1>. QED
  BY <1>3, <1>4, <1>5 DEF LimitInv

\* The row after a hit: of a new window, or counted one up in the same.
LEMMA TakenRow ==
  ASSUME NEW row \in LimitRow, NEW now \in Time
  PROVE  /\ TakeRateLimit(row, now) \in LimitRow
         /\ TakeRateLimit(row, now).hit_count > 0
         /\ Expired(row, now) => /\ TakeRateLimit(row, now).window_start = now
                                 /\ TakeRateLimit(row, now).hit_count = 1
         /\ ~Expired(row, now) =>
              /\ row.hit_count > 0
              /\ TakeRateLimit(row, now).window_start = row.window_start
              /\ TakeRateLimit(row, now).hit_count = row.hit_count + 1
BY DEF TakeRateLimit, Expired, LimitRow

LEMMA HitKeepsLimitInv ==
  ASSUME LimitInv, NEW h \in Handler, Hit(h)
  PROVE  LimitInv'
<1>. DEFINE b == Head(handling[h].buckets)
            now == handling[h].now
            row == TakeRateLimit(limits[b], now)
            start == row.window_start
<1>0. WINDOW \in Nat \ {0} /\ MaxClock \in Nat
  BY RateLimitsAssumption
<1>1. /\ b \in Bucket /\ now \in Time /\ limits[b] \in LimitRow
      /\ Tail(handling[h].buckets) \in Seq(Bucket)
  BY DEF LimitInv, LimitTypeOK, Hit, Done
<1>2. row \in LimitRow /\ start \in Time /\ row.hit_count \in Nat
  BY <1>1, TakenRow DEF LimitRow
<1>3. limits' = [limits EXCEPT ![b] = row] /\ clock' = clock /\ requests' = requests
  BY DEF Hit
<1>4. /\ Allows(b, row) => /\ granted' = [granted EXCEPT ![b][start] = @ + 1]
                           /\ refused' = refused
      /\ ~Allows(b, row) => /\ refused' = refused \cup {<<b, start>>}
                            /\ granted' = granted
  BY DEF Hit
<1>5. /\ row.hit_count > 0
      /\ Expired(limits[b], now) => start = now /\ row.hit_count = 1
      /\ ~Expired(limits[b], now) => /\ start = limits[b].window_start
                                     /\ row.hit_count = limits[b].hit_count + 1
  BY <1>1, TakenRow
<1>6. handling' = [handling EXCEPT ![h].buckets = Tail(handling[h].buckets)]
  BY DEF Hit
<1>. HIDE DEF b, now, row
<1>7. LimitTypeOK'
  <2>1. handling' \in [Handler -> [now : Time, buckets : Seq(Bucket)]]
    BY <1>1, <1>6 DEF LimitInv, LimitTypeOK
  <2>2. granted' \in [Bucket -> [Time -> Nat]] /\ refused' \subseteq Bucket \X Time
    <3>1. granted \in [Bucket -> [Time -> Nat]] /\ refused \subseteq Bucket \X Time
      BY DEF LimitInv, LimitTypeOK
    <3>2. CASE Allows(b, row)
      <4>1. granted[b] \in [Time -> Nat]
        BY <1>1, <3>1
      <4>2. [granted[b] EXCEPT ![start] = @ + 1] \in [Time -> Nat]
        BY <1>2, <4>1
      <4>3. granted' = [granted EXCEPT ![b] = [granted[b] EXCEPT ![start] = @ + 1]]
        BY <1>4, <3>2
      <4>. QED
        BY <1>1, <1>4, <3>1, <3>2, <4>2, <4>3
    <3>3. CASE ~Allows(b, row)
      BY <1>1, <1>2, <1>4, <3>1, <3>3
    <3>. QED
      BY <3>2, <3>3
  <2>. QED
    BY <1>1, <1>2, <1>3, <2>1, <2>2 DEF LimitInv, LimitTypeOK
<1>8. ASSUME NEW c \in Bucket, c # b
      PROVE  limits'[c] = limits[c] /\ granted'[c] = granted[c]
  BY <1>1, <1>3, <1>4, <1>8 DEF LimitInv, LimitTypeOK
<1>9. /\ limits'[b] = row
      /\ \A t \in Time \ {start} : granted'[b][t] = granted[b][t]
      /\ Allows(b, row) => granted'[b][start] = granted[b][start] + 1
      /\ ~Allows(b, row) => granted'[b] = granted[b]
      /\ \A t \in Time : granted[b][t] \in Nat
  <2>1. /\ granted \in [Bucket -> [Time -> Nat]] /\ DOMAIN limits = Bucket
        /\ \A t \in Time : granted[b][t] \in Nat
    BY <1>1 DEF LimitInv, LimitTypeOK
  <2>2. limits'[b] = row
    BY <1>1, <1>3, <2>1
  <2>3. CASE Allows(b, row)
    BY <1>1, <1>2, <1>4, <2>1, <2>2, <2>3
  <2>4. CASE ~Allows(b, row)
    BY <1>1, <1>4, <2>1, <2>2, <2>4
  <2>. QED
    BY <2>3, <2>4
\* What the window of the row had allowed before: nothing if it is new.
<1>10. granted[b][start] = IF row.hit_count - 1 <= Limit(b) THEN row.hit_count - 1
                          ELSE Limit(b)
  <2>0. RowIsLastWindow(b) /\ limits[b].window_start \in Time /\ limits[b].hit_count \in Nat
    BY <1>1 DEF LimitInv, LimitRow
  <2>1. CASE Expired(limits[b], now)
    <3>1. start = now /\ row.hit_count = 1
      BY <1>1, <2>1, <1>5
    <3>2. granted[b][now] = 0
      BY <1>0, <1>1, <1>9, <2>0, <2>1 DEF RowIsLastWindow, Expired, Time
    <3>. QED
      BY <3>1, <3>2, LimitPositive
  <2>2. CASE ~Expired(limits[b], now)
    <3>1. start = limits[b].window_start /\ row.hit_count = limits[b].hit_count + 1
      BY <1>1, <2>2, <1>5
    <3>. QED
      BY <3>1, <2>0, LimitPositive DEF RowIsLastWindow, Allows
  <2>. QED
    BY <2>1, <2>2
<1>11. granted'[b][start] = IF Allows(b, row) THEN row.hit_count ELSE Limit(b)
  <2>1. row.hit_count \in Nat \ {0} /\ Limit(b) \in Nat \ {0}
    BY <1>1, <1>2, <1>5, LimitPositive
  <2>2. CASE Allows(b, row)
    BY <1>9, <1>10, <2>1, <2>2 DEF Allows
  <2>3. CASE ~Allows(b, row)
    BY <1>9, <1>10, <2>1, <2>3 DEF Allows
  <2>. QED
    BY <2>2, <2>3
\* Every other window that allowed something ended before this one began.
<1>12. \A t \in Time \ {start} : granted[b][t] > 0 => t <= start - WINDOW
  <2>0. RowIsLastWindow(b) /\ limits[b].window_start \in Time /\ limits[b].hit_count \in Nat
    BY <1>1 DEF LimitInv, LimitRow
  <2>1. CASE Expired(limits[b], now)
    BY <1>0, <1>1, <2>0, <2>1, <1>5 DEF RowIsLastWindow, Expired, Time
  <2>2. CASE ~Expired(limits[b], now)
    BY <1>1, <2>0, <2>2, <1>5 DEF RowIsLastWindow
  <2>. QED
    BY <2>1, <2>2
<1>13. WindowIsLimited'
  <2>1. granted'[b][start] <= Limit(b)
    BY <1>2, <1>11, LimitPositive DEF Allows
  <2>. QED
    BY <2>1, <1>8, <1>9 DEF WindowIsLimited, LimitInv
<1>14. WindowsAreApart'
  <2>. SUFFICES ASSUME NEW c \in Bucket, NEW s \in Time, NEW t \in Time,
                       s < t, granted'[c][s] > 0, granted'[c][t] > 0
                PROVE  t - s >= WINDOW
    BY DEF WindowsAreApart
  <2>1. CASE c # b \/ (s # start /\ t # start)
    BY <2>1, <1>8, <1>9 DEF WindowsAreApart, LimitInv
  <2>2. CASE c = b /\ t = start
    <3>1. granted[b][s] > 0 /\ s \in Time \ {start}
      BY <1>2, <1>9, <2>2 DEF Time
    <3>. QED
      BY <1>0, <1>2, <1>12, <2>2, <3>1 DEF Time
  <2>3. CASE c = b /\ s = start
    <3>1. granted[b][t] > 0 /\ t \in Time \ {start}
      BY <1>2, <1>9, <2>3 DEF Time
    <3>2. t <= start - WINDOW
      BY <1>12, <3>1
    <3>. QED
      BY <1>0, <1>2, <2>3, <3>2 DEF Time
  <2>. QED
    BY <2>1, <2>2, <2>3
<1>15. FullBeforeRefusing'
  <2>. SUFFICES ASSUME NEW c \in Bucket, NEW t \in Time, <<c, t>> \in refused'
                PROVE  granted'[c][t] = Limit(c)
    BY DEF FullBeforeRefusing
  <2>1. CASE <<c, t>> \in refused /\ ~(c = b /\ t = start)
    BY <2>1, <1>8, <1>9 DEF FullBeforeRefusing, LimitInv
  <2>2. CASE c = b /\ t = start
    <3>1. CASE Allows(b, row)
      <4>1. granted[b][start] = Limit(b)
        BY <1>4, <2>2, <3>1 DEF FullBeforeRefusing, LimitInv
      <4>. QED
        BY <4>1, <1>2, <1>10, <3>1, LimitPositive DEF Allows
    <3>2. CASE ~Allows(b, row)
      BY <1>11, <2>2, <3>2
    <3>. QED
      BY <3>1, <3>2
  <2>. QED
    BY <2>1, <2>2, <1>4
<1>16. ASSUME NEW c \in Bucket PROVE RowIsLastWindow(c)'
  <2>1. CASE c # b
    BY <2>1, <1>8 DEF RowIsLastWindow, Allows, LimitInv
  <2>2. CASE c = b
    <3>1. row.hit_count > 0
      BY <1>1, <1>5
    <3>. QED
      BY <2>2, <3>1, <1>2, <1>9, <1>11, <1>12 DEF RowIsLastWindow, Allows
  <2>. QED
    BY <2>1, <2>2
<1>. QED
  BY <1>7, <1>13, <1>14, <1>15, <1>16 DEF LimitInv

LEMMA NextLimitInv == LimitInv /\ [LimitNext]_limitVars => LimitInv'
<1>. SUFFICES ASSUME LimitInv, [LimitNext]_limitVars PROVE LimitInv'
  OBVIOUS
<1>1. CASE \E h \in Handler : Hit(h)
  BY <1>1, HitKeepsLimitInv
<1>2. CASE (\E h \in Handler : Arrive(h) \/ Lose(h)) \/ Elapse \/ UNCHANGED limitVars
  <2>1. UNCHANGED <<limits, granted, refused>>
    BY <1>2 DEF Arrive, Lose, Elapse, limitVars
  <2>2. LimitTypeOK'
    <3>0. LimitTypeOK
      BY DEF LimitInv
    <3>1. CASE \E h \in Handler : Arrive(h)
      <4>1. PICK h \in Handler, w \in WalletBucket, i \in IpBucket :
              handling' = [handling EXCEPT ![h] =
                             [now |-> clock, buckets |-> BucketKeys(w, i)]]
        BY <3>1 DEF Arrive
      <4>2. BucketKeys(w, i) \in Seq(Bucket)
        BY DEF BucketKeys, Bucket
      <4>3. requests' = requests + 1 /\ clock' = clock
        BY <3>1 DEF Arrive
      <4>. QED
        BY <2>1, <3>0, <4>1, <4>2, <4>3 DEF LimitTypeOK
    <3>2. CASE \E h \in Handler : Lose(h)
      <4>1. PICK h \in Handler : handling' = [handling EXCEPT ![h].buckets = << >>]
        BY <3>2 DEF Lose
      <4>2. << >> \in Seq(Bucket)
        OBVIOUS
      <4>. QED
        BY <2>1, <3>0, <3>2, <4>1, <4>2 DEF LimitTypeOK, Lose
    <3>3. CASE Elapse
      BY <3>0, <3>3, RateLimitsAssumption DEF LimitTypeOK, Elapse, Time
    <3>4. CASE UNCHANGED limitVars
      BY <3>0, <3>4 DEF LimitTypeOK, limitVars
    <3>. QED
      BY <1>2, <3>1, <3>2, <3>3, <3>4
  <2>. QED
    BY <2>1, <2>2 DEF LimitInv, WindowIsLimited, WindowsAreApart, FullBeforeRefusing,
      RowIsLastWindow
<1>. QED
  BY <1>1, <1>2 DEF LimitNext

\* LimitInv is inductive: whatever the limits, the window, the number of buckets
\* and of requests at once, and however late a hit comes after the clock it read.
THEOREM LimitsHold == LimitSpec => []LimitInv
<1>. QED
  BY InitLimitInv, NextLimitInv, PTL DEF LimitSpec

\* takeRateLimit: no window of a bucket allows more than the bucket's limit, and
\* windows that allow hits begin at least WINDOW apart.
THEOREM RatesAreLimited == LimitSpec => []RateIsLimited
<1>1. LimitInv => RateIsLimited
  BY DEF LimitInv, RateIsLimited
<1>. QED
  BY <1>1, LimitsHold, PTL

\* enforceRateLimits: who is refused was refused by a window that is full.
THEOREM RefusalsAreDue == LimitSpec => []FullBeforeRefusing
<1>1. LimitInv => FullBeforeRefusing
  BY DEF LimitInv
<1>. QED
  BY <1>1, LimitsHold, PTL

=============================================================================
