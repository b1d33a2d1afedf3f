------------------------------ MODULE Ranking -------------------------------
(***************************************************************************)
(* Rooms, the lobby, check-in eligibility and Room Service weights: the    *)
(* arithmetic of packages/domain/src as its three users apply it.          *)
(*                                                                         *)
(*   - the public page ranks holders without code (public-state.ts);       *)
(*   - the check-in API ranks every holder and asks for the code of the    *)
(*     guest alone (check-in/handlers.ts);                                 *)
(*   - the worker ranks the holders without code at the snapshot block     *)
(*     and splits the pool by reward weight (pipeline.ts, allocate.ts).    *)
(*                                                                         *)
(* They read balances and stays of one moment here: how the database lags  *)
(* behind the chain is the subject of Indexer, CheckInIngest, CheckInApi   *)
(* and HotelStatus.  Addresses are numbers, as compareAddressNumeric takes *)
(* them.                                                                   *)
(***************************************************************************)
EXTENDS Naturals, FiniteSets, Totals

CONSTANTS
  Account,              \* the addresses that may hold HOTEL, as numbers
  RoomService,          \* the contract
  Market,               \* the pool that HOTEL is bought from, a contract
  ExcludedAddresses,    \* burns and the rows of excluded_addresses
  ManualExclusions,     \* burns, protocol and manual exclusions of the worker
  Contract,             \* the addresses with code at the start
  HOTEL_ROOM_COUNT,
  CHECK_IN_DURATION,
  Supply,
  \* Bounds of the model.
  MaxTime, MaxPool

Guest == Account \ {RoomService, Market}

\* The two lists of exclusions are kept apart, one in the database and one in the
\* environment of the worker, and nothing makes them agree.
ASSUME RankingAssumption ==
  /\ Account \subseteq Nat /\ IsFiniteSet(Account)
  /\ RoomService \in Account /\ Market \in Account /\ RoomService # Market
  /\ {RoomService, Market} \subseteq Contract /\ Contract \subseteq Account
  /\ Supply \in Nat /\ CHECK_IN_DURATION \in Nat
  /\ HOTEL_ROOM_COUNT \in Nat \ {0}
  /\ MaxTime \in Nat /\ MaxPool \in Nat

VARIABLES
  held,                 \* HOTEL in each wallet, the rows of holders
  stay,                 \* the stay not withdrawn of each account
  code,                 \* the addresses whose eth_getCode is not empty
  now                   \* block time

vars == <<held, stay, code, now>>

Stay == [amount : Nat, unlock : Nat]
NoStay == [amount |-> 0, unlock |-> 0]

BASE_REWARD_WEIGHT_BPS == 10000
CHECKED_IN_REWARD_WEIGHT_BPS == 15000
CHECK_IN_MINIMUM_BPS == 1000

-----------------------------------------------------------------------------
\* The type of the state; an account without escrow has no unlock time left.
TypeOK ==
  /\ held \in [Account -> Nat]
  /\ stay \in [Account -> Stay]
  /\ \A a \in Account : stay[a].amount = 0 => stay[a] = NoStay
  /\ code \subseteq Account
  /\ now \in Nat

Init ==
  /\ held = [a \in Account |-> IF a = Market THEN Supply ELSE 0]
  /\ stay = [a \in Account |-> NoStay]
  /\ code = Contract
  /\ now = 0

-----------------------------------------------------------------------------
(* Faulty variants, one slip each; no action uses them. *)

FaultyEffectiveBalance(a) == held[a]
FaultyRequiredBalance(u, t) == held[t] + stay[t].amount
FaultyRewardWeight(a) == held[a]

-----------------------------------------------------------------------------
(* Balances and ranks. *)

\* Wallet-held HOTEL and escrow not withdrawn, whether it is locked or not.
EffectiveBalance(a) == held[a] + stay[a].amount

HoldersWithEffectiveBalance(excluded) ==
  {a \in Account \ excluded : EffectiveBalance(a) > 0}

FilterEligible(holders) == {a \in holders : a \notin code}

\* compareHoldersForRanking: more HOTEL first, then the lower address.
Precedes(a, b) ==
  \/ EffectiveBalance(a) > EffectiveBalance(b)
  \/ EffectiveBalance(a) = EffectiveBalance(b) /\ a < b

Rank(a, holders) == Cardinality({b \in holders : Precedes(b, a)}) + 1
IsTopHundred(a, holders) == a \in holders /\ Rank(a, holders) <= HOTEL_ROOM_COUNT

\* The three rankings.
PublicExclusions == ExcludedAddresses \cup {RoomService}
FaultyPublicRanked == HoldersWithEffectiveBalance(PublicExclusions)
PublicRanked == FilterEligible(HoldersWithEffectiveBalance(PublicExclusions))

CheckInRanked == HoldersWithEffectiveBalance(PublicExclusions)

WorkerExclusions == ManualExclusions \cup {RoomService}
WorkerRanked == FilterEligible(HoldersWithEffectiveBalance(WorkerExclusions))

\* Somebody that only the first ranking has is ahead of a in it.
Displaced(a, ranked, other) == \E b \in ranked \ other : Precedes(b, a)

-----------------------------------------------------------------------------
(* The page: rooms, the lobby and the tokens missing to the next room. *)

\* roomAssignmentForRank: the penthouse and the rooms, or the lobby.
IsRoom(rank) == rank <= HOTEL_ROOM_COUNT

\* roomsFromRanked, and what room the page gives a connected wallet.
Occupies(a, room) ==
  /\ a \in PublicRanked
  /\ Rank(a, PublicRanked) = room
  /\ IsRoom(room)
InLobby(a) == a \in PublicRanked /\ ~IsRoom(Rank(a, PublicRanked))

\* The guest whose room a connected guest is told to buy: the next one up, or
\* the door of the lobby.
TargetAbove(a) ==
  {t \in Account : \E room \in 1 .. HOTEL_ROOM_COUNT - 1 :
                     Occupies(t, room) /\ Occupies(a, room + 1)}
TargetDoor == {t \in Account : Occupies(t, HOTEL_ROOM_COUNT)}
Targets(a) == IF InLobby(a) THEN TargetDoor ELSE TargetAbove(a)

SaturatingSub(a, b) == IF a > b THEN a - b ELSE 0
RequiredBalance(u, t) ==
  IF u < t THEN EffectiveBalance(t) ELSE EffectiveBalance(t) + 1
AdditionalNeeded(u, t) ==
  SaturatingSub(RequiredBalance(u, t), EffectiveBalance(u))

StayBoostPhase(a) ==
  IF stay[a].amount = 0 THEN "none"
  ELSE IF now < stay[a].unlock THEN "active" ELSE "expired"

RewardMultiplierBps(isTop100, phase) ==
  IF ~isTop100 THEN 0
  ELSE IF phase = "active" THEN CHECKED_IN_REWARD_WEIGHT_BPS
  ELSE BASE_REWARD_WEIGHT_BPS

\* What connectedCheckInDto shows.
CurrentRewardMultiplier(a) ==
  RewardMultiplierBps(IsTopHundred(a, PublicRanked), StayBoostPhase(a))

ActiveCheckedInTop100 ==
  {a \in PublicRanked : /\ IsTopHundred(a, PublicRanked)
                        /\ StayBoostPhase(a) = "active"}

\* What readEscrowCoherence asks before the page shows rooms.
EscrowCoherent == Total([a \in Account |-> stay[a].amount]) <= held[RoomService]

-----------------------------------------------------------------------------
(* The worker: who is paid at a snapshot, and how much. *)

EscrowBps(a) ==
  IF StayBoostPhase(a) = "active" THEN CHECKED_IN_REWARD_WEIGHT_BPS
  ELSE BASE_REWARD_WEIGHT_BPS
RewardWeight(a) ==
  (held[a] * BASE_REWARD_WEIGHT_BPS + stay[a].amount * EscrowBps(a))
    \div BASE_REWARD_WEIGHT_BPS

SnapshotGuests == {a \in WorkerRanked : IsTopHundred(a, WorkerRanked)}

ProRata(pool, weight, total) ==
  IF total = 0 THEN 0 ELSE (pool * weight) \div total

AllocateServicePool(pool) ==
  LET total == Total([a \in SnapshotGuests |-> RewardWeight(a)]) IN
  [a \in SnapshotGuests |-> ProRata(pool, RewardWeight(a), total)]

-----------------------------------------------------------------------------
(* The check-in API and the token. *)

CheckInMinimum(a) == (EffectiveBalance(a) * CHECK_IN_MINIMUM_BPS + 9999) \div 10000

FaultyEligible(a) ==
  /\ stay[a].amount = 0
  /\ IsTopHundred(a, CheckInRanked)
  /\ held[a] >= CheckInMinimum(a) /\ held[a] > 0

\* handleCheckInAuthorize signs for a.
Eligible(a) ==
  /\ a \notin code
  /\ stay[a].amount = 0
  /\ IsTopHundred(a, CheckInRanked)
  /\ held[a] >= CheckInMinimum(a) /\ held[a] > 0

\* ERC20: nobody sends what they do not have, and the contract sends only what
\* a guest checks out.
Transfer(a, b, n) ==
  /\ a # b /\ a # RoomService
  /\ n <= held[a]
  /\ held' = [held EXCEPT ![a] = @ - n, ![b] = @ + n]
  /\ UNCHANGED <<stay, code, now>>

CheckIn(a, n) ==
  /\ Eligible(a)
  /\ CheckInMinimum(a) <= n /\ n <= held[a]
  /\ held' = [held EXCEPT ![a] = @ - n, ![RoomService] = @ + n]
  /\ stay' = [stay EXCEPT ![a] = [amount |-> n, unlock |-> now + CHECK_IN_DURATION]]
  /\ UNCHANGED <<code, now>>

\* delete _stays[guest].
CloseStay(a) == [stay EXCEPT ![a] = NoStay]

CheckOut(a) ==
  /\ stay[a].amount > 0
  /\ now >= stay[a].unlock
  /\ held' = [held EXCEPT ![a] = @ + stay[a].amount,
                          ![RoomService] = @ - stay[a].amount]
  /\ stay' = CloseStay(a)
  /\ UNCHANGED <<code, now>>

\* An address may be given code after it has held HOTEL or checked in.
Deploy(a) ==
  /\ a \notin code
  /\ code' = code \cup {a}
  /\ UNCHANGED <<held, stay, now>>

Tick ==
  /\ now < MaxTime
  /\ now' = now + 1
  /\ UNCHANGED <<held, stay, code>>

Next ==
  \/ \E a \in Account : \E b \in Account : \E n \in 1 .. Supply : Transfer(a, b, n)
  \/ \E a \in Guest : \E n \in 1 .. Supply : CheckIn(a, n)
  \/ \E a \in Guest : CheckOut(a)
  \/ \E a \in Guest : Deploy(a)
  \/ Tick

Spec == Init /\ [][Next]_vars

-----------------------------------------------------------------------------
(* Properties. *)

\* The contract holds what it owes, no address loses its code: with TypeOK, the
\* inductive invariant.
IInv == TypeOK /\ EscrowCoherent /\ Contract \subseteq code

\* No two guests get one room, however many hold the same balance: the map by
\* room that roomsFromRanked fills loses nobody.
OneGuestPerRoom ==
  \A a \in PublicRanked : \A b \in PublicRanked :
    Rank(a, PublicRanked) = Rank(b, PublicRanked) => a = b

\* Whoever the check-in API signs for has a room on the page, although the API
\* ranks accounts with code too.  That guest is paid by a round of that moment
\* as well, unless the worker's list excludes the guest or lacks one that the
\* page excludes and that is ahead.
AuthorizedHasRoom ==
  \A a \in Account :
    Eligible(a) => /\ IsTopHundred(a, PublicRanked)
                   /\ a \notin SnapshotGuests => \/ a \in WorkerExclusions
                                                 \/ Displaced(a, WorkerRanked, PublicRanked)

\* The multiplier the page shows a guest, and the guests it counts as checked
\* in, are those of a round of that moment, but for guests that only one of the
\* lists excludes and those whom such a one displaces.
ShownIsPaid ==
  \A a \in Account :
    /\ CurrentRewardMultiplier(a) > 0 /\ a \notin SnapshotGuests =>
         \/ a \in WorkerExclusions
         \/ Displaced(a, WorkerRanked, PublicRanked)
    /\ CurrentRewardMultiplier(a) = 0 /\ a \in SnapshotGuests =>
         \/ a \in PublicExclusions
         \/ Displaced(a, PublicRanked, WorkerRanked)
    /\ CurrentRewardMultiplier(a) > 0 /\ a \in SnapshotGuests =>
         (a \in ActiveCheckedInTop100 <=>
            EscrowBps(a) = CHECKED_IN_REWARD_WEIGHT_BPS /\ stay[a].amount > 0)

\* A guest who buys what the page says is missing gets the room it names or a
\* better one, and does not get it for one unit less.
BuyTakesTarget ==
  [][\A a \in Guest : \A t \in Targets(a) : \A n \in 1 .. Supply :
       Transfer(Market, a, n) =>
         ((Rank(a, PublicRanked)' <= Rank(t, PublicRanked))
            <=> n >= AdditionalNeeded(a, t))]_vars

\* Checking in and out moves nobody to another room: tokens in escrow count
\* for their guest, and the contract's balance for nobody.
StaysKeepRooms ==
  [][\A a \in Guest :
       ((\E n \in 1 .. Supply : CheckIn(a, n)) \/ CheckOut(a)) =>
         /\ PublicRanked' = PublicRanked
         /\ \A b \in PublicRanked : Rank(b, PublicRanked)' = Rank(b, PublicRanked)]_vars

\* Checking in never costs the guest part of a round, and never adds to what
\* another guest gets.
CheckInPays ==
  [][\A a \in Guest :
       (\E n \in 1 .. Supply : CheckIn(a, n)) =>
         \A pool \in 0 .. MaxPool :
           LET before == AllocateServicePool(pool)
               after == AllocateServicePool(pool)' IN
           \A b \in SnapshotGuests :
             IF b = a THEN after[b] >= before[b] ELSE after[b] <= before[b]]_vars

=============================================================================
