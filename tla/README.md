# TLA+ specifications of $HOTEL

Hotel100 ranks the holders of the HOTEL token and gives the first hundred a
room. Every quarter of an hour (`ROOM_SERVICE_INTERVAL_SECONDS`) a worker
collects the token's creator fees into a contract and divides them among the
guests, who claim their share with vouchers that an API signs. Guests may also
check in: their tokens are held by the contract for an hour. This directory
holds TLA+ models of the parts whose correctness depends on order, concurrency
or failure, the TLC configurations that check them on small instances, and
TLAPS proofs of the main results for every value of the constants.

## The system

| Part | State it keeps | Operations | Talks to |
| --- | --- | --- | --- |
| `RoomService` contract (`contracts/src/RoomService.sol`) | cumulative claims per guest and in total, stays and their total liability, spent check-in nonces, two signer keys with epochs, owner, two pause flags | claim, collect, check in, check out, rotate keys, pause, recover surplus | Pons fee escrow, HOTEL token, the guests it pays |
| Indexer (`apps/worker/src/indexer`) | in Postgres: transfer log, balances, cursor with block hash, public status, incidents | poll: hash check, rewind, gap check, index a range, reconcile; restart | RPC node, check-in ingest, pipeline (shared status) |
| Check-in ingest (`apps/worker/src/check-in`) | in Postgres: append-only events, derived positions | ingest an event, rebuild after a reorg, escrow at a past block | called by the indexer and by the pipeline's snapshot |
| Room Service pipeline (`apps/worker/src/room-service`) | in Postgres: rounds, allocations, cumulative entitlements, delay flags, incidents | run: collect with retries, snapshot, allocate, finalize; mark and clear a delay | contract, RPC node, `finalize_room_service_round` |
| Entitlement API (`apps/web/src/entitlement`) | sign-in nonces, rate limits | issue a challenge, sign a voucher | database, contract views |
| Check-in API (`apps/web/src/check-in`) | the same nonce table | issue a challenge, sign a check-in authorization | database, contract views |
| Arithmetic (`packages/domain/src`) | none | rank, required balance, boost, division of a pool | used by the page, the check-in API and the pipeline |
| Public state (`apps/web/src/hotel/public-state.ts`) | none, reads the database | answer the page's poll | database |
| Page (`apps/web/src/hotel/HotelApp.tsx`) | connected account, snapshot shown, loads under way, busy flag | poll, connect, one handler per button | public state, wallet flows |
| Wallet flows (`apps/web/src/hotel/check-in-tx.ts`, `claim.ts`) | in the page only | approve, check in, check out, claim | both APIs, wallet, contract |

What makes it hard:

* the guest's code runs in the middle of a payout;
* nothing but the finalization of a round is a database transaction: a process
  may die, or a statement fail, between any two statements of the indexer, the
  ingest and the pipeline;
* the chain reorganises between, and during, the calls of a poll;
* a transaction whose receipt times out may be mined later, beside its retry;
* two workers overlap while one is being replaced;
* API requests that present one challenge run at the same time, and read the
  database and the contract at different moments;
* signed messages outlive the state they were signed in;
* a service may be overdue for many periods and every one is still owed;
* the indexer and the pipeline write one status, and the page reads it before the
  table it is about;
* three users of the same ranking start from different lists of accounts;
* in the page, clicks, polls, changes of account and of chain overlap.

What makes each part correct:

* the contract: ETH and HOTEL add up at every moment a stranger's code can look,
  nobody is paid twice, a stay comes back whole, nothing the owner does locks it;
* the pipeline: no wei is allocated twice or without having arrived, history
  does not change, no service is left out;
* settlement: what was earned is paid, once, and every voucher is covered;
* the indexer: the log is the chain, the balances are the log, in the end both
  are up to date;
* the ingest: the escrow at any indexed block is what the contract held there, as
  long as no poll ended within a range or a rewind;
* the status: a table that is not whole or was rewound is announced, rooms have
  every block up to their date whole, and those shown as current are recent;
* the check-in API: one authorization for a challenge, none that opens a stay
  nobody asked for, and a quiet index gives a true ranking;
* the ranking: who may check in has a room, page and rounds differ only by their
  lists of exclusions, what the page promises a buyer is so, staying costs nobody
  anything;
* the page: what it calls confirmed has happened, its buttons come back, it shows
  one account and not another, and a stay can be left through it.

`PROJECT.json` lists every part under `components`, and every hazard, at its
line, under `hazards`.

## Modules

| Module | Models | Proved about in |
| --- | --- | --- |
| `Totals` | `Total(f)`, the sum of a function, as the number of its units | `Totals_proofs` |
| `RoomService` | the contract | `RoomService_proofs` |
| `ServiceRounds` | the pipeline and `finalize_room_service_round` | `ServiceRounds_proofs` |
| `PayoutLedger` | what Room Service promises its guests (abstract) | `ServiceRounds_proofs`, `Settlement_proofs` |
| `Settlement` | rounds, the entitlement API and the contract's claims together; implements `PayoutLedger` | `Settlement_proofs` |
| `Indexer` | the indexer's poll | `IndexerRanking_proofs` |
| `CheckInIngest` | check-in events and positions, in the same poll | `CheckIn_proofs` |
| `HotelStatus` | the status and the dates in `system_state`, their two writers, and the page's reads | `HotelStatus_proofs` |
| `Ranking` | rooms, lobby, required balance, boost and shares, in their three users | `IndexerRanking_proofs` |
| `CheckInApi` | the check-in API between the contract and a lagging index | `CheckIn_proofs` |
| `RateLimits` | the rate limits in front of both APIs | `Settlement_proofs` |
| `WalletTx` | the page, the wallet and transactions under way | `WalletTx_proofs` |
| `MC...` | constants of the TLC runs | |

How they fit together: `RoomService` is the contract alone. `ServiceRounds` takes
from it what has arrived, `Settlement` what a claim pays, `CheckInApi` and
`Ranking` its check-in and check-out, `WalletTx` what it accepts of a
transaction. `Indexer` and `CheckInIngest` say what the index holds, `HotelStatus`
when it may be believed, `Ranking` what is made of it. Each takes from the others
only what those show of themselves.

Every module that models code begins, before its actions, with "faulty
variants": definitions with one slip each, that no action uses. Each property
is violated when one of them replaces the definition it is named after
(`mutants` in `PROJECT.json`), which shows that the property depends on it.

### RoomService

One action is one successful external call. A call that reverts is a stuttering
step. `claimRoomService` is two: `ClaimRoomService` up to and including the
transfer, and `ClaimReturns`; between them `payee` is the guest whose code runs,
`NonReentrant` is false, and everything without the modifier is enabled, also by
other accounts. The variables have the names of the Solidity fields; `paid`,
`ethReceived` and `checkIns` are history that only properties read. A signature
is the address it recovers to, so a caller may present any signed message.
Nothing pending in `collectRoomService` is a no-op and so a stuttering step.
Token and ETH amounts are far below 2^256 and are natural numbers.

### ServiceRounds

Each `await` of `pipeline.run` is a step of its worker (`pc`): `Run` (the due
services), `Broadcast`, `Verify` or `AttemptFails` (collection with its retry),
`ReadFinancials`, `ReadEarned`, `Submit`, then `ResolveIncident` and
`ClearDelay`, or `MarkDelayed`, `OpenIncident` and `MarkStuck`; `Abort` is an
exception or the death of the process at any of them. Any number of workers run.
The SQL function takes an advisory lock and is one transaction, so
`FinalizeRound` is one step. `Mine` is a block: transactions that were broadcast
and whose receipt was waited for may be mined in any block, strangers may
collect too. The snapshot (holders at the block, ranking, escrow boost) is any
weight function of `Weights`; `ProRata` divides the pool as `allocate.ts` does.
The pipeline implements the half of `PayoutLedger` in which nothing is paid yet
(`Earnings`): a round that is written is an `Earn`, a block that brings ETH a
`Receive`, and every other step stutters.

### PayoutLedger and Settlement

`PayoutLedger` is the promise in three actions: wei arrive, guests earn part of
what arrived, and a guest is paid a figure above what was paid before and no
more than what was earned. `Settlement` is how it is kept: `FinalizeRound`
credits entitlements, `CreateChallenge` and `Submit` begin a request, four
`Read` steps in any order are its `Promise.all`, `Consume` the update of
`auth_nonces`, `Sign` reconciliation and signing, and `ClaimRoomService` the
contract. Any number of requests run at once, also with the same challenge.
Deadlines (of a challenge and of a voucher) pass at any moment; `Abandon` is a
read that throws, a rate limit, or the death of the server. (What the limits
themselves do is `RateLimits`.) The fifth read of
the `Promise.all`, of `room_service_claims`, always returns 0, because no code
writes that table, and is left out.

Rounds and claims are reduced here to what the other two modules show of them:
`FinalizeRound` credits at most what has arrived (`ImplementsEarnings`), and a claim pays
the difference (`PaidIsClaimed`). Pauses and the guest's code in a payout, which
only delay a claim or make it revert, are in `RoomService`.

### Indexer

`pc` is the place in `runOnce`. Every write is a step, and so is every read of
the chain, because the chain may change between two; reads of the indexer's own
tables belong to the step that uses them, because polls never overlap. `Fail`
ends a poll anywhere (an exception) or kills the process (then `Restart`, which
is `onRestart`, comes first). Two answers of the node have a fault of their own:
a hash that cannot be had (`getBlockHash` returns null for a failed call: the
cursor's block is then taken for replaced, and a rewind stores a null hash for the
block before it) and a block that is missing (a gap). `cursor.hash = NoHash` is a
null `lastBlockHash`, with which a poll compares nothing; `holders[a] = 0` is no
row. Rows are sets; the order matters where balances are
replayed, and `RowBefore` is the order of the SQL query, `LogBefore` that of the
chain.

### CheckInIngest

The same poll reduced to what moves the cursor, with every write of
`check_in_events` and `check_in_positions` as a step. A failed hash lookup
(`BlockHash`) starts a rewind of a block that is in the chain, or leaves the cursor
without a hash, as in `Indexer`; below the first block there is nothing to rewind.
Two histories serve the properties: `torn` remembers that a poll ended between an
event and the end of its range, and `lost` the blocks of the chain whose events a
rewind deleted before it ended without moving the cursor. The next poll finds the
hash of such a block unchanged and never fetches it again.

### HotelStatus

The row of `system_state` (`system`) has the fields of the table that a status
depends on. Each statement of `runOnce` that writes it, the holders or the log is
a step of `indexer`, with these exceptions, which nobody can tell apart here: the
INSERTs of one `replaceBalances` are one step after its DELETE (`holders.whole` is
false in between), and the transfers of a range go through `InsertTransfer`,
`DebitSender` and `CreditReceiver` any number of times before `IndexRange` ends the
range. `then` is where a reconciliation goes on to. `MarkDelayed`, `MarkStuck`,
`ClearDelay` and `ClearStatus` are the statements of the pipeline, which runs
beside it and looks at nothing. The holders are reduced to the block up to which
they have every transfer whole (`version`), whether rows are missing (`whole`), and
whether a transfer of the log is missing in them or is there by half (`split`); the
log to the block up to which it is complete (`logged`). `PollThrows` is an
exception in any step, after which the next poll begins with `runOnce`; `Crash` may
come between any two steps, and the next thing is `onRestart`. A request reads the
row (`ReadSystem`), and rooms in a later statement (`ReadRooms`), or gets none.
`unannounced` and `calm` are history: that the pipeline wrote over HOTEL SYNCING
while it was needed or the cursor passed a transfer that a failed poll left half
applied, and that no replacement was announced after the row was read.

One block gets its confirmations a tick, so blocks are numbered by their time; a
tick stands for anything longer than the page's one-second clock.

### Ranking

Balances and stays of one moment, moved by transfers, check-ins, check-outs and
by code appearing at an address. `PublicRanked`, `CheckInRanked` and
`WorkerRanked` are the three rankings. Page and API take the exclusions of the
table `excluded_addresses`, the worker those of its environment
(`ManualExclusions`), and nothing makes the two agree: they are two constants,
unrelated. `Displaced` says that a guest is behind somebody only one list knows.
`Targets` and `AdditionalNeeded` are what the page tells a guest who wants a
better room, `CurrentRewardMultiplier` what it says a stay is worth, and
`AllocateServicePool` what a round pays. The operators are functions of the state,
so that a property can compare them before and after a step.

### CheckInApi

Each await of `handleCheckInAuthorize` is a step of its request, in the order of
the code; the two tables of `loadEffectiveRanking` are read in either order.
`Refuse` is every way to end early: a check that fails, a call that throws, a
limit, the death of the server. `index` is what the indexer wrote, and `range`
says that the transfers of a range are in and its check-in events are not.
`MaxAnswer` bounds how late a consumed challenge is signed for: without a bound
an authorization could be asked for before a stay and signed after it.
`quiet`, `deserved`, `askedAt` and `left` are history. Pauses and rotations of the
key are in `RoomService`.

### RateLimits

A bucket is a row of `entitlement_rate_limits`: when its window began and how
many hits it counted, refused ones included. A request reads the clock once
(`Arrive`) and then hits the bucket of its wallet and that of its address, each
by an upsert that is atomic (`Hit`), or is lost between the two (`Lose`). `Elapse`
lets time pass in between, so a hit may be older than the window it meets. The
two APIs prefix their keys and share nothing, and one of them is modelled.
`granted` and `refused` are history.

### WalletTx

`click` has the async functions under way, each with its place (`pc`), the account
it acts for and what became of its transaction; `loads` the calls of `load()`
whose answers have not come; `pool` the transactions that were sent, with the
click that waits for each or nobody. A snapshot is reduced to the account it is
about, the phase of its stay and its wallet balance; an answer may be the truth of
the moment it was asked for, or fail closed. `Continue` are the steps of the
four flows: preparation by the server, allowance or stay, `eth_chainId`, the
switch and `eth_chainId` again, simulation, sending and the receipt. `Fault` is
what goes wrong without a reason in the state and costs one of `MaxFaults`: a
throw, a refusal, an answer without a hash, giving up a transaction that is still
pending, a drop, a late voucher, a move of the wallet.

The click and the disabling of the buttons are one step: between the two the code
only has a microtask and a rendering.

## Runs

| Run | Instance | Shows |
| --- | --- | --- |
| `contract_claims` | two guests, three cumulative figures, fees and direct ETH up to 4 wei, two keys, two epochs | `EthConservation`, `PaidIsClaimed` |
| `contract_stays` | two guests with 2 HOTEL each, two nonces, times 0..2 | `EscrowBacked`, `StayReturnedWhole`, `CheckoutNeverBlocked` |
| `rounds_two_workers` | two workers, two services, fees of 0 or 2 | `PoolIsUnallocated`, `EntitlementsMatchRounds`, `RoundsAreImmutable`, `ImplementsEarnings` |
| `rounds_one_worker` | one worker, two attempts, three services, catch-up of two | `RoundsContiguous`, `StuckIsDelayed`, `DueServicesAreFinalized` |
| `settlement` | one guest, two requests, one challenge, two keys, 2 wei | `VouchersArePayable`, `OneVoucherPerChallenge`, `ImplementsLedger`, `EveryWeiIsPaid` |
| `indexer` | 4 blocks, 3 transfers; two failures and a reorg of one block, or two reorgs of up to two blocks with two of a gap and failed lookups | `LogIsTheChain`, `NothingSkipped`, `PollEndsBalanced`, `CatchesUp` |
| `indexer_syncing` | 4 blocks, 1 transfer, one block missing for a while; no poll is late, the chain grows | `SyncingEnds` violated |
| `check_in_ingest` | two guests, 4 blocks, a reorg of up to two blocks, two faults | `SnapshotIsExact`, `NoEventSkipped`, `IngestCatchesUp` |
| `hotel_status` | one request, times 0..3, a threshold of one tick | `UnsettledIsAnnounced`, `ShownRoomsAreSettled`, `CurrentRoomsAreRecent` |
| `ranking` | four guests, of whom the page's list excludes one and the worker's another, the contract and a market, 4 HOTEL in every distribution, two rooms, pools up to 4 | `AuthorizedHasRoom`, `ShownIsPaid`, `BuyTakesTarget`, `StaysKeepRooms`, `CheckInPays` |
| `check_in_api` | two guests of whom one holds all HOTEL, two requests, two challenges, one room, times 0..2, one transfer; apart from these two handlers, two wallets and one address, times 0..4, a window of 2, limits of 1 and 2, four requests | `OneAuthorizationPerChallenge`, `StaysAreFresh`, `AuthorizedIsTopRanked`; `RateIsLimited`, `FullBeforeRefusing` |
| `wallet` | one account, two clicks of which one may claim, one load of the timer, one change of account, one fault | `ConfirmedIsDone`, `BusyIsExact`, `SnapshotOfTheWallet`, `GuestGetsOut` |

The type invariants are proved, and so checked by no run. `check_in_api` runs two
systems that share no state, the requests and the limits in front of them, each
while the other stands where it begins (`MCSpec`).

Why these bounds are enough: two guests are what it takes for one guest's money
to be mistaken for another's, two workers, requests or keys for one to overtake
the other. Two nonces and three block times allow a second stay after a first
one. A total of 4 wei allows three different claims and dust of a division; two
services allow a pool computed from a stale sum, three a service left out
between two. One attempt in the run of two workers is no restriction on the
interleavings: a failed attempt leads to the same place as an aborted one. In
`settlement` one guest is enough for TLC because the theorems cover any number;
two requests can both have read before either consumes, and 2 wei allow a claim
between a request's reads. With one live confirmation, four blocks give the
indexer three blocks to index, so a rewind has a block before and one after it.
Three transfers, a mint and two that depend on it and on each other, are enough
for replaying twice or with a hole to show in the balances. In
`hotel_status` a run may begin, be overtaken by a threshold and end within three
ticks, with a failed poll before it, and one request is enough because requests do
not see each other. Two faults in `check_in_ingest` are a failed lookup and the
death of the rewind it began. Four guests and two rooms make a guest with a better
neighbour, one at the door and one in the lobby, on a page that leaves one of them
out and for a worker that leaves out another; 4 HOTEL make ties between any two.
The market is excluded by the worker's list alone. In `check_in_api` a lock of two ticks lets a guest
check in and out within the bound; one room of two guests makes every rank
matter. Four requests within two windows fill a bucket, are refused by it and
meet it again when its window is over, in any order of clocks and upserts. In `wallet` two clicks make every overlap of two flows, one fault
everything that can go wrong once, and the theorems cover any number of accounts,
clicks and faults.
Symmetry is used in safety runs only, for guests, workers, challenges and
requests, which are only compared with each other. Deadlock checking is off
where models stop when their bounds are used up; `wallet` never stops.

### Fairness

* `RoomService`: blocks come, the called guest's code ends (gas), and a guest
  who may check out does. Nothing is asked of the owner.
* `ServiceRounds`: the loop runs (weak fairness); calls that may fail and that
  are tried again in every run succeed again and again (strong fairness), a
  waiting transaction is mined. `rounds_one_worker` lets the worker die any
  number of times on the way.
* `Settlement`: requests run on; a guest who has something to claim asks again
  and again, with a challenge that can be consumed, and redeems the vouchers
  (strong fairness, because other guests may come first). `EveryWeiIsPaid` holds
  under the condition that the key on chain is the API's from some point on.
* `Indexer`, `CheckInIngest`: the timer fires, a poll in flight runs on, and
  for the indexer a poll that reconciles comes again and again
  (`HOLDER_RECONCILE_INTERVAL_MS`). Faults and reorgs are bounded in number, so
  they end: liveness is about what is left behind after the last one.
* `WalletTx`: the server and the wallet answer, transactions are mined, an hour
  passes (weak fairness); a poll that finds the index current, a wallet that
  switches when asked to, and a guest who clicks CHECK OUT when the page offers it
  come again and again as long as they can (strong fairness). The first of these
  is a condition on the rest of the system: while HOTEL SYNCING stays, as in
  `indexer_syncing`, the page offers no CHECK OUT at all.

## What the code does differently from what it says

* `indexer_syncing`: the node lacks a block, the index stops before it, later
  gets past it, log and holders are those of the chain, and `HOTEL SYNCING` stays
  (`SyncingEnds`, stated for exactly such a state). `finish` leaves that status
  alone when it is there, and nothing in the running worker clears it; the
  pipeline's `clearDelay` would, but the process does not start the pipeline. The
  cursor prompt of the repository ends its list for a gap with "5. resume." The
  run has a chain that grows (its end is no excuse for an index that gets old), no
  poll that finds the index older than the threshold, and one fault. A `finish`
  that writes the status back when the poll found no gap satisfies the property
  in the same run.

`LogIsTheChain` holds in `indexer` under conditions the code cannot rely on, and
each is needed. TLC finds it violated with

* a regime of `depth = 3`: `handleReorg` goes back one block and stores the hash
  the new chain has there, so orphaned blocks further down are never looked for
  again, and their transfers stay in the log and in every balance;
* `ReorgInPoll = TRUE`, two blocks replaced at most, no fault: a reorg between
  the reading of the logs (`engine.ts:261`) and of the hash they are anchored to
  (`engine.ts:294`) is never noticed;
* faults `{"crash", "nullCursorHash"}`, two of them and no reorg at all: a failed
  hash lookup starts a rewind, and a death after the transfers of the block were
  deleted and before the cursor moved back loses them for ever;
* faults `{"crash"}`, one of them and a reorg of two blocks: rows that a dead poll
  had inserted past the cursor survive the reorg of their blocks.

Other conditions that a property states, or that a run's constants are:

* The log is replayed in the order of block, transaction hash and log index
  (`postgres-store.ts:277`). A transfer in the block of the one
  that funded it makes a rebuild throw when its hash sorts first: the run has one
  transaction per block, and shows it with `MaxTxs = 2` and the mint listed last in
  `Transfer`.
* A death between an event and its position (`check-in/store.ts:49`) is never made
  good, since the event is found to be there on the next poll: `SnapshotIsExact` speaks
  of an index that is not `torn`, and `NoEventSkipped` of one that is not or that
  no reorg has met.
* A hash lookup that failed makes `handleReorg` delete the check-in events of a block
  that is in the chain (`engine.ts:80`, `367`). A poll that ends before the cursor has
  moved loses them for good, because the next one finds the hash unchanged. Such
  blocks are `lost`: `NoEventSkipped` is about the events of the others, and
  `SnapshotIsExact` about an index without any.
* When an event before a block that was replaced is `lost`, or a stale one was left
  by a `torn` range, the events may no longer fit together; then every rebuild
  throws, the rewind never ends, and the cursor stays where it is. `IngestCatchesUp`
  says that nothing else keeps it from the head (`IsStuck`).
* The pipeline writes its status over HOTEL SYNCING, and a transfer is inserted,
  debited and credited by three statements. A poll that throws in between leaves it
  half applied; the next poll takes it for done, moves the cursor past it, and only
  then compares the table with the log and announces and mends it.
  `UnsettledIsAnnounced` and `ShownRoomsAreSettled` except what is `unannounced` in
  these two ways. A range in progress, without any failure, may show the first half
  of a transfer, or some transfers and not others: it is in rooms only beyond their
  date, of which the properties say nothing.
* The two lists of exclusions may differ (`public-state.ts:393-402`, `types.ts:90-108`):
  a guest that may check in, or whom the page shows a multiplier, may be excluded by
  the worker or be displaced in its ranking by an account that only the page
  excludes. `AuthorizedHasRoom` and `ShownIsPaid` say that these are the only
  differences.
* `ConfirmedIsDone` is not about a wallet the guest moved to another chain between
  the check of the chain and the transaction, which names none. There the
  transaction succeeds without a contract to do anything, and the page says
  confirmed; `audit/hotel-mvp-gate-h-frontend.md:106` has "If it is still wrong,
  nothing is sent", which is so at the time of the check. Nor is it about
  approvals, whose receipt is waited for in the same way.
* On another chain the allowance of HOTEL cannot be read, and `executeCheckIn` ends
  with `insufficient_allowance` before it ever asks the wallet to switch.
* The page's claimable figure is all that was ever earned, since nothing writes
  `room_service_claims` (`public-state.ts:719`). Guests are offered a claim that
  the API refuses; nothing is paid twice.
* That services have no gap (`RoundsContiguous`) rests on the worker, for the SQL
  function takes any number as the first.

## Proofs

All theorems are proved by TLAPS for every value of the constants, from the
assumptions named in the modules (`RoomServiceAssumption`,
`ServiceRoundsAssumption`, `SettlementAssumption`, `RateLimitsAssumption`,
`IndexerAssumption`, `CheckInIngestAssumption`, `HotelStatusAssumption`,
`RankingAssumption`, `CheckInApiAssumption`, `WalletTxAssumption`): the sets
summed over are finite, amounts and bounds are natural numbers, and null values
are apart from the values they stand in for. One says more. `CheckInApiAssumption`:
a challenge, the answer it gives and the authorization together last less than a
stay, which the code's constants have by a wide margin.

Three hypotheses are not assumptions of a module but of the theorems that need
them, because without them the code does something else (see above, and `torn`).
`Robust` and `ShallowReorgs` say how deep reorgs go and which failures come with
them, and TLC evaluates them for the instances it runs (`ASSUME` in `MCIndexer`
and `MCCheckInIngest`). `OneWorker` says that workers do not overlap, which the
run of `StuckIsDelayed` has by its constants.

Every safety invariant and every action property that a passing run checks is a
theorem, and so are both refinements.

`Totals_proofs`: a total is a natural number, is 0 for nothing, changes by the
difference when one value does (`TotalUpdate`), is monotone, and the total of a
sum is the sum of the totals (`TotalSum`). `Total` counts
units instead of adding recursively, because facts about recursive functions
would need an induction principle the provers cannot use.

`RoomService_proofs`: `IInv` is the conjunction of the type, the money equations
and three facts the properties do not say. The escrow is backed because the
*stored* liability is (`LiabilityBacked`), which is what `recoverSurplusHotel`
looks at; that the liability stays a natural number on check-out needs
`LiabilityExact`; and when a stay ends needs `UnlockTimes`. Proved: every safety
property of the two contract runs.

`ServiceRounds_proofs`: `IInv` adds to the ledger facts what each worker knows
(`WorkerInv`). The point of the argument: two workers may both have read the sum
of what was allocated, but each works on the service after the last finalized
one; if another round was finalized since, it was *this* service, and the submit
changes nothing. So a sum about to be used is never stale. From
it also follows that the entitlements of all guests add up to what the rounds
allocated (`EntitlementsAddUp`), hence to no more than has arrived: that is the
refinement, `PipelineImplementsEarnings`. All this, `RoundsContiguous` included,
is for any number of workers. `StuckIsDelayed` needs a worker to be alone: then it
has set the delay before it looks at the incident (`DelayInv`), and clears both
flags by one statement.

`Settlement_proofs`: figures only grow on the way (paid, signed and read are at
most earned, and earned has arrived), so a read may be as old as it likes; and a
challenge that is about to yield a voucher is consumed and held by one request
(`SingleUse`). From these follow `OneVoucherPerChallenge`; `VouchersArePayable`,
where a guest's claim replaced by the voucher's figure still leaves the total
below what was earned (`TotalMonotone`); and the refinement, step by step: a
`ReceiveEth` is a `Receive`, a `FinalizeRound` an `Earn`, a claim a `Pay`, and
everything else stutters.

The same module has the rate limits. The row of a bucket is about the last of its
windows, and what that window has granted is the row's count, cut off at the
limit (`RowIsLastWindow`); an upsert either counts in it or begins a window at
least `WINDOW` later. However late the hits come, no window grants more than the
limit, windows begin `WINDOW` apart, and a refusal comes from a full one.

`IndexerRanking_proofs` (indexer): `IndexerInv` has a part for every regime and
two for regimes that are bounded. `CommonInv`, whatever fails and however deep the
reorgs: the chain is a chain, the poll knows what its place says, the log has a
transaction once, and the rows being replaced are those of the balances the log
amounts to. From it: the state is well typed, which says that no balance is
overdrawn, and `PollEndsBalanced`. If reorgs stay among the unconfirmed blocks
(`Shallow`) the log has nothing that is not in the chain, though rows past the
cursor may have been left there by a poll that failed (`ShallowInv`). If a reorg
may reach the last indexed block and no poll fails in a range (`Orderly`) the log
is the chain up to the cursor but for that block, and within a range up to the log
being applied (`RowsInv`); then the balances are always those of the log
(`HoldersInv`), which is why applying the next log never fails. In either case
nothing is skipped, and the log is the chain at the end of a poll.

`CheckIn_proofs` (ingest): a guest's events alternate in the order of the chain
(`Alternation`), so the positions, written one event at a time, are those the
rebuild derives (`DerivedCheckIn`, `DerivedCheckOut`), and the derived positions
give at every block what the contract held there (`DerivedEscrow`). `IngestInv` is
the type, what the poll knows (`PollInv`) and what holds until the first reorg
(`CalmInv`), whatever fails; and, if reorgs reach the last indexed block at most
and no poll has failed in the middle of a range (`torn`), that the events are those
up to the cursor but for `lost` ones (`EventsInv`), and without such the positions
theirs (`PositionsInv`).

`HotelStatus_proofs`: the status is right because of where a run stands. `RunInv`
says how the times and the cursor of a run fit its place in `runOnce`. `StatusInv`
says that at every moment HOTEL SYNCING is there, or something went unannounced, or
the table is in order (`InOrder`): it is settled, no replacement is at work, and at
the end of a range it goes up to that end unless a transfer is half applied, in
which case moving the cursor makes that unannounced. `RequestInv` says that a request
which read the row and was not overtaken still has before it a table with all rows
and with every block up to the row's date; inserts, debits and credits of a range
never take whole blocks away.
`CurrentRoomsAreRecent` follows from `ShownRoomsAreSettled` and the threshold.

`IndexerRanking_proofs` (ranking): `Precedes` is a total order, so ranks are distinct
(`RoomsAreDistinct`). A rank gets worse from one ranking to another only if the
other has somebody ahead whom the first has not (`RankAmongOthers`). The ranking of
the API contains the page's, so whoever may check in has a room; between page and
worker that somebody is `Displaced`'s witness, which is all the two lists can do
(`RoomInBoth`, `OneListDecides`, `AuthorizedGuestsArePaid`, `PageShowsWhatIsPaid`).
A check-in moves tokens from one summand of the effective balance to the other
(`StaysMoveNobody`). The tokens the page says are missing move the buyer past the
holder of the target and nobody else (`BuyingKeepsOthers`, `NeededOvertakes`); one
less leaves the buyer behind, and the sets of those ahead are nested, so that ranks
compare (`BuyersGetTheirRoom`). A check-in adds the same to the guest's weight and
to the total: the guest's quotient does not fall and nobody else's grows, whatever
is rounded (`ShareGrows`, `ShareFalls`, `StaysAreWorthIt`).

`CheckIn_proofs` (API): what was read of the contract at a time `t` stands as long as an
authorization made of it can (`Stands`): a stay of that guest that began since
still has its lock before it, and one that ended took a whole lock. With the
assumption on durations an authorization asked for before a stay has expired
when that stay ends (`FreshStays`). A challenge about to be signed for is
consumed and held by one request (`OneAuthorization`). What a request that
nothing disturbed has read so far is so on the chain at that moment
(`ReadsAreTrue`, `QuietInv`), and by the end of its reads it has seen everything
that makes the guest top ranked (`AuthorizedGuestsAreTopRanked`).

`WalletTx_proofs`: a load that is not cancelled is for the account connected now
(`LoadInv`); a transaction that a click waits for is the one it sent, to the
hotel's chain unless the wallet strayed (`PoolInv`); a success it saw is that of its
own transaction (`ClickInv`). Theorems for each of the three safety properties.

Stated and proved without a run of their own: `LiabilityExact`,
`ClaimedTotalExact` and `Solvent`, conjuncts of the invariants above, that a nonce
is spent once (`NoncesAreSpentOnce`), that an epoch never names two keys
(`EpochsNameOneKey`), that rooms are distinct, and every type invariant.

Only model-checked: liveness (`CheckoutNeverBlocked`, `DueServicesAreFinalized`,
`EveryWeiIsPaid`, `CatchesUp`, `IngestCatchesUp`, `GuestGetsOut`), because fairness
is stated with ENABLED, which is out of the prover's reach.

## Not modelled

* Signatures, EIP-712 and sign-in messages: a signature is the address it
  recovers to and the fields it binds.
* The snapshot of a round as a composition: `ServiceRounds` lets any weights come
  out, `Ranking` computes them from a state, `CheckInIngest` says what the
  escrow of a past block is. That the snapshot block may be ahead of the index
  is compared nowhere in the pipeline.
* The answers of the entitlement API. When a round and a claim land between the
  reads of one request it may see more claimed than earned and answer
  `entitlement_inconsistent`; in the model, as in the code, that request yields
  nothing and the guest asks again.
* Reorgs that take a collected fee back: the pipeline trusts one confirmation,
  and the chain of `ServiceRounds` does not reorganise.
* Rate limits inside the requests: there a limit is one of the ways a request ends
  early, and `RateLimits` is apart from them.
* The comparison that `assertEscrowCoherence` makes: in `HotelStatus` it announces
  HOTEL SYNCING or does not. `clearIncidents`, which nothing calls; the tables of stays, rooms and activity, which nothing
  writes.
* `auth_nonces` is one table for both APIs, and a row does not say which of them
  issued it; a nonce serves one request of either. The models keep the two apart.
* Configuration, the migrations runner, rendering, wording and motion of the
  page, deployment scripts, the in-memory store and the mock chain: no state of
  their own, input and output only, or used by tests only.

## What could come next

1. The snapshot of a round from `Ranking`, `CheckInIngest` and a lagging cursor,
   inside `ServiceRounds`.
2. The contract as an implementation of the `Pay` action of `PayoutLedger`, with the
   guest's code running in the middle of it.
3. An abstract index, which `Indexer` and `CheckInIngest` implement in robust
   regimes and from which `CheckInApi` and `HotelStatus` take what they read.
