------------------------------ MODULE WalletTx ------------------------------
(***************************************************************************)
(* The page and the guest's wallet (apps/web/src/hotel/HotelApp.tsx,       *)
(* check-in-tx.ts and claim.ts).                                           *)
(*                                                                         *)
(* A click on CLAIM, APPROVE, CHECK IN or CHECK OUT runs one async         *)
(* function: it asks the server for what the contract wants to see, checks *)
(* that the wallet is on the chain of the hotel, sends a transaction and   *)
(* waits a while for its receipt.  Between any two awaits other clicks run,*)
(* snapshots arrive, the guest connects another account or moves the       *)
(* wallet to another chain, and transactions are mined, dropped, or stay   *)
(* pending after the page has given them up.                               *)
(*                                                                         *)
(* What the server signs is the subject of Settlement and CheckInApi, what *)
(* the contract accepts that of RoomService; here an authorization may     *)
(* also have expired by the time it is mined.  The simulation before       *)
(* sending may stop what the contract would revert, and may let it pass (a *)
(* node without eth_estimateGas and eth_call lets everything pass).  How   *)
(* often and how long the receipt is waited for is left open: the page may *)
(* give up at any time.                                                    *)
(***************************************************************************)
EXTENDS Integers, FiniteSets

CONSTANTS
  Guest,          \* accounts of the wallet
  Click,          \* async functions that may run at once
  ClaimClick,     \* those of them that may be claims
  Amount,         \* amounts of HOTEL a guest types
  Initial,        \* HOTEL of each account at the start
  Earned,         \* cumulative Room Service of each account, finalized
  NULL,
  \* Bounds of the model.
  MaxLoads,       \* loads of the poll timer under way
  MaxConnects,    \* changes of the connected account
  MaxFaults       \* faults: see Fault below

ASSUME WalletTxAssumption ==
  /\ NULL \notin Guest /\ NULL \notin Click /\ ClaimClick \subseteq Click
  /\ Amount \subseteq Nat \ {0}
  /\ Initial \in [Guest -> Nat] /\ Earned \in [Guest -> Nat]
  /\ {MaxLoads, MaxConnects, MaxFaults} \subseteq Nat

VARIABLES
  \* The page.
  walletOverride, \* the account the guest connected
  snapshot,       \* the snapshot shown
  loads,          \* calls of load() whose answers have not arrived
  busy,           \* checkInBusy
  click,          \* the async function each click runs
  \* The wallet and the chain.
  onHotelChain,   \* eth_chainId is HOTEL_CHAIN_ID
  pool,           \* transactions sent and not mined
  held, allowance, stay, claimed,
  \* How often the guest changed the account, and how often something went wrong.
  connects, faults

page == <<walletOverride, snapshot, loads>>
tokens == <<held, allowance, stay, claimed>>
vars == <<walletOverride, snapshot, loads, busy, click, onHotelChain, pool, held,
          allowance, stay, claimed, connects, faults>>

-----------------------------------------------------------------------------
Operation == {"claim", "approve", "checkIn", "checkOut"}
NoStay == [amount |-> 0, unlocked |-> FALSE]
NoClick == [pc |-> "idle", op |-> NULL, account |-> NULL, value |-> 0,
            strayed |-> FALSE, receipt |-> "pending", done |-> FALSE]
FailClosed(g) == [of |-> g, phase |-> "withheld", held |-> 0]

Snapshot == [of : Guest \cup {NULL}, held : Nat,
             phase : {"withheld", "none", "active", "expired"}]
Load == [answer : Snapshot, by : Click \cup {NULL}, cancelled : BOOLEAN]
Task == [pc : {"idle", "prepare", "allowance", "stay", "chain", "switch",
               "switched", "send", "receipt", "refresh"},
         op : Operation \cup {NULL}, account : Guest \cup {NULL}, value : Nat,
         strayed : BOOLEAN, receipt : {"pending", "success", "failed"},
         done : BOOLEAN]
Tx == [op : Operation, from : Guest, value : Nat, hotel : BOOLEAN,
       by : Click \cup {NULL}]

\* The type of the state.  A click that is at work has an operation and an account,
\* and a stay that is over leaves nothing behind.
TypeOK ==
  /\ walletOverride \in Guest \cup {NULL}
  /\ snapshot \in Snapshot /\ loads \subseteq Load
  /\ busy \in BOOLEAN
  /\ click \in [Click -> Task]
  /\ \A c \in Click : click[c].pc # "idle" =>
       click[c].op \in Operation /\ click[c].account \in Guest
  /\ onHotelChain \in BOOLEAN
  /\ pool \subseteq Tx
  /\ held \in [Guest -> Nat] /\ allowance \in [Guest -> Nat]
  /\ stay \in [Guest -> [amount : Nat, unlocked : BOOLEAN]]
  /\ \A g \in Guest : stay[g].unlocked => stay[g].amount > 0
  /\ claimed \in [Guest -> Nat]
  /\ connects \in Nat /\ faults \in Nat

\* The page opens without a wallet, which may be on any chain.
Init ==
  /\ walletOverride = NULL
  /\ snapshot = FailClosed(NULL) /\ loads = {}
  /\ busy = FALSE
  /\ click = [c \in Click |-> NoClick]
  /\ onHotelChain \in BOOLEAN
  /\ pool = {}
  /\ held = Initial
  /\ allowance = [g \in Guest |-> 0]
  /\ stay = [g \in Guest |-> NoStay]
  /\ claimed = [g \in Guest |-> 0]
  /\ connects = 0 /\ faults = 0

-----------------------------------------------------------------------------
(* Faulty variants, one slip each; no action uses them. *)

\* A change of account does not cancel the loads of the one before.
FaultyCancel(l) == l
\* The chain is not read again after the wallet was asked to switch.
FaultyStillWrong == FALSE
\* checkInBusy is only reset by the clicks that are confirmed.
FaultyBusyAfter(c) == IF click[c].pc = "refresh" THEN FALSE ELSE busy

-----------------------------------------------------------------------------
(* Snapshots. *)

\* The account a snapshot is about, and the one the page acts for: also after the
\* wallet refused to connect again, until another snapshot arrives.
ConnectedWallet == IF snapshot.phase = "withheld" THEN NULL ELSE snapshot.of
Wallet == IF walletOverride # NULL THEN walletOverride ELSE ConnectedWallet

\* stayPhase of an account as the server derives it.
StayPhase(g) == CASE stay[g].amount = 0 -> "none"
                  [] stay[g].unlocked   -> "expired"
                  [] OTHER              -> "active"

\* What a load for an account may get: the truth of that moment, or nothing a button
\* is offered for (no account, an index that is not current, a fetch that failed).
Answers(g) ==
  {FailClosed(g)}
    \cup (IF g = NULL THEN {}
          ELSE {[of |-> g, phase |-> StayPhase(g), held |-> held[g]]})

\* load() is called by the timer, by an effect or at the end of a click.
Asked(by, answer) == [answer |-> answer, by |-> by, cancelled |-> FALSE]

Poll(answer) ==
  /\ Cardinality({l \in loads : l.by = NULL /\ ~l.cancelled}) < MaxLoads
  /\ answer \in Answers(walletOverride)
  /\ loads' = loads \cup {Asked(NULL, answer)}
  /\ UNCHANGED <<walletOverride, snapshot, busy, click, onHotelChain, pool, tokens,
                 connects, faults>>

\* The cleanup of the effect.
Cancel(l) == [l EXCEPT !.cancelled = TRUE]

\* onConnect: another account, or none when the wallet refuses; the effect runs
\* again for it and cancels what the one before had asked.
Connect(g) ==
  /\ connects < MaxConnects
  /\ walletOverride = NULL => ConnectedWallet = NULL
  /\ g # walletOverride
  /\ walletOverride' = g
  /\ \E answer \in Answers(g) :
       loads' = {Cancel(l) : l \in loads} \cup {Asked(NULL, answer)}
  /\ connects' = connects + 1
  /\ UNCHANGED <<snapshot, busy, click, onHotelChain, pool, tokens, faults>>

\* The end of an async function: `finally' for those that set checkInBusy.
BusyAfter(c) == IF click[c].op = "claim" THEN busy ELSE FALSE
End(c) == /\ click' = [click EXCEPT ![c] = NoClick]
          /\ busy' = BusyAfter(c)

\* The answer arrives: setSnapshot unless cancelled; a click that waited is over.
Arrive(l) ==
  /\ l \in loads
  /\ loads' = loads \ {l}
  /\ snapshot' = IF l.cancelled THEN snapshot ELSE l.answer
  /\ IF l.by = NULL THEN UNCHANGED <<click, busy>> ELSE End(l.by)
  /\ UNCHANGED <<walletOverride, onHotelChain, pool, tokens, connects, faults>>

-----------------------------------------------------------------------------
(* Clicks. *)

Starts(c, op, n, pc) ==
  /\ click[c].pc = "idle"
  /\ Wallet # NULL
  /\ click' = [click EXCEPT ![c] = [NoClick EXCEPT !.pc = pc, !.op = op,
                                      !.account = Wallet, !.value = n]]
  /\ UNCHANGED <<page, onHotelChain, pool, tokens, connects, faults>>

\* What the server says an account can claim: everything it ever earned, since
\* nothing writes the table of claims.
IndexedClaimableWei(g) == Earned[g]
ClaimableOf(s) == IF s.phase = "withheld" THEN 0 ELSE IndexedClaimableWei(s.of)

\* The claim button is not disabled by another click.
ClaimEnabled == ClaimableOf(snapshot) > 0

OnClaim(c) ==
  /\ c \in ClaimClick
  /\ ClaimEnabled
  /\ Starts(c, "claim", 0, "prepare")
  /\ UNCHANGED busy

\* The panel has controls for an account whose stay is known; they are disabled while
\* one of them is at work.
HasControls == snapshot.phase # "withheld"
MayClick == HasControls /\ ~busy
CanStart(n) == snapshot.phase = "none" /\ n \in Amount /\ n <= snapshot.held
CanCheckOut == snapshot.phase = "expired"

\* approveExactHotel asks nobody before it looks at the chain.
ApproveExactHotel(c, n) == Starts(c, "approve", n, "chain")

OnApprove(c, n) ==
  /\ MayClick /\ CanStart(n)
  /\ busy' = TRUE
  /\ ApproveExactHotel(c, n)

OnCheckIn(c, n) ==
  /\ MayClick /\ CanStart(n)
  /\ busy' = TRUE
  /\ Starts(c, "checkIn", n, "prepare")

OnCheckOut(c) ==
  /\ MayClick /\ CanCheckOut
  /\ busy' = TRUE
  /\ Starts(c, "checkOut", 0, "stay")

-----------------------------------------------------------------------------
(* The steps of a click. *)

At(c, pc) == click[c].pc = pc
Goto(c, pc) == click' = [click EXCEPT ![c].pc = pc] /\ UNCHANGED busy
Account(c) == click[c].account

\* Something goes wrong without a reason in the state: a call fails, the guest or the
\* server refuses, a transaction is dropped or comes too late, the wallet leaves.
Fault == faults < MaxFaults /\ faults' = faults + 1

\* Any await may throw.
Throw(c) ==
  /\ Fault
  /\ click[c].pc \in {"prepare", "allowance", "stay", "chain", "switch", "switched",
                      "send"}
  /\ End(c)
  /\ UNCHANGED <<page, onHotelChain, pool, tokens, connects>>

\* A click goes on when the answer allows it, and ends otherwise.
GoesOn(c, allowed, pc) == IF allowed THEN Goto(c, pc) ELSE End(c)

\* prepareRoomServiceClaim: a voucher when something is due.
PrepareRoomServiceClaim(c) ==
  /\ At(c, "prepare") /\ click[c].op = "claim"
  /\ IF Earned[Account(c)] > claimed[Account(c)]
     THEN /\ click' = [click EXCEPT ![c] = [@ EXCEPT !.pc = "chain",
                                                     !.value = Earned[Account(c)]]]
          /\ UNCHANGED busy
     ELSE End(c)
  /\ UNCHANGED <<page, onHotelChain, pool, tokens, connects, faults>>

\* prepareCheckInAuthorization and the checks of its answer.
PrepareCheckInAuthorization(c) ==
  /\ At(c, "prepare") /\ click[c].op = "checkIn"
  /\ GoesOn(c, stay[Account(c)].amount = 0 /\ click[c].value <= held[Account(c)],
            "allowance")
  /\ UNCHANGED <<page, onHotelChain, pool, tokens, connects, faults>>

\* readHotelAllowance: on another chain the token is not there to answer.
ReadHotelAllowance(c) ==
  /\ At(c, "allowance")
  /\ GoesOn(c, onHotelChain /\ click[c].value <= allowance[Account(c)], "chain")
  /\ UNCHANGED <<page, onHotelChain, pool, tokens, connects, faults>>

\* executeCheckOut asks nobody before it looks at the chain.
ExecuteCheckOut(c) == Goto(c, "chain")

\* readStayFromContract: only a stay that is read and locked stops the click.
ReadStayFromContract(c) ==
  /\ At(c, "stay")
  /\ IF onHotelChain /\ StayPhase(Account(c)) = "active" THEN End(c)
     ELSE ExecuteCheckOut(c)
  /\ UNCHANGED <<page, onHotelChain, pool, tokens, connects, faults>>

\* ensureRobinhoodChain: eth_chainId.
EnsureRobinhoodChain(c) ==
  /\ At(c, "chain")
  /\ Goto(c, IF onHotelChain THEN "send" ELSE "switch")
  /\ UNCHANGED <<page, onHotelChain, pool, tokens, connects, faults>>

\* ensureRobinhoodChain: wallet_switchEthereumChain, after which the wallet need not
\* be on the other chain yet.
SwitchEthereumChain(c) ==
  /\ At(c, "switch")
  /\ onHotelChain' \in {onHotelChain, TRUE}
  /\ Goto(c, "switched")
  /\ UNCHANGED <<page, pool, tokens, connects, faults>>

\* ensureRobinhoodChain: eth_chainId again.
StillWrong == ~onHotelChain
AfterSwitch(c) ==
  /\ At(c, "switched")
  /\ GoesOn(c, ~StillWrong, "send")
  /\ UNCHANGED <<page, onHotelChain, pool, tokens, connects, faults>>

\* A transaction, to whatever chain the wallet is on.
Sent(c, by) == [op |-> click[c].op, from |-> Account(c), value |-> click[c].value,
                hotel |-> onHotelChain, by |-> by]

\* What RoomService and the token require of it on the hotel's chain.
Accepts(t) ==
  CASE t.op = "claim"    -> t.value > claimed[t.from]
    [] t.op = "approve"  -> TRUE
    [] t.op = "checkIn"  -> /\ stay[t.from].amount = 0
                            /\ t.value <= held[t.from]
                            /\ t.value <= allowance[t.from]
    [] t.op = "checkOut" -> stay[t.from].unlocked

\* What a simulation may find: the call would revert on the chain the wallet is on.
Refuted(t) == t.hotel /\ ~Accepts(t)

\* simulateTx: what the contract would refuse is not sent, unless the wallet has no
\* way to simulate.
Simulated(c) ==
  /\ At(c, "send")
  /\ Refuted(Sent(c, c))
  /\ End(c)
  /\ UNCHANGED <<page, onHotelChain, pool, tokens, connects, faults>>

\* eth_sendTransaction, and the hash of the transaction.
SendTransaction(c) ==
  /\ At(c, "send")
  /\ pool' = pool \cup {Sent(c, c)}
  /\ Goto(c, "receipt")
  /\ UNCHANGED <<page, onHotelChain, tokens, connects, faults>>

\* The same, and the answer is an error or no hash.
SendWithoutHash(c) ==
  /\ Fault
  /\ At(c, "send")
  /\ pool' = pool \cup {Sent(c, NULL)}
  /\ End(c)
  /\ UNCHANGED <<page, onHotelChain, tokens, connects>>

\* waitForSuccessReceipt: a receipt with success, after which all but an approval
\* wait for a new snapshot; a receipt with failure; or the last attempt or an error,
\* and the transaction is nobody's from then on.
SuccessReceipt(c, answer) ==
  /\ At(c, "receipt") /\ click[c].receipt = "success"
  /\ IF click[c].op = "approve"
     THEN End(c) /\ UNCHANGED loads
     ELSE /\ Goto(c, "refresh")
          /\ loads' = loads \cup {Asked(c, answer)}
  /\ UNCHANGED <<walletOverride, snapshot, onHotelChain, pool, tokens, connects, faults>>

FailedReceipt(c) ==
  /\ At(c, "receipt") /\ click[c].receipt = "failed"
  /\ End(c)
  /\ UNCHANGED <<page, onHotelChain, pool, tokens, connects, faults>>

Abandoned(t, c) == IF t.by = c THEN [t EXCEPT !.by = NULL] ELSE t
GivesUp(c) == IF \E t \in pool : t.by = c THEN Fault ELSE UNCHANGED faults
Unconfirmed(c) ==
  /\ At(c, "receipt")
  /\ GivesUp(c)
  /\ pool' = {Abandoned(t, c) : t \in pool}
  /\ End(c)
  /\ UNCHANGED <<page, onHotelChain, tokens, connects>>

-----------------------------------------------------------------------------
(* The guest, the wallet and the chain. *)

\* The guest moves the wallet to another chain; a click between its check of the
\* chain and its transaction does not see it.
MoveWallet ==
  /\ Fault
  /\ onHotelChain
  /\ onHotelChain' = FALSE
  /\ click' = [c \in Click |-> IF At(c, "send") THEN [click[c] EXCEPT !.strayed = TRUE]
                               ELSE click[c]]
  /\ UNCHANGED <<page, busy, pool, tokens, connects>>

\* What RoomService and the token do with a transaction.
CloseStay(g) == [stay EXCEPT ![g] = NoStay]
Execute(t) ==
  \/ /\ t.op = "claim"
     /\ claimed' = [claimed EXCEPT ![t.from] = t.value]
     /\ UNCHANGED <<held, allowance, stay>>
  \/ /\ t.op = "approve"
     /\ allowance' = [allowance EXCEPT ![t.from] = t.value]
     /\ UNCHANGED <<held, stay, claimed>>
  \/ /\ t.op = "checkIn"
     /\ held' = [held EXCEPT ![t.from] = @ - t.value]
     /\ allowance' = [allowance EXCEPT ![t.from] = @ - t.value]
     /\ stay' = [stay EXCEPT ![t.from] = [amount |-> t.value, unlocked |-> FALSE]]
     /\ UNCHANGED claimed
  \/ /\ t.op = "checkOut"
     /\ held' = [held EXCEPT ![t.from] = @ + stay[t.from].amount]
     /\ stay' = CloseStay(t.from)
     /\ UNCHANGED <<allowance, claimed>>

\* A transaction leaves the pool, and the click that waits for it can see how.
Leaves(t, receipt, done) ==
  /\ t \in pool
  /\ pool' = pool \ {t}
  /\ click' = IF t.by = NULL THEN click
              ELSE [click EXCEPT ![t.by] = [@ EXCEPT !.receipt = receipt, !.done = done]]
  /\ UNCHANGED <<page, busy, onHotelChain, connects>>

Mine(t) ==
  /\ t.hotel /\ Accepts(t)
  /\ Leaves(t, "success", TRUE)
  /\ Execute(t)
  /\ UNCHANGED faults

Revert(t) ==
  /\ t.hotel /\ ~Accepts(t)
  /\ Leaves(t, "failed", FALSE)
  /\ UNCHANGED <<tokens, faults>>

\* The voucher or the authorization has expired, or the contract is paused.
RevertLate(t) ==
  /\ Fault
  /\ t.hotel /\ t.op \in {"claim", "checkIn"}
  /\ Leaves(t, "failed", FALSE)
  /\ UNCHANGED tokens

\* On another chain there is no contract: a call succeeds and does nothing.
MineElsewhere(t) ==
  /\ ~t.hotel
  /\ Leaves(t, "success", FALSE)
  /\ UNCHANGED <<tokens, faults>>

\* It is replaced or forgotten.
Drop(t) ==
  /\ Fault
  /\ Leaves(t, "pending", FALSE)
  /\ UNCHANGED tokens

\* An hour has passed since a check-in.
Unlock(g) ==
  /\ stay[g].amount > 0 /\ ~stay[g].unlocked
  /\ stay' = [stay EXCEPT ![g].unlocked = TRUE]
  /\ UNCHANGED <<page, busy, click, onHotelChain, pool, held, allowance, claimed,
                 connects, faults>>

-----------------------------------------------------------------------------
Begin(c) ==
  \/ OnClaim(c) \/ OnCheckOut(c)
  \/ \E n \in Amount : OnApprove(c, n) \/ OnCheckIn(c, n)

Continue(c) ==
  \/ Throw(c)
  \/ PrepareRoomServiceClaim(c) \/ PrepareCheckInAuthorization(c)
  \/ ReadHotelAllowance(c) \/ ReadStayFromContract(c)
  \/ EnsureRobinhoodChain(c) \/ SwitchEthereumChain(c) \/ AfterSwitch(c)
  \/ Simulated(c) \/ SendTransaction(c) \/ SendWithoutHash(c)
  \/ \E answer \in Answers(walletOverride) : SuccessReceipt(c, answer)
  \/ FailedReceipt(c) \/ Unconfirmed(c)

Loading ==
  \/ \E answer \in Answers(walletOverride) : Poll(answer)
  \/ \E g \in Guest \cup {NULL} : Connect(g)
  \/ \E l \in loads : Arrive(l)

OnChain ==
  \/ MoveWallet
  \/ \E t \in pool : \/ Mine(t) \/ Revert(t) \/ RevertLate(t) \/ MineElsewhere(t)
                    \/ Drop(t)
  \/ \E g \in Guest : Unlock(g)

Next == (\E c \in Click : Begin(c) \/ Continue(c)) \/ Loading \/ OnChain

Spec == Init /\ [][Next]_vars

\* The server and the wallet answer, the chain goes on, an hour passes; now and then
\* a snapshot is true and the guest clicks CHECK OUT when the page offers it; asked to
\* switch, the wallet does so in the end.
FairSpec ==
  /\ Spec
  /\ \A c \in Click : WF_vars(Continue(c))
  /\ \A c \in Click : WF_vars(\E l \in loads : l.by = c /\ Arrive(l))
  /\ WF_vars(\E l \in loads : l.by = NULL /\ Arrive(l))
  /\ WF_vars(\E t \in pool : Mine(t) \/ Revert(t) \/ MineElsewhere(t))
  /\ \A g \in Guest : WF_vars(Unlock(g))
  /\ SF_vars(\E answer \in Answers(walletOverride) : answer.phase # "withheld" /\ Poll(answer))
  /\ SF_vars(\E c \in Click : OnCheckOut(c))
  /\ SF_vars(\E c \in Click : SwitchEthereumChain(c) /\ onHotelChain')

-----------------------------------------------------------------------------
(* Properties. *)

\* When the page says confirmed, it has happened: the transaction of that click was
\* mined with success on the hotel's chain, and a claim has paid what its voucher
\* says.  The exception is a guest who moves the wallet to another chain between the
\* page's check of the chain and the transaction, which names no chain.
ConfirmedIsDone ==
  \A c \in Click : click[c].pc = "refresh" /\ ~click[c].strayed =>
    /\ click[c].done
    /\ click[c].op = "claim" => click[c].value <= claimed[click[c].account]

\* At most one click approves, checks in or checks out at a time, and its buttons are
\* disabled exactly as long as it is at work, however it ends.
BusyIsExact ==
  LET working == {c \in Click : click[c].pc # "idle" /\ click[c].op # "claim"} IN
  /\ \A c, d \in working : c = d
  /\ busy <=> working # {}

\* A snapshot that arrives is that of the account connected at this moment, though
\* loads overlap and the account may have changed while they were under way.
SnapshotOfTheWallet ==
  [][snapshot' # snapshot => snapshot'.of = walletOverride]_vars

\* A guest who stays connected gets the tokens back through the page, whatever was
\* refused, dropped, left unconfirmed or sent elsewhere before.
GuestGetsOut ==
  \A g \in Guest :
    stay[g].amount > 0 ~> stay[g].amount = 0 \/ walletOverride # g

-----------------------------------------------------------------------------
(* The inductive invariant. *)

\* Only loads for the account connected now are not cancelled, and a load that a
\* click waits for is the only one it waits for.
LoadInv ==
  \A l \in loads :
    /\ ~l.cancelled => l.answer.of = walletOverride
    /\ l.by # NULL => /\ click[l.by].pc = "refresh"
                      /\ \A m \in loads : m.by = l.by => m = l

\* A transaction that a click waits for is the one it sent, and on the hotel's chain
\* unless the guest moved the wallet.
PoolInv ==
  \A t \in pool : t.by # NULL =>
    /\ click[t.by].pc = "receipt" /\ click[t.by].receipt = "pending"
    /\ t.op = click[t.by].op /\ t.from = click[t.by].account
    /\ t.value = click[t.by].value
    /\ ~click[t.by].strayed => t.hotel
    /\ \A u \in pool : u.by = t.by => u = t

\* What a click knows of its transaction is so.
ClickInv ==
  \A c \in Click :
    /\ click[c].pc = "send" /\ ~click[c].strayed => onHotelChain
    /\ click[c].pc = "refresh" => click[c].receipt = "success"
    /\ click[c].pc \notin {"receipt", "refresh"} =>
         click[c].receipt = "pending" /\ ~click[c].done
    /\ click[c].receipt = "success" /\ ~click[c].strayed => click[c].done
    /\ click[c].done /\ click[c].op = "claim" =>
         click[c].value <= claimed[click[c].account]

IInv == TypeOK /\ LoadInv /\ PoolInv /\ ClickInv /\ BusyIsExact

=============================================================================
