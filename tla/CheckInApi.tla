----------------------------- MODULE CheckInApi -------------------------------
(***************************************************************************)
(* The check-in API (apps/web/src/check-in/handlers.ts) between the two    *)
(* things it reads, the contract and the index, and the contract's check-in *)
(* that takes what it signs.                                               *)
(*                                                                         *)
(* A request awaits a statement at a time while other requests are served, *)
(* the guests move HOTEL, check in and out, and the indexer writes the     *)
(* holders and then the stays of a range.  Messages and signatures are the *)
(* records they stand for: only a guest can send what was issued to it and *)
(* only the API's key signs.                                               *)
(***************************************************************************)
EXTENDS Naturals, FiniteSets

CONSTANTS
  Guest,                \* the wallets, numbers: ties are broken by address
  Challenge, Request,   \* the rows of auth_nonces, the requests at once
  NULL,
  Supply,               \* the HOTEL each guest starts with
  HOTEL_ROOM_COUNT, CHECK_IN_MINIMUM_BPS,
  CHECK_IN_CHALLENGE_TTL, CHECK_IN_AUTH_VALIDITY, CHECK_IN_DURATION,
  MaxAnswer,            \* how late the answer of a statement can be used
  MaxTime, MaxTransfers \* bounds of the model

ASSUME CheckInApiAssumption ==
  /\ Guest \subseteq Nat /\ IsFiniteSet(Guest)
  /\ Supply \in [Guest -> Nat] /\ NULL \notin [Guest -> Nat]
  /\ NULL \notin [wallet : Guest, expires : Nat, consumed : BOOLEAN]
  /\ HOTEL_ROOM_COUNT \in Nat /\ CHECK_IN_MINIMUM_BPS \in Nat
  /\ CHECK_IN_CHALLENGE_TTL \in Nat /\ CHECK_IN_AUTH_VALIDITY \in Nat
  /\ CHECK_IN_DURATION \in Nat /\ MaxAnswer \in Nat
  /\ MaxTime \in Nat /\ MaxTransfers \in Nat
  /\ CHECK_IN_CHALLENGE_TTL + MaxAnswer + CHECK_IN_AUTH_VALIDITY < CHECK_IN_DURATION

VARIABLES
  now,
  balance, stay,        \* the token, and the contract's stays
  transfers,            \* how many transfers there were
  usedNonces,           \* usedCheckInNonces
  index,                \* the tables holders and check_in_positions
  challenge,            \* the table auth_nonces
  request,              \* the requests to /api/check-in/authorize
  signed,               \* the authorizations given out
  left                  \* when each guest last checked out (history)

contract == <<stay, usedNonces>>
ledger == <<balance, transfers, contract, left>>
vars == <<now, ledger, index, challenge, request, signed>>

NoStay == [amount |-> 0, unlock |-> 0, askedAt |-> 0]
Idle == [pc |-> "idle", challenge |-> NULL, readAt |-> 0,
         holders |-> NULL, positions |-> NULL, held |-> 0, quiet |-> FALSE,
         min |-> 0, max |-> 0, consumedAt |-> 0]

-----------------------------------------------------------------------------
(* Faulty variants, one slip each; no action uses them. *)

FaultyConsumeAuthNonce(r) ==
  /\ request[r].pc = "consume"
  /\ challenge[request[r].challenge].expires > now
  /\ request' = [request EXCEPT ![r].pc = "sign", ![r].consumedAt = now]
  /\ UNCHANGED <<now, transfers, balance, stay, usedNonces, left, index, challenge, signed>>
FaultyAccepts(a, n) ==
  /\ n # 0 /\ a.min <= n /\ n <= a.max
  /\ stay[a.guest].amount = 0 /\ a.nonce \notin usedNonces
FaultyCheckInMinimum(effective) == (effective * CHECK_IN_MINIMUM_BPS) \div 10000

-----------------------------------------------------------------------------
Balances == [Guest -> Nat]
Stay == [amount : Nat, unlock : Nat, askedAt : Nat]
AuthNonce == [wallet : Guest, expires : Nat, consumed : BOOLEAN]
Authorization == [guest : Guest, min : Nat, max : Nat, deadline : Nat, nonce : Nat,
                  challenge : Challenge, readAt : Nat, deserved : BOOLEAN]
Stage == [pc : {"idle", "ranking", "escrow", "consume", "sign"},
          challenge : Challenge \cup {NULL}, readAt : Nat,
          holders : Balances \cup {NULL}, positions : Balances \cup {NULL},
          held : Nat, quiet : BOOLEAN, min : Nat, max : Nat, consumedAt : Nat]

TypeOK ==
  /\ now \in 0 .. MaxTime /\ transfers \in 0 .. MaxTransfers
  /\ balance \in Balances /\ stay \in [Guest -> Stay] /\ usedNonces \subseteq Nat
  /\ index \in [holders : Balances, positions : Balances, range : Balances \cup {NULL}]
  /\ challenge \in [Challenge -> AuthNonce \cup {NULL}]
  /\ request \in [Request -> Stage]
  /\ signed \subseteq Authorization /\ IsFiniteSet(signed)
  /\ left \in [Guest -> Nat]

Escrow == [g \in Guest |-> stay[g].amount]

Init ==
  /\ now = 0
  /\ balance = Supply /\ transfers = 0
  /\ stay = [g \in Guest |-> NoStay]
  /\ usedNonces = {}
  /\ index = [holders |-> Supply, positions |-> [g \in Guest |-> 0], range |-> NULL]
  /\ challenge = [c \in Challenge |-> NULL]
  /\ request = [r \in Request |-> Idle]
  /\ signed = {}
  /\ left = [g \in Guest |-> 0]

-----------------------------------------------------------------------------
(* The ranking, from whatever was read of holders and positions. *)

EffectiveHotelBalance(g, holders, positions) == holders[g] + positions[g]

Rank(g, holders, positions) ==
  LET E(h) == EffectiveHotelBalance(h, holders, positions) IN
  Cardinality({h \in Guest : E(h) > E(g) \/ (E(h) = E(g) /\ h < g)}) + 1

IsTopRanked(g, holders, positions) ==
  /\ EffectiveHotelBalance(g, holders, positions) > 0
  /\ Rank(g, holders, positions) <= HOTEL_ROOM_COUNT

CheckInMinimum(effective) == (effective * CHECK_IN_MINIMUM_BPS + 9999) \div 10000

\* The index says what the chain says.
Synced == index.holders = balance /\ index.positions = Escrow

\* What was being ranked has moved under the requests (history).
Disturb == request' = [r \in Request |-> [request[r] EXCEPT !.quiet = FALSE]]

-----------------------------------------------------------------------------
(* POST /api/check-in/challenge. *)

\* insertAuthNonce.
NewAuthNonce(g) ==
  [wallet |-> g, expires |-> now + CHECK_IN_CHALLENGE_TTL, consumed |-> FALSE]

IssueChallenge(c, g) ==
  /\ challenge[c] = NULL
  /\ challenge' = [challenge EXCEPT ![c] = NewAuthNonce(g)]
  /\ UNCHANGED <<now, ledger, index, request, signed>>

-----------------------------------------------------------------------------
(* POST /api/check-in/authorize. *)

Wallet(r) == challenge[request[r].challenge].wallet

At(r, pc) == request[r].pc = pc

\* The next statement of r, which remembers what has been read.
Awaits(r, to) ==
  /\ request' = [request EXCEPT ![r] = to]
  /\ UNCHANGED <<now, ledger, index, challenge, signed>>

\* messageMatchesIssuedChallenge: the row of the signed message is there and says
\* what the message says, which never changes.
MessageMatches(c) == challenge[c] # NULL

\* What the contract answers when the API asks for the guest's stay.
HasUnwithdrawnStay(g) == stay[g].amount # 0

\* findAuthNonce, which does not ask yet whether the challenge is consumed or
\* expired; then the signer, its epoch, the stay and the code on the chain.
Authorize(r, c) ==
  /\ At(r, "idle") /\ MessageMatches(c)
  /\ ~HasUnwithdrawnStay(challenge[c].wallet)
  /\ Awaits(r, [Idle EXCEPT !.pc = "ranking", !.challenge = c, !.readAt = now])

\* loadEffectiveRanking awaits two tables at once.
ReadHolders(r) ==
  /\ At(r, "ranking") /\ request[r].holders = NULL
  /\ Awaits(r,
       [request[r] EXCEPT !.holders = index.holders,
          !.quiet = IF request[r].positions = NULL THEN Synced ELSE @])
ReadPositions(r) ==
  /\ At(r, "ranking") /\ request[r].positions = NULL
  /\ Awaits(r,
       [request[r] EXCEPT !.positions = index.positions,
          !.quiet = IF request[r].holders = NULL THEN Synced ELSE @])

\* The guest is among the first HOTEL_ROOM_COUNT: readWalletHeld.
ReadWalletHeld(r) ==
  /\ At(r, "ranking") /\ request[r].holders # NULL /\ request[r].positions # NULL
  /\ IsTopRanked(Wallet(r), request[r].holders, request[r].positions)
  /\ Awaits(r,
       [request[r] EXCEPT !.pc = "escrow", !.holders = NULL, !.positions = NULL,
                          !.held = index.holders[Wallet(r)]])

\* readUnwithdrawnEscrow, and the bounds of the amount.
ReadUnwithdrawnEscrow(r) ==
  /\ At(r, "escrow")
  /\ LET held == request[r].held
         escrow == index.positions[Wallet(r)]
     IN
     /\ escrow = 0
     /\ held >= CheckInMinimum(held + escrow) /\ held # 0
     /\ Awaits(r, [request[r] EXCEPT !.pc = "consume", !.held = 0,
                     !.min = CheckInMinimum(held + escrow), !.max = held])

\* The conditions of consumeAuthNonce's UPDATE.
Consumable(c) == ~challenge[c].consumed /\ challenge[c].expires > now

ConsumeAuthNonce(r) ==
  /\ At(r, "consume")
  /\ Consumable(request[r].challenge)
  /\ challenge' = [challenge EXCEPT ![request[r].challenge].consumed = TRUE]
  /\ request' = [request EXCEPT ![r].pc = "sign", ![r].consumedAt = now]
  /\ UNCHANGED <<now, ledger, index, signed>>

\* randomAuthorizationNonce: never the same twice.
NextNonce == Cardinality(signed) + 1

\* History: the guest is among the first on the chain, and the amount lies
\* between its share of the balance and the balance.
Deserved(r) ==
  /\ IsTopRanked(Wallet(r), balance, Escrow)
  /\ request[r].max = balance[Wallet(r)]
  /\ request[r].min * 10000 >= request[r].max * CHECK_IN_MINIMUM_BPS

\* signCheckInAuthorization: what the signature binds, and what it came from
\* (history).
SignCheckInAuthorization(r) ==
  [guest |-> Wallet(r), min |-> request[r].min, max |-> request[r].max,
   deadline |-> now + CHECK_IN_AUTH_VALIDITY, nonce |-> NextNonce,
   challenge |-> request[r].challenge, readAt |-> request[r].readAt,
   deserved |-> request[r].quiet => Deserved(r)]

Sign(r) ==
  /\ At(r, "sign")
  /\ now <= request[r].consumedAt + MaxAnswer
  /\ signed' = signed \cup {SignCheckInAuthorization(r)}
  /\ request' = [request EXCEPT ![r] = Idle]
  /\ UNCHANGED <<now, ledger, index, challenge>>

\* A check fails, a statement or a call throws, or the process is gone.
Refuse(r) ==
  /\ ~At(r, "idle")
  /\ request' = [request EXCEPT ![r] = Idle]
  /\ UNCHANGED <<now, ledger, index, challenge, signed>>

-----------------------------------------------------------------------------
(* RoomService and the token. *)

\* checkIn's conditions; the signature is the API's if the key still is.
Accepts(a, n) ==
  /\ n # 0 /\ a.min <= n /\ n <= a.max
  /\ stay[a.guest].amount = 0
  /\ now <= a.deadline /\ a.nonce \notin usedNonces

SafeTransferFrom(g, n) == n <= balance[g]

CheckIn(a, n) ==
  /\ Accepts(a, n) /\ SafeTransferFrom(a.guest, n)
  /\ usedNonces' = usedNonces \cup {a.nonce}
  /\ stay' = [stay EXCEPT ![a.guest] =
       [amount |-> n, unlock |-> now + CHECK_IN_DURATION,
        askedAt |-> a.readAt]]       \* history
  /\ balance' = [balance EXCEPT ![a.guest] = @ - n]
  /\ Disturb
  /\ UNCHANGED <<now, transfers, left, index, challenge, signed>>

CheckOut(g) ==
  /\ stay[g].amount # 0 /\ now >= stay[g].unlock
  /\ stay' = [stay EXCEPT ![g] = NoStay]
  /\ balance' = [balance EXCEPT ![g] = @ + stay[g].amount]
  /\ left' = [left EXCEPT ![g] = now]
  /\ Disturb
  /\ UNCHANGED <<now, transfers, usedNonces, index, challenge, signed>>

Transfer(g, h, n) ==
  /\ g # h /\ n <= balance[g]
  /\ transfers < MaxTransfers /\ transfers' = transfers + 1
  /\ balance' = [balance EXCEPT ![g] = @ - n, ![h] = @ + n]
  /\ Disturb
  /\ UNCHANGED <<now, contract, left, index, challenge, signed>>

-----------------------------------------------------------------------------
(* The indexer: the transfers of a range, then its check-in events. *)

IndexHolders ==
  /\ index.range = NULL
  /\ index' = [index EXCEPT !.holders = balance, !.range = Escrow]
  /\ Disturb
  /\ UNCHANGED <<now, ledger, challenge, signed>>

IndexCheckInRange ==
  /\ index.range # NULL
  /\ index' = [index EXCEPT !.positions = index.range, !.range = NULL]
  /\ Disturb
  /\ UNCHANGED <<now, ledger, challenge, signed>>

Tick ==
  /\ now < MaxTime
  /\ now' = now + 1
  /\ UNCHANGED <<ledger, index, challenge, request, signed>>

-----------------------------------------------------------------------------
Serving(r) ==
  \/ \E c \in Challenge : Authorize(r, c)
  \/ ReadHolders(r) \/ ReadPositions(r) \/ ReadWalletHeld(r)
  \/ ReadUnwithdrawnEscrow(r) \/ ConsumeAuthNonce(r) \/ Sign(r) \/ Refuse(r)

OnChain ==
  \/ \E a \in signed : \E n \in 1 .. a.max : CheckIn(a, n)
  \/ \E g \in Guest : CheckOut(g)
  \/ \E g, h \in Guest : \E n \in 1 .. balance[g] : Transfer(g, h, n)

Next ==
  \/ \E c \in Challenge, g \in Guest : IssueChallenge(c, g)
  \/ \E r \in Request : Serving(r)
  \/ OnChain \/ IndexHolders \/ IndexCheckInRange \/ Tick

Spec == Init /\ [][Next]_vars

-----------------------------------------------------------------------------
(* Properties. *)

\* A challenge gives one authorization, however many requests carry it at once.
OneAuthorizationPerChallenge ==
  \A a, b \in signed : a.challenge = b.challenge => a = b

\* A stay starts from an authorization that was asked for after the guest's stay
\* before it ended: none is kept through a stay and used again, also when its
\* request was under way while another began the stay.
StaysAreFresh ==
  \A g \in Guest : stay[g].amount # 0 => stay[g].askedAt >= left[g]

\* When the index says what the chain says and neither moves while a request
\* reads, the guest is among the first on the chain, and the amount it may stay
\* with lies between the share of its balance and the balance.
AuthorizedIsTopRanked == \A a \in signed : a.deserved

\* The strengthening that is inductive.  What was read at t stands as long as an
\* authorization can: a stay of g began after it, and one that ended took a lock.
Stands(t, g) ==
  /\ t <= now
  /\ stay[g].amount # 0 => stay[g].unlock >= t + CHECK_IN_DURATION
  /\ left[g] <= t \/ left[g] >= t + CHECK_IN_DURATION
TimeInv ==
  /\ \A g \in Guest : left[g] <= now
  /\ \A c \in Challenge :
       challenge[c] # NULL => challenge[c].expires <= now + CHECK_IN_CHALLENGE_TTL
RequestInv ==
  \A r \in Request : request[r].pc # "idle" =>
    /\ request[r].challenge \in Challenge
    /\ challenge[request[r].challenge] # NULL
    /\ Stands(request[r].readAt, Wallet(r))
    /\ challenge[request[r].challenge].expires <=
         request[r].readAt + CHECK_IN_CHALLENGE_TTL
    /\ request[r].pc = "sign" =>
         /\ challenge[request[r].challenge].consumed
         /\ request[r].consumedAt <= request[r].readAt + CHECK_IN_CHALLENGE_TTL
SignedInv ==
  \A a \in signed :
    /\ challenge[a.challenge] # NULL /\ challenge[a.challenge].consumed
    /\ Stands(a.readAt, a.guest)
    /\ a.deadline <= a.readAt + CHECK_IN_CHALLENGE_TTL + MaxAnswer + CHECK_IN_AUTH_VALIDITY
OnceInv ==
  \A r \in Request : request[r].pc = "sign" =>
    /\ \A a \in signed : a.challenge # request[r].challenge
    /\ \A q \in Request \ {r} :
         request[q].pc = "sign" => request[q].challenge # request[r].challenge
\* What a request has read is so on the chain, if it was not disturbed.
ReadsAreTrue(r) ==
  /\ Synced
  /\ request[r].pc = "ranking" =>
       /\ request[r].holders \in {NULL, balance}
       /\ request[r].positions \in {NULL, Escrow}
  /\ request[r].pc # "ranking" => IsTopRanked(Wallet(r), balance, Escrow)
  /\ request[r].pc = "escrow" => request[r].held = balance[Wallet(r)]
  /\ request[r].pc \in {"consume", "sign"} => Deserved(r)
QuietInv ==
  \A r \in Request : request[r].pc # "idle" /\ request[r].quiet => ReadsAreTrue(r)
DeservedInv == QuietInv /\ AuthorizedIsTopRanked
IInv == /\ TypeOK /\ TimeInv /\ RequestInv /\ SignedInv /\ OnceInv
        /\ OneAuthorizationPerChallenge /\ StaysAreFresh

=============================================================================
