--------------------------- MODULE CheckIn_proofs ----------------------------
(***************************************************************************)
(* Theorems about checking in: the ingest of the contract's events         *)
(* (CheckInIngest) and the API that authorizes a check-in (CheckInApi).    *)
(*                                                                         *)
(* The ingest, for any guests, amounts, chain, reorgs, failures (of hash   *)
(* lookups too) and number of confirmations.  Types hold under the         *)
(* assumption alone; that no event is skipped and that snapshots are exact *)
(* need ShallowReorgs, as the indexer asks the chain about its last block  *)
(* only, and except the events that a rewind which never moved the cursor  *)
(* has lost.                                                               *)
(*                                                                         *)
(* The API and the contract's check-in, for any guests, challenges,        *)
(* requests and times that satisfy the assumption: a challenge, the answer *)
(* of a statement and an authorization together last less than a stay.     *)
(***************************************************************************)
EXTENDS CheckInApi, CheckInIngest, FiniteSetTheorems, SequenceTheorems, Totals_proofs, TLAPS

-----------------------------------------------------------------------------
(* The events of a chain. *)

\* What the assumptions say, in the form the steps use.
LEMMA IngestConstants ==
  /\ LIVE_CONFIRMATIONS \in Nat /\ MaxReorg \in Nat /\ MaxBlock \in Nat
  /\ NoHash \notin Nat /\ MayFail \in BOOLEAN /\ Amount \subseteq Nat \ {0}
BY CheckInIngestAssumption

\* The blocks of a chain.
LEMMA BlocksOf ==
  ASSUME NEW c \in Seq(Block)
  PROVE  /\ Len(c) \in Nat /\ DOMAIN c = 1 .. Len(c)
         /\ \A b \in 1 .. Len(c) :
              c[b] \in Block /\ c[b].hash \in Nat /\ c[b].event \in Event \cup {NoEvent}
<1>1. Len(c) \in Nat /\ DOMAIN c = 1 .. Len(c)
  BY LenProperties
<1>2. ASSUME NEW b \in 1 .. Len(c) PROVE c[b] \in Block
  BY ElementOfSeq
<1>. QED
  BY <1>1, <1>2 DEF Block

\* A row of a chain is the event of its block.
LEMMA RowsAt ==
  ASSUME NEW c \in Seq(Block)
  PROVE  /\ \A r \in RowsOf(c) :
              /\ r.block \in 1 .. Len(c) /\ r.block \in Nat /\ r.block >= 1
              /\ r.event = c[r.block].event /\ r.event # NoEvent
              /\ r = [event |-> c[r.block].event, block |-> r.block]
         /\ \A b \in 1 .. Len(c) : c[b].event # NoEvent =>
              [event |-> c[b].event, block |-> b] \in RowsOf(c)
         /\ RowsOf(c) \subseteq Row
         /\ \A q, r \in RowsOf(c) : q.block = r.block => q = r
         /\ IsFiniteSet(RowsOf(c))
<1>. DEFINE D == {h \in DOMAIN c : c[h].event # NoEvent}
            f == [b \in D |-> [event |-> c[b].event, block |-> b]]
<1>1. Len(c) \in Nat /\ DOMAIN c = 1 .. Len(c) /\ D \subseteq 1 .. Len(c)
  BY BlocksOf
<1>2. IsFiniteSet(D)
  BY <1>1, FS_Interval, FS_Subset, 1 \in Int, Len(c) \in Int
<1>3. \A r \in RowsOf(c) : \E b \in D : r = [event |-> c[b].event, block |-> b]
  BY DEF RowsOf
<1>4. \A b \in D : [event |-> c[b].event, block |-> b] \in RowsOf(c)
  BY DEF RowsOf
<1>5. IsFiniteSet(RowsOf(c))
  <2>1. f \in Surjection(D, RowsOf(c))
    BY <1>3, <1>4 DEF Surjection
  <2>. QED
    BY <1>2, <2>1, FS_Surjection
<1>6. ASSUME NEW r \in RowsOf(c)
      PROVE  /\ r.block \in 1 .. Len(c) /\ r.block \in Nat /\ r.block >= 1
             /\ r.event = c[r.block].event /\ r.event # NoEvent
             /\ r = [event |-> c[r.block].event, block |-> r.block]
             /\ r \in Row
  <2>1. PICK b \in D : r = [event |-> c[b].event, block |-> b]
    BY <1>3, Zenon
  <2>2. c[b].event \in Event /\ b \in 1 .. Len(c) /\ c[b].event # NoEvent
    BY <1>1, BlocksOf
  <2>3. r.block = b /\ r.event = c[b].event
    BY <2>1
  <2>. QED
    BY <1>1, <2>1, <2>2, <2>3 DEF Row
<1>7. ASSUME NEW b \in 1 .. Len(c), c[b].event # NoEvent
      PROVE  [event |-> c[b].event, block |-> b] \in RowsOf(c)
  <2>1. b \in D
    BY <1>1, <1>7
  <2>. QED
    BY <1>4, <2>1
<1>8. ASSUME NEW q \in RowsOf(c), NEW r \in RowsOf(c), q.block = r.block PROVE q = r
  <2>1. /\ q = [event |-> c[q.block].event, block |-> q.block]
        /\ r = [event |-> c[r.block].event, block |-> r.block]
    BY <1>6, Zenon
  <2>. QED
    BY <1>8, <2>1
<1>. QED
  BY <1>5, <1>6, <1>7, <1>8, Zenon

\* The first of some rows is one of them, and no other is before it.
LEMMA FirstRow ==
  ASSUME NEW rows, rows # {}, \A r \in rows : r.block \in Nat
  PROVE  First(rows) \in rows /\ \A q \in rows : First(rows).block <= q.block
<1>1. {r.block : r \in rows} \in SUBSET Nat /\ {r.block : r \in rows} # {}
  OBVIOUS
<1>2. PICK x \in {r.block : r \in rows} : \A y \in {r.block : r \in rows} : x <= y
  BY <1>1, LeastNumber, Zenon
<1>3. PICK r \in rows : x = r.block
  BY <1>2
<1>4. r \in rows /\ \A q \in rows : r.block <= q.block
  BY <1>2, <1>3
<1>. QED
  BY <1>4, Zenon DEF First

-----------------------------------------------------------------------------
(* The events of a guest take turns. *)

\* Earlier rows of the same guest.
Earlier(r, rows) ==
  {q \in rows : q.block < r.block /\ q.event.guest = r.event.guest}
EarlierCheckIns(r, rows) == {q \in Earlier(r, rows) : Is(q, "CheckedIn")}

\* What ValidChain says of a check-in.
LEMMA CheckInRow ==
  ASSUME NEW c, ValidChain(c), NEW r \in RowsOf(c), Is(r, "CheckedIn")
  PROVE  /\ r.event.stay = Cardinality(EarlierCheckIns(r, RowsOf(c))) + 1
         /\ \A q \in EarlierCheckIns(r, RowsOf(c)) : CheckOutsOf(q, Earlier(r, RowsOf(c))) # {}
BY DEF ValidChain, Earlier, EarlierCheckIns

\* What it says of a check-out.
LEMMA CheckOutRow ==
  ASSUME NEW c, ValidChain(c), NEW r \in RowsOf(c), ~Is(r, "CheckedIn")
  PROVE  \E q \in EarlierCheckIns(r, RowsOf(c)) :
           /\ q.event.stay = r.event.stay /\ q.event.amount = r.event.amount
           /\ CheckOutsOf(q, Earlier(r, RowsOf(c))) = {}
BY DEF ValidChain, Earlier, EarlierCheckIns

\* A guest's stays are numbered in the order of its check-ins,
LEMMA StaysGrow ==
  ASSUME NEW c \in Seq(Block), ValidChain(c), NEW q \in RowsOf(c), NEW r \in RowsOf(c),
         Is(q, "CheckedIn"), Is(r, "CheckedIn"), q.event.guest = r.event.guest,
         q.block < r.block
  PROVE  q.event.stay < r.event.stay
<1>. DEFINE Q == EarlierCheckIns(q, RowsOf(c))
            R == EarlierCheckIns(r, RowsOf(c))
<1>1. IsFiniteSet(R) /\ IsFiniteSet(Q)
  BY RowsAt, FS_Subset DEF Earlier, EarlierCheckIns
<1>2. q \notin Q
  BY RowsAt DEF Earlier, EarlierCheckIns
<1>3. Q \cup {q} \subseteq R
  <2>1. \A x \in RowsOf(c) : x.block \in Nat
    BY RowsAt
  <2>. QED
    BY <2>1 DEF Earlier, EarlierCheckIns
<1>. HIDE DEF Q, R
<1>4. Cardinality(Q \cup {q}) = Cardinality(Q) + 1 /\ IsFiniteSet(Q \cup {q})
  BY <1>1, <1>2, FS_AddElement
<1>5. Cardinality(Q \cup {q}) <= Cardinality(R)
  BY <1>1, <1>3, FS_Subset
<1>6. Cardinality(Q) \in Nat /\ Cardinality(R) \in Nat
  BY <1>1, FS_CardinalityType
<1>7. q.event.stay = Cardinality(Q) + 1 /\ r.event.stay = Cardinality(R) + 1
  BY CheckInRow DEF Q, R
<1>. QED
  BY <1>4, <1>5, <1>6, <1>7

\* so that a check-in is known by its guest and stay.
LEMMA StayNamesCheckIn ==
  ASSUME NEW c \in Seq(Block), ValidChain(c), NEW q \in RowsOf(c), NEW r \in RowsOf(c),
         Is(q, "CheckedIn"), Is(r, "CheckedIn"), q.event.guest = r.event.guest,
         q.event.stay = r.event.stay
  PROVE  q = r
<1>1. q.event.stay \in Nat /\ r.event.stay \in Nat /\ q.block \in Nat /\ r.block \in Nat
  BY RowsAt DEF Row, Event
<1>2. ~(q.block < r.block) /\ ~(r.block < q.block)
  BY <1>1, StaysGrow
<1>. QED
  BY <1>1, <1>2, RowsAt

\* The check-out of a stay comes after its check-in, with the same amount.
LEMMA CheckOutIsLater ==
  ASSUME NEW c \in Seq(Block), ValidChain(c), NEW q \in RowsOf(c), Is(q, "CheckedIn"),
         NEW o \in CheckOutsOf(q, RowsOf(c))
  PROVE  q.block < o.block /\ o.event.amount = q.event.amount /\ o \in RowsOf(c)
<1>1. /\ o \in RowsOf(c) /\ ~Is(o, "CheckedIn")
      /\ o.event.guest = q.event.guest /\ o.event.stay = q.event.stay
  BY DEF CheckOutsOf, Is
<1>2. PICK p \in EarlierCheckIns(o, RowsOf(c)) :
        p.event.stay = o.event.stay /\ p.event.amount = o.event.amount
  BY <1>1, CheckOutRow
<1>3. p = q
  BY <1>1, <1>2, StayNamesCheckIn DEF Earlier, EarlierCheckIns
<1>. QED
  BY <1>1, <1>2, <1>3 DEF Earlier, EarlierCheckIns

\* When the guest of a check-in has a later event, the stay has ended by then.
LEMMA Alternation ==
  ASSUME NEW c \in Seq(Block), ValidChain(c), NEW q \in RowsOf(c), Is(q, "CheckedIn"),
         NEW l \in RowsOf(c), l.event.guest = q.event.guest, q.block < l.block
  PROVE  \E o \in CheckOutsOf(q, RowsOf(c)) : o.block <= l.block
<1>1. \A r \in RowsOf(c) : r.block \in Nat /\ r \in Row
  BY RowsAt
<1>2. ASSUME NEW r \in RowsOf(c), r.event.guest = q.event.guest, r.block <= l.block,
             NEW o \in CheckOutsOf(q, Earlier(r, RowsOf(c)))
      PROVE  o \in CheckOutsOf(q, RowsOf(c)) /\ o.block <= l.block
  BY <1>1, <1>2 DEF CheckOutsOf, Earlier
<1>3. CASE Is(l, "CheckedIn")
  <2>1. q \in EarlierCheckIns(l, RowsOf(c))
    BY DEF Earlier, EarlierCheckIns
  <2>. QED
    BY <1>1, <1>2, <1>3, <2>1, CheckInRow
<1>4. CASE ~Is(l, "CheckedIn")
  <2>1. PICK p \in EarlierCheckIns(l, RowsOf(c)) :
          /\ p.event.stay = l.event.stay
          /\ CheckOutsOf(p, Earlier(l, RowsOf(c))) = {}
    BY <1>4, CheckOutRow
  <2>2. /\ p \in RowsOf(c) /\ p.block < l.block /\ Is(p, "CheckedIn")
        /\ p.event.guest = q.event.guest
    BY <2>1 DEF Earlier, EarlierCheckIns
  <2>3. CASE p = q
    <3>1. Is(l, "CheckedOut")
      BY <1>1, <1>4 DEF Is, Row, Event
    <3>2. l \in CheckOutsOf(q, RowsOf(c))
      BY <2>1, <2>3, <3>1 DEF CheckOutsOf
    <3>. QED
      BY <1>1, <3>2
  <2>4. CASE p # q /\ q.block < p.block
    <3>1. q \in EarlierCheckIns(p, RowsOf(c))
      BY <2>2, <2>4 DEF Earlier, EarlierCheckIns
    <3>2. PICK o \in CheckOutsOf(q, Earlier(p, RowsOf(c))) : TRUE
      BY <2>2, <3>1, CheckInRow
    <3>. QED
      BY <1>1, <1>2, <2>2, <3>2
  <2>5. CASE p # q /\ p.block < q.block
    <3>1. p \in EarlierCheckIns(q, RowsOf(c))
      BY <2>2, <2>5 DEF Earlier, EarlierCheckIns
    <3>2. PICK o \in CheckOutsOf(p, Earlier(q, RowsOf(c))) : TRUE
      BY <3>1, CheckInRow
    <3>3. o \in CheckOutsOf(p, Earlier(l, RowsOf(c)))
      BY <1>1, <3>2 DEF CheckOutsOf, Earlier
    <3>. QED
      BY <2>1, <3>3
  <2>. QED
    BY <1>1, <2>2, <2>3, <2>4, <2>5, RowsAt
<1>. QED
  BY <1>3, <1>4

\* No event happens twice.
LEMMA EventsOnce ==
  ASSUME NEW c \in Seq(Block), ValidChain(c), NEW q \in RowsOf(c), NEW r \in RowsOf(c),
         q.event = r.event
  PROVE  q = r
<1>1. CASE Is(q, "CheckedIn")
  BY <1>1, StayNamesCheckIn DEF Is
<1>2. ASSUME NEW x \in RowsOf(c), NEW y \in RowsOf(c), x.event = y.event,
             ~Is(x, "CheckedIn"), x.block < y.block
      PROVE  FALSE
  <2>1. PICK p \in EarlierCheckIns(y, RowsOf(c)) :
          /\ p.event.stay = y.event.stay
          /\ CheckOutsOf(p, Earlier(y, RowsOf(c))) = {}
    BY <1>2, CheckOutRow DEF Is
  <2>2. x \in Earlier(y, RowsOf(c)) /\ Is(x, "CheckedOut")
    BY <1>2, RowsAt DEF Earlier, Is, Row, Event
  <2>3. x \in CheckOutsOf(p, Earlier(y, RowsOf(c)))
    BY <1>2, <2>1, <2>2 DEF CheckOutsOf, EarlierCheckIns, Earlier
  <2>. QED
    BY <2>1, <2>3
<1>3. CASE ~Is(q, "CheckedIn")
  <2>1. ~Is(r, "CheckedIn") /\ q.block \in Nat /\ r.block \in Nat
    BY <1>3, RowsAt DEF Is
  <2>2. ~(q.block < r.block) /\ ~(r.block < q.block)
    BY <1>2, <1>3, <2>1
  <2>. QED
    BY <2>1, <2>2, RowsAt
<1>. QED
  BY <1>1, <1>3

-----------------------------------------------------------------------------
(* What the events amount to. *)

\* The later rows of the same guest.
Later(r, rows) == {q \in rows : q.event.guest = r.event.guest /\ q.block > r.block}

\* The position rebuildCheckInPositions makes of a check-in.
PositionOf(r, rows) ==
  [guest |-> r.event.guest, stay |-> r.event.stay, amount |-> r.event.amount,
   in |-> r.block,
   out |-> IF Following(r, rows) = {} THEN 0 ELSE First(Following(r, rows)).block]

\* It ends with the first later row of the guest, if there is one.
LEMMA FollowingIsFirst ==
  ASSUME NEW rows, \A x \in rows : x.block \in Nat,
         \A x, y \in rows : x.block = y.block => x = y, NEW r
  PROVE  /\ Later(r, rows) = {} <=> Following(r, rows) = {}
         /\ \A y \in Later(r, rows) : (\A x \in Later(r, rows) : y.block <= x.block) =>
              Following(r, rows) = {y} /\ First(Following(r, rows)) = y
         /\ Later(r, rows) # {} =>
              \E y \in Later(r, rows) : /\ \A x \in Later(r, rows) : y.block <= x.block
                                        /\ Following(r, rows) = {y}
                                        /\ First(Following(r, rows)) = y
<1>. DEFINE L == Later(r, rows)
<1>1. Following(r, rows) = {q \in L : q = First(L)}
  BY DEF Following, Later
<1>2. \A x \in L : x.block \in Nat /\ x \in rows
  BY DEF Later
<1>. HIDE DEF L
<1>3. ASSUME L # {}
      PROVE  /\ First(L) \in L /\ \A x \in L : First(L).block <= x.block
             /\ Following(r, rows) = {First(L)}
             /\ First(Following(r, rows)) = First(L)
  <2>1. First(L) \in L /\ \A x \in L : First(L).block <= x.block
    BY <1>2, <1>3, FirstRow
  <2>2. Following(r, rows) = {First(L)}
    BY <1>1, <2>1
  <2>3. First({First(L)}) \in {First(L)}
    BY <1>2, <2>1, FirstRow
  <2>. QED
    BY <2>1, <2>2, <2>3
<1>4. ASSUME NEW y \in L, \A x \in L : y.block <= x.block
      PROVE  y = First(L)
  <2>1. First(L) \in L /\ First(L).block <= y.block /\ y.block <= First(L).block
    BY <1>3, <1>4
  <2>. QED
    BY <1>2, <2>1
<1>5. L = {} => Following(r, rows) = {}
  BY <1>1
<1>. QED
  BY <1>3, <1>4, <1>5 DEF L

\* Positions are made of the check-ins, one by one.
LEMMA DerivedIs ==
  ASSUME NEW rows
  PROVE  Derived(rows) = {PositionOf(r, rows) : r \in {q \in rows : Is(q, "CheckedIn")}}
BY DEF Derived, PositionOf

\* The rows before a row of the chain, and with it.
LEMMA RowsBefore ==
  ASSUME NEW c \in Seq(Block), NEW r \in RowsOf(c), NEW rows,
         rows = {x \in RowsOf(c) : x.block < r.block}
  PROVE  /\ r \notin rows /\ rows \subseteq RowsOf(c) /\ rows \cup {r} \subseteq RowsOf(c)
         /\ \A x \in rows : x.block < r.block /\ x.block \in Nat /\ x.block >= 1
         /\ \A x \in rows \cup {r} : x.block \in Nat
         /\ \A x, y \in rows \cup {r} : x.block = y.block => x = y
         /\ r.block \in Nat /\ r.block >= 1
BY RowsAt

\* A row that comes after all the others.
IsNextRow(r, rows) ==
  /\ r.block \in Nat /\ \A x \in rows : x.block \in Nat /\ x.block < r.block
  /\ \A x, y \in rows \cup {r} : x.block = y.block => x = y

\* The next row changes the position of no other guest, and of no stay that ended.
LEMMA SamePosition ==
  ASSUME NEW r, NEW rows, IsNextRow(r, rows),
         NEW q \in rows, q.event.guest # r.event.guest \/ Later(q, rows) # {}
  PROVE  PositionOf(q, rows \cup {r}) = PositionOf(q, rows)
<1>1. Later(q, rows \cup {r}) \subseteq Later(q, rows) \cup {r}
      /\ Later(q, rows) \subseteq Later(q, rows \cup {r})
  BY DEF Later
<1>. DEFINE L == Later(q, rows)
            M == Later(q, rows \cup {r})
<1>2. /\ \A x \in rows : x.block \in Nat
      /\ \A x, y \in rows : x.block = y.block => x = y
      /\ \A x \in rows \cup {r} : x.block \in Nat
      /\ \A x, y \in rows \cup {r} : x.block = y.block => x = y
      /\ r.block \in Nat /\ \A x \in rows : x.block < r.block
  BY DEF IsNextRow
<1>3. CASE q.event.guest # r.event.guest
  <2>1. Later(q, rows \cup {r}) = Later(q, rows)
    BY <1>3 DEF Later
  <2>2. Following(q, rows \cup {r}) = Following(q, rows)
    <3>1. \A s : Following(q, s) = {x \in Later(q, s) : x = First(Later(q, s))}
      BY DEF Following, Later
    <3>. QED
      BY <2>1, <3>1, Zenon
  <2>. QED
    BY <2>2, Zenon DEF PositionOf
<1>4. CASE L # {}
  <2>1. PICK y \in L : (\A x \in L : y.block <= x.block)
                        /\ Following(q, rows) = {y} /\ First(Following(q, rows)) = y
    BY <1>2, <1>4, FollowingIsFirst
  <2>2. y \in M /\ y \in rows
    BY <1>1, <2>1 DEF Later
  <2>3. y.block <= r.block
    BY <1>2, <2>2
  <2>4. \A x \in M : y.block <= x.block
    BY <1>1, <2>1, <2>3
  <2>5. Following(q, rows \cup {r}) = {y} /\ First(Following(q, rows \cup {r})) = y
    BY <1>2, <2>2, <2>4, FollowingIsFirst
  <2>. QED
    BY <2>1, <2>5, Zenon DEF PositionOf
<1>. QED
  BY <1>3, <1>4

\* A check-in finds no stay of the guest open, and begins one.
LEMMA DerivedCheckIn ==
  ASSUME NEW c \in Seq(Block), ValidChain(c), NEW r \in RowsOf(c), Is(r, "CheckedIn"),
         NEW rows, rows = {x \in RowsOf(c) : x.block < r.block}
  PROVE  /\ \A p \in Derived(rows) : p.guest = r.event.guest => p.out # 0 /\ p.stay # r.event.stay
         /\ Derived(rows \cup {r}) = Derived(rows) \cup
              {[guest |-> r.event.guest, stay |-> r.event.stay,
                amount |-> r.event.amount, in |-> r.block, out |-> 0]}
<1>0. /\ \A x \in rows : x.block \in Nat
      /\ \A x, y \in rows : x.block = y.block => x = y
      /\ \A x \in rows \cup {r} : x.block \in Nat
      /\ \A x, y \in rows \cup {r} : x.block = y.block => x = y
      /\ IsNextRow(r, rows)
  BY RowsBefore DEF IsNextRow
<1>1. ASSUME NEW q \in rows, Is(q, "CheckedIn"), q.event.guest = r.event.guest
      PROVE  /\ Later(q, rows) # {} /\ PositionOf(q, rows).out # 0
             /\ q.event.stay # r.event.stay
  <2>1. q \in RowsOf(c) /\ q.block < r.block /\ q # r
    BY RowsBefore
  <2>2. PICK o \in CheckOutsOf(q, RowsOf(c)) : o.block <= r.block
    BY <1>1, <2>1, Alternation
  <2>3. q.block < o.block /\ o \in RowsOf(c) /\ o # r
    BY <1>1, <2>1, <2>2, CheckOutIsLater DEF CheckOutsOf, Is
  <2>4. o \in rows
    BY <2>2, <2>3, RowsAt
  <2>5. o \in Later(q, rows)
    BY <2>2, <2>3, <2>4, RowsBefore, RowsAt, <2>1 DEF Later, CheckOutsOf
  <2>6. PICK y \in Later(q, rows) : Following(q, rows) = {y} /\ First(Following(q, rows)) = y
    BY <1>0, <2>5, FollowingIsFirst
  <2>7. y.block >= 1 /\ y.block \in Nat
    BY RowsBefore DEF Later
  <2>8. PositionOf(q, rows).out = y.block
    BY <2>6 DEF PositionOf
  <2>9. q.event.stay # r.event.stay
    BY <1>1, <2>1, StayNamesCheckIn
  <2>10. y.block # 0
    BY <2>7
  <2>. QED
    BY <2>5, <2>8, <2>9, <2>10, Zenon
<1>2. ASSUME NEW q \in rows, Is(q, "CheckedIn")
      PROVE  PositionOf(q, rows \cup {r}) = PositionOf(q, rows)
  <2>1. q.event.guest # r.event.guest \/ Later(q, rows) # {}
    BY <1>1, <1>2
  <2>2. IsNextRow(r, rows) /\ q \in rows
    BY <1>0
  <2>. QED
    BY <2>1, <2>2, SamePosition
<1>3. PositionOf(r, rows \cup {r}) =
        [guest |-> r.event.guest, stay |-> r.event.stay,
         amount |-> r.event.amount, in |-> r.block, out |-> 0]
  <2>1. Later(r, rows \cup {r}) = {}
    BY RowsBefore DEF Later
  <2>2. Following(r, rows \cup {r}) = {}
    BY <1>0, <2>1, FollowingIsFirst
  <2>. QED
    BY <2>2 DEF PositionOf
<1>4. {q \in rows \cup {r} : Is(q, "CheckedIn")} = {q \in rows : Is(q, "CheckedIn")} \cup {r}
  OBVIOUS
<1>5. ASSUME NEW p \in Derived(rows), p.guest = r.event.guest
      PROVE  p.out # 0 /\ p.stay # r.event.stay
  <2>1. PICK q \in rows : Is(q, "CheckedIn") /\ p = PositionOf(q, rows)
    BY DerivedIs
  <2>2. p.guest = q.event.guest /\ p.stay = q.event.stay
    BY <2>1 DEF PositionOf
  <2>. QED
    BY <1>1, <1>5, <2>1, <2>2
<1>6. /\ \A p \in Derived(rows) : p \in Derived(rows \cup {r})
      /\ PositionOf(r, rows \cup {r}) \in Derived(rows \cup {r})
  BY <1>2, <1>4, DerivedIs
<1>7. \A p \in Derived(rows \cup {r}) :
        p \in Derived(rows) \/ p = PositionOf(r, rows \cup {r})
  BY <1>2, <1>4, DerivedIs
<1>. QED
  BY <1>3, <1>5, <1>6, <1>7

\* A check-out finds one open stay of the guest, of its amount, and ends it.
LEMMA DerivedCheckOut ==
  ASSUME NEW c \in Seq(Block), ValidChain(c), NEW r \in RowsOf(c), ~Is(r, "CheckedIn"),
         NEW rows, rows = {x \in RowsOf(c) : x.block < r.block}
  PROVE  \E p \in Derived(rows) :
           /\ {x \in Derived(rows) : /\ x.guest = r.event.guest /\ x.out = 0
                                     /\ x.amount = r.event.amount} = {p}
           /\ Derived(rows \cup {r}) = (Derived(rows) \ {p}) \cup {[p EXCEPT !.out = r.block]}
<1>0. /\ \A x \in rows : x.block \in Nat
      /\ \A x, y \in rows : x.block = y.block => x = y
      /\ \A x \in rows \cup {r} : x.block \in Nat
      /\ \A x, y \in rows \cup {r} : x.block = y.block => x = y
      /\ IsNextRow(r, rows)
  BY RowsBefore DEF IsNextRow
<1>1. PICK q \in EarlierCheckIns(r, RowsOf(c)) :
        /\ q.event.stay = r.event.stay /\ q.event.amount = r.event.amount
        /\ CheckOutsOf(q, Earlier(r, RowsOf(c))) = {}
  BY CheckOutRow
<1>2. q \in rows /\ q \in RowsOf(c) /\ Is(q, "CheckedIn") /\ q.event.guest = r.event.guest
      /\ q.block < r.block
  BY <1>1 DEF EarlierCheckIns, Earlier
<1>3. Later(q, rows) = {}
  <2>1. SUFFICES ASSUME NEW l \in Later(q, rows) PROVE FALSE
    OBVIOUS
  <2>2. /\ l \in RowsOf(c) /\ l.event.guest = q.event.guest /\ q.block < l.block
        /\ l.block < r.block /\ l.block \in Nat
    BY <1>2, RowsBefore DEF Later
  <2>3. PICK o \in CheckOutsOf(q, RowsOf(c)) : o.block <= l.block
    BY <1>2, <2>2, Alternation
  <2>4. o \in RowsOf(c) /\ o.block \in Nat /\ r.block \in Nat
    BY RowsAt DEF CheckOutsOf
  <2>5. o.block < r.block
    BY <2>2, <2>3, <2>4
  <2>6. o \in CheckOutsOf(q, Earlier(r, RowsOf(c)))
    BY <1>2, <2>4, <2>5 DEF CheckOutsOf, Earlier
  <2>. QED
    BY <1>1, <2>6
<1>. DEFINE p == PositionOf(q, rows)
<1>4. Following(q, rows) = {}
  BY <1>0, <1>3, FollowingIsFirst
<1>5. /\ p = [guest |-> q.event.guest, stay |-> q.event.stay, amount |-> q.event.amount,
              in |-> q.block, out |-> 0]
      /\ p.guest = r.event.guest /\ p.out = 0 /\ p.amount = r.event.amount /\ p.in = q.block
  BY <1>1, <1>2, <1>4 DEF PositionOf
<1>6. PositionOf(q, rows \cup {r}) = [p EXCEPT !.out = r.block]
  <2>1. Later(q, rows \cup {r}) = {r}
    BY <1>2, <1>3 DEF Later
  <2>2. r \in Later(q, rows \cup {r}) /\ \A x \in Later(q, rows \cup {r}) : r.block <= x.block
    BY <1>0, <2>1
  <2>3. Following(q, rows \cup {r}) = {r} /\ First(Following(q, rows \cup {r})) = r
    BY <1>0, <2>2, FollowingIsFirst
  <2>4. PositionOf(q, rows \cup {r}) =
          [guest |-> q.event.guest, stay |-> q.event.stay, amount |-> q.event.amount,
           in |-> q.block, out |-> r.block]
    BY <2>3 DEF PositionOf
  <2>5. [p EXCEPT !.out = r.block] =
          [guest |-> q.event.guest, stay |-> q.event.stay, amount |-> q.event.amount,
           in |-> q.block, out |-> r.block]
    <3>. HIDE DEF p
    <3>. QED
      BY <1>5
  <2>. QED
    BY <2>4, <2>5
<1>7. ASSUME NEW x \in rows, Is(x, "CheckedIn"), x # q, x.event.guest = r.event.guest
      PROVE  Later(x, rows) # {} /\ PositionOf(x, rows).out # 0
  <2>1. x \in RowsOf(c) /\ x.block \in Nat /\ q.block \in Nat /\ x.block # q.block
    BY <1>2, <1>7, RowsBefore, RowsAt
  <2>2. ~(q.block < x.block)
    BY <1>2, <1>3, <1>7 DEF Later
  <2>3. q \in Later(x, rows)
    BY <1>2, <1>7, <2>1, <2>2 DEF Later
  <2>4. PICK y \in Later(x, rows) : Following(x, rows) = {y} /\ First(Following(x, rows)) = y
    BY <1>0, <2>3, FollowingIsFirst
  <2>5. y.block >= 1 /\ y.block \in Nat
    BY RowsBefore DEF Later
  <2>6. PositionOf(x, rows).out = y.block
    BY <2>4 DEF PositionOf
  <2>7. y.block # 0
    BY <2>5
  <2>. QED
    BY <2>3, <2>6, <2>7, Zenon
<1>8. ASSUME NEW x \in rows, Is(x, "CheckedIn"), x # q
      PROVE  PositionOf(x, rows \cup {r}) = PositionOf(x, rows)
  <2>1. x.event.guest # r.event.guest \/ Later(x, rows) # {}
    BY <1>7, <1>8
  <2>2. IsNextRow(r, rows) /\ x \in rows
    BY <1>0
  <2>. QED
    BY <2>1, <2>2, SamePosition
<1>9. \A x \in rows : x # q => PositionOf(x, rows) # p
  <2>1. \A x \in rows : PositionOf(x, rows).in = x.block
    BY DEF PositionOf
  <2>2. \A x \in rows : x # q => x.block # q.block
    BY <1>2, RowsBefore
  <2>. QED
    BY <1>5, <2>1, <2>2, Zenon
<1>10. {x \in rows \cup {r} : Is(x, "CheckedIn")} = {x \in rows : Is(x, "CheckedIn")}
  OBVIOUS
<1>11. p \in Derived(rows)
  BY <1>2, DerivedIs
<1>. HIDE DEF p
<1>12. {x \in Derived(rows) : /\ x.guest = r.event.guest /\ x.out = 0
                              /\ x.amount = r.event.amount} = {p}
  <2>1. ASSUME NEW x \in Derived(rows), x.guest = r.event.guest, x.out = 0
        PROVE  x = p
    <3>1. PICK y \in rows : Is(y, "CheckedIn") /\ x = PositionOf(y, rows)
      BY DerivedIs
    <3>2. y.event.guest = r.event.guest
      BY <2>1, <3>1 DEF PositionOf
    <3>. QED
      BY <1>7, <2>1, <3>1, <3>2 DEF p
  <2>. QED
    BY <1>5, <1>11, <2>1
<1>13. ASSUME NEW x \in Derived(rows \cup {r})
       PROVE  x \in (Derived(rows) \ {p}) \cup {[p EXCEPT !.out = r.block]}
  <2>1. PICK y \in rows : Is(y, "CheckedIn") /\ x = PositionOf(y, rows \cup {r})
    BY <1>10, DerivedIs
  <2>2. CASE y = q
    BY <1>6, <2>1, <2>2
  <2>3. CASE y # q
    BY <1>8, <1>9, <2>1, <2>3, DerivedIs
  <2>. QED
    BY <2>2, <2>3
<1>14. ASSUME NEW x \in Derived(rows), x # p PROVE x \in Derived(rows \cup {r})
  <2>1. PICK y \in rows : Is(y, "CheckedIn") /\ x = PositionOf(y, rows)
    BY DerivedIs
  <2>2. y # q
    BY <1>14, <2>1 DEF p
  <2>. QED
    BY <1>8, <1>10, <2>1, <2>2, DerivedIs
<1>15. [p EXCEPT !.out = r.block] \in Derived(rows \cup {r})
  BY <1>2, <1>6, <1>10, DerivedIs
<1>16. Derived(rows \cup {r}) = (Derived(rows) \ {p}) \cup {[p EXCEPT !.out = r.block]}
  <2>. DEFINE S == Derived(rows)
              T == Derived(rows \cup {r})
              e == [p EXCEPT !.out = r.block]
  <2>1. \A x \in T : x \in (S \ {p}) \cup {e}
    BY <1>13
  <2>2. e \in T /\ \A x \in S : x # p => x \in T
    BY <1>14, <1>15
  <2>. HIDE DEF S, T, e
  <2>3. T = (S \ {p}) \cup {e}
    BY <2>1, <2>2
  <2>. QED
    BY <2>3 DEF S, T, e
<1>. QED
  BY <1>11, <1>12, <1>16, Zenon

\* The escrow of the check-ins in rows that no row ends.
HeldIn(rows) ==
  {EscrowOf(r.event.guest, r.event.amount) :
     r \in {q \in rows : Is(q, "CheckedIn") /\ CheckOutsOf(q, rows) = {}}}

\* The positions of a chain's rows give the escrow at any block of it.
LEMMA DerivedEscrow ==
  ASSUME NEW c \in Seq(Block), ValidChain(c), NEW n \in Nat, NEW b \in 0 .. n,
         NEW rows, rows = {x \in RowsOf(c) : x.block <= n},
         NEW upTo, upTo = {x \in RowsOf(c) : x.block <= b}
  PROVE  OpenAtBlock(Derived(rows), b) = HeldIn(upTo)
<1>1. /\ \A x \in RowsOf(c) : x.block \in Nat /\ x.block >= 1
      /\ \A x \in rows : x.block \in Nat /\ x.block >= 1 /\ x \in RowsOf(c)
      /\ \A x, y \in rows : x.block = y.block => x = y
      /\ upTo \subseteq rows
  BY RowsAt
<1>2. ASSUME NEW q \in rows, Is(q, "CheckedIn")
      PROVE  /\ PositionOf(q, rows).in = q.block
             /\ PositionOf(q, rows).guest = q.event.guest
             /\ PositionOf(q, rows).amount = q.event.amount
  BY DEF PositionOf
<1>3. ASSUME NEW q \in rows, Is(q, "CheckedIn"), q.block <= b
      PROVE  PositionOf(q, rows).out = 0 \/ PositionOf(q, rows).out > b
               <=> CheckOutsOf(q, upTo) = {}
  <2>1. ASSUME NEW o \in CheckOutsOf(q, upTo)
        PROVE  ~(PositionOf(q, rows).out = 0 \/ PositionOf(q, rows).out > b)
    <3>1. o \in CheckOutsOf(q, RowsOf(c)) /\ o.block <= b /\ o \in rows
          /\ o.event.guest = q.event.guest
      BY <1>1, <2>1 DEF CheckOutsOf
    <3>2. o.block > q.block
      BY <1>1, <1>3, <3>1, CheckOutIsLater
    <3>3. o \in Later(q, rows)
      BY <3>1, <3>2 DEF Later
    <3>4. PICK y \in Later(q, rows) : /\ \A x \in Later(q, rows) : y.block <= x.block
                                      /\ Following(q, rows) = {y}
                                      /\ First(Following(q, rows)) = y
      BY <1>1, <3>3, FollowingIsFirst
    <3>5. y.block <= o.block /\ y.block >= 1 /\ y.block \in Nat /\ o.block \in Nat
      BY <1>1, <3>1, <3>3, <3>4 DEF Later
    <3>6. PositionOf(q, rows).out = y.block
      BY <3>4 DEF PositionOf
    <3>. QED
      BY <3>1, <3>5, <3>6
  <2>2. ASSUME ~(PositionOf(q, rows).out = 0 \/ PositionOf(q, rows).out > b)
        PROVE  CheckOutsOf(q, upTo) # {}
    <3>1. Following(q, rows) # {}
      BY <2>2 DEF PositionOf
    <3>2. PICK y \in Later(q, rows) : Following(q, rows) = {y} /\ First(Following(q, rows)) = y
      BY <1>1, <3>1, FollowingIsFirst
    <3>3. PositionOf(q, rows).out = y.block /\ y.block \in Nat
      BY <1>1, <3>2 DEF PositionOf, Later
    <3>4. /\ y \in RowsOf(c) /\ y.block <= b /\ y.event.guest = q.event.guest
          /\ q.block < y.block /\ q \in RowsOf(c)
      BY <1>1, <2>2, <3>2, <3>3 DEF Later
    <3>5. PICK o \in CheckOutsOf(q, RowsOf(c)) : o.block <= y.block
      BY <1>3, <3>4, Alternation
    <3>6. o \in upTo
      BY <1>1, <3>3, <3>4, <3>5 DEF CheckOutsOf
    <3>. QED
      BY <3>5, <3>6 DEF CheckOutsOf
  <2>. QED
    BY <2>1, <2>2
<1>. DEFINE H == {q \in upTo : Is(q, "CheckedIn") /\ CheckOutsOf(q, upTo) = {}}
            O == {p \in Derived(rows) : p.in <= b /\ (p.out = 0 \/ p.out > b)}
<1>4. \A q \in H : q \in rows /\ Is(q, "CheckedIn") /\ q.block <= b
  BY <1>1
<1>5. \A q \in H : PositionOf(q, rows) \in O
  BY <1>2, <1>3, <1>4, DerivedIs
<1>6. ASSUME NEW p \in O PROVE \E q \in H : p = PositionOf(q, rows)
  <2>1. PICK q \in rows : Is(q, "CheckedIn") /\ p = PositionOf(q, rows)
    BY DerivedIs
  <2>2. q.block <= b
    BY <1>2, <1>6, <2>1
  <2>3. q \in upTo
    BY <1>1, <2>2
  <2>4. CheckOutsOf(q, upTo) = {}
    BY <1>3, <1>6, <2>1, <2>2
  <2>. QED
    BY <2>1, <2>3, <2>4
<1>. HIDE DEF H, O
<1>7. \A q \in H : EscrowOf(PositionOf(q, rows).guest, PositionOf(q, rows).amount)
                     = EscrowOf(q.event.guest, q.event.amount)
  BY <1>2, <1>4, Zenon
<1>8. {EscrowOf(p.guest, p.amount) : p \in O} = {EscrowOf(q.event.guest, q.event.amount) : q \in H}
  <2>1. ASSUME NEW p \in O
        PROVE  \E q \in H : EscrowOf(p.guest, p.amount) = EscrowOf(q.event.guest, q.event.amount)
    BY <1>6, <1>7, <2>1, Zenon
  <2>2. ASSUME NEW q \in H
        PROVE  \E p \in O : EscrowOf(p.guest, p.amount) = EscrowOf(q.event.guest, q.event.amount)
    BY <1>5, <1>7, <2>2, Zenon
  <2>. QED
    BY <2>1, <2>2
<1>. QED
  BY <1>8 DEF OpenAtBlock, HeldIn, O, H

-----------------------------------------------------------------------------
(* The chain under the tables. *)

\* The chain is a sequence of blocks.
LEMMA ChainType ==
  IngestTypeOK => /\ chain \in Seq(Block) /\ reorgs \in Nat
                  /\ Len(chain) \in Nat /\ DOMAIN chain = 1 .. Len(chain)
BY BlocksOf DEF IngestTypeOK

\* The rows up to a block of the chain.
LEMMA RowsUpToRows ==
  ASSUME IngestTypeOK
  PROVE  /\ RowsOf(chain) \subseteq Row
         /\ \A r \in RowsOf(chain) : r.block \in Nat /\ r.block >= 1
         /\ \A q, r \in RowsOf(chain) : q.block = r.block => q = r
         /\ \A n : RowsUpTo(n) \subseteq RowsOf(chain)
BY ChainType, RowsAt DEF RowsUpTo

\* The hash at a block of the chain is a number, no larger than the reorgs so far.
LEMMA HashAtType ==
  ASSUME IngestTypeOK, PollInv, NEW b \in Nat, b <= Len(chain)
  PROVE  HashAt(b) \in Nat /\ HashAt(b) <= reorgs
<1>1. CASE b = 0
  BY <1>1, ChainType DEF HashAt
<1>2. CASE b # 0
  <2>1. b \in 1 .. Len(chain)
    BY <1>2, ChainType
  <2>2. chain[b].hash \in Nat /\ chain[b].hash <= reorgs
    BY <2>1, ChainType, BlocksOf DEF PollInv
  <2>. QED
    BY <1>2, <2>2 DEF HashAt
<1>. QED
  BY <1>1, <1>2

\* The cursor and the head are in the chain, and an orphaned cursor is not at its start.
LEMMA CursorInChain ==
  ASSUME IngestTypeOK, PollInv
  PROVE  /\ cursor.block \in Nat /\ cursor.block <= Len(chain)
         /\ head \in Nat /\ head <= Len(chain)
         /\ HashAt(cursor.block) \in Nat /\ HashAt(cursor.block) <= reorgs
         /\ Orphaned => cursor.block > 0 /\ cursor.hash \in Nat
<1>1. /\ cursor.block \in Nat /\ head \in Nat /\ Len(chain) \in Nat
      /\ cursor.hash \in Nat \cup {NoHash}
  BY ChainType DEF IngestTypeOK
<1>2. cursor.block <= Len(chain) /\ head <= Len(chain)
  BY <1>1, IngestConstants DEF PollInv
<1>3. HashAt(cursor.block) \in Nat /\ HashAt(cursor.block) <= reorgs
  BY <1>1, <1>2, HashAtType
<1>4. Orphaned => cursor.block > 0 /\ cursor.hash \in Nat
  BY <1>1 DEF Orphaned, PollInv, HashAt
<1>. QED
  BY <1>1, <1>2, <1>3, <1>4

\* Blocks up to the n-th are as they were.
SameUpTo(n) == \A b \in 1 .. n : chain'[b] = chain[b]

\* Up to blocks that are the same, so are the rows and the hashes.
LEMMA SameRows ==
  ASSUME IngestTypeOK, chain' \in Seq(Block), Len(chain') >= Len(chain),
         NEW n \in Int, n <= Len(chain), SameUpTo(n)
  PROVE  /\ \A b \in Int : b <= n => RowsUpTo(b)' = RowsUpTo(b)
         /\ \A b \in Int : 0 <= b /\ b <= n => HashAt(b)' = HashAt(b)
<1>1. Len(chain) \in Nat /\ Len(chain') \in Nat
  BY ChainType, BlocksOf
<1>2. ASSUME NEW r \in RowsOf(chain), r.block <= n PROVE r \in RowsOf(chain')
  <2>1. /\ r.block \in 1 .. Len(chain) /\ r.event # NoEvent
        /\ r = [event |-> chain[r.block].event, block |-> r.block]
        /\ r.event = chain[r.block].event
    BY ChainType, RowsAt
  <2>2. chain'[r.block] = chain[r.block] /\ r.block \in 1 .. Len(chain')
    BY <1>1, <1>2, <2>1 DEF SameUpTo
  <2>. QED
    BY <2>1, <2>2, RowsAt
<1>3. ASSUME NEW r \in RowsOf(chain'), r.block <= n PROVE r \in RowsOf(chain)
  <2>1. /\ r.block \in 1 .. Len(chain') /\ r.event # NoEvent
        /\ r = [event |-> chain'[r.block].event, block |-> r.block]
        /\ r.event = chain'[r.block].event
    BY RowsAt
  <2>2. chain'[r.block] = chain[r.block] /\ r.block \in 1 .. Len(chain)
    BY <1>1, <1>3, <2>1 DEF SameUpTo
  <2>. QED
    BY <2>1, <2>2, ChainType, RowsAt
<1>4. /\ \A r \in RowsOf(chain) : r.block \in Nat
      /\ \A r \in RowsOf(chain') : r.block \in Nat
  BY ChainType, RowsAt
<1>5. ASSUME NEW b \in Int, b <= n PROVE RowsUpTo(b)' = RowsUpTo(b)
  <2>1. RowsUpTo(b)' = {r \in RowsOf(chain') : r.block <= b}
    BY DEF RowsUpTo
  <2>. QED
    BY <1>2, <1>3, <1>4, <1>5, <2>1 DEF RowsUpTo
<1>6. ASSUME NEW b \in Int, 0 <= b, b <= n PROVE HashAt(b)' = HashAt(b)
  BY <1>6 DEF HashAt, SameUpTo
<1>. QED
  BY <1>5, <1>6

\* A new block leaves the others as they are.
LEMMA ExtendBlocks ==
  ASSUME IngestTypeOK, PollInv, NEW e \in ChainEvent, Extend(e)
  PROVE  /\ chain' \in Seq(Block) /\ Len(chain') = Len(chain) + 1
         /\ SameUpTo(Len(chain)) /\ reorgs' = reorgs
         /\ \A b \in DOMAIN chain' : chain'[b].hash <= reorgs'
<1>. DEFINE new == [hash |-> reorgs, event |-> e]
<1>1. new \in Block /\ new.hash = reorgs
  BY IngestConstants DEF Block, IngestTypeOK, ChainEvent, Event
<1>2. chain' = Append(chain, new) /\ reorgs' = reorgs /\ chain \in Seq(Block)
  BY DEF Extend, IngestTypeOK
<1>3. /\ chain' \in Seq(Block) /\ Len(chain') = Len(chain) + 1
      /\ \A b \in 1 .. Len(chain) : chain'[b] = chain[b]
      /\ chain'[Len(chain) + 1] = new
  <2>. HIDE DEF new
  <2>. QED  BY <1>1, <1>2, AppendProperties
<1>4. ASSUME NEW b \in DOMAIN chain' PROVE chain'[b].hash <= reorgs'
  <2>1. b \in 1 .. Len(chain) \/ b = Len(chain) + 1
    BY <1>2, <1>3, BlocksOf
  <2>2. CASE b \in 1 .. Len(chain)
    BY <1>2, <1>3, <2>2, BlocksOf DEF PollInv
  <2>3. CASE b = Len(chain) + 1
    <3>1. chain'[b] = new
      BY <2>3, <1>3
    <3>. QED
      BY <3>1, <1>1, <1>2, ChainType
  <2>. QED
    BY <2>1, <2>2, <2>3
<1>. QED
  BY <1>2, <1>3, <1>4 DEF SameUpTo

\* A reorg keeps the length, and the blocks before those it replaces.
LEMMA ReorgBlocks ==
  ASSUME IngestTypeOK, PollInv, NEW d \in 1 .. MaxReorg, NEW events \in [1 .. d -> ChainEvent],
         Reorg(events)
  PROVE  /\ d \in Nat /\ d <= Len(chain) /\ chain' \in Seq(Block) /\ Len(chain') = Len(chain)
         /\ SameUpTo(Len(chain) - d) /\ reorgs' = reorgs + 1
         /\ \A b \in (Len(chain) - d + 1) .. Len(chain) : chain'[b].hash = reorgs + 1
         /\ \A b \in DOMAIN chain' : chain'[b].hash <= reorgs'
<1>. DEFINE n == Len(chain) - d
            old == SubSeq(chain, 1, n)
            new == [i \in 1 .. d |-> [hash |-> reorgs + 1, event |-> events[i]]]
<1>0. d \in Nat \ {0}
  BY IngestConstants
<1>1. /\ Len(events) = d /\ DOMAIN events = 1 .. d /\ d <= Len(chain)
      /\ chain \in Seq(Block) /\ reorgs \in Nat /\ reorgs' = reorgs + 1
  <2>1. DOMAIN events = 1 .. d
    OBVIOUS
  <2>2. Len(events) = d
    BY <1>0, <2>1
  <2>. QED
    BY <2>1, <2>2, ChainType DEF Reorg
<1>2. n \in Nat /\ n <= Len(chain) /\ n + d = Len(chain) /\ Len(chain) \in Nat
  BY <1>0, <1>1, BlocksOf
<1>3. /\ new \in Seq(Block) /\ Len(new) = d
      /\ \A i \in 1 .. d : new[i].hash = reorgs + 1
  <2>1. \A i \in 1 .. d : [hash |-> reorgs + 1, event |-> events[i]] \in Block
    <3>1. \A i \in 1 .. d : events[i] \in Event \cup {NoEvent}
      BY IngestConstants DEF ChainEvent, Event
    <3>. QED
      BY <1>1, <3>1 DEF Block
  <2>. QED
    BY <1>0, <2>1
<1>4. old \in Seq(Block) /\ Len(old) = n /\ \A b \in 1 .. n : old[b] = chain[b]
  <2>1. \A b \in 1 .. n : chain[b] \in Block
    BY <1>1, <1>2, BlocksOf
  <2>. HIDE DEF n
  <2>2. /\ old \in Seq(Block) /\ Len(old) = (IF 1 <= n THEN n - 1 + 1 ELSE 0)
        /\ \A b \in 1 .. (n - 1 + 1) : old[b] = chain[1 + b - 1]
    BY <1>1, <1>2, <2>1, SubSeqProperties
  <2>. QED
    BY <1>2, <2>2
<1>5. chain' = old \o new
  BY <1>1 DEF Reorg
<1>. HIDE DEF n, old, new
<1>6. /\ chain' \in Seq(Block) /\ Len(chain') = n + d
      /\ \A b \in 1 .. n : chain'[b] = old[b]
      /\ \A b \in (n + 1) .. (n + d) : chain'[b] = new[b - n]
  <2>1. /\ chain' \in Seq(Block) /\ Len(chain') = n + d
        /\ \A b \in 1 .. (n + d) : chain'[b] = IF b <= n THEN old[b] ELSE new[b - n]
    BY <1>0, <1>3, <1>4, <1>5, ConcatProperties
  <2>. QED
    BY <1>0, <1>2, <2>1
<1>7. \A b \in (n + 1) .. (n + d) : b - n \in 1 .. d
  BY <1>0, <1>2
<1>8. \A b \in (n + 1) .. (n + d) : chain'[b].hash = reorgs + 1
  BY <1>3, <1>6, <1>7
<1>9. \A b \in 1 .. n : chain'[b] = chain[b] /\ b \in DOMAIN chain
  BY <1>1, <1>2, <1>4, <1>6, BlocksOf
<1>10. ASSUME NEW b \in DOMAIN chain' PROVE chain'[b].hash <= reorgs'
  <2>1. b \in 1 .. n \/ b \in (n + 1) .. (n + d)
    BY <1>0, <1>2, <1>6, BlocksOf
  <2>2. CASE b \in 1 .. n
    <3>1. chain[b].hash <= reorgs /\ chain[b].hash \in Nat
      BY <1>1, <1>9, <2>2, BlocksOf DEF PollInv
    <3>. QED
      BY <1>1, <1>9, <2>2, <3>1
  <2>3. CASE b \in (n + 1) .. (n + d)
    BY <2>3, <1>1, <1>8
  <2>. QED
    BY <2>1, <2>2, <2>3
<1>. QED
  BY <1>0, <1>1, <1>2, <1>6, <1>8, <1>9, <1>10 DEF n, SameUpTo

-----------------------------------------------------------------------------
(* Types. *)

\* The initial state is well typed.
LEMMA IngestInitType == IngestInit => IngestTypeOK
<1>. SUFFICES ASSUME IngestInit PROVE IngestTypeOK
  OBVIOUS
<1>1. chain \in Seq(Block)
  BY EmptySeq DEF IngestInit
<1>. QED
  BY <1>1 DEF IngestInit, IngestTypeOK

\* The steps of the specification, one by one.
LEMMA IngestSteps ==
  ASSUME IngestNext
  PROVE  \/ Poll \/ Fail \/ \E e \in ChainEvent : Extend(e)
         \/ \E d \in 1 .. MaxReorg : \E events \in [1 .. d -> ChainEvent] : Reorg(events)
         \/ DeleteEvents \/ DeletePositions \/ ReadEvents \/ InsertPosition
         \/ MoveCursor \/ FetchLogs \/ InsertEvent \/ WritePosition \/ Anchor \/ Finish
BY Zenon DEF IngestNext, PollStep, ChainStep

\* Positions made of rows are positions.
LEMMA DerivedType == ASSUME NEW rows \in SUBSET Row PROVE Derived(rows) \subseteq Position
<1>1. SUFFICES ASSUME NEW r \in rows, Is(r, "CheckedIn") PROVE PositionOf(r, rows) \in Position
  BY DerivedIs
<1>2. /\ r.event.guest \in Account /\ r.event.stay \in Nat /\ r.event.amount \in Amount
      /\ r.block \in Nat
  BY DEF Row, Event
<1>3. Following(r, rows) # {} => First(Following(r, rows)).block \in Nat
  <2>1. \A x \in Following(r, rows) : x.block \in Nat
    BY DEF Following, Row
  <2>. QED
    BY <2>1, FirstRow
<1>. QED
  BY <1>2, <1>3 DEF PositionOf, Position

\* Every step keeps the types.
LEMMA IngestTypeStep ==
  ASSUME IngestTypeOK, PollInv, [IngestNext]_ingestVars
  PROVE  IngestTypeOK'
<1>0. /\ chain \in Seq(Block) /\ reorgs \in Nat /\ Len(chain) \in Nat
      /\ checkInEvents \subseteq Row /\ checkInPositions \subseteq Position
      /\ cursor \in [block : Nat, hash : Nat \cup {NoHash}]
      /\ head \in Nat /\ logs \subseteq Row /\ event \in Row \cup {NoEvent}
      /\ unwritten \subseteq Position /\ faults \in Nat /\ torn \in BOOLEAN
      /\ lost \subseteq Nat /\ LIVE_CONFIRMATIONS \in Nat
  BY ChainType, IngestConstants DEF IngestTypeOK
<1>a. Throw => pc' = "idle" /\ torn' \in BOOLEAN /\ lost' \subseteq Nat
  BY <1>0 DEF Throw, InRange
<1>1. CASE UNCHANGED ingestVars
  BY <1>1 DEF IngestTypeOK, ingestVars
<1>2. CASE Poll
  <2>1. /\ pc' \in {"fetch", "deleteEvents"} /\ head' \in Nat /\ faults' \in Nat
        /\ UNCHANGED <<environment, database, logs, event, unwritten, history>>
    BY <1>0, <1>2 DEF Poll, BlockHash
  <2>. QED
    BY <1>0, <2>1 DEF IngestTypeOK, environment, database, history
<1>3. CASE Fail
  <2>1. /\ faults' \in Nat /\ Throw /\ Forget /\ UNCHANGED <<environment, database>>
    BY <1>0, <1>3 DEF Fail
  <2>. QED
    BY <1>0, <1>a, <2>1 DEF IngestTypeOK, Forget, environment, database
<1>4. ASSUME NEW e \in ChainEvent, Extend(e) PROVE IngestTypeOK'
  <2>1. chain' \in Seq(Block)
    BY <1>4, ExtendBlocks
  <2>. QED
    BY <1>0, <1>4, <2>1 DEF IngestTypeOK, Extend, database, poll, history
<1>5. ASSUME NEW d \in 1 .. MaxReorg, NEW events \in [1 .. d -> ChainEvent], Reorg(events)
      PROVE  IngestTypeOK'
  <2>1. chain' \in Seq(Block) /\ reorgs' \in Nat
    BY <1>0, <1>5, ReorgBlocks
  <2>. QED
    BY <1>0, <1>5, <2>1 DEF IngestTypeOK, Reorg, database, poll, history
<1>6. CASE DeleteEvents
  BY <1>0, <1>6 DEF IngestTypeOK, DeleteEvents, Kept, environment, poll, history
<1>7. CASE DeletePositions
  BY <1>0, <1>7 DEF IngestTypeOK, DeletePositions, environment, poll, history
<1>8. CASE ReadEvents
  <2>1. Derived(checkInEvents) \subseteq Position
    BY <1>0, DerivedType
  <2>2. /\ unwritten' \subseteq Position /\ pc' \in {"insert", "idle"}
        /\ torn' \in BOOLEAN /\ lost' \subseteq Nat
    BY <1>0, <1>a, <1>8, <2>1 DEF ReadEvents, history
  <2>. QED
    BY <1>0, <1>8, <2>2 DEF IngestTypeOK, ReadEvents, environment, database
<1>9. CASE InsertPosition
  <2>1. /\ checkInPositions' \subseteq Position /\ unwritten' \subseteq Position
        /\ pc' \in {"insert", "moveCursor"}
    BY <1>0, <1>9 DEF InsertPosition
  <2>. QED
    BY <1>0, <1>9, <2>1 DEF IngestTypeOK, InsertPosition, environment, history
<1>10. CASE MoveCursor
  <2>1. cursor.block > 0 /\ cursor.block <= Len(chain)
    BY <1>10, CursorInChain DEF MoveCursor, PollInv, Rewinding, HasDeleted
  <2>2. cursor.block - 1 \in Nat /\ cursor.block - 1 <= Len(chain)
    BY <1>0, <2>1
  <2>3. HashAt(cursor.block - 1) \in Nat
    BY <2>2, HashAtType
  <2>4. PICK hash \in {HashAt(cursor.block - 1), NoHash} :
          /\ faults' = faults \/ faults' = faults + 1
          /\ cursor' = [block |-> cursor.block - 1, hash |-> hash]
    BY <1>10 DEF MoveCursor, BlockHash
  <2>5. cursor' \in [block : Nat, hash : Nat \cup {NoHash}] /\ faults' \in Nat
    BY <1>0, <2>2, <2>3, <2>4
  <2>6. lost' \subseteq Nat
    BY <1>0, <1>10 DEF MoveCursor
  <2>. QED
    BY <1>0, <1>10, <2>5, <2>6 DEF IngestTypeOK, MoveCursor, environment, poll
<1>11. CASE FetchLogs
  <2>1. logs' \subseteq Row /\ pc' \in {"finish", "event"}
    BY <1>0, <1>11, RowsUpToRows DEF FetchLogs
  <2>. QED
    BY <1>0, <1>11, <2>1 DEF IngestTypeOK, FetchLogs, environment, database, history
<1>12. CASE InsertEvent
  <2>1. logs # {} => First(logs) \in logs
    BY <1>0, FirstRow DEF Row
  <2>2. /\ checkInEvents' \subseteq Row /\ logs' \subseteq Row
        /\ event' \in Row \cup {NoEvent} /\ pc' \in {"event", "anchor", "position"}
    BY <1>0, <1>12, <2>1 DEF InsertEvent
  <2>. QED
    BY <1>0, <1>12, <2>2 DEF IngestTypeOK, InsertEvent, environment, history
<1>13. CASE WritePosition
  <2>1. event \in Row
    BY <1>0, <1>13 DEF WritePosition, PollInv
  <2>2. [guest |-> event.event.guest, stay |-> event.event.stay,
         amount |-> event.event.amount, in |-> event.block, out |-> 0] \in Position
    BY <2>1 DEF Row, Event, Position
  <2>3. \A p \in checkInPositions : Closed(p, event.block) \in Position
    BY <1>0, <2>1 DEF Position, Closed, Row
  <2>4. Throw \/ (pc' = "event" /\ UNCHANGED history)
    BY <1>13 DEF WritePosition, WriteOpenPosition, ClosePosition
  <2>5. checkInPositions' \subseteq Position
    <3>1. CASE Is(event, "CheckedIn")
      BY <1>0, <1>13, <2>2, <3>1 DEF WritePosition, WriteOpenPosition
    <3>2. CASE ~Is(event, "CheckedIn")
      BY <1>0, <1>13, <2>3, <3>2 DEF WritePosition, ClosePosition, OpenPositionsOf
    <3>. QED
      BY <3>1, <3>2
  <2>6. pc' \in {"idle", "event"} /\ torn' \in BOOLEAN /\ lost' \subseteq Nat
    BY <1>0, <1>a, <2>4 DEF history
  <2>. QED
    BY <1>0, <1>13, <2>5, <2>6 DEF IngestTypeOK, WritePosition, environment, poll
<1>14. CASE Anchor
  <2>1. HashAt(head) \in Nat
    BY CursorInChain, HashAtType
  <2>. QED
    BY <1>0, <1>14, <2>1 DEF IngestTypeOK, Anchor, environment, poll, history
<1>15. CASE Finish
  BY <1>0, <1>15 DEF IngestTypeOK, Finish, Forget, environment, database, history
<1>. QED
  BY <1>1, <1>2, <1>3, <1>4, <1>5, <1>6, <1>7, <1>8, <1>9, <1>10, <1>11, <1>12, <1>13,
     <1>14, <1>15, IngestSteps

\* A step that leaves the chain and the cursor alone keeps what is said of them.
LEMMA PollInvKept ==
  ASSUME PollInv, UNCHANGED <<chain, reorgs, cursor>>,
         head' = head \/ head' = 0 \/ head' + LIVE_CONFIRMATIONS <= Len(chain),
         Rewinding' => cursor.block > 0 /\ cursor.hash # NoHash,
         InRange' => cursor.block < head',
         pc' = "position" => event' \in checkInEvents', pc' = "anchor" => logs' = {},
         cursor.block \in Nat, lost' \subseteq lost \cup {cursor.block}
  PROVE  PollInv'
BY DEF PollInv

\* Every step keeps what the invariant says of the chain and the poll.
LEMMA IngestPollStep ==
  ASSUME IngestTypeOK, PollInv, [IngestNext]_ingestVars
  PROVE  PollInv'
<1>0. /\ chain \in Seq(Block) /\ reorgs \in Nat /\ Len(chain) \in Nat
      /\ cursor.block \in Nat /\ cursor.hash \in Nat \cup {NoHash} /\ head \in Nat
      /\ LIVE_CONFIRMATIONS \in Nat /\ NoHash \notin Nat /\ lost \subseteq Nat
      /\ cursor \in [block : Nat, hash : Nat \cup {NoHash}]
  BY ChainType, IngestConstants DEF IngestTypeOK
<1>a. Throw => /\ ~Rewinding' /\ ~InRange' /\ pc' = "idle"
               /\ lost' \subseteq lost \cup {cursor.block}
  BY DEF Throw, Rewinding, HasDeleted, InRange
<1>b. Rewinding => cursor.block > 0 /\ cursor.hash # NoHash
  BY DEF PollInv
<1>1. CASE UNCHANGED ingestVars
  BY <1>1 DEF PollInv, ingestVars, Rewinding, HasDeleted, InRange
<1>2. CASE Poll
  <2>1. /\ UNCHANGED <<chain, reorgs, cursor, lost>> /\ pc' \in {"deleteEvents", "fetch"}
        /\ head' = 0 \/ head' + LIVE_CONFIRMATIONS <= Len(chain)
    BY <1>0, <1>2 DEF Poll, environment, database, history
  <2>2. ASSUME pc' = "deleteEvents" PROVE cursor.block > 0 /\ cursor.hash # NoHash
    <3>1. cursor.hash # NoHash
      BY <1>2, <2>2 DEF Poll
    <3>2. PICK hash \in {HashAt(cursor.block), NoHash} :
            /\ hash = NoHash => cursor.block > 0
            /\ pc' = IF hash = cursor.hash THEN "fetch" ELSE "deleteEvents"
      BY <1>2, <3>1, Zenon DEF Poll
    <3>3. Orphaned => cursor.block > 0
      BY CursorInChain
    <3>. QED
      BY <2>2, <3>1, <3>2, <3>3 DEF Orphaned
  <2>. QED
    BY <1>0, <2>1, <2>2, PollInvKept DEF Rewinding, HasDeleted, InRange
<1>3. CASE Fail
  <2>1. /\ Throw /\ UNCHANGED <<chain, reorgs, cursor>> /\ head' = 0
    BY <1>3 DEF Fail, Forget, environment, database
  <2>. QED
    BY <1>0, <1>a, <2>1, PollInvKept
<1>4. ASSUME NEW e \in ChainEvent, Extend(e) PROVE PollInv'
  <2>1. /\ chain' \in Seq(Block) /\ Len(chain') = Len(chain) + 1
        /\ SameUpTo(Len(chain)) /\ reorgs' = reorgs
        /\ \A b \in DOMAIN chain' : chain'[b].hash <= reorgs'
    BY <1>4, ExtendBlocks
  <2>2. UNCHANGED <<cursor, head, pc, logs, event, checkInEvents, lost>> /\ ValidChain(chain')
    BY <1>4 DEF Extend, poll, database, history
  <2>3. Rewinding' = Rewinding /\ InRange' = InRange
    BY <2>2 DEF Rewinding, HasDeleted, InRange
  <2>. QED
    BY <1>0, <2>1, <2>2, <2>3 DEF PollInv
<1>5. ASSUME NEW d \in 1 .. MaxReorg, NEW events \in [1 .. d -> ChainEvent], Reorg(events)
      PROVE  PollInv'
  <2>1. /\ chain' \in Seq(Block) /\ Len(chain') = Len(chain) /\ reorgs' = reorgs + 1
        /\ \A b \in DOMAIN chain' : chain'[b].hash <= reorgs'
    BY <1>5, ReorgBlocks
  <2>2. /\ UNCHANGED <<cursor, head, pc, logs, event, checkInEvents, lost>>
        /\ ValidChain(chain') /\ pc = "idle"
    BY <1>5 DEF Reorg, poll, database, history
  <2>3. ~Rewinding' /\ ~InRange' /\ pc' = "idle"
    BY <2>2 DEF Rewinding, HasDeleted, InRange
  <2>4. /\ cursor.hash # NoHash => cursor.hash <= reorgs + 1
        /\ cursor.block = 0 => cursor.hash \in {NoHash, 0}
        /\ cursor.block = 0 \/ cursor.block + LIVE_CONFIRMATIONS <= Len(chain)
        /\ cursor.hash = NoHash =>
             cursor.block = 0 \/ cursor.block + LIVE_CONFIRMATIONS < Len(chain)
        /\ head = 0 \/ head + LIVE_CONFIRMATIONS <= Len(chain)
        /\ \A b \in lost : b <= cursor.block
    BY <1>0 DEF PollInv
  <2>. QED
    BY <2>1, <2>2, <2>3, <2>4, Zenon DEF PollInv
<1>6. CASE DeleteEvents
  <2>1. /\ UNCHANGED <<chain, reorgs, cursor, head, lost>>
        /\ pc = "deleteEvents" /\ pc' = "deletePositions"
    BY <1>6 DEF DeleteEvents, environment, poll, history
  <2>. QED
    BY <1>0, <1>b, <2>1, PollInvKept DEF Rewinding, InRange
<1>7. CASE DeletePositions
  <2>1. /\ UNCHANGED <<chain, reorgs, cursor, head, lost>>
        /\ pc = "deletePositions" /\ pc' = "rebuild"
    BY <1>7 DEF DeletePositions, environment, poll, history
  <2>. QED
    BY <1>0, <1>b, <2>1, PollInvKept DEF Rewinding, HasDeleted, InRange
<1>8. CASE ReadEvents
  <2>1. /\ UNCHANGED <<chain, reorgs, cursor, head>> /\ pc = "rebuild"
        /\ Throw \/ (pc' = "insert" /\ UNCHANGED lost)
    BY <1>8 DEF ReadEvents, environment, database, history
  <2>. QED
    BY <1>0, <1>a, <1>b, <2>1, PollInvKept DEF Rewinding, HasDeleted, InRange
<1>9. CASE InsertPosition
  <2>1. /\ UNCHANGED <<chain, reorgs, cursor, head, lost>>
        /\ pc = "insert" /\ pc' \in {"insert", "moveCursor"}
    BY <1>9 DEF InsertPosition, environment, history
  <2>. QED
    BY <1>0, <1>b, <2>1, PollInvKept DEF Rewinding, HasDeleted, InRange
<1>10. CASE MoveCursor
  <2>1. cursor.block > 0 /\ cursor.block <= Len(chain)
    BY <1>10, CursorInChain DEF MoveCursor, PollInv, Rewinding, HasDeleted
  <2>2. cursor.block - 1 \in Nat /\ cursor.block - 1 <= Len(chain)
    BY <1>0, <2>1
  <2>3. HashAt(cursor.block - 1) \in Nat /\ HashAt(cursor.block - 1) <= reorgs
    BY <2>2, HashAtType
  <2>4. /\ UNCHANGED <<chain, reorgs, head>> /\ pc' = "fetch"
        /\ cursor'.block = cursor.block - 1
        /\ cursor'.hash \in {HashAt(cursor.block - 1), NoHash}
        /\ lost' = lost \ {cursor.block}
    BY <1>10 DEF MoveCursor, environment, poll
  <2>5. cursor.block + LIVE_CONFIRMATIONS <= Len(chain)
    BY <2>1 DEF PollInv
  <2>6. cursor'.block = 0 => cursor'.hash \in {NoHash, 0}
    BY <1>0, <2>4 DEF HashAt
  <2>7. /\ cursor'.block + LIVE_CONFIRMATIONS < Len(chain)
        /\ cursor'.block + LIVE_CONFIRMATIONS <= Len(chain)
        /\ cursor'.hash # NoHash => cursor'.hash <= reorgs
    BY <1>0, <2>2, <2>3, <2>4, <2>5
  <2>8. ~Rewinding' /\ ~InRange' /\ pc' # "position" /\ pc' # "anchor"
    BY <2>4 DEF Rewinding, HasDeleted, InRange
  <2>9. \A b \in lost' : b <= cursor'.block
    <3>1. \A b \in lost' : b \in Nat /\ b <= cursor.block /\ b # cursor.block
      BY <1>0, <2>4 DEF PollInv
    <3>. QED
      BY <1>0, <2>4, <3>1
  <2>. QED
    BY <2>4, <2>6, <2>7, <2>8, <2>9 DEF PollInv
<1>11. CASE FetchLogs
  <2>1. /\ UNCHANGED <<chain, reorgs, cursor, head, lost>> /\ pc' \in {"finish", "event"}
        /\ pc' = "event" => cursor.block < head
    BY <1>0, <1>11 DEF FetchLogs, FirstOfRange, environment, database, history
  <2>. QED
    BY <1>0, <2>1, PollInvKept DEF Rewinding, HasDeleted, InRange
<1>12. CASE InsertEvent
  <2>1. /\ UNCHANGED <<chain, reorgs, cursor, head, lost>> /\ pc = "event"
        /\ pc' \in {"anchor", "position", "event"}
        /\ pc' = "anchor" => logs' = {}
        /\ pc' = "position" => event' \in checkInEvents'
    BY <1>12 DEF InsertEvent, environment, history
  <2>2. cursor.block < head
    BY <2>1 DEF PollInv, InRange
  <2>. QED
    BY <1>0, <2>1, <2>2, PollInvKept DEF Rewinding, HasDeleted, InRange
<1>13. CASE WritePosition
  <2>1. /\ UNCHANGED <<chain, reorgs, cursor, head>> /\ pc = "position"
        /\ Throw \/ (pc' = "event" /\ UNCHANGED lost)
    BY <1>13 DEF WritePosition, WriteOpenPosition, ClosePosition, environment, poll, history
  <2>2. cursor.block < head
    BY <2>1 DEF PollInv, InRange
  <2>. QED
    BY <1>0, <1>a, <2>1, <2>2, PollInvKept DEF Rewinding, HasDeleted, InRange
<1>14. CASE Anchor
  <2>1. HashAt(head) \in Nat /\ HashAt(head) <= reorgs
    BY CursorInChain, HashAtType
  <2>2. cursor.block < head
    BY <1>14 DEF Anchor, PollInv, InRange
  <2>3. head # 0 /\ head + LIVE_CONFIRMATIONS <= Len(chain)
    BY <1>0, <2>2 DEF PollInv
  <2>4. /\ UNCHANGED <<chain, reorgs, head, lost>> /\ pc' = "finish"
        /\ cursor'.block = head /\ cursor'.hash = HashAt(head)
    BY <1>14 DEF Anchor, environment, poll, history
  <2>5. ~Rewinding' /\ ~InRange' /\ pc' # "position" /\ pc' # "anchor"
    BY <2>4 DEF Rewinding, HasDeleted, InRange
  <2>6. \A b \in lost' : b <= cursor'.block
    BY <1>0, <2>2, <2>4 DEF PollInv
  <2>. QED
    BY <1>0, <2>1, <2>3, <2>4, <2>5, <2>6 DEF PollInv
<1>15. CASE Finish
  <2>1. UNCHANGED <<chain, reorgs, cursor, lost>> /\ head' = 0 /\ pc' = "idle"
    BY <1>15 DEF Finish, Forget, environment, database, history
  <2>. QED
    BY <1>0, <2>1, PollInvKept DEF Rewinding, HasDeleted, InRange
<1>. QED
  BY <1>1, <1>2, <1>3, <1>4, <1>5, <1>6, <1>7, <1>8, <1>9, <1>10, <1>11, <1>12, <1>13,
     <1>14, <1>15, IngestSteps

-----------------------------------------------------------------------------
(* Before any reorg. *)

\* The next log to be ingested is one of the logs, before all the others.
LEMMA NextLog ==
  ASSUME IngestTypeOK, logs # {}
  PROVE  First(logs) \in logs /\ \A q \in logs : First(logs).block <= q.block
BY FirstRow DEF IngestTypeOK, Row

\* An event that is in the table is there at its place.
LEMMA NotNew ==
  ASSUME IngestTypeOK, PollInv, checkInEvents \subseteq RowsOf(chain),
         NEW r \in RowsOf(chain), ~IsNew(r)
  PROVE  r \in checkInEvents
<1>1. PICK q \in checkInEvents : q.event = r.event
  BY DEF IsNew
<1>. QED
  BY <1>1, ChainType, EventsOnce DEF PollInv

\* Before the first reorg the cursor's block is never found replaced.
LEMMA CalmCursor == ASSUME IngestTypeOK, PollInv, reorgs = 0 PROVE ~Orphaned
<1>1. HashAt(cursor.block) = 0
  BY CursorInChain
<1>2. cursor.hash # NoHash => cursor.hash = 0
  BY DEF IngestTypeOK, PollInv
<1>. QED
  BY <1>1, <1>2 DEF Orphaned

\* A poll that ends in a rewind of a block that is in the chain has lost its rows,
\* and no others.
LEMMA ThrowLoses ==
  ASSUME IngestTypeOK, PollInv, Throw, UNCHANGED <<chain, cursor>>
  PROVE  /\ ~InRange' /\ ~HasDeleted' /\ pc' = "idle" /\ lost \subseteq lost'
         /\ Orphaned' = Orphaned
         /\ ~HasDeleted => lost' = lost
         /\ HasDeleted /\ ~Orphaned => cursor.block \in lost'
         /\ ~torn' => ~InRange
<1>1. HasDeleted => cursor.hash # NoHash
  BY DEF PollInv, Rewinding
<1>2. Orphaned' = Orphaned
  BY DEF Orphaned, HashAt
<1>3. pc' = "idle" /\ ~InRange' /\ ~HasDeleted'
  BY DEF Throw, InRange, HasDeleted
<1>4. /\ lost \subseteq lost'
      /\ ~HasDeleted => lost' = lost
      /\ HasDeleted /\ ~Orphaned => cursor.block \in lost'
  BY <1>1 DEF Throw, Orphaned
<1>. QED
  BY <1>2, <1>3, <1>4 DEF Throw

\* What is to be shown of a step before the first reorg.
CalmNow ==
  /\ checkInEvents \subseteq RowsOf(chain)
  /\ Found(RowsUpTo(Reach)) \subseteq checkInEvents
  /\ logs \subseteq RowsOf(chain)
  /\ InRange => Found(RowsUpTo(head)) \subseteq checkInEvents \cup logs

\* A step that leaves the events, the cursor and the chain alone, outside ranges.
LEMMA CalmKept ==
  ASSUME CalmNow, UNCHANGED <<chain, cursor, checkInEvents, lost>>,
         logs' \subseteq logs, HasDeleted' = HasDeleted, ~InRange'
  PROVE  CalmNow'
BY DEF CalmNow, Found, RowsUpTo, Reach

\* A poll that ends where it is.
LEMMA CalmThrow ==
  ASSUME IngestTypeOK, PollInv, CalmNow, reorgs = 0, Throw,
         UNCHANGED <<chain, cursor, checkInEvents>>, logs' \subseteq logs
  PROVE  CalmNow'
<1>1. /\ ~InRange' /\ ~HasDeleted' /\ lost \subseteq lost'
      /\ ~HasDeleted => lost' = lost
      /\ HasDeleted => cursor.block \in lost'
  BY CalmCursor, ThrowLoses
<1>2. /\ cursor.block \in Nat /\ chain' = chain
      /\ \A r \in RowsOf(chain) : r.block \in Nat
  BY CursorInChain, RowsUpToRows
<1>3. ASSUME NEW r \in Found(RowsUpTo(Reach))' PROVE r \in checkInEvents
  <2>1. r \in RowsOf(chain) /\ r.block <= cursor.block /\ r.block \notin lost'
    BY <1>1, <1>2, <1>3 DEF Found, RowsUpTo, Reach
  <2>2. r.block <= Reach
    BY <1>1, <1>2, <2>1 DEF Reach
  <2>. QED
    BY <1>1, <2>1, <2>2 DEF CalmNow, Found, RowsUpTo
<1>. QED
  BY <1>1, <1>3 DEF CalmNow

\* Every step keeps what is said of the time before the first reorg.
LEMMA CalmStep ==
  ASSUME IngestTypeOK, PollInv, CalmInv, [IngestNext]_ingestVars
  PROVE  CalmInv'
<1>. SUFFICES ASSUME reorgs' = 0 PROVE CalmNow'
  BY DEF CalmInv, CalmNow
<1>0. /\ chain \in Seq(Block) /\ reorgs \in Nat /\ Len(chain) \in Nat
      /\ cursor.block \in Nat /\ head \in Nat
      /\ \A r \in RowsOf(chain) : r.block \in Nat
  BY ChainType, RowsUpToRows DEF IngestTypeOK
<1>a. reorgs = 0
  <2>1. reorgs' = reorgs \/ reorgs' = reorgs + 1
    BY IngestSteps DEF ingestVars, Poll, Fail, Extend, Reorg, DeleteEvents, DeletePositions,
      ReadEvents, InsertPosition, MoveCursor, FetchLogs, InsertEvent, WritePosition, Anchor,
      Finish, environment
  <2>. QED
    BY <1>0, <2>1
<1>b. CalmNow
  BY <1>a DEF CalmInv, CalmNow
<1>1. CASE UNCHANGED ingestVars
  BY <1>1, <1>b DEF ingestVars, CalmNow, InRange, RowsUpTo, Found, Reach, HasDeleted
<1>2. CASE Poll
  <2>1. /\ pc = "idle" /\ pc' \in {"deleteEvents", "fetch"}
        /\ UNCHANGED <<chain, cursor, checkInEvents, lost, logs>>
    BY <1>2 DEF Poll, environment, database, history
  <2>. QED
    BY <1>b, <2>1, CalmKept DEF InRange, HasDeleted
<1>3. CASE Fail
  <2>1. Throw /\ UNCHANGED <<chain, cursor, checkInEvents>> /\ logs' = {}
    BY <1>3 DEF Fail, Forget, environment, database
  <2>. QED
    BY <1>a, <1>b, <2>1, CalmThrow
<1>4. ASSUME NEW e \in ChainEvent, Extend(e) PROVE CalmNow'
  <2>1. /\ chain' \in Seq(Block) /\ Len(chain') >= Len(chain) /\ SameUpTo(Len(chain))
        /\ UNCHANGED <<cursor, head, pc, logs, checkInEvents, lost>>
    BY <1>0, <1>4, ExtendBlocks DEF Extend, poll, database, history
  <2>2. \A b \in Int : b <= Len(chain) => RowsUpTo(b)' = RowsUpTo(b)
    BY <1>0, <2>1, SameRows
  <2>3. \A b \in Int : RowsUpTo(b)' = {r \in RowsOf(chain') : r.block <= b}
    BY DEF RowsUpTo
  <2>4. RowsOf(chain) \subseteq RowsOf(chain')
    <3>1. RowsOf(chain) = RowsUpTo(Len(chain))
      BY <1>0, RowsAt DEF RowsUpTo
    <3>. QED
      BY <1>0, <2>2, <2>3, <3>1
  <2>5. HasDeleted' = HasDeleted /\ InRange' = InRange /\ Reach' = Reach
    BY <2>1 DEF HasDeleted, InRange, Reach
  <2>6. Reach \in Int /\ Reach <= Len(chain) /\ head \in Int /\ head <= Len(chain)
    BY <1>0, CursorInChain DEF Reach
  <2>7. /\ RowsUpTo(Reach)' = {r \in RowsOf(chain') : r.block <= Reach}
        /\ RowsUpTo(head)' = {r \in RowsOf(chain') : r.block <= head}
    BY <2>1, <2>5 DEF RowsUpTo
  <2>8. RowsUpTo(Reach)' = RowsUpTo(Reach) /\ RowsUpTo(head)' = RowsUpTo(head)
    BY <2>2, <2>3, <2>6, <2>7
  <2>9. /\ Found(RowsUpTo(Reach))' = Found(RowsUpTo(Reach))
        /\ Found(RowsUpTo(head))' = Found(RowsUpTo(head))
    BY <2>1, <2>8 DEF Found
  <2>. QED
    BY <1>b, <2>1, <2>4, <2>5, <2>9 DEF CalmNow
<1>5. ~\E d \in 1 .. MaxReorg : \E events \in [1 .. d -> ChainEvent] : Reorg(events)
  BY <1>0, <1>a DEF Reorg
<1>6. CASE DeleteEvents
  <2>1. /\ pc = "deleteEvents" /\ pc' = "deletePositions"
        /\ UNCHANGED <<chain, cursor, logs, lost>> /\ checkInEvents' = Kept(cursor.block)
    BY <1>6 DEF DeleteEvents, environment, poll, history
  <2>2. ~InRange' /\ Reach = cursor.block /\ Reach' = cursor.block - 1
    BY <2>1 DEF InRange, Reach, HasDeleted
  <2>3. ASSUME NEW r \in Found(RowsUpTo(Reach))' PROVE r \in checkInEvents'
    <3>1. r \in RowsOf(chain) /\ r.block <= cursor.block - 1 /\ r.block \notin lost
      BY <2>1, <2>2, <2>3 DEF Found, RowsUpTo
    <3>2. r.block <= cursor.block /\ r.block < cursor.block
      BY <1>0, <3>1
    <3>. QED
      BY <1>b, <2>1, <2>2, <3>1, <3>2 DEF CalmNow, Found, RowsUpTo, Kept
  <2>4. Kept(cursor.block) \subseteq checkInEvents
    BY DEF Kept
  <2>. QED
    BY <1>b, <2>1, <2>2, <2>3, <2>4 DEF CalmNow
<1>7. CASE DeletePositions
  <2>1. /\ pc = "deletePositions" /\ pc' = "rebuild"
        /\ UNCHANGED <<chain, cursor, checkInEvents, lost, logs>>
    BY <1>7 DEF DeletePositions, environment, poll, history
  <2>. QED
    BY <1>b, <2>1, CalmKept DEF InRange, HasDeleted
<1>8. CASE ReadEvents
  <2>1. /\ pc = "rebuild" /\ UNCHANGED <<chain, cursor, checkInEvents, logs>>
        /\ Throw \/ (pc' = "insert" /\ UNCHANGED lost)
    BY <1>8 DEF ReadEvents, environment, database, history
  <2>. QED
    BY <1>a, <1>b, <2>1, CalmKept, CalmThrow DEF InRange, HasDeleted
<1>9. CASE InsertPosition
  <2>1. /\ pc = "insert" /\ pc' \in {"insert", "moveCursor"}
        /\ UNCHANGED <<chain, cursor, checkInEvents, lost, logs>>
    BY <1>9 DEF InsertPosition, environment, history
  <2>. QED
    BY <1>b, <2>1, CalmKept DEF InRange, HasDeleted
<1>10. CASE MoveCursor
  <2>1. /\ pc = "moveCursor" /\ pc' = "fetch" /\ UNCHANGED <<chain, checkInEvents, logs>>
        /\ cursor'.block = cursor.block - 1 /\ lost' = lost \ {cursor.block}
    BY <1>10 DEF MoveCursor, environment, poll
  <2>2. ~InRange' /\ Reach = cursor.block - 1 /\ Reach' = cursor.block - 1
    BY <2>1 DEF InRange, Reach, HasDeleted
  <2>3. ASSUME NEW r \in Found(RowsUpTo(Reach))' PROVE r \in Found(RowsUpTo(Reach))
    <3>1. r \in RowsOf(chain) /\ r.block <= cursor.block - 1 /\ r.block \notin lost'
      BY <2>1, <2>2, <2>3 DEF Found, RowsUpTo
    <3>2. r.block \notin lost
      BY <1>0, <2>1, <3>1
    <3>. QED
      BY <2>2, <3>1, <3>2 DEF Found, RowsUpTo
  <2>. QED
    BY <1>b, <2>1, <2>2, <2>3 DEF CalmNow
<1>11. CASE FetchLogs
  <2>1. /\ UNCHANGED <<chain, cursor, head, checkInEvents, lost>> /\ pc = "fetch"
        /\ \/ pc' = "finish" /\ logs' = logs
           \/ pc' = "event" /\ logs' = {r \in RowsUpTo(head) : r.block >= cursor.block + 1}
    BY <1>11 DEF FetchLogs, FirstOfRange, environment, database, history
  <2>2. CASE pc' = "finish"
    BY <1>b, <2>1, <2>2, CalmKept DEF InRange, HasDeleted
  <2>3. CASE pc' = "event"
    <3>1. /\ logs' = {r \in RowsUpTo(head) : r.block >= cursor.block + 1}
          /\ Reach = cursor.block /\ Reach' = cursor.block
      BY <2>1, <2>3 DEF Reach, HasDeleted
    <3>2. \A r \in RowsUpTo(head) : r.block \in Nat /\ r \in RowsOf(chain)
      BY RowsUpToRows
    <3>3. \A r \in RowsUpTo(head) : r \in logs' \/ r \in RowsUpTo(Reach)
      BY <1>0, <3>1, <3>2 DEF RowsUpTo
    <3>4. Found(RowsUpTo(head))' = Found(RowsUpTo(head)) /\
          Found(RowsUpTo(Reach))' = Found(RowsUpTo(Reach))
      BY <2>1, <3>1 DEF Found, RowsUpTo
    <3>5. Found(RowsUpTo(head)) \subseteq checkInEvents \cup logs'
      BY <1>b, <3>3 DEF CalmNow, Found
    <3>. QED
      BY <1>b, <2>1, <3>1, <3>2, <3>4, <3>5 DEF CalmNow
  <2>. QED
    BY <2>1, <2>2, <2>3
<1>12. CASE InsertEvent
  <2>1. UNCHANGED <<chain, cursor, head, lost>> /\ pc = "event"
    BY <1>12 DEF InsertEvent, environment, history
  <2>2. Found(RowsUpTo(head)) \subseteq checkInEvents \cup logs
    BY <1>b, <2>1 DEF CalmNow, InRange
  <2>3. /\ Reach' = Reach
        /\ Found(RowsUpTo(Reach))' = Found(RowsUpTo(Reach))
        /\ Found(RowsUpTo(head))' = Found(RowsUpTo(head))
    <3>1. pc' \in {"event", "anchor", "position"}
      BY <1>12 DEF InsertEvent
    <3>2. Reach = cursor.block /\ Reach' = cursor.block
      BY <2>1, <3>1 DEF Reach, HasDeleted
    <3>. QED
      BY <2>1, <3>2 DEF Found, RowsUpTo
  <2>4. CASE logs = {}
    <3>1. checkInEvents' = checkInEvents /\ logs' = logs
      BY <1>12, <2>4 DEF InsertEvent
    <3>. QED
      BY <1>b, <2>1, <2>2, <2>3, <3>1 DEF CalmNow
  <2>5. CASE logs # {} /\ IsNew(First(logs))
    <3>1. checkInEvents' = checkInEvents \cup {First(logs)} /\ logs' = logs \ {First(logs)}
      BY <1>12, <2>5 DEF InsertEvent
    <3>2. First(logs) \in logs
      BY <2>5, NextLog
    <3>. QED
      BY <1>b, <2>1, <2>2, <2>3, <3>1, <3>2 DEF CalmNow
  <2>6. CASE logs # {} /\ ~IsNew(First(logs))
    <3>1. checkInEvents' = checkInEvents /\ logs' = logs \ {First(logs)}
      BY <1>12, <2>6 DEF InsertEvent
    <3>2. First(logs) \in logs
      BY <2>6, NextLog
    <3>3. First(logs) \in checkInEvents
      BY <1>b, <2>6, <3>2, NotNew DEF CalmNow
    <3>. QED
      BY <1>b, <2>1, <2>2, <2>3, <3>1, <3>3 DEF CalmNow
  <2>. QED
    BY <2>4, <2>5, <2>6
<1>13. CASE WritePosition
  <2>1. /\ UNCHANGED <<chain, cursor, head, checkInEvents, logs>> /\ pc = "position"
        /\ Throw \/ (pc' = "event" /\ UNCHANGED lost)
    BY <1>13 DEF WritePosition, WriteOpenPosition, ClosePosition, environment, poll, history
  <2>2. CASE Throw
    BY <1>a, <1>b, <2>1, <2>2, CalmThrow
  <2>3. CASE pc' = "event" /\ UNCHANGED lost
    BY <1>b, <2>1, <2>3 DEF CalmNow, InRange, RowsUpTo, Found, Reach, HasDeleted
  <2>. QED
    BY <2>1, <2>2, <2>3
<1>14. CASE Anchor
  <2>1. /\ UNCHANGED <<chain, head, checkInEvents, logs, lost>> /\ pc = "anchor"
        /\ pc' = "finish" /\ cursor'.block = head
    BY <1>14 DEF Anchor, environment, poll, history
  <2>2. Found(RowsUpTo(head)) \subseteq checkInEvents
    BY <1>b, <2>1 DEF CalmNow, InRange, PollInv
  <2>3. Reach' = head /\ ~InRange'
    BY <2>1 DEF Reach, HasDeleted, InRange
  <2>4. Found(RowsUpTo(Reach))' = Found(RowsUpTo(head))
    BY <2>1, <2>3 DEF Found, RowsUpTo
  <2>. QED
    BY <1>b, <2>1, <2>2, <2>3, <2>4 DEF CalmNow
<1>15. CASE Finish
  <2>1. /\ UNCHANGED <<chain, cursor, checkInEvents, lost>> /\ logs' = {}
        /\ pc = "finish" /\ pc' = "idle"
    BY <1>15 DEF Finish, Forget, environment, database, history
  <2>. QED
    BY <1>b, <2>1, CalmKept DEF InRange, HasDeleted
<1>. QED
  BY <1>1, <1>2, <1>3, <1>4, <1>5, <1>6, <1>7, <1>8, <1>9, <1>10, <1>11, <1>12, <1>13,
     <1>14, <1>15, IngestSteps

-----------------------------------------------------------------------------
(* After reorgs, as long as no poll failed in a range. *)

\* When nothing is lost, everything is found.
LEMMA NothingLost == ASSUME lost = {} PROVE \A rows : Found(rows) = rows
BY DEF Found

\* The events before the one whose position is being written are those of the
\* chain before it, when none is lost.
LEMMA EventsBefore ==
  ASSUME IngestTypeOK, PollInv, EventsInv, lost = {}, pc = "position"
  PROVE  /\ event \in RowsOf(chain) /\ event \in checkInEvents
         /\ checkInEvents \ {event} = {x \in RowsOf(chain) : x.block < event.block}
         /\ (checkInEvents \ {event}) \cup {event} = checkInEvents
<1>1. /\ checkInEvents = RowsUpTo(head) \ logs /\ event \in checkInEvents
      /\ \A q \in RowsUpTo(head) : q \in logs <=> q.block > event.block
  BY NothingLost DEF EventsInv, PollInv, InRange
<1>2. /\ event \in RowsOf(chain) /\ event.block <= head /\ head \in Nat
      /\ \A x \in RowsOf(chain) : x.block \in Nat
      /\ \A x, y \in RowsOf(chain) : x.block = y.block => x = y
  BY <1>1, RowsUpToRows DEF RowsUpTo, IngestTypeOK
<1>3. ASSUME NEW x \in RowsOf(chain), x.block < event.block
      PROVE  x \in checkInEvents \ {event}
  <2>1. x \in RowsUpTo(head)
    BY <1>2, <1>3 DEF RowsUpTo
  <2>2. ~(x.block > event.block) /\ x # event
    BY <1>2, <1>3
  <2>. QED
    BY <1>1, <2>1, <2>2
<1>4. ASSUME NEW x \in checkInEvents \ {event}
      PROVE  x \in RowsOf(chain) /\ x.block < event.block
  <2>1. x \in RowsUpTo(head) /\ x \in RowsOf(chain)
    BY <1>1, RowsUpToRows
  <2>2. ~(x.block > event.block) /\ x.block # event.block
    BY <1>1, <1>2, <1>4, <2>1
  <2>. QED
    BY <1>2, <2>1, <2>2
<1>. QED
  BY <1>1, <1>2, <1>3, <1>4

\* Its position is never refused then, and makes the positions those of the events.
LEMMA PositionIsWritten ==
  ASSUME IngestTypeOK, PollInv, EventsInv, PositionsInv, lost = {}, WritePosition
  PROVE  checkInPositions' = Derived(checkInEvents) /\ pc' = "event"
<1>. DEFINE rows == checkInEvents \ {event}
<1>1. pc = "position"
  BY DEF WritePosition
<1>2. /\ event \in RowsOf(chain) /\ event \in checkInEvents
      /\ rows = {x \in RowsOf(chain) : x.block < event.block}
      /\ rows \cup {event} = checkInEvents
  BY <1>1, EventsBefore
<1>3. checkInPositions = Derived(rows)
  BY <1>1 DEF PositionsInv, EventsInv, HasDeleted, InRange
<1>4. chain \in Seq(Block) /\ ValidChain(chain)
  BY ChainType DEF PollInv
<1>. HIDE DEF rows
<1>5. CASE Is(event, "CheckedIn")
  <2>. DEFINE position == [guest |-> event.event.guest, stay |-> event.event.stay,
                           amount |-> event.event.amount, in |-> event.block, out |-> 0]
  <2>1. /\ \A p \in Derived(rows) :
              p.guest = event.event.guest => p.out # 0 /\ p.stay # event.event.stay
        /\ Derived(rows \cup {event}) = Derived(rows) \cup {position}
    BY <1>2, <1>4, <1>5, DerivedCheckIn
  <2>2. ~\E p \in checkInPositions :
            p.guest = event.event.guest /\ p.stay = event.event.stay
    BY <1>3, <2>1
  <2>3. OpenPositionsOf(event.event.guest) = {}
    BY <1>3, <2>1 DEF OpenPositionsOf
  <2>4. checkInPositions' = checkInPositions \cup {position} /\ pc' = "event"
    BY <1>5, <2>2, <2>3 DEF WritePosition, WriteOpenPosition
  <2>. QED
    BY <1>2, <1>3, <2>1, <2>4
<1>6. CASE ~Is(event, "CheckedIn")
  <2>1. PICK p \in Derived(rows) :
          /\ {x \in Derived(rows) : /\ x.guest = event.event.guest /\ x.out = 0
                                    /\ x.amount = event.event.amount} = {p}
          /\ Derived(rows \cup {event}) =
               (Derived(rows) \ {p}) \cup {[p EXCEPT !.out = event.block]}
    BY <1>2, <1>4, <1>6, DerivedCheckOut
  <2>. DEFINE closing == {x \in OpenPositionsOf(event.event.guest) :
                            x.amount = event.event.amount}
  <2>2. closing = {p}
    BY <1>3, <2>1 DEF OpenPositionsOf
  <2>3. /\ checkInPositions' =
             (checkInPositions \ closing) \cup {Closed(x, event.block) : x \in closing}
        /\ pc' = "event"
    BY <1>6, <2>2 DEF WritePosition, ClosePosition
  <2>. HIDE DEF closing
  <2>4. {Closed(x, event.block) : x \in closing} = {[p EXCEPT !.out = event.block]}
    BY <2>2 DEF Closed
  <2>. QED
    BY <1>2, <1>3, <2>1, <2>2, <2>3, <2>4
<1>. QED
  BY <1>5, <1>6

\* A step that writes neither the events nor the cursor, and begins no range.
LEMMA EventsKept ==
  ASSUME EventsInv, UNCHANGED <<chain, checkInEvents, cursor, lost>>,
         HasDeleted' = HasDeleted,
         pc' \in {"fetch", "finish"} => ~Orphaned,
         ~InRange, ~InRange'
  PROVE  EventsInv'
<1>1. /\ Orphaned' = Orphaned /\ Kept(cursor.block)' = Kept(cursor.block)
      /\ RowsUpTo(cursor.block)' = RowsUpTo(cursor.block)
      /\ RowsUpTo(cursor.block - 1)' = RowsUpTo(cursor.block - 1)
      /\ Found(RowsUpTo(cursor.block))' = Found(RowsUpTo(cursor.block))
      /\ Found(RowsUpTo(cursor.block - 1))' = Found(RowsUpTo(cursor.block - 1))
  BY DEF Orphaned, HashAt, Kept, RowsUpTo, Found
<1>2. pc' # "position"
  BY DEF InRange
<1>. QED
  BY <1>1, <1>2 DEF EventsInv

\* A poll that ends where it is, outside ranges.
LEMMA EventsThrow ==
  ASSUME IngestTypeOK, PollInv, EventsInv, Throw, ~torn',
         UNCHANGED <<chain, checkInEvents, cursor>>
  PROVE  EventsInv'
<1>0. /\ cursor.block \in Nat /\ \A r \in RowsOf(chain) : r.block \in Nat
  BY CursorInChain, RowsUpToRows
<1>1. /\ ~InRange' /\ ~InRange /\ ~HasDeleted' /\ pc' = "idle" /\ lost \subseteq lost'
      /\ Orphaned' = Orphaned
      /\ ~HasDeleted => lost' = lost
      /\ HasDeleted /\ ~Orphaned => cursor.block \in lost'
  BY ThrowLoses
<1>2. /\ Kept(cursor.block)' = Kept(cursor.block)
      /\ RowsUpTo(cursor.block)' = RowsUpTo(cursor.block)
      /\ RowsUpTo(cursor.block - 1)' = RowsUpTo(cursor.block - 1)
      /\ Found(RowsUpTo(cursor.block - 1))' \subseteq Found(RowsUpTo(cursor.block - 1))
      /\ Found(RowsUpTo(cursor.block))' \subseteq Found(RowsUpTo(cursor.block))
  BY <1>1 DEF Kept, RowsUpTo, Found
<1>3. ASSUME HasDeleted, ~Orphaned
      PROVE  /\ checkInEvents \subseteq RowsUpTo(cursor.block)
             /\ Found(RowsUpTo(cursor.block))' \subseteq checkInEvents
  <2>1. /\ checkInEvents \subseteq RowsUpTo(cursor.block - 1)
        /\ Found(RowsUpTo(cursor.block - 1)) \subseteq checkInEvents
        /\ cursor.block \in lost'
    BY <1>1, <1>3 DEF EventsInv
  <2>2. RowsUpTo(cursor.block - 1) \subseteq RowsUpTo(cursor.block)
    BY <1>0 DEF RowsUpTo
  <2>3. ASSUME NEW r \in Found(RowsUpTo(cursor.block))' PROVE r \in checkInEvents
    <3>1. r \in RowsOf(chain) /\ r.block <= cursor.block /\ r.block \notin lost'
      BY <2>3 DEF Found, RowsUpTo
    <3>2. r.block <= cursor.block - 1 /\ r.block \notin lost
      BY <1>0, <1>1, <2>1, <3>1
    <3>. QED
      BY <2>1, <3>1, <3>2 DEF Found, RowsUpTo
  <2>. QED
    BY <2>1, <2>2, <2>3
<1>4. /\ Kept(cursor.block) \subseteq RowsUpTo(cursor.block - 1)
      /\ Found(RowsUpTo(cursor.block - 1)) \subseteq checkInEvents
      /\ ~HasDeleted /\ ~Orphaned =>
           /\ checkInEvents \subseteq RowsUpTo(cursor.block)
           /\ Found(RowsUpTo(cursor.block)) \subseteq checkInEvents
  BY <1>1 DEF EventsInv
<1>. QED
  BY <1>1, <1>2, <1>3, <1>4 DEF EventsInv

\* What a reorg may reach.
LEMMA ReorgReaches ==
  ASSUME IngestTypeOK, PollInv, ShallowReorgs,
         NEW d \in 1 .. MaxReorg, NEW events \in [1 .. d -> ChainEvent], Reorg(events)
  PROVE  /\ RowsUpTo(cursor.block - 1)' = RowsUpTo(cursor.block - 1)
         /\ ~Orphaned' => ~Orphaned /\ RowsUpTo(cursor.block)' = RowsUpTo(cursor.block)
<1>0. /\ Len(chain) \in Nat /\ cursor.block \in Nat /\ cursor.block <= Len(chain)
      /\ LIVE_CONFIRMATIONS \in Nat /\ MaxReorg \in Nat /\ d \in Nat /\ d <= Len(chain)
      /\ reorgs \in Nat /\ HashAt(cursor.block) \in Nat
      /\ cursor.hash \in Nat \cup {NoHash} /\ NoHash \notin Nat
  BY ChainType, CursorInChain, IngestConstants, ReorgBlocks DEF IngestTypeOK
<1>1. /\ chain' \in Seq(Block) /\ Len(chain') = Len(chain) /\ SameUpTo(Len(chain) - d)
      /\ \A b \in (Len(chain) - d + 1) .. Len(chain) : chain'[b].hash = reorgs + 1
      /\ cursor' = cursor
  BY ReorgBlocks DEF Reorg, database
<1>2. /\ \A b \in Int : b <= Len(chain) - d => RowsUpTo(b)' = RowsUpTo(b)
      /\ \A b \in Int : 0 <= b /\ b <= Len(chain) - d => HashAt(b)' = HashAt(b)
  <2>1. Len(chain) - d \in Int /\ Len(chain) - d <= Len(chain)
    BY <1>0
  <2>2. chain' \in Seq(Block) /\ Len(chain') >= Len(chain)
    BY <1>0, <1>1
  <2>3. SameUpTo(Len(chain) - d)
    BY <1>1
  <2>. QED
    BY <2>1, <2>2, <2>3, SameRows
<1>3. /\ \A b \in Int : RowsUpTo(b)' = {r \in RowsOf(chain') : r.block <= b}
      /\ RowsUpTo(cursor.block)' = {r \in RowsOf(chain') : r.block <= cursor.block}
      /\ RowsUpTo(cursor.block - 1)' = {r \in RowsOf(chain') : r.block <= cursor.block - 1}
      /\ \A b \in Int : HashAt(b)' = (IF b = 0 THEN 0 ELSE chain'[b].hash)
      /\ HashAt(cursor.block)' = (IF cursor.block = 0 THEN 0 ELSE chain'[cursor.block].hash)
  BY <1>1 DEF RowsUpTo, HashAt
<1>4. d <= LIVE_CONFIRMATIONS + 1
  BY <1>0 DEF ShallowReorgs
<1>5. cursor.block - 1 <= Len(chain) - d
  BY <1>0, <1>4 DEF PollInv
<1>6. RowsUpTo(cursor.block - 1)' = RowsUpTo(cursor.block - 1)
  <2>1. \A b \in Int : b <= Len(chain) - d =>
          {r \in RowsOf(chain') : r.block <= b} = RowsUpTo(b)
    BY <1>2, <1>3
  <2>2. cursor.block - 1 \in Int
    BY <1>0
  <2>3. {r \in RowsOf(chain') : r.block <= cursor.block - 1} = RowsUpTo(cursor.block - 1)
    BY <1>5, <2>1, <2>2
  <2>. QED
    BY <1>3, <2>3
<1>7. CASE cursor.block <= Len(chain) - d
  <2>1. /\ RowsUpTo(cursor.block)' = RowsUpTo(cursor.block)
        /\ HashAt(cursor.block)' = HashAt(cursor.block)
    BY <1>0, <1>2, <1>3, <1>7
  <2>2. Orphaned' = Orphaned
    BY <1>1, <2>1 DEF Orphaned
  <2>. QED
    BY <1>6, <2>1, <2>2
<1>8. CASE cursor.block > Len(chain) - d
  <2>1. cursor.block \in (Len(chain) - d + 1) .. Len(chain) /\ cursor.block # 0
    BY <1>0, <1>8
  <2>2. HashAt(cursor.block)' = reorgs + 1
    BY <1>1, <1>3, <2>1
  <2>3. cursor.hash # NoHash /\ cursor.hash <= reorgs
    BY <1>0, <1>4, <1>8, <2>1 DEF PollInv
  <2>4. Orphaned'
    BY <1>0, <1>1, <2>2, <2>3 DEF Orphaned
  <2>. QED
    BY <1>6, <2>4
<1>. QED
  BY <1>0, <1>7, <1>8

\* A new block changes nothing up to the cursor and the head.
LEMMA ExtendReaches ==
  ASSUME IngestTypeOK, PollInv, NEW e \in ChainEvent, Extend(e)
  PROVE  /\ RowsUpTo(cursor.block - 1)' = RowsUpTo(cursor.block - 1)
         /\ RowsUpTo(cursor.block)' = RowsUpTo(cursor.block)
         /\ RowsUpTo(head)' = RowsUpTo(head)
         /\ Orphaned' = Orphaned
<1>0. /\ Len(chain) \in Nat /\ cursor.block \in Nat /\ cursor.block <= Len(chain)
      /\ head \in Nat /\ head <= Len(chain)
  BY ChainType, CursorInChain
<1>1. /\ chain' \in Seq(Block) /\ Len(chain') >= Len(chain) /\ SameUpTo(Len(chain))
      /\ cursor' = cursor /\ head' = head
  BY <1>0, ExtendBlocks DEF Extend, database, poll
<1>2. /\ \A b \in Int : b <= Len(chain) => RowsUpTo(b)' = RowsUpTo(b)
      /\ \A b \in Int : 0 <= b /\ b <= Len(chain) => HashAt(b)' = HashAt(b)
  BY <1>0, <1>1, SameRows
<1>3. /\ \A b \in Int : RowsUpTo(b)' = {r \in RowsOf(chain') : r.block <= b}
      /\ RowsUpTo(cursor.block)' = {r \in RowsOf(chain') : r.block <= cursor.block}
      /\ RowsUpTo(head)' = {r \in RowsOf(chain') : r.block <= head}
      /\ RowsUpTo(cursor.block - 1)' = {r \in RowsOf(chain') : r.block <= cursor.block - 1}
      /\ \A b \in Int : HashAt(b)' = (IF b = 0 THEN 0 ELSE chain'[b].hash)
      /\ HashAt(cursor.block)' = (IF cursor.block = 0 THEN 0 ELSE chain'[cursor.block].hash)
  BY <1>1 DEF RowsUpTo, HashAt
<1>4. HashAt(cursor.block)' = HashAt(cursor.block)
  BY <1>0, <1>2, <1>3
<1>5. Orphaned' = Orphaned
  BY <1>1, <1>4 DEF Orphaned
<1>6. \A b \in Int : b <= Len(chain) => {r \in RowsOf(chain') : r.block <= b} = RowsUpTo(b)
  BY <1>2, <1>3
<1>7. /\ cursor.block - 1 \in Int /\ cursor.block - 1 <= Len(chain)
      /\ cursor.block \in Int /\ head \in Int
  BY <1>0
<1>8. {r \in RowsOf(chain') : r.block <= cursor.block - 1} = RowsUpTo(cursor.block - 1)
  BY <1>6, <1>7
<1>9. RowsUpTo(cursor.block - 1)' = RowsUpTo(cursor.block - 1)
  BY <1>3, <1>8
<1>10. RowsUpTo(cursor.block)' = RowsUpTo(cursor.block)
  BY <1>0, <1>3, <1>6, <1>7
<1>11. RowsUpTo(head)' = RowsUpTo(head)
  BY <1>0, <1>3, <1>6, <1>7
<1>. QED
  BY <1>5, <1>9, <1>10, <1>11

\* Every step keeps what is said of the events.
LEMMA EventsStep ==
  ASSUME IngestTypeOK, PollInv, PollInv', ShallowReorgs, ~torn', EventsInv,
         [IngestNext]_ingestVars
  PROVE  EventsInv'
<1>0. /\ chain \in Seq(Block) /\ reorgs \in Nat /\ Len(chain) \in Nat
      /\ cursor.block \in Nat /\ head \in Nat
      /\ cursor \in [block : Nat, hash : Nat \cup {NoHash}]
      /\ RowsOf(chain) \subseteq Row
      /\ \A r \in RowsOf(chain) : r.block \in Nat /\ r.block >= 1
      /\ \A q, r \in RowsOf(chain) : q.block = r.block => q = r
  BY ChainType, RowsUpToRows DEF IngestTypeOK
<1>a. /\ Kept(cursor.block) \subseteq RowsUpTo(cursor.block - 1)
      /\ Found(RowsUpTo(cursor.block - 1)) \subseteq checkInEvents
      /\ HasDeleted => checkInEvents = Kept(cursor.block)
  BY DEF EventsInv
<1>1. CASE UNCHANGED ingestVars
  <2>1. /\ Orphaned' = Orphaned /\ Kept(cursor.block)' = Kept(cursor.block)
        /\ RowsUpTo(cursor.block)' = RowsUpTo(cursor.block)
        /\ RowsUpTo(cursor.block - 1)' = RowsUpTo(cursor.block - 1)
        /\ RowsUpTo(head)' = RowsUpTo(head)
        /\ Found(RowsUpTo(cursor.block))' = Found(RowsUpTo(cursor.block))
        /\ Found(RowsUpTo(cursor.block - 1))' = Found(RowsUpTo(cursor.block - 1))
        /\ Found(RowsUpTo(head) \ logs)' = Found(RowsUpTo(head) \ logs)
        /\ HasDeleted' = HasDeleted /\ InRange' = InRange
        /\ UNCHANGED <<pc, cursor, logs, event, checkInEvents, head>>
    BY <1>1 DEF ingestVars, Orphaned, HashAt, Kept, RowsUpTo, Found, HasDeleted, InRange
  <2>. QED
    BY <2>1 DEF EventsInv
<1>2. CASE Poll
  <2>1. /\ pc = "idle" /\ pc' \in {"deleteEvents", "fetch"}
        /\ UNCHANGED <<chain, checkInEvents, cursor, lost>>
        /\ pc' = "fetch" => ~Orphaned
    BY <1>2 DEF Poll, environment, database, history, Orphaned
  <2>. QED
    BY <2>1, EventsKept DEF HasDeleted, InRange
<1>3. CASE Fail
  <2>1. Throw /\ UNCHANGED <<chain, checkInEvents, cursor>>
    BY <1>3 DEF Fail, environment, database
  <2>. QED
    BY <2>1, EventsThrow
<1>4. ASSUME NEW e \in ChainEvent, Extend(e) PROVE EventsInv'
  <2>1. UNCHANGED <<cursor, head, pc, logs, event, checkInEvents, lost>>
    BY <1>4 DEF Extend, poll, database, history
  <2>2. /\ RowsUpTo(cursor.block - 1)' = RowsUpTo(cursor.block - 1)
        /\ RowsUpTo(cursor.block)' = RowsUpTo(cursor.block)
        /\ RowsUpTo(head)' = RowsUpTo(head)
        /\ Orphaned' = Orphaned
    BY <1>4, ExtendReaches
  <2>3. /\ Kept(cursor.block)' = Kept(cursor.block)
        /\ HasDeleted' = HasDeleted /\ InRange' = InRange
        /\ Found(RowsUpTo(cursor.block))' = Found(RowsUpTo(cursor.block))
        /\ Found(RowsUpTo(cursor.block - 1))' = Found(RowsUpTo(cursor.block - 1))
        /\ Found(RowsUpTo(head) \ logs)' = Found(RowsUpTo(head) \ logs)
    BY <2>1, <2>2 DEF Kept, HasDeleted, InRange, Found
  <2>. QED
    BY <2>1, <2>2, <2>3 DEF EventsInv
<1>5. ASSUME NEW d \in 1 .. MaxReorg, NEW events \in [1 .. d -> ChainEvent], Reorg(events)
      PROVE  EventsInv'
  <2>1. UNCHANGED <<cursor, head, pc, logs, event, checkInEvents, lost>> /\ pc = "idle"
    BY <1>5 DEF Reorg, poll, database, history
  <2>2. /\ RowsUpTo(cursor.block - 1)' = RowsUpTo(cursor.block - 1)
        /\ ~Orphaned' => ~Orphaned /\ RowsUpTo(cursor.block)' = RowsUpTo(cursor.block)
    BY <1>5, ReorgReaches
  <2>3. /\ Kept(cursor.block)' = Kept(cursor.block) /\ pc' = "idle"
        /\ ~HasDeleted' /\ ~HasDeleted /\ ~InRange' /\ ~InRange
        /\ Found(RowsUpTo(cursor.block - 1))' = Found(RowsUpTo(cursor.block - 1))
        /\ ~Orphaned' => Found(RowsUpTo(cursor.block))' = Found(RowsUpTo(cursor.block))
    BY <2>1, <2>2 DEF Kept, HasDeleted, InRange, Found
  <2>. QED
    BY <2>1, <2>2, <2>3 DEF EventsInv
<1>6. CASE DeleteEvents
  <2>1. /\ pc = "deleteEvents" /\ pc' = "deletePositions" /\ UNCHANGED <<chain, cursor, lost>>
        /\ checkInEvents' = Kept(cursor.block)
    BY <1>6 DEF DeleteEvents, environment, history
  <2>2. /\ HasDeleted' /\ ~InRange' /\ pc' \notin {"fetch", "finish", "position"}
        /\ Kept(cursor.block)' = Kept(cursor.block)
        /\ RowsUpTo(cursor.block - 1)' = RowsUpTo(cursor.block - 1)
    BY <2>1 DEF HasDeleted, InRange, Kept, RowsUpTo
  <2>3. Found(RowsUpTo(cursor.block - 1))' = Found(RowsUpTo(cursor.block - 1))
    BY <2>1, <2>2 DEF Found
  <2>4. Found(RowsUpTo(cursor.block - 1)) \subseteq Kept(cursor.block)
    BY <1>0, <1>a DEF Found, Kept, RowsUpTo
  <2>. QED
    BY <1>a, <2>1, <2>2, <2>3, <2>4 DEF EventsInv
<1>7. CASE DeletePositions
  <2>1. /\ pc = "deletePositions" /\ pc' = "rebuild"
        /\ UNCHANGED <<chain, cursor, checkInEvents, lost>>
    BY <1>7 DEF DeletePositions, environment, history
  <2>. QED
    BY <2>1, EventsKept DEF HasDeleted, InRange
<1>8. CASE ReadEvents
  <2>1. /\ pc = "rebuild" /\ UNCHANGED <<chain, cursor, checkInEvents>>
        /\ Throw \/ (pc' = "insert" /\ UNCHANGED lost)
    BY <1>8 DEF ReadEvents, environment, database, history
  <2>. QED
    BY <2>1, EventsKept, EventsThrow DEF HasDeleted, InRange
<1>9. CASE InsertPosition
  <2>1. /\ pc = "insert" /\ pc' \in {"insert", "moveCursor"}
        /\ UNCHANGED <<chain, cursor, checkInEvents, lost>>
    BY <1>9 DEF InsertPosition, environment, history
  <2>. QED
    BY <2>1, EventsKept DEF HasDeleted, InRange
<1>10. CASE MoveCursor
  <2>1. /\ pc = "moveCursor" /\ pc' = "fetch" /\ UNCHANGED <<chain, checkInEvents>>
        /\ cursor'.block = cursor.block - 1
        /\ cursor'.hash \in {HashAt(cursor.block - 1), NoHash}
        /\ lost' = lost \ {cursor.block}
    BY <1>10 DEF MoveCursor, environment
  <2>2. /\ checkInEvents \subseteq RowsUpTo(cursor.block - 1)
        /\ \A r \in RowsOf(chain) :
              r.block < cursor.block /\ r.block \notin lost' => r \in checkInEvents
    <3>1. checkInEvents \subseteq RowsUpTo(cursor.block - 1)
      BY <1>a, <2>1 DEF HasDeleted
    <3>2. ASSUME NEW r \in RowsOf(chain), r.block < cursor.block, r.block \notin lost'
          PROVE  r \in checkInEvents
      <4>1. r.block <= cursor.block - 1 /\ r.block \notin lost
        BY <1>0, <2>1, <3>2
      <4>. QED
        BY <1>a, <4>1 DEF Found, RowsUpTo
    <3>. QED
      BY <3>1, <3>2
  <2>3. HashAt(cursor.block)' = HashAt(cursor.block - 1)
    BY <2>1 DEF HashAt
  <2>4. ~Orphaned' /\ ~HasDeleted' /\ ~InRange' /\ pc' # "position"
    BY <2>1, <2>3 DEF Orphaned, HasDeleted, InRange
  <2>5. checkInEvents' \subseteq RowsUpTo(cursor.block)'
    BY <2>1, <2>2 DEF RowsUpTo
  <2>6. Found(RowsUpTo(cursor.block))' \subseteq checkInEvents'
    <3>1. ASSUME NEW r \in Found(RowsUpTo(cursor.block))' PROVE r \in checkInEvents
      <4>1. r \in RowsOf(chain) /\ r.block <= cursor.block - 1 /\ r.block \notin lost'
        BY <2>1, <3>1 DEF Found, RowsUpTo
      <4>. QED
        BY <1>0, <2>2, <4>1
    <3>. QED
      BY <2>1, <3>1
  <2>7. Kept(cursor.block)' \subseteq RowsUpTo(cursor.block - 1)'
    <3>1. ASSUME NEW r \in Kept(cursor.block)' PROVE r \in RowsUpTo(cursor.block - 1)'
      <4>1. r \in checkInEvents /\ r.block < cursor.block - 1
        BY <2>1, <3>1 DEF Kept
      <4>2. r \in RowsOf(chain) /\ r.block <= cursor.block - 1 - 1
        BY <1>0, <2>2, <4>1 DEF RowsUpTo
      <4>. QED
        BY <2>1, <4>2 DEF RowsUpTo
    <3>. QED
      BY <3>1
  <2>8. Found(RowsUpTo(cursor.block - 1))' \subseteq checkInEvents'
    <3>1. Found(RowsUpTo(cursor.block - 1))' \subseteq Found(RowsUpTo(cursor.block))'
      <4>1. \A r \in RowsOf(chain) : r.block <= cursor.block - 1 - 1 => r.block <= cursor.block - 1
        BY <1>0
      <4>. QED
        BY <2>1, <4>1 DEF Found, RowsUpTo
    <3>. QED
      BY <2>6, <3>1
  <2>. QED
    BY <2>4, <2>5, <2>6, <2>7, <2>8 DEF EventsInv
<1>11. CASE FetchLogs
  <2>1. /\ UNCHANGED <<chain, checkInEvents, cursor, head, lost>> /\ pc = "fetch"
        /\ \/ pc' = "finish"
           \/ pc' = "event" /\ logs' = {r \in RowsUpTo(head) : r.block >= cursor.block + 1}
    BY <1>11 DEF FetchLogs, FirstOfRange, environment, database, history
  <2>2. ~Orphaned /\ ~InRange /\ ~HasDeleted
    BY <2>1 DEF EventsInv, InRange, HasDeleted
  <2>3. CASE pc' = "finish"
    BY <2>1, <2>2, <2>3, EventsKept DEF HasDeleted, InRange
  <2>4. CASE pc' = "event"
    <3>1. logs' = {r \in RowsUpTo(head) : r.block >= cursor.block + 1}
      BY <2>1, <2>4
    <3>2. /\ ~Orphaned' /\ Kept(cursor.block)' = Kept(cursor.block)
          /\ RowsUpTo(cursor.block - 1)' = RowsUpTo(cursor.block - 1)
          /\ Found(RowsUpTo(cursor.block - 1))' = Found(RowsUpTo(cursor.block - 1))
          /\ RowsUpTo(head)' = RowsUpTo(head)
          /\ Found(RowsUpTo(head) \ logs)' = Found(RowsUpTo(head) \ logs')
          /\ ~HasDeleted' /\ InRange' /\ pc' # "position"
      BY <2>1, <2>2, <2>4 DEF Orphaned, HashAt, Kept, RowsUpTo, Found, HasDeleted, InRange
    <3>3. /\ checkInEvents \subseteq RowsUpTo(cursor.block)
          /\ Found(RowsUpTo(cursor.block)) \subseteq checkInEvents
      BY <2>2 DEF EventsInv
    <3>4. cursor'.block < head' /\ cursor' = cursor /\ head' = head
      BY <2>1, <3>2 DEF PollInv
    <3>5. RowsUpTo(head) \ logs' = RowsUpTo(cursor.block)
      BY <1>0, <3>1, <3>4 DEF RowsUpTo
    <3>6. \A r \in logs' : r \in RowsUpTo(head) /\ r.block > cursor.block /\ r.block \in Nat
      BY <1>0, <3>1 DEF RowsUpTo
    <3>7. \A r \in logs' : \A q \in RowsUpTo(head) : q.block > r.block => q \in logs'
      BY <1>0, <3>1, <3>6 DEF RowsUpTo
    <3>. QED
      BY <1>a, <2>1, <3>2, <3>3, <3>4, <3>5, <3>6, <3>7 DEF EventsInv
  <2>. QED
    BY <2>1, <2>3, <2>4
<1>12. CASE InsertEvent
  <2>1. /\ UNCHANGED <<chain, cursor, head, lost>> /\ pc = "event"
        /\ pc' \in {"anchor", "position", "event"}
    BY <1>12 DEF InsertEvent, environment, history
  <2>2. /\ ~Orphaned /\ InRange
        /\ logs \subseteq RowsUpTo(head) /\ checkInEvents \subseteq RowsUpTo(head) \ logs
        /\ Found(RowsUpTo(head) \ logs) \subseteq checkInEvents
        /\ \A r \in logs : r.block > cursor.block
        /\ \A r \in logs : \A q \in RowsUpTo(head) : q.block > r.block => q \in logs
    BY <2>1 DEF EventsInv, InRange
  <2>3. /\ ~Orphaned' /\ RowsUpTo(head)' = RowsUpTo(head)
        /\ RowsUpTo(cursor.block - 1)' = RowsUpTo(cursor.block - 1)
        /\ Found(RowsUpTo(cursor.block - 1))' = Found(RowsUpTo(cursor.block - 1))
        /\ Found(RowsUpTo(head) \ logs)' = Found(RowsUpTo(head) \ logs')
        /\ ~HasDeleted' /\ InRange' /\ cursor' = cursor
    BY <2>1, <2>2 DEF Orphaned, HashAt, RowsUpTo, Found, HasDeleted, InRange
  <2>4. CASE logs = {}
    <3>1. checkInEvents' = checkInEvents /\ logs' = logs /\ pc' = "anchor"
      BY <1>12, <2>4 DEF InsertEvent
    <3>2. Kept(cursor.block)' = Kept(cursor.block) /\ pc' # "position"
      BY <2>1, <3>1 DEF Kept
    <3>. QED
      BY <1>a, <2>2, <2>3, <3>1, <3>2 DEF EventsInv
  <2>5. CASE logs # {}
    <3>. DEFINE f == First(logs)
    <3>1. f \in logs /\ \A q \in logs : f.block <= q.block
      BY <2>5, NextLog
    <3>2. f \in RowsOf(chain) /\ f \in RowsUpTo(head) /\ f \notin checkInEvents
      BY <2>2, <3>1, RowsUpToRows
    <3>3. IsNew(f)
      BY <2>2, <3>2, NotNew, RowsUpToRows
    <3>4. /\ logs' = logs \ {f} /\ checkInEvents' = checkInEvents \cup {f}
          /\ event' = f /\ pc' = "position"
      BY <1>12, <2>5, <3>3 DEF InsertEvent
    <3>. HIDE DEF f
    <3>5. Kept(cursor.block)' = Kept(cursor.block)
      BY <1>0, <2>1, <2>2, <3>1, <3>2, <3>4 DEF Kept
    <3>6. /\ logs' \subseteq RowsUpTo(head) /\ checkInEvents' \subseteq RowsUpTo(head) \ logs'
          /\ Found(RowsUpTo(head) \ logs') \subseteq checkInEvents'
      BY <2>2, <3>1, <3>2, <3>4 DEF Found
    <3>7. \A q \in RowsUpTo(head) : q \in RowsOf(chain) /\ q.block \in Nat
      BY <1>0, RowsUpToRows
    <3>8. \A q \in RowsUpTo(head) : q \in logs' <=> q.block > f.block
      <4>1. ASSUME NEW q \in RowsUpTo(head), q \in logs' PROVE q.block > f.block
        <5>1. q \in logs /\ q # f /\ f.block <= q.block
          BY <3>1, <3>4, <4>1
        <5>2. q.block # f.block
          BY <1>0, <3>2, <3>7, <5>1
        <5>. QED
          BY <3>2, <3>7, <5>1, <5>2
      <4>2. ASSUME NEW q \in RowsUpTo(head), q.block > f.block PROVE q \in logs'
        <5>1. q \in logs /\ q # f
          BY <2>2, <3>1, <3>2, <3>7, <4>2
        <5>. QED
          BY <3>4, <5>1
      <4>. QED
        BY <4>1, <4>2
    <3>9. \A r \in logs' : \A q \in RowsUpTo(head) : q.block > r.block => q \in logs'
      <4>1. ASSUME NEW r \in logs', NEW q \in RowsUpTo(head), q.block > r.block
            PROVE  q \in logs'
        <5>1. r \in RowsUpTo(head) /\ r.block > f.block
          BY <3>6, <3>8, <4>1
        <5>. QED
          BY <3>2, <3>7, <3>8, <4>1, <5>1
      <4>. QED
        BY <4>1
    <3>10. \A r \in logs' : r.block > cursor.block
      BY <2>2, <3>4
    <3>11. Found(RowsUpTo(cursor.block - 1)) \subseteq checkInEvents'
      BY <1>a, <3>4
    <3>12. \A q \in RowsUpTo(head)' : q \in logs' <=> q.block > event'.block
      BY <2>3, <3>4, <3>8
    <3>13. /\ Kept(cursor.block)' \subseteq RowsUpTo(cursor.block - 1)'
           /\ Found(RowsUpTo(cursor.block - 1))' \subseteq checkInEvents'
      BY <1>a, <2>3, <3>5, <3>11
    <3>14. /\ logs' \subseteq RowsUpTo(head)'
           /\ checkInEvents' \subseteq (RowsUpTo(head) \ logs)'
           /\ Found(RowsUpTo(head) \ logs)' \subseteq checkInEvents'
           /\ \A r \in logs' : r.block > cursor'.block
           /\ \A r \in logs' : \A q \in RowsUpTo(head)' : q.block > r.block => q \in logs'
      BY <2>3, <3>6, <3>9, <3>10
    <3>. QED
      BY <2>3, <3>12, <3>13, <3>14 DEF EventsInv
  <2>. QED
    BY <2>4, <2>5
<1>13. CASE WritePosition
  <2>1. /\ UNCHANGED <<chain, cursor, head, checkInEvents, logs>> /\ pc = "position"
        /\ Throw \/ (pc' = "event" /\ UNCHANGED lost)
    BY <1>13 DEF WritePosition, WriteOpenPosition, ClosePosition, environment, poll, history
  <2>2. CASE Throw
    BY <2>1, <2>2, EventsThrow
  <2>3. CASE pc' = "event" /\ UNCHANGED lost
    <3>1. /\ Orphaned' = Orphaned /\ Kept(cursor.block)' = Kept(cursor.block)
          /\ RowsUpTo(cursor.block - 1)' = RowsUpTo(cursor.block - 1)
          /\ Found(RowsUpTo(cursor.block - 1))' = Found(RowsUpTo(cursor.block - 1))
          /\ Found(RowsUpTo(head) \ logs)' = Found(RowsUpTo(head) \ logs)
          /\ RowsUpTo(head)' = RowsUpTo(head)
          /\ ~HasDeleted' /\ InRange' /\ InRange /\ pc' # "position"
      BY <2>1, <2>3 DEF Orphaned, HashAt, Kept, RowsUpTo, Found, HasDeleted, InRange
    <3>. QED
      BY <2>1, <3>1 DEF EventsInv
  <2>. QED
    BY <2>1, <2>2, <2>3
<1>14. CASE Anchor
  <2>1. /\ UNCHANGED <<chain, head, checkInEvents, logs, lost>> /\ pc = "anchor"
        /\ pc' = "finish" /\ cursor'.block = head /\ cursor'.hash = HashAt(head)
    BY <1>14 DEF Anchor, environment, poll, history
  <2>2. checkInEvents \subseteq RowsUpTo(head) /\ Found(RowsUpTo(head)) \subseteq checkInEvents
    BY <2>1 DEF EventsInv, InRange, PollInv
  <2>3. HashAt(cursor.block)' = HashAt(head)
    BY <2>1 DEF HashAt
  <2>4. ~Orphaned' /\ ~HasDeleted' /\ ~InRange' /\ pc' # "position"
    BY <2>1, <2>3 DEF Orphaned, HasDeleted, InRange
  <2>5. /\ RowsUpTo(cursor.block)' = RowsUpTo(head)
        /\ Found(RowsUpTo(cursor.block))' = Found(RowsUpTo(head))
    BY <2>1 DEF RowsUpTo, Found
  <2>6. Kept(cursor.block)' \subseteq RowsUpTo(cursor.block - 1)'
    <3>1. /\ Kept(cursor.block)' = {r \in checkInEvents : r.block < head}
          /\ RowsUpTo(cursor.block - 1)' = {r \in RowsOf(chain) : r.block <= head - 1}
      BY <2>1 DEF Kept, RowsUpTo
    <3>. QED
      BY <1>0, <2>2, <3>1 DEF RowsUpTo
  <2>7. Found(RowsUpTo(cursor.block - 1))' \subseteq Found(RowsUpTo(head))
    <3>1. \A r \in RowsOf(chain) : r.block <= head - 1 => r.block <= head
      BY <1>0
    <3>. QED
      BY <2>1, <3>1 DEF Found, RowsUpTo
  <2>. QED
    BY <2>1, <2>2, <2>4, <2>5, <2>6, <2>7 DEF EventsInv
<1>15. CASE Finish
  <2>1. pc = "finish" /\ pc' = "idle" /\ UNCHANGED <<chain, checkInEvents, cursor, lost>>
    BY <1>15 DEF Finish, environment, database, history
  <2>. QED
    BY <2>1, EventsKept DEF HasDeleted, InRange
<1>. QED
  BY <1>1, <1>2, <1>3, <1>4, <1>5, <1>6, <1>7, <1>8, <1>9, <1>10, <1>11, <1>12, <1>13,
     <1>14, <1>15, IngestSteps

\* A step outside rewind and range that writes neither table nor cursor keeps what
\* is said of the positions.
LEMMA PositionsKept ==
  ASSUME PositionsInv, UNCHANGED <<checkInEvents, checkInPositions, lost>>,
         ~HasDeleted /\ pc # "position",
         ~Orphaned' => ~Orphaned,
         pc' \notin {"deletePositions", "rebuild", "insert", "moveCursor", "position"}
  PROVE  PositionsInv'
<1>1. /\ lost = {} /\ ~Orphaned => checkInPositions = Derived(checkInEvents)
      /\ Derived(checkInEvents)' = Derived(checkInEvents)
  BY DEF PositionsInv, Derived
<1>. QED
  BY <1>1 DEF PositionsInv, HasDeleted

\* A poll that ends where it is, outside ranges.
LEMMA PositionsThrow ==
  ASSUME IngestTypeOK, PollInv, PositionsInv, Throw, ~torn',
         UNCHANGED <<chain, cursor, checkInEvents, checkInPositions>>
  PROVE  PositionsInv'
<1>1. /\ ~HasDeleted' /\ pc' = "idle" /\ ~InRange /\ Orphaned' = Orphaned
      /\ lost \subseteq lost'
      /\ HasDeleted /\ ~Orphaned => cursor.block \in lost'
  BY ThrowLoses
<1>2. Derived(checkInEvents)' = Derived(checkInEvents)
  BY DEF Derived
<1>3. lost' = {} /\ ~Orphaned => checkInPositions = Derived(checkInEvents)
  BY <1>1 DEF PositionsInv, InRange
<1>. QED
  BY <1>1, <1>2, <1>3 DEF PositionsInv

\* Every step keeps what is said of the positions.
LEMMA PositionsStep ==
  ASSUME IngestTypeOK, PollInv, ShallowReorgs, ~torn', EventsInv, PositionsInv,
         [IngestNext]_ingestVars
  PROVE  PositionsInv'
<1>1. CASE UNCHANGED ingestVars
  <2>1. /\ Orphaned' = Orphaned /\ HasDeleted' = HasDeleted
        /\ Derived(checkInEvents)' = Derived(checkInEvents)
        /\ Derived(checkInEvents \ {event})' = Derived(checkInEvents \ {event})
        /\ UNCHANGED <<pc, checkInPositions, unwritten, lost>>
    BY <1>1 DEF ingestVars, Orphaned, HashAt, HasDeleted, Derived
  <2>. QED
    BY <2>1 DEF PositionsInv
<1>2. CASE Poll
  <2>1. /\ pc = "idle" /\ pc' \in {"deleteEvents", "fetch"}
        /\ UNCHANGED <<chain, cursor, checkInEvents, checkInPositions, lost>>
    BY <1>2 DEF Poll, environment, database, history
  <2>2. Orphaned' = Orphaned
    BY <2>1 DEF Orphaned, HashAt
  <2>. QED
    BY <2>1, <2>2, PositionsKept DEF HasDeleted
<1>3. CASE Fail
  <2>1. Throw /\ UNCHANGED <<chain, cursor, checkInEvents, checkInPositions>>
    BY <1>3 DEF Fail, environment, database
  <2>. QED
    BY <2>1, PositionsThrow
<1>4. ASSUME NEW e \in ChainEvent, Extend(e) PROVE PositionsInv'
  <2>1. /\ UNCHANGED <<pc, event, unwritten, checkInEvents, checkInPositions, lost>>
        /\ Orphaned' = Orphaned
    BY <1>4, ExtendReaches DEF Extend, poll, database, history
  <2>2. /\ HasDeleted' = HasDeleted
        /\ Derived(checkInEvents)' = Derived(checkInEvents)
        /\ Derived(checkInEvents \ {event})' = Derived(checkInEvents \ {event})
    BY <2>1 DEF HasDeleted, Derived
  <2>. QED
    BY <2>1, <2>2 DEF PositionsInv
<1>5. ASSUME NEW d \in 1 .. MaxReorg, NEW events \in [1 .. d -> ChainEvent], Reorg(events)
      PROVE  PositionsInv'
  <2>1. /\ UNCHANGED <<checkInEvents, checkInPositions, lost>> /\ pc = "idle" /\ pc' = "idle"
        /\ ~Orphaned' => ~Orphaned
    BY <1>5, ReorgReaches DEF Reorg, poll, database, history
  <2>. QED
    BY <2>1, PositionsKept DEF HasDeleted
<1>6. CASE DeleteEvents
  <2>1. pc' = "deletePositions"
    BY <1>6 DEF DeleteEvents
  <2>2. HasDeleted'
    BY <2>1 DEF HasDeleted
  <2>. QED
    BY <2>1, <2>2 DEF PositionsInv
<1>7. CASE DeletePositions
  <2>1. pc' = "rebuild" /\ checkInPositions' = {}
    BY <1>7 DEF DeletePositions
  <2>2. HasDeleted'
    BY <2>1 DEF HasDeleted
  <2>. QED
    BY <2>1, <2>2 DEF PositionsInv
<1>8. CASE ReadEvents
  <2>1. /\ pc = "rebuild" /\ checkInPositions = {}
        /\ UNCHANGED <<chain, cursor, checkInEvents, checkInPositions>>
        /\ Throw \/ (pc' = "insert" /\ unwritten' = Derived(checkInEvents))
    BY <1>8 DEF ReadEvents, environment, database, PositionsInv
  <2>2. CASE Throw
    BY <2>1, <2>2, PositionsThrow
  <2>3. CASE pc' = "insert" /\ unwritten' = Derived(checkInEvents)
    <3>1. HasDeleted' /\ checkInPositions' \cup unwritten' = Derived(checkInEvents)'
      BY <2>1, <2>3 DEF Derived, HasDeleted
    <3>. QED
      BY <2>3, <3>1 DEF PositionsInv
  <2>. QED
    BY <2>1, <2>2, <2>3
<1>9. CASE InsertPosition
  <2>1. /\ pc = "insert" /\ checkInPositions \cup unwritten = Derived(checkInEvents)
        /\ checkInEvents' = checkInEvents /\ HasDeleted'
        /\ pc' \in {"insert", "moveCursor"}
    BY <1>9 DEF InsertPosition, PositionsInv, HasDeleted
  <2>2. Derived(checkInEvents)' = Derived(checkInEvents)
    BY <2>1 DEF Derived
  <2>3. CASE unwritten = {}
    <3>1. pc' = "moveCursor" /\ checkInPositions' = checkInPositions
      BY <1>9, <2>3 DEF InsertPosition
    <3>2. checkInPositions' = Derived(checkInEvents)'
      BY <2>1, <2>2, <2>3, <3>1
    <3>. QED
      BY <2>1, <3>1, <3>2 DEF PositionsInv
  <2>4. CASE unwritten # {}
    <3>1. PICK p \in unwritten : /\ checkInPositions' = checkInPositions \cup {p}
                                 /\ unwritten' = unwritten \ {p} /\ pc' = "insert"
      BY <1>9, <2>1, <2>4 DEF InsertPosition
    <3>2. checkInPositions' \cup unwritten' = Derived(checkInEvents)'
      BY <2>1, <2>2, <3>1
    <3>. QED
      BY <2>1, <3>1, <3>2 DEF PositionsInv
  <2>. QED
    BY <2>3, <2>4
<1>10. CASE MoveCursor
  <2>1. /\ pc = "moveCursor" /\ pc' = "fetch" /\ UNCHANGED <<checkInEvents, checkInPositions>>
    BY <1>10 DEF MoveCursor
  <2>2. checkInPositions' = Derived(checkInEvents)'
    BY <2>1 DEF PositionsInv, Derived
  <2>. QED
    BY <2>1, <2>2 DEF PositionsInv
<1>11. CASE FetchLogs
  <2>1. /\ pc = "fetch" /\ pc' \in {"finish", "event"}
        /\ UNCHANGED <<chain, cursor, checkInEvents, checkInPositions, lost>>
    BY <1>11 DEF FetchLogs, environment, database, history
  <2>2. Orphaned' = Orphaned
    BY <2>1 DEF Orphaned, HashAt
  <2>. QED
    BY <2>1, <2>2, PositionsKept DEF HasDeleted
<1>12. CASE InsertEvent
  <2>1. /\ UNCHANGED <<chain, cursor, head, checkInPositions, lost>> /\ pc = "event"
        /\ pc' \in {"anchor", "position", "event"}
    BY <1>12 DEF InsertEvent, environment, history
  <2>2. /\ ~Orphaned /\ checkInEvents \subseteq RowsUpTo(head) \ logs
        /\ logs \subseteq RowsUpTo(head)
    BY <2>1 DEF EventsInv, InRange
  <2>3. lost = {} => checkInPositions = Derived(checkInEvents)
    BY <2>1, <2>2 DEF PositionsInv, HasDeleted
  <2>4. CASE logs = {}
    <3>1. checkInEvents' = checkInEvents /\ pc' = "anchor"
      BY <1>12, <2>4 DEF InsertEvent
    <3>2. lost' = {} => checkInPositions' = Derived(checkInEvents)'
      BY <2>1, <2>3, <3>1 DEF Derived
    <3>. QED
      BY <3>1, <3>2 DEF PositionsInv
  <2>5. CASE logs # {}
    <3>. DEFINE f == First(logs)
    <3>1. f \in logs
      BY <2>5, NextLog
    <3>2. f \in RowsOf(chain) /\ f \notin checkInEvents
      BY <2>2, <3>1, RowsUpToRows
    <3>3. IsNew(f)
      BY <2>2, <3>2, NotNew, RowsUpToRows
    <3>4. checkInEvents' = checkInEvents \cup {f} /\ event' = f /\ pc' = "position"
      BY <1>12, <2>5, <3>3 DEF InsertEvent
    <3>. HIDE DEF f
    <3>5. checkInEvents' \ {event'} = checkInEvents
      BY <3>2, <3>4
    <3>6. Derived(checkInEvents \ {event})' = Derived(checkInEvents' \ {event'})
      BY DEF Derived
    <3>7. lost' = {} => checkInPositions' = Derived(checkInEvents \ {event})'
      BY <2>1, <2>3, <3>5, <3>6
    <3>. QED
      BY <3>4, <3>7 DEF PositionsInv
  <2>. QED
    BY <2>4, <2>5
<1>13. CASE WritePosition
  <2>1. /\ UNCHANGED <<chain, cursor, checkInEvents>> /\ pc = "position"
        /\ Throw \/ (pc' = "event" /\ UNCHANGED lost)
    BY <1>13 DEF WritePosition, WriteOpenPosition, ClosePosition, environment, history
  <2>2. pc' = "event" /\ UNCHANGED lost
    <3>1. Throw => torn'
      BY <2>1 DEF Throw, InRange
    <3>. QED
      BY <2>1, <3>1
  <2>3. lost' = {} => checkInPositions' = Derived(checkInEvents)'
    <3>1. lost = {} => checkInPositions' = Derived(checkInEvents)
      BY <1>13, PositionIsWritten
    <3>. QED
      BY <2>1, <2>2, <3>1 DEF Derived
  <2>. QED
    BY <2>2, <2>3 DEF PositionsInv
<1>14. CASE Anchor
  <2>1. /\ pc = "anchor" /\ pc' = "finish"
        /\ UNCHANGED <<checkInEvents, checkInPositions, lost>>
    BY <1>14 DEF Anchor, history
  <2>2. ~Orphaned /\ ~HasDeleted
    BY <2>1 DEF EventsInv, InRange, HasDeleted
  <2>3. lost' = {} => checkInPositions' = Derived(checkInEvents)'
    BY <2>1, <2>2 DEF PositionsInv, Derived
  <2>. QED
    BY <2>1, <2>3 DEF PositionsInv
<1>15. CASE Finish
  <2>1. /\ pc = "finish" /\ pc' = "idle"
        /\ UNCHANGED <<chain, cursor, checkInEvents, checkInPositions, lost>>
    BY <1>15 DEF Finish, environment, database, history
  <2>2. Orphaned' = Orphaned
    BY <2>1 DEF Orphaned, HashAt
  <2>. QED
    BY <2>1, <2>2, PositionsKept DEF HasDeleted
<1>. QED
  BY <1>1, <1>2, <1>3, <1>4, <1>5, <1>6, <1>7, <1>8, <1>9, <1>10, <1>11, <1>12, <1>13,
     <1>14, <1>15, IngestSteps

-----------------------------------------------------------------------------
(* The invariant, and what follows. *)

\* It holds in the initial state.
LEMMA IngestInvInit == IngestInit => IngestInv
<1>. SUFFICES ASSUME IngestInit PROVE IngestInv
  OBVIOUS
<1>1. /\ chain = << >> /\ chain \in Seq(Block) /\ reorgs = 0 /\ checkInEvents = {}
      /\ checkInPositions = {} /\ cursor.block = 0 /\ cursor.hash = NoHash
      /\ pc = "idle" /\ head = 0 /\ logs = {} /\ lost = {}
  BY EmptySeq DEF IngestInit
<1>2. Len(chain) = 0 /\ DOMAIN chain = {}
  BY <1>1
<1>3. RowsOf(chain) = {}
  BY <1>2 DEF RowsOf
<1>4. /\ \A b : RowsUpTo(b) = {} /\ Kept(0) = {} /\ Derived({}) = {} /\ Found({}) = {}
  BY <1>1, <1>3 DEF RowsUpTo, Kept, Derived, Found
<1>5. PollInv
  BY <1>1, <1>2, <1>3 DEF PollInv, ValidChain, Rewinding, HasDeleted, InRange
<1>6. CalmInv
  BY <1>1, <1>4 DEF CalmInv, InRange
<1>7. EventsInv /\ PositionsInv
  BY <1>1, <1>4 DEF EventsInv, PositionsInv, HasDeleted, InRange
<1>. QED
  BY <1>5, <1>6, <1>7, IngestInitType DEF IngestInv

\* Every step keeps it.
LEMMA IngestInvStep == IngestInv /\ [IngestNext]_ingestVars => IngestInv'
<1>. SUFFICES ASSUME IngestInv, [IngestNext]_ingestVars PROVE IngestInv'
  OBVIOUS
<1>1. IngestTypeOK /\ PollInv /\ CalmInv
  BY DEF IngestInv
<1>2. IngestTypeOK' /\ PollInv' /\ CalmInv'
  BY <1>1, IngestTypeStep, IngestPollStep, CalmStep
<1>3. ~torn' => ~torn
  BY IngestSteps DEF ingestVars, history, Poll, Fail, Extend, Reorg, DeleteEvents,
    DeletePositions, ReadEvents, InsertPosition, MoveCursor, FetchLogs, InsertEvent,
    WritePosition, WriteOpenPosition, ClosePosition, Throw, Anchor, Finish
<1>4. ASSUME ShallowReorgs, ~torn' PROVE EventsInv' /\ PositionsInv'
  <2>1. EventsInv /\ PositionsInv
    BY <1>3, <1>4 DEF IngestInv
  <2>. QED
    BY <1>1, <1>2, <1>4, <2>1, EventsStep, PositionsStep
<1>5. ShallowReorgs' = ShallowReorgs
  BY DEF ShallowReorgs
<1>. QED
  BY <1>2, <1>4, <1>5 DEF IngestInv

\* The invariant of the escrow ingest: it holds in every state.
THEOREM IngestInvariance == IngestSpec => []IngestInv
<1>1. IngestInv /\ [IngestNext]_ingestVars => IngestInv'
  BY IngestInvStep
<1>. QED
  BY <1>1, IngestInvInit, PTL DEF IngestSpec

\* The tables, the cursor and the poll keep their types, whatever fails and
\* however deep the reorgs are.
THEOREM IngestTypeCorrect == IngestSpec => []IngestTypeOK
<1>1. IngestInv => IngestTypeOK
  BY DEF IngestInv
<1>. QED
  BY <1>1, IngestInvariance, PTL

\* No check-in event is skipped: at every moment, with polls failing anywhere, all
\* events up to a cursor that is in the chain are in check_in_events, but for those of
\* blocks that a rewind deleted before it ended without moving the cursor, and unless
\* a range failed in the middle and was reorganised.  For reorgs that reach the last
\* indexed block at most.
THEOREM EventsAreNeverSkipped == ASSUME ShallowReorgs PROVE IngestSpec => []NoEventSkipped
<1>1. ASSUME IngestInv PROVE NoEventSkipped
  <2>. SUFFICES ASSUME torn => reorgs = 0, ~Orphaned, ~HasDeleted
                PROVE  Found(RowsUpTo(cursor.block)) \subseteq checkInEvents
    BY DEF NoEventSkipped, Orphaned, Found
  <2>1. CASE reorgs = 0
    BY <1>1, <2>1 DEF IngestInv, CalmInv, Reach
  <2>2. CASE ~torn
    <3>1. EventsInv /\ IngestTypeOK /\ PollInv
      BY <1>1, <2>2 DEF IngestInv
    <3>2. CASE ~InRange
      BY <3>1, <3>2 DEF EventsInv
    <3>3. CASE InRange
      <4>1. /\ Found(RowsUpTo(head) \ logs) \subseteq checkInEvents /\ cursor.block < head
            /\ \A r \in logs : r.block > cursor.block
        BY <3>1, <3>3 DEF EventsInv, PollInv
      <4>2. /\ \A r \in RowsOf(chain) : r.block \in Nat
            /\ cursor.block \in Nat /\ head \in Nat
        BY <3>1, RowsUpToRows DEF IngestTypeOK
      <4>3. RowsUpTo(cursor.block) \subseteq RowsUpTo(head) \ logs
        BY <4>1, <4>2 DEF RowsUpTo
      <4>. QED
        BY <4>1, <4>3 DEF Found
    <3>. QED
      BY <3>2, <3>3
  <2>. QED
    BY <2>1, <2>2
<1>. QED
  BY <1>1, IngestInvariance, PTL

\* Whenever a poll has run to its end, the escrow that loadEscrowsOpenAtBlock
\* reconstructs for any block up to the cursor is what the contract held at it,
\* after any number of reorgs, of failed lookups, and of polls that failed outside
\* a range and outside a rewind of a block that is in the chain.  For reorgs that
\* reach the last indexed block at most.
THEOREM SnapshotsAreExact == ASSUME ShallowReorgs PROVE IngestSpec => []SnapshotIsExact
<1>1. ASSUME IngestInv PROVE SnapshotIsExact
  <2>. SUFFICES ASSUME pc = "finish", ~torn, lost = {} PROVE EscrowIsExact
    BY DEF SnapshotIsExact
  <2>1. EventsInv /\ PositionsInv /\ IngestTypeOK /\ PollInv
    BY <1>1 DEF IngestInv
  <2>2. ~Orphaned /\ ~HasDeleted /\ ~InRange
    BY <2>1 DEF EventsInv, HasDeleted, InRange
  <2>3. checkInPositions = Derived(RowsUpTo(cursor.block))
    BY <2>1, <2>2, NothingLost DEF EventsInv, PositionsInv
  <2>4. chain \in Seq(Block) /\ ValidChain(chain) /\ cursor.block \in Nat
    BY <2>1 DEF IngestTypeOK, PollInv
  <2>5. ASSUME NEW b \in 0 .. cursor.block
        PROVE  OpenAtBlock(checkInPositions, b) = HeldAtBlock(b)
    <3>. DEFINE rows == RowsUpTo(cursor.block)
                upTo == RowsUpTo(b)
                n == cursor.block
    <3>1. /\ rows = {x \in RowsOf(chain) : x.block <= n}
          /\ upTo = {x \in RowsOf(chain) : x.block <= b}
          /\ n \in Nat /\ b \in 0 .. n
      BY <2>4 DEF RowsUpTo
    <3>2. OpenAtBlock(checkInPositions, b) = OpenAtBlock(Derived(rows), b)
      BY <2>3
    <3>3. HeldAtBlock(b) = HeldIn(upTo)
      BY Zenon DEF HeldAtBlock, HeldIn
    <3>. HIDE DEF rows, upTo, n
    <3>4. OpenAtBlock(Derived(rows), b) = HeldIn(upTo)
      BY <2>4, <3>1, DerivedEscrow
    <3>. QED
      BY <3>2, <3>3, <3>4
  <2>. QED
    BY <2>5 DEF EscrowIsExact
<1>. QED
  BY <1>1, IngestInvariance, PTL

-----------------------------------------------------------------------------
(* The API and the contract. *)

USE CheckInApiAssumption DEF ledger, contract

\* What is to be shown of a step.
IsKept == /\ TimeInv' /\ RequestInv' /\ SignedInv' /\ OnceInv'
        /\ OneAuthorizationPerChallenge' /\ StaysAreFresh'

\* Every guest of a request is a guest.
LEMMA WalletIsGuest ==
  ASSUME TypeOK, RequestInv, NEW r \in Request, request[r].pc # "idle"
  PROVE  /\ request[r].challenge \in Challenge
         /\ challenge[request[r].challenge] \in AuthNonce
         /\ Wallet(r) \in Guest
<1>1. request[r].challenge \in Challenge /\ challenge[request[r].challenge] # NULL
  BY DEF RequestInv
<1>2. challenge[request[r].challenge] \in AuthNonce
  BY <1>1 DEF TypeOK
<1>. QED
  BY <1>1, <1>2 DEF Wallet, AuthNonce

-----------------------------------------------------------------------------
(* Types. *)

LEMMA MinimumIsNat == ASSUME NEW e \in Nat PROVE CheckInMinimum(e) \in Nat
<1>. DEFINE n == e * CHECK_IN_MINIMUM_BPS + 9999
<1>1. n \in Nat
  OBVIOUS
<1>2. \A k \in Nat : k \div 10000 \in Nat
  OBVIOUS
<1>. QED
  BY <1>1, <1>2 DEF CheckInMinimum

LEMMA StageKeepsType ==
  ASSUME TypeOK, NEW r \in Request, NEW s \in Stage, Awaits(r, s) PROVE TypeOK'
  BY DEF TypeOK, Awaits

LEMMA IdleIsStage == Idle \in Stage /\ Idle.pc = "idle"
  BY DEF Idle, Stage

LEMMA DisturbKeepsStage ==
  ASSUME TypeOK, Disturb
  PROVE  /\ request' \in [Request -> Stage]
         /\ \A r \in Request :
              /\ request'[r].pc = request[r].pc
              /\ request'[r].challenge = request[r].challenge
              /\ request'[r].readAt = request[r].readAt
              /\ request'[r].consumedAt = request[r].consumedAt
<1>1. \A s \in Stage : LET d == [s EXCEPT !.quiet = FALSE] IN
        /\ d \in Stage /\ d.pc = s.pc /\ d.challenge = s.challenge
        /\ d.readAt = s.readAt /\ d.consumedAt = s.consumedAt
  BY DEF Stage
<1>2. \A r \in Request : request[r] \in Stage
  BY DEF TypeOK
<1>. QED
  BY <1>1, <1>2 DEF Disturb

-----------------------------------------------------------------------------
(* Steps that only read. *)

\* A request that goes on, or is given up, without being ready to sign.
LEMMA ReadsKeep ==
  ASSUME IInv, NEW r \in Request, NEW s \in Stage, Awaits(r, s), s.pc # "sign",
         s.pc # "idle" =>
           /\ request[r].pc # "idle"
           /\ s.challenge = request[r].challenge /\ s.readAt = request[r].readAt
  PROVE  IsKept
<1>1. request'[r] = s /\ \A q \in Request : q # r => request'[q] = request[q]
  BY DEF IInv, TypeOK, Awaits
<1>2. /\ now' = now /\ stay' = stay /\ left' = left /\ challenge' = challenge
      /\ signed' = signed
  BY DEF Awaits
<1>3. TimeInv'
  BY <1>2 DEF IInv, TimeInv
<1>4. RequestInv'
  BY <1>1, <1>2 DEF IInv, RequestInv, Stands, Wallet
<1>5. SignedInv'
  BY <1>2 DEF IInv, SignedInv, Stands
<1>6. OnceInv'
  BY <1>1, <1>2 DEF IInv, OnceInv
<1>7. OneAuthorizationPerChallenge' /\ StaysAreFresh'
  BY <1>2 DEF IInv, OneAuthorizationPerChallenge, StaysAreFresh
<1>. QED
  BY <1>3, <1>4, <1>5, <1>6, <1>7 DEF IsKept

LEMMA ReadHoldersKeeps ==
  ASSUME IInv, NEW r \in Request, ReadHolders(r) PROVE TypeOK' /\ IsKept
<1>. DEFINE s == [request[r] EXCEPT !.holders = index.holders,
                    !.quiet = IF request[r].positions = NULL THEN Synced ELSE @]
<1>1. request[r] \in Stage /\ index.holders \in Balances /\ request[r].pc = "ranking"
  BY DEF IInv, TypeOK, ReadHolders, At
<1>2. Synced \in BOOLEAN
  BY DEF Synced
<1>3. s \in Stage /\ s.pc = "ranking"
      /\ s.challenge = request[r].challenge /\ s.readAt = request[r].readAt
  BY <1>1, <1>2 DEF Stage
<1>4. Awaits(r, s)
  BY DEF ReadHolders
<1>. QED
  BY <1>1, <1>3, <1>4, ReadsKeep, StageKeepsType DEF IInv

LEMMA ReadPositionsKeeps ==
  ASSUME IInv, NEW r \in Request, ReadPositions(r) PROVE TypeOK' /\ IsKept
<1>. DEFINE s == [request[r] EXCEPT !.positions = index.positions,
                    !.quiet = IF request[r].holders = NULL THEN Synced ELSE @]
<1>1. request[r] \in Stage /\ index.positions \in Balances /\ request[r].pc = "ranking"
  BY DEF IInv, TypeOK, ReadPositions, At
<1>2. Synced \in BOOLEAN
  BY DEF Synced
<1>3. s \in Stage /\ s.pc = "ranking"
      /\ s.challenge = request[r].challenge /\ s.readAt = request[r].readAt
  BY <1>1, <1>2 DEF Stage
<1>4. Awaits(r, s)
  BY DEF ReadPositions
<1>. QED
  BY <1>1, <1>3, <1>4, ReadsKeep, StageKeepsType DEF IInv

LEMMA ReadWalletHeldKeeps ==
  ASSUME IInv, NEW r \in Request, ReadWalletHeld(r) PROVE TypeOK' /\ IsKept
<1>. DEFINE s == [request[r] EXCEPT !.pc = "escrow", !.holders = NULL,
                    !.positions = NULL, !.held = index.holders[Wallet(r)]]
<1>1. request[r] \in Stage /\ index.holders \in Balances /\ request[r].pc = "ranking"
  BY DEF IInv, TypeOK, ReadWalletHeld, At
<1>2. index.holders[Wallet(r)] \in Nat
  BY <1>1, WalletIsGuest DEF IInv, Balances
<1>3. s \in Stage /\ s.pc = "escrow"
      /\ s.challenge = request[r].challenge /\ s.readAt = request[r].readAt
  BY <1>1, <1>2 DEF Stage
<1>4. Awaits(r, s)
  BY DEF ReadWalletHeld
<1>. QED
  BY <1>1, <1>3, <1>4, ReadsKeep, StageKeepsType DEF IInv

LEMMA ReadUnwithdrawnEscrowKeeps ==
  ASSUME IInv, NEW r \in Request, ReadUnwithdrawnEscrow(r) PROVE TypeOK' /\ IsKept
<1>. DEFINE m == CheckInMinimum(request[r].held + index.positions[Wallet(r)])
            s == [request[r] EXCEPT !.pc = "consume", !.held = 0, !.min = m,
                                    !.max = request[r].held]
<1>1. /\ request[r] \in Stage /\ index.positions \in Balances
      /\ request[r].pc = "escrow"
  BY DEF IInv, TypeOK, ReadUnwithdrawnEscrow, At
<1>2. request[r].held \in Nat /\ index.positions[Wallet(r)] \in Nat
  BY <1>1, WalletIsGuest DEF IInv, Balances, Stage
<1>3. m \in Nat
  BY <1>2, MinimumIsNat
<1>. HIDE DEF m
<1>4. s \in Stage /\ s.pc = "consume"
      /\ s.challenge = request[r].challenge /\ s.readAt = request[r].readAt
  BY <1>1, <1>2, <1>3 DEF Stage
<1>5. Awaits(r, s)
  BY DEF ReadUnwithdrawnEscrow, m
<1>. QED
  BY <1>1, <1>4, <1>5, ReadsKeep, StageKeepsType DEF IInv

LEMMA RefuseKeeps == ASSUME IInv, NEW r \in Request, Refuse(r) PROVE TypeOK' /\ IsKept
<1>1. Awaits(r, Idle)
  BY DEF Refuse, Awaits
<1>. QED
  BY <1>1, IdleIsStage, ReadsKeep, StageKeepsType DEF IInv

-----------------------------------------------------------------------------
(* Steps of the index and of the token, which move under the requests. *)

LEMMA DisturbKeeps ==
  ASSUME IInv, Disturb, UNCHANGED <<now, stay, left, challenge, signed>>
  PROVE  IsKept
<1>1. \A r \in Request :
        /\ request'[r].pc = request[r].pc
        /\ request'[r].challenge = request[r].challenge
        /\ request'[r].readAt = request[r].readAt
        /\ request'[r].consumedAt = request[r].consumedAt
  BY DisturbKeepsStage DEF IInv
<1>2. TimeInv'
  BY DEF IInv, TimeInv
<1>3. RequestInv'
  BY <1>1 DEF IInv, RequestInv, Stands, Wallet
<1>4. SignedInv'
  BY DEF IInv, SignedInv, Stands
<1>5. OnceInv'
  BY <1>1 DEF IInv, OnceInv
<1>6. OneAuthorizationPerChallenge' /\ StaysAreFresh'
  BY DEF IInv, OneAuthorizationPerChallenge, StaysAreFresh
<1>. QED
  BY <1>2, <1>3, <1>4, <1>5, <1>6 DEF IsKept

LEMMA TransferKeeps ==
  ASSUME IInv, NEW g \in Guest, NEW h \in Guest, NEW n \in Nat, Transfer(g, h, n)
  PROVE  TypeOK' /\ IsKept
<1>1. balance' \in Balances
  <2>1. balance[g] \in Nat /\ balance[h] \in Nat /\ balance[g] - n \in Nat
    BY DEF IInv, TypeOK, Balances, Transfer
  <2>. QED
    BY <2>1 DEF IInv, TypeOK, Balances, Transfer
<1>2. transfers' \in 0 .. MaxTransfers
  BY DEF IInv, TypeOK, Transfer
<1>3. request' \in [Request -> Stage]
  BY DisturbKeepsStage DEF IInv, Transfer
<1>4. TypeOK'
  BY <1>1, <1>2, <1>3 DEF IInv, TypeOK, Transfer
<1>. QED
  BY <1>4, DisturbKeeps DEF Transfer

LEMMA IndexHoldersKeeps == ASSUME IInv, IndexHolders PROVE TypeOK' /\ IsKept
<1>1. Escrow \in Balances
  BY DEF IInv, TypeOK, Escrow, Balances, Stay
<1>2. index' \in [holders : Balances, positions : Balances, range : Balances \cup {NULL}]
  BY <1>1 DEF IInv, TypeOK, IndexHolders
<1>3. request' \in [Request -> Stage]
  BY DisturbKeepsStage DEF IInv, IndexHolders
<1>4. TypeOK'
  BY <1>2, <1>3 DEF IInv, TypeOK, IndexHolders
<1>. QED
  BY <1>4, DisturbKeeps DEF IndexHolders

LEMMA IndexCheckInRangeKeeps == ASSUME IInv, IndexCheckInRange PROVE TypeOK' /\ IsKept
<1>1. index' \in [holders : Balances, positions : Balances, range : Balances \cup {NULL}]
  BY DEF IInv, TypeOK, IndexCheckInRange
<1>2. request' \in [Request -> Stage]
  BY DisturbKeepsStage DEF IInv, IndexCheckInRange
<1>3. TypeOK'
  BY <1>1, <1>2 DEF IInv, TypeOK, IndexCheckInRange
<1>. QED
  BY <1>3, DisturbKeeps DEF IndexCheckInRange

-----------------------------------------------------------------------------
(* The steps the properties are about. *)

LEMMA IssueChallengeKeeps ==
  ASSUME IInv, NEW c \in Challenge, NEW g \in Guest, IssueChallenge(c, g)
  PROVE  TypeOK' /\ IsKept
<1>. DEFINE n == [wallet |-> g, expires |-> now + CHECK_IN_CHALLENGE_TTL,
                  consumed |-> FALSE]
<1>1. now \in Nat
  BY DEF IInv, TypeOK
<1>2. n \in AuthNonce /\ n.expires = now + CHECK_IN_CHALLENGE_TTL
  BY <1>1 DEF AuthNonce
<1>3. /\ challenge[c] = NULL /\ challenge'[c] = n
      /\ \A d \in Challenge : d # c => challenge'[d] = challenge[d]
      /\ challenge' \in [Challenge -> AuthNonce \cup {NULL}]
  BY <1>2 DEF IInv, TypeOK, IssueChallenge, NewAuthNonce
<1>4. /\ now' = now /\ stay' = stay /\ left' = left /\ request' = request
      /\ signed' = signed
  BY DEF IssueChallenge, NewAuthNonce
<1>5. TypeOK'
  BY <1>3 DEF IInv, TypeOK, IssueChallenge, NewAuthNonce
<1>6. TimeInv'
  <2>1. challenge'[c].expires <= now' + CHECK_IN_CHALLENGE_TTL
    <3>1. n.expires <= now + CHECK_IN_CHALLENGE_TTL
      BY <1>1, <1>2
    <3>. QED
      BY <3>1, <1>3, <1>4
  <2>2. \A d \in Challenge : d # c => challenge'[d] = challenge[d]
    BY <1>3
  <2>. QED
    BY <2>1, <2>2, <1>4 DEF IInv, TimeInv
<1>7. RequestInv'
  BY <1>3, <1>4 DEF IInv, RequestInv, Stands, Wallet
<1>8. SignedInv'
  <2>1. \A a \in signed : a.challenge \in Challenge
    BY DEF IInv, TypeOK, Authorization
  <2>. QED
    BY <2>1, <1>3, <1>4 DEF IInv, SignedInv, Stands
<1>9. OnceInv' /\ OneAuthorizationPerChallenge' /\ StaysAreFresh'
  BY <1>4 DEF IInv, OnceInv, OneAuthorizationPerChallenge, StaysAreFresh
<1>. QED
  BY <1>5, <1>6, <1>7, <1>8, <1>9 DEF IsKept

\* What a request reads now stands now, and its challenge ends soon.
LEMMA AuthorizeKeeps ==
  ASSUME IInv, NEW r \in Request, NEW c \in Challenge, Authorize(r, c)
  PROVE  TypeOK' /\ IsKept
<1>. DEFINE s == [Idle EXCEPT !.pc = "ranking", !.challenge = c, !.readAt = now]
<1>1. now \in Nat /\ challenge[c] \in AuthNonce /\ challenge[c] # NULL
  BY DEF IInv, TypeOK, Authorize, MessageMatches, HasUnwithdrawnStay
<1>2. s \in Stage /\ s.pc = "ranking" /\ s.challenge = c /\ s.readAt = now
  BY <1>1 DEF Idle, Stage
<1>3. Awaits(r, s)
  BY DEF Authorize, MessageMatches, HasUnwithdrawnStay
<1>4. TypeOK'
  BY <1>2, <1>3, StageKeepsType DEF IInv
<1>. HIDE DEF s
<1>5. request'[r] = s /\ \A q \in Request : q # r => request'[q] = request[q]
  BY <1>3 DEF IInv, TypeOK, Awaits
<1>6. /\ now' = now /\ stay' = stay /\ left' = left /\ challenge' = challenge
      /\ signed' = signed
  BY <1>3 DEF Awaits
<1>7. challenge[c].expires <= now + CHECK_IN_CHALLENGE_TTL
  BY <1>1 DEF IInv, TimeInv
<1>8. challenge[c].wallet \in Guest /\ stay[challenge[c].wallet].amount = 0
  BY <1>1 DEF AuthNonce, Authorize, MessageMatches, HasUnwithdrawnStay
<1>9. Stands(now, challenge[c].wallet)
  <2>1. now <= now
    BY <1>1
  <2>2. left[challenge[c].wallet] <= now
    BY <1>8 DEF IInv, TimeInv
  <2>. QED
    BY <1>8, <2>1, <2>2 DEF Stands
<1>10. TimeInv' /\ SignedInv'
  BY <1>6 DEF IInv, TimeInv, SignedInv, Stands
<1>11. RequestInv'
  <2>. SUFFICES ASSUME NEW q \in Request, request'[q].pc # "idle"
                PROVE  (/\ request[q].challenge \in Challenge
                        /\ challenge[request[q].challenge] # NULL
                        /\ Stands(request[q].readAt, Wallet(q))
                        /\ challenge[request[q].challenge].expires <=
                             request[q].readAt + CHECK_IN_CHALLENGE_TTL
                        /\ request[q].pc = "sign" =>
                             /\ challenge[request[q].challenge].consumed
                             /\ request[q].consumedAt <=
                                  request[q].readAt + CHECK_IN_CHALLENGE_TTL)'
    BY DEF RequestInv
  <2>1. CASE q = r
    BY <2>1, <1>1, <1>2, <1>5, <1>6, <1>7, <1>9 DEF Stands, Wallet
  <2>2. CASE q # r
    BY <2>2, <1>5, <1>6 DEF IInv, RequestInv, Stands, Wallet
  <2>. QED
    BY <2>1, <2>2
<1>12. OnceInv' /\ OneAuthorizationPerChallenge' /\ StaysAreFresh'
  BY <1>2, <1>5, <1>6 DEF IInv, OnceInv, OneAuthorizationPerChallenge, StaysAreFresh
<1>. QED
  BY <1>4, <1>10, <1>11, <1>12 DEF IsKept

\* The UPDATE takes a challenge once, and before it ends.
LEMMA ConsumeAuthNonceKeeps ==
  ASSUME IInv, NEW r \in Request, ConsumeAuthNonce(r) PROVE TypeOK' /\ IsKept
<1>. DEFINE c == request[r].challenge
            s == [request[r] EXCEPT !.pc = "sign", !.consumedAt = now]
            n == [challenge[c] EXCEPT !.consumed = TRUE]
<1>1. now \in Nat /\ request[r] \in Stage /\ request[r].pc = "consume"
  BY DEF IInv, TypeOK, ConsumeAuthNonce, At
<1>2. c \in Challenge /\ challenge[c] \in AuthNonce /\ challenge[c] # NULL
  BY <1>1, WalletIsGuest DEF IInv, RequestInv
<1>3. /\ s \in Stage /\ s.pc = "sign" /\ s.challenge = c /\ s.consumedAt = now
      /\ s.readAt = request[r].readAt
  BY <1>1 DEF Stage
<1>4. /\ n \in AuthNonce /\ n.consumed = TRUE /\ n.wallet = challenge[c].wallet
      /\ n.expires = challenge[c].expires
  BY <1>2 DEF AuthNonce
<1>5. challenge[c].consumed = FALSE /\ challenge[c].expires > now
  BY <1>2 DEF ConsumeAuthNonce, Consumable, AuthNonce
<1>6. request' = [request EXCEPT ![r] = s]
  BY DEF ConsumeAuthNonce
<1>7. challenge' = [challenge EXCEPT ![c] = n]
  BY DEF ConsumeAuthNonce
<1>8. /\ now' = now /\ stay' = stay /\ left' = left /\ signed' = signed
  BY DEF ConsumeAuthNonce
<1>9. TypeOK'
  <2>1. request' \in [Request -> Stage]
    BY <1>3, <1>6 DEF IInv, TypeOK
  <2>2. challenge' \in [Challenge -> AuthNonce \cup {NULL}]
    BY <1>2, <1>4, <1>7 DEF IInv, TypeOK
  <2>. QED
    BY <2>1, <2>2 DEF IInv, TypeOK, ConsumeAuthNonce
<1>. HIDE DEF s, n
<1>10. request'[r] = s /\ \A q \in Request : q # r => request'[q] = request[q]
  BY <1>6 DEF IInv, TypeOK
<1>11. challenge'[c] = n /\ \A d \in Challenge : d # c => challenge'[d] = challenge[d]
  BY <1>2, <1>7 DEF IInv, TypeOK
\* A row that was consumed is another one; one that is there stays there.
<1>12. \A d \in Challenge : challenge[d] # NULL =>
         /\ challenge'[d] # NULL
         /\ challenge'[d].wallet = challenge[d].wallet
         /\ challenge'[d].expires = challenge[d].expires
         /\ challenge[d].consumed => challenge'[d].consumed
  <2>1. n # NULL
    BY <1>4 DEF AuthNonce
  <2>. QED
    BY <2>1, <1>4, <1>11
<1>13. TimeInv'
  BY <1>8, <1>11, <1>12, <1>2, <1>4 DEF IInv, TimeInv
<1>14. RequestInv'
  <2>1. Stands(request[r].readAt, Wallet(r)) /\
        challenge[c].expires <= request[r].readAt + CHECK_IN_CHALLENGE_TTL
    BY <1>1 DEF IInv, RequestInv
  <2>2. now <= request[r].readAt + CHECK_IN_CHALLENGE_TTL
    <3>1. request[r].readAt \in Nat /\ challenge[c].expires \in Nat
      BY <1>1, <1>2 DEF Stage, AuthNonce
    <3>. QED
      BY <1>1, <1>5, <2>1, <3>1
  <2>. SUFFICES ASSUME NEW q \in Request, request'[q].pc # "idle"
                PROVE  (/\ request[q].challenge \in Challenge
                        /\ challenge[request[q].challenge] # NULL
                        /\ Stands(request[q].readAt, Wallet(q))
                        /\ challenge[request[q].challenge].expires <=
                             request[q].readAt + CHECK_IN_CHALLENGE_TTL
                        /\ request[q].pc = "sign" =>
                             /\ challenge[request[q].challenge].consumed
                             /\ request[q].consumedAt <=
                                  request[q].readAt + CHECK_IN_CHALLENGE_TTL)'
    BY DEF RequestInv
  <2>3. CASE q = r
    BY <2>1, <2>2, <2>3, <1>2, <1>3, <1>4, <1>8, <1>10, <1>11, <1>12 DEF Stands, Wallet
  <2>4. CASE q # r
    BY <2>4, <1>8, <1>10, <1>12 DEF IInv, RequestInv, Stands, Wallet
  <2>. QED
    BY <2>3, <2>4
<1>15. SignedInv'
  <2>1. \A a \in signed : a.challenge \in Challenge
    BY DEF IInv, TypeOK, Authorization
  <2>. QED
    BY <2>1, <1>8, <1>12 DEF IInv, SignedInv, Stands
<1>16. OnceInv'
  <2>1. \A a \in signed : a.challenge # c
    BY <1>5 DEF IInv, SignedInv
  <2>2. \A q \in Request \ {r} : request[q].pc = "sign" => request[q].challenge # c
    BY <1>5 DEF IInv, RequestInv
  <2>. QED
    BY <2>1, <2>2, <1>3, <1>8, <1>10 DEF IInv, OnceInv
<1>17. OneAuthorizationPerChallenge' /\ StaysAreFresh'
  BY <1>8 DEF IInv, OneAuthorizationPerChallenge, StaysAreFresh
<1>. QED
  BY <1>9, <1>13, <1>14, <1>15, <1>16, <1>17 DEF IsKept

\* The deadline of what is signed comes before a stay begun since can end.
LEMMA SignKeeps == ASSUME IInv, NEW r \in Request, Sign(r) PROVE TypeOK' /\ IsKept
<1>. DEFINE c == request[r].challenge
            a == [guest |-> Wallet(r), min |-> request[r].min, max |-> request[r].max,
                  deadline |-> now + CHECK_IN_AUTH_VALIDITY, nonce |-> NextNonce,
                  challenge |-> c, readAt |-> request[r].readAt,
                  deserved |-> request[r].quiet => Deserved(r)]
<1>1. /\ now \in Nat /\ request[r] \in Stage /\ request[r].pc = "sign"
      /\ now <= request[r].consumedAt + MaxAnswer
  BY DEF IInv, TypeOK, Sign, SignCheckInAuthorization, At
<1>2. c \in Challenge /\ Wallet(r) \in Guest
  BY <1>1, WalletIsGuest DEF IInv
<1>3. /\ request[r].min \in Nat /\ request[r].max \in Nat /\ request[r].readAt \in Nat
      /\ request[r].consumedAt \in Nat
  BY <1>1 DEF Stage
<1>4. NextNonce \in Nat
  BY FS_CardinalityType DEF IInv, TypeOK, NextNonce
<1>5. (request[r].quiet => Deserved(r)) \in BOOLEAN
  OBVIOUS
<1>6. a \in Authorization
  BY <1>1, <1>2, <1>3, <1>4, <1>5 DEF Authorization
<1>7. signed' = signed \cup {a} /\ request' = [request EXCEPT ![r] = Idle]
  BY DEF Sign, SignCheckInAuthorization
<1>8. /\ now' = now /\ stay' = stay /\ left' = left /\ challenge' = challenge
  BY DEF Sign, SignCheckInAuthorization
<1>9. IsFiniteSet(signed')
  BY <1>7, FS_AddElement DEF IInv, TypeOK
<1>10. TypeOK'
  BY <1>6, <1>7, <1>9, IdleIsStage DEF IInv, TypeOK, Sign, SignCheckInAuthorization
<1>11. /\ a.guest = Wallet(r) /\ a.challenge = c /\ a.readAt = request[r].readAt
       /\ a.deadline = now + CHECK_IN_AUTH_VALIDITY
  OBVIOUS
<1>. HIDE DEF a
<1>12. request'[r].pc = "idle" /\ \A q \in Request : q # r => request'[q] = request[q]
  BY <1>7, IdleIsStage DEF IInv, TypeOK
<1>13. TimeInv'
  BY <1>8 DEF IInv, TimeInv
<1>14. RequestInv'
  BY <1>8, <1>12 DEF IInv, RequestInv, Stands, Wallet
<1>15. /\ challenge[c] # NULL /\ challenge[c].consumed
       /\ Stands(request[r].readAt, Wallet(r))
       /\ request[r].consumedAt <= request[r].readAt + CHECK_IN_CHALLENGE_TTL
  BY <1>1 DEF IInv, RequestInv
<1>16. a.deadline <= a.readAt + CHECK_IN_CHALLENGE_TTL + MaxAnswer + CHECK_IN_AUTH_VALIDITY
  BY <1>1, <1>3, <1>11, <1>15
<1>17. SignedInv'
  BY <1>7, <1>8, <1>11, <1>15, <1>16 DEF IInv, SignedInv, Stands
<1>18. (\A b \in signed : b.challenge # c)
       /\ \A q \in Request \ {r} : request[q].pc = "sign" => request[q].challenge # c
  BY <1>1 DEF IInv, OnceInv
<1>19. OnceInv'
  BY <1>7, <1>11, <1>12, <1>18 DEF IInv, OnceInv
<1>20. OneAuthorizationPerChallenge'
  BY <1>7, <1>11, <1>18 DEF IInv, OneAuthorizationPerChallenge
<1>21. StaysAreFresh'
  BY <1>8 DEF IInv, StaysAreFresh
<1>. QED
  BY <1>10, <1>13, <1>14, <1>17, <1>19, <1>20, <1>21 DEF IsKept

\* A stay that begins was asked for after the one before it ended: had one ended
\* since, the deadline would be over.
LEMMA CheckInKeeps ==
  ASSUME IInv, NEW a \in signed, NEW n \in Nat, CheckIn(a, n) PROVE TypeOK' /\ IsKept
<1>. DEFINE g == a.guest
            s == [amount |-> n, unlock |-> now + CHECK_IN_DURATION, askedAt |-> a.readAt]
<1>1. /\ now \in Nat /\ a \in Authorization
  BY DEF IInv, TypeOK
<1>2. g \in Guest /\ a.nonce \in Nat /\ a.readAt \in Nat /\ a.deadline \in Nat
  BY <1>1 DEF Authorization
<1>3. left[g] \in Nat
  BY <1>2 DEF IInv, TypeOK
<1>4. /\ stay[g].amount = 0 /\ now <= a.deadline /\ n <= balance[g]
  BY DEF CheckIn, Accepts, SafeTransferFrom
<1>5. /\ stay' = [stay EXCEPT ![g] = s] /\ s \in Stay
      /\ s.amount = n /\ s.unlock = now + CHECK_IN_DURATION /\ s.askedAt = a.readAt
  BY <1>1, <1>2 DEF CheckIn, Stay
<1>6. /\ now' = now /\ left' = left /\ challenge' = challenge /\ signed' = signed
      /\ Disturb
  BY DEF CheckIn
<1>7. balance' \in Balances
  <2>1. balance[g] \in Nat
    BY <1>2 DEF IInv, TypeOK, Balances
  <2>2. balance[g] - n \in Nat
    <3>. DEFINE b == balance[g]
    <3>1. b \in Nat /\ n <= b
      BY <2>1, <1>4
    <3>. HIDE DEF b
    <3>2. b - n \in Nat
      BY <3>1
    <3>. QED
      BY <3>2 DEF b
  <2>. QED
    BY <2>1, <2>2 DEF IInv, TypeOK, Balances, CheckIn
<1>8. TypeOK'
  BY <1>2, <1>5, <1>7, <1>6, DisturbKeepsStage DEF IInv, TypeOK, CheckIn
<1>. HIDE DEF s
<1>9. stay'[g] = s /\ \A h \in Guest : h # g => stay'[h] = stay[h]
  BY <1>5, <1>2 DEF IInv, TypeOK
<1>10. ASSUME NEW t \in Nat, NEW h \in Guest, Stands(t, h) PROVE Stands(t, h)'
  <2>1. CASE h = g
    <3>1. t <= now
      BY <1>10 DEF Stands
    <3>2. s.unlock >= t + CHECK_IN_DURATION
      BY <3>1, <1>1, <1>5
    <3>. QED
      BY <2>1, <3>2, <1>6, <1>9, <1>10 DEF Stands
  <2>2. CASE h # g
    BY <2>2, <1>6, <1>9, <1>10 DEF Stands
  <2>. QED
    BY <2>1, <2>2
<1>11. \A q \in Request :
         /\ request'[q].pc = request[q].pc
         /\ request'[q].challenge = request[q].challenge
         /\ request'[q].readAt = request[q].readAt
         /\ request'[q].consumedAt = request[q].consumedAt
  BY <1>6, DisturbKeepsStage DEF IInv
<1>12. \A q \in Request : request[q].readAt \in Nat
  BY DEF IInv, TypeOK, Stage
<1>13. TimeInv'
  BY <1>6 DEF IInv, TimeInv
<1>14. RequestInv'
  <2>1. \A q \in Request : request[q].pc # "idle" =>
          Wallet(q) \in Guest /\ Wallet(q)' = Wallet(q)
    BY <1>6, <1>11, WalletIsGuest DEF IInv, Wallet
  <2>2. \A q \in Request : request[q].pc # "idle" =>
          Stands(request[q].readAt, Wallet(q))'
    BY <2>1, <1>10, <1>11, <1>12 DEF IInv, RequestInv, Stands
  <2>. QED
    BY <2>2, <1>6, <1>11 DEF IInv, RequestInv
<1>15. SignedInv'
  <2>1. \A b \in signed : b.readAt \in Nat /\ b.guest \in Guest
    BY DEF IInv, TypeOK, Authorization
  <2>2. \A b \in signed : Stands(b.readAt, b.guest)'
    BY <2>1, <1>10 DEF IInv, SignedInv
  <2>. QED
    BY <2>2, <1>6 DEF IInv, SignedInv
<1>16. OnceInv' /\ OneAuthorizationPerChallenge'
  BY <1>6, <1>11 DEF IInv, OnceInv, OneAuthorizationPerChallenge
<1>17. StaysAreFresh'
  <2>1. /\ Stands(a.readAt, g)
        /\ a.deadline <= a.readAt + CHECK_IN_CHALLENGE_TTL + MaxAnswer
                           + CHECK_IN_AUTH_VALIDITY
    BY DEF IInv, SignedInv
  <2>2. left[g] <= now
    BY <1>2 DEF IInv, TimeInv
  <2>3. left[g] <= a.readAt \/ left[g] >= a.readAt + CHECK_IN_DURATION
    BY <2>1 DEF Stands
  <2>4. s.askedAt >= left[g]
    BY <2>1, <2>2, <2>3, <1>1, <1>2, <1>3, <1>4, <1>5
  <2>. QED
    BY <2>4, <1>6, <1>9 DEF IInv, StaysAreFresh
<1>. QED
  BY <1>8, <1>13, <1>14, <1>15, <1>16, <1>17 DEF IsKept

\* A stay that ends has taken CHECK_IN_DURATION since whatever was read before it.
LEMMA CheckOutKeeps ==
  ASSUME IInv, NEW g \in Guest, CheckOut(g) PROVE TypeOK' /\ IsKept
<1>1. now \in Nat /\ stay[g] \in Stay /\ NoStay \in Stay /\ NoStay.amount = 0
  BY DEF IInv, TypeOK, Stay, NoStay
<1>2. stay[g].amount \in Nat /\ stay[g].unlock \in Nat
  BY <1>1 DEF Stay
<1>3. stay[g].amount # 0 /\ now >= stay[g].unlock
  BY DEF CheckOut
<1>4. /\ stay' = [stay EXCEPT ![g] = NoStay] /\ left' = [left EXCEPT ![g] = now]
      /\ now' = now /\ challenge' = challenge /\ signed' = signed /\ Disturb
  BY DEF CheckOut
<1>5. balance' \in Balances
  <2>1. balance[g] + stay[g].amount \in Nat
    <3>. DEFINE b == balance[g]
                n == stay[g].amount
    <3>1. b \in Nat /\ n \in Nat
      BY <1>2 DEF IInv, TypeOK, Balances
    <3>. HIDE DEF b, n
    <3>2. b + n \in Nat
      BY <3>1
    <3>. QED
      BY <3>2 DEF b, n
  <2>. QED
    BY <2>1 DEF IInv, TypeOK, Balances, CheckOut
<1>6. TypeOK'
  BY <1>1, <1>4, <1>5, DisturbKeepsStage DEF IInv, TypeOK, CheckOut
<1>7. /\ stay'[g] = NoStay /\ left'[g] = now
      /\ \A h \in Guest : h # g => stay'[h] = stay[h] /\ left'[h] = left[h]
  BY <1>4 DEF IInv, TypeOK
<1>8. ASSUME NEW t \in Nat, NEW h \in Guest, Stands(t, h) PROVE Stands(t, h)'
  <2>1. CASE h = g
    <3>1. t <= now /\ stay[g].unlock >= t + CHECK_IN_DURATION
      BY <1>3, <1>8, <2>1 DEF Stands
    <3>2. now >= t + CHECK_IN_DURATION
      BY <3>1, <1>1, <1>2, <1>3
    <3>. QED
      BY <2>1, <3>1, <3>2, <1>1, <1>4, <1>7 DEF Stands
  <2>2. CASE h # g
    BY <2>2, <1>4, <1>7, <1>8 DEF Stands
  <2>. QED
    BY <2>1, <2>2
<1>9. \A q \in Request :
        /\ request'[q].pc = request[q].pc
        /\ request'[q].challenge = request[q].challenge
        /\ request'[q].readAt = request[q].readAt
        /\ request'[q].consumedAt = request[q].consumedAt
  BY <1>4, DisturbKeepsStage DEF IInv
<1>10. \A q \in Request : request[q].readAt \in Nat
  BY DEF IInv, TypeOK, Stage
<1>11. TimeInv'
  <2>1. now <= now
    BY <1>1
  <2>. QED
    BY <2>1, <1>4, <1>7 DEF IInv, TimeInv
<1>12. RequestInv'
  <2>1. \A q \in Request : request[q].pc # "idle" =>
          Wallet(q) \in Guest /\ Wallet(q)' = Wallet(q)
    BY <1>4, <1>9, WalletIsGuest DEF IInv, Wallet
  <2>2. \A q \in Request : request[q].pc # "idle" =>
          Stands(request[q].readAt, Wallet(q))'
    BY <2>1, <1>8, <1>9, <1>10 DEF IInv, RequestInv, Stands
  <2>. QED
    BY <2>2, <1>4, <1>9 DEF IInv, RequestInv
<1>13. SignedInv'
  <2>1. \A b \in signed : b.readAt \in Nat /\ b.guest \in Guest
    BY DEF IInv, TypeOK, Authorization
  <2>2. \A b \in signed : Stands(b.readAt, b.guest)'
    BY <2>1, <1>8 DEF IInv, SignedInv
  <2>. QED
    BY <2>2, <1>4 DEF IInv, SignedInv
<1>14. OnceInv' /\ OneAuthorizationPerChallenge'
  BY <1>4, <1>9 DEF IInv, OnceInv, OneAuthorizationPerChallenge
<1>15. StaysAreFresh'
  BY <1>1, <1>7 DEF IInv, StaysAreFresh
<1>. QED
  BY <1>6, <1>11, <1>12, <1>13, <1>14, <1>15 DEF IsKept

LEMMA TickKeeps == ASSUME IInv, Tick PROVE TypeOK' /\ IsKept
<1>1. now \in Nat /\ now' = now + 1
  BY DEF IInv, TypeOK, Tick
<1>2. /\ stay' = stay /\ left' = left /\ challenge' = challenge
      /\ signed' = signed /\ request' = request
  BY DEF Tick
<1>3. TypeOK'
  BY DEF IInv, TypeOK, Tick
<1>4. TimeInv'
  <2>1. \A g \in Guest : left'[g] <= now'
    <3>1. \A g \in Guest : left[g] \in Nat /\ left[g] <= now
      BY DEF IInv, TypeOK, TimeInv
    <3>. QED
      BY <3>1, <1>1, <1>2
  <2>2. \A c \in Challenge : challenge[c] # NULL =>
          challenge'[c].expires <= now' + CHECK_IN_CHALLENGE_TTL
    <3>1. \A c \in Challenge : challenge[c] # NULL =>
            /\ challenge[c].expires \in Nat
            /\ challenge[c].expires <= now + CHECK_IN_CHALLENGE_TTL
      BY DEF IInv, TypeOK, TimeInv, AuthNonce
    <3>. QED
      BY <3>1, <1>1, <1>2
  <2>. QED
    BY <2>1, <2>2, <1>2 DEF TimeInv
<1>5. ASSUME NEW t \in Nat, NEW h \in Guest, Stands(t, h) PROVE Stands(t, h)'
  <2>1. t <= now'
    BY <1>1, <1>5 DEF Stands
  <2>. QED
    BY <2>1, <1>2, <1>5 DEF Stands
<1>6. RequestInv'
  <2>1. \A q \in Request : request[q].pc # "idle" =>
          Wallet(q) \in Guest /\ request[q].readAt \in Nat /\ Wallet(q)' = Wallet(q)
    BY <1>2, WalletIsGuest DEF IInv, Wallet, TypeOK, Stage
  <2>2. \A q \in Request : request[q].pc # "idle" =>
          Stands(request[q].readAt, Wallet(q))'
    BY <2>1, <1>2, <1>5 DEF IInv, RequestInv, Stands
  <2>. QED
    BY <2>2, <1>2 DEF IInv, RequestInv
<1>7. SignedInv'
  <2>1. \A b \in signed : b.readAt \in Nat /\ b.guest \in Guest
    BY DEF IInv, TypeOK, Authorization
  <2>2. \A b \in signed : Stands(b.readAt, b.guest)'
    BY <2>1, <1>5 DEF IInv, SignedInv
  <2>. QED
    BY <2>2, <1>2 DEF IInv, SignedInv
<1>8. OnceInv' /\ OneAuthorizationPerChallenge' /\ StaysAreFresh'
  BY <1>2 DEF IInv, OnceInv, OneAuthorizationPerChallenge, StaysAreFresh
<1>. QED
  BY <1>3, <1>4, <1>6, <1>7, <1>8 DEF IsKept

-----------------------------------------------------------------------------
(* The whole specification. *)

LEMMA InitEstablishes == Init => IInv
<1>. SUFFICES ASSUME Init PROVE IInv
  OBVIOUS
<1>1. IsFiniteSet(signed) /\ signed = {}
  BY FS_EmptySet DEF Init
<1>2. NoStay \in Stay /\ NoStay.amount = 0
  BY DEF NoStay, Stay
<1>3. Supply \in Balances /\ [g \in Guest |-> 0] \in Balances
  BY DEF Balances
<1>4. TypeOK
  BY <1>1, <1>2, <1>3, IdleIsStage DEF Init, TypeOK
<1>5. TimeInv
  BY DEF Init, TimeInv
<1>6. RequestInv /\ OnceInv
  BY IdleIsStage DEF Init, RequestInv, OnceInv
<1>7. SignedInv /\ OneAuthorizationPerChallenge
  BY <1>1 DEF SignedInv, OneAuthorizationPerChallenge
<1>8. StaysAreFresh
  BY <1>2 DEF Init, StaysAreFresh
<1>. QED
  BY <1>4, <1>5, <1>6, <1>7, <1>8 DEF IInv

LEMMA ServingKeeps == ASSUME IInv, NEW r \in Request, Serving(r) PROVE TypeOK' /\ IsKept
BY AuthorizeKeeps, ReadHoldersKeeps, ReadPositionsKeeps, ReadWalletHeldKeeps,
   ReadUnwithdrawnEscrowKeeps, ConsumeAuthNonceKeeps, SignKeeps, RefuseKeeps
   DEF Serving

LEMMA OnChainKeeps == ASSUME IInv, OnChain PROVE TypeOK' /\ IsKept
<1>1. ASSUME NEW a \in signed, NEW n \in 1 .. a.max, CheckIn(a, n)
      PROVE  TypeOK' /\ IsKept
  <2>1. n \in Nat
    BY <1>1 DEF IInv, TypeOK, Authorization
  <2>. QED
    BY <2>1, <1>1, CheckInKeeps
<1>2. ASSUME NEW g \in Guest, NEW h \in Guest, NEW n \in 1 .. balance[g],
             Transfer(g, h, n)
      PROVE  TypeOK' /\ IsKept
  <2>1. n \in Nat
    BY <1>2 DEF IInv, TypeOK, Balances
  <2>. QED
    BY <2>1, <1>2, TransferKeeps
<1>. QED
  BY <1>1, <1>2, CheckOutKeeps DEF OnChain

LEMMA StepKeeps == IInv /\ [Next]_vars => IInv'
<1>. SUFFICES ASSUME IInv, [Next]_vars PROVE IInv'
  OBVIOUS
<1>1. CASE UNCHANGED vars
  <2>1. UNCHANGED <<now, balance, stay, transfers, usedNonces, index, challenge,
                    request, signed, left>>
    BY <1>1 DEF vars, ledger, contract
  <2>. QED
    BY <2>1 DEF IInv, TypeOK, TimeInv, RequestInv, SignedInv, OnceInv, Stands, Wallet,
                OneAuthorizationPerChallenge, StaysAreFresh
<1>2. CASE Next
  <2>1. TypeOK' /\ IsKept
    BY <1>2, IssueChallengeKeeps, ServingKeeps, OnChainKeeps, IndexHoldersKeeps,
       IndexCheckInRangeKeeps, TickKeeps DEF Next
  <2>. QED
    BY <2>1 DEF IsKept, IInv
<1>. QED
  BY <1>1, <1>2

\* The invariant holds in every reachable state.
THEOREM Invariance == Spec => []IInv
BY InitEstablishes, StepKeeps, PTL DEF Spec

\* Every variable keeps its type; no guest stays with more HOTEL than it has.
THEOREM TypeCorrect == Spec => []TypeOK
<1>1. IInv => TypeOK
  BY DEF IInv
<1>. QED
  BY <1>1, Invariance, PTL

\* However many requests carry a challenge at once, one authorization comes of it.
THEOREM OneAuthorization == Spec => []OneAuthorizationPerChallenge
<1>1. IInv => OneAuthorizationPerChallenge
  BY DEF IInv
<1>. QED
  BY <1>1, Invariance, PTL

\* No authorization asked for before a stay ended begins another one.
THEOREM FreshStays == Spec => []StaysAreFresh
<1>1. IInv => StaysAreFresh
  BY DEF IInv
<1>. QED
  BY <1>1, Invariance, PTL

-----------------------------------------------------------------------------
(* What an authorization is made of. *)

\* The share is rounded up.
LEMMA MinimumCovers ==
  ASSUME NEW e \in Nat PROVE CheckInMinimum(e) * 10000 >= e * CHECK_IN_MINIMUM_BPS
<1>. DEFINE x == e * CHECK_IN_MINIMUM_BPS
<1>1. x \in Nat
  OBVIOUS
<1>2. \A k \in Nat : ((k + 9999) \div 10000) * 10000 >= k
  OBVIOUS
<1>3. CheckInMinimum(e) = (x + 9999) \div 10000
  BY DEF CheckInMinimum
<1>. HIDE DEF x
<1>4. CheckInMinimum(e) * 10000 >= x
  BY <1>1, <1>2, <1>3
<1>. QED
  BY <1>4 DEF x

\* What one step leaves of what a request has read.
LEMMA StillTrue ==
  ASSUME NEW r \in Request, ReadsAreTrue(r), UNCHANGED <<balance, stay, index>>,
         request'[r] = request[r], Wallet(r)' = Wallet(r)
  PROVE  ReadsAreTrue(r)'
<1>1. Escrow' = Escrow
  BY DEF Escrow
<1>. QED
  BY <1>1 DEF ReadsAreTrue, Synced, Deserved, IsTopRanked, Rank, EffectiveHotelBalance

\* A request goes on to s and the others wait.
LEMMA QuietGoesOn ==
  ASSUME IInv, QuietInv, NEW r \in Request, NEW s \in Stage, Awaits(r, s),
         s.pc # "idle" /\ s.quiet => ReadsAreTrue(r)'
  PROVE  QuietInv'
<1>1. request'[r] = s /\ \A q \in Request : q # r => request'[q] = request[q]
  BY DEF IInv, TypeOK, Awaits
<1>2. UNCHANGED <<balance, stay, index, challenge>>
  BY DEF Awaits
<1>3. ASSUME NEW q \in Request, q # r, request'[q].pc # "idle", request'[q].quiet
      PROVE  ReadsAreTrue(q)'
  <2>1. Wallet(q)' = Wallet(q)
    BY <1>1, <1>2, <1>3 DEF Wallet
  <2>2. ReadsAreTrue(q)
    BY <1>1, <1>3 DEF QuietInv
  <2>. QED
    BY <1>1, <1>2, <1>3, <2>1, <2>2, StillTrue
<1>. QED
  BY <1>1, <1>3 DEF QuietInv

LEMMA ReadHoldersQuiet ==
  ASSUME IInv, QuietInv, NEW r \in Request, ReadHolders(r) PROVE QuietInv'
<1>. DEFINE s == [request[r] EXCEPT !.holders = index.holders,
                    !.quiet = IF request[r].positions = NULL THEN Synced ELSE @]
<1>1. request[r] \in Stage /\ index.holders \in Balances /\ request[r].pc = "ranking"
  BY DEF IInv, TypeOK, ReadHolders, At
<1>2. /\ s \in Stage /\ s.pc = "ranking" /\ s.holders = index.holders
      /\ s.positions = request[r].positions
      /\ s.quiet => (request[r].positions = NULL /\ Synced) \/ request[r].quiet
  <2>1. Synced \in BOOLEAN
    BY DEF Synced
  <2>. QED
    BY <1>1, <2>1 DEF Stage
<1>3. Awaits(r, s)
  BY DEF ReadHolders
<1>. HIDE DEF s
<1>4. request'[r] = s /\ Synced' = Synced /\ Escrow' = Escrow /\ balance' = balance
  BY <1>3 DEF Awaits, IInv, TypeOK, Synced, Escrow, ledger, contract
<1>5. s.quiet => Synced /\ s.positions \in {NULL, Escrow}
  BY <1>1, <1>2 DEF QuietInv, ReadsAreTrue
<1>6. s.quiet => ReadsAreTrue(r)'
  BY <1>2, <1>4, <1>5 DEF ReadsAreTrue, Synced
<1>. QED
  BY <1>2, <1>3, <1>6, QuietGoesOn

LEMMA ReadPositionsQuiet ==
  ASSUME IInv, QuietInv, NEW r \in Request, ReadPositions(r) PROVE QuietInv'
<1>. DEFINE s == [request[r] EXCEPT !.positions = index.positions,
                    !.quiet = IF request[r].holders = NULL THEN Synced ELSE @]
<1>1. request[r] \in Stage /\ index.positions \in Balances /\ request[r].pc = "ranking"
  BY DEF IInv, TypeOK, ReadPositions, At
<1>2. /\ s \in Stage /\ s.pc = "ranking" /\ s.positions = index.positions
      /\ s.holders = request[r].holders
      /\ s.quiet => (request[r].holders = NULL /\ Synced) \/ request[r].quiet
  <2>1. Synced \in BOOLEAN
    BY DEF Synced
  <2>. QED
    BY <1>1, <2>1 DEF Stage
<1>3. Awaits(r, s)
  BY DEF ReadPositions
<1>. HIDE DEF s
<1>4. request'[r] = s /\ Synced' = Synced /\ Escrow' = Escrow /\ balance' = balance
  BY <1>3 DEF Awaits, IInv, TypeOK, Synced, Escrow, ledger, contract
<1>5. s.quiet => Synced /\ s.holders \in {NULL, balance}
  BY <1>1, <1>2 DEF QuietInv, ReadsAreTrue
<1>6. s.quiet => ReadsAreTrue(r)'
  BY <1>2, <1>4, <1>5 DEF ReadsAreTrue, Synced
<1>. QED
  BY <1>2, <1>3, <1>6, QuietGoesOn

LEMMA ReadWalletHeldQuiet ==
  ASSUME IInv, QuietInv, NEW r \in Request, ReadWalletHeld(r) PROVE QuietInv'
<1>. DEFINE s == [request[r] EXCEPT !.pc = "escrow", !.holders = NULL,
                    !.positions = NULL, !.held = index.holders[Wallet(r)]]
<1>1. /\ request[r] \in Stage /\ index.holders \in Balances
      /\ request[r].pc = "ranking"
  BY DEF IInv, TypeOK, ReadWalletHeld, At
<1>2. index.holders[Wallet(r)] \in Nat
  BY <1>1, WalletIsGuest DEF IInv, Balances
<1>3. /\ s \in Stage /\ s.pc = "escrow" /\ s.held = index.holders[Wallet(r)]
      /\ s.quiet = request[r].quiet /\ s.challenge = request[r].challenge
  BY <1>1, <1>2 DEF Stage
<1>4. Awaits(r, s)
  BY DEF ReadWalletHeld
<1>. HIDE DEF s
<1>5. /\ request'[r] = s /\ Synced' = Synced /\ Escrow' = Escrow
      /\ balance' = balance /\ challenge' = challenge
  BY <1>4 DEF Awaits, IInv, TypeOK, Synced, Escrow, ledger, contract
<1>6. Wallet(r)' = Wallet(r)
  BY <1>3, <1>5 DEF Wallet
<1>7. ASSUME s.quiet
      PROVE  Synced /\ IsTopRanked(Wallet(r), balance, Escrow)
  <2>1. ReadsAreTrue(r)
    BY <1>1, <1>3, <1>7 DEF QuietInv
  <2>2. request[r].holders = balance /\ request[r].positions = Escrow
    BY <1>1, <2>1 DEF ReadsAreTrue, ReadWalletHeld
  <2>. QED
    BY <2>1, <2>2 DEF ReadsAreTrue, ReadWalletHeld
<1>8. s.quiet => ReadsAreTrue(r)'
  BY <1>3, <1>5, <1>6, <1>7
     DEF ReadsAreTrue, Synced, IsTopRanked, Rank, EffectiveHotelBalance
<1>. QED
  BY <1>3, <1>4, <1>8, QuietGoesOn

LEMMA ReadUnwithdrawnEscrowQuiet ==
  ASSUME IInv, QuietInv, NEW r \in Request, ReadUnwithdrawnEscrow(r) PROVE QuietInv'
<1>. DEFINE m == CheckInMinimum(request[r].held + index.positions[Wallet(r)])
            s == [request[r] EXCEPT !.pc = "consume", !.held = 0, !.min = m,
                                    !.max = request[r].held]
<1>1. /\ request[r] \in Stage /\ index.positions \in Balances
      /\ request[r].pc = "escrow"
  BY DEF IInv, TypeOK, ReadUnwithdrawnEscrow, At
<1>2. request[r].held \in Nat /\ index.positions[Wallet(r)] = 0
  BY <1>1 DEF ReadUnwithdrawnEscrow, Stage
<1>3. request[r].held + index.positions[Wallet(r)] = request[r].held
  BY <1>2
<1>4. m \in Nat
  BY <1>3, <1>2, MinimumIsNat
<1>5. m * 10000 >= request[r].held * CHECK_IN_MINIMUM_BPS
  BY <1>3, <1>2, MinimumCovers
<1>6. Awaits(r, s)
  BY DEF ReadUnwithdrawnEscrow
<1>. HIDE DEF m
<1>7. /\ s \in Stage /\ s.pc = "consume" /\ s.min = m /\ s.max = request[r].held
      /\ s.quiet = request[r].quiet /\ s.challenge = request[r].challenge
  <2>1. s \in Stage /\ s.pc = "consume"
    BY <1>1, <1>2, <1>4 DEF Stage
  <2>2. s.min = m /\ s.max = request[r].held
    BY <1>1 DEF Stage
  <2>3. s.quiet = request[r].quiet /\ s.challenge = request[r].challenge
    BY <1>1 DEF Stage
  <2>. QED
    BY <2>1, <2>2, <2>3
<1>. HIDE DEF s
<1>8. /\ request'[r] = s /\ Synced' = Synced /\ Escrow' = Escrow
      /\ balance' = balance /\ challenge' = challenge
  BY <1>6 DEF Awaits, IInv, TypeOK, Synced, Escrow, ledger, contract
<1>9. Wallet(r)' = Wallet(r)
  BY <1>7, <1>8 DEF Wallet
<1>10. ASSUME s.quiet
      PROVE  /\ Synced /\ IsTopRanked(Wallet(r), balance, Escrow)
             /\ request[r].held = balance[Wallet(r)]
  BY <1>1, <1>7, <1>10 DEF QuietInv, ReadsAreTrue
<1>11. s.quiet => Deserved(r)'
  BY <1>5, <1>7, <1>8, <1>9, <1>10
     DEF Deserved, IsTopRanked, Rank, EffectiveHotelBalance
<1>12. s.quiet => ReadsAreTrue(r)'
  BY <1>7, <1>8, <1>10, <1>11 DEF ReadsAreTrue, Deserved
<1>. QED
  BY <1>6, <1>7, <1>12, QuietGoesOn

LEMMA ConsumeAuthNonceQuiet ==
  ASSUME IInv, QuietInv, NEW r \in Request, ConsumeAuthNonce(r) PROVE QuietInv'
<1>1. UNCHANGED <<balance, stay, index>>
  BY DEF ConsumeAuthNonce
<1>2. ASSUME NEW q \in Request, request[q].pc # "idle"
      PROVE  challenge'[request[q].challenge].wallet = Wallet(q)
  <2>1. challenge[request[q].challenge] \in AuthNonce
    BY <1>2, WalletIsGuest DEF IInv
  <2>. QED
    BY <2>1 DEF ConsumeAuthNonce, IInv, TypeOK, Wallet, AuthNonce
<1>3. /\ \A q \in Request : q # r => request'[q] = request[q]
      /\ request[r].pc = "consume" /\ request'[r].pc = "sign"
      /\ request'[r].quiet = request[r].quiet /\ request'[r].max = request[r].max
      /\ request'[r].min = request[r].min
      /\ request'[r].challenge = request[r].challenge
  BY DEF ConsumeAuthNonce, At, IInv, TypeOK, Stage
<1>4. ASSUME NEW q \in Request, q # r, request'[q].pc # "idle", request'[q].quiet
      PROVE  ReadsAreTrue(q)'
  BY <1>1, <1>2, <1>3, <1>4, StillTrue DEF QuietInv, Wallet
<1>5. ASSUME request'[r].quiet PROVE ReadsAreTrue(r)'
  <2>1. ReadsAreTrue(r)
    BY <1>3, <1>5 DEF QuietInv
  <2>2. Wallet(r)' = Wallet(r) /\ Escrow' = Escrow
    BY <1>1, <1>2, <1>3 DEF Wallet, Escrow
  <2>. QED
    BY <1>1, <1>3, <2>1, <2>2
       DEF ReadsAreTrue, Synced, Deserved, IsTopRanked, Rank, EffectiveHotelBalance
<1>. QED
  BY <1>4, <1>5 DEF QuietInv

\* Of a request that nobody disturbed the authorization is deserved.
LEMMA SignQuiet ==
  ASSUME IInv, DeservedInv, NEW r \in Request, Sign(r) PROVE DeservedInv'
<1>1. UNCHANGED <<balance, stay, index, challenge>>
  BY DEF Sign
<1>2. request'[r].pc = "idle" /\ \A q \in Request : q # r => request'[q] = request[q]
  BY IdleIsStage DEF Sign, IInv, TypeOK
<1>3. ASSUME NEW q \in Request, request'[q].pc # "idle", request'[q].quiet
      PROVE  ReadsAreTrue(q)'
  BY <1>1, <1>2, <1>3, StillTrue DEF DeservedInv, QuietInv, Wallet
<1>4. request[r].quiet => Deserved(r)
  BY DEF Sign, At, DeservedInv, QuietInv, ReadsAreTrue
<1>5. SignCheckInAuthorization(r).deserved
  BY <1>4 DEF SignCheckInAuthorization
<1>6. AuthorizedIsTopRanked'
  BY <1>5 DEF Sign, DeservedInv, AuthorizedIsTopRanked
<1>. QED
  BY <1>3, <1>6 DEF DeservedInv, QuietInv

\* Whoever moves the tokens, the stays or the index disturbs every request.
LEMMA DisturbQuiet ==
  ASSUME IInv, DeservedInv, Disturb, signed' = signed PROVE DeservedInv'
<1>1. \A r \in Request : request'[r].quiet = FALSE
  BY DEF Disturb, IInv, TypeOK, Stage
<1>. QED
  BY <1>1 DEF DeservedInv, QuietInv, AuthorizedIsTopRanked

LEMMA DeservedInit == Init => DeservedInv
  BY IdleIsStage DEF Init, DeservedInv, QuietInv, AuthorizedIsTopRanked

LEMMA DeservedStep ==
  ASSUME IInv, DeservedInv, [Next]_vars PROVE DeservedInv'
<1>1. CASE \E r \in Request : Serving(r)
  <2>. PICK r \in Request : Serving(r)
    BY <1>1
  <2>1. CASE Sign(r)
    BY <2>1, SignQuiet
  <2>2. ASSUME ~Sign(r) PROVE signed' = signed
    BY <2>2 DEF Serving, Authorize, ReadHolders, ReadPositions, ReadWalletHeld,
         ReadUnwithdrawnEscrow, ConsumeAuthNonce, Refuse, Awaits
  <2>3. ASSUME NEW c \in Challenge, Authorize(r, c) PROVE QuietInv'
    <3>. DEFINE s == [Idle EXCEPT !.pc = "ranking", !.challenge = c, !.readAt = now]
    <3>1. s \in Stage /\ s.quiet = FALSE
      <4>1. now \in Nat /\ Idle \in Stage /\ Idle.quiet = FALSE
        BY IdleIsStage DEF Idle, IInv, TypeOK
      <4>. HIDE DEF Idle
      <4>. QED
        BY <4>1 DEF Stage
    <3>2. Awaits(r, s)
      BY <2>3 DEF Authorize
    <3>. QED
      BY <3>1, <3>2, QuietGoesOn DEF DeservedInv
  <2>4. ASSUME Refuse(r) PROVE QuietInv'
    <3>1. Awaits(r, Idle)
      BY <2>4 DEF Refuse, Awaits
    <3>2. Idle.quiet = FALSE
      BY DEF Idle
    <3>. HIDE DEF Idle
    <3>. QED
      BY <3>1, <3>2, IdleIsStage, QuietGoesOn DEF DeservedInv
  <2>5. QuietInv' \/ Sign(r)
    BY <2>3, <2>4, ReadHoldersQuiet, ReadPositionsQuiet, ReadWalletHeldQuiet,
       ReadUnwithdrawnEscrowQuiet, ConsumeAuthNonceQuiet DEF Serving, DeservedInv
  <2>. QED
    BY <2>1, <2>2, <2>5 DEF DeservedInv, AuthorizedIsTopRanked
<1>2. CASE OnChain \/ IndexHolders \/ IndexCheckInRange
  BY <1>2, DisturbQuiet DEF OnChain, CheckIn, CheckOut, Transfer, IndexHolders,
     IndexCheckInRange
<1>3. ASSUME UNCHANGED <<balance, stay, index, request, signed>>,
             \A r \in Request : request[r].pc # "idle" => Wallet(r)' = Wallet(r)
      PROVE  DeservedInv'
  BY <1>3, StillTrue DEF DeservedInv, QuietInv, AuthorizedIsTopRanked
<1>4. CASE \E c \in Challenge, g \in Guest : IssueChallenge(c, g)
  <2>1. \A r \in Request : request[r].pc # "idle" => Wallet(r)' = Wallet(r)
    BY <1>4 DEF IssueChallenge, IInv, TypeOK, RequestInv, Wallet
  <2>. QED
    BY <1>3, <1>4, <2>1 DEF IssueChallenge
<1>5. CASE Tick \/ UNCHANGED vars
  BY <1>3, <1>5 DEF Tick, vars, Wallet
<1>. QED
  BY <1>1, <1>2, <1>4, <1>5 DEF Next

\* When index and chain stand still while a request reads, the guest has a room by
\* the chain's own balances, and the bounds of the amount are those of its balance.
THEOREM AuthorizedGuestsAreTopRanked == Spec => []AuthorizedIsTopRanked
<1>1. IInv /\ DeservedInv /\ [Next]_vars => DeservedInv'
  BY DeservedStep
<1>2. DeservedInv => AuthorizedIsTopRanked
  BY DEF DeservedInv
<1>. QED
  BY <1>1, <1>2, DeservedInit, Invariance, PTL DEF Spec

=============================================================================
