----------------------- MODULE IndexerRanking_proofs -----------------------
(***************************************************************************)
(* Theorems about the indexer, which writes the transfer log and the       *)
(* holders table, and about the rooms and ranks that are read from them:   *)
(* for any accounts, transfers, chain, faults, exclusions and number of    *)
(* rooms.                                                                  *)
(***************************************************************************)
EXTENDS Indexer, Ranking, Totals_proofs, SequenceTheorems

USE DEF Cursor

-----------------------------------------------------------------------------
(* Rows and the balances they amount to. *)

\* Every set of rows is finite.
LEMMA RowsFinite == ASSUME NEW S \in SUBSET Row PROVE IsFiniteSet(S)
<1>. DEFINE Triples == (Tx \X (1 .. MaxBlock)) \X (1 .. MaxTxs)
            row == [t \in Triples |->
                      [tx |-> t[1][1], block |-> t[1][2], index |-> t[2]]]
<1>1. IsFiniteSet(Triples)
  <2>1. IsFiniteSet(Tx) /\ MaxBlock \in Int /\ MaxTxs \in Int /\ 1 \in Int
    BY IndexerAssumption
  <2>2. IsFiniteSet(1 .. MaxBlock) /\ IsFiniteSet(1 .. MaxTxs)
    BY <2>1, FS_Interval
  <2>. QED
    BY <2>1, <2>2, FS_Product
<1>2. row \in Surjection(Triples, Row)
  <2>1. row \in [Triples -> Row]
    BY DEF Row
  <2>2. ASSUME NEW r \in Row
        PROVE  \E t \in Triples : row[t] = r
    <3>1. <<<<r.tx, r.block>>, r.index>> \in Triples
      BY DEF Row
    <3>2. row[<<<<r.tx, r.block>>, r.index>>] = r
      BY <3>1 DEF Row
    <3>. QED
      BY <3>1, <3>2
  <2>. QED
    BY <2>1, <2>2 DEF Surjection
<1>3. IsFiniteSet(Row)
  <2>. HIDE DEF Triples, row
  <2>. QED  BY <1>1, <1>2, FS_Surjection
<1>. QED
  BY <1>3, FS_Subset

\* The fields of a row, and of the transfer it carries.
LEMMA RowFields ==
  ASSUME NEW r \in Row
  PROVE  /\ r.tx \in Tx /\ r.tx \in Nat /\ r.block \in Nat /\ r.block >= 1
         /\ r.block <= MaxBlock /\ r.index \in Nat
         /\ From(r) \in Holder \cup {Zero} /\ To(r) \in Holder \cup {Zero}
         /\ Value(r) \in Nat
<1>1. r.tx \in Tx /\ r.block \in 1 .. MaxBlock /\ r.index \in 1 .. MaxTxs
  BY DEF Row
<1>2. TransferOf[r.tx] \in [from : Holder \cup {Zero}, to : Holder \cup {Zero},
                           value : Nat]
  BY <1>1, IndexerAssumption
<1>3. Tx \subseteq Nat /\ MaxBlock \in Nat /\ MaxTxs \in Nat
  BY IndexerAssumption
<1>4. /\ r.tx \in Nat /\ r.index \in Nat
      /\ r.block \in Nat /\ r.block >= 1 /\ r.block <= MaxBlock
  <2>1. r.tx \in Nat
    BY <1>1, <1>3
  <2>2. \A x \in 1 .. MaxBlock : x \in Nat /\ x >= 1 /\ x <= MaxBlock
    BY <1>3
  <2>3. \A x \in 1 .. MaxTxs : x \in Nat
    BY <1>3
  <2>. QED
    BY <1>1, <2>1, <2>2, <2>3
<1>5. /\ From(r) \in Holder \cup {Zero} /\ To(r) \in Holder \cup {Zero}
      /\ Value(r) \in Nat
  BY <1>2 DEF From, To, Value
<1>. QED
  BY <1>1, <1>4, <1>5

\* What holders received and sent, a row at a time.
LEMMA SumsType ==
  ASSUME NEW rows \in SUBSET Row, NEW a
  PROVE  Received(rows, a) \in Nat /\ Sent(rows, a) \in Nat
<1>1. \A r \in Row : Value(r) \in Nat
  BY RowFields
<1>. DEFINE D == Row  g == [r \in D |-> Value(r)]
            In == {q \in rows : To(q) = a}  Out == {q \in rows : From(q) = a}
<1>2. IsFiniteSet(In) /\ IsFiniteSet(Out)
  BY RowsFinite
<1>3. [y \in In |-> Value(y)] \in [In -> Nat] /\ [y \in Out |-> Value(y)] \in [Out -> Nat]
  BY <1>1
<1>. QED
  BY <1>2, <1>3, TotalType DEF Received, Sent

\* One row more adds its value to what its two holders received and sent.
LEMMA AddRow ==
  ASSUME NEW rows \in SUBSET Row, NEW r \in Row, r \notin rows, NEW a
  PROVE  /\ Received(rows \cup {r}, a)
              = Received(rows, a) + (IF To(r) = a THEN Value(r) ELSE 0)
         /\ Sent(rows \cup {r}, a)
              = Sent(rows, a) + (IF From(r) = a THEN Value(r) ELSE 0)
<1>. DEFINE g == [q \in Row |-> Value(q)]
            In(R) == {q \in R : To(q) = a}
            Out(R) == {q \in R : From(q) = a}
<1>1. g \in [Row -> Nat]
  BY RowFields
<1>2. ASSUME NEW S \in SUBSET Row
      PROVE  /\ [q \in S |-> Value(q)] = [q \in S |-> g[q]]
             /\ IsFiniteSet(S)
  BY RowsFinite
<1>3. ASSUME NEW S \in SUBSET rows
      PROVE  Total([q \in S \cup {r} |-> Value(q)])
               = Total([q \in S |-> Value(q)]) + Value(r)
  <2>1. /\ S \in SUBSET Row /\ S \cup {r} \in SUBSET Row
        /\ g[r] = Value(r) /\ r \notin S
    OBVIOUS
  <2>2. /\ [q \in S |-> Value(q)] = [q \in S |-> g[q]]
        /\ [q \in S \cup {r} |-> Value(q)] = [q \in S \cup {r} |-> g[q]]
        /\ IsFiniteSet(S)
    BY <2>1, <1>2
  <2>3. Total([q \in S \cup {r} |-> g[q]]) = Total([q \in S |-> g[q]]) + g[r]
    <3>. HIDE DEF g
    <3>. QED  BY <1>1, <2>1, <2>2, TotalAdd
  <2>. QED
    BY <2>1, <2>2, <2>3
<1>4. /\ To(r) = a => In(rows \cup {r}) = In(rows) \cup {r}
      /\ To(r) # a => In(rows \cup {r}) = In(rows)
      /\ From(r) = a => Out(rows \cup {r}) = Out(rows) \cup {r}
      /\ From(r) # a => Out(rows \cup {r}) = Out(rows)
      /\ In(rows) \in SUBSET rows /\ Out(rows) \in SUBSET rows
  OBVIOUS
<1>5. Received(rows, a) \in Nat /\ Sent(rows, a) \in Nat
  BY SumsType
<1>6. /\ Received(rows, a) = Total([q \in In(rows) |-> Value(q)])
      /\ Sent(rows, a) = Total([q \in Out(rows) |-> Value(q)])
      /\ Received(rows \cup {r}, a) = Total([q \in In(rows \cup {r}) |-> Value(q)])
      /\ Sent(rows \cup {r}, a) = Total([q \in Out(rows \cup {r}) |-> Value(q)])
  BY Zenon DEF Received, Sent
<1>. HIDE DEF In, Out
<1>7. Received(rows \cup {r}, a)
        = Received(rows, a) + (IF To(r) = a THEN Value(r) ELSE 0)
  <2>1. CASE To(r) = a
    BY <2>1, <1>3, <1>4, <1>6
  <2>2. CASE To(r) # a
    <3>1. In(rows \cup {r}) = In(rows)
      BY <2>2, <1>4
    <3>2. Received(rows \cup {r}, a) = Received(rows, a)
      BY <3>1, <1>6
    <3>. QED
      BY <2>2, <3>2, <1>5
  <2>. QED
    BY <2>1, <2>2
<1>8. Sent(rows \cup {r}, a)
        = Sent(rows, a) + (IF From(r) = a THEN Value(r) ELSE 0)
  <2>1. CASE From(r) = a
    BY <2>1, <1>3, <1>4, <1>6
  <2>2. CASE From(r) # a
    <3>1. Out(rows \cup {r}) = Out(rows)
      BY <2>2, <1>4
    <3>2. Sent(rows \cup {r}, a) = Sent(rows, a)
      BY <3>1, <1>6
    <3>. QED
      BY <2>2, <3>2, <1>5
  <2>. QED
    BY <2>1, <2>2
<1>. QED
  BY <1>7, <1>8

\* Fewer rows amount to no more received and no more sent.
LEMMA FewerRows ==
  ASSUME NEW rows \in SUBSET Row, NEW some \in SUBSET rows, NEW a
  PROVE  Received(some, a) <= Received(rows, a)
<1>. DEFINE g == [q \in Row |-> Value(q)]
            In(R) == {q \in R : To(q) = a}
<1>1. g \in [Row -> Nat]
  BY RowFields
<1>2. /\ [q \in In(rows) |-> Value(q)] = [q \in In(rows) |-> g[q]]
      /\ [q \in In(some) |-> Value(q)] = [q \in In(some) |-> g[q]]
      /\ In(some) \in SUBSET In(rows) /\ In(rows) \in SUBSET Row
  OBVIOUS
<1>3. IsFiniteSet(In(rows))
  BY <1>2, RowsFinite
<1>4. /\ Received(rows, a) = Total([q \in In(rows) |-> Value(q)])
      /\ Received(some, a) = Total([q \in In(some) |-> Value(q)])
  BY Zenon DEF Received
<1>. HIDE DEF In, g
<1>. QED
  BY <1>1, <1>2, <1>3, <1>4, TotalSubset

\* The rows of one sender end with one that comes after all the others.
LEMMA LastSent ==
  ASSUME NEW S \in SUBSET Row, S # {}, \A q, r \in S : q.tx = r.tx => q = r
  PROVE  \E r \in S : \A q \in S \ {r} : RowBefore(q, r)
<1>. DEFINE R == {p \in S \X S : RowBefore(p[2], p[1])}
<1>1. IsFiniteSet(S)
  BY RowsFinite
<1>2. \A r \in S : r.tx \in Nat /\ r.block \in Nat
  BY RowFields
<1>3. \A x \in S : <<x, x>> \notin R
  BY <1>2 DEF RowBefore
<1>4. \A x, y, z \in S : <<x, y>> \in R /\ <<y, z>> \in R => <<x, z>> \in R
  <2>. SUFFICES ASSUME NEW x \in S, NEW y \in S, NEW z \in S,
                       RowBefore(y, x), RowBefore(z, y)
                PROVE  RowBefore(z, x)
    OBVIOUS
  <2>. QED
    BY <1>2 DEF RowBefore
<1>5. PICK r \in S : \A q \in S : <<q, r>> \notin R
  <2>. HIDE DEF R
  <2>. QED  BY <1>1, <1>3, <1>4, MinimalElement
<1>6. ASSUME NEW q \in S \ {r}
      PROVE  RowBefore(q, r)
  <2>1. ~RowBefore(r, q)
    BY <1>5
  <2>2. q.tx # r.tx
    OBVIOUS
  <2>. QED
    BY <1>2, <2>1, <2>2 DEF RowBefore
<1>. QED
  BY <1>6

\* Balances rebuilt from a log that can be rebuilt are not negative.
LEMMA RebuiltType ==
  ASSUME NEW rows \in SUBSET Row, \A q, r \in rows : q.tx = r.tx => q = r,
         Rebuildable(rows)
  PROVE  Balances(rows) \in [Holder -> Nat]
<1>. SUFFICES ASSUME NEW a \in Holder
              PROVE  Received(rows, a) - Sent(rows, a) \in Nat
  BY DEF Balances
<1>. DEFINE S == {q \in rows : From(q) = a}
<1>1. Received(rows, a) \in Nat /\ Sent(rows, a) \in Nat
  BY SumsType
<1>2. CASE S = {}
  <2>1. [q \in S |-> Value(q)] = [q \in S |-> 0]
    BY <1>2
  <2>2. Sent(rows, a) = 0
    BY <2>1, TotalZero DEF Sent
  <2>. QED
    BY <1>1, <2>2
<1>3. CASE S # {}
  <2>1. PICK r \in S : \A q \in S \ {r} : RowBefore(q, r)
    <3>1. S \in SUBSET Row /\ \A q, r \in S : q.tx = r.tx => q = r
      OBVIOUS
    <3>. HIDE DEF S
    <3>. QED  BY <1>3, <3>1, LastSent
  <2>. DEFINE earlier == {q \in rows : RowBefore(q, r)}
  <2>2. r \in Row /\ r \in rows /\ From(r) = a /\ a # Zero
    BY IndexerAssumption
  <2>3. ~RowBefore(r, r)
    BY <2>2, RowFields DEF RowBefore
  <2>4. Value(r) <= Received(earlier, a) - Sent(earlier, a)
    BY <2>2 DEF Rebuildable, NoUnderflow
  <2>5. Sent(rows, a) = Sent(earlier \cup {r}, a)
    <3>1. {q \in rows : From(q) = a} = {q \in earlier \cup {r} : From(q) = a}
      BY <2>1, <2>2
    <3>. QED
      BY <3>1, Zenon DEF Sent
  <2>6. Sent(earlier \cup {r}, a) = Sent(earlier, a) + Value(r)
    <3>1. earlier \in SUBSET Row /\ r \notin earlier
      BY <2>3
    <3>. HIDE DEF earlier
    <3>. QED  BY <2>2, <3>1, AddRow
  <2>7. Received(earlier, a) <= Received(rows, a)
    <3>1. earlier \in SUBSET rows
      OBVIOUS
    <3>. HIDE DEF earlier
    <3>. QED  BY <3>1, FewerRows
  <2>8. /\ Received(earlier, a) \in Nat /\ Sent(earlier, a) \in Nat
        /\ Value(r) \in Nat
    <3>1. earlier \in SUBSET Row
      OBVIOUS
    <3>. HIDE DEF earlier
    <3>. QED  BY <2>2, <3>1, SumsType, RowFields
  <2>. HIDE DEF earlier
  <2>. QED
    BY <1>1, <2>4, <2>5, <2>6, <2>7, <2>8
<1>. QED
  BY <1>2, <1>3

\* What the assumptions say, in the form the steps use.
LEMMA Constants ==
  /\ LIVE_CONFIRMATIONS \in Nat /\ MaxBlock \in Nat /\ MaxTxs \in Nat
  /\ NoHash \notin Nat /\ Zero \notin Holder /\ IsFiniteSet(Holder)
BY IndexerAssumption

\* The contents of a block are a short sequence of transactions.
LEMMA ContentIsSeq == \A txs \in Content : txs \in Seq(Tx) /\ Len(txs) <= MaxTxs
<1>. SUFFICES ASSUME NEW n \in 0 .. MaxTxs, NEW txs \in [1 .. n -> Tx]
              PROVE  txs \in Seq(Tx) /\ Len(txs) <= MaxTxs
  BY DEF Content
<1>. QED
  BY Constants

\* The blocks of a sequence of them, and the transactions they carry.
LEMMA SeqFacts ==
  ASSUME NEW c \in Seq(Block)
  PROVE  /\ Len(c) \in Nat /\ DOMAIN c = 1 .. Len(c)
         /\ \A b \in 1 .. Len(c) :
              /\ c[b] \in Block /\ c[b].hash \in Nat /\ c[b].txs \in Seq(Tx)
              /\ Len(c[b].txs) \in Nat /\ DOMAIN c[b].txs = 1 .. Len(c[b].txs)
<1>1. Len(c) \in Nat /\ DOMAIN c = 1 .. Len(c)
  BY LenProperties
<1>2. ASSUME NEW b \in 1 .. Len(c)
      PROVE  /\ c[b] \in Block /\ c[b].hash \in Nat /\ c[b].txs \in Seq(Tx)
             /\ Len(c[b].txs) \in Nat /\ DOMAIN c[b].txs = 1 .. Len(c[b].txs)
  <2>1. c[b] \in Block
    BY ElementOfSeq
  <2>2. c[b].hash \in Nat /\ c[b].txs \in Seq(Tx)
    BY <2>1 DEF Block
  <2>. QED
    BY <2>1, <2>2, LenProperties
<1>. QED
  BY <1>1, <1>2

\* The chain is a sequence of blocks.
LEMMA ChainSeq == IndexerTypeOK => chain \in Seq(Block) /\ reorgs \in Nat
BY DEF IndexerTypeOK

\* A log is a row: where it stands in the chain.
LEMMA LogsAt ==
  ASSUME NEW c \in Seq(Block), NEW r
  PROVE  r \in LogsOf(c) <=> \E b \in 1 .. Len(c) : \E i \in 1 .. Len(c[b].txs) :
                               r = [tx |-> c[b].txs[i], block |-> b, index |-> i]
<1>1. \A b \in 1 .. Len(c) : DOMAIN c[b].txs = 1 .. Len(c[b].txs)
  BY SeqFacts
<1>2. DOMAIN c = 1 .. Len(c)
  BY SeqFacts
<1>3. LogsOf(c) = UNION {{[tx |-> c[b].txs[i], block |-> b, index |-> i] :
                            i \in DOMAIN c[b].txs} : b \in 1 .. Len(c)}
  BY <1>2 DEF LogsOf
<1>. QED
  BY <1>1, <1>3, SMT

\* The logs of a chain within the bounds are rows of the table.
LEMMA LogsAreRows ==
  ASSUME NEW c \in Seq(Block), Len(c) <= MaxBlock,
         \A b \in DOMAIN c : Len(c[b].txs) <= MaxTxs
  PROVE  LogsOf(c) \subseteq Row
<1>. SUFFICES ASSUME NEW b \in 1 .. Len(c), NEW i \in 1 .. Len(c[b].txs)
              PROVE  [tx |-> c[b].txs[i], block |-> b, index |-> i] \in Row
  BY LogsAt
<1>1. /\ Len(c) \in Nat /\ b \in DOMAIN c
      /\ c[b].txs \in Seq(Tx) /\ Len(c[b].txs) \in Nat
  BY SeqFacts
<1>2. c[b].txs[i] \in Tx
  BY <1>1, ElementOfSeq
<1>3. i \in 1 .. MaxTxs /\ b \in 1 .. MaxBlock
  BY <1>1, Constants
<1>. QED
  BY <1>2, <1>3 DEF Row

\* The logs of a block depend on that block only.
LEMMA SamePrefix ==
  ASSUME NEW c \in Seq(Block), NEW d \in Seq(Block), NEW n \in Nat,
         n <= Len(c), n <= Len(d), \A b \in 1 .. n : c[b] = d[b],
         NEW r \in LogsOf(c), r.block <= n
  PROVE  r \in LogsOf(d)
<1>1. PICK b \in 1 .. Len(c) : \E i \in 1 .. Len(c[b].txs) :
        r = [tx |-> c[b].txs[i], block |-> b, index |-> i]
  BY LogsAt
<1>2. b \in 1 .. n /\ b \in 1 .. Len(d) /\ c[b] = d[b]
  BY <1>1
<1>. QED
  BY <1>1, <1>2, LogsAt

\* So are the logs of its first blocks.
LEMMA LogsUpToRows ==
  ASSUME IndexerTypeOK, ChainInv
  PROVE  LogsOf(chain) \subseteq Row /\ \A b : LogsUpTo(b) \subseteq Row
BY LogsAreRows DEF IndexerTypeOK, ChainInv, LogsUpTo

\* The hash at a block of the chain is a number, no larger than the reorgs so far.
LEMMA HashAtType ==
  ASSUME IndexerTypeOK, ChainInv, NEW b \in Nat, IsConfirmed(b)
  PROVE  HashAt(b) \in Nat /\ HashAt(b) <= reorgs /\ (b = 0 => HashAt(b) = 0)
<1>1. CASE b = 0
  BY <1>1, ChainSeq DEF HashAt
<1>2. CASE b # 0
  <2>1. b \in 1 .. Len(chain)
    BY <1>2, Constants, ChainSeq, SeqFacts DEF IsConfirmed
  <2>2. chain[b].hash \in Nat /\ b \in DOMAIN chain
    BY <2>1, ChainSeq, SeqFacts
  <2>. QED
    BY <1>2, <2>2 DEF HashAt, ChainInv
<1>. QED
  BY <1>1, <1>2

-----------------------------------------------------------------------------
(* What the two steps of the chain do to it. *)

\* A new block leaves the others as they are.
LEMMA ExtendChain ==
  ASSUME IndexerTypeOK, ChainInv, NEW txs \in Content, Extend(txs)
  PROVE  /\ chain' \in Seq(Block) /\ Len(chain') = Len(chain) + 1
         /\ \A b \in 1 .. Len(chain) : chain'[b] = chain[b]
         /\ Len(chain') <= MaxBlock
         /\ \A b \in DOMAIN chain' :
              chain'[b].hash <= reorgs' /\ Len(chain'[b].txs) <= MaxTxs
<1>. DEFINE new == [hash |-> reorgs, txs |-> txs]
<1>1. new \in Block /\ Len(new.txs) <= MaxTxs /\ new.hash = reorgs
  BY ContentIsSeq DEF Block, IndexerTypeOK
<1>2. chain' = Append(chain, new) /\ reorgs' = reorgs /\ Len(chain) < MaxBlock
  BY DEF Extend
<1>3. chain \in Seq(Block)
  BY DEF IndexerTypeOK
<1>4. /\ chain' \in Seq(Block) /\ Len(chain') = Len(chain) + 1
      /\ \A b \in 1 .. Len(chain) : chain'[b] = chain[b]
      /\ chain'[Len(chain) + 1] = new
  <2>. HIDE DEF new
  <2>. QED  BY <1>1, <1>2, <1>3, AppendProperties
<1>5. Len(chain') <= MaxBlock
  BY <1>2, <1>3, <1>4, Constants, SeqFacts
<1>6. ASSUME NEW b \in DOMAIN chain'
      PROVE  chain'[b].hash <= reorgs' /\ Len(chain'[b].txs) <= MaxTxs
  <2>1. b \in 1 .. Len(chain) \/ b = Len(chain) + 1
    BY <1>3, <1>4, SeqFacts
  <2>2. CASE b \in 1 .. Len(chain)
    BY <2>2, <1>2, <1>3, <1>4, SeqFacts DEF ChainInv
  <2>3. CASE b = Len(chain) + 1
    <3>1. chain'[b] = new
      BY <2>3, <1>4
    <3>. QED
      BY <3>1, <1>1, <1>2, ChainSeq
  <2>. QED
    BY <2>1, <2>2, <2>3
<1>. QED
  BY <1>4, <1>5, <1>6

\* A reorg keeps the length, and the blocks before those it replaces.
LEMMA ReorgChain ==
  ASSUME IndexerTypeOK, ChainInv, NEW d \in Nat \ {0}, NEW contents \in [1 .. d -> Content],
         Reorg(contents)
  PROVE  /\ d <= Len(chain) /\ chain' \in Seq(Block) /\ Len(chain') = Len(chain)
         /\ \A b \in 1 .. (Len(chain) - d) : chain'[b] = chain[b]
         /\ \A b \in (Len(chain) - d + 1) .. Len(chain) : chain'[b].hash = reorgs + 1
         /\ \A b \in DOMAIN chain' :
              chain'[b].hash <= reorgs' /\ Len(chain'[b].txs) <= MaxTxs
<1>. DEFINE n == Len(chain) - d
            old == SubSeq(chain, 1, n)
            new == [i \in 1 .. d |-> [hash |-> reorgs + 1, txs |-> contents[i]]]
<1>1. /\ Len(contents) = d /\ DOMAIN contents = 1 .. d /\ d <= Len(chain)
      /\ chain \in Seq(Block) /\ reorgs \in Nat /\ reorgs' = reorgs + 1
  <2>1. DOMAIN contents = 1 .. d
    OBVIOUS
  <2>2. Len(contents) = d
    BY <2>1
  <2>. QED
    BY <2>1, <2>2, ChainSeq DEF Reorg
<1>2. n \in Nat /\ n <= Len(chain) /\ n + d = Len(chain) /\ Len(chain) \in Nat
  BY <1>1, SeqFacts
<1>3. /\ new \in Seq(Block) /\ Len(new) = d
      /\ \A i \in 1 .. d : new[i].hash = reorgs + 1 /\ Len(new[i].txs) <= MaxTxs
  <2>1. \A i \in 1 .. d : [hash |-> reorgs + 1, txs |-> contents[i]] \in Block
    BY <1>1, ContentIsSeq DEF Block
  <2>2. \A i \in 1 .. d : Len(contents[i]) <= MaxTxs
    BY ContentIsSeq
  <2>. QED
    BY <2>1, <2>2
<1>4. old \in Seq(Block) /\ Len(old) = n /\ \A b \in 1 .. n : old[b] = chain[b]
  <2>1. \A b \in 1 .. n : chain[b] \in Block
    BY <1>1, <1>2, SeqFacts
  <2>. HIDE DEF n
  <2>2. /\ old \in Seq(Block) /\ Len(old) = (IF 1 <= n THEN n - 1 + 1 ELSE 0)
        /\ \A b \in 1 .. (n - 1 + 1) : old[b] = chain[1 + b - 1]
    BY <1>1, <1>2, <2>1, SubSeqProperties
  <2>. QED
    BY <1>2, <2>2
<1>5. chain' = old \o new
  BY <1>1 DEF Reorg
<1>. HIDE DEF n, old, new
<1>6. /\ chain' \in Seq(Block) /\ Len(chain') = n + d
      /\ \A b \in 1 .. n : chain'[b] = old[b]
      /\ \A b \in (n + 1) .. (n + d) : chain'[b] = new[b - n]
  <2>1. /\ chain' \in Seq(Block) /\ Len(chain') = n + d
        /\ \A b \in 1 .. (n + d) : chain'[b] = IF b <= n THEN old[b] ELSE new[b - n]
    BY <1>3, <1>4, <1>5, ConcatProperties
  <2>. QED
    BY <1>2, <2>1
<1>7. \A b \in (n + 1) .. (n + d) : b - n \in 1 .. d
  BY <1>2
<1>8. \A b \in (n + 1) .. (n + d) :
        chain'[b].hash = reorgs + 1 /\ Len(chain'[b].txs) <= MaxTxs
  BY <1>3, <1>6, <1>7
<1>9. ASSUME NEW b \in DOMAIN chain'
      PROVE  chain'[b].hash <= reorgs' /\ Len(chain'[b].txs) <= MaxTxs
  <2>1. b \in 1 .. n \/ b \in (n + 1) .. (n + d)
    BY <1>2, <1>6, SeqFacts
  <2>2. CASE b \in 1 .. n
    <3>1. chain'[b] = chain[b] /\ b \in DOMAIN chain
      BY <2>2, <1>1, <1>2, <1>4, <1>6
    <3>2. chain[b].hash <= reorgs /\ Len(chain[b].txs) <= MaxTxs
      BY <3>1 DEF ChainInv
    <3>3. chain[b].hash \in Nat
      BY <3>1, <1>1, SeqFacts
    <3>. QED
      BY <3>1, <3>2, <3>3, <1>1
  <2>3. CASE b \in (n + 1) .. (n + d)
    BY <2>3, <1>1, <1>8
  <2>. QED
    BY <2>1, <2>2, <2>3
<1>10. /\ Len(chain') = Len(chain)
       /\ \A b \in 1 .. n : chain'[b] = chain[b]
  BY <1>2, <1>4, <1>6
<1>. QED
  BY <1>1, <1>2, <1>6, <1>8, <1>9, <1>10 DEF n

-----------------------------------------------------------------------------
(* Types. *)

\* The initial state is well typed.
LEMMA InitType == IndexerInit => IndexerTypeOK
<1>. SUFFICES ASSUME IndexerInit PROVE IndexerTypeOK
  OBVIOUS
<1>1. chain \in Seq(Block)
  BY EmptySeq DEF IndexerInit
<1>. QED
  BY <1>1 DEF IndexerInit, IndexerTypeOK

\* The steps of the specification, one by one.
LEMMA Disjuncts ==
  ASSUME IndexerNext
  PROVE  \/ Poll \/ Fail \/ \E txs \in Content : Extend(txs)
         \/ \E d \in 1 .. regime.depth : \E contents \in [1 .. d -> Content] : Reorg(contents)
         \/ Restart \/ Reconcile \/ DeleteHolders \/ WriteHolder
         \/ Start \/ CheckCursor \/ StartRewind \/ DeleteLogs \/ MoveCursor
         \/ FindRange \/ FetchLogs \/ InsertTransfer \/ Debit \/ Credit
         \/ Anchor \/ Compare \/ Finish
BY Zenon DEF IndexerNext, PollStep, ChainStep

\* The balances written are balances.
LEMMA ReplaceType ==
  ASSUME IndexerTypeOK, TableInv, NEW rows \in SUBSET processed, Rebuildable(rows)
  PROVE  Balances(rows) \in [Holder -> Nat]
BY RebuiltType DEF IndexerTypeOK, TableInv

\* Where a poll goes on after reconciling.
LEMMA AfterType ==
  ASSUME NEW why \in {"restart", "rewind", "reorg", "end"}
  PROVE  After(why) \in {"start", "deleteLogs", "range", "finish"}
BY DEF After

\* The block a range ends with.
LEMMA LastOfRangeType ==
  ASSUME IndexerTypeOK, ChainInv, PollInv, pc = "fetch" \/ InRange
  PROVE  /\ LastOfRange \in Nat /\ LastOfRange >= cursor.block /\ LastOfRange <= head
         /\ IsConfirmed(LastOfRange)
<1>1. /\ cursor.block \in Nat /\ head \in Nat /\ gap \in Nat
      /\ cursor.block < head /\ (gap # 0 => gap \in (cursor.block + 1) .. head)
      /\ Len(chain) \in Nat
  BY ChainSeq, SeqFacts DEF IndexerTypeOK, PollInv
<1>2. LastOfRange \in Nat /\ LastOfRange >= cursor.block /\ LastOfRange <= head
  BY <1>1 DEF LastOfRange
<1>3. IsConfirmed(LastOfRange)
  BY <1>1, <1>2, Constants DEF ChainInv, IsConfirmed
<1>. QED
  BY <1>2, <1>3

\* First(logs) is one of them, and comes before all the others.
LEMMA FirstLog ==
  ASSUME NEW S \in SUBSET Row, S # {},
         \A q, r \in S : q.block = r.block /\ q.index = r.index => q = r
  PROVE  First(S) \in S /\ \A q \in S \ {First(S)} : LogBefore(First(S), q)
<1>. DEFINE R == {p \in S \X S : LogBefore(p[1], p[2])}
<1>1. IsFiniteSet(S)
  BY RowsFinite
<1>2. \A r \in S : r.index \in Nat /\ r.block \in Nat
  BY RowFields
<1>3. \A x \in S : <<x, x>> \notin R
  BY <1>2 DEF LogBefore
<1>4. \A x, y, z \in S : <<x, y>> \in R /\ <<y, z>> \in R => <<x, z>> \in R
  <2>. SUFFICES ASSUME NEW x \in S, NEW y \in S, NEW z \in S,
                       LogBefore(x, y), LogBefore(y, z)
                PROVE  LogBefore(x, z)
    OBVIOUS
  <2>. QED
    BY <1>2 DEF LogBefore
<1>5. PICK r \in S : \A q \in S : <<q, r>> \notin R
  <2>. HIDE DEF R
  <2>. QED  BY <1>1, <1>3, <1>4, MinimalElement
<1>6. ASSUME NEW q \in S \ {r}
      PROVE  LogBefore(r, q)
  <2>1. ~LogBefore(q, r)
    BY <1>5
  <2>2. q.block # r.block \/ q.index # r.index
    OBVIOUS
  <2>. QED
    BY <1>2, <2>1, <2>2 DEF LogBefore
<1>7. \E x \in S : \A q \in S \ {x} : LogBefore(x, q)
  BY <1>6
<1>. QED
  BY <1>7, Zenon DEF First

\* Every step keeps the types.
LEMMA TypeStep ==
  ASSUME CommonInv, [IndexerNext]_indexerVars
  PROVE  IndexerTypeOK'
<1>. USE DEF CommonInv
<1>1. CASE UNCHANGED indexerVars
  BY <1>1 DEF indexerVars, IndexerTypeOK
<1>2. CASE Poll
  BY <1>2 DEF Poll, environment, database, IndexerTypeOK
<1>3. CASE Fail
  <2>1. /\ head' \in Nat /\ gap' \in Nat /\ logs' \subseteq Row /\ log' \in Row \cup {NoRow}
        /\ forced' \in BOOLEAN /\ reason' \in {"restart", "rewind", "reorg", "end"}
        /\ rebuilt' \in [Holder -> Nat] /\ unwritten' \subseteq Holder
    BY <1>3 DEF Fail, Forget, Blank
  <2>2. faults' \in Nat /\ pc' \in {"idle", "restart"}
    BY <1>3 DEF Fail, IndexerTypeOK
  <2>. QED
    BY <1>3, <2>1, <2>2 DEF Fail, environment, database, IndexerTypeOK
<1>4. ASSUME NEW txs \in Content, Extend(txs)
      PROVE  IndexerTypeOK'
  BY <1>4, ExtendChain DEF Extend, database, poll, IndexerTypeOK
<1>5. ASSUME NEW d \in 1 .. regime.depth, NEW contents \in [1 .. d -> Content],
             Reorg(contents)
      PROVE  IndexerTypeOK'
  <2>1. d \in Nat \ {0}
    BY IndexerAssumption DEF IndexerTypeOK, RegimeType
  <2>2. chain' \in Seq(Block) /\ reorgs' \in Nat
    <3>1. reorgs' = reorgs + 1
      BY <1>5 DEF Reorg
    <3>. QED
      BY <1>5, <2>1, <3>1, ReorgChain, ChainSeq
  <2>. QED
    BY <1>5, <2>2 DEF Reorg, database, poll, IndexerTypeOK
<1>6. CASE Restart
  BY <1>6 DEF Restart, environment, database, IndexerTypeOK
<1>7. CASE Reconcile
  <2>1. reason \in {"restart", "rewind", "reorg", "end"}
    BY DEF IndexerTypeOK
  <2>2. CASE ~Rebuildable(processed)
    BY <1>7, <2>2 DEF Reconcile, Throw, environment, IndexerTypeOK
  <2>3. CASE Rebuildable(processed) /\ Mismatch
    <3>1. Balances(processed) \in [Holder -> Nat]
      BY <2>3, ReplaceType
    <3>. QED
      BY <1>7, <2>3, <3>1 DEF Reconcile, StartReplacing, environment, IndexerTypeOK
  <2>4. CASE Rebuildable(processed) /\ ~Mismatch
    BY <1>7, <2>1, <2>4, AfterType DEF Reconcile, environment, IndexerTypeOK
  <2>. QED
    BY <2>2, <2>3, <2>4
<1>8. CASE DeleteHolders
  BY <1>8 DEF DeleteHolders, environment, poll, IndexerTypeOK
<1>9. CASE WriteHolder
  <2>1. reason \in {"restart", "rewind", "reorg", "end"}
    BY DEF IndexerTypeOK
  <2>2. CASE unwritten = {}
    BY <1>9, <2>1, <2>2, AfterType DEF WriteHolder, environment, IndexerTypeOK
  <2>3. CASE unwritten # {}
    BY <1>9, <2>3 DEF WriteHolder, environment, IndexerTypeOK
  <2>. QED
    BY <2>2, <2>3
<1>10. CASE Start
  <2>1. head' \in Nat
    BY <1>10, ChainSeq, SeqFacts, Constants DEF Start, IndexableHead
  <2>. QED
    BY <1>10, <2>1 DEF Start, environment, IndexerTypeOK
<1>11. CASE CheckCursor
  BY <1>11 DEF CheckCursor, environment, poll, IndexerTypeOK
<1>12. CASE StartRewind
  <2>1. CASE Rebuildable(Kept(cursor.block))
    <3>1. Kept(cursor.block) \in SUBSET processed
      BY DEF Kept
    <3>2. Balances(Kept(cursor.block)) \in [Holder -> Nat]
      BY <2>1, <3>1, ReplaceType
    <3>. QED
      BY <1>12, <2>1, <3>2
         DEF StartRewind, StartReplacing, environment, database, IndexerTypeOK
  <2>2. CASE ~Rebuildable(Kept(cursor.block))
    BY <1>12, <2>2 DEF StartRewind, Throw, environment, database, IndexerTypeOK
  <2>. QED
    BY <2>1, <2>2
<1>13. CASE DeleteLogs
  BY <1>13 DEF DeleteLogs, Kept, environment, poll, IndexerTypeOK
<1>14. CASE MoveCursor
  <2>1. cursor.block \in Nat /\ cursor.block > 0 /\ IsConfirmed(cursor.block)
    BY <1>14 DEF MoveCursor, PollInv, Rewinding, ChainInv, IndexerTypeOK
  <2>2. cursor.block - 1 \in Nat /\ IsConfirmed(cursor.block - 1)
    BY <2>1, ChainSeq, SeqFacts, Constants DEF IsConfirmed
  <2>3. HashAt(cursor.block - 1) \in Nat
    BY <2>2, HashAtType
  <2>. QED
    BY <1>14, <2>2, <2>3 DEF MoveCursor, environment, IndexerTypeOK
<1>15. CASE FindRange
  <2>1. /\ gap' \in Nat /\ publicStatus' \in {OPENS_SOON, SYNCING}
        /\ reason' \in {"restart", "rewind", "reorg", "end"} /\ faults' \in Nat
        /\ pc' \in {"reconcile", "finish", "fetch"}
    <3>1. CASE cursor.block >= head
      BY <1>15, <3>1 DEF FindRange, IndexerTypeOK
    <3>2. CASE ~(cursor.block >= head)
      BY <1>15, <3>2 DEF FindRange, IndexerTypeOK
    <3>. QED
      BY <3>1, <3>2
  <2>2. gapStatus' \in BOOLEAN
    BY <1>15, Zenon DEF FindRange, IndexerTypeOK
  <2>. QED
    BY <1>15, <2>1, <2>2 DEF FindRange, environment, IndexerTypeOK
<1>16. CASE FetchLogs
  <2>1. LogsUpTo(LastOfRange) \subseteq Row
    BY LogsUpToRows
  <2>. QED
    BY <1>16, <2>1 DEF FetchLogs, environment, database, IndexerTypeOK
<1>17. CASE InsertTransfer
  <2>1. CASE logs = {}
    BY <1>17, <2>1 DEF InsertTransfer, environment, IndexerTypeOK
  <2>2. CASE logs # {}
    <3>1. First(logs) \in logs
      BY <1>17, <2>2, FirstLog DEF InsertTransfer, IndexerTypeOK, PollInv, InRange
    <3>. QED
      BY <1>17, <2>2, <3>1 DEF InsertTransfer, environment, IndexerTypeOK
  <2>. QED
    BY <2>1, <2>2
<1>18. CASE Debit
  <2>1. log \in Row
    BY <1>18 DEF Debit, SetBalance, PollInv, IndexerTypeOK
  <2>2. Value(log) \in Nat /\ (From(log) # Zero => From(log) \in Holder)
    BY <2>1, RowFields
  <2>3. holders' \in [Holder -> Nat] /\ pc' \in {"credit", "idle"}
    <3>1. CASE From(log) = Zero \/ ~Covers(From(log), Value(log))
      BY <1>18, <3>1 DEF Debit, SetBalance, Throw, IndexerTypeOK
    <3>2. CASE From(log) # Zero /\ Covers(From(log), Value(log))
      <4>1. holders[From(log)] - Value(log) \in Nat
        BY <2>2, <3>2 DEF Covers, IndexerTypeOK
      <4>2. /\ holders' = [holders EXCEPT ![From(log)] = @ - Value(log)]
            /\ pc' = "credit"
        BY <1>18, <3>2 DEF Debit, SetBalance
      <4>. QED
        BY <4>1, <4>2 DEF IndexerTypeOK
    <3>. QED
      BY <3>1, <3>2
  <2>. QED
    BY <1>18, <2>3 DEF Debit, SetBalance, environment, poll, IndexerTypeOK
<1>19. CASE Credit
  <2>1. log \in Row
    BY <1>19 DEF Credit, SetBalance, PollInv, IndexerTypeOK
  <2>2. Value(log) \in Nat /\ (To(log) # Zero => To(log) \in Holder)
    BY <2>1, RowFields
  <2>3. holders' \in [Holder -> Nat]
    BY <1>19, <2>2 DEF Credit, SetBalance, IndexerTypeOK
  <2>. QED
    BY <1>19, <2>3 DEF Credit, SetBalance, environment, poll, IndexerTypeOK
<1>20. CASE Anchor
  <2>1. LastOfRange \in Nat /\ HashAt(LastOfRange) \in Nat
    BY <1>20, LastOfRangeType, HashAtType DEF Anchor, InRange
  <2>2. /\ cursor' \in [block : Nat, hash : Nat \cup {NoHash}]
        /\ pc' \in {"compare", "idle"} /\ publicStatus' \in {OPENS_SOON, SYNCING}
        /\ faults' \in Nat
    BY <1>20, <2>1 DEF Anchor, Throw, IndexerTypeOK
  <2>3. indexedOnce' \in BOOLEAN /\ gapStatus' \in BOOLEAN
    BY <1>20, Zenon DEF Anchor, IndexerTypeOK
  <2>. QED
    BY <1>20, <2>2, <2>3 DEF Anchor, environment, poll, IndexerTypeOK
<1>21. CASE Compare
  BY <1>21 DEF Compare, Throw, environment, database, IndexerTypeOK
<1>22. CASE Finish
  BY <1>22 DEF Finish, Forget, Blank, environment, IndexerTypeOK
<1>. QED
  BY <1>1, <1>2, <1>3, <1>4, <1>5, <1>6, <1>7, <1>8, <1>9, <1>10, <1>11, <1>12,
     <1>13, <1>14, <1>15, <1>16, <1>17, <1>18, <1>19, <1>20, <1>21, <1>22, Disjuncts

-----------------------------------------------------------------------------
(* The chain, and how far the indexer is behind it. *)

\* What the invariant says of the chain depends on the chain, cursor and head alone.
LEMMA ChainInvUnchanged ==
  ASSUME ChainInv, UNCHANGED <<chain, reorgs>>, cursor' = cursor,
         head' = head \/ head' = 0
  PROVE  ChainInv'
BY Zenon DEF ChainInv, IsConfirmed

\* A chain that does not get shorter confirms what it confirmed.
LEMMA ConfirmedGrows ==
  ASSUME IndexerTypeOK, ChainInv, chain' \in Seq(Block), Len(chain') >= Len(chain),
         UNCHANGED <<cursor, head>>
  PROVE  /\ IsConfirmed(cursor.block)' /\ IsConfirmed(head)'
         /\ (cursor.hash = NoHash => cursor.block = 0 \/ IsConfirmed(cursor.block + 1))'
<1>1. Len(chain) \in Nat /\ Len(chain') \in Nat
  BY ChainSeq, SeqFacts
<1>2. cursor.block \in Nat /\ head \in Nat
  BY DEF IndexerTypeOK
<1>. QED
  BY <1>1, <1>2, Constants DEF ChainInv, IsConfirmed

\* Every step keeps what the invariant says of the chain and the cursor.
LEMMA ChainInvStep ==
  ASSUME CommonInv, [IndexerNext]_indexerVars
  PROVE  ChainInv'
<1>0. IndexerTypeOK /\ ChainInv /\ PollInv
  BY DEF CommonInv
<1>1. CASE UNCHANGED indexerVars
  BY <1>0, <1>1, ChainInvUnchanged DEF indexerVars
<1>2. CASE Poll \/ Restart \/ Reconcile \/ DeleteHolders \/ WriteHolder \/ CheckCursor
           \/ StartRewind \/ DeleteLogs \/ FindRange \/ FetchLogs \/ InsertTransfer
           \/ Debit \/ Credit \/ Compare \/ Finish \/ Fail
  <2>1. UNCHANGED <<chain, reorgs>> /\ cursor' = cursor /\ (head' = head \/ head' = 0)
    BY <1>2, Zenon DEF Poll, Restart, Reconcile, DeleteHolders, WriteHolder, CheckCursor,
           StartRewind, DeleteLogs, FindRange, FetchLogs, InsertTransfer, Debit, Credit,
           SetBalance, Compare, Finish, Fail, Forget, environment, database, poll
  <2>. QED
    BY <1>0, <2>1, ChainInvUnchanged
<1>3. CASE Start
  <2>1. UNCHANGED <<chain, reorgs, cursor>> /\ head' = IndexableHead
    BY <1>3 DEF Start, environment
  <2>2. IsConfirmed(IndexableHead)
    BY <1>0, ChainSeq, SeqFacts, Constants DEF IndexableHead, IsConfirmed
  <2>. QED
    BY <1>0, <2>1, <2>2, Zenon DEF ChainInv, IsConfirmed
<1>4. CASE MoveCursor
  <2>1. cursor.block \in Nat /\ cursor.block > 0 /\ IsConfirmed(cursor.block)
    BY <1>0, <1>4 DEF MoveCursor, PollInv, Rewinding, ChainInv, IndexerTypeOK
  <2>2. /\ cursor.block - 1 \in Nat /\ IsConfirmed(cursor.block - 1)
        /\ IsConfirmed((cursor.block - 1) + 1)
    BY <1>0, <2>1, ChainSeq, SeqFacts, Constants DEF IsConfirmed
  <2>3. /\ HashAt(cursor.block - 1) \in Nat /\ HashAt(cursor.block - 1) <= reorgs
        /\ cursor.block - 1 = 0 => HashAt(cursor.block - 1) = 0
    BY <1>0, <2>2, HashAtType
  <2>4. /\ cursor'.block = cursor.block - 1
        /\ cursor'.hash \in {HashAt(cursor.block - 1), NoHash}
        /\ UNCHANGED <<chain, reorgs, head>>
    BY <1>4 DEF MoveCursor, environment
  <2>. QED
    BY <1>0, <2>2, <2>3, <2>4, Constants DEF ChainInv, IsConfirmed
<1>5. CASE Anchor
  <2>1. LastOfRange \in Nat /\ IsConfirmed(LastOfRange)
    BY <1>0, <1>5, LastOfRangeType DEF Anchor, InRange
  <2>2. /\ HashAt(LastOfRange) \in Nat /\ HashAt(LastOfRange) <= reorgs
        /\ LastOfRange = 0 => HashAt(LastOfRange) = 0
    BY <1>0, <2>1, HashAtType
  <2>3. /\ UNCHANGED <<chain, reorgs, head>>
        /\ \/ cursor' = cursor
           \/ cursor'.block = LastOfRange /\ cursor'.hash = HashAt(LastOfRange)
    BY <1>5 DEF Anchor, environment, poll
  <2>4. CASE cursor' = cursor
    BY <1>0, <2>3, <2>4, ChainInvUnchanged
  <2>5. CASE cursor'.block = LastOfRange /\ cursor'.hash = HashAt(LastOfRange)
    BY <1>0, <2>1, <2>2, <2>3, <2>5, Constants DEF ChainInv, IsConfirmed
  <2>. QED
    BY <2>3, <2>4, <2>5
<1>6. ASSUME NEW txs \in Content, Extend(txs)
      PROVE  ChainInv'
  <2>1. UNCHANGED <<reorgs, cursor, head>> /\ ValidChain(chain)'
    BY <1>6 DEF Extend, database, poll
  <2>2. /\ chain' \in Seq(Block) /\ Len(chain') = Len(chain) + 1
        /\ Len(chain') <= MaxBlock
        /\ \A b \in DOMAIN chain' :
             chain'[b].hash <= reorgs' /\ Len(chain'[b].txs) <= MaxTxs
    BY <1>0, <1>6, ExtendChain
  <2>3. Len(chain') >= Len(chain)
    BY <1>0, <2>2, ChainSeq, SeqFacts
  <2>4. /\ IsConfirmed(cursor.block)' /\ IsConfirmed(head)'
        /\ (cursor.hash = NoHash => cursor.block = 0 \/ IsConfirmed(cursor.block + 1))'
    BY <1>0, <2>1, <2>2, <2>3, ConfirmedGrows
  <2>. QED
    BY <1>0, <2>1, <2>2, <2>4 DEF ChainInv
<1>7. ASSUME NEW d \in 1 .. regime.depth, NEW contents \in [1 .. d -> Content],
             Reorg(contents)
      PROVE  ChainInv'
  <2>1. /\ UNCHANGED <<cursor, head>> /\ reorgs' = reorgs + 1
        /\ ValidChain(chain)' /\ reorgs \in Nat
    BY <1>0, <1>7, ChainSeq DEF Reorg, database, poll
  <2>2. d \in Nat \ {0}
    BY <1>0, IndexerAssumption DEF IndexerTypeOK, RegimeType
  <2>3. /\ chain' \in Seq(Block) /\ Len(chain') = Len(chain)
        /\ \A b \in DOMAIN chain' :
             chain'[b].hash <= reorgs' /\ Len(chain'[b].txs) <= MaxTxs
    BY <1>0, <1>7, <2>2, ReorgChain
  <2>4. Len(chain') >= Len(chain)
    BY <1>0, <2>3, ChainSeq, SeqFacts
  <2>5. /\ IsConfirmed(cursor.block)' /\ IsConfirmed(head)'
        /\ (cursor.hash = NoHash => cursor.block = 0 \/ IsConfirmed(cursor.block + 1))'
    BY <1>0, <2>1, <2>3, <2>4, ConfirmedGrows
  <2>6. cursor.hash # NoHash => cursor.hash \in Nat /\ cursor.hash <= reorgs'
    BY <1>0, <2>1 DEF ChainInv, IndexerTypeOK
  <2>. QED
    BY <1>0, <2>1, <2>3, <2>5, <2>6 DEF ChainInv
<1>. QED
  BY <1>1, <1>2, <1>3, <1>4, <1>5, <1>6, <1>7, Disjuncts

-----------------------------------------------------------------------------
(* Where the poll is. *)

\* Every step keeps what the invariant says of where the poll is.
LEMMA PollInvStep ==
  ASSUME CommonInv, [IndexerNext]_indexerVars
  PROVE  PollInv'
<1>0. IndexerTypeOK /\ ChainInv /\ PollInv
  BY DEF CommonInv
<1>a. /\ cursor.block \in Nat /\ head \in Nat /\ gap \in Nat
      /\ reason \in {"restart", "rewind", "reorg", "end"}
  BY <1>0 DEF IndexerTypeOK
<1>1. CASE UNCHANGED indexerVars
  BY <1>0, <1>1 DEF indexerVars, PollInv, InRange, Rewinding, BeforeRange
<1>2. CASE Poll \/ Fail \/ Start \/ Finish \/ Compare \/ Restart
  <2>1. pc' \in {"start", "idle", "restart", "check", "reconcile", "finish"}
    BY <1>2 DEF Poll, Fail, Start, Finish, Compare, Throw, Restart
  <2>2. /\ pc' = "reconcile" => reason' \notin {"rewind", "reorg"}
        /\ pc' = "check" => gap' = 0
    BY <1>2 DEF Poll, Fail, Start, Finish, Compare, Throw, Restart
  <2>. QED
    BY <2>1, <2>2 DEF PollInv, InRange, Rewinding, BeforeRange
<1>3. CASE (\E txs \in Content : Extend(txs)) \/
           (\E d \in 1 .. regime.depth : \E contents \in [1 .. d -> Content] : Reorg(contents))
  <2>1. UNCHANGED <<database, pc, poll>>
    BY <1>3, Zenon DEF Extend, Reorg
  <2>. QED
    BY <1>0, <2>1 DEF database, poll, PollInv, InRange, Rewinding, BeforeRange
<1>4. CASE Reconcile
  <2>1. /\ pc = "reconcile" /\ reason # "rewind" /\ reason' = reason /\ cursor' = cursor
        /\ pc' \in {"idle", "replace", After(reason)} /\ gap' = gap
    BY <1>0, <1>4 DEF Reconcile, Throw, StartReplacing, PollInv
  <2>2. /\ After(reason) \in {"start", "range", "finish"}
        /\ After(reason) = "range" => reason = "reorg"
    BY <1>a, <2>1 DEF After
  <2>. QED
    BY <1>0, <2>1, <2>2 DEF PollInv, InRange, Rewinding, BeforeRange
<1>5. CASE DeleteHolders
  <2>1. pc = "replace" /\ pc' = "write" /\ UNCHANGED <<reason, cursor, gap>>
    BY <1>5 DEF DeleteHolders, poll
  <2>. QED
    BY <1>0, <2>1 DEF PollInv, InRange, Rewinding, BeforeRange
<1>6. CASE WriteHolder
  <2>1. /\ pc = "write" /\ pc' \in {"write", After(reason)}
        /\ UNCHANGED <<reason, cursor, gap>>
    BY <1>6 DEF WriteHolder
  <2>2. /\ After(reason) \in {"start", "range", "finish", "deleteLogs"}
        /\ After(reason) = "range" => reason = "reorg"
        /\ After(reason) = "deleteLogs" => reason = "rewind"
    BY <1>a DEF After
  <2>. QED
    BY <1>0, <2>1, <2>2 DEF PollInv, InRange, Rewinding, BeforeRange
<1>7. CASE CheckCursor
  <2>1. cursor' = cursor /\ pc' \in {"range", "rewind"} /\ gap' = gap /\ pc = "check"
    BY <1>7 DEF CheckCursor, poll
  <2>2. pc' = "rewind" => cursor.block > 0
    <3>1. SUFFICES ASSUME cursor.block = 0, pc' = "rewind" PROVE FALSE
      BY <1>a
    <3>2. cursor.hash \in {NoHash, 0}
      BY <1>0, <3>1 DEF ChainInv
    <3>. QED
      BY <1>7, <3>1, <3>2 DEF CheckCursor, HashAt, Orphaned
  <2>. QED
    BY <1>0, <2>1, <2>2 DEF PollInv, InRange, Rewinding, BeforeRange
<1>8. CASE StartRewind
  <2>1. cursor' = cursor /\ pc = "rewind" /\ pc' \in {"idle", "replace"}
        /\ gap' = gap
    BY <1>8 DEF StartRewind, StartReplacing, Throw, database
  <2>. QED
    BY <1>0, <2>1 DEF PollInv, InRange, Rewinding, BeforeRange
<1>9. CASE DeleteLogs
  <2>1. cursor' = cursor /\ pc = "deleteLogs" /\ pc' = "moveCursor"
        /\ gap' = gap
    BY <1>9 DEF DeleteLogs, poll
  <2>. QED
    BY <1>0, <2>1 DEF PollInv, InRange, Rewinding, BeforeRange
<1>10. CASE MoveCursor
  <2>1. pc = "moveCursor" /\ pc' = "reconcile" /\ reason' = "reorg" /\ gap' = gap
    BY <1>10 DEF MoveCursor
  <2>. QED
    BY <1>0, <2>1 DEF PollInv, InRange, Rewinding, BeforeRange
<1>11. CASE FindRange
  <2>1. /\ UNCHANGED <<cursor, head>>
        /\ pc' \in {"reconcile", "finish", "fetch"}
        /\ pc' = "reconcile" => reason' = "end"
    BY <1>11 DEF FindRange
  <2>2. pc' = "fetch" =>
          cursor.block < head /\ (gap' = gap \/ gap' \in (cursor.block + 1) .. head)
    BY <1>11, <1>a DEF FindRange
  <2>3. pc = "range"
    BY <1>11 DEF FindRange
  <2>4. gap = 0
    BY <1>0, <2>3 DEF PollInv, BeforeRange
  <2>. QED
    BY <2>1, <2>2, <2>4 DEF PollInv, InRange, Rewinding, BeforeRange
<1>12. CASE FetchLogs
  <2>1. /\ UNCHANGED <<cursor, head, gap>> /\ pc = "fetch" /\ pc' = "apply"
        /\ logs' \subseteq {r \in LogsOf(chain) : r.block > cursor.block}
    BY <1>12 DEF FetchLogs, LogsUpTo, database
  <2>2. \A q, r \in LogsOf(chain) : q.block = r.block /\ q.index = r.index => q = r
    BY <1>0, ChainSeq, LogsAt
  <2>. QED
    BY <1>0, <2>1, <2>2 DEF PollInv, InRange, Rewinding, BeforeRange
<1>13. CASE InsertTransfer
  <2>1. /\ UNCHANGED <<cursor, head, gap>> /\ logs' \subseteq logs /\ pc = "apply"
        /\ pc' \in {"anchor", "debit", "apply"}
        /\ pc' = "debit" => log' \in processed'
    BY <1>13 DEF InsertTransfer
  <2>. QED
    BY <1>0, <2>1 DEF PollInv, InRange, Rewinding, BeforeRange
<1>14. CASE Debit \/ Credit
  <2>1. /\ UNCHANGED <<cursor, head, gap, logs, log, processed>> /\ pc \in {"debit", "credit"}
        /\ pc' \in {"credit", "idle", "apply"}
    BY <1>14 DEF Debit, Credit, SetBalance, Throw, poll
  <2>. QED
    BY <1>0, <2>1 DEF PollInv, InRange, Rewinding, BeforeRange
<1>15. CASE Anchor
  <2>1. pc' \in {"compare", "idle"}
    BY <1>15 DEF Anchor, Throw
  <2>. QED
    BY <2>1 DEF PollInv, InRange, Rewinding, BeforeRange
<1>. QED
  BY <1>1, <1>2, <1>3, <1>4, <1>5, <1>6, <1>7, <1>8, <1>9, <1>10, <1>11, <1>12,
     <1>13, <1>14, <1>15, Disjuncts

-----------------------------------------------------------------------------
(* The tables. *)

\* A step that leaves the log alone and ends outside a replacement.
LEMMA TableInvKept ==
  ASSUME TableInv, processed' \subseteq processed, pc' \notin {"replace", "write"}
  PROVE  TableInv'
BY DEF TableInv

\* replaceBalances begins to write some balances.
LEMMA TableInvReplacing ==
  ASSUME TableInv, NEW rows, Balances(rows) \in [Holder -> Nat],
         StartReplacing(Balances(rows)), processed' = processed,
         rows = IF reason' = "rewind" THEN Kept(cursor.block)' ELSE processed'
  PROVE  TableInv'
<1>1. /\ pc' = "replace" /\ rebuilt' = Balances(rows)
      /\ unwritten' = {a \in Holder : Balances(rows)[a] > 0}
  BY DEF StartReplacing
<1>2. rebuilt' = Balances(IF reason' = "rewind" THEN Kept(cursor.block)' ELSE processed')
  BY <1>1
<1>3. \A a \in Holder : rebuilt'[a] \in Nat
  BY <1>1
<1>4. /\ \A a \in Holder : rebuilt'[a] = 0 => a \notin unwritten'
      /\ \A a \in Holder : rebuilt'[a] # 0 => a \in unwritten'
  BY <1>1, <1>3
<1>5. \A q, r \in processed' : q.tx = r.tx => q = r
  BY DEF TableInv
<1>. QED
  BY <1>1, <1>2, <1>4, <1>5 DEF TableInv

\* Every step keeps what the invariant says of the two tables.
LEMMA TableInvStep ==
  ASSUME CommonInv, [IndexerNext]_indexerVars
  PROVE  TableInv'
<1>0. IndexerTypeOK /\ ChainInv /\ PollInv /\ TableInv
  BY DEF CommonInv
<1>1. CASE UNCHANGED indexerVars
  BY <1>0, <1>1 DEF indexerVars, TableInv, Kept
<1>2. CASE Poll \/ Fail \/ Start \/ Finish \/ Compare \/ Restart \/ CheckCursor
           \/ DeleteLogs \/ MoveCursor \/ FindRange \/ FetchLogs \/ Debit \/ Credit
           \/ Anchor
  <2>1. pc' \notin {"replace", "write"}
    BY <1>2 DEF Poll, Fail, Start, Finish, Compare, Throw, Restart, CheckCursor,
           DeleteLogs, MoveCursor, FindRange, FetchLogs, Debit, Credit, SetBalance, Anchor
  <2>2. processed' \subseteq processed
    <3>1. CASE DeleteLogs
      BY <3>1 DEF DeleteLogs, Kept
    <3>2. CASE ~DeleteLogs
      <4>1. processed' = processed
        BY <1>2, <3>2, Zenon DEF Poll, Fail, Start, Finish, Compare, Restart, CheckCursor,
             MoveCursor, FindRange, FetchLogs, Debit, Credit, SetBalance, Anchor, database
      <4>. QED  BY <4>1
    <3>. QED
      BY <3>1, <3>2
  <2>. QED
    BY <1>0, <2>1, <2>2, TableInvKept
<1>3. CASE (\E txs \in Content : Extend(txs)) \/
           (\E d \in 1 .. regime.depth : \E contents \in [1 .. d -> Content] : Reorg(contents))
  <2>1. UNCHANGED <<database, pc, poll>>
    BY <1>3, Zenon DEF Extend, Reorg
  <2>. QED
    BY <1>0, <2>1 DEF database, poll, TableInv, Kept
<1>4. CASE Reconcile
  <2>1. CASE Rebuildable(processed) /\ Mismatch
    <3>1. Balances(processed) \in [Holder -> Nat]
      BY <1>0, <2>1, ReplaceType
    <3>2. /\ StartReplacing(Balances(processed)) /\ reason' = reason
          /\ processed' = processed /\ pc = "reconcile"
      BY <1>4, <2>1 DEF Reconcile
    <3>3. reason' # "rewind"
      BY <1>0, <3>2 DEF PollInv
    <3>. QED
      BY <1>0, <3>1, <3>2, <3>3, TableInvReplacing
  <2>2. CASE ~(Rebuildable(processed) /\ Mismatch)
    <3>1. processed' = processed /\ pc' \in {"idle", After(reason)}
      BY <1>4, <2>2 DEF Reconcile, Throw
    <3>2. pc' \notin {"replace", "write"}
      BY <1>0, <3>1, AfterType DEF IndexerTypeOK
    <3>. QED
      BY <1>0, <3>1, <3>2, TableInvKept
  <2>. QED
    BY <2>1, <2>2
<1>5. CASE StartRewind
  <2>1. CASE Rebuildable(Kept(cursor.block))
    <3>1. Kept(cursor.block) \in SUBSET processed
      BY DEF Kept
    <3>2. Balances(Kept(cursor.block)) \in [Holder -> Nat]
      BY <1>0, <2>1, <3>1, ReplaceType
    <3>3. /\ StartReplacing(Balances(Kept(cursor.block))) /\ reason' = "rewind"
          /\ processed' = processed /\ cursor' = cursor
      BY <1>5, <2>1 DEF StartRewind, database
    <3>4. Kept(cursor.block)' = Kept(cursor.block)
      BY <3>3 DEF Kept
    <3>. QED
      BY <1>0, <3>2, <3>3, <3>4, TableInvReplacing
  <2>2. CASE ~Rebuildable(Kept(cursor.block))
    <3>1. processed' = processed /\ pc' = "idle"
      BY <1>5, <2>2 DEF StartRewind, Throw, database
    <3>. QED
      BY <1>0, <3>1, TableInvKept
  <2>. QED
    BY <2>1, <2>2
<1>6. CASE DeleteHolders
  <2>1. /\ pc = "replace" /\ pc' = "write" /\ holders' = [a \in Holder |-> 0]
        /\ UNCHANGED <<rebuilt, unwritten, reason, processed, cursor>>
    BY <1>6 DEF DeleteHolders, poll
  <2>2. \A a \in Holder \ unwritten : holders'[a] = rebuilt[a]
    BY <1>0, <2>1 DEF TableInv
  <2>. QED
    BY <1>0, <2>1, <2>2 DEF TableInv, Kept
<1>7. CASE WriteHolder
  <2>1. CASE unwritten = {}
    <3>1. processed' = processed /\ pc' = After(reason)
      BY <1>7, <2>1 DEF WriteHolder
    <3>2. pc' \notin {"replace", "write"}
      BY <1>0, <3>1, AfterType DEF IndexerTypeOK
    <3>. QED
      BY <1>0, <3>1, <3>2, TableInvKept
  <2>2. CASE unwritten # {}
    <3>1. PICK a \in unwritten : /\ holders' = [holders EXCEPT ![a] = rebuilt[a]]
                                 /\ unwritten' = unwritten \ {a}
      BY <1>7, <2>2 DEF WriteHolder
    <3>2. /\ pc = "write" /\ pc' = "write"
          /\ UNCHANGED <<rebuilt, reason, processed, cursor>>
      BY <1>7, <2>2 DEF WriteHolder
    <3>3. \A x \in Holder \ unwritten' : holders'[x] = rebuilt'[x]
      <4>1. \A x \in Holder \ unwritten : holders[x] = rebuilt[x]
        BY <1>0, <3>2 DEF TableInv
      <4>2. holders \in [Holder -> Nat]
        BY <1>0 DEF IndexerTypeOK
      <4>. QED
        BY <3>1, <3>2, <4>1, <4>2
    <3>4. \A x \in Holder : rebuilt'[x] = 0 => x \notin unwritten'
      BY <1>0, <3>1, <3>2 DEF TableInv
    <3>5. rebuilt' = Balances(IF reason' = "rewind" THEN Kept(cursor.block)' ELSE processed')
      BY <1>0, <3>2 DEF TableInv, Kept
    <3>. QED
      BY <1>0, <3>2, <3>3, <3>4, <3>5 DEF TableInv
  <2>. QED
    BY <2>1, <2>2
<1>8. CASE InsertTransfer
  <2>1. pc = "apply" /\ pc' \in {"apply", "anchor", "debit"}
    BY <1>8 DEF InsertTransfer
  <2>2. processed' = processed \/ \E r : IsNew(r) /\ processed' = processed \cup {r}
    BY <1>8 DEF InsertTransfer
  <2>3. \A q, r \in processed' : q.tx = r.tx => q = r
    BY <1>0, <2>2 DEF TableInv, IsNew
  <2>. QED
    BY <2>1, <2>3 DEF TableInv
<1>. QED
  BY <1>1, <1>2, <1>3, <1>4, <1>5, <1>6, <1>7, <1>8, Disjuncts

\* The regime-free part of the invariant holds at the start,
LEMMA InitCommon == IndexerInit => CommonInv
<1>. SUFFICES ASSUME IndexerInit PROVE CommonInv
  OBVIOUS
<1>1. IndexerTypeOK
  BY InitType
<1>2. Len(chain) = 0 /\ DOMAIN chain = {} /\ LogsOf(chain) = {}
  BY DEF IndexerInit, LogsOf
<1>3. ChainInv
  BY <1>2, Constants DEF IndexerInit, ChainInv, ValidChain, NoUnderflow, IsConfirmed
<1>4. PollInv /\ TableInv
  BY DEF IndexerInit, PollInv, TableInv, InRange, Rewinding, BeforeRange
<1>. QED
  BY <1>1, <1>3, <1>4 DEF CommonInv

\* and every step keeps it.
LEMMA CommonStep == CommonInv /\ [IndexerNext]_indexerVars => CommonInv'
BY TypeStep, ChainInvStep, PollInvStep, TableInvStep, Zenon DEF CommonInv

\* Whatever fails and however the chain reorganises, the regime-free part of the
\* invariant holds: transactions are in the log once, and a replacement of the
\* balances writes what the log amounts to.
THEOREM CommonInvariance == IndexerSpec => []CommonInv
<1>. QED
  BY InitCommon, CommonStep, PTL DEF IndexerSpec

\* The state keeps its type, whatever fails and however the chain reorganises.
THEOREM IndexerTypeCorrect == IndexerSpec => []IndexerTypeOK
BY CommonInvariance, PTL DEF CommonInv

\* A step that ends a poll which indexed or reconciled leaves the balances equal to
\* what the log amounts to.
LEMMA BalancedStep ==
  ASSUME CommonInv, [IndexerNext]_indexerVars
  PROVE  [pc \notin {"range", "finish"} /\ pc' = "finish" =>
            holders' = Balances(processed')]_indexerVars
<1>0. IndexerTypeOK /\ PollInv /\ TableInv
  BY DEF CommonInv
<1>. SUFFICES ASSUME IndexerNext, pc \notin {"range", "finish"}, pc' = "finish"
              PROVE  holders' = Balances(processed')
  BY Zenon
<1>1. Reconcile \/ WriteHolder \/ Compare
  <2>1. ~(\E txs \in Content : Extend(txs))
    BY DEF Extend
  <2>2. ~(\E d \in 1 .. regime.depth : \E contents \in [1 .. d -> Content] : Reorg(contents))
    BY DEF Reorg
  <2>3. ~(\/ Poll \/ Fail \/ Restart \/ DeleteHolders
          \/ Start \/ CheckCursor \/ StartRewind \/ DeleteLogs \/ MoveCursor
          \/ FindRange \/ FetchLogs \/ InsertTransfer \/ Debit \/ Credit
          \/ Anchor \/ Finish)
    BY DEF Poll, Fail, Restart, DeleteHolders, Start, CheckCursor, StartRewind, StartReplacing,
           Throw, DeleteLogs, MoveCursor, FindRange, FetchLogs, InsertTransfer, Debit, Credit,
           SetBalance, Anchor, Finish
  <2>. QED
    BY <2>1, <2>2, <2>3, Disjuncts
<1>2. CASE Reconcile
  BY <1>2 DEF Reconcile, Throw, StartReplacing, Mismatch
<1>3. CASE WriteHolder
  <2>1. /\ unwritten = {} /\ pc = "write" /\ After(reason) = "finish"
        /\ UNCHANGED <<holders, processed>>
    BY <1>3 DEF WriteHolder
  <2>2. reason # "rewind"
    BY <2>1 DEF After
  <2>3. rebuilt = Balances(processed) /\ \A a \in Holder : holders[a] = rebuilt[a]
    BY <1>0, <2>1, <2>2 DEF TableInv
  <2>4. holders = rebuilt
    BY <1>0, <2>3 DEF IndexerTypeOK
  <2>. QED
    BY <2>1, <2>3, <2>4
<1>4. CASE Compare
  BY <1>4 DEF Compare, Throw, Mismatch, database
<1>. QED
  BY <1>1, <1>2, <1>3, <1>4

\* A poll that indexed or reconciled ends with the balances the log amounts to,
\* whatever fails, dies or reorganises on the way.
THEOREM PollsEndBalanced == IndexerSpec => PollEndsBalanced
BY CommonInvariance, BalancedStep, PTL DEF IndexerSpec, PollEndsBalanced

-----------------------------------------------------------------------------
(* The chain's steps leave the blocks that are deep enough alone. *)

\* Blocks up to the n-th are as they were.
SameUpTo(n) == \A b \in 1 .. n : chain'[b] = chain[b]

\* Up to blocks that are the same, so are the logs and the hashes.
LEMMA SameLogs ==
  ASSUME IndexerTypeOK, chain' \in Seq(Block), Len(chain') >= Len(chain),
         NEW n \in Nat, n <= Len(chain), SameUpTo(n)
  PROVE  /\ {r \in LogsOf(chain') : r.block <= n} = LogsUpTo(n)
         /\ (IF n = 0 THEN 0 ELSE chain'[n].hash) = HashAt(n)
<1>1. chain \in Seq(Block) /\ Len(chain) \in Nat /\ Len(chain') \in Nat
  BY ChainSeq, SeqFacts
<1>2. ASSUME NEW r \in LogsOf(chain), r.block <= n
      PROVE  r \in LogsOf(chain')
  BY <1>1, <1>2, SamePrefix DEF SameUpTo
<1>3. ASSUME NEW r \in LogsOf(chain'), r.block <= n
      PROVE  r \in LogsOf(chain)
  BY <1>1, <1>3, SamePrefix DEF SameUpTo
<1>4. n # 0 => chain'[n].hash = chain[n].hash
  BY DEF SameUpTo
<1>. QED
  BY <1>2, <1>3, <1>4 DEF LogsUpTo, HashAt

\* A log of such a block was a log before.
LEMMA SameRow ==
  ASSUME IndexerTypeOK, chain' \in Seq(Block), Len(chain') >= Len(chain),
         NEW n \in Nat, n <= Len(chain), SameUpTo(n),
         NEW r \in LogsOf(chain), r.block <= n
  PROVE  r \in LogsOf(chain')
<1>1. r \in LogsUpTo(n)
  BY DEF LogsUpTo
<1>. QED
  BY <1>1, SameLogs

\* A new block changes none of the blocks before it.
LEMMA ExtendSame ==
  ASSUME IndexerTypeOK, ChainInv, NEW txs \in Content, Extend(txs)
  PROVE  /\ chain' \in Seq(Block) /\ Len(chain') >= Len(chain)
         /\ SameUpTo(Len(chain))
<1>1. chain \in Seq(Block) /\ Len(chain) \in Nat
  BY ChainSeq, SeqFacts
<1>2. /\ chain' \in Seq(Block) /\ Len(chain') = Len(chain) + 1
      /\ \A b \in 1 .. Len(chain) : chain'[b] = chain[b]
  BY ExtendChain
<1>. QED
  BY <1>1, <1>2 DEF SameUpTo

\* A reorg changes none of the blocks before those it replaces.
LEMMA ReorgSame ==
  ASSUME IndexerTypeOK, ChainInv, NEW d \in 1 .. regime.depth,
         NEW contents \in [1 .. d -> Content], Reorg(contents)
  PROVE  /\ chain' \in Seq(Block) /\ Len(chain') >= Len(chain) /\ d <= Len(chain)
         /\ d \in Nat \ {0} /\ regime.depth \in Nat /\ Len(chain') = Len(chain)
         /\ SameUpTo(Len(chain) - d)
         /\ \A b \in (Len(chain) - d + 1) .. Len(chain) : chain'[b].hash = reorgs + 1
<1>1. chain \in Seq(Block) /\ Len(chain) \in Nat
  BY ChainSeq, SeqFacts
<1>2. d \in Nat \ {0} /\ regime.depth \in Nat
  BY IndexerAssumption DEF IndexerTypeOK, RegimeType
<1>. QED
  BY <1>1, <1>2, ReorgChain DEF SameUpTo

\* Blocks that are the same up to one are the same up to an earlier one.
LEMMA SameUpToLess ==
  ASSUME NEW n \in Nat, NEW m \in Int, m <= n, SameUpTo(n)
  PROVE  SameUpTo(m)
BY DEF SameUpTo

-----------------------------------------------------------------------------
(* When reorgs stay within the blocks that are not confirmed. *)

\* The chain grew or was replaced past the confirmed blocks.
LEMMA ShallowChain ==
  ASSUME IndexerTypeOK, ChainInv, PollInv, ShallowInv,
         chain' \in Seq(Block), Len(chain') >= Len(chain),
         \A n \in Nat : n + LIVE_CONFIRMATIONS <= Len(chain) => SameUpTo(n),
         UNCHANGED <<regime, database, pc, poll>>
  PROVE  ShallowInv'
<1>1. chain \in Seq(Block) /\ Len(chain) \in Nat /\ Len(chain') \in Nat
  BY ChainSeq, SeqFacts
<1>2. ASSUME NEW n \in Nat, IsConfirmed(n)
      PROVE  n <= Len(chain) /\ SameUpTo(n)
  <2>1. CASE n = 0
    BY <1>1, <2>1 DEF SameUpTo
  <2>2. CASE n # 0
    BY <1>1, <1>2, <2>2, Constants DEF IsConfirmed
  <2>. QED
    BY <2>1, <2>2
<1>3. cursor.block \in Nat /\ IsConfirmed(cursor.block)
  BY DEF IndexerTypeOK, ChainInv
<1>4. LogsUpTo(cursor.block)' = LogsUpTo(cursor.block) /\ HashAt(cursor.block)' = HashAt(cursor.block)
  BY <1>1, <1>2, <1>3, SameLogs DEF LogsUpTo, HashAt, database
<1>5. pc = "moveCursor" => LogsUpTo(cursor.block - 1)' = LogsUpTo(cursor.block - 1)
  <2>. SUFFICES ASSUME pc = "moveCursor"
                PROVE  LogsUpTo(cursor.block - 1)' = LogsUpTo(cursor.block - 1)
    OBVIOUS
  <2>1. cursor.block - 1 \in Nat /\ cursor.block <= Len(chain)
    BY <1>1, <1>2, <1>3 DEF PollInv, Rewinding
  <2>2. SameUpTo(cursor.block - 1) /\ cursor.block - 1 <= Len(chain)
    BY <1>1, <1>2, <1>3, <2>1, SameUpToLess
  <2>. QED
    BY <1>1, <2>1, <2>2, SameLogs DEF LogsUpTo, database
<1>6. InRange => LogsUpTo(LastOfRange)' = LogsUpTo(LastOfRange)
  <2>. SUFFICES ASSUME InRange
                PROVE  LogsUpTo(LastOfRange)' = LogsUpTo(LastOfRange)
    OBVIOUS
  <2>1. LastOfRange \in Nat /\ IsConfirmed(LastOfRange)
    BY LastOfRangeType
  <2>2. LastOfRange' = LastOfRange
    BY DEF LastOfRange, poll
  <2>. QED
    BY <1>1, <1>2, <2>1, <2>2, SameLogs DEF LogsUpTo
<1>7. ASSUME NEW r \in processed
      PROVE  r \in LogsOf(chain') /\ IsConfirmed(r.block)'
  <2>1. r \in LogsOf(chain) /\ IsConfirmed(r.block) /\ r.block \in Nat
    BY RowFields DEF ShallowInv, IndexerTypeOK
  <2>2. r \in LogsOf(chain')
    BY <1>1, <1>2, <2>1, SameRow
  <2>3. IsConfirmed(r.block)'
    BY <1>1, <2>1, Constants DEF IsConfirmed
  <2>. QED
    BY <2>2, <2>3
<1>8. OnChain'
  BY <1>4 DEF ShallowInv, OnChain, database
<1>9. Rewinding' = Rewinding /\ InRange' = InRange /\ pc' = pc
  BY DEF Rewinding, InRange, poll
<1>10. UNCHANGED <<processed, cursor, logs, regime>>
  BY DEF database, poll
<1>11. LogsUpTo(IF pc = "moveCursor" THEN cursor.block - 1 ELSE cursor.block)' \subseteq processed'
  BY <1>4, <1>5, <1>9, <1>10 DEF ShallowInv
<1>12. InRange' => /\ logs' \subseteq LogsUpTo(LastOfRange)'
                   /\ LogsUpTo(LastOfRange)' \subseteq processed' \cup logs'
  BY <1>6, <1>9, <1>10 DEF ShallowInv
<1>. QED
  BY <1>7, <1>8, <1>9, <1>10, <1>11, <1>12 DEF ShallowInv

\* A step that writes neither the log nor the cursor, and begins no range.
LEMMA ShallowKept ==
  ASSUME ShallowInv, UNCHANGED <<environment, processed, cursor>>,
         pc # "moveCursor", pc' \notin {"moveCursor", "anchor"},
         Rewinding' => "nullCursorHash" \in regime.fault,
         InRange' => InRange /\ UNCHANGED <<logs, head, gap>>
  PROVE  ShallowInv'
<1>1. chain' = chain /\ regime' = regime
  BY DEF environment
<1>2. InRange' => LastOfRange' = LastOfRange /\ logs' = logs /\ InRange
  BY DEF LastOfRange
<1>3. OnChain'
  BY <1>1 DEF ShallowInv, OnChain, HashAt
<1>4. \A r \in processed : IsConfirmed(r.block)'
  BY <1>1 DEF ShallowInv, IsConfirmed
<1>5. LogsUpTo(cursor.block)' = LogsUpTo(cursor.block)
  BY <1>1 DEF LogsUpTo
<1>6. InRange' => LogsUpTo(LastOfRange)' = LogsUpTo(LastOfRange)
  BY <1>1, <1>2 DEF LogsUpTo
<1>. QED
  BY <1>1, <1>2, <1>3, <1>4, <1>5, <1>6 DEF ShallowInv

\* Every step of a shallow regime keeps its invariant.
LEMMA ShallowStep ==
  ASSUME CommonInv, ~ReorgInPoll, Shallow(regime), ShallowInv, [IndexerNext]_indexerVars
  PROVE  ShallowInv'
<1>0. IndexerTypeOK /\ ChainInv /\ PollInv /\ TableInv
  BY DEF CommonInv
<1>a. cursor.block \in Nat /\ reason \in {"restart", "rewind", "reorg", "end"}
  BY <1>0 DEF IndexerTypeOK
<1>1. CASE UNCHANGED indexerVars
  BY <1>1 DEF indexerVars, ShallowInv, OnChain, HashAt, Rewinding, IsConfirmed, LogsUpTo,
              InRange, LastOfRange
<1>2. CASE Poll \/ Start \/ Finish \/ Compare \/ Restart \/ FindRange
  <2>1. /\ UNCHANGED <<environment, processed, cursor>> /\ pc # "moveCursor"
        /\ pc' \in {"start", "check", "idle", "reconcile", "finish", "fetch"}
        /\ pc' = "reconcile" => reason' # "rewind"
    BY <1>2 DEF Poll, Start, Finish, Compare, Restart, FindRange, Throw, database
  <2>. QED
    BY <2>1, ShallowKept DEF Rewinding, InRange
<1>3. CASE Fail
  <2>1. /\ UNCHANGED <<environment, processed, cursor>> /\ pc' \in {"idle", "restart"}
        /\ regime.fault \cap {"error", "crash"} # {}
    BY <1>3 DEF Fail, database, May
  <2>2. pc # "moveCursor"
    BY <2>1 DEF ShallowInv, Shallow, Rewinding
  <2>. QED
    BY <2>1, <2>2, ShallowKept DEF Rewinding, InRange
<1>4. CASE Reconcile
  <2>1. /\ UNCHANGED <<environment, processed, cursor>> /\ pc = "reconcile"
        /\ reason' = reason /\ reason # "rewind"
        /\ pc' \in {"idle", "replace", After(reason)}
    BY <1>0, <1>4 DEF Reconcile, Throw, StartReplacing, PollInv
  <2>2. After(reason) \in {"start", "range", "finish"}
    BY <1>a, <2>1 DEF After
  <2>. QED
    BY <2>1, <2>2, ShallowKept DEF Rewinding, InRange
<1>5. CASE DeleteHolders \/ WriteHolder
  <2>1. /\ UNCHANGED <<environment, processed, cursor>> /\ pc \in {"replace", "write"}
        /\ reason' = reason /\ pc' \in {"write", After(reason)}
    BY <1>5 DEF DeleteHolders, WriteHolder, poll
  <2>2. /\ After(reason) \in {"start", "range", "finish", "deleteLogs"}
        /\ After(reason) = "deleteLogs" => reason = "rewind"
    BY <1>a DEF After
  <2>3. Rewinding' => Rewinding
    BY <2>1, <2>2 DEF Rewinding
  <2>. QED
    BY <2>1, <2>2, <2>3, ShallowKept DEF InRange, ShallowInv
<1>6. CASE CheckCursor
  <2>1. /\ UNCHANGED <<environment, processed, cursor>> /\ pc = "check"
        /\ pc' \in {"range", "rewind"}
    BY <1>6 DEF CheckCursor
  <2>2. pc' = "rewind" => "nullCursorHash" \in regime.fault
    <3>. SUFFICES ASSUME pc' = "rewind" PROVE "nullCursorHash" \in regime.fault
      OBVIOUS
    <3>1. PICK hash \in {HashAt(cursor.block), NoHash} :
            /\ hash = NoHash => May("nullCursorHash")
            /\ Orphaned(hash)
      BY <1>6 DEF CheckCursor
    <3>2. cursor.hash # NoHash
      BY <1>6 DEF CheckCursor
    <3>3. hash = NoHash
      BY <3>1, <3>2 DEF Orphaned, ShallowInv, OnChain
    <3>. QED
      BY <3>1, <3>3 DEF May
  <2>. QED
    BY <2>1, <2>2, ShallowKept DEF Rewinding, InRange
<1>7. CASE StartRewind
  <2>1. /\ UNCHANGED <<environment, processed, cursor>> /\ pc = "rewind"
        /\ pc' \in {"replace", "idle"}
    BY <1>7 DEF StartRewind, StartReplacing, Throw, database
  <2>2. "nullCursorHash" \in regime.fault
    BY <2>1 DEF ShallowInv, Rewinding
  <2>. QED
    BY <2>1, <2>2, ShallowKept DEF InRange
<1>8. CASE DeleteLogs
  <2>1. /\ chain' = chain /\ regime' = regime /\ cursor' = cursor
        /\ pc = "deleteLogs" /\ pc' = "moveCursor" /\ processed' = Kept(cursor.block)
    BY <1>8 DEF DeleteLogs, environment
  <2>2. processed' \subseteq processed
    BY <2>1 DEF Kept
  <2>3. LogsUpTo(cursor.block - 1)' \subseteq processed'
    <3>1. ASSUME NEW r \in LogsUpTo(cursor.block - 1)
          PROVE  r \in Kept(cursor.block)
      <4>1. r \in LogsOf(chain) /\ r.block <= cursor.block - 1 /\ r.block \in Nat
        BY <1>0, LogsUpToRows, RowFields DEF LogsUpTo
      <4>2. r \in LogsUpTo(cursor.block) /\ r.block < cursor.block
        BY <1>a, <4>1 DEF LogsUpTo
      <4>. QED
        BY <2>1, <4>2 DEF ShallowInv, Kept
    <3>. QED
      BY <2>1, <3>1 DEF LogsUpTo
  <2>4. "nullCursorHash" \in regime.fault
    BY <2>1 DEF ShallowInv, Rewinding
  <2>5. OnChain' /\ \A r \in processed' : IsConfirmed(r.block)'
    BY <2>1, <2>2 DEF ShallowInv, OnChain, HashAt, IsConfirmed
  <2>. QED
    BY <2>1, <2>2, <2>3, <2>4, <2>5 DEF ShallowInv, InRange
<1>9. CASE MoveCursor
  <2>1. /\ chain' = chain /\ regime' = regime /\ processed' = processed
        /\ pc = "moveCursor" /\ pc' = "reconcile"
        /\ cursor'.block = cursor.block - 1
        /\ cursor'.hash \in {HashAt(cursor.block - 1), NoHash}
    BY <1>9 DEF MoveCursor, environment
  <2>2. OnChain'
    BY <2>1 DEF OnChain, HashAt
  <2>3. LogsUpTo(cursor.block)' \subseteq processed'
    BY <2>1 DEF ShallowInv, LogsUpTo
  <2>4. \A r \in processed' : IsConfirmed(r.block)'
    BY <2>1 DEF ShallowInv, IsConfirmed
  <2>. QED
    BY <2>1, <2>2, <2>3, <2>4 DEF ShallowInv, InRange, Rewinding
<1>10. CASE FetchLogs
  <2>1. /\ chain' = chain /\ regime' = regime /\ processed' = processed /\ cursor' = cursor
        /\ pc = "fetch" /\ pc' = "apply" /\ LastOfRange' = LastOfRange
        /\ logs' = {r \in LogsUpTo(LastOfRange) : r.block > cursor.block /\ r.block # gap}
    BY <1>10 DEF FetchLogs, environment, database, LastOfRange
  <2>2. LogsUpTo(LastOfRange) \subseteq processed \cup logs'
    <3>1. ASSUME NEW r \in LogsUpTo(LastOfRange), r \notin logs'
          PROVE  r \in processed
      <4>1. r.block \in Nat /\ r.block >= 1 /\ r.block <= LastOfRange /\ r \in LogsOf(chain)
        BY <1>0, LogsUpToRows, RowFields DEF LogsUpTo
      <4>2. gap \in Nat
        BY <1>0 DEF IndexerTypeOK
      <4>3. r.block # gap
        BY <4>1, <4>2 DEF LastOfRange
      <4>4. r.block <= cursor.block
        BY <1>a, <2>1, <3>1, <4>1, <4>3
      <4>. QED
        BY <2>1, <4>1, <4>4 DEF ShallowInv, LogsUpTo
    <3>. QED
      BY <3>1
  <2>3. OnChain' /\ \A r \in processed' : IsConfirmed(r.block)'
    BY <2>1 DEF ShallowInv, OnChain, HashAt, IsConfirmed
  <2>. QED
    BY <2>1, <2>2, <2>3 DEF ShallowInv, InRange, Rewinding, LogsUpTo
<1>11. CASE InsertTransfer
  <2>1. /\ chain' = chain /\ regime' = regime /\ cursor' = cursor
        /\ pc = "apply" /\ pc' \in {"apply", "debit", "anchor"}
        /\ LastOfRange' = LastOfRange
        /\ pc' = "anchor" => logs' = {}
    BY <1>11 DEF InsertTransfer, environment, LastOfRange
  <2>2. /\ logs \subseteq LogsUpTo(LastOfRange)
        /\ LogsUpTo(LastOfRange) \subseteq processed \cup logs
        /\ processed \subseteq LogsOf(chain)
    BY <2>1 DEF ShallowInv, InRange
  <2>3. /\ processed \subseteq processed' /\ logs' \subseteq logs
        /\ processed' \subseteq processed \cup logs
        /\ logs \subseteq processed' \cup logs'
    <3>1. CASE logs = {}
      BY <1>11, <3>1 DEF InsertTransfer
    <3>2. CASE logs # {} /\ IsNew(First(logs))
      <4>1. First(logs) \in logs
        BY <1>0, <2>1, <3>2, FirstLog DEF IndexerTypeOK, PollInv, InRange
      <4>. QED
        BY <1>11, <3>2, <4>1 DEF InsertTransfer
    <3>3. CASE logs # {} /\ ~IsNew(First(logs))
      <4>1. First(logs) \in logs
        BY <1>0, <2>1, <3>3, FirstLog DEF IndexerTypeOK, PollInv, InRange
      <4>2. PICK q \in processed : q.tx = First(logs).tx
        BY <3>3 DEF IsNew
      <4>3. q = First(logs)
        BY <1>0, <2>2, <4>1, <4>2 DEF ChainInv, ValidChain, LogsUpTo
      <4>4. processed' = processed /\ logs' = logs \ {First(logs)}
        BY <1>11, <3>3 DEF InsertTransfer
      <4>. QED
        BY <4>2, <4>3, <4>4
    <3>. QED
      BY <3>1, <3>2, <3>3
  <2>4. LastOfRange \in Nat /\ IsConfirmed(LastOfRange)
    BY <1>0, <2>1, LastOfRangeType DEF InRange
  <2>5. ASSUME NEW r \in logs
        PROVE  r \in LogsOf(chain) /\ IsConfirmed(r.block)
    <3>1. r \in LogsOf(chain) /\ r.block <= LastOfRange /\ r.block \in Nat /\ r.block >= 1
      BY <1>0, <2>2, LogsUpToRows, RowFields DEF LogsUpTo
    <3>2. Len(chain) \in Nat
      BY <1>0, ChainSeq, SeqFacts
    <3>. QED
      BY <2>4, <3>1, <3>2, Constants DEF IsConfirmed
  <2>6. processed' \subseteq LogsOf(chain) /\ \A r \in processed' : IsConfirmed(r.block)
    BY <2>3, <2>5 DEF ShallowInv
  <2>7. /\ logs' \subseteq LogsUpTo(LastOfRange)
        /\ LogsUpTo(LastOfRange) \subseteq processed' \cup logs'
    BY <2>2, <2>3
  <2>8. LogsUpTo(cursor.block) \subseteq processed'
    BY <2>1, <2>3 DEF ShallowInv
  <2>9. OnChain'
    BY <2>1 DEF ShallowInv, OnChain, HashAt
  <2>10. /\ LogsUpTo(cursor.block)' = LogsUpTo(cursor.block)
         /\ LogsUpTo(LastOfRange)' = LogsUpTo(LastOfRange)
         /\ \A r \in processed' : IsConfirmed(r.block)'
    BY <2>1, <2>6 DEF LogsUpTo, IsConfirmed
  <2>. QED
    BY <2>1, <2>6, <2>7, <2>8, <2>9, <2>10 DEF ShallowInv, InRange, Rewinding
<1>12. CASE Debit \/ Credit
  <2>1. /\ UNCHANGED <<environment, processed, cursor, logs, head, gap>>
        /\ pc \in {"debit", "credit"} /\ pc' \in {"credit", "apply", "idle"}
    BY <1>12 DEF Debit, Credit, SetBalance, Throw, poll
  <2>. QED
    BY <2>1, ShallowKept DEF Rewinding, InRange
<1>13. CASE Anchor
  <2>1. CASE cursor' = cursor
    <3>1. /\ UNCHANGED <<environment, processed>> /\ pc = "anchor" /\ pc' \in {"idle", "compare"}
      BY <1>13 DEF Anchor, Throw
    <3>. QED
      BY <2>1, <3>1, ShallowKept DEF Rewinding, InRange
  <2>2. CASE cursor' # cursor
    <3>1. /\ cursor' = [block |-> LastOfRange, hash |-> HashAt(LastOfRange)]
          /\ chain' = chain /\ regime' = regime /\ processed' = processed
          /\ pc = "anchor" /\ pc' = "compare"
      BY <1>13, <2>2 DEF Anchor, environment
    <3>2. LogsUpTo(LastOfRange) \subseteq processed
      BY <3>1 DEF ShallowInv, InRange
    <3>3. LogsUpTo(cursor.block)' \subseteq processed'
      BY <3>1, <3>2 DEF LogsUpTo
    <3>4. OnChain'
      BY <3>1 DEF OnChain, HashAt
    <3>5. \A r \in processed' : IsConfirmed(r.block)'
      BY <3>1 DEF ShallowInv, IsConfirmed
    <3>. QED
      BY <3>1, <3>3, <3>4, <3>5 DEF ShallowInv, InRange, Rewinding
  <2>. QED
    BY <2>1, <2>2
<1>14. ASSUME NEW txs \in Content, Extend(txs)
       PROVE  ShallowInv'
  <2>1. /\ chain' \in Seq(Block) /\ Len(chain') >= Len(chain) /\ SameUpTo(Len(chain))
        /\ Len(chain) \in Nat
    BY <1>0, <1>14, ExtendSame, ChainSeq, SeqFacts
  <2>2. \A n \in Nat : n + LIVE_CONFIRMATIONS <= Len(chain) => SameUpTo(n)
    BY <2>1, SameUpToLess, Constants
  <2>3. UNCHANGED <<regime, database, pc, poll>>
    BY <1>14 DEF Extend
  <2>. QED
    BY <1>0, <2>1, <2>2, <2>3, ShallowChain
<1>15. ASSUME NEW d \in 1 .. regime.depth, NEW contents \in [1 .. d -> Content],
              Reorg(contents)
       PROVE  ShallowInv'
  <2>1. /\ chain' \in Seq(Block) /\ Len(chain') >= Len(chain) /\ SameUpTo(Len(chain) - d)
        /\ d \in Nat /\ d <= Len(chain) /\ regime.depth \in Nat /\ Len(chain) \in Nat
    BY <1>0, <1>15, ReorgSame, ChainSeq, SeqFacts
  <2>2. d <= LIVE_CONFIRMATIONS
    BY <2>1, Constants DEF Shallow
  <2>3. \A n \in Nat : n + LIVE_CONFIRMATIONS <= Len(chain) => SameUpTo(n)
    <3>. SUFFICES ASSUME NEW n \in Nat, n + LIVE_CONFIRMATIONS <= Len(chain)
                  PROVE  SameUpTo(n)
      OBVIOUS
    <3>1. n <= Len(chain) - d /\ Len(chain) - d \in Nat
      BY <2>1, <2>2, Constants
    <3>. QED
      BY <2>1, <3>1, SameUpToLess
  <2>4. UNCHANGED <<regime, database, pc, poll>>
    BY <1>15 DEF Reorg
  <2>. QED
    BY <1>0, <2>1, <2>3, <2>4, ShallowChain
<1>. QED
  BY <1>1, <1>2, <1>3, <1>4, <1>5, <1>6, <1>7, <1>8, <1>9, <1>10, <1>11, <1>12,
     <1>13, <1>14, <1>15, Disjuncts

\* Which holds at the start.
LEMMA ShallowInit == IndexerInit => ShallowInv
<1>. SUFFICES ASSUME IndexerInit PROVE ShallowInv
  OBVIOUS
<1>1. LogsOf(chain) = {} /\ processed = {} /\ pc = "restart" /\ cursor.hash = NoHash
  BY DEF IndexerInit, LogsOf
<1>. QED
  BY <1>1 DEF ShallowInv, OnChain, Rewinding, InRange, LogsUpTo

-----------------------------------------------------------------------------
(* When reorgs reach the last indexed block at most. *)

\* A step that writes neither the log nor the cursor, and begins no range.
LEMMA RowsKept ==
  ASSUME RowsInv, chain' = chain, UNCHANGED <<processed, cursor>>,
         pc # "moveCursor", pc' \notin {"moveCursor", "anchor"},
         InRange' => InRange /\ UNCHANGED <<logs, log, head, gap>>,
         InRange => InRange',
         pc' \in {"debit", "credit"} => pc \in {"debit", "credit"},
         pc' \in {"range", "fetch", "compare", "finish"} => OnChain,
         pc' \in {"reconcile", "replace", "write"} /\ reason' \in {"reorg", "end"}
           => OnChain
  PROVE  RowsInv'
<1>1. InRange' => LastOfRange' = LastOfRange /\ logs' = logs /\ log' = log /\ InRange
  BY DEF LastOfRange
<1>2. OnChain' = OnChain
  BY DEF OnChain, HashAt
<1>3. /\ LogsUpTo(cursor.block)' = LogsUpTo(cursor.block)
      /\ LogsUpTo(cursor.block - 1)' = LogsUpTo(cursor.block - 1)
      /\ Kept(cursor.block)' = Kept(cursor.block)
      /\ InRange' => LogsUpTo(LastOfRange)' = LogsUpTo(LastOfRange)
  BY <1>1 DEF LogsUpTo, Kept
<1>4. Kept(cursor.block) = LogsUpTo(cursor.block - 1)
  BY DEF RowsInv
<1>5. OnChain /\ ~InRange' => processed = LogsUpTo(cursor.block)
  BY DEF RowsInv
<1>6. InRange' => OnChain
  BY <1>1 DEF RowsInv
<1>7. InRange' =>
       /\ logs \subseteq LogsUpTo(LastOfRange)
       /\ processed = LogsUpTo(LastOfRange) \ logs
       /\ \A r \in logs : \A q \in LogsUpTo(LastOfRange) : LogBefore(r, q) => q \in logs
  BY <1>1 DEF RowsInv
<1>8. pc' \in {"debit", "credit"} =>
        /\ \A r \in logs : LogBefore(log, r)
        /\ \A q \in LogsUpTo(LastOfRange) : LogBefore(log, q) => q \in logs
        /\ InRange'
  BY DEF RowsInv, InRange
<1>9. Kept(cursor.block)' = LogsUpTo(cursor.block - 1)'
  BY <1>3, <1>4
<1>10. OnChain' /\ ~InRange' => processed' = LogsUpTo(cursor.block)'
  BY <1>2, <1>3, <1>5
<1>11. InRange' =>
       /\ logs' \subseteq LogsUpTo(LastOfRange)'
       /\ processed' = LogsUpTo(LastOfRange)' \ logs'
       /\ \A r \in logs' : \A q \in LogsUpTo(LastOfRange)' : LogBefore(r, q) => q \in logs'
  BY <1>1, <1>3, <1>7
<1>12. pc' \in {"debit", "credit"} =>
        /\ \A r \in logs' : LogBefore(log', r)
        /\ \A q \in LogsUpTo(LastOfRange)' : LogBefore(log', q) => q \in logs'
  BY <1>1, <1>3, <1>8
<1>. QED
  BY <1>2, <1>6, <1>9, <1>10, <1>11, <1>12 DEF RowsInv

\* The logs up to a block are those before it and its own.
LEMMA LogsUpToSplit ==
  ASSUME IndexerTypeOK, ChainInv, NEW n \in Int
  PROVE  {r \in LogsUpTo(n) : r.block < n} = LogsUpTo(n - 1)
<1>1. \A r \in LogsOf(chain) : r.block \in Nat
  BY LogsUpToRows, RowFields
<1>. QED
  BY <1>1 DEF LogsUpTo

\* The chain grew, or its last blocks from the cursor's on were replaced.
LEMMA RowsChain ==
  ASSUME IndexerTypeOK, ChainInv, PollInv, RowsInv,
         chain' \in Seq(Block), Len(chain') >= Len(chain),
         cursor.block > 0 => SameUpTo(cursor.block - 1),
         SameUpTo(cursor.block) \/
           (/\ pc \in {"idle", "restart"} /\ cursor.block > 0
            /\ chain'[cursor.block].hash > reorgs /\ cursor.hash # NoHash),
         InRange => SameUpTo(LastOfRange),
         UNCHANGED <<database, pc, poll>>
  PROVE  RowsInv'
<1>1. chain \in Seq(Block) /\ Len(chain) \in Nat /\ Len(chain') \in Nat
  BY ChainSeq, SeqFacts
<1>2. ASSUME NEW n \in Nat, IsConfirmed(n)
      PROVE  n <= Len(chain)
  BY <1>1, <1>2, Constants DEF IsConfirmed
<1>3. /\ cursor.block \in Nat /\ cursor.block <= Len(chain) /\ reorgs \in Nat
      /\ cursor.hash \in Nat \cup {NoHash}
  BY <1>2 DEF IndexerTypeOK, ChainInv
<1>4. UNCHANGED <<processed, cursor, logs, log, pc, reason>> /\ LastOfRange' = LastOfRange
      /\ InRange' = InRange
  BY DEF database, poll, LastOfRange, InRange
<1>5. LogsUpTo(cursor.block - 1)' = LogsUpTo(cursor.block - 1)
  <2>1. CASE cursor.block > 0
    <3>1. cursor.block - 1 \in Nat /\ cursor.block - 1 <= Len(chain)
      BY <1>1, <1>3, <2>1
    <3>. QED
      BY <1>1, <1>4, <2>1, <3>1, SameLogs DEF LogsUpTo
  <2>2. CASE cursor.block = 0
    <3>1. \A r \in LogsOf(chain) : r.block \in Nat /\ r.block >= 1
      BY <1>1, LogsAt
    <3>2. \A r \in LogsOf(chain') : r.block \in Nat /\ r.block >= 1
      BY <1>1, LogsAt
    <3>. QED
      BY <1>4, <2>2, <3>1, <3>2 DEF LogsUpTo
  <2>. QED
    BY <1>3, <2>1, <2>2
<1>6. Kept(cursor.block)' = LogsUpTo(cursor.block - 1)'
  BY <1>4, <1>5 DEF RowsInv, Kept
<1>7. SameUpTo(cursor.block) =>
        /\ LogsUpTo(cursor.block)' = LogsUpTo(cursor.block)
        /\ HashAt(cursor.block)' = HashAt(cursor.block)
  BY <1>1, <1>3, <1>4, SameLogs DEF LogsUpTo, HashAt
<1>8. ~SameUpTo(cursor.block) => ~OnChain'
  <2>. SUFFICES ASSUME ~SameUpTo(cursor.block) PROVE ~OnChain'
    OBVIOUS
  <2>1. cursor.block > 0 /\ chain'[cursor.block].hash > reorgs
    OBVIOUS
  <2>2. cursor.hash # NoHash /\ cursor.hash <= reorgs
    BY DEF ChainInv
  <2>3. chain'[cursor.block].hash \in Nat
    BY <1>1, <1>3, <2>1, SeqFacts
  <2>4. cursor.hash # chain'[cursor.block].hash
    BY <1>3, <2>1, <2>2, <2>3
  <2>. QED
    BY <1>4, <2>1, <2>2, <2>4 DEF OnChain, HashAt
<1>9. OnChain' => SameUpTo(cursor.block) /\ OnChain
  BY <1>4, <1>7, <1>8 DEF OnChain
<1>10. OnChain /\ SameUpTo(cursor.block) => OnChain'
  BY <1>4, <1>7 DEF OnChain
<1>11. OnChain' /\ pc' # "moveCursor" /\ ~InRange' => processed' = LogsUpTo(cursor.block)'
  BY <1>4, <1>7, <1>9 DEF RowsInv
<1>12. (pc' \in {"range", "fetch", "compare", "finish"} \/ InRange' => OnChain')
  <2>1. pc' \in {"range", "fetch", "compare", "finish"} \/ InRange' =>
          OnChain /\ pc \notin {"idle", "restart"}
    BY <1>4 DEF RowsInv, InRange
  <2>. QED
    BY <1>10, <2>1
<1>13. pc' \in {"reconcile", "replace", "write"} /\ reason' \in {"reorg", "end"} => OnChain'
  <2>1. pc' \in {"reconcile", "replace", "write"} /\ reason' \in {"reorg", "end"} =>
          OnChain /\ pc \notin {"idle", "restart"}
    BY <1>4 DEF RowsInv
  <2>. QED
    BY <1>10, <2>1
<1>14. pc' = "moveCursor" => processed' = LogsUpTo(cursor.block - 1)'
  BY <1>4, <1>5 DEF RowsInv
<1>15. InRange => LogsUpTo(LastOfRange)' = LogsUpTo(LastOfRange)
  <2>. SUFFICES ASSUME InRange
                PROVE  LogsUpTo(LastOfRange)' = LogsUpTo(LastOfRange)
    OBVIOUS
  <2>1. LastOfRange \in Nat /\ LastOfRange <= Len(chain)
    BY <1>2, LastOfRangeType
  <2>. QED
    BY <1>1, <1>4, <2>1, SameLogs DEF LogsUpTo
<1>16. InRange' =>
       /\ logs' \subseteq LogsUpTo(LastOfRange)'
       /\ processed' = LogsUpTo(LastOfRange)' \ logs'
       /\ \A r \in logs' : \A q \in LogsUpTo(LastOfRange)' : LogBefore(r, q) => q \in logs'
  BY <1>4, <1>15 DEF RowsInv
<1>17. pc' \in {"debit", "credit"} =>
        /\ \A r \in logs' : LogBefore(log', r)
        /\ \A q \in LogsUpTo(LastOfRange)' : LogBefore(log', q) => q \in logs'
  BY <1>4, <1>15 DEF RowsInv, InRange
<1>18. pc' = "anchor" => logs' = {}
  BY <1>4 DEF RowsInv
<1>. QED
  BY <1>6, <1>11, <1>12, <1>13, <1>14, <1>16, <1>17, <1>18 DEF RowsInv

\* In a range, the next log is new, and comes after all that were inserted.
LEMMA NextLog ==
  ASSUME IndexerTypeOK, ChainInv, PollInv, RowsInv, pc = "apply", logs # {}
  PROVE  /\ First(logs) \in logs /\ IsNew(First(logs)) /\ First(logs) \notin processed
         /\ \A q \in logs \ {First(logs)} : LogBefore(First(logs), q)
<1>1. /\ First(logs) \in logs
      /\ \A q \in logs \ {First(logs)} : LogBefore(First(logs), q)
  BY FirstLog DEF IndexerTypeOK, PollInv, InRange
<1>2. logs \subseteq LogsOf(chain) /\ processed \subseteq LogsOf(chain) \ logs
  BY DEF RowsInv, InRange, LogsUpTo
<1>3. \A q \in processed : q.tx # First(logs).tx
  BY <1>1, <1>2 DEF ChainInv, ValidChain
<1>. QED
  BY <1>1, <1>2, <1>3 DEF IsNew

\* Every step of an orderly regime keeps what its invariant says of the log,
LEMMA RowsStep ==
  ASSUME CommonInv, ~ReorgInPoll, Orderly(regime), RowsInv, HoldersInv,
         [IndexerNext]_indexerVars,
         \* The sender of a log has what the log takes.
         pc = "debit" /\ From(log) # Zero => Covers(From(log), Value(log))
  PROVE  RowsInv'
<1>0. IndexerTypeOK /\ ChainInv /\ PollInv /\ TableInv
  BY DEF CommonInv
<1>a. cursor.block \in Nat /\ reason \in {"restart", "rewind", "reorg", "end"}
  BY <1>0 DEF IndexerTypeOK
<1>1. CASE UNCHANGED indexerVars
  BY <1>1 DEF indexerVars, RowsInv, OnChain, HashAt, LogsUpTo, InRange, LastOfRange, Kept
<1>2. CASE Poll \/ Start \/ Finish \/ Restart
  <2>1. /\ chain' = chain /\ UNCHANGED <<processed, cursor>>
        /\ pc \in {"idle", "start", "finish", "restart"}
        /\ pc' \in {"start", "check", "idle", "reconcile"}
        /\ pc' = "reconcile" => reason' = "restart"
    BY <1>2 DEF Poll, Start, Finish, Restart, database, environment
  <2>. QED
    BY <2>1, RowsKept DEF InRange
<1>3. CASE Fail
  BY <1>3 DEF Fail, May, Orderly
<1>4. CASE FindRange \/ Compare
  <2>1. /\ chain' = chain /\ UNCHANGED <<processed, cursor>>
        /\ pc \in {"range", "compare"} /\ pc' \in {"idle", "reconcile", "finish", "fetch"}
    BY <1>4 DEF FindRange, Compare, Throw, database, environment
  <2>2. OnChain
    BY <2>1 DEF RowsInv
  <2>. QED
    BY <2>1, <2>2, RowsKept DEF InRange
<1>5. CASE Reconcile
  <2>1. /\ chain' = chain /\ UNCHANGED <<processed, cursor>> /\ pc = "reconcile"
        /\ reason' = reason /\ reason # "rewind"
        /\ pc' \in {"idle", "replace", After(reason)}
    BY <1>0, <1>5 DEF Reconcile, Throw, StartReplacing, PollInv, environment
  <2>2. /\ After(reason) \in {"start", "range", "finish"}
        /\ After(reason) \in {"range", "finish"} => reason \in {"reorg", "end"}
    BY <1>a, <2>1 DEF After
  <2>3. reason \in {"reorg", "end"} => OnChain
    BY <2>1 DEF RowsInv
  <2>. QED
    BY <2>1, <2>2, <2>3, RowsKept DEF InRange
<1>6. CASE DeleteHolders \/ WriteHolder
  <2>1. /\ chain' = chain /\ UNCHANGED <<processed, cursor>> /\ pc \in {"replace", "write"}
        /\ reason' = reason /\ pc' \in {"write", After(reason)}
    BY <1>6 DEF DeleteHolders, WriteHolder, poll, environment
  <2>2. /\ After(reason) \in {"start", "range", "finish", "deleteLogs"}
        /\ After(reason) \in {"range", "finish"} => reason \in {"reorg", "end"}
    BY <1>a DEF After
  <2>3. reason \in {"reorg", "end"} => OnChain
    BY <2>1 DEF RowsInv
  <2>. QED
    BY <2>1, <2>2, <2>3, RowsKept DEF InRange
<1>7. CASE CheckCursor
  <2>1. /\ chain' = chain /\ UNCHANGED <<processed, cursor>> /\ pc = "check"
        /\ pc' \in {"range", "rewind"}
    BY <1>7 DEF CheckCursor, environment
  <2>2. pc' = "range" => OnChain
    <3>. SUFFICES ASSUME pc' = "range", cursor.hash # NoHash PROVE OnChain
      BY DEF OnChain
    <3>1. PICK hash \in {HashAt(cursor.block), NoHash} : ~Orphaned(hash)
      BY <1>7 DEF CheckCursor
    <3>. QED
      BY <3>1 DEF Orphaned, OnChain
  <2>. QED
    BY <2>1, <2>2, RowsKept DEF InRange
<1>8. CASE StartRewind
  <2>1. /\ chain' = chain /\ UNCHANGED <<processed, cursor>> /\ pc = "rewind"
        /\ pc' \in {"replace", "idle"} /\ reason' = "rewind"
    BY <1>8 DEF StartRewind, StartReplacing, Throw, database, environment
  <2>. QED
    BY <2>1, RowsKept DEF InRange
<1>9. CASE DeleteLogs
  <2>1. /\ chain' = chain /\ cursor' = cursor
        /\ pc' = "moveCursor" /\ processed' = Kept(cursor.block)
    BY <1>9 DEF DeleteLogs, environment
  <2>2. processed' = LogsUpTo(cursor.block - 1)'
    BY <2>1 DEF RowsInv, LogsUpTo
  <2>3. Kept(cursor.block)' = Kept(cursor.block)
    BY <2>1 DEF Kept
  <2>4. Kept(cursor.block)' = LogsUpTo(cursor.block - 1)'
    BY <2>1, <2>2, <2>3
  <2>. QED
    BY <2>1, <2>2, <2>4 DEF RowsInv, InRange
<1>10. CASE MoveCursor
  <2>1. /\ chain' = chain /\ processed' = processed
        /\ pc = "moveCursor" /\ pc' = "reconcile" /\ reason' = "reorg"
        /\ cursor'.block = cursor.block - 1
        /\ cursor'.hash \in {HashAt(cursor.block - 1), NoHash}
    BY <1>10 DEF MoveCursor, environment
  <2>2. processed = LogsUpTo(cursor.block - 1)
    BY <2>1 DEF RowsInv
  <2>3. OnChain' /\ processed' = LogsUpTo(cursor.block)'
    BY <2>1, <2>2 DEF OnChain, HashAt, LogsUpTo
  <2>4. {r \in LogsUpTo(cursor.block - 1) : r.block < cursor.block - 1}
          = LogsUpTo((cursor.block - 1) - 1)
    BY <1>0, <1>a, LogsUpToSplit
  <2>5. Kept(cursor.block)' = LogsUpTo(cursor.block - 1)'
    BY <2>1, <2>2, <2>4 DEF Kept, LogsUpTo
  <2>. QED
    BY <2>1, <2>3, <2>5 DEF RowsInv, InRange
<1>11. CASE FetchLogs
  <2>1. /\ chain' = chain /\ processed' = processed /\ cursor' = cursor
        /\ pc = "fetch" /\ pc' = "apply" /\ LastOfRange' = LastOfRange
        /\ logs' = {r \in LogsUpTo(LastOfRange) : r.block > cursor.block /\ r.block # gap}
    BY <1>11 DEF FetchLogs, environment, database, LastOfRange
  <2>2. OnChain /\ processed = LogsUpTo(cursor.block)
        /\ Kept(cursor.block) = LogsUpTo(cursor.block - 1)
    BY <2>1 DEF RowsInv, InRange
  <2>3. LastOfRange \in Nat /\ LastOfRange >= cursor.block
    BY <1>0, <2>1, LastOfRangeType
  <2>4. ASSUME NEW r \in LogsUpTo(LastOfRange)
        PROVE  /\ r \in logs' <=> r.block > cursor.block
               /\ r \in processed <=> r.block <= cursor.block
               /\ r.block \in Nat
    <3>1. r.block \in Nat /\ r.block >= 1 /\ r.block <= LastOfRange /\ r \in LogsOf(chain)
      BY <1>0, LogsUpToRows, RowFields DEF LogsUpTo
    <3>2. gap \in Nat
      BY <1>0 DEF IndexerTypeOK
    <3>3. r.block # gap
      BY <3>1, <3>2 DEF LastOfRange
    <3>. QED
      BY <2>1, <2>2, <3>1, <3>3 DEF LogsUpTo
  <2>5. processed \subseteq LogsUpTo(LastOfRange)
    <3>1. ASSUME NEW r \in processed
          PROVE  r \in LogsUpTo(LastOfRange)
      <4>1. r \in LogsOf(chain) /\ r.block <= cursor.block /\ r.block \in Nat
        BY <1>0, <2>2, LogsUpToRows, RowFields DEF LogsUpTo
      <4>. QED
        BY <1>a, <2>3, <4>1 DEF LogsUpTo
    <3>. QED
      BY <3>1
  <2>6. /\ logs' \subseteq LogsUpTo(LastOfRange)
        /\ processed = LogsUpTo(LastOfRange) \ logs'
    BY <1>a, <2>1, <2>4, <2>5
  <2>7. \A r \in logs' : \A q \in LogsUpTo(LastOfRange) : LogBefore(r, q) => q \in logs'
    BY <1>a, <2>4, <2>6 DEF LogBefore
  <2>8. /\ OnChain' /\ Kept(cursor.block)' = LogsUpTo(cursor.block - 1)'
        /\ LogsUpTo(LastOfRange)' = LogsUpTo(LastOfRange)
    BY <2>1, <2>2 DEF OnChain, HashAt, Kept, LogsUpTo
  <2>. QED
    BY <2>1, <2>6, <2>7, <2>8 DEF RowsInv, InRange
<1>12. CASE InsertTransfer
  <2>1. /\ chain' = chain /\ cursor' = cursor /\ pc = "apply" /\ LastOfRange' = LastOfRange
    BY <1>12 DEF InsertTransfer, environment, LastOfRange
  <2>2. /\ OnChain /\ Kept(cursor.block) = LogsUpTo(cursor.block - 1)
        /\ logs \subseteq LogsUpTo(LastOfRange)
        /\ processed = LogsUpTo(LastOfRange) \ logs
        /\ \A r \in logs : \A q \in LogsUpTo(LastOfRange) : LogBefore(r, q) => q \in logs
    BY <2>1 DEF RowsInv, InRange
  <2>3. /\ OnChain' /\ LogsUpTo(cursor.block - 1)' = LogsUpTo(cursor.block - 1)
        /\ LogsUpTo(LastOfRange)' = LogsUpTo(LastOfRange)
    BY <2>1, <2>2 DEF OnChain, HashAt, LogsUpTo
  <2>4. CASE logs = {}
    <3>1. processed' = processed /\ logs' = {} /\ pc' = "anchor"
      BY <1>12, <2>4 DEF InsertTransfer
    <3>2. Kept(cursor.block)' = Kept(cursor.block)
      BY <2>1, <3>1 DEF Kept
    <3>. QED
      BY <2>1, <2>2, <2>3, <2>4, <3>1, <3>2 DEF RowsInv, InRange
  <2>5. CASE logs # {}
    <3>. DEFINE f == First(logs)
    <3>1. f \in logs /\ IsNew(f) /\ \A q \in logs \ {f} : LogBefore(f, q)
      BY <1>0, <2>1, <2>5, NextLog
    <3>2. /\ processed' = processed \cup {f} /\ logs' = logs \ {f}
          /\ log' = f /\ pc' = "debit"
      BY <1>12, <2>5, <3>1 DEF InsertTransfer
    <3>. HIDE DEF f
    <3>3. f.block > cursor.block /\ f.block \in Nat
      BY <1>0, <2>1, <3>1, RowFields DEF PollInv, InRange, IndexerTypeOK
    <3>4. Kept(cursor.block)' = Kept(cursor.block)
      BY <1>a, <2>1, <3>2, <3>3 DEF Kept
    <3>5. \A x, y \in LogsUpTo(LastOfRange) : LogBefore(x, y) => ~LogBefore(y, x)
      <4>1. \A x \in LogsUpTo(LastOfRange) : x.block \in Nat /\ x.index \in Nat
        BY <1>0, LogsUpToRows, RowFields
      <4>. QED
        BY <4>1 DEF LogBefore
    <3>6. \A q \in LogsUpTo(LastOfRange) : LogBefore(f, q) => q \in logs'
      BY <2>2, <3>1, <3>2, <3>5
    <3>7. \A r \in logs' : \A q \in LogsUpTo(LastOfRange) : LogBefore(r, q) => q \in logs'
      BY <2>2, <3>1, <3>2, <3>5
    <3>8. processed' = LogsUpTo(LastOfRange) \ logs' /\ logs' \subseteq LogsUpTo(LastOfRange)
      BY <2>2, <3>1, <3>2
    <3>9. \A r \in logs' : LogBefore(f, r)
      BY <3>1, <3>2
    <3>. QED
      BY <2>1, <2>2, <2>3, <3>2, <3>4, <3>6, <3>7, <3>8, <3>9 DEF RowsInv, InRange
  <2>. QED
    BY <2>4, <2>5
<1>13. CASE Debit \/ Credit
  <2>1. /\ chain' = chain /\ UNCHANGED <<processed, cursor, logs, log, head, gap>>
        /\ pc \in {"debit", "credit"} /\ pc' \in {"credit", "apply"}
    BY <1>13 DEF Debit, Credit, SetBalance, Throw, poll, environment
  <2>. QED
    BY <2>1, RowsKept DEF InRange
<1>14. CASE Anchor
  <2>1. /\ cursor'.block = LastOfRange /\ cursor'.hash = HashAt(LastOfRange)
        /\ chain' = chain /\ processed' = processed /\ pc = "anchor" /\ pc' = "compare"
    BY <1>14 DEF Anchor, environment, May, Orderly
  <2>2. processed = LogsUpTo(LastOfRange)
    BY <2>1 DEF RowsInv, InRange
  <2>3. LastOfRange \in Nat
    BY <1>0, <2>1, LastOfRangeType DEF InRange
  <2>4. OnChain' /\ processed' = LogsUpTo(cursor.block)'
    BY <2>1, <2>2 DEF OnChain, HashAt, LogsUpTo
  <2>5. Kept(cursor.block)' = LogsUpTo(cursor.block - 1)'
    <3>1. {r \in LogsUpTo(LastOfRange) : r.block < LastOfRange} = LogsUpTo(LastOfRange - 1)
      BY <1>0, <2>3, LogsUpToSplit
    <3>. QED
      BY <2>1, <2>2, <3>1 DEF Kept, LogsUpTo
  <2>. QED
    BY <2>1, <2>4, <2>5 DEF RowsInv, InRange
<1>15. ASSUME NEW txs \in Content, Extend(txs)
       PROVE  RowsInv'
  <2>1. /\ chain' \in Seq(Block) /\ Len(chain') >= Len(chain) /\ SameUpTo(Len(chain))
        /\ Len(chain) \in Nat
    BY <1>0, <1>15, ExtendSame, ChainSeq, SeqFacts
  <2>2. ASSUME NEW n \in Nat, IsConfirmed(n)
        PROVE  n <= Len(chain)
    BY <2>1, <2>2, Constants DEF IsConfirmed
  <2>3. cursor.block <= Len(chain)
    BY <1>0, <1>a, <2>2 DEF ChainInv
  <2>4. SameUpTo(cursor.block) /\ (cursor.block > 0 => SameUpTo(cursor.block - 1))
    BY <1>a, <2>1, <2>3, SameUpToLess
  <2>5. InRange => SameUpTo(LastOfRange)
    BY <1>0, <2>1, <2>2, LastOfRangeType, SameUpToLess
  <2>6. UNCHANGED <<database, pc, poll>>
    BY <1>15 DEF Extend
  <2>. QED
    BY <1>0, <2>1, <2>4, <2>5, <2>6, RowsChain
<1>16. ASSUME NEW d \in 1 .. regime.depth, NEW contents \in [1 .. d -> Content],
              Reorg(contents)
       PROVE  RowsInv'
  <2>1. /\ chain' \in Seq(Block) /\ Len(chain') >= Len(chain) /\ SameUpTo(Len(chain) - d)
        /\ d \in Nat \ {0} /\ d <= Len(chain) /\ regime.depth \in Nat /\ Len(chain) \in Nat
        /\ \A b \in (Len(chain) - d + 1) .. Len(chain) : chain'[b].hash = reorgs + 1
    BY <1>0, <1>16, ReorgSame, ChainSeq, SeqFacts
  <2>2. d <= LIVE_CONFIRMATIONS + 1
    BY <2>1, Constants DEF Orderly
  <2>3. UNCHANGED <<database, pc, poll>> /\ pc \in {"idle", "restart"}
    BY <1>16 DEF Reorg
  <2>4. cursor.block = 0 \/ cursor.block + LIVE_CONFIRMATIONS <= Len(chain)
    BY <1>0 DEF ChainInv, IsConfirmed
  <2>5. cursor.block > 0 => SameUpTo(cursor.block - 1)
    <3>. SUFFICES ASSUME cursor.block > 0 PROVE SameUpTo(cursor.block - 1)
      OBVIOUS
    <3>1. cursor.block - 1 <= Len(chain) - d /\ Len(chain) - d \in Nat
      BY <1>a, <2>1, <2>2, <2>4, Constants
    <3>. QED
      BY <1>a, <2>1, <3>1, SameUpToLess
  <2>6. CASE cursor.block <= Len(chain) - d
    <3>1. SameUpTo(cursor.block)
      BY <1>a, <2>1, <2>6, SameUpToLess
    <3>. QED
      BY <1>0, <2>1, <2>3, <2>5, <3>1, RowsChain DEF InRange
  <2>7. CASE ~(cursor.block <= Len(chain) - d)
    <3>1. cursor.block \in (Len(chain) - d + 1) .. Len(chain) /\ cursor.block > 0
      BY <1>a, <2>1, <2>4, <2>7, Constants
    <3>2. chain'[cursor.block].hash > reorgs
      <4>1. reorgs \in Nat
        BY <1>0, ChainSeq
      <4>2. chain'[cursor.block].hash = reorgs + 1
        BY <2>1, <3>1
      <4>. QED
        BY <4>1, <4>2
    <3>3. cursor.hash # NoHash
      BY <1>0, <1>a, <2>1, <2>2, <3>1, Constants DEF ChainInv, IsConfirmed
    <3>. QED
      BY <1>0, <2>1, <2>3, <2>5, <3>1, <3>2, <3>3, RowsChain DEF InRange
  <2>. QED
    BY <2>6, <2>7
<1>. QED
  BY <1>1, <1>2, <1>3, <1>4, <1>5, <1>6, <1>7, <1>8, <1>9, <1>10, <1>11, <1>12,
     <1>13, <1>14, <1>15, <1>16, Disjuncts

\* The sender of the log being applied has what it takes: what is in the holders
\* table are the transfers before it.
LEMMA Covered ==
  ASSUME IndexerTypeOK, ChainInv, PollInv, RowsInv, HoldersInv, pc = "debit",
         From(log) # Zero
  PROVE  Covers(From(log), Value(log))
<1>. DEFINE before == {q \in LogsOf(chain) : LogBefore(q, log)}
<1>1. /\ logs \subseteq LogsUpTo(LastOfRange)
      /\ processed = LogsUpTo(LastOfRange) \ logs
      /\ \A r \in logs : LogBefore(log, r)
      /\ \A q \in LogsUpTo(LastOfRange) : LogBefore(log, q) => q \in logs
      /\ holders = Balances(processed \ {log})
  BY DEF RowsInv, HoldersInv, InRange
<1>2. log \in processed /\ log \in LogsOf(chain) /\ log.block <= LastOfRange
  BY <1>1 DEF PollInv, LogsUpTo
<1>3. \A q \in LogsOf(chain) : q \in Row /\ q.block \in Nat /\ q.index \in Nat
  BY LogsUpToRows, RowFields
<1>4. \A q \in LogsOf(chain) : q.block = log.block /\ q.index = log.index => q = log
  BY <1>2, ChainSeq, LogsAt
<1>5. LastOfRange \in Nat
  BY LastOfRangeType DEF InRange
<1>6. ASSUME NEW q \in processed, q # log
      PROVE  q \in before
  <2>1. q \in LogsOf(chain) /\ q \in LogsUpTo(LastOfRange) /\ q \notin logs
    BY <1>1 DEF LogsUpTo
  <2>2. ~LogBefore(log, q)
    BY <1>1, <2>1
  <2>. QED
    BY <1>2, <1>3, <1>4, <1>6, <2>1, <2>2 DEF LogBefore
<1>7. ASSUME NEW q \in before
      PROVE  q \in processed /\ q # log
  <2>1. q \in LogsOf(chain) /\ LogBefore(q, log)
    OBVIOUS
  <2>2. ~LogBefore(log, q) /\ q # log
    BY <1>2, <1>3, <2>1 DEF LogBefore
  <2>3. q \in LogsUpTo(LastOfRange)
    BY <1>2, <1>3, <1>5, <2>1 DEF LogBefore, LogsUpTo
  <2>. QED
    BY <1>1, <2>2, <2>3
<1>8. processed \ {log} = before
  BY <1>6, <1>7
<1>9. Value(log) <= Received(before, From(log)) - Sent(before, From(log))
  BY <1>2 DEF ChainInv, ValidChain, NoUnderflow
<1>10. From(log) \in Holder
  BY <1>2, <1>3, RowFields
<1>11. holders[From(log)] = Received(before, From(log)) - Sent(before, From(log))
  <2>. HIDE DEF before
  <2>. QED  BY <1>1, <1>8, <1>10 DEF Balances
<1>12. Value(log) \in Nat /\ holders[From(log)] \in Nat
  BY <1>2, <1>3, <1>10, RowFields DEF IndexerTypeOK
<1>. HIDE DEF before
<1>. QED
  BY <1>9, <1>11, <1>12 DEF Covers

\* The balances of a log and of the log without one row.
LEMMA BalancesStep ==
  ASSUME NEW rows \in SUBSET Row, NEW r \in rows, NEW a \in Holder
  PROVE  Balances(rows)[a]
           = Balances(rows \ {r})[a] + (IF To(r) = a THEN Value(r) ELSE 0)
                                     - (IF From(r) = a THEN Value(r) ELSE 0)
<1>. DEFINE rest == rows \ {r}
<1>1. rest \in SUBSET Row /\ r \in Row /\ r \notin rest /\ rows = rest \cup {r}
  OBVIOUS
<1>. HIDE DEF rest
<1>2. /\ Received(rows, a) = Received(rest, a) + (IF To(r) = a THEN Value(r) ELSE 0)
      /\ Sent(rows, a) = Sent(rest, a) + (IF From(r) = a THEN Value(r) ELSE 0)
  BY <1>1, AddRow
<1>3. Received(rest, a) \in Nat /\ Sent(rest, a) \in Nat /\ Value(r) \in Nat
  BY <1>1, SumsType, RowFields
<1>4. /\ Balances(rows)[a] = Received(rows, a) - Sent(rows, a)
      /\ Balances(rest)[a] = Received(rest, a) - Sent(rest, a)
  BY DEF Balances
<1>5. Balances(rows)[a] = Balances(rest)[a] + (IF To(r) = a THEN Value(r) ELSE 0)
                                     - (IF From(r) = a THEN Value(r) ELSE 0)
  BY <1>2, <1>3, <1>4
<1>. QED
  BY <1>5 DEF rest

\* A step that writes neither the log nor the balances.
LEMMA HoldersKept ==
  ASSUME HoldersInv, UNCHANGED <<processed, holders>>,
         pc \notin {"replace", "write", "deleteLogs", "debit", "credit"},
         pc' \notin {"deleteLogs", "debit", "credit"}
  PROVE  HoldersInv'
BY DEF HoldersInv

\* and what it says of the balances.
LEMMA HoldersStep ==
  ASSUME CommonInv, Orderly(regime), RowsInv, HoldersInv, [IndexerNext]_indexerVars
  PROVE  HoldersInv'
<1>0. IndexerTypeOK /\ ChainInv /\ PollInv /\ TableInv
  BY DEF CommonInv
<1>a. /\ cursor.block \in Nat /\ reason \in {"restart", "rewind", "reorg", "end"}
      /\ holders \in [Holder -> Nat] /\ processed \in SUBSET Row
  BY <1>0 DEF IndexerTypeOK
<1>1. CASE UNCHANGED indexerVars
  BY <1>1 DEF indexerVars, HoldersInv, Kept
<1>2. CASE Poll \/ Start \/ Finish \/ Restart \/ FindRange \/ Compare \/ CheckCursor
           \/ StartRewind \/ MoveCursor \/ FetchLogs
  <2>1. /\ UNCHANGED <<processed, holders>>
        /\ pc \in {"idle", "start", "finish", "restart", "range", "compare", "check",
                   "rewind", "moveCursor", "fetch"}
        /\ pc' \notin {"deleteLogs", "debit", "credit"}
    BY <1>2 DEF Poll, Start, Finish, Restart, FindRange, Compare, CheckCursor, StartRewind,
                StartReplacing, Throw, MoveCursor, FetchLogs, database
  <2>. QED
    BY <2>1, HoldersKept
<1>3. CASE Fail
  BY <1>3 DEF Fail, May, Orderly
<1>4. CASE Reconcile
  <2>1. /\ UNCHANGED <<processed, holders>> /\ pc = "reconcile" /\ reason # "rewind"
        /\ pc' \in {"idle", "replace", After(reason)}
    BY <1>0, <1>4 DEF Reconcile, Throw, StartReplacing, PollInv
  <2>2. After(reason) \in {"start", "range", "finish"}
    BY <1>a, <2>1 DEF After
  <2>. QED
    BY <2>1, <2>2, HoldersKept
<1>5. CASE DeleteHolders
  BY <1>5 DEF DeleteHolders, HoldersInv
<1>6. CASE WriteHolder
  <2>1. CASE unwritten # {}
    BY <1>6, <2>1 DEF WriteHolder, HoldersInv
  <2>2. CASE unwritten = {}
    <3>1. /\ UNCHANGED <<processed, holders, cursor>> /\ pc = "write" /\ pc' = After(reason)
      BY <1>6, <2>2 DEF WriteHolder
    <3>2. /\ rebuilt = Balances(IF reason = "rewind" THEN Kept(cursor.block) ELSE processed)
          /\ \A a \in Holder : holders[a] = rebuilt[a]
      BY <1>0, <2>2, <3>1 DEF TableInv
    <3>3. holders = rebuilt
      BY <1>0, <3>2 DEF IndexerTypeOK
    <3>4. /\ reason = "rewind" => pc' = "deleteLogs"
          /\ reason # "rewind" => pc' \in {"start", "range", "finish"}
      BY <1>a, <3>1 DEF After
    <3>5. Kept(cursor.block)' = Kept(cursor.block)
      BY <3>1 DEF Kept
    <3>6. CASE reason = "rewind"
      <4>1. pc' = "deleteLogs" /\ holders' = Balances(Kept(cursor.block)')
        BY <3>1, <3>2, <3>3, <3>4, <3>5, <3>6
      <4>. QED
        BY <4>1 DEF HoldersInv
    <3>7. CASE reason # "rewind"
      <4>1. pc' \in {"start", "range", "finish"} /\ holders' = Balances(processed')
        BY <3>1, <3>2, <3>3, <3>4, <3>7
      <4>. QED
        BY <4>1 DEF HoldersInv
    <3>. QED
      BY <3>6, <3>7
  <2>. QED
    BY <2>1, <2>2
<1>7. CASE DeleteLogs
  <2>1. /\ pc = "deleteLogs" /\ pc' = "moveCursor" /\ holders' = holders
        /\ processed' = Kept(cursor.block)
    BY <1>7 DEF DeleteLogs
  <2>. QED
    BY <2>1 DEF HoldersInv
<1>8. CASE InsertTransfer
  <2>1. pc = "apply" /\ holders' = holders
    BY <1>8 DEF InsertTransfer
  <2>2. holders = Balances(processed)
    BY <2>1 DEF HoldersInv
  <2>3. CASE logs = {}
    BY <1>8, <2>1, <2>2, <2>3 DEF InsertTransfer, HoldersInv
  <2>4. CASE logs # {}
    <3>1. First(logs) \notin processed /\ IsNew(First(logs))
      BY <1>0, <2>1, <2>4, NextLog
    <3>2. /\ processed' = processed \cup {First(logs)} /\ log' = First(logs) /\ pc' = "debit"
      BY <1>8, <2>4, <3>1 DEF InsertTransfer
    <3>3. processed' \ {log'} = processed
      BY <3>1, <3>2
    <3>. QED
      BY <2>1, <2>2, <3>2, <3>3 DEF HoldersInv
  <2>. QED
    BY <2>3, <2>4
<1>9. CASE Debit
  <2>. DEFINE rest == Balances(processed \ {log})
  <2>1. /\ pc = "debit" /\ UNCHANGED <<processed, log>> /\ holders = rest
        /\ log \in processed
    BY <1>0, <1>9 DEF Debit, SetBalance, HoldersInv, PollInv, poll
  <2>2. /\ pc' = "credit"
        /\ holders' = IF From(log) = Zero THEN holders
                      ELSE [holders EXCEPT ![From(log)] = @ - Value(log)]
    BY <1>0, <1>9, <2>1, Covered DEF Debit, SetBalance
  <2>3. From(log) \in Holder \cup {Zero} /\ Zero \notin Holder /\ Value(log) \in Nat
    BY <1>a, <2>1, RowFields, Constants
  <2>4. holders' = [a \in Holder |-> rest[a] - (IF From(log) = a THEN Value(log) ELSE 0)]
    <3>1. \A a \in Holder : holders[a] \in Nat /\ DOMAIN holders = Holder
      BY <1>a
    <3>2. DOMAIN holders' = Holder
      BY <1>a, <2>2
    <3>3. \A a \in Holder : holders'[a] = rest[a] - (IF From(log) = a THEN Value(log) ELSE 0)
      <4>. HIDE DEF rest
      <4>. QED  BY <1>a, <2>1, <2>2, <2>3, <3>1
    <3>4. holders' = [a \in Holder |-> holders'[a]]
      BY <1>a, <2>2
    <3>. HIDE DEF rest
    <3>. QED
      BY <3>3, <3>4
  <2>. QED
    BY <2>1, <2>2, <2>4 DEF HoldersInv
<1>10. CASE Credit
  <2>. DEFINE rest == Balances(processed \ {log})
  <2>1. /\ pc = "credit" /\ pc' = "apply" /\ UNCHANGED <<processed, log>> /\ log \in processed
        /\ holders = [a \in Holder |-> rest[a] - (IF From(log) = a THEN Value(log) ELSE 0)]
        /\ holders' = IF To(log) = Zero THEN holders
                      ELSE [holders EXCEPT ![To(log)] = @ + Value(log)]
    BY <1>0, <1>10 DEF Credit, SetBalance, HoldersInv, PollInv, poll
  <2>2. To(log) \in Holder \cup {Zero} /\ Zero \notin Holder /\ Value(log) \in Nat
    BY <1>a, <2>1, RowFields, Constants
  <2>3. ASSUME NEW a \in Holder
        PROVE  holders'[a] = Balances(processed)[a]
    <3>1. Balances(processed)[a]
            = rest[a] + (IF To(log) = a THEN Value(log) ELSE 0)
                      - (IF From(log) = a THEN Value(log) ELSE 0)
      BY <1>a, <2>1, BalancesStep
    <3>. HIDE DEF rest
    <3>2. holders'[a] = holders[a] + (IF To(log) = a THEN Value(log) ELSE 0)
      BY <1>a, <2>1, <2>2
    <3>3. holders[a] = rest[a] - (IF From(log) = a THEN Value(log) ELSE 0)
      BY <2>1
    <3>4. rest[a] \in Int
      <4>1. Received(processed \ {log}, a) \in Nat /\ Sent(processed \ {log}, a) \in Nat
        BY <1>a, SumsType
      <4>. QED
        BY <4>1 DEF rest, Balances
    <3>. QED
      BY <2>2, <3>1, <3>2, <3>3, <3>4
  <2>4. holders' = Balances(processed)
    <3>1. holders' = [a \in Holder |-> holders'[a]]
      BY <1>a, <2>1
    <3>2. Balances(processed) = [a \in Holder |-> Balances(processed)[a]]
      BY DEF Balances
    <3>. HIDE DEF rest
    <3>. QED
      BY <2>3, <3>1, <3>2
  <2>. QED
    BY <2>1, <2>4 DEF HoldersInv
<1>11. CASE Anchor
  <2>1. /\ UNCHANGED <<processed, holders>> /\ pc = "anchor" /\ pc' \in {"idle", "compare"}
    BY <1>11 DEF Anchor, Throw
  <2>. QED
    BY <2>1, HoldersKept
<1>12. CASE (\E txs \in Content : Extend(txs)) \/
            (\E d \in 1 .. regime.depth : \E contents \in [1 .. d -> Content] : Reorg(contents))
  <2>1. UNCHANGED <<database, pc, poll>>
    BY <1>12, Zenon DEF Extend, Reorg
  <2>. QED
    BY <2>1 DEF database, poll, HoldersInv, Kept
<1>. QED
  BY <1>1, <1>2, <1>3, <1>4, <1>5, <1>6, <1>7, <1>8, <1>9, <1>10, <1>11, <1>12, Disjuncts

\* Both hold at the start.
LEMMA OrderlyInit == IndexerInit => RowsInv /\ HoldersInv
<1>. SUFFICES ASSUME IndexerInit PROVE RowsInv /\ HoldersInv
  OBVIOUS
<1>1. LogsOf(chain) = {} /\ processed = {} /\ pc = "restart" /\ cursor.hash = NoHash
  BY DEF IndexerInit, LogsOf
<1>2. Balances({}) = [a \in Holder |-> 0]
  <2>1. ASSUME NEW a PROVE Received({}, a) = 0 /\ Sent({}, a) = 0
    <3>1. [q \in {r \in {} : To(r) = a} |-> Value(q)] = [q \in {} |-> 0]
      OBVIOUS
    <3>2. [q \in {r \in {} : From(r) = a} |-> Value(q)] = [q \in {} |-> 0]
      OBVIOUS
    <3>. QED
      BY <3>1, <3>2, TotalZero DEF Received, Sent
  <2>. QED
    BY <2>1 DEF Balances
<1>3. HoldersInv
  BY <1>1, <1>2 DEF IndexerInit, HoldersInv
<1>4. RowsInv
  BY <1>1 DEF RowsInv, OnChain, InRange, LogsUpTo, Kept
<1>. QED
  BY <1>3, <1>4

-----------------------------------------------------------------------------
(* The theorems. *)

\* The inductive invariant holds at the start,
LEMMA InitIndexerInv == IndexerInit => IndexerInv
BY InitCommon, ShallowInit, OrderlyInit DEF IndexerInv

\* the regime does not change,
LEMMA RegimeStays ==
  ASSUME [IndexerNext]_indexerVars
  PROVE  regime' = regime
<1>1. CASE UNCHANGED indexerVars
  BY <1>1 DEF indexerVars
<1>2. CASE IndexerNext
  BY <1>2, Disjuncts, Zenon DEF Poll, Fail, Extend, Reorg, Restart, Reconcile, DeleteHolders, WriteHolder,
     Start, CheckCursor, StartRewind, DeleteLogs, MoveCursor, FindRange, FetchLogs,
     InsertTransfer, Debit, Credit, SetBalance, Anchor, Compare, Finish, environment
<1>. QED
  BY <1>1, <1>2

\* and every step keeps the invariant.
LEMMA IndexerInvStep == IndexerInv /\ [IndexerNext]_indexerVars => IndexerInv'
<1>. SUFFICES ASSUME IndexerInv, [IndexerNext]_indexerVars PROVE IndexerInv'
  OBVIOUS
<1>1. regime' = regime /\ CommonInv /\ CommonInv'
  BY RegimeStays, CommonStep DEF IndexerInv
<1>2. ASSUME ~ReorgInPoll, Shallow(regime)
      PROVE  ShallowInv'
  BY <1>1, <1>2, ShallowStep DEF IndexerInv
<1>3. ASSUME ~ReorgInPoll, Orderly(regime)
      PROVE  RowsInv' /\ HoldersInv'
  <2>1. RowsInv /\ HoldersInv
    BY <1>3 DEF IndexerInv
  <2>2. pc = "debit" /\ From(log) # Zero => Covers(From(log), Value(log))
    BY <1>1, <2>1, Covered DEF CommonInv
  <2>. QED
    BY <1>1, <1>3, <2>1, <2>2, RowsStep, HoldersStep
<1>. QED
  BY <1>1, <1>2, <1>3 DEF IndexerInv

\* The inductive invariant of the indexer: of its three parts each holds in the
\* regimes it is for.
THEOREM IndexerInvariance == IndexerSpec => []IndexerInv
BY InitIndexerInv, IndexerInvStep, PTL DEF IndexerSpec

\* Under a robust regime a hole is never passed.
THEOREM HolesAreNeverPassed == ASSUME Robust PROVE IndexerSpec => []NothingSkipped
<1>1. IndexerInv => NothingSkipped
  <2>. SUFFICES ASSUME IndexerInv, OnChain, pc # "moveCursor",
                       NEW r \in LogsUpTo(cursor.block)
                PROVE  r \in processed
    BY DEF NothingSkipped, OnChain
  <2>0. IndexerTypeOK /\ ChainInv /\ PollInv
    BY DEF IndexerInv, CommonInv
  <2>1. CASE Shallow(regime)
    BY <2>1 DEF Robust, IndexerInv, ShallowInv
  <2>2. CASE Orderly(regime)
    <3>1. RowsInv /\ OnChain
      BY <2>2 DEF Robust, IndexerInv
    <3>2. CASE ~InRange
      BY <3>1, <3>2 DEF RowsInv
    <3>3. CASE InRange
      <4>1. processed = LogsUpTo(LastOfRange) \ logs
        BY <3>1, <3>3 DEF RowsInv
      <4>2. cursor.block \in Nat /\ LastOfRange \in Nat /\ LastOfRange >= cursor.block
        BY <2>0, <3>3, LastOfRangeType DEF IndexerTypeOK
      <4>3. r \in LogsOf(chain) /\ r.block \in Nat /\ r.block <= cursor.block
        BY <2>0, LogsUpToRows, RowFields DEF LogsUpTo
      <4>4. r \notin logs
        BY <2>0, <3>3, <4>2, <4>3 DEF PollInv
      <4>. QED
        BY <4>1, <4>2, <4>3, <4>4 DEF LogsUpTo
    <3>. QED
      BY <3>2, <3>3
  <2>. QED
    BY <2>0, <2>1, <2>2 DEF Robust, IndexerTypeOK
<1>. QED
  BY <1>1, IndexerInvariance, PTL

\* Under a robust regime a poll that ends has the chain up to the cursor in the log
\* and nothing else.
THEOREM IndexIsTheChain == ASSUME Robust PROVE IndexerSpec => []LogIsTheChain
<1>1. IndexerInv => LogIsTheChain
  <2>. SUFFICES ASSUME IndexerInv, pc = "finish"
                PROVE  /\ LogsUpTo(cursor.block) \subseteq processed
                       /\ processed \subseteq LogsOf(chain)
    BY DEF LogIsTheChain
  <2>1. CASE Shallow(regime)
    BY <2>1 DEF Robust, IndexerInv, ShallowInv
  <2>2. CASE Orderly(regime)
    <3>1. RowsInv
      BY <2>2 DEF Robust, IndexerInv
    <3>2. processed = LogsUpTo(cursor.block)
      BY <3>1 DEF RowsInv, InRange
    <3>. QED
      BY <3>2 DEF LogsUpTo
  <2>. QED
    BY <2>1, <2>2 DEF Robust, IndexerInv, CommonInv, IndexerTypeOK
<1>. QED
  BY <1>1, IndexerInvariance, PTL

-----------------------------------------------------------------------------
(* The inductive invariant. *)

\* The amounts in escrow, by account.
Amounts(s) == [a \in Account |-> s[a].amount]

\* Writing a stay moves the sum of the amounts by the difference it makes.
LEMMA AmountsTotal ==
  ASSUME stay \in [Account -> Stay], NEW a \in Account, NEW s \in Stay
  PROVE  /\ Total(Amounts(stay)) \in Nat
         /\ stay[a].amount <= Total(Amounts(stay))
         /\ Total(Amounts([stay EXCEPT ![a] = s]))
              = (Total(Amounts(stay)) - stay[a].amount) + s.amount
<1>. DEFINE f == Amounts(stay)
            v == s.amount
<1>1. f \in [Account -> Nat] /\ v \in Nat /\ f[a] = stay[a].amount
  BY DEF Amounts, Stay
<1>2. Amounts([stay EXCEPT ![a] = s]) = [f EXCEPT ![a] = v]
  BY DEF Amounts, Stay
<1>3. IsFiniteSet(Account)
  BY RankingAssumption
<1>. HIDE DEF f, v
<1>4. /\ Total(f) \in Nat
      /\ f[a] <= Total(f)
      /\ Total([f EXCEPT ![a] = v]) = (Total(f) - f[a]) + v
  BY <1>1, <1>3, TotalType, TotalUpdate
<1>. QED
  BY <1>1, <1>2, <1>4 DEF f, v

\* The contract covers its stays when it holds the sum of their amounts.
LEMMA BackedAmounts == EscrowCoherent <=> Total(Amounts(stay)) <= held[RoomService]
BY DEF EscrowCoherent, Amounts

\* The invariant of balances and stays holds at the start.
LEMMA InitIInv == Init => IInv
<1>. SUFFICES ASSUME Init PROVE IInv
  OBVIOUS
<1>1. TypeOK
  BY RankingAssumption DEF Init, TypeOK, Stay, NoStay
<1>2. EscrowCoherent
  <2>1. Amounts(stay) = [a \in Account |-> 0]
    BY DEF Init, Amounts, NoStay
  <2>2. held[RoomService] = 0
    BY RankingAssumption DEF Init
  <2>. QED
    BY <2>1, <2>2, TotalZero, BackedAmounts
<1>. QED
  BY <1>1, <1>2 DEF IInv, Init

\* A transfer writes no stay and takes nothing from the contract.
LEMMA TransferIInv ==
  ASSUME IInv, NEW a \in Account, NEW b \in Account, NEW n \in 1 .. Supply,
         Transfer(a, b, n)
  PROVE  IInv'
<1>1. TypeOK'
  BY RankingAssumption DEF IInv, TypeOK, Transfer
<1>2. held'[RoomService] \in Nat /\ held'[RoomService] >= held[RoomService]
  BY RankingAssumption DEF IInv, TypeOK, Transfer
<1>3. Total(Amounts(stay)) \in Nat
  BY RankingAssumption, AmountsTotal, NoStay \in Stay DEF IInv, TypeOK, Stay, NoStay
<1>4. EscrowCoherent'
  <2>1. Total(Amounts(stay)) <= held[RoomService]
    BY BackedAmounts DEF IInv
  <2>2. held[RoomService] \in Nat
    BY RankingAssumption DEF IInv, TypeOK
  <2>3. Total(Amounts(stay)) <= held'[RoomService]
    BY ONLY <1>2, <1>3, <2>1, <2>2
  <2>. QED
    BY <2>3 DEF EscrowCoherent, Amounts, Transfer
<1>. QED
  BY <1>1, <1>4 DEF IInv, Transfer

\* A check-in moves the stay's amount from the guest to the contract.
LEMMA CheckInIInv ==
  ASSUME IInv, NEW a \in Guest, NEW n \in 1 .. Supply, CheckIn(a, n)
  PROVE  IInv'
<1>. DEFINE s == [amount |-> n, unlock |-> now + CHECK_IN_DURATION]
<1>1. /\ a \in Account /\ a # RoomService /\ RoomService \in Account
      /\ s \in Stay /\ s.amount = n /\ n \in Nat /\ n # 0
      /\ held[a] - n \in Nat /\ held[RoomService] \in Nat
      /\ stay[a].amount = 0
  BY RankingAssumption DEF IInv, TypeOK, CheckIn, Eligible, Guest, Stay
<1>2. stay' = [stay EXCEPT ![a] = s] /\ held'[RoomService] = held[RoomService] + n
  BY <1>1 DEF CheckIn, IInv, TypeOK
<1>3. TypeOK'
  BY <1>1, RankingAssumption DEF IInv, TypeOK, CheckIn, Stay, NoStay
<1>4. EscrowCoherent'
  <2>1. /\ Total(Amounts(stay)) \in Nat
        /\ Total(Amounts([stay EXCEPT ![a] = s])) = (Total(Amounts(stay)) - 0) + n
    <3>. HIDE DEF s
    <3>. QED  BY <1>1, AmountsTotal DEF IInv, TypeOK
  <2>2. Total(Amounts(stay)) <= held[RoomService]
    BY BackedAmounts DEF IInv
  <2>3. Total(Amounts(stay')) <= held'[RoomService]
    <3>. HIDE DEF s
    <3>. QED  BY <1>1, <1>2, <2>1, <2>2
  <2>. QED
    BY <2>3 DEF EscrowCoherent, Amounts
<1>. QED
  BY <1>3, <1>4 DEF IInv, CheckIn

\* A check-out gives back what the stay holds, and the contract has it.
LEMMA CheckOutIInv ==
  ASSUME IInv, NEW a \in Guest, CheckOut(a)
  PROVE  IInv'
<1>. DEFINE owed == stay[a].amount
<1>1. /\ a \in Account /\ a # RoomService /\ RoomService \in Account
      /\ NoStay \in Stay /\ NoStay.amount = 0 /\ owed \in Nat
      /\ held[a] \in Nat /\ held[RoomService] \in Nat
  BY RankingAssumption DEF IInv, TypeOK, Guest, Stay, NoStay
<1>2. /\ Total(Amounts(stay)) \in Nat
      /\ owed <= Total(Amounts(stay))
      /\ Total(Amounts([stay EXCEPT ![a] = NoStay]))
           = (Total(Amounts(stay)) - owed) + 0
  <2>1. stay \in [Account -> Stay] /\ a \in Account /\ NoStay \in Stay
    BY <1>1 DEF IInv, TypeOK
  <2>. QED
    BY <1>1, <2>1, AmountsTotal
<1>3. Total(Amounts(stay)) <= held[RoomService]
  BY BackedAmounts DEF IInv
<1>4. /\ stay' = [stay EXCEPT ![a] = NoStay]
      /\ held' = [held EXCEPT ![a] = @ + owed, ![RoomService] = @ - owed]
      /\ UNCHANGED <<code, now>>
  BY DEF CheckOut, CloseStay
<1>5. held'[RoomService] = held[RoomService] - owed
  BY <1>1, <1>4 DEF IInv, TypeOK
<1>6. held[RoomService] - owed \in Nat
  <2>. HIDE DEF owed
  <2>. QED  BY <1>1, <1>2, <1>3
<1>7. TypeOK'
  <2>1. held' \in [Account -> Nat]
    BY <1>1, <1>4, <1>6 DEF IInv, TypeOK
  <2>2. /\ stay' \in [Account -> Stay]
        /\ \A x \in Account : stay'[x].amount = 0 => stay'[x] = NoStay
    BY <1>1, <1>4 DEF IInv, TypeOK
  <2>. QED
    BY <1>4, <2>1, <2>2 DEF IInv, TypeOK
<1>8. EscrowCoherent'
  <2>1. Total(Amounts(stay')) <= held'[RoomService]
    <3>. HIDE DEF owed
    <3>. QED  BY <1>1, <1>2, <1>3, <1>4, <1>5
  <2>. QED
    BY <2>1 DEF EscrowCoherent, Amounts
<1>. QED
  BY <1>4, <1>7, <1>8 DEF IInv

\* What leaves balances and stays alone keeps the rest of the invariant.
LEMMA DeployTickIInv ==
  ASSUME IInv, (\E a \in Guest : Deploy(a)) \/ Tick \/ UNCHANGED vars
  PROVE  IInv'
<1>1. held' = held /\ stay' = stay
  BY DEF Deploy, Tick, vars
<1>2. TypeOK'
  <2>1. code' \subseteq Account /\ now' \in Nat
    BY DEF IInv, TypeOK, Deploy, Tick, vars, Guest
  <2>. QED
    BY <1>1, <2>1 DEF IInv, TypeOK
<1>3. EscrowCoherent'
  BY <1>1 DEF IInv, EscrowCoherent
<1>4. Contract \subseteq code'
  BY DEF IInv, Deploy, Tick, vars
<1>. QED
  BY <1>2, <1>3, <1>4 DEF IInv

\* The state is well typed and the contract holds what the stays amount to.
THEOREM Invariance == Spec => []IInv
<1>1. IInv /\ [Next]_vars => IInv'
  BY TransferIInv, CheckInIInv, CheckOutIInv, DeployTickIInv DEF Next
<1>. QED
  BY InitIInv, <1>1, PTL DEF Spec

\* The state is well typed: no balance is ever below zero and no account is
\* left with an unlock time and no escrow.
THEOREM TypeCorrect == Spec => []TypeOK
<1>1. IInv => TypeOK
  BY DEF IInv
<1>. QED
  BY Invariance, <1>1, PTL

-----------------------------------------------------------------------------
(* Ranks. *)

\* The holders ranked before one.
Ahead(a, accounts) == {b \in accounts : Precedes(b, a)}

\* The order is strict and total on accounts, whatever their balances.
LEMMA PrecedesOrder ==
  ASSUME TypeOK, NEW a \in Account, NEW b \in Account, NEW c \in Account
  PROVE  /\ ~Precedes(a, a)
         /\ Precedes(a, b) /\ Precedes(b, c) => Precedes(a, c)
         /\ a # b => Precedes(a, b) \/ Precedes(b, a)
<1>1. /\ EffectiveBalance(a) \in Nat /\ EffectiveBalance(b) \in Nat
      /\ EffectiveBalance(c) \in Nat
  BY DEF TypeOK, Stay, EffectiveBalance
<1>2. a \in Nat /\ b \in Nat /\ c \in Nat
  BY RankingAssumption
<1>. QED
  BY <1>1, <1>2 DEF Precedes

\* A rank is a positive number, and those ahead are finitely many.
LEMMA RankType ==
  ASSUME NEW a, NEW accounts \in SUBSET Account
  PROVE  /\ IsFiniteSet(Ahead(a, accounts))
         /\ Cardinality(Ahead(a, accounts)) \in Nat
         /\ Rank(a, accounts) = Cardinality(Ahead(a, accounts)) + 1
<1>1. IsFiniteSet(Account) /\ Ahead(a, accounts) \in SUBSET Account
  BY RankingAssumption DEF Ahead
<1>2. IsFiniteSet(Ahead(a, accounts))
  BY <1>1, FS_Subset
<1>. QED
  BY <1>2, FS_CardinalityType DEF Rank, Ahead

\* Who precedes another has the lower rank.
LEMMA PrecedesRank ==
  ASSUME TypeOK, NEW accounts \in SUBSET Account,
         NEW a \in accounts, NEW b \in accounts, Precedes(a, b)
  PROVE  Rank(a, accounts) < Rank(b, accounts)
<1>1. Ahead(a, accounts) \in SUBSET Ahead(b, accounts)
  BY PrecedesOrder DEF Ahead
<1>2. a \in Ahead(b, accounts) /\ a \notin Ahead(a, accounts)
  BY PrecedesOrder DEF Ahead
<1>3. IsFiniteSet(Ahead(b, accounts))
  BY RankType
<1>4. /\ Cardinality(Ahead(a, accounts)) <= Cardinality(Ahead(b, accounts))
      /\ Cardinality(Ahead(a, accounts)) # Cardinality(Ahead(b, accounts))
  BY <1>1, <1>2, <1>3, FS_Subset
<1>. QED
  BY <1>4, RankType

\* An account ranks no worse in one ranking than in another when nobody whom the
\* other lacks is ahead of it.
LEMMA RankAmongOthers ==
  ASSUME NEW ranked \in SUBSET Account, NEW other \in SUBSET Account, NEW a,
         ~Displaced(a, ranked, other)
  PROVE  Rank(a, ranked) <= Rank(a, other)
<1>1. Ahead(a, ranked) \in SUBSET Ahead(a, other)
  BY DEF Ahead, Displaced
<1>2. IsFiniteSet(Ahead(a, other))
  BY RankType
<1>3. Cardinality(Ahead(a, ranked)) <= Cardinality(Ahead(a, other))
  BY <1>1, <1>2, FS_Subset
<1>. QED
  BY <1>3, RankType

\* Only accounts are ranked, by the page as by the worker.
LEMMA RankedAccounts ==
  /\ PublicRanked \in SUBSET Account
  /\ CheckInRanked \in SUBSET Account
  /\ WorkerRanked \in SUBSET Account
  /\ PublicRanked \subseteq CheckInRanked
BY DEF PublicRanked, CheckInRanked, WorkerRanked, FilterEligible, HoldersWithEffectiveBalance

\* The page and the worker differ in what they exclude, and in that alone.
LEMMA OneListDecides ==
  /\ \A a \in PublicRanked : a \notin WorkerExclusions => a \in WorkerRanked
  /\ \A a \in WorkerRanked : a \notin PublicExclusions => a \in PublicRanked
BY DEF PublicRanked, WorkerRanked, FilterEligible, HoldersWithEffectiveBalance

\* A guest with a room in one ranking has one in the other, unless it is excluded
\* there or displaced.
LEMMA RoomInBoth ==
  ASSUME NEW ranked \in SUBSET Account, NEW other \in SUBSET Account,
         NEW a \in other, IsTopHundred(a, ranked), ~Displaced(a, other, ranked)
  PROVE  IsTopHundred(a, other)
<1>1. Rank(a, other) <= Rank(a, ranked)
  BY RankAmongOthers
<1>2. Rank(a, other) \in Nat /\ Rank(a, ranked) \in Nat
  BY RankType
<1>. QED
  BY <1>1, <1>2, RankingAssumption DEF IsTopHundred

-----------------------------------------------------------------------------
(* What the page, the API and the worker agree on. *)

\* No two guests are ever given one room, whatever the ties.
THEOREM RoomsAreDistinct == Spec => []OneGuestPerRoom
<1>1. TypeOK => OneGuestPerRoom
  <2>. SUFFICES ASSUME TypeOK, NEW a \in PublicRanked, NEW b \in PublicRanked,
                       a # b
                PROVE  Rank(a, PublicRanked) # Rank(b, PublicRanked)
    BY DEF OneGuestPerRoom
  <2>1. a \in Account /\ b \in Account /\ PublicRanked \in SUBSET Account
    BY RankedAccounts
  <2>2. /\ Rank(a, PublicRanked) \in Nat
        /\ Rank(b, PublicRanked) \in Nat
    BY <2>1, RankType
  <2>3. CASE Precedes(a, b)
    BY <2>1, <2>2, <2>3, PrecedesRank
  <2>4. CASE Precedes(b, a)
    BY <2>1, <2>2, <2>4, PrecedesRank
  <2>. QED
    BY <2>1, <2>3, <2>4, PrecedesOrder
<1>. QED
  BY TypeCorrect, <1>1, PTL

\* Whoever the check-in API signs for has a room on the page: without the holders
\* with code the ranks only fall.  And whatever the two lists of exclusions, a round
\* of that moment pays that guest unless the worker excludes it or somebody whom
\* only the page excludes is ahead.
THEOREM AuthorizedGuestsArePaid == Spec => []AuthorizedHasRoom
<1>1. AuthorizedHasRoom
  <2>. SUFFICES ASSUME NEW a \in Account, Eligible(a)
                PROVE  /\ IsTopHundred(a, PublicRanked)
                       /\ a \notin SnapshotGuests =>
                            \/ a \in WorkerExclusions
                            \/ Displaced(a, WorkerRanked, PublicRanked)
    BY DEF AuthorizedHasRoom
  <2>1. a \in PublicRanked /\ IsTopHundred(a, CheckInRanked)
    BY DEF Eligible, IsTopHundred, CheckInRanked, PublicRanked, FilterEligible
  <2>2. ~Displaced(a, PublicRanked, CheckInRanked)
    BY RankedAccounts DEF Displaced
  <2>3. IsTopHundred(a, PublicRanked)
    BY <2>1, <2>2, RankedAccounts, RoomInBoth
  <2>4. ASSUME a \notin WorkerExclusions, ~Displaced(a, WorkerRanked, PublicRanked)
        PROVE  a \in SnapshotGuests
    <3>1. a \in WorkerRanked
      BY <2>1, <2>4, OneListDecides
    <3>. QED
      BY <2>3, <2>4, <3>1, RankedAccounts, RoomInBoth DEF SnapshotGuests
  <2>. QED
    BY <2>3, <2>4
<1>. QED
  BY <1>1, PTL

\* The multiplier and the checked-in guests on the page are those of a round of
\* that moment, whatever the two lists of exclusions, but for the guests that one
\* of them excludes and those whom such a guest displaces.
THEOREM PageShowsWhatIsPaid == Spec => []ShownIsPaid
<1>1. TypeOK => ShownIsPaid
  <2>. SUFFICES ASSUME TypeOK, NEW a \in Account
                PROVE  /\ CurrentRewardMultiplier(a) > 0 /\ a \notin SnapshotGuests =>
                            \/ a \in WorkerExclusions
                            \/ Displaced(a, WorkerRanked, PublicRanked)
                       /\ CurrentRewardMultiplier(a) = 0 /\ a \in SnapshotGuests =>
                            \/ a \in PublicExclusions
                            \/ Displaced(a, PublicRanked, WorkerRanked)
                       /\ CurrentRewardMultiplier(a) > 0 /\ a \in SnapshotGuests =>
                            (a \in ActiveCheckedInTop100 <=>
                               EscrowBps(a) = CHECKED_IN_REWARD_WEIGHT_BPS
                                 /\ stay[a].amount > 0)
    BY DEF ShownIsPaid
  <2>1. /\ CurrentRewardMultiplier(a) > 0 <=> IsTopHundred(a, PublicRanked)
        /\ CurrentRewardMultiplier(a) = 0 <=> ~IsTopHundred(a, PublicRanked)
    BY DEF CurrentRewardMultiplier, RewardMultiplierBps, CHECKED_IN_REWARD_WEIGHT_BPS,
           BASE_REWARD_WEIGHT_BPS
  <2>2. a \in SnapshotGuests <=> IsTopHundred(a, WorkerRanked)
    BY DEF SnapshotGuests, IsTopHundred
  <2>3. ASSUME IsTopHundred(a, PublicRanked), a \notin WorkerExclusions,
               ~Displaced(a, WorkerRanked, PublicRanked)
        PROVE  IsTopHundred(a, WorkerRanked)
    BY <2>3, OneListDecides, RankedAccounts, RoomInBoth DEF IsTopHundred
  <2>4. ASSUME IsTopHundred(a, WorkerRanked), a \notin PublicExclusions,
               ~Displaced(a, PublicRanked, WorkerRanked)
        PROVE  IsTopHundred(a, PublicRanked)
    BY <2>4, OneListDecides, RankedAccounts, RoomInBoth DEF IsTopHundred
  <2>5. (StayBoostPhase(a) = "active") <=>
          (EscrowBps(a) = CHECKED_IN_REWARD_WEIGHT_BPS /\ stay[a].amount > 0)
    BY DEF TypeOK, Stay, StayBoostPhase, EscrowBps,
           CHECKED_IN_REWARD_WEIGHT_BPS, BASE_REWARD_WEIGHT_BPS
  <2>6. a \in ActiveCheckedInTop100 <=>
          (IsTopHundred(a, PublicRanked) /\ StayBoostPhase(a) = "active")
    BY DEF ActiveCheckedInTop100, IsTopHundred
  <2>. QED
    BY <2>1, <2>2, <2>3, <2>4, <2>5, <2>6
<1>. QED
  BY TypeCorrect, <1>1, PTL

\* A check-in or check-out leaves every balance that is ranked alone.
LEMMA StayKeepsBalances ==
  ASSUME IInv, NEW a \in Guest, (\E n \in 1 .. Supply : CheckIn(a, n)) \/ CheckOut(a)
  PROVE  /\ code' = code
         /\ \A b \in Account \ {RoomService} :
              EffectiveBalance(b)' = EffectiveBalance(b)
<1>1. a \in Account /\ a # RoomService
  BY DEF Guest
<1>2. CASE CheckOut(a)
  BY <1>1, <1>2 DEF CheckOut, CloseStay, IInv, TypeOK, Stay, NoStay, EffectiveBalance
<1>3. ASSUME NEW n \in 1 .. Supply, CheckIn(a, n)
      PROVE  /\ code' = code
             /\ \A b \in Account \ {RoomService} :
                  EffectiveBalance(b)' = EffectiveBalance(b)
  BY <1>1, <1>3, RankingAssumption
     DEF CheckIn, Eligible, IInv, TypeOK, Stay, NoStay, EffectiveBalance
<1>. QED
  BY <1>2, <1>3

\* Checking in and out moves nobody to another room.
THEOREM StaysMoveNobody == Spec => StaysKeepRooms
<1>1. ASSUME IInv, [Next]_vars, NEW a \in Guest,
             (\E n \in 1 .. Supply : CheckIn(a, n)) \/ CheckOut(a)
      PROVE  /\ PublicRanked' = PublicRanked
             /\ \A b \in PublicRanked :
                  Rank(b, PublicRanked)' = Rank(b, PublicRanked)
  <2>1. /\ code' = code
        /\ \A b \in Account \ {RoomService} :
             EffectiveBalance(b)' = EffectiveBalance(b)
    BY <1>1, StayKeepsBalances
  <2>2. PublicRanked' = PublicRanked
    BY <2>1 DEF PublicRanked, FilterEligible, HoldersWithEffectiveBalance,
                PublicExclusions
  <2>3. \A b \in PublicRanked : b \in Account \ {RoomService}
    BY DEF PublicRanked, FilterEligible, HoldersWithEffectiveBalance,
           PublicExclusions
  <2>4. \A b \in PublicRanked : \A c \in PublicRanked :
          Precedes(c, b)' <=> Precedes(c, b)
    BY <2>1, <2>3 DEF Precedes
  <2>. QED
    BY <2>2, <2>4 DEF Rank
<1>2. IInv /\ [Next]_vars =>
        [\A a \in Guest :
           ((\E n \in 1 .. Supply : CheckIn(a, n)) \/ CheckOut(a)) =>
             /\ PublicRanked' = PublicRanked
             /\ \A b \in PublicRanked :
                  Rank(b, PublicRanked)' = Rank(b, PublicRanked)]_vars
  BY <1>1
<1>. QED
  BY Invariance, <1>2, PTL DEF Spec, StaysKeepRooms

\* What a guest buys from the market moves nobody else and keeps the guests.
LEMMA BuyingKeepsOthers ==
  ASSUME IInv, NEW a \in Guest, a \in PublicRanked, NEW n \in Nat, Transfer(Market, a, n)
  PROVE  /\ PublicRanked' = PublicRanked
         /\ EffectiveBalance(a)' = EffectiveBalance(a) + n
         /\ \A b \in PublicRanked \ {a} : EffectiveBalance(b)' = EffectiveBalance(b)
         /\ \A b \in PublicRanked : EffectiveBalance(b) \in Nat
<1>1. /\ a \in Account /\ a # Market /\ Market \in Account /\ Market \in code
  BY RankingAssumption DEF Guest, IInv
<1>2. /\ held \in [Account -> Nat] /\ stay \in [Account -> Stay]
      /\ \A b \in Account : EffectiveBalance(b) \in Nat
  BY DEF IInv, TypeOK, Stay, EffectiveBalance
<1>3. /\ \A b \in Account \ {a, Market} : held'[b] = held[b]
      /\ held'[a] = held[a] + n /\ stay' = stay /\ code' = code
  BY <1>1, <1>2 DEF Transfer
<1>4. /\ \A b \in Account \ {a, Market} : EffectiveBalance(b)' = EffectiveBalance(b)
      /\ EffectiveBalance(a)' = EffectiveBalance(a) + n
  BY <1>1, <1>2, <1>3 DEF EffectiveBalance, Stay
<1>5. /\ a \notin code /\ a \notin PublicExclusions
      /\ EffectiveBalance(a) > 0 /\ EffectiveBalance(a)' > 0
  BY <1>1, <1>2, <1>4 DEF PublicRanked, FilterEligible, HoldersWithEffectiveBalance
<1>6. \A b \in Account : b \in PublicRanked' <=> b \in PublicRanked
  BY <1>1, <1>3, <1>4, <1>5
     DEF PublicRanked, FilterEligible, HoldersWithEffectiveBalance, PublicExclusions
<1>7. PublicRanked' = PublicRanked
  BY <1>6 DEF PublicRanked, FilterEligible, HoldersWithEffectiveBalance
<1>. QED
  BY <1>1, <1>2, <1>4, <1>7
     DEF PublicRanked, FilterEligible, HoldersWithEffectiveBalance

\* The page names a target to guests that rank behind it only.
LEMMA TargetPrecedes ==
  ASSUME IInv, NEW a \in Guest, NEW t \in Targets(a)
  PROVE  a \in PublicRanked /\ t \in PublicRanked /\ t # a /\ Precedes(t, a)
<1>1. /\ a \in PublicRanked /\ t \in PublicRanked
      /\ Rank(t, PublicRanked) < Rank(a, PublicRanked)
  <2>1. PublicRanked \in SUBSET Account
    BY RankedAccounts
  <2>2. CASE InLobby(a)
    <3>1. /\ a \in PublicRanked /\ ~(Rank(a, PublicRanked) <= HOTEL_ROOM_COUNT)
          /\ t \in PublicRanked /\ Rank(t, PublicRanked) = HOTEL_ROOM_COUNT
      BY <2>2 DEF Targets, TargetDoor, Occupies, InLobby, IsRoom
    <3>2. Rank(a, PublicRanked) \in Nat
      BY <2>1, RankType
    <3>. QED
      BY <3>1, <3>2, RankingAssumption
  <2>3. CASE ~InLobby(a)
    BY <2>3, RankingAssumption DEF Targets, TargetAbove, Occupies
  <2>. QED
    BY <2>2, <2>3
<1>2. a \in Account /\ t \in Account /\ t # a
      /\ Rank(a, PublicRanked) \in Nat /\ Rank(t, PublicRanked) \in Nat
  BY <1>1, RankedAccounts, RankType
<1>3. ~Precedes(a, t)
  BY <1>1, <1>2, RankedAccounts, PrecedesRank DEF IInv
<1>. QED
  BY <1>1, <1>2, <1>3, PrecedesOrder DEF IInv

\* What the page says is missing is what it takes to overtake the target.
LEMMA NeededOvertakes ==
  ASSUME NEW a \in Nat, NEW t \in Nat, a # t, NEW n \in Nat,
         EffectiveBalance(a) \in Nat, EffectiveBalance(t) \in Nat
  PROVE  n >= AdditionalNeeded(a, t) <=>
           \/ EffectiveBalance(a) + n > EffectiveBalance(t)
           \/ EffectiveBalance(a) + n = EffectiveBalance(t) /\ a < t
BY DEF AdditionalNeeded, SaturatingSub, RequiredBalance

\* Buying what the page says takes the room it names, and one unit less does not.
THEOREM BuyersGetTheirRoom == Spec => BuyTakesTarget
<1>1. ASSUME IInv, NEW a \in Guest, NEW t \in Targets(a), NEW n \in 1 .. Supply,
             Transfer(Market, a, n)
      PROVE  (Rank(a, PublicRanked)' <= Rank(t, PublicRanked))
               <=> n >= AdditionalNeeded(a, t)
  <2>. DEFINE Ranked == PublicRanked
              Now == {b \in Ranked : Precedes(b, a)'}
  <2>1. n \in Nat /\ a \in Ranked /\ t \in Ranked /\ t # a /\ Precedes(t, a)
    BY <1>1, RankingAssumption, TargetPrecedes
  <2>2. /\ Ranked' = Ranked
        /\ EffectiveBalance(a)' = EffectiveBalance(a) + n
        /\ \A b \in Ranked \ {a} : EffectiveBalance(b)' = EffectiveBalance(b)
        /\ \A b \in Ranked : EffectiveBalance(b) \in Nat
    BY <1>1, <2>1, BuyingKeepsOthers
  <2>3. Ranked \in SUBSET Account /\ \A b \in Ranked : b \in Nat
    BY RankedAccounts, RankingAssumption
  <2>4. Rank(a, PublicRanked)' = Cardinality(Now) + 1
    BY <2>2 DEF Rank
  <2>5. IsFiniteSet(Ahead(t, Ranked)) /\ IsFiniteSet(Now)
        /\ Rank(t, Ranked) = Cardinality(Ahead(t, Ranked)) + 1
        /\ Cardinality(Ahead(t, Ranked)) \in Nat /\ Cardinality(Now) \in Nat
    <3>1. IsFiniteSet(Account) /\ Now \in SUBSET Account
      BY <2>3, RankingAssumption
    <3>2. IsFiniteSet(Now)
      BY <3>1, FS_Subset
    <3>. QED
      BY <2>3, <3>2, RankType, FS_CardinalityType
  <2>6. n >= AdditionalNeeded(a, t) <=> Precedes(a, t)'
    BY <2>1, <2>2, <2>3, NeededOvertakes DEF Precedes
  <2>7. ASSUME Precedes(a, t)' PROVE Now \in SUBSET Ahead(t, Ranked)
    BY <2>1, <2>2, <2>3, <2>7 DEF Precedes, Ahead
  <2>8. ASSUME ~Precedes(a, t)' PROVE Ahead(t, Ranked) \in SUBSET Now /\ t \in Now
    BY <2>1, <2>2, <2>3, <2>8 DEF Precedes, Ahead
  <2>9. t \notin Ahead(t, Ranked)
    BY <2>1, <2>2, <2>3 DEF Precedes, Ahead
  <2>. HIDE DEF Now
  <2>10. Precedes(a, t)' => Cardinality(Now) <= Cardinality(Ahead(t, Ranked))
    BY <2>5, <2>7, FS_Subset
  <2>11. ASSUME ~Precedes(a, t)' PROVE Cardinality(Ahead(t, Ranked)) < Cardinality(Now)
    <3>1. Ahead(t, Ranked) # Now
      BY <2>8, <2>9, <2>11
    <3>2. /\ Cardinality(Ahead(t, Ranked)) <= Cardinality(Now)
          /\ Cardinality(Ahead(t, Ranked)) = Cardinality(Now) => Ahead(t, Ranked) = Now
      BY <2>5, <2>8, <2>11, FS_Subset
    <3>. QED
      BY <2>5, <3>1, <3>2
  <2>. QED
    BY <2>4, <2>5, <2>6, <2>10, <2>11
<1>2. IInv /\ [Next]_vars =>
        [\A a \in Guest : \A t \in Targets(a) : \A n \in 1 .. Supply :
           Transfer(Market, a, n) =>
             ((Rank(a, PublicRanked)' <= Rank(t, PublicRanked))
                <=> n >= AdditionalNeeded(a, t))]_vars
  BY <1>1
<1>. QED
  BY Invariance, <1>2, PTL DEF Spec, BuyTakesTarget

-----------------------------------------------------------------------------
(* What a check-in does to the shares of a round. *)

\* A quotient is the largest number of whole divisors.
LEMMA Quotient ==
  ASSUME NEW x \in Nat, NEW y \in Nat \ {0}
  PROVE  /\ x \div y \in Nat
         /\ (x \div y) * y <= x
         /\ \A q \in Nat : q * y <= x => q <= x \div y
OBVIOUS

LEMMA Products ==
  ASSUME NEW x \in Nat, NEW y \in Nat, NEW z \in Nat
  PROVE  /\ x * z \in Nat
         /\ x <= y => x * z <= y * z
         /\ x * (y + z) = x * y + x * z
OBVIOUS

\* A larger total leaves a smaller share.
LEMMA ShareFalls ==
  ASSUME NEW pool \in Nat, NEW w \in Nat, NEW t \in Nat, NEW d \in Nat, w <= t
  PROVE  ProRata(pool, w, t + d) <= ProRata(pool, w, t)
<1>. DEFINE x == pool * w
            q == x \div (t + d)
<1>1. x \in Nat
  OBVIOUS
<1>2. CASE t = 0
  <2>1. w = 0 /\ x = 0
    BY <1>2
  <2>2. t + d # 0 => q = 0
    <3>. HIDE DEF x
    <3>. QED
      BY <2>1
  <2>. QED
    BY <1>2, <2>2 DEF ProRata
<1>3. CASE t # 0
  <2>1. t \in Nat \ {0} /\ t + d \in Nat \ {0}
    BY <1>3
  <2>. HIDE DEF x
  <2>2. q \in Nat /\ q * (t + d) <= x
    BY <1>1, <2>1, Quotient
  <2>. HIDE DEF q
  <2>3. q * t <= x
    <3>1. q * (t + d) = q * t + q * d /\ q * d \in Nat /\ q * t \in Nat
      BY <2>2, Products
    <3>. QED
      BY <1>1, <2>2, <3>1
  <2>4. q <= x \div t
    BY <1>1, <2>1, <2>2, <2>3, Quotient
  <2>. QED
    BY <1>3, <2>1, <2>4 DEF ProRata, q, x
<1>. QED
  BY <1>2, <1>3

\* What is added to a share's weight and to the total leaves no smaller share.
LEMMA ShareGrows ==
  ASSUME NEW pool \in Nat, NEW w \in Nat, NEW t \in Nat, NEW d \in Nat, w <= t
  PROVE  ProRata(pool, w + d, t + d) >= ProRata(pool, w, t)
<1>. DEFINE x == pool * w
            y == pool * (w + d)
            q == x \div t
<1>1. x \in Nat /\ y \in Nat /\ y = x + pool * d /\ pool * d \in Nat
  BY Products
<1>2. CASE t = 0
  <2>1. t + d # 0 => y \div (t + d) \in Nat
    <3>. HIDE DEF y
    <3>. QED
      BY <1>1, Quotient
  <2>. QED
    BY <1>2, <2>1 DEF ProRata
<1>3. CASE t # 0
  <2>1. t \in Nat \ {0} /\ t + d \in Nat \ {0}
    BY <1>3
  <2>. HIDE DEF x, y
  <2>2. q \in Nat /\ q * t <= x
    BY <1>1, <2>1, Quotient
  \* A share is no larger than the pool.
  <2>3. q <= pool
    <3>1. x <= pool * t
      BY Products DEF x
    <3>2. ASSUME q >= pool + 1 PROVE FALSE
      <4>1. (pool + 1) * t <= q * t /\ (pool + 1) * t = pool * t + t
        BY <2>2, <3>2, Products
      <4>. QED
        BY <1>1, <2>1, <2>2, <3>1, <4>1, Products
    <3>. QED
      BY <2>2, <3>2
  <2>. HIDE DEF q
  <2>4. q * (t + d) <= y
    <3>1. q * (t + d) = q * t + q * d /\ q * d <= pool * d
      BY <2>2, <2>3, Products
    <3>. QED
      BY <1>1, <2>2, <3>1, Products
  <2>5. q <= y \div (t + d)
    BY <1>1, <2>1, <2>2, <2>4, Quotient
  <2>. QED
    BY <1>3, <2>1, <2>5 DEF ProRata, q, x, y
<1>. QED
  BY <1>2, <1>3

\* Who is paid is a guest, and weights are natural numbers.
LEMMA SnapshotType ==
  ASSUME IInv
  PROVE  /\ SnapshotGuests \in SUBSET (Account \ {RoomService})
         /\ IsFiniteSet(SnapshotGuests)
         /\ \A b \in SnapshotGuests : RewardWeight(b) \in Nat
<1>1. SnapshotGuests \in SUBSET (Account \ {RoomService})
  BY DEF SnapshotGuests, WorkerRanked, FilterEligible, HoldersWithEffectiveBalance,
         WorkerExclusions
<1>2. IsFiniteSet(SnapshotGuests)
  BY <1>1, FS_Subset, RankingAssumption
<1>3. ASSUME NEW b \in Account PROVE RewardWeight(b) \in Nat
  <2>1. held[b] \in Nat /\ stay[b].amount \in Nat /\ EscrowBps(b) \in {10000, 15000}
    BY DEF IInv, TypeOK, Stay, EscrowBps, BASE_REWARD_WEIGHT_BPS,
           CHECKED_IN_REWARD_WEIGHT_BPS
  <2>. QED
    BY <2>1 DEF RewardWeight, BASE_REWARD_WEIGHT_BPS
<1>. QED
  BY <1>1, <1>2, <1>3

\* The same guests are paid after a check-in, one of them by more weight.
LEMMA CheckInWeights ==
  ASSUME IInv, NEW a \in Guest, NEW n \in 1 .. Supply, CheckIn(a, n)
  PROVE  /\ SnapshotGuests' = SnapshotGuests
         /\ \A b \in SnapshotGuests \ {a} : RewardWeight(b)' = RewardWeight(b)
         /\ RewardWeight(a) \in Nat /\ RewardWeight(a)' \in Nat
         /\ RewardWeight(a) <= RewardWeight(a)'
<1>1. /\ code' = code /\ now' = now
      /\ \A b \in Account \ {RoomService} :
           EffectiveBalance(b)' = EffectiveBalance(b)
  BY StayKeepsBalances DEF CheckIn
<1>2. WorkerRanked' = WorkerRanked
  BY <1>1 DEF WorkerRanked, FilterEligible, HoldersWithEffectiveBalance,
              WorkerExclusions
<1>3. \A b \in WorkerRanked : b \in Account \ {RoomService}
  BY DEF WorkerRanked, FilterEligible, HoldersWithEffectiveBalance, WorkerExclusions
<1>4. \A b \in WorkerRanked : Rank(b, WorkerRanked)' = Rank(b, WorkerRanked)
  <2>1. \A b, c \in WorkerRanked : Precedes(c, b)' <=> Precedes(c, b)
    BY <1>1, <1>3 DEF Precedes
  <2>. QED
    BY <1>2, <2>1 DEF Rank
<1>5. SnapshotGuests' = SnapshotGuests
  BY <1>2, <1>4 DEF SnapshotGuests, IsTopHundred
<1>6. /\ a \in Account /\ a # RoomService /\ n \in Nat /\ n <= held[a]
      /\ held \in [Account -> Nat] /\ stay \in [Account -> Stay]
      /\ stay[a].amount = 0
  BY RankingAssumption DEF Guest, CheckIn, Eligible, IInv, TypeOK
<1>7. /\ \A b \in Account \ {a, RoomService} :
           held'[b] = held[b] /\ stay'[b] = stay[b]
      /\ held'[a] = held[a] - n /\ stay'[a].amount = n
  BY <1>6, RankingAssumption DEF CheckIn
<1>8. \A b \in SnapshotGuests \ {a} : RewardWeight(b)' = RewardWeight(b)
  <2>1. \A b \in SnapshotGuests \ {a} : b \in Account \ {a, RoomService}
    BY SnapshotType
  <2>. QED
    BY <1>1, <1>7, <2>1 DEF RewardWeight, EscrowBps, StayBoostPhase
\* Every token weighs as much in escrow as in the wallet, or more.
<1>9. /\ RewardWeight(a) = held[a]
      /\ RewardWeight(a)' \in Nat /\ RewardWeight(a)' >= held[a]
  <2>1. held[a] \in Nat /\ EscrowBps(a) \in {10000, 15000}
        /\ EscrowBps(a)' \in {10000, 15000}
    BY <1>6 DEF EscrowBps, BASE_REWARD_WEIGHT_BPS, CHECKED_IN_REWARD_WEIGHT_BPS
  <2>2. RewardWeight(a) = held[a]
    BY <1>6, <2>1 DEF RewardWeight, BASE_REWARD_WEIGHT_BPS
  <2>3. RewardWeight(a)' = ((held[a] - n) * 10000 + n * EscrowBps(a)') \div 10000
    BY <1>7 DEF RewardWeight, BASE_REWARD_WEIGHT_BPS
  <2>. QED
    BY <1>6, <2>1, <2>2, <2>3
<1>. QED
  BY <1>5, <1>6, <1>8, <1>9

\* A check-in never costs the guest part of a round, and adds to nobody else's.
LEMMA CheckInShares ==
  ASSUME IInv, NEW a \in Guest, NEW n \in 1 .. Supply, CheckIn(a, n), NEW pool \in Nat,
         NEW b \in SnapshotGuests
  PROVE  LET before == AllocateServicePool(pool)
             after == AllocateServicePool(pool)' IN
         IF b = a THEN after[b] >= before[b] ELSE after[b] <= before[b]
<1>. DEFINE S == SnapshotGuests
            w == [c \in S |-> RewardWeight(c)]
            v == RewardWeight(a)'
            d == v - RewardWeight(a)
            T == Total(w)
<1>1. /\ S' = S /\ v \in Nat /\ d \in Nat /\ RewardWeight(a) \in Nat
      /\ \A c \in S \ {a} : RewardWeight(c)' = RewardWeight(c)
  BY CheckInWeights
<1>2. w \in [S -> Nat] /\ IsFiniteSet(S)
  BY SnapshotType
<1>3. T \in Nat /\ w[b] \in Nat /\ w[b] <= T
  <2>. HIDE DEF w
  <2>. QED
    BY <1>2, TotalType, TotalUpdate
<1>4. /\ AllocateServicePool(pool)[b] = ProRata(pool, w[b], T)
      /\ AllocateServicePool(pool)'[b] = ProRata(pool, RewardWeight(b)', Total(w)')
  BY <1>1 DEF AllocateServicePool, ProRata
<1>5. CASE a \in S
  <2>1. w' = [w EXCEPT ![a] = v]
    BY <1>1, <1>5
  <2>2. w[a] = RewardWeight(a) /\ w[b] = RewardWeight(b)
    BY <1>5
  <2>3. Total(w)' = T + d
    <3>. HIDE DEF w, v
    <3>1. Total([w EXCEPT ![a] = v]) = (Total(w) - w[a]) + v
      BY <1>1, <1>2, <1>5, TotalUpdate
    <3>. QED
      BY <1>1, <1>3, <2>1, <2>2, <3>1
  <2>4. CASE b = a
    <3>1. RewardWeight(b)' = w[b] + d
      BY <1>1, <2>2, <2>4
    <3>. HIDE DEF w, v, d, T
    <3>2. ProRata(pool, w[b] + d, T + d) >= ProRata(pool, w[b], T)
      BY <1>1, <1>3, ShareGrows
    <3>. QED
      BY <1>4, <2>3, <2>4, <3>1, <3>2
  <2>5. CASE b # a
    <3>1. RewardWeight(b)' = w[b]
      BY <1>1, <2>2, <2>5
    <3>. HIDE DEF w, v, d, T
    <3>2. ProRata(pool, w[b], T + d) <= ProRata(pool, w[b], T)
      BY <1>1, <1>3, ShareFalls
    <3>. QED
      BY <1>4, <2>3, <2>5, <3>1, <3>2
  <2>. QED
    BY <2>4, <2>5
<1>6. CASE a \notin S
  <2>1. w' = w /\ RewardWeight(b)' = w[b]
    BY <1>1, <1>6
  <2>2. ProRata(pool, w[b], T) <= ProRata(pool, w[b], T)
    <3>. HIDE DEF w, T
    <3>1. T + 0 = T
      BY <1>3
    <3>2. ProRata(pool, w[b], T + 0) <= ProRata(pool, w[b], T)
      BY <1>3, ShareFalls
    <3>. QED
      BY <3>1, <3>2
  <2>. QED
    BY <1>1, <1>3, <1>4, <1>6, <2>1, <2>2
<1>. QED
  BY <1>5, <1>6

\* Checking in never costs the guest, whatever the pool and the other stays.
THEOREM StaysAreWorthIt == Spec => CheckInPays
<1>1. IInv /\ [Next]_vars =>
        [\A a \in Guest :
           (\E n \in 1 .. Supply : CheckIn(a, n)) =>
             \A pool \in 0 .. MaxPool :
               LET before == AllocateServicePool(pool)
                   after == AllocateServicePool(pool)' IN
               \A b \in SnapshotGuests :
                 IF b = a THEN after[b] >= before[b] ELSE after[b] <= before[b]]_vars
  <2>1. 0 .. MaxPool \subseteq Nat
    BY RankingAssumption
  <2>. QED
    BY <2>1, CheckInShares
<1>. QED
  BY Invariance, <1>1, PTL DEF Spec, CheckInPays

=============================================================================
