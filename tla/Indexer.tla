------------------------------- MODULE Indexer -------------------------------
(***************************************************************************)
(* The HOTEL indexer (apps/worker/src/indexer/engine.ts over the tables of *)
(* postgres-store.ts).                                                     *)
(*                                                                         *)
(* A poll checks the hash of the block it stopped at, rewinds one block    *)
(* when it is not the chain's, indexes the confirmed blocks after it up to *)
(* the first one the node does not have, and rebuilds the balances from    *)
(* the transfer log when they differ.  Polls never overlap.  No two        *)
(* statements are in one database transaction, so each write is a step,    *)
(* and so is each read of the chain; at any step a call may fail, which    *)
(* ends the poll, or the process may die, which also forces a              *)
(* reconciliation before the next one.                                     *)
(*                                                                         *)
(* A transaction is a number, its hash, and carries one transfer.  Block 0 *)
(* is the one before HOTEL_LAUNCH_BLOCK and block 1 the launch block.      *)
(* Ranking and check-in events, which the same poll handles, are left to   *)
(* other modules; of last_reconciled_block nothing here depends.           *)
(***************************************************************************)
EXTENDS Integers, Sequences, Totals

CONSTANTS
  Holder,               \* addresses that may hold HOTEL
  Zero,                 \* the zero address: mints and burns
  Tx,                   \* transactions, ordered as their hashes are
  TransferOf,           \* [from, to, value] of each transaction
  LIVE_CONFIRMATIONS,
  NoHash,               \* null
  \* The environment.
  Regime,               \* what may go wrong: see RegimeType
  ReorgInPoll,          \* whether the chain may reorganise during a poll
  MayBeLate,            \* whether a poll may find the index older than the threshold
  \* Bounds of the model.
  MaxBlock, MaxTxs      \* length of the chain, transactions in a block

\* Which faults may happen, how many of them, how many reorgs, and how many blocks
\* one reorg replaces at most.
RegimeType ==
  [fault : SUBSET {"error", "crash", "gap", "nullCursorHash", "nullPrevHash",
                    "nullEndHash"},
   faults : Nat, reorgs : Nat, depth : Nat]

ASSUME IndexerAssumption ==
  /\ IsFiniteSet(Holder) /\ Zero \notin Holder
  /\ IsFiniteSet(Tx) /\ Tx \subseteq Nat
  /\ TransferOf \in [Tx -> [from : Holder \cup {Zero}, to : Holder \cup {Zero},
                            value : Nat]]
  /\ LIVE_CONFIRMATIONS \in Nat
  /\ NoHash \notin Nat
  /\ {ReorgInPoll, MayBeLate} \subseteq BOOLEAN
  /\ Regime \subseteq RegimeType
  /\ {MaxBlock, MaxTxs} \subseteq Nat

VARIABLES
  regime,         \* the one in force
  chain,          \* sequence of blocks
  reorgs,         \* reorgs so far
  \* The database.
  processed,      \* processed_transfer_logs
  holders,        \* holders.balance_raw, 0 where there is no row
  cursor,         \* last_indexed_block and event_cursor.lastBlockHash
  indexedOnce,    \* last_indexed_at is not null
  publicStatus,   \* system_state.public_status
  gapStatus,      \* operational_status = INDEXING_GAP
  \* The poll.
  pc,
  head,           \* last block to index
  gap,            \* first block the node does not have, or 0
  logs,           \* fetched and not yet applied
  log,            \* being applied
  forced,         \* forceReconcile
  reason,         \* why balances are being replaced
  rebuilt,        \* the balances replaceBalances writes
  unwritten,      \* holders it has still to write
  faults          \* faults so far

\* The two values of public_status seen here.
SYNCING == "HOTEL SYNCING"
OPENS_SOON == "HOTEL CHECK-IN OPENS SOON"

environment == <<regime, chain, reorgs>>
database == <<processed, holders, cursor, indexedOnce, publicStatus, gapStatus>>
poll == <<head, gap, logs, log, forced, reason, rebuilt, unwritten>>
indexerVars == <<regime, chain, reorgs, processed, holders, cursor, indexedOnce, publicStatus,
          gapStatus, pc, head, gap, logs, log, forced, reason, rebuilt,
          unwritten, faults>>

-----------------------------------------------------------------------------
(* Transfer logs and the balances they amount to. *)

\* A row of the transfer log, and a log as the node returns it.
Row == [tx : Tx, block : 1 .. MaxBlock, index : 1 .. MaxTxs]
NoRow == [tx |-> 0, block |-> 0, index |-> 0]

From(r) == TransferOf[r.tx].from
To(r) == TransferOf[r.tx].to
Value(r) == TransferOf[r.tx].value

Received(rows, a) == Total([r \in {q \in rows : To(q) = a} |-> Value(r)])
Sent(rows, a) == Total([r \in {q \in rows : From(q) = a} |-> Value(r)])
Balances(rows) == [a \in Holder |-> Received(rows, a) - Sent(rows, a)]

\* Logs in the order of the chain, and rows in the order the table is read in.
LogBefore(q, r) == \/ q.block < r.block
                   \/ q.block = r.block /\ q.index < r.index
RowBefore(q, r) == \/ q.block < r.block
                   \/ q.block = r.block /\ q.tx < r.tx
First(S) == CHOOSE r \in S : \A q \in S \ {r} : LogBefore(r, q)

\* Nobody sends what they do not have, reading the rows one after the other.
NoUnderflow(rows, Before(_, _)) ==
  \A r \in rows : From(r) # Zero =>
    LET earlier == {q \in rows : Before(q, r)} IN
    Value(r) <= Received(earlier, From(r)) - Sent(earlier, From(r))

\* reconstructBalancesFromTransfers does not throw.
Rebuildable(rows) == NoUnderflow(rows, RowBefore)

-----------------------------------------------------------------------------
(* The chain. *)

Block == [hash : Nat, txs : Seq(Tx)]
Content == UNION {[1 .. n -> Tx] : n \in 0 .. MaxTxs}

\* The logs of a chain, all of them and those of an interval.
LogsOf(c) ==
  UNION {{[tx |-> c[b].txs[i], block |-> b, index |-> i] :
            i \in DOMAIN c[b].txs} : b \in DOMAIN c}
LogsUpTo(b) == {r \in LogsOf(chain) : r.block <= b}

HashAt(b) == IF b = 0 THEN 0 ELSE chain[b].hash

\* A transaction is mined once, and no transfer overdraws its sender.
ValidChain(c) ==
  /\ \A q, r \in LogsOf(c) : q.tx = r.tx => q = r
  /\ NoUnderflow(LogsOf(c), LogBefore)

-----------------------------------------------------------------------------
\* The cursor as system_state yields it: the last block indexed, 0 before any,
\* and its hash, if there is one.
Cursor == [block : Nat, hash : Nat \cup {NoHash}]

\* The type of the state.
IndexerTypeOK ==
  /\ regime \in Regime
  /\ chain \in Seq(Block)
  /\ reorgs \in Nat
  /\ processed \subseteq Row
  /\ holders \in [Holder -> Nat]
  /\ cursor \in Cursor
  /\ indexedOnce \in BOOLEAN
  /\ publicStatus \in {OPENS_SOON, SYNCING}
  /\ gapStatus \in BOOLEAN
  /\ pc \in {"idle", "restart", "start", "check", "rewind", "deleteLogs",
             "moveCursor", "range", "fetch", "apply", "debit", "credit", "anchor",
             "compare", "reconcile", "replace", "write", "finish"}
  /\ head \in Nat /\ gap \in Nat
  /\ logs \subseteq Row /\ log \in Row \cup {NoRow}
  /\ forced \in BOOLEAN
  /\ reason \in {"restart", "rewind", "reorg", "end"}
  /\ rebuilt \in [Holder -> Nat]
  /\ unwritten \subseteq Holder
  /\ faults \in Nat

IndexerInit ==
  /\ regime \in Regime
  /\ chain = << >> /\ reorgs = 0
  /\ processed = {}
  /\ holders = [a \in Holder |-> 0]
  /\ cursor = [block |-> 0, hash |-> NoHash]
  /\ indexedOnce = FALSE
  /\ publicStatus = OPENS_SOON /\ gapStatus = FALSE
  /\ pc = "restart" /\ head = 0 /\ gap = 0
  /\ logs = {} /\ log = NoRow
  /\ forced = FALSE /\ reason = "restart"
  /\ rebuilt = [a \in Holder |-> 0] /\ unwritten = {}
  /\ faults = 0

-----------------------------------------------------------------------------
(* Faulty variants, one slip each; no action uses them. *)

\* The block the cursor stands on is kept when it is rewound.
FaultyKept(b) == {r \in processed : r.block <= b}
\* The range is not cut off before the gap.
FaultyLastOfRange == head
\* A mismatch is never noticed.
FaultyMismatch == processed # processed
\* A hash that is there is not compared with the stored one.
FaultyOrphaned(hash) == hash = NoHash

-----------------------------------------------------------------------------
(* Faults.  A fault in the answer to one call is part of that call's step. *)

May(fault) == fault \in regime.fault /\ faults < regime.faults

\* What a poll had in memory is gone when it ends.
Blank == [a \in Holder |-> 0]
Forget ==
  /\ head' = 0 /\ gap' = 0 /\ logs' = {} /\ log' = NoRow /\ forced' = FALSE
  /\ reason' = "restart" /\ rebuilt' = Blank /\ unwritten' = {}

\* A call throws and the poll ends, or the process dies.
Fail ==
  /\ pc # "idle"
  /\ \/ May("error") /\ pc' = "idle"
     \/ May("crash") /\ pc' = "restart"
  /\ faults' = faults + 1
  /\ Forget
  /\ UNCHANGED <<environment, database>>

\* The code throws by itself.
Throw == pc' = "idle"

-----------------------------------------------------------------------------
(* Reconciliation. *)

\* What the log amounts to differs from the holders table.
Mismatch == Balances(processed) # holders

\* replaceBalances begins: it will write the non-zero balances.
StartReplacing(balances) ==
  /\ rebuilt' = balances
  /\ unwritten' = {a \in Holder : balances[a] > 0}
  /\ pc' = "replace"

\* Where the poll goes on after replacing or reconciling.
After(why) == CASE why = "restart" -> "start"
                [] why = "rewind"  -> "deleteLogs"
                [] why = "reorg"   -> "range"
                [] why = "end"     -> "finish"

\* onRestart: reconcile comes first.
Restart ==
  /\ pc = "restart"
  /\ reason' = "restart"
  /\ forced' = FALSE
  /\ pc' = "reconcile"
  /\ UNCHANGED <<environment, database, head, gap, logs, log, rebuilt,
                 unwritten, faults>>

Reconcile ==
  /\ pc = "reconcile"
  /\ IF ~Rebuildable(processed)
     THEN Throw /\ UNCHANGED <<publicStatus, rebuilt, unwritten>>
     ELSE IF Mismatch
     THEN StartReplacing(Balances(processed)) /\ publicStatus' = SYNCING
     ELSE pc' = After(reason) /\ UNCHANGED <<publicStatus, rebuilt, unwritten>>
  /\ UNCHANGED <<environment, processed, holders, cursor, indexedOnce, gapStatus,
                 head, gap, logs, log, forced, reason, faults>>

\* replaceBalances: DELETE FROM holders.
DeleteHolders ==
  /\ pc = "replace"
  /\ holders' = [a \in Holder |-> 0]
  /\ pc' = "write"
  /\ UNCHANGED <<environment, processed, cursor, indexedOnce, publicStatus,
                 gapStatus, poll, faults>>

\* replaceBalances: INSERT one holder, or go on when all are written.
WriteHolder ==
  /\ pc = "write"
  /\ IF unwritten = {}
     THEN pc' = After(reason) /\ UNCHANGED <<holders, unwritten>>
     ELSE \E a \in unwritten :
            /\ holders' = [holders EXCEPT ![a] = rebuilt[a]]
            /\ unwritten' = unwritten \ {a}
            /\ UNCHANGED pc
  /\ UNCHANGED <<environment, processed, cursor, indexedOnce, publicStatus,
                 gapStatus, head, gap, logs, log, forced, reason, rebuilt,
                 faults>>

-----------------------------------------------------------------------------
(* The poll. *)

\* refreshStalePublicStatus: nothing indexed yet, or not for a while.
IsStale(late) == ~indexedOnce \/ late

IndexableHead ==
  IF Len(chain) < LIVE_CONFIRMATIONS THEN 0 ELSE Len(chain) - LIVE_CONFIRMATIONS

\* The interval timer fires and no poll is in flight.
Poll ==
  /\ pc = "idle"
  /\ forced' \in BOOLEAN
  /\ pc' = "start"
  /\ UNCHANGED <<environment, database, head, gap, logs, log, reason, rebuilt,
                 unwritten, faults>>

\* runOnce: the status, the head and the cursor.
Start ==
  /\ pc = "start"
  /\ \E late \in {FALSE, MayBeLate} :
       publicStatus' = IF IsStale(late) THEN SYNCING ELSE publicStatus
  /\ head' = IndexableHead
  /\ gap' = 0
  /\ pc' = "check"
  /\ UNCHANGED <<environment, processed, holders, cursor, indexedOnce, gapStatus,
                 logs, log, forced, reason, rebuilt, unwritten, faults>>

\* The node's answer about the cursor's block means it was orphaned: null, also
\* when the call just failed, counts as a different hash.
Orphaned(hash) == hash = NoHash \/ hash # cursor.hash

CheckCursor ==
  /\ pc = "check"
  /\ IF cursor.hash = NoHash
     THEN pc' = "range" /\ UNCHANGED <<publicStatus, faults>>
     ELSE \E hash \in {HashAt(cursor.block), NoHash} :
            /\ hash = NoHash => May("nullCursorHash") /\ cursor.block > 0
            /\ faults' = IF hash = NoHash THEN faults + 1 ELSE faults
            /\ IF Orphaned(hash)
               THEN pc' = "rewind" /\ publicStatus' = SYNCING
               ELSE pc' = "range" /\ UNCHANGED publicStatus
  /\ UNCHANGED <<environment, processed, holders, cursor, indexedOnce, gapStatus,
                 poll>>

\* handleReorg keeps what is before the block it was called for.
Kept(b) == {r \in processed : r.block < b}

\* handleReorg: the balances of the kept transfers replace the table.
StartRewind ==
  /\ pc = "rewind"
  /\ reason' = "rewind"
  /\ IF Rebuildable(Kept(cursor.block))
     THEN StartReplacing(Balances(Kept(cursor.block)))
     ELSE Throw /\ UNCHANGED <<rebuilt, unwritten>>
  /\ UNCHANGED <<environment, database, head, gap, logs, log, forced, faults>>

\* handleReorg: deleteTransfersAtOrAfter.
DeleteLogs ==
  /\ pc = "deleteLogs"
  /\ processed' = Kept(cursor.block)
  /\ pc' = "moveCursor"
  /\ UNCHANGED <<environment, holders, cursor, indexedOnce, publicStatus,
                 gapStatus, poll, faults>>

\* handleReorg: the cursor steps back one block, to whatever hash the chain has
\* there now, or to none if the lookup fails; then reconcile.
MoveCursor ==
  /\ pc = "moveCursor"
  /\ \E hash \in {HashAt(cursor.block - 1), NoHash} :
       /\ hash = NoHash => May("nullPrevHash")
       /\ faults' = IF hash = NoHash THEN faults + 1 ELSE faults
       /\ cursor' = [block |-> cursor.block - 1, hash |-> hash]
  /\ reason' = "reorg"
  /\ pc' = "reconcile"
  /\ UNCHANGED <<environment, processed, holders, indexedOnce, publicStatus,
                 gapStatus, head, gap, logs, log, forced, rebuilt, unwritten>>

\* Nothing new, or the search for the first block the node does not have.
FindRange ==
  /\ pc = "range"
  /\ IF cursor.block >= head
     THEN /\ IF forced /\ head > 0 THEN pc' = "reconcile" /\ reason' = "end"
                                   ELSE pc' = "finish" /\ UNCHANGED reason
          /\ UNCHANGED <<publicStatus, gapStatus, gap, faults>>
     ELSE \/ /\ pc' = "fetch"
             /\ UNCHANGED <<publicStatus, gapStatus, gap, reason, faults>>
          \/ /\ May("gap")
             /\ faults' = faults + 1
             /\ gap' \in (cursor.block + 1) .. head
             /\ publicStatus' = SYNCING
             /\ gapStatus' = TRUE
             /\ reason' = "end"
             /\ pc' = IF gap' = cursor.block + 1 THEN "reconcile" ELSE "fetch"
  /\ UNCHANGED <<environment, processed, holders, cursor, indexedOnce, head, logs,
                 log, forced, rebuilt, unwritten>>

LastOfRange == IF gap = 0 THEN head ELSE gap - 1

\* indexRange: getTransferLogs; the node has no logs of a block it does not have.
FetchLogs ==
  /\ pc = "fetch"
  /\ logs' = {r \in LogsUpTo(LastOfRange) : r.block > cursor.block /\ r.block # gap}
  /\ pc' = "apply"
  /\ UNCHANGED <<environment, database, head, gap, log, forced, reason, rebuilt,
                 unwritten, faults>>

IsNew(r) == \A q \in processed : q.tx # r.tx

\* indexRange: tryInsertTransfer for the next log.
InsertTransfer ==
  /\ pc = "apply"
  /\ IF logs = {}
     THEN pc' = "anchor" /\ UNCHANGED <<processed, logs, log>>
     ELSE /\ logs' = logs \ {First(logs)}
          /\ IF IsNew(First(logs))
             THEN /\ processed' = processed \cup {First(logs)}
                  /\ log' = First(logs)
                  /\ pc' = "debit"
             ELSE UNCHANGED <<processed, log, pc>>
  /\ UNCHANGED <<environment, holders, cursor, indexedOnce, publicStatus,
                 gapStatus, head, gap, forced, reason, rebuilt, unwritten,
                 faults>>

Covers(a, value) == holders[a] >= value

\* setBalance: an upsert, or a DELETE when nothing is left; no row is a zero.
SetBalance(a, balance) == holders' = [holders EXCEPT ![a] = balance]

\* applyTransferToBalances: the sender's balance.
Debit ==
  /\ pc = "debit"
  /\ IF From(log) = Zero
     THEN pc' = "credit" /\ UNCHANGED holders
     ELSE IF Covers(From(log), Value(log))
     THEN /\ SetBalance(From(log), holders[From(log)] - Value(log))
          /\ pc' = "credit"
     ELSE Throw /\ UNCHANGED holders
  /\ UNCHANGED <<environment, processed, cursor, indexedOnce, publicStatus,
                 gapStatus, poll, faults>>

\* applyTransferToBalances: the recipient's balance.
Credit ==
  /\ pc = "credit"
  /\ IF To(log) = Zero THEN UNCHANGED holders
     ELSE SetBalance(To(log), holders[To(log)] + Value(log))
  /\ pc' = "apply"
  /\ UNCHANGED <<environment, processed, cursor, indexedOnce, publicStatus,
                 gapStatus, poll, faults>>

\* indexRange: the cursor moves to the end of the range and the hash the chain
\* has there now; a missing hash is an error.
Anchor ==
  /\ pc = "anchor"
  /\ \/ /\ cursor' = [block |-> LastOfRange, hash |-> HashAt(LastOfRange)]
        /\ indexedOnce' = TRUE
        /\ pc' = "compare"
        /\ UNCHANGED <<publicStatus, gapStatus, faults>>
     \/ /\ May("nullEndHash")
        /\ faults' = faults + 1
        /\ publicStatus' = SYNCING
        /\ gapStatus' = TRUE
        /\ Throw
        /\ UNCHANGED <<cursor, indexedOnce>>
  /\ UNCHANGED <<environment, processed, holders, poll>>

\* forceReconcile, a gap, or detectBalanceMismatch lead to a reconciliation.
Compare ==
  /\ pc = "compare"
  /\ IF forced \/ gap # 0
     THEN pc' = "reconcile" /\ reason' = "end"
     ELSE IF ~Rebuildable(processed) THEN Throw /\ UNCHANGED reason
     ELSE IF Mismatch THEN pc' = "reconcile" /\ reason' = "end"
     ELSE pc' = "finish" /\ UNCHANGED reason
  /\ UNCHANGED <<environment, database, head, gap, logs, log, forced, rebuilt,
                 unwritten, faults>>

\* finish: the status once more.  The only status it may also write is the one
\* that is there, since HOTEL SYNCING is not overwritten.
Finish ==
  /\ pc = "finish"
  /\ \E late \in {FALSE, MayBeLate} :
       publicStatus' = IF IsStale(late) THEN SYNCING ELSE publicStatus
  /\ pc' = "idle"
  /\ Forget
  /\ UNCHANGED <<environment, processed, holders, cursor, indexedOnce, gapStatus,
                 faults>>

-----------------------------------------------------------------------------
(* The chain. *)

Extend(txs) ==
  /\ Len(chain) < MaxBlock
  /\ chain' = Append(chain, [hash |-> reorgs, txs |-> txs])
  /\ ValidChain(chain')
  /\ UNCHANGED <<regime, reorgs, database, pc, poll, faults>>

\* The last blocks are replaced by as many others.
Reorg(contents) ==
  /\ reorgs < regime.reorgs
  /\ ReorgInPoll \/ pc \in {"idle", "restart"}
  /\ Len(contents) <= Len(chain)
  /\ reorgs' = reorgs + 1
  /\ chain' = SubSeq(chain, 1, Len(chain) - Len(contents))
                \o [i \in DOMAIN contents |->
                      [hash |-> reorgs + 1, txs |-> contents[i]]]
  /\ ValidChain(chain')
  /\ UNCHANGED <<regime, database, pc, poll, faults>>

-----------------------------------------------------------------------------
PollStep ==
  \/ Restart \/ Reconcile \/ DeleteHolders \/ WriteHolder
  \/ Start \/ CheckCursor \/ StartRewind \/ DeleteLogs \/ MoveCursor
  \/ FindRange \/ FetchLogs \/ InsertTransfer \/ Debit \/ Credit
  \/ Anchor \/ Compare \/ Finish

ChainStep ==
  \/ \E txs \in Content : Extend(txs)
  \/ \E d \in 1 .. regime.depth : \E contents \in [1 .. d -> Content] : Reorg(contents)

IndexerNext == Poll \/ PollStep \/ Fail \/ ChainStep

IndexerSpec == IndexerInit /\ [][IndexerNext]_indexerVars

\* The process keeps running, the timer keeps firing, and every
\* HOLDER_RECONCILE_INTERVAL_MS a poll is one that reconciles.
IndexerFairSpec ==
  /\ IndexerSpec
  /\ WF_indexerVars(PollStep)
  /\ WF_indexerVars(Poll)
  /\ SF_indexerVars(Poll /\ forced')

\* And the chain keeps growing.
IndexerGrowingSpec ==
  IndexerFairSpec /\ WF_indexerVars(\E txs \in Content : Extend(txs))

-----------------------------------------------------------------------------
(* Properties. *)

\* When a poll has run to its end, the transfer log has everything of the chain up
\* to the cursor and nothing that is not in the chain, at its place.  (Rows past
\* the cursor may be left by a poll that failed.)
LogIsTheChain ==
  pc = "finish" =>
    /\ LogsUpTo(cursor.block) \subseteq processed
    /\ processed \subseteq LogsOf(chain)

\* At every moment, whatever fails and whenever the process dies, everything up to
\* the cursor is in the log, unless the cursor's block was just replaced or the cursor
\* is about to go back: a hole is never passed, with or without the cursor's hash.
NothingSkipped ==
  cursor.hash \in {NoHash, HashAt(cursor.block)} /\ pc # "moveCursor" =>
    LogsUpTo(cursor.block) \subseteq processed

\* A poll that indexed or reconciled ends with the balances the log amounts to.
PollEndsBalanced ==
  [][pc \notin {"range", "finish"} /\ pc' = "finish" =>
       holders' = Balances(processed')]_indexerVars

\* In the end the index is the confirmed chain, balances included.
CatchesUp ==
  <>[](/\ cursor.block = IndexableHead
       /\ processed = LogsUpTo(cursor.block)
       /\ holders = Balances(processed))

\* The node lacked a block, the index stopped before it and has since gone past it.
GapIsFilled ==
  /\ gapStatus /\ gap = 0
  /\ cursor.block = IndexableHead
  /\ processed = LogsUpTo(cursor.block) /\ holders = Balances(processed)

\* A gap that is backfilled and reconciled does not stay HOTEL SYNCING for ever.
\* (False: finish never writes over that status.)
SyncingEnds ==
  GapIsFilled ~> publicStatus # SYNCING

-----------------------------------------------------------------------------
(* The inductive invariant.  First what holds in every regime. *)

\* Deep enough for the indexer to look at.
IsConfirmed(b) == b = 0 \/ b + LIVE_CONFIRMATIONS <= Len(chain)

ChainInv ==
  /\ ValidChain(chain) /\ Len(chain) <= MaxBlock
  /\ \A b \in DOMAIN chain : chain[b].hash <= reorgs /\ Len(chain[b].txs) <= MaxTxs
  /\ IsConfirmed(cursor.block) /\ IsConfirmed(head)
  /\ cursor.hash # NoHash => cursor.hash <= reorgs
  /\ cursor.block = 0 => cursor.hash \in {NoHash, 0}
  /\ cursor.hash = NoHash => cursor.block = 0 \/ IsConfirmed(cursor.block + 1)

\* handleReorg is at work.
Rewinding ==
  \/ pc \in {"rewind", "deleteLogs", "moveCursor"}
  \/ pc \in {"replace", "write"} /\ reason = "rewind"

\* The poll has looked for no gap yet.
BeforeRange ==
  \/ pc \in {"check", "range"} \/ Rewinding
  \/ pc \in {"reconcile", "replace", "write"} /\ reason = "reorg"

InRange == pc \in {"apply", "debit", "credit", "anchor"}

\* Where the poll is, and what it knows there.
PollInv ==
  /\ Rewinding => cursor.block > 0
  /\ BeforeRange => gap = 0
  /\ pc = "reconcile" => reason # "rewind"
  /\ pc = "fetch" \/ InRange =>
       cursor.block < head /\ (gap # 0 => gap \in (cursor.block + 1) .. head)
  /\ InRange => /\ \A r \in logs : r.block > cursor.block
                /\ \A q, r \in logs : q.block = r.block /\ q.index = r.index => q = r
  /\ pc \in {"debit", "credit"} => log \in processed

\* A transaction is in the log once, and the balances being written are those of
\* the log, or of what handleReorg is about to leave of it.
TableInv ==
  /\ \A q, r \in processed : q.tx = r.tx => q = r
  /\ pc \in {"replace", "write"} =>
       /\ rebuilt = Balances(IF reason = "rewind" THEN Kept(cursor.block) ELSE processed)
       /\ \A a \in Holder : rebuilt[a] = 0 => a \notin unwritten
       /\ pc = "replace" => \A a \in Holder : rebuilt[a] # 0 => a \in unwritten
       /\ pc = "write" => \A a \in Holder \ unwritten : holders[a] = rebuilt[a]

CommonInv == IndexerTypeOK /\ ChainInv /\ PollInv /\ TableInv

\* The block the cursor stands on is one of the chain.
OnChain == cursor.hash \in {NoHash, HashAt(cursor.block)}

\* Reorgs stay within the blocks that are not confirmed; the process does not die
\* in a rewind that a failed lookup began.
Shallow(r) ==
  /\ r.depth <= LIVE_CONFIRMATIONS
  /\ "nullCursorHash" \in r.fault => r.fault \cap {"error", "crash"} = {}

\* The log then holds confirmed rows only, some of them past the cursor.
ShallowInv ==
  /\ OnChain
  /\ Rewinding => "nullCursorHash" \in regime.fault
  /\ processed \subseteq LogsOf(chain)
  /\ \A r \in processed : IsConfirmed(r.block)
  /\ LogsUpTo(IF pc = "moveCursor" THEN cursor.block - 1 ELSE cursor.block)
       \subseteq processed
  /\ InRange => /\ logs \subseteq LogsUpTo(LastOfRange)
                /\ LogsUpTo(LastOfRange) \subseteq processed \cup logs
  /\ pc = "anchor" => logs = {}

\* Reorgs reach the last indexed block at most; no poll ends between the rows of
\* a range and its cursor.
Orderly(r) ==
  /\ r.depth <= LIVE_CONFIRMATIONS + 1
  /\ r.fault \cap {"error", "crash", "nullEndHash"} = {}

\* The log then is the chain up to the cursor, but for the block under it, and
\* within a range up to the log that is being applied.
RowsInv ==
  /\ Kept(cursor.block) = LogsUpTo(cursor.block - 1)
  /\ pc = "moveCursor" => processed = LogsUpTo(cursor.block - 1)
  /\ OnChain /\ pc # "moveCursor" /\ ~InRange => processed = LogsUpTo(cursor.block)
  /\ pc \in {"range", "fetch", "compare", "finish"} \/ InRange => OnChain
  /\ pc \in {"reconcile", "replace", "write"} /\ reason \in {"reorg", "end"} => OnChain
  /\ InRange =>
       /\ logs \subseteq LogsUpTo(LastOfRange)
       /\ processed = LogsUpTo(LastOfRange) \ logs
       /\ \A r \in logs : \A q \in LogsUpTo(LastOfRange) : LogBefore(r, q) => q \in logs
  /\ pc \in {"debit", "credit"} => \A r \in logs : LogBefore(log, r)
  /\ pc \in {"debit", "credit"} =>
       \A q \in LogsUpTo(LastOfRange) : LogBefore(log, q) => q \in logs
  /\ pc = "anchor" => logs = {}

\* And the balances are those of the log, but for the transfer being applied.
HoldersInv ==
  /\ pc \notin {"replace", "write", "deleteLogs", "debit", "credit"} =>
       holders = Balances(processed)
  /\ pc = "deleteLogs" => holders = Balances(Kept(cursor.block))
  /\ pc = "debit" => holders = Balances(processed \ {log})
  /\ pc = "credit" =>
       holders = [a \in Holder |-> Balances(processed \ {log})[a]
                                    - (IF From(log) = a THEN Value(log) ELSE 0)]

\* The regimes in which the index is right at the end of every poll.
Robust == ~ReorgInPoll /\ \A r \in Regime : Shallow(r) \/ Orderly(r)

IndexerInv ==
  /\ CommonInv
  /\ ~ReorgInPoll /\ Shallow(regime) => ShallowInv
  /\ ~ReorgInPoll /\ Orderly(regime) => RowsInv /\ HoldersInv

=============================================================================
