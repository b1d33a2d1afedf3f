-------------------------- MODULE HotelStatus_proofs -------------------------
(***************************************************************************)
(* Theorems about the status and the answers of the public state API, for  *)
(* any number of requests, any threshold and any run of the indexer, with  *)
(* the pipeline, exceptions and deaths between any two statements.         *)
(***************************************************************************)
EXTENDS HotelStatus, TLAPS

USE HotelStatusAssumption DEF SYNCING, OPENS_SOON, DELAYED, db, worker

\* Times are numbers, and one may be missing.
LEMMA Times ==
  /\ 0 \in Time /\ NULL \in Maybe(Time) /\ NULL \notin Time
  /\ \A t \in Time : t \in Maybe(Time) /\ t \in Nat /\ t <= MaxTime
  /\ \A t \in Maybe(Time) : t # NULL => t \in Time
  /\ \A t \in Nat : t <= MaxTime => t \in Time
  BY DEF Time, Maybe

\* The records the actions start from are of their types.
LEMMA NoRunIsRun == NoRun \in Run /\ NoRun.pc = "idle" /\ NoRun.at = 0
                      /\ NoRun.then = "idle"
  BY Times DEF NoRun, Run, Point

LEMMA RestartedIsRun ==
  Restarted \in Run /\ Restarted.pc = "reconcile" /\ Restarted.at = 0
  /\ Restarted.then = "idle"
  BY NoRunIsRun DEF Restarted, Run, Point

LEMMA WithheldIsAnswer ==
  Withheld \in Answer /\ Withheld.pc = "answered" /\ Withheld.lastIndexedAt = NULL
  BY Times DEF Withheld, Answer

\* What the types say of the parts.
Numbers ==
  /\ now \in Nat /\ 0 <= now /\ now <= MaxTime /\ logged \in Nat /\ logged <= MaxTime
  /\ holders.version \in Nat /\ holders.version <= MaxTime
  /\ holders.whole \in BOOLEAN /\ holders.split \in BOOLEAN
  /\ indexer.at \in Nat /\ indexer.to \in Nat /\ indexer.to <= MaxTime
  /\ system.last_indexed_at # NULL =>
       system.last_indexed_at \in Nat /\ system.last_indexed_at <= MaxTime
  /\ system.last_indexed_block # NULL =>
       system.last_indexed_block \in Nat /\ system.last_indexed_block <= MaxTime
  /\ \A r \in Request : request[r].lastIndexedAt # NULL => request[r].lastIndexedAt \in Nat
  /\ \A r \in Request : request[r].version \in Nat

LEMMA NumbersAreTyped == ASSUME TypeOK PROVE Numbers
<1>1. now \in Time /\ logged \in Time /\ holders.version \in Time
      /\ holders.whole \in BOOLEAN /\ holders.split \in BOOLEAN
  BY DEF TypeOK, Table
<1>2. indexer.at \in Time /\ indexer.to \in Time
  BY DEF TypeOK, Run
<1>3. system.last_indexed_at \in Maybe(Time) /\ system.last_indexed_block \in Maybe(Time)
  BY DEF TypeOK, SystemRow
<1>4. \A r \in Request : request[r].lastIndexedAt \in Maybe(Time) /\ request[r].version \in Time
  BY DEF TypeOK, Answer
<1>. QED
  BY <1>1, <1>2, <1>3, <1>4, Times DEF Numbers

-----------------------------------------------------------------------------
(* What most steps have in common. *)

\* The row still says up to when, and to which block, the index goes.
SameCursor ==
  /\ system'.last_indexed_at = system.last_indexed_at
  /\ system'.last_indexed_block = system.last_indexed_block

\* The run goes on at pc with what it remembers.
GoesTo(pc) ==
  /\ indexer'.pc = pc
  /\ indexer'.then = indexer.then /\ indexer'.at = indexer.at /\ indexer'.to = indexer.to

\* The types of what a step writes.
Typed ==
  /\ system' \in SystemRow /\ logged' \in Time /\ holders' \in Table
  /\ indexer' \in Run
  /\ pipeline' \in {"idle", "delayed", "cleared"} /\ unannounced' \in BOOLEAN

LEMMA GotoGoes ==
  ASSUME TypeOK, NEW pc \in Point, Goto(pc)
  PROVE indexer' \in Run /\ GoesTo(pc) /\ indexer'.split = indexer.split
  BY DEF TypeOK, Run, Goto, GoesTo

\* markSyncing, refreshStalePublicStatus and the pipeline leave the cursor alone.
LEMMA RowsAreTyped ==
  ASSUME TypeOK
  PROVE  /\ system \in SystemRow
         /\ \A row \in {MarkSyncing(system), MarkGap(system)} :
              /\ row \in SystemRow /\ row.public_status = SYNCING
              /\ row.last_indexed_at = system.last_indexed_at
              /\ row.last_indexed_block = system.last_indexed_block
         /\ \A t : LET row == RefreshStalePublicStatus(system, t)
                   IN /\ row \in SystemRow
                      /\ row.public_status \in {SYNCING, system.public_status}
                      /\ row.last_indexed_at = system.last_indexed_at
                      /\ row.last_indexed_block = system.last_indexed_block
  BY DEF TypeOK, SystemRow, MarkSyncing, MarkGap, RefreshStalePublicStatus

\* A step that writes neither the table nor the requests, nor moves the cursor.
LEMMA PlainStep ==
  ASSUME IInv, UNCHANGED <<now, holders, request>>, SameCursor, Typed,
         RunInv', StatusInv', indexer'.pc \in Rewriting => indexer.pc \in Rewriting
  PROVE  IInv'
<1>1. TypeOK'
  BY DEF IInv, TypeOK, Dated, SameCursor, Typed
<1>2. RequestInv' /\ ShownRoomsAreSettled'
  BY DEF IInv, RequestInv, ShownRoomsAreSettled, Shown
<1>. QED
  BY <1>1, <1>2 DEF IInv

\* A step that writes the table and the log: no request that is reading may lose
\* what it has been promised.
LEMMA TableStep ==
  ASSUME IInv, UNCHANGED <<now, request>>, SameCursor, Typed,
         RunInv', StatusInv', indexer'.pc \in Rewriting => indexer.pc \in Rewriting,
         \/ indexer.pc \in Rewriting
         \/ holders.whole => holders'.whole /\ holders'.version >= holders.version
  PROVE  IInv'
<1>1. TypeOK'
  BY DEF IInv, TypeOK, Dated, SameCursor, Typed
<1>2. RequestInv'
  <2>1. Numbers /\ holders'.version \in Nat
    BY NumbersAreTyped, Times DEF IInv, Typed, Table
  <2>2. \A r \in Request : request[r].pc = "reading" => request[r].lastIndexedAt \in Nat
    BY <2>1 DEF IInv, TypeOK, Dated, Numbers
  <2>. QED
    BY <2>1, <2>2 DEF IInv, RequestInv, Numbers
<1>3. ShownRoomsAreSettled'
  BY DEF IInv, ShownRoomsAreSettled, Shown
<1>. QED
  BY <1>1, <1>2, <1>3 DEF IInv

\* A poll that ends, whatever it leaves, when it has not moved the cursor.
LEMMA EndsKeeps ==
  ASSUME IInv, UNCHANGED <<now, logged, holders, request>>, SameCursor, Ends,
         system' \in SystemRow, pipeline' \in {"idle", "delayed", "cleared"},
         system'.public_status \in {SYNCING, system.public_status}
  PROVE  IInv'
<1>0. Numbers
  BY NumbersAreTyped DEF IInv
<1>1. /\ indexer' \in Run /\ indexer'.pc = "idle" /\ indexer'.at = 0
      /\ indexer'.then = "idle" /\ unannounced' = (unannounced /\ ~Settled')
  BY NoRunIsRun DEF Ends
<1>2. Settled' <=> Settled
  BY DEF SameCursor, Settled
<1>3. Typed
  BY <1>1 DEF Typed, IInv, TypeOK
<1>4. RunInv'
  <2>1. 0 <= now
    BY <1>0, Zenon DEF Numbers
  <2>. QED
    BY <1>1, <2>1 DEF IInv, RunInv, SameCursor
<1>5. StatusInv'
  BY <1>1, <1>2 DEF IInv, StatusInv, InOrder, Rewriting, Ranging
<1>. QED
  BY <1>1, <1>3, <1>4, <1>5, PlainStep DEF Rewriting

-----------------------------------------------------------------------------
(* The indexer reads the head and scans. *)

LEMMA RunOnceKeeps == ASSUME IInv, RunOnce PROVE IInv'
<1>0. Numbers
  BY NumbersAreTyped DEF IInv
<1>1. /\ UNCHANGED <<now, logged, holders, request, pipeline, unannounced>>
      /\ indexer.pc = "idle" /\ indexer'.pc = "head" /\ indexer'.then = "finish"
      /\ indexer'.at = now /\ indexer' \in Run
  BY NoRunIsRun DEF RunOnce, At, WritesSystem, IInv, TypeOK, Run, Point
<1>2. /\ system' \in SystemRow /\ SameCursor
      /\ system'.public_status \in {SYNCING, system.public_status}
  BY RowsAreTyped DEF RunOnce, WritesSystem, SameCursor, IInv
<1>3. Typed
  BY <1>1, <1>2 DEF Typed, IInv, TypeOK
<1>4. RunInv'
  <2>1. now <= now
    BY <1>0 DEF Numbers
  <2>. QED
    BY <1>1, <1>2, <2>1 DEF IInv, RunInv, SameCursor
<1>5. StatusInv'
  BY <1>1, <1>2 DEF IInv, StatusInv, InOrder, Settled, SameCursor, Rewriting, Ranging
<1>. QED
  BY <1>1, <1>2, <1>3, <1>4, <1>5, PlainStep DEF Rewriting

\* markSyncing overtakes the requests that are reading, before handleReorg and
\* before replaceBalances.
LEMMA AnnouncedStep ==
  ASSUME IInv, NEW pc \in {"rewind", "delete"}, Goto(pc), Overtake,
         system' = MarkSyncing(system),
         UNCHANGED <<now, logged, holders, pipeline, unannounced>>,
         pc = "rewind" => /\ indexer.then # "idle"
                          /\ system.last_indexed_block \notin {NULL, 0}
  PROVE  IInv'
<1>0. Numbers
  BY NumbersAreTyped DEF IInv
<1>1. indexer' \in Run /\ GoesTo(pc)
  BY GotoGoes DEF IInv, Point, Rewriting
<1>2. system' \in SystemRow /\ SameCursor /\ system'.public_status = SYNCING
  BY RowsAreTyped DEF SameCursor, IInv
<1>3. /\ request' \in [Request -> Answer]
      /\ \A r \in Request :
           /\ request'[r].pc = request[r].pc
           /\ request'[r].lastIndexedAt = request[r].lastIndexedAt
           /\ request'[r].pc = "reading" => request'[r].calm = FALSE
           /\ request[r].pc # "reading" => request'[r] = request[r]
  BY DEF Overtake, IInv, TypeOK, Answer
<1>4. TypeOK'
  BY <1>1, <1>2, <1>3 DEF IInv, TypeOK, Dated, SameCursor
<1>5. RunInv'
  BY <1>0, <1>1, <1>2 DEF IInv, RunInv, SameCursor, GoesTo
<1>6. StatusInv' /\ RequestInv'
  BY <1>2, <1>3 DEF StatusInv, RequestInv
<1>7. ShownRoomsAreSettled'
  BY <1>3 DEF IInv, ShownRoomsAreSettled, Shown
<1>. QED
  BY <1>4, <1>5, <1>6, <1>7 DEF IInv

LEMMA DetectReorgKeeps == ASSUME IInv, DetectReorg PROVE IInv'
  BY AnnouncedStep DEF DetectReorg, At, IInv, RunInv

LEMMA ReconcileMismatchKeeps == ASSUME IInv, ReconcileMismatch PROVE IInv'
  BY AnnouncedStep DEF ReconcileMismatch

\* From the head, or after a rewind, a run goes on to a range, to a reconcile or
\* to its end.
LEMMA ScanStep ==
  ASSUME IInv, Scans, UNCHANGED <<now, logged, holders, request, pipeline, unannounced>>,
         indexer' \in Run, indexer'.pc \in {"reconcile", "finish", "index"},
         indexer'.then = "finish", indexer'.at = indexer.at,
         system' \in SystemRow, SameCursor,
         \/ system'.public_status = SYNCING
         \/ system' = system /\ (indexer'.pc = "index" => indexer'.to = now)
  PROVE  IInv'
<1>0. Numbers /\ indexer.then # "idle"
  BY NumbersAreTyped DEF IInv, RunInv, Scans, At
<1>1. Typed
  BY DEF Typed, IInv, TypeOK
<1>2. RunInv'
  BY <1>0 DEF IInv, RunInv, SameCursor
<1>3. StatusInv'
  BY <1>0 DEF IInv, RunInv, StatusInv, InOrder, Settled, SameCursor, Rewriting, Ranging
<1>. QED
  BY <1>1, <1>2, <1>3, PlainStep DEF Rewriting

LEMMA NoNewBlocksKeeps == ASSUME IInv, NoNewBlocks PROVE IInv'
<1>1. /\ indexer' \in Run /\ indexer'.pc \in {"reconcile", "finish"}
      /\ indexer'.then = "finish" /\ indexer'.at = indexer.at
  BY DEF NoNewBlocks, IInv, TypeOK, Run, Point
<1>2. system' = system /\ UNCHANGED <<now, logged, holders, request, pipeline, unannounced>>
  BY DEF NoNewBlocks, WritesNothing
<1>3. system' \in SystemRow /\ SameCursor
  BY <1>2 DEF IInv, TypeOK, SameCursor
<1>. QED
  BY <1>1, <1>2, <1>3, ScanStep DEF NoNewBlocks

LEMMA NewBlocksKeeps == ASSUME IInv, NewBlocks PROVE IInv'
<1>1. /\ indexer' \in Run /\ indexer'.pc = "index" /\ indexer'.to = now
      /\ indexer'.then = "finish" /\ indexer'.at = indexer.at
  BY DEF NewBlocks, IInv, TypeOK, Run, Point, Ranging
<1>2. system' = system /\ UNCHANGED <<now, logged, holders, request, pipeline, unannounced>>
  BY DEF NewBlocks, WritesNothing
<1>3. system' \in SystemRow /\ SameCursor
  BY <1>2 DEF IInv, TypeOK, SameCursor
<1>. QED
  BY <1>1, <1>2, <1>3, ScanStep DEF NewBlocks

LEMMA DetectGapKeeps == ASSUME IInv, DetectGap PROVE IInv'
<1>1. FirstNew \in Nat /\ (FirstNew # now => now - 1 \in Time)
  BY NumbersAreTyped, Times DEF IInv, Numbers, FirstNew, DetectGap
<1>2. /\ indexer' \in Run /\ indexer'.pc \in {"reconcile", "index"}
      /\ indexer'.then = "finish" /\ indexer'.at = indexer.at
  <2>1. CASE FirstNew = now
    BY <2>1 DEF DetectGap, IInv, TypeOK, Run, Point
  <2>2. CASE FirstNew # now
    BY <1>1, <2>2 DEF DetectGap, IInv, TypeOK, Run, Point, Ranging
  <2>. QED
    BY <2>1, <2>2
<1>3. /\ system' \in SystemRow /\ SameCursor /\ system'.public_status = SYNCING
      /\ UNCHANGED <<now, logged, holders, request, pipeline, unannounced>>
  BY RowsAreTyped DEF DetectGap, WritesSystem, SameCursor, IInv
<1>. QED
  BY <1>2, <1>3, ScanStep DEF DetectGap

-----------------------------------------------------------------------------
(* The indexer rewrites the table. *)

LEMMA RewindDeleteKeeps == ASSUME IInv, RewindDelete PROVE IInv'
<1>1. indexer.pc = "rewind" /\ indexer' \in Run /\ GoesTo("rewound")
  BY GotoGoes DEF RewindDelete, At, IInv, Point, Rewriting
<1>2. /\ UNCHANGED <<now, logged, system, request, pipeline, unannounced>>
      /\ holders' \in Table
  BY DEF RewindDelete, WritesHolders, IInv, TypeOK, Table
<1>3. Typed /\ SameCursor
  BY <1>1, <1>2 DEF Typed, SameCursor, IInv, TypeOK
<1>4. RunInv' /\ StatusInv'
  BY <1>1, <1>2 DEF IInv, RunInv, StatusInv, InOrder, GoesTo, Rewriting
<1>. QED
  BY <1>1, <1>2, <1>3, <1>4, TableStep DEF Rewriting

\* What handleReorg keeps.
LEMMA KeptIsTime ==
  ASSUME IInv, indexer.pc \in {"rewound", "restored", "deleted"}
  PROVE  /\ Kept \in Time /\ system.last_indexed_block \in Time
         /\ system.last_indexed_block - 1 \in Time
<1>1. Numbers /\ system.last_indexed_block \notin {NULL, 0}
  BY NumbersAreTyped DEF IInv, RunInv
<1>2. system.last_indexed_block \in Nat \ {0} /\ system.last_indexed_block <= MaxTime
  BY <1>1 DEF Numbers
<1>. QED
  BY <1>1, <1>2, Times DEF Kept, Numbers

LEMMA RewindInsertKeeps == ASSUME IInv, RewindInsert PROVE IInv'
<1>1. indexer.pc = "rewound" /\ indexer' \in Run /\ GoesTo("restored")
  BY GotoGoes DEF RewindInsert, At, IInv, Point, Rewriting
<1>2. /\ UNCHANGED <<now, logged, system, request, pipeline, unannounced>>
      /\ holders' \in Table
  BY <1>1, KeptIsTime DEF RewindInsert, WritesHolders, Table
<1>3. Typed /\ SameCursor
  BY <1>1, <1>2 DEF Typed, SameCursor, IInv, TypeOK
<1>4. RunInv' /\ StatusInv'
  BY <1>1, <1>2 DEF IInv, RunInv, StatusInv, InOrder, GoesTo, Rewriting
<1>. QED
  BY <1>1, <1>2, <1>3, <1>4, TableStep DEF Rewriting

LEMMA RewindTransfersKeeps == ASSUME IInv, RewindTransfers PROVE IInv'
<1>1. indexer.pc = "restored" /\ indexer' \in Run /\ GoesTo("deleted")
  BY GotoGoes DEF RewindTransfers, At, IInv, Point, Rewriting
<1>2. /\ UNCHANGED <<now, system, request, pipeline, unannounced>>
      /\ holders' \in Table /\ logged' \in Time
  BY <1>1, KeptIsTime DEF RewindTransfers, IInv, TypeOK, Table
<1>3. Typed /\ SameCursor
  BY <1>1, <1>2 DEF Typed, SameCursor, IInv, TypeOK
<1>4. RunInv' /\ StatusInv'
  BY <1>1, <1>2 DEF IInv, RunInv, StatusInv, InOrder, GoesTo, Rewriting
<1>. QED
  BY <1>1, <1>2, <1>3, <1>4, TableStep DEF Rewriting

LEMMA RewindCursorKeeps == ASSUME IInv, RewindCursor PROVE IInv'
<1>0. Numbers
  BY NumbersAreTyped DEF IInv
<1>1. /\ indexer.pc = "deleted" /\ indexer' \in Run /\ indexer'.pc = "reconcile"
      /\ indexer'.then = "scan" /\ indexer'.at = indexer.at
  BY DEF RewindCursor, At, IInv, TypeOK, Run, Point
<1>2. /\ UNCHANGED <<now, logged, holders, request, pipeline, unannounced>>
      /\ system' = [system EXCEPT !.last_indexed_block = @ - 1]
  BY DEF RewindCursor, WritesSystem
<1>3. /\ system' \in SystemRow /\ system'.last_indexed_at = system.last_indexed_at
      /\ system'.public_status = system.public_status
  BY <1>1, <1>2, KeptIsTime, Times DEF IInv, TypeOK, SystemRow
<1>4. TypeOK'
  BY <1>1, <1>2, <1>3 DEF IInv, TypeOK, Dated
<1>5. RunInv' /\ StatusInv'
  BY <1>1, <1>2, <1>3 DEF IInv, RunInv, StatusInv, InOrder, Rewriting
<1>6. RequestInv' /\ ShownRoomsAreSettled'
  BY <1>1, <1>2 DEF IInv, RequestInv, ShownRoomsAreSettled, Shown, Rewriting
<1>. QED
  BY <1>4, <1>5, <1>6 DEF IInv

LEMMA ReplaceDeleteKeeps == ASSUME IInv, ReplaceDelete PROVE IInv'
<1>1. indexer.pc = "delete" /\ indexer' \in Run /\ GoesTo("insert")
  BY GotoGoes DEF ReplaceDelete, At, IInv, Point, Rewriting
<1>2. /\ UNCHANGED <<now, logged, system, request, pipeline, unannounced>>
      /\ holders' \in Table
  BY DEF ReplaceDelete, WritesHolders, IInv, TypeOK, Table
<1>3. Typed /\ SameCursor
  BY <1>1, <1>2 DEF Typed, SameCursor, IInv, TypeOK
<1>4. RunInv' /\ StatusInv'
  BY <1>1, <1>2 DEF IInv, RunInv, StatusInv, InOrder, GoesTo, Rewriting
<1>. QED
  BY <1>1, <1>2, <1>3, <1>4, TableStep DEF Rewriting

LEMMA ReplaceInsertKeeps == ASSUME IInv, ReplaceInsert PROVE IInv'
<1>0. indexer.then \in {"idle", "scan", "finish"}
  BY DEF IInv, TypeOK, Run
<1>1. indexer.pc = "insert" /\ indexer' \in Run /\ GoesTo(indexer.then)
  BY <1>0, GotoGoes DEF ReplaceInsert, At, IInv, Point
<1>2. /\ UNCHANGED <<now, logged, system, request, pipeline, unannounced>>
      /\ holders' \in Table
  BY DEF ReplaceInsert, WritesHolders, IInv, TypeOK, Table
<1>3. Typed /\ SameCursor
  BY <1>1, <1>2 DEF Typed, SameCursor, IInv, TypeOK
<1>4. RunInv'
  BY <1>0, <1>1, <1>2 DEF IInv, RunInv, GoesTo
<1>5. StatusInv'
  BY <1>1, <1>2 DEF IInv, StatusInv, InOrder, Rewriting
<1>. QED
  BY <1>0, <1>1, <1>2, <1>3, <1>4, <1>5, TableStep DEF Rewriting

LEMMA ReconcileMatchKeeps == ASSUME IInv, ReconcileMatch PROVE IInv'
<1>0. indexer.then \in {"idle", "scan", "finish"}
  BY DEF IInv, TypeOK, Run
<1>1. indexer.pc = "reconcile" /\ indexer' \in Run /\ GoesTo(indexer.then)
  BY <1>0, GotoGoes DEF ReconcileMatch, At, IInv, Point
<1>2. UNCHANGED <<now, logged, holders, system, request, pipeline, unannounced>>
  BY DEF ReconcileMatch, WritesNothing
<1>3. Typed /\ SameCursor
  BY <1>1, <1>2 DEF Typed, SameCursor, IInv, TypeOK
<1>4. RunInv'
  BY <1>0, <1>1, <1>2 DEF IInv, RunInv, GoesTo
<1>5. StatusInv'
  BY <1>0, <1>1, <1>2 DEF IInv, StatusInv, InOrder, Settled, GoesTo, Rewriting, Ranging
<1>. QED
  BY <1>0, <1>1, <1>2, <1>3, <1>4, <1>5, PlainStep DEF GoesTo, Rewriting

-----------------------------------------------------------------------------
(* The indexer applies a range. *)

LEMMA InsertTransferKeeps == ASSUME IInv, InsertTransfer PROVE IInv'
<1>1. /\ indexer.pc = "index" /\ indexer' \in Run /\ GoesTo("debit")
  BY DEF InsertTransfer, At, IInv, TypeOK, Run, Table, Point, Ranging, GoesTo
<1>2. /\ UNCHANGED <<now, logged, system, request, pipeline, unannounced>>
      /\ holders' \in Table /\ holders'.whole = holders.whole
      /\ holders'.version = holders.version
  BY DEF InsertTransfer, WritesHolders, IInv, TypeOK, Table
<1>3. Typed /\ SameCursor
  BY <1>1, <1>2 DEF Typed, SameCursor, IInv, TypeOK
<1>4. RunInv'
  BY <1>1, <1>2 DEF IInv, RunInv, GoesTo
<1>5. StatusInv'
  BY <1>1, <1>2 DEF IInv, StatusInv, InOrder, Settled, GoesTo, Rewriting, Ranging
<1>6. holders.version >= holders.version
  BY NumbersAreTyped DEF IInv, Numbers
<1>. QED
  BY <1>1, <1>2, <1>3, <1>4, <1>5, <1>6, TableStep DEF GoesTo, Rewriting

LEMMA DebitSenderKeeps == ASSUME IInv, DebitSender PROVE IInv'
<1>1. indexer.pc = "debit" /\ indexer' \in Run /\ GoesTo("credit")
  BY GotoGoes DEF DebitSender, At, IInv, Point, Ranging
<1>2. UNCHANGED <<now, logged, holders, system, request, pipeline, unannounced>>
  BY DEF DebitSender, WritesNothing
<1>3. Typed /\ SameCursor
  BY <1>1, <1>2 DEF Typed, SameCursor, IInv, TypeOK
<1>4. RunInv'
  BY <1>1, <1>2 DEF IInv, RunInv, GoesTo
<1>5. StatusInv'
  BY <1>1, <1>2 DEF IInv, StatusInv, InOrder, Settled, GoesTo, Rewriting, Ranging
<1>. QED
  BY <1>1, <1>2, <1>3, <1>4, <1>5, PlainStep DEF GoesTo, Rewriting

LEMMA CreditReceiverKeeps == ASSUME IInv, CreditReceiver PROVE IInv'
<1>1. /\ indexer.pc = "credit" /\ indexer' \in Run /\ GoesTo("index")
      /\ indexer.split \in BOOLEAN
  BY DEF CreditReceiver, At, IInv, TypeOK, Run, Point, Ranging, GoesTo
<1>2. /\ UNCHANGED <<now, logged, system, request, pipeline, unannounced>>
      /\ holders' \in Table /\ holders'.whole = holders.whole
      /\ holders'.version = holders.version
  BY <1>1 DEF CreditReceiver, WritesHolders, IInv, TypeOK, Table
<1>3. Typed /\ SameCursor
  BY <1>1, <1>2 DEF Typed, SameCursor, IInv, TypeOK
<1>4. RunInv'
  BY <1>1, <1>2 DEF IInv, RunInv, GoesTo
<1>5. StatusInv'
  BY <1>1, <1>2 DEF IInv, StatusInv, InOrder, Settled, GoesTo, Rewriting, Ranging
<1>6. holders.version >= holders.version
  BY NumbersAreTyped DEF IInv, Numbers
<1>. QED
  BY <1>1, <1>2, <1>3, <1>4, <1>5, <1>6, TableStep DEF GoesTo, Rewriting

\* Adding the range never takes anything back, and completes what was complete up
\* to the cursor.
LEMMA RangeIsAdded ==
  ASSUME IInv, NEW b \in Time
  PROVE  /\ WithRange(b) \in Time /\ WithRange(b) >= b
         /\ (system.last_indexed_block # NULL => b >= system.last_indexed_block) =>
              WithRange(b) >= indexer.to
<1>1. Numbers /\ indexer.to \in Time /\ b \in Nat
  BY NumbersAreTyped, Times DEF IInv, TypeOK, Run
<1>. QED
  BY <1>1 DEF WithRange, Numbers

LEMMA IndexRangeKeeps == ASSUME IInv, IndexRange PROVE IInv'
<1>0. Numbers
  BY NumbersAreTyped DEF IInv
<1>1. indexer.pc = "index" /\ indexer' \in Run /\ GoesTo("cursor")
  BY GotoGoes DEF IndexRange, At, IInv, Point, Ranging
<1>2. /\ UNCHANGED <<now, system, request, pipeline, unannounced>>
      /\ logged' = WithRange(logged)
      /\ holders' = IF holders.split THEN holders
                    ELSE [holders EXCEPT !.version = WithRange(holders.version)]
  BY DEF IndexRange
<1>3. /\ logged' \in Time /\ WithRange(holders.version) \in Time
      /\ WithRange(holders.version) >= holders.version
      /\ (system.last_indexed_block # NULL => holders.version >= system.last_indexed_block)
           => WithRange(holders.version) >= indexer.to
  BY <1>2, RangeIsAdded DEF IInv, TypeOK, Table
<1>4. /\ holders' \in Table /\ holders'.whole = holders.whole
      /\ holders'.version >= holders.version /\ holders'.split = holders.split
      /\ holders.split \/ holders'.version = WithRange(holders.version)
      /\ holders'.version \in Nat
  <2>1. holders \in Table
    BY DEF IInv, TypeOK
  <2>2. CASE holders.split
    <3>1. holders' = holders /\ holders.version \in Nat
      BY <1>0, <1>2, <2>2 DEF Numbers
    <3>2. holders.version >= holders.version
      BY <3>1
    <3>. QED
      BY <2>1, <2>2, <3>1, <3>2
  <2>3. CASE ~holders.split
    BY <1>2, <1>3, <2>1, <2>3, Times DEF Table
  <2>. QED
    BY <2>2, <2>3
<1>5. Typed /\ SameCursor
  BY <1>1, <1>2, <1>3, <1>4 DEF Typed, SameCursor, IInv, TypeOK
<1>6. RunInv'
  BY <1>1, <1>2 DEF IInv, RunInv, GoesTo
<1>7. StatusInv'
  <2>1. ASSUME Settled PROVE Settled'
    BY <1>0, <1>2, <1>4, <2>1 DEF Settled, Numbers
  <2>2. ASSUME Settled PROVE holders'.split \/ holders'.version >= indexer'.to
    BY <1>1, <1>3, <1>4, <2>2 DEF Settled, GoesTo
  <2>. QED
    BY <1>1, <1>2, <2>1, <2>2 DEF IInv, StatusInv, InOrder, GoesTo, Rewriting, Ranging
<1>. QED
  BY <1>1, <1>2, <1>4, <1>5, <1>6, <1>7, TableStep DEF GoesTo, Rewriting

LEMMA IndexRangeThrowsKeeps == ASSUME IInv, IndexRangeThrows PROVE IInv'
<1>1. /\ system' \in SystemRow /\ SameCursor /\ system'.public_status = SYNCING
  BY RowsAreTyped DEF IndexRangeThrows, SameCursor, IInv
<1>2. /\ UNCHANGED <<now, logged, holders, request, pipeline>> /\ Ends
  BY DEF IndexRangeThrows
<1>. QED
  BY <1>1, <1>2, EndsKeeps DEF IInv, TypeOK

\* The cursor is moved to the end of the range.
LEMMA SetCursorKeeps == ASSUME IInv, SetCursor PROVE IInv'
<1>0. Numbers
  BY NumbersAreTyped DEF IInv
<1>1. indexer.pc = "cursor" /\ indexer' \in Run /\ GoesTo("check")
  BY GotoGoes DEF SetCursor, At, IInv, Point
<1>2. /\ UNCHANGED <<now, logged, holders, request, pipeline>>
      /\ unannounced' = (unannounced \/ holders.split)
  BY DEF SetCursor
<1>3. /\ system' \in SystemRow /\ system'.public_status = system.public_status
      /\ system'.last_indexed_at = indexer.at /\ system'.last_indexed_block = indexer.to
      /\ indexer.at \in Time
  BY Times DEF SetCursor, IndexedAt, IInv, TypeOK, SystemRow, Run
<1>4. /\ indexer.then # "idle" /\ indexer.at <= now /\ NULL \notin Nat
      /\ system.last_indexed_at # NULL => system.last_indexed_at <= indexer.at
  BY <1>1 DEF IInv, RunInv
<1>5. TypeOK'
  <2>1. ASSUME NEW r \in Request PROVE Dated(request[r])'
    <3>1. Dated(request[r])
      BY DEF IInv, TypeOK
    <3>2. request[r].lastIndexedAt # NULL => request[r].lastIndexedAt <= indexer.at
      BY <1>0, <1>4, <3>1 DEF Numbers, Dated
    <3>. QED
      BY <1>0, <1>2, <1>3, <1>4, <3>1, <3>2 DEF Dated, Numbers
  <2>. QED
    BY <1>1, <1>2, <1>3, <2>1 DEF IInv, TypeOK, Table
<1>6. RunInv'
  <2>1. indexer.at <= indexer.at
    BY <1>0 DEF Numbers
  <2>. QED
    BY <1>1, <1>2, <1>3, <1>4, <2>1 DEF RunInv, GoesTo
<1>7. StatusInv'
  <2>1. ASSUME InOrder, ~holders.split PROVE InOrder'
    <3>1. holders.whole /\ holders.version >= indexer.to /\ indexer.at <= indexer.to
      BY <1>1, <2>1 DEF InOrder, Settled, Ranging
    <3>2. holders.version >= indexer.at
      BY <1>0, <3>1 DEF Numbers
    <3>. QED
      BY <1>1, <1>2, <1>3, <3>1, <3>2 DEF InOrder, Settled, GoesTo, Rewriting, Ranging
  <2>. QED
    BY <1>2, <1>3, <2>1 DEF IInv, StatusInv
<1>8. RequestInv' /\ ShownRoomsAreSettled'
  BY <1>1, <1>2 DEF IInv, RequestInv, ShownRoomsAreSettled, Shown, GoesTo, Rewriting
<1>. QED
  BY <1>5, <1>6, <1>7, <1>8 DEF IInv

LEMMA AfterIndexRangeKeeps == ASSUME IInv, AfterIndexRange PROVE IInv'
<1>1. /\ indexer.pc = "check" /\ indexer' \in Run
      /\ GoesTo("finish") \/ GoesTo("reconcile")
  BY GotoGoes DEF AfterIndexRange, At, IInv, Point
<1>2. UNCHANGED <<now, logged, holders, request, pipeline, unannounced>>
  BY DEF AfterIndexRange, WritesSystem
<1>3. /\ system' \in SystemRow /\ SameCursor
      /\ system.public_status = SYNCING => system'.public_status = SYNCING
  BY DEF AfterIndexRange, WritesSystem, IInv, TypeOK, SystemRow, SameCursor
<1>4. Typed
  BY <1>1, <1>2, <1>3 DEF Typed, IInv, TypeOK
<1>5. RunInv'
  BY <1>1, <1>2, <1>3 DEF IInv, RunInv, GoesTo, SameCursor
<1>6. StatusInv'
  BY <1>1, <1>2, <1>3 DEF IInv, StatusInv, InOrder, Settled, GoesTo, SameCursor,
                          Rewriting, Ranging
<1>. QED
  BY <1>1, <1>2, <1>3, <1>4, <1>5, <1>6, PlainStep DEF GoesTo, Rewriting

LEMMA FinishKeeps == ASSUME IInv, Finish PROVE IInv'
<1>1. indexer.pc = "finish" /\ indexer' \in Run /\ GoesTo("refresh")
  BY GotoGoes DEF Finish, At, IInv, Point
<1>2. /\ UNCHANGED <<now, logged, holders, request, pipeline, unannounced>>
      /\ system' \in {system, MarkSyncing(system)}
  BY DEF Finish, AssertEscrowCoherence, WritesSystem
<1>3. /\ system' \in SystemRow /\ SameCursor
      /\ system'.public_status \in {SYNCING, system.public_status}
  BY <1>2, RowsAreTyped DEF IInv, SameCursor
<1>4. Typed
  BY <1>1, <1>2, <1>3 DEF Typed, IInv, TypeOK
<1>5. RunInv'
  BY <1>1, <1>2, <1>3 DEF IInv, RunInv, GoesTo, SameCursor
<1>6. StatusInv'
  BY <1>1, <1>2, <1>3 DEF IInv, StatusInv, InOrder, Settled, GoesTo, SameCursor,
                          Rewriting, Ranging
<1>. QED
  BY <1>1, <1>2, <1>3, <1>4, <1>5, <1>6, PlainStep DEF GoesTo, Rewriting

LEMMA FinishRefreshKeeps == ASSUME IInv, FinishRefresh PROVE IInv'
<1>1. /\ system' \in SystemRow /\ SameCursor
      /\ system'.public_status \in {SYNCING, system.public_status}
  BY RowsAreTyped DEF FinishRefresh, SameCursor, IInv
<1>2. /\ UNCHANGED <<now, logged, holders, request, pipeline>> /\ Ends
  BY DEF FinishRefresh
<1>. QED
  BY <1>1, <1>2, EndsKeeps DEF IInv, TypeOK

-----------------------------------------------------------------------------
(* The pipeline, failures and the clock. *)

\* The pipeline writes any status: over HOTEL SYNCING only when the table is
\* settled and no run is under way, or it is remembered.
LEMMA PipelineStep ==
  ASSUME IInv, NEW from, NEW to \in {"idle", "delayed", "cleared"}, NEW row \in SystemRow,
         WritesStatus(from, to, row),
         row.last_indexed_at = system.last_indexed_at,
         row.last_indexed_block = system.last_indexed_block
  PROVE  IInv'
<1>1. /\ UNCHANGED <<now, logged, holders, indexer, request>> /\ system' = row
      /\ pipeline' = to /\ Overrule
  BY DEF WritesStatus
<1>2. Typed /\ SameCursor
  BY <1>1 DEF Typed, SameCursor, IInv, TypeOK, Overrule
<1>3. RunInv'
  BY <1>1, <1>2 DEF IInv, RunInv, SameCursor
<1>4. StatusInv'
  BY <1>1, <1>2 DEF IInv, StatusInv, InOrder, Settled, SameCursor, Overrule, At,
                    Rewriting, Ranging
<1>. QED
  BY <1>1, <1>2, <1>3, <1>4, PlainStep

LEMMA MarkDelayedKeeps == ASSUME IInv, MarkDelayed PROVE IInv'
<1> DEFINE row == [system EXCEPT !.public_status = DELAYED]
<1>1. /\ row \in SystemRow /\ row.last_indexed_at = system.last_indexed_at
      /\ row.last_indexed_block = system.last_indexed_block
  BY DEF IInv, TypeOK, SystemRow
<1>. QED
  BY <1>1, PipelineStep DEF MarkDelayed

LEMMA MarkStuckKeeps == ASSUME IInv, MarkStuck PROVE IInv'
<1> DEFINE row == [system EXCEPT !.operational_status = "STUCK"]
<1>1. /\ row \in SystemRow /\ row.last_indexed_at = system.last_indexed_at
      /\ row.last_indexed_block = system.last_indexed_block
      /\ system \in SystemRow
  BY DEF IInv, TypeOK, SystemRow
<1>. QED
  BY <1>1, PipelineStep DEF MarkStuck

LEMMA ClearDelayKeeps == ASSUME IInv, ClearDelay PROVE IInv'
<1> DEFINE row == [system EXCEPT !.operational_status = "OK",
                                 !.public_status = OPENS_SOON]
<1>1. /\ row \in SystemRow /\ row.last_indexed_at = system.last_indexed_at
      /\ row.last_indexed_block = system.last_indexed_block
  BY DEF IInv, TypeOK, SystemRow
<1>. QED
  BY <1>1, PipelineStep DEF ClearDelay

LEMMA ClearStatusKeeps == ASSUME IInv, ClearStatus PROVE IInv'
<1> DEFINE row == [system EXCEPT !.public_status = OPENS_SOON]
<1>1. /\ row \in SystemRow /\ row.last_indexed_at = system.last_indexed_at
      /\ row.last_indexed_block = system.last_indexed_block
  BY DEF IInv, TypeOK, SystemRow
<1>. QED
  BY <1>1, PipelineStep DEF ClearStatus

LEMMA PollThrowsKeeps == ASSUME IInv, PollThrows PROVE IInv'
<1>1. /\ UNCHANGED <<now, logged, holders, request, system>> /\ Ends
      /\ pipeline' \in {"idle", "delayed", "cleared"}
  BY DEF PollThrows
<1>2. system' \in SystemRow /\ SameCursor
  BY <1>1 DEF IInv, TypeOK, SameCursor
<1>. QED
  BY <1>1, <1>2, EndsKeeps

LEMMA CrashKeeps == ASSUME IInv, Crash PROVE IInv'
<1>0. 0 <= now
  BY NumbersAreTyped DEF IInv, Numbers
<1>1. /\ UNCHANGED <<now, logged, holders, request, system, unannounced>>
      /\ pipeline' \in {"idle", "delayed", "cleared"}
      /\ indexer' \in Run /\ indexer'.pc = "reconcile" /\ indexer'.then = "idle"
      /\ indexer'.at = 0
  BY RestartedIsRun DEF Crash
<1>2. Typed /\ SameCursor
  BY <1>1 DEF Typed, SameCursor, IInv, TypeOK
<1>3. RunInv'
  BY <1>0, <1>1 DEF IInv, RunInv
<1>4. StatusInv'
  BY <1>1 DEF IInv, StatusInv, InOrder, Settled, Rewriting, Ranging
<1>. QED
  BY <1>1, <1>2, <1>3, <1>4, PlainStep DEF Rewriting

LEMMA TickKeeps == ASSUME IInv, Tick PROVE IInv'
<1>0. Numbers /\ now \in Nat /\ MaxTime \in Nat
  BY NumbersAreTyped DEF IInv, Numbers
<1>1. /\ now' = now + 1 /\ now < MaxTime
      /\ UNCHANGED <<system, logged, holders, indexer, pipeline, unannounced, request>>
  BY DEF Tick
<1>2. TypeOK'
  <2>1. now' \in Time
    BY <1>0, <1>1, Times
  <2>. QED
    BY <1>1, <2>1 DEF IInv, TypeOK, Dated
<1>3. RunInv'
  BY <1>0, <1>1 DEF IInv, RunInv, Numbers
<1>4. StatusInv' /\ RequestInv' /\ ShownRoomsAreSettled'
  BY <1>1 DEF IInv, StatusInv, InOrder, Settled, RequestInv, ShownRoomsAreSettled, Shown
<1>. QED
  BY <1>2, <1>3, <1>4 DEF IInv

-----------------------------------------------------------------------------
(* The requests. *)

\* A request takes a step: the others and the database are as before.
LEMMA RequestStep ==
  ASSUME IInv, NEW r \in Request, NEW a \in Answer,
         request' = [request EXCEPT ![r] = a],
         UNCHANGED <<now, db, worker, unannounced>>, Dated(a),
         a.pc = "reading" /\ a.calm => /\ holders.whole
                                       /\ holders.version >= a.lastIndexedAt
                                       /\ indexer.pc \notin Rewriting,
         a.pc = "answered" /\ a.lastIndexedAt # NULL /\ a.calm =>
           a.whole /\ a.version >= a.lastIndexedAt
  PROVE  IInv'
<1>1. /\ request' \in [Request -> Answer] /\ request'[r] = a
      /\ \A q \in Request : q # r => request'[q] = request[q]
  BY DEF IInv, TypeOK
<1>2. TypeOK'
  BY <1>1 DEF IInv, TypeOK, Dated
<1>3. RunInv' /\ StatusInv'
  BY DEF IInv, RunInv, StatusInv, InOrder, Settled
<1>4. RequestInv'
  BY <1>1 DEF IInv, RequestInv
<1>5. ShownRoomsAreSettled'
  BY <1>1 DEF IInv, ShownRoomsAreSettled, Shown
<1>. QED
  BY <1>2, <1>3, <1>4, <1>5 DEF IInv

LEMMA LoadKeeps == ASSUME IInv, NEW r \in Request, Load(r) PROVE IInv'
<1> DEFINE a == [Withheld EXCEPT !.pc = "sent"]
<1>1. a \in Answer /\ a.pc = "sent" /\ a.lastIndexedAt = NULL
  BY WithheldIsAnswer DEF Answer
<1>2. Dated(a)
  BY <1>1 DEF Dated
<1>3. /\ request' = [request EXCEPT ![r] = a]
      /\ UNCHANGED <<now, db, worker, unannounced>>
  BY DEF Load
<1>. HIDE DEF a
<1>. QED
  BY <1>1, <1>2, <1>3, RequestStep

LEMMA WithheldKeeps ==
  ASSUME IInv, NEW r \in Request, request' = [request EXCEPT ![r] = Withheld],
         UNCHANGED <<now, db, worker, unannounced>>
  PROVE  IInv'
<1>1. Dated(Withheld)
  BY WithheldIsAnswer DEF Dated
<1>. QED
  BY <1>1, WithheldIsAnswer, RequestStep

LEMMA ReadSystemKeeps == ASSUME IInv, NEW r \in Request, ReadSystem(r) PROVE IInv'
<1>1. CASE ~IndexIsCurrent(system)
  BY <1>1, WithheldKeeps DEF ReadSystem, IInv, TypeOK
<1>2. CASE IndexIsCurrent(system)
  <2> DEFINE a == [request[r] EXCEPT !.pc = "reading", !.calm = ~unannounced,
                                     !.lastIndexedAt = system.last_indexed_at]
  <2>1. /\ system.last_indexed_at # NULL /\ system.last_indexed_at \in Maybe(Time)
        /\ system.public_status # SYNCING
    BY <1>2 DEF IndexIsCurrent, IInv, TypeOK, SystemRow
  <2>2. /\ a \in Answer /\ a.pc = "reading" /\ a.calm = ~unannounced
        /\ a.lastIndexedAt = system.last_indexed_at
    BY <2>1 DEF IInv, TypeOK, Answer
  <2>3. /\ request' = [request EXCEPT ![r] = a]
        /\ UNCHANGED <<now, db, worker, unannounced>>
    BY <1>2 DEF ReadSystem, IInv, TypeOK
  <2>. HIDE DEF a
  <2>4. Dated(a)
    <3>1. system.last_indexed_at \in Nat
      BY <2>1, NumbersAreTyped DEF IInv, Numbers
    <3>2. system.last_indexed_at <= system.last_indexed_at
      BY <3>1
    <3>. QED
      BY <2>1, <2>2, <2>3, <3>2 DEF Dated
  <2>5. a.calm => /\ holders.whole /\ holders.version >= a.lastIndexedAt
                  /\ indexer.pc \notin Rewriting
    BY <2>1, <2>2 DEF IInv, StatusInv, InOrder, Settled
  <2>. QED
    BY <2>2, <2>3, <2>4, <2>5, RequestStep
<1>. QED
  BY <1>1, <1>2

LEMMA ReadRoomsKeeps == ASSUME IInv, NEW r \in Request, ReadRooms(r) PROVE IInv'
<1> DEFINE a == [request[r] EXCEPT !.pc = "answered", !.version = holders.version,
                                   !.whole = holders.whole]
<1>1. /\ a \in Answer /\ a.pc = "answered" /\ a.calm = request[r].calm
      /\ a.lastIndexedAt = request[r].lastIndexedAt
      /\ a.version = holders.version /\ a.whole = holders.whole
  BY DEF IInv, TypeOK, Answer, Table
<1>2. /\ request' = [request EXCEPT ![r] = a] /\ request[r].pc = "reading"
      /\ UNCHANGED <<now, db, worker, unannounced>>
  BY DEF ReadRooms, IInv, TypeOK
<1>. HIDE DEF a
<1>3. Dated(a)
  BY <1>1, <1>2 DEF IInv, TypeOK, Dated
<1>. QED
  BY <1>1, <1>2, <1>3, RequestStep DEF IInv, RequestInv

LEMMA WithholdRoomsKeeps == ASSUME IInv, NEW r \in Request, WithholdRooms(r) PROVE IInv'
  BY WithheldKeeps DEF WithholdRooms

-----------------------------------------------------------------------------
(* The invariant. *)

LEMMA InitEstablishes == ASSUME Init PROVE IInv
<1>1. system \in SystemRow /\ system.last_indexed_at = NULL
      /\ system.last_indexed_block = NULL
  BY Times DEF Init, SystemRow
<1>2. request \in [Request -> Answer] /\ \A r \in Request : request[r] = Withheld
  BY WithheldIsAnswer DEF Init
<1>3. \A r \in Request : Dated(request[r])
  BY <1>2, WithheldIsAnswer DEF Dated
<1>4. holders \in Table /\ holders.whole
  BY Times DEF Init, Table
<1>5. /\ indexer \in Run /\ indexer.pc = "reconcile" /\ indexer.then = "idle"
      /\ indexer.at = 0 /\ now = 0
  BY RestartedIsRun DEF Init
<1>6. TypeOK
  BY <1>1, <1>2, <1>3, <1>4, <1>5, Times DEF Init, TypeOK
<1>7. RunInv
  <2>1. indexer.at <= now
    BY <1>5
  <2>. QED
    BY <1>1, <1>5, <2>1 DEF RunInv
<1>8. StatusInv
  BY <1>1, <1>4, <1>5 DEF StatusInv, InOrder, Settled, Rewriting, Ranging
<1>9. RequestInv /\ ShownRoomsAreSettled
  BY <1>2, WithheldIsAnswer DEF RequestInv, ShownRoomsAreSettled, Shown
<1>. QED
  BY <1>6, <1>7, <1>8, <1>9 DEF IInv

LEMMA StepKeeps == ASSUME IInv, [Next]_vars PROVE IInv'
<1>1. CASE Indexing
  BY <1>1, RunOnceKeeps, DetectReorgKeeps, RewindDeleteKeeps, RewindInsertKeeps,
     RewindTransfersKeeps, RewindCursorKeeps, NoNewBlocksKeeps, NewBlocksKeeps,
     DetectGapKeeps, InsertTransferKeeps, DebitSenderKeeps, CreditReceiverKeeps,
     IndexRangeKeeps, IndexRangeThrowsKeeps, SetCursorKeeps, AfterIndexRangeKeeps,
     ReconcileMatchKeeps, ReconcileMismatchKeeps, ReplaceDeleteKeeps,
     ReplaceInsertKeeps, FinishKeeps, FinishRefreshKeeps DEF Indexing
<1>2. CASE RoomService
  BY <1>2, MarkDelayedKeeps, MarkStuckKeeps, ClearDelayKeeps, ClearStatusKeeps
     DEF RoomService
<1>3. CASE Serving
  BY <1>3, LoadKeeps, ReadSystemKeeps, ReadRoomsKeeps, WithholdRoomsKeeps DEF Serving
<1>4. CASE PollThrows \/ Crash \/ Tick
  BY <1>4, PollThrowsKeeps, CrashKeeps, TickKeeps
<1>5. CASE UNCHANGED vars
  <2>. USE <1>5 DEF vars
  <2>1. TypeOK'
    BY DEF IInv, TypeOK, Dated
  <2>2. RunInv' /\ StatusInv'
    BY DEF IInv, RunInv, StatusInv, InOrder, Settled
  <2>3. RequestInv' /\ ShownRoomsAreSettled'
    BY DEF IInv, RequestInv, ShownRoomsAreSettled, Shown
  <2>. QED
    BY <2>1, <2>2, <2>3 DEF IInv
<1>. QED
  BY <1>1, <1>2, <1>3, <1>4, <1>5 DEF Next

\* Where a run of the indexer stands, what the status says of it and what the
\* requests have read belong together in every state.
THEOREM Invariance == Spec => []IInv
<1>1. Init => IInv
  BY InitEstablishes
<1>2. IInv /\ [Next]_vars => IInv'
  BY StepKeeps
<1>. QED
  BY <1>1, <1>2, PTL DEF Spec

\* The row, the log, the table, the run and the answers keep their types, and no
\* answer is dated after the index (public-state.ts, engine.ts).
THEOREM TypeCorrect == Spec => []TypeOK
<1>1. IInv => TypeOK
  BY DEF IInv
<1>. QED
  BY <1>1, Invariance, PTL

\* While rows are missing or blocks that the index had were taken back, the status
\* is HOTEL SYNCING in every state, exceptions and deaths between any two
\* statements included, unless the pipeline wrote over it or the cursor has moved
\* past a transfer that a failed poll left half applied (engine.ts, pipeline.ts).
THEOREM IncompleteTableIsAnnounced == Spec => []UnsettledIsAnnounced
<1>1. IInv => UnsettledIsAnnounced
  BY DEF IInv, StatusInv, InOrder, UnsettledIsAnnounced
<1>. QED
  BY <1>1, Invariance, PTL

\* What an answer shows contains, whole, every block up to the time it names, for
\* any number of requests at any statement, those in the middle of a range
\* included, unless a replacement overtook the request or what it read went
\* unannounced in one of these two ways (public-state.ts readCanonicalHotelState).
THEOREM AnswersAreSettled == Spec => []ShownRoomsAreSettled
<1>1. IInv => ShownRoomsAreSettled
  BY DEF IInv
<1>. QED
  BY <1>1, Invariance, PTL

\* What the page presents as current is younger than the threshold (present.ts
\* roomsAreCurrent), for every threshold.
THEOREM CurrentRoomsAreTrue == Spec => []CurrentRoomsAreRecent
<1>1. ASSUME IInv PROVE CurrentRoomsAreRecent
  <2>. SUFFICES ASSUME NEW r \in Request, NEW nowMs \in Time,
                       nowMs \in {now - 1, now}, RoomsAreCurrent(r, nowMs),
                       request[r].calm
                PROVE request[r].version + PUBLIC_STALE_THRESHOLD + 1 >= now
    BY DEF CurrentRoomsAreRecent
  <2>1. Shown(r) /\ ~IsPublicStateStale(request[r].lastIndexedAt, nowMs)
    BY DEF RoomsAreCurrent
  <2>2. request[r].version >= request[r].lastIndexedAt
    BY <1>1, <2>1 DEF IInv, ShownRoomsAreSettled
  <2>3. /\ request[r].lastIndexedAt \in Nat /\ request[r].version \in Nat
        /\ now \in Nat /\ nowMs \in Nat
    BY <1>1, <2>1, NumbersAreTyped, Times DEF IInv, Numbers, Shown
  <2>4. nowMs - request[r].lastIndexedAt <= PUBLIC_STALE_THRESHOLD
    BY <2>1, <2>3 DEF IsPublicStateStale
  <2>. QED
    BY <2>2, <2>3, <2>4
<1>. QED
  BY <1>1, Invariance, PTL

=============================================================================
