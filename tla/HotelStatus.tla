---------------------------- MODULE HotelStatus ------------------------------
(***************************************************************************)
(* When rooms may be shown: the status that the indexer (engine.ts) and    *)
(* the Room Service pipeline (pipeline.ts) both write to system_state, the *)
(* holders table that the indexer rewrites, and the statements of          *)
(* GET /api/hotel/state that read one and then the other (public-state.ts).*)
(*                                                                         *)
(* One block gets its confirmations a tick, so blocks are numbered by      *)
(* their time.  The holders table is abstracted to the block up to which   *)
(* it has every transfer whole, whether rows are missing while             *)
(* replaceBalances rewrites it, and whether a transfer of the log is not   *)
(* in it or only half; the log to the block up to which it is complete.    *)
(* What they hold is the subject of Indexer, what the delay flags mean     *)
(* that of ServiceRounds.  Statements nobody can tell apart are one step.  *)
(***************************************************************************)
EXTENDS Naturals, FiniteSets

CONSTANTS
  Request,              \* the requests that may be under way at once
  NULL,
  PUBLIC_STALE_THRESHOLD,
  MaxTime               \* bound of the model

ASSUME HotelStatusAssumption ==
  /\ IsFiniteSet(Request)
  /\ NULL \notin Nat
  /\ PUBLIC_STALE_THRESHOLD \in Nat /\ MaxTime \in Nat

SYNCING == "HOTEL SYNCING"
OPENS_SOON == "HOTEL CHECK-IN OPENS SOON"
DELAYED == "ROOM SERVICE DELAYED"

VARIABLES
  now,                  \* the clock, and the last block with its confirmations
  system,               \* the row of system_state
  logged,               \* processed_transfer_logs has every transfer up to this block
  holders,              \* the table holders
  indexer,              \* runOnce: where it is and what it remembers
  pipeline,             \* where markDelayed or clearDelay is
  unannounced,          \* why HOTEL SYNCING may be missing (history): the pipeline
                        \* wrote over it too early, or the cursor moved past a
                        \* transfer that a failed poll left half applied
  request               \* the requests under way and the last answers

worker == <<indexer, pipeline>>
db == <<system, logged, holders>>
vars == <<now, db, worker, unannounced, request>>

Time == 0 .. MaxTime
Maybe(S) == S \cup {NULL}

-----------------------------------------------------------------------------
(* Faulty variants, one slip each; no action uses them. *)

FaultyMarkSyncing(s) == s
FaultyIndexIsCurrent(s) ==
  /\ s.last_indexed_at # NULL /\ s.last_indexed_block # NULL
  /\ now - s.last_indexed_at <= PUBLIC_STALE_THRESHOLD
  /\ s.operational_status # "INDEXING_GAP"
FaultyIsPublicStateStale(at, t) == FALSE

-----------------------------------------------------------------------------
(* State. *)

NoRun == [pc |-> "idle", then |-> "idle", at |-> 0, to |-> 0, split |-> FALSE]

\* The worker starts with onRestart: reconcile, then runOnce.
Restarted == [NoRun EXCEPT !.pc = "reconcile"]

\* withheldState: no rooms, and the page is told no time of indexing.
Withheld == [pc |-> "answered", lastIndexedAt |-> NULL, version |-> 0,
             whole |-> TRUE, calm |-> TRUE]

SystemRow == [public_status : {SYNCING, OPENS_SOON, DELAYED},
              operational_status : {"OK", "INDEXING_GAP", "STUCK"},
              last_indexed_at : Maybe(Time), last_indexed_block : Maybe(Time)]

\* Inside handleReorg and replaceBalances; inside indexRange.
Rewriting == {"rewind", "rewound", "restored", "deleted", "delete", "insert"}
Ranging == {"index", "debit", "credit", "cursor"}

Point == Rewriting \cup Ranging
           \cup {"idle", "head", "scan", "reconcile", "check", "finish", "refresh"}

Run == [pc : Point, then : {"idle", "scan", "finish"}, at : Time, to : Time,
        split : BOOLEAN]

Table == [version : Time, whole : BOOLEAN, split : BOOLEAN]

Answer == [pc : {"sent", "reading", "answered"}, lastIndexedAt : Maybe(Time),
           version : Time, whole : BOOLEAN, calm : BOOLEAN]

\* An answer, or a request on its way, is dated when the row has been read, and
\* never after the index.
Dated(a) ==
  /\ a.pc = "sent" => a.lastIndexedAt = NULL
  /\ a.pc = "reading" => a.lastIndexedAt # NULL
  /\ a.lastIndexedAt # NULL =>
       system.last_indexed_at # NULL /\ a.lastIndexedAt <= system.last_indexed_at

\* The type of the state.
TypeOK ==
  /\ now \in Time
  /\ system \in SystemRow
  /\ logged \in Time
  /\ holders \in Table
  /\ indexer \in Run
  /\ pipeline \in {"idle", "delayed", "cleared"}
  /\ unannounced \in BOOLEAN
  /\ request \in [Request -> Answer]
  /\ \A r \in Request : Dated(request[r])

Init ==
  /\ now = 0
  /\ system = [public_status |-> OPENS_SOON, operational_status |-> "OK",
               last_indexed_at |-> NULL, last_indexed_block |-> NULL]
  /\ logged = 0
  /\ holders = [version |-> 0, whole |-> TRUE, split |-> FALSE]
  /\ indexer = Restarted
  /\ pipeline = "idle"
  /\ unannounced = FALSE
  /\ request = [r \in Request |-> Withheld]

IsPublicStateStale(at, t) == t - at > PUBLIC_STALE_THRESHOLD

\* The table has all its rows and, whole, every block up to the cursor's and
\* every block that had its confirmations when the run began that
\* last_indexed_at dates.  Of later blocks it may have any part.
Settled ==
  /\ holders.whole
  /\ system.last_indexed_at # NULL => holders.version >= system.last_indexed_at
  /\ system.last_indexed_block # NULL => holders.version >= system.last_indexed_block

\* reconcile and detectBalanceMismatch compare the table with the log.
Matches == holders.whole /\ ~holders.split

-----------------------------------------------------------------------------
(* The indexer. *)

At(pc) == indexer.pc = pc
Goto(pc) == indexer' = [indexer EXCEPT !.pc = pc]
FirstNew == IF system.last_indexed_block = NULL THEN 0 ELSE system.last_indexed_block + 1

\* A step of the indexer that writes the row, or nothing.
WritesSystem(s) ==
  /\ system' = s
  /\ UNCHANGED <<now, logged, holders, pipeline, unannounced, request>>
WritesHolders(table) ==
  /\ holders' = table
  /\ UNCHANGED <<now, system, logged, pipeline, unannounced, request>>
WritesNothing == UNCHANGED <<now, db, pipeline, unannounced, request>>

\* The run is over; what went unannounced is forgotten once the table is settled.
Ends == indexer' = NoRun /\ unannounced' = (unannounced /\ ~Settled')

MarkSyncing(s) == [s EXCEPT !.public_status = SYNCING]
MarkGap(s) == [MarkSyncing(s) EXCEPT !.operational_status = "INDEXING_GAP"]

\* Requests that have read the row miss what is announced now (history).
Overtake ==
  request' = [r \in Request |->
                IF request[r].pc = "reading"
                THEN [request[r] EXCEPT !.calm = FALSE] ELSE request[r]]

RefreshStalePublicStatus(s, t) ==
  IF s.last_indexed_at = NULL THEN MarkSyncing(s)
  ELSE IF IsPublicStateStale(s.last_indexed_at, t) THEN MarkSyncing(s) ELSE s

IndexedAt(run) == run.at

\* The poll starts runOnce.
RunOnce ==
  /\ At("idle")
  /\ indexer' = [NoRun EXCEPT !.pc = "head", !.then = "finish", !.at = now]
  /\ WritesSystem(RefreshStalePublicStatus(system, now))

\* The hash of the cursor's block changed, or could not be had: markSyncing, then
\* handleReorg and reconcile.
DetectReorg ==
  /\ At("head")
  /\ system.last_indexed_block \notin {NULL, 0}
  /\ system' = MarkSyncing(system)
  /\ Goto("rewind") /\ Overtake
  /\ UNCHANGED <<now, logged, holders, pipeline, unannounced>>

\* handleReorg's replaceBalances begins: DELETE FROM holders.
RewindDelete ==
  /\ At("rewind")
  /\ Goto("rewound")
  /\ WritesHolders([holders EXCEPT !.whole = FALSE])

\* The blocks before the cursor's, as far as the log has them.
Kept == LET prev == system.last_indexed_block - 1 IN IF logged < prev THEN logged ELSE prev

\* Its last INSERT: the rows are those of the blocks before the cursor's.  The
\* log may have transfers of later blocks, which the table now has not.
RewindInsert ==
  /\ At("rewound")
  /\ Goto("restored")
  /\ \E later \in BOOLEAN :
       WritesHolders([version |-> Kept, whole |-> TRUE, split |-> later])

\* deleteTransfersAtOrAfter.
RewindTransfers ==
  /\ At("restored")
  /\ logged' = Kept
  /\ holders' = [holders EXCEPT !.split = FALSE]
  /\ Goto("deleted")
  /\ UNCHANGED <<now, system, pipeline, unannounced, request>>

\* The cursor is moved back one block; it keeps the time of the run before.
RewindCursor ==
  /\ At("deleted")
  /\ indexer' = [indexer EXCEPT !.pc = "reconcile", !.then = "scan"]
  /\ WritesSystem([system EXCEPT !.last_indexed_block = @ - 1])

\* The hash did not change, or the reorg has been handled.
Scans == At("head") \/ At("scan")

\* At the end of HOLDER_RECONCILE_INTERVAL_MS a reconcile is forced.
NoNewBlocks ==
  /\ Scans /\ FirstNew > now
  /\ \E pc \in {"reconcile", "finish"} :
       indexer' = [indexer EXCEPT !.pc = pc, !.then = "finish"]
  /\ WritesNothing

NewBlocks ==
  /\ Scans /\ FirstNew <= now
  /\ indexer' = [indexer EXCEPT !.pc = "index", !.then = "finish", !.to = now]
  /\ WritesNothing

\* The last new block is missing: those before it are indexed, then reconcile.
DetectGap ==
  /\ Scans /\ FirstNew <= now
  /\ indexer' = IF FirstNew = now
                THEN [indexer EXCEPT !.pc = "reconcile", !.then = "finish"]
                ELSE [indexer EXCEPT !.pc = "index", !.then = "finish", !.to = now - 1]
  /\ WritesSystem(MarkGap(system))

\* tryInsertTransfer adds a transfer of the range to the log.
InsertTransfer ==
  /\ At("index")
  /\ indexer' = [indexer EXCEPT !.pc = "debit", !.split = holders.split]
  /\ WritesHolders([holders EXCEPT !.split = TRUE])

\* setBalance of the sender: readers see the transfer half applied.
DebitSender ==
  /\ At("debit")
  /\ Goto("credit")
  /\ WritesNothing

\* setBalance of the receiver.
CreditReceiver ==
  /\ At("credit")
  /\ indexer' = [indexer EXCEPT !.pc = "index", !.split = FALSE]
  /\ WritesHolders([holders EXCEPT !.split = indexer.split])

\* What is complete up to b, once the range has been added to it.
WithRange(b) ==
  IF system.last_indexed_block = NULL \/ b >= system.last_indexed_block
  THEN IF b < indexer.to THEN indexer.to ELSE b ELSE b

\* The log has the range.  So has the table, unless a poll before has left a
\* transfer half applied, which tryInsertTransfer then skips.
IndexRange ==
  /\ At("index")
  /\ Goto("cursor")
  /\ logged' = WithRange(logged)
  /\ holders' = IF holders.split THEN holders
                ELSE [holders EXCEPT !.version = WithRange(@)]
  /\ UNCHANGED <<now, system, pipeline, unannounced, request>>

\* A check-in event cannot be ingested or the last block has no hash: the status
\* says so and runOnce throws.
IndexRangeThrows ==
  /\ At("cursor")
  /\ system' \in {MarkSyncing(system), MarkGap(system)}
  /\ UNCHANGED <<now, logged, holders, pipeline, request>>
  /\ Ends

SetCursor ==
  /\ At("cursor")
  /\ Goto("check")
  /\ system' = [system EXCEPT !.last_indexed_at = IndexedAt(indexer),
                              !.last_indexed_block = indexer.to]
  /\ unannounced' = (unannounced \/ holders.split)
  /\ UNCHANGED <<now, logged, holders, pipeline, request>>

\* The status goes back unless it is HOTEL SYNCING; a mismatch of holders and
\* transfers is reconciled, and so is a gap and what is forced.
AfterIndexRange ==
  /\ At("check")
  /\ \/ Matches /\ Goto("finish")
     \/ Goto("reconcile")
  /\ WritesSystem(IF system.public_status = SYNCING THEN system
                  ELSE [system EXCEPT !.public_status = OPENS_SOON])

\* reconcile: the holders are what the transfers add up to.
ReconcileMatch ==
  /\ At("reconcile") /\ Matches
  /\ Goto(indexer.then)
  /\ WritesNothing

\* They are not, as when a failure left the table without rows or a transfer
\* half applied: markSyncing, then replaceBalances.
ReconcileMismatch ==
  /\ At("reconcile") /\ ~Matches
  /\ system' = MarkSyncing(system)
  /\ Goto("delete") /\ Overtake
  /\ UNCHANGED <<now, logged, holders, pipeline, unannounced>>

ReplaceDelete ==
  /\ At("delete")
  /\ Goto("insert")
  /\ WritesHolders([holders EXCEPT !.whole = FALSE])

ReplaceInsert ==
  /\ At("insert")
  /\ Goto(indexer.then)
  /\ WritesHolders([version |-> logged, whole |-> TRUE, split |-> FALSE])

\* Escrow and the contract's balance agree, or the status says they do not.
AssertEscrowCoherence(row) == {row, MarkSyncing(row)}

\* finish: the table is compared with the escrow.
Finish ==
  /\ At("finish")
  /\ Goto("refresh")
  /\ \E row \in AssertEscrowCoherence(system) : WritesSystem(row)

\* A delay keeps staleness from being looked at.  Any other status is written
\* back at the end, which changes nothing.
FinishRefresh ==
  /\ At("refresh")
  /\ system' = IF system.public_status = DELAYED THEN system
               ELSE RefreshStalePublicStatus(system, indexer.at)
  /\ UNCHANGED <<now, logged, holders, pipeline, request>>
  /\ Ends

-----------------------------------------------------------------------------
(* The Room Service pipeline, in the same worker. *)

\* The pipeline writes over HOTEL SYNCING while it is still needed.
Overrule ==
  unannounced' = \/ unannounced
                 \/ /\ system.public_status = SYNCING
                    /\ ~At("idle") \/ ~Settled

\* A statement of the pipeline that writes the status.
WritesStatus(from, to, s) ==
  /\ pipeline = from /\ pipeline' = to
  /\ system' = s
  /\ Overrule
  /\ UNCHANGED <<now, logged, holders, indexer, request>>

MarkDelayed ==
  WritesStatus("idle", "delayed", [system EXCEPT !.public_status = DELAYED])

\* The incident is older than COLLECTION_STUCK_AFTER_MS, or not.
MarkStuck ==
  \/ WritesStatus("delayed", "idle", [system EXCEPT !.operational_status = "STUCK"])
  \/ WritesStatus("delayed", "idle", system)

\* A service is finalized: clearDelay writes the status twice.
ClearDelay ==
  WritesStatus("idle", "cleared", [system EXCEPT !.operational_status = "OK",
                                                 !.public_status = OPENS_SOON])
ClearStatus ==
  WritesStatus("cleared", "idle", [system EXCEPT !.public_status = OPENS_SOON])

\* A statement, a call or an underflow throws: the poll is over, and the next one
\* begins with runOnce.
PollThrows ==
  /\ ~At("idle") \/ pipeline # "idle"
  /\ pipeline' = "idle"
  /\ UNCHANGED <<now, db, request>>
  /\ Ends

\* The worker dies between any two statements and starts again.
Crash ==
  /\ indexer' = Restarted
  /\ pipeline' = "idle"
  /\ UNCHANGED <<now, db, unannounced, request>>

-----------------------------------------------------------------------------
(* GET /api/hotel/state, polled by the page. *)

Load(r) ==
  /\ request[r].pc = "answered"
  /\ request' = [request EXCEPT ![r] = [Withheld EXCEPT !.pc = "sent"]]
  /\ UNCHANGED <<now, db, worker, unannounced>>

IndexIsCurrent(s) ==
  /\ s.last_indexed_at # NULL /\ s.last_indexed_block # NULL
  /\ ~IsPublicStateStale(s.last_indexed_at, now)
  /\ s.operational_status # "INDEXING_GAP"
  /\ s.public_status # SYNCING

\* The row of system_state decides whether rooms are read at all.
ReadSystem(r) ==
  /\ request[r].pc = "sent"
  /\ request' = [request EXCEPT ![r] =
       IF IndexIsCurrent(system)
       THEN [@ EXCEPT !.pc = "reading", !.calm = ~unannounced,
                      !.lastIndexedAt = system.last_indexed_at]
       ELSE Withheld]
  /\ UNCHANGED <<now, db, worker, unannounced>>

\* Escrow and the contract's balance agree and the code of every holder can be
\* read: the rooms are those of the table.
ReadRooms(r) ==
  /\ request[r].pc = "reading"
  /\ request' = [request EXCEPT ![r] = [@ EXCEPT !.pc = "answered",
                                                 !.version = holders.version,
                                                 !.whole = holders.whole]]
  /\ UNCHANGED <<now, db, worker, unannounced>>

\* They do not, or there is no code reader, or a statement fails, or the
\* network: the page gets no rooms.
WithholdRooms(r) ==
  /\ request[r].pc \in {"sent", "reading"}
  /\ request' = [request EXCEPT ![r] = Withheld]
  /\ UNCHANGED <<now, db, worker, unannounced>>

Shown(r) == request[r].pc = "answered" /\ request[r].lastIndexedAt # NULL

\* The page presents the answer's rooms as current at its clock.
RoomsAreCurrent(r, nowMs) ==
  Shown(r) /\ ~IsPublicStateStale(request[r].lastIndexedAt, nowMs)

-----------------------------------------------------------------------------
Tick ==
  /\ now < MaxTime
  /\ now' = now + 1
  /\ UNCHANGED <<db, worker, unannounced, request>>

Indexing ==
  \/ RunOnce
  \/ DetectReorg \/ RewindDelete \/ RewindInsert \/ RewindTransfers \/ RewindCursor
  \/ NoNewBlocks \/ NewBlocks \/ DetectGap
  \/ InsertTransfer \/ DebitSender \/ CreditReceiver \/ IndexRange \/ IndexRangeThrows
  \/ SetCursor \/ AfterIndexRange \/ ReconcileMatch \/ ReconcileMismatch
  \/ ReplaceDelete \/ ReplaceInsert \/ Finish \/ FinishRefresh

RoomService == MarkDelayed \/ MarkStuck \/ ClearDelay \/ ClearStatus

Serving ==
  \/ \E r \in Request : Load(r)
  \/ \E r \in Request : ReadSystem(r)
  \/ \E r \in Request : ReadRooms(r)
  \/ \E r \in Request : WithholdRooms(r)

Next == Indexing \/ RoomService \/ PollThrows \/ Crash \/ Serving \/ Tick

Spec == Init /\ [][Next]_vars

-----------------------------------------------------------------------------
(* Properties. *)

\* While rows are missing, or blocks that the index had were taken back, the
\* status is HOTEL SYNCING, through deaths and exceptions between any two
\* statements, unless the pipeline has written over it.  A transfer half applied
\* is announced by nobody: while it is newer than the index it is excepted, and
\* when a failed poll leaves it and the next moves the cursor past it, then too.
UnsettledIsAnnounced ==
  ~Settled /\ ~unannounced => system.public_status = SYNCING

\* The rooms of an answer have all their rows and contain, whole, every block
\* that had its confirmations when the run began that dates them, though ranges
\* are applied statement by statement meanwhile, unless a replacement overtook
\* the request or what it read went unannounced.  Of blocks newer than the date
\* they may contain any part, half a transfer included.
ShownRoomsAreSettled ==
  \A r \in Request : Shown(r) /\ request[r].calm =>
    request[r].whole /\ request[r].version >= request[r].lastIndexedAt

\* Rooms that the page presents as current contain every block older than the
\* threshold, however late the answer came and with the page's clock, which
\* moves once a second, up to a tick behind.
CurrentRoomsAreRecent ==
  \A r \in Request : \A nowMs \in Time :
    nowMs \in {now - 1, now} /\ RoomsAreCurrent(r, nowMs) /\ request[r].calm =>
      request[r].version + PUBLIC_STALE_THRESHOLD + 1 >= now

\* The strengthening that is inductive: where a run stands, and what the status
\* and the requests that have read it make of that.
RunInv ==
  /\ indexer.at <= now
  /\ indexer.pc \in {"rewind", "rewound", "restored", "deleted"} =>
       system.last_indexed_block \notin {NULL, 0}
  /\ indexer.then = "idle" => indexer.pc \in {"idle", "reconcile", "delete", "insert"}
  /\ system.last_indexed_at # NULL =>
       /\ system.last_indexed_at <= now
       /\ indexer.then # "idle" => system.last_indexed_at <= indexer.at
InOrder ==
  /\ Settled
  /\ indexer.pc \notin Rewriting
  /\ indexer.pc \in Ranging => indexer.at <= indexer.to
  /\ indexer.pc = "cursor" => holders.split \/ holders.version >= indexer.to
StatusInv == unannounced \/ system.public_status = SYNCING \/ InOrder
RequestInv ==
  \A r \in Request :
    request[r].pc = "reading" /\ request[r].calm =>
      /\ holders.whole /\ holders.version >= request[r].lastIndexedAt
      /\ indexer.pc \notin Rewriting
IInv == TypeOK /\ RunInv /\ StatusInv /\ RequestInv /\ ShownRoomsAreSettled

=============================================================================
