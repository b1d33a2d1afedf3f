---------------------------- MODULE CheckInIngest ----------------------------
(***************************************************************************)
(* The escrow side of the indexer: CheckedIn and CheckedOut events and the *)
(* positions derived from them (apps/worker/src/check-in/store.ts over the *)
(* tables of 20260919164000_check_in_escrow.sql).                          *)
(*                                                                         *)
(* The events and the positions are written by separate statements, and    *)
(* the process may die, or a call fail, between any two; a block's hash    *)
(* that could not be looked up is taken for a replaced block.  The poll    *)
(* around them is the one of Indexer, reduced to what moves the cursor: a  *)
(* range that ends before a gap is one that ends at an earlier head.       *)
(* A block carries at most one event.  Times of a stay are left out: they  *)
(* are copied from the event.                                              *)
(***************************************************************************)
EXTENDS Naturals, Sequences, FiniteSets

CONSTANTS
  Account,
  Amount,
  LIVE_CONFIRMATIONS,
  NoEvent, NoHash,
  \* The environment.
  MaxReorg,             \* how many blocks a reorg between polls may replace
  MayFail,              \* whether calls fail and the process dies
  \* Bounds of the model.
  MaxBlock, MaxReorgs, MaxFaults

ASSUME CheckInIngestAssumption ==
  /\ IsFiniteSet(Account)
  /\ Amount \subseteq Nat \ {0}
  /\ NoHash \notin Nat
  /\ MayFail \in BOOLEAN
  /\ {LIVE_CONFIRMATIONS, MaxReorg, MaxBlock, MaxReorgs, MaxFaults} \subseteq Nat

VARIABLES
  chain, reorgs,
  \* The database.
  checkInEvents,        \* check_in_events
  checkInPositions,     \* check_in_positions
  cursor,
  \* The poll.
  pc,
  head,
  logs,                 \* fetched and not yet ingested
  event,                \* inserted, its position not yet written
  unwritten,            \* positions a rebuild has still to insert
  faults,               \* how many calls failed and how often the process died
  \* History.
  torn,                 \* whether a poll ended in the middle of a range
  lost                  \* blocks of the chain, the events of which a rewind deleted
                        \* before it ended without moving the cursor

environment == <<chain, reorgs>>
database == <<checkInEvents, checkInPositions, cursor>>
poll == <<head, logs, event, unwritten>>
history == <<torn, lost>>
ingestVars == <<chain, reorgs, checkInEvents, checkInPositions, cursor, pc, head,
                logs, event, unwritten, faults, torn, lost>>

-----------------------------------------------------------------------------
(* Events.  A transaction keeps its identity when another block takes it up *)
(* after a reorg: the guest and the number of the stay.                     *)

Event == [kind : {"CheckedIn", "CheckedOut"}, guest : Account, stay : Nat,
          amount : Amount]
Row == [event : Event, block : Nat]
Position == [guest : Account, stay : Nat, amount : Amount, in : Nat, out : Nat]
Block == [hash : Nat, event : Event \cup {NoEvent}]

RowsOf(c) ==
  {[event |-> c[b].event, block |-> b] :
     b \in {h \in DOMAIN c : c[h].event # NoEvent}}
RowsUpTo(b) == {r \in RowsOf(chain) : r.block <= b}

Is(r, kind) == r.event.kind = kind
First(rows) == CHOOSE r \in rows : \A q \in rows : r.block <= q.block

\* The check-out in rows that ends the stay of check-in r.
CheckOutsOf(r, rows) ==
  {q \in rows : /\ Is(q, "CheckedOut")
                /\ q.event.guest = r.event.guest
                /\ q.event.stay = r.event.stay}

\* RoomService emits them: one open stay per guest, a check-out of what was
\* checked in.
ValidChain(c) ==
  \A r \in RowsOf(c) :
    LET before == {q \in RowsOf(c) : /\ q.block < r.block
                                     /\ q.event.guest = r.event.guest} IN
    IF Is(r, "CheckedIn")
    THEN /\ r.event.stay = Cardinality({q \in before : Is(q, "CheckedIn")}) + 1
         /\ \A q \in before : Is(q, "CheckedIn") => CheckOutsOf(q, before) # {}
    ELSE \E q \in before : /\ Is(q, "CheckedIn")
                           /\ q.event.stay = r.event.stay
                           /\ q.event.amount = r.event.amount
                           /\ CheckOutsOf(q, before) = {}

HashAt(b) == IF b = 0 THEN 0 ELSE chain[b].hash

\* A guest and amount in escrow.
EscrowOf(g, amount) == [guest |-> g, amount |-> amount]

\* loadEscrowsOpenAtBlock, and what the contract held at that block.
OpenAtBlock(positions, b) ==
  {EscrowOf(p.guest, p.amount) :
     p \in {q \in positions : q.in <= b /\ (q.out = 0 \/ q.out > b)}}
HeldAtBlock(b) ==
  {EscrowOf(r.event.guest, r.event.amount) :
     r \in {q \in RowsUpTo(b) : /\ Is(q, "CheckedIn")
                                /\ CheckOutsOf(q, RowsUpTo(b)) = {}}}

-----------------------------------------------------------------------------
\* The type of the state.
IngestTypeOK ==
  /\ chain \in Seq(Block) /\ reorgs \in Nat
  /\ checkInEvents \subseteq Row
  /\ checkInPositions \subseteq Position
  /\ cursor \in [block : Nat, hash : Nat \cup {NoHash}]
  /\ pc \in {"idle", "deleteEvents", "deletePositions", "rebuild", "insert",
             "moveCursor", "fetch", "event", "position", "anchor", "finish"}
  /\ head \in Nat
  /\ logs \subseteq Row
  /\ event \in Row \cup {NoEvent}
  /\ unwritten \subseteq Position
  /\ faults \in Nat /\ torn \in BOOLEAN /\ lost \subseteq Nat

IngestInit ==
  /\ chain = << >> /\ reorgs = 0
  /\ checkInEvents = {} /\ checkInPositions = {}
  /\ cursor = [block |-> 0, hash |-> NoHash]
  /\ pc = "idle" /\ head = 0 /\ logs = {} /\ event = NoEvent /\ unwritten = {}
  /\ faults = 0 /\ torn = FALSE /\ lost = {}

-----------------------------------------------------------------------------
(* Faulty variants, one slip each; no action uses them. *)

\* A check-out makes the stay one that never was.
FaultyClosed(p, b) == [p EXCEPT !.out = p.in]
\* The range begins after the first new block.
FaultyFirstOfRange == cursor.block + 2
\* An event that is there already is ingested again.
FaultyIsNew(r) == r.event # NoEvent

-----------------------------------------------------------------------------
Forget == head' = 0 /\ logs' = {} /\ event' = NoEvent /\ unwritten' = {}

InRange == pc \in {"event", "position", "anchor"}

\* handleReorg has deleted the events of the cursor's block and not moved the cursor.
HasDeleted == pc \in {"deletePositions", "rebuild", "insert", "moveCursor"}

\* The poll ends where it is, as it does when the code throws.
Throw ==
  /\ pc' = "idle"
  /\ torn' = (torn \/ InRange)
  /\ lost' = IF HasDeleted /\ cursor.hash = HashAt(cursor.block)
             THEN lost \cup {cursor.block} ELSE lost

MayFailNow == MayFail /\ faults < MaxFaults

\* A call throws or the process dies; the next poll starts afresh.
Fail ==
  /\ MayFailNow
  /\ pc # "idle"
  /\ faults' = faults + 1
  /\ Throw
  /\ Forget
  /\ UNCHANGED <<environment, database>>

\* What getBlockHash answers for a block: null when the call fails.
BlockHash(b, hash) ==
  \/ hash = HashAt(b) /\ UNCHANGED faults
  \/ hash = NoHash /\ MayFailNow /\ faults' = faults + 1

-----------------------------------------------------------------------------
(* The poll. *)

\* The head is read and the hash of the cursor's block, if there is one, compared:
\* null counts as a different hash.
Poll ==
  /\ pc = "idle"
  /\ head' = IF Len(chain) < LIVE_CONFIRMATIONS THEN 0
             ELSE Len(chain) - LIVE_CONFIRMATIONS
  /\ IF cursor.hash = NoHash
     THEN pc' = "fetch" /\ UNCHANGED faults
     ELSE \E hash \in {HashAt(cursor.block), NoHash} :
            /\ BlockHash(cursor.block, hash)
            /\ hash = NoHash => cursor.block > 0
            /\ pc' = IF hash = cursor.hash THEN "fetch" ELSE "deleteEvents"
  /\ UNCHANGED <<environment, database, logs, event, unwritten, history>>

Kept(b) == {r \in checkInEvents : r.block < b}

\* deleteCheckInEventsAtOrAfter: the events of the cursor's block go.
DeleteEvents ==
  /\ pc = "deleteEvents"
  /\ checkInEvents' = Kept(cursor.block)
  /\ pc' = "deletePositions"
  /\ UNCHANGED <<environment, checkInPositions, cursor, poll, faults, history>>

\* rebuildCheckInPositions: all positions go.
DeletePositions ==
  /\ pc = "deletePositions"
  /\ checkInPositions' = {}
  /\ pc' = "rebuild"
  /\ UNCHANGED <<environment, checkInEvents, cursor, poll, faults, history>>

\* What follows an event of a guest, at most one row.
Following(r, rows) ==
  LET later == {q \in rows : q.event.guest = r.event.guest /\ q.block > r.block} IN
  {q \in later : q = First(later)}

\* rebuildCheckInPositions does not throw: stays do not overlap, and a check-out
\* ends the stay that is open and has its amount.
Coherent(rows) ==
  \A r \in rows :
    IF Is(r, "CheckedIn")
    THEN \A q \in Following(r, rows) :
           Is(q, "CheckedOut") /\ q.event.amount = r.event.amount
    ELSE \E q \in rows : Is(q, "CheckedIn") /\ r \in Following(q, rows)

\* The positions the events amount to.
Derived(rows) ==
  {[guest |-> r.event.guest, stay |-> r.event.stay, amount |-> r.event.amount,
    in |-> r.block,
    out |-> IF Following(r, rows) = {} THEN 0
            ELSE First(Following(r, rows)).block] :
     r \in {q \in rows : Is(q, "CheckedIn")}}

\* rebuildCheckInPositions: the events are read back.  (The closed stays it may
\* insert before it throws are deleted when the next poll starts over.)
ReadEvents ==
  /\ pc = "rebuild"
  /\ IF Coherent(checkInEvents)
     THEN unwritten' = Derived(checkInEvents) /\ pc' = "insert" /\ UNCHANGED history
     ELSE Throw /\ UNCHANGED unwritten
  /\ UNCHANGED <<environment, database, head, logs, event, faults>>

\* rebuildCheckInPositions: one INSERT, the closed stays first.
InsertPosition ==
  /\ pc = "insert"
  /\ IF unwritten = {}
     THEN pc' = "moveCursor" /\ UNCHANGED <<checkInPositions, unwritten>>
     ELSE \E p \in unwritten :
            /\ p.out = 0 => \A q \in unwritten : q.out = 0
            /\ checkInPositions' = checkInPositions \cup {p}
            /\ unwritten' = unwritten \ {p}
            /\ UNCHANGED pc
  /\ UNCHANGED <<environment, checkInEvents, cursor, head, logs, event, faults,
                 history>>

\* The end of handleReorg: one block back, with the hash the chain has there now,
\* or none if the lookup fails.
MoveCursor ==
  /\ pc = "moveCursor"
  /\ \E hash \in {HashAt(cursor.block - 1), NoHash} :
       /\ BlockHash(cursor.block - 1, hash)
       /\ cursor' = [block |-> cursor.block - 1, hash |-> hash]
  /\ lost' = lost \ {cursor.block}
  /\ pc' = "fetch"
  /\ UNCHANGED <<environment, checkInEvents, checkInPositions, poll, torn>>

FirstOfRange == cursor.block + 1

\* indexCheckInRange: getCheckInLogs.
FetchLogs ==
  /\ pc = "fetch"
  /\ IF FirstOfRange > head
     THEN pc' = "finish" /\ UNCHANGED logs
     ELSE pc' = "event"
          /\ logs' = {r \in RowsUpTo(head) : r.block >= FirstOfRange}
  /\ UNCHANGED <<environment, database, head, event, unwritten, faults, history>>

IsNew(r) == \A q \in checkInEvents : q.event # r.event

\* ingestCheckInEvent: insertEvent; an event that is there is not looked at again.
InsertEvent ==
  /\ pc = "event"
  /\ IF logs = {}
     THEN pc' = "anchor" /\ UNCHANGED <<checkInEvents, logs, event>>
     ELSE /\ logs' = logs \ {First(logs)}
          /\ IF IsNew(First(logs))
             THEN /\ checkInEvents' = checkInEvents \cup {First(logs)}
                  /\ event' = First(logs)
                  /\ pc' = "position"
             ELSE UNCHANGED <<checkInEvents, event, pc>>
  /\ UNCHANGED <<environment, checkInPositions, cursor, head, unwritten, faults,
                 history>>

OpenPositionsOf(g) == {p \in checkInPositions : p.guest = g /\ p.out = 0}

\* A position of this check-in that is there stays as it is; a second open
\* position of the guest is refused (check_in_positions_one_unwithdrawn).
WriteOpenPosition(r) ==
  LET isThere == \E p \in checkInPositions :
                   p.guest = r.event.guest /\ p.stay = r.event.stay
      refused == ~isThere /\ OpenPositionsOf(r.event.guest) # {}
      position == [guest |-> r.event.guest, stay |-> r.event.stay,
                   amount |-> r.event.amount, in |-> r.block, out |-> 0] IN
  /\ checkInPositions' = IF isThere \/ refused THEN checkInPositions
                         ELSE checkInPositions \cup {position}
  /\ IF refused THEN Throw ELSE pc' = "event" /\ UNCHANGED history

Closed(p, b) == [p EXCEPT !.out = b]

\* Exactly one open position of that guest and amount is closed.
ClosePosition(r) ==
  LET closing == {p \in OpenPositionsOf(r.event.guest) :
                    p.amount = r.event.amount} IN
  IF closing = {}
  THEN Throw /\ UNCHANGED checkInPositions
  ELSE /\ checkInPositions' =
            (checkInPositions \ closing) \cup {Closed(p, r.block) : p \in closing}
       /\ pc' = "event"
       /\ UNCHANGED history

\* ingestCheckInEvent: the position.
WritePosition ==
  /\ pc = "position"
  /\ IF Is(event, "CheckedIn") THEN WriteOpenPosition(event)
                               ELSE ClosePosition(event)
  /\ UNCHANGED <<environment, checkInEvents, cursor, poll, faults>>

\* The cursor moves to the head once everything before it is ingested.
Anchor ==
  /\ pc = "anchor"
  /\ cursor' = [block |-> head, hash |-> HashAt(head)]
  /\ pc' = "finish"
  /\ UNCHANGED <<environment, checkInEvents, checkInPositions, poll, faults, history>>

Finish ==
  /\ pc = "finish"
  /\ pc' = "idle"
  /\ Forget
  /\ UNCHANGED <<environment, database, faults, history>>

-----------------------------------------------------------------------------
(* The chain. *)

Extend(e) ==
  /\ Len(chain) < MaxBlock
  /\ chain' = Append(chain, [hash |-> reorgs, event |-> e])
  /\ ValidChain(chain')
  /\ UNCHANGED <<reorgs, database, pc, poll, faults, history>>

\* The last blocks are replaced by as many others, between two polls.
Reorg(events) ==
  /\ reorgs < MaxReorgs
  /\ pc = "idle"
  /\ Len(events) <= Len(chain)
  /\ reorgs' = reorgs + 1
  /\ chain' = SubSeq(chain, 1, Len(chain) - Len(events))
                \o [i \in DOMAIN events |->
                      [hash |-> reorgs + 1, event |-> events[i]]]
  /\ ValidChain(chain')
  /\ UNCHANGED <<database, pc, poll, faults, history>>

-----------------------------------------------------------------------------
\* The stays that fit into the model's chain.
ChainEvent ==
  [kind : {"CheckedIn", "CheckedOut"}, guest : Account, stay : 1 .. MaxBlock,
   amount : Amount] \cup {NoEvent}

PollStep ==
  \/ DeleteEvents \/ DeletePositions \/ ReadEvents \/ InsertPosition
  \/ MoveCursor \/ FetchLogs \/ InsertEvent \/ WritePosition \/ Anchor \/ Finish

ChainStep ==
  \/ \E e \in ChainEvent : Extend(e)
  \/ \E d \in 1 .. MaxReorg : \E events \in [1 .. d -> ChainEvent] : Reorg(events)

IngestNext == Poll \/ PollStep \/ Fail \/ ChainStep

IngestSpec == IngestInit /\ [][IngestNext]_ingestVars

\* The process keeps running and the timer keeps firing.
IngestFairSpec == IngestSpec /\ WF_ingestVars(Poll) /\ WF_ingestVars(PollStep)

-----------------------------------------------------------------------------
(* Properties. *)

\* The escrow reconstructed for any indexed block, past ones included, is what
\* the contract held at that block: reward weights of a snapshot rest on it.
EscrowIsExact ==
  \A b \in 0 .. cursor.block : OpenAtBlock(checkInPositions, b) = HeldAtBlock(b)

\* It is, whenever a poll has run to its end, unless one ended in the middle of a
\* range, or of a rewind of a block that is in the chain.
SnapshotIsExact == pc = "finish" /\ ~torn /\ lost = {} => EscrowIsExact

\* At every moment the table has all events up to a cursor that is in the chain,
\* but for a block with lost events, and for the block a rewind is just taking
\* back.  (Ranges that end in the middle do no harm until a reorg.)
NoEventSkipped ==
  /\ torn => reorgs = 0
  /\ cursor.hash \in {NoHash, HashAt(cursor.block)}
  /\ ~HasDeleted
  => \A r \in RowsUpTo(cursor.block) : r.block \notin lost => r \in checkInEvents

\* A new poll will find the cursor's block replaced.
Orphaned == cursor.hash \notin {NoHash, HashAt(cursor.block)}

\* Every rebuild throws: an event before the orphaned block was lost, or a stale one
\* was left by a range that ended in the middle.
IsStuck == Orphaned /\ ~Coherent(Kept(cursor.block)) /\ (torn \/ lost # {})

\* Whatever fails, a check-out whose position is missing included, the cursor gets to
\* the head; only events that do not fit together can keep it from there for ever.
IngestCatchesUp ==
  <>[](cursor.block + LIVE_CONFIRMATIONS >= Len(chain) \/ IsStuck)

-----------------------------------------------------------------------------
(* The inductive invariant.  First what holds whatever fails and however deep *)
(* the reorgs are.                                                          *)

\* handleReorg is at work.
Rewinding == pc = "deleteEvents" \/ HasDeleted

\* The chain, and where the poll is on it; a cursor without a hash stands one block
\* further back.
PollInv ==
  /\ ValidChain(chain)
  /\ \A b \in DOMAIN chain : chain[b].hash <= reorgs
  /\ cursor.hash # NoHash => cursor.hash <= reorgs
  /\ cursor.block = 0 => cursor.hash \in {NoHash, 0}
  /\ cursor.block = 0 \/ cursor.block + LIVE_CONFIRMATIONS <= Len(chain)
  /\ cursor.hash = NoHash =>
       cursor.block = 0 \/ cursor.block + LIVE_CONFIRMATIONS < Len(chain)
  /\ head = 0 \/ head + LIVE_CONFIRMATIONS <= Len(chain)
  /\ Rewinding => cursor.block > 0 /\ cursor.hash # NoHash
  /\ InRange => cursor.block < head
  /\ pc = "position" => event \in checkInEvents
  /\ pc = "anchor" => logs = {}
  /\ \A b \in lost : b <= cursor.block

\* The rows that no rewind has lost.
Found(rows) == {r \in rows : r.block \notin lost}

\* How far the events reach: a rewind has taken back the cursor's block.
Reach == IF HasDeleted THEN cursor.block - 1 ELSE cursor.block

\* Before any reorg no other row is ever missing, whatever failed.
CalmInv ==
  reorgs = 0 =>
    /\ checkInEvents \subseteq RowsOf(chain)
    /\ Found(RowsUpTo(Reach)) \subseteq checkInEvents
    /\ logs \subseteq RowsOf(chain)
    /\ InRange => Found(RowsUpTo(head)) \subseteq checkInEvents \cup logs

\* After reorgs, as long as no poll ended in a range: the events are those up to the
\* cursor, but for a block that was replaced and for lost ones; within a range, up
\* to the one that is being ingested.
EventsInv ==
  /\ Kept(cursor.block) \subseteq RowsUpTo(cursor.block - 1)
  /\ Found(RowsUpTo(cursor.block - 1)) \subseteq checkInEvents
  /\ HasDeleted => checkInEvents = Kept(cursor.block)
  /\ ~InRange /\ ~HasDeleted /\ ~Orphaned =>
       /\ checkInEvents \subseteq RowsUpTo(cursor.block)
       /\ Found(RowsUpTo(cursor.block)) \subseteq checkInEvents
  /\ pc \in {"fetch", "finish"} \/ InRange => ~Orphaned
  /\ InRange =>
       /\ logs \subseteq RowsUpTo(head)
       /\ checkInEvents \subseteq RowsUpTo(head) \ logs
       /\ Found(RowsUpTo(head) \ logs) \subseteq checkInEvents
       /\ \A r \in logs : r.block > cursor.block
       /\ \A r \in logs : \A q \in RowsUpTo(head) : q.block > r.block => q \in logs
  /\ pc = "position" =>
       \A q \in RowsUpTo(head) : q \in logs <=> q.block > event.block

\* And, when nothing is lost, the positions are what those events amount to, but for
\* the event being ingested; those a rebuild has written and still has to write are
\* so in any case.
PositionsInv ==
  /\ lost = {} /\ ~HasDeleted /\ ~Orphaned =>
       checkInPositions = Derived(IF pc = "position" THEN checkInEvents \ {event}
                                                     ELSE checkInEvents)
  /\ pc = "rebuild" => checkInPositions = {}
  /\ pc = "insert" => checkInPositions \cup unwritten = Derived(checkInEvents)
  /\ pc = "moveCursor" => checkInPositions = Derived(checkInEvents)

\* Reorgs reach the last indexed block at most.
ShallowReorgs == MaxReorg <= LIVE_CONFIRMATIONS + 1

IngestInv ==
  /\ IngestTypeOK /\ PollInv /\ CalmInv
  /\ ShallowReorgs /\ ~torn => EventsInv /\ PositionsInv

=============================================================================
