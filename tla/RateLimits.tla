------------------------------ MODULE RateLimits ------------------------------
(***************************************************************************)
(* The rate limits in front of the entitlement API and the check-in API    *)
(* (apps/web/src/entitlement/rate-limit.ts, takeRateLimit in store.ts).    *)
(*                                                                         *)
(* A bucket counts the hits of one wallet or of one address in a window    *)
(* that begins with a hit and lasts WINDOW.  A request reads the clock     *)
(* once and then hits its two buckets by two upserts, each atomic; any     *)
(* number of requests is under way at once, so a hit may be older than     *)
(* the window it falls into.  The two APIs prefix their keys and share     *)
(* nothing; one of them is modelled.                                       *)
(***************************************************************************)
EXTENDS Integers, Sequences

CONSTANTS
  Handler,          \* requests handled at once
  WalletBucket, IpBucket,   \* keys of wallets and of addresses
  WINDOW,           \* ENTITLEMENT_RATE_WINDOW_SECONDS
  WALLET_MAX,       \* ENTITLEMENT_WALLET_RATE_MAX
  IP_MAX,           \* ENTITLEMENT_IP_RATE_MAX
  \* Bounds of the model.
  MaxClock, MaxRequests

ASSUME RateLimitsAssumption ==
  /\ WalletBucket \cap IpBucket = {}
  /\ {WINDOW, WALLET_MAX, IP_MAX} \subseteq Nat \ {0}
  /\ {MaxClock, MaxRequests} \subseteq Nat

VARIABLES
  clock,
  limits,           \* entitlement_rate_limits by bucket_key
  handling,         \* each request: the time it read, the buckets still to hit
  requests,         \* how many arrived
  \* History: how many hits the window of a bucket that began at a time has
  \* allowed, and the windows that have refused one.
  granted, refused

limitVars == <<clock, limits, handling, requests, granted, refused>>

-----------------------------------------------------------------------------
Time == 0 .. MaxClock
Bucket == WalletBucket \cup IpBucket

LimitRow == [window_start : Time, hit_count : Nat]
NoLimitRow == [window_start |-> 0, hit_count |-> 0]

\* The type of the state.
LimitTypeOK ==
  /\ clock \in Time
  /\ limits \in [Bucket -> LimitRow]
  /\ handling \in [Handler -> [now : Time, buckets : Seq(Bucket)]]
  /\ requests \in Nat
  /\ granted \in [Bucket -> [Time -> Nat]]
  /\ refused \subseteq Bucket \X Time

LimitInit ==
  /\ clock = 0
  /\ limits = [b \in Bucket |-> NoLimitRow]
  /\ handling = [h \in Handler |-> [now |-> 0, buckets |-> << >>]]
  /\ requests = 0
  /\ granted = [b \in Bucket |-> [t \in Time |-> 0]]
  /\ refused = {}

-----------------------------------------------------------------------------
(* Faulty variants, one slip each; no action uses them. *)

\* Only one of the two CASE expressions looks at the window.
FaultyTakeRateLimit(row, now) ==
  [window_start |-> IF row.hit_count = 0 THEN now ELSE row.window_start,
   hit_count |-> IF row.hit_count = 0 \/ row.window_start <= now - WINDOW
                 THEN 1 ELSE row.hit_count + 1]
\* The last hit that is allowed is refused.
FaultyAllows(b, row) ==
  row.hit_count < (IF b \in WalletBucket THEN WALLET_MAX ELSE IP_MAX)

-----------------------------------------------------------------------------
Limit(b) == IF b \in WalletBucket THEN WALLET_MAX ELSE IP_MAX

\* There is no row yet, or its window is over.
Expired(row, now) == row.hit_count = 0 \/ row.window_start <= now - WINDOW

\* The upsert: a hit begins a window or counts in the one there is.
TakeRateLimit(row, now) ==
  IF Expired(row, now) THEN [window_start |-> now, hit_count |-> 1]
  ELSE [row EXCEPT !.hit_count = @ + 1]

Allows(b, row) == row.hit_count <= Limit(b)

\* The buckets a request hits, in this order.
BucketKeys(wallet, ip) == <<wallet, ip>>

Done(h) == handling[h].buckets = << >>

\* A request arrives and reads the clock.
Arrive(h) ==
  /\ Done(h)
  /\ requests < MaxRequests
  /\ requests' = requests + 1
  /\ \E wallet \in WalletBucket, ip \in IpBucket :
       handling' = [handling EXCEPT ![h] =
                      [now |-> clock, buckets |-> BucketKeys(wallet, ip)]]
  /\ UNCHANGED <<clock, limits, granted, refused>>

\* enforceRateLimits: the next bucket is hit, also when the one before refused.
Hit(h) ==
  /\ ~Done(h)
  /\ LET b == Head(handling[h].buckets)
         row == TakeRateLimit(limits[b], handling[h].now)
     IN /\ limits' = [limits EXCEPT ![b] = row]
        /\ IF Allows(b, row)
           THEN /\ granted' = [granted EXCEPT ![b][row.window_start] = @ + 1]
                /\ UNCHANGED refused
           ELSE /\ refused' = refused \cup {<<b, row.window_start>>}
                /\ UNCHANGED granted
  /\ handling' = [handling EXCEPT ![h].buckets = Tail(@)]
  /\ UNCHANGED <<clock, requests>>

\* The database fails or the server dies: the hits already taken stay.
Lose(h) ==
  /\ ~Done(h)
  /\ handling' = [handling EXCEPT ![h].buckets = << >>]
  /\ UNCHANGED <<clock, limits, requests, granted, refused>>

Elapse ==
  /\ clock < MaxClock
  /\ clock' = clock + 1
  /\ UNCHANGED <<limits, handling, requests, granted, refused>>

LimitNext == (\E h \in Handler : Arrive(h) \/ Hit(h) \/ Lose(h)) \/ Elapse

LimitSpec == LimitInit /\ [][LimitNext]_limitVars

-----------------------------------------------------------------------------
(* Properties. *)

\* No window allows more than its bucket's limit, however late the hits come.
WindowIsLimited == \A b \in Bucket, t \in Time : granted[b][t] <= Limit(b)

\* Windows of a bucket that allow hits begin at least WINDOW apart: n windows
\* in a row span n - 1 times WINDOW, so that the rate is bounded too.
WindowsAreApart ==
  \A b \in Bucket : \A s, t \in Time :
    s < t /\ granted[b][s] > 0 /\ granted[b][t] > 0 => t - s >= WINDOW

\* takeRateLimit limits a rate: a stretch of time no longer than WINDOW meets two
\* windows of a bucket that allow hits, and none of them allows more than the limit.
RateIsLimited == WindowIsLimited /\ WindowsAreApart

\* Nobody is refused by a window that has not allowed all it may.
FullBeforeRefusing ==
  \A b \in Bucket, t \in Time : <<b, t>> \in refused => granted[b][t] = Limit(b)

\* The inductive invariant.  The row's window is the last one, and what it has
\* allowed is its count, cut off at the limit.
RowIsLastWindow(b) ==
  /\ \A t \in Time : granted[b][t] > 0 =>
       /\ limits[b].hit_count > 0
       /\ t = limits[b].window_start \/ t <= limits[b].window_start - WINDOW
  /\ granted[b][limits[b].window_start] =
       IF Allows(b, limits[b]) THEN limits[b].hit_count ELSE Limit(b)

LimitInv ==
  /\ LimitTypeOK /\ WindowIsLimited /\ WindowsAreApart /\ FullBeforeRefusing
  /\ \A b \in Bucket : RowIsLastWindow(b)

=============================================================================
