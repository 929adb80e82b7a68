---------------------------- MODULE BalanceCache ----------------------------
(***************************************************************************)
(* The relayer's balance as /status tells it: status_handler, once the key *)
(* is accepted (status/handler.rs), over the cache of StatusMetrics        *)
(* (status/status_metrics.rs).  Handlers run side by side, the RPC node    *)
(* answers each when it likes, and the wall clock does not go back.        *)
(*                                                                         *)
(* Of a balance only the second in which the node read it is kept.         *)
(***************************************************************************)
EXTENDS Naturals

CONSTANTS
  Reader,       \* handlers
  CacheTtl,     \* BALANCE_CACHE_TTL_SECONDS
  LastSecond    \* a bound on the clock

VARIABLES
  second,       \* the wall clock
  cache,        \* balance_cache: when the balance was read, and its fetched_at
  readers       \* per handler: where it is, its `now`, the balance it has

cacheVars == <<second, cache, readers>>

CacheAssumption == CacheTtl \in Nat \ {0} /\ LastSecond \in Nat

Places == {"idle", "look", "fetch", "store", "answered"}
Idle == [at |-> "idle", now |-> 0, read |-> 0]

TypeOK ==
  /\ second \in Nat
  /\ cache \in [read : Nat, stamp : Nat]
  /\ readers \in [Reader -> [at : Places, now : Nat, read : Nat]]

\* The cache starts at (0, 0), half a century ago.
Init ==
  /\ second = CacheTtl
  /\ cache = [read |-> 0, stamp |-> 0]
  /\ readers = [r \in Reader |-> Idle]

Become(r, record) == readers' = [readers EXCEPT ![r] = record]

Begin(r) ==
  /\ readers[r].at = "idle"
  /\ Become(r, [at |-> "look", now |-> second, read |-> 0])
  /\ UNCHANGED <<second, cache>>

\* cached_balance, then now.saturating_sub(fetched_at) against the TTL.
LookUp(r) ==
  /\ readers[r].at = "look"
  /\ IF readers[r].now < cache.stamp + CacheTtl
     THEN Become(r, [readers[r] EXCEPT !.at = "answered", !.read = cache.read])
     ELSE Become(r, [readers[r] EXCEPT !.at = "fetch"])
  /\ UNCHANGED <<second, cache>>

\* get_balance: the node reads it, or the request ends with its failure.
Fetch(r) ==
  /\ readers[r].at = "fetch"
  /\ \/ Become(r, [readers[r] EXCEPT !.at = "store", !.read = second])
     \/ Become(r, Idle)
  /\ UNCHANGED <<second, cache>>

\* Mutant of Store: the time of the answer in place of that of the question.
StoreStampedLate(r) ==
  /\ readers[r].at = "store"
  /\ cache' = [read |-> readers[r].read, stamp |-> second]
  /\ Become(r, [readers[r] EXCEPT !.at = "answered"])
  /\ UNCHANGED second

\* update_cached_balance(balance, now): whatever the cache has become.
Store(r) ==
  /\ readers[r].at = "store"
  /\ cache' = [read |-> readers[r].read, stamp |-> readers[r].now]
  /\ Become(r, [readers[r] EXCEPT !.at = "answered"])
  /\ UNCHANGED second

\* The request is over, or its client went away.
Leave(r) ==
  /\ readers[r].at # "idle"
  /\ Become(r, Idle)
  /\ UNCHANGED <<second, cache>>

Tick == second < LastSecond /\ second' = second + 1 /\ UNCHANGED <<cache, readers>>

Serve(r) == LookUp(r) \/ Fetch(r) \/ Store(r)

Next ==
  \/ \E r \in Reader : Begin(r) \/ Serve(r) \/ Leave(r)
  \/ Tick

Spec == Init /\ [][Next]_cacheVars

------------------------------------------------------------------------------
\* A balance that is told was read less than the TTL before the question, even
\* when readers of an expired cache overtake each other and the slowest of them
\* writes last (status/handler.rs).
BalanceIsRecent ==
  \A r \in Reader :
    readers[r].at = "answered" => readers[r].now < readers[r].read + CacheTtl
=============================================================================
