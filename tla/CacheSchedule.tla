---------------------------- MODULE CacheSchedule ----------------------------
(***************************************************************************)
(* The row cache of min_triangle_sem_kmeans.cpp: its regeneration schedule *)
(* (manage_cache) and its fill-then-freeze generations.  manage_cache runs *)
(* once per engine iteration end, in the M-step of the crosser; between    *)
(* two calls the row callbacks insert rows through dist_comp.              *)
(* CallSpec adds later calls of the driver in the same process, which      *)
(* find the file-scope cache statics as the previous call left them.       *)
(*                                                                         *)
(* partition_cache itself (add_id, build_index, index_empty) is in         *)
(* libkcommon, outside src/; its behaviour is taken from spec 4.3: a shard *)
(* accepts a new row id of its own worker while it holds fewer than        *)
(* ShardCap (C / 2W) entries and its index is not built.                   *)
(***************************************************************************)
EXTENDS Naturals, Sequences, FiniteSets

CONSTANTS
  Workers,
  Rows,
  Part,           \* the worker (partition) whose callbacks see each row
  CacheSizes,     \* the values g_row_cache_size (C, in rows) may take
  StartInterval,  \* rc_update_start_interval
  MaxCalls,       \* how many iteration ends a behaviour has
  MaxEntries      \* how many calls of the driver a behaviour has

VARIABLES
  cacheRows, \* g_row_cache_size
  ioIter,    \* g_io_iter
  updIter,   \* g_cache_update_iter
  entries,   \* the row ids in each shard of the current g_row_cache
  indexed,   \* the current cache's index is built (frozen)
  regens,    \* history: [io |-> g_io_iter, u |-> g_cache_update_iter] at each regeneration
  entry,     \* the driver call in progress (1 for the first)
  storedIn   \* the call in which each row was last stored in the cache

vars == <<cacheRows, ioIter, updIter, entries, indexed, regens, entry, storedIn>>

EmptyShards == [w \in Workers |-> {}]

\* partition_cache::create's per-shard capacity g_row_cache_size/(g_nthread*2):
\* integer division, zero when C < 2W.
ShardCap(c) == c \div (2 * Cardinality(Workers))

\* The driver with cache_size_gb > 0: the cache size in rows, the interval
\* and a fresh cache.
Init ==
  /\ cacheRows \in CacheSizes
  /\ ioIter = 0
  /\ updIter \in StartInterval
  /\ entries = EmptyShards
  /\ indexed = FALSE
  /\ regens = <<>>
  /\ entry = 1
  /\ storedIn = [r \in Rows |-> 0]

\* Faulty variant: add_id without the shard capacity check.
AddIdNoCap(w, r) == ~indexed /\ r \notin entries[w]

\* partition_cache::add_id: the shard takes the id while filling.
AddId(w, r) == ~indexed /\ r \notin entries[w] /\ Cardinality(entries[w]) < ShardCap(cacheRows)

\* dist_comp on a row whose id the worker's shard takes: the row is stored.
Insert(r) ==
  /\ AddId(Part[r], r)
  /\ entries' = [entries EXCEPT ![Part[r]] = @ \cup {r}]
  /\ storedIn' = [storedIn EXCEPT ![r] = entry]
  /\ UNCHANGED <<cacheRows, ioIter, updIter, indexed, regens, entry>>

\* Faulty variant: the interval never grows.
GrowNone(io, u) == u

\* The log schedule: the first regeneration (io_iter == interval) adds both.
Grow(io, u) == IF io = u THEN u + (io + u) ELSE u + io

Regenerate == ioIter > 0 /\ ioIter % updIter = 0

(***************************************************************************)
(* manage_cache: at a positive multiple of the interval a new cache (empty *)
(* shards, no index) replaces the old and the interval grows; otherwise an *)
(* unbuilt index is built.  g_io_iter advances on every call.              *)
(***************************************************************************)
ManageCache ==
  /\ ioIter < MaxCalls
  /\ IF Regenerate
       THEN /\ entries' = EmptyShards
            /\ indexed' = FALSE
            /\ updIter' = Grow(ioIter, updIter)
            /\ regens' = Append(regens, [io |-> ioIter, u |-> updIter])
       ELSE /\ indexed' = TRUE
            /\ UNCHANGED <<entries, updIter, regens>>
  /\ ioIter' = ioIter + 1
  /\ UNCHANGED <<cacheRows, entry, storedIn>>

Done ==
  /\ ioIter = MaxCalls
  /\ UNCHANGED vars

Next == (\E r \in Rows : Insert(r)) \/ ManageCache \/ Done

Spec == Init /\ [][Next]_vars

(***************************************************************************)
(* A later call of compute_min_triangle_sem_kmeans in the same process.    *)
(* Only with cache_size_gb > 0 does it set g_row_cache_size and            *)
(* g_cache_update_iter and create a new partition_cache; g_io_iter is      *)
(* never reset, and with no cache requested the previous call's cache,     *)
(* index and schedule stay in place (and in use: every test is on          *)
(* g_row_cache being non-null).                                            *)
(***************************************************************************)
Call(withCache) ==
  /\ entry < MaxEntries
  /\ entry' = entry + 1
  /\ IF withCache
       THEN /\ cacheRows' \in CacheSizes
            /\ updIter' \in StartInterval
            /\ entries' = EmptyShards
            /\ indexed' = FALSE
       ELSE UNCHANGED <<cacheRows, updIter, entries, indexed>>
  /\ UNCHANGED <<ioIter, regens, storedIn>>

\* Back-to-back calls in one process, with or without a cache.
CallSpec == Init /\ [][Next \/ \E b \in BOOLEAN : Call(b)]_vars

-----------------------------------------------------------------------------
TypeOK ==
  /\ ioIter \in 0 .. MaxCalls
  /\ updIter \in Nat
  /\ entries \in [Workers -> SUBSET Rows]
  /\ cacheRows \in CacheSizes
  /\ \A w \in Workers : Cardinality(entries[w]) <= ShardCap(cacheRows)
  /\ indexed \in BOOLEAN
  /\ entry \in 1 .. MaxEntries
  /\ storedIn \in [Rows -> 0 .. MaxEntries]

(***************************************************************************)
(* Every cache generation is frozen before it is replaced: manage_cache    *)
(* regenerates only a cache whose index an earlier call built, so each     *)
(* generation serves at least one iteration.  With a start interval of 1   *)
(* the first regeneration comes at io_iter 1, right after the first build, *)
(* and only the growth of the interval keeps the next one from following   *)
(* at io_iter 2 before the new cache is ever read.                         *)
(***************************************************************************)
GenerationFrozenBeforeReplaced ==
  [][ioIter' = ioIter + 1 /\ Regenerate => indexed]_vars

(***************************************************************************)
(* Spec 4.3 and the API (cache size 0 disables the cache): a frozen cache, *)
(* from which kmeans_vertex::run serves rows instead of reading them,      *)
(* holds only rows that dist_comp stored during the current call.  A row   *)
(* of an earlier call may belong to another matrix.                        *)
(***************************************************************************)
CacheServesThisCall ==
  indexed => \A w \in Workers : \A r \in entries[w] : storedIn[r] = entry

=============================================================================
