-------------------------- MODULE CompressionCache --------------------------
(***************************************************************************)
(* The cache of compressed files (src/cache.rs).  Every operation runs     *)
(* under the write lock of SharedCache, so it is one atomic action.        *)
(*                                                                         *)
(* lru::LruCache (external) is a sequence of entries, the least recently   *)
(* used first.  A disabled cache (None) is an empty one with max_size 0:   *)
(* every operation answers the same.                                       *)
(***************************************************************************)
EXTENDS Integers, SequencesExt

CONSTANTS
  Key,             \* CacheKey: (path, compression, modified)
  Data, NoData,    \* compressed files, and no answer
  Size,            \* Size[d]: the length of d
  Capacity,        \* entries the LruCache holds (estimated_entries)
  max_size,        \* bytes the cache may hold
  MAX_FILE_SIZE

ASSUME CacheAssumption ==
  /\ NoData \notin Data
  /\ Size \in [Data -> Nat]
  /\ Capacity \in Nat \ {0}
  /\ max_size \in Nat
  /\ MAX_FILE_SIZE \in Nat

VARIABLES cache, current_size

Entry(k, d) == [key |-> k, data |-> d]

MatchesPath(e, k) == e.key.path = k.path
Matches(e, k) == e.key = k

Without(s, k) == SelectSeq(s, LAMBDA e : ~Matches(e, k))
Held(k) == {i \in DOMAIN cache : Matches(cache[i], k)}
Found(k) == IF Held(k) = {} THEN NoData ELSE cache[Min(Held(k))].data

TotalSize(s) == FoldLeft(LAMBDA sum, e : sum + Size[e.data], 0, s)

(* LruCache::put: at capacity the least recently used entry gives way.     *)
put(s, k, d) ==
  Append(IF Len(s) = Capacity THEN Tail(s) ELSE s, Entry(k, d))

(* make_space: how many least recently used entries have to go.            *)
Pops(s, size, required) ==
  Min({n \in 0 .. Len(s) :
         n = Len(s) \/ size - TotalSize(SubSeq(s, 1, n)) + required <= max_size})

CacheInit == cache = <<>> /\ current_size = 0

(* get: a hit becomes the most recently used entry.                        *)
get(k) ==
  /\ cache' = IF Held(k) = {} THEN cache
              ELSE Append(Without(cache, k), cache[Min(Held(k))])
  /\ UNCHANGED current_size

insertUncounted(k, d) ==
  LET popped == Without(cache, k)
      n == Pops(popped, current_size, Size[d])
  IN  /\ Size[d] <= MAX_FILE_SIZE
      /\ cache' = put(SubSeq(popped, n + 1, Len(popped)), k, d)
      /\ current_size' = current_size - TotalSize(SubSeq(popped, 1, n))
insert(k, d) ==
  IF Size[d] > MAX_FILE_SIZE \/ max_size = 0 THEN UNCHANGED <<cache, current_size>>
  ELSE LET popped == Without(cache, k)
           freed == current_size - TotalSize(SelectSeq(cache, LAMBDA e : Matches(e, k)))
           n == Pops(popped, freed, Size[d])
           kept == SubSeq(popped, n + 1, Len(popped))
           size == freed - TotalSize(SubSeq(popped, 1, n))
       IN  IF size + Size[d] <= max_size
           THEN cache' = put(kept, k, d) /\ current_size' = size + Size[d]
           ELSE cache' = kept /\ current_size' = size

clear == cache' = <<>> /\ current_size' = 0

(* current_size never falls below the bytes really held, so that no        *)
(* subtraction in make_space and insert underflows, and never exceeds      *)
(* max_size; no key is held twice.                                         *)
SizeBound ==
  /\ TotalSize(cache) <= current_size
  /\ current_size <= max_size
  /\ Len(cache) <= Capacity
  /\ \A i, j \in DOMAIN cache : cache[i].key = cache[j].key => i = j

(* An emptied cache has all of max_size to offer: make_space pops entries  *)
(* "until we have space".                                                  *)
EmptyIsFree == cache = <<>> => current_size = 0
=============================================================================
