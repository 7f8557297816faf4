------------------------------ MODULE MCCache -------------------------------
(* The cache alone, under any sequence of calls, against ForgetfulMap.     *)
EXTENDS CompressionCache, TLC

CONSTANTS p, q, small, other, large, huge

VARIABLE hit       \* what the last get was asked for and returned

vars == <<cache, current_size, hit>>

MCKey == [path: {p, q}, modified: {1, 2}]
MCSize == (small :> 1) @@ (other :> 3) @@ (large :> 6) @@ (huge :> 7)

Init == CacheInit /\ hit = NoData

Next ==
  \/ \E k \in Key : get(k) /\ hit' = [key |-> k, data |-> Found(k)]
  \/ \E k \in Key, d \in Data : insert(k, d) /\ UNCHANGED hit
  \/ clear /\ UNCHANGED hit

Spec == Init /\ [][Next]_vars

(* The cache as a map from keys to data.                                   *)
Contents == [k \in {cache[i].key : i \in DOMAIN cache} |-> Found(k)]

Abstract == INSTANCE ForgetfulMap WITH store <- Contents

(* The LRU bookkeeping is invisible: get answers with what insert last     *)
(* stored under exactly that path, encoding and modification time, or with *)
(* nothing.                                                                *)
IsForgetfulMap == Abstract!Spec
=============================================================================
