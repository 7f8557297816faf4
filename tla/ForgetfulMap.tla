---------------------------- MODULE ForgetfulMap ----------------------------
(***************************************************************************)
(* What a cache promises its callers: a lookup answers with the value last *)
(* stored under that very key, or with nothing.  Storing may forget any    *)
(* other entry, and the new one too.                                       *)
(***************************************************************************)
EXTENDS Functions

CONSTANTS Key, Data, NoData

VARIABLES store, hit

Init == store = <<>> /\ hit = NoData

Lookup(k) ==
  /\ hit' = [key |-> k, data |-> IF k \in DOMAIN store THEN store[k] ELSE NoData]
  /\ UNCHANGED store

Store(k, d) ==
  /\ LET full == [x \in DOMAIN store \cup {k} |-> IF x = k THEN d ELSE store[x]]
     IN  \E kept \in SUBSET DOMAIN full : store' = Restrict(full, kept)
  /\ UNCHANGED hit

Clear == store' = <<>> /\ UNCHANGED hit

Next ==
  \/ \E k \in Key : Lookup(k) \/ \E d \in Data : Store(k, d)
  \/ Clear

Spec == Init /\ [][Next]_<<store, hit>>
=============================================================================
