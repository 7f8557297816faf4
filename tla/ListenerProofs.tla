--------------------------- MODULE ListenerProofs ---------------------------
(***************************************************************************)
(* For every number of connections, every assignment of addresses and      *)
(* every limit: the per-source counters of a port are exact and the cap    *)
(* holds.                                                                  *)
(***************************************************************************)
EXTENDS Listener, FiniteSetTheorems, TLAPS

LiveStages == {"handshake", "ready", "serving", "upgraded"}

(* The streams that hold a permit of source k.                             *)
Holders(k) == {c \in Live : Key(c) = k}

(* The connection the loop waits with is one that nobody else can end.     *)
PendingReady == pending # NoConn => stage[pending] = "ready"

Capped == \A k \in DOMAIN counts : counts[k] <= max_per_key

IInv == TypeOK /\ PendingReady /\ CountsExact /\ Capped

-----------------------------------------------------------------------------
(* Sets of live connections are finite.                                    *)
LEMMA HoldersFinite ==
  ASSUME NEW k
  PROVE  IsFiniteSet(Holders(k)) /\ Cardinality(Holders(k)) \in Nat
<1>1. Holders(k) \subseteq Conn
  BY DEF Holders, Live
<1>2. IsFiniteSet(Holders(k))
  BY <1>1, FS_Subset, ListenerAssumption
<1> QED
  BY <1>2, FS_CardinalityType

(* Count reads the size of Holders, also for a source without an entry.    *)
LEMMA CountIsHolders ==
  ASSUME CountsExact, NEW k
  PROVE  Count(k) = Cardinality(Holders(k))
<1>1. CASE k \in DOMAIN counts
  BY <1>1 DEF CountsExact, Count, Holders
<1>2. CASE k \notin DOMAIN counts
  <2>1. Holders(k) = {}
    BY <1>2 DEF CountsExact, Holders
  <2> QED
    BY <1>2, <2>1, FS_EmptySet DEF Count
<1> QED
  BY <1>1, <1>2

(* try_acquire and the new stream together keep the counters exact.        *)
LEMMA AcquireExact ==
  ASSUME IInv, NEW c \in Conn, NEW s \in LiveStages,
         stage[c] = "new", stage' = [stage EXCEPT ![c] = s], Acquire(Key(c))
  PROVE  /\ CountsExact' /\ Capped'
         /\ DOMAIN counts' \subseteq {Key(d) : d \in Conn}
         /\ counts' \in [DOMAIN counts' -> Nat]
<1> DEFINE k == Key(c)
<1>1. /\ c \notin Live
      /\ Live' = Live \cup {c}
  BY DEF IInv, TypeOK, Live, LiveStages
<1>2. /\ Holders(k)' = Holders(k) \cup {c}
      /\ c \notin Holders(k)
      /\ \A x : x # k => Holders(x)' = Holders(x)
  BY <1>1 DEF Holders, Key
<1>3. Cardinality(Holders(k)') = Cardinality(Holders(k)) + 1
  BY <1>2, HoldersFinite, FS_AddElement
<1>4. /\ Count(k) = Cardinality(Holders(k))
      /\ Count(k) \in Nat
  BY CountIsHolders, HoldersFinite DEF IInv
<1>5. /\ counts' = [x \in DOMAIN counts \cup {k} |-> IF x = k THEN Count(k) + 1 ELSE counts[x]]
      /\ Count(k) < max_per_key
  BY DEF Acquire, SetCount
<1>6. /\ DOMAIN counts' = DOMAIN counts \cup {k}
      /\ counts'[k] = Count(k) + 1
      /\ \A x \in DOMAIN counts : x # k => counts'[x] = counts[x]
  BY <1>5
<1>7. \A x \in DOMAIN counts' : counts'[x] = Cardinality(Holders(x)')
  BY <1>2, <1>3, <1>4, <1>6 DEF IInv, CountsExact, Holders
<1>8. \A x \in DOMAIN counts' : counts'[x] > 0 /\ counts'[x] <= max_per_key /\ counts'[x] \in Nat
  BY <1>4, <1>5, <1>6, ListenerAssumption DEF IInv, CountsExact, Capped, TypeOK
<1>9. \A d \in Live' : Key(d) \in DOMAIN counts'
  BY <1>1, <1>6 DEF IInv, CountsExact
<1>10. CountsExact'
  BY <1>7, <1>8, <1>9 DEF CountsExact, Holders, Key
<1>11. DOMAIN counts' \subseteq {Key(d) : d \in Conn}
  BY <1>6 DEF IInv, TypeOK
<1>12. counts' \in [DOMAIN counts' -> Nat]
  BY <1>5, <1>6, <1>8
<1> QED
  BY <1>8, <1>10, <1>11, <1>12 DEF Capped

(* PerIpPermit::drop and the end of the stream keep them exact.            *)
LEMMA ReleaseExact ==
  ASSUME IInv, NEW c \in Conn,
         stage[c] \in LiveStages, stage' = [stage EXCEPT ![c] = "closed"], Release(Key(c))
  PROVE  /\ CountsExact' /\ Capped'
         /\ DOMAIN counts' \subseteq {Key(d) : d \in Conn}
         /\ counts' \in [DOMAIN counts' -> Nat]
<1> DEFINE k == Key(c)
<1>1. /\ c \in Live
      /\ Live' = Live \ {c}
  BY DEF IInv, TypeOK, Live, LiveStages
<1>2. /\ Holders(k)' = Holders(k) \ {c}
      /\ c \in Holders(k)
      /\ \A x : x # k => Holders(x)' = Holders(x)
  BY <1>1 DEF Holders, Key
<1>3. Cardinality(Holders(k)') = Cardinality(Holders(k)) - 1
  BY <1>2, HoldersFinite, FS_RemoveElement
<1>4. /\ k \in DOMAIN counts
      /\ counts[k] = Cardinality(Holders(k))
      /\ counts[k] \in Nat /\ counts[k] > 0 /\ counts[k] <= max_per_key
  BY <1>1 DEF IInv, CountsExact, Capped, TypeOK, Holders
<1>5. \A x \in DOMAIN counts : x # k => counts[x] = Cardinality(Holders(x)')
  BY <1>2 DEF IInv, CountsExact, Holders
<1>6. CASE counts[k] = 1
  <2>1. counts' = [x \in DOMAIN counts \ {k} |-> counts[x]]
    BY <1>4, <1>6 DEF Release
  <2>2. DOMAIN counts' = DOMAIN counts \ {k} /\ \A x \in DOMAIN counts' : counts'[x] = counts[x]
    BY <2>1
  <2>3. Holders(k)' = {}
    <3>1. IsFiniteSet(Holders(k)')
      BY <1>2, HoldersFinite, FS_RemoveElement
    <3>2. Cardinality(Holders(k)') = 0
      BY <1>3, <1>4, <1>6
    <3> QED
      BY <3>1, <3>2, FS_EmptySet
  <2>4. \A d \in Live' : Key(d) # k
    BY <2>3 DEF Holders, Key
  <2>5. \A d \in Live' : Key(d) \in DOMAIN counts'
    BY <1>1, <2>2, <2>4 DEF IInv, CountsExact
  <2>6. CountsExact'
    BY <1>5, <2>2, <2>5 DEF IInv, CountsExact, Holders, Key
  <2> QED
    BY <2>1, <2>2, <2>6 DEF IInv, TypeOK, Capped
<1>7. CASE counts[k] # 1
  <2>1. /\ counts' = [x \in DOMAIN counts \cup {k} |-> IF x = k THEN counts[k] - 1 ELSE counts[x]]
        /\ counts[k] > 1
    BY <1>4, <1>7 DEF Release, SetCount
  <2>2. /\ DOMAIN counts' = DOMAIN counts
        /\ counts'[k] = counts[k] - 1
        /\ \A x \in DOMAIN counts : x # k => counts'[x] = counts[x]
    BY <1>4, <2>1
  <2>3. \A x \in DOMAIN counts' : counts'[x] = Cardinality(Holders(x)')
    BY <1>3, <1>4, <1>5, <2>2
  <2>4. \A x \in DOMAIN counts' : counts'[x] > 0 /\ counts'[x] <= max_per_key /\ counts'[x] \in Nat
    BY <1>4, <2>1, <2>2, ListenerAssumption DEF IInv, CountsExact, Capped, TypeOK
  <2>5. \A d \in Live' : Key(d) \in DOMAIN counts'
    BY <1>1, <2>2 DEF IInv, CountsExact
  <2>6. CountsExact'
    BY <2>3, <2>4, <2>5 DEF CountsExact, Holders, Key
  <2> QED
    BY <2>1, <2>2, <2>4, <2>6 DEF IInv, TypeOK, Capped
<1> QED
  BY <1>6, <1>7

(* A step that neither opens nor closes a stream.                          *)
LEMMA SameStreams ==
  ASSUME IInv, Live' = Live, counts' = counts
  PROVE  CountsExact' /\ Capped'
BY DEF IInv, CountsExact, Capped, Key

(* Nothing is open at the start.                                           *)
LEMMA InitIInv == Init => IInv
<1> SUFFICES ASSUME Init PROVE IInv
  OBVIOUS
<1>1. TypeOK
  BY ListenerAssumption DEF Init, TypeOK, Stages
<1>2. Live = {} /\ DOMAIN counts = {}
  BY DEF Init, Live
<1> QED
  BY <1>1, <1>2 DEF Init, IInv, PendingReady, CountsExact, Capped

(* Every step keeps the counters exact and capped.                         *)
LEMMA NextIInv == IInv /\ [Next]_vars => IInv'
<1> SUFFICES ASSUME IInv, [Next]_vars PROVE IInv'
  OBVIOUS
<1> USE ListenerAssumption
<1>1. ASSUME NEW c \in Conn, Refuse(c) PROVE IInv'
  <2>1. Live' = Live /\ counts' = counts
    BY <1>1 DEF Refuse, IInv, TypeOK, Live
  <2>2. TypeOK' /\ PendingReady'
    BY <1>1 DEF Refuse, Polling, IInv, TypeOK, PendingReady, Stages, Key
  <2> QED
    BY <2>1, <2>2, SameStreams DEF IInv
<1>2. ASSUME NEW c \in Conn, Admit(c) PROVE IInv'
  <2> DEFINE s == IF TLS THEN "handshake" ELSE "ready"
  <2>1. s \in LiveStages /\ stage' = [stage EXCEPT ![c] = s]
    BY <1>2 DEF Admit, LiveStages
  <2>2. /\ CountsExact' /\ Capped'
        /\ DOMAIN counts' \subseteq {Key(d) : d \in Conn}
        /\ counts' \in [DOMAIN counts' -> Nat]
    BY <1>2, <2>1, AcquireExact DEF Admit
  <2>3. PendingReady'
    BY <1>2 DEF Admit, Polling, IInv, TypeOK, PendingReady
  <2>4. TypeOK'
    BY <1>2, <2>2 DEF Admit, IInv, TypeOK, Stages, Key
  <2> QED
    BY <2>2, <2>3, <2>4 DEF IInv
<1>3. ASSUME NEW c \in Conn, Handshake(c) PROVE IInv'
  <2>1. Live' = Live /\ counts' = counts
    BY <1>3 DEF Handshake, IInv, TypeOK, Live
  <2>2. TypeOK' /\ PendingReady'
    BY <1>3 DEF Handshake, Polling, IInv, TypeOK, PendingReady, Stages, Key
  <2> QED
    BY <2>1, <2>2, SameStreams DEF IInv
<1>4. ASSUME NEW c \in Conn, HandshakeFail(c) \/ Finish(c) \/ Hangup(c) PROVE IInv'
  <2>1. /\ stage[c] \in LiveStages /\ stage[c] # "ready"
        /\ stage' = [stage EXCEPT ![c] = "closed"]
        /\ Release(Key(c))
        /\ available' \in Nat /\ pending' = pending /\ listening' = listening
    BY <1>4 DEF HandshakeFail, Finish, Hangup, LiveStages, IInv, TypeOK
  <2>2. /\ CountsExact' /\ Capped'
        /\ DOMAIN counts' \subseteq {Key(d) : d \in Conn}
        /\ counts' \in [DOMAIN counts' -> Nat]
    BY <2>1, ReleaseExact
  <2>3. PendingReady'
    BY <2>1 DEF IInv, TypeOK, PendingReady
  <2>4. TypeOK'
    BY <2>1, <2>2 DEF IInv, TypeOK, Stages, Key
  <2> QED
    BY <2>2, <2>3, <2>4 DEF IInv
<1>5. ASSUME NEW c \in Conn, Serve(c) \/ Upgrade(c) PROVE IInv'
  <2>1. /\ stage[c] \in {"ready", "serving"}
        /\ \E s \in {"serving", "upgraded"} : stage' = [stage EXCEPT ![c] = s]
        /\ counts' = counts
    BY <1>5 DEF Serve, Upgrade, IInv, TypeOK, PendingReady
  <2>2. Live' = Live
    BY <2>1 DEF IInv, TypeOK, Live
  <2>3. PendingReady'
    BY <1>5 DEF Serve, Upgrade, IInv, TypeOK, PendingReady
  <2>4. TypeOK'
    BY <1>5 DEF Serve, Upgrade, IInv, TypeOK, Stages, Key
  <2> QED
    BY <2>1, <2>2, <2>3, <2>4, SameStreams DEF IInv
<1>6. ASSUME AcceptError PROVE IInv'
  BY <1>6 DEF AcceptError, IInv, TypeOK, PendingReady, CountsExact, Capped, Live, Key
<1>7. ASSUME UNCHANGED vars PROVE IInv'
  BY <1>7 DEF vars, IInv, TypeOK, PendingReady, CountsExact, Capped, Live, Key
<1> QED
  BY <1>1, <1>2, <1>3, <1>4, <1>5, <1>6, <1>7 DEF Next

(* The key of an address is the same exactly for addresses of one source:  *)
(* rate_limit_key neither splits a source nor merges two.                  *)
LEMMA KeyIsSource ==
  ASSUME NEW a \in Address, NEW b \in Address
  PROVE  SameSource(a, b) <=> rate_limit_key(a) = rate_limit_key(b)
BY DEF Address, Unknown, SameSource, rate_limit_key

(* The map of PerIpLimiter counts the live streams of every source, without *)
(* entries for sources that have none, on both ports and for all limits.    *)
THEOREM CountsAreExact == Spec => []CountsExact
<1>1. IInv => CountsExact
  BY DEF IInv
<1> QED
  BY <1>1, InitIInv, NextIInv, PTL DEF Spec

(* No source ever holds more than per_ip_conn_limit connections: what       *)
(* try_acquire and PerIpPermit::drop are there for.                         *)
THEOREM SourceIsCapped == Spec => []PerSourceCap
<1>1. IInv => PerSourceCap
  <2> SUFFICES ASSUME IInv, NEW c \in Conn
               PROVE  Cardinality({d \in Live : SameSource(Addr[c], Addr[d])}) <= max_per_key
    BY DEF PerSourceCap
  <2>1. {d \in Live : SameSource(Addr[c], Addr[d])} = Holders(Key(c))
    BY KeyIsSource, ListenerAssumption DEF Holders, Key, Live
  <2>2. Cardinality(Holders(Key(c))) = Count(Key(c))
    BY CountIsHolders DEF IInv
  <2>3. Count(Key(c)) <= max_per_key
    BY ListenerAssumption DEF IInv, Capped, Count
  <2> QED
    BY <2>1, <2>2, <2>3
<1> QED
  BY <1>1, InitIInv, NextIInv, PTL DEF Spec

(* The limiter's map only ever names sources of connections that were made *)
(* and the semaphore never runs below zero.                                *)
THEOREM ListenerTypes == Spec => []TypeOK
<1>1. IInv => TypeOK
  BY DEF IInv
<1> QED
  BY <1>1, InitIInv, NextIInv, PTL DEF Spec

Serving == {c \in Conn : stage[c] = "serving"}

(* A permit of the semaphore is never lost and never given twice: at any   *)
(* time those left and the connections in service make up filelimit.       *)
THEOREM PermitsAreConserved == Spec => []PermitsConserved
<1> USE ListenerAssumption
<1>1. Init => PermitsConserved
  <2> SUFFICES ASSUME Init PROVE PermitsConserved
    OBVIOUS
  <2>1. Serving = {}
    BY DEF Init, Serving
  <2> QED
    BY <2>1, FS_EmptySet DEF Init, PermitsConserved, Serving
<1>2. IInv /\ PermitsConserved /\ [Next]_vars => PermitsConserved'
  <2> SUFFICES ASSUME IInv, PermitsConserved, [Next]_vars PROVE PermitsConserved'
    OBVIOUS
  <2>1. IsFiniteSet(Serving) /\ Cardinality(Serving) \in Nat
    BY FS_Subset, FS_CardinalityType DEF Serving
  <2>2. available \in Nat /\ available + Cardinality(Serving) = filelimit
    BY DEF IInv, TypeOK, PermitsConserved, Serving
  <2>3. ASSUME NEW c \in Conn, Serve(c) PROVE PermitsConserved'
    <3>1. c \notin Serving /\ Serving' = Serving \cup {c}
      BY <2>3 DEF Serve, Serving, IInv, TypeOK, PendingReady
    <3>2. Cardinality(Serving') = Cardinality(Serving) + 1
      BY <2>1, <3>1, FS_AddElement
    <3> QED
      BY <2>1, <2>2, <2>3, <3>2 DEF Serve, PermitsConserved, Serving
  <2>4. ASSUME NEW c \in Conn, Finish(c) \/ Upgrade(c) PROVE PermitsConserved'
    <3>1. c \in Serving /\ Serving' = Serving \ {c}
      BY <2>4 DEF Finish, Upgrade, Serving, IInv, TypeOK
    <3>2. Cardinality(Serving') = Cardinality(Serving) - 1
      BY <2>1, <3>1, FS_RemoveElement
    <3> QED
      BY <2>1, <2>2, <2>4, <3>2 DEF Finish, Upgrade, PermitsConserved, Serving
  <2>5. ASSUME NEW c \in Conn,
               Refuse(c) \/ Admit(c) \/ Handshake(c) \/ HandshakeFail(c) \/ Hangup(c)
        PROVE  PermitsConserved'
    <3>1. Serving' = Serving /\ available' = available
      BY <2>5 DEF Refuse, Admit, Handshake, HandshakeFail, Hangup, Serving, IInv, TypeOK
    <3> QED
      BY <2>2, <3>1 DEF PermitsConserved, Serving
  <2>6. ASSUME AcceptError \/ UNCHANGED vars PROVE PermitsConserved'
    BY <2>6 DEF AcceptError, vars, PermitsConserved
  <2> QED
    BY <2>3, <2>4, <2>5, <2>6 DEF Next
<1> QED
  BY <1>1, <1>2, InitIInv, NextIInv, PTL DEF Spec
=============================================================================
