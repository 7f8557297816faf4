------------------------------ MODULE Listener ------------------------------
(***************************************************************************)
(* A listening port (src/server.rs): the per-source policy on accepted TCP *)
(* connections, the accept loop with its semaphore, and the connections it *)
(* spawns.  TLS tells serve_tls (port 443, with handshakes and websocket   *)
(* upgrades) from serve_http (the redirect on port 80).                    *)
(*                                                                         *)
(* The loop polls the incoming stream only between two connections: while  *)
(* it waits for a semaphore permit nothing is accepted and no handshake    *)
(* advances.                                                               *)
(***************************************************************************)
EXTENDS Naturals, FiniteSets

CONSTANTS
  Conn,          \* TCP connections that will be made
  Addr,          \* Addr[c]: the peer address of c
  TLS,           \* TRUE for serve_tls, FALSE for serve_http
  rate_limit,    \* a rate limiter is configured
  max_per_key,   \* per_ip_conn_limit, a NonZeroU32
  filelimit,     \* permits of the semaphore
  NoConn

(* A peer address: IPv4, IPv4-mapped IPv6, or IPv6 as its /64 and the rest; *)
(* Unknown when peer_addr() fails on a socket that has closed already.      *)
Unknown == [family |-> "none", net |-> 0, host |-> 0]
Address == [family: {"v4", "mapped", "v6"}, net: Nat, host: Nat] \cup {Unknown}

ASSUME ListenerAssumption ==
  /\ IsFiniteSet(Conn)
  /\ NoConn \notin Conn
  /\ Addr \in [Conn -> Address]
  /\ TLS \in BOOLEAN
  /\ rate_limit \in BOOLEAN
  /\ max_per_key \in Nat \ {0}
  /\ filelimit \in Nat

VARIABLES
  stage,         \* stage[c]: how far c has got
  counts,        \* the map of PerIpLimiter
  available,     \* permits left in the semaphore
  pending,       \* the connection the loop wants a permit for
  listening      \* the accept loop runs

vars == <<stage, counts, available, pending, listening>>

(* peer_socket_addr and rate_limit_key: the key an address is counted by.  *)
(* An unknown peer is counted as 0.0.0.0.                                  *)
rate_limit_key_full(a) == [a EXCEPT !.family = IF a.family = "mapped" THEN "v4" ELSE @]
rate_limit_key(a) ==
  IF a.family = "v6" THEN [family |-> "v6", net |-> a.net, host |-> 0]
  ELSE [family |-> "v4", net |-> a.net, host |-> a.host]

Key(c) == rate_limit_key(Addr[c])

Stages == {"new", "handshake", "ready", "serving", "upgraded", "closed"}

(* The connections whose stream, and with it the PerIpPermit, is alive.    *)
Live == {c \in Conn : stage[c] \in {"handshake", "ready", "serving", "upgraded"}}
Open == {c \in Conn : stage[c] \in {"serving", "upgraded"}}

Init ==
  /\ stage = [c \in Conn |-> "new"]
  /\ counts = [k \in {} |-> 0]
  /\ available = filelimit
  /\ pending = NoConn
  /\ listening = TRUE

-----------------------------------------------------------------------------
(* PerIpLimiter                                                            *)

Count(k) == IF k \in DOMAIN counts THEN counts[k] ELSE 0

SetCount(k, n) == [x \in DOMAIN counts \cup {k} |-> IF x = k THEN n ELSE counts[x]]

(* try_acquire, when it grants a permit.                                   *)
Acquire(k) == Count(k) < max_per_key /\ counts' = SetCount(k, Count(k) + 1)

(* PerIpPermit::drop                                                       *)
ReleaseKeepsZero(k) == counts' = SetCount(k, Count(k) - 1)
Release(k) ==
  counts' = IF k \in DOMAIN counts /\ counts[k] <= 1
            THEN [x \in DOMAIN counts \ {k} |-> counts[x]]
            ELSE IF k \in DOMAIN counts THEN SetCount(k, counts[k] - 1) ELSE counts

-----------------------------------------------------------------------------
(* enforce_ip_policy                                                       *)

Polling == listening /\ pending = NoConn

RefuseEndsStream(c) ==
  /\ Polling
  /\ stage[c] = "new"
  /\ rate_limit \/ Count(Key(c)) >= max_per_key
  /\ stage' = [stage EXCEPT ![c] = "closed"]
  /\ listening' = FALSE
  /\ UNCHANGED <<counts, available, pending>>

(* The rate limiter (external) refuses, or the source has its share.       *)
Refuse(c) ==
  /\ Polling
  /\ stage[c] = "new"
  /\ rate_limit \/ Count(Key(c)) >= max_per_key
  /\ stage' = [stage EXCEPT ![c] = "closed"]
  /\ UNCHANGED <<counts, available, pending, listening>>

(* Admitted: on to the TLS handshake, or straight to the loop.             *)
Admit(c) ==
  /\ Polling
  /\ stage[c] = "new"
  /\ Acquire(Key(c))
  /\ stage' = [stage EXCEPT ![c] = IF TLS THEN "handshake" ELSE "ready"]
  /\ pending' = IF TLS THEN pending ELSE c
  /\ UNCHANGED <<available, listening>>

(* rustls-acme, external.                                                  *)
Handshake(c) ==
  /\ Polling
  /\ stage[c] = "handshake"
  /\ stage' = [stage EXCEPT ![c] = "ready"]
  /\ pending' = c
  /\ UNCHANGED <<counts, available, listening>>

HandshakeFail(c) ==
  /\ Polling
  /\ stage[c] = "handshake"
  /\ stage' = [stage EXCEPT ![c] = "closed"]
  /\ Release(Key(c))
  /\ UNCHANGED <<available, pending, listening>>

-----------------------------------------------------------------------------
(* serve_tls and serve_http                                                *)

(* acquire_owned().await succeeds and the connection's task is spawned.    *)
ServeUnlimited(c) ==
  /\ pending = c
  /\ available' = available - 1
  /\ pending' = NoConn
  /\ stage' = [stage EXCEPT ![c] = "serving"]
  /\ UNCHANGED <<counts, listening>>
Serve(c) ==
  /\ pending = c
  /\ available > 0
  /\ available' = available - 1
  /\ pending' = NoConn
  /\ stage' = [stage EXCEPT ![c] = "serving"]
  /\ UNCHANGED <<counts, listening>>

(* serve_connection ends: the task drops its permit, and the stream.       *)
FinishKeepsPermit(c) ==
  /\ stage[c] = "serving"
  /\ stage' = [stage EXCEPT ![c] = "closed"]
  /\ Release(Key(c))
  /\ UNCHANGED <<available, pending, listening>>
Finish(c) ==
  /\ stage[c] = "serving"
  /\ stage' = [stage EXCEPT ![c] = "closed"]
  /\ available' = available + 1
  /\ Release(Key(c))
  /\ UNCHANGED <<pending, listening>>

(* with_upgrades: the future resolves when the stream has been handed to   *)
(* the websocket, so the task ends and drops the permit, not the stream.   *)
Upgrade(c) ==
  /\ TLS
  /\ stage[c] = "serving"
  /\ stage' = [stage EXCEPT ![c] = "upgraded"]
  /\ available' = available + 1
  /\ UNCHANGED <<counts, pending, listening>>

(* The websocket's tasks have ended.                                       *)
Hangup(c) ==
  /\ stage[c] = "upgraded"
  /\ stage' = [stage EXCEPT ![c] = "closed"]
  /\ Release(Key(c))
  /\ UNCHANGED <<available, pending, listening>>

(* accept() fails: serve_tls logs it, serve_http's `while let` ends.       *)
AcceptError ==
  /\ Polling
  /\ listening' = TLS
  /\ UNCHANGED <<stage, counts, available, pending>>

Next ==
  \/ AcceptError
  \/ \E c \in Conn : Refuse(c) \/ Admit(c) \/ Handshake(c) \/ HandshakeFail(c)
                     \/ Serve(c) \/ Finish(c) \/ Upgrade(c) \/ Hangup(c)

Spec == Init /\ [][Next]_vars

(* The accept loop is scheduled: it takes connections from the backlog,    *)
(* and a permit when there is one.  Nothing is assumed of the peers: a     *)
(* handshake, a request or a websocket may last for ever, as the code sets *)
(* no limit but the one on reading a request's header.                     *)
Fairness ==
  \A c \in Conn : WF_vars(Refuse(c) \/ Admit(c)) /\ WF_vars(Serve(c))

FairSpec == Spec /\ Fairness

-----------------------------------------------------------------------------
(* Every variable has its type; the counter map is partial.                *)
TypeOK ==
  /\ stage \in [Conn -> Stages]
  /\ DOMAIN counts \subseteq {Key(c) : c \in Conn}
  /\ counts \in [DOMAIN counts -> Nat]
  /\ available \in Nat
  /\ pending \in Conn \cup {NoConn}
  /\ listening \in BOOLEAN

(* The limiter's map is exact: a source is counted as often as it holds    *)
(* live streams, and a source with none has no entry (the map cannot grow  *)
(* with sources that have gone).                                           *)
CountsExact ==
  /\ \A k \in DOMAIN counts : counts[k] = Cardinality({c \in Live : Key(c) = k})
  /\ \A k \in DOMAIN counts : counts[k] > 0
  /\ \A c \in Live : Key(c) \in DOMAIN counts

(* Two addresses are one source when they are the same IPv4 address or lie *)
(* in the same IPv6 /64.                                                   *)
SameSource(a, b) ==
  /\ (a.family = "v6") = (b.family = "v6")
  /\ a.net = b.net
  /\ a.family = "v6" \/ a.host = b.host

(* "capping the number of concurrent connections a single source may hold" *)
PerSourceCap ==
  \A c \in Conn : Cardinality({d \in Live : SameSource(Addr[c], Addr[d])}) <= max_per_key

(* Every semaphore permit is free or held by one connection in service.    *)
PermitsConserved ==
  available + Cardinality({c \in Conn : stage[c] = "serving"}) = filelimit

(* "held for the whole connection lifetime": no more than filelimit        *)
(* connections are open at a time.                                         *)
OpenBound == Cardinality(Open) <= filelimit

(* While permits keep coming free no connection is left in the backlog or  *)
(* waiting with the loop, however long the handshakes and the services of  *)
(* other connections take and whatever errors accept() reports.            *)
NoneHeldUp ==
  []<>(available > 0) =>
    \A c \in Conn : stage[c] \in {"new", "ready"} ~> stage[c] \notin {"new", "ready"}
=============================================================================
