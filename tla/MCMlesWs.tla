------------------------------ MODULE MCMlesWs ------------------------------
(* Instances of MlesWs for TLC: one channel or two, a few connections.     *)
EXTENDS MlesWs

CONSTANTS alice, bob, red, blue, key, s1, c1, c2, c3

(* The names run together: alice on red is spelled as bob on blue.         *)
letters == (alice :> <<"a">>) @@ (bob :> <<"a", "b">>) @@ (red :> <<"b", "c">>) @@ (blue :> <<"c">>)
           @@ (key :> <<"k">>) @@ (NoKey :> <<>>)
MCconcat == [t \in Uids \X Channels \X (Keys \cup {NoKey}) |->
               letters[t[1]] \o letters[t[2]] \o letters[t[3]]]
MCBytes == Range(MCconcat)

Digest(u, ch, k) == [digest |-> concat[<<u, ch, k>>], spelling |-> s1]
Plain(u, ch) == [uid |-> u, channel |-> ch, auth |-> NoAuth]
Signed(u, ch, k) == [uid |-> u, channel |-> ch, auth |-> Digest(u, ch, k)]

(* A client that leaves, one that stays, one that stays past a ping.       *)
Leaves(hdrs, n) == [headers |-> hdrs, msgs |-> n, leaves |-> TRUE, ticks |-> FALSE]
Stays(hdrs, n) == [headers |-> hdrs, msgs |-> n, leaves |-> FALSE, ticks |-> FALSE]
Lingers(hdrs, n) == [headers |-> hdrs, msgs |-> n, leaves |-> TRUE, ticks |-> TRUE]

(* A user who publishes, and a connection of another user on the same or   *)
(* another channel, or a second one of the same user.                      *)
TwoUsers ==
  (c1 :> Leaves({Plain(alice, red)}, 1))
  @@ (c2 :> Leaves({Plain(bob, red), Plain(bob, blue), Plain(alice, red)}, 1))

(* A user who answers pings as long as they like and leaves, or is refused *)
(* by verify_auth; and a session that stays, of the same or another user.  *)
Leaving ==
  (c1 :> Lingers({Signed(alice, red, key), Plain(alice, red)}, 0))
  @@ (c2 :> Stays({Signed(alice, red, key), Signed(bob, red, key), Malformed}, 1))

(* Two users on a channel.                                                 *)
Announced == (c1 :> Stays({Plain(alice, red)}, 0)) @@ (c2 :> Stays({Plain(bob, red)}, 0))

(* A second session of a user, which is lost while it joins.               *)
Evicted == (c1 :> Stays({Plain(alice, red)}, 0)) @@ (c2 :> Lingers({Plain(alice, red)}, 0))

(* A client that need not send its header before it is given up or leaves. *)
Hesitant == c1 :> Lingers({Plain(alice, red)}, 0)

(* A user publishes on a channel that another one leaves, while a third    *)
(* one joins another channel.                                              *)
Stalled ==
  (c1 :> Stays({Plain(alice, red)}, 2)) @@ (c2 :> Leaves({Plain(bob, red)}, 0))
  @@ (c3 :> Stays({Plain(alice, blue)}, 0))
=============================================================================
