----------------------------- MODULE MCListener -----------------------------
(* Five connections: three from one IPv6 /64, one from an IPv4 address in  *)
(* its mapped form, and one whose address is unknown.                      *)
EXTENDS Listener, TLC

CONSTANTS c1, c2, c3, c4, c5

Net(family, host) == [family |-> family, net |-> 1, host |-> host]

MixedSources ==
  (c1 :> Net("v6", 1)) @@ (c2 :> Net("v6", 2)) @@ (c3 :> Net("v6", 3))
  @@ (c4 :> Net("mapped", 1)) @@ (c5 :> Unknown)
=============================================================================
