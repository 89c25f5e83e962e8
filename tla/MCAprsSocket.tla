---------------------------- MODULE MCAprsSocket ----------------------------
(* One descriptor more than the object can hold, so that a leak shows; two  *)
(* addresses of each family at most, in either order.                       *)
EXTENDS AprsSocket

MCFds == {3, 4}

MCTraffic == {<<"wx">>, <<"other">>}

MCPeerLists == {<<"inet">>, <<"inet", "inet6">>, <<"inet6", "inet", "inet6">>}

=============================================================================
