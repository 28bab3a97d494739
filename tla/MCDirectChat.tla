---------------------------- MODULE MCDirectChat ----------------------------
(* TLC instance: one peer, its deterministic conversation, one made up by an *)
(* earlier version and one group both are in.                                *)
EXTENDS DirectChat, TLC
CONSTANTS p1, d1, d2, direct, mock, group, in1, in2
MCDirect == [p \in Peers |-> direct]
MCMock == [p \in Peers |-> mock]
MCMembers == [c \in Convs |-> Peers]
MCFrom == [m \in Incoming |-> p1]
MCDeviceLists == {<<>>, <<d1>>, <<d2, d1>>}
=============================================================================
