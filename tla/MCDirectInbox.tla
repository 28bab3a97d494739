---------------------------- MODULE MCDirectInbox ----------------------------
(* TLC instance: a peer, offline or online with one device; its sealed text *)
(* and a contact request are delivered twice.                               *)
EXTENDS DirectInbox, TLC
CONSTANTS p1, d1, text, request
MCFrom == [m \in Msgs |-> p1]
MCVia == (text :> d1) @@ (request :> Plain)
MCDirectories == {<<>>, <<d1>>}
=============================================================================
