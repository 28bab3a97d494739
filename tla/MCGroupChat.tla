----------------------------- MODULE MCGroupChat -----------------------------
(* TLC instance: the creator and one user it may invite; both may remove and *)
(* add each other.                                                           *)
EXTENDS GroupChat, TLC
=============================================================================
