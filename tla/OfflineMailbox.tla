---------------------------- MODULE OfflineMailbox ----------------------------
(***************************************************************************)
(* What the Hub's persistent offline queue promises: a message it holds is *)
(* let go only after it was handed to a device it is addressed to, or when *)
(* its time to live is over.  Handing over may happen more than once.      *)
(***************************************************************************)
CONSTANTS
    Msgs,           \* messages
    Devices,        \* devices of the recipient
    Addressed(_, _) \* is the message meant for the device?

VARIABLES
    box,            \* [Msgs -> {"new", "held", "released", "expired"}]
    handed          \* pairs of a message and a device it was handed to

vars == <<box, handed>>

Init ==
    /\ box = [m \in Msgs |-> "new"]
    /\ handed = {}

Hold(m) ==
    /\ box[m] = "new"
    /\ box' = [box EXCEPT ![m] = "held"]
    /\ UNCHANGED handed

\* Also of a message that was never held: its device was online.
Hand(M, d) ==
    /\ \A m \in M : Addressed(m, d)
    /\ handed' = handed \cup (M \X {d})
    /\ UNCHANGED box

Release(M) ==
    /\ \A m \in M : box[m] = "held" /\ \E d \in Devices : <<m, d>> \in handed
    /\ box' = [m \in Msgs |-> IF m \in M THEN "released" ELSE box[m]]
    /\ UNCHANGED handed

Expire(M) ==
    /\ \A m \in M : box[m] = "held"
    /\ box' = [m \in Msgs |-> IF m \in M THEN "expired" ELSE box[m]]
    /\ UNCHANGED handed

Next ==
    \/ \E m \in Msgs : Hold(m)
    \/ \E M \in SUBSET Msgs :
          \/ \E d \in Devices : Hand(M, d)
          \/ Release(M) \/ Expire(M)

Spec == Init /\ [][Next]_vars
=============================================================================
