----------------------------- MODULE FrameChannel -----------------------------
(***************************************************************************)
(* What a connection promises those who send and receive on it: the frames *)
(* 1 .. Last arrive one by one, in their order and none twice.  As long as *)
(* the channel is in step none is left out either; it may fall out of step *)
(* only if it is lossy, i.e. if some frame is too large for the receiver.  *)
(***************************************************************************)
EXTENDS Naturals, Sequences

CONSTANT Last       \* number of frames sent

VARIABLES
    lossy,          \* may frames be lost at all?
    inStep,         \* has none been lost so far?
    arrived         \* the frames that were handed to the receiver

vars == <<lossy, inStep, arrived>>

Init == lossy \in BOOLEAN /\ inStep = TRUE /\ arrived = <<>>

Arrive(f) ==
    /\ \A i \in 1 .. Len(arrived) : arrived[i] < f
    /\ inStep => f = Len(arrived) + 1
    /\ arrived' = Append(arrived, f)
    /\ UNCHANGED <<lossy, inStep>>

FallOut ==
    /\ lossy /\ inStep' = FALSE
    /\ UNCHANGED <<lossy, arrived>>

Next == FallOut \/ \E f \in 1 .. Last : Arrive(f)

Spec == Init /\ [][Next]_vars
===============================================================================
