---------------------------- MODULE DeviceOutbox ----------------------------
(***************************************************************************)
(* What a client promises of the texts its user sends.  A text is settled  *)
(* once: as sent if one envelope went out for each device it is meant for, *)
(* as failed otherwise, with or without some of the envelopes.  On the way *)
(* to a device every envelope has a higher sequence than those before it,  *)
(* and nothing of a text goes out once it is settled.                      *)
(***************************************************************************)
EXTENDS Naturals

CONSTANTS Texts, Peers, Devices

VARIABLES
    outcome,        \* [Texts -> {"no", "sent", "failed"}]
    meant,          \* [Texts -> SUBSET Devices]: what the text was sealed for
    wire            \* envelopes gone out: <<text, peer, device, sequence>>

vars == <<outcome, meant, wire>>

Init ==
    /\ outcome = [t \in Texts |-> "no"] /\ meant = [t \in Texts |-> {}]
    /\ wire = {}

Aim(t, to) ==
    /\ outcome[t] = "no" /\ meant[t] = {}
    /\ meant' = [meant EXCEPT ![t] = to]
    /\ UNCHANGED <<outcome, wire>>

\* The envelopes E of text t go to peer p, at most one for each device and
\* each after all that went there before.
Fits(E, t, p) ==
    /\ E \subseteq {t} \X {p} \X meant[t] \X Nat
    /\ \A e, f \in E : e[3] = f[3] => e = f
    /\ \A e \in E, f \in wire : f[2] = p /\ f[3] = e[3] => f[4] < e[4]

Settle(t, p, result) ==
    LET E == wire' \ wire IN
    /\ outcome[t] = "no" /\ meant[t] # {}
    /\ wire \subseteq wire' /\ Fits(E, t, p)
    /\ result = "sent" => {e[3] : e \in E} = meant[t]
    /\ outcome' = [outcome EXCEPT ![t] = result]
    /\ UNCHANGED meant

\* Texts that cannot be sent, or were being sent when the client died.
GiveUp(T) ==
    /\ \A t \in T : outcome[t] = "no"
    /\ outcome' = [t \in Texts |-> IF t \in T THEN "failed" ELSE outcome[t]]
    /\ UNCHANGED <<meant, wire>>

Next ==
    \/ \E t \in Texts, to \in SUBSET Devices : Aim(t, to)
    \/ \E t \in Texts, p \in Peers, result \in {"sent", "failed"} : Settle(t, p, result)
    \/ \E T \in SUBSET Texts : GiveUp(T)

Spec == Init /\ [][Next]_vars
===============================================================================
