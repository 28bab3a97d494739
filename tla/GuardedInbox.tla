---------------------------- MODULE GuardedInbox ----------------------------
(***************************************************************************)
(* What the inbox of a client promises its user.  A text that was stored   *)
(* stays stored as long as the folder it is kept in does, and a folder     *)
(* goes only when another one is there for its peer.  A text is in the     *)
(* formal chat only if its sender was let in; an answer to a sender        *)
(* settles the texts of that sender that wait for it and no others, and    *)
(* what was settled changes only when the text itself comes again.  A      *)
(* sealed text is opened at most once.                                     *)
(***************************************************************************)
EXTENDS Naturals

CONSTANTS
    Peers, Msgs,
    From,           \* [Msgs -> Peers]
    Places,         \* where texts are kept: the folders a peer may have
    NoPlace

VARIABLES
    letIn,          \* the peers the user has let in
    status,         \* [Msgs -> {"none", "pending", "trusted", "rejected"}]
    place,          \* [Msgs -> Places \cup {NoPlace}]
    folders,        \* [Peers -> SUBSET Places]
    opened          \* [Msgs -> Nat]: how often a text was opened

vars == <<letIn, status, place, folders, opened>>

\* What was kept before is of peers that were let in.
Init ==
    /\ letIn \subseteq Peers
    /\ status \in [Msgs -> {"none", "trusted"}]
    /\ place \in [Msgs -> Places \cup {NoPlace}]
    /\ folders \in [Peers -> SUBSET Places]
    /\ \A m \in Msgs : IF status[m] = "none" THEN place[m] = NoPlace
                       ELSE From[m] \in letIn /\ place[m] \in folders[From[m]]
    /\ opened = [m \in Msgs |-> 0]

\* A text comes, for the first time or again.
Keep(m, s) ==
    /\ s = "trusted" => From[m] \in letIn
    /\ status' = [status EXCEPT ![m] = s]
    /\ \E q \in Places : place' = [place EXCEPT ![m] = q]
    /\ UNCHANGED <<letIn, folders, opened>>

Add(p) == letIn' = letIn \cup {p} /\ UNCHANGED <<status, place, folders, opened>>

Answer(p, s) ==
    /\ letIn' = IF s = "trusted" THEN letIn \cup {p} ELSE letIn
    /\ status' = [m \in Msgs |-> IF From[m] = p /\ status[m] = "pending" THEN s ELSE status[m]]
    /\ UNCHANGED <<place, folders, opened>>

\* Folders are made and merged: one that goes takes its texts with it, and its
\* peer has another one.
Merge(new) ==
    LET gone(m) == place[m] \in folders[From[m]] \ new[From[m]] IN
    /\ \A p \in Peers : folders[p] # {} => new[p] # {}
    /\ folders' = new
    /\ status' = [m \in Msgs |-> IF gone(m) THEN "none" ELSE status[m]]
    /\ place' = [m \in Msgs |-> IF gone(m) THEN NoPlace ELSE place[m]]
    /\ UNCHANGED <<letIn, opened>>

Open(M) ==
    /\ \A m \in M : opened[m] = 0
    /\ opened' = [m \in Msgs |-> IF m \in M THEN 1 ELSE opened[m]]
    /\ UNCHANGED <<letIn, status, place, folders>>

Next ==
    \/ \E m \in Msgs, s \in {"pending", "trusted", "rejected"} : Keep(m, s)
    \/ \E p \in Peers : Add(p) \/ \E s \in {"trusted", "rejected"} : Answer(p, s)
    \/ \E new \in [Peers -> SUBSET Places] : Merge(new)
    \/ \E M \in SUBSET Msgs : Open(M)

Spec == Init /\ [][Next]_vars
===============================================================================
