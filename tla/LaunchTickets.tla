----------------------------- MODULE LaunchTickets -----------------------------
(***************************************************************************)
(* The launch tickets of a profile: files that the launcher's commands     *)
(* write and that clients started with --launch-ticket redeem.  A client   *)
(* reads the file, checks it, truncates it and writes it with the time it  *)
(* was consumed, all without a lock, and then opens its session.  Whether  *)
(* the identity loads and is the ticket's is LocalProfile's matter: here   *)
(* it may be either way.                                                   *)
(***************************************************************************)
EXTENDS Naturals

CONSTANTS
    Tickets,
    Clients,        \* clients started with a ticket
    NoTicket

ASSUME LaunchTicketsAssumption == NoTicket \notin Tickets

VARIABLES
    ticket,     \* [Tickets -> none, issued, torn, consumed]: what its file holds
    expired,    \* tickets whose expires_at has passed
    phase,      \* [Clients -> off, read, writing, written, in]
    given,      \* [Clients -> the ticket the client was started with]
    opened,     \* history: [Tickets -> Nat]: the sessions a ticket opened
    contended   \* history: tickets one client read while another had read them
                \* and not written them yet

ticketVars == <<ticket, expired, phase, given, opened, contended>>

TicketsInit ==
    /\ ticket = [t \in Tickets |-> "none"] /\ expired = {}
    /\ phase = [c \in Clients |-> "off"] /\ given = [c \in Clients |-> NoTicket]
    /\ opened = [t \in Tickets |-> 0] /\ contended = {}

\* issue: the token is given away once the file is written.
IssueTicket(t) ==
    /\ ticket[t] = "none"
    /\ ticket' = [ticket EXCEPT ![t] = "issued"]
    /\ UNCHANGED <<expired, phase, given, opened, contended>>

ExpireTicket(t) ==
    /\ ticket[t] # "none" /\ expired' = expired \cup {t}
    /\ UNCHANGED <<ticket, phase, given, opened, contended>>

\* Mutant of Redeemable: consumed_at is not looked at.
RedeemableAgain(t) == ticket[t] \in {"issued", "consumed"} /\ t \notin expired

\* What consume asks of the file it has read: torn, it is no JSON.
Redeemable(t) == ticket[t] = "issued" /\ t \notin expired

\* consume: the file is read and checked; a client that is refused ends.
ReadTicket(c, t) ==
    /\ phase[c] = "off" /\ Redeemable(t)
    /\ phase' = [phase EXCEPT ![c] = "read"] /\ given' = [given EXCEPT ![c] = t]
    /\ contended' = contended \cup
          IF \E d \in Clients : phase[d] = "read" /\ given[d] = t THEN {t} ELSE {}
    /\ UNCHANGED <<ticket, expired, opened>>

\* write_text: the file is truncated ...
TruncateTicket(c) ==
    /\ phase[c] = "read"
    /\ phase' = [phase EXCEPT ![c] = "writing"]
    /\ ticket' = [ticket EXCEPT ![given[c]] = "torn"]
    /\ UNCHANGED <<expired, given, opened, contended>>

\* ... and written; what two clients write into it may be a mixture.
WriteTicket(c) ==
    /\ phase[c] = "writing"
    /\ phase' = [phase EXCEPT ![c] = "written"]
    /\ \E content \in {"consumed"} \cup IF given[c] \in contended THEN {"torn"} ELSE {} :
          ticket' = [ticket EXCEPT ![given[c]] = content]
    /\ UNCHANGED <<expired, given, opened, contended>>

\* main: the session begins if the identity loads and is the ticket's.
OpenSession(c) ==
    /\ phase[c] = "written"
    /\ phase' = [phase EXCEPT ![c] = "in"]
    /\ opened' = [opened EXCEPT ![given[c]] = @ + 1]
    /\ UNCHANGED <<ticket, expired, given, contended>>

\* The client is refused, closed or dies, at any step.
EndClient(c) ==
    /\ phase[c] # "off"
    /\ phase' = [phase EXCEPT ![c] = "off"] /\ given' = [given EXCEPT ![c] = NoTicket]
    /\ UNCHANGED <<ticket, expired, opened, contended>>

TicketsNext ==
    \/ \E t \in Tickets :
          IssueTicket(t) \/ ExpireTicket(t) \/ \E c \in Clients : ReadTicket(c, t)
    \/ \E c \in Clients :
          TruncateTicket(c) \/ WriteTicket(c) \/ OpenSession(c) \/ EndClient(c)

TicketsSpec == TicketsInit /\ [][TicketsNext]_ticketVars

-----------------------------------------------------------------------------
TicketsTypeOK ==
    /\ ticket \in [Tickets -> {"none", "issued", "torn", "consumed"}]
    /\ expired \subseteq Tickets /\ contended \subseteq Tickets
    /\ phase \in [Clients -> {"off", "read", "writing", "written", "in"}]
    /\ given \in [Clients -> Tickets \cup {NoTicket}]
    /\ \A c \in Clients : phase[c] # "off" => given[c] \in Tickets

\* TicketOnce: a launch ticket opens one session, over clients that die at any
\* step of the redemption and are started with it again, and others started with
\* it at the same time, as long as no two have read its file before one of them
\* writes that it is consumed (LaunchTicketStore.consume takes no lock).
TicketOnce == \A t \in Tickets \ contended : opened[t] <= 1
=============================================================================
