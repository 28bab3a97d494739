------------------------------- MODULE MCStation -------------------------------
(***************************************************************************)
(* What runs on the machines besides the Hub's message handling and the    *)
(* chat: the connection of a client and the frames on it, its profile and  *)
(* the launch tickets, its workspace, its assistant with a local model,    *)
(* and the host of a Hub.  They share no variable, so one run checks them  *)
(* side by side: a behaviour is one of one part, the others stay as they   *)
(* begin, and the numbers of states add up instead of multiplying.         *)
(***************************************************************************)
EXTENDS ClientTransport, LocalProfile, LaunchTickets, Workspace, Assistant, LocalModel, HubHost, WireFrames

CONSTANT Components     \* the parts a run looks at

VARIABLE component

Others(parts) == component \notin parts

Init ==
    /\ component \in Components
    /\ FramesInit /\ (Others({"frames"}) => side = "hub" /\ \A f \in Sent : ends[f] = 2 * f)
    /\ TransportInit /\ (Others({"transport"}) => hub = "up" /\ ~joined)
    /\ ProfileInit /\ (Others({"profile"}) => file = NoFile)
    /\ WorkspaceInit /\ (Others({"workspace"}) => projects = {})
    /\ AssistantInit /\ TicketsInit
    /\ HubHostInit /\ (Others({"host"}) => machine = CHOOSE m \in Machines : TRUE)
    /\ LocalModelInit /\ (Others({"model"}) => server = "down")

\* The assistant and the host go no further once their properties except all
\* that follows (mixed, overlap): the proofs and MCAssistant do not stop there.
Next ==
    \/ component = "transport" /\ TransportNext
          /\ UNCHANGED <<component, profileVars, ticketVars, workspaceVars, assistantVars, localModelVars, hubHostVars, frameVars>>
    \/ component = "profile" /\ ProfileNext
          /\ UNCHANGED <<component, transportVars, ticketVars, workspaceVars, assistantVars, localModelVars, hubHostVars, frameVars>>
    \/ component = "tickets" /\ TicketsNext
          /\ UNCHANGED <<component, transportVars, profileVars, workspaceVars, assistantVars, localModelVars, hubHostVars, frameVars>>
    \/ component = "workspace" /\ WorkspaceNext
          /\ UNCHANGED <<component, transportVars, profileVars, ticketVars, assistantVars, localModelVars, hubHostVars, frameVars>>
    \/ component = "assistant" /\ mixed = {} /\ AssistantNext
          /\ UNCHANGED <<component, transportVars, profileVars, ticketVars, workspaceVars, localModelVars, hubHostVars, frameVars>>
    \/ component = "model" /\ LocalModelNext
          /\ UNCHANGED <<component, transportVars, profileVars, ticketVars, workspaceVars, assistantVars, hubHostVars, frameVars>>
    \/ component = "host" /\ ~overlap /\ HubHostNext
          /\ UNCHANGED <<component, transportVars, profileVars, ticketVars, workspaceVars, assistantVars, localModelVars, frameVars>>
    \/ component = "frames" /\ FramesNext
          /\ UNCHANGED <<component, transportVars, profileVars, ticketVars, workspaceVars, assistantVars, localModelVars, hubHostVars>>

Spec == Init /\ [][Next]_<<component, transportVars, profileVars, ticketVars, workspaceVars, assistantVars, localModelVars, hubHostVars, frameVars>>
             /\ TransportFairness /\ LocalModelFairness

TypeOK == TransportTypeOK /\ ProfileTypeOK /\ TicketsTypeOK /\ WorkspaceTypeOK /\ AssistantTypeOK
          /\ LocalModelTypeOK /\ HubHostTypeOK /\ FramesTypeOK
=============================================================================
