------------------------------ MODULE WireFrames ------------------------------
(***************************************************************************)
(* The byte stream of one TCP connection and the frame buffer that reads   *)
(* it, at the Hub and at a client.  A frame is a line of JSON.  The buffer *)
(* always holds a contiguous part of the stream, from `start` to `read`,   *)
(* so bytes are positions; reads cut the stream anywhere.                  *)
(***************************************************************************)
EXTENDS Naturals, Sequences

CONSTANTS
    Last,           \* number of frames sent
    Sizes,          \* of a frame, with its delimiter
    MaxStream,      \* bound on the length of the stream
    MaxChunk,       \* of reader.read
    MaxBuffer       \* MAX_MESSAGE_SIZE

ASSUME WireFramesAssumption ==
    /\ Last \in Nat /\ MaxChunk \in Nat \ {0} /\ MaxBuffer \in Nat /\ MaxStream \in Nat
    /\ Sizes \subseteq Nat \ {0, 1}

VARIABLES
    side,       \* who reads: hub or client
    ends,       \* [0 .. Last -> Nat]: where each frame ends in the stream
    start, read,
    reader,     \* in read, in pop, or closed
    got,        \* the frames handed to process_message
    base        \* history: where the buffer was cleared last

frameVars == <<side, ends, start, read, reader, got, base>>

FramesInit ==
    /\ side \in {"hub", "client"}
    /\ ends \in {e \in [0 .. Last -> 0 .. MaxStream] :
                    e[0] = 0 /\ \A f \in 1 .. Last : e[f] - e[f - 1] \in Sizes}
    /\ start = 0 /\ read = 0 /\ base = 0
    /\ reader = "read" /\ got = <<>>

Sent == 1 .. Last

-----------------------------------------------------------------------------
\* feed looks at all it has, complete frames included.
Overflows(length) == length > MaxBuffer

\* The Hub drops the buffer, answers with an error and reads on ...
HubRejects(upto) == side = "hub" /\ reader' = "read" /\ start' = upto /\ base' = upto

\* ... a client closes the connection.
ClientRejects(upto) == side = "client" /\ reader' = "closed" /\ start' = upto /\ base' = upto

Rejects(upto) == HubRejects(upto) \/ ClientRejects(upto)

\* reader.read and feed
Read(n) ==
    /\ reader = "read" /\ read + n <= ends[Last]
    /\ read' = read + n
    /\ IF Overflows(read' - start) THEN Rejects(read')
       ELSE reader' = "pop" /\ UNCHANGED <<start, base>>
    /\ UNCHANGED <<side, ends, got>>

\* lstrip: the delimiter of a frame that was taken without it.
Stripped == IF start < read /\ \E f \in Sent : ends[f] = start + 1 THEN start + 1 ELSE start

Begins(f) == ends[f - 1] = Stripped

\* Up to the first delimiter, or else a JSON object that is already complete.
Complete(f) ==
    /\ Stripped < ends[f] /\ ends[f - 1] <= Stripped
    /\ ends[f] <= read \/ (Begins(f) /\ ends[f] = read + 1)

\* Mutant of Taken: all of the buffer goes with a frame.
TakenAll(f) == read

\* Mutant of Taken: the frame stays in the buffer.
TakenNone(f) == start

\* What pop_message leaves in the buffer begins here.
Taken(f) == IF ends[f] <= read THEN ends[f] ELSE read

\* pop_message finds a frame: one cut at its front is not JSON.  An exception of
\* process_message ends the Hub's handler; a client catches its own.
Pop(f) ==
    /\ reader = "pop" /\ Complete(f)
    /\ IF Begins(f)
       THEN /\ got' = Append(got, f) /\ start' = Taken(f) /\ UNCHANGED base
            /\ reader' = "pop" \/ (side = "hub" /\ reader' = "closed")
       ELSE Rejects(read) /\ UNCHANGED got
    /\ UNCHANGED <<side, ends, read>>

\* pop_message finds none: the rest waits, though the rest of a frame that was
\* cut at its front may decode as some other value.
PopNone ==
    /\ reader = "pop" /\ ~\E f \in Sent : Complete(f)
    /\ \/ reader' = "read" /\ start' = Stripped /\ UNCHANGED base
       \/ Stripped < read /\ ~(\E f \in Sent : Begins(f)) /\ Rejects(read)
    /\ UNCHANGED <<side, ends, read, got>>

FramesNext == PopNone \/ (\E n \in 1 .. MaxChunk : Read(n)) \/ (\E f \in Sent : Pop(f))

FramesSpec == FramesInit /\ [][FramesNext]_frameVars

-----------------------------------------------------------------------------
FramesTypeOK ==
    /\ reader \in {"read", "pop", "closed"} /\ side \in {"hub", "client"}
    /\ start <= read /\ read <= ends[Last] /\ base <= start
    /\ got \in Seq(Sent)

RoomForReads == \A f \in Sent : ends[f] - ends[f - 1] + MaxChunk <= MaxBuffer + 2
Handed == {got[i] : i \in 1 .. Len(got)}

\* FramesInStep: frames are handed over in the order they were sent and none
\* twice.  "One message per line, so that TCP neither merges nor halves them"
\* (protocol.py:219): no read meets an error if every frame leaves room for a read
\* (less its last brace and its delimiter); and after an error that fell on the
\* end of a frame the Hub is in step again, and has handed over all that came since.
FramesInStep ==
    /\ \A i, j \in 1 .. Len(got) : i < j => got[i] < got[j]
    /\ RoomForReads => base = 0
    /\ reader = "read" /\ (\E f \in 0 .. Last : base \in {ends[f], ends[f] - 1}) =>
           \A f \in Sent : base <= ends[f - 1] /\ ends[f] <= read + 1 => f \in Handed

\* The line of bytes is a channel of frames (module FrameChannel): the readers
\* of both ends hand over each frame once and in its order, the first ones
\* without a gap, and a gap can only come from a frame without room for a read.
Channel == INSTANCE FrameChannel WITH lossy <- ~RoomForReads, inStep <- base = 0, arrived <- got
ChannelSpec == Channel!Spec
=============================================================================
