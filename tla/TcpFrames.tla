------------------------------- MODULE TcpFrames -------------------------------
(***************************************************************************)
(* How a DNS TCP connection is read frame by frame: TokioTcpConnection of  *)
(* runtime/system_socket.rs and read_frame of transport/tcp.rs.  The bytes *)
(* of the connection are counted; the client may send them in any pieces   *)
(* and close at any of them.                                               *)
(***************************************************************************)
EXTENDS Integers, Sequences, FiniteSets, FiniteSetsExt, SequencesExt

CONSTANTS
    Frames,       \* lengths of the DNS frames a client sends
    PrefixBytes,  \* TCP_FRAME_PREFIX_BYTES
    MaxFrames,    \* bound: frames of a connection
    MaxGiveUps    \* bound: cancellations and deadlines

VARIABLES
    stream,   \* the connection
    giveUps   \* reads given up

frameVars == <<stream, giveUps>>

NoStream == [handle |-> "none", frames |-> <<>>, arrived |-> 0, pos |-> 0, eof |-> FALSE,
             stage |-> "closed", want |-> 0, got |-> 0, length |-> 0, delivered |-> <<>>]

FramesInit == stream = NoStream /\ giveUps = 0

(* First byte of frame n, counted from 0 *)
Offset(frames, n) == FoldLeftDomain(LAMBDA sum, i : IF i < n THEN sum + PrefixBytes + frames[i] ELSE sum, 0, frames)

Total(frames) == Offset(frames, Len(frames) + 1)

(* accept: the connection is read from its first byte *)
AcceptStream ==
    /\ stream.stage = "closed"
    /\ \E n \in 1..MaxFrames : \E frames \in [1..n -> Frames] :
        stream' = [NoStream EXCEPT !.handle = "plain", !.frames = frames, !.stage = "prefix",
                                   !.want = PrefixBytes]
    /\ UNCHANGED giveUps

(* Bytes arrive; the client may close in the middle of a frame *)
Arrive(n) ==
    /\ stream.stage \in {"prefix", "body"} /\ ~stream.eof
    /\ stream.arrived + n <= Total(stream.frames)
    /\ stream' = [stream EXCEPT !.arrived = @ + n]
    /\ UNCHANGED giveUps

CloseStream ==
    /\ stream.stage \in {"prefix", "body"} /\ ~stream.eof
    /\ stream' = [stream EXCEPT !.eof = TRUE]
    /\ UNCHANGED giveUps

(* start_tls takes the stream; it comes back only from a completed handshake *)
StartTls ==
    /\ stream.stage = "prefix" /\ stream.handle = "plain" /\ stream.pos = 0 /\ stream.got = 0
    /\ \E ok \in BOOLEAN :
        stream' = [stream EXCEPT !.handle = IF ok THEN "tls" ELSE "none",
                                 !.stage = IF ok THEN @ ELSE "ended"]
    /\ UNCHANGED giveUps

(* One read of the loop of read_exact *)
ReadBytes(n) ==
    /\ stream.stage \in {"prefix", "body"} /\ stream.got < stream.want
    /\ n <= stream.want - stream.got /\ n <= stream.arrived - stream.pos
    /\ stream' = [stream EXCEPT !.got = @ + n, !.pos = @ + n]
    /\ UNCHANGED giveUps

(* An end of the stream is clean only before the first byte *)
EofStage(got) == IF got = 0 THEN "clean" ELSE "ended"

ReadEof ==
    /\ stream.stage \in {"prefix", "body"} /\ stream.eof
    /\ stream.got < stream.want /\ stream.pos = stream.arrived
    /\ stream' = [stream EXCEPT !.stage = IF @ = "body" THEN "ended" ELSE EofStage(stream.got)]
    /\ UNCHANGED giveUps

(* await_io gives up: what was read of the frame is lost, the session ends *)
ReadGivenUp ==
    /\ stream.stage \in {"prefix", "body"} /\ giveUps < MaxGiveUps
    /\ giveUps' = giveUps + 1
    /\ stream' = [stream EXCEPT !.stage = "ended"]

(* The frame whose prefix ends at the position of the reader *)
FrameAt == {n \in DOMAIN stream.frames : Offset(stream.frames, n) + PrefixBytes = stream.pos}

(* decode_frame_length: an empty frame is an error, a stray prefix is any length *)
DecodePrefix ==
    /\ stream.stage = "prefix" /\ stream.got = stream.want
    /\ \E length \in IF FrameAt = {} THEN Frames ELSE {stream.frames[Min(FrameAt)]} :
        stream' = IF length = 0 THEN [stream EXCEPT !.stage = "ended"]
                  ELSE [stream EXCEPT !.stage = "body", !.got = 0, !.want = length, !.length = length]
    /\ UNCHANGED giveUps

(* The payload is complete; the session reads the next prefix *)
DeliverFrame ==
    /\ stream.stage = "body" /\ stream.got = stream.want
    /\ stream' = [stream EXCEPT !.stage = "prefix", !.got = 0, !.want = PrefixBytes,
                                !.delivered = Append(@, stream.length)]
    /\ UNCHANGED giveUps

-----------------------------------------------------------------------------
FramesNext ==
    \/ AcceptStream \/ CloseStream \/ StartTls
    \/ \E n \in 1..2 : Arrive(n) \/ ReadBytes(n)
    \/ ReadEof \/ ReadGivenUp
    \/ DecodePrefix \/ DeliverFrame

FramesSpec == FramesInit /\ [][FramesNext]_frameVars

-----------------------------------------------------------------------------
(* Properties *)

(* Types of the connection. *)
FramesTypeOK ==
    /\ stream.stage \in {"closed", "prefix", "body", "clean", "ended"}
    /\ stream.got \in 0..stream.want
    /\ giveUps \in 0..MaxGiveUps

(* Frames are delivered whole, in order and none twice, and a connection   *)
(* ends cleanly only between two frames: after any partial read, deadline  *)
(* or early close the reader is at the start of a frame or has ended       *)
(* (read_exact, read_frame).                                               *)
FramesAreWhole ==
    /\ stream.delivered = SubSeq(stream.frames, 1, Len(stream.delivered))
    /\ stream.stage = "prefix" => stream.pos - stream.got = Offset(stream.frames, Len(stream.delivered) + 1)
    /\ stream.stage = "clean" => stream.pos = Offset(stream.frames, Len(stream.delivered) + 1)
====
