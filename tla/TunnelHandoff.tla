---------------------------- MODULE TunnelHandoff ----------------------------
(***************************************************************************)
(* One pre-connected socket from its control lines to the local service:   *)
(* attachLineReader(), the OPEN branch of its handler and                  *)
(* pipeToLocalService() of src/src/tunnel/reverse-tunnel.service.ts.       *)
(*                                                                         *)
(* The bytes of the stream arrive in chunks of any size.  After OPEN the   *)
(* reader is detached and the socket paused until the local connection is  *)
(* made, which may fail, or lose the race with the tunnel's own end.       *)
(***************************************************************************)
EXTENDS TunnelStream

VARIABLES
  wire,     \* symbols of the stream that have not been read
  buffer,   \* connection.buffer
  detached, \* detachReader() has been called
  tunnel,   \* "flowing", "paused", "ended" or "closed"
  local     \* "none", "connecting", "piped", "ending" or "closed"

vars == <<stream, frames, delivered, wire, buffer, detached, tunnel, local>>

HInit ==
  /\ Init
  /\ wire = stream /\ buffer = <<>> /\ detached = FALSE
  /\ tunnel = "flowing" /\ local = "none"

-----------------------------------------------------------------------------
(* The loop of onData over what the buffer holds.                          *)
Reader == [buffer : Seq(STRING), frames : Seq(Seq(STRING)), detached : BOOLEAN]

(* Cut one line off the buffer and handle it; OPEN detaches the reader.    *)
NextLine(r) ==
  LET index == Min(LineEnds(r.buffer))
      line  == SubSeq(r.buffer, 1, index - 1)
  IN  [buffer   |-> SubSeq(r.buffer, index + 1, Len(r.buffer)),
       frames   |-> Append(r.frames, line),
       detached |-> r.detached \/ IsOpen(line)]

(* Mutant of ReadLines: the loop does not look at detached.                *)
ReadPastOpen(r) ==
  LET loop[q \in Reader] ==
        IF LineEnds(q.buffer) = {} THEN q ELSE loop[NextLine(q)]
  IN  loop[r]

Loop[q \in Reader] ==
  IF q.detached \/ LineEnds(q.buffer) = {} THEN q ELSE Loop[NextLine(q)]

ReadLines(r) == Loop[r]

Take(n) == SubSeq(wire, 1, n)
Drop(n) == SubSeq(wire, n + 1, Len(wire))

(* 'data' while the line reader is attached: handle every whole line, and  *)
(* at OPEN leave the rest in the buffer, pause, and connect to the port,   *)
(* or destroy the socket if the port is none.                              *)
ReadChunk(n) ==
  LET r == ReadLines([buffer |-> buffer \o Take(n), frames |-> frames,
                      detached |-> FALSE])
      opened == r.detached /\ PortUsable(r.frames[Len(r.frames)])
  IN  /\ tunnel = "flowing" /\ ~detached
      /\ wire' = Drop(n)
      /\ buffer' = r.buffer /\ frames' = r.frames /\ detached' = r.detached
      /\ tunnel' = IF ~r.detached THEN "flowing"
                   ELSE IF opened THEN "paused" ELSE "closed"
      /\ local' = IF opened THEN "connecting" ELSE local
      /\ UNCHANGED <<stream, delivered>>

(* Mutant of LocalConnects: leaves the tunnel paused.                      *)
ConnectsPaused ==
  /\ local = "connecting"
  /\ local' = "piped"
  /\ delivered' = delivered \o buffer
  /\ UNCHANGED <<stream, frames, wire, buffer, detached, tunnel>>

(* 'connect' of the local socket: the bytes behind OPEN first, then pipe.  *)
LocalConnects ==
  /\ local = "connecting"
  /\ local' = "piped"
  /\ delivered' = delivered \o buffer
  /\ tunnel' = "flowing"
  /\ UNCHANGED <<stream, frames, wire, buffer, detached>>

(* 'connect' of a local socket already ended because the tunnel closed:    *)
(* the write after end() reaches nobody.                                   *)
LocalConnectsTooLate ==
  /\ local = "ending"
  /\ local' = "closed"
  /\ UNCHANGED <<stream, frames, delivered, wire, buffer, detached, tunnel>>

PipeChunk(n) ==
  /\ local = "piped" /\ tunnel = "flowing"
  /\ wire' = Drop(n)
  /\ delivered' = delivered \o Take(n)
  /\ UNCHANGED <<stream, frames, buffer, detached, tunnel, local>>

(* Mutant of LocalCloses: the tunnel is left half open.                    *)
LocalHalfCloses ==
  /\ local \in {"connecting", "piped"}
  /\ local' = "closed"
  /\ tunnel' = IF tunnel = "closed" THEN "closed" ELSE "half open"
  /\ UNCHANGED <<stream, frames, delivered, wire, buffer, detached>>

(* 'close' of the local socket, never connected or done: end the tunnel.   *)
LocalCloses ==
  /\ local \in {"connecting", "piped"}
  /\ local' = "closed"
  /\ tunnel' = IF tunnel = "closed" THEN "closed" ELSE "ended"
  /\ UNCHANGED <<stream, frames, delivered, wire, buffer, detached>>

(* 'close' of the tunnel: end the local socket, which may be connecting.   *)
TunnelCloses ==
  /\ tunnel # "closed"
  /\ tunnel' = "closed"
  /\ local' = CASE local = "connecting" -> "ending"
                [] local = "piped"      -> "closed"
                [] OTHER                -> local
  /\ UNCHANGED <<stream, frames, delivered, wire, buffer, detached>>

HNext ==
  \/ \E n \in 1 .. Len(wire) : ReadChunk(n) \/ PipeChunk(n)
  \/ LocalConnects \/ LocalConnectsTooLate \/ LocalCloses \/ TunnelCloses

HSpec == HInit /\ [][HNext]_vars

(* Bytes that have arrived are read, and the local service answers.        *)
HFairSpec ==
  /\ HSpec
  /\ WF_vars(\E n \in 1 .. Len(wire) : ReadChunk(n) \/ PipeChunk(n))
  /\ WF_vars(LocalConnects)

-----------------------------------------------------------------------------
(* Every variable has the type the source gives it.                        *)
TypeOK ==
  /\ stream \in Streams
  /\ wire \in Seq(STRING) /\ buffer \in Seq(STRING) /\ delivered \in Seq(STRING)
  /\ frames \in Seq(Seq(STRING)) /\ detached \in BOOLEAN
  /\ tunnel \in {"flowing", "paused", "ended", "closed"}
  /\ local \in {"none", "connecting", "piped", "ending", "closed"}

(* However the stream is cut into chunks, the handler sees its control     *)
(* lines and the local service its payload, in order, complete and without *)
(* repetition: the socket implements TunnelStream.                         *)
Promise == INSTANCE TunnelStream WITH
  stream <- stream, frames <- frames, delivered <- delivered

KeepsStream == Promise!Spec

(* A tunnel that neither side closes hands over every control line and the *)
(* whole payload.                                                          *)
AllDelivered ==
  <>(\/ tunnel \in {"ended", "closed"}
     \/ frames = Lines(stream) /\ delivered = Payload(stream))
=============================================================================
