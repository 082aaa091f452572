---------------------------- MODULE TunnelStream ----------------------------
(***************************************************************************)
(* What the control socket of a tunnel promises, whatever the network does *)
(* to the boundaries of its bytes: the lines up to and including OPEN are  *)
(* handled one by one in order, and the bytes after OPEN reach the local   *)
(* service in order, each once, none of them read as a line.               *)
(*                                                                         *)
(* A stream is a sequence of symbols, of which "nl" ends a line; "open"    *)
(* and "bad" stand for an OPEN line with a usable and an unusable port.    *)
(***************************************************************************)
EXTENDS Integers, Sequences, FiniteSetsExt

CONSTANT Streams   \* what the server may send on one socket

ASSUME StreamAssumption == Streams \subseteq Seq(STRING)

VARIABLES
  stream,     \* what it does send
  frames,     \* the lines handled so far
  delivered   \* the bytes the local service was given so far

Opening == {"open", "bad"}

LineEnds(s) == {i \in DOMAIN s : s[i] = "nl"}
LineUpTo(s, i) == SubSeq(s, Max({0} \cup {j \in LineEnds(s) : j < i}) + 1, i - 1)

IsOpen(line)     == line # <<>> /\ Head(line) \in Opening
PortUsable(line) == line # <<>> /\ Head(line) = "open"

OpenEnds(s) == {i \in LineEnds(s) : IsOpen(LineUpTo(s, i))}

(* The ends of the control lines: none comes after an OPEN line.           *)
ControlEnds(s) == {i \in LineEnds(s) : \A j \in OpenEnds(s) : i <= j}
Rank(S, i)     == Cardinality({j \in S : j <= i})

(* The control lines of a stream, and the payload after them.              *)
Lines(s) ==
  LET ends == ControlEnds(s)
  IN  [k \in 1 .. Cardinality(ends) |-> LineUpTo(s, CHOOSE i \in ends : Rank(ends, i) = k)]

Payload(s) ==
  IF OpenEnds(s) = {} \/ ~PortUsable(LineUpTo(s, Min(OpenEnds(s)))) THEN <<>>
  ELSE SubSeq(s, Min(OpenEnds(s)) + 1, Len(s))

Init == stream \in Streams /\ frames = <<>> /\ delivered = <<>>

HandleLines ==
  /\ \E n \in Len(frames) + 1 .. Len(Lines(stream)) :
       frames' = SubSeq(Lines(stream), 1, n)
  /\ UNCHANGED <<stream, delivered>>

Deliver ==
  /\ frames = Lines(stream)
  /\ \E n \in Len(delivered) + 1 .. Len(Payload(stream)) :
       delivered' = SubSeq(Payload(stream), 1, n)
  /\ UNCHANGED <<stream, frames>>

Next == HandleLines \/ Deliver

Spec == Init /\ [][Next]_<<stream, frames, delivered>>
=============================================================================
