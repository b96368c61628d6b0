------------------------------ MODULE SyslogFraming ------------------------------
(***************************************************************************)
(* RFC 6587 framing of the TCP and TLS syslog listeners (src/ulpf/ingest/  *)
(* syslog_tcp.py): read_frames gets a stream of bytes in chunks of any     *)
(* size and frames what it holds after each.                               *)
(***************************************************************************)
EXTENDS Integers, Sequences, FiniteSets, SequencesExt

CONSTANTS Streams,       \* the byte streams a client may send
          MaxFrame       \* max_frame_bytes

VARIABLES stream,  \* the whole stream of this connection
          fed,     \* bytes of it received
          buf,     \* read_frames' buffer
          frames,  \* what read_frames has yielded
          conn     \* "open", "error" (IngestError closed it), "eof"
framingVars == <<stream, fed, buf, frames, conn>>

SP == 32
LF == 10
CR == 13
Digit(b) == b \in 48..57
\* Number of leading digits.
DigitRun(s) == LET other == {i \in DOMAIN s : ~Digit(s[i])}
               IN IF other = {} THEN Len(s) ELSE Min(other) - 1
IntOf(digits) == FoldLeft(LAMBDA n, d : 10 * n + (d - 48), 0, digits)

Wait == [kind |-> "wait"]
TooLong == [kind |-> "error"]
Frame(body, rest) == [kind |-> "frame", body |-> body, rest |-> rest]

\* _read_octet_body, for a buffer whose first n bytes are digits followed by a space.
OctetBody(s, n) ==
  LET length == IntOf(SubSeq(s, 1, n))
  IN IF length > MaxFrame THEN TooLong
     ELSE IF Len(s) - (n + 1) < length THEN Wait
     ELSE Frame(SubSeq(s, n + 2, n + 1 + length), SubSeq(s, n + 2 + length, Len(s)))

TrimCR(s) == IF s # <<>> /\ s[Len(s)] = CR THEN Front(s) ELSE s

\* _try_newline
NewlineBody(s) ==
  LET lfs == {i \in DOMAIN s : s[i] = LF}
  IN IF lfs = {} THEN Wait
     ELSE Frame(TrimCR(SubSeq(s, 1, Min(lfs) - 1)), SubSeq(s, Min(lfs) + 1, Len(s)))

\* Mutant: digits at the end of the buffer are taken for message content.
NextFrameHasty(s) ==
  LET n == DigitRun(s)
  IN IF s = <<>> THEN Wait
     ELSE IF n > 0 /\ n < Len(s) /\ s[n + 1] = SP THEN OctetBody(s, n)
     ELSE IF n = Len(s) THEN Frame(s, <<>>) ELSE NewlineBody(s)

\* _next_frame
NextFrame(s) ==
  LET n == DigitRun(s)
  IN IF s = <<>> \/ n = Len(s) THEN Wait
     ELSE IF n > 0 /\ s[n + 1] = SP THEN OctetBody(s, n)
     ELSE NewlineBody(s)

\* rstrip(b"\r\n")
RStrip(s) == LET kept == {i \in DOMAIN s : s[i] \notin {CR, LF}}
             IN IF kept = {} THEN <<>> ELSE SubSeq(s, 1, Max(kept))

\* _final_frame: what is salvaged at the end of the stream.
FinalFrame(s) ==
  LET n == DigitRun(s)
  IN IF s = <<>> \/ (n > 0 /\ (n = Len(s) \/ s[n + 1] = SP)) THEN <<>> ELSE RStrip(s)

\* The loop of read_frames over what the buffer holds: empty frames are skipped.
Yield(out, body) == IF body = <<>> THEN out ELSE Append(out, body)
RECURSIVE Drain(_, _)
Drain(s, out) ==
  LET next == NextFrame(s)
  IN CASE next.kind = "wait"  -> [buf |-> s, out |-> out, conn |-> "open"]
       [] next.kind = "error" -> [buf |-> s, out |-> out, conn |-> "error"]
       [] next.kind = "frame" -> Drain(next.rest, Yield(out, next.body))

FramingInit == stream \in Streams /\ fed = 0 /\ buf = <<>> /\ frames = <<>> /\ conn = "open"

\* reader.read returns the next bytes, any number of them.
Receive(n) ==
  /\ conn = "open" /\ fed + n <= Len(stream) /\ fed' = fed + n
  /\ LET after == Drain(buf \o SubSeq(stream, fed + 1, fed + n), frames)
     IN buf' = after.buf /\ frames' = after.out /\ conn' = after.conn
  /\ UNCHANGED stream

\* The client has closed: the tail, if any, is one more frame.
EndOfStream ==
  /\ conn = "open" /\ fed = Len(stream) /\ conn' = "eof"
  /\ frames' = Yield(frames, FinalFrame(buf)) /\ buf' = <<>>
  /\ UNCHANGED <<stream, fed>>

FramingNext == EndOfStream \/ \E n \in 1..Len(stream) : Receive(n)
-----------------------------------------------------------------------------
\* The reference, over the whole stream at once and from the RFC's grammar: a message is
\* MSGLEN SP and MSGLEN octets, or anything else up to a line feed.
Octets(s) == {n \in 1..Len(s) - 1 : (\A i \in 1..n : Digit(s[i])) /\ s[n + 1] = SP}
LineFeeds(s) == {i \in DOMAIN s : s[i] = LF}
RECURSIVE Messages(_)
Messages(s) ==
  IF s = <<>> THEN [out |-> <<>>, ok |-> TRUE]
  ELSE IF Octets(s) # {}
  THEN LET n == CHOOSE k \in Octets(s) : TRUE
           len == IntOf(SubSeq(s, 1, n))
           after == Messages(SubSeq(s, n + 2 + len, Len(s)))
       IN IF len > MaxFrame THEN [out |-> <<>>, ok |-> FALSE]
          ELSE IF n + 1 + len > Len(s) THEN [out |-> <<>>, ok |-> TRUE]
          ELSE [after EXCEPT !.out = Yield(<<>>, SubSeq(s, n + 2, n + 1 + len)) \o @]
  ELSE IF LineFeeds(s) # {}
  THEN LET i == Min(LineFeeds(s))
           after == Messages(SubSeq(s, i + 1, Len(s)))
       IN [after EXCEPT !.out = Yield(<<>>, TrimCR(SubSeq(s, 1, i - 1))) \o @]
  ELSE [out |-> IF \A i \in DOMAIN s : Digit(s[i]) THEN <<>> ELSE Yield(<<>>, RStrip(s)), ok |-> TRUE]

\* However the stream is cut into reads, and in either framing or both mixed, the
\* listener yields exactly the messages of the stream, in order, and never one early.
FramesIndependentOfChunks ==
  /\ IsPrefix(frames, Messages(stream).out)
  /\ conn = "eof" => frames = Messages(stream).out /\ Messages(stream).ok
  /\ conn = "error" => frames = Messages(stream).out /\ ~Messages(stream).ok
=============================================================================
