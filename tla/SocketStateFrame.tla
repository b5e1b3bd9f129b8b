-------------------------- MODULE SocketStateFrame --------------------------
(***************************************************************************)
(* The frames of the state protocol (ESPressio_SocketStateFrame.hpp): one  *)
(* peer builds frames and writes them to a byte stream, the other reads    *)
(* the stream in pieces of its own choosing and pushes them into a         *)
(* SocketStateFrameDecoder, whose callback may push more.                  *)
(*                                                                         *)
(* Bytes are positions of the stream, so the decoder's buffer is the       *)
(* interval (consumed, received] and a frame is where it starts and how    *)
(* long its payload is.                                                    *)
(***************************************************************************)
EXTENDS Integers, Sequences

CONSTANTS HeaderSize,           \* sizeof(SocketStateFrameHeader)
          MaximumPayloadBytes,  \* the decoder's bound
          SentMaximum,          \* the bound the sending peer builds frames with
          ReadSize,             \* the adapter's read buffer
          MaxFrames,            \* frames sent on a connection (model bound)
          MaxDepth              \* how deep a callback may nest Push

ASSUME FrameAssumption == /\ HeaderSize \in Nat \ {0}
                          /\ MaximumPayloadBytes \in Nat \ {0}
                          /\ SentMaximum \in Nat \ {0}
                          /\ ReadSize \in Nat \ {0}
                          /\ MaxFrames \in Nat
                          /\ MaxDepth \in Nat \ {0}

VARIABLES
  sent,        \* the frames built on this connection, in stream order
  sentBytes,   \* length of the stream written
  received,    \* position up to which the stream was pushed
  consumed,    \* position of the front of _buffer
  delivered,   \* the frames the callback was given
  depth,       \* Push calls in progress, each but the innermost in its callback
  inCallback,  \* is the innermost one in its callback too?
  rejected     \* has a Push returned false on this connection?

vars == <<sent, sentBytes, received, consumed, delivered, depth, inCallback, rejected>>

Frame == [start : Nat, length : 1..SentMaximum]

Size(f) == HeaderSize + f.length

Buffered == received - consumed

TypeOK ==
  /\ sent \in Seq(Frame) /\ delivered \in Seq(Frame)
  /\ sentBytes \in Nat /\ received \in Nat /\ consumed \in Nat
  /\ depth \in 0..MaxDepth
  /\ inCallback \in BOOLEAN /\ rejected \in BOOLEAN

Init ==
  /\ sent = <<>> /\ delivered = <<>>
  /\ sentBytes = 0 /\ received = 0 /\ consumed = 0
  /\ depth = 0 /\ inCallback = FALSE /\ rejected = FALSE

\* BuildSocketStateFrame and the write of the whole frame.
Build(n) ==
  /\ Len(sent) < MaxFrames
  /\ sent' = Append(sent, [start |-> sentBytes, length |-> n])
  /\ sentBytes' = sentBytes + HeaderSize + n
  /\ UNCHANGED <<received, consumed, delivered, depth, inCallback, rejected>>

-----------------------------------------------------------------------------
\* The bound is on the buffer, not on a frame in it.
Overflows(n) == Buffered + n > MaximumPayloadBytes + HeaderSize

\* The adapter, or a callback of the decoder, reads n bytes and pushes them.
CanPush(n) ==
  /\ ~rejected
  /\ depth = 0 \/ (inCallback /\ depth < MaxDepth)
  /\ received + n =< sentBytes

\* Mutation: the bytes are buffered without a look at the bound.
PushUnbounded(n) ==
  /\ CanPush(n)
  /\ received' = received + n
  /\ depth' = depth + 1 /\ inCallback' = FALSE
  /\ UNCHANGED <<sent, sentBytes, consumed, delivered, rejected>>

Push(n) ==
  /\ CanPush(n) /\ ~Overflows(n)
  /\ received' = received + n
  /\ depth' = depth + 1 /\ inCallback' = FALSE
  /\ UNCHANGED <<sent, sentBytes, consumed, delivered, rejected>>

\* Mutation: a Push refused at once leaves the loop it never entered.
PushRejectedAsReturn(n) ==
  /\ CanPush(n) /\ Overflows(n)
  /\ received' = received + n /\ consumed' = received + n
  /\ rejected' = TRUE
  /\ depth' = depth - 1
  /\ UNCHANGED <<sent, sentBytes, delivered, inCallback>>

\* The buffer and the new bytes are dropped and Push returns false.
PushRejected(n) ==
  /\ CanPush(n) /\ Overflows(n)
  /\ received' = received + n /\ consumed' = received + n
  /\ rejected' = TRUE
  /\ UNCHANGED <<sent, sentBytes, delivered, depth, inCallback>>

-----------------------------------------------------------------------------
(* The loop of the innermost Push, while it is not in its callback.        *)

Looping == depth > 0 /\ ~inCallback

\* Leaving a Push returns to the callback of the enclosing one.
Leave == depth' = depth - 1 /\ inCallback' = (depth > 1)

HeaderComplete == Buffered >= HeaderSize

\* The buffer starts with a header this decoder accepts, that of frame f.
Header(f) == f.start = consumed /\ f.length =< MaximumPayloadBytes

SentFrames == {sent[i] : i \in DOMAIN sent}

\* Mutation: a frame needs a byte beyond its end.
CompleteWithOneMore(f) == Header(f) /\ Buffered > Size(f)

Complete(f) == Header(f) /\ Buffered >= Size(f)

BadHeader ==
  /\ Looping /\ HeaderComplete
  /\ ~\E f \in SentFrames : Header(f)
  /\ consumed' = received
  /\ rejected' = TRUE
  /\ Leave
  /\ UNCHANGED <<sent, sentBytes, received, delivered>>

\* Mutation: the callback runs while the frame is still in the buffer.
DeliverWithoutConsuming(f) ==
  /\ Looping /\ Complete(f)
  /\ delivered' = Append(delivered, f)
  /\ inCallback' = TRUE
  /\ UNCHANGED <<sent, sentBytes, received, consumed, depth, rejected>>

\* Mutation: the payload leaves the buffer, the header stays.
DeliverPayloadOnly(f) ==
  /\ Looping /\ Complete(f)
  /\ consumed' = consumed + f.length
  /\ delivered' = Append(delivered, f)
  /\ inCallback' = TRUE
  /\ UNCHANGED <<sent, sentBytes, received, depth, rejected>>

\* The frame leaves the buffer, then the callback runs.
Deliver(f) ==
  /\ Looping /\ Complete(f)
  /\ consumed' = consumed + Size(f)
  /\ delivered' = Append(delivered, f)
  /\ inCallback' = TRUE
  /\ UNCHANGED <<sent, sentBytes, received, depth, rejected>>

EndCallback ==
  /\ inCallback
  /\ inCallback' = FALSE
  /\ UNCHANGED <<sent, sentBytes, received, consumed, delivered, depth, rejected>>

\* Mutation: Push handles one frame and returns.
FinishPushAtOnce ==
  /\ Looping /\ Leave
  /\ UNCHANGED <<sent, sentBytes, received, consumed, delivered, rejected>>

\* Less than a header, or than a frame, is left.
FinishPush ==
  /\ Looping
  /\ \/ ~HeaderComplete
     \/ \E f \in SentFrames : Header(f) /\ ~Complete(f)
  /\ Leave
  /\ UNCHANGED <<sent, sentBytes, received, consumed, delivered, rejected>>

-----------------------------------------------------------------------------
\* The connection is replaced: Initialize of the session resets the decoder.
Reset ==
  /\ depth = 0
  /\ sent' = <<>> /\ delivered' = <<>>
  /\ sentBytes' = 0 /\ received' = 0 /\ consumed' = 0
  /\ depth' = 0 /\ inCallback' = FALSE /\ rejected' = FALSE

Read == \E n \in 1..ReadSize : Push(n) \/ PushRejected(n)

Decode == BadHeader \/ (\E f \in SentFrames : Deliver(f)) \/ EndCallback \/ FinishPush

Next == (\E n \in 1..SentMaximum : Build(n)) \/ Read \/ Decode \/ Reset

Spec == Init /\ [][Next]_vars

\* The worker keeps reading what has arrived, and callbacks return.
Fairness == WF_vars(Read /\ depth = 0) /\ WF_vars(Decode)

FairSpec == Spec /\ Fairness

-----------------------------------------------------------------------------
(* The callback is given the frames the peer built, each once and in       *)
(* order, however the stream is cut into reads and however callbacks nest. *)
InOrder == /\ Len(delivered) =< Len(sent)
           /\ delivered = SubSeq(sent, 1, Len(delivered))

(* The decoder never holds more than the largest frame it accepts.         *)
BoundedBuffer == Buffered >= 0 /\ Buffered =< MaximumPayloadBytes + HeaderSize

(* When Push has returned true no frame that arrived whole is held back.   *)
NoneHeldBack ==
  (depth = 0 /\ ~rejected) =>
    \A i \in DOMAIN sent : sent[i].start + Size(sent[i]) =< received => i =< Len(delivered)

(* Only a frame beyond the configured bound is rejected: "framing supports *)
(* fragmented stream delivery and rejects messages exceeding configured    *)
(* bounds" (README.md, State integration).                                 *)
LegalStreamAccepted ==
  rejected => \E f \in SentFrames : f.length > MaximumPayloadBytes

(* A stream is rejected only for a frame beyond the bound, or one so close *)
(* to it that a read which completes it may bring too much of the next:    *)
(* with D pushes nested, reads of R bytes and a bound of M, frames of up   *)
(* to M + 1 - D * R bytes are always accepted.                             *)
RoomyStreamAccepted ==
  rejected => \E f \in SentFrames : f.length + MaxDepth * ReadSize > MaximumPayloadBytes + 1

(* A frame written to a connection that stays is delivered or rejected.    *)
FramesAnswered ==
  \A k \in 1..MaxFrames :
    Len(sent) >= k ~> (Len(delivered) >= k \/ rejected \/ sent = <<>>)
=============================================================================
