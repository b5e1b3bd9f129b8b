----------------------- MODULE SocketStateFrame_proofs -----------------------
(***************************************************************************)
(* Proofs about SocketStateFrame, for any bounds of the decoder, size of   *)
(* reads and depth of nesting, and any number of frames.                   *)
(***************************************************************************)
EXTENDS SocketStateFrame, SequenceTheorems, TLAPS

End(f) == f.start + Size(f)

\* Frames follow each other in the stream without a gap.
Stream ==
  /\ \A i, j \in 1..Len(sent) : i < j => End(sent[i]) =< sent[j].start
  /\ \A i \in 1..Len(sent) : End(sent[i]) =< sentBytes
  /\ \A i \in 1..(Len(sent) - 1) : sent[i + 1].start = End(sent[i])
  /\ Len(sent) > 0 => sent[1].start = 0 /\ sentBytes = End(sent[Len(sent)])
  /\ Len(sent) = 0 => sentBytes = 0

\* What was delivered is the beginning of what was sent, and the buffer begins
\* where it ends.
Decoder ==
  /\ consumed =< received /\ received =< sentBytes
  /\ Len(delivered) =< Len(sent)
  /\ \A i \in 1..Len(delivered) : delivered[i] = sent[i]
  /\ ~rejected => consumed = IF Len(delivered) < Len(sent)
                             THEN sent[Len(delivered) + 1].start ELSE sentBytes
  /\ rejected => consumed = received
  /\ depth = 0 => ~inCallback

\* Every Push that is not in its callback leaves less than a frame behind.
Exhausted ==
  (depth = 0 /\ ~rejected /\ Len(delivered) < Len(sent)) =>
     received < End(sent[Len(delivered) + 1])

IInv == TypeOK /\ Stream /\ Decoder /\ Exhausted /\ BoundedBuffer

\* Every frame sent leaves room for as many reads as pushes may nest.
Roomy == \A i \in 1..Len(sent) : sent[i].length + MaxDepth * ReadSize =< MaximumPayloadBytes + 1

\* What reads at the levels of nesting still free may bring.
Reserve(k) == (MaxDepth - k) * ReadSize

\* A roomy stream is never rejected, as the reserve is kept free.
Slack == Buffered =< (HeaderSize + MaximumPayloadBytes) - Reserve(depth)

Room == Roomy => ~rejected /\ (Len(sent) > 0 => Slack)

-----------------------------------------------------------------------------
(* A Push uses a part of the reserve, which is never negative. *)
LEMMA ReserveFacts ==
  ASSUME NEW k \in 0..MaxDepth
  PROVE  /\ Reserve(k) \in Nat
         /\ Reserve(k) =< Reserve(0)
         /\ k < MaxDepth => Reserve(k) = Reserve(k + 1) + ReadSize
         /\ k > 0 => Reserve(k - 1) = Reserve(k) + ReadSize
<1>1. MaxDepth \in Nat /\ ReadSize \in Nat /\ k \in Nat /\ k =< MaxDepth
  BY FrameAssumption
<1>2. Reserve(k) \in Nat
  BY <1>1 DEF Reserve
<1>3. k * ReadSize \in Nat
  BY <1>1
<1>4. Reserve(0) = Reserve(k) + k * ReadSize
  BY <1>1 DEF Reserve
<1>5. k < MaxDepth => Reserve(k) = Reserve(k + 1) + ReadSize
  BY <1>1 DEF Reserve
<1>6. k > 0 => Reserve(k - 1) = Reserve(k) + ReadSize
  BY <1>1 DEF Reserve
<1>7. Reserve(0) \in Nat
  BY <1>2, <1>3, <1>4
<1> QED
  BY <1>2, <1>3, <1>4, <1>5, <1>6, <1>7

(* A frame built goes behind the others. *)
LEMMA BuildFacts ==
  ASSUME TypeOK, NEW n \in 1..SentMaximum, Build(n)
  PROVE  /\ sent' \in Seq(Frame)
         /\ Len(sent') = Len(sent) + 1
         /\ \A i \in 1..Len(sent) : sent'[i] = sent[i]
         /\ sent'[Len(sent) + 1] = [start |-> sentBytes, length |-> n]
<1>1. [start |-> sentBytes, length |-> n] \in Frame
  BY DEF TypeOK, Frame
<1> QED
  BY <1>1, AppendProperties DEF TypeOK, Build

(* A frame sent is one of the sequence. *)
LEMMA SentFrameFacts ==
  ASSUME TypeOK
  PROVE  /\ Len(sent) \in Nat
         /\ \A i \in 1..Len(sent) : sent[i] \in SentFrames /\ sent[i] \in Frame
         /\ \A f \in SentFrames : \E i \in 1..Len(sent) : f = sent[i]
BY DEF TypeOK, SentFrames

(* A header at the front of the buffer is that of the next frame. *)
LEMMA FrontIsNext ==
  ASSUME TypeOK, Stream, Decoder, ~rejected, NEW f \in SentFrames, Header(f)
  PROVE  /\ Len(delivered) < Len(sent)
         /\ f = sent[Len(delivered) + 1]
<1> DEFINE k == Len(delivered)
<1>1. PICK i \in 1..Len(sent) : f = sent[i]
  BY SentFrameFacts
<1>2. k \in Nat /\ Len(sent) \in Nat /\ k =< Len(sent)
  BY DEF TypeOK, Decoder
<1>3. f \in Frame /\ f.start = consumed /\ End(f) > f.start
  BY <1>1, SentFrameFacts, FrameAssumption DEF Header, Frame, End, Size
<1>4. End(f) =< sentBytes
  BY <1>1 DEF Stream
<1>5. sentBytes \in Nat /\ consumed \in Nat
  BY DEF TypeOK
<1>6. k < Len(sent)
  <2>1. CASE k = Len(sent)
    <3>1. consumed = sentBytes
      BY <2>1, <1>2 DEF Decoder
    <3>2. End(f) \in Nat
      BY <1>3, FrameAssumption DEF Frame, End, Size
    <3> QED
      BY <3>1, <3>2, <1>3, <1>4, <1>5
  <2> QED
    BY <1>2, <2>1
<1>7. k + 1 \in 1..Len(sent) /\ sent[k + 1].start = consumed
  BY <1>2, <1>6 DEF Decoder
<1>8. sent[k + 1] \in Frame /\ End(sent[k + 1]) > sent[k + 1].start /\ End(sent[k + 1]) \in Nat
  BY <1>7, SentFrameFacts, FrameAssumption DEF Frame, End, Size
<1>9. End(f) \in Nat
  BY <1>3, FrameAssumption DEF Frame, End, Size
<1>10. i = k + 1
  <2>1. CASE i < k + 1
    <3>1. End(sent[i]) =< sent[k + 1].start
      BY <2>1, <1>7 DEF Stream
    <3> QED
      BY <3>1, <1>1, <1>3, <1>5, <1>7, <1>9
  <2>2. CASE i > k + 1
    <3>1. End(sent[k + 1]) =< sent[i].start
      BY <2>2, <1>7 DEF Stream
    <3> QED
      BY <3>1, <1>1, <1>3, <1>5, <1>7, <1>8
  <2> QED
    BY <2>1, <2>2, <1>2, <1>7
<1> QED
  BY <1>1, <1>6, <1>10

-----------------------------------------------------------------------------
(* Every step keeps the types of the variables. *)
LEMMA TypingStep ==
  ASSUME TypeOK, [Next]_vars
  PROVE  TypeOK'
<1> USE FrameAssumption DEF TypeOK
<1>1. ASSUME NEW n \in 1..SentMaximum, Build(n) PROVE TypeOK'
  <2>1. sent' \in Seq(Frame)
    BY <1>1, BuildFacts
  <2> QED
    BY <1>1, <2>1 DEF Build
<1>2. ASSUME NEW n \in 1..ReadSize, Push(n) PROVE TypeOK'
  <2>1. received' \in Nat
    BY <1>2 DEF Push
  <2>2. depth' \in 0..MaxDepth
    BY <1>2 DEF Push, CanPush
  <2> QED
    BY <1>2, <2>1, <2>2 DEF Push
<1>3. ASSUME NEW n \in 1..ReadSize, PushRejected(n) PROVE TypeOK'
  BY <1>3 DEF PushRejected
<1>4. CASE BadHeader
  BY <1>4 DEF BadHeader, Looping, Leave
<1>5. ASSUME NEW f \in SentFrames, Deliver(f) PROVE TypeOK'
  <2>1. f \in Frame
    BY <1>5, SentFrameFacts
  <2>2. delivered' \in Seq(Frame)
    BY <1>5, <2>1 DEF Deliver
  <2>3. Size(f) \in Nat
    BY <2>1 DEF Frame, Size
  <2>4. consumed' \in Nat
    BY <1>5, <2>3 DEF Deliver
  <2> QED
    BY <1>5, <2>2, <2>4 DEF Deliver
<1>6. CASE EndCallback
  BY <1>6 DEF EndCallback
<1>7. CASE FinishPush
  BY <1>7 DEF FinishPush, Looping, Leave
<1>8. CASE Reset
  <2>1. <<>> \in Seq(Frame)
    BY EmptySeq
  <2> QED
    BY <1>8, <2>1 DEF Reset
<1>9. CASE UNCHANGED vars
  BY <1>9 DEF vars
<1> QED
  BY <1>1, <1>2, <1>3, <1>4, <1>5, <1>6, <1>7, <1>8, <1>9 DEF Next, Read, Decode

(* Where frames end, as a number. *)
LEMMA EndFacts ==
  ASSUME NEW f \in Frame
  PROVE  End(f) \in Nat /\ Size(f) \in Nat /\ End(f) > f.start /\ f.start \in Nat
         /\ f.length \in Nat \ {0} /\ Size(f) = HeaderSize + f.length
BY FrameAssumption DEF Frame, End, Size

(* Only Build and Reset change the stream. *)
LEMMA StreamStep ==
  ASSUME TypeOK, Stream, [Next]_vars
  PROVE  Stream'
<1>1. ASSUME NEW n \in 1..SentMaximum, Build(n) PROVE Stream'
  <2> DEFINE g == [start |-> sentBytes, length |-> n]
  <2>1. /\ Len(sent) \in Nat /\ Len(sent') = Len(sent) + 1
        /\ \A i \in 1..Len(sent) : sent'[i] = sent[i]
        /\ sent'[Len(sent) + 1] = g
    BY <1>1, BuildFacts DEF TypeOK
  <2>2. /\ g.start = sentBytes /\ End(g) = sentBytes + HeaderSize + n
        /\ sentBytes' = End(g) /\ sentBytes \in Nat /\ End(g) \in Nat
        /\ End(g) >= sentBytes
    BY <1>1, FrameAssumption DEF Build, End, Size, TypeOK
  <2> HIDE DEF g
  <2>3. \A i \in 1..Len(sent) : End(sent[i]) \in Nat /\ End(sent[i]) =< sentBytes
    BY SentFrameFacts, EndFacts DEF Stream
  <2>4. \A i, j \in 1..Len(sent') : i < j => End(sent'[i]) =< sent'[j].start
    <3> SUFFICES ASSUME NEW i \in 1..Len(sent'), NEW j \in 1..Len(sent'), i < j
                 PROVE  End(sent'[i]) =< sent'[j].start
      OBVIOUS
    <3>1. i \in 1..Len(sent) /\ sent'[i] = sent[i]
      BY <2>1
    <3>2. CASE j \in 1..Len(sent)
      BY <3>1, <3>2, <2>1 DEF Stream
    <3>3. CASE j = Len(sent) + 1
      BY <3>1, <3>3, <2>1, <2>2, <2>3
    <3> QED
      BY <3>2, <3>3, <2>1
  <2>5. \A i \in 1..Len(sent') : End(sent'[i]) =< sentBytes'
    <3> SUFFICES ASSUME NEW i \in 1..Len(sent') PROVE End(sent'[i]) =< sentBytes'
      OBVIOUS
    <3>1. CASE i \in 1..Len(sent)
      BY <3>1, <2>1, <2>2, <2>3
    <3>2. CASE i = Len(sent) + 1
      BY <3>2, <2>1, <2>2
    <3> QED
      BY <3>1, <3>2, <2>1
  <2>6. \A i \in 1..(Len(sent') - 1) : sent'[i + 1].start = End(sent'[i])
    <3> SUFFICES ASSUME NEW i \in 1..Len(sent) PROVE sent'[i + 1].start = End(sent'[i])
      BY <2>1
    <3>1. CASE i < Len(sent)
      <4>1. i + 1 \in 1..Len(sent) /\ i \in 1..(Len(sent) - 1)
        BY <3>1, <2>1
      <4> QED
        BY <4>1, <2>1 DEF Stream
    <3>2. CASE i = Len(sent)
      <4>1. sent'[i + 1] = g /\ sent'[i] = sent[Len(sent)] /\ Len(sent) > 0
        BY <3>2, <2>1
      <4>2. End(sent[Len(sent)]) = sentBytes
        BY <4>1 DEF Stream
      <4> QED
        BY <4>1, <4>2, <2>2
    <3> QED
      BY <3>1, <3>2, <2>1
  <2>7. sent'[1].start = 0 /\ sentBytes' = End(sent'[Len(sent')])
    <3>1. CASE Len(sent) = 0
      BY <3>1, <2>1, <2>2 DEF Stream
    <3>2. CASE Len(sent) > 0
      BY <3>2, <2>1, <2>2 DEF Stream
    <3> QED
      BY <3>1, <3>2, <2>1
  <2>8. Len(sent') # 0
    BY <2>1
  <2> QED
    BY <2>4, <2>5, <2>6, <2>7, <2>8 DEF Stream, End, Size
<1>2. CASE Reset
  <2>1. sent' = <<>> /\ sentBytes' = 0 /\ Len(sent') = 0
    BY <1>2, EmptySeq DEF Reset
  <2> QED
    BY <2>1 DEF Stream
<1>3. CASE UNCHANGED <<sent, sentBytes>>
  BY <1>3 DEF Stream, End, Size
<1>4. Read => UNCHANGED <<sent, sentBytes>>
  BY DEF Read, Push, PushRejected
<1>5. Decode => UNCHANGED <<sent, sentBytes>>
  BY DEF Decode, BadHeader, Deliver, EndCallback, FinishPush
<1> QED
  BY <1>1, <1>2, <1>3, <1>4, <1>5 DEF Next, vars

(* A frame is delivered only before a rejection, as that empties the buffer. *)
LEMMA DeliverFacts ==
  ASSUME TypeOK, Stream, Decoder, NEW f \in SentFrames, Deliver(f)
  PROVE  /\ ~rejected /\ f \in Frame /\ f.start = consumed
         /\ Len(delivered) < Len(sent) /\ f = sent[Len(delivered) + 1]
         /\ consumed' = End(f) /\ consumed' =< received
         /\ Len(delivered') = Len(delivered) + 1
         /\ \A i \in 1..Len(delivered) : delivered'[i] = delivered[i]
         /\ delivered'[Len(delivered) + 1] = f
<1>1. f \in Frame
  BY SentFrameFacts
<1>2. Header(f) /\ Buffered >= Size(f) /\ f.start = consumed
  BY DEF Deliver, Complete, Header
<1>3. received \in Nat /\ consumed \in Nat
  BY DEF TypeOK
<1>4. ~rejected
  BY <1>1, <1>2, <1>3, EndFacts, FrameAssumption DEF Decoder, Buffered
<1>5. consumed' = End(f)
  BY <1>2 DEF Deliver, End
<1>6. End(f) =< received
  BY <1>1, <1>2, <1>3, EndFacts DEF Buffered, End
<1>7. Len(delivered) < Len(sent) /\ f = sent[Len(delivered) + 1]
  BY <1>2, <1>4, FrontIsNext
<1>8. delivered' = Append(delivered, f) /\ delivered \in Seq(Frame)
  BY DEF Deliver, TypeOK
<1>9. /\ Len(delivered') = Len(delivered) + 1
      /\ \A i \in 1..Len(delivered) : delivered'[i] = delivered[i]
      /\ delivered'[Len(delivered) + 1] = f
  BY <1>1, <1>8, AppendProperties
<1> QED
  BY <1>1, <1>2, <1>4, <1>5, <1>6, <1>7, <1>9

(* The outermost Push returns to no callback. *)
LEMMA LeaveFacts ==
  ASSUME depth \in Nat, Leave
  PROVE  depth' = 0 => ~inCallback'
<1>1. depth' = 0 => ~(depth > 1)
  BY DEF Leave
<1>2. ~(depth > 1) => ~inCallback'
  BY Zenon DEF Leave
<1> QED
  BY <1>1, <1>2

(* The buffer goes on beginning behind what was delivered. *)
LEMMA DecoderStep ==
  ASSUME TypeOK, Stream, Decoder, [Next]_vars
  PROVE  Decoder'
<1> DEFINE k == Len(delivered)
<1>0. /\ k \in Nat /\ Len(sent) \in Nat
      /\ sentBytes \in Nat /\ received \in Nat /\ consumed \in Nat /\ depth \in Nat
  BY FrameAssumption DEF TypeOK
<1>1. ASSUME NEW n \in 1..SentMaximum, Build(n) PROVE Decoder'
  <2>1. /\ UNCHANGED <<received, consumed, delivered, depth, inCallback, rejected>>
        /\ sentBytes' = sentBytes + HeaderSize + n
    BY <1>1 DEF Build
  <2>2. /\ Len(sent') = Len(sent) + 1
        /\ \A i \in 1..Len(sent) : sent'[i] = sent[i]
        /\ sent'[Len(sent) + 1] = [start |-> sentBytes, length |-> n]
    BY <1>1, BuildFacts
  <2>3. sentBytes' >= sentBytes /\ sentBytes' \in Nat
    BY <2>1, <1>0, FrameAssumption
  <2>4. ~rejected => consumed = sent'[k + 1].start
    <3>1. CASE k < Len(sent)
      BY <3>1, <2>2, <1>0 DEF Decoder
    <3>2. CASE k = Len(sent)
      <4>1. sent'[k + 1].start = sentBytes
        BY <3>2, <2>2
      <4> QED
        BY <4>1, <3>2, <1>0 DEF Decoder
    <3> QED
      BY <3>1, <3>2, <1>0 DEF Decoder
  <2>5. k < Len(sent') /\ k =< Len(sent')
    BY <2>2, <1>0 DEF Decoder
  <2>6. \A i \in 1..k : delivered[i] = sent'[i]
    BY <2>2, <1>0 DEF Decoder
  <2>7. consumed =< received /\ received =< sentBytes'
    BY <2>3, <1>0 DEF Decoder
  <2> QED
    BY <2>1, <2>4, <2>5, <2>6, <2>7 DEF Decoder
<1>2. ASSUME NEW n \in 1..ReadSize, Push(n) PROVE Decoder'
  <2>1. /\ UNCHANGED <<sent, sentBytes, consumed, delivered, rejected>> /\ ~rejected
        /\ received' = received + n /\ received + n =< sentBytes /\ ~inCallback'
    BY <1>2 DEF Push, CanPush
  <2>2. consumed =< received'
    BY <2>1, <1>0, FrameAssumption DEF Decoder
  <2> QED
    BY <2>1, <2>2 DEF Decoder
<1>3. ASSUME NEW n \in 1..ReadSize, PushRejected(n) PROVE Decoder'
  <2>1. /\ UNCHANGED <<sent, sentBytes, delivered, depth, inCallback>>
        /\ received' = received + n /\ received + n =< sentBytes
        /\ consumed' = received' /\ rejected'
    BY <1>3 DEF PushRejected, CanPush
  <2>2. received' \in Nat
    BY <2>1, <1>0, FrameAssumption
  <2> QED
    BY <2>1, <2>2 DEF Decoder
<1>4. CASE BadHeader
  <2>1. /\ UNCHANGED <<sent, sentBytes, received, delivered>>
        /\ consumed' = received /\ rejected'
    BY <1>4 DEF BadHeader
  <2>2. depth' = 0 => ~inCallback'
    BY <1>4, LeaveFacts, <1>0 DEF BadHeader
  <2> QED
    BY <2>1, <2>2, <1>0 DEF Decoder
<1>5. ASSUME NEW f \in SentFrames, Deliver(f) PROVE Decoder'
  <2>1. /\ UNCHANGED <<sent, sentBytes, received, depth, rejected>> /\ depth # 0
    BY <1>5, <1>0 DEF Deliver, Looping
  <2>2. /\ ~rejected /\ k < Len(sent) /\ f = sent[k + 1]
        /\ consumed' = End(f) /\ consumed' =< received
        /\ Len(delivered') = k + 1
        /\ \A i \in 1..k : delivered'[i] = delivered[i]
        /\ delivered'[k + 1] = f
    BY <1>5, DeliverFacts
  <2>3. \A i \in 1..(k + 1) : delivered'[i] = sent[i]
    BY <2>2, <1>0 DEF Decoder
  <2>4. consumed' = IF k + 1 < Len(sent) THEN sent[k + 2].start ELSE sentBytes
    <3>1. CASE k + 1 < Len(sent)
      <4>1. k + 1 \in 1..(Len(sent) - 1) /\ k + 1 + 1 = k + 2
        BY <3>1, <1>0
      <4> QED
        BY <4>1, <3>1, <2>2 DEF Stream
    <3>2. CASE k + 1 = Len(sent)
      BY <3>2, <2>2, <1>0 DEF Stream
    <3> QED
      BY <3>1, <3>2, <2>2, <1>0
  <2>5. k + 1 =< Len(sent) /\ (k + 1) + 1 = k + 2
    BY <2>2, <1>0
  <2> HIDE DEF k
  <2> QED
    BY <2>1, <2>2, <2>3, <2>4, <2>5 DEF Decoder
<1>6. CASE EndCallback
  BY <1>6 DEF EndCallback, Decoder
<1>7. CASE FinishPush
  <2>1. UNCHANGED <<sent, sentBytes, received, consumed, delivered, rejected>>
    BY <1>7 DEF FinishPush
  <2>2. depth' = 0 => ~inCallback'
    BY <1>7, LeaveFacts, <1>0 DEF FinishPush
  <2> QED
    BY <2>1, <2>2 DEF Decoder
<1>8. CASE Reset
  <2>1. /\ sent' = <<>> /\ delivered' = <<>> /\ Len(sent') = 0 /\ Len(delivered') = 0
        /\ sentBytes' = 0 /\ received' = 0 /\ consumed' = 0 /\ ~inCallback' /\ ~rejected'
    BY <1>8, EmptySeq DEF Reset
  <2> QED
    BY <2>1 DEF Decoder
<1>9. CASE UNCHANGED vars
  BY <1>9 DEF vars, Decoder
<1> QED
  BY <1>1, <1>2, <1>3, <1>4, <1>5, <1>6, <1>7, <1>8, <1>9 DEF Next, Read, Decode

(* A Push that returns has left less than the next frame in the buffer. *)
LEMMA FinishFacts ==
  ASSUME TypeOK, Stream, Decoder, ~rejected, Len(delivered) < Len(sent), FinishPush
  PROVE  received < End(sent[Len(delivered) + 1])
<1> DEFINE f == sent[Len(delivered) + 1]
<1>1. /\ Len(delivered) \in Nat /\ Len(sent) \in Nat
      /\ received \in Nat /\ consumed \in Nat
  BY DEF TypeOK
<1>2. f \in Frame /\ f.start = consumed
  BY <1>1, SentFrameFacts DEF Decoder
<1> HIDE DEF f
<1>3. End(f) = consumed + Size(f) /\ Size(f) > HeaderSize /\ Size(f) \in Nat
  BY <1>2, EndFacts, FrameAssumption DEF End
<1>4. CASE ~HeaderComplete
  BY <1>4, <1>1, <1>3, FrameAssumption DEF HeaderComplete, Buffered, f
<1>5. ASSUME NEW g \in SentFrames, Header(g), ~Complete(g) PROVE received < End(f)
  <2>1. g = f
    BY <1>5, FrontIsNext DEF f
  <2>2. Buffered < Size(f)
    BY <1>5, <2>1, <1>1, <1>3 DEF Complete, Buffered
  <2> QED
    BY <2>2, <1>1, <1>3 DEF Buffered
<1> QED
  BY <1>4, <1>5 DEF FinishPush, f

(* What Push left behind stays less than a frame until bytes are pushed. *)
LEMMA ExhaustedStep ==
  ASSUME TypeOK, Stream, Decoder, Exhausted, [Next]_vars
  PROVE  Exhausted'
<1> DEFINE k == Len(delivered)
<1>0. /\ k \in Nat /\ Len(sent) \in Nat
      /\ sentBytes \in Nat /\ received \in Nat /\ depth \in Nat
  BY FrameAssumption DEF TypeOK
<1>1. ASSUME NEW n \in 1..SentMaximum, Build(n) PROVE Exhausted'
  <2>1. UNCHANGED <<received, delivered, depth, rejected>>
    BY <1>1 DEF Build
  <2>2. /\ Len(sent') = Len(sent) + 1
        /\ \A i \in 1..Len(sent) : sent'[i] = sent[i]
        /\ sent'[Len(sent) + 1] = [start |-> sentBytes, length |-> n]
    BY <1>1, BuildFacts
  <2>3. received =< sentBytes /\ k =< Len(sent)
    BY DEF Decoder
  <2>4. CASE k < Len(sent)
    BY <2>1, <2>2, <2>4, <1>0 DEF Exhausted, End, Size
  <2>5. CASE k = Len(sent)
    <3>1. End(sent'[k + 1]) = sentBytes + (HeaderSize + n)
      BY <2>2, <2>5 DEF End, Size
    <3>2. received < End(sent'[k + 1])
      BY <3>1, <2>3, <1>0, FrameAssumption
    <3> QED
      BY <3>2, <2>1 DEF Exhausted, End, Size
  <2> QED
    BY <2>3, <2>4, <2>5, <1>0
<1>2. ASSUME NEW n \in 1..ReadSize, Push(n) PROVE Exhausted'
  <2>1. depth' # 0
    BY <1>2, <1>0 DEF Push
  <2> QED
    BY <2>1 DEF Exhausted
<1>3. ASSUME NEW n \in 1..ReadSize, PushRejected(n) PROVE Exhausted'
  BY <1>3 DEF PushRejected, Exhausted
<1>4. CASE BadHeader
  BY <1>4 DEF BadHeader, Exhausted
<1>5. ASSUME NEW f \in SentFrames, Deliver(f) PROVE Exhausted'
  <2>1. depth' # 0
    BY <1>5, <1>0 DEF Deliver, Looping
  <2> QED
    BY <2>1 DEF Exhausted
<1>6. CASE EndCallback
  <2>1. depth' # 0
    BY <1>6 DEF EndCallback, Decoder
  <2> QED
    BY <2>1 DEF Exhausted
<1>7. CASE FinishPush
  <2>1. UNCHANGED <<sent, received, delivered, rejected>>
    BY <1>7 DEF FinishPush
  <2>2. ~rejected /\ k < Len(sent) => received < End(sent[k + 1])
    BY <1>7, FinishFacts
  <2> QED
    BY <2>1, <2>2 DEF Exhausted, End, Size
<1>8. CASE Reset
  <2>1. Len(sent') = 0 /\ Len(delivered') = 0
    BY <1>8, EmptySeq DEF Reset
  <2> QED
    BY <2>1 DEF Exhausted
<1>9. CASE UNCHANGED vars
  BY <1>9 DEF vars, Exhausted, End, Size
<1> QED
  BY <1>1, <1>2, <1>3, <1>4, <1>5, <1>6, <1>7, <1>8, <1>9 DEF Next, Read, Decode

(* The buffer grows only in Push, behind its check. *)
LEMMA BoundStep ==
  ASSUME TypeOK, Stream, Decoder, BoundedBuffer, [Next]_vars
  PROVE  BoundedBuffer'
<1> USE FrameAssumption DEF BoundedBuffer, Buffered
<1>0. received \in Nat /\ consumed \in Nat
  BY DEF TypeOK
<1>1. ASSUME NEW n \in 1..ReadSize, Push(n) PROVE BoundedBuffer'
  BY <1>1, <1>0 DEF Push, Overflows
<1>2. ASSUME NEW n \in 1..ReadSize, PushRejected(n) PROVE BoundedBuffer'
  BY <1>2, <1>0 DEF PushRejected
<1>3. CASE BadHeader
  BY <1>3, <1>0 DEF BadHeader
<1>4. ASSUME NEW f \in SentFrames, Deliver(f) PROVE BoundedBuffer'
  <2>1. consumed' = End(f) /\ End(f) \in Nat /\ End(f) > consumed /\ End(f) =< received
    BY <1>4, DeliverFacts, EndFacts
  <2>2. received' = received
    BY <1>4 DEF Deliver
  <2> QED
    BY <2>1, <2>2, <1>0
<1>5. CASE Reset
  BY <1>5 DEF Reset
<1>6. CASE UNCHANGED <<received, consumed>>
  BY <1>6
<1>7. (\E n \in 1..SentMaximum : Build(n)) \/ EndCallback \/ FinishPush \/ UNCHANGED vars
         => UNCHANGED <<received, consumed>>
  BY DEF Build, EndCallback, FinishPush, vars
<1> QED
  BY <1>1, <1>2, <1>3, <1>4, <1>5, <1>6, <1>7 DEF Next, Read, Decode

(* The inductive invariant holds in every state. *)
LEMMA Invariance == Spec => []IInv
<1>1. Init => IInv
  <2> SUFFICES ASSUME Init PROVE IInv
    OBVIOUS
  <2>1. /\ sent = <<>> /\ delivered = <<>> /\ Len(sent) = 0 /\ Len(delivered) = 0
        /\ <<>> \in Seq(Frame)
    BY EmptySeq DEF Init
  <2>2. TypeOK
    <3>1. 0 \in 0..MaxDepth
      BY FrameAssumption
    <3> QED
      BY <2>1, <3>1 DEF Init, TypeOK
  <2>3. Stream
    BY <2>1 DEF Init, Stream
  <2>4. Decoder
    BY <2>1 DEF Init, Decoder
  <2>5. Exhausted
    BY <2>1 DEF Exhausted
  <2>6. BoundedBuffer
    BY FrameAssumption DEF Init, BoundedBuffer, Buffered
  <2> QED
    BY <2>2, <2>3, <2>4, <2>5, <2>6 DEF IInv
<1>2. IInv /\ [Next]_vars => IInv'
  BY TypingStep, StreamStep, DecoderStep, ExhaustedStep, BoundStep DEF IInv
<1> QED
  BY <1>1, <1>2, PTL DEF Spec

-----------------------------------------------------------------------------
(* In a roomy stream reads at every level of nesting fit beside a frame. *)
LEMMA RoomyFacts ==
  ASSUME NEW l \in Nat \ {0}, l + MaxDepth * ReadSize =< MaximumPayloadBytes + 1
  PROVE  /\ l + Reserve(0) =< MaximumPayloadBytes + 1
         /\ l =< MaximumPayloadBytes
         /\ Reserve(0) =< MaximumPayloadBytes
<1>1. Reserve(0) = MaxDepth * ReadSize
  BY FrameAssumption DEF Reserve
<1>2. Reserve(0) \in Nat /\ Reserve(0) >= 1
  <2>1. 0 \in 0..MaxDepth /\ 0 < MaxDepth /\ 1 \in 0..MaxDepth
    BY FrameAssumption
  <2>2. Reserve(0) = Reserve(1) + ReadSize /\ Reserve(1) \in Nat
    BY <2>1, ReserveFacts
  <2> QED
    BY <2>2, FrameAssumption
<1>3. l + Reserve(0) =< MaximumPayloadBytes + 1
  BY <1>1
<1> QED
  BY <1>2, <1>3, FrameAssumption

(* A stream that is roomy after a step was so before, unless it was replaced. *)
LEMMA RoomyBefore ==
  ASSUME TypeOK, [Next]_vars, ~Reset, Roomy'
  PROVE  Roomy
<1>1. ASSUME NEW n \in 1..SentMaximum, Build(n) PROVE Roomy
  <2>1. /\ Len(sent') = Len(sent) + 1
        /\ \A i \in 1..Len(sent) : sent'[i] = sent[i]
    BY <1>1, BuildFacts
  <2>2. Len(sent) \in Nat
    BY DEF TypeOK
  <2>3. \A i \in 1..Len(sent') : sent'[i].length + MaxDepth * ReadSize =< MaximumPayloadBytes + 1
    BY DEF Roomy
  <2> QED
    BY <2>1, <2>2, <2>3 DEF Roomy
<1>2. CASE UNCHANGED sent
  BY <1>2 DEF Roomy
<1>3. Read \/ Decode \/ UNCHANGED vars => UNCHANGED sent
  BY DEF Read, Push, PushRejected, Decode, BadHeader, Deliver, EndCallback, FinishPush, vars
<1> QED
  BY <1>1, <1>2, <1>3 DEF Next

(* The sums and differences the argument needs. *)
LEMMA Differences ==
  /\ \A a, b, c \in Nat : c > b => a - c =< a - b
  /\ \A a, t, q, r, n \in Int : a =< t - (q + r) /\ n =< r => a + n =< t - q
  /\ \A a, b, t, q \in Int : a =< t - q /\ b =< a => b =< t - q
OBVIOUS

(* A roomy stream keeps the reserve free. *)
LEMMA RoomStep ==
  ASSUME IInv, Room, [Next]_vars
  PROVE  Room'
<1> DEFINE k == Len(delivered)
           bound == HeaderSize + MaximumPayloadBytes
<1>0. /\ TypeOK /\ Stream /\ Decoder /\ BoundedBuffer
      /\ k \in Nat /\ Len(sent) \in Nat /\ depth \in 0..MaxDepth /\ depth \in Nat
      /\ sentBytes \in Nat /\ received \in Nat /\ consumed \in Nat /\ bound \in Nat
  BY FrameAssumption DEF IInv, TypeOK
<1>1. Reserve(depth) \in Nat /\ Reserve(depth) =< Reserve(0) /\ Reserve(0) \in Nat
  BY <1>0, ReserveFacts, FrameAssumption
<1>4. received \in Nat /\ consumed \in Nat
  BY <1>0
<1>2. CASE Reset
  <2>1. Len(sent') = 0 /\ ~rejected'
    BY <1>2, EmptySeq DEF Reset
  <2> QED
    BY <2>1 DEF Room
<1>3. CASE ~Reset
  <2> SUFFICES ASSUME Roomy' PROVE ~rejected' /\ (Len(sent') > 0 => Slack')
    BY DEF Room
  <2>1. Roomy
    BY <1>0, <1>3, RoomyBefore
  <2>2. ~rejected /\ (Len(sent) > 0 => Slack)
    BY <2>1 DEF Room
  <2>3. \A i \in 1..Len(sent) : /\ sent[i].length + Reserve(0) =< MaximumPayloadBytes + 1
                                /\ sent[i].length =< MaximumPayloadBytes
                                /\ Reserve(0) =< MaximumPayloadBytes
    BY <1>0, <2>1, SentFrameFacts, EndFacts, RoomyFacts DEF Roomy
  <2>4. ASSUME NEW n \in 1..SentMaximum, Build(n) PROVE ~rejected' /\ Slack'
    <3>1. UNCHANGED <<received, consumed, depth>> /\ ~rejected'
      BY <2>4, <2>2 DEF Build
    <3>2. CASE Len(sent) > 0
      <4>1. Slack
        BY <3>2, <2>2
      <4>2. Buffered' = Buffered /\ Reserve(depth)' = Reserve(depth)
        BY <3>1 DEF Buffered, Reserve
      <4> QED
        BY <3>1, <4>1, <4>2 DEF Slack
    <3>3. CASE Len(sent) = 0
      <4>1. Buffered = 0
        BY <3>3, <1>0 DEF Stream, Decoder, Buffered
      <4>2. Len(sent') = 1 /\ sent'[1] = [start |-> sentBytes, length |-> n]
        BY <2>4, <3>3, <1>0, BuildFacts
      <4>3. n + MaxDepth * ReadSize =< MaximumPayloadBytes + 1
        BY <4>2 DEF Roomy
      <4>4. Reserve(0) =< MaximumPayloadBytes
        BY <4>3, RoomyFacts
      <4>5. 0 =< bound - Reserve(depth)
        BY <4>4, <1>1, FrameAssumption
      <4>6. Buffered' = Buffered /\ Reserve(depth)' = Reserve(depth)
        BY <3>1 DEF Buffered, Reserve
      <4> QED
        BY <3>1, <4>1, <4>5, <4>6 DEF Slack
    <3> QED
      BY <3>2, <3>3, <1>0
  <2>5. ASSUME NEW n \in 1..ReadSize, CanPush(n)
        PROVE  /\ depth < MaxDepth /\ Len(sent) > 0 /\ n \in Nat /\ n =< ReadSize
               /\ Buffered \in Int /\ Buffered + n =< bound - Reserve(depth + 1)
               /\ Reserve(depth + 1) \in Nat
    <3>1. depth < MaxDepth /\ depth + 1 \in 0..MaxDepth
      BY <2>5, <1>0, FrameAssumption DEF CanPush
    <3>2. n \in Nat /\ n =< ReadSize /\ n >= 1 /\ ReadSize \in Nat
      BY FrameAssumption
    <3>3. Len(sent) > 0
      <4>1. received + n =< sentBytes
        BY <2>5 DEF CanPush
      <4>2. sentBytes # 0
        BY <4>1, <3>2, <1>0
      <4> QED
        BY <4>2, <1>0 DEF Stream
    <3>4. Reserve(depth) = Reserve(depth + 1) + ReadSize /\ Reserve(depth + 1) \in Nat
      BY <3>1, <1>0, ReserveFacts
    <3>5. Buffered \in Int /\ bound \in Nat
      BY <1>0 DEF Buffered
    <3>6. Buffered =< bound - (Reserve(depth + 1) + ReadSize)
      BY <3>3, <3>4, <2>2 DEF Slack
    <3>7. Buffered + n =< bound - Reserve(depth + 1)
      BY <3>2, <3>4, <3>5, <3>6, Differences
    <3> QED
      BY <3>1, <3>2, <3>3, <3>4, <3>5, <3>7
  <2>6. ASSUME NEW n \in 1..ReadSize, Push(n) PROVE ~rejected' /\ Slack'
    <3>1. /\ received' = received + n /\ depth' = depth + 1
          /\ UNCHANGED consumed /\ ~rejected' /\ CanPush(n)
      BY <2>6, <2>2 DEF Push
    <3>2. Buffered' = Buffered + n
      BY <3>1, <1>0, FrameAssumption DEF Buffered
    <3>3. Buffered + n =< bound - Reserve(depth + 1)
      BY <3>1, <2>5
    <3>4. Reserve(depth)' = Reserve(depth + 1)
      BY <3>1 DEF Reserve
    <3> QED
      BY <3>1, <3>2, <3>3, <3>4 DEF Slack
  <2>7. ~\E n \in 1..ReadSize : PushRejected(n)
    <3> SUFFICES ASSUME NEW n \in 1..ReadSize, PushRejected(n) PROVE FALSE
      OBVIOUS
    <3>1. CanPush(n) /\ Buffered + n > bound
      BY FrameAssumption DEF PushRejected, Overflows
    <3> QED
      BY <3>1, <2>5, <1>0
  <2>8. ~BadHeader
    <3> SUFFICES ASSUME Buffered >= HeaderSize PROVE \E f \in SentFrames : Header(f)
      BY DEF BadHeader, HeaderComplete
    <3>1. k < Len(sent)
      <4>1. consumed < sentBytes
        BY <1>0, FrameAssumption DEF Buffered, Decoder
      <4> QED
        BY <4>1, <2>2, <1>0 DEF Decoder
    <3>2. k + 1 \in 1..Len(sent) /\ sent[k + 1].start = consumed
      BY <3>1, <2>2, <1>0 DEF Decoder
    <3>3. sent[k + 1] \in SentFrames /\ sent[k + 1].length =< MaximumPayloadBytes
      BY <3>2, <2>3, <1>0, SentFrameFacts
    <3> QED
      BY <3>2, <3>3 DEF Header
  <2>9. ASSUME NEW f \in SentFrames, Deliver(f)
        PROVE  ~rejected' /\ (Len(sent') > 0 => Slack')
    <3>1. UNCHANGED <<sent, received, depth>> /\ ~rejected'
      BY <2>9, <2>2 DEF Deliver
    <3>2. consumed' \in Nat /\ consumed' > consumed
      BY <2>9, <1>0, DeliverFacts, EndFacts
    <3>3. received - consumed' =< received - consumed
      BY <3>2, <1>4, Differences
    <3>4. Buffered' =< Buffered /\ Buffered' \in Int /\ Buffered \in Int
      <4>1. Buffered' = received - consumed' /\ Buffered = received - consumed
        BY <3>1 DEF Buffered
      <4>2. received - consumed' \in Int /\ received - consumed \in Int
        BY <3>2, <1>4
      <4> QED
        BY <4>1, <4>2, <3>3
    <3>5. Reserve(depth)' = Reserve(depth)
      BY <3>1 DEF Reserve
    <3>6. bound \in Int /\ Reserve(depth) \in Int
      BY <1>0, <1>1
    <3>7. Slack => Slack'
      BY <3>4, <3>5, <3>6, Differences DEF Slack
    <3> QED
      BY <3>1, <3>7, <2>2
  <2>10. CASE EndCallback \/ UNCHANGED vars
    <3>1. UNCHANGED <<sent, received, consumed, depth>> /\ ~rejected'
      BY <2>10, <2>2 DEF EndCallback, vars
    <3>2. Buffered' = Buffered /\ Reserve(depth)' = Reserve(depth)
      BY <3>1 DEF Buffered, Reserve
    <3> QED
      BY <3>1, <3>2, <2>2 DEF Slack
  <2>11. CASE FinishPush
    <3>1. /\ UNCHANGED <<sent, received, consumed>> /\ ~rejected'
          /\ depth' = depth - 1 /\ depth > 0
      BY <2>11, <2>2 DEF FinishPush, Leave, Looping
    <3>2. Reserve(depth - 1) \in Nat /\ Reserve(depth - 1) =< Reserve(0)
      <4>1. depth - 1 \in 0..MaxDepth
        BY <3>1, <1>0, FrameAssumption
      <4> QED
        BY <4>1, ReserveFacts
    <3>3. ASSUME Len(sent) > 0 PROVE Buffered =< bound - Reserve(depth - 1)
      <4>1. CASE k < Len(sent)
        <5>1. received < End(sent[k + 1])
          BY <4>1, <2>2, <2>11, <1>0, FinishFacts
        <5>2. k + 1 \in 1..Len(sent) /\ sent[k + 1].start = consumed
          BY <4>1, <2>2, <1>0 DEF Decoder
        <5>3. sent[k + 1] \in Frame /\ sent[k + 1].length + Reserve(0) =< MaximumPayloadBytes + 1
          BY <5>2, <2>3, SentFrameFacts, <1>0
        <5>4. /\ sent[k + 1].length \in Nat
              /\ End(sent[k + 1]) = consumed + (HeaderSize + sent[k + 1].length)
          BY <5>2, <5>3, EndFacts DEF End
        <5>5. Buffered < HeaderSize + sent[k + 1].length
          BY <5>1, <5>4, <1>0, FrameAssumption DEF Buffered
        <5>6. Buffered \in Int
          BY <1>0 DEF Buffered
        <5> QED
          BY <5>3, <5>4, <5>5, <5>6, <3>2, <1>1, FrameAssumption, SMTT(30)
      <4>2. CASE k = Len(sent)
        <5>1. Buffered =< 0 /\ Buffered \in Int
          BY <4>2, <2>2, <1>0 DEF Decoder, Buffered
        <5>2. Reserve(0) =< MaximumPayloadBytes
          BY <2>3, <3>3, <1>0
        <5> QED
          BY <5>1, <5>2, <3>2, <1>1, FrameAssumption
      <4> QED
        BY <4>1, <4>2, <1>0 DEF Decoder
    <3>4. Buffered' = Buffered /\ Reserve(depth)' = Reserve(depth - 1)
      BY <3>1 DEF Buffered, Reserve
    <3> QED
      BY <3>1, <3>3, <3>4 DEF Slack
  <2> QED
    BY <1>3, <2>4, <2>6, <2>7, <2>8, <2>9, <2>10, <2>11 DEF Next, Read, Decode
<1> QED
  BY <1>2, <1>3

-----------------------------------------------------------------------------
(* SocketStateFrameDecoder, however it is fed, keeps to its types. *)
THEOREM Typing == Spec => []TypeOK
<1>1. IInv => TypeOK
  BY DEF IInv
<1> QED
  BY <1>1, Invariance, PTL

(* The callback is given a beginning of the frames that were sent: none is  *)
(* lost, repeated or out of order, however the stream is cut into reads and *)
(* however callbacks nest.                                                  *)
THEOREM FramesInOrder == Spec => []InOrder
<1>1. ASSUME IInv PROVE InOrder
  <2> DEFINE k == Len(delivered)
             prefix == SubSeq(sent, 1, k)
  <2>1. /\ k \in Nat /\ delivered \in Seq(Frame) /\ Len(sent) \in Nat
        /\ k =< Len(sent) /\ \A i \in 1..k : delivered[i] = sent[i]
    BY <1>1 DEF IInv, TypeOK, Decoder
  <2>2. \A i \in 1..k : sent[i] \in Frame
    BY <1>1, <2>1 DEF IInv, TypeOK
  <2>3. /\ prefix \in Seq(Frame) /\ Len(prefix) = k
        /\ \A i \in 1..k : prefix[i] = sent[i]
    <3>1. 1 \in Int /\ k \in Int
      BY <2>1
    <3>2. /\ prefix \in Seq(Frame)
          /\ Len(prefix) = IF 1 =< k THEN k - 1 + 1 ELSE 0
          /\ \A i \in 1..(k - 1 + 1) : prefix[i] = sent[1 + i - 1]
      BY <3>1, <2>2, SubSeqProperties
    <3> QED
      BY <3>2, <2>1
  <2> HIDE DEF prefix
  <2>4. delivered = prefix
    BY <2>1, <2>3, SeqEqual
  <2> QED
    BY <2>1, <2>4 DEF InOrder, prefix
<1> QED
  BY <1>1, Invariance, PTL

(* The decoder holds at most the largest frame it accepts. *)
THEOREM BufferIsBounded == Spec => []BoundedBuffer
<1>1. IInv => BoundedBuffer
  BY DEF IInv
<1> QED
  BY <1>1, Invariance, PTL

(* When every Push has returned, each frame that arrived whole was given to *)
(* the callback, so that no frame waits for the next one to be read.        *)
THEOREM NoFrameHeldBack == Spec => []NoneHeldBack
<1>1. ASSUME IInv PROVE NoneHeldBack
  <2> DEFINE k == Len(delivered)
  <2> SUFFICES ASSUME depth = 0, ~rejected, NEW i \in 1..Len(sent), ~(i =< k)
               PROVE  ~(sent[i].start + Size(sent[i]) =< received)
    BY <1>1 DEF NoneHeldBack, IInv, TypeOK
  <2>1. TypeOK /\ Stream /\ k \in Nat /\ Len(sent) \in Nat /\ received \in Nat
    BY <1>1 DEF IInv, TypeOK
  <2>2. k < Len(sent) /\ k + 1 \in 1..Len(sent) /\ i > k
    BY <2>1
  <2>3. received < End(sent[k + 1])
    BY <1>1, <2>2 DEF IInv, Exhausted
  <2>4. /\ End(sent[i]) \in Nat /\ End(sent[i]) > sent[i].start /\ sent[i].start \in Nat
        /\ End(sent[k + 1]) \in Nat
    BY <2>1, <2>2, SentFrameFacts, EndFacts
  <2>5. CASE i = k + 1
    BY <2>5, <2>1, <2>3, <2>4 DEF End
  <2>6. CASE i > k + 1
    <3>1. End(sent[k + 1]) =< sent[i].start
      BY <2>6, <2>1, <2>2 DEF Stream
    <3> QED
      BY <3>1, <2>1, <2>3, <2>4 DEF End
  <2> QED
    BY <2>1, <2>2, <2>5, <2>6
<1> QED
  BY <1>1, Invariance, PTL

(* A stream is rejected only if it holds a frame so long that, beside it,   *)
(* reads at every level of nesting may not fit: for a bound of M, reads of  *)
(* R bytes and D nested pushes, one longer than M + 1 - D * R.              *)
THEOREM RejectedOnlyIfCrowded == Spec => []RoomyStreamAccepted
<1>1. Init => Room
  BY EmptySeq DEF Init, Room
<1>2. IInv /\ Room /\ [Next]_vars => Room'
  BY RoomStep
<1>3. ASSUME IInv, Room PROVE RoomyStreamAccepted
  <2> SUFFICES ASSUME rejected
               PROVE  \E f \in SentFrames : f.length + MaxDepth * ReadSize > MaximumPayloadBytes + 1
    BY DEF RoomyStreamAccepted
  <2>1. TypeOK
    BY <1>3 DEF IInv
  <2>2. PICK i \in 1..Len(sent) : ~(sent[i].length + MaxDepth * ReadSize =< MaximumPayloadBytes + 1)
    BY <1>3 DEF Room, Roomy
  <2>3. sent[i] \in SentFrames /\ sent[i].length \in Nat
    BY <2>1, SentFrameFacts, EndFacts
  <2>4. MaxDepth * ReadSize \in Nat /\ MaximumPayloadBytes \in Nat
    BY FrameAssumption
  <2>5. sent[i].length + MaxDepth * ReadSize > MaximumPayloadBytes + 1
    BY <2>2, <2>3, <2>4
  <2> QED
    BY <2>3, <2>5
<1> QED
  BY <1>1, <1>2, <1>3, Invariance, PTL DEF Spec
=============================================================================
