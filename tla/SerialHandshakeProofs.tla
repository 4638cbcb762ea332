------------------------ MODULE SerialHandshakeProofs ------------------------
(***************************************************************************)
(* Proofs about SerialHandshake, for any number of resets and late         *)
(* answers: whatever part of hello the device hears, the bytes it has yet  *)
(* to interpret are the end of one line, the end of a hello that was cut   *)
(* and a whole hello behind it, and of the few places in that line where a *)
(* header is read, one alone is answered with ACK.                         *)
(***************************************************************************)
EXTENDS SerialHandshake, TLAPS, SequenceTheorems

-----------------------------------------------------------------------------
(* The inductive invariant.                                                *)

(* What is left of a hello that was cut, and a hello behind it.            *)
Line == <<108, 108, 111, 0, 0, 0, 5, 104, 101, 108, 108, 111>>

(* How much of Line the host has put behind the device's buffer, and how   *)
(* much of it the device has interpreted.                                  *)
Arrived == 12 - Len(toDevice)
Taken == Arrived - Len(received)

(* The device's buffer and the line to it are the end of Line.             *)
Aligned ==
    /\ Len(toDevice) <= 9
    /\ Taken >= 0
    /\ \A i \in 1 .. Len(toDevice) : toDevice[i] = Line[Arrived + i]
    /\ \A i \in 1 .. Len(received) : received[i] = Line[Taken + i]

(* Nothing is on its way to the device, nor waits in it.                   *)
Silent == toDevice = <<>> /\ received = <<>>

(* s is the beginning of t.                                                *)
Begins(s, t) == Len(s) <= Len(t) /\ \A i \in 1 .. Len(s) : s[i] = t[i]

(* While the host reads an answer, either a refusal comes first, or        *)
(* nothing but the answer to a whole hello, which is the end of all that   *)
(* the device has to interpret.                                            *)
Answered ==
    /\ phase = "response" =>
        \/ toHost = <<>>
        \/ toHost[1] = NCK[1]
        \/ Silent /\ Begins(toHost, ACK \o Hello)
    /\ phase = "data" => Silent /\ Begins(toHost, Hello)
    /\ ConnectedInStep

HandshakeInv == TypeOK /\ Aligned /\ Answered /\ ~misread

-----------------------------------------------------------------------------
(* The bytes of Line, Frame and the answers.                               *)

LEMMA LineBytes ==
    /\ Line \in Seq(Bytes) /\ Len(Line) = 12
    /\ Line[1] = 108 /\ Line[2] = 108 /\ Line[3] = 111
    /\ Line[4] = 0 /\ Line[5] = 0 /\ Line[6] = 0 /\ Line[7] = 5
    /\ Line[8] = 104 /\ Line[9] = 101 /\ Line[10] = 108 /\ Line[11] = 108 /\ Line[12] = 111
BY DEF Line, Bytes

LEMMA LineNumbers ==
    /\ Line[1] = 108 /\ Line[2] = 108 /\ Line[3] = 111
    /\ Line[4] = 0 /\ Line[5] = 0 /\ Line[6] = 0 /\ Line[7] = 5
    /\ Line[8] = 104 /\ Line[9] = 101 /\ Line[10] = 108 /\ Line[11] = 108 /\ Line[12] = 111
BY LineBytes

LEMMA HelloBytes ==
    /\ Hello \in Seq(Bytes) /\ Len(Hello) = 5
    /\ Hello[1] = 104 /\ Hello[2] = 101 /\ Hello[3] = 108 /\ Hello[4] = 108 /\ Hello[5] = 111
BY DEF Hello, Bytes

LEMMA ResponseBytes ==
    /\ ACK \in Seq(Bytes) /\ Len(ACK) = 3
    /\ NCK \in Seq(Bytes) /\ Len(NCK) = 3
    /\ ACK[1] = 65 /\ NCK[1] = 78
BY DEF ACK, NCK, Bytes

(* What is behind the first n elements, and what is in front of it.        *)
LEMMA AfterProperties ==
    ASSUME NEW s \in Seq(Bytes), NEW n \in 0 .. Len(s)
    PROVE  /\ After(s, n) \in Seq(Bytes)
           /\ Len(After(s, n)) = Len(s) - n
           /\ \A i \in 1 .. Len(s) - n : After(s, n)[i] = s[n + i]
<1>1. Len(s) \in Nat /\ \A i \in n + 1 .. Len(s) : s[i] \in Bytes
  BY LenProperties, ElementOfSeq
<1> QED
  BY <1>1, SubSeqProperties DEF After

LEMMA FrontProperties ==
    ASSUME NEW s \in Seq(Bytes), NEW n \in 0 .. Len(s)
    PROVE  /\ SubSeq(s, 1, n) \in Seq(Bytes)
           /\ Len(SubSeq(s, 1, n)) = n
           /\ \A i \in 1 .. n : SubSeq(s, 1, n)[i] = s[i]
<1>1. Len(s) \in Nat /\ \A i \in 1 .. n : s[i] \in Bytes
  BY LenProperties, ElementOfSeq
<1> QED
  BY <1>1, SubSeqProperties

LEMMA ConcatPlaces ==
    ASSUME NEW s \in Seq(Bytes), NEW t \in Seq(Bytes)
    PROVE  /\ s \o t \in Seq(Bytes)
           /\ Len(s \o t) = Len(s) + Len(t)
           /\ \A i \in 1 .. Len(s) : (s \o t)[i] = s[i]
           /\ \A i \in 1 .. Len(t) : (s \o t)[i + Len(s)] = t[i]
BY ConcatProperties, LenProperties

(* A whole hello is what Line ends in.                                     *)
LEMMA FrameBytes ==
    /\ Frame \in Seq(Bytes) /\ Len(Frame) = 9
    /\ \A i \in 1 .. 9 : Frame[i] = Line[3 + i]
<1>1. Frame = <<0, 0, 0, 5>> \o Hello
  BY HelloBytes DEF Frame
<1>2. /\ Frame \in Seq(Bytes) /\ Len(Frame) = 9
      /\ Frame[1] = 0 /\ Frame[2] = 0 /\ Frame[3] = 0 /\ Frame[4] = 5
      /\ \A k \in 1 .. 5 : Frame[k + 4] = Hello[k]
  <2>. DEFINE h == <<0, 0, 0, 5>>
  <2>1. /\ h \in Seq(Bytes) /\ Len(h) = 4
        /\ h[1] = 0 /\ h[2] = 0 /\ h[3] = 0 /\ h[4] = 5
    BY DEF Bytes
  <2>. HIDE DEF h
  <2>2. /\ h \o Hello \in Seq(Bytes) /\ Len(h \o Hello) = Len(h) + Len(Hello)
        /\ \A i \in 1 .. Len(h) : (h \o Hello)[i] = h[i]
        /\ \A i \in 1 .. Len(Hello) : (h \o Hello)[i + Len(h)] = Hello[i]
    <3>1. h \in Seq(Bytes) /\ Hello \in Seq(Bytes)
      BY <2>1, HelloBytes
    <3>. QED
      BY ONLY <3>1, ConcatPlaces, Zenon
  <2>3. /\ \A i \in 1 .. 4 : (h \o Hello)[i] = h[i]
        /\ \A i \in 1 .. 5 : (h \o Hello)[i + 4] = Hello[i]
        /\ Len(h \o Hello) = 9
    <3>1. Len(h) = 4 /\ Len(Hello) = 5
      BY <2>1, HelloBytes
    <3> QED
      BY <3>1, <2>2
  <2>4. Frame = h \o Hello
    BY <1>1 DEF h
  <2>. QED
    BY <2>1, <2>2, <2>3, <2>4
<1>3. /\ Frame[5] = 104 /\ Frame[6] = 101 /\ Frame[7] = 108
      /\ Frame[8] = 108 /\ Frame[9] = 111
  <2>1. \A k \in {1, 2, 3, 4, 5} : Frame[k + 4] = Hello[k]
    BY <1>2
  <2> QED
    BY <2>1, HelloBytes
<1> QED
  BY <1>2, <1>3, LineBytes

-----------------------------------------------------------------------------
(* Where the device reads a header.                                        *)

LEMMA PlacesOnLine ==
    ASSUME TypeOK, Aligned
    PROVE  /\ Len(toDevice) >= 0 /\ Len(toDevice) <= 9 /\ Len(received) \in Nat
           /\ Arrived \in 3 .. 12 /\ Taken \in 0 .. 12
           /\ Len(received) = Arrived - Taken
<1>1. toDevice \in Seq(Bytes) /\ received \in Seq(Bytes)
  BY DEF TypeOK
<1>2. Len(toDevice) \in Nat /\ Len(received) \in Nat
  BY <1>1, LenProperties
<1>3. Len(toDevice) <= 9
  BY DEF Aligned
<1>4. Len(toDevice) >= 0 /\ Len(toDevice) <= 9 /\ Arrived \in 3 .. 12
  BY <1>2, <1>3 DEF Arrived
<1>6. Taken >= 0
  BY DEF Aligned
<1>5. Taken = Arrived - Len(received)
  BY DEF Taken
<1> QED
  BY <1>2, <1>4, <1>5, <1>6

(* A header is either refused, is that of a whole hello, or one of no data *)
(* and of a command there is not: the three places on Line where the       *)
(* length in it is not too long.                                           *)
LEMMA HeaderOnLine ==
    ASSUME TypeOK, Aligned, HasHeader
    PROVE  /\ Taken \in 0 .. 8
           /\ \/ TooLong
              \/ Taken = 3 /\ Command = 0 /\ DataLength = 5
              \/ Taken \in {1, 2} /\ Command > 3 /\ DataLength = 0
<1>a. Len(received) >= 4
  BY PlacesOnLine DEF HasHeader, HeaderLength
<1>b. /\ Len(received) \in Nat /\ Arrived \in 3 .. 12 /\ Taken \in 0 .. 12
      /\ Len(received) = Arrived - Taken
  BY PlacesOnLine
<1>1. Taken \in 0 .. 8 /\ Len(received) >= 4
  BY ONLY <1>a, <1>b
<1>2. /\ received[1] = Line[Taken + 1] /\ received[2] = Line[Taken + 2]
      /\ received[3] = Line[Taken + 3] /\ received[4] = Line[Taken + 4]
  BY <1>1, PlacesOnLine DEF Aligned
<1>3. /\ Command = Line[Taken + 1] * 256 + Line[Taken + 2]
      /\ DataLength = Line[Taken + 3] * 256 + Line[Taken + 4]
  BY <1>2 DEF Command, DataLength, Number
<1>4. TooLong <=> Line[Taken + 3] * 256 + Line[Taken + 4] > 1020
  BY <1>3 DEF TooLong, BufferSize, HeaderLength
<1>5. CASE Taken = 0
  <2>1. Taken + 1 = 1 /\ Taken + 2 = 2 /\ Taken + 3 = 3 /\ Taken + 4 = 4
    BY <1>5
  <2>. QED BY <1>4, <1>5, <2>1, LineNumbers
<1>6. CASE Taken = 1
  <2>1. Taken + 1 = 2 /\ Taken + 2 = 3 /\ Taken + 3 = 4 /\ Taken + 4 = 5
    BY <1>6
  <2>. QED BY <1>3, <1>6, <2>1, LineNumbers
<1>7. CASE Taken = 2
  <2>1. Taken + 1 = 3 /\ Taken + 2 = 4 /\ Taken + 3 = 5 /\ Taken + 4 = 6
    BY <1>7
  <2>. QED BY <1>3, <1>7, <2>1, LineNumbers
<1>8. CASE Taken = 3
  <2>1. Taken + 1 = 4 /\ Taken + 2 = 5 /\ Taken + 3 = 6 /\ Taken + 4 = 7
    BY <1>8
  <2>. QED BY <1>3, <1>8, <2>1, LineNumbers
<1>9. CASE Taken = 4
  <2>1. Taken + 1 = 5 /\ Taken + 2 = 6 /\ Taken + 3 = 7 /\ Taken + 4 = 8
    BY <1>9
  <2>. QED BY <1>4, <1>9, <2>1, LineNumbers
<1>10. CASE Taken = 5
  <2>1. Taken + 1 = 6 /\ Taken + 2 = 7 /\ Taken + 3 = 8 /\ Taken + 4 = 9
    BY <1>10
  <2>. QED BY <1>4, <1>10, <2>1, LineNumbers
<1>11. CASE Taken = 6
  <2>1. Taken + 1 = 7 /\ Taken + 2 = 8 /\ Taken + 3 = 9 /\ Taken + 4 = 10
    BY <1>11
  <2>. QED BY <1>4, <1>11, <2>1, LineNumbers
<1>12. CASE Taken = 7
  <2>1. Taken + 1 = 8 /\ Taken + 2 = 9 /\ Taken + 3 = 10 /\ Taken + 4 = 11
    BY <1>12
  <2>. QED BY <1>4, <1>12, <2>1, LineNumbers
<1>13. CASE Taken = 8
  <2>1. Taken + 1 = 9 /\ Taken + 2 = 10 /\ Taken + 3 = 11 /\ Taken + 4 = 12
    BY <1>13
  <2>. QED BY <1>4, <1>13, <2>1, LineNumbers
<1> QED
  BY <1>1, <1>5, <1>6, <1>7, <1>8, <1>9, <1>10, <1>11, <1>12, <1>13

(* A device that has interpreted what it could holds the end of hello, and *)
(* less than a header.                                                     *)
LEMMA QuietHoldsLittle ==
    ASSUME TypeOK, Aligned, Quiet
    PROVE  toDevice = <<>> /\ Arrived = 12 /\ Len(received) <= 3
<1>1. toDevice = <<>> /\ Arrived = 12
  BY EmptySeq DEF Quiet, Arrived
<1>2. ASSUME HasHeader PROVE FALSE
  <2>1. ~TooLong /\ Taken \in 0 .. 8
    BY <1>2, HeaderOnLine DEF Quiet
  <2>2. DataLength \in {0, 5} /\ Taken + 4 + DataLength <= 12
    BY <1>2, <2>1, HeaderOnLine
  <2>3. Len(received) >= HeaderLength + DataLength
    BY <1>1, <2>1, <2>2, PlacesOnLine DEF HeaderLength
  <2> QED
    BY <1>2, <2>1, <2>3 DEF Quiet, HasData
<1> QED
  BY <1>1, <1>2, PlacesOnLine DEF HasHeader, HeaderLength

-----------------------------------------------------------------------------
(* The steps of the device and of the line.                                *)

(* Interpreting n bytes moves the device on along Line.                    *)
LEMMA Interpreted ==
    ASSUME TypeOK, Aligned, NEW n \in Nat, n <= Len(received),
           received' = After(received, n), toDevice' = toDevice
    PROVE  received' \in Seq(Bytes) /\ Len(received') = Len(received) - n /\ Aligned'
<1>1. received \in Seq(Bytes) /\ n \in 0 .. Len(received)
  BY PlacesOnLine DEF TypeOK
<1>2. /\ received' \in Seq(Bytes)
      /\ Len(received') = Len(received) - n
      /\ \A i \in 1 .. Len(received) - n : received'[i] = received[n + i]
  BY <1>1, AfterProperties
<1>3. Arrived' = Arrived /\ Taken' = Taken + n
  BY <1>2, PlacesOnLine DEF Arrived, Taken
<1>4. \A i \in 1 .. Len(received') : received'[i] = Line[Taken' + i]
  <2>. SUFFICES ASSUME NEW i \in 1 .. Len(received')
                PROVE  received'[i] = Line[Taken' + i]
    OBVIOUS
  <2>1. n + i \in 1 .. Len(received) /\ received'[i] = received[n + i]
    BY <1>2, PlacesOnLine
  <2>2. received[n + i] = Line[Taken + (n + i)]
    BY <2>1 DEF Aligned
  <2>3. i \in Int /\ Taken \in Int
    BY PlacesOnLine
  <2>4. Taken' + i = Taken + (n + i)
    BY <1>3, <2>3
  <2>. QED
    BY <2>1, <2>2, <2>4
<1>5. Taken' >= 0 /\ Len(toDevice') <= 9
  BY <1>3, PlacesOnLine
<1>6. \A i \in 1 .. Len(toDevice') : toDevice'[i] = Line[Arrived' + i]
  BY <1>3 DEF Aligned
<1> QED
  BY <1>2, <1>4, <1>5, <1>6 DEF Aligned

(* A device with a header is booted, and something is under way.           *)
LEMMA HeaderIsHeard ==
    ASSUME TypeOK, HasHeader
    PROVE  booted /\ ~Silent
<1>1. received # <<>>
  BY EmptySeq DEF HasHeader, HeaderLength
<1> QED
  BY <1>1 DEF TypeOK, Silent

LEMMA BootStep == HandshakeInv /\ Boot => HandshakeInv'
<1> SUFFICES ASSUME HandshakeInv, Boot PROVE HandshakeInv'
  OBVIOUS
<1>1. TypeOK'
  BY DEF HandshakeInv, TypeOK, Boot, host
<1>2. Aligned'
  BY DEF HandshakeInv, Aligned, Arrived, Taken, Boot
<1>3. Answered'
  BY DEF HandshakeInv, Answered, ConnectedInStep, Silent, Begins, Boot, host
<1> QED
  BY <1>1, <1>2, <1>3 DEF HandshakeInv, Boot

LEMMA DeliverStep == HandshakeInv /\ Deliver => HandshakeInv'
<1> SUFFICES ASSUME HandshakeInv, Deliver PROVE HandshakeInv'
  OBVIOUS
<1> USE DEF HandshakeInv
<1>1. /\ toDevice \in Seq(Bytes) /\ toDevice # <<>>
      /\ received \in Seq(Bytes)
  BY DEF TypeOK, Deliver
<1>2. /\ Head(toDevice) \in Bytes /\ Head(toDevice) = toDevice[1]
      /\ toDevice' \in Seq(Bytes)
      /\ Len(toDevice') = Len(toDevice) - 1
      /\ \A i \in 1 .. Len(toDevice') : toDevice'[i] = toDevice[i + 1]
  BY <1>1, HeadTailProperties DEF Deliver
<1>3. Len(toDevice) > 0 /\ toDevice[1] = Line[Arrived + 1]
  <2>1. Len(toDevice) > 0
    BY <1>1, EmptySeq, PlacesOnLine
  <2>2. 1 \in 1 .. Len(toDevice)
    BY <2>1, PlacesOnLine
  <2>. QED
    BY <2>1, <2>2 DEF Aligned
<1>4. Arrived' = Arrived + 1
  BY <1>2, PlacesOnLine DEF Arrived
<1>5. \A i \in 1 .. Len(toDevice') : toDevice'[i] = Line[Arrived' + i]
  <2>. SUFFICES ASSUME NEW i \in 1 .. Len(toDevice')
                PROVE  toDevice'[i] = Line[Arrived' + i]
    OBVIOUS
  <2>1. i + 1 \in 1 .. Len(toDevice) /\ toDevice'[i] = toDevice[i + 1]
    BY <1>2, PlacesOnLine
  <2>2. toDevice[i + 1] = Line[Arrived + (i + 1)]
    BY <2>1 DEF Aligned
  <2>3. i \in Int /\ Arrived \in Int
    BY PlacesOnLine
  <2>4. Arrived' + i = Arrived + (i + 1)
    BY <1>4, <2>3
  <2>. QED
    BY <2>1, <2>2, <2>4
<1>6. ASSUME booted
      PROVE  /\ received' \in Seq(Bytes) /\ Taken' >= 0
             /\ \A i \in 1 .. Len(received') : received'[i] = Line[Taken' + i]
  <2>1. /\ received' \in Seq(Bytes)
        /\ Len(received') = Len(received) + 1
        /\ \A i \in 1 .. Len(received) : received'[i] = received[i]
        /\ received'[Len(received) + 1] = toDevice[1]
    BY <1>1, <1>2, <1>6 DEF Deliver
  <2>2. Taken' = Taken
    <3>a. Arrived \in Int /\ Len(received) \in Int
      BY PlacesOnLine
    <3>1. Arrived' - Len(received') = Arrived - Len(received)
      BY ONLY <2>1, <1>4, <3>a
    <3>. QED
      BY <3>1 DEF Taken
  <2>3. ASSUME NEW i \in 1 .. Len(received')
        PROVE  received'[i] = Line[Taken' + i]
    <3>1. CASE i = Len(received) + 1
      <4>1. Taken + i = Arrived + 1
        <5>1. Len(received) \in Int /\ Arrived \in Int /\ Len(received) = Arrived - Taken /\ Taken \in Int
          BY PlacesOnLine
        <5>. QED
          BY <3>1, <5>1
      <4>. QED
        BY <3>1, <4>1, <2>1, <2>2, <1>3
    <3>2. CASE i # Len(received) + 1
      <4>1. i \in 1 .. Len(received)
        BY <3>2, <2>1, PlacesOnLine
      <4>. QED
        BY <4>1, <2>1, <2>2 DEF Aligned
    <3>. QED
      BY <3>1, <3>2
  <2>4. Taken' >= 0
    BY <2>2, PlacesOnLine
  <2>. QED
    BY <2>1, <2>3, <2>4
<1>7. ASSUME ~booted
      PROVE  received' = <<>> /\ Len(received') = 0 /\ Taken' >= 0
  <2>1. received = <<>> /\ received' = <<>>
    BY <1>7 DEF TypeOK, Deliver
  <2>. QED
    BY <2>1, <1>4, EmptySeq, PlacesOnLine DEF Taken
<1>8. /\ received' \in Seq(Bytes) /\ Taken' >= 0
      /\ \A i \in 1 .. Len(received') : received'[i] = Line[Taken' + i]
      /\ ~booted => received' = <<>>
  <2>1. CASE booted BY <2>1, <1>6
  <2>2. CASE ~booted BY <2>2, <1>7, EmptySeq
  <2>. QED BY <2>1, <2>2
<1>9. Len(toDevice') <= 9
  BY <1>2, PlacesOnLine
<1>10. Aligned'
  BY <1>5, <1>8, <1>9 DEF Aligned
<1>11. TypeOK'
  BY <1>2, <1>8 DEF TypeOK, Deliver, host
<1>12. Answered'
  BY <1>1 DEF Answered, ConnectedInStep, Silent, Deliver, host
<1> QED
  BY <1>10, <1>11, <1>12 DEF Deliver

(* The buffer is lost, and perhaps the end of an answer.                   *)
LEMMA ResetStep == HandshakeInv /\ Reset => HandshakeInv'
<1> SUFFICES ASSUME HandshakeInv, Reset PROVE HandshakeInv'
  OBVIOUS
<1> USE DEF HandshakeInv
<1>1. toHost \in Seq(Bytes) /\ toDevice \in Seq(Bytes) /\ phase # "connected"
  BY DEF TypeOK, Reset
<1>2. PICK n \in 0 .. Len(toHost) : toHost' = SubSeq(toHost, 1, n)
  BY DEF Reset
<1>3. /\ toHost' \in Seq(Bytes) /\ Len(toHost') = n
      /\ \A i \in 1 .. n : toHost'[i] = toHost[i]
  BY <1>1, <1>2, FrontProperties
<1>4. received' = <<>> /\ Len(received') = 0 /\ toDevice' = toDevice
  BY EmptySeq DEF Reset
<1>5. TypeOK'
  <2>1. received' \in Seq(Bytes)
    BY <1>4, EmptySeq
  <2>2. faults' \in 0 .. MaxFaults
    BY SerialHandshakeAssumption DEF TypeOK, Reset
  <2>. QED
    BY <1>1, <1>3, <1>4, <2>1, <2>2 DEF TypeOK, Reset
<1>6. Aligned'
  <2>1. Arrived' = Arrived /\ Taken' = Arrived
    BY <1>4, PlacesOnLine DEF Arrived, Taken
  <2>2. \A i \in 1 .. Len(received') : received'[i] = Line[Taken' + i]
    BY <1>4
  <2>3. Taken' >= 0
    BY <2>1, PlacesOnLine
  <2>. QED
    BY <1>4, <2>1, <2>2, <2>3 DEF Aligned
<1>7. ASSUME NEW t, Begins(toHost, t)
      PROVE  Begins(toHost', t)
  <2>1. Len(toHost) \in Nat /\ n \in Nat /\ n <= Len(toHost) /\ n = Len(toHost')
    BY <1>1, <1>3, LenProperties
  <2>2. Len(toHost) <= Len(t) /\ \A i \in 1 .. Len(toHost) : toHost[i] = t[i]
    BY <1>7 DEF Begins
  <2>3. \A i \in 1 .. Len(toHost') : i \in 1 .. Len(toHost) /\ i \in 1 .. n
    BY <2>1
  <2>4. \A i \in 1 .. Len(toHost') : toHost'[i] = t[i]
    BY <2>2, <2>3, <1>3
  <2>. QED
    BY <2>2, <2>4, <1>2 DEF Begins
<1>8. Silent => Silent'
  BY <1>4 DEF Silent
<1>9. toHost[1] = NCK[1] => toHost' = <<>> \/ toHost'[1] = NCK[1]
  <2>1. CASE n = 0
    BY <2>1, <1>3, EmptySeq
  <2>2. CASE n # 0
    BY <2>2, <1>3
  <2>. QED
    BY <2>1, <2>2
<1>10. toHost = <<>> => toHost' = <<>>
  BY <1>3, <1>2, EmptySeq
<1>11. Answered'
  BY <1>1, <1>7, <1>8, <1>9, <1>10 DEF Answered, ConnectedInStep, Reset
<1> QED
  BY <1>5, <1>6, <1>11 DEF Reset

(* While something is under way, no answer to a whole hello is.            *)
LEMMA AnsweredWhileHeard ==
    ASSUME Answered, ~Silent, phase' = phase,
           phase = "response" => toHost' = <<>> \/ toHost'[1] = NCK[1]
    PROVE  Answered'
BY DEF Answered, ConnectedInStep, Silent

LEMMA RejectHeaderStep == HandshakeInv /\ RejectHeader => HandshakeInv'
<1> SUFFICES ASSUME HandshakeInv, RejectHeader PROVE HandshakeInv'
  OBVIOUS
<1> USE DEF HandshakeInv
<1>1. HasHeader /\ booted /\ ~Silent
  BY HeaderIsHeard DEF RejectHeader
<1>2. received' \in Seq(Bytes) /\ Aligned'
  <2>1. HeaderLength \in Nat /\ HeaderLength <= Len(received)
    BY <1>1, PlacesOnLine DEF HasHeader, HeaderLength
  <2>. QED
    BY <2>1, Interpreted DEF RejectHeader
<1>3. toHost \in Seq(Bytes) /\ toHost' = toHost \o NCK
  BY DEF TypeOK, RejectHeader
<1>4. /\ toHost' \in Seq(Bytes)
      /\ \A i \in 1 .. Len(toHost) : toHost'[i] = toHost[i]
      /\ \A i \in 1 .. Len(NCK) : toHost'[i + Len(toHost)] = NCK[i]
  <2>1. toHost \in Seq(Bytes) /\ NCK \in Seq(Bytes)
    BY <1>3, ResponseBytes
  <2>. QED
    BY <2>1, <1>3, ConcatPlaces, Zenon
<1>5. ASSUME toHost = <<>> \/ toHost[1] = NCK[1]
      PROVE  toHost'[1] = NCK[1]
  <2>1. CASE toHost = <<>>
    BY <2>1, <1>3, ConcatEmptySeq, ResponseBytes
  <2>2. CASE toHost # <<>>
    <3>1. 1 \in 1 .. Len(toHost)
      BY <2>2, <1>3, EmptySeq
    <3>. QED
      BY <3>1, <2>2, <1>5, <1>4
  <2>. QED
    BY <2>1, <2>2
<1>6. TypeOK'
  BY <1>1, <1>2, <1>4 DEF TypeOK, RejectHeader
<1>7. Answered'
  <2>1. phase = "response" => toHost = <<>> \/ toHost[1] = NCK[1]
    BY <1>1 DEF Answered
  <2>. QED
    BY <1>1, <1>5, <2>1, AnsweredWhileHeard DEF RejectHeader
<1> QED
  BY <1>2, <1>6, <1>7 DEF RejectHeader

LEMMA DispatchOtherStep == HandshakeInv /\ DispatchOther => HandshakeInv'
<1> SUFFICES ASSUME HandshakeInv, DispatchOther PROVE HandshakeInv'
  OBVIOUS
<1> USE DEF HandshakeInv
<1>1. HasHeader /\ ~TooLong /\ Command # 0 /\ booted /\ ~Silent
  BY HeaderIsHeard DEF DispatchOther, HasData
<1>2. Command > 3 /\ DataLength = 0
  BY <1>1, HeaderOnLine
<1>3. received' \in Seq(Bytes) /\ Aligned'
  <2>1. HeaderLength + DataLength \in Nat /\ HeaderLength + DataLength <= Len(received)
    BY <1>1, <1>2, PlacesOnLine DEF HasHeader, HeaderLength
  <2>. QED
    BY <2>1, Interpreted DEF DispatchOther
<1>4. ~misread'
  <2>1. Command \notin 1 .. 3
    BY <1>2
  <2>. QED
    BY <2>1 DEF HandshakeInv, DispatchOther
<1>5. TypeOK'
  BY <1>1, <1>3, <1>4 DEF TypeOK, DispatchOther, host
<1>6. Answered'
  BY <1>1, AnsweredWhileHeard DEF Answered, DispatchOther, host
<1> QED
  BY <1>3, <1>4, <1>5, <1>6


(* The first answer with ACK is the whole answer to the whole hello, and   *)
(* nothing is left behind it for the device.                               *)
LEMMA DispatchEchoStep == HandshakeInv /\ DispatchEcho => HandshakeInv'
<1> SUFFICES ASSUME HandshakeInv, DispatchEcho PROVE HandshakeInv'
  OBVIOUS
<1> USE DEF HandshakeInv
<1>1. /\ HasHeader /\ ~TooLong /\ Command = 0 /\ booted /\ ~Silent
      /\ Len(received) >= HeaderLength + DataLength
  BY HeaderIsHeard DEF DispatchEcho, HasData
<1>2. Taken = 3 /\ DataLength = 5
  BY <1>1, HeaderOnLine
<1>3. /\ HeaderLength + DataLength = 9 /\ HeaderLength + 1 = 5
      /\ Len(received) = 9 /\ Arrived = 12
  BY <1>1, <1>2, PlacesOnLine DEF HeaderLength
<1>4. received' \in Seq(Bytes) /\ Len(received') = 0 /\ Aligned'
  BY <1>3, Interpreted DEF DispatchEcho
<1>5. Silent'
  <2>1. Len(toDevice) = 0 /\ toDevice \in Seq(Bytes)
    BY <1>3, PlacesOnLine DEF Arrived, TypeOK
  <2>. QED
    BY <1>4, <2>1, EmptySeq DEF Silent, DispatchEcho
<1>6. SubSeq(received, 5, 9) = Hello
  <2>1. \A i \in 5 .. 9 : received[i] \in Bytes /\ received[i] = Line[3 + i]
    <3>1. \A i \in 5 .. 9 : i \in 1 .. Len(received)
      BY <1>3
    <3>. QED
      BY <3>1, <1>2, ElementOfSeq DEF TypeOK, Aligned
  <2>2. /\ SubSeq(received, 5, 9) \in Seq(Bytes)
        /\ Len(SubSeq(received, 5, 9)) = 5
        /\ \A i \in 1 .. 5 : SubSeq(received, 5, 9)[i] = received[5 + i - 1]
    BY <2>1, SubSeqProperties
  <2>3. \A i \in {1, 2, 3, 4, 5} : Line[3 + (5 + i - 1)] = Hello[i]
    BY LineBytes, HelloBytes
  <2>4. \A i \in 1 .. 5 : i \in {1, 2, 3, 4, 5} /\ 5 + i - 1 \in 5 .. 9
    OBVIOUS
  <2>5. \A i \in 1 .. 5 : SubSeq(received, 5, 9)[i] = Hello[i]
    BY <2>1, <2>2, <2>3, <2>4
  <2>. QED
    BY <2>2, <2>5, HelloBytes, SeqEqual
<1>7. toHost \in Seq(Bytes) /\ toHost' = toHost \o ACK \o Hello
  BY <1>3, <1>6 DEF DispatchEcho, TypeOK
<1>8. ACK \in Seq(Bytes) /\ Hello \in Seq(Bytes)
  BY ResponseBytes, HelloBytes
<1>9. /\ toHost \o ACK \in Seq(Bytes)
      /\ \A i \in 1 .. Len(toHost) : (toHost \o ACK)[i] = toHost[i]
      /\ Len(toHost \o ACK) = Len(toHost) + Len(ACK)
  BY <1>7, <1>8, ConcatPlaces, Zenon
<1>10. /\ toHost' \in Seq(Bytes)
       /\ \A i \in 1 .. Len(toHost \o ACK) : toHost'[i] = (toHost \o ACK)[i]
  BY <1>7, <1>8, <1>9, ConcatPlaces, Zenon
<1>11. toHost = <<>> => toHost' = ACK \o Hello
  BY <1>7, <1>8, ConcatEmptySeq
<1>12. ASSUME toHost # <<>>
       PROVE  toHost'[1] = toHost[1]
  <2>1. Len(toHost) >= 1 /\ Len(toHost) \in Nat
    BY <1>7, <1>12, EmptySeq
  <2>2. 1 \in 1 .. Len(toHost) /\ 1 \in 1 .. Len(toHost \o ACK)
    BY <2>1, <1>9, ResponseBytes
  <2>. QED
    BY <2>2, <1>9, <1>10
<1>13. Begins(ACK \o Hello, ACK \o Hello)
  <2>1. Len(ACK \o Hello) \in Nat
    BY <1>8, ConcatPlaces, LenProperties
  <2>. QED
    BY <2>1 DEF Begins
<1>14. Answered'
  <2>1. phase = "response" => toHost = <<>> \/ toHost[1] = NCK[1]
    BY <1>1 DEF Answered
  <2>2. phase # "data" /\ phase # "connected"
    BY <1>1 DEF Answered, ConnectedInStep, Silent
  <2>3. phase' = phase
    BY DEF DispatchEcho
  <2>. QED
    BY <1>5, <1>11, <1>12, <1>13, <2>1, <2>2, <2>3 DEF Answered, ConnectedInStep
<1>15. TypeOK'
  BY <1>1, <1>4, <1>10 DEF TypeOK, DispatchEcho
<1> QED
  BY <1>4, <1>14, <1>15 DEF DispatchEcho

-----------------------------------------------------------------------------
(* The steps of the host.                                                  *)

(* Whatever end of hello is left in the device, a new one goes behind it.  *)
LEMMA SendHelloStep == HandshakeInv /\ SendHello => HandshakeInv'
<1> SUFFICES ASSUME HandshakeInv, SendHello PROVE HandshakeInv'
  OBVIOUS
<1> USE DEF HandshakeInv
<1>1. toDevice = <<>> /\ Arrived = 12 /\ Len(received) <= 3
  BY QuietHoldsLittle DEF SendHello
<1>2. toDevice' = Frame
  BY <1>1, FrameBytes, ConcatEmptySeq DEF SendHello
<1>3. received' = received /\ Taken = 12 - Len(received) /\ Len(received) \in Nat
  BY <1>1, PlacesOnLine DEF SendHello
<1>4. Arrived' = 3 /\ Taken' = 3 - Len(received)
  BY <1>2, <1>3, FrameBytes DEF Arrived, Taken
<1>5. \A i \in 1 .. Len(toDevice') : toDevice'[i] = Line[Arrived' + i]
  BY <1>2, <1>4, FrameBytes
<1>6. \A i \in 1 .. Len(received') : received'[i] = Line[Taken' + i]
  <2>. SUFFICES ASSUME NEW i \in 1 .. Len(received)
                PROVE  received[i] = Line[Taken' + i]
    BY <1>3
  <2>1. received[i] = Line[Taken + i]
    BY DEF Aligned
  <2>2. 3 - Len(received) + i \in {1, 2, 3} /\ Taken + i = 9 + (3 - Len(received) + i)
    BY <1>1, <1>3
  <2>3. \A k \in {1, 2, 3} : Line[9 + k] = Line[k]
    <3>. /\ 9 + 1 = 10 /\ 9 + 2 = 11 /\ 9 + 3 = 12
      OBVIOUS
    <3>. QED
      BY LineNumbers
  <2>. QED
    BY <2>1, <2>2, <2>3, <1>4
<1>7. Aligned'
  <2>1. Taken' >= 0 /\ Len(toDevice') <= 9
    BY <1>1, <1>2, <1>3, <1>4, FrameBytes
  <2>. QED
    BY <1>5, <1>6, <2>1 DEF Aligned
<1>8. TypeOK'
  BY <1>2, FrameBytes, EmptySeq DEF TypeOK, SendHello
<1>9. Answered'
  BY DEF Answered, ConnectedInStep, SendHello
<1> QED
  BY <1>7, <1>8, <1>9 DEF SendHello


(* ACK at the front is that of the answer to a whole hello.                *)
LEMMA ReadResponseStep == HandshakeInv /\ ReadResponse => HandshakeInv'
<1> SUFFICES ASSUME HandshakeInv, ReadResponse PROVE HandshakeInv'
  OBVIOUS
<1> USE DEF HandshakeInv
<1>1. toHost \in Seq(Bytes) /\ phase = "response" /\ Len(toHost) >= 3 /\ Len(toHost) \in Nat
  BY ResponseBytes, LenProperties DEF ReadResponse, TypeOK
<1>2. 3 \in 0 .. Len(toHost)
  BY <1>1
<1>3. /\ toHost' \in Seq(Bytes) /\ Len(toHost') = Len(toHost) - 3
      /\ \A i \in 1 .. Len(toHost) - 3 : toHost'[i] = toHost[3 + i]
  <2>1. toHost' = After(toHost, 3)
    BY ResponseBytes DEF ReadResponse
  <2>. QED
    BY <1>1, <1>2, <2>1, AfterProperties
<1>4. phase' \in {"data", "failed"}
  BY DEF ReadResponse
<1>5. ASSUME phase' = "data"
      PROVE  Silent' /\ Begins(toHost', Hello)
  <2>1. SubSeq(toHost, 1, 3) = ACK
    BY <1>5, ResponseBytes DEF ReadResponse
  <2>2. SubSeq(toHost, 1, 3)[1] = toHost[1]
    BY <1>1, <1>2, FrontProperties
  <2>3. toHost[1] = 65 /\ toHost # <<>>
    BY <2>1, <2>2, <1>1, ResponseBytes, EmptySeq
  <2>4. Silent /\ Begins(toHost, ACK \o Hello)
    BY <1>1, <2>3, ResponseBytes DEF Answered
  <2>5. /\ Len(ACK \o Hello) = 8
        /\ \A i \in 1 .. 5 : (ACK \o Hello)[i + 3] = Hello[i]
    <3>1. ACK \in Seq(Bytes) /\ Hello \in Seq(Bytes) /\ Len(ACK) = 3 /\ Len(Hello) = 5
      BY ResponseBytes, HelloBytes
    <3>2. /\ Len(ACK \o Hello) = Len(ACK) + Len(Hello)
          /\ \A i \in 1 .. Len(Hello) : (ACK \o Hello)[i + Len(ACK)] = Hello[i]
      BY ONLY <3>1, ConcatPlaces, Zenon
    <3>3. Len(ACK) = 3 /\ Len(Hello) = 5
      BY <3>1
    <3>. QED
      BY ONLY <3>2, <3>3
  <2>6. Len(toHost) <= 8 /\ Len(toHost') <= 5 /\ Len(toHost') \in Nat
    <3>1. Len(toHost) <= 8
      BY <2>4, <2>5 DEF Begins
    <3>. QED
      BY ONLY <3>1, <1>1, <1>3
  <2>7. ASSUME NEW i \in 1 .. Len(toHost')
        PROVE  toHost'[i] = Hello[i]
    <3>. i \in Int /\ 1 <= i /\ i <= Len(toHost')
      BY <2>6
    <3>1. i \in 1 .. 5 /\ i \in 1 .. Len(toHost) - 3 /\ i + 3 = 3 + i /\ 3 + i \in 1 .. Len(toHost)
      BY <2>6, <1>1, <1>3
    <3>2. toHost[3 + i] = (ACK \o Hello)[3 + i]
      BY <3>1, <2>4 DEF Begins
    <3>. QED
      BY <3>1, <3>2, <1>3, <2>5
  <2>8. Begins(toHost', Hello)
    BY <2>6, <2>7, HelloBytes DEF Begins
  <2>. QED
    BY <2>4, <2>8 DEF Silent, ReadResponse
<1>6. Aligned'
  BY DEF Aligned, Arrived, Taken, ReadResponse
<1>7. TypeOK'
  BY <1>3, <1>4 DEF TypeOK, ReadResponse
<1>8. Answered'
  BY <1>4, <1>5 DEF Answered, ConnectedInStep, Begins
<1> QED
  BY <1>6, <1>7, <1>8 DEF ReadResponse

(* Five bytes of the answer are all of it.                                 *)
LEMMA ReadDataStep == HandshakeInv /\ ReadData => HandshakeInv'
<1> SUFFICES ASSUME HandshakeInv, ReadData PROVE HandshakeInv'
  OBVIOUS
<1> USE DEF HandshakeInv
<1>1. toHost \in Seq(Bytes) /\ phase = "data" /\ Len(toHost) >= 5 /\ Len(toHost) \in Nat
  BY HelloBytes, LenProperties DEF ReadData, TypeOK
<1>2. Silent /\ Len(toHost) = 5
  BY <1>1, HelloBytes DEF Answered, Begins
<1>3. toHost' \in Seq(Bytes) /\ Len(toHost') = 0
  <2>1. toHost' = After(toHost, 5)
    BY HelloBytes DEF ReadData
  <2>2. 5 \in 0 .. Len(toHost)
    BY <1>1
  <2>3. /\ After(toHost, 5) \in Seq(Bytes)
        /\ Len(After(toHost, 5)) = Len(toHost) - 5
    BY <1>1, <2>2, AfterProperties
  <2>. QED
    BY <1>2, <2>1, <2>3
<1>4. phase' \in {"connected", "sleep"}
  BY DEF ReadData
<1>5. Silent' /\ toHost' = <<>>
  BY <1>2, <1>3, EmptySeq DEF Silent, ReadData
<1>6. Aligned'
  BY DEF Aligned, Arrived, Taken, ReadData
<1>7. TypeOK'
  BY <1>3, <1>4 DEF TypeOK, ReadData
<1>8. Answered'
  BY <1>4, <1>5 DEF Answered, ConnectedInStep, Silent
<1> QED
  BY <1>6, <1>7, <1>8 DEF ReadData

LEMMA TimeOutStep == HandshakeInv /\ TimeOut => HandshakeInv'
<1> SUFFICES ASSUME HandshakeInv, TimeOut PROVE HandshakeInv'
  OBVIOUS
<1> USE DEF HandshakeInv
<1>1. faults' \in 0 .. MaxFaults
  BY SerialHandshakeAssumption DEF TypeOK, TimeOut
<1>2. TypeOK'
  BY <1>1, EmptySeq DEF TypeOK, TimeOut
<1>3. Aligned'
  BY DEF Aligned, Arrived, Taken, TimeOut
<1>4. Answered'
  BY DEF Answered, ConnectedInStep, TimeOut
<1> QED
  BY <1>2, <1>3, <1>4 DEF TimeOut

LEMMA RetryStep == HandshakeInv /\ Retry => HandshakeInv'
<1> SUFFICES ASSUME HandshakeInv, Retry PROVE HandshakeInv'
  OBVIOUS
<1> USE DEF HandshakeInv
<1>1. TypeOK'
  BY DEF TypeOK, Retry
<1>2. Aligned'
  BY DEF Aligned, Arrived, Taken, Retry
<1>3. Answered'
  BY DEF Answered, ConnectedInStep, Retry
<1> QED
  BY <1>1, <1>2, <1>3 DEF Retry

-----------------------------------------------------------------------------
(* The theorems.                                                           *)

LEMMA HandshakeStep == HandshakeInv /\ [Next]_handshakeVars => HandshakeInv'
<1> SUFFICES ASSUME HandshakeInv, [Next]_handshakeVars PROVE HandshakeInv'
  OBVIOUS
<1>1. CASE Boot BY <1>1, BootStep
<1>2. CASE RejectHeader BY <1>2, RejectHeaderStep
<1>3. CASE DispatchEcho BY <1>3, DispatchEchoStep
<1>4. CASE DispatchOther BY <1>4, DispatchOtherStep
<1>5. CASE Deliver BY <1>5, DeliverStep
<1>6. CASE Reset BY <1>6, ResetStep
<1>7. CASE SendHello BY <1>7, SendHelloStep
<1>8. CASE ReadResponse BY <1>8, ReadResponseStep
<1>9. CASE ReadData BY <1>9, ReadDataStep
<1>10. CASE TimeOut BY <1>10, TimeOutStep
<1>11. CASE Retry BY <1>11, RetryStep
<1>12. CASE UNCHANGED handshakeVars
  BY <1>12 DEF handshakeVars, host, HandshakeInv, TypeOK, Aligned, Arrived, Taken,
               Answered, ConnectedInStep, Silent, Begins
<1> QED
  BY <1>1, <1>2, <1>3, <1>4, <1>5, <1>6, <1>7, <1>8, <1>9, <1>10, <1>11, <1>12
  DEF Next, Device, Host

LEMMA HandshakeInit == Init => HandshakeInv
<1> SUFFICES ASSUME Init PROVE HandshakeInv
  OBVIOUS
<1>1. /\ toDevice = <<>> /\ received = <<>> /\ toHost = <<>>
      /\ phase = "sleep" /\ booted \in BOOLEAN /\ ~misread /\ misread \in BOOLEAN /\ faults = 0
  BY DEF Init
<1>2. Len(toDevice) = 0 /\ Len(received) = 0
  BY <1>1, EmptySeq
<1>3. TypeOK
  BY <1>1, EmptySeq, SerialHandshakeAssumption DEF TypeOK
<1>4. Aligned
  BY <1>2 DEF Aligned, Arrived, Taken
<1>5. Answered
  BY <1>1 DEF Answered, ConnectedInStep
<1> QED
  BY <1>1, <1>3, <1>4, <1>5 DEF HandshakeInv

LEMMA HandshakeInvariant == Spec => []HandshakeInv
BY HandshakeInit, HandshakeStep, PTL DEF Spec

(* However often the device is reset and answers come late, streams hold   *)
(* bytes and a device that is off has heard none                           *)
(* (PyroxeneSerialCommunicator.__init__, pyroxene_dispatcher).             *)
THEOREM HandshakeTypes == Spec => []TypeOK
<1>1. HandshakeInv => TypeOK
  BY DEF HandshakeInv
<1> QED
  BY <1>1, HandshakeInvariant, PTL

(* However often the device is reset and answers come late, a host that is *)
(* connected and its device agree on where a frame begins, and nothing of  *)
(* an earlier attempt is under way (PyroxeneSerialCommunicator.__init__).  *)
THEOREM ConnectedHostsAreInStep == Spec => []ConnectedInStep
<1>1. HandshakeInv => ConnectedInStep
  BY DEF HandshakeInv, Answered
<1> QED
  BY <1>1, HandshakeInvariant, PTL

(* However much of hello the device has missed, and however often, it      *)
(* takes none of it for a read, a write or a call, and waits for no more   *)
(* data than hello has (pyroxene_dispatcher).                              *)
THEOREM HelloIsNeverMisread == Spec => []NeverMisread
<1>1. HandshakeInv => NeverMisread
  <2>. SUFFICES ASSUME HandshakeInv PROVE NeverMisread
    OBVIOUS
  <2>1. HasHeader => TooLong \/ DataLength = 5 \/ DataLength = 0
    BY HeaderOnLine DEF HandshakeInv
  <2>. QED
    BY <2>1, HelloBytes DEF NeverMisread, HandshakeInv
<1> QED
  BY <1>1, HandshakeInvariant, PTL


=============================================================================
