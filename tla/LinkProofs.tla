------------------------------ MODULE LinkProofs ------------------------------
(***************************************************************************)
(* Theorems about Link for any buffer size, any memory, any requests and   *)
(* any text a function prints; where the requests have to be ones the      *)
(* device can serve the theorem says so.                                   *)
(***************************************************************************)
EXTENDS Link, TLAPS, SequenceTheorems

-----------------------------------------------------------------------------
(* The parts of the inductive invariant.                                   *)

Issued == [cmd : Echo .. Call, addr : Nat, data : Seq(Nat), size : Nat]

(* A length the device has accepted fits its buffer until the command is   *)
(* over; only the device sends markers.                                    *)
Typed ==
    /\ toDevice \in Seq(Nat)
    /\ toHost \in Seq(Cells)
    /\ reply \in Seq(Cells)
    /\ raised \in BOOLEAN
    /\ pc \in {"header", "data", "dispatch", "fault"}
    /\ cmd \in Nat
    /\ length \in Nat
    /\ pc \in {"data", "dispatch"} => length <= MaxData
    /\ data \in [1 .. MaxData -> Nat]
    /\ memory \in [Addrs -> Nat]

(* Only memory_write changes what is left of its request.                  *)
Pursued ==
    /\ request = None => current = None
    /\ request # None => /\ request \in Requests
                         /\ current \in Issued
                         /\ current.cmd = request.cmd
                         /\ request.cmd # MemoryWrite => current = request

(* The stages of an exchange.  At each of them one frame or one answer is  *)
(* under way, or the device has the whole command.                         *)
Idle ==
    /\ request = None /\ ~raised
    /\ pc = "header" /\ toDevice = <<>> /\ toHost = <<>>

Asked == request # None /\ ~raised /\ toHost = <<>> /\ invoked = None

Travelling ==
    /\ Asked
    /\ pc = "header" /\ toDevice = Frame(current)

Announced ==
    /\ Asked
    /\ pc = "data" /\ toDevice = Payload(current)
    /\ cmd = current.cmd /\ length = Len(Payload(current))

Received ==
    /\ Asked
    /\ pc = "dispatch" /\ toDevice = <<>>
    /\ cmd = current.cmd /\ length = Len(Payload(current))
    /\ \A k \in 1 .. length : data[k] = Payload(current)[k]

(* What the answer says, and what has been done by then.                   *)
ResultOfCall == IF invoked = None THEN 0 ELSE invoked.result

AnswerCells ==
    CASE current.cmd = Echo -> current.data
      [] current.cmd = MemoryRead -> Slice(memory, current.addr, current.size)
      [] current.cmd = MemoryWrite -> <<>>
      [] current.cmd = Call -> SubSeq(<<ResultOfCall>>, 1, NumbytesReturn(current))

PortionStored ==
    \A k \in 1 .. Len(Portion(current.data)) :
        /\ current.addr + k - 1 \in Addrs
        /\ memory[current.addr + k - 1] = current.data[k]

CallOf(r, v) == [addr |-> r.addr, args |-> r.data, result |-> v]

Performed ==
    IF current.cmd = Call /\ Len(current.data) <= MaxParams
    THEN \E v \in Values : invoked = CallOf(current, v) /\ current.addr \in Funcs
    ELSE invoked = None

Answering ==
    /\ request # None /\ ~raised
    /\ pc = "header" /\ toDevice = <<>>
    /\ \/ toHost = <<ACK>> \o AnswerCells
       \/ \E t \in Texts : toHost = LogFrame(t) \o (<<ACK>> \o AnswerCells)
    /\ current.cmd = MemoryRead => Accessible(current.addr, current.size)
    /\ current.cmd = MemoryWrite => PortionStored
    /\ Performed

(* An exception has left command, will leave it, or the device is lost.    *)
Unanswerable == toHost # <<>> /\ Head(toHost) # ACK /\ ~(LogSupport /\ Head(toHost) = LOG)

Broken ==
    \/ raised /\ request = None
    \/ ~raised /\ request # None /\ Unanswerable
    \/ ~raised /\ request # None /\ pc = "fault" /\ toHost = <<>>

Staged == Idle \/ Travelling \/ Announced \/ Received \/ Answering \/ Broken

LinkInv == Typed /\ Pursued /\ Staged

(* Requests the device can serve, and a host that knows LOG frames when    *)
(* functions print.                                                        *)
Servable(r) ==
    /\ r.cmd = Echo => Len(r.data) <= MaxData
    /\ r.cmd = MemoryRead => Accessible(r.addr, r.size)
    /\ r.cmd = MemoryWrite => Accessible(r.addr, Len(r.data))
    /\ r.cmd = Call => r.addr \in Funcs /\ Len(r.data) <= MaxParams

ServableRequests == \A r \in Requests : Servable(r)

PrintingSupported == LogSupport \/ Texts = {}

Unbroken == ~Broken /\ (request # None => Servable(current))

-----------------------------------------------------------------------------
(* What the readers of a stream find at its front.                         *)

(* Reading all of what was sent first leaves what was sent next.           *)
LEMMA AfterFront ==
    ASSUME NEW S, NEW s \in Seq(S), NEW t \in Seq(S)
    PROVE  After(s \o t, Len(s)) = t
<1>. DEFINE u == s \o t
<1>1. /\ u \in Seq(S) /\ Len(u) = Len(s) + Len(t)
      /\ \A k \in 1 .. Len(t) : u[Len(s) + k] = t[k]
  BY ConcatProperties, LenProperties
<1>2. \A k \in Len(s) + 1 .. Len(u) : u[k] \in S
  BY <1>1, ElementOfSeq, LenProperties
<1>. HIDE DEF u
<1>3. Len(s) \in Nat /\ Len(t) \in Nat
  BY LenProperties
<1>4. /\ SubSeq(u, Len(s) + 1, Len(u)) \in Seq(S)
      /\ Len(SubSeq(u, Len(s) + 1, Len(u))) = Len(t)
      /\ \A k \in 1 .. Len(t) : SubSeq(u, Len(s) + 1, Len(u))[k] = t[k]
  BY <1>1, <1>2, <1>3, SubSeqProperties
<1>5. SubSeq(u, Len(s) + 1, Len(u)) = t
  BY <1>4, SeqEqual
<1>. QED BY <1>5 DEF u, After

LEMMA OneBefore ==
    ASSUME NEW S, NEW x \in S, NEW t \in Seq(S)
    PROVE  /\ <<x>> \o t \in Seq(S)
           /\ Len(<<x>> \o t) = 1 + Len(t)
           /\ (<<x>> \o t)[1] = x
           /\ \A k \in 1 .. Len(t) : (<<x>> \o t)[k + 1] = t[k]
BY ConcatProperties, LenProperties

LEMMA TwoBefore ==
    ASSUME NEW S, NEW x \in S, NEW y \in S, NEW t \in Seq(S)
    PROVE  /\ <<x, y>> \o t \in Seq(S)
           /\ Len(<<x, y>> \o t) = 2 + Len(t)
           /\ (<<x, y>> \o t)[1] = x
           /\ (<<x, y>> \o t)[2] = y
           /\ After(<<x, y>> \o t, 2) = t
<1>1. /\ <<x, y>> \o t \in Seq(S)
      /\ Len(<<x, y>> \o t) = 2 + Len(t)
      /\ (<<x, y>> \o t)[1] = x
      /\ (<<x, y>> \o t)[2] = y
  BY ConcatProperties, LenProperties
<1>2. <<x, y>> \in Seq(S) /\ Len(<<x, y>>) = 2
  OBVIOUS
<1>3. After(<<x, y>> \o t, Len(<<x, y>>)) = t
  BY <1>2, AfterFront
<1>. QED BY <1>1, <1>2, <1>3, Zenon

LEMMA ThreeBefore ==
    ASSUME NEW x \in Nat, NEW y \in Nat, NEW z \in Nat, NEW t \in Seq(Nat)
    PROVE  /\ <<x, y, z>> \o t \in Seq(Nat)
           /\ Len(<<x, y, z>> \o t) = 3 + Len(t)
           /\ (<<x, y, z>> \o t)[1] = x
           /\ (<<x, y, z>> \o t)[2] = y
           /\ (<<x, y, z>> \o t)[3] = z
           /\ \A k \in 1 .. Len(t) : (<<x, y, z>> \o t)[k + 3] = t[k]
BY ConcatProperties, LenProperties

LEMMA AfterAll ==
    ASSUME NEW S, NEW s \in Seq(S)
    PROVE  After(s, Len(s)) = <<>>
<1>1. <<>> \in Seq(S) /\ s \o <<>> = s
  BY EmptySeq, ConcatEmptySeq
<1>2. After(s \o <<>>, Len(s)) = <<>>
  BY <1>1, AfterFront
<1>. QED BY <1>1, <1>2

LEMMA HeadOfConcat ==
    ASSUME NEW S, NEW s \in Seq(S), NEW t \in Seq(S), s # <<>>
    PROVE  /\ s \o t \in Seq(S)
           /\ s \o t # <<>>
           /\ Head(s \o t) = Head(s)
<1>1. /\ s \o t \in Seq(S) /\ Len(s \o t) = Len(s) + Len(t)
      /\ \A k \in 1 .. Len(s) : (s \o t)[k] = s[k]
  BY ConcatProperties, LenProperties
<1>2. Len(s) \in Nat \ {0} /\ Len(t) \in Nat
  BY EmptySeq, LenProperties
<1>3. s \o t # <<>>
  BY <1>1, <1>2, EmptySeq
<1>4. (s \o t)[1] = s[1]
  BY <1>1, <1>2
<1>. QED BY <1>1, <1>3, <1>4

(* A read from somewhere within a stream.                                  *)
LEMMA PartOfSeq ==
    ASSUME NEW S, NEW s \in Seq(S), NEW m \in Nat \ {0}, NEW n \in Int, n <= Len(s)
    PROVE  /\ SubSeq(s, m, n) \in Seq(S)
           /\ Len(SubSeq(s, m, n)) = IF m <= n THEN n - m + 1 ELSE 0
           /\ \A k \in 1 .. n - m + 1 : SubSeq(s, m, n)[k] = s[m + k - 1]
<1>1. Len(s) \in Nat
  BY LenProperties
<1>2. \A k \in m .. n : s[k] \in S
  BY <1>1, ElementOfSeq
<1>. QED BY <1>2, SubSeqProperties

-----------------------------------------------------------------------------
(* The frames of the host.                                                 *)
LEMMA PortionProperties ==
    ASSUME NEW d \in Seq(Nat)
    PROVE  /\ Portion(d) \in Seq(Nat)
           /\ Len(Portion(d)) \in Nat
           /\ Len(Portion(d)) <= Len(d)
           /\ 1 + Len(Portion(d)) <= MaxData
           /\ d # <<>> => Len(Portion(d)) > 0
           /\ \A k \in 1 .. Len(Portion(d)) : Portion(d)[k] = d[k]
<1>. DEFINE room == CmdMaxLength - SizeofLong - HeaderLength
            n == IF Len(d) < room THEN Len(d) ELSE room
<1>1. Len(d) \in Nat /\ room \in Nat \ {0} /\ 1 + room = MaxData
  BY WireAssumption, LenProperties DEF SizeofLong, HeaderLength, MaxData
<1>2. n \in Nat /\ n <= Len(d) /\ n <= room
  BY <1>1
<1>3. d # <<>> => n > 0
  BY <1>1, EmptySeq
<1>. HIDE DEF n
<1>4. /\ SubSeq(d, 1, n) \in Seq(Nat)
      /\ Len(SubSeq(d, 1, n)) = n
      /\ \A k \in 1 .. n : SubSeq(d, 1, n)[k] = d[k]
  BY <1>1, <1>2, PartOfSeq
<1>5. Portion(d) = SubSeq(d, 1, n)
  BY DEF Portion, n
<1>. HIDE DEF room
<1>. QED BY <1>1, <1>2, <1>3, <1>4, <1>5

LEMMA PayloadProperties ==
    ASSUME NEW r \in Issued
    PROVE  /\ Payload(r) \in Seq(Nat)
           /\ r.cmd = Echo => Payload(r) = r.data
           /\ r.cmd = MemoryRead => /\ Len(Payload(r)) = 2
                                    /\ Payload(r)[1] = r.addr
                                    /\ Payload(r)[2] = r.size
           /\ r.cmd = MemoryWrite =>
                 /\ Len(Payload(r)) = 1 + Len(Portion(r.data))
                 /\ Payload(r)[1] = r.addr
                 /\ \A k \in 1 .. Len(Portion(r.data)) : Payload(r)[k + 1] = r.data[k]
           /\ r.cmd = Call =>
                 /\ Len(Payload(r)) = 3 + Len(r.data)
                 /\ Payload(r)[1] = r.addr
                 /\ Payload(r)[2] = NumbytesReturn(r)
                 /\ Payload(r)[3] = Len(r.data)
                 /\ \A k \in 1 .. Len(r.data) : Payload(r)[k + 3] = r.data[k]
<1>. USE DEF Echo, MemoryRead, MemoryWrite, Call
<1>1. r.cmd \in 0 .. 3 /\ r.addr \in Nat /\ r.data \in Seq(Nat) /\ r.size \in Nat
  BY DEF Issued
<1>2. Len(r.data) \in Nat /\ NumbytesReturn(r) \in Nat
  BY <1>1, LenProperties DEF NumbytesReturn, SizeofLong
<1>3. CASE r.cmd = 0
  BY <1>1, <1>3 DEF Payload
<1>4. CASE r.cmd = 1
  <2>1. Payload(r) = <<r.addr, r.size>>
    BY <1>4 DEF Payload
  <2>. QED BY <1>1, <1>4, <2>1
<1>5. CASE r.cmd = 2
  <2>. DEFINE p == Portion(r.data)
  <2>1. Payload(r) = <<r.addr>> \o p
    BY <1>5 DEF Payload
  <2>2. p \in Seq(Nat) /\ Len(p) \in Nat /\ \A k \in 1 .. Len(p) : p[k] = r.data[k]
    BY <1>1, PortionProperties
  <2>. HIDE DEF p
  <2>3. /\ Payload(r) \in Seq(Nat)
        /\ Len(Payload(r)) = 1 + Len(p)
        /\ Payload(r)[1] = r.addr
        /\ \A k \in 1 .. Len(p) : Payload(r)[k + 1] = p[k]
    BY <1>1, <2>1, <2>2, OneBefore
  <2>. QED BY <1>5, <2>2, <2>3 DEF p
<1>6. CASE r.cmd = 3
  <2>1. Payload(r) = <<r.addr, NumbytesReturn(r), Len(r.data)>> \o r.data
    BY <1>6 DEF Payload
  <2>. DEFINE p == <<r.addr, NumbytesReturn(r), Len(r.data)>> \o r.data
  <2>2. /\ p \in Seq(Nat)
        /\ Len(p) = 3 + Len(r.data)
        /\ p[1] = r.addr
        /\ p[2] = NumbytesReturn(r)
        /\ p[3] = Len(r.data)
        /\ \A k \in 1 .. Len(r.data) : p[k + 3] = r.data[k]
    BY ONLY <1>1, <1>2, ThreeBefore
  <2>3. Payload(r) = p
    BY <2>1
  <2>. HIDE DEF p
  <2>. QED BY <1>6, <2>2, <2>3
<1>. QED BY <1>1, <1>3, <1>4, <1>5, <1>6

LEMMA FrameProperties ==
    ASSUME NEW r \in Issued
    PROVE  /\ Frame(r) \in Seq(Nat)
           /\ Frame(r) # <<>>
           /\ Len(Frame(r)) >= HeaderLength
           /\ Frame(r)[1] = r.cmd
           /\ Frame(r)[2] = Len(Payload(r))
           /\ After(Frame(r), HeaderLength) = Payload(r)
<1>. DEFINE p == Payload(r)
<1>1. p \in Seq(Nat) /\ Len(p) \in Nat /\ r.cmd \in Nat
  BY PayloadProperties, LenProperties DEF Issued, Echo, Call
<1>. HIDE DEF p
<1>2. /\ <<r.cmd, Len(p)>> \o p \in Seq(Nat)
      /\ Len(<<r.cmd, Len(p)>> \o p) = 2 + Len(p)
      /\ (<<r.cmd, Len(p)>> \o p)[1] = r.cmd
      /\ (<<r.cmd, Len(p)>> \o p)[2] = Len(p)
      /\ After(<<r.cmd, Len(p)>> \o p, 2) = p
  BY <1>1, TwoBefore
<1>3. <<r.cmd, Len(p)>> \o p # <<>> /\ Len(<<r.cmd, Len(p)>> \o p) >= 2
  BY <1>1, <1>2
<1>4. Frame(r) = <<r.cmd, Len(p)>> \o p
  BY DEF Frame, p
<1>. QED BY <1>2, <1>3, <1>4 DEF p, HeaderLength

-----------------------------------------------------------------------------
(* The answers of the device.                                              *)
LEMMA AnswerProperties ==
    ASSUME NEW a \in Seq(Cells)
    PROVE  /\ <<ACK>> \o a \in Seq(Cells)
           /\ <<ACK>> \o a # <<>>
           /\ Head(<<ACK>> \o a) = ACK
           /\ Len(<<ACK>> \o a) = 1 + Len(a)
           /\ After(<<ACK>> \o a, 1 + Len(a)) = <<>>
           /\ SubSeq(<<ACK>> \o a, 2, 1 + Len(a)) = a
<1>. DEFINE h == <<ACK>>
<1>1. h \in Seq(Cells) /\ Len(h) = 1 /\ h # <<>> /\ Head(h) = ACK
  BY DEF Cells
<1>. HIDE DEF h
<1>2. h \o a \in Seq(Cells) /\ h \o a # <<>> /\ Head(h \o a) = ACK
  BY ONLY <1>1, a \in Seq(Cells), HeadOfConcat, Zenon
<1>3. Len(h \o a) = 1 + Len(a) /\ Len(a) \in Nat
  <2>1. Len(h \o a) = Len(h) + Len(a)
    BY ONLY <1>1, a \in Seq(Cells), ConcatProperties, Zenon
  <2>2. Len(a) \in Nat
    BY LenProperties
  <2>. QED BY <1>1, <2>1, <2>2
<1>4. After(h \o a, 1 + Len(a)) = <<>>
  BY <1>2, <1>3, AfterAll
<1>5. After(h \o a, 1) = a
  BY <1>1, AfterFront
<1>6. SubSeq(h \o a, 2, 1 + Len(a)) = a
  BY <1>3, <1>5 DEF After
<1>. QED BY <1>2, <1>3, <1>4, <1>6 DEF h

LEMMA LogProperties ==
    ASSUME NEW t \in Seq(Cells), NEW h \in Seq(Cells)
    PROVE  /\ LogFrame(t) \in Seq(Cells)
           /\ LogFrame(t) \o h \in Seq(Cells)
           /\ LogFrame(t) \o h # <<>>
           /\ Head(LogFrame(t) \o h) = LOG
           /\ (LogFrame(t) \o h)[2] = Len(t)
           /\ Len(LogFrame(t) \o h) >= 2 + Len(t) /\ Len(t) \in Nat
           /\ After(LogFrame(t) \o h, 2 + Len(t)) = h
<1>. DEFINE f == <<LOG, Len(t)>> \o t
<1>1. Len(t) \in Nat /\ Len(t) \in Cells /\ LOG \in Cells
  BY LenProperties DEF Cells
<1>2. /\ f \in Seq(Cells) /\ Len(f) = 2 + Len(t)
      /\ f[1] = LOG /\ f[2] = Len(t)
  BY <1>1, TwoBefore
<1>3. LogFrame(t) = f
  BY DEF LogFrame
<1>. HIDE DEF f
<1>4. f # <<>> /\ Head(f) = LOG
  BY <1>1, <1>2
<1>5. f \o h \in Seq(Cells) /\ f \o h # <<>> /\ Head(f \o h) = LOG
  BY <1>2, <1>4, HeadOfConcat
<1>6. (f \o h)[2] = Len(t)
  BY <1>1, <1>2, ConcatProperties, LenProperties
<1>7. After(f \o h, Len(f)) = h
  BY <1>2, AfterFront
<1>8. Len(f \o h) >= 2 + Len(t)
  BY <1>1, <1>2, ConcatProperties, LenProperties
<1>. QED BY <1>1, <1>2, <1>3, <1>5, <1>6, <1>7, <1>8, Zenon

-----------------------------------------------------------------------------
(* Facts the steps share.                                                  *)
LEMMA Sizes ==
    /\ MaxData \in Nat /\ MaxData >= 3 + MaxParams /\ MaxParams \in Nat
    /\ MaxData = CmdMaxLength - 2
BY WireAssumption, DispatcherAssumption DEF MaxData, HeaderLength, SizeofLong

LEMMA Markers ==
    /\ Nat \subseteq Cells /\ ACK \in Cells /\ NCK \in Cells /\ LOG \in Cells
    /\ ACK # NCK /\ ACK # LOG /\ NCK # LOG
BY WireAssumption DEF Cells

LEMMA NatSeqIsCells == ASSUME NEW s \in Seq(Nat) PROVE s \in Seq(Cells)
BY Markers, SeqMonotonic

LEMMA AfterTyped ==
    ASSUME NEW S, NEW s \in Seq(S), NEW n \in Nat PROVE After(s, n) \in Seq(S)
<1>1. Len(s) \in Nat /\ n + 1 \in Nat \ {0}
  BY LenProperties
<1>. QED BY <1>1, PartOfSeq DEF After

(* Whatever the device sends, the first cell for the host stays.           *)
LEMMA BrokenStays ==
    ASSUME Typed, Broken, pc # "fault", UNCHANGED host,
           NEW u \in Seq(Cells), toHost' = toHost \o u
    PROVE  Broken'
<1>1. CASE raised /\ request = None
  BY <1>1 DEF Broken, host
<1>2. CASE ~raised /\ request # None /\ Unanswerable
  <2>1. toHost' # <<>> /\ Head(toHost') = Head(toHost)
    BY <1>2, HeadOfConcat DEF Typed, Unanswerable
  <2>. QED BY <1>2, <2>1 DEF Broken, Unanswerable, host
<1>. QED BY <1>1, <1>2 DEF Broken

LEMMA BrokenUntouched ==
    ASSUME Broken, pc # "fault" \/ pc' = pc, UNCHANGED host, toHost' = toHost
    PROVE  Broken'
BY DEF Broken, Unanswerable, host

(* Everything in the buffer and in memory is a number.                     *)
LEMMA DataTyped ==
    ASSUME Typed
    PROVE  /\ data \in Seq(Nat)
           /\ Len(data) = MaxData
           /\ \A k \in 1 .. MaxData : data[k] \in Nat
           /\ data[1] \in Nat /\ data[2] \in Nat /\ data[3] \in Nat
<1>1. MaxData \in Nat /\ MaxData >= 3 /\ data \in [1 .. MaxData -> Nat]
  BY Sizes DEF Typed
<1>. QED BY <1>1

(* The device has the command exactly as it was sent.                      *)
LEMMA ReceivedData ==
    ASSUME Typed, Pursued, Received
    PROVE  /\ current \in Issued
           /\ current = request \/ current.cmd = MemoryWrite
           /\ cmd = current.cmd
           /\ cmd = Echo => SubSeq(data, 1, length) = current.data
           /\ cmd = MemoryRead => data[1] = current.addr /\ data[2] = current.size
           /\ cmd = MemoryWrite => /\ data[1] = current.addr
                                   /\ length = 1 + Len(Portion(current.data))
                                   /\ \A k \in 1 .. Len(Portion(current.data)) :
                                         data[k + 1] = current.data[k]
           /\ cmd = Call => /\ data[1] = current.addr
                            /\ data[2] = NumbytesReturn(current)
                            /\ data[3] = Len(current.data)
                            /\ length = 3 + Len(current.data)
                            /\ SubSeq(data, 4, length) = current.data
<1>. DEFINE p == Payload(current)
<1>1. current \in Issued /\ cmd = current.cmd /\ length = Len(p) /\ length <= MaxData
      /\ \A k \in 1 .. length : data[k] = p[k]
  BY DEF Pursued, Received, Asked, Typed
<1>2. current = request \/ current.cmd = MemoryWrite
  BY DEF Pursued, Received, Asked
<1>3. /\ p \in Seq(Nat) /\ length \in Nat
      /\ cmd = Echo => p = current.data
      /\ cmd = MemoryRead => length = 2 /\ p[1] = current.addr /\ p[2] = current.size
      /\ cmd = MemoryWrite =>
            /\ length = 1 + Len(Portion(current.data))
            /\ p[1] = current.addr
            /\ \A k \in 1 .. Len(Portion(current.data)) : p[k + 1] = current.data[k]
      /\ cmd = Call =>
            /\ length = 3 + Len(current.data)
            /\ p[1] = current.addr
            /\ p[2] = NumbytesReturn(current)
            /\ p[3] = Len(current.data)
            /\ \A k \in 1 .. Len(current.data) : p[k + 3] = current.data[k]
  BY <1>1, PayloadProperties, LenProperties
<1>. HIDE DEF p
<1>4. data \in Seq(Nat) /\ Len(data) = MaxData /\ MaxData \in Nat
  BY DataTyped, Sizes
<1>5. current.data \in Seq(Nat) /\ Len(current.data) \in Nat
  BY <1>1, LenProperties DEF Issued
<1>6. ASSUME cmd = Echo PROVE SubSeq(data, 1, length) = current.data
  <2>1. /\ SubSeq(data, 1, length) \in Seq(Nat)
        /\ Len(SubSeq(data, 1, length)) = length
        /\ \A k \in 1 .. length : SubSeq(data, 1, length)[k] = data[k]
    BY <1>1, <1>3, <1>4, PartOfSeq
  <2>2. SubSeq(data, 1, length) = p
    BY <1>1, <1>3, <2>1, SeqEqual
  <2>. QED BY <1>3, <1>6, <2>2
<1>7. ASSUME cmd = MemoryRead PROVE data[1] = current.addr /\ data[2] = current.size
  <2>1. 1 \in 1 .. length /\ 2 \in 1 .. length
    BY <1>3, <1>7
  <2>. QED BY <1>1, <1>3, <1>7, <2>1
<1>8. ASSUME cmd = MemoryWrite
      PROVE  /\ data[1] = current.addr
             /\ length = 1 + Len(Portion(current.data))
             /\ \A k \in 1 .. Len(Portion(current.data)) : data[k + 1] = current.data[k]
  <2>1. Len(Portion(current.data)) \in Nat
    BY <1>5, PortionProperties
  <2>. QED BY <1>1, <1>3, <1>8, <2>1
<1>9. ASSUME cmd = Call
      PROVE  /\ data[1] = current.addr
             /\ data[2] = NumbytesReturn(current)
             /\ data[3] = Len(current.data)
             /\ length = 3 + Len(current.data)
             /\ SubSeq(data, 4, length) = current.data
  <2>1. length = 3 + Len(current.data)
    BY <1>3, <1>9
  <2>2. \A k \in 1 .. Len(current.data) : data[k + 3] = current.data[k]
    <3>. SUFFICES ASSUME NEW k \in 1 .. Len(current.data) PROVE data[k + 3] = current.data[k]
      OBVIOUS
    <3>1. p[k + 3] = current.data[k]
      BY <1>3, <1>9
    <3>2. k + 3 \in 1 .. length
      BY <1>5, <2>1
    <3>. QED BY <1>1, <3>1, <3>2
  <2>3. /\ SubSeq(data, 4, length) \in Seq(Nat)
        /\ Len(SubSeq(data, 4, length)) = Len(current.data)
        /\ \A k \in 1 .. Len(current.data) : SubSeq(data, 4, length)[k] = data[k + 3]
    <3>1. /\ SubSeq(data, 4, length) \in Seq(Nat)
          /\ Len(SubSeq(data, 4, length)) = IF 4 <= length THEN length - 4 + 1 ELSE 0
          /\ \A k \in 1 .. length - 4 + 1 : SubSeq(data, 4, length)[k] = data[4 + k - 1]
      BY <1>1, <1>3, <1>4, PartOfSeq
    <3>. QED BY <1>5, <2>1, <3>1
  <2>4. SubSeq(data, 4, length) = current.data
    BY <1>5, <2>2, <2>3, SeqEqual
  <2>5. 1 \in 1 .. length /\ 2 \in 1 .. length /\ 3 \in 1 .. length
    BY <1>5, <2>1
  <2>. QED BY <1>1, <1>3, <1>9, <2>1, <2>4, <2>5
<1>. QED BY <1>1, <1>2, <1>6, <1>7, <1>8, <1>9

LEMMA AnswerOf ==
    /\ current.cmd = Echo => AnswerCells = current.data
    /\ current.cmd = MemoryRead => AnswerCells = Slice(memory, current.addr, current.size)
    /\ current.cmd = MemoryWrite => AnswerCells = <<>>
    /\ current.cmd = Call => AnswerCells = SubSeq(<<ResultOfCall>>, 1, NumbytesReturn(current))
<1>1. /\ Echo # MemoryRead /\ Echo # MemoryWrite /\ Echo # Call
      /\ MemoryRead # MemoryWrite /\ MemoryRead # Call /\ MemoryWrite # Call
  BY DEF Echo, MemoryRead, MemoryWrite, Call
<1>. QED BY <1>1, Zenon DEF AnswerCells

(* The answer has as many cells as the host waits for.                     *)
LEMMA AnswerExpected ==
    ASSUME Typed, current \in Issued, Performed,
           current.cmd = MemoryRead => Accessible(current.addr, current.size)
    PROVE  /\ AnswerCells \in Seq(Cells)
           /\ Len(AnswerCells) = Expected(current)
           /\ Expected(current) \in Nat
<1>. USE DEF Echo, MemoryRead, MemoryWrite, Call
<1>1. current.cmd \in 0 .. 3 /\ current.addr \in Nat /\ current.size \in Nat
      /\ current.data \in Seq(Nat) /\ Len(current.data) \in Nat
  BY LenProperties DEF Issued
<1>2. CASE current.cmd = 0
  <2>1. AnswerCells = current.data /\ Expected(current) = Len(current.data)
    BY <1>2, AnswerOf DEF Expected
  <2>. QED BY <1>1, <2>1, NatSeqIsCells
<1>3. CASE current.cmd = 1
  <2>1. AnswerCells = Slice(memory, current.addr, current.size) /\ Expected(current) = current.size
    BY <1>3, AnswerOf DEF Expected
  <2>2. ASSUME NEW k \in 1 .. current.size PROVE memory[current.addr + k - 1] \in Nat
    <3>1. current.addr .. current.addr + current.size - 1 \subseteq Addrs
      BY <1>3 DEF Accessible
    <3>2. current.addr + k - 1 \in current.addr .. current.addr + current.size - 1
      BY <1>1
    <3>3. memory \in [Addrs -> Nat]
      BY DEF Typed
    <3>. QED BY <3>1, <3>2, <3>3
  <2>3. Slice(memory, current.addr, current.size) \in [1 .. current.size -> Nat]
    BY <2>2 DEF Slice
  <2>4. /\ Slice(memory, current.addr, current.size) \in Seq(Nat)
        /\ Len(Slice(memory, current.addr, current.size)) = current.size
    BY <1>1, <2>3
  <2>. QED BY <1>1, <2>1, <2>4, NatSeqIsCells
<1>4. CASE current.cmd = 2
  <2>1. AnswerCells = <<>> /\ Expected(current) = 0
    BY <1>4, AnswerOf DEF Expected
  <2>. QED BY <2>1
<1>5. CASE current.cmd = 3
  <2>. DEFINE v == ResultOfCall
              n == NumbytesReturn(current)
  <2>1. AnswerCells = SubSeq(<<v>>, 1, n) /\ Expected(current) = n
    BY <1>5, AnswerOf DEF Expected
  <2>2. v \in Nat
    <3>1. CASE invoked = None
      BY <3>1 DEF ResultOfCall
    <3>2. CASE invoked # None
      <4>1. PICK w \in Values : invoked = CallOf(current, w)
        BY <3>2 DEF Performed
      <4>. QED BY <3>2, <4>1, WireAssumption DEF ResultOfCall, CallOf
    <3>. QED BY <3>1, <3>2
  <2>3. n \in {0, 1}
    BY DEF NumbytesReturn, SizeofLong
  <2>. HIDE DEF v, n
  <2>4. CASE n = 0
    BY <2>1, <2>4
  <2>5. CASE n = 1
    <3>1. SubSeq(<<v>>, 1, 1) = <<v>>
      <4>1. <<v>> \in Seq(Nat) /\ Len(<<v>>) = 1
        BY <2>2
      <4>. QED BY <4>1, SubSeqFull
    <3>. QED BY <2>1, <2>2, <2>5, <3>1, Markers
  <2>. QED BY <2>3, <2>4, <2>5
<1>. QED BY <1>1, <1>2, <1>3, <1>4, <1>5

-----------------------------------------------------------------------------
(* The steps of the host.  Each starts at one stage of the exchange or     *)
(* after a failure.                                                        *)
LEMMA SendStep ==
    ASSUME LinkInv, NEW r \in Requests, Send(r), UNCHANGED device PROVE LinkInv' /\ Travelling'
<1>. USE DEF LinkInv
<1>1. Idle
  BY CommunicatorAssumption DEF Send, Staged, Travelling, Announced, Received, Answering, Asked, Broken
<1>2. r \in Issued
  BY LinkAssumption DEF Issued
<1>3. toDevice' = Frame(r)
  <2>1. toDevice' = <<>> \o Frame(r)
    BY <1>1 DEF Send, Idle
  <2>. QED BY <1>2, <2>1, FrameProperties, ConcatEmptySeq
<1>4. Typed'
  BY <1>2, <1>3, FrameProperties DEF Send, Typed, device
<1>5. request' = r /\ current' = r /\ invoked' = None /\ UNCHANGED <<toHost, raised>>
  BY DEF Send
<1>6. Pursued'
  BY <1>2, <1>5, CommunicatorAssumption DEF Pursued
<1>7. Travelling'
  BY <1>1, <1>3, <1>5, CommunicatorAssumption DEF Idle, Travelling, Asked, device
<1>. QED BY <1>4, <1>6, <1>7 DEF Staged

(* The host waits and something has arrived: an answer, or what is none.   *)
LEMMA Arrived ==
    ASSUME LinkInv, Waiting
    PROVE  Answering \/ (Broken /\ Unanswerable)
<1>1. request # None /\ toHost # <<>>
  BY DEF Waiting
<1>2. ~Idle /\ ~Travelling /\ ~Announced /\ ~Received
  BY <1>1 DEF Idle, Travelling, Announced, Received, Asked
<1>3. Broken => Unanswerable
  BY <1>1 DEF Broken
<1>. QED BY <1>2, <1>3 DEF LinkInv, Staged

LEMMA SkipLogStep ==
    ASSUME LinkInv, SkipLog, UNCHANGED device
    PROVE  LinkInv' /\ Answering' /\ toHost' # <<>> /\ Head(toHost') = ACK
<1>. USE DEF LinkInv
<1>1. Answering
  BY Arrived DEF SkipLog, Unanswerable
<1>2. AnswerCells \in Seq(Cells)
  BY <1>1, AnswerExpected DEF Answering, Pursued
<1>. DEFINE answer == <<ACK>> \o AnswerCells
<1>3. answer \in Seq(Cells) /\ answer # <<>> /\ Head(answer) = ACK
  BY <1>2, AnswerProperties
<1>. HIDE DEF answer
<1>4. PICK t \in Texts : toHost = LogFrame(t) \o answer
  BY <1>1, <1>3, Markers DEF answer, Answering, SkipLog
<1>5. t \in Seq(Cells)
  BY LinkAssumption
<1>6. toHost' = answer
  BY <1>3, <1>4, <1>5, LogProperties DEF SkipLog
<1>7. UNCHANGED <<toDevice, invoked, request, current, reply, raised, pc, cmd, length, data, memory>>
  BY DEF SkipLog, host, device
<1>8. Typed' /\ Pursued'
  BY <1>3, <1>6, <1>7 DEF Typed, Pursued
<1>9. AnswerCells' = AnswerCells
  BY <1>7 DEF AnswerCells, ResultOfCall
<1>10. Answering'
  BY <1>1, <1>6, <1>7, <1>9 DEF answer, Answering, PortionStored, Performed
<1>. QED BY <1>3, <1>6, <1>8, <1>10 DEF Staged

(* The host has read an acknowledged answer: exactly that was under way.   *)
LEMMA AnswerTaken ==
    ASSUME LinkInv, Acknowledged
    PROVE  /\ Answering
           /\ toHost' = <<>>
           /\ SubSeq(toHost, 2, 1 + Expected(current)) = AnswerCells
           /\ AnswerCells \in Seq(Cells)
<1>. USE DEF LinkInv
<1>1. Answering
  BY Arrived DEF Acknowledged, Unanswerable
<1>2. AnswerCells \in Seq(Cells) /\ Len(AnswerCells) = Expected(current)
  BY <1>1, AnswerExpected DEF Answering, Pursued
<1>. DEFINE answer == <<ACK>> \o AnswerCells
<1>3. /\ answer \in Seq(Cells)
      /\ After(answer, 1 + Len(AnswerCells)) = <<>>
      /\ SubSeq(answer, 2, 1 + Len(AnswerCells)) = AnswerCells
  BY <1>2, AnswerProperties
<1>. HIDE DEF answer
<1>4. \A t \in Texts : Head(LogFrame(t) \o answer) = LOG
  BY <1>3, LinkAssumption, LogProperties
<1>5. toHost = answer
  BY <1>1, <1>4, Markers DEF answer, Answering, Acknowledged
<1>. QED BY <1>1, <1>2, <1>3, <1>5 DEF Acknowledged

LEMMA RestProperties ==
    ASSUME NEW r \in Issued
    PROVE  /\ Rest(r) \in Seq(Nat)
           /\ Len(Rest(r)) = Len(r.data) - Len(Portion(r.data))
           /\ \A k \in 1 .. Len(Rest(r)) : Rest(r)[k] = r.data[Len(Portion(r.data)) + k]
<1>. DEFINE d == r.data
            n == Len(Portion(d))
<1>1. d \in Seq(Nat) /\ Len(d) \in Nat
  BY LenProperties DEF Issued
<1>2. n \in Nat /\ n <= Len(d)
  BY <1>1, PortionProperties
<1>3. Rest(r) = SubSeq(d, n + 1, Len(d))
  BY DEF Rest, After
<1>. HIDE DEF d, n
<1>4. /\ SubSeq(d, n + 1, Len(d)) \in Seq(Nat)
      /\ Len(SubSeq(d, n + 1, Len(d))) = IF n + 1 <= Len(d) THEN Len(d) - (n + 1) + 1 ELSE 0
      /\ \A k \in 1 .. Len(d) - (n + 1) + 1 :
            SubSeq(d, n + 1, Len(d))[k] = d[n + 1 + k - 1]
  BY <1>1, <1>2, PartOfSeq
<1>5. /\ Len(SubSeq(d, n + 1, Len(d))) = Len(d) - n
      /\ \A k \in 1 .. Len(d) - n : SubSeq(d, n + 1, Len(d))[k] = d[n + k]
  BY <1>1, <1>2, <1>4
<1>. QED BY <1>3, <1>4, <1>5 DEF d, n

LEMMA NextPortionStep ==
    ASSUME LinkInv, NextPortion, UNCHANGED device PROVE LinkInv' /\ Travelling'
<1>. USE DEF LinkInv
<1>1. Answering /\ toHost' = <<>>
  BY AnswerTaken DEF NextPortion
<1>2. current.cmd = MemoryWrite /\ current \in Issued /\ request.cmd = MemoryWrite
      /\ request \in Requests /\ request # None
  BY <1>1 DEF NextPortion, MoreToWrite, Pursued, Answering
<1>3. current' \in Issued /\ current'.cmd = MemoryWrite
  <2>1. current.addr + Len(Portion(current.data)) \in Nat
    BY <1>2, PortionProperties DEF Issued
  <2>2. Rest(current) \in Seq(Nat)
    BY <1>2, RestProperties
  <2>. QED BY <1>2, <2>1, <2>2 DEF NextPortion, Issued
<1>4. toDevice' = Frame(current')
  <2>1. toDevice' = <<>> \o Frame(current')
    BY <1>1 DEF NextPortion, Answering
  <2>. QED BY <1>3, <2>1, FrameProperties, ConcatEmptySeq
<1>5. Typed'
  BY <1>1, <1>3, <1>4, FrameProperties DEF NextPortion, Typed, device
<1>6. Pursued'
  BY <1>2, <1>3 DEF NextPortion, Pursued
<1>7. invoked = None
  BY <1>1, <1>2 DEF Answering, Performed, MemoryWrite, Call
<1>8. Travelling'
  BY <1>1, <1>2, <1>4, <1>7 DEF NextPortion, Travelling, Asked, Answering, device
<1>. QED BY <1>5, <1>6, <1>8 DEF Staged

LEMMA FinishStep ==
    ASSUME LinkInv, Finish, UNCHANGED device PROVE LinkInv' /\ Idle'
<1>. USE DEF LinkInv
<1>1. /\ Answering /\ toHost' = <<>>
      /\ reply' \in Seq(Cells)
  BY AnswerTaken DEF Finish
<1>2. Typed' /\ Pursued' /\ Idle'
  BY <1>1 DEF Finish, Typed, Pursued, Answering, Idle, device
<1>. QED BY <1>2 DEF Staged

LEMMA RefuseStep ==
    ASSUME LinkInv, Refuse, UNCHANGED device PROVE LinkInv'
<1>. USE DEF LinkInv
<1>1. toHost' \in Seq(Cells)
  BY AfterTyped DEF Refuse, Typed
<1>. QED BY <1>1 DEF Refuse, Typed, Pursued, Staged, Broken, device

-----------------------------------------------------------------------------
(* The steps of the device.                                                *)
LEMMA TakeHeaderResult ==
    ASSUME LinkInv, TakeHeader
    PROVE  /\ cmd' \in Nat /\ length' \in Nat /\ toDevice' \in Seq(Nat)
           /\ \/ Travelling /\ cmd' = current.cmd /\ length' = Len(Payload(current))
                            /\ toDevice' = Payload(current)
              \/ Broken
<1>. USE DEF LinkInv
<1>1. toDevice \in Seq(Nat) /\ Len(toDevice) >= 2 /\ toDevice # <<>>
  BY DEF TakeHeader, HeaderLength, Typed
<1>2. cmd' \in Nat /\ length' \in Nat
  <2>1. 1 \in 1 .. Len(toDevice) /\ 2 \in 1 .. Len(toDevice)
    BY <1>1, LenProperties
  <2>. QED BY <1>1, <2>1, ElementOfSeq DEF TakeHeader
<1>3. toDevice' \in Seq(Nat)
  BY <1>1, AfterTyped DEF TakeHeader, HeaderLength
<1>4. Travelling \/ Broken
  BY <1>1 DEF TakeHeader, Staged, Idle, Announced, Received, Answering
<1>5. ASSUME Travelling
      PROVE  /\ cmd' = current.cmd /\ length' = Len(Payload(current))
             /\ toDevice' = Payload(current)
  BY <1>5, FrameProperties DEF Travelling, Asked, Pursued, TakeHeader
<1>. QED BY <1>2, <1>3, <1>4, <1>5

LEMMA ReadHeaderStep ==
    ASSUME LinkInv, ReadHeader, UNCHANGED host PROVE LinkInv' /\ (Broken \/ Announced')
<1>. USE DEF LinkInv
<1>1. TakeHeader /\ pc = "header" /\ pc' = "data" /\ length' <= MaxData
      /\ UNCHANGED <<toHost, invoked, data, memory, request, current, reply, raised>>
  BY DEF ReadHeader, TakeHeader, host
<1>2. Typed' /\ Pursued'
  BY <1>1, TakeHeaderResult DEF Typed, Pursued
<1>3. CASE Travelling /\ cmd' = current.cmd /\ length' = Len(Payload(current))
                      /\ toDevice' = Payload(current)
  <2>1. Payload(current)' = Payload(current)
    BY <1>1
  <2>2. Announced'
    BY <1>1, <1>3, <2>1 DEF Travelling, Announced, Asked
  <2>. QED BY <1>2, <2>2 DEF Staged
<1>4. CASE Broken
  <2>1. Broken'
    BY <1>1, <1>4, BrokenUntouched DEF host
  <2>. QED BY <1>4, <1>2, <2>1 DEF Staged
<1>. QED BY <1>1, <1>3, <1>4, TakeHeaderResult

LEMMA RejectHeaderStep ==
    ASSUME LinkInv, RejectHeader, UNCHANGED host PROVE LinkInv'
<1>. USE DEF LinkInv
<1>1. TakeHeader /\ pc = "header" /\ toHost' = Append(toHost, NCK)
      /\ UNCHANGED <<pc, invoked, data, memory, request, current, reply, raised>>
  BY DEF RejectHeader, TakeHeader, host
<1>2. toHost \in Seq(Cells) /\ <<NCK>> \in Seq(Cells) /\ toHost' = toHost \o <<NCK>>
      /\ toHost' \in Seq(Cells)
  BY <1>1, Markers, AppendIsConcat, AppendProperties DEF Typed
<1>3. Typed' /\ Pursued'
  BY <1>1, <1>2, TakeHeaderResult DEF Typed, Pursued
<1>4. CASE Travelling
  <2>1. toHost' # <<>> /\ Head(toHost') = NCK
    BY <1>1, <1>4, Markers DEF Travelling, Asked
  <2>2. Broken'
    BY <1>1, <1>4, <2>1, Markers DEF Travelling, Asked, Broken, Unanswerable
  <2>. QED BY <1>3, <2>2 DEF Staged
<1>5. CASE Broken
  <2>1. Broken'
    BY <1>1, <1>2, <1>5, BrokenStays DEF host
  <2>. QED BY <1>3, <2>1 DEF Staged
<1>. QED BY <1>1, <1>4, <1>5, TakeHeaderResult

LEMMA ReadDataStep ==
    ASSUME LinkInv, ReadData, UNCHANGED host PROVE LinkInv' /\ (Broken \/ Received')
<1>. USE DEF LinkInv
<1>1. /\ pc = "data" /\ pc' = "dispatch" /\ Len(toDevice) >= length
      /\ toDevice' = After(toDevice, length)
      /\ UNCHANGED <<toHost, invoked, cmd, length, memory, request, current, reply, raised>>
  BY DEF ReadData, host
<1>2. /\ length \in Nat /\ MaxData \in Nat /\ length <= MaxData /\ toDevice \in Seq(Nat)
      /\ Len(toDevice) \in Nat
  BY <1>1, Sizes, LenProperties DEF Typed
<1>3. toDevice' \in Seq(Nat)
  BY <1>1, <1>2, AfterTyped
<1>4. /\ data' \in [1 .. MaxData -> Nat]
      /\ \A k \in 1 .. length : data'[k] = toDevice[k]
  <2>1. \A k \in 1 .. length : toDevice[k] \in Nat
    BY <1>1, <1>2, ElementOfSeq
  <2>2. \A k \in 1 .. MaxData : data[k] \in Nat
    BY DataTyped
  <2>3. data' = [k \in 1 .. MaxData |-> IF k <= length THEN toDevice[k] ELSE data[k]]
    BY DEF ReadData
  <2>. QED BY <1>2, <2>1, <2>2, <2>3
<1>5. Typed' /\ Pursued'
  BY <1>1, <1>2, <1>3, <1>4 DEF Typed, Pursued
<1>6. Announced \/ Broken
  BY <1>1 DEF Staged, Idle, Travelling, Received, Answering
<1>7. CASE Announced
  <2>1. toDevice' = <<>>
    BY <1>1, <1>2, <1>7, AfterAll DEF Announced
  <2>2. Payload(current)' = Payload(current)
    BY <1>1
  <2>3. Received'
    BY <1>1, <1>4, <1>7, <2>1, <2>2 DEF Announced, Received, Asked
  <2>. QED BY <1>5, <2>3 DEF Staged
<1>8. CASE Broken
  <2>1. Broken'
    BY <1>1, <1>8, BrokenUntouched DEF host
  <2>. QED BY <1>8, <1>5, <2>1 DEF Staged
<1>. QED BY <1>6, <1>7, <1>8

(* The device runs a command only when it has all of it.                   *)
LEMMA Dispatching ==
    ASSUME LinkInv, pc = "dispatch" PROVE Received \/ Broken
BY DEF LinkInv, Staged, Idle, Travelling, Announced, Answering

(* An answer that is only cells of the device, at the end of the line.     *)
LEMMA Responded ==
    ASSUME Typed, NEW a \in Seq(Nat), toHost' = toHost \o (<<ACK>> \o a)
    PROVE  /\ <<ACK>> \o a \in Seq(Cells)
           /\ toHost' \in Seq(Cells)
           /\ toHost = <<>> => toHost' = <<ACK>> \o a
<1>1. a \in Seq(Cells) /\ <<ACK>> \in Seq(Cells) /\ toHost \in Seq(Cells)
  BY NatSeqIsCells, Markers DEF Typed
<1>2. <<ACK>> \o a \in Seq(Cells)
  BY <1>1, AnswerProperties
<1>4. toHost \o (<<ACK>> \o a) \in Seq(Cells)
  BY <1>1, <1>2, ConcatProperties
<1>5. <<>> \o (<<ACK>> \o a) = <<ACK>> \o a
  BY <1>2, ConcatEmptySeq
<1>. QED BY <1>2, <1>4, <1>5

LEMMA DispatchEchoStep ==
    ASSUME LinkInv, DispatchEcho, UNCHANGED host PROVE LinkInv' /\ (Broken \/ Answering')
<1>. USE DEF LinkInv
<1>. DEFINE a == SubSeq(data, 1, length)
<1>1. /\ pc = "dispatch" /\ cmd = Echo /\ pc' = "header"
      /\ toHost' = toHost \o (<<ACK>> \o a)
      /\ UNCHANGED <<toDevice, invoked, cmd, length, data, memory, request, current, reply, raised>>
  BY DEF DispatchEcho, Dispatch, Respond, host
<1>2. a \in Seq(Nat)
  BY <1>1, DataTyped, PartOfSeq DEF Typed
<1>3. /\ <<ACK>> \o a \in Seq(Cells)
      /\ toHost' \in Seq(Cells)
      /\ toHost = <<>> => toHost' = <<ACK>> \o a
  BY <1>1, <1>2, Responded
<1>4. Typed' /\ Pursued'
  BY <1>1, <1>3 DEF Typed, Pursued
<1>5. CASE Received
  <2>1. a = current.data /\ current.cmd = Echo
    BY <1>1, <1>5, ReceivedData
  <2>2. AnswerCells' = a
    <3>1. AnswerCells' = AnswerCells
      BY <1>1 DEF AnswerCells, ResultOfCall
    <3>2. AnswerCells = current.data
      BY <2>1, AnswerOf
    <3>. QED BY <2>1, <3>1, <3>2
  <2>3. Answering'
    BY <1>1, <1>3, <1>5, <2>1, <2>2
       DEF Received, Asked, Answering, Performed, Echo, MemoryRead, MemoryWrite, Call
  <2>. QED BY <1>4, <2>3 DEF Staged
<1>6. CASE Broken
  <2>1. Broken'
    BY <1>1, <1>3, <1>6, BrokenStays DEF host
  <2>. QED BY <1>6, <1>4, <2>1 DEF Staged
<1>. QED BY <1>1, <1>5, <1>6, Dispatching

LEMMA DispatchReadStep ==
    ASSUME LinkInv, DispatchRead, UNCHANGED host PROVE LinkInv' /\ (Broken \/ Answering')
<1>. USE DEF LinkInv
<1>. DEFINE a == Slice(memory, data[1], data[2])
<1>1. /\ pc = "dispatch" /\ cmd = MemoryRead /\ pc' = "header"
      /\ Accessible(data[1], data[2])
      /\ toHost' = toHost \o (<<ACK>> \o a)
      /\ UNCHANGED <<toDevice, invoked, cmd, length, data, memory, request, current, reply, raised>>
  BY DEF DispatchRead, Dispatch, Respond, host
<1>2. a \in Seq(Nat)
  <2>1. data[1] \in Nat /\ data[2] \in Nat /\ memory \in [Addrs -> Nat]
    BY DataTyped DEF Typed
  <2>2. ASSUME NEW k \in 1 .. data[2] PROVE memory[data[1] + k - 1] \in Nat
    <3>1. data[1] + k - 1 \in data[1] .. data[1] + data[2] - 1
      BY <2>1
    <3>. QED BY <1>1, <2>1, <3>1 DEF Accessible
  <2>3. a \in [1 .. data[2] -> Nat]
    BY <2>2 DEF Slice
  <2>. QED BY <2>1, <2>3
<1>3. /\ <<ACK>> \o a \in Seq(Cells)
      /\ toHost' \in Seq(Cells)
      /\ toHost = <<>> => toHost' = <<ACK>> \o a
  BY <1>1, <1>2, Responded
<1>4. Typed' /\ Pursued'
  BY <1>1, <1>3 DEF Typed, Pursued
<1>5. CASE Received
  <2>1. data[1] = current.addr /\ data[2] = current.size /\ current.cmd = MemoryRead
    BY <1>1, <1>5, ReceivedData
  <2>2. AnswerCells' = a
    <3>1. AnswerCells' = AnswerCells
      BY <1>1 DEF AnswerCells, ResultOfCall
    <3>2. AnswerCells = Slice(memory, current.addr, current.size)
      BY <2>1, AnswerOf
    <3>. QED BY <2>1, <3>1, <3>2
  <2>3. Answering'
    BY <1>1, <1>3, <1>5, <2>1, <2>2
       DEF Received, Asked, Answering, Performed, MemoryRead, MemoryWrite, Call
  <2>. QED BY <1>4, <2>3 DEF Staged
<1>6. CASE Broken
  <2>1. Broken'
    BY <1>1, <1>3, <1>6, BrokenStays DEF host
  <2>. QED BY <1>6, <1>4, <2>1 DEF Staged
<1>. QED BY <1>1, <1>5, <1>6, Dispatching

(* What is written can be read back, as far as memory reaches.             *)
LEMMA WrittenProperties ==
    ASSUME NEW m \in [Addrs -> Nat], NEW a \in Nat, NEW d \in Seq(Nat)
    PROVE  /\ Written(m, a, d) \in [Addrs -> Nat]
           /\ \A k \in 1 .. Len(d) : a + k - 1 \in Addrs => Written(m, a, d)[a + k - 1] = d[k]
<1>1. Len(d) \in Nat /\ \A k \in 1 .. Len(d) : d[k] \in Nat
  BY LenProperties, ElementOfSeq
<1>2. Addrs \subseteq Nat
  BY WireAssumption
<1>3. Written(m, a, d) =
        [x \in Addrs |-> IF x \in a .. a + Len(d) - 1 THEN d[x - a + 1] ELSE m[x]]
  BY DEF Written
<1>4. ASSUME NEW x \in Addrs
      PROVE  (IF x \in a .. a + Len(d) - 1 THEN d[x - a + 1] ELSE m[x]) \in Nat
  <2>1. x \in Nat /\ m[x] \in Nat
    BY <1>2, <1>4
  <2>2. x \in a .. a + Len(d) - 1 => x - a + 1 \in 1 .. Len(d)
    BY <1>1, <2>1
  <2>. QED BY <1>1, <2>1, <2>2
<1>5. ASSUME NEW k \in 1 .. Len(d), a + k - 1 \in Addrs
      PROVE  Written(m, a, d)[a + k - 1] = d[k]
  <2>1. a + k - 1 \in a .. a + Len(d) - 1 /\ (a + k - 1) - a + 1 = k
    BY <1>1
  <2>. QED BY <1>3, <1>5, <2>1
<1>. QED BY <1>3, <1>4, <1>5

LEMMA DispatchWriteStep ==
    ASSUME LinkInv, DispatchWrite, UNCHANGED host PROVE LinkInv' /\ (Broken \/ Answering')
<1>. USE DEF LinkInv
<1>. DEFINE p == SubSeq(data, 2, length)
<1>1. /\ pc = "dispatch" /\ cmd = MemoryWrite /\ pc' = "header" /\ length >= 1
      /\ Accessible(data[1], length - 1)
      /\ memory' = Written(memory, data[1], p)
      /\ toHost' = toHost \o (<<ACK>> \o <<>>)
      /\ UNCHANGED <<toDevice, invoked, cmd, length, data, request, current, reply, raised>>
  BY DEF DispatchWrite, Dispatch, Respond, host, SizeofLong
<1>2. /\ <<ACK>> \o <<>> \in Seq(Cells)
      /\ toHost' \in Seq(Cells)
      /\ toHost = <<>> => toHost' = <<ACK>> \o <<>>
  BY <1>1, EmptySeq, Responded
<1>3. /\ p \in Seq(Nat) /\ Len(p) = length - 1 /\ length \in Nat
      /\ \A k \in 1 .. length - 1 : p[k] = data[k + 1]
  <2>1. length \in Nat /\ length <= Len(data) /\ data \in Seq(Nat)
    BY <1>1, DataTyped DEF Typed
  <2>2. /\ p \in Seq(Nat) /\ Len(p) = IF 2 <= length THEN length - 2 + 1 ELSE 0
        /\ \A k \in 1 .. length - 2 + 1 : p[k] = data[2 + k - 1]
    BY <2>1, PartOfSeq
  <2>. HIDE DEF p
  <2>. QED BY <1>1, <2>1, <2>2
<1>. HIDE DEF p
<1>4. /\ memory' \in [Addrs -> Nat]
      /\ \A k \in 1 .. length - 1 :
            data[1] + k - 1 \in Addrs => memory'[data[1] + k - 1] = data[k + 1]
  <2>1. memory \in [Addrs -> Nat] /\ data[1] \in Nat
    BY DataTyped DEF Typed
  <2>2. /\ Written(memory, data[1], p) \in [Addrs -> Nat]
        /\ \A k \in 1 .. Len(p) : data[1] + k - 1 \in Addrs =>
              Written(memory, data[1], p)[data[1] + k - 1] = p[k]
    BY <1>3, <2>1, WrittenProperties
  <2>. QED BY <1>1, <1>3, <2>2
<1>5. Typed' /\ Pursued'
  BY <1>1, <1>2, <1>4 DEF Typed, Pursued
<1>6. CASE Received
  <2>. DEFINE n == Len(Portion(current.data))
  <2>1. /\ current.cmd = MemoryWrite /\ current \in Issued
        /\ data[1] = current.addr /\ length = 1 + n
        /\ \A k \in 1 .. n : data[k + 1] = current.data[k]
    BY <1>1, <1>6, ReceivedData
  <2>2. n \in Nat /\ current.addr \in Nat
    BY <2>1, PortionProperties DEF Issued
  <2>. HIDE DEF n
  <2>3. ASSUME NEW k \in 1 .. n
        PROVE  /\ current.addr + k - 1 \in Addrs
               /\ memory'[current.addr + k - 1] = current.data[k]
    <3>1. current.addr + k - 1 \in current.addr .. current.addr + (length - 1) - 1
          /\ k \in 1 .. length - 1
      BY <2>1, <2>2
    <3>2. current.addr + k - 1 \in Addrs
      BY <1>1, <2>1, <3>1 DEF Accessible
    <3>. QED BY <1>4, <2>1, <3>1, <3>2
  <2>4. PortionStored'
    BY <1>1, <2>3 DEF n, PortionStored
  <2>5. AnswerCells' = <<>>
    <3>1. current'.cmd = MemoryWrite
      BY <1>1, <2>1
    <3>2. /\ Echo # MemoryWrite /\ MemoryRead # MemoryWrite /\ Call # MemoryWrite
      BY DEF Echo, MemoryRead, MemoryWrite, Call
    <3>. QED BY <3>1, <3>2, Zenon DEF AnswerCells
  <2>6. Answering'
    BY <1>1, <1>2, <1>6, <2>1, <2>4, <2>5
       DEF Received, Asked, Answering, Performed, MemoryRead, MemoryWrite, Call
  <2>. QED BY <1>5, <2>6 DEF Staged
<1>7. CASE Broken
  <2>1. Broken'
    BY <1>1, <1>2, <1>7, BrokenStays DEF host
  <2>. QED BY <1>7, <1>5, <2>1 DEF Staged
<1>. QED BY <1>1, <1>6, <1>7, Dispatching

(* The result of a call, or no cell at all.                                *)
LEMMA ResultCells ==
    ASSUME NEW v \in Nat, NEW n \in Nat, n <= SizeofLong
    PROVE  SubSeq(<<v>>, 1, n) \in Seq(Nat)
<1>1. <<v>> \in Seq(Nat) /\ Len(<<v>>) = 1
  OBVIOUS
<1>2. n <= Len(<<v>>)
  BY <1>1 DEF SizeofLong
<1>. QED BY <1>1, <1>2, PartOfSeq

LEMMA LibraryCallStep ==
    ASSUME LinkInv, NEW m \in [Addrs -> Nat], LibraryCall(m),
           Dispatch(Call), data[1] \in Funcs, BytesOut <= SizeofLong, ParamsIn <= MaxParams,
           pc' = "header", UNCHANGED <<toDevice, cmd, length, data>>, UNCHANGED host
    PROVE  LinkInv' /\ (Broken \/ Answering')
<1>. USE DEF LinkInv
<1>1. PICK v \in Values : \E output \in {<<>>} \cup {LogFrame(t) : t \in Texts} :
        /\ invoked' = [addr |-> data[1], args |-> Params, result |-> v]
        /\ memory' = m
        /\ toHost' = toHost \o (output \o (<<ACK>> \o SubSeq(<<v>>, 1, BytesOut)))
  BY DEF LibraryCall
<1>2. PICK output \in {<<>>} \cup {LogFrame(t) : t \in Texts} :
        /\ invoked' = [addr |-> data[1], args |-> Params, result |-> v]
        /\ memory' = m
        /\ toHost' = toHost \o (output \o (<<ACK>> \o SubSeq(<<v>>, 1, BytesOut)))
  BY <1>1
<1>3. /\ pc = "dispatch" /\ cmd = Call
      /\ UNCHANGED <<request, current, reply, raised>>
  BY DEF Dispatch, host
<1>. DEFINE a == SubSeq(<<v>>, 1, BytesOut)
<1>4. a \in Seq(Nat) /\ a \in Seq(Cells)
  BY DataTyped, WireAssumption, ResultCells, NatSeqIsCells DEF BytesOut
<1>5. /\ output \in Seq(Cells)
      /\ output = <<>> \/ \E t \in Texts : output = LogFrame(t)
  <2>1. \A t \in Texts : LogFrame(t) \in Seq(Cells)
    BY EmptySeq, LinkAssumption, LogProperties
  <2>. QED BY <2>1, EmptySeq
<1>. HIDE DEF a
<1>6. <<ACK>> \o a \in Seq(Cells) /\ <<ACK>> \in Seq(Cells) /\ toHost \in Seq(Cells)
  BY <1>4, AnswerProperties, Markers DEF Typed
<1>7. toHost' = toHost \o (output \o (<<ACK>> \o a))
  BY <1>2 DEF a
<1>8. output \o (<<ACK>> \o a) \in Seq(Cells)
  BY <1>5, <1>6, ConcatProperties
<1>9. toHost' \in Seq(Cells)
  BY <1>6, <1>7, <1>8, ConcatProperties
<1>10. Typed' /\ Pursued'
  BY <1>2, <1>3, <1>9 DEF Typed, Pursued
<1>11. CASE Received
  <2>1. /\ current.cmd = Call /\ current \in Issued
        /\ data[1] = current.addr
        /\ data[2] = NumbytesReturn(current)
        /\ data[3] = Len(current.data)
        /\ length = 3 + Len(current.data)
        /\ SubSeq(data, 4, length) = current.data
    BY <1>3, <1>11, ReceivedData
  <2>2. invoked' = CallOf(current, v)
    BY <1>2, <2>1 DEF CallOf, Params, ParamsIn
  <2>3. invoked' # None
    <3>1. CallOf(current, v) \in [addr : Funcs, args : Seq(Nat), result : Values]
      BY <2>1 DEF CallOf, Issued
    <3>. QED BY <2>2, <3>1, LinkAssumption
  <2>4. ResultOfCall' = v
    BY <2>2, <2>3 DEF ResultOfCall, CallOf
  <2>5. AnswerCells' = a
    <3>1. current'.cmd = Call
      BY <1>3, <2>1
    <3>2. /\ Echo # Call /\ MemoryRead # Call /\ MemoryWrite # Call
      BY DEF Echo, MemoryRead, MemoryWrite, Call
    <3>3. AnswerCells' = SubSeq(<<ResultOfCall'>>, 1, NumbytesReturn(current'))
      BY <3>1, <3>2, Zenon DEF AnswerCells
    <3>. QED BY <1>3, <2>1, <2>4, <3>3 DEF a, BytesOut
  <2>6. Performed'
    BY <1>3, <2>1, <2>2 DEF Performed, CallOf, ParamsIn
  <2>7. toHost' = output \o (<<ACK>> \o AnswerCells')
    BY <1>7, <1>8, <1>11, <2>5, ConcatEmptySeq DEF Received, Asked
  <2>8. toHost' = <<ACK>> \o AnswerCells'
        \/ \E t \in Texts : toHost' = LogFrame(t) \o (<<ACK>> \o AnswerCells')
    <3>1. CASE output = <<>>
      <4>1. <<>> \o (<<ACK>> \o a) = <<ACK>> \o a
        BY <1>6, ConcatEmptySeq
      <4>. QED BY <2>5, <2>7, <3>1, <4>1
    <3>2. CASE \E t \in Texts : output = LogFrame(t)
      BY <2>7, <3>2
    <3>. QED BY <1>5, <3>1, <3>2
  <2>9. Answering'
    <3>1. request' # None /\ ~raised' /\ pc' = "header" /\ toDevice' = <<>>
      BY <1>3, <1>11 DEF Received, Asked
    <3>2. current'.cmd # MemoryRead /\ current'.cmd # MemoryWrite
      BY <1>3, <2>1 DEF MemoryRead, MemoryWrite, Call
    <3>. QED BY <2>6, <2>8, <3>1, <3>2, Zenon DEF Answering
  <2>. QED BY <1>10, <2>9 DEF Staged
<1>12. CASE Broken
  <2>1. Broken'
    BY <1>3, <1>7, <1>8, <1>12, BrokenStays DEF host
  <2>. QED BY <1>12, <1>10, <2>1 DEF Staged
<1>. QED BY <1>3, <1>11, <1>12, Dispatching

LEMMA DispatchCallStep ==
    ASSUME LinkInv, DispatchCall, UNCHANGED host PROVE LinkInv' /\ (Broken \/ Answering')
<1>1. /\ Dispatch(Call) /\ data[1] \in Funcs /\ BytesOut <= SizeofLong /\ ParamsIn <= MaxParams
      /\ pc' = "header" /\ UNCHANGED <<toDevice, cmd, length, data>>
  BY DEF DispatchCall
<1>2. memory \in [Addrs -> Nat]
  BY DEF LinkInv, Typed
<1>3. ASSUME NEW x \in Addrs, NEW v \in Values
      PROVE  [memory EXCEPT ![x] = v] \in [Addrs -> Nat]
  BY <1>2, WireAssumption
<1>4. CASE LibraryCall(memory)
  BY <1>1, <1>2, <1>4, LibraryCallStep
<1>5. CASE \E x \in Addrs, v \in Values : LibraryCall([memory EXCEPT ![x] = v])
  <2>1. PICK x \in Addrs : \E v \in Values : LibraryCall([memory EXCEPT ![x] = v])
    BY <1>5
  <2>2. PICK v \in Values : LibraryCall([memory EXCEPT ![x] = v])
    BY <2>1
  <2>. QED BY <1>1, <1>3, <2>2, LibraryCallStep
<1>. QED BY <1>4, <1>5 DEF DispatchCall

LEMMA DispatchCallNoneStep ==
    ASSUME LinkInv, DispatchCallNone, UNCHANGED host PROVE LinkInv' /\ (Broken \/ Answering')
<1>. USE DEF LinkInv
<1>. DEFINE a == SubSeq(<<0>>, 1, BytesOut)
<1>1. /\ pc = "dispatch" /\ cmd = Call /\ pc' = "header"
      /\ BytesOut <= SizeofLong /\ ParamsIn > MaxParams
      /\ toHost' = toHost \o (<<ACK>> \o a)
      /\ UNCHANGED <<toDevice, invoked, cmd, length, data, memory, request, current, reply, raised>>
  BY DEF DispatchCallNone, Dispatch, Respond, host
<1>2. a \in Seq(Nat)
  BY <1>1, DataTyped, ResultCells DEF BytesOut
<1>3. /\ <<ACK>> \o a \in Seq(Cells)
      /\ toHost' \in Seq(Cells)
      /\ toHost = <<>> => toHost' = <<ACK>> \o a
  BY <1>1, <1>2, Responded
<1>4. Typed' /\ Pursued'
  BY <1>1, <1>3 DEF Typed, Pursued
<1>5. CASE Received
  <2>1. /\ current.cmd = Call
        /\ data[2] = NumbytesReturn(current)
        /\ data[3] = Len(current.data) /\ Len(current.data) \in Nat
    BY <1>1, <1>5, ReceivedData, LenProperties DEF Issued
  <2>2. invoked = None /\ ResultOfCall = 0
    BY <1>5 DEF Received, Asked, ResultOfCall
  <2>3. AnswerCells' = a
    <3>1. AnswerCells' = AnswerCells
      BY <1>1 DEF AnswerCells, ResultOfCall
    <3>. QED BY <2>1, <2>2, <3>1, AnswerOf DEF BytesOut
  <2>4. Performed'
    <3>1. ~(Len(current.data) <= MaxParams)
      BY <1>1, <2>1, Sizes DEF ParamsIn
    <3>. QED BY <1>1, <2>2, <3>1 DEF Performed
  <2>5. Answering'
    BY <1>1, <1>3, <1>5, <2>1, <2>3, <2>4
       DEF Received, Asked, Answering, MemoryRead, MemoryWrite, Call
  <2>. QED BY <1>4, <2>5 DEF Staged
<1>6. CASE Broken
  <2>1. Broken'
    BY <1>1, <1>3, <1>6, BrokenStays DEF host
  <2>. QED BY <1>6, <1>4, <2>1 DEF Staged
<1>. QED BY <1>1, <1>5, <1>6, Dispatching

LEMMA DispatchUnknownStep ==
    ASSUME LinkInv, DispatchUnknown, UNCHANGED host PROVE LinkInv' /\ Broken
<1>. USE DEF LinkInv
<1>1. /\ pc = "dispatch" /\ cmd > Call /\ pc' = "header"
      /\ UNCHANGED <<toDevice, toHost, invoked, cmd, length, data, memory,
                     request, current, reply, raised>>
  BY DEF DispatchUnknown, host
<1>2. Typed' /\ Pursued'
  BY <1>1 DEF Typed, Pursued
<1>3. ~Received
  BY <1>1, ReceivedData DEF Issued, Echo, Call
<1>4. Broken
  BY <1>1, <1>3, Dispatching
<1>5. Broken'
  BY <1>1, <1>4, BrokenUntouched DEF host
<1>. QED BY <1>2, <1>4, <1>5 DEF Staged

LEMMA DispatchFaultStep ==
    ASSUME LinkInv, DispatchFault, UNCHANGED host PROVE LinkInv' /\ Broken'
<1>. USE DEF LinkInv
<1>1. /\ pc = "dispatch" /\ pc' = "fault"
      /\ UNCHANGED <<toDevice, toHost, invoked, cmd, length, data, memory,
                     request, current, reply, raised>>
  BY DEF DispatchFault, host
<1>2. Typed' /\ Pursued'
  BY <1>1 DEF Typed, Pursued
<1>3. CASE Received
  BY <1>1, <1>2, <1>3 DEF Received, Asked, Staged, Broken
<1>4. CASE Broken
  <2>1. Broken'
    BY <1>1, <1>4, BrokenUntouched DEF host
  <2>. QED BY <1>2, <2>1 DEF Staged
<1>. QED BY <1>1, <1>3, <1>4, Dispatching

LEMMA LinkStep == LinkInv /\ [Next]_vars => LinkInv'
<1>. SUFFICES ASSUME LinkInv, [Next]_vars PROVE LinkInv'
  OBVIOUS
<1>1. ASSUME NEW r \in Requests, Send(r) /\ UNCHANGED device PROVE LinkInv'
  BY <1>1, SendStep
<1>2. CASE SkipLog /\ UNCHANGED device
  BY <1>2, SkipLogStep
<1>3. CASE NextPortion /\ UNCHANGED device
  BY <1>3, NextPortionStep
<1>4. CASE Finish /\ UNCHANGED device
  BY <1>4, FinishStep
<1>5. CASE Refuse /\ UNCHANGED device
  BY <1>5, RefuseStep
<1>6. CASE ReadHeader /\ UNCHANGED host
  BY <1>6, ReadHeaderStep
<1>7. CASE RejectHeader /\ UNCHANGED host
  BY <1>7, RejectHeaderStep
<1>8. CASE ReadData /\ UNCHANGED host
  BY <1>8, ReadDataStep
<1>9. CASE DispatchEcho /\ UNCHANGED host
  BY <1>9, DispatchEchoStep
<1>10. CASE DispatchRead /\ UNCHANGED host
  BY <1>10, DispatchReadStep
<1>11. CASE DispatchWrite /\ UNCHANGED host
  BY <1>11, DispatchWriteStep
<1>12. CASE DispatchCall /\ UNCHANGED host
  BY <1>12, DispatchCallStep
<1>13. CASE DispatchCallNone /\ UNCHANGED host
  BY <1>13, DispatchCallNoneStep
<1>14. CASE DispatchUnknown /\ UNCHANGED host
  BY <1>14, DispatchUnknownStep
<1>15. CASE DispatchFault /\ UNCHANGED host
  BY <1>15, DispatchFaultStep
<1>16. CASE UNCHANGED vars
  <2>. USE <1>16 DEF vars, wire, host, device
  <2>1. Typed' = Typed
    BY DEF Typed
  <2>2. Pursued' = Pursued
    BY DEF Pursued
  <2>3. Asked' = Asked /\ Performed' = Performed
    BY DEF Asked, Performed
  <2>4. AnswerCells' = AnswerCells /\ PortionStored' = PortionStored
    BY DEF AnswerCells, ResultOfCall, PortionStored
  <2>5. Answering' = Answering /\ Broken' = Broken
    BY <2>3, <2>4 DEF Answering, Broken, Unanswerable
  <2>6. Staged' = Staged
    BY <2>3, <2>5 DEF Staged, Idle, Travelling, Announced, Received
  <2>. QED BY <2>1, <2>2, <2>6 DEF LinkInv
<1>. QED BY <1>1, <1>2, <1>3, <1>4, <1>5, <1>6, <1>7, <1>8, <1>9, <1>10, <1>11, <1>12,
            <1>13, <1>14, <1>15, <1>16 DEF Next

LEMMA LinkInvariant == Spec => []LinkInv
<1>1. Init => LinkInv
  <2>. SUFFICES ASSUME Init PROVE LinkInv
    OBVIOUS
  <2>. USE DEF Init, WireInit, HostInit, DeviceInit
  <2>1. Typed
    BY Sizes, EmptySeq, WireAssumption DEF Typed
  <2>2. Pursued
    BY DEF Pursued
  <2>3. Idle
    BY DEF Idle
  <2>. QED BY <2>1, <2>2, <2>3 DEF LinkInv, Staged
<1>. QED BY <1>1, LinkStep, PTL DEF Spec

(* Types, for any requests: in particular the header the device takes is   *)
(* always one of numbers, and no answer moves the host's reading off a     *)
(* cell.                                                                   *)
THEOREM LinkTypes == Spec => []TypeOK
<1>1. LinkInv => TypeOK
  <2>. SUFFICES ASSUME LinkInv PROVE TypeOK
    OBVIOUS
  <2>1. toDevice \in Seq(Cells)
    BY NatSeqIsCells DEF LinkInv, Typed
  <2>2. request = None \/ request.cmd \in Echo .. Call
    BY DEF LinkInv, Pursued, Issued
  <2>3. data \in [1 .. MaxData -> Cells] /\ memory \in [Addrs -> Cells]
    BY Markers DEF LinkInv, Typed
  <2>. QED BY <2>1, <2>2, <2>3 DEF LinkInv, Typed, TypeOK
<1>. QED BY <1>1, LinkInvariant, PTL

(* Framing: until an exception has left command, host and device agree     *)
(* where a command ends, for any buffer size, requests of any length and   *)
(* address, in however many portions, and whatever a function prints.      *)
THEOREM CommandsStayInStep == Spec => []InStep
<1>1. LinkInv => InStep
  BY DEF LinkInv, Staged, Idle, Travelling, Announced, Received, Asked, Answering, Broken, InStep
<1>. QED BY <1>1, LinkInvariant, PTL

(* The result a test gets from a call, for any requests, any number of     *)
(* call cases and any text: that of the function, whatever it prints, or   *)
(* 0 if there are more arguments than any call_case has.                   *)
THEOREM ResultsAreAccountedFor == Spec => CallReturnsResult
<1>. DEFINE Accounted ==
        request # None /\ request.cmd = Call /\ request' = None /\ ~raised' =>
          IF Len(request.data) <= MaxParams
          THEN /\ invoked # None
               /\ invoked.addr = request.addr
               /\ invoked.args = request.data
               /\ reply' = SubSeq(<<invoked.result>>, 1, NumbytesReturn(request))
          ELSE /\ invoked = None
               /\ reply' = SubSeq(<<0>>, 1, NumbytesReturn(request))
<1>1. ASSUME LinkInv, [Next]_vars,
             request # None, request.cmd = Call, request' = None, ~raised'
      PROVE  Accounted
  <2>1. Finish
    BY <1>1, CommunicatorAssumption
       DEF Next, vars, host, Send, SkipLog, NextPortion, Refuse
  <2>2. /\ Answering /\ current = request /\ current \in Issued
        /\ reply' = AnswerCells
    BY <1>1, <2>1, AnswerTaken DEF Finish, LinkInv, Pursued, MemoryWrite, Call
  <2>3. Performed /\ reply' = SubSeq(<<ResultOfCall>>, 1, NumbytesReturn(request))
    BY <1>1, <2>2, AnswerOf DEF Answering
  <2>4. CASE Len(request.data) <= MaxParams
    <3>1. PICK v \in Values : invoked = CallOf(current, v) /\ current.addr \in Funcs
      BY <1>1, <2>2, <2>3, <2>4 DEF Performed
    <3>2. CallOf(current, v) \in [addr : Funcs, args : Seq(Nat), result : Values]
      BY <2>2, <3>1 DEF CallOf, Issued
    <3>3. invoked # None
      BY <3>1, <3>2, LinkAssumption
    <3>4. invoked.addr = request.addr /\ invoked.args = request.data
      BY <2>2, <3>1 DEF CallOf
    <3>. QED BY <2>3, <2>4, <3>3, <3>4 DEF ResultOfCall
  <2>5. CASE ~(Len(request.data) <= MaxParams)
    <3>1. invoked = None
      BY <2>2, <2>3, <2>5 DEF Performed
    <3>. QED BY <2>3, <2>5, <3>1 DEF ResultOfCall
  <2>. QED BY <2>4, <2>5
<1>2. LinkInv /\ [Next]_vars => [Accounted]_vars
  BY <1>1
<1>. QED BY <1>2, LinkInvariant, PTL DEF Spec, CallReturnsResult

-----------------------------------------------------------------------------
(* Commands the device can serve.                                          *)
LEMMA PayloadFits ==
    ASSUME NEW r \in Issued, Servable(r) PROVE Len(Payload(r)) <= MaxData
<1>. USE DEF Echo, MemoryRead, MemoryWrite, Call
<1>1. r.cmd \in 0 .. 3 /\ r.data \in Seq(Nat) /\ Len(r.data) \in Nat
  BY LenProperties DEF Issued
<1>2. CASE r.cmd = 0
  BY <1>2, PayloadProperties DEF Servable
<1>3. CASE r.cmd = 1
  <2>1. Len(Payload(r)) = 2
    BY <1>3, PayloadProperties
  <2>2. 2 <= MaxData
    BY Sizes
  <2>. QED BY <2>1, <2>2
<1>4. CASE r.cmd = 2
  BY <1>1, <1>4, PayloadProperties, PortionProperties
<1>5. CASE r.cmd = 3
  <2>1. Len(Payload(r)) = 3 + Len(r.data) /\ Len(r.data) <= MaxParams
    BY <1>5, PayloadProperties DEF Servable
  <2>. QED BY <1>1, <2>1, Sizes
<1>. QED BY <1>1, <1>2, <1>3, <1>4, <1>5

LEMMA NotFaulty ==
    ASSUME LinkInv, Received, Servable(current) PROVE ~Faulty
<1>. USE DEF LinkInv
<1>1. /\ current \in Issued /\ cmd = current.cmd /\ pc = "dispatch"
      /\ current.cmd \in 0 .. 3 /\ current.addr \in Nat /\ current.data \in Seq(Nat)
      /\ Len(current.data) \in Nat
  BY ReceivedData, LenProperties DEF Received, Issued, Echo, Call
<1>2. CASE cmd = Echo
  BY <1>2 DEF Faulty, Echo, MemoryRead, MemoryWrite, Call
<1>3. CASE cmd = MemoryRead
  <2>1. Accessible(data[1], data[2])
    BY <1>1, <1>3, ReceivedData DEF Servable
  <2>. QED BY <1>3, <2>1 DEF Faulty, Echo, MemoryRead, MemoryWrite, Call
<1>4. CASE cmd = MemoryWrite
  <2>. DEFINE n == Len(Portion(current.data))
  <2>1. data[1] = current.addr /\ length = 1 + n
    BY <1>4, ReceivedData
  <2>2. n \in Nat /\ n <= Len(current.data)
    BY <1>1, PortionProperties
  <2>3. Accessible(current.addr, Len(current.data))
    BY <1>1, <1>4 DEF Servable
  <2>. HIDE DEF n
  <2>4. Accessible(current.addr, n)
    BY <1>1, <2>2, <2>3 DEF Accessible
  <2>5. length >= SizeofLong /\ length - SizeofLong = n
    BY <2>1, <2>2 DEF SizeofLong
  <2>6. ~(length < SizeofLong) /\ Accessible(data[1], length - SizeofLong)
    BY <2>1, <2>2, <2>4, <2>5 DEF SizeofLong
  <2>. QED BY <1>4, <2>6 DEF Faulty, Echo, MemoryRead, MemoryWrite, Call
<1>5. CASE cmd = Call
  <2>1. ~(BytesOut > SizeofLong) /\ data[1] \in Funcs
    BY <1>1, <1>5, ReceivedData DEF Servable, BytesOut, NumbytesReturn, SizeofLong
  <2>. QED BY <1>5, <2>1 DEF Faulty, Echo, MemoryRead, MemoryWrite, Call
<1>. QED BY <1>1, <1>2, <1>3, <1>4, <1>5 DEF Echo, MemoryRead, MemoryWrite, Call

(* What the device has answered, and what it has printed before, is what   *)
(* the host can read.                                                      *)
LEMMA AnswerReadable ==
    ASSUME Typed, Pursued, Answering
    PROVE  /\ toHost # <<>>
           /\ Head(toHost) = ACK \/ (Head(toHost) = LOG /\ Texts # {})
<1>1. AnswerCells \in Seq(Cells)
  BY AnswerExpected DEF Answering, Pursued
<1>. DEFINE answer == <<ACK>> \o AnswerCells
<1>2. answer \in Seq(Cells) /\ answer # <<>> /\ Head(answer) = ACK
  BY <1>1, AnswerProperties
<1>. HIDE DEF answer
<1>3. \A t \in Texts : LogFrame(t) \o answer # <<>> /\ Head(LogFrame(t) \o answer) = LOG
  BY <1>2, LinkAssumption, LogProperties
<1>4. CASE toHost = answer
  BY <1>2, <1>4
<1>5. CASE \E t \in Texts : toHost = LogFrame(t) \o answer
  BY <1>3, <1>5
<1>. QED BY <1>4, <1>5 DEF Answering, answer

Sound == Idle \/ Travelling \/ Announced \/ Received \/ Answering

LEMMA SoundIsUnbroken ==
    ASSUME PrintingSupported
    PROVE  Typed /\ Pursued /\ Sound => ~Broken
<1>. SUFFICES ASSUME Typed, Pursued, Sound PROVE ~Broken
  OBVIOUS
<1>1. CASE Answering
  BY <1>1, AnswerReadable DEF PrintingSupported, Answering, Broken, Unanswerable
<1>2. CASE Idle
  BY <1>2 DEF Idle, Broken
<1>3. CASE Travelling \/ Announced \/ Received
  BY <1>3 DEF Travelling, Announced, Received, Asked, Broken, Unanswerable
<1>. QED BY <1>1, <1>2, <1>3 DEF Sound

LEMMA NoException == ASSUME PrintingSupported, LinkInv, Unbroken PROVE ~Refuse
<1>. SUFFICES ASSUME Refuse PROVE FALSE
  OBVIOUS
<1>1. Answering /\ Unanswerable
  BY Arrived DEF Refuse, Unanswerable, Waiting, Unbroken
<1>. QED BY <1>1, AnswerReadable DEF LinkInv, PrintingSupported, Unanswerable

LEMMA ServableRest ==
    ASSUME LinkInv, Servable(current), NextPortion PROVE Servable(current')
<1>. USE DEF LinkInv
<1>1. /\ current.cmd = MemoryWrite /\ current \in Issued
      /\ current.addr \in Nat /\ current.data \in Seq(Nat) /\ Len(current.data) \in Nat
  BY LenProperties DEF NextPortion, MoreToWrite, Acknowledged, Waiting, Pursued, Issued
<1>. DEFINE n == Len(Portion(current.data))
<1>2. /\ current'.cmd = MemoryWrite
      /\ current'.addr = current.addr + n
      /\ current'.data = Rest(current)
  BY <1>1 DEF NextPortion, Issued
<1>3. n \in Nat /\ n <= Len(current.data) /\ Len(Rest(current)) = Len(current.data) - n
  BY <1>1, PortionProperties, RestProperties
<1>4. Accessible(current.addr, Len(current.data))
  BY <1>1 DEF Servable
<1>. HIDE DEF n
<1>5. Accessible(current.addr + n, Len(current.data) - n)
  <2>1. ASSUME NEW x \in current.addr + n .. current.addr + n + (Len(current.data) - n) - 1
        PROVE  x \in current.addr .. current.addr + Len(current.data) - 1
    BY ONLY <1>1, <1>3, x \in current.addr + n .. current.addr + n + (Len(current.data) - n) - 1
  <2>. QED BY <1>4, <2>1, Zenon DEF Accessible
<1>. QED BY <1>2, <1>3, <1>5 DEF Servable, Echo, MemoryRead, MemoryWrite, Call

LEMMA UnbrokenStep ==
    ASSUME ServableRequests, PrintingSupported
    PROVE  LinkInv /\ Unbroken /\ [Next]_vars => Unbroken'
<1>a. Typed /\ Pursued /\ Sound => ~Broken
  BY SoundIsUnbroken
<1>b. (Typed /\ Pursued /\ Sound => ~Broken)'
  BY <1>a, PTL
<1>. SUFFICES ASSUME LinkInv, Unbroken, [Next]_vars PROVE Unbroken'
  OBVIOUS
<1>c. LinkInv'
  BY LinkStep
<1>d. ASSUME Sound', request' # None => Servable(current') PROVE Unbroken'
  BY <1>b, <1>c, <1>d DEF LinkInv, Unbroken
<1>e. ASSUME UNCHANGED host PROVE request' # None => Servable(current')
  BY <1>e DEF Unbroken, host
<1>1. ASSUME NEW r \in Requests, Send(r) /\ UNCHANGED device PROVE Unbroken'
  BY <1>1, <1>d, SendStep DEF Sound, Send, ServableRequests
<1>2. CASE SkipLog /\ UNCHANGED device
  BY <1>2, <1>d, <1>e, SkipLogStep DEF Sound, SkipLog
<1>3. CASE NextPortion /\ UNCHANGED device
  <2>1. Servable(current')
    BY <1>3, ServableRest DEF Unbroken, NextPortion, Acknowledged, Waiting
  <2>. QED BY <1>3, <1>d, <2>1, NextPortionStep DEF Sound
<1>4. CASE Finish /\ UNCHANGED device
  BY <1>4, <1>d, FinishStep DEF Sound, Finish
<1>5. ~Refuse
  BY NoException
<1>6. CASE ReadHeader /\ UNCHANGED host
  BY <1>6, <1>d, <1>e, ReadHeaderStep DEF Sound, Unbroken
<1>7. ASSUME RejectHeader PROVE FALSE
  <2>1. length' = Len(Payload(current)) /\ request # None /\ length' > MaxData /\ length' \in Nat
    BY <1>7, TakeHeaderResult DEF RejectHeader, Unbroken, Travelling, Asked
  <2>2. Len(Payload(current)) <= MaxData
    BY <2>1, PayloadFits DEF Unbroken, LinkInv, Pursued
  <2>. QED BY <2>1, <2>2, Sizes
<1>8. CASE ReadData /\ UNCHANGED host
  BY <1>8, <1>d, <1>e, ReadDataStep DEF Sound, Unbroken
<1>9. CASE DispatchEcho /\ UNCHANGED host
  BY <1>9, <1>d, <1>e, DispatchEchoStep DEF Sound, Unbroken
<1>10. CASE DispatchRead /\ UNCHANGED host
  BY <1>10, <1>d, <1>e, DispatchReadStep DEF Sound, Unbroken
<1>11. CASE DispatchWrite /\ UNCHANGED host
  BY <1>11, <1>d, <1>e, DispatchWriteStep DEF Sound, Unbroken
<1>12. CASE DispatchCall /\ UNCHANGED host
  BY <1>12, <1>d, <1>e, DispatchCallStep DEF Sound, Unbroken
<1>13. CASE DispatchCallNone /\ UNCHANGED host
  BY <1>13, <1>d, <1>e, DispatchCallNoneStep DEF Sound, Unbroken
<1>14. ASSUME DispatchUnknown, UNCHANGED host PROVE FALSE
  BY <1>14, DispatchUnknownStep DEF Unbroken
<1>15. ASSUME DispatchFault PROVE FALSE
  <2>1. Received /\ Faulty
    BY <1>15, Dispatching DEF DispatchFault, Unbroken
  <2>2. Servable(current)
    BY <2>1 DEF Received, Asked, Unbroken
  <2>. QED BY <2>1, <2>2, NotFaulty
<1>16. CASE UNCHANGED vars
  BY <1>16 DEF vars, wire, host, device, Unbroken, Broken, Unanswerable
<1>. QED BY <1>1, <1>2, <1>3, <1>4, <1>5, <1>6, <1>7, <1>8, <1>9, <1>10, <1>11, <1>12,
            <1>13, <1>14, <1>15, <1>16 DEF Next

LEMMA UnbrokenInvariant ==
    ASSUME ServableRequests, PrintingSupported PROVE Spec => [](LinkInv /\ Unbroken)
<1>1. Init => Unbroken
  BY DEF Init, WireInit, HostInit, DeviceInit, Unbroken, Broken
<1>2. LinkInv /\ Unbroken /\ [Next]_vars => Unbroken'
  BY UnbrokenStep
<1>. QED BY <1>1, <1>2, LinkInvariant, PTL DEF Spec

(* A command within what the device can serve is never refused, never      *)
(* stops the device and never raises, however large the memory_write: its  *)
(* portions fit any buffer and stay in the memory of the whole.            *)
THEOREM ServableIsNeverRefused ==
    ASSUME ServableRequests, PrintingSupported PROVE Spec => []NeverRefused
<1>1. LinkInv /\ Unbroken => NeverRefused
  <2>. SUFFICES ASSUME LinkInv, Unbroken PROVE NeverRefused
    OBVIOUS
  <2>1. Sound
    BY DEF LinkInv, Unbroken, Staged, Sound
  <2>2. CASE Answering
    BY <2>2, AnswerReadable, Markers DEF LinkInv, NeverRefused, Answering
  <2>3. CASE Idle \/ Travelling \/ Announced \/ Received
    BY <2>3 DEF Idle, Travelling, Announced, Received, Asked, NeverRefused
  <2>. QED BY <2>1, <2>2, <2>3 DEF Sound
<1>. QED BY <1>1, UnbrokenInvariant, PTL

(* A call that returns has been made, once, with the address and the       *)
(* arguments of the request.                                               *)
THEOREM ReturnedCallWasMade ==
    ASSUME ServableRequests, PrintingSupported PROVE Spec => CallIsMade
<1>. DEFINE Made ==
        request # None /\ request' = None /\ ~raised' =>
          (request.cmd = Call => /\ invoked # None
                                 /\ invoked.addr = request.addr
                                 /\ invoked.args = request.data)
<1>1. ASSUME LinkInv, Unbroken, [Next]_vars,
             request # None, request' = None, ~raised', request.cmd = Call
      PROVE  /\ invoked # None
             /\ invoked.addr = request.addr
             /\ invoked.args = request.data
  <2>1. Finish
    BY <1>1, CommunicatorAssumption
       DEF Next, vars, host, Send, SkipLog, NextPortion, Refuse
  <2>2. Answering /\ current = request /\ Servable(current)
    BY <1>1, <2>1, AnswerTaken DEF Finish, LinkInv, Pursued, Unbroken, MemoryWrite, Call
  <2>3. PICK v \in Values : invoked = CallOf(current, v) /\ current.addr \in Funcs
    BY <1>1, <2>2 DEF Answering, Performed, Servable
  <2>4. CallOf(current, v) \in [addr : Funcs, args : Seq(Nat), result : Values]
    BY <1>1, <2>3 DEF CallOf, LinkInv, Pursued, Issued
  <2>. QED BY <2>2, <2>3, <2>4, LinkAssumption DEF CallOf
<1>2. LinkInv /\ Unbroken /\ [Next]_vars => [Made]_vars
  BY <1>1
<1>. QED BY <1>2, UnbrokenInvariant, PTL DEF Spec, CallIsMade

-----------------------------------------------------------------------------
(* What the host finds while the device answers is all there.              *)
LEMMA AnswerComplete ==
    ASSUME Typed, Pursued, Answering PROVE HostHasEnough
<1>1. /\ AnswerCells \in Seq(Cells) /\ Len(AnswerCells) = Expected(current)
      /\ Expected(current) \in Nat
  BY AnswerExpected DEF Answering, Pursued
<1>. DEFINE answer == <<ACK>> \o AnswerCells
<1>2. /\ answer \in Seq(Cells) /\ answer # <<>> /\ Head(answer) = ACK
      /\ Len(answer) = 1 + Len(AnswerCells)
  BY <1>1, AnswerProperties
<1>. HIDE DEF answer
<1>3. CASE toHost = answer
  <2>1. Len(toHost) > Expected(current)
    BY <1>1, <1>2, <1>3
  <2>. QED BY <1>2, <1>3, <2>1, Markers DEF HostHasEnough
<1>4. ASSUME NEW t \in Texts, toHost = LogFrame(t) \o answer PROVE HostHasEnough
  <2>1. /\ toHost # <<>> /\ Head(toHost) = LOG
        /\ toHost[2] = Len(t) /\ Len(t) \in Nat /\ Len(toHost) >= 2 + Len(t)
    BY <1>2, <1>4, LinkAssumption, LogProperties
  <2>2. Len(toHost) >= 2 /\ Len(toHost) >= 2 + toHost[2]
    BY <2>1, LenProperties DEF Typed
  <2>. QED BY <2>1, <2>2, Markers DEF HostHasEnough
<1>. QED BY <1>3, <1>4 DEF Answering, answer

(* Two blocking reads cannot wait for each other: a command the device can *)
(* serve always has all its next reader asks for in the stream, for any    *)
(* buffer size, any portions and any text a function prints.               *)
THEOREM NoMutualWait ==
    ASSUME ServableRequests, PrintingSupported PROVE Spec => []NeverBothWait
<1>1. LinkInv /\ Unbroken => NeverBothWait
  <2>. SUFFICES ASSUME LinkInv, Unbroken, request # None PROVE HostHasEnough \/ DeviceHasEnough
    BY DEF NeverBothWait
  <2>1. Travelling \/ Announced \/ Received \/ Answering
    BY DEF LinkInv, Unbroken, Staged, Idle
  <2>2. current \in Issued
    BY DEF LinkInv, Pursued
  <2>3. CASE Travelling
    BY <2>2, <2>3, FrameProperties DEF Travelling, DeviceHasEnough
  <2>4. CASE Announced
    <3>1. Len(toDevice) = length /\ length \in Nat
      BY <2>4 DEF Announced, LinkInv, Typed
    <3>. QED BY <2>4, <3>1 DEF Announced, DeviceHasEnough
  <2>5. CASE Received
    BY <2>5 DEF Received, DeviceHasEnough
  <2>6. CASE Answering
    BY <2>6, AnswerComplete DEF LinkInv
  <2>. QED BY <2>1, <2>3, <2>4, <2>5, <2>6
<1>. QED BY <1>1, UnbrokenInvariant, PTL

-----------------------------------------------------------------------------
(* The stages of an exchange in the order they come.                       *)
LEMMA StageOfExchange ==
    ASSUME Typed, Pursued, PrintingSupported
    PROVE  /\ Travelling => StepsOfExchange = 5
           /\ Announced => StepsOfExchange = 4
           /\ Received => StepsOfExchange = 3
           /\ Answering => StepsOfExchange = IF Head(toHost) = LOG THEN 2 ELSE 1
<1>1. ASSUME toHost = <<>>
      PROVE  /\ pc = "header" => StepsOfExchange = 5
             /\ pc = "data" => StepsOfExchange = 4
             /\ pc = "dispatch" => StepsOfExchange = 3
  BY <1>1 DEF StepsOfExchange
<1>2. Answering => StepsOfExchange = IF Head(toHost) = LOG THEN 2 ELSE 1
  BY AnswerReadable DEF StepsOfExchange
<1>. QED BY <1>1, <1>2 DEF Travelling, Announced, Received, Asked

(* The cells a command still has to write, and what a portion takes away.  *)
LEMMA CellsLeft ==
    /\ Pursued /\ request # None => CellsToWrite \in Nat
    /\ LinkInv /\ NextPortion => CellsToWrite \in Nat /\ CellsToWrite' \in Nat
                               /\ CellsToWrite' < CellsToWrite
<1>1. ASSUME Pursued, request # None PROVE CellsToWrite \in Nat
  BY <1>1, LenProperties DEF Pursued, Issued, CellsToWrite
<1>2. ASSUME LinkInv, NextPortion
      PROVE  CellsToWrite \in Nat /\ CellsToWrite' \in Nat /\ CellsToWrite' < CellsToWrite
  <2>. DEFINE n == Len(Portion(current.data))
  <2>1. /\ current.cmd = MemoryWrite /\ current \in Issued
        /\ current.data \in Seq(Nat) /\ Len(current.data) \in Nat
        /\ Rest(current) # <<>>
    BY <1>2, LenProperties
       DEF NextPortion, MoreToWrite, Acknowledged, Waiting, LinkInv, Pursued, Issued
  <2>2. current'.cmd = MemoryWrite /\ current'.data = Rest(current)
    BY <1>2, <2>1 DEF NextPortion, Issued
  <2>3. /\ n \in Nat /\ n <= Len(current.data) /\ Rest(current) \in Seq(Nat)
        /\ Len(Rest(current)) = Len(current.data) - n
    BY <2>1, PortionProperties, RestProperties
  <2>4. n >= 1
    BY <2>1, <2>3, PortionProperties, WireAssumption DEF HeaderLength, SizeofLong
  <2>. HIDE DEF n
  <2>5. CellsToWrite = Len(current.data) /\ CellsToWrite' = Len(current.data) - n
    BY <2>1, <2>2, <2>3 DEF CellsToWrite
  <2>. QED BY <2>1, <2>3, <2>4, <2>5
<1>. QED BY <1>1, <1>2

LEMMA FewerSteps ==
    \A c, d, s, t \in Nat :
        (d < c /\ t <= s + 4) \/ (d = c /\ t < s) =>
            5 * d + t \in Nat /\ 5 * d + t < 5 * c + s
OBVIOUS

(* A step that leaves the request as it is and goes on to a later stage.   *)
LEMMA LaterStage ==
    ASSUME Pursued, request # None, UNCHANGED <<request, current>>,
           StepsOfExchange \in Nat, StepsOfExchange' \in Nat,
           StepsOfExchange' < StepsOfExchange
    PROVE  StepsLeft' \in Nat /\ StepsLeft' < StepsLeft
<1>1. CellsToWrite \in Nat /\ CellsToWrite' = CellsToWrite
  BY CellsLeft DEF CellsToWrite
<1>2. /\ StepsLeft = 5 * CellsToWrite + StepsOfExchange
      /\ StepsLeft' = 5 * CellsToWrite' + StepsOfExchange'
  BY DEF StepsLeft
<1>3. /\ 5 * CellsToWrite' + StepsOfExchange' \in Nat
      /\ 5 * CellsToWrite' + StepsOfExchange' < 5 * CellsToWrite + StepsOfExchange
  BY <1>1, FewerSteps
<1>. QED BY ONLY <1>2, <1>3, Zenon

(* Each step of one of the two ends is one step nearer to the return.      *)
LEMMA NearerStep ==
    ASSUME ServableRequests, PrintingSupported
    PROVE  LinkInv /\ Unbroken /\ [Next]_vars =>
              [request # None => StepsLeft' \in Nat /\ StepsLeft' < StepsLeft]_vars
<1>a. Typed /\ Pursued =>
        /\ Travelling => StepsOfExchange = 5
        /\ Announced => StepsOfExchange = 4
        /\ Received => StepsOfExchange = 3
        /\ Answering => StepsOfExchange = IF Head(toHost) = LOG THEN 2 ELSE 1
  BY StageOfExchange
<1>b. (Typed /\ Pursued =>
        /\ Travelling => StepsOfExchange = 5
        /\ Announced => StepsOfExchange = 4
        /\ Received => StepsOfExchange = 3
        /\ Answering => StepsOfExchange = IF Head(toHost) = LOG THEN 2 ELSE 1)'
  BY <1>a, PTL
<1>. DEFINE Nearer == StepsLeft' \in Nat /\ StepsLeft' < StepsLeft
<1>. SUFFICES ASSUME LinkInv, Unbroken, [Next]_vars, request # None, vars' # vars PROVE Nearer
  OBVIOUS
<1>c. LinkInv' /\ Typed /\ Pursued /\ Typed' /\ Pursued'
  BY LinkStep DEF LinkInv
<1>. HIDE DEF Nearer
<1>d. ASSUME UNCHANGED host,
             StepsOfExchange \in Nat, StepsOfExchange' \in Nat, StepsOfExchange' < StepsOfExchange
      PROVE  Nearer
  BY <1>c, <1>d, LaterStage DEF Nearer, host
<1>e. ASSUME pc = "dispatch" PROVE StepsOfExchange = 3
  BY <1>a, <1>c, <1>e, Dispatching DEF Unbroken
<1>f. ASSUME Answering' PROVE StepsOfExchange' \in {1, 2}
  BY <1>b, <1>c, <1>f
<1>g. ASSUME pc = "dispatch", Answering', UNCHANGED host PROVE Nearer
  BY <1>d, <1>e, <1>f, <1>g
<1>1. ASSUME NEW r \in Requests, Send(r) PROVE FALSE
  BY <1>1 DEF Send
<1>2. CASE SkipLog /\ UNCHANGED device
  <2>1. Answering /\ Head(toHost) = LOG
    BY <1>2, Arrived DEF SkipLog, Unanswerable
  <2>2. Answering' /\ Head(toHost') = ACK
    BY <1>2, SkipLogStep
  <2>3. StepsOfExchange = 2 /\ StepsOfExchange' = 1
    BY <1>a, <1>b, <1>c, <2>1, <2>2, Markers
  <2>. QED BY <1>2, <1>d, <2>3 DEF SkipLog
<1>3. CASE NextPortion /\ UNCHANGED device
  <2>1. Answering /\ Travelling'
    BY <1>3, AnswerTaken, NextPortionStep DEF NextPortion
  <2>2. StepsOfExchange \in {1, 2} /\ StepsOfExchange' = 5
    BY <1>a, <1>b, <1>c, <2>1
  <2>3. /\ CellsToWrite \in Nat /\ CellsToWrite' \in Nat /\ CellsToWrite' < CellsToWrite
        /\ request' # None
    BY <1>3, CellsLeft DEF NextPortion
  <2>4. /\ StepsLeft = 5 * CellsToWrite + StepsOfExchange
        /\ StepsLeft' = 5 * CellsToWrite' + StepsOfExchange'
    BY <2>3 DEF StepsLeft
  <2>5. StepsOfExchange \in Nat /\ StepsOfExchange' \in Nat
        /\ StepsOfExchange' <= StepsOfExchange + 4
    BY ONLY <2>2
  <2>6. /\ 5 * CellsToWrite' + StepsOfExchange' \in Nat
        /\ 5 * CellsToWrite' + StepsOfExchange' < 5 * CellsToWrite + StepsOfExchange
    BY ONLY <2>3, <2>5, FewerSteps
  <2>. QED BY ONLY <2>4, <2>6, Zenon DEF Nearer
<1>4. CASE Finish /\ UNCHANGED device
  <2>1. StepsOfExchange \in {1, 2}
    BY <1>4, <1>a, <1>c, AnswerTaken DEF Finish
  <2>2. CellsToWrite \in Nat /\ StepsLeft = 5 * CellsToWrite + StepsOfExchange
    BY <1>c, CellsLeft DEF StepsLeft
  <2>3. StepsLeft' = 0
    BY <1>4 DEF Finish, StepsLeft
  <2>. QED BY <2>1, <2>2, <2>3 DEF Nearer
<1>5. ~Refuse
  BY NoException
<1>6. CASE ReadHeader /\ UNCHANGED host
  <2>1. Travelling /\ Announced'
    BY <1>6, TakeHeaderResult, ReadHeaderStep DEF ReadHeader, Unbroken
  <2>. QED BY <1>6, <1>a, <1>b, <1>c, <1>d, <2>1
<1>7. CASE RejectHeader /\ UNCHANGED host
  <2>1. Travelling /\ toHost' # <<>> /\ Head(toHost') = NCK
    BY <1>7, TakeHeaderResult, Markers DEF RejectHeader, Unbroken, Travelling, Asked
  <2>2. StepsOfExchange = 5
    BY <1>a, <1>c, <2>1
  <2>3. StepsOfExchange' = 1
    BY <2>1, Markers DEF StepsOfExchange
  <2>. QED BY <1>7, <1>d, <2>2, <2>3
<1>8. CASE ReadData /\ UNCHANGED host
  <2>1. Announced /\ Received'
    BY <1>8, ReadDataStep
       DEF ReadData, Unbroken, LinkInv, Staged, Idle, Travelling, Received, Answering
  <2>. QED BY <1>8, <1>a, <1>b, <1>c, <1>d, <2>1
<1>9. CASE DispatchEcho /\ UNCHANGED host
  BY <1>9, <1>g, DispatchEchoStep DEF DispatchEcho, Dispatch, Unbroken
<1>10. CASE DispatchRead /\ UNCHANGED host
  BY <1>10, <1>g, DispatchReadStep DEF DispatchRead, Dispatch, Unbroken
<1>11. CASE DispatchWrite /\ UNCHANGED host
  BY <1>11, <1>g, DispatchWriteStep DEF DispatchWrite, Dispatch, Unbroken
<1>12. CASE DispatchCall /\ UNCHANGED host
  BY <1>12, <1>g, DispatchCallStep DEF DispatchCall, Dispatch, Unbroken
<1>13. CASE DispatchCallNone /\ UNCHANGED host
  BY <1>13, <1>g, DispatchCallNoneStep DEF DispatchCallNone, Dispatch, Unbroken
<1>14. ASSUME DispatchUnknown, UNCHANGED host PROVE FALSE
  BY <1>14, DispatchUnknownStep DEF Unbroken
<1>15. ASSUME DispatchFault PROVE FALSE
  <2>1. Received /\ Faulty
    BY <1>15, Dispatching DEF DispatchFault, Unbroken
  <2>. QED BY <2>1, NotFaulty DEF Received, Asked, Unbroken
<1>. QED BY <1>1, <1>2, <1>3, <1>4, <1>5, <1>6, <1>7, <1>8, <1>9, <1>10, <1>11, <1>12,
            <1>13, <1>14, <1>15 DEF Next

(* A command the device can serve returns after a number of steps that its *)
(* length bounds: whatever the two ends do is progress, and (NoMutualWait) *)
(* one of them can always go on.                                           *)
THEOREM CommandsAreBounded ==
    ASSUME ServableRequests, PrintingSupported PROVE Spec => ReturnComesNearer
<1>1. LinkInv /\ Unbroken /\ [Next]_vars =>
        [request # None => StepsLeft' \in Nat /\ StepsLeft' < StepsLeft]_vars
  BY NearerStep
<1>. QED BY <1>1, UnbrokenInvariant, PTL DEF Spec, ReturnComesNearer

-----------------------------------------------------------------------------
(* The abstract memory: the device's, under what is still arriving.        *)
AbstractMemory == IF Arriving THEN Written(memory, current.addr, current.data) ELSE memory

(* A portion that is written first, and written again with the whole,      *)
(* makes no difference.                                                    *)
LEMMA WrittenTwice ==
    ASSUME NEW m \in [Addrs -> Nat], NEW a \in Nat, NEW d \in Seq(Nat), NEW p \in Seq(Nat),
           Len(p) <= Len(d), \A k \in 1 .. Len(p) : p[k] = d[k]
    PROVE  Written(Written(m, a, p), a, d) = Written(m, a, d)
<1>1. Len(d) \in Nat /\ Len(p) \in Nat
  BY LenProperties
<1>2. /\ Written(m, a, p) \in [Addrs -> Nat]
      /\ Written(m, a, p) =
            [x \in Addrs |-> IF x \in a .. a + Len(p) - 1 THEN p[x - a + 1] ELSE m[x]]
  BY WrittenProperties DEF Written
<1>3. ASSUME NEW x \in Addrs, x \notin a .. a + Len(d) - 1
      PROVE  Written(m, a, p)[x] = m[x]
  <2>1. x \notin a .. a + Len(p) - 1
    BY <1>1, <1>3, WireAssumption
  <2>. QED BY <1>2, <2>1
<1>4. Written(m, a, d) =
        [x \in Addrs |-> IF x \in a .. a + Len(d) - 1 THEN d[x - a + 1] ELSE m[x]]
  BY DEF Written
<1>5. DOMAIN Written(m, a, p) = Addrs
  BY <1>2
<1>6. Written(Written(m, a, p), a, d) =
        [x \in Addrs |-> IF x \in a .. a + Len(d) - 1 THEN d[x - a + 1]
                                                      ELSE Written(m, a, p)[x]]
  BY <1>5, Zenon DEF Written
<1>. HIDE DEF Written
<1>. QED BY <1>3, <1>4, <1>6

(* What memory holds already need not be written.                          *)
LEMMA WrittenRest ==
    ASSUME NEW m \in [Addrs -> Nat], NEW a \in Nat, NEW d \in Seq(Nat), NEW n \in Nat,
           NEW rest \in Seq(Nat), n <= Len(d), Len(rest) = Len(d) - n,
           \A k \in 1 .. Len(rest) : rest[k] = d[n + k],
           \A k \in 1 .. n : m[a + k - 1] = d[k]
    PROVE  Written(m, a + n, rest) = Written(m, a, d)
<1>1. Len(d) \in Nat /\ Len(rest) \in Nat /\ Addrs \subseteq Nat
  BY LenProperties, WireAssumption
<1>2. ASSUME NEW x \in Addrs
      PROVE  (IF x \in a + n .. a + n + Len(rest) - 1 THEN rest[x - (a + n) + 1] ELSE m[x])
             = (IF x \in a .. a + Len(d) - 1 THEN d[x - a + 1] ELSE m[x])
  <2>1. CASE x \in a + n .. a + n + Len(rest) - 1
    <3>1. /\ x - (a + n) + 1 \in 1 .. Len(rest)
          /\ n + (x - (a + n) + 1) = x - a + 1
          /\ x \in a .. a + Len(d) - 1
      BY <1>1, <2>1
    <3>2. rest[x - (a + n) + 1] = d[n + (x - (a + n) + 1)]
      BY <3>1
    <3>. QED BY <2>1, <3>1, <3>2
  <2>2. CASE x \in a .. a + n - 1
    <3>1. /\ x - a + 1 \in 1 .. n /\ a + (x - a + 1) - 1 = x
          /\ x \in a .. a + Len(d) - 1 /\ x \notin a + n .. a + n + Len(rest) - 1
      BY <1>1, <2>2
    <3>2. m[a + (x - a + 1) - 1] = d[x - a + 1]
      BY <3>1
    <3>. QED BY <3>1, <3>2
  <2>3. CASE x \notin a + n .. a + n + Len(rest) - 1 /\ x \notin a .. a + n - 1
    <3>1. x \notin a .. a + Len(d) - 1
      BY <1>1, <2>3
    <3>. QED BY <2>3, <3>1
  <2>. QED BY <2>1, <2>2, <2>3
<1>3. /\ Written(m, a + n, rest) =
            [x \in Addrs |-> IF x \in a + n .. a + n + Len(rest) - 1
                             THEN rest[x - (a + n) + 1] ELSE m[x]]
      /\ Written(m, a, d) =
            [x \in Addrs |-> IF x \in a .. a + Len(d) - 1 THEN d[x - a + 1] ELSE m[x]]
  BY DEF Written
<1>. QED BY <1>2, <1>3

(* Nothing left to write.                                                  *)
LEMMA WrittenNothing ==
    ASSUME NEW m \in [Addrs -> Nat], NEW a \in Nat PROVE Written(m, a, <<>>) = m
<1>1. \A x \in Addrs : x \notin a .. a + 0 - 1
  BY WireAssumption
<1>2. Len(<<>>) = 0
  BY EmptySeq
<1>3. Written(m, a, <<>>) =
        [x \in Addrs |-> IF x \in a .. a + Len(<<>>) - 1 THEN <<>>[x - a + 1] ELSE m[x]]
  BY DEF Written
<1>. QED BY <1>1, <1>2, <1>3

(* Steps in which the communicator, as the proxies see it, does nothing.   *)
LEMMA Stutter ==
    ASSUME AbstractMemory' = AbstractMemory, UNCHANGED <<request, reply, invoked>>
    PROVE  UNCHANGED Interface!comVars
BY DEF AbstractMemory, Interface!comVars

(* What the abstract communicator returns, command by command.             *)
LEMMA AbstractAnswer ==
    /\ request.cmd = Echo => Interface!Answer = request.data
    /\ request.cmd = MemoryRead =>
          Interface!Answer = Slice(AbstractMemory, request.addr, request.size)
    /\ request.cmd = MemoryWrite => Interface!Answer = <<>>
    /\ request.cmd = Call =>
          Interface!Answer = IF request.size = 0 THEN <<>> ELSE <<invoked.result>>
<1>1. /\ Interface!Echo = Echo /\ Interface!MemoryRead = MemoryRead
      /\ Interface!MemoryWrite = MemoryWrite /\ Interface!Call = Call
  BY DEF Interface!Echo, Interface!MemoryRead, Interface!MemoryWrite, Interface!Call,
         Echo, MemoryRead, MemoryWrite, Call
<1>2. /\ Echo # MemoryRead /\ Echo # MemoryWrite /\ Echo # Call
      /\ MemoryRead # MemoryWrite /\ MemoryRead # Call /\ MemoryWrite # Call
  BY DEF Echo, MemoryRead, MemoryWrite, Call
<1>3. Interface!Slice(AbstractMemory, request.addr, request.size)
        = Slice(AbstractMemory, request.addr, request.size)
  BY DEF Interface!Slice, Slice
<1>. QED BY <1>1, <1>2, <1>3, Zenon DEF Interface!Answer, AbstractMemory

LEMMA Simulation ==
    ASSUME PrintingSupported, LinkInv, Unbroken, [Next]_vars
    PROVE  [Interface!Next]_(Interface!comVars)
<1>. USE DEF LinkInv
<1>a. memory \in [Addrs -> Nat]
  BY DEF Typed
<1>1. ASSUME NEW r \in Requests, Send(r), UNCHANGED device PROVE Interface!Next
  <2>1. request = None /\ request' = r /\ current' = r /\ r # None
        /\ invoked' = None /\ memory' = memory /\ reply' = reply
    BY <1>1, CommunicatorAssumption DEF Send, device
  <2>2. AbstractMemory = memory
    BY <2>1 DEF AbstractMemory, Arriving
  <2>3. AbstractMemory' = IF r.cmd = MemoryWrite THEN Written(memory, r.addr, r.data) ELSE memory
    BY <2>1 DEF AbstractMemory, Arriving
  <2>4. Interface!Invoke(r)
    BY <2>1, <2>2, <2>3 DEF AbstractMemory, Interface!Invoke, Interface!Written, Written,
       MemoryWrite, Interface!MemoryWrite
  <2>. QED BY <2>4 DEF Interface!Next
<1>2. CASE SkipLog /\ UNCHANGED device
  <2>1. UNCHANGED <<memory, current, request, reply, invoked>>
    BY <1>2 DEF SkipLog, host, device
  <2>. QED BY <2>1, Stutter DEF AbstractMemory, Arriving
<1>3. CASE NextPortion /\ UNCHANGED device
  <2>. DEFINE n == Len(Portion(current.data))
  <2>1. UNCHANGED <<memory, request, reply, invoked>>
    BY <1>3 DEF NextPortion, device
  <2>2. /\ Answering /\ PortionStored /\ current.cmd = MemoryWrite /\ current \in Issued
        /\ request.cmd = MemoryWrite /\ request # None
    BY <1>3, AnswerTaken DEF NextPortion, MoreToWrite, Answering, Pursued
  <2>3. current.addr \in Nat /\ current.data \in Seq(Nat)
    BY <2>2 DEF Issued
  <2>4. current'.addr = current.addr + n /\ current'.data = Rest(current)
    BY <1>3, <2>2 DEF NextPortion, Issued
  <2>5. /\ n \in Nat /\ n <= Len(current.data)
        /\ Rest(current) \in Seq(Nat)
        /\ Len(Rest(current)) = Len(current.data) - n
        /\ \A k \in 1 .. Len(Rest(current)) : Rest(current)[k] = current.data[n + k]
    BY <2>2, <2>3, PortionProperties, RestProperties
  <2>6. \A k \in 1 .. n : memory[current.addr + k - 1] = current.data[k]
    BY <2>2 DEF PortionStored
  <2>. HIDE DEF n
  <2>7. Written(memory, current.addr + n, Rest(current))
          = Written(memory, current.addr, current.data)
    BY ONLY <1>a, <2>3, <2>5, <2>6, WrittenRest, Zenon
  <2>8. AbstractMemory' = AbstractMemory
    BY <2>1, <2>2, <2>4, <2>7 DEF AbstractMemory, Arriving
  <2>. QED BY <2>1, <2>8, Stutter
<1>4. ASSUME Finish, UNCHANGED device PROVE Interface!Next
  <2>1. /\ Answering /\ reply' = AnswerCells /\ request' = None /\ request # None
        /\ UNCHANGED <<memory, invoked>>
        /\ current \in Issued /\ current.cmd = request.cmd
        /\ request.cmd # MemoryWrite => current = request
    BY <1>4, AnswerTaken DEF Finish, device, Answering, Pursued
  <2>2. AbstractMemory' = memory
    BY <2>1 DEF AbstractMemory, Arriving
  <2>3. AbstractMemory = memory
    <3>1. CASE request.cmd = MemoryWrite
      <4>. DEFINE n == Len(Portion(current.data))
      <4>1. Rest(current) = <<>> /\ PortionStored
        BY <1>4, <2>1, <3>1 DEF Finish, MoreToWrite, Answering
      <4>2. current.addr \in Nat /\ current.data \in Seq(Nat)
        BY <2>1 DEF Issued
      <4>3. /\ n \in Nat /\ n <= Len(current.data)
            /\ Rest(current) \in Seq(Nat)
            /\ Len(Rest(current)) = Len(current.data) - n
            /\ \A k \in 1 .. Len(Rest(current)) : Rest(current)[k] = current.data[n + k]
        BY <2>1, <4>2, PortionProperties, RestProperties
      <4>4. \A k \in 1 .. n : memory[current.addr + k - 1] = current.data[k]
        BY <4>1 DEF PortionStored
      <4>. HIDE DEF n
      <4>5. Written(memory, current.addr + n, Rest(current))
              = Written(memory, current.addr, current.data)
        BY ONLY <1>a, <4>2, <4>3, <4>4, WrittenRest, Zenon
      <4>6. Written(memory, current.addr + n, <<>>) = memory
        BY <1>a, <4>2, <4>3, WrittenNothing
      <4>. QED BY <4>1, <4>5, <4>6 DEF AbstractMemory
    <3>. QED BY <3>1 DEF AbstractMemory, Arriving
  <2>4. request.cmd = Call => Len(request.data) <= MaxParams /\ request = current
    BY <2>1 DEF Unbroken, Servable, MemoryWrite, Call
  <2>5. request.cmd = Call =>
          invoked # None /\ ResultOfCall = invoked.result /\ invoked.result \in Nat
    <3>. SUFFICES ASSUME request.cmd = Call
                  PROVE  invoked # None /\ ResultOfCall = invoked.result /\ invoked.result \in Nat
      OBVIOUS
    <3>1. PICK v \in Values : invoked = CallOf(current, v) /\ current.addr \in Funcs
      BY <2>1, <2>4 DEF Answering, Performed
    <3>2. CallOf(current, v) \in [addr : Funcs, args : Seq(Nat), result : Values]
      BY <2>1, <3>1 DEF CallOf, Issued
    <3>. QED BY <3>1, <3>2, LinkAssumption, WireAssumption DEF ResultOfCall, CallOf
  <2>6. AnswerCells = Interface!Answer
    <3>1. request.cmd \in {Echo, MemoryRead, MemoryWrite, Call}
      BY <2>1 DEF Issued, Echo, MemoryRead, MemoryWrite, Call
    <3>2. CASE request.cmd = Echo
      BY <2>1, <3>2, AnswerOf, AbstractAnswer DEF Echo, MemoryWrite
    <3>3. CASE request.cmd = MemoryRead
      BY <2>1, <2>3, <3>3, AnswerOf, AbstractAnswer DEF MemoryRead, MemoryWrite
    <3>4. CASE request.cmd = MemoryWrite
      BY <2>1, <3>4, AnswerOf, AbstractAnswer
    <3>5. CASE request.cmd = Call
      <4>1. /\ AnswerCells = SubSeq(<<invoked.result>>, 1, NumbytesReturn(request))
            /\ invoked.result \in Nat /\ request.size \in Nat
        BY <2>1, <2>4, <2>5, <3>5, AnswerOf DEF Issued
      <4>2. Interface!Answer = IF request.size = 0 THEN <<>> ELSE <<invoked.result>>
        BY <3>5, AbstractAnswer
      <4>3. CASE request.size = 0
        BY <4>1, <4>2, <4>3 DEF NumbytesReturn
      <4>4. CASE request.size > 0
        <5>1. SubSeq(<<invoked.result>>, 1, 1) = <<invoked.result>>
          <6>1. <<invoked.result>> \in Seq(Nat) /\ Len(<<invoked.result>>) = 1
            BY <4>1
          <6>. QED BY <6>1, SubSeqFull
        <5>. QED BY <4>1, <4>2, <4>4, <5>1 DEF NumbytesReturn, SizeofLong
      <4>. QED BY <4>1, <4>3, <4>4
    <3>. QED BY <3>1, <3>2, <3>3, <3>4, <3>5
  <2>7. Interface!Return
    BY <2>1, <2>2, <2>3, <2>5, <2>6
       DEF Interface!Return, Interface!Call, Call, AbstractMemory
  <2>. QED BY <2>7 DEF Interface!Next
<1>5. ~Refuse
  BY NoException
<1>6. CASE (ReadHeader \/ RejectHeader \/ ReadData \/ DispatchEcho \/ DispatchRead
              \/ DispatchCallNone \/ DispatchUnknown \/ DispatchFault) /\ UNCHANGED host
  <2>1. UNCHANGED <<memory, current, request, reply, invoked>>
    BY <1>6 DEF ReadHeader, RejectHeader, ReadData, DispatchEcho, DispatchRead, Respond,
                DispatchCallNone, DispatchUnknown, DispatchFault, host
  <2>. QED BY <2>1, Stutter DEF AbstractMemory, Arriving
<1>7. CASE DispatchWrite /\ UNCHANGED host
  <2>. DEFINE p == SubSeq(data, 2, length)
              n == Len(Portion(current.data))
  <2>1. /\ Received /\ cmd = MemoryWrite /\ length >= 1
        /\ memory' = Written(memory, data[1], p)
        /\ UNCHANGED <<current, request, reply, invoked>>
    BY <1>7, Dispatching DEF DispatchWrite, Dispatch, Unbroken, host, SizeofLong
  <2>2. /\ current.cmd = MemoryWrite /\ current \in Issued /\ request.cmd = MemoryWrite
        /\ request # None
        /\ data[1] = current.addr /\ length = 1 + n
        /\ \A k \in 1 .. n : data[k + 1] = current.data[k]
    BY <2>1, ReceivedData DEF Received, Asked, Pursued
  <2>3. current.addr \in Nat /\ current.data \in Seq(Nat)
    BY <2>2 DEF Issued
  <2>4. n \in Nat /\ n <= Len(current.data)
    BY <2>3, PortionProperties
  <2>. HIDE DEF n
  <2>5. p \in Seq(Nat) /\ Len(p) = n /\ \A k \in 1 .. n : p[k] = current.data[k]
    <3>1. length \in Nat /\ length <= Len(data) /\ data \in Seq(Nat)
      BY <2>1, DataTyped DEF Typed, Received
    <3>2. /\ p \in Seq(Nat) /\ Len(p) = IF 2 <= length THEN length - 2 + 1 ELSE 0
          /\ \A k \in 1 .. length - 2 + 1 : p[k] = data[2 + k - 1]
      BY <3>1, PartOfSeq
    <3>. HIDE DEF p
    <3>. QED BY <2>2, <2>4, <3>2
  <2>. HIDE DEF p
  <2>6. Written(Written(memory, current.addr, p), current.addr, current.data)
          = Written(memory, current.addr, current.data)
    BY <1>a, <2>3, <2>4, <2>5, WrittenTwice
  <2>7. AbstractMemory' = AbstractMemory
    BY <2>1, <2>2, <2>6 DEF AbstractMemory, Arriving
  <2>. QED BY <2>1, <2>7, Stutter
<1>8. ASSUME NEW m, LibraryCall(m), DispatchCall, UNCHANGED host
      PROVE  \E v \in Values : Interface!Perform(v, m)
  <2>1. PICK v \in Values : \E output \in {<<>>} \cup {LogFrame(t) : t \in Texts} :
          /\ invoked' = [addr |-> data[1], args |-> Params, result |-> v]
          /\ memory' = m
          /\ toHost' = toHost \o (output \o (<<ACK>> \o SubSeq(<<v>>, 1, BytesOut)))
    BY <1>8 DEF LibraryCall
  <2>2. invoked' = [addr |-> data[1], args |-> Params, result |-> v] /\ memory' = m
    BY <2>1
  <2>3. Received /\ cmd = Call
    BY <1>8, Dispatching DEF DispatchCall, Dispatch, Unbroken
  <2>4. /\ current = request /\ request.cmd = Call /\ request # None /\ invoked = None
        /\ data[1] = request.addr
        /\ data[3] = Len(request.data) /\ length = 3 + Len(request.data)
        /\ SubSeq(data, 4, length) = request.data
    <3>1. /\ current.cmd = Call
          /\ current = request \/ current.cmd = MemoryWrite
          /\ data[1] = current.addr /\ data[3] = Len(current.data)
          /\ length = 3 + Len(current.data)
          /\ SubSeq(data, 4, length) = current.data
      BY <2>3, ReceivedData
    <3>2. current = request
      BY <3>1 DEF MemoryWrite, Call
    <3>3. request # None /\ invoked = None
      BY <2>3 DEF Received, Asked
    <3>. QED BY <3>1, <3>2, <3>3
  <2>5. invoked' = [addr |-> request.addr, args |-> request.data, result |-> v]
    BY <2>2, <2>4 DEF Params, ParamsIn
  <2>6. AbstractMemory' = m /\ UNCHANGED <<request, reply>>
    BY <1>8, <2>2, <2>4 DEF AbstractMemory, Arriving, host, MemoryWrite, Call
  <2>7. Interface!Perform(v, m)
    BY <2>4, <2>5, <2>6 DEF Interface!Perform, Interface!Call, Call, AbstractMemory
  <2>. QED BY <2>7
<1>9. ASSUME DispatchCall, UNCHANGED host PROVE Interface!Next
  <2>1. AbstractMemory = memory
    <3>1. Received /\ cmd = Call
      BY <1>9, Dispatching DEF DispatchCall, Dispatch, Unbroken
    <3>2. request.cmd # MemoryWrite
      BY <3>1, ReceivedData DEF Received, Asked, Pursued, MemoryWrite, Call
    <3>. QED BY <3>2 DEF AbstractMemory, Arriving
  <2>2. CASE LibraryCall(memory)
    <3>1. PICK v \in Values : Interface!Perform(v, memory)
      BY <1>8, <1>9, <2>2
    <3>. QED BY <2>1, <3>1 DEF Interface!Next, AbstractMemory
  <2>3. CASE \E x \in Addrs, v \in Values : LibraryCall([memory EXCEPT ![x] = v])
    <3>1. PICK x \in Addrs : \E w \in Values : LibraryCall([memory EXCEPT ![x] = w])
      BY <2>3
    <3>2. PICK w \in Values : LibraryCall([memory EXCEPT ![x] = w])
      BY <3>1
    <3>3. PICK v \in Values : Interface!Perform(v, [memory EXCEPT ![x] = w])
      BY <1>8, <1>9, <3>2
    <3>. QED BY <2>1, <3>3 DEF Interface!Next, AbstractMemory
  <2>. QED BY <1>9, <2>2, <2>3 DEF DispatchCall
<1>10. CASE UNCHANGED vars
  <2>1. UNCHANGED <<memory, current, request, reply, invoked>>
    BY <1>10 DEF vars, wire, host, device
  <2>. QED BY <2>1, Stutter DEF AbstractMemory, Arriving
<1>. QED BY <1>1, <1>2, <1>3, <1>4, <1>5, <1>6, <1>7, <1>9, <1>10 DEF Next

(* Host and device together are the communicator the proxies rely on: one  *)
(* command at a time, a write seen by every later read, an echo of its own *)
(* data, a call made once with its arguments; frames, acknowledgements,    *)
(* portions and LOG frames are not to be seen.                             *)
THEOREM LinkImplementsCommunicator ==
    ASSUME ServableRequests, PrintingSupported PROVE Spec => ImplementsCommunicator
<1>1. Init => Interface!Init
  BY DEF Init, WireInit, HostInit, DeviceInit, Interface!Init, Arriving
<1>2. LinkInv /\ Unbroken /\ [Next]_vars => [Interface!Next]_(Interface!comVars)
  BY Simulation
<1>. QED BY <1>1, <1>2, UnbrokenInvariant, PTL DEF Spec, ImplementsCommunicator, Interface!Spec

=============================================================================
