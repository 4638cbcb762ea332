--------------------------- MODULE SerialHandshake ---------------------------
(***************************************************************************)
(* PyroxeneSerialCommunicator.__init__ (pyroxene/device_commands.py): how  *)
(* host and device come to agree on where a frame begins.  The device may  *)
(* boot while the host's first frame is on the line and hear only its end; *)
(* it may be reset; an attempt that fails raises, and the tester starts    *)
(* another one.  Here streams are made of bytes, with the sizes of the     *)
(* code, and the device is the framing of pyroxene_dispatcher              *)
(* (pyroxene/cshim/pyroxene.c).                                            *)
(*                                                                         *)
(* Time is left out.  initial_timeout is long enough for the device to     *)
(* work through what is on the line, but for MaxFaults answers that come   *)
(* late; a sleep as long lets those arrive too.                            *)
(***************************************************************************)
EXTENDS Integers, Sequences

CONSTANTS
    MaxFaults   \* resets of the device and late answers in this instance

ASSUME SerialHandshakeAssumption == MaxFaults \in Nat

VARIABLES
    phase,      \* of the host: "sleep", "response", "data", "failed" or "connected"
    booted,     \* whether the device hears the line
    toDevice,   \* bytes on the line to the device
    received,   \* bytes the device has not interpreted yet
    toHost,     \* bytes for the host
    misread,    \* history: hello was once taken for a read, a write or a call
    faults      \* resets and late answers so far

host == <<phase, toHost>>
handshakeVars == <<phase, booted, toDevice, received, toHost, misread, faults>>

Bytes == 0 .. 255

Hello == <<104, 101, 108, 108, 111>>
ACK == <<65, 67, 75>>
NCK == <<78, 67, 75>>

(* struct.pack("!HH", 0, len(data)) + data                                 *)
Frame == <<0, 0, 0, Len(Hello)>> \o Hello

HeaderLength == 4

(* sizeof(comdata.buffer)                                                  *)
BufferSize == 1024

After(s, n) == SubSeq(s, n + 1, Len(s))

Init ==
    /\ phase = "sleep"
    /\ booted \in BOOLEAN
    /\ toDevice = <<>> /\ received = <<>> /\ toHost = <<>>
    /\ misread = FALSE
    /\ faults = 0

-----------------------------------------------------------------------------
(* The device.                                                             *)
Number(high, low) == high * 256 + low

Command == Number(received[1], received[2])
DataLength == Number(received[3], received[4])

(* Defect: any length will do.                                             *)
TooLongUnchecked == FALSE

TooLong == DataLength > BufferSize - HeaderLength

HasHeader == Len(received) >= HeaderLength
HasData == HasHeader /\ ~TooLong /\ Len(received) >= HeaderLength + DataLength

(* The device has interpreted whatever it could.                           *)
Quiet == toDevice = <<>> /\ ~(HasHeader /\ TooLong) /\ ~HasData

Boot ==
    /\ ~booted
    /\ booted' = TRUE
    /\ UNCHANGED <<host, toDevice, received, misread, faults>>

(* A byte arrives, or is lost.                                             *)
Deliver ==
    /\ toDevice # <<>>
    /\ toDevice' = Tail(toDevice)
    /\ received' = IF booted THEN Append(received, Head(toDevice)) ELSE received
    /\ UNCHANGED <<host, booted, misread, faults>>

(* Defect: the device goes on in the middle of a frame.                    *)
ResetKeep ==
    /\ booted /\ phase # "connected"
    /\ faults < MaxFaults
    /\ faults' = faults + 1
    /\ booted' = FALSE
    /\ \E n \in 0 .. Len(toHost) : toHost' = SubSeq(toHost, 1, n)
    /\ UNCHANGED <<phase, toDevice, received, misread>>

(* In the middle of an answer, perhaps.                                    *)
Reset ==
    /\ booted /\ phase # "connected"
    /\ faults < MaxFaults
    /\ faults' = faults + 1
    /\ booted' = FALSE
    /\ received' = <<>>
    /\ \E n \in 0 .. Len(toHost) : toHost' = SubSeq(toHost, 1, n)
    /\ UNCHANGED <<phase, toDevice, misread>>

(* A length the buffer has no room for: the data is not skipped.           *)
RejectHeader ==
    /\ HasHeader /\ TooLong
    /\ toHost' = toHost \o NCK
    /\ received' = After(received, HeaderLength)
    /\ UNCHANGED <<phase, booted, toDevice, misread, faults>>

DispatchEcho ==
    /\ HasData /\ Command = 0
    /\ toHost' = toHost \o ACK \o SubSeq(received, HeaderLength + 1, HeaderLength + DataLength)
    /\ received' = After(received, HeaderLength + DataLength)
    /\ UNCHANGED <<phase, booted, toDevice, misread, faults>>

(* An unknown command is dropped.                                          *)
DispatchOther ==
    /\ HasData /\ Command # 0
    /\ misread' = (misread \/ Command \in 1 .. 3)
    /\ received' = After(received, HeaderLength + DataLength)
    /\ UNCHANGED <<host, booted, toDevice, faults>>

-----------------------------------------------------------------------------
(* The host.                                                               *)

(* Defect: bytes of attempts before are not thrown away.                   *)
SendHelloUnread ==
    /\ phase = "sleep"
    /\ Quiet
    /\ toDevice' = toDevice \o Frame
    /\ phase' = "response"
    /\ UNCHANGED <<booted, received, toHost, misread, faults>>

(* time.sleep(initial_timeout); self.ser.read_all(); self.echo(b"hello")   *)
SendHello ==
    /\ phase = "sleep"
    /\ Quiet
    /\ toHost' = <<>>
    /\ toDevice' = toDevice \o Frame
    /\ phase' = "response"
    /\ UNCHANGED <<booted, received, misread, faults>>

(* command raises on anything but ACK; there is no LOG frame yet.          *)
ReadResponse ==
    /\ phase = "response"
    /\ Len(toHost) >= Len(ACK)
    /\ phase' = IF SubSeq(toHost, 1, Len(ACK)) = ACK THEN "data" ELSE "failed"
    /\ toHost' = After(toHost, Len(ACK))
    /\ UNCHANGED <<booted, toDevice, received, misread, faults>>

(* Another echo than hello starts the loop again.                          *)
ReadData ==
    /\ phase = "data"
    /\ Len(toHost) >= Len(Hello)
    /\ phase' = IF SubSeq(toHost, 1, Len(Hello)) = Hello THEN "connected" ELSE "sleep"
    /\ toHost' = After(toHost, Len(Hello))
    /\ UNCHANGED <<booted, toDevice, received, misread, faults>>

Wanted == IF phase = "response" THEN Len(ACK) ELSE Len(Hello)

(* Defect: there is no timeout (ser.timeout is None).                      *)
TimeOutNever ==
    /\ phase \in {"response", "data"}
    /\ Len(toHost) < Wanted
    /\ faults < MaxFaults
    /\ phase' = "failed"
    /\ faults' = faults + 1
    /\ toHost' = <<>>
    /\ UNCHANGED <<booted, toDevice, received, misread>>

(* read throws away what it got and raises TimeoutError.                   *)
TimeOut ==
    /\ phase \in {"response", "data"}
    /\ Len(toHost) < Wanted
    /\ Quiet \/ faults < MaxFaults
    /\ phase' = "failed"
    /\ faults' = IF Quiet THEN faults ELSE faults + 1
    /\ toHost' = <<>>
    /\ UNCHANGED <<booted, toDevice, received, misread>>

(* The tester starts the test again.                                       *)
Retry ==
    /\ phase = "failed"
    /\ phase' = "sleep"
    /\ UNCHANGED <<booted, toDevice, received, toHost, misread, faults>>

-----------------------------------------------------------------------------
Device == Boot \/ RejectHeader \/ DispatchEcho \/ DispatchOther
Host == SendHello \/ ReadResponse \/ ReadData \/ TimeOut \/ Retry

Next == Device \/ Deliver \/ Reset \/ Host

Spec == Init /\ [][Next]_handshakeVars

(* Power is on, the line delivers, the dispatcher loops, and host and      *)
(* tester go on until there is a connection.                               *)
Fairness ==
    /\ WF_handshakeVars(Device)
    /\ WF_handshakeVars(Deliver)
    /\ WF_handshakeVars(Host)

FairSpec == Spec /\ Fairness

-----------------------------------------------------------------------------
(* Streams hold bytes, and a device that is off holds none.                *)
TypeOK ==
    /\ phase \in {"sleep", "response", "data", "failed", "connected"}
    /\ booted \in BOOLEAN /\ misread \in BOOLEAN
    /\ {toDevice, received, toHost} \subseteq Seq(Bytes)
    /\ ~booted => received = <<>>
    /\ faults \in 0 .. MaxFaults

(* Once connected, host and device agree on where a frame begins, and no   *)
(* byte of an earlier attempt is left that would be taken for an answer:   *)
(* this is the state Link starts in (PyroxeneSerialCommunicator.__init__). *)
ConnectedInStep == phase = "connected" => toDevice = <<>> /\ received = <<>> /\ toHost = <<>>

(* However much of hello the device has missed, what it hears is never     *)
(* taken for a command that reads, writes or calls, and it never waits for *)
(* more data than hello has (pyroxene_dispatcher).                         *)
NeverMisread ==
    /\ ~misread
    /\ HasHeader => TooLong \/ DataLength <= Len(Hello)

(* After a few attempts there is a connection, wherever in a frame the     *)
(* device has woken up.                                                    *)
Connects == <>[](phase = "connected")

=============================================================================
