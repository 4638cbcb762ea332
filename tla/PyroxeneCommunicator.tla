------------------------ MODULE PyroxeneCommunicator ------------------------
(***************************************************************************)
(* The host side of a command (pyroxene/device_commands.py).  `command'    *)
(* sends a frame and waits for "ACK" and the expected number of cells; the *)
(* serial variant also prints LOG frames that come first.  memory_write    *)
(* sends long data in portions, one command each.                          *)
(***************************************************************************)
EXTENDS Wire

CONSTANTS
    Requests,   \* the commands a test issues: records [cmd, addr, data, size]
    LogSupport  \* log_support of the serial communicator; FALSE on a socket

ASSUME CommunicatorAssumption ==
    /\ None \notin Requests
    /\ LogSupport \in BOOLEAN

VARIABLES
    request,    \* the command being executed, as the test issued it
    current,    \* the same, for memory_write with the addr and data left to write
    reply,      \* what the last command returned
    raised      \* an exception has left command(); the test run ends

host == <<request, current, reply, raised>>

HostInit == request = None /\ current = None /\ reply = <<>> /\ raised = FALSE

-----------------------------------------------------------------------------
(* Defect: the frame header is not counted.                                *)
PortionWithoutHeader(data) ==
    LET n == CmdMaxLength - SizeofLong
    IN  SubSeq(data, 1, IF Len(data) < n THEN Len(data) ELSE n)

(* data[: cmd_max_length - sizeof_long - cmd_header_length]                *)
Portion(data) ==
    LET n == CmdMaxLength - SizeofLong - HeaderLength
    IN  SubSeq(data, 1, IF Len(data) < n THEN Len(data) ELSE n)

(* A function that returns anything returns an unsigned long.              *)
NumbytesReturn(r) == IF r.size > 0 THEN SizeofLong ELSE 0

Payload(r) ==
    CASE r.cmd = Echo -> r.data
      [] r.cmd = MemoryRead -> <<r.addr, r.size>>
      [] r.cmd = MemoryWrite -> <<r.addr>> \o Portion(r.data)
      [] r.cmd = Call -> <<r.addr, NumbytesReturn(r), Len(r.data)>> \o r.data

(* Defect: the length counts the header too.                               *)
FrameOfAll(r) == <<r.cmd, Len(Payload(r)) + HeaderLength>> \o Payload(r)

Frame(r) == <<r.cmd, Len(Payload(r))>> \o Payload(r)

(* Defect: the result of a call is not awaited.                            *)
ExpectedNoResult(r) ==
    CASE r.cmd = Echo -> Len(r.data)
      [] r.cmd = MemoryRead -> r.size
      [] r.cmd \in {MemoryWrite, Call} -> 0

Expected(r) ==
    CASE r.cmd = Echo -> Len(r.data)
      [] r.cmd = MemoryRead -> r.size
      [] r.cmd = MemoryWrite -> 0
      [] r.cmd = Call -> NumbytesReturn(r)

(* A new command.  memory_write of no data returns without one.            *)
Send(r) ==
    /\ request = None
    /\ ~raised
    /\ r.cmd = MemoryWrite => r.data # <<>>
    /\ request' = r
    /\ current' = r
    /\ toDevice' = toDevice \o Frame(r)
    /\ invoked' = None
    /\ UNCHANGED <<toHost, reply, raised>>

Waiting == request # None /\ toHost # <<>>

(* Defect: the two digits of the length are taken for the whole frame.     *)
SkipLogHeader ==
    /\ Waiting
    /\ LogSupport
    /\ Head(toHost) = LOG
    /\ Len(toHost) >= 2
    /\ toHost' = After(toHost, 2)
    /\ UNCHANGED <<toDevice, invoked, host>>

(* A LOG frame: two digits, then as many characters; then wait again.      *)
SkipLog ==
    /\ Waiting
    /\ LogSupport
    /\ Head(toHost) = LOG
    /\ Len(toHost) >= 2
    /\ Len(toHost) >= 2 + toHost[2]
    /\ toHost' = After(toHost, 2 + toHost[2])
    /\ UNCHANGED <<toDevice, invoked, host>>

Acknowledged ==
    /\ Waiting
    /\ Head(toHost) = ACK
    /\ Len(toHost) > Expected(current)
    /\ toHost' = After(toHost, 1 + Expected(current))

Rest(r) == After(r.data, Len(Portion(r.data)))

MoreToWrite == current.cmd = MemoryWrite /\ Rest(current) # <<>>

(* Defect: addr is not advanced.                                           *)
NextPortionInPlace ==
    /\ Acknowledged
    /\ MoreToWrite
    /\ current' = [current EXCEPT !.data = Rest(current)]
    /\ toDevice' = toDevice \o Frame(current')
    /\ UNCHANGED <<invoked, request, reply, raised>>

(* Defect: addr is advanced, but data is not cut.                          *)
NextPortionWhole ==
    /\ Acknowledged
    /\ MoreToWrite
    /\ current' = [current EXCEPT !.addr = @ + Len(Portion(current.data))]
    /\ toDevice' = toDevice \o Frame(current')
    /\ UNCHANGED <<invoked, request, reply, raised>>

NextPortion ==
    /\ Acknowledged
    /\ MoreToWrite
    /\ current' = [current EXCEPT !.addr = @ + Len(Portion(current.data)),
                                  !.data = Rest(current)]
    /\ toDevice' = toDevice \o Frame(current')
    /\ UNCHANGED <<invoked, request, reply, raised>>

Finish ==
    /\ Acknowledged
    /\ ~MoreToWrite
    /\ reply' = SubSeq(toHost, 2, 1 + Expected(current))
    /\ request' = None
    /\ current' = None
    /\ UNCHANGED <<toDevice, invoked, raised>>

(* Neither ACK nor a LOG frame: the exception leaves the rest unread.      *)
Refuse ==
    /\ Waiting
    /\ Head(toHost) # ACK
    /\ ~(LogSupport /\ Head(toHost) = LOG)
    /\ toHost' = After(toHost, 1)
    /\ request' = None
    /\ current' = None
    /\ raised' = TRUE
    /\ UNCHANGED <<toDevice, invoked, reply>>

HostStep == SkipLog \/ NextPortion \/ Finish \/ Refuse

=============================================================================
