-------------------------------- MODULE Link --------------------------------
(***************************************************************************)
(* Host and device together: PyroxeneCommunicator and Dispatcher, one step *)
(* of one of them at a time.                                               *)
(***************************************************************************)
EXTENDS PyroxeneCommunicator, Dispatcher

(* What a stream can carry.                                                *)
Cells == Nat \cup {ACK, NCK, LOG}

(* The commands of a test are well typed, whatever their lengths and       *)
(* addresses; what a function prints is cells; None stands for no call.    *)
ASSUME LinkAssumption ==
    /\ Requests \subseteq [cmd : Echo .. Call, addr : Nat, data : Seq(Nat), size : Nat]
    /\ Texts \subseteq Seq(Cells)
    /\ None \notin [addr : Funcs, args : Seq(Nat), result : Values]

vars == <<wire, host, device>>

Init == WireInit /\ HostInit /\ DeviceInit

Next ==
    \/ \E r \in Requests : Send(r) /\ UNCHANGED device
    \/ SkipLog /\ UNCHANGED device
    \/ NextPortion /\ UNCHANGED device
    \/ Finish /\ UNCHANGED device
    \/ Refuse /\ UNCHANGED device
    \/ ReadHeader /\ UNCHANGED host
    \/ RejectHeader /\ UNCHANGED host
    \/ ReadData /\ UNCHANGED host
    \/ DispatchEcho /\ UNCHANGED host
    \/ DispatchRead /\ UNCHANGED host
    \/ DispatchWrite /\ UNCHANGED host
    \/ DispatchCall /\ UNCHANGED host
    \/ DispatchCallNone /\ UNCHANGED host
    \/ DispatchUnknown /\ UNCHANGED host
    \/ DispatchFault /\ UNCHANGED host

Spec == Init /\ [][Next]_vars

(* Both ends run on: the dispatcher is an endless loop, and the host waits *)
(* for its answer without a timeout.                                       *)
FairSpec ==
    /\ Spec
    /\ WF_vars(HostStep /\ UNCHANGED device)
    /\ WF_vars(DeviceNext /\ UNCHANGED host)

-----------------------------------------------------------------------------
TypeOK ==
    /\ toDevice \in Seq(Cells)
    /\ toHost \in Seq(Cells)
    /\ request = None \/ request.cmd \in Echo .. Call
    /\ reply \in Seq(Cells)
    /\ raised \in BOOLEAN
    /\ pc \in {"header", "data", "dispatch", "fault"}
    /\ cmd \in Nat
    /\ length \in Nat
    /\ data \in [1 .. MaxData -> Cells]
    /\ memory \in [Addrs -> Cells]

(* Framing: until an exception has left command, nothing is under way      *)
(* between two commands; no cell of one can be taken for part of the next. *)
InStep ==
    request = None /\ ~raised => toDevice = <<>> /\ toHost = <<>> /\ pc = "header"

(* No command of a test is refused, stops the device or raises:            *)
(* memory_write cuts its data so that every portion fits the buffer.       *)
NeverRefused == pc # "fault" /\ ~raised /\ (toHost # <<>> => Head(toHost) # NCK)

(* Every command is answered.                                              *)
Answered == request # None ~> request = None

(* "arg1 | ... | argn" (README.md, Pyroxene Commands): a call that returns *)
(* has been made, with the arguments given.                                *)
CallIsMade ==
    [][ request # None /\ request' = None /\ ~raised' =>
          (request.cmd = Call => /\ invoked # None
                                 /\ invoked.addr = request.addr
                                 /\ invoked.args = request.data) ]_vars

(* What a call comes back with, until the host raises: with a call_case    *)
(* for its arguments, the result of the function it has called, which is   *)
(* never what that prints; without one, 0, and no function has run.        *)
CallReturnsResult ==
    [][ request # None /\ request.cmd = Call /\ request' = None /\ ~raised' =>
          IF Len(request.data) <= MaxParams
          THEN /\ invoked # None
               /\ invoked.addr = request.addr
               /\ invoked.args = request.data
               /\ reply' = SubSeq(<<invoked.result>>, 1, NumbytesReturn(request))
          ELSE /\ invoked = None
               /\ reply' = SubSeq(<<0>>, 1, NumbytesReturn(request)) ]_vars

(* What the host can take from its stream: an answer or a LOG frame that   *)
(* is all there, or a first cell that makes it raise.                      *)
HostHasEnough ==
    /\ toHost # <<>>
    /\ Head(toHost) = ACK => Len(toHost) > Expected(current)
    /\ LogSupport /\ Head(toHost) = LOG => /\ Len(toHost) >= 2
                                           /\ Len(toHost) >= 2 + toHost[2]

(* What the device can go on with: all of the header or of the data that   *)
(* the header has announced, or a command to run.                          *)
DeviceHasEnough ==
    \/ pc = "header" /\ Len(toDevice) >= HeaderLength
    \/ pc = "data" /\ Len(toDevice) >= length
    \/ pc = "dispatch"

(* Two blocking reads without a timeout, and never both of them starve:    *)
(* while a command is being executed, what one of the two ends waits for   *)
(* is already in its stream.                                               *)
NeverBothWait == request # None => HostHasEnough \/ DeviceHasEnough

(* The steps host and device may still take until the command returns: a   *)
(* portion of a memory_write costs at most five, and writes a cell at      *)
(* least.                                                                  *)
StepsOfExchange ==
    IF toHost = <<>>
    THEN CASE pc = "header" -> 5
           [] pc = "data" -> 4
           [] OTHER -> 3
    ELSE IF Head(toHost) = LOG THEN 2 ELSE 1

CellsToWrite == IF current.cmd = MemoryWrite THEN Len(current.data) ELSE 0

StepsLeft == IF request = None THEN 0 ELSE 5 * CellsToWrite + StepsOfExchange

(* Every step of the host or the device brings the return of the command   *)
(* nearer, so that their exchanges are bounded: with NeverBothWait, no     *)
(* command goes on for ever.                                               *)
ReturnComesNearer ==
    [][request # None => StepsLeft' \in Nat /\ StepsLeft' < StepsLeft]_vars

-----------------------------------------------------------------------------
(* The link implements the abstract communicator: a write takes effect     *)
(* when it is issued, what has not arrived yet lies over the memory.       *)
Arriving == request # None /\ request.cmd = MemoryWrite

Interface == INSTANCE Communicator WITH
    memory <- IF Arriving THEN Written(memory, current.addr, current.data) ELSE memory,
    performed <- invoked

ImplementsCommunicator == Interface!Spec

=============================================================================
