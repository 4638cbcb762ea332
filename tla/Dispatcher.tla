----------------------------- MODULE Dispatcher -----------------------------
(***************************************************************************)
(* The device side (cshim/pyroxene.c): pyroxene_dispatcher reads a header, *)
(* then the data of the command, into the static buffer comdata, runs the  *)
(* command and answers.  pyroxene_read blocks until all it was asked for   *)
(* has arrived, which is what test/psoc/main.c provides.                   *)
(*                                                                         *)
(* The library under test is external: a call returns any value, may write *)
(* one memory cell, and may print, which the firmware turns into LOG       *)
(* frames.                                                                 *)
(***************************************************************************)
EXTENDS Wire

CONSTANTS
    Funcs,      \* addresses of library functions
    Texts,      \* what a function may print: sequences of cells
    MaxParams   \* the highest numparam_in with a call_case: 10

ASSUME DispatcherAssumption ==
    /\ Funcs \subseteq Nat /\ Funcs \cap Addrs = {}
    /\ MaxParams \in Nat
    /\ HeaderLength + 3 * SizeofLong + MaxParams <= CmdMaxLength

VARIABLES
    pc,         \* "header", "data", "dispatch", or "fault"
    cmd,        \* comdata.d.cmd
    length,     \* comdata.d.length, and the local data_length
    data,       \* comdata.d.data, with what earlier commands left there
    memory      \* the memory behind Addrs

device == <<pc, cmd, length, data, memory>>

MaxData == CmdMaxLength - HeaderLength

DeviceInit ==
    /\ pc = "header"
    /\ cmd = 0
    /\ length = 0
    /\ data = [k \in 1 .. MaxData |-> 0]
    /\ memory = [x \in Addrs |-> 0]

-----------------------------------------------------------------------------
TakeHeader ==
    /\ pc = "header"
    /\ Len(toDevice) >= HeaderLength
    /\ cmd' = toDevice[1]
    /\ length' = toDevice[2]
    /\ toDevice' = After(toDevice, HeaderLength)

ReadHeader ==
    /\ TakeHeader
    /\ length' <= MaxData
    /\ pc' = "data"
    /\ UNCHANGED <<toHost, invoked, data, memory>>

(* NCK and back to the next header.  The data the header announced stays   *)
(* in the stream.                                                          *)
RejectHeader ==
    /\ TakeHeader
    /\ length' > MaxData
    /\ toHost' = Append(toHost, NCK)
    /\ UNCHANGED <<invoked, pc, data, memory>>

ReadData ==
    /\ pc = "data"
    /\ Len(toDevice) >= length
    /\ data' = [k \in 1 .. MaxData |-> IF k <= length THEN toDevice[k] ELSE data[k]]
    /\ toDevice' = After(toDevice, length)
    /\ pc' = "dispatch"
    /\ UNCHANGED <<toHost, invoked, cmd, length, memory>>

-----------------------------------------------------------------------------
Dispatch(c) == pc = "dispatch" /\ cmd = c

Respond(cells) ==
    /\ toHost' = toHost \o (<<ACK>> \o cells)
    /\ pc' = "header"
    /\ UNCHANGED <<toDevice, cmd, length, data>>

DispatchEcho ==
    /\ Dispatch(Echo)
    /\ Respond(SubSeq(data, 1, length))
    /\ UNCHANGED <<invoked, memory>>

(* Address and length are taken from the buffer, whatever data_length is.  *)
Accessible(a, n) == a .. a + n - 1 \subseteq Addrs

DispatchRead ==
    /\ Dispatch(MemoryRead)
    /\ Accessible(data[1], data[2])
    /\ Respond(Slice(memory, data[1], data[2]))
    /\ UNCHANGED <<invoked, memory>>

(* Defect: no acknowledgement, a memory_write "returns nothing".           *)
DispatchWriteSilent ==
    /\ Dispatch(MemoryWrite)
    /\ length >= SizeofLong
    /\ Accessible(data[1], length - SizeofLong)
    /\ memory' = Written(memory, data[1], SubSeq(data, SizeofLong + 1, length))
    /\ pc' = "header"
    /\ UNCHANGED <<toDevice, toHost, invoked, cmd, length, data>>

DispatchWrite ==
    /\ Dispatch(MemoryWrite)
    /\ length >= SizeofLong
    /\ Accessible(data[1], length - SizeofLong)
    /\ memory' = Written(memory, data[1], SubSeq(data, SizeofLong + 1, length))
    /\ Respond(<<>>)
    /\ UNCHANGED invoked

(* The parts of a call: numbytes_out, numparam_in and the parameters.      *)
BytesOut == data[2]
ParamsIn == data[3]

(* Defect: starts at numparam_in itself.                                   *)
ParamsTooEarly == SubSeq(data, 3, 2 + ParamsIn)

Params == SubSeq(data, 4, 3 + ParamsIn)

LogFrame(text) == <<LOG, Len(text)>> \o text

(* The function runs: it returns, prints at most one line, and leaves      *)
(* memory in the state m.                                                  *)
LibraryCall(m) ==
    \E result \in Values, output \in {<<>>} \cup {LogFrame(t) : t \in Texts} :
        /\ invoked' = [addr |-> data[1], args |-> Params, result |-> result]
        /\ memory' = m
        /\ toHost' = toHost \o (output \o (<<ACK>> \o SubSeq(<<result>>, 1, BytesOut)))

DispatchCall ==
    /\ Dispatch(Call)
    /\ data[1] \in Funcs
    /\ BytesOut <= SizeofLong
    /\ ParamsIn <= MaxParams
    /\ \/ LibraryCall(memory)
       \/ \E x \in Addrs, v \in Values : LibraryCall([memory EXCEPT ![x] = v])
    /\ pc' = "header"
    /\ UNCHANGED <<toDevice, cmd, length, data>>

(* Defect: `ulong result;', which no call_case sets.                       *)
DispatchCallUninitialised ==
    /\ Dispatch(Call)
    /\ BytesOut <= SizeofLong
    /\ ParamsIn > MaxParams
    /\ \E v \in Values : Respond(SubSeq(<<v>>, 1, BytesOut))
    /\ UNCHANGED <<invoked, memory>>

(* No call_case applies: nothing is called and the result is 0.            *)
DispatchCallNone ==
    /\ Dispatch(Call)
    /\ BytesOut <= SizeofLong
    /\ ParamsIn > MaxParams
    /\ Respond(SubSeq(<<0>>, 1, BytesOut))
    /\ UNCHANGED <<invoked, memory>>

(* default: no answer at all.                                              *)
DispatchUnknown ==
    /\ pc = "dispatch"
    /\ cmd > Call
    /\ pc' = "header"
    /\ UNCHANGED <<toDevice, toHost, invoked, cmd, length, data, memory>>

(* Undefined behaviour: an access outside memory, a size_t that wraps, a   *)
(* jump to something that is no function, a read beyond `result'.  Taken   *)
(* to stop the device.                                                     *)
Faulty ==
    CASE cmd = MemoryRead -> ~Accessible(data[1], data[2])
      [] cmd = MemoryWrite -> length < SizeofLong \/ ~Accessible(data[1], length - SizeofLong)
      [] cmd = Call -> \/ BytesOut > SizeofLong
                       \/ ParamsIn <= MaxParams /\ data[1] \notin Funcs
      [] OTHER -> FALSE

DispatchFault ==
    /\ pc = "dispatch"
    /\ Faulty
    /\ pc' = "fault"
    /\ UNCHANGED <<toDevice, toHost, invoked, cmd, length, data, memory>>

DeviceNext ==
    \/ ReadHeader
    \/ RejectHeader
    \/ ReadData
    \/ DispatchEcho
    \/ DispatchRead
    \/ DispatchWrite
    \/ DispatchCall
    \/ DispatchCallNone
    \/ DispatchUnknown
    \/ DispatchFault

=============================================================================
