---------------------------- MODULE Communicator ----------------------------
(***************************************************************************)
(* What the proxies expect of a Communicator (pyroxene/device_commands.py, *)
(* the base class and its in-memory CommunicatorStub): one command at a    *)
(* time, a write is visible to every later read, a read returns what the   *)
(* memory holds, an echo returns its own data, a call runs the function    *)
(* once with the given arguments and returns its result.  There is no      *)
(* error: the stub has none.                                               *)
(***************************************************************************)
EXTENDS Commands

CONSTANTS
    Addrs,      \* addresses of the device's memory
    Values,     \* what a cell of memory, an argument or a result can hold
    Requests,   \* the commands in use: records [cmd, addr, data, size]
    None        \* no command, no call

VARIABLES
    memory,     \* CommunicatorStub.memory, or the memory of the device
    request,    \* the command being executed, None between commands
    performed,  \* the call that was made for it: record [addr, args, result]
    reply       \* what the last command returned

comVars == <<memory, request, performed, reply>>

Init ==
    /\ memory = [x \in Addrs |-> 0]
    /\ request = None
    /\ performed = None
    /\ reply = <<>>

Invoke(r) ==
    /\ request = None
    /\ request' = r
    /\ memory' = IF r.cmd = MemoryWrite THEN Written(memory, r.addr, r.data) ELSE memory
    /\ performed' = None
    /\ UNCHANGED reply

(* The library function may write one cell of memory.                      *)
Perform(result, m) ==
    /\ request # None
    /\ request.cmd = Call
    /\ performed = None
    /\ performed' = [addr |-> request.addr, args |-> request.data, result |-> result]
    /\ memory' = m
    /\ UNCHANGED <<request, reply>>

Answer ==
    CASE request.cmd = Echo -> request.data
      [] request.cmd = MemoryRead -> Slice(memory, request.addr, request.size)
      [] request.cmd = MemoryWrite -> <<>>
      [] request.cmd = Call -> IF request.size = 0 THEN <<>> ELSE <<performed.result>>

Return ==
    /\ request # None
    /\ request.cmd = Call => performed # None
    /\ reply' = Answer
    /\ request' = None
    /\ UNCHANGED <<memory, performed>>

Next ==
    \/ \E r \in Requests : Invoke(r)
    \/ \E v \in Values : Perform(v, memory)
    \/ \E v, w \in Values, x \in Addrs : Perform(v, [memory EXCEPT ![x] = w])
    \/ Return

Spec == Init /\ [][Next]_comVars

=============================================================================
