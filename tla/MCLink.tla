-------------------------------- MODULE MCLink --------------------------------
(***************************************************************************)
(* Model-checking instances of Link: the requests a test issues.           *)
(***************************************************************************)
EXTENDS Link

CONSTANTS
    EchoLengths,    \* cells in an echo
    WriteLengths,   \* cells written by a memory_write
    ReadLengths,    \* cells read by a memory_read
    ArgCounts,      \* arguments of a call
    ReturnSizes     \* size of a function's return type

Strings(S, Lengths) == UNION {[1 .. k -> S] : k \in Lengths}

Inside(r, n) == r.addr .. r.addr + n - 1 \subseteq Addrs

Echoes == [cmd : {Echo}, addr : {0}, data : Strings(Values, EchoLengths), size : {0}]

Reads == [cmd : {MemoryRead}, addr : Addrs, data : {<<>>}, size : ReadLengths]

Writes == [cmd : {MemoryWrite}, addr : Addrs, data : Strings(Values, WriteLengths), size : {0}]

Calls == [cmd : {Call}, addr : Funcs, data : Strings(Values, ArgCounts), size : ReturnSizes]

MCRequests ==
    Echoes \cup {r \in Reads : Inside(r, r.size)}
           \cup {r \in Writes : Inside(r, Len(r.data))}
           \cup Calls

(* A printed line may look like an answer, or like a refusal.              *)
MCTexts == {<<>>, <<ACK, 1>>, <<NCK>>}

=============================================================================
