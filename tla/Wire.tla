-------------------------------- MODULE Wire --------------------------------
(***************************************************************************)
(* The serial line or socket between host and device: two streams that     *)
(* deliver in order and lose nothing.  A stream is a sequence of cells; a  *)
(* header field, an unsigned long, a byte of data and a three-letter       *)
(* marker are one cell each, and every length counts cells.                *)
(***************************************************************************)
EXTENDS Commands

CONSTANTS
    ACK, NCK, LOG,  \* the markers b"ACK", b"NCK" and b"LOG"
    None,           \* no command, no call
    Addrs,          \* addresses of the memory a test may touch
    Values,         \* what a memory cell, an argument or a result can hold
    CmdMaxLength    \* sizeof(comdata.buffer), and cmd_max_length: 1024

(* cmd_header_length and sizeof_long, in cells.                            *)
HeaderLength == 2
SizeofLong == 1

ASSUME WireAssumption ==
    /\ {ACK, NCK, LOG, None} \cap Nat = {}
    /\ ACK # NCK /\ ACK # LOG /\ NCK # LOG
    /\ Addrs \subseteq Nat
    /\ 0 \in Values /\ Values \subseteq Nat
    /\ CmdMaxLength \in Nat /\ CmdMaxLength > HeaderLength + SizeofLong

VARIABLES
    toDevice,   \* sent by the host, not read by the device yet
    toHost,     \* sent by the device, not read by the host yet
    invoked     \* history: the call the device has made for the last command

wire == <<toDevice, toHost, invoked>>

After(s, n) == SubSeq(s, n + 1, Len(s))

WireInit == toDevice = <<>> /\ toHost = <<>> /\ invoked = None

=============================================================================
