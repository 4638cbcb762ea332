# Pyroxene in TLA+

Pyroxene tests a C library on an embedded device from Python. A small
dispatcher runs on the device (`src/pyroxene/cshim/pyroxene.c`) and obeys four
commands that arrive over a serial line or a socket: echo, read memory, write
memory, call a function. Everything else, memory allocation included, happens
on the host. A generator writes a companion, C code that gives inline functions
and macros an address, and the debugging information of the linked file tells
the host where everything is and of which type. This directory models the
host's allocator, the command protocol with both its ends and the handshake it
starts with, the marshalling of function arguments, the proxies through which a
test reads and writes C objects, and the way from the C sources to the names of
a test. TLC checks the models; TLAPS proves, for every value of the constants,
the allocator correct, and with it what calls rely on, the command protocol,
the handshake, the bytes behind the proxies, and the registry of types.

## The system

| component | state | operations | interacts with |
| --- | --- | --- | --- |
| `SimpleMemoryManager` (memory_management.py) | the list `allocated`; `_address` of the proxies in it | `malloc`, `autofree`, `_find_slot` | called by `LibProxy.new` and `unmarshal_returntype`; sees the test's references through `sys.getrefcount` |
| `PyroxeneCommunicator`, serial and socket (device_commands.py) | the command being executed; the connection | `call`, `memory_read`, `memory_write`, `echo`, `command` | called by the proxies; sends frames to the dispatcher |
| `CommunicatorStub` | a dictionary as memory | `memory_read`, `memory_write` | stands for a device in unit tests |
| dispatcher (cshim/pyroxene.c) | the static buffer `comdata`, its place in the loop, the device's memory | one branch per command | `pyroxene_read` and `pyroxene_write` of the target; the library under test |
| `FuncProxy` (device_proxy.py) | the locals of a call | `__call__`, `marshal_args`, `unmarshal_returntype` | `LibProxy.new`, communicator |
| `VarProxy`, `VarProxyStruct` | type, address, length, constant data | element, slice and member access, iteration | communicator; the allocator counts references to it |
| `LibProxy` | none of its own | name lookup, `new`, `memset`, `memmove`, `sizeof` | ElfBackend, allocator, communicator |
| `ElfBackend`, `CType*` (elfbackend.py) | the registries `types` and `enums` | `type_from_die`, `type_from_string`, `update` | pyelftools; read by the proxies |
| companion generator | the functions found in headers | collect, filter, generate | pycparser, the build |
| targets (test/host, test/psoc) | a socket or a UART | `pyroxene_read`, `pyroxene_write` | called by the dispatcher |

What is hard about it:

- *Ownership by reference count.* A range belongs to whoever still refers to
  the proxy. `marshal_args` creates objects and drops them before their
  addresses have been used.
- *A list edited while it is walked*, re-sorted at each allocation, left in
  its new order by a failing one.
- *Framing without recovery.* Both ends count: headers, buffer limits, LOG
  frames in front of an answer, an acknowledgement for a command whose
  documentation says it returns nothing. One miscounted byte and each later
  answer belongs to another command.
- *A refusal that leaves its data behind*, an unknown command without an
  answer, a call with a number of arguments nobody prepared for.
- *Finding a first frame* while the device boots, resets or answers late.
- *Widths and bounds* in `VarProxy` and in return values.
- *Order of declarations* in `ElfBackend`: a name is met in several
  compilation units, declared here and defined there, in the linker's order.
- *Two generators that have to agree*: the companion's names, parameters and
  results are looked up again by `LibProxy` under the same conventions.
- *Short reads and reconnection* in the transports.

## Modules

| module | models | composed of |
| --- | --- | --- |
| `Heap` | what the allocator promises: held proxies own ranges that do not meet | |
| `MemoryManager` | `SimpleMemoryManager`, one action per loop iteration | refines `Heap` |
| `FuncCall` | `FuncProxy.__call__` and `marshal_args` | extends `MemoryManager` |
| `Commands` | command numbers, the effect of a read and of a write | |
| `Communicator` | what the proxies expect: one atomic command at a time | `Commands` |
| `Wire` | two reliable streams of cells | `Commands` |
| `PyroxeneCommunicator` | the host's end | `Wire` |
| `Dispatcher` | the device's end | `Wire` |
| `Link` | both ends, interleaved | refines `Communicator` |
| `Numerals` | integers as bytes: `int.to_bytes` and `int.from_bytes` | |
| `TypedMemory` | what a proxy promises: memory made of typed integers | |
| `SerialHandshake` | `PyroxeneSerialCommunicator.__init__` and the framing of the dispatcher, in bytes | ends in the state `Link` starts in |
| `VarProxy` | `VarProxy`, `VarProxyStruct`, `LibProxy._set`, `memset`, `memmove`, and `unmarshal_returntype` | `Commands`, `Numerals`; refines `TypedMemory` |
| `ElfTypes` | `ElfBackend` and the `CType` classes | |
| `Companion` | `companion_generator.py`, as operators | |
| `Library` | the compiler's view of the companion, `LibProxy.__getattr__` | extends `ElfTypes`, instantiates `Companion` |
| `HeapProofs`, `MemoryManagerProofs`, `FuncCallProofs`, `LinkProofs`, `SerialHandshakeProofs`, `NumeralsProofs`, `VarProxyProofs`, `ElfTypesProofs` | theorems and proofs | |
| `MCMemoryManager`, `MCLink`, `MCFuncCall`, `MCVarProxy`, `MCLibrary` | instances for TLC | |

An operator whose comment begins with "Defect:" is a defective variant of the
definition behind it. No action uses it; it documents a mistake that the
named checks would find, and each property has one that breaks it.

### MemoryManager

`allocated` is the list, whose entries are identified by their proxy
(`address` and `size` hold the rest of the tuple); `held` is the set of objects
the test can reach. `MallocCall` is the entry of `malloc`, with the reference
its caller has. `AutofreeDelete` and `AutofreeKeep` are the two outcomes of an
iteration of `autofree`; both move the index on, as the code does.
`FindSlotSort` ends `autofree` and does the stable sort; `FindSlotBefore` and
`FindSlotSkip` are the iterations of `_find_slot`, `FindSlotLast` and
`OutOfMemory` what follows its loop. `Drop` is the test giving up its last
reference. `sys.getrefcount(var) == 3` counts the list's tuple, `autofree`'s
local variable and the call's own argument; it is modelled as "not in `held`".
(CPython counts exactly so for objects that only plain references reach; a
proxy in a reference cycle would stay held.) Python executes `malloc` as a
whole, so no action of the test is enabled within it.

Sizes come from `lib.sizeof`, which can be 0 (an empty array) and -1 (a type
that is only declared); the module allows any set of integers.

### Link

A stream is a sequence of cells. A header field, an `unsigned long`, a byte of
data and a three-letter marker are one cell each, and lengths count cells; the
bytes of a number are never separated, since both ends read fields whole.
`cmd_max_length` and `sizeof(comdata.buffer)` are the one constant
`CmdMaxLength`, the highest `call_case` is `MaxParams`.

Host: `Send` issues a command (with the first portion for a `memory_write`),
`SkipLog` prints a LOG frame, `NextPortion` acknowledges a portion and sends
the next, `Finish` returns to the caller, `Refuse` raises. `raised` stays set:
an exception ends the test run, so what a test does that catches it is not
modelled. Device: `ReadHeader` or `RejectHeader`, `ReadData`, and one action
per branch of the switch. The library is external: a call returns any value,
writes at most one memory cell and prints at most one line, whose text may look
like an answer. Undefined behaviour (an access outside memory, a jump to no
function, a length that wraps) stops the device (`DispatchFault`).

The refinement to `Communicator` lets a write take effect when it is issued:
portions that have not arrived lie over the device's memory. `invoked` is a
history variable, the call that the device made for the current command.

### FuncCall

`var` is the local variable of `marshal_args`, `temporary` the object that
`lib.new` is creating. `store` says for each heap byte which argument was
written there last. Rebinding `var` drops the reference to the temporary
before; the allocator's own steps follow `MarshalBytes`. What `lib.new`
does after the allocation (`memset` to 0) is overwritten by the copy and left
out. An `int` argument needs no memory and is left out.

### VarProxy

`memory` is the device's memory, in bytes of `ByteValues` values. A proxy is a
record of the four fields that matter (`type`, `address`, `length`, `data`),
made by `NewProxy` as `__init__` does. `GetValue`, `SetNumber` and so on are
the methods: a read is a function of the proxy and the memory, a write gives
the memory afterwards and whether it raised. Each action is one access of the
test, from the proxy it starts with to the bytes it changes; nothing happens in
between, since a test is sequential and a command is atomic (`Communicator`).

An object also has `items`, its places as the C compiler lays them out. They
are data of the instance, not computed by the model; `VarProxyAssumption` says
what the compiler and the linker do. `Value`, the number at a place, is defined
by the digits of two's complement, independent of the code's decoding.
`call` is a history variable, the access in terms of places, and `reply` its
result. The refinement says that `TypedMemory`, which knows values and no bytes,
explains every access. It also spells out what surprises in the code: the part
of a list in front of a value that does not fit is assigned, a slice is assigned
as a whole or not at all and takes no negative number where an element does.

`ReturnItem` and `ReturnThrough` are functions of the library that return the
value of an integer or the address of an object: the device sends
`SizeofLong` bytes, of which `unmarshal_returntype` makes the number of the
declared width and sign, or a proxy. A signed result narrower than a long is
left out, since what the upper bytes hold depends on the target's calling
convention.

Modelled is `cffi_compatibility_mode`. The test stays within its objects, which
have two elements or more; see the hazards on device_proxy.py:132 and :143.

### SerialHandshake

Here a cell is a byte, with the sizes of the code: what makes resynchronisation
work is that any four bytes of the line, read as a header, are an echo of five
bytes, announce more data than `comdata.buffer` holds, or are no command at
all. `phase` is
the host's place in the loop of `__init__` (`sleep` also stands for the
`read_all` behind it), `received` what has come through the line, `booted`
whether the device listens. `Deliver` moves a byte or loses it; `Reset` empties
the device and cuts off its answer; `RejectHeader`, `DispatchEcho` and
`DispatchOther` are the dispatcher. `TimeOut` is the exception of `read`; it
ends the attempt, and the tester begins another (`Retry`).

Time is left out: a timeout comes when nothing else can happen, or early, as
one of `MaxFaults` late answers. A device that could be late without end would
never be connected to.

### ElfTypes, Companion and Library

`ElfTypes` reads units in any order (`NextUnit`), and a unit's entries one by
one (`Create`). `type_from_die` calls itself, through the `fromdie` of each class
and through `_create_members`, and changes the registry between those calls: a
struct is registered before its members are made, which may refer to it. So the
stack of calls is a variable, `calls`. A call has the entry it was given, what
the calls it made have returned, and the composite whose members it makes, if it
has come that far. `Wanted` lists the entries of which it makes the types;
`TypeFromDie` begins the next of these calls, and once there is none left
`Finish` does the rest of the function: `FromDie` is what the class makes of the
types, and then there is no name (`ReturnNameless`), a known one, which is
updated (`ReturnKnown`), a new one (`ReturnNew`), or a new composite, whose
members are next (`RegisterComposite`, `CreateMembers`). Where the code raises
(`Complete`, `Updatable` and `MembersComplete` say where) no step is possible;
an order of units that raises would be a deadlock, and violate `NeverRaises`.
`RecursionEnds` says why the stack does not grow for ever: `type_from_die` comes
back to an entry only through members, and the members of each name are made
once at a time, since the name is registered before.

A CType object is a record and its place in `backend.objects` its identity, so
that the same object under two names, or two objects for one name, can be told
apart. An entry is a record of its attributes; pyelftools, which decodes it, is
external, and `IsDie` is what an entry has as DWARF defines it.

`Companion` says for each function and macro which definitions the generator
writes: their names, parameters and result, and what they call with which
arguments. Their text is left out, pcpp and pycparser are external.

`Library` compiles those definitions to entries (external: the compiler and the
linker), lets `ElfTypes` read them among the library's own and looks names up
(`Lookup`, the whole of `LibProxy.__getattr__`). A name is looked up, a function
is not called: `unmarshal_returntype` (device_proxy.py:289) asks the type of a
result for its sign, which `CTypeEnumeration` does not have, so a call of `current`
of the instance, whose result is an enumeration, would raise an AttributeError
although `NamesResolve` holds of it.

What is true is data of the instance: `Definitions` and `Enumerators` say what
the C source defines, `Uses` what each name means to a C programmer, by hand and
in terms of C, without reference to entries or objects. `LibraryIsKnown` and
`NamesResolve` compare the two.

## Runs

| run | question | bounds | outcome |
| --- | --- | --- | --- |
| `memory_manager` | safety of the allocator, first fit, a bound on `malloc`, refinement of `Heap` | 4 proxies, sizes 4, 8, 11, heap of 32 bytes at 12 | holds |
| `autofree_leak` | is abandoned memory reclaimed? | 4 proxies, 3 slots | violated |
| `empty_object` | ranges with empty objects | sizes 0 and 8 | violated |
| `link` | framing, no refusal, refinement of `Communicator`; can both ends wait, is every command answered, every call made as asked? | buffer of 7 cells, writes of 5, calls with 2 arguments, as many as call cases | holds |
| `link_oversized` | requests over the limits, until the host raises: framing, and what a call with too many arguments comes back with | buffer of 6 cells, 4 of them data; echoes of 5, calls with no argument, all there is a call case for, and with one | holds |
| `func_call` | do arguments arrive, do objects survive, does `malloc` end? | 3 objects, 2 arguments, sizes 4 and 9, heap of 20 bytes | holds |
| `three_bytes_arguments` | the same with three bytes arguments | 3 arguments of 8 bytes, 24 bytes | violated |
| `var_proxy` | do bytes behave as the typed integers they stand for? | bytes of 2 bits, 2 structs, 2 arrays, 18 bytes | holds |
| `constant_element` | the same, with elements of a constant array | as before, big endian | violated |
| `serial_handshake` | do host and device find a common frame, and without touching memory? | 3 resets or late answers | holds |
| `library` | is everything known, does it stay known, are variables located, do names mean what they mean in C, does no order raise, does the recursion end? | 3 units and the companion in any order, 14 definitions, 17 names | holds |
| `inlined_function` | the same, with a function inlined in its own unit | one entry more | violated |

The bounds are chosen at the edges. Four proxies are enough for two
neighbouring garbage entries between live ones; 11 is no multiple of 8 and 12
is not aligned, so rounding matters; 32 bytes hold three objects but not every
four, so out-of-memory happens. A buffer of 7 cells takes portions of 4, so a
write of 5 needs two commands, the first of them exactly full; two arguments
are as many as there are call cases. A text of a LOG frame is empty, begins
like an answer, or like a refusal. In
`var_proxy`, -1 needs the rules for signs in both directions, 16 is the first
number that does not fit in two bytes of two bits, and the constants, 8 and 7,
are the smallest negative and the largest positive number once memmove has put
them in the signed array; no rule of the code depends on the width of a byte.
Three objects are enough in `func_call`: two temporaries and one object of the
test, in a heap that is full then. In `serial_handshake`, the first fault can
leave the device in the middle of a frame, the second spoil the attempt that
repairs this, the third leave an answer in the stream. The instance of `library`
has a struct and a union that refer to themselves and to each other, a typedef
of the struct, a variable that has the tag of the union for its name, an
anonymous struct, an enumeration, a pointer to a function, arrays declared without and
defined with a bound, a variable declared in one unit, in another, and defined
in a third, a constant array, functions inline, static and external, with and
without a result, with one returned through a pointer, and macros of each kind.
Symmetry is used in safety runs only.

Fairness: `malloc` runs on (`WF` of its steps, in `FairCallSpec` of `FuncCall`
and in `BusySpec` of `MemoryManager`) since Python executes it without waiting;
in `BusySpec`, for `autofree_leak`, the test goes on allocating besides. In
`FairSpec` of `Link` each end runs on whenever it can: the dispatcher is an
endless loop, the host waits without a timeout. In `SerialHandshake` the device
has power and loops, the line delivers, and host and tester go on, the loop in
`__init__` having no other exit. Nothing is assumed about the test itself.
`CHECK_DEADLOCK` is off because a test may stop at any time, and because the
handshake ends; in `library` it is on, since the backend is read to its end
unless the code raises, and then names can always be looked up.

### What the violated runs show

1. `autofree_leak`: after `del self.allocated[i]` the index is incremented too,
   so the next entry is skipped; an abandoned entry can be skipped for ever.
   `AutofreeFreesHalf` is what does hold: a pass frees at least half.
2. `empty_object`: `lib.new("uint8_t[8]")`, then an empty object (placed at the
   start of the heap, whatever lies there), then another of 8 bytes: the scan
   moves its address back at the empty entry and places the last over the first.
3. `three_bytes_arguments`: only `marshal_args`' local variable refers to a
   temporary. While the third is created, the first is collected and its range
   reused, before the command is sent. Two arguments are always safe.
4. `constant_element`: an element of a constant array read from the ELF file is
   a list of the elements from there on, because the data is cut at one end only.
5. `inlined_function`: if the compiler also inlines a function in its own unit,
   the entry with the code has a `DW_AT_abstract_origin` and no name, so the
   function is registered under no name, and `lib.name` raises. The arguments
   are taken from the origin; the name is not.

Two more limits show in `link_oversized`. What a refused request leaves in the
stream is read as headers and commands, so a test must not go on after that
exception. A call with more arguments than call cases calls nothing, is
acknowledged and returns 0, which may as well be the result of a function: the
test cannot tell. `CallReturnsResult` says when it is which.

## Proofs

`HeapProofs`: in the abstract heap, ranges stay apart (`RangesStayApart`) and a
held proxy owns one (`HeldObjectsOwnRanges`).

`MemoryManagerProofs`, for any number of proxies and any heap:

- `TypeCorrect` and `LiveObjectsKeepTheirEntry`, for any sizes, from `ListInv`:
  entries are distinct; `variable` is held and not in the list while `malloc`
  runs; every other held object is in the list. Distinctness is what makes a
  deletion remove all there is of an object.
- `AutofreeHalvesGarbage`, for any sizes: each unreferenced entry autofree has
  passed over took the place of one it deleted (`SkippedInv`).
- `MallocIsBounded`, for any sizes: each step lowers `IterationsLeft`, at most
  2 n + 3 for a list of n. A deletion moves the index on and shortens the list,
  so the index ends up to two places behind it (`WalkInv`), which the bound has
  to allow for.
- `RangesNeverOverlap`, `SearchIsFirstFit` and `AllocatorImplementsHeap`, for
  positive sizes (`PositiveSizes`; the run `empty_object` is why), from
  `HeapInv` besides: entries lie in the heap and apart from each other, and
  while `_find_slot` runs the list is sorted by address (`Sorted`), each entry
  the scan has passed ends at or before `search_address` (`Passed`), and no
  place for the new object begins below it (`Lowest`). `Passed` with `Sorted`
  makes the chosen place free, and `Lowest` makes it the first.

`FuncCallProofs`, for any number of objects and any number of arguments:

- `CallsUseTheAllocator`: a call refines `MemoryManager`, with the call's own
  variables hidden, so all that is proved there holds in calls. `CallTypeCorrect`
  is the type invariant. Both rest on `CallInv`: the allocator runs between two
  calls or within `lib.new` only; the object `lib.new` creates is another one
  than the temporary before it, to which `var` still refers.
- `NoBystanderIsTouched`, for positive sizes: whatever the test holds, bar the
  two temporaries, contains nothing of an argument (`Untouched`), because its
  range and that of the copy are both entries of the list (`ObjectsApart`).
- `TwoArgumentsArrive`, for positive sizes and two arguments at most: while
  the second argument is copied, `var` refers to the copy of the first
  (`FirstReferenced`), so its range is not given away; objects of the test stay
  held (`HeldArguments`). With three the first is referenced by nobody, and the
  theorem is false (`three_bytes_arguments`).

`LinkProofs`, for any buffer size, memory, requests and text:

- `LinkTypes`, `CommandsStayInStep` and `ResultsAreAccountedFor`
  (`CallReturnsResult`), whatever is requested. `CallIsMade` says more of fewer
  requests: it needs the hypotheses below, one of which is that there is a call
  case for each call.
- `ServableIsNeverRefused`, `ReturnedCallWasMade` and
  `LinkImplementsCommunicator`, if the device can serve the requests
  (`ServableRequests`: an echo and the arguments of a call fit, memory that is
  read or written is accessible, a function exists; nothing is assumed about the
  size of a write, which is split) and the host knows LOG frames or nothing is
  printed (`PrintingSupported`). `link_oversized` is why the first is needed.
- `NoMutualWait` and `CommandsAreBounded`, under the same hypotheses: while a
  command is being executed one of the ends has all it waits for in its stream
  (`NeverBothWait`), and whatever either of them does lowers `StepsLeft`, a
  natural number (`ReturnComesNearer`). Together they are `Answered` without its
  temporal part: no deadlock and no endless exchange; that an end which can go
  on does is the fairness. Five steps are the most a portion takes, and every
  portion but the last takes a cell off a write (`CellsLeft`).

The inductive invariant, `LinkInv`, follows an exchange by its stages. Either no
request is there and everything is empty (`Idle`), or one frame is on its way
(`Travelling`), its header has been read (`Announced`), the device has the
command (`Received`), or one answer, perhaps behind one LOG frame, is on its way
and says what has been done (`Answering`), or an exception has left the host or
will (`Broken`). `InStep` alone is not inductive: what is in a stream between
two steps has to be known to the cell to tell how much the reader takes of it,
a payload that contains headers included. `Unbroken`, that `Broken` is never
reached, is a separate invariant on top, and the only one that needs the
hypotheses; both have one lemma per action. The refinement (`Simulation`) maps
`Send` to the abstract command, at once with the effect of a whole write, and
every other step but `Finish` and the effect of a call to a stutter: the abstract
memory is that of the device with the rest of the write over it, and executing a
portion moves it from one to the other (`WrittenTwice`, `WrittenRest`). Lemmas
about streams (`AfterFront`, `FrameProperties`, `AnswerProperties`,
`LogProperties`) say what a reader finds at the front of one and what it leaves.

`SerialHandshakeProofs`, for any number of resets and late answers:

- `HandshakeTypes`, `ConnectedHostsAreInStep` and `HelloIsNeverMisread`, from
  `HandshakeInv`. Its core is `Aligned`: the bytes the device has not
  interpreted, with those on the line, are always the end of one constant
  sequence, `Line`, the last three bytes of a hello and a whole hello behind
  them. It is enough to go through the nine places of it where a header may be
  read (`HeaderOnLine`): six announce more than the buffer holds, two are an
  unknown command without data, one is hello. A device that waits therefore
  holds three bytes at most (`QuietHoldsLittle`), and the next hello finds it
  on `Line` again. `Answered` says that ACK can only come first in the answer to
  a whole hello, behind which nothing is left.

`NumeralsProofs`: for any width of a byte and both byte orders, `from_bytes`
undoes `to_bytes` (`FromToBytes`). The digits of a number determine it
(`DigitsDetermine`), and so do its bytes (`BytesDetermine`). What `Power` and
`lowest` compute is shown for every length by well-founded arguments on the
numbers themselves, there being no induction (`AllNumbers`, `Recursion`).

`VarProxyProofs`, for any layout of arrays and structs, any numbers, both byte
orders:

- `VarProxyTypes`: bytes stay bytes and constants keep theirs, because each
  write is a block of bytes within one variable.
- `VarProxyImplementsTypedMemory`: if no constant array is read element by
  element (`OneByOne \subseteq Variables`; the run `constant_element` is why),
  the proxies refine `TypedMemory`. The invariant is that the bytes are bytes;
  the work is in the steps. Places lie apart (`PlacesApart`), so writing the
  bytes of one leaves the values of the others (`ValueElsewhere`) and gives this
  one the value, converted to its type (`NumberIsStored`); a value read through
  `from_bytes` and the sign rule is the one the digits say (`NumberIsRead`,
  `ValueProperties`). Lists are assigned up to the first value that does not fit
  (`StoredInTurn`); slices, memset, memmove and struct copies write all the places
  of an object in one block (`SliceIsSet`, `BlockIsStored`, `BlockIsCopied`).
  Each action of `VarProxy` has a lemma that maps it to one of `TypedMemory`
  (`WriteSliceImplements` and so on).

`ElfTypesProofs`, for any entries that satisfy `IsDie`, any units made of them,
and any requests:

- `NothingIsForgotten`: a name keeps its object, and the object its address and
  its size once it has them. Objects are only ever added, or changed by `update`
  and `_create_members` in a way that keeps what is known (`Grows`). This needs
  to know which fields an object has, which is `BackendStaysWellFormed`: each
  object has the fields of its class and refers to objects there are, names are
  registered with the object that has them, calls hold objects there are.
- `ElfTypesAreComplete`: a registered struct or union has its members, each with
  a type that was made, or is getting them. While the members of one are being
  made any number of other types are registered, by calls on top of that one;
  `Composites` says that whoever has no members yet has a call in the stack that
  will make them. A member without a type would be an object without one, so the
  calls whose results become members (or pass through a const or volatile to
  become one) return a type each (`AreStrict`). That is where `MemberTypesKnown`
  is needed: `type_from_die` knows no `restrict`, and returns nothing for it.
- `DefinitionsAreFound`: a variable that has been read is registered, and has
  the address of a definition once one has been read, whichever of its entries
  came first. `Locates` says so for the entries whose call has returned, and
  that no variable made so far has an address that is not one of its name
  (`Placed`; only NULL, made last, has one).
- `RecursionIsBounded`: `RecursionEnds` for every library in which circles go
  through members. The hypothesis, `IsNesting(depth)`, is that entries have a
  depth, a pointer, array or typedef being deeper than what it is made of; C has
  it, since only a struct or union can be named before it is complete. `AreNested`
  says that between two calls that make members the depth falls from one call to
  the next; `AreDistinct`, that the names whose members are being made differ,
  because a composite gets there only when its name is new.
- `LoadingNeverRaises`: `NeverRaises` for every library whose names tell and
  whose entries are readable. `shape` gives each entry the class and the name of
  the type that C has for it (`IsShaping`, a definition by cases of the tag).
  While entries are read (`Shaped`), each object has the shape of some entry
  (`AreShaped`), and each open call has from the calls it made what their entries
  say, and will return what its own says (`AreFitting`). So `fromdie` gets what
  it needs, and what `update` is given has the shape of what is registered,
  since both have its name.

Of these hypotheses, `NamesTell` says that a name is one thing throughout the
library, and none is NULL. The code takes that for granted, since it has one
registry for variables, functions, types and tags of enumerations; it is false of
a library with `enum mode` and a variable `mode`. `IsReadable` lists what debugging
information must not have because the code raises there: encodings other than
integers and floats (complex numbers), a volatile void, variables that are
restrict, a typedef of a float or a function, members without a name, and bit
fields as DWARF 5 has them. That a typedef of an array is of no other typedef is
a limit of the model. Both are satisfiable: `MCShapingAssumption` evaluates them
for the entries of `library`, `MCNestingAssumption` does so for `IsNesting`, and
`MCMemberTypesAssumption` for `MemberTypesKnown`.

The assumptions about the constants are `MemoryManagerAssumption`,
`FuncCallAssumption`, `WireAssumption`, `CommunicatorAssumption`,
`DispatcherAssumption`, `LinkAssumption` (requests and texts are made of cells,
addresses and numbers), `SerialHandshakeAssumption`, `NumeralsAssumption` (a byte
has an even number of values), `ElfTypesAssumption` (what DWARF says of entries:
attributes that refer to entries do, children are where they belong, a variable
has a type, itself or through the declaration it specifies; none is called NULL)
and `VarProxyAssumption`. The last one says what C and the linker promise: elements follow each other without gaps, members have
offsets inside their struct and do not overlap, objects do not overlap either,
variables are in memory and constants in the file, with the bytes that are read
from there. It also has the limits of the model: arrays of two elements or more,
members that are integers or pointers, the integers first, and pointers that a
function can return.

Model-checked only: `MallocReturns`, `Answered` and `Connects`, which are
liveness (of the first two, `MallocIsBounded`, `NoMutualWait` and
`CommandsAreBounded` prove the safety they rest on; the handshake has no bound,
since an attempt that fails is made again), and `LibraryIsKnown` and `NamesResolve`, which compare the registry
with a C source that is data of the instance, through types of any depth
(`Means` is RECURSIVE).

## Not modelled

External, modelled from their use or left out: DWARF parsing (pyelftools),
preprocessing and parsing of C (pcpp, pycparser), compiler and linker, CPython's
reference counts. Without state or decisions: the text of the companion,
`generate_cdef`, which no other part uses, board initialisation of the PSoC
target, byte order macros, command line, logging.

Of modelled components: a location that is no address, a typedef of a typedef
of an array without a bound; in the instance of `library`, a struct that is
declared before it is defined in the same unit, variables whose type is a
typedef of an array; small structs returned by value, results that are
enumerations (the call raises) or signed and narrower than a long; slices of one element or none, arrays of arrays, array members and
comparison of proxies; the non-cffi mode; proxies derived from an object that
outlive its range; the socket transport and the host target with its short
reads and its reconnections; a transport without log support. `PROJECT.json`
lists the hazards among these, each with the reason it waits.

## Plan

1. `VarProxy` further: array members and arrays of arrays, slices of any
   length, and, over `MemoryManager`, derived proxies that outlive their range.
2. `HostSocket`: short reads, a client that comes back in the middle of a frame.
