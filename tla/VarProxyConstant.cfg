\* As in VarProxy.cfg, with the elements of the constant array read one at a time.
CONSTANTS
    ByteValues = 4
    Endian = "big"
    None = None
    Addrs <- MCAddrs
    Rom <- MCRom
    Objects <- MCObjects
    OneByOne <- MCObjects
    Numbers <- MCNumbers
    SizeofLong = 2
SPECIFICATION Spec
PROPERTY ImplementsTypedMemory
