\* Bytes of two bits; the elements of the constant array are read in slices only.
CONSTANTS
    ByteValues = 4
    Endian = "little"
    None = None
    Addrs <- MCAddrs
    Rom <- MCRom
    Objects <- MCObjects
    OneByOne <- MCVariables
    Numbers <- MCNumbers
    SizeofLong = 2
SPECIFICATION Spec
INVARIANT TypeOK
PROPERTY ImplementsTypedMemory
