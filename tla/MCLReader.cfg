SPECIFICATION Spec
CONSTANTS
  Byte <- MCByte
  NL = 10
  ReaderBufferSize = 4
  Reserve = 2
  MaxData = 5
INVARIANTS TypeOK Window GetsPrefix GetsAll
