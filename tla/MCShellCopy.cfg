SPECIFICATION Spec
CONSTANTS
  Path = {a, b}
  Absent = Absent
  NULL = NULL
  Byte = {97, 98}
  Lines <- MCLines
  ReadSize = 2
  WriterBufferSize = 3
  MaxFile = 2
INVARIANTS CopyIsEqual
