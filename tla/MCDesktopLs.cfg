INIT Init
NEXT Next
CONSTANTS
  a = a
  b = b
  f = f
  g = g
  c = c
  long = long
  Disks = 3
  Assets = 0
  Listing <- MCListing
  LongName = {long}
  MaxPath = 2
  NULL = NULL
  MaxEntries = 3
  Row = 2
  Junk = Junk
  Typed <- MCTyped
  Batches <- MCBatches
  MaxDepth = 3
INVARIANT LsLists
