\* Two node databases and their files; the clock counts node expiries, varint digits have four values.
SPECIFICATION MCSpec
CONSTANTS
  a = a
  b = b
  n1 = n1
  zero = zero
  alice = alice
  None = None
  Garbage = Garbage
  Addresses = {n1}
  NotNodes = {zero}
  DBs = {a, b}
  Inbound <- MCInbound
  EXPIRY = 1
  STALE = 1
  DIGIT = 4
  WORD = 32
  WORD32 = 8
  MAX_BYTES = 3
  MaxTime = 3
INVARIANTS
  TypeOK
  HeardIsGenuine
  ImportsConverge
  ExpiryAgreesWithStale
PROPERTIES
  HeardNeverFalls
  OnlyNewerImportForgets
