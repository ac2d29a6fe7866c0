\* Varint digits have four values, a word 32 and a 32-bit word 8; the slots asked for are at the edges of each bandwidth's.
SPECIFICATION Spec
CONSTANTS
  hello = hello
  None = None
  Unread = Unread
  Noise = Noise
  TooShort = TooShort
  Keys = {own, LongFast}
  Numbers <- MCNumbers
  Strings <- MCStrings
  Slots = {0, 1, 51, 52, 103, 104, 207, 208, 1000003}
  DIGIT = 4
  WORD = 32
  WORD32 = 8
  MAX_BYTES = 3
  DEFAULT_FREQUENCY = 5
  DEFAULT_RSSI <- MCRssi
INVARIANTS
  VarintRoundTrip
  MessagesRoundTrip
  PacketRoundTrip
  FrameRoundTrip
  UplinkRoundTrip
  TunedInBand
CHECK_DEADLOCK FALSE
