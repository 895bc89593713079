\* Two lcores that forge packets at once.
SPECIFICATION CrcSpec
CONSTANTS
  ByteBits = 2
  xor <- XorWords
  Polynomial = 178
  Seed = 93
  Lcores = {l1, l2}
  Packets <- SomePackets
  Variant = {3, 6}
INVARIANTS CrcTypeOK SumsReadWholeTables IcrcCorrect
PROPERTY AnnouncedTablesStay
