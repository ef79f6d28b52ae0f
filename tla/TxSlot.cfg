\* One unit is 50 ms; two of the four windows of a minute; the clock may pass 2^32 ms.
CONSTANTS
  Second = 20
  SlotSeconds = 15
  Windows = 2
  SymbolCount = 79
  Period = 3
  Lead = 2
  Poll = 2
  Tail = 1
  Timeout = 300
  ClkSpan = 1000
  MaxEpoch = 1
  Late = 1
SPECIFICATION Spec
INVARIANTS CarrierInOwnWindow OnePacketPerWindow NoWindowSkipped TailAfterLastSymbol FirstSymbolInTime
PROPERTIES CutsOnlyLastSymbol TransmitsForever
