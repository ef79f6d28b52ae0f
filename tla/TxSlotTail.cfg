\* Sleeps that end on time, in the first 2^32 ms.
CONSTANTS
  Second = 20
  SlotSeconds = 15
  Windows = 2
  SymbolCount = 79
  Period = 3
  Lead = 2
  Poll = 2
  Tail = 1
  Timeout = 300
  ClkSpan = 1000
  MaxEpoch = 0
  Late = 0
SPECIFICATION Spec
PROPERTIES LastSymbolWhole
