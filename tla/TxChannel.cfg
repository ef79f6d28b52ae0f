\* The FIFO with every store order of TxChannelClear, two interrupts per hand-over;
\* the counter wraps every two and a half periods, a handler is up to two periods late.
CONSTANTS
  IxModulus = 8
  SymbolCount = 3
  MaxTicks = 2
  Tones <- MCTones
  Packets <- MCPackets
  Span = 5
  Period = 2
  Lead = 1
  Late = 4
SPECIFICATION TimedSpec
INVARIANTS InOrder LossBounded NoLossUnlessOutputFirst NoDrift SilentForOneSpan
PROPERTIES QuietWhileLoading Drains ImplementsStream
