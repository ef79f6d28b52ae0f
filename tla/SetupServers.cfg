\* Two connections and two blocks of heap; two segments on each connection.  A text
\* that overruns its array may stop the program.
CONSTANTS
  Conns = {c1, c2}
  Blocks = {b1, b2}
  NULL = NULL
  Other = Other
  Characters <- MCCharacters
  Ascii <- MCAscii
  Room <- MCRoom
  Forms <- MCForms
  Partial <- MCPartial
  HeaderLen = 1
  PageLen <- MCPageLen
  MaxRequests = 2
  Messages <- MCMessages
SPECIFICATION ServersSpec
INVARIANTS CallbackOwnsState LeakOnlyByAbort WholeUnlessPipelined SavedAsEntered ReplyFits LegalAnswered
PROPERTIES EveryConnectionEnds
CHECK_DEADLOCK FALSE
