\* Two addresses, three clients, a clock of eighteen units that wraps.
CONSTANTS
  NoMac = NoMac
  Clients = {a, b, c}
  MaxIp = 2
  ClkSpan = 18
  Grain = 3
  Lease = 5
SPECIFICATION Spec
SYMMETRY Symmetry
INVARIANTS NoSharedLease OfferFree
PROPERTIES HolderKeepsAddress RefusedOnlyIfTaken
