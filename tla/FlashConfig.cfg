\* Two texts, a too long SSID and two frequencies.
CONSTANTS
  Texts = {1, 2}
  LongSsid = 9
  CutSsid = 2
  Freqs = {0, 2}
  Magic = 1
  Configs <- MCConfigs
SPECIFICATION Spec
INVARIANTS AcceptedNearlyWhole SavedIsDurable FailsOnlyIfTooLong
PROPERTIES ImplementsStore
