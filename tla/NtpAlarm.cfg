SPECIFICATION Spec
CONSTANTS
  Second = 4
  Window = 4
  Late = 1
  Resend = 8
  Delta = 5
  Era = 9
  MaxTime = 11
INVARIANT AlarmServesFetch
