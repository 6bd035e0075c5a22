CONSTANTS
  Q = 193
  N = 2
  W = 5
  S = 3
  Values <- MCValues
SPECIFICATION Spec
INVARIANTS TypeOK Tracks ReadsBack
