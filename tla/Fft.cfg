CONSTANTS
  Q = 17
  MaxDomainSize = 8
  SpanCounts = {1, 3, 5, 8, 20}
  Sizes = {1, 2, 4, 8}
  Inputs <- MCInputs
SPECIFICATION Spec
INVARIANTS TypeOK NoOverlap TransformCorrect
PROPERTY RootsStable
