CONSTANTS
  MAX_JWT_PAYLOAD_LEN = 24
  maxKVPairLen = 10
  maxNameLen = 1
  maxValueLen = 3
  key <- MCkey
  Names <- MCNames
  Strings <- MCStrings
  Numbers <- MCNumbers
  Spacings <- MCSpacings
  MaxText = 24
SPECIFICATION Spec
INVARIANT SkipIsNoop
