SPECIFICATION WebSpec
CONSTANTS
  a1 = a1
  a2 = a2
  n1 = n1
  n2 = n2
  None = None
  Garbage = Garbage
  Absent = Absent
  Mistyped = Mistyped
  TooLong = TooLong
  Illegal = Illegal
  Addrs = {a1, a2}
  LegalNames = {n1, n2}
  kMaxBody = 2
  ValidHz = {1, 5}
  Contents <- MCContents
  MaxPosts = 3
  MaxTotal = 3
INVARIANT
  NoBodyNothingJudged
SYMMETRY Permuted
CHECK_DEADLOCK FALSE
