SPECIFICATION Spec
CONSTANTS
  Request = {r1, r2, r3}
  Space = {s1, s2}
  LocalKey = {k}
  Cell = {c1, c2}
  Value = {v1, v2}
  Blob = {b1}
  Payload <- MCPayload
  NoRequest = NoRequest
  k = k
  c1 = c1
  c2 = c2
  v1 = v1
  v2 = v2
  b1 = b1
SYMMETRY RequestSymmetry
INVARIANTS
  UnionKeepsAcked
