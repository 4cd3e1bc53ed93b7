SPECIFICATION Spec
CONSTANTS
  Person = {a, b}
  Account = {x}
  Code = {k}
  Request = {r1, r2}
  MaxAttempts = 1
  None = None
SYMMETRY Interchangeable
INVARIANTS
  ErasedOwnNothing
  AnAdministratorRemains
  NoCircle
