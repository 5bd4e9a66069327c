SPECIFICATION Spec
CONSTANTS
  Addresses = {1, 2}
  Keys = {k1}
  Accounts = {v1, v2}
  Words = {zero, w1}
  Nil = Nil
  Unread = Unread
INVARIANTS TypeOK CleanEntriesMirrorBackend
PROPERTY ImplementsBlockStore
