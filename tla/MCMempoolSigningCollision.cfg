SPECIFICATION Spec
CONSTANTS
  Clients = {c1, c2}
  Accounts = {1, 2, 3}
  MutexCount = 2
  AddressHash <- HashIdentity
  InputLists <- PairList
  Free = Free
  Lost = Lost
  MaxRequests = 3
INVARIANT CollisionIsContention
