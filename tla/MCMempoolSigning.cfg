SPECIFICATION Spec
CONSTANTS
  Clients = {c1, c2}
  Accounts = {1, 2, 3}
  MutexCount = 2
  AddressHash <- HashIdentity
  InputLists <- Lists
  Free = Free
  Lost = Lost
  MaxRequests = 2
INVARIANTS TypeOK SignedSequencesFit CheckerShowsMempool
CHECK_DEADLOCK FALSE
PROPERTIES RequestsEnd CommitsEnd
