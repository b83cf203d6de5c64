CONSTANTS
  tab1 = tab1
  tab2 = tab2
  alice = alice
  Device = {tab1}
  User = {alice}
  UserOf <- OneTab
  MaxConns = 2
  MaxEvents = 2
  BufferMax = 1
SPECIFICATION FairSpec
INVARIANT StreamMissesNothing
INVARIANT RingExact
INVARIANT BufferHasOneOwner
INVARIANT OpenSocketIsTracked
PROPERTY EventuallyUpToDate
CHECK_DEADLOCK FALSE
