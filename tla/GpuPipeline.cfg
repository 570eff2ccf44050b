SPECIFICATION FairSpec
CONSTANTS
  BufferSize = 2
  Lengths = 2
  MaxEmit = 3
  MaxDispatch = 4
INVARIANTS
  DeliveredInOrder
  NoOverwriteOfUnread
  OneDispatchBehind
  StepsAreCounted
PROPERTY
  StoredIsDelivered
