CONSTANTS
  pnp = pnp
  display = display
  Subscribers <- MCSubscribers
  Maker = maker
  Places <- MCPlaces
  Capacity = 2
  Prealloc = 1
  MaxMessage = 5
  MaxMade = 5
  Null = Null
  NoRef = NoRef
SPECIFICATION FlowSpec
INVARIANTS ReadAsSent OneOwner PoolBounded
PROPERTIES ImplementsChannel
CHECK_DEADLOCK FALSE
