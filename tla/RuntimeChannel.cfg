\* Two kinds of messages from the App, so that one could starve the other.  Which
\* of several messages of a kind is known is RuntimeChannelProofs' part.
SPECIFICATION Spec
CONSTANTS
  FromApp = {context, shutdown}
  FromChild = {status}
  MaxKinds = 3
  MaxValue = 1
  WireSize = 1
  context = context
  shutdown = shutdown
  status = status
CHECK_DEADLOCK FALSE
PROPERTIES
  ImplementsLatestValue
  NewestArrives
  FlushedArrives
  ChannelsEnd
