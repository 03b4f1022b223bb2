SPECIFICATION Spec
CONSTANTS
  ChannelTypes = {slack, email}
  Total = 3
  MaxLimit = 2
  MaxCalls = 2
INVARIANT PagesDisjoint
