SPECIFICATION DeliverySpec
CONSTANTS
  c1 = c1
  c2 = c2
  c3 = c3
  Nobody = Nobody
  Conn = {c1, c2, c3}
  ChannelOf <- MCChannelOf
  Emission = {e1}
  Example <- MCExample
  Events <- MCEvents
INVARIANTS
  RightRecipients
CHECK_DEADLOCK FALSE
