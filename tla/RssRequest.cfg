CONSTANTS
  Clients = {c1, c2}
  Vhosts = {"a.com", "b.com"}
  Ports = {"1935", "19350"}
  Words = {"live", "hd", "/"}
  Apps <- AppNames
  Streams = {"s", "t"}
SPECIFICATION Spec
INVARIANTS TypeOK AddressRead SameStreamMeets
CHECK_DEADLOCK FALSE
