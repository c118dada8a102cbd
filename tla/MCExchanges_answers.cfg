CONSTANTS
  Server = {"s1", "s2"}
  Address = {"near", "far"}
  ServerOf <- MCServerOf
  Host = {"h1", "h2"}
  Attempts = 2
  MaxExchanges = 3
SPECIFICATION FairSpec
INVARIANTS TypeOK AddressIsLeased PingIsAnswered
PROPERTIES ExchangeEnds
CHECK_DEADLOCK FALSE
