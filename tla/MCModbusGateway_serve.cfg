SPECIFICATION GFairSpec
CONSTANTS
  Addr <- MCAddr
  Kind <- MCKind
  InitRelays <- MCInitRelays
  FixServers <- MCFixServers
  TcpRequests <- MCTcpRequests
  Starts = {"bench", "init", "oneshot"}
  Calls <- MCCalls
  Faults = {"loss", "garble"}
  Chunks = {3}
  RxSize = 16
  MaxUnderWay = 0
INVARIANTS NeverStale CacheIsBoard ReplyIsRelays
PROPERTIES ImplementsClient EveryRequestAnswered GetsToListen
