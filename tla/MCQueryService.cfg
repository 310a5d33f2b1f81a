\* Two clients, who ask again and again, share a connection while files are indexed.
SPECIFICATION FairSpec
CONSTANTS
  Client = {r1, r2}
  Conn = {c1}
  Body <- MCBody
  Hits <- MCHits
  Limit = 1
  Files = 2
  Refused = {"unknown"}
INVARIANTS TypeOK ConnectionsKept CacheTrue
PROPERTIES KeepsPromise Answered
CHECK_DEADLOCK FALSE
