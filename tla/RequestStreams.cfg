SPECIFICATION XFairSpec
CONSTANTS
  Streams = {s1, s2}
  Workers = {w1}
  MinSize = 2
  RegisteredMax = 2
  Sizes = {1, 2}
  Compressed = TRUE
  Overhead = 1
  MaxEncodable = 3
  Digests <- MCDigests
  RemoteStatuses <- MCRemoteStatuses
  MetadataByteLen = 17
  MaxLen = 1000
INVARIANTS
  LimitBounded
  SentOwnDigest
  SidesAgree
PROPERTIES
  StreamsEnd
  HeadHolds
  
  StaysShut
