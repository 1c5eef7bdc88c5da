SPECIFICATION ProxySpec
CONSTANTS
  Viewer = {v1}
  Nobody = Nobody
  Other = Other
  Buffer = 1
  MaxFaults = 2
  MaxAudioFaults = 1
  MaxRestarts = 1
  Names <- MCNames
  Content <- MCContent
  FileType <- MCType
  Encoded <- MCEncoded
  Room = 2
  MaxCuts = 1
  Lease = 4
  MaxTTL = 6
  Margin = 2
  Again = 1
  Renewable = TRUE
  NoToken = NoToken
  MaxOutages = 2
INVARIANTS DevicesGo ClosedIsStopped TransferIsTrue PodWorks
PROPERTIES SentUnderLock StreamsEnd AudioEnds PipelinesStop TokenKept
CHECK_DEADLOCK FALSE
