SPECIFICATION FairSpec
CONSTANTS
  k1 = k1
  k2 = k2
  Core <- MCCore
  Page <- MCPage
  NumFrames = 3
  Channels = 2
  channel_of <- MCChannelOf
  queue_max = 1
  Configs <- MCConfigs
  MaxSends = 2
INVARIANTS
  TypeOK
  FreeCount
  PagesApart
  NothingLost
PROPERTIES
  EveryPartAnswered
