CONSTANTS
  s1 = s1
  s2 = s2
  broken = broken
  unknown = unknown
  c1 = c1
  noChat = noChat
  h1 = h1
  h2 = h2
  Messages <- MCMessages
  Configurations <- MCConfigurations
  Faults <- MCFaults
  Status <- MCStatus
  Orders <- MCOrders
  Chats <- MCChats
  NoChat <- noChat
  Handlers <- MCHandlers
  OneCall = TRUE
  AdminChat = TRUE
  MinDelay = 1
  MaxDelay = 2
  MaxRequests = 2
SPECIFICATION FairSpec
INVARIANTS
  TypeOK
  TellsTruth
PROPERTIES
  SendsEnd
  BotObeys
CHECK_DEADLOCK FALSE
