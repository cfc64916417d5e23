CONSTANTS
  MaxRequests = 2
  Ports = {p1, p2}
  NoSocket = NoSocket
  Unbound = Unbound
  MaxFd = 2
SPECIFICATION FairSpec
INVARIANTS AnswerIsOwn SentOnceInOrder NoneForgotten DescriptorsReturned
PROPERTIES HandlerReturns ImplementsRequestReply
CHECK_DEADLOCK FALSE
