CONSTANTS
  g = g u = u v = v
  Messages <- MCMessages
  OwnerReplies <- MCThird
  Chats <- MCChats
  ChatOf <- MCChatOf
  Speakers <- MCSpeakers
  SpeakerOf <- MCSpeakerOf
  BufferSize = 2
  Limit = 1
  Redelivered <- MCOne
  MaxCrashes = 1
SPECIFICATION FairSpec
INVARIANTS InboundSafe
PROPERTIES NothingUndone 
