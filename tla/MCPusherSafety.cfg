CONSTANTS
  p = p
  a = a
  boss = boss
  group = group
  owner = owner
  none = none
  Messages <- MCThree
  Chats <- MCChats
  Speakers <- MCOwner
  ChatOf <- MCChatOf
  SpeakerOf <- MCOneSpeaker
  ReplyTo <- MCReplyTo
  BossChats <- MCBoss
  BossSpeakers <- MCNobody
  Terminals <- MCTerminals
  NoTerm = none
  Fallback = p
  AgentIds <- MCOnlyA
  Callers <- MCNobody
  Exclusive <- MCToAgent
  RouterTo <- MCUnrouted
  DefaultTo <- MCUnrouted
  Limit = 3
  SwampedAt = 4
  MaxRedispatch = 1
  Debounce = FALSE
  Overdue = 2
  Old = 2
  AgeLimit = 0
  LostAnswers = TRUE
  Rejections = TRUE
  Crashes = TRUE
SPECIFICATION Spec
VIEW SafetyView
INVARIANTS Contained BouncedIsTold HonestReceipts  PusherSafe
PROPERTIES NeverPreempts
