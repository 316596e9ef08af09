CONSTANTS
  p = p
  a = a
  boss = boss
  group = group
  owner = owner
  none = none
  Messages <- MCTwo
  Chats <- MCChats
  Speakers <- MCOwner
  ChatOf <- MCTwoChatOf
  SpeakerOf <- MCTwoSpeaker
  ReplyTo <- MCTwoReplyTo
  BossChats <- MCBoss
  BossSpeakers <- MCNobody
  Terminals <- MCTerminals
  NoTerm = none
  Fallback = p
  AgentIds <- MCNobody
  Callers <- MCOnlyA
  Exclusive <- MCUnrouted
  RouterTo <- MCUnrouted
  DefaultTo <- MCToAgent
  Limit = 2
  SwampedAt = 1
  MaxRedispatch = 2
  Debounce = TRUE
  Overdue = 2
  Old = 2
  AgeLimit = 2
  LostAnswers = FALSE
  Rejections = FALSE
  Crashes = FALSE
SPECIFICATION FairSpec
PROPERTIES EverythingHeard
