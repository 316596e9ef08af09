CONSTANTS
  d1 = d1 d2 = d2 d3 = d3 n1 = n1 n2 = n2 n3 = n3 t1 = t1
  c = c g = g u = u v = v m1 = m1 m2 = m2 h1 = h1 h2 = h2
  Dispatches <- MCDispatches
  Nonces <- MCNonces
  Terminals <- MCTerminals
  Principal = t1
  Agents <- MCNone
  Levels <- MCCaution
  Jobs <- TurnJobs
  SendBound = 3
  NonceReuse = FALSE
  CheckInFlight = TRUE
  NoDispatch = NoDispatch
  NoTerminal = NoTerminal
  NoNonce = NoNonce
  NoJob = NoJob
  Chats <- MCChats
  Groups <- MCGroup
  Speakers <- MCSpeakers
  NoChat = NoChat
  NoSpeaker = NoSpeaker
  Msgs <- MCTwoMsgs
  Handlers <- MCOneHandler
  Tools <- MCAllTools
  MaxSends = 2
  CrossChat = FALSE
  SameSecond = FALSE
  SlowHandlers = TRUE
  LostAcks = TRUE
SPECIFICATION SendSpec
SYMMETRY MCSymmetry
VIEW MCView
INVARIANTS NothingSwallowed 
PROPERTIES ConsumeIsOwn FreesClosed
