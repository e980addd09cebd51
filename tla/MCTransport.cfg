\* Two messages on one or two connections, one fault, Stop at any time.
SPECIFICATION FairSpec
CONSTANTS
  Client = {n1}
  Own = n1
  Msg = {m1, m2}
  Sender <- OwnMessages
  Kind <- Learns
  Conn = {k1, k2}
  NoConn = NoConn
  NoMsg = NoMsg
  MsgChanSize = 1
  MailboxSize = 1
  MaxFaults = 1
INVARIANTS
  TypeOK
  StopInOrder
PROPERTIES
  ImplementsService
  SentArrives
CHECK_DEADLOCK FALSE
