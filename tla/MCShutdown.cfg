\* Two messages, no fault: whether Stop returns.
SPECIFICATION FairSpec
CONSTANTS
  Client = {n1}
  Own = n1
  Msg = {m1, m2}
  Sender <- OwnMessages
  Kind <- Learns
  Conn = {k1}
  NoConn = NoConn
  NoMsg = NoMsg
  MsgChanSize = 1
  MailboxSize = 1
  MaxFaults = 0
PROPERTIES
  StopReturns
CHECK_DEADLOCK FALSE
