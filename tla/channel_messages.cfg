SPECIFICATION Spec
CONSTANTS
  Kinds = {"discord", "slack", "feishu", "dingtalk", "wecom", "telegram", "weixin"}
  Messages = {1, 2}
  a = a  b = b  s = s
  ChatOf <- TwoChats
  SenderOf <- OneSender
  None = None
  MaxDeliveries = 3
  MaxSeen = 1
  MaxExits = 1
INVARIANTS
  HandledOnce
PROPERTY
  TakenIsSettled
CHECK_DEADLOCK FALSE
