SPECIFICATION Spec
CONSTANTS
  Parts = {"bridge", "letters", "claims"}
  agentA = a
  agentB = b
  Msgs = {1, 2}
  BadMsgs = {2}
  MaxPerSweep = 1
  MaxFaults = 1
  MaxCrashes = 1
  Kinds = {"telegram", "wechat", "imap", "cloud_mail", "feishu", "whatsapp"}
  PageSizes = {1, 2}
  Agents = {a, b}
  Senders = {a}
  Nobody = nobody
  Texts = {"x"}
  PseudoMails = {p}
  DupFreePasses = 1
  Targets <- AddressSets
  MaxSends = 1
  MaxMailTrouble = 2
INVARIANTS TypeOK AnnouncedOnce ToldPerEvent Accounted ClaimedOnce AnnouncedToOne
PROPERTIES KeepsPromise FileAnnounced LetterSettles PersonHeard
CHECK_DEADLOCK FALSE
