SPECIFICATION FairSpec
CONSTANTS
  u1 = u1
  a = a
  b = b
  h1 = h1
  h2 = h2
  NoMail = NoMail
  Clients <- OneClient
  Mails <- OneMail
  Slots <- TwoSlots
  MaxFaults = 2
INVARIANTS
  TypeOK
  EntryWithMessage
  HonestStatus
  NoneForgotten
  OnceWhenCalm
PROPERTIES
  ImplementsParts
  Settled
