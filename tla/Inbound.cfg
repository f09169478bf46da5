SPECIFICATION FairSpec
CONSTANTS
  plain = plain  media = media  many = many  long = long  stamped = stamped
  tiny = tiny  quote = quote  brace = brace  legacy = legacy  forged = forged
  nested = nested  noise = noise  large = large  inGroup = inGroup  otherGroup = otherGroup
  me = me  a1 = a1  a2 = a2  mallory = mallory  group = group  g1 = g1  g2 = g2
  hookPay = hookPay  appPay = appPay  noncePay = noncePay  otherPay = otherPay
  k1 = k1  k2 = k2  prog1 = prog1  prog2 = prog2  bh = bh  BadHex = BadHex
  Unknown = Unknown  NoAddr = NoAddr  NoSig = NoSig
  Brace = {a2}
  Msg = {plain, media, many, long, stamped, tiny, quote, brace, legacy, forged, nested, noise, large, inGroup, otherGroup}
  Sent <- SentMsgs
  MyAddr = me
  GroupKey = {g1, g2}
  Loads <- AllLoads
  RxCap = 1
  MaxStops = 1
  Payment = {hookPay, appPay, noncePay, otherPay}
  Client <- Clients
  Asked <- AskedAccounts
  Key = {k1, k2}
  Program = {prog1, prog2}
  ClientProgram = prog1
  Blockhash = {bh}
  MaxConfigs = 4
  MaxAsks = 2
INVARIANTS TypeOK EventsAreFaithful GenuineIsShown SubmittedIsSigned SubmittedPaysAsAsked PreparedIsAccepted
PROPERTIES ForgedNeedsUnknownSource ReceiversCatchUp RequestsAreAnswered
CHECK_DEADLOCK FALSE
