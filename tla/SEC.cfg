SPECIFICATION Spec
CONSTANTS
  Cert <- Certs
  Psid = {36, 37}
  Self = Self
  None = None
  Issuer <- Issuers
  Signed <- Certs
  Needed <- Needs
  Allowed <- Allows
  Full = {"root"}
  Ticket = {"ta", "tb", "tc", "odd"}
  Station <- Stations
  Own <- Owns
  Id3 <- Ids
  World <- Worlds
  MaxInbox = 1
INVARIANTS ChainOfTrust AnsweredSoon
PROPERTIES Acquainted
CHECK_DEADLOCK FALSE
