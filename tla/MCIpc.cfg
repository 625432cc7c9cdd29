CONSTANTS
  Conn = {k1, k2}
  Poll = poll
  Legacy = legacy
  Secured = {legacy}
  CredSize = 2
  PayloadSize = 2
  MaxConns = 1
  MaxMsgs = 2
SPECIFICATION Spec
INVARIANTS ReplyMatches EvaluatedInOrder EvaluatedAuthorized NoMutualWait
PROPERTY SyncReturns
CHECK_DEADLOCK FALSE
