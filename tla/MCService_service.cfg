CONSTANTS
  Configuration <- Configurations
  Malformed = "malformed"
  Relative = "master:6443/x"
  Request <- Requests
  Response <- Responses
  ErrorLength = 2
SPECIFICATION Spec
INVARIANTS
  CredentialsBelongTogether
  ExitHasAReason
  TimeoutsAreSet
  SizeUpdatesAreNotForwarded
  AnswerFollowsTheBackend
  BrokenBodyIsNoticed
  ResultIsWhole
PROPERTIES
  ExchangesEnd
CHECK_DEADLOCK FALSE
