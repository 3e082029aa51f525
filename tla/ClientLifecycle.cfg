SPECIFICATION FairSpec
CONSTANTS
  Modes = {"broker", "password", "both"}
  ReauthAfter = 3
  MaxGenerations = 5
INVARIANTS
  OneDriver
  BrokerNeverDisabled
PROPERTIES
  EventuallyConnected
CHECK_DEADLOCK FALSE
