SPECIFICATION IdentitySpec
CONSTANT MaxIDs = 4
CONSTANT MaxTokens = 3
CONSTANT MaxKills = 3
INVARIANT MigratedIDIsRegisteredFirst
CHECK_DEADLOCK FALSE
