SPECIFICATION VaultSpec
CONSTANTS Lease = 4 MaxTTL = 6 Margin = 2 Again = 1 Renewable = TRUE NoToken = NoToken MaxOutages = 0
INVARIANTS LoopKeepsRunning
CHECK_DEADLOCK FALSE
