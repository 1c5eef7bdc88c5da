SPECIFICATION Spec
CONSTANTS b1 = b1 tab1 = tab1 tab2 = tab2 al = al alice = alice
CONSTANTS User = {al, alice} BeginsWith <- MCBeginsWith Managers = {al}
CONSTANTS Browser = {b1} Tab = {tab1, tab2} BrowserOf <- MCBrowserOf
CONSTANTS None = None Idle = Idle MaxTokens = 3 MaxSecrets = 2 MaxRequests = 6 MaxFaults = 1
SYMMETRY MCSymmetry
INVARIANTS SecondFactorAsked VerifiedWasProved CookieLives
PROPERTIES RefreshServesOnce PlainRowsKept
CHECK_DEADLOCK FALSE
