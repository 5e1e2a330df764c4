\* The target, the wallet and one monitor; monitors share nothing with each other.
CONSTANTS
    Target = Target
    Wallet = Wallet
    m1 = m1
    Monitors = {m1}
    MaxRetries = 3
SPECIFICATION FairSpec
INVARIANT TypeOK
INVARIANT OpenStreamBeats
PROPERTY BeatStopsOnlyBroken
PROPERTY WindsDown
PROPERTY TargetEndEndsAll
PROPERTY WalletListensAgain
PROPERTY CancelledSessionEnds
\* main returns.
CHECK_DEADLOCK FALSE
