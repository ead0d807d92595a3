\* SignIn: two browsers, two links and two sessions over four ticks.
\* Access: an app, one request in progress, one token or code minted.
CONSTANTS
    Browser = {b1, b2}
    Code = {k1, k2}
    Token = {t1, t2}
    None = None
    SessionTTL = 3
    FallbackTTL = 2
    LinkTTL = 1
    WriteInterval = 2
    Fails = {"create", "touch", "flush"}
    EditsDuringWrites = FALSE
    MaxTime = 4
    MaxEdits = 1
    App = {a1}
    MaxTokens = 1
SPECIFICATION ConsoleSpec
SYMMETRY Symmetry
INVARIANTS
    LinkSignsInOnce
    SignedOutStaysOut
    RemovedByHandStaysOut
    NoSessionOutlivesItsTime
    UsedSessionsLast
    SignInInv
    TokensComeFromConsent
    CallersKeepToTheTable
CHECK_DEADLOCK FALSE
