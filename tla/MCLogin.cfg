SPECIFICATION Spec
CONSTANTS
    w1 = w1
    w2 = w2
    Ada = Ada
    Ben = Ben
    Windows <- TwoWindows
    Accounts <- TwoAccounts
    NoCookie = NoCookie
    Keep = Keep
    Nobody = Nobody
    SessionTtl = 3
    RenewAfter = 2
    IntentTtl = 1
    MaxDelay = 1
    MaxLogins = 2
    MaxClock = 5
SYMMETRY Exchanged
INVARIANTS BrowserIsWhoSignedIn ActiveStaysIn LoginsComplete
CHECK_DEADLOCK FALSE
