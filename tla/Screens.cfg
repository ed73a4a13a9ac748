SPECIFICATION ScreensSpec
INVARIANTS
    UpdatesReachTheScreen
    InboxFollowsLedger
    PromisedIsSent
    FormsAgree
PROPERTIES
    ShowsTheServer
CHECK_DEADLOCK FALSE
