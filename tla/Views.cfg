SPECIFICATION FairSpec
INVARIANTS
    RobotsKeepTheirPlaces
    LanesKeepApart
    SignalsAreHonest
    StepsAreTold
    ReadModelsAgree
PROPERTIES
    NothingIsTakenBack
    ViewsSettle
CHECK_DEADLOCK FALSE
