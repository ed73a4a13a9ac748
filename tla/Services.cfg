SPECIFICATION FairSpec
INVARIANTS
    KnowledgeIsInOrder
    NothingIsDoneOver
    DoneIsEarned
PROPERTIES
    EndedChainIsQuiet
    ChainEnds
    RecordsStay
    EachTurnCounts
CHECK_DEADLOCK FALSE
