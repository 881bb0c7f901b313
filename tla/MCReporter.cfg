SPECIFICATION FairSpec
CONSTANT MaxSnapshots = 4
INVARIANTS TypeOK Conserved
PROPERTIES Progresses FeedSpec
CHECK_DEADLOCK FALSE
