SPECIFICATION FairSpec
CONSTANTS
    Parts = {"outbox", "moved", "workers", "rebuilds", "turns", "ticks"}
    None = None
PROPERTIES AllSettles TurnsCome
CHECK_DEADLOCK FALSE
