SPECIFICATION Spec
CHECK_DEADLOCK FALSE
CONSTANTS
    Kinds <- AllKinds
    Messages <- Talk
    Tabs = {1, 2}
    MaxSent = 3
    ReplyQueue = 1
INVARIANTS InputHitsTab ScrollAtPointer RepliesInOrder HelloFirst OrphanOnlyAfterError
PROPERTIES Answered
