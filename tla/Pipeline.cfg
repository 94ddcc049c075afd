SPECIFICATION MCSpec
CONSTANTS
    None = None
    Trees = {"clean", "planned", "extra"}
    MaxRework = 1
    Entries = {"plan", "agent_review", "human_review", "ship"}
    MaxMoves = 4
    MaxReviews = 2
    Suite <- Commands
    Skipped = {4}
    Fixes = TRUE
    MaxAttempts = 3
    Signatures = {"a", "b"}
CHECK_DEADLOCK FALSE
INVARIANTS PassesFollowFixes
PROPERTIES RefusedIsNotShipped ReviewedShipsWereApproved
