SPECIFICATION Spec
CONSTANTS
    u1 = u1  u2 = u2  w1 = w1  w2 = w2 
    Users = {u1, u2}
    Ids = {w1, w2}
    Tiers = {"basic"}
    Verifications <- MCVerifications
    requiredVerifications <- MCRequired
    maxActiveWorkflowsPerUser = 1
    StepUpdates = {"pending", "in_progress", "completed", "failed", "undefined", "other"}
    None = None
INVARIANTS
    ActiveLimit
    ApprovalExamined
SYMMETRY MCSymmetry
