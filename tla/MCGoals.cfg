SPECIFICATION Spec
CONSTANTS
    g1 = g1
    d1 = d1
    d2 = d2
    r1 = r1
    r2 = r2
    NoGoal = NoGoal
    Goals <- MCGoals
    Drafts <- MCDrafts
    GoalOf <- MCGoalOf
    Initial <- MCInitial
    Requests <- MCRequests
    Width = 2
    MaxRows <- MCMaxRows
    MaxPlans = 3
    MaxDiagnosed = 2
    MaxDefinitions = 2
INVARIANTS
    TypeOK
    OneCurrentPlan
    FocusIsActive
    EachPreviewOnce
    AchievementEarned
PROPERTIES
    TerminalGoal
SYMMETRY Symmetry
CHECK_DEADLOCK FALSE
