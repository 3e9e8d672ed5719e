SPECIFICATION ScheduleSpec
CONSTANTS
    Template <- ScheduledTemplate
    Customizable = TRUE
    Subtasks = {}
    ProgressSteps = {0}
    Explanations = {"why"}
    Sources = {}
    Reasons <- NoReasons
    Durations <- SomeDurations
    Deadlines <- SomeDeadlines
    LastDay = 3
INVARIANTS
    OpenStagesReachDeadline
    WindowsLeaveRoom
    LiveStageIsCurrent
    DatesTellTheStory
    ProgressTellsClosure
    EventsTellTheLife
PROPERTIES
    NeverPlannedIntoThePast
    PastStands
    WalksThroughStages
