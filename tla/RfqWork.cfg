SPECIFICATION Spec
CONSTANTS
    Template <- WorkTemplate
    Customizable = FALSE
    Subtasks = {t1, t2}
    ProgressSteps = {100}
    Explanations = {"why"}
    Sources = {"design_approved"}
    Reasons <- OneReason
INVARIANTS
    TypeOK
    StageProgressIsRollup
PROPERTY CompletedStageWasClear
SYMMETRY AnySubtask
