SPECIFICATION Spec
CONSTANTS
    Clients = {c1}
    Sources = {"boq_completed"}
    Reasons = {waiting_client, design_revision}
    Mandatory <- MCMandatory
    FormFields <- MCFormFields
    HistoryLimit = 3
INVARIANTS
    NegativeDecisionBlocks
    BlockedHasReason
    SourceNamesTheNo
    TrailTellsTheRow
PROPERTY TrailIsAppendOnly
SYMMETRY AnyReason
