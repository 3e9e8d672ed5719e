SPECIFICATION Spec
CONSTANTS
    Clients = {c1, c2}
    Sources = {}
    Reasons <- MCOneReason
    Mandatory <- MCOneDecision
    FormFields <- MCOneField
    HistoryLimit = 4
INVARIANT NegativeDecisionBlocks
