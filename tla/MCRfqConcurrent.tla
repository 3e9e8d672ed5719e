--------------------------- MODULE MCRfqConcurrent ---------------------------
(***************************************************************************)
(* Small mixes of overlapping requests for RfqConcurrent.                  *)
(***************************************************************************)
EXTENDS RfqConcurrent, TLC

Asks(op, stages) == [op : {op}, stage : stages]

\* cancel() names no stage: stage 1 stands in.
Cancel == Asks("cancel", {1})

EveryKind == Asks("advance", Stages) \cup Asks("no_go", {1}) \cup Asks("block", {1}) \cup Cancel
AdvanceOnly == Asks("advance", Stages)
AdvanceOrCancel == AdvanceOnly \cup Cancel

AnyRequest == Permutations(Requests)
=============================================================================
