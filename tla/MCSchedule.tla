------------------------------ MODULE MCSchedule ------------------------------
(***************************************************************************)
(* A customizable workflow of four stages for Schedule: a go/no-go first,  *)
(* two optional stages of which one takes no time, and an outcome last.    *)
(***************************************************************************)
EXTENDS Schedule

StageOf(mandatory, form, required) ==
    [mandatory |-> mandatory, form |-> form, required |-> required]

ScheduledTemplate ==
    << StageOf(<<"go_nogo_decision">>, {"go_nogo_decision"}, TRUE),
       StageOf(<<>>, {}, FALSE), StageOf(<<>>, {}, FALSE),
       StageOf(<<>>, {"rfq_terminal_outcome"}, TRUE) >>

SomeDurations == <<1, 2, 0, 1>>
SomeDeadlines == {3, 5}
NoReasons == {}
=============================================================================
