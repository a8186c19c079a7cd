--------------------------- MODULE MCQualityBoard ---------------------------
EXTENDS QualityBoard
CONSTANTS sara, omar, bot, c1, c2, f1, f2

Lead(contacted, minutes, afterHours, needed) ==
  [contacted |-> contacted, minutes |-> minutes, afterHours |-> afterHours, needed |-> needed]

Mark(marks, compl, step, closed) ==
  [there |-> TRUE, persuasion |-> marks, objection |-> marks, continuity |-> 80,
   professionalism |-> None, nextStep |-> marks, compliance |-> compl, qualified |-> TRUE,
   replied |-> step # "none", booked |-> step # "none", step |-> step, closed |-> closed,
   followUp |-> ~closed]

NoMark == [Mark(None, None, "none", FALSE) EXCEPT !.there = FALSE]

Found(on, confidence, severity) == [on |-> on, confidence |-> confidence, severity |-> severity]

\* Two employees, one of them ahead and one late; or one with two findings on one
\* conversation, and another that is not evaluated.
MCPasts ==
  {[fact |-> (c1 :> Lead(TRUE, 10, FALSE, TRUE)) @@ (c2 :> Lead(TRUE, 50, FALSE, TRUE)),
    mark |-> (c1 :> Mark(90, 95, "none", TRUE)) @@ (c2 :> Mark(77, None, "deposit", FALSE)),
    finding |-> (f1 :> Found(c1, 75, "moderate")) @@ (f2 :> Found(c2, 90, "critical")),
    owner |-> (c1 :> sara) @@ (c2 :> omar)],
   [fact |-> (c1 :> Lead(TRUE, None, FALSE, TRUE)) @@ (c2 :> Lead(FALSE, None, TRUE, TRUE)),
    mark |-> (c1 :> Mark(85, 100, "registration", TRUE)) @@ (c2 :> NoMark),
    finding |-> (f1 :> Found(c1, 60, "moderate")) @@ (f2 :> Found(c1, 100, "critical")),
    owner |-> (c1 :> sara) @@ (c2 :> omar)]}

\* A conversation is a sample; weights that do not total 100; a value out of range.
MCOverrides ==
  {[weights |-> [Weights EXCEPT !.persuasion = 10, !.compliance = 40],
    thresholds |-> [Thresholds EXCEPT !.minSample = 1, !.minCompliance = 80,
                                      !.slaMinutes = 0]],
   [weights |-> [Weights EXCEPT !.response = 20], thresholds |-> Thresholds]}

\* What a run has read and stored is looked at again only if nothing has changed since.
WhatCounts ==
  <<past, owner, issue, cal, request, grade, crossed, fresh, counts, run.pc, run.got,
    IF fresh THEN <<run.from, run.board, run.todo, snap>> ELSE <<Len(run.todo)>>>>

RequestsAreAlike == Permutations(Requests)
=============================================================================
