---------------------------- MODULE QualityBoard ----------------------------
(***************************************************************************)
(* The scores of the employees (lib/qualityScore.js, lib/qualityBoard.js), *)
(* the supervisors' verdicts on the AI's findings that move them           *)
(* (lib/qualityReview.js), their calibration, and the snapshot the backlog *)
(* run stores (jobs/evaluateBacklog.js) while owners and verdicts change.  *)
(*                                                                         *)
(* A score is an integer number of tenths, as the code rounds it; before   *)
(* that it is a fraction [n, d].  Fractions are exact here and floating    *)
(* point in the code.  None stands for the code's null and, as there,      *)
(* compares as -1.                                                         *)
(***************************************************************************)
EXTENDS Integers, FiniteSets, Sequences, FiniteSetsExt, SequencesExt, Functions

CONSTANTS
  Employees,     \* the owners that are people
  Nobody,        \* the owner of a conversation no person has: a bot, or none
  Conversations, \* that arrived in the board's window
  Findings,      \* the AI's issues
  Pasts,         \* what may have been stored of the conversations and findings
  Overrides,     \* what may be sent to the calibration
  Requests,      \* of supervisors
  Regrades,      \* bound: the severities they give
  MaxVerdicts,   \* bound: verdicts
  MaxChanges,    \* bound: reassignments and calibrations
  MaxRuns,       \* bound: runs of the backlog
  MaxFaults      \* bound: failed statements

None == -1

Severities == {"informational", "minor", "moderate", "major", "critical"}

Weights == [persuasion |-> 30, conversion |-> 25, compliance |-> 20, productivity |-> 15,
            response |-> 10]

Thresholds ==
  [slaMinutes |-> 30, minSample |-> 15, minCompliance |-> 90, minPersuasion |-> 75,
   minConfidence |-> "medium", criticalScoreCap |-> 60, issueConfidenceFloor |-> 70]

Defaults == [weights |-> Weights, thresholds |-> Thresholds]

\* The deduction of a severity, from the floor of confidence to certainty.
Band ==
  [informational |-> <<0, 2>>, minor |-> <<2, 5>>, moderate |-> <<5, 10>>, major |-> <<10, 20>>,
   critical |-> <<20, 35>>]

-----------------------------------------------------------------------------
(* What evalValidate.js stores: marks and confidences are clamped, severities are in the *)
(* list; the minutes to an answer are a difference of times.                             *)

Marked == {None} \cup 0..100

StoredPast ==
  [fact : [Conversations ->
             [contacted : BOOLEAN, minutes : Int, afterHours : BOOLEAN, needed : BOOLEAN]],
   mark : [Conversations ->
             [there : BOOLEAN, persuasion : Marked, objection : Marked, continuity : Marked,
              professionalism : Marked, nextStep : Marked, compliance : Marked, qualified : BOOLEAN,
              replied : BOOLEAN, booked : BOOLEAN, step : {"none", "registration", "deposit"},
              closed : BOOLEAN, followUp : BOOLEAN]],
   finding : [Findings -> [on : Conversations, confidence : 0..100, severity : Severities]],
   owner : [Conversations -> Employees \cup {Nobody}]]

ASSUME FiniteAssumption ==
  IsFiniteSet(Employees) /\ IsFiniteSet(Conversations) /\ IsFiniteSet(Findings)

ASSUME PastsAssumption == Pasts \subseteq StoredPast

ASSUME WeightsAssumption == \A o \in Overrides : o.weights \in [DOMAIN Weights -> Int]

ASSUME RegradesAssumption == Regrades \subseteq Severities

-----------------------------------------------------------------------------
(* Arithmetic *)

Tenths(n, d) == (20 * n + d) \div (2 * d)

Frac(n, d) == [n |-> n, d |-> d]

NoFrac == Frac(None, 1)

OfTenths(t) == IF t = None THEN NoFrac ELSE Frac(t, 10)

\* pct: nothing of nothing is zero.
Pct(n, d) == IF d > 0 THEN Frac(100 * n, d) ELSE Frac(0, 1)

Clamped(x) == IF x.n > 100 * x.d THEN Frac(100, 1) ELSE x

\* A multiple of all of them.
Multiple(S) == FoldSet(LAMBDA a, b : a * b, 1, S)

Known(parts) == {k \in DOMAIN parts : parts[k] # NoFrac}

\* The sum of fractions times their weights, over a weight.
Over(part, there, weights, d, used) ==
  IF used = 0 THEN None
  ELSE Tenths(SumFunctionOnSet([k \in there |-> weights[k] * part[k].n * (d \div part[k].d)],
                               there),
              d * used)

WeightedOver(parts, there, weights, used) ==
  Over([k \in there |-> Clamped(parts[k])], there, weights,
       Multiple({Clamped(parts[k]).d : k \in there}), used)

\* Mutant of Weighted: a part that is missing counts as zero.
WeightedOverAll(parts, weights) ==
  WeightedOver(parts, Known(parts), weights, SumFunctionOnSet(weights, DOMAIN weights))

\* The weighted average of the parts there are.
Weighted(parts, weights) ==
  WeightedOver(parts, Known(parts), weights, SumFunctionOnSet(weights, Known(parts)))

MeanOver(f, T) == IF T = {} THEN NoFrac ELSE Frac(SumFunctionOnSet(f, T), Cardinality(T))

Mean(f, S) == MeanOver(f, {x \in S : f[x] # None})

Nth(f, S, k) ==
  CHOOSE v \in {f[x] : x \in S} :
    /\ Cardinality({x \in S : f[x] < v}) <= k
    /\ Cardinality({x \in S : f[x] <= v}) > k

\* Twice the median.
Median2(f, S) ==
  IF S = {} THEN None
  ELSE Nth(f, S, (Cardinality(S) - 1) \div 2) + Nth(f, S, Cardinality(S) \div 2)

-----------------------------------------------------------------------------
(* qualityScore.js.  A conversation's mark is what its evaluation says, a     *)
(* lead's fact what its messages say, a finding is [on, confidence].          *)

ProductivityWeights ==
  [contactCompletion |-> 40, responseTime |-> 20, followUp |-> 25, closure |-> 15]

PersuasionWeights ==
  [intentUnderstanding |-> 20, answerRelevance |-> 20, objectionHandling |-> 20,
   continuity |-> 15, professionalism |-> 15, nextStep |-> 10]

productivityScore(leads, contacted, response, due, closable, closed) ==
  Weighted([contactCompletion |-> Pct(contacted, leads),
            responseTime |-> OfTenths(response),
            followUp |-> IF due > 0 THEN Pct(closed, due) ELSE NoFrac,
            closure |-> IF closable > 0 THEN Pct(closed, closable) ELSE NoFrac],
           ProductivityWeights)

\* Two SLAs' worth of what a late median costs.
Late(median2, sla) ==
  IF median2 > 2 * sla THEN Min({30 * sla, 10 * (median2 - 2 * sla)}) ELSE 0

responseScore(answerable, within, median2, sla) ==
  IF answerable = 0 THEN None
  ELSE Tenths(Max({0, 200 * within * sla - answerable * Late(median2, sla)}),
              2 * sla * answerable)

conversionScore(convertible, reached, registered, deposits) ==
  IF convertible = 0 THEN None
  ELSE Tenths(Min({100 * convertible, 60 * reached + 25 * registered + 15 * deposits}),
              convertible)

Width(floor) == Max({1, 100 - floor})

InBand(band, confidence, floor) ==
  band[1] * Width(floor) + (band[2] - band[1]) * (confidence - floor)

Sure(f) == IF f.status = "confirmed" THEN 100 ELSE f.confidence

\* Mutant of Deduction: only what is still pending is let off.
DeductionUnlessPending(f, floor) ==
  IF f.status = "pending" \/ Sure(f) < floor THEN 0 ELSE InBand(Band[f.severity], Sure(f), floor)

\* What a finding costs, times the width of the band of confidence.
Deduction(f, floor) ==
  IF f.status = "rejected" \/ Sure(f) < floor THEN 0 ELSE InBand(Band[f.severity], Sure(f), floor)

complianceScore(table, S, floor) ==
  Tenths(Max({0, 100 * Width(floor)
                   - SumFunctionOnSet([x \in S |-> Deduction(table[x], floor)], S)}),
         Width(floor))

Confidence == <<"low", "medium", "high">>

Rank(confidence) == CHOOSE k \in 1..3 : Confidence[k] = confidence

\* Coverage in tenths of a per cent.
scoreConfidence(n, analyzed, t) ==
  IF n < t.minSample \/ analyzed < 500 THEN "low"
  ELSE IF n < 2 * t.minSample \/ analyzed < 800 THEN "medium" ELSE "high"

topPerformerEligible(row, t) ==
  /\ row.sample >= t.minSample
  /\ row.compliance >= 10 * t.minCompliance \/ t.minCompliance = 0
  /\ row.persuasion >= 10 * t.minPersuasion \/ t.minPersuasion = 0
  /\ ~row.confirmedCritical
  /\ Rank(row.confidence) >= Rank(t.minConfidence)

-----------------------------------------------------------------------------
VARIABLES
  past,      \* what is stored of the conversations and findings
  owner,     \* contact_owner
  issue,     \* the severity of a finding, and the verdict on it
  cal,       \* the stored calibration
  request,   \* the supervisors' requests: what they have read
  run,       \* the backlog run: what the board was gathered from, the rows to save
  snap,      \* today's snapshot
  grade,     \* history: the severity each finding was given last
  crossed,   \* history: findings two requests were on at once
  fresh,     \* history: nothing failed or changed since the last run began to read
  counts     \* verdicts, changes, runs, faults

vars == <<past, owner, issue, cal, request, run, snap, grade, crossed, fresh, counts>>

NoRequest == [pc |-> "idle", on |-> CHOOSE f \in Findings : TRUE, action |-> "confirm",
              to |-> "minor", read |-> "minor"]

Tables == {"leads", "evals", "issues"}

\* What gatherQualityBoard works on, the owners as each of its queries saw them.
Now == [past |-> past, cal |-> cal, owner |-> [q \in Tables |-> owner], issue |-> issue]

NothingRead ==
  [past |-> past, cal |-> Defaults, owner |-> [q \in Tables |-> past.owner],
   issue |-> [f \in {} |-> 0]]

Idle ==
  [pc |-> "idle", got |-> {}, from |-> NothingRead, board |-> [e \in {} |-> 0], todo |-> <<>>]

CanCount(what) ==
  /\ counts[what] < (CASE what = "verdicts" -> MaxVerdicts [] what = "changes" -> MaxChanges
                       [] what = "runs" -> MaxRuns [] what = "faults" -> MaxFaults)
  /\ counts' = [counts EXCEPT ![what] = @ + 1]

Init ==
  /\ past \in Pasts
  /\ owner = past.owner
  /\ issue = [f \in Findings |-> [severity |-> past.finding[f].severity, status |-> "pending"]]
  /\ cal = Defaults
  /\ request = [r \in Requests |-> NoRequest]
  /\ run = Idle
  /\ snap = [e \in {} |-> 0]
  /\ grade = [f \in Findings |-> past.finding[f].severity]
  /\ crossed = {}
  /\ fresh = FALSE
  /\ counts = [what \in {"verdicts", "changes", "runs", "faults"} |-> 0]
-----------------------------------------------------------------------------
(* gatherQualityBoard: one row for each employee, from what was read *)

NeedsHuman(c, read) == read.past.fact[c].needed

\* issueRows joined to the stored findings.
Table(read) ==
  [f \in Findings |-> [severity |-> read.issue[f].severity, status |-> read.issue[f].status,
                       confidence |-> read.past.finding[f].confidence]]

OnBoard(e, read) ==
  \E c \in Conversations :
    \/ read.owner["leads"][c] = e
    \/ read.past.mark[c].there /\ read.owner["evals"][c] = e

Share(S, T) == IF T = {} THEN 1000 ELSE Tenths(100 * Cardinality(S), Cardinality(T))

\* The share of the answered conversations that is evaluated.
Analyzed(read) ==
  Share({c \in Conversations : read.past.fact[c].contacted /\ read.past.mark[c].there},
        {c \in Conversations : read.past.fact[c].contacted})

Average(sum, n) == (2 * sum + n) \div (2 * n)

ComplianceOf(S, read) ==
  complianceScore(Table(read), S, read.cal.thresholds.issueConfidenceFloor)

\* Every conversation is scored by itself, and the scores are averaged.
FromIssues(own, evals, flagged, read) ==
  IF evals # {}
  THEN Average(SumFunctionOnSet(
                 [c \in flagged |-> ComplianceOf({f \in own : read.past.finding[f].on = c}, read)],
                 flagged)
                 + 1000 * Max({0, Cardinality(evals) - Cardinality(flagged)}),
               Max({Cardinality(evals), Cardinality(flagged)}))
  ELSE IF own # {} THEN ComplianceOf(own, read)
  ELSE None

\* What the evaluations themselves report counts when it is lower.
LowerOf(found, reported) ==
  IF reported = NoFrac \/ (found # None /\ found * reported.d <= 10 * reported.n)
  THEN found ELSE Tenths(reported.n, reported.d)

Own(e, read) == {f \in Findings : read.owner["issues"][read.past.finding[f].on] = e}

compliance(own, evals, read) ==
  LowerOf(FromIssues(own, evals, {read.past.finding[f].on : f \in own}, read),
          Mean([c \in evals |-> read.past.mark[c].compliance], evals))

response(inHours, timed, sla, read) ==
  responseScore(Cardinality(inHours),
                Cardinality({c \in timed : read.past.fact[c].minutes <= sla}),
                Median2([c \in timed |-> read.past.fact[c].minutes], timed), sla)

Count(S, what, read) == Cardinality({c \in S : read.past.mark[c][what]})

productivity(wanted, evals, responded, read) ==
  productivityScore(Cardinality(wanted), Cardinality({c \in wanted : read.past.fact[c].contacted}),
                    responded, Count(evals, "followUp", read), Cardinality(evals),
                    Count(evals, "closed", read))

Marks(evals, what, read) == Mean([c \in evals |-> read.past.mark[c][what]], evals)

persuasion(evals, read) ==
  Weighted(
    [intentUnderstanding |-> Marks(evals, "persuasion", read),
     answerRelevance |-> Marks(evals, "persuasion", read),
     objectionHandling |-> Marks(evals, "objection", read),
     continuity |-> Marks(evals, "continuity", read),
     professionalism |-> Marks(evals, "professionalism", read),
     nextStep |-> Marks(evals, "nextStep", read)],
    PersuasionWeights)

isConvertible(c, read) ==
  read.past.mark[c].qualified /\ (read.past.mark[c].replied \/ read.past.mark[c].booked)

conversion(convertible, read) ==
  conversionScore(Cardinality(convertible), Count(convertible, "booked", read),
                  Cardinality({c \in convertible : read.past.mark[c].step = "registration"}),
                  Cardinality({c \in convertible : read.past.mark[c].step = "deposit"}))

Parts(leads, own, evals, read, responded) ==
  [persuasion |-> persuasion(evals, read),
   conversion |-> conversion({c \in evals : isConvertible(c, read)}, read),
   compliance |-> compliance(own, evals, read),
   productivity |-> productivity({c \in leads : NeedsHuman(c, read)}, evals, responded, read),
   response |-> responded]

\* Without a quality component there is no overall score.
Raw(parts, weights) ==
  IF \A k \in {"persuasion", "compliance", "conversion"} : parts[k] = None THEN None
  ELSE Weighted([k \in DOMAIN parts |-> OfTenths(parts[k])], weights)

overallScore(parts, raw, critical, evals, read) ==
  [persuasion |-> parts.persuasion, conversion |-> parts.conversion,
   compliance |-> parts.compliance, productivity |-> parts.productivity,
   response |-> parts.response,
   raw |-> raw,
   overall |-> IF critical THEN Min({raw, 10 * read.cal.thresholds.criticalScoreCap}) ELSE raw,
   confirmedCritical |-> critical,
   sample |-> Cardinality(evals),
   qualified |-> Count(evals, "qualified", read),
   confidence |-> scoreConfidence(Cardinality(evals), Analyzed(read), read.cal.thresholds)]

Scored(parts, own, evals, read) ==
  overallScore(parts, Raw(parts, read.cal.weights),
    \E f \in own : read.issue[f] = [severity |-> "critical", status |-> "confirmed"],
    evals, read)

RowOf(leads, inHours, own, evals, read) ==
  Scored(Parts(leads, own, evals, read,
               response(inHours,
                 {c \in inHours : read.past.fact[c].contacted /\ read.past.fact[c].minutes # None},
                 read.cal.thresholds.slaMinutes, read)),
         own, evals, read)

Row(e, read) ==
  RowOf({c \in Conversations : read.owner["leads"][c] = e},
        {c \in Conversations : read.owner["leads"][c] = e /\ ~read.past.fact[c].afterHours},
        Own(e, read),
        {c \in Conversations : read.owner["evals"][c] = e /\ read.past.mark[c].there}, read)

\* rankEmployees: by these, in this order.
Key(row, eligible) ==
  <<IF eligible THEN 1 ELSE 0, row.overall, row.compliance, row.persuasion, row.conversion,
    row.qualified, row.response>>

Before(x, y) ==
  \E k \in DOMAIN x : x[k] > y[k] /\ \A j \in 1..(k - 1) : x[j] = y[j]

\* The row as it is saved, and as it is sorted.
Kept(row, eligible) == [row |-> row, eligible |-> eligible, key |-> Key(row, eligible)]

Ranked(row, t) == Kept(row, topPerformerEligible(row, t))

Board(read) ==
  [e \in {x \in Employees : OnBoard(x, read)} |->
     Ranked(Row(e, read), read.cal.thresholds)]

\* The orders a sort may leave: rows that tie stand as they were read.
Rankings(board) ==
  {order \in SetToSeqs(DOMAIN board) :
     \A i, j \in DOMAIN order : i < j => ~Before(board[order[j]].key, board[order[i]].key)}

-----------------------------------------------------------------------------
(* Verdicts: reviewIssue *)

Review(r, f, action, to) ==
  /\ request[r].pc = "idle"
  /\ CanCount("verdicts")
  /\ request' = [request EXCEPT ![r] =
       [pc |-> "update", on |-> f, action |-> action, to |-> to, read |-> issue[f].severity]]
  /\ crossed' = crossed \cup
       {g \in {f} : \E q \in Requests \ {r} : request[q].pc # "idle" /\ request[q].on = f}
  /\ UNCHANGED <<past, owner, issue, cal, run, snap, grade, fresh>>

\* Mutant of Verdict: a confirmation re-grades too.
VerdictRegrades(q) ==
  [severity |-> IF q.action = "reject" THEN "informational" ELSE q.to,
   status |-> IF q.action = "reject" THEN "rejected" ELSE "confirmed"]

\* The severity is written back as it was read, unless it is what was decided.
Verdict(q) ==
  [severity |-> IF q.action = "severity" THEN q.to ELSE q.read,
   status |-> IF q.action = "reject" THEN "rejected" ELSE "confirmed"]

Decide(r) ==
  LET q == request[r] IN
  /\ q.pc = "update"
  /\ issue' = [issue EXCEPT ![q.on] = Verdict(q)]
  /\ grade' = IF q.action = "severity" THEN [grade EXCEPT ![q.on] = q.to] ELSE grade
  /\ request' = [request EXCEPT ![r] = NoRequest]
  /\ fresh' = FALSE
  /\ UNCHANGED <<past, owner, cal, run, snap, crossed, counts>>

ReviewFails(r) ==
  /\ request[r].pc = "update"
  /\ CanCount("faults")
  /\ request' = [request EXCEPT ![r] = NoRequest]
  /\ UNCHANGED <<past, owner, issue, cal, run, snap, grade, crossed, fresh>>

-----------------------------------------------------------------------------
(* Owners and calibration *)

\* assignMany, or an ingest pass.
Reassign(c, e) ==
  /\ CanCount("changes")
  /\ owner[c] # e
  /\ owner' = [owner EXCEPT ![c] = e]
  /\ fresh' = FALSE
  /\ UNCHANGED <<past, issue, cal, request, run, snap, grade, crossed>>

\* resolveThresholds: what is out of range falls back to its default.
resolveThresholds(t) ==
  LET least == [slaMinutes |-> 1, minSample |-> 1, minCompliance |-> 0, minPersuasion |-> 0,
                criticalScoreCap |-> 0, issueConfidenceFloor |-> 0]
      most == [slaMinutes |-> 1440, minSample |-> 1000, minCompliance |-> 100,
               minPersuasion |-> 100, criticalScoreCap |-> 100, issueConfidenceFloor |-> 100]
  IN [k \in DOMAIN Thresholds |->
        IF t[k] \in (IF k \in DOMAIN least THEN least[k]..most[k] ELSE Range(Confidence))
        THEN t[k] ELSE Thresholds[k]]

\* resolveWeights throws if a weight is negative or they do not total 100: the request
\* is refused.
saveCalibration(o) ==
  /\ CanCount("changes")
  /\ \A k \in DOMAIN Weights : o.weights[k] >= 0
  /\ SumFunction(o.weights) = 100
  /\ cal' = [weights |-> o.weights, thresholds |-> resolveThresholds(o.thresholds)]
  /\ fresh' = FALSE
  /\ UNCHANGED <<past, owner, issue, request, run, snap, grade, crossed>>

-----------------------------------------------------------------------------
(* The end of a backlog run: the board, and its snapshot *)

StartRun ==
  /\ run.pc = "idle"
  /\ CanCount("runs")
  /\ run' = [Idle EXCEPT !.pc = "calibration"]
  /\ fresh' = TRUE
  /\ UNCHANGED <<past, owner, issue, cal, request, snap, grade, crossed>>

\* A read that fails leaves the defaults, without a word.
ReadCalibration ==
  /\ run.pc = "calibration"
  /\ \/ /\ run' = [run EXCEPT !.pc = "gather", !.from.cal = cal]
        /\ UNCHANGED <<fresh, counts>>
     \/ /\ CanCount("faults")
        /\ run' = [run EXCEPT !.pc = "gather"]
        /\ fresh' = FALSE
  /\ UNCHANGED <<past, owner, issue, cal, request, snap, grade, crossed>>

ReadInto(from, q) ==
  [past |-> from.past, cal |-> from.cal, owner |-> [from.owner EXCEPT ![q] = owner],
   issue |-> IF q = "issues" THEN issue ELSE from.issue]

\* The queries of Promise.all are answered in any order.
Read(q) ==
  /\ run.pc = "gather"
  /\ q \notin run.got
  /\ run' = [run EXCEPT !.got = @ \cup {q}, !.from = ReadInto(run.from, q)]
  /\ UNCHANGED <<past, owner, issue, cal, request, snap, grade, crossed, fresh, counts>>

Gathered ==
  /\ run.pc = "gather"
  /\ run.got = Tables
  /\ \E order \in Rankings(Board(run.from)) :
       run' = [run EXCEPT !.pc = "save", !.board = Board(run.from), !.todo = order]
  /\ UNCHANGED <<past, owner, issue, cal, request, snap, grade, crossed, fresh, counts>>

\* insert ... on duplicate key update
Upsert(table, key, row) == [k \in {key} \cup DOMAIN table |-> IF k = key THEN row ELSE table[k]]

\* Mutant of SaveRow: a row that is there is left as it is.
SaveRowOnce ==
  /\ run.pc = "save"
  /\ run.todo # <<>>
  /\ run' = [run EXCEPT !.todo = Tail(@)]
  /\ snap' = IF Head(run.todo) \in DOMAIN snap THEN snap
              ELSE Upsert(snap, Head(run.todo), run.board[Head(run.todo)])
  /\ UNCHANGED <<past, owner, issue, cal, request, grade, crossed, fresh, counts>>

SaveRow ==
  /\ run.pc = "save"
  /\ run.todo # <<>>
  /\ run' = [run EXCEPT !.todo = Tail(@)]
  /\ snap' = Upsert(snap, Head(run.todo), run.board[Head(run.todo)])
  /\ UNCHANGED <<past, owner, issue, cal, request, grade, crossed, fresh, counts>>

EndRun ==
  /\ run.pc = "save"
  /\ run.todo = <<>>
  /\ run' = Idle
  /\ UNCHANGED <<past, owner, issue, cal, request, snap, grade, crossed, fresh, counts>>

RunFails ==
  /\ run.pc \in {"gather", "save"}
  /\ CanCount("faults")
  /\ run' = Idle
  /\ fresh' = FALSE
  /\ UNCHANGED <<past, owner, issue, cal, request, snap, grade, crossed>>

-----------------------------------------------------------------------------
Next ==
  \/ \E r \in Requests :
       \/ \E f \in Findings :
            \/ \E action \in {"confirm", "reject"} : Review(r, f, action, issue[f].severity)
            \/ \E to \in Regrades : Review(r, f, "severity", to)
       \/ Decide(r) \/ ReviewFails(r)
  \/ \E c \in Conversations, e \in Employees \cup {Nobody} : Reassign(c, e)
  \/ \E o \in Overrides : saveCalibration(o)
  \/ StartRun \/ ReadCalibration \/ Gathered \/ SaveRow \/ EndRun \/ RunFails
  \/ \E q \in Tables : Read(q)

Spec == Init /\ [][Next]_vars

-----------------------------------------------------------------------------
(* Properties *)

\* How many stand before e.
Standing(e, board) == Cardinality({x \in DOMAIN board : Before(board[x].key, board[e].key)})

NoWorse(e, before, after) ==
  /\ \A k \in DOMAIN before[e].key : after[e].key[k] >= before[e].key[k]
  /\ Standing(e, after) <= Standing(e, before)

Fair(q, before, after) ==
  \A e \in DOMAIN before :
    IF owner[past.finding[q.on].on] # e THEN after[e] = before[e]
    ELSE /\ q.action = "reject" => NoWorse(e, before, after)
         /\ q.action = "confirm" /\ q.read = issue[q.on].severity => NoWorse(e, after, before)

\* qualityReview.js:3-7: as the verdicts on their way are given, whom a finding is
\* about loses neither points, nor the eligibility, nor a place by its rejection, and
\* gains none by its confirmation, through the deductions, the averages, the weights,
\* the cap and the ranking; and nobody else's score moves.
VerdictsAreFair ==
  \A r \in Requests : request[r].pc = "update" =>
    Fair(request[r], Board(Now),
         Board([Now EXCEPT !.issue[request[r].on] = Verdict(request[r])]))

\* qualityReview.js:175-190: a finding has the severity a supervisor gave it last,
\* or the AI's, unless two of them were on it at once.
SeverityIsADecision ==
  \A f \in Findings : f \notin crossed => issue[f].severity = grade[f]

\* The row's score lies between its parts.
Between(row, there) ==
  /\ there \subseteq 0..1000
  /\ row.raw # None => Min(there) <= row.raw /\ row.raw <= Max(there)

AllBetween(board) ==
  \A e \in DOMAIN board :
    Between(board[e].row, {board[e].row[k] : k \in {x \in DOMAIN Weights : board[e].row[x] # None}})

\* qualityScore.js:119-130: what is not known of an employee counts neither as zero
\* nor as full marks: a score lies between its lowest and its highest part.
ScoresAreAverages == AllBetween(Board(Now))

Shows(board) == \A e \in DOMAIN board : e \in DOMAIN snap /\ snap[e] = board[e]

\* qualityBoard.js:452: after a run with no failure, while nothing has changed since
\* it began, today's snapshot says of everybody what the board says.
SnapshotIsTheBoard == run.pc = "idle" /\ fresh => Shows(Board(Now))
=============================================================================
