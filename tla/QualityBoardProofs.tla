-------------------------- MODULE QualityBoardProofs --------------------------
(***************************************************************************)
(* What holds of the verdicts, the snapshot and the scores for any number  *)
(* of employees, conversations, findings, supervisors and failures,        *)
(* whatever is stored of them.                                             *)
(***************************************************************************)
EXTENDS QualityBoard, FiniteSetTheorems, TLAPS

\* A request under way has the severity it read in its hands, and it is the one
\* that was given last, while no other is on the same finding.
VerdictInv ==
  /\ \A r \in Requests : request[r].pc \in {"idle", "update"}
  /\ \A r \in Requests : request[r].pc = "update" => request[r].on \in Findings
  /\ \A f \in Findings : f \notin crossed =>
       /\ issue[f].severity = grade[f]
       /\ \A r \in Requests :
            request[r].pc = "update" /\ request[r].on = f => request[r].read = grade[f]
       /\ \A r, q \in Requests :
            /\ request[r].pc = "update" /\ request[q].pc = "update"
            /\ request[r].on = f /\ request[q].on = f
            => r = q

\* The three tables of it stay functions.
Tabled ==
  /\ issue = [f \in Findings |-> issue[f]]
  /\ grade = [f \in Findings |-> grade[f]]
  /\ request = [r \in Requests |-> request[r]]

Reviewed == <<issue, grade, request, crossed>>

LEMMA ReviewStep ==
  ASSUME Tabled, VerdictInv, NEW r \in Requests, NEW f \in Findings, NEW action, NEW to,
         Review(r, f, action, to)
  PROVE  Tabled' /\ VerdictInv'
<1>1. /\ request' = [request EXCEPT ![r] =
           [pc |-> "update", on |-> f, action |-> action, to |-> to, read |-> issue[f].severity]]
      /\ crossed' = crossed \cup
           {g \in {f} : \E q \in Requests \ {r} : request[q].pc # "idle" /\ request[q].on = f}
      /\ UNCHANGED <<issue, grade>>
      /\ request[r].pc = "idle"
  BY DEF Review
<1>2. /\ request'[r].pc = "update" /\ request'[r].on = f
      /\ request'[r].read = issue[f].severity
      /\ \A q \in Requests \ {r} : request'[q] = request[q]
      /\ request' = [q \in Requests |-> request'[q]]
  BY <1>1 DEF Tabled
<1>3. Tabled'
  BY <1>1, <1>2 DEF Tabled
<1>4. ASSUME NEW g \in Findings, g \notin crossed'
      PROVE  /\ issue'[g].severity = grade'[g]
             /\ \A q \in Requests :
                  request'[q].pc = "update" /\ request'[q].on = g => request'[q].read = grade'[g]
             /\ \A q, p \in Requests :
                  /\ request'[q].pc = "update" /\ request'[p].pc = "update"
                  /\ request'[q].on = g /\ request'[p].on = g
                  => q = p
  <2>1. g \notin crossed
    BY <1>1, <1>4
  <2>2. g = f => \A q \in Requests \ {r} : ~(request[q].pc = "update" /\ request[q].on = f)
    BY <1>1, <1>4
  <2>3. QED
    BY <1>1, <1>2, <2>1, <2>2 DEF VerdictInv
<1>5. QED
  BY <1>2, <1>3, <1>4 DEF VerdictInv

\* The verdict is given: on a finding no other is on.
LEMMA DecideStep ==
  ASSUME Tabled, VerdictInv, NEW r \in Requests, Decide(r)
  PROVE  Tabled' /\ VerdictInv'
<1>1. PICK q : q = request[r]
  OBVIOUS
<1>2. /\ q.pc = "update" /\ q.on \in Findings
      /\ issue' = [issue EXCEPT ![q.on] = Verdict(q)]
      /\ grade' = IF q.action = "severity" THEN [grade EXCEPT ![q.on] = q.to] ELSE grade
      /\ request' = [request EXCEPT ![r] = NoRequest]
      /\ UNCHANGED crossed
  BY <1>1 DEF Decide, VerdictInv
<1>3. /\ request'[r].pc = "idle"
      /\ \A p \in Requests \ {r} : request'[p] = request[p]
      /\ request' = [p \in Requests |-> request'[p]]
  BY <1>2 DEF Tabled, NoRequest
<1>4. /\ issue'[q.on].severity = IF q.action = "severity" THEN q.to ELSE q.read
      /\ \A g \in Findings \ {q.on} : issue'[g] = issue[g]
      /\ issue' = [g \in Findings |-> issue'[g]]
  BY <1>2 DEF Tabled, Verdict
<1>5. /\ grade'[q.on] = IF q.action = "severity" THEN q.to ELSE grade[q.on]
      /\ \A g \in Findings \ {q.on} : grade'[g] = grade[g]
      /\ grade' = [g \in Findings |-> grade'[g]]
  BY <1>2 DEF Tabled
<1>6. ASSUME NEW g \in Findings, g \notin crossed'
      PROVE  /\ issue'[g].severity = grade'[g]
             /\ \A o \in Requests :
                  request'[o].pc = "update" /\ request'[o].on = g => request'[o].read = grade'[g]
             /\ \A o, p \in Requests :
                  /\ request'[o].pc = "update" /\ request'[p].pc = "update"
                  /\ request'[o].on = g /\ request'[p].on = g
                  => o = p
  <2>1. g \notin crossed
    BY <1>2, <1>6
  <2>2. CASE g # q.on
    BY <1>3, <1>4, <1>5, <2>1, <2>2 DEF VerdictInv
  <2>3. CASE g = q.on
    <3>1. q.read = grade[g]
      BY <1>1, <1>2, <2>1, <2>3 DEF VerdictInv
    <3>2. \A o \in Requests \ {r} : ~(request[o].pc = "update" /\ request[o].on = g)
      BY <1>1, <1>2, <2>1, <2>3 DEF VerdictInv
    <3>3. QED
      BY <1>3, <1>4, <1>5, <2>3, <3>1, <3>2
  <2>4. QED
    BY <2>2, <2>3
<1>7. Tabled'
  BY <1>3, <1>4, <1>5 DEF Tabled
<1>8. \A o \in Requests : /\ request'[o].pc \in {"idle", "update"}
                          /\ request'[o].pc = "update" => request'[o].on \in Findings
  BY <1>3 DEF VerdictInv
<1>9. QED
  BY <1>6, <1>7, <1>8 DEF VerdictInv

LEMMA ReviewFailsStep ==
  ASSUME Tabled, VerdictInv, NEW r \in Requests, ReviewFails(r)
  PROVE  Tabled' /\ VerdictInv'
<1>1. /\ request' = [request EXCEPT ![r] = NoRequest]
      /\ UNCHANGED <<issue, grade, crossed>>
  BY DEF ReviewFails
<1>2. /\ request'[r].pc = "idle"
      /\ \A p \in Requests \ {r} : request'[p] = request[p]
      /\ request' = [p \in Requests |-> request'[p]]
  BY <1>1 DEF Tabled, NoRequest
<1>3. QED
  BY <1>1, <1>2 DEF Tabled, VerdictInv

\* Whose decision the severity of a finding is: the last one given, or the AI's,
\* unless two supervisors were on it at once (reviewIssue).
THEOREM SeverityDecided == Spec => []SeverityIsADecision
<1>1. Init => Tabled /\ VerdictInv
  BY DEF Init, Tabled, VerdictInv, NoRequest
<1>2. Tabled /\ VerdictInv /\ [Next]_vars => Tabled' /\ VerdictInv'
  <2>1. SUFFICES ASSUME Tabled, VerdictInv, [Next]_vars
                 PROVE  Tabled' /\ VerdictInv'
    OBVIOUS
  <2>2. CASE UNCHANGED Reviewed
    BY <2>1, <2>2 DEF Reviewed, Tabled, VerdictInv
  <2>3. CASE \E r \in Requests, f \in Findings : \E action, to : Review(r, f, action, to)
    BY <2>1, <2>3, ReviewStep
  <2>4. CASE \E r \in Requests : Decide(r) \/ ReviewFails(r)
    BY <2>1, <2>4, DecideStep, ReviewFailsStep
  <2>5. UNCHANGED vars => UNCHANGED Reviewed
    BY DEF vars, Reviewed
  <2>6. \A c, e : Reassign(c, e) => UNCHANGED Reviewed
    BY DEF Reassign, Reviewed
  <2>7. \A o : saveCalibration(o) => UNCHANGED Reviewed
    BY DEF saveCalibration, Reviewed
  <2>8. \A q : Read(q) => UNCHANGED Reviewed
    BY DEF Read, Reviewed
  <2>9. StartRun \/ ReadCalibration \/ EndRun \/ RunFails => UNCHANGED Reviewed
    BY DEF StartRun, ReadCalibration, EndRun, RunFails, Reviewed
  <2>10. Gathered \/ SaveRow => UNCHANGED Reviewed
    BY DEF Gathered, SaveRow, Reviewed
  <2>11. QED
    BY <2>1, <2>2, <2>3, <2>4, <2>5, <2>6, <2>7, <2>8, <2>9, <2>10 DEF Next
<1>3. VerdictInv => SeverityIsADecision
  BY DEF VerdictInv, SeverityIsADecision
<1>4. QED
  BY <1>1, <1>2, <1>3, PTL DEF Spec

-----------------------------------------------------------------------------
(* Types *)

Statuses == {"pending", "confirmed", "rejected"}

Issue == [severity : Severities, status : Statuses]

Within(x, least, most) == x \in least..most

InRange(t) ==
  /\ Within(t.slaMinutes, 1, 1440) /\ Within(t.minSample, 1, 1000)
  /\ t.minCompliance \in 0..100 /\ t.minPersuasion \in 0..100
  /\ t.minConfidence \in {"low", "medium", "high"}
  /\ t.criticalScoreCap \in 0..100 /\ t.issueConfidenceFloor \in 0..100

CalibrationOK(c) == c.weights \in [DOMAIN Weights -> Nat] /\ InRange(c.thresholds)

Owner == [Conversations -> Employees \cup {Nobody}]

RequestOK(q) ==
  /\ q.pc \in {"idle", "update"}
  /\ q.pc = "update" =>
       /\ q.on \in Findings
       /\ q.action \in {"confirm", "reject", "severity"}
       /\ q.to \in Severities /\ q.read \in Severities

\* What is stored, and who works on it.
StoredOK ==
  /\ past \in StoredPast
  /\ owner \in Owner
  /\ issue \in [Findings -> Issue]
  /\ CalibrationOK(cal)
  /\ DOMAIN request = Requests /\ \A r \in Requests : RequestOK(request[r])

\* What a run has read.
ReadOK ==
  /\ DOMAIN run = {"pc", "got", "from", "board", "todo"}
  /\ run.from = [past |-> past, cal |-> run.from.cal, owner |-> run.from.owner,
                 issue |-> run.from.issue]
  /\ run.pc \in {"idle", "calibration", "gather", "save"}
  /\ run.got \subseteq Tables
  /\ CalibrationOK(run.from.cal)
  /\ run.from.owner \in [Tables -> Owner]
  /\ "issues" \in run.got => run.from.issue \in [Findings -> Issue]

\* What it saves.
SavedOK ==
  /\ DOMAIN run.board \subseteq Employees
  /\ run.todo \in Seq(DOMAIN run.board)
  /\ DOMAIN snap \subseteq Employees

HistoryOK ==
  /\ grade \in [Findings -> Severities]
  /\ crossed \subseteq Findings
  /\ fresh \in BOOLEAN
  /\ counts \in [{"verdicts", "changes", "runs", "faults"} -> Nat]

TypeOK == StoredOK /\ ReadOK /\ SavedOK /\ HistoryOK

\* What is sent to the calibration is stored in range (resolveThresholds, resolveWeights).
LEMMA ThresholdsInRange == ASSUME NEW t PROVE InRange(resolveThresholds(t))
<1>1. Range(Confidence) = {"low", "medium", "high"}
  BY DEF Confidence, Range
<1>2. "slaMinutes" \in DOMAIN Thresholds /\ "minSample" \in DOMAIN Thresholds
      /\ "minCompliance" \in DOMAIN Thresholds /\ "minPersuasion" \in DOMAIN Thresholds
      /\ "minConfidence" \in DOMAIN Thresholds /\ "criticalScoreCap" \in DOMAIN Thresholds
      /\ "issueConfidenceFloor" \in DOMAIN Thresholds
  BY DEF Thresholds
<1>3. Within(resolveThresholds(t).slaMinutes, 1, 1440)
  BY <1>2, SMTT(60) DEF resolveThresholds, Thresholds, Within
<1>4. Within(resolveThresholds(t).minSample, 1, 1000)
  BY <1>2, SMTT(60) DEF resolveThresholds, Thresholds, Within
<1>5. resolveThresholds(t).minCompliance \in 0..100
  BY <1>2 DEF resolveThresholds, Thresholds
<1>6. resolveThresholds(t).minPersuasion \in 0..100
  BY <1>2 DEF resolveThresholds, Thresholds
<1>7. resolveThresholds(t).criticalScoreCap \in 0..100
  BY <1>2 DEF resolveThresholds, Thresholds
<1>8. resolveThresholds(t).issueConfidenceFloor \in 0..100
  BY <1>2 DEF resolveThresholds, Thresholds
<1>9. resolveThresholds(t).minConfidence \in {"low", "medium", "high"}
  BY <1>1, <1>2 DEF resolveThresholds, Thresholds
<1>10. QED
  BY <1>3, <1>4, <1>5, <1>6, <1>7, <1>8, <1>9 DEF InRange

LEMMA DefaultsInRange == CalibrationOK(Defaults)
<1>1. Weights \in [DOMAIN Weights -> Nat]
  BY DEF Weights
<1>2. InRange(Thresholds)
  BY DEF Thresholds, InRange, Within
<1>3. QED
  BY <1>1, <1>2 DEF Defaults, CalibrationOK

LEMMA InitOK == Init => TypeOK
<1>1. SUFFICES ASSUME Init PROVE TypeOK
  OBVIOUS
<1>2. past \in StoredPast
  BY <1>1, PastsAssumption DEF Init
<1>3. past.owner \in Owner /\ \A f \in Findings : past.finding[f].severity \in Severities
  BY <1>2 DEF StoredPast, Owner
<1>4. StoredOK
  BY <1>1, <1>2, <1>3, DefaultsInRange
     DEF Init, StoredOK, Issue, Statuses, RequestOK, NoRequest
<1>5. ReadOK
  BY <1>1, <1>3, DefaultsInRange DEF Init, Idle, NothingRead, ReadOK
<1>6. SavedOK
  BY <1>1 DEF Init, Idle, SavedOK
<1>7. HistoryOK
  BY <1>1, <1>3 DEF Init, HistoryOK
<1>8. QED
  BY <1>4, <1>5, <1>6, <1>7 DEF TypeOK

LEMMA CountOK ==
  ASSUME HistoryOK, NEW what \in {"verdicts", "changes", "runs", "faults"}, CanCount(what)
  PROVE  counts' \in [{"verdicts", "changes", "runs", "faults"} -> Nat]
BY DEF HistoryOK, CanCount

LEMMA ReviewOK ==
  ASSUME TypeOK, NEW r \in Requests, NEW f \in Findings,
         NEW action \in {"confirm", "reject", "severity"}, NEW to \in Severities,
         Review(r, f, action, to)
  PROVE  TypeOK'
<1>1. RequestOK([pc |-> "update", on |-> f, action |-> action, to |-> to,
                 read |-> issue[f].severity])
  BY DEF RequestOK, TypeOK, StoredOK, Issue
<1>2. StoredOK'
  BY <1>1 DEF TypeOK, StoredOK, Review
<1>3. ReadOK' /\ SavedOK'
  BY DEF TypeOK, ReadOK, SavedOK, Review
<1>4. crossed' \subseteq Findings
  BY DEF TypeOK, HistoryOK, Review
<1>5. HistoryOK'
  BY <1>4, CountOK DEF TypeOK, HistoryOK, Review
<1>6. QED
  BY <1>2, <1>3, <1>5 DEF TypeOK

LEMMA NoRequestOK == RequestOK(NoRequest)
BY DEF RequestOK, NoRequest

\* What a verdict leaves of a finding is an issue.
LEMMA VerdictOK ==
  ASSUME NEW q, RequestOK(q), q.pc = "update"
  PROVE  Verdict(q) \in Issue
BY DEF RequestOK, Verdict, Issue, Statuses

LEMMA DecideOK ==
  ASSUME TypeOK, NEW r \in Requests, Decide(r)
  PROVE  TypeOK'
<1>1. PICK q : q = request[r]
  OBVIOUS
<1>2. /\ q.pc = "update" /\ RequestOK(q)
      /\ issue' = [issue EXCEPT ![q.on] = Verdict(q)]
      /\ grade' = IF q.action = "severity" THEN [grade EXCEPT ![q.on] = q.to] ELSE grade
      /\ request' = [request EXCEPT ![r] = NoRequest]
      /\ fresh' = FALSE
      /\ UNCHANGED <<past, owner, cal, run, snap, crossed, counts>>
  BY <1>1 DEF Decide, TypeOK, StoredOK
<1>3. issue' \in [Findings -> Issue]
  BY <1>2, VerdictOK DEF TypeOK, StoredOK
<1>4. StoredOK'
  BY <1>2, <1>3, NoRequestOK DEF TypeOK, StoredOK
<1>5. ReadOK' /\ SavedOK'
  BY <1>2 DEF TypeOK, ReadOK, SavedOK
<1>6. HistoryOK'
  BY <1>2 DEF TypeOK, HistoryOK, RequestOK
<1>7. QED
  BY <1>4, <1>5, <1>6 DEF TypeOK

LEMMA ReviewFailsOK ==
  ASSUME TypeOK, NEW r \in Requests, ReviewFails(r)
  PROVE  TypeOK'
<1>1. StoredOK'
  BY NoRequestOK DEF TypeOK, StoredOK, ReviewFails
<1>2. ReadOK' /\ SavedOK'
  BY DEF TypeOK, ReadOK, SavedOK, ReviewFails
<1>3. HistoryOK'
  BY CountOK DEF TypeOK, HistoryOK, ReviewFails
<1>4. QED
  BY <1>1, <1>2, <1>3 DEF TypeOK

LEMMA ReassignOK ==
  ASSUME TypeOK, NEW c \in Conversations, NEW e \in Employees \cup {Nobody}, Reassign(c, e)
  PROVE  TypeOK'
<1>1. StoredOK'
  BY DEF TypeOK, StoredOK, Owner, Reassign
<1>2. ReadOK' /\ SavedOK'
  BY DEF TypeOK, ReadOK, SavedOK, Reassign
<1>3. HistoryOK'
  BY CountOK DEF TypeOK, HistoryOK, Reassign
<1>4. QED
  BY <1>1, <1>2, <1>3 DEF TypeOK

LEMMA SaveCalibrationOK ==
  ASSUME TypeOK, NEW o \in Overrides, saveCalibration(o)
  PROVE  TypeOK'
<1>1. o.weights \in [DOMAIN Weights -> Nat]
  <2>1. o.weights \in [DOMAIN Weights -> Int] /\ \A k \in DOMAIN Weights : o.weights[k] >= 0
    BY WeightsAssumption DEF saveCalibration
  <2>2. QED
    BY <2>1
<1>2. CalibrationOK(cal')
  BY <1>1, ThresholdsInRange DEF saveCalibration, CalibrationOK
<1>3. StoredOK'
  BY <1>2 DEF TypeOK, StoredOK, saveCalibration
<1>4. ReadOK' /\ SavedOK'
  BY DEF TypeOK, ReadOK, SavedOK, saveCalibration
<1>5. HistoryOK'
  BY CountOK DEF TypeOK, HistoryOK, saveCalibration
<1>6. QED
  BY <1>3, <1>4, <1>5 DEF TypeOK

LEMMA IdleOK ==
  ASSUME StoredOK
  PROVE  /\ CalibrationOK(Idle.from.cal) /\ Idle.from.owner \in [Tables -> Owner]
         /\ Idle.got = {} /\ Idle.pc = "idle"
         /\ DOMAIN Idle.board = {} /\ Idle.todo = <<>>
         /\ DOMAIN Idle = {"pc", "got", "from", "board", "todo"}
         /\ Idle.from = [past |-> past, cal |-> Idle.from.cal, owner |-> Idle.from.owner,
                          issue |-> Idle.from.issue]
BY DefaultsInRange DEF StoredOK, StoredPast, Owner, Idle, NothingRead

LEMMA NothingToSave == \A S : <<>> \in Seq(S)
OBVIOUS

LEMMA RunStepOK ==
  ASSUME TypeOK, StartRun \/ ReadCalibration \/ EndRun \/ RunFails
  PROVE  TypeOK'
<1>1. UNCHANGED <<past, owner, issue, cal, request, snap, grade, crossed>>
  BY DEF StartRun, ReadCalibration, EndRun, RunFails
<1>2. StoredOK'
  BY <1>1 DEF TypeOK, StoredOK
<1>3. fresh' \in BOOLEAN /\ (UNCHANGED counts \/ CanCount("runs") \/ CanCount("faults"))
  BY DEF TypeOK, HistoryOK, StartRun, ReadCalibration, EndRun, RunFails
<1>4. HistoryOK'
  BY <1>1, <1>3, CountOK DEF TypeOK, HistoryOK
<1>5. CASE StartRun \/ EndRun \/ RunFails
  <2>1. run' = [Idle EXCEPT !.pc = "calibration"] \/ run' = Idle
    BY <1>5 DEF StartRun, EndRun, RunFails
  <2>2. /\ run'.pc \in {"idle", "calibration"} /\ run'.got = {} /\ DOMAIN run' = DOMAIN Idle
        /\ run'.from = Idle.from /\ run'.board = Idle.board /\ run'.todo = Idle.todo
    BY <2>1 DEF Idle
  <2>3. ReadOK'
    BY <1>1, <2>2, IdleOK DEF TypeOK, ReadOK
  <2>4. SavedOK'
    <3>1. DOMAIN run'.board = {} /\ run'.todo = <<>>
      BY <2>2, IdleOK DEF TypeOK
    <3>2. run'.todo \in Seq(DOMAIN run'.board)
      BY <3>1, NothingToSave
    <3>3. QED
      BY <1>1, <3>1, <3>2 DEF TypeOK, SavedOK
  <2>5. QED
    BY <1>2, <1>4, <2>3, <2>4 DEF TypeOK
<1>6. CASE ReadCalibration
  <2>1. /\ run'.pc = "gather" /\ run'.got = run.got /\ run'.board = run.board
        /\ run'.todo = run.todo /\ run'.from.owner = run.from.owner
        /\ run'.from.issue = run.from.issue /\ run'.from.cal \in {cal, run.from.cal}
        /\ DOMAIN run' = DOMAIN run
        /\ run'.from = [past |-> past, cal |-> run'.from.cal, owner |-> run'.from.owner,
                         issue |-> run'.from.issue]
    <3>1. DOMAIN run = {"pc", "got", "from", "board", "todo"}
          /\ run.from = [past |-> past, cal |-> run.from.cal, owner |-> run.from.owner,
                         issue |-> run.from.issue]
          /\ UNCHANGED past
      BY <1>1 DEF TypeOK, ReadOK
    <3>2. CASE run' = [run EXCEPT !.pc = "gather", !.from.cal = cal]
      BY <3>1, <3>2
    <3>3. CASE run' = [run EXCEPT !.pc = "gather"]
      BY <3>1, <3>3
    <3>4. QED
      BY <1>6, <3>2, <3>3 DEF ReadCalibration
  <2>2. ReadOK' /\ SavedOK'
    BY <1>1, <2>1 DEF TypeOK, StoredOK, ReadOK, SavedOK
  <2>3. QED
    BY <1>2, <1>4, <2>2 DEF TypeOK
<1>7. QED
  BY <1>5, <1>6

LEMMA ReadStepOK ==
  ASSUME TypeOK, NEW q \in Tables, Read(q)
  PROVE  TypeOK'
<1>1. /\ UNCHANGED <<past, owner, issue, cal, request, snap, grade, crossed, fresh, counts>>
      /\ run'.pc = "gather" /\ run'.got = run.got \cup {q}
      /\ run'.from.owner = [run.from.owner EXCEPT ![q] = owner]
      /\ run'.from.issue = IF q = "issues" THEN issue ELSE run.from.issue
      /\ run'.from.cal = run.from.cal /\ run'.board = run.board /\ run'.todo = run.todo
      /\ DOMAIN run' = DOMAIN run
      /\ run'.from = [past |-> past, cal |-> run'.from.cal, owner |-> run'.from.owner,
                       issue |-> run'.from.issue]
  <2>1. /\ DOMAIN run = {"pc", "got", "from", "board", "todo"}
        /\ run.from = [past |-> past, cal |-> run.from.cal, owner |-> run.from.owner,
                       issue |-> run.from.issue]
        /\ run.pc = "gather"
    BY DEF Read, TypeOK, ReadOK
  <2>2. run' = [run EXCEPT !.got = @ \cup {q}, !.from = ReadInto(run.from, q)]
    BY DEF Read
  <2>3. /\ run'.pc = "gather" /\ run'.got = run.got \cup {q}
        /\ run'.from = ReadInto(run.from, q) /\ run'.board = run.board
        /\ run'.todo = run.todo /\ DOMAIN run' = DOMAIN run
    BY <2>1, <2>2
  <2>4. UNCHANGED <<past, owner, issue, cal, request, snap, grade, crossed, fresh, counts>>
    BY DEF Read
  <2>5. ReadInto(run.from, q)
          = [past |-> past, cal |-> run.from.cal,
             owner |-> [run.from.owner EXCEPT ![q] = owner],
             issue |-> IF q = "issues" THEN issue ELSE run.from.issue]
    BY <2>1 DEF ReadInto
  <2>6. QED
    BY <2>1, <2>3, <2>4, <2>5
<1>2. StoredOK' /\ HistoryOK'
  BY <1>1 DEF TypeOK, StoredOK, HistoryOK
<1>3. ReadOK'
  BY <1>1 DEF TypeOK, StoredOK, ReadOK
<1>4. SavedOK'
  BY <1>1 DEF TypeOK, SavedOK
<1>5. QED
  BY <1>2, <1>3, <1>4 DEF TypeOK

\* A ranking has everybody on it.
LEMMA RankingsAreComplete ==
  ASSUME NEW board, IsFiniteSet(DOMAIN board), NEW order \in Rankings(board)
  PROVE  /\ order \in Seq(DOMAIN board)
         /\ \A e \in DOMAIN board : \E i \in DOMAIN order : order[i] = e
<1> DEFINE S == DOMAIN board
           n == Cardinality(S)
<1>1. n \in Nat
  BY FS_CardinalityType
<1>2. order \in [1..n -> S] /\ \A i, j \in 1..n : i # j => order[i] # order[j]
  BY DEF Rankings, SetToSeqs
<1>3. order \in Seq(S)
  BY <1>1, <1>2, Z3
<1>4. order \in Injection(1..n, S)
  BY <1>2 DEF Injection, IsInjective
<1>5. IsFiniteSet(1..n) /\ Cardinality(1..n) = n
  BY <1>1, FS_Interval
<1>6. order \in Surjection(1..n, S)
  BY <1>4, <1>5, FS_Injection
<1>7. \A e \in S : \E i \in 1..n : order[i] = e
  BY <1>6 DEF Surjection
<1>8. QED
  BY <1>2, <1>3, <1>7

\* Only employees are on the board.
LEMMA BoardOf == ASSUME NEW read PROVE DOMAIN Board(read) \subseteq Employees
BY DEF Board

LEMMA BoardIsFinite == ASSUME NEW read PROVE IsFiniteSet(DOMAIN Board(read))
BY BoardOf, FiniteAssumption, FS_Subset

LEMMA GatheredOK ==
  ASSUME TypeOK, Gathered
  PROVE  TypeOK'
<1>1. PICK order \in Rankings(Board(run.from)) :
        run' = [run EXCEPT !.pc = "save", !.board = Board(run.from), !.todo = order]
  BY DEF Gathered
<1>2. UNCHANGED <<past, owner, issue, cal, request, snap, grade, crossed, fresh, counts>>
  BY DEF Gathered
<1>3. /\ run'.pc = "save" /\ run'.got = run.got /\ run'.from = run.from
      /\ run'.board = Board(run.from) /\ run'.todo = order /\ DOMAIN run' = DOMAIN run
  BY <1>1 DEF TypeOK, ReadOK
<1>4. order \in Seq(DOMAIN Board(run.from))
  BY BoardIsFinite, RankingsAreComplete
<1>5. StoredOK' /\ HistoryOK'
  BY <1>2 DEF TypeOK, StoredOK, HistoryOK
<1>6. ReadOK'
  BY <1>2, <1>3 DEF TypeOK, ReadOK
<1>7. SavedOK'
  BY <1>2, <1>3, <1>4, BoardOf DEF TypeOK, SavedOK
<1>8. QED
  BY <1>5, <1>6, <1>7 DEF TypeOK

\* One row taken of those to save, and saved.
LEMMA TakeHead ==
  ASSUME NEW S, NEW s \in Seq(S), s # <<>>
  PROVE  /\ Head(s) \in S /\ Tail(s) \in Seq(S)
         /\ \A i \in DOMAIN s :
              s[i] = Head(s) \/ \E j \in DOMAIN Tail(s) : Tail(s)[j] = s[i]
<1>1. Head(s) \in S /\ Tail(s) \in Seq(S)
  OBVIOUS
<1>2. ASSUME NEW i \in DOMAIN s, i # 1
      PROVE  \E j \in DOMAIN Tail(s) : Tail(s)[j] = s[i]
  <2>1. i - 1 \in DOMAIN Tail(s) /\ Tail(s)[i - 1] = s[i]
    BY <1>2
  <2>2. QED
    BY <2>1
<1>3. QED
  BY <1>1, <1>2

LEMMA SaveRowOK ==
  ASSUME TypeOK, SaveRow
  PROVE  TypeOK'
<1>1. /\ run.todo \in Seq(DOMAIN run.board) /\ run.todo # <<>>
      /\ run' = [run EXCEPT !.todo = Tail(run.todo)]
      /\ snap' = Upsert(snap, Head(run.todo), run.board[Head(run.todo)])
      /\ UNCHANGED <<past, owner, issue, cal, request, grade, crossed, fresh, counts>>
  BY DEF TypeOK, SavedOK, SaveRow
<1>2. /\ run'.pc = run.pc /\ run'.got = run.got /\ run'.from = run.from
      /\ run'.board = run.board /\ run'.todo = Tail(run.todo) /\ DOMAIN run' = DOMAIN run
  BY <1>1 DEF TypeOK, ReadOK
<1>3. Head(run.todo) \in DOMAIN run.board /\ Tail(run.todo) \in Seq(DOMAIN run.board)
  BY <1>1, TakeHead
<1>4. DOMAIN snap' = {Head(run.todo)} \cup DOMAIN snap
  BY <1>1 DEF Upsert
<1>5. StoredOK' /\ HistoryOK'
  BY <1>1 DEF TypeOK, StoredOK, HistoryOK
<1>6. ReadOK'
  BY <1>1, <1>2 DEF TypeOK, ReadOK
<1>7. SavedOK'
  BY <1>2, <1>3, <1>4 DEF TypeOK, SavedOK
<1>8. QED
  BY <1>5, <1>6, <1>7 DEF TypeOK

LEMMA TypeStep == TypeOK /\ [Next]_vars => TypeOK'
<1>1. SUFFICES ASSUME TypeOK, [Next]_vars PROVE TypeOK'
  OBVIOUS
<1>2. CASE UNCHANGED vars
  <2>1. StoredOK' /\ ReadOK'
    BY <1>1, <1>2 DEF vars, TypeOK, StoredOK, ReadOK
  <2>2. SavedOK' /\ HistoryOK'
    BY <1>1, <1>2 DEF vars, TypeOK, SavedOK, HistoryOK
  <2>3. QED
    BY <2>1, <2>2 DEF TypeOK
<1>3. CASE \E r \in Requests, f \in Findings :
             \/ \E action \in {"confirm", "reject"} : Review(r, f, action, issue[f].severity)
             \/ \E to \in Regrades : Review(r, f, "severity", to)
  <2>1. \A f \in Findings : issue[f].severity \in Severities
    BY <1>1 DEF TypeOK, StoredOK, Issue
  <2>2. QED
    BY <1>1, <1>3, <2>1, RegradesAssumption, ReviewOK
<1>4. CASE \E r \in Requests : Decide(r) \/ ReviewFails(r)
  BY <1>1, <1>4, DecideOK, ReviewFailsOK
<1>5. CASE \E c \in Conversations, e \in Employees \cup {Nobody} : Reassign(c, e)
  BY <1>1, <1>5, ReassignOK
<1>6. CASE \E o \in Overrides : saveCalibration(o)
  BY <1>1, <1>6, SaveCalibrationOK
<1>7. CASE StartRun \/ ReadCalibration \/ EndRun \/ RunFails
  BY <1>1, <1>7, RunStepOK
<1>8. CASE Gathered \/ SaveRow \/ \E q \in Tables : Read(q)
  BY <1>1, <1>8, GatheredOK, SaveRowOK, ReadStepOK
<1>9. QED
  BY <1>1, <1>2, <1>3, <1>4, <1>5, <1>6, <1>7, <1>8 DEF Next

\* What is stored, read and saved stays of its types, and the calibration in its ranges
\* whatever is sent (resolveThresholds, resolveWeights).
THEOREM BoardTypes == Spec => []TypeOK
BY InitOK, TypeStep, PTL DEF Spec
-----------------------------------------------------------------------------
(* The snapshot *)

\* The query found what is there now.
AsItIs(q) == run.from.owner[q] = owner /\ (q = "issues" => run.from.issue = issue)

\* The row is in the snapshot, or will be.
SavedOrLeft(e) ==
  \/ e \in DOMAIN snap /\ snap[e] = run.board[e]
  \/ \E i \in DOMAIN run.todo : run.todo[i] = e

\* While nothing fails and nothing changes, what a run has read is what there is, what it
\* saves is the board of it, and what it leaves is saved.
FreshInv ==
  /\ run.pc = "calibration" => run.got = {}
  /\ fresh =>
       /\ run.pc \in {"gather", "save"} =>
            run.from.cal = cal /\ \A q \in run.got : AsItIs(q)
       /\ run.pc = "save" =>
            /\ run.board = Board(Now)
            /\ \A e \in DOMAIN run.board : SavedOrLeft(e)
       /\ run.pc = "idle" => Shows(Board(Now))

\* A change of what is stored, or a failure, ends it.
LEMMA NotFresh ==
  ASSUME fresh' = FALSE, run'.pc = "calibration" => run'.got = {}
  PROVE  FreshInv'
BY DEF FreshInv

\* A request in a supervisor's hands changes nothing of it.
LEMMA FreshReview ==
  ASSUME FreshInv, UNCHANGED <<past, owner, issue, cal, run, snap, fresh>>
  PROVE  FreshInv'
<1>1. Now' = Now
  BY DEF Now
<1>2. \A e : SavedOrLeft(e)' <=> SavedOrLeft(e)
  BY DEF SavedOrLeft
<1>3. \A q : AsItIs(q)' <=> AsItIs(q)
  BY DEF AsItIs
<1>4. Board(Now)' = Board(Now)
  BY <1>1
<1>5. Shows(Board(Now))' <=> Shows(Board(Now))
  BY <1>4 DEF Shows
<1>6. QED
  BY <1>2, <1>3, <1>4, <1>5 DEF FreshInv

LEMMA FreshStart ==
  ASSUME TypeOK, FreshInv, StartRun \/ ReadCalibration \/ RunFails
  PROVE  FreshInv'
<1>1. CASE StartRun
  <2>1. run'.pc = "calibration" /\ run'.got = {}
    BY <1>1 DEF StartRun, Idle
  <2>2. QED
    BY <2>1 DEF FreshInv
<1>2. CASE RunFails
  BY <1>2, NotFresh DEF RunFails, Idle
<1>3. CASE ReadCalibration
  <2>1. run.pc = "calibration" /\ run.got = {} /\ UNCHANGED cal
    BY <1>3 DEF ReadCalibration, FreshInv
  <2>2. CASE run' = [run EXCEPT !.pc = "gather", !.from.cal = cal]
    <3>1. run'.pc = "gather" /\ run'.got = {} /\ run'.from.cal = cal
      BY <2>1, <2>2 DEF TypeOK, ReadOK
    <3>2. QED
      BY <2>1, <3>1 DEF FreshInv
  <2>3. CASE run' = [run EXCEPT !.pc = "gather"] /\ fresh' = FALSE
    <3>1. run'.pc = "gather"
      BY <2>3 DEF TypeOK, ReadOK
    <3>2. QED
      BY <2>3, <3>1, NotFresh
  <2>4. QED
    BY <1>3, <2>2, <2>3 DEF ReadCalibration
<1>4. QED
  BY <1>1, <1>2, <1>3

LEMMA FreshRead ==
  ASSUME TypeOK, FreshInv, NEW q \in Tables, Read(q)
  PROVE  FreshInv'
<1>1. /\ UNCHANGED <<past, owner, issue, cal, snap, fresh>> /\ run.pc = "gather"
      /\ run'.pc = "gather" /\ run'.got = run.got \cup {q}
      /\ run'.from = ReadInto(run.from, q)
  BY DEF Read, TypeOK, ReadOK
<1>2. run.from.owner \in [Tables -> Owner] /\ run.got \subseteq Tables
  BY DEF TypeOK, ReadOK
<1>3. /\ run'.from.cal = run.from.cal
      /\ run'.from.owner = [run.from.owner EXCEPT ![q] = owner]
      /\ run'.from.issue = IF q = "issues" THEN issue ELSE run.from.issue
  BY <1>1 DEF ReadInto
<1>4. ASSUME fresh, NEW p \in run'.got
      PROVE  AsItIs(p)'
  BY <1>1, <1>2, <1>3, <1>4 DEF AsItIs, FreshInv
<1>5. QED
  BY <1>1, <1>3, <1>4 DEF FreshInv

\* What was read of everything is what there is.
LEMMA AllRead ==
  ASSUME ReadOK, run.from.cal = cal, \A q \in Tables : AsItIs(q)
  PROVE  run.from = Now
<1>1. run.from.owner = [q \in Tables |-> owner]
  BY DEF ReadOK, AsItIs
<1>2. run.from.issue = issue
  BY DEF Tables, AsItIs
<1>3. QED
  BY <1>1, <1>2 DEF ReadOK, Now

LEMMA FreshGathered ==
  ASSUME TypeOK, FreshInv, Gathered
  PROVE  FreshInv'
<1>1. PICK order \in Rankings(Board(run.from)) :
        run' = [run EXCEPT !.pc = "save", !.board = Board(run.from), !.todo = order]
  BY DEF Gathered
<1>2. /\ UNCHANGED <<past, owner, issue, cal, snap, fresh>>
      /\ run.pc = "gather" /\ run.got = Tables
  BY DEF Gathered
<1>3. /\ run'.pc = "save" /\ run'.got = run.got /\ run'.from = run.from
      /\ run'.board = Board(run.from) /\ run'.todo = order
  BY <1>1 DEF TypeOK, ReadOK
<1>4. Board(Now)' = Board(Now) /\ \A q : AsItIs(q)' <=> AsItIs(q)
  BY <1>2, <1>3 DEF Now, AsItIs
<1>5. ASSUME fresh
      PROVE  run.from = Now
  BY <1>2, <1>5, AllRead DEF TypeOK, FreshInv
<1>6. \A e \in DOMAIN run'.board : \E i \in DOMAIN run'.todo : run'.todo[i] = e
  BY <1>3, BoardIsFinite, RankingsAreComplete
<1>7. \A e \in DOMAIN run'.board : SavedOrLeft(e)'
  BY <1>6 DEF SavedOrLeft
<1>8. QED
  BY <1>2, <1>3, <1>4, <1>5, <1>7 DEF FreshInv

LEMMA FreshSave ==
  ASSUME TypeOK, FreshInv, SaveRow
  PROVE  FreshInv'
<1>1. /\ run.todo \in Seq(DOMAIN run.board) /\ run.todo # <<>> /\ run.pc = "save"
      /\ run' = [run EXCEPT !.todo = Tail(run.todo)]
      /\ snap' = Upsert(snap, Head(run.todo), run.board[Head(run.todo)])
      /\ UNCHANGED <<past, owner, issue, cal, fresh>>
  BY DEF TypeOK, SavedOK, SaveRow
<1>2. /\ run'.pc = run.pc /\ run'.got = run.got /\ run'.from = run.from
      /\ run'.board = run.board /\ run'.todo = Tail(run.todo)
  BY <1>1 DEF TypeOK, ReadOK
<1>3. Board(Now)' = Board(Now) /\ \A q : AsItIs(q)' <=> AsItIs(q)
  BY <1>1, <1>2 DEF Now, AsItIs
<1>4. \A i \in DOMAIN run.todo :
        \/ run.todo[i] = Head(run.todo)
        \/ \E j \in DOMAIN run'.todo : run'.todo[j] = run.todo[i]
  BY <1>1, <1>2, TakeHead
<1>5. /\ Head(run.todo) \in DOMAIN snap' /\ snap'[Head(run.todo)] = run.board[Head(run.todo)]
      /\ \A e \in DOMAIN snap : e \in DOMAIN snap'
                                  /\ (e # Head(run.todo) => snap'[e] = snap[e])
  BY <1>1 DEF Upsert
<1>6. ASSUME NEW e \in DOMAIN run.board, SavedOrLeft(e)
      PROVE  SavedOrLeft(e)'
  BY <1>2, <1>4, <1>5, <1>6 DEF SavedOrLeft
<1>7. QED
  BY <1>1, <1>2, <1>3, <1>6 DEF FreshInv

LEMMA FreshEnd ==
  ASSUME TypeOK, FreshInv, EndRun
  PROVE  FreshInv'
<1>1. /\ run.pc = "save" /\ run.todo = <<>> /\ run'.pc = "idle"
      /\ UNCHANGED <<past, owner, issue, cal, snap, fresh>>
  BY DEF EndRun, Idle
<1>2. Board(Now)' = Board(Now)
  BY <1>1 DEF Now
<1>3. fresh => Shows(Board(Now))
  BY <1>1 DEF FreshInv, SavedOrLeft, Shows
<1>4. fresh => Shows(Board(Now))'
  BY <1>1, <1>2, <1>3 DEF Shows
<1>5. QED
  BY <1>1, <1>4 DEF FreshInv

LEMMA FreshStep == TypeOK /\ FreshInv /\ [Next]_vars => FreshInv'
<1>1. SUFFICES ASSUME TypeOK, FreshInv, [Next]_vars PROVE FreshInv'
  OBVIOUS
<1>2. CASE UNCHANGED vars
  BY <1>1, <1>2, FreshReview DEF vars
<1>3. CASE \E r \in Requests : \/ \E f \in Findings : \E action, to : Review(r, f, action, to)
                               \/ ReviewFails(r)
  BY <1>1, <1>3, FreshReview DEF Review, ReviewFails
<1>4. CASE \E r \in Requests : Decide(r)
  BY <1>1, <1>4, NotFresh DEF Decide, FreshInv
<1>5. CASE \E c \in Conversations, e \in Employees \cup {Nobody} : Reassign(c, e)
  BY <1>1, <1>5, NotFresh DEF Reassign, FreshInv
<1>6. CASE \E o \in Overrides : saveCalibration(o)
  BY <1>1, <1>6, NotFresh DEF saveCalibration, FreshInv
<1>7. CASE StartRun \/ ReadCalibration \/ RunFails \/ EndRun
  BY <1>1, <1>7, FreshStart, FreshEnd
<1>8. CASE Gathered \/ SaveRow \/ \E q \in Tables : Read(q)
  BY <1>1, <1>8, FreshGathered, FreshSave, FreshRead
<1>9. QED
  BY <1>1, <1>2, <1>3, <1>4, <1>5, <1>6, <1>7, <1>8 DEF Next

\* After a run with no failure, and no change since it began, today's snapshot says of
\* everybody what the board says (gatherQualityBoard, saveSnapshot).
THEOREM SnapshotShowsBoard == Spec => []SnapshotIsTheBoard
<1>1. Init => FreshInv
  BY DEF Init, Idle, FreshInv
<1>2. FreshInv => SnapshotIsTheBoard
  BY DEF FreshInv, SnapshotIsTheBoard
<1>3. QED
  BY <1>1, <1>2, FreshStep, BoardTypes, PTL DEF Spec

-----------------------------------------------------------------------------
(* Folds: over a finite set there is one function that is the fold of all its subsets *)

\* Of some subsets of a finite set one has no other inside it.
LEMMA LeastSet ==
  ASSUME NEW S, IsFiniteSet(S), NEW C, C \subseteq SUBSET S, C # {}
  PROVE  \E T \in C : \A U \in C : U \subseteq T => U = T
<1>1. FiniteSubsetsOf(S) = SUBSET S
  BY FS_FiniteSubsetsOfFinite
<1>2. PICK T \in C : \A U \in C : <<U, T>> \notin StrictSubsetOrdering(S)
  BY <1>1, FS_StrictSubsetOrderingWellFounded, WFMin
<1>3. QED
  BY <1>2 DEF StrictSubsetOrdering

\* Numbers have a least one.
LEMMA LeastNat ==
  ASSUME NEW T, T \subseteq Nat, T # {}
  PROVE  \E n \in T : \A m \in T : n <= m
<1>1. PICK k : k \in T
  OBVIOUS
<1> DEFINE C == {U \in SUBSET (0..k) : \E n \in T : U = 0..n}
<1>2. IsFiniteSet(0..k) /\ C \subseteq SUBSET (0..k) /\ 0..k \in C
  BY <1>1, FS_Interval
<1>3. \E U \in C : \A V \in C : V \subseteq U => V = U
  <2> HIDE DEF C
  <2>1. PICK K : K = 0..k
    OBVIOUS
  <2>2. IsFiniteSet(K) /\ C \subseteq SUBSET K /\ C # {}
    BY <1>2, <2>1
  <2>3. QED
    BY <2>2, LeastSet
<1>4. PICK U \in C : \A V \in C : V \subseteq U => V = U
  BY <1>3
<1>5. PICK n \in T : U = 0..n
  OBVIOUS
<1>6. ASSUME NEW m \in T, m < n PROVE FALSE
  <2>1. 0..m \subseteq 0..n /\ n \notin 0..m /\ n \in 0..n
    BY <1>1, <1>6
  <2>2. 0..m \in C
    BY <1>5, <2>1
  <2>3. QED
    BY <1>4, <1>5, <2>1, <2>2
<1>7. QED
  BY <1>6

\* Induction over a set of numbers.
LEMMA NatSet ==
  ASSUME NEW G, 0 \in G, \A n \in Nat : n \in G => n + 1 \in G
  PROVE  Nat \subseteq G
<1>1. SUFFICES ASSUME Nat \ G # {} PROVE FALSE
  OBVIOUS
<1>2. PICK n \in Nat \ G : \A m \in Nat \ G : n <= m
  BY <1>1, LeastNat
<1>3. n # 0
  OBVIOUS
<1>4. n - 1 \in Nat /\ n - 1 \in G
  BY <1>2, <1>3
<1>5. QED
  BY <1>2, <1>4

\* What a fold over a finite set takes first.
Pick(s) == CHOOSE x \in s : TRUE

\* g is the fold of every subset of S.
FoldStep(g, s, base, step) ==
  IF s = {} THEN base ELSE step[<<Pick(s), g[s \ {Pick(s)}]>>]

IsFold(g, S, base, step) == g = [s \in SUBSET S |-> FoldStep(g, s, base, step)]

\* Steps that stay in V.
Folds(base, step, S, V) == base \in V /\ step \in [S \X V -> V]

LEMMA PickIn == ASSUME NEW s, s # {} PROVE Pick(s) \in s
BY DEF Pick

\* There is such a function: built up by the size of the subset.
LEMMA FoldExists ==
  ASSUME NEW S, IsFiniteSet(S), NEW V, NEW base, NEW step, Folds(base, step, S, V)
  PROVE  \E g \in [SUBSET S -> V] : IsFold(g, S, base, step)
<1> DEFINE Upto(g, n) == \A s \in SUBSET S :
                            Cardinality(s) <= n => g[s] = FoldStep(g, s, base, step)
           G == {n \in Nat : \E g \in [SUBSET S -> V] : Upto(g, n)}
<1>0. base \in V /\ step \in [S \X V -> V]
  BY DEF Folds
<1>1. \A s \in SUBSET S :
        IsFiniteSet(s) /\ Cardinality(s) \in Nat /\ Cardinality(s) <= Cardinality(S)
  BY FS_Subset, FS_CardinalityType
<1>2. 0 \in G
  <2>1. [s \in SUBSET S |-> base] \in [SUBSET S -> V]
    BY <1>0
  <2>2. Upto([s \in SUBSET S |-> base], 0)
    BY <1>1, FS_EmptySet DEF FoldStep
  <2>3. QED
    BY <2>1, <2>2
<1>3. ASSUME NEW n \in Nat, n \in G
      PROVE  n + 1 \in G
  <2>1. PICK g \in [SUBSET S -> V] : Upto(g, n)
    BY <1>3
  <2> DEFINE h == [s \in SUBSET S |-> FoldStep(g, s, base, step)]
  <2>2. h \in [SUBSET S -> V]
    BY <1>0, PickIn DEF FoldStep
  <2>3. ASSUME NEW s \in SUBSET S, Cardinality(s) <= n + 1, s # {}
        PROVE  h[s] = FoldStep(h, s, base, step)
    <3> DEFINE t == s \ {Pick(s)}
    <3>1. t \in SUBSET S /\ Pick(s) \in s
      BY <2>3, PickIn
    <3>2. Cardinality(t) <= n
      BY <1>1, <2>3, <3>1, FS_RemoveElement
    <3>3. g[t] = h[t]
      BY <2>1, <3>1, <3>2
    <3>4. QED
      BY <2>3, <3>1, <3>3 DEF FoldStep
  <2>4. Upto(h, n + 1)
    BY <2>3 DEF FoldStep
  <2>5. QED
    <3> HIDE DEF Upto, h
    <3>1. QED
      BY <2>2, <2>4
<1>4. Cardinality(S) \in G
  <2> HIDE DEF G
  <2>1. Nat \subseteq G
    BY <1>2, <1>3, NatSet
  <2>2. QED
    BY <1>1, <2>1
<1>5. PICK g \in [SUBSET S -> V] : Upto(g, Cardinality(S))
  BY <1>4
<1>6. g = [s \in SUBSET S |-> FoldStep(g, s, base, step)]
  BY <1>1, <1>5
<1>7. QED
  BY <1>6 DEF IsFold

\* g is a function on the subsets of S.
OnSubsets(g, S) == g = [s \in SUBSET S |-> g[s]]

\* g and h agree on s without what is taken first.
SameBelow(g, h, s) == s = {} \/ g[s \ {Pick(s)}] = h[s \ {Pick(s)}]

\* And only one.
LEMMA FoldsAgree ==
  ASSUME NEW S, IsFiniteSet(S), NEW g, NEW h, OnSubsets(g, S), OnSubsets(h, S),
         \A s \in SUBSET S : SameBelow(g, h, s) => g[s] = h[s]
  PROVE  g = h
<1> DEFINE C == {s \in SUBSET S : g[s] # h[s]}
<1>1. SUFFICES ASSUME C # {} PROVE FALSE
  BY DEF OnSubsets
<1>2. C \subseteq SUBSET S
  OBVIOUS
<1>3. \E s \in C : \A u \in C : u \subseteq s => u = s
  <2> HIDE DEF C
  <2>1. QED
    BY <1>1, <1>2, LeastSet
<1>4. PICK s \in C : \A u \in C : u \subseteq s => u = s
  BY <1>3
<1>5. s # {} => g[s \ {Pick(s)}] = h[s \ {Pick(s)}]
  BY <1>4, PickIn
<1>6. QED
  BY <1>5 DEF SameBelow

\* One step of a sum.
AddOf(f, S) == [p \in S \X Int |-> f[p[1]] + p[2]]

\* SumFunctionOnSet is its value for the whole set.
LEMMA SumIs ==
  ASSUME NEW S, IsFiniteSet(S), NEW f, \A x \in S : f[x] \in Int,
         NEW g \in [SUBSET S -> Int], IsFold(g, S, 0, AddOf(f, S))
  PROVE  SumFunctionOnSet(f, S) = g[S]
<1> DEFINE Eq(h) == h = [s \in SUBSET S |-> IF s = {} THEN 0
                ELSE f[CHOOSE x \in s : TRUE] + h[s \ {CHOOSE x \in s : TRUE}]]
<1>1. Eq(g)
  BY PickIn DEF IsFold, FoldStep, AddOf, Pick
<1>2. ASSUME NEW h, Eq(h)
      PROVE  h = g
  <2>1. OnSubsets(h, S) /\ OnSubsets(g, S)
    BY <1>2 DEF OnSubsets
  <2>2. ASSUME NEW s \in SUBSET S, SameBelow(g, h, s)
        PROVE  g[s] = h[s]
    <3>1. CASE s = {}
      BY <1>1, <1>2, <3>1
    <3>2. CASE s # {}
      <4>1. PICK p, u, v : p = Pick(s) /\ u = g[s \ {p}] /\ v = h[s \ {p}]
        OBVIOUS
      <4>2. u = v
        BY <2>2, <3>2, <4>1 DEF SameBelow
      <4>3. g[s] = f[p] + u
        BY <1>1, <3>2, <4>1, Zenon DEF Pick
      <4>4. h[s] = f[p] + v
        BY <1>2, <3>2, <4>1, Zenon DEF Pick
      <4>5. QED
        BY <4>2, <4>3, <4>4
    <3>3. QED
      BY <3>1, <3>2
  <2>3. g = h
    BY <2>1, <2>2, FoldsAgree
  <2>4. QED
    BY <2>3
<1>3. QED
  BY <1>1, <1>2 DEF SumFunctionOnSet, FoldFunctionOnSet, MapThenFoldSet

-----------------------------------------------------------------------------
(* Sums *)

\* G has the empty set, and a set if it has it without a member.
Grows(G, S) ==
  /\ {} \in G
  /\ \A T \in SUBSET S : \A x \in T : T \ {x} \in G => T \in G

\* A set that grows so has every subset of S.
LEMMA SetInduction ==
  ASSUME NEW S, IsFiniteSet(S), NEW G, Grows(G, S)
  PROVE  \A T \in SUBSET S : T \in G
<1> DEFINE C == {T \in SUBSET S : T \notin G}
<1>1. SUFFICES ASSUME C # {} PROVE FALSE
  OBVIOUS
<1>2. PICK T \in C : \A U \in C : U \subseteq T => U = T
  <2>1. C \subseteq SUBSET S
    OBVIOUS
  <2> HIDE DEF C
  <2>2. QED
    BY <1>1, <2>1, LeastSet
<1>3. PICK x : x \in T
  BY <1>2 DEF Grows
<1>4. T \ {x} \in G
  BY <1>2, <1>3
<1>5. QED
  BY <1>2, <1>3, <1>4 DEF Grows

\* f has whole numbers on S.
Integral(f, S) == \A x \in S : f[x] \in Int

\* g has the sums of f over the subsets of S.
SumsOf(g, f, S) ==
  /\ g \in [SUBSET S -> Int] /\ g[{}] = 0
  /\ \A T \in SUBSET S : SumFunctionOnSet(f, T) = g[T]
  /\ \A T \in SUBSET S : \A x \in T : g[T] = f[x] + g[T \ {x}]

\* The sums over the subsets of a finite set: a member taken out takes its value with it.
LEMMA SumsAre ==
  ASSUME NEW S, IsFiniteSet(S), NEW f, Integral(f, S)
  PROVE  \E g : SumsOf(g, f, S)
<1>0. \A x \in S : f[x] \in Int
  BY DEF Integral
<1>1. AddOf(f, S) \in [S \X Int -> Int]
  BY <1>0 DEF AddOf
<1>2. PICK g \in [SUBSET S -> Int] : IsFold(g, S, 0, AddOf(f, S))
  <2>1. PICK step : step = AddOf(f, S)
    OBVIOUS
  <2>2. Folds(0, step, S, Int)
    BY <1>1, <2>1 DEF Folds
  <2>3. \E g \in [SUBSET S -> Int] : IsFold(g, S, 0, step)
    BY <2>2, FoldExists
  <2>4. QED
    BY <2>1, <2>3
<1>3. \A T \in SUBSET S : g[T] = IF T = {} THEN 0 ELSE f[Pick(T)] + g[T \ {Pick(T)}]
  BY <1>2, PickIn DEF IsFold, FoldStep, AddOf
<1>4. ASSUME NEW T \in SUBSET S
      PROVE  SumFunctionOnSet(f, T) = g[T]
  <2>1. PICK h : h = [U \in SUBSET T |-> g[U]]
    OBVIOUS
  <2>2. h \in [SUBSET T -> Int]
    BY <2>1
  <2>3. ASSUME NEW U \in SUBSET T
        PROVE  h[U] = FoldStep(h, U, 0, AddOf(f, T))
    <3>1. CASE U = {}
      BY <1>3, <2>1, <3>1 DEF FoldStep
    <3>2. CASE U # {}
      <4>1. Pick(U) \in U /\ U \ {Pick(U)} \in SUBSET T
        BY <3>2, PickIn
      <4>2. h[U \ {Pick(U)}] \in Int
        BY <2>2, <4>1
      <4>3. h[U] = f[Pick(U)] + h[U \ {Pick(U)}]
        BY <1>3, <2>1, <3>2, <4>1
      <4>4. AddOf(f, T)[<<Pick(U), h[U \ {Pick(U)}]>>] = f[Pick(U)] + h[U \ {Pick(U)}]
        BY <4>1, <4>2 DEF AddOf
      <4>5. QED
        BY <3>2, <4>3, <4>4 DEF FoldStep
    <3>3. QED
      BY <3>1, <3>2
  <2>4. IsFold(h, T, 0, AddOf(f, T))
    BY <2>1, <2>3 DEF IsFold
  <2>5. IsFiniteSet(T) /\ \A x \in T : f[x] \in Int
    BY <1>0, FS_Subset
  <2>6. SumFunctionOnSet(f, T) = h[T]
    BY <2>2, <2>4, <2>5, SumIs
  <2>7. QED
    BY <2>1, <2>6
<1>5. ASSUME NEW T \in SUBSET S
      PROVE  \A x \in T : g[T] = f[x] + g[T \ {x}]
  <2> DEFINE G == {U \in SUBSET S : \A x \in U : g[U] = f[x] + g[U \ {x}]}
             C == {U \in SUBSET S : U \notin G}
  <2>1. SUFFICES ASSUME C # {} PROVE FALSE
    OBVIOUS
  <2>2. PICK U \in C : \A V \in C : V \subseteq U => V = U
    <3>1. C \subseteq SUBSET S
      OBVIOUS
    <3> HIDE DEF C
    <3>2. QED
      BY <2>1, <3>1, LeastSet
  <2>3. PICK x \in U : g[U] # f[x] + g[U \ {x}]
    BY <2>2
  <2>4. PICK p : p = Pick(U) /\ p \in U
    BY <2>3, PickIn
  <2>5. g[U] = f[p] + g[U \ {p}] /\ x # p
    BY <1>3, <2>2, <2>3, <2>4
  <2>6. U \ {p} \in G /\ U \ {x} \in G
    BY <2>2, <2>3, <2>4
  <2>7. /\ g[U \ {p}] = f[x] + g[(U \ {p}) \ {x}]
        /\ g[U \ {x}] = f[p] + g[(U \ {x}) \ {p}]
    BY <2>3, <2>4, <2>5, <2>6
  <2>8. (U \ {p}) \ {x} = (U \ {x}) \ {p}
    OBVIOUS
  <2>9. f[x] \in Int /\ f[p] \in Int /\ g[(U \ {x}) \ {p}] \in Int
    BY <1>0, <2>2, <2>3, <2>4
  <2>10. PICK a, b, c : a = f[x] /\ b = f[p] /\ c = g[(U \ {x}) \ {p}]
    OBVIOUS
  <2>11. g[U] = b + (a + c) /\ g[U \ {x}] = b + c
    BY <2>5, <2>7, <2>8, <2>10
  <2>12. g[U] = a + g[U \ {x}]
    BY <2>9, <2>10, <2>11
  <2>13. QED
    BY <2>3, <2>10, <2>12
<1>6. QED
  BY <1>2, <1>3, <1>4, <1>5 DEF SumsOf

LEMMA SumType ==
  ASSUME NEW S, IsFiniteSet(S), NEW f, Integral(f, S)
  PROVE  SumFunctionOnSet(f, S) \in Int
<1>1. PICK g : SumsOf(g, f, S)
  BY SumsAre
<1>2. QED
  BY <1>1 DEF SumsOf

\* A sum of more is more.
LEMMA SumMono ==
  ASSUME NEW S, IsFiniteSet(S), NEW f, NEW h, Integral(f, S), Integral(h, S),
         \A x \in S : f[x] <= h[x]
  PROVE  SumFunctionOnSet(f, S) <= SumFunctionOnSet(h, S)
<1>1. PICK g : SumsOf(g, f, S)
  BY SumsAre
<1>2. PICK k : SumsOf(k, h, S)
  BY SumsAre
<1>3. PICK G : G = {T \in SUBSET S : g[T] <= k[T]}
  OBVIOUS
<1>4. ASSUME NEW T \in SUBSET S, NEW x \in T, T \ {x} \in G
      PROVE  T \in G
  <2>1. g[T] = f[x] + g[T \ {x}] /\ k[T] = h[x] + k[T \ {x}]
    BY <1>1, <1>2 DEF SumsOf
  <2>2. /\ g[T \ {x}] \in Int /\ k[T \ {x}] \in Int /\ g[T \ {x}] <= k[T \ {x}]
        /\ f[x] \in Int /\ h[x] \in Int /\ f[x] <= h[x]
    BY <1>1, <1>2, <1>3, <1>4 DEF SumsOf, Integral
  <2>3. g[T] <= k[T]
    BY <2>1, <2>2
  <2>4. QED
    BY <1>3, <2>3
<1>5. Grows(G, S)
  BY <1>1, <1>2, <1>3, <1>4 DEF Grows, SumsOf
<1>6. S \in G
  BY <1>5, SetInduction
<1>7. QED
  BY <1>1, <1>2, <1>3, <1>6 DEF SumsOf

LEMMA Distribute == \A a, b, c \in Int : a * (b + c) = a * b + a * c
OBVIOUS

\* A factor of all is a factor of the sum.
LEMMA SumScale ==
  ASSUME NEW S, IsFiniteSet(S), NEW a \in Int, NEW f, NEW h, Integral(f, S),
         \A x \in S : h[x] = a * f[x]
  PROVE  SumFunctionOnSet(h, S) = a * SumFunctionOnSet(f, S)
<1>0. Integral(h, S)
  BY DEF Integral
<1>1. PICK g : SumsOf(g, f, S)
  BY SumsAre
<1>2. PICK k : SumsOf(k, h, S)
  BY <1>0, SumsAre
<1>3. PICK G : G = {T \in SUBSET S : k[T] = a * g[T]}
  OBVIOUS
<1>4. ASSUME NEW T \in SUBSET S, NEW x \in T, T \ {x} \in G
      PROVE  T \in G
  <2>1. g[T] = f[x] + g[T \ {x}] /\ k[T] = h[x] + k[T \ {x}]
    BY <1>1, <1>2 DEF SumsOf
  <2>2. k[T \ {x}] = a * g[T \ {x}] /\ h[x] = a * f[x] /\ f[x] \in Int /\ g[T \ {x}] \in Int
    BY <1>1, <1>3, <1>4 DEF SumsOf, Integral
  <2>3. a * (f[x] + g[T \ {x}]) = a * f[x] + a * g[T \ {x}]
    BY <2>2, Distribute
  <2>4. QED
    BY <1>3, <2>1, <2>2, <2>3
<1>5. Grows(G, S)
  BY <1>1, <1>2, <1>3, <1>4 DEF Grows, SumsOf
<1>6. S \in G
  BY <1>5, SetInduction
<1>7. QED
  BY <1>1, <1>2, <1>3, <1>6 DEF SumsOf

LEMMA SumNat ==
  ASSUME NEW S, IsFiniteSet(S), NEW f, \A x \in S : f[x] \in Nat
  PROVE  SumFunctionOnSet(f, S) \in Nat
<1>1. PICK z : z = [x \in S |-> 0]
  OBVIOUS
<1>2. Integral(f, S) /\ Integral(z, S) /\ \A x \in S : z[x] = 0 * z[x]
  BY <1>1 DEF Integral
<1>3. SumFunctionOnSet(z, S) = 0 * SumFunctionOnSet(z, S)
  BY <1>2, SumScale
<1>4. \A x \in S : z[x] <= f[x]
  BY <1>1
<1>5. SumFunctionOnSet(z, S) <= SumFunctionOnSet(f, S)
  BY <1>2, <1>4, SumMono
<1>6. SumFunctionOnSet(z, S) \in Int /\ SumFunctionOnSet(f, S) \in Int
  BY <1>2, SumType
<1>7. QED
  BY <1>3, <1>5, <1>6

\* A sum of ones counts them.
LEMMA SumCount ==
  ASSUME NEW S, IsFiniteSet(S), NEW f, \A x \in S : f[x] = 1
  PROVE  SumFunctionOnSet(f, S) = Cardinality(S)
<1>1. Integral(f, S)
  BY DEF Integral
<1>2. PICK g : SumsOf(g, f, S)
  BY <1>1, SumsAre
<1>3. PICK G : G = {T \in SUBSET S : g[T] = Cardinality(T)}
  OBVIOUS
<1>4. ASSUME NEW T \in SUBSET S, NEW x \in T, T \ {x} \in G
      PROVE  T \in G
  <2>1. IsFiniteSet(T) /\ Cardinality(T) \in Nat
    BY FS_Subset, FS_CardinalityType
  <2>2. Cardinality(T \ {x}) = Cardinality(T) - 1
    BY <2>1, FS_RemoveElement
  <2>3. g[T] = 1 + g[T \ {x}] /\ g[T \ {x}] = Cardinality(T \ {x})
    BY <1>2, <1>3, <1>4 DEF SumsOf
  <2>4. QED
    BY <1>3, <2>1, <2>2, <2>3
<1>5. Grows(G, S)
  BY <1>2, <1>3, <1>4, FS_EmptySet DEF Grows, SumsOf
<1>6. S \in G
  BY <1>5, SetInduction
<1>7. QED
  BY <1>2, <1>3, <1>6 DEF SumsOf

\* A sum of so many, each at most so much.
LEMMA SumAtMost ==
  ASSUME NEW S, IsFiniteSet(S), NEW m \in Int, NEW f, Integral(f, S), \A x \in S : f[x] <= m
  PROVE  SumFunctionOnSet(f, S) <= m * Cardinality(S)
<1>1. PICK u, h : u = [x \in S |-> 1] /\ h = [x \in S |-> m]
  OBVIOUS
<1>2. Integral(u, S) /\ Integral(h, S) /\ \A x \in S : u[x] = 1 /\ h[x] = m * u[x]
  BY <1>1 DEF Integral
<1>3. SumFunctionOnSet(h, S) = m * SumFunctionOnSet(u, S)
  BY <1>2, SumScale
<1>4. SumFunctionOnSet(u, S) = Cardinality(S)
  BY <1>2, SumCount
<1>5. \A x \in S : f[x] <= h[x]
  BY <1>1
<1>6. SumFunctionOnSet(f, S) <= SumFunctionOnSet(h, S)
  BY <1>2, <1>5, SumMono
<1>7. QED
  BY <1>3, <1>4, <1>6

-----------------------------------------------------------------------------
(* Common multiples *)

Positive == Nat \ {0}

\* One step of a product.
MulOf(S) == [p \in S \X Positive |-> p[1] * p[2]]

Divides(x, n) == \E m \in Nat : n = x * m

LEMMA Regroup == \A a, b, c \in Int : a * (b * c) = b * (a * c)
OBVIOUS

LEMMA PositiveProduct == \A a, b \in Positive : a * b \in Positive
BY DEF Positive

\* The common multiple is a fold too.
LEMMA MultipleIs ==
  ASSUME NEW S, IsFiniteSet(S), NEW g, g \in [SUBSET S -> Positive], IsFold(g, S, 1, MulOf(S))
  PROVE  Multiple(S) = g[S]
<1> DEFINE Eq(h) == h = [s \in SUBSET S |-> IF s = {} THEN 1
                ELSE (CHOOSE x \in s : TRUE) * h[s \ {CHOOSE x \in s : TRUE}]]
<1>1. Eq(g)
  BY PickIn DEF IsFold, FoldStep, MulOf, Pick
<1>2. ASSUME NEW h, Eq(h)
      PROVE  h = g
  <2>1. OnSubsets(h, S) /\ OnSubsets(g, S)
    BY <1>2 DEF OnSubsets
  <2>2. ASSUME NEW s \in SUBSET S, SameBelow(g, h, s)
        PROVE  g[s] = h[s]
    <3>1. CASE s = {}
      BY <1>1, <1>2, <3>1
    <3>2. CASE s # {}
      <4>1. PICK p, u, v : p = Pick(s) /\ u = g[s \ {p}] /\ v = h[s \ {p}]
        OBVIOUS
      <4>2. u = v
        BY <2>2, <3>2, <4>1 DEF SameBelow
      <4>3. g[s] = p * u
        BY <1>1, <3>2, <4>1, Zenon DEF Pick
      <4>4. h[s] = p * v
        BY <1>2, <3>2, <4>1, Zenon DEF Pick
      <4>5. QED
        BY <4>2, <4>3, <4>4
    <3>3. QED
      BY <3>1, <3>2
  <2>3. g = h
    BY <2>1, <2>2, FoldsAgree
  <2>4. QED
    BY <2>3
<1>3. QED
  BY <1>1, <1>2 DEF Multiple, FoldSet, MapThenFoldSet

LEMMA MultipleFold ==
  ASSUME NEW S, IsFiniteSet(S), S \subseteq Positive
  PROVE  \E g \in [SUBSET S -> Positive] : IsFold(g, S, 1, MulOf(S)) /\ Multiple(S) = g[S]
<1>1. PICK step, V : step = MulOf(S) /\ V = Positive
  OBVIOUS
<1>2. Folds(1, step, S, V)
  <2>1. \A p \in S \X Positive : p[1] * p[2] \in Positive
    BY PositiveProduct
  <2>2. MulOf(S) \in [S \X Positive -> Positive] /\ 1 \in Positive
    BY <2>1 DEF MulOf, Positive
  <2>3. QED
    BY <1>1, <2>2 DEF Folds
<1>3. PICK g \in [SUBSET S -> V] : IsFold(g, S, 1, step)
  BY <1>2, FoldExists
<1>4. Multiple(S) = g[S]
  BY <1>1, <1>3, MultipleIs
<1>5. QED
  BY <1>1, <1>3, <1>4

\* It is positive, and everything in the set divides it.
LEMMA MultipleDivides ==
  ASSUME NEW S, IsFiniteSet(S), S \subseteq Positive
  PROVE  Multiple(S) \in Positive /\ \A x \in S : Divides(x, Multiple(S))
<1>1. PICK g \in [SUBSET S -> Positive] : IsFold(g, S, 1, MulOf(S)) /\ Multiple(S) = g[S]
  BY MultipleFold
<1>2. ASSUME NEW T \in SUBSET S, T # {}
      PROVE  Pick(T) \in T /\ g[T] = Pick(T) * g[T \ {Pick(T)}]
  BY <1>1, <1>2, PickIn DEF IsFold, FoldStep, MulOf
<1> DEFINE C == {T \in SUBSET S : \E x \in T : ~Divides(x, g[T])}
<1>3. ASSUME C # {} PROVE FALSE
  <2>1. PICK T \in C : \A U \in C : U \subseteq T => U = T
    <3>1. C \subseteq SUBSET S
      OBVIOUS
    <3> HIDE DEF C
    <3>2. QED
      BY <1>3, <3>1, LeastSet
  <2>2. PICK x \in T : ~Divides(x, g[T])
    BY <2>1
  <2>3. PICK p : p = Pick(T) /\ p \in T /\ g[T] = p * g[T \ {p}]
    BY <1>2, <2>1, <2>2
  <2>4. g[T \ {p}] \in Nat /\ p \in Nat /\ x \in Nat
    BY <1>1, <2>1, <2>2, <2>3 DEF Positive
  <2>5. x # p
    BY <2>2, <2>3, <2>4 DEF Divides
  <2>6. Divides(x, g[T \ {p}])
    BY <2>1, <2>2, <2>3, <2>5
  <2>7. PICK m \in Nat : g[T \ {p}] = x * m
    BY <2>6 DEF Divides
  <2>8. g[T] = x * (p * m) /\ p * m \in Nat
    BY <2>3, <2>4, <2>7, Regroup
  <2>9. QED
    BY <2>2, <2>8 DEF Divides
<1>4. QED
  BY <1>1, <1>3

LEMMA MultipleOfOne ==
  ASSUME NEW x \in Positive
  PROVE  Multiple({x}) = x
<1>1. IsFiniteSet({x})
  BY FS_Singleton
<1>2. PICK g \in [SUBSET {x} -> Positive] : IsFold(g, {x}, 1, MulOf({x})) /\ Multiple({x}) = g[{x}]
  BY <1>1, MultipleFold
<1>3. Pick({x}) = x
  BY PickIn
<1>4. g[{}] = 1
  BY <1>2 DEF IsFold, FoldStep
<1>5. g[{x}] = MulOf({x})[<<x, g[{}]>>]
  <2>1. {x} \ {x} = {} /\ {x} # {}
    OBVIOUS
  <2>2. QED
    BY <1>2, <1>3, <2>1 DEF IsFold, FoldStep
<1>6. MulOf({x})[<<x, 1>>] = x * 1
  BY DEF MulOf, Positive
<1>7. QED
  BY <1>2, <1>4, <1>5, <1>6 DEF Positive

LEMMA Divided ==
  ASSUME NEW x \in Positive, NEW n \in Nat, Divides(x, n)
  PROVE  n \div x \in Nat /\ n = x * (n \div x)
<1>1. PICK m \in Nat : n = x * m
  BY DEF Divides
<1>2. n \div x = m
  BY <1>1 DEF Positive
<1>3. QED
  BY <1>1, <1>2

-----------------------------------------------------------------------------
(* Extremes, rounding and counts *)

\* Every finite set of numbers that is not empty has a greatest and a least.
LEMMA Greatest ==
  ASSUME NEW T, IsFiniteSet(T), T # {}, T \subseteq Int
  PROVE  Max(T) \in T /\ \A y \in T : y <= Max(T)
<1>1. PICK G : G = {U \in SUBSET T : U = {} \/ \E x \in U : \A y \in U : x >= y}
  OBVIOUS
<1>2. ASSUME NEW U \in SUBSET T, NEW x \in U, U \ {x} \in G
      PROVE  U \in G
  <2>1. CASE U = {x}
    BY <1>1, <2>1
  <2>2. CASE U # {x}
    <3>1. PICK z \in U \ {x} : \A y \in U \ {x} : z >= y
      BY <1>1, <1>2, <2>2
    <3>2. CASE x >= z
      BY <1>1, <3>1, <3>2
    <3>3. CASE ~(x >= z)
      BY <1>1, <3>1, <3>3
    <3>4. QED
      BY <3>2, <3>3
  <2>3. QED
    BY <2>1, <2>2
<1>3. Grows(G, T)
  BY <1>1, <1>2 DEF Grows
<1>4. T \in G
  BY <1>3, SetInduction
<1>5. \E x \in T : \A y \in T : x >= y
  BY <1>1, <1>4
<1>6. Max(T) \in T /\ \A y \in T : Max(T) >= y
  BY <1>5 DEF Max
<1>7. QED
  BY <1>6

LEMMA Least ==
  ASSUME NEW T, IsFiniteSet(T), T # {}, T \subseteq Int
  PROVE  Min(T) \in T /\ \A y \in T : Min(T) <= y
<1>1. PICK G : G = {U \in SUBSET T : U = {} \/ \E x \in U : \A y \in U : x <= y}
  OBVIOUS
<1>2. ASSUME NEW U \in SUBSET T, NEW x \in U, U \ {x} \in G
      PROVE  U \in G
  <2>1. CASE U = {x}
    BY <1>1, <2>1
  <2>2. CASE U # {x}
    <3>1. PICK z \in U \ {x} : \A y \in U \ {x} : z <= y
      BY <1>1, <1>2, <2>2
    <3>2. CASE x <= z
      BY <1>1, <3>1, <3>2
    <3>3. CASE ~(x <= z)
      BY <1>1, <3>1, <3>3
    <3>4. QED
      BY <3>2, <3>3
  <2>3. QED
    BY <2>1, <2>2
<1>3. Grows(G, T)
  BY <1>1, <1>2 DEF Grows
<1>4. T \in G
  BY <1>3, SetInduction
<1>5. \E x \in T : \A y \in T : x <= y
  BY <1>1, <1>4
<1>6. QED
  BY <1>5 DEF Min

\* The greater and the less of two.
LEMMA OfTwo ==
  ASSUME NEW a \in Int, NEW b \in Int
  PROVE  /\ Max({a, b}) = IF a >= b THEN a ELSE b
         /\ Min({a, b}) = IF a <= b THEN a ELSE b
<1>1. Max({a, b}) \in {a, b} /\ Max({a, b}) >= a /\ Max({a, b}) >= b
  <2>1. \E x \in {a, b} : \A y \in {a, b} : x >= y
    OBVIOUS
  <2>2. QED
    BY <2>1 DEF Max
<1>2. Min({a, b}) \in {a, b} /\ Min({a, b}) <= a /\ Min({a, b}) <= b
  <2>1. \E x \in {a, b} : \A y \in {a, b} : x <= y
    OBVIOUS
  <2>2. QED
    BY <2>1 DEF Min
<1>3. QED
  BY <1>1, <1>2

LEMMA TimesMono == \A a, b \in Int : \A c \in Nat : a <= b => a * c <= b * c /\ c * a <= c * b
OBVIOUS

LEMMA TimesNat == \A a, b \in Nat : a * b \in Nat
OBVIOUS

\* Rounding keeps the order, and what lies between two integers there.
LEMMA TenthsMono ==
  ASSUME NEW n \in Int, NEW m \in Int, NEW d \in Positive, n <= m
  PROVE  Tenths(n, d) \in Int /\ Tenths(n, d) <= Tenths(m, d)
BY DEF Tenths, Positive

LEMMA TenthsBetween ==
  ASSUME NEW n \in Int, NEW d \in Positive, NEW lo \in Int, NEW hi \in Int,
         lo * d <= 10 * n, 10 * n <= hi * d
  PROVE  Tenths(n, d) \in lo..hi
<1>1. 20 * n + d \in Int /\ 2 * d \in Positive
  BY DEF Positive
<1>2. (2 * d) * lo = 2 * (lo * d) /\ (2 * d) * hi = 2 * (hi * d)
  BY DEF Positive
<1>3. (2 * d) * lo <= 20 * n + d /\ 20 * n + d < (2 * d) * hi + 2 * d
  BY <1>2 DEF Positive
<1>4. PICK a, b : a = 20 * n + d /\ b = 2 * d
  OBVIOUS
<1>5. a \in Int /\ b \in Positive /\ b * lo <= a /\ a < b * hi + b
  BY <1>1, <1>3, <1>4
<1>6. a \div b \in Int /\ lo <= a \div b /\ a \div b <= hi
  BY <1>5 DEF Positive
<1>7. QED
  BY <1>4, <1>6 DEF Tenths

\* Tenths of a hundred points.
Points == {x \in Nat : x <= 1000}

\* A fraction of at most a hundred is rounded to at most a thousand tenths.
LEMMA TenthsIn ==
  \A n \in Nat : \A d \in Positive : n <= 100 * d => Tenths(n, d) \in Points
<1> SUFFICES ASSUME NEW n \in Nat, NEW d \in Positive, n <= 100 * d
             PROVE  Tenths(n, d) \in Points
  OBVIOUS
<1>1. PICK lo, hi : lo = 0 /\ hi = 1000
  OBVIOUS
<1>2. lo * d <= 10 * n /\ 10 * n <= hi * d
  BY <1>1 DEF Positive
<1>3. n \in Int /\ d \in Positive /\ lo \in Int /\ hi \in Int
  BY <1>1
<1>4. Tenths(n, d) \in lo..hi
  BY <1>2, <1>3, TenthsBetween
<1>5. \A t : t \in lo..hi => t \in Points
  BY <1>1 DEF Points
<1>6. QED
  BY <1>4, <1>5

\* A part of a finite set is finite, and not larger.
LEMMA CountIn ==
  ASSUME NEW S, IsFiniteSet(S), NEW T, T \subseteq S
  PROVE  /\ IsFiniteSet(T) /\ Cardinality(T) \in Nat /\ Cardinality(S) \in Nat
         /\ Cardinality(T) <= Cardinality(S)
         /\ (S # {} <=> Cardinality(S) \in Positive)
BY FS_Subset, FS_CardinalityType, FS_EmptySet DEF Positive

LEMMA ImageIsFinite ==
  ASSUME NEW S, IsFiniteSet(S), NEW f
  PROVE  IsFiniteSet({f[x] : x \in S})
<1>1. PICK h : h = [x \in S |-> f[x]]
  OBVIOUS
<1>2. h \in Surjection(S, {f[x] : x \in S})
  BY <1>1 DEF Surjection
<1>3. QED
  BY <1>2, FS_Surjection

\* The k-th of finitely many numbers is one of them.
LEMMA NthIn ==
  ASSUME NEW S, IsFiniteSet(S), NEW f, Integral(f, S), NEW k \in Nat, k < Cardinality(S)
  PROVE  Nth(f, S, k) \in Int
<1>1. PICK V : V = {f[x] : x \in S}
  OBVIOUS
<1>2. IsFiniteSet(V) /\ V \subseteq Int
  BY <1>1, ImageIsFinite DEF Integral
<1>3. S # {} /\ V # {}
  BY <1>1, CountIn, FS_EmptySet
<1>4. PICK A : A = {v \in V : Cardinality({x \in S : f[x] <= v}) > k}
  OBVIOUS
<1>5. Max(V) \in A
  <2>1. Max(V) \in V /\ \A v \in V : v <= Max(V)
    BY <1>2, <1>3, Greatest
  <2>2. {x \in S : f[x] <= Max(V)} = S
    BY <1>1, <2>1
  <2>3. QED
    BY <1>4, <2>1, <2>2, CountIn
<1>6. IsFiniteSet(A) /\ A \subseteq Int
  BY <1>2, <1>4, FS_Subset
<1>7. PICK v : v = Min(A)
  OBVIOUS
<1>8. v \in A /\ \A w \in A : v <= w
  BY <1>5, <1>6, <1>7, Least
<1>9. Cardinality({x \in S : f[x] < v}) <= k
  <2>1. PICK B : B = {w \in V : w < v}
    OBVIOUS
  <2>2. CASE B = {}
    <3>1. {x \in S : f[x] < v} = {}
      BY <1>1, <2>1, <2>2
    <3>2. QED
      BY <3>1, FS_EmptySet
  <2>3. CASE B # {}
    <3>1. PICK w : w = Max(B)
      OBVIOUS
    <3>2. IsFiniteSet(B) /\ B \subseteq Int
      BY <1>2, <2>1, FS_Subset
    <3>3. w \in B /\ \A u \in B : u <= w
      BY <2>3, <3>1, <3>2, Greatest
    <3>4. w \notin A /\ w \in V /\ w < v
      BY <1>4, <1>6, <1>8, <2>1, <3>3
    <3>5. {x \in S : f[x] < v} = {x \in S : f[x] <= w}
      <4>1. ASSUME NEW x \in S
            PROVE  f[x] < v <=> f[x] <= w
        <5>1. f[x] \in V /\ f[x] \in Int /\ v \in Int /\ w \in Int
          BY <1>1, <1>6, <1>8, <3>2, <3>3 DEF Integral
        <5>2. QED
          BY <2>1, <3>3, <3>4, <5>1
      <4>2. QED
        BY <4>1
    <3>6. Cardinality({x \in S : f[x] <= w}) \in Nat
      BY CountIn
    <3>7. QED
      BY <1>4, <3>4, <3>5, <3>6
  <2>4. QED
    BY <2>2, <2>3
<1>10. \E u \in V : /\ Cardinality({x \in S : f[x] < u}) <= k
                    /\ Cardinality({x \in S : f[x] <= u}) > k
  BY <1>4, <1>8, <1>9
<1>11. Nth(f, S, k) \in V
  BY <1>1, <1>10 DEF Nth
<1>12. QED
  BY <1>2, <1>11

\* The median of finitely many numbers is one.
LEMMA Median2In ==
  ASSUME NEW S, IsFiniteSet(S), NEW f, Integral(f, S)
  PROVE  Median2(f, S) \in Int
<1>1. CASE S = {}
  BY <1>1 DEF Median2, None
<1>2. CASE S # {}
  <2>1. PICK n : n = Cardinality(S)
    OBVIOUS
  <2>2. n \in Positive
    BY <1>2, <2>1, CountIn
  <2>3. /\ (n - 1) \div 2 \in Nat /\ (n - 1) \div 2 < n
        /\ n \div 2 \in Nat /\ n \div 2 < n
    BY <2>2 DEF Positive
  <2>4. Nth(f, S, (n - 1) \div 2) \in Int /\ Nth(f, S, n \div 2) \in Int
    BY <2>1, <2>3, NthIn
  <2>5. QED
    BY <1>2, <2>1, <2>4 DEF Median2
<1>3. QED
  BY <1>1, <1>2

-----------------------------------------------------------------------------
(* Weighted averages *)

\* What a part or a score of the board may be.
Score == {None} \cup Points

\* A part of a weighted average: nothing, or a fraction.
Part(x) == x = NoFrac \/ (x.n \in Nat /\ x.d \in Positive)

\* A fraction of at most a hundred.
Capped(x) == x.n \in Nat /\ x.d \in Positive /\ x.n <= 100 * x.d

\* A known part is at most a hundred after it is clamped.
LEMMA ClampedIn ==
  ASSUME NEW x, Part(x), x # NoFrac
  PROVE  Capped(Clamped(x))
<1>1. CASE x.n > 100 * x.d
  <2>1. Clamped(x) = [n |-> 100, d |-> 1]
    BY <1>1 DEF Clamped, Frac
  <2>2. QED
    BY <2>1 DEF Capped, Positive
<1>2. CASE ~(x.n > 100 * x.d)
  <2>1. Clamped(x) = x
    BY <1>2 DEF Clamped
  <2>2. QED
    BY <1>2, <2>1 DEF Capped, Part, Positive
<1>3. QED
  BY <1>1, <1>2

\* So is its share of the average, in the common denominator.
LEMMA TermIn ==
  ASSUME NEW x, Capped(x), NEW w \in Nat, NEW D \in Positive, Divides(x.d, D)
  PROVE  w * x.n * (D \div x.d) \in Nat /\ w * x.n * (D \div x.d) <= 100 * D * w
<1>1. PICK n, d, q : n = x.n /\ d = x.d /\ q = D \div x.d
  OBVIOUS
<1>2. n \in Nat /\ d \in Positive /\ n <= 100 * d
  BY <1>1 DEF Capped
<1>3. q \in Nat /\ D = d * q
  BY <1>1, <1>2, Divided DEF Positive
<1>4. n * q \in Nat /\ w * n \in Nat /\ (w * n) * q = w * (n * q)
  BY <1>2, <1>3
<1>5. n * q <= (100 * d) * q /\ (100 * d) * q = 100 * D
  BY <1>2, <1>3 DEF Positive
<1>6. w * (n * q) <= w * (100 * D)
  BY <1>3, <1>4, <1>5, TimesMono DEF Positive
<1>7. (w * n) * q \in Nat
  BY <1>3, <1>4, TimesNat
<1>8. w * (100 * D) = 100 * D * w
  BY DEF Positive
<1>9. QED
  BY <1>1, <1>4, <1>6, <1>7, <1>8

\* The average of parts of at most a hundred is a score, or nothing.
LEMMA OverIn ==
  ASSUME NEW K, IsFiniteSet(K), NEW part, \A k \in K : Capped(part[k]),
         NEW weights, \A k \in K : weights[k] \in Nat,
         NEW D \in Positive, \A k \in K : Divides(part[k].d, D)
  PROVE  Over(part, K, weights, D, SumFunctionOnSet(weights, K)) \in Score
<1>1. PICK used : used = SumFunctionOnSet(weights, K)
  OBVIOUS
<1>2. used \in Nat
  BY <1>1, SumNat
<1>3. CASE used = 0
  BY <1>1, <1>3 DEF Over, Score
<1>4. CASE used # 0
  <2>1. PICK term, whole :
          /\ term = [k \in K |-> weights[k] * part[k].n * (D \div part[k].d)]
          /\ whole = [k \in K |-> 100 * D * weights[k]]
    OBVIOUS
  <2>2. \A k \in K : term[k] \in Nat /\ term[k] <= whole[k]
    BY <2>1, TermIn
  <2>3. SumFunctionOnSet(term, K) \in Nat
    BY <2>2, SumNat
  <2>4. 100 * D \in Int
    BY DEF Positive
  <2>5. Integral(weights, K) /\ Integral(term, K) /\ Integral(whole, K)
    BY <2>1, <2>2, <2>4 DEF Integral
  <2>6. SumFunctionOnSet(whole, K) = (100 * D) * used
    BY <1>1, <2>1, <2>4, <2>5, SumScale
  <2>7. SumFunctionOnSet(term, K) <= SumFunctionOnSet(whole, K)
    BY <2>2, <2>5, SumMono
  <2>8. D * used \in Positive /\ (100 * D) * used = 100 * (D * used)
    BY <1>2, <1>4, PositiveProduct DEF Positive
  <2>9. Tenths(SumFunctionOnSet(term, K), D * used) \in Points
    <3>1. PICK n, d : n = SumFunctionOnSet(term, K) /\ d = D * used
      OBVIOUS
    <3>2. n \in Nat /\ d \in Positive /\ n <= 100 * d
      BY <2>3, <2>6, <2>7, <2>8, <3>1
    <3>3. Tenths(n, d) \in Points
      BY <3>2, TenthsIn
    <3>4. QED
      BY <3>1, <3>3
  <2>10. QED
    BY <1>1, <1>4, <2>1, <2>9 DEF Over, Score
<1>5. QED
  BY <1>3, <1>4

\* A weighted average of what is known is a score, or nothing.
LEMMA WeightedIn ==
  ASSUME NEW parts, NEW weights, IsFiniteSet(DOMAIN parts),
         \A k \in DOMAIN parts : Part(parts[k]) /\ weights[k] \in Nat
  PROVE  Weighted(parts, weights) \in Score
<1>1. PICK K, part : K = Known(parts) /\ part = [k \in K |-> Clamped(parts[k])]
  OBVIOUS
<1>2. K \subseteq DOMAIN parts /\ \A k \in K : parts[k] # NoFrac
  BY <1>1 DEF Known
<1>3. \A k \in K : part[k] = Clamped(parts[k]) /\ Capped(part[k])
  BY <1>1, <1>2, ClampedIn
<1>4. IsFiniteSet(K)
  BY <1>2, FS_Subset
<1>5. PICK ds : ds = {Clamped(parts[k]).d : k \in K}
  OBVIOUS
<1>6. IsFiniteSet(ds) /\ ds \subseteq Positive
  <2>1. PICK d : d = [k \in K |-> Clamped(parts[k]).d]
    OBVIOUS
  <2>2. ds = {d[k] : k \in K}
    BY <1>5, <2>1
  <2>3. IsFiniteSet({d[k] : k \in K})
    BY <1>4, ImageIsFinite
  <2>4. QED
    BY <1>3, <1>5, <2>2, <2>3 DEF Capped
<1>7. PICK D : D = Multiple(ds)
  OBVIOUS
<1>8. D \in Positive /\ \A k \in K : Divides(part[k].d, D)
  BY <1>3, <1>5, <1>6, <1>7, MultipleDivides
<1>9. Over(part, K, weights, D, SumFunctionOnSet(weights, K)) \in Score
  BY <1>2, <1>3, <1>4, <1>8, OverIn
<1>10. QED
  BY <1>1, <1>5, <1>7, <1>9 DEF Weighted, WeightedOver

\* A mean of marks.
LEMMA MeanIn ==
  ASSUME NEW S, IsFiniteSet(S), NEW f, \A x \in S : f[x] \in Marked
  PROVE  /\ Part(Mean(f, S))
         /\ Mean(f, S) # NoFrac => Capped(Mean(f, S))
<1>1. PICK T : T = {x \in S : f[x] # None}
  OBVIOUS
<1>2. IsFiniteSet(T) /\ \A x \in T : f[x] \in 0..100
  BY <1>1, FS_Subset DEF Marked
<1>3. CASE T = {}
  BY <1>1, <1>3 DEF Mean, MeanOver, Part
<1>4. CASE T # {}
  <2>1. PICK n, d : n = SumFunctionOnSet(f, T) /\ d = Cardinality(T)
    OBVIOUS
  <2>2. d \in Positive
    BY <1>2, <1>4, <2>1, CountIn
  <2>3. n \in Nat
    BY <1>2, <2>1, SumNat
  <2>4. Integral(f, T) /\ \A x \in T : f[x] <= 100
    BY <1>2 DEF Integral
  <2>5. n <= 100 * d
    BY <1>2, <2>1, <2>4, SumAtMost
  <2>6. Mean(f, S) = [n |-> n, d |-> d]
    BY <1>1, <1>4, <2>1 DEF Mean, MeanOver, Frac
  <2>7. QED
    BY <2>2, <2>3, <2>5, <2>6 DEF Part, Capped
<1>5. QED
  BY <1>3, <1>4

\* A share is a part.
LEMMA PctIn == ASSUME NEW n \in Nat, NEW d \in Nat PROVE Part(Pct(n, d))
<1>1. CASE d > 0
  <2>1. Pct(n, d) = [n |-> 100 * n, d |-> d]
    BY <1>1 DEF Pct, Frac
  <2>2. QED
    BY <1>1, <2>1 DEF Part, Positive
<1>2. CASE ~(d > 0)
  <2>1. Pct(n, d) = [n |-> 0, d |-> 1]
    BY <1>2 DEF Pct, Frac
  <2>2. QED
    BY <2>1 DEF Part, Positive
<1>3. QED
  BY <1>1, <1>2

\* A score is a part, and nothing stays nothing.
LEMMA OfTenthsIn ==
  ASSUME NEW t \in Score
  PROVE  /\ Part(OfTenths(t)) /\ (OfTenths(t) = NoFrac <=> t = None)
         /\ t # None => /\ OfTenths(t) = [n |-> t, d |-> 10]
                        /\ Clamped(OfTenths(t)) = [n |-> t, d |-> 10]
<1>1. CASE t = None
  BY <1>1 DEF OfTenths, Part
<1>2. CASE t # None
  <2>1. t \in Points
    BY <1>2 DEF Score, Points
  <2>2. OfTenths(t) = [n |-> t, d |-> 10]
    BY <1>2 DEF OfTenths, Frac
  <2>3. NoFrac.d = 1 /\ OfTenths(t).d = 10
    BY <2>2 DEF NoFrac, Frac
  <2>4. Clamped([n |-> t, d |-> 10]) = [n |-> t, d |-> 10]
    BY <2>1 DEF Clamped, Points
  <2>5. QED
    BY <1>2, <2>1, <2>2, <2>3, <2>4 DEF Part, Positive, Points
<1>3. QED
  BY <1>1, <1>2

-----------------------------------------------------------------------------
(* What findings cost *)

\* The bands of the severities go up.
LEMMA BandIn ==
  ASSUME NEW s \in Severities
  PROVE  Band[s][1] \in Nat /\ Band[s][2] \in Nat /\ Band[s][1] <= Band[s][2]
BY DEF Severities, Band

\* A confidence.
Percent == 0..100

LEMMA WidthIn == ASSUME NEW floor \in Percent PROVE Width(floor) \in Positive
<1>1. Max({1, 100 - floor}) = IF 1 >= 100 - floor THEN 1 ELSE 100 - floor
  BY OfTwo DEF Percent
<1>2. QED
  BY <1>1 DEF Width, Percent, Positive

LEMMA SureIn ==
  ASSUME NEW f, f.confidence \in Percent
  PROVE  Sure(f) \in Percent /\ f.confidence <= Sure(f)
BY DEF Sure, Percent

\* The surer the AI is of a finding, the more it costs.
LEMMA InBandMono ==
  ASSUME NEW s \in Severities, NEW floor \in Percent, NEW a \in Percent, NEW b \in Percent,
         floor <= a, a <= b
  PROVE  /\ InBand(Band[s], a, floor) \in Nat
         /\ InBand(Band[s], b, floor) \in Nat
         /\ InBand(Band[s], a, floor) <= InBand(Band[s], b, floor)
<1>1. PICK lo, more, w : lo = Band[s][1] /\ more = Band[s][2] - Band[s][1] /\ w = Width(floor)
  OBVIOUS
<1>2. lo \in Nat /\ more \in Nat /\ w \in Nat
  BY <1>1, BandIn, WidthIn DEF Positive
<1>3. a - floor \in Nat /\ b - floor \in Nat /\ a - floor <= b - floor
  BY DEF Percent
<1>4. more * (a - floor) \in Nat /\ more * (b - floor) \in Nat
      /\ more * (a - floor) <= more * (b - floor) /\ lo * w \in Nat
  BY <1>2, <1>3, TimesMono, TimesNat
<1>5. /\ InBand(Band[s], a, floor) = lo * w + more * (a - floor)
      /\ InBand(Band[s], b, floor) = lo * w + more * (b - floor)
  BY <1>1 DEF InBand
<1>6. QED
  BY <1>4, <1>5

\* A finding with the verdict on it.
Found(f) == f.severity \in Severities /\ f.confidence \in Percent

\* A finding never adds points.
LEMMA DeductionIn ==
  ASSUME NEW f, Found(f), NEW floor \in Percent
  PROVE  Deduction(f, floor) \in Nat
<1>1. CASE f.status = "rejected" \/ Sure(f) < floor
  BY <1>1 DEF Deduction
<1>2. CASE ~(f.status = "rejected" \/ Sure(f) < floor)
  <2>1. Sure(f) \in Percent /\ floor <= Sure(f)
    BY <1>2, SureIn DEF Found, Percent
  <2>2. PICK s, b : s = f.severity /\ b = Sure(f)
    OBVIOUS
  <2>3. s \in Severities /\ b \in Percent /\ floor <= b /\ b <= b
    BY <2>1, <2>2 DEF Found, Percent
  <2>4. InBand(Band[s], b, floor) \in Nat
    BY <2>3, InBandMono
  <2>5. QED
    BY <1>2, <2>2, <2>4 DEF Deduction
<1>3. QED
  BY <1>1, <1>2

\* The points left by so much of them deducted.
Left(floor, total) == Tenths(Max({0, 100 * Width(floor) - total}), Width(floor))

\* The more is deducted, the less is left, within its hundred points.
LEMMA LeftMono ==
  ASSUME NEW floor \in Percent, NEW a \in Nat, NEW b \in Nat, a <= b
  PROVE  Left(floor, a) \in Points /\ Left(floor, b) \in Points /\ Left(floor, b) <= Left(floor, a)
<1>1. PICK w : w = Width(floor) /\ w \in Positive
  BY WidthIn
<1>2. PICK x, y : x = Max({0, 100 * w - a}) /\ y = Max({0, 100 * w - b})
  OBVIOUS
<1>3. 100 * w - a \in Int /\ 100 * w - b \in Int
  BY <1>1 DEF Positive
<1>4. /\ x = IF 0 >= 100 * w - a THEN 0 ELSE 100 * w - a
      /\ y = IF 0 >= 100 * w - b THEN 0 ELSE 100 * w - b
  BY <1>2, <1>3, OfTwo
<1>5. x \in Nat /\ y \in Nat /\ x <= 100 * w /\ y <= 100 * w /\ y <= x
  BY <1>1, <1>4 DEF Positive
<1>6. Tenths(x, w) \in Points /\ Tenths(y, w) \in Points
  BY <1>1, <1>5, TenthsIn
<1>7. Tenths(y, w) <= Tenths(x, w)
  BY <1>1, <1>5, TenthsMono
<1>8. QED
  BY <1>1, <1>2, <1>6, <1>7 DEF Left

\* The score of some findings is what their sum leaves.
LEMMA ComplianceScoreIs ==
  ASSUME NEW table, NEW S, IsFiniteSet(S), \A x \in S : Found(table[x]), NEW floor \in Percent
  PROVE  \E d : /\ d = [x \in S |-> Deduction(table[x], floor)]
                /\ Integral(d, S) /\ SumFunctionOnSet(d, S) \in Nat
                /\ complianceScore(table, S, floor) = Left(floor, SumFunctionOnSet(d, S))
<1>1. PICK d : d = [x \in S |-> Deduction(table[x], floor)]
  OBVIOUS
<1>2. \A x \in S : d[x] \in Nat
  BY <1>1, DeductionIn
<1>3. Integral(d, S) /\ SumFunctionOnSet(d, S) \in Nat
  BY <1>2, SumNat DEF Integral
<1>4. complianceScore(table, S, floor) = Left(floor, SumFunctionOnSet(d, S))
  BY <1>1 DEF complianceScore, Left
<1>5. QED
  BY <1>1, <1>3, <1>4

\* The less the findings cost, the better the score.
LEMMA ComplianceScoreMono ==
  ASSUME NEW table, NEW other, NEW S, IsFiniteSet(S), NEW floor \in Percent,
         \A x \in S : /\ Found(table[x]) /\ Found(other[x])
                      /\ Deduction(other[x], floor) <= Deduction(table[x], floor)
  PROVE  /\ complianceScore(table, S, floor) \in Points
         /\ complianceScore(other, S, floor) \in Points
         /\ complianceScore(table, S, floor) <= complianceScore(other, S, floor)
<1>1. PICK d : /\ d = [x \in S |-> Deduction(table[x], floor)]
               /\ Integral(d, S) /\ SumFunctionOnSet(d, S) \in Nat
               /\ complianceScore(table, S, floor) = Left(floor, SumFunctionOnSet(d, S))
  BY ComplianceScoreIs
<1>2. PICK o : /\ o = [x \in S |-> Deduction(other[x], floor)]
               /\ Integral(o, S) /\ SumFunctionOnSet(o, S) \in Nat
               /\ complianceScore(other, S, floor) = Left(floor, SumFunctionOnSet(o, S))
  BY ComplianceScoreIs
<1>3. \A x \in S : o[x] <= d[x]
  BY <1>1, <1>2
<1>4. SumFunctionOnSet(o, S) <= SumFunctionOnSet(d, S)
  BY <1>1, <1>2, <1>3, SumMono
<1>5. QED
  BY <1>1, <1>2, <1>4, LeftMono

-----------------------------------------------------------------------------
(* Compliance: no worse for findings that cost less *)

\* The average of scores keeps their order.
LEMMA AverageMono ==
  ASSUME NEW a \in Nat, NEW b \in Nat, NEW n \in Positive, a <= b, b <= 1000 * n
  PROVE  Average(a, n) \in Points /\ Average(b, n) \in Points /\ Average(a, n) <= Average(b, n)
<1>1. PICK x, y, m : x = 2 * a + n /\ y = 2 * b + n /\ m = 2 * n
  OBVIOUS
<1>2. x \in Nat /\ y \in Nat /\ m \in Nat \ {0} /\ x <= y /\ y < m * 1001
  BY <1>1 DEF Positive
<1>3. x \div m \in Nat /\ y \div m \in Nat /\ x \div m <= y \div m /\ y \div m <= 1000
  BY <1>2
<1>4. Average(a, n) = x \div m /\ Average(b, n) = y \div m
  BY <1>1 DEF Average
<1>5. QED
  BY <1>3, <1>4 DEF Points

\* More for the same: nothing stays nothing.
NoLess(a, b) == a \in Score /\ b \in Score /\ (a = None <=> b = None) /\ a <= b

LEMMA ScoreNumbers ==
  /\ Score \subseteq Int /\ Points \subseteq Nat /\ None \notin Points
  /\ Points \subseteq Score /\ None \in Score
BY DEF Score, Points, None

\* So does the lower of it and what the evaluations report.
LEMMA LowerOfMono ==
  ASSUME NEW found, NEW more, NoLess(found, more), NEW reported,
         reported = NoFrac \/ Capped(reported)
  PROVE  NoLess(LowerOf(found, reported), LowerOf(more, reported))
<1>1. CASE reported = NoFrac
  BY <1>1 DEF LowerOf
<1>2. CASE reported # NoFrac
  <2>1. PICK n, d, t : n = reported.n /\ d = reported.d /\ t = Tenths(n, d)
    OBVIOUS
  <2>2. n \in Nat /\ d \in Positive /\ n <= 100 * d
    BY <1>2, <2>1 DEF Capped
  <2>3. t \in Points
    BY <2>1, <2>2, TenthsIn
  <2>4. found \in Score /\ more \in Score /\ (found = None <=> more = None) /\ found <= more
    BY DEF NoLess
  <2>5. CASE found = None
    <3>1. LowerOf(found, reported) = t /\ LowerOf(more, reported) = t
      BY <1>2, <2>1, <2>4, <2>5 DEF LowerOf
    <3>2. QED
      BY <2>3, <3>1, ScoreNumbers DEF NoLess
  <2>6. CASE found # None
    <3>1. found \in Nat /\ more \in Nat /\ more # None /\ found \in Points /\ more \in Points
      BY <2>4, <2>6 DEF Score, Points
    <3>2. /\ LowerOf(found, reported) = IF found * d <= 10 * n THEN found ELSE t
          /\ LowerOf(more, reported) = IF more * d <= 10 * n THEN more ELSE t
      BY <1>2, <2>1, <2>6, <3>1 DEF LowerOf
    <3>3. found * d <= more * d
      BY <2>2, <2>4, <3>1, TimesMono DEF Positive
    <3>4. CASE more * d <= 10 * n
      <4>1. found * d <= 10 * n
        BY <2>2, <3>1, <3>3, <3>4 DEF Positive
      <4>2. QED
        BY <2>4, <3>2, <3>4, <4>1 DEF NoLess
    <3>5. CASE ~(more * d <= 10 * n) /\ found * d <= 10 * n
      <4>1. 10 * n <= (10 * n) * d /\ n \in Int /\ 1000 * d \in Int
        BY <2>2 DEF Positive
      <4>2. PICK lo, hi : lo = found /\ hi = 1000
        OBVIOUS
      <4>3. lo \in Int /\ hi \in Int /\ lo * d <= 10 * n /\ 10 * n <= hi * d
        BY <2>2, <3>1, <3>5, <4>2 DEF Positive
      <4>4. Tenths(n, d) \in lo..hi
        BY <2>2, <4>1, <4>3, TenthsBetween
      <4>5. found <= t
        BY <2>1, <4>2, <4>4
      <4>6. QED
        BY <2>3, <3>1, <3>2, <3>5, <4>5, ScoreNumbers DEF NoLess
    <3>6. CASE ~(more * d <= 10 * n) /\ ~(found * d <= 10 * n)
      BY <2>3, <3>2, <3>6, ScoreNumbers DEF NoLess
    <3>7. QED
      BY <3>4, <3>5, <3>6
  <2>7. QED
    BY <2>5, <2>6
<1>3. QED
  BY <1>1, <1>2

\* What was read of the same conversations and findings, with other verdicts on them.
ReadAlike(read, other) ==
  /\ read.past \in StoredPast /\ other.past = read.past
  /\ CalibrationOK(read.cal) /\ other.cal = read.cal
  /\ read.owner \in [Tables -> Owner] /\ other.owner = read.owner
  /\ read.issue \in [Findings -> Issue] /\ other.issue \in [Findings -> Issue]

\* Below it a finding costs nothing.
Floor(read) == read.cal.thresholds.issueConfidenceFloor

\* No finding of S costs more.
CheaperBy(other, read, S) ==
  \A x \in S : Deduction(Table(other)[x], Floor(read)) <= Deduction(Table(read)[x], Floor(read))

LEMMA FloorIn == ASSUME NEW read, CalibrationOK(read.cal) PROVE Floor(read) \in Percent
<1>1. InRange(read.cal.thresholds)
  BY DEF CalibrationOK
<1>2. \A t : InRange(t) => t.issueConfidenceFloor \in Percent
  BY DEF InRange, Percent
<1>3. QED
  BY <1>1, <1>2 DEF Floor

LEMMA TableIn ==
  ASSUME NEW read, NEW other, ReadAlike(read, other), NEW x \in Findings
  PROVE  Found(Table(read)[x]) /\ Found(Table(other)[x])
BY DEF ReadAlike, Table, Found, StoredPast, Issue, Percent

\* The score of some findings is no worse when they cost less.
LEMMA ComplianceOfMono ==
  ASSUME NEW read, NEW other, ReadAlike(read, other), NEW S, S \subseteq Findings,
         CheaperBy(other, read, S)
  PROVE  /\ ComplianceOf(S, read) \in Points /\ ComplianceOf(S, other) \in Points
         /\ ComplianceOf(S, read) <= ComplianceOf(S, other)
<1>1. PICK table, o, floor : table = Table(read) /\ o = Table(other) /\ floor = Floor(read)
  OBVIOUS
<1>2. IsFiniteSet(S)
  BY FiniteAssumption, FS_Subset
<1>3. floor \in Percent
  BY <1>1, FloorIn DEF ReadAlike
<1>4. \A x \in S : /\ Found(table[x]) /\ Found(o[x])
                   /\ Deduction(o[x], floor) <= Deduction(table[x], floor)
  BY <1>1, TableIn DEF CheaperBy
<1>5. /\ ComplianceOf(S, read) = complianceScore(table, S, floor)
      /\ ComplianceOf(S, other) = complianceScore(o, S, floor)
  BY <1>1 DEF ComplianceOf, Floor, ReadAlike
<1>6. QED
  BY <1>2, <1>3, <1>4, <1>5, ComplianceScoreMono

\* Nor is the average over the conversations, or the score of all of them.
LEMMA FromIssuesMono ==
  ASSUME NEW read, NEW other, ReadAlike(read, other), NEW own, own \subseteq Findings,
         CheaperBy(other, read, own), NEW evals, IsFiniteSet(evals),
         NEW flagged, IsFiniteSet(flagged)
  PROVE  NoLess(FromIssues(own, evals, flagged, read), FromIssues(own, evals, flagged, other))
<1>1. CASE evals # {}
  <2>1. PICK a, b, n, k :
          /\ a = [c \in flagged |-> ComplianceOf({f \in own : read.past.finding[f].on = c}, read)]
          /\ b = [c \in flagged |-> ComplianceOf({f \in own : read.past.finding[f].on = c}, other)]
          /\ n = Cardinality(evals) /\ k = Cardinality(flagged)
    OBVIOUS
  <2>2. n \in Positive /\ k \in Nat
    BY <1>1, <2>1, CountIn
  <2>3. ASSUME NEW c \in flagged
        PROVE  a[c] \in Points /\ b[c] \in Points /\ a[c] <= b[c]
    <3>1. PICK S : S = {f \in own : read.past.finding[f].on = c}
      OBVIOUS
    <3>2. S \subseteq Findings /\ CheaperBy(other, read, S)
      BY <3>1 DEF CheaperBy
    <3>3. a[c] = ComplianceOf(S, read) /\ b[c] = ComplianceOf(S, other)
      BY <2>1, <3>1
    <3>4. QED
      BY <3>2, <3>3, ComplianceOfMono
  <2>4. \A c \in flagged : a[c] \in Nat /\ b[c] \in Nat /\ b[c] <= 1000
    BY <2>3 DEF Points
  <2>5. Integral(a, flagged) /\ Integral(b, flagged)
    BY <2>4 DEF Integral
  <2>6. PICK x, y : x = SumFunctionOnSet(a, flagged) /\ y = SumFunctionOnSet(b, flagged)
    OBVIOUS
  <2>7. x \in Nat /\ y \in Nat /\ x <= y
    BY <2>3, <2>4, <2>5, <2>6, SumNat, SumMono
  <2>8. y <= 1000 * k
    <3>1. PICK m : m = 1000
      OBVIOUS
    <3>2. m \in Int /\ \A c \in flagged : b[c] <= m
      BY <2>4, <3>1
    <3>3. SumFunctionOnSet(b, flagged) <= m * Cardinality(flagged)
      BY <2>5, <3>2, SumAtMost
    <3>4. QED
      BY <2>1, <2>6, <3>1, <3>3
  <2>9. PICK rest, most : rest = 1000 * Max({0, n - k}) /\ most = Max({n, k})
    OBVIOUS
  <2>10. rest \in Nat /\ most \in Positive /\ 1000 * k + rest = 1000 * most
    <3>1. n \in Int /\ k \in Int /\ n - k \in Int
      BY <2>2 DEF Positive
    <3>2. Max({0, n - k}) = (IF 0 >= n - k THEN 0 ELSE n - k) /\ most = IF n >= k THEN n ELSE k
      BY <2>9, <3>1, OfTwo
    <3>3. QED
      BY <2>2, <2>9, <3>2 DEF Positive
  <2>11. /\ FromIssues(own, evals, flagged, read) = Average(x + rest, most)
         /\ FromIssues(own, evals, flagged, other) = Average(y + rest, most)
    BY <1>1, <2>1, <2>6, <2>9 DEF FromIssues, ReadAlike
  <2>12. PICK p, q : p = x + rest /\ q = y + rest
    OBVIOUS
  <2>13. p \in Nat /\ q \in Nat /\ p <= q /\ q <= 1000 * most
    BY <2>7, <2>8, <2>10, <2>12, <2>2 DEF Positive
  <2>14. /\ Average(p, most) \in Points /\ Average(q, most) \in Points
         /\ Average(p, most) <= Average(q, most)
    BY <2>10, <2>13, AverageMono
  <2>15. QED
    BY <2>11, <2>12, <2>14, ScoreNumbers DEF NoLess
<1>2. CASE evals = {} /\ own # {}
  <2>1. PICK x, y : x = ComplianceOf(own, read) /\ y = ComplianceOf(own, other)
    OBVIOUS
  <2>2. x \in Points /\ y \in Points /\ x <= y
    BY <2>1, ComplianceOfMono
  <2>3. FromIssues(own, evals, flagged, read) = x /\ FromIssues(own, evals, flagged, other) = y
    BY <1>2, <2>1 DEF FromIssues
  <2>4. QED
    BY <2>2, <2>3, ScoreNumbers DEF NoLess
<1>3. CASE evals = {} /\ own = {}
  BY <1>3, ScoreNumbers DEF FromIssues, NoLess, None
<1>4. QED
  BY <1>1, <1>2, <1>3

\* What the evaluations say on average is a part, of at most a hundred.
LEMMA MarksIn ==
  ASSUME NEW read, read.past \in StoredPast, NEW evals, evals \subseteq Conversations,
         NEW what \in {"persuasion", "objection", "continuity", "professionalism", "nextStep",
                       "compliance"}
  PROVE  /\ Part(Marks(evals, what, read))
         /\ Marks(evals, what, read) # NoFrac => Capped(Marks(evals, what, read))
<1>1. PICK f : f = [c \in evals |-> read.past.mark[c][what]]
  OBVIOUS
<1>2. IsFiniteSet(evals)
  BY FiniteAssumption, FS_Subset
<1>3. \A c \in evals : f[c] \in Marked
  BY <1>1 DEF StoredPast
<1>4. Marks(evals, what, read) = Mean(f, evals)
  BY <1>1 DEF Marks
<1>5. QED
  BY <1>2, <1>3, <1>4, MeanIn

\* The score for compliance is no worse for findings that cost less.
LEMMA ComplianceMono ==
  ASSUME NEW read, NEW other, ReadAlike(read, other), NEW own, own \subseteq Findings,
         CheaperBy(other, read, own), NEW evals, evals \subseteq Conversations
  PROVE  NoLess(compliance(own, evals, read), compliance(own, evals, other))
<1>1. PICK flagged, reported :
        /\ flagged = {read.past.finding[f].on : f \in own}
        /\ reported = Mean([c \in evals |-> read.past.mark[c].compliance], evals)
  OBVIOUS
<1>2. IsFiniteSet(evals) /\ IsFiniteSet(own)
  BY FiniteAssumption, FS_Subset
<1>3. IsFiniteSet(flagged)
  <2>1. PICK on : on = [f \in own |-> read.past.finding[f].on]
    OBVIOUS
  <2>2. flagged = {on[f] : f \in own}
    BY <1>1, <2>1
  <2>3. IsFiniteSet({on[f] : f \in own})
    BY <1>2, ImageIsFinite
  <2>4. QED
    BY <2>2, <2>3
<1>4. reported = NoFrac \/ Capped(reported)
  <2>1. PICK what : what = "compliance"
    OBVIOUS
  <2>2. Marks(evals, what, read) = reported
    BY <1>1, <2>1 DEF Marks
  <2>3. read.past \in StoredPast
    BY DEF ReadAlike
  <2>4. QED
    BY <2>1, <2>2, <2>3, MarksIn
<1>5. PICK found, more : /\ found = FromIssues(own, evals, flagged, read)
                         /\ more = FromIssues(own, evals, flagged, other)
  OBVIOUS
<1>6. NoLess(found, more)
  BY <1>2, <1>3, <1>5, FromIssuesMono
<1>7. /\ compliance(own, evals, read) = LowerOf(found, reported)
      /\ compliance(own, evals, other) = LowerOf(more, reported)
  BY <1>1, <1>5 DEF compliance, ReadAlike
<1>8. QED
  BY <1>4, <1>6, <1>7, LowerOfMono

-----------------------------------------------------------------------------
(* The other parts *)

\* The other scores are scores, or nothing.
LEMMA ConversionScoreIn ==
  ASSUME NEW n \in Nat, NEW a \in Nat, NEW b \in Nat, NEW c \in Nat
  PROVE  conversionScore(n, a, b, c) \in Score
<1>1. CASE n = 0
  BY <1>1, ScoreNumbers DEF conversionScore
<1>2. CASE n # 0
  <2>1. PICK x, y, z : x = 100 * n /\ y = 60 * a + 25 * b + 15 * c /\ z = Min({x, y})
    OBVIOUS
  <2>2. x \in Nat /\ y \in Nat
    BY <2>1
  <2>3. z = IF x <= y THEN x ELSE y
    <3>1. x \in Int /\ y \in Int
      BY <2>2
    <3>2. Min({x, y}) = IF x <= y THEN x ELSE y
      BY <3>1, OfTwo
    <3>3. QED
      BY <2>1, <3>2
  <2>4. z \in Nat /\ z <= 100 * n /\ n \in Positive
    BY <1>2, <2>1, <2>2, <2>3 DEF Positive
  <2>5. Tenths(z, n) \in Points
    BY <2>4, TenthsIn
  <2>6. conversionScore(n, a, b, c) = Tenths(z, n)
    BY <1>2, <2>1 DEF conversionScore
  <2>7. QED
    BY <2>5, <2>6, ScoreNumbers
<1>3. QED
  BY <1>1, <1>2

LEMMA LateIn ==
  ASSUME NEW m \in Int, NEW sla \in Positive
  PROVE  Late(m, sla) \in Nat
<1>1. CASE m > 2 * sla
  <2>1. PICK x, y : x = 30 * sla /\ y = 10 * (m - 2 * sla)
    OBVIOUS
  <2>2. x \in Nat /\ y \in Nat
    BY <1>1, <2>1 DEF Positive
  <2>3. Min({x, y}) = IF x <= y THEN x ELSE y
    BY <2>2, OfTwo
  <2>4. QED
    BY <1>1, <2>1, <2>2, <2>3 DEF Late
<1>2. CASE ~(m > 2 * sla)
  BY <1>2 DEF Late
<1>3. QED
  BY <1>1, <1>2

LEMMA ResponseScoreIn ==
  ASSUME NEW n \in Nat, NEW within \in Nat, within <= n, NEW m \in Int, NEW sla \in Positive
  PROVE  responseScore(n, within, m, sla) \in Score
<1>1. CASE n = 0
  BY <1>1, ScoreNumbers DEF responseScore
<1>2. CASE n # 0
  <2>1. PICK late, all, x, d : /\ late = n * Late(m, sla) /\ all = 200 * within * sla
                               /\ x = Max({0, all - late}) /\ d = 2 * sla * n
    OBVIOUS
  <2>2. late \in Nat /\ n \in Positive
    BY <1>2, <2>1, LateIn, TimesNat DEF Positive
  <2>3. within * sla \in Nat /\ within * sla <= n * sla
    BY TimesNat, TimesMono DEF Positive
  <2>4. all \in Nat /\ all <= 100 * d
    <3>1. all = 200 * (within * sla) /\ 100 * d = 200 * (n * sla) /\ n * sla \in Nat
      BY <2>1, TimesNat DEF Positive
    <3>2. QED
      BY <2>3, <3>1
  <2>5. d \in Positive
    <3>1. 2 * sla \in Positive
      BY DEF Positive
    <3>2. QED
      BY <2>1, <2>2, <3>1, PositiveProduct
  <2>6. x = IF 0 >= all - late THEN 0 ELSE all - late
    BY <2>1, <2>2, <2>4, OfTwo
  <2>7. x \in Nat /\ x <= 100 * d
    BY <2>2, <2>4, <2>5, <2>6 DEF Positive
  <2>8. Tenths(x, d) \in Points
    BY <2>5, <2>7, TenthsIn
  <2>9. responseScore(n, within, m, sla) = Tenths(x, d)
    BY <1>2, <2>1 DEF responseScore
  <2>10. QED
    BY <2>8, <2>9, ScoreNumbers
<1>3. QED
  BY <1>1, <1>2

\* The minutes of the SLA are a positive number.
LEMMA SlaIn == ASSUME NEW c, CalibrationOK(c) PROVE c.thresholds.slaMinutes \in Positive
<1>1. Within(c.thresholds.slaMinutes, 1, 1440)
  BY DEF CalibrationOK, InRange
<1>2. \A x : Within(x, 1, 1440) => x \in Positive
  BY DEF Within, Positive
<1>3. QED
  BY <1>1, <1>2

LEMMA ResponseIn ==
  ASSUME NEW read, read.past \in StoredPast, CalibrationOK(read.cal),
         NEW inHours, inHours \subseteq Conversations, NEW timed, timed \subseteq inHours
  PROVE  response(inHours, timed, read.cal.thresholds.slaMinutes, read) \in Score
<1>1. PICK sla, f, n, within, m :
        /\ sla = read.cal.thresholds.slaMinutes
        /\ f = [c \in timed |-> read.past.fact[c].minutes]
        /\ n = Cardinality(inHours)
        /\ within = Cardinality({c \in timed : read.past.fact[c].minutes <= sla})
        /\ m = Median2(f, timed)
  OBVIOUS
<1>2. IsFiniteSet(inHours) /\ IsFiniteSet(timed)
  BY FiniteAssumption, FS_Subset
<1>3. n \in Nat /\ within \in Nat /\ within <= n
  <2>1. {c \in timed : read.past.fact[c].minutes <= sla} \subseteq inHours
    OBVIOUS
  <2>2. QED
    BY <1>1, <1>2, <2>1, CountIn
<1>4. Integral(f, timed)
  BY <1>1 DEF Integral, StoredPast
<1>5. m \in Int
  BY <1>1, <1>2, <1>4, Median2In
<1>6. sla \in Positive
  BY <1>1, SlaIn
<1>7. responseScore(n, within, m, sla) \in Score
  BY <1>3, <1>5, <1>6, ResponseScoreIn
<1>8. QED
  BY <1>1, <1>7 DEF response

LEMMA FourIsFinite == \A a, b, c, d : IsFiniteSet({a, b, c, d})
<1>1. TAKE a, b, c, d
<1>2. IsFiniteSet({a}) /\ IsFiniteSet({b}) /\ IsFiniteSet({c}) /\ IsFiniteSet({d})
  BY FS_Singleton
<1>3. IsFiniteSet({a} \cup {b}) /\ IsFiniteSet({c} \cup {d})
  BY <1>2, FS_Union
<1>4. IsFiniteSet(({a} \cup {b}) \cup ({c} \cup {d}))
  BY <1>3, FS_Union
<1>5. ({a} \cup {b}) \cup ({c} \cup {d}) = {a, b, c, d}
  OBVIOUS
<1>6. QED
  BY <1>4, <1>5

LEMMA CountOf ==
  ASSUME NEW S, S \subseteq Conversations, NEW what, NEW read
  PROVE  Count(S, what, read) \in Nat /\ Cardinality(S) \in Nat
<1>1. IsFiniteSet(S)
  BY FiniteAssumption, FS_Subset
<1>2. PICK T : T = {c \in S : read.past.mark[c][what]}
  OBVIOUS
<1>3. T \subseteq S
  BY <1>2
<1>4. QED
  BY <1>1, <1>2, <1>3, CountIn DEF Count

LEMMA ProductivityIn ==
  ASSUME NEW read, NEW wanted, wanted \subseteq Conversations,
         NEW evals, evals \subseteq Conversations,
         NEW responded \in Score
  PROVE  productivity(wanted, evals, responded, read) \in Score
<1>1. PICK leads, contacted, due, closed, n :
        /\ leads = Cardinality(wanted)
        /\ contacted = Cardinality({c \in wanted : read.past.fact[c].contacted})
        /\ due = Count(evals, "followUp", read) /\ closed = Count(evals, "closed", read)
        /\ n = Cardinality(evals)
  OBVIOUS
<1>2. due \in Nat /\ closed \in Nat /\ n \in Nat /\ leads \in Nat
  BY <1>1, CountOf
<1>3. contacted \in Nat
  <2>1. IsFiniteSet(wanted)
    BY FiniteAssumption, FS_Subset
  <2>2. {c \in wanted : read.past.fact[c].contacted} \subseteq wanted
    OBVIOUS
  <2>3. QED
    BY <1>1, <2>1, <2>2, CountIn
<1>4. PICK a, b, c, d :
        /\ a = Pct(contacted, leads) /\ b = OfTenths(responded)
        /\ c = IF due > 0 THEN Pct(closed, due) ELSE NoFrac
        /\ d = IF n > 0 THEN Pct(closed, n) ELSE NoFrac
  OBVIOUS
<1>5. Part(a) /\ Part(b) /\ Part(c) /\ Part(d)
  <2>1. Part(Pct(closed, due)) /\ Part(Pct(closed, n)) /\ Part(Pct(contacted, leads))
    BY <1>2, <1>3, PctIn
  <2>2. Part(NoFrac) /\ Part(OfTenths(responded))
    BY OfTenthsIn DEF Part
  <2>3. QED
    BY <1>4, <2>1, <2>2
<1>6. PICK parts :
        parts = [contactCompletion |-> a, responseTime |-> b, followUp |-> c, closure |-> d]
  OBVIOUS
<1>7. DOMAIN parts = {"contactCompletion", "responseTime", "followUp", "closure"}
  BY <1>6
<1>8. IsFiniteSet(DOMAIN parts)
  <2>1. IsFiniteSet({"contactCompletion", "responseTime", "followUp", "closure"})
    BY FourIsFinite
  <2>2. QED
    BY <1>7, <2>1
<1>9. \A k \in DOMAIN parts : Part(parts[k]) /\ ProductivityWeights[k] \in Nat
  BY <1>5, <1>6, <1>7 DEF ProductivityWeights
<1>10. PICK weights : weights = ProductivityWeights
  OBVIOUS
<1>11. Weighted(parts, weights) \in Score
  BY <1>8, <1>9, <1>10, WeightedIn
<1>12. QED
  BY <1>1, <1>4, <1>6, <1>10, <1>11 DEF productivity, productivityScore

LEMMA PersuasionIn ==
  ASSUME NEW read, read.past \in StoredPast, NEW evals, evals \subseteq Conversations
  PROVE  persuasion(evals, read) \in Score
<1>1. PICK parts, weights :
        /\ parts = [intentUnderstanding |-> Marks(evals, "persuasion", read),
                    answerRelevance |-> Marks(evals, "persuasion", read),
                    objectionHandling |-> Marks(evals, "objection", read),
                    continuity |-> Marks(evals, "continuity", read),
                    professionalism |-> Marks(evals, "professionalism", read),
                    nextStep |-> Marks(evals, "nextStep", read)]
        /\ weights = PersuasionWeights
  OBVIOUS
<1>2. DOMAIN parts = {"intentUnderstanding", "answerRelevance", "objectionHandling", "continuity"}
                       \cup {"professionalism", "nextStep", "nextStep", "nextStep"}
  BY <1>1
<1>3. IsFiniteSet(DOMAIN parts)
  <2>1. PICK A, B :
          /\ A = {"intentUnderstanding", "answerRelevance", "objectionHandling", "continuity"}
          /\ B = {"professionalism", "nextStep", "nextStep", "nextStep"}
    OBVIOUS
  <2>2. IsFiniteSet(A) /\ IsFiniteSet(B)
    BY <2>1, FourIsFinite
  <2>3. IsFiniteSet(A \cup B)
    BY <2>2, FS_Union
  <2>4. QED
    BY <1>2, <2>1, <2>3
<1>4. /\ Part(Marks(evals, "persuasion", read)) /\ Part(Marks(evals, "objection", read))
      /\ Part(Marks(evals, "continuity", read)) /\ Part(Marks(evals, "professionalism", read))
      /\ Part(Marks(evals, "nextStep", read))
  BY MarksIn
<1>5. \A k \in DOMAIN parts : Part(parts[k]) /\ weights[k] \in Nat
  BY <1>1, <1>2, <1>4 DEF PersuasionWeights
<1>6. Weighted(parts, weights) \in Score
  BY <1>3, <1>5, WeightedIn
<1>7. QED
  BY <1>1, <1>6 DEF persuasion

-----------------------------------------------------------------------------
(* The overall score *)

PartNames == {"persuasion", "conversion", "compliance", "productivity", "response"}

\* The five parts of a score, weighed.
Weighed(parts, weights) ==
  /\ DOMAIN parts = PartNames /\ \A k \in PartNames : parts[k] \in Score
  /\ \A k \in PartNames : weights[k] \in Nat

\* The parts there are.
Present(parts) == {k \in PartNames : parts[k] # None}

WeightedParts(parts, weights) == [k \in Present(parts) |-> weights[k] * parts[k]]

\* The parts are those that have a weight.
LEMMA PartNamesAreFinite == IsFiniteSet(PartNames) /\ DOMAIN Weights = PartNames
<1>1. PICK A, B :
        /\ A = {"persuasion", "conversion", "compliance", "productivity"} /\ B = {"response"}
  OBVIOUS
<1>2. IsFiniteSet(A) /\ IsFiniteSet(B)
  BY <1>1, FourIsFinite, FS_Singleton
<1>3. IsFiniteSet(A \cup B)
  BY <1>2, FS_Union
<1>4. PartNames = A \cup B
  BY <1>1 DEF PartNames
<1>5. DOMAIN Weights = PartNames
  BY DEF Weights, PartNames
<1>6. QED
  BY <1>3, <1>4, <1>5

\* The parts there are, their weights and their sums.
LEMMA KeptIn ==
  ASSUME NEW parts, NEW weights, Weighed(parts, weights)
  PROVE  /\ IsFiniteSet(Present(parts)) /\ Integral(weights, Present(parts))
         /\ SumFunctionOnSet(weights, Present(parts)) \in Nat
         /\ \A k \in Present(parts) : parts[k] \in Points /\ weights[k] \in Nat
         /\ Integral(WeightedParts(parts, weights), Present(parts))
         /\ SumFunctionOnSet(WeightedParts(parts, weights), Present(parts)) \in Nat
<1>1. PICK K, f : K = Present(parts) /\ f = WeightedParts(parts, weights)
  OBVIOUS
<1>2. K \subseteq PartNames /\ IsFiniteSet(K)
  BY <1>1, PartNamesAreFinite, FS_Subset DEF Present
<1>3. \A k \in K : parts[k] \in Points /\ parts[k] \in Nat /\ weights[k] \in Nat
  BY <1>1 DEF Weighed, Present, Score, Points
<1>4. \A k \in K : f[k] \in Nat
  BY <1>1, <1>3, TimesNat DEF WeightedParts
<1>5. SumFunctionOnSet(weights, K) \in Nat /\ SumFunctionOnSet(f, K) \in Nat
  BY <1>2, <1>3, <1>4, SumNat
<1>6. Integral(weights, K) /\ Integral(f, K)
  BY <1>3, <1>4 DEF Integral
<1>7. QED
  BY <1>1, <1>2, <1>3, <1>5, <1>6

\* The overall score is the sum of the parts there are times their weights, over their
\* weight.
LEMMA WeightedIs ==
  ASSUME NEW parts, NEW weights, Weighed(parts, weights)
  PROVE  Weighted([k \in DOMAIN parts |-> OfTenths(parts[k])], weights)
           = IF SumFunctionOnSet(weights, Present(parts)) = 0 THEN None
             ELSE Tenths(SumFunctionOnSet(WeightedParts(parts, weights), Present(parts)),
                         10 * SumFunctionOnSet(weights, Present(parts)))
<1>1. PICK K, f, used, fracs :
        /\ K = Present(parts) /\ f = WeightedParts(parts, weights)
        /\ used = SumFunctionOnSet(weights, K)
        /\ fracs = [k \in DOMAIN parts |-> OfTenths(parts[k])]
  OBVIOUS
<1>2. Known(fracs) = K
  BY <1>1, OfTenthsIn DEF Known, Present, Weighed
<1>3. \A k \in K : parts[k] \in Points /\ weights[k] \in Nat
  BY <1>1, KeptIn
<1>4. \A k \in K : Clamped(fracs[k]) = [n |-> parts[k], d |-> 10]
  BY <1>1, OfTenthsIn DEF Present, Weighed
<1> DEFINE TenthsOf(x, p) == x.n = p /\ x.d = 10
<1>4a. \A k \in K : TenthsOf(Clamped(fracs[k]), parts[k])
  <2>1. \A p : TenthsOf([n |-> p, d |-> 10], p)
    OBVIOUS
  <2> HIDE DEF TenthsOf
  <2>2. QED
    BY <1>4, <2>1
<1>5. PICK part : part = [k \in K |-> Clamped(fracs[k])]
  OBVIOUS
<1>6. PICK ds : ds = {Clamped(fracs[k]).d : k \in K}
  OBVIOUS
<1>7. Weighted(fracs, weights) = Over(part, K, weights, Multiple(ds), used)
  BY <1>1, <1>2, <1>5, <1>6 DEF Weighted, WeightedOver
<1>8. CASE used = 0
  BY <1>1, <1>7, <1>8 DEF Over
<1>9. CASE used # 0
  <2>1. K # {}
    <3>1. PICK g : SumsOf(g, weights, K)
      BY <1>1, KeptIn, SumsAre
    <3>2. SumFunctionOnSet(weights, {}) = 0
      BY <3>1 DEF SumsOf
    <3>3. QED
      BY <1>1, <1>9, <3>2
  <2>2. ds = {10}
    BY <1>6, <1>4a, <2>1
  <2>3. Multiple(ds) = 10
    BY <2>2, MultipleOfOne DEF Positive
  <2>4. PICK term : term = [k \in K |-> weights[k] * part[k].n * (10 \div part[k].d)]
    OBVIOUS
  <2>5. ASSUME NEW k \in K
        PROVE  weights[k] * part[k].n * (10 \div part[k].d) = weights[k] * parts[k]
    <3>1. part[k].n = parts[k] /\ part[k].d = 10
      BY <1>5, <1>4a
    <3>2. weights[k] * parts[k] \in Nat
      BY <1>3, TimesNat DEF Points
    <3>3. 10 \div 10 = 1
      OBVIOUS
    <3>4. QED
      BY <3>1, <3>2, <3>3
  <2>6. term = f
    BY <1>1, <2>4, <2>5 DEF WeightedParts
  <2>7. Over(part, K, weights, 10, used) = Tenths(SumFunctionOnSet(term, K), 10 * used)
    BY <1>9, <2>4 DEF Over
  <2>8. QED
    BY <1>1, <1>7, <1>9, <2>3, <2>6, <2>7
<1>10. QED
  BY <1>8, <1>9

\* It lies between whatever the parts lie between.
LEMMA RawBetween ==
  ASSUME NEW parts, NEW weights, Weighed(parts, weights), NEW lo \in Int, NEW hi \in Int,
         \A k \in Present(parts) : lo <= parts[k] /\ parts[k] <= hi,
         Raw(parts, weights) # None
  PROVE  Present(parts) # {} /\ Raw(parts, weights) \in lo..hi
<1>1. PICK K, f, used, n :
        /\ K = Present(parts) /\ f = WeightedParts(parts, weights)
        /\ used = SumFunctionOnSet(weights, K) /\ n = SumFunctionOnSet(f, K)
  OBVIOUS
<1>2. IsFiniteSet(K) /\ Integral(weights, K) /\ Integral(f, K) /\ used \in Nat /\ n \in Nat
  BY <1>1, KeptIn
<1>3. Raw(parts, weights) = Tenths(n, 10 * used) /\ used # 0
  BY <1>1, WeightedIs DEF Raw
<1>4. K # {}
  <2>1. PICK g : SumsOf(g, weights, K)
    BY <1>2, SumsAre
  <2>2. SumFunctionOnSet(weights, {}) = 0
    BY <2>1 DEF SumsOf
  <2>3. QED
    BY <1>1, <1>3, <2>2
<1>5. PICK low, high : low = [k \in K |-> lo * weights[k]] /\ high = [k \in K |-> hi * weights[k]]
  OBVIOUS
<1>6. \A k \in K : low[k] = lo * weights[k] /\ high[k] = hi * weights[k]
  BY <1>5
<1>7. \A k \in K : weights[k] \in Nat /\ parts[k] \in Int /\ f[k] = weights[k] * parts[k]
  <2>1. \A k \in K : weights[k] \in Nat /\ parts[k] \in Points
    BY <1>1, KeptIn
  <2>2. \A k \in K : f[k] = weights[k] * parts[k]
    BY <1>1 DEF WeightedParts
  <2>3. Points \subseteq Int
    BY DEF Points
  <2>4. QED
    BY <2>1, <2>2, <2>3
<1>8. \A k \in K : low[k] \in Int /\ high[k] \in Int /\ low[k] <= f[k] /\ f[k] <= high[k]
  <2>1. TAKE k \in K
  <2>2. lo <= parts[k] /\ parts[k] <= hi
    BY <1>1
  <2>3. PICK w, p : w = weights[k] /\ p = parts[k]
    OBVIOUS
  <2>4. w \in Nat /\ p \in Int /\ lo <= p /\ p <= hi
    BY <1>7, <2>2, <2>3
  <2>5. w * lo <= w * p /\ w * p <= w * hi /\ w * lo = lo * w /\ w * hi = hi * w
    BY <2>4, TimesMono
  <2>6. QED
    BY <1>6, <1>7, <2>3, <2>4, <2>5
<1>9. Integral(low, K) /\ Integral(high, K)
  BY <1>8 DEF Integral
<1>10. SumFunctionOnSet(low, K) = lo * used /\ SumFunctionOnSet(high, K) = hi * used
  BY <1>1, <1>2, <1>6, SumScale
<1>11. SumFunctionOnSet(low, K) <= n /\ n <= SumFunctionOnSet(high, K)
  BY <1>1, <1>2, <1>8, <1>9, SumMono
<1>12. PICK d : d = 10 * used
  OBVIOUS
<1>13. d \in Positive /\ n \in Int /\ lo * d = 10 * (lo * used) /\ hi * d = 10 * (hi * used)
  BY <1>2, <1>3, <1>12 DEF Positive
<1>14. lo * d <= 10 * n /\ 10 * n <= hi * d
  <2>1. PICK x, y : x = lo * used /\ y = hi * used
    OBVIOUS
  <2>2. x \in Int /\ y \in Int /\ x <= n /\ n <= y
    BY <1>2, <1>10, <1>11, <2>1
  <2>3. QED
    BY <1>2, <1>13, <2>1, <2>2
<1>15. Tenths(n, d) \in lo..hi
  BY <1>13, <1>14, TenthsBetween
<1>16. QED
  BY <1>1, <1>3, <1>4, <1>12, <1>15

\* The better the parts, the better the score.
LEMMA RawMono ==
  ASSUME NEW parts, NEW better, NEW weights, Weighed(parts, weights), Weighed(better, weights),
         \A k \in PartNames : NoLess(parts[k], better[k])
  PROVE  NoLess(Raw(parts, weights), Raw(better, weights))
<1>1. Present(parts) = Present(better)
  BY DEF Present, NoLess
<1>2. PICK K, f, h, used, n, m :
        /\ K = Present(parts) /\ f = WeightedParts(parts, weights)
        /\ h = WeightedParts(better, weights)
        /\ used = SumFunctionOnSet(weights, K)
        /\ n = SumFunctionOnSet(f, K) /\ m = SumFunctionOnSet(h, K)
  OBVIOUS
<1>3. /\ IsFiniteSet(K) /\ Integral(f, K) /\ Integral(h, K)
      /\ used \in Nat /\ n \in Nat /\ m \in Nat
  BY <1>1, <1>2, KeptIn
<1>4. \A k \in K : f[k] <= h[k]
  <2>1. TAKE k \in K
  <2>2. weights[k] \in Nat /\ parts[k] \in Points /\ better[k] \in Points
    BY <1>1, <1>2, KeptIn
  <2>3. parts[k] <= better[k]
    BY <1>2 DEF Present, NoLess
  <2>4. f[k] = weights[k] * parts[k] /\ h[k] = weights[k] * better[k]
    BY <1>1, <1>2 DEF WeightedParts
  <2>5. QED
    BY <2>2, <2>3, <2>4, TimesMono DEF Points
<1>5. n <= m
  BY <1>2, <1>3, <1>4, SumMono
<1>6. (\A k \in {"persuasion", "compliance", "conversion"} : parts[k] = None)
        <=> (\A k \in {"persuasion", "compliance", "conversion"} : better[k] = None)
  BY DEF NoLess, PartNames
<1>7. CASE Raw(parts, weights) = None
  <2>1. Raw(better, weights) = None
    <3>1. CASE \A k \in {"persuasion", "compliance", "conversion"} : parts[k] = None
      BY <1>6, <3>1 DEF Raw
    <3>2. CASE ~(\A k \in {"persuasion", "compliance", "conversion"} : parts[k] = None)
      <4>1. Raw(parts, weights) = IF used = 0 THEN None ELSE Tenths(n, 10 * used)
        BY <1>2, <3>2, WeightedIs DEF Raw
      <4>2. used = 0
        <5>1. SUFFICES ASSUME used # 0 PROVE FALSE
          OBVIOUS
        <5>2. PICK d : d = 10 * used
          OBVIOUS
        <5>3. d \in Positive
          BY <1>3, <5>1, <5>2 DEF Positive
        <5>4. 0 \in Int /\ 0 <= n /\ n \in Int
          BY <1>3
        <5>5. Tenths(0, d) <= Tenths(n, d) /\ Tenths(n, d) \in Int
          BY <5>3, <5>4, TenthsMono
        <5>6. Tenths(0, d) = 0
          BY <5>3 DEF Tenths, Positive
        <5>7. QED
          BY <1>7, <4>1, <5>1, <5>2, <5>5, <5>6 DEF None
      <4>3. QED
        BY <1>1, <1>2, <1>6, <3>2, <4>2, WeightedIs DEF Raw
    <3>3. QED
      BY <3>1, <3>2
  <2>2. QED
    BY <1>7, <2>1, ScoreNumbers DEF NoLess
<1>8. CASE Raw(parts, weights) # None
  <2>1. ~(\A k \in {"persuasion", "compliance", "conversion"} : parts[k] = None) /\ used # 0
    BY <1>2, <1>8, WeightedIs DEF Raw
  <2>2. PICK d : d = 10 * used
    OBVIOUS
  <2>3. Raw(parts, weights) = Tenths(n, d) /\ Raw(better, weights) = Tenths(m, d)
    BY <1>1, <1>2, <1>6, <2>1, <2>2, WeightedIs DEF Raw
  <2>4. d \in Positive
    BY <1>3, <2>1, <2>2 DEF Positive
  <2>5. PICK lo, hi : lo = 0 /\ hi = 1000
    OBVIOUS
  <2>6. lo \in Int /\ hi \in Int /\ \A x : x \in lo..hi => x \in Points
    BY <2>5 DEF Points
  <2>7. /\ \A k \in Present(parts) : lo <= parts[k] /\ parts[k] <= hi
        /\ \A k \in Present(better) : lo <= better[k] /\ better[k] <= hi
    BY <2>5, KeptIn DEF Points
  <2>8. Tenths(n, d) \in Points
    BY <1>8, <2>3, <2>6, <2>7, RawBetween
  <2>9. Tenths(n, d) <= Tenths(m, d) /\ Tenths(m, d) \in Int
    BY <1>3, <1>5, <2>4, TenthsMono
  <2>10. Raw(better, weights) # None
    BY <2>3, <2>8, <2>9 DEF Points, None
  <2>11. Tenths(m, d) \in Points
    BY <2>3, <2>6, <2>7, <2>10, RawBetween
  <2>12. QED
    BY <1>8, <2>3, <2>8, <2>9, <2>10, <2>11, ScoreNumbers DEF NoLess
<1>9. QED
  BY <1>7, <1>8

-----------------------------------------------------------------------------
(* Rows, and the score between its parts *)

\* The conversations a row of e is made of.
LeadsOf(e, read) == {c \in Conversations : read.owner["leads"][c] = e}

InHours(e, read) ==
  {c \in Conversations : read.owner["leads"][c] = e /\ ~read.past.fact[c].afterHours}

Timed(e, read) ==
  {c \in InHours(e, read) : read.past.fact[c].contacted /\ read.past.fact[c].minutes # None}

EvalsOf(e, read) == {c \in Conversations : read.owner["evals"][c] = e /\ read.past.mark[c].there}

Responded(e, read) ==
  response(InHours(e, read), Timed(e, read), read.cal.thresholds.slaMinutes, read)

PartsOf(e, read) ==
  Parts(LeadsOf(e, read), Own(e, read), EvalsOf(e, read), read, Responded(e, read))

\* A row is made of its parts.
LEMMA RowOfParts ==
  ASSUME NEW e, NEW read
  PROVE  Row(e, read) = Scored(PartsOf(e, read), Own(e, read), EvalsOf(e, read), read)
BY DEF Row, RowOf, PartsOf, LeadsOf, InHours, Timed, EvalsOf, Responded

LEMMA ConversionIn ==
  ASSUME NEW read, NEW S, S \subseteq Conversations
  PROVE  conversion(S, read) \in Score
<1>1. PICK n, a, b, c :
        /\ n = Cardinality(S) /\ a = Count(S, "booked", read)
        /\ b = Cardinality({x \in S : read.past.mark[x].step = "registration"})
        /\ c = Cardinality({x \in S : read.past.mark[x].step = "deposit"})
  OBVIOUS
<1>2. n \in Nat /\ a \in Nat
  BY <1>1, CountOf
<1>3. b \in Nat /\ c \in Nat
  <2>1. IsFiniteSet(S)
    BY FiniteAssumption, FS_Subset
  <2>2. /\ {x \in S : read.past.mark[x].step = "registration"} \subseteq S
        /\ {x \in S : read.past.mark[x].step = "deposit"} \subseteq S
    OBVIOUS
  <2>3. QED
    BY <1>1, <2>1, <2>2, CountIn
<1>4. conversionScore(n, a, b, c) \in Score
  BY <1>2, <1>3, ConversionScoreIn
<1>5. QED
  BY <1>1, <1>4 DEF conversion

LEMMA SameIsNoLess == ASSUME NEW x \in Score PROVE NoLess(x, x)
BY ScoreNumbers DEF NoLess

\* With other verdicts, the parts of the score are what they were, except for compliance.
LEMMA PartsMono ==
  ASSUME NEW read, NEW other, ReadAlike(read, other), NEW e,
         CheaperBy(other, read, Own(e, read))
  PROVE  /\ DOMAIN PartsOf(e, read) = PartNames /\ DOMAIN PartsOf(e, other) = PartNames
         /\ \A k \in PartNames :
              /\ NoLess(PartsOf(e, read)[k], PartsOf(e, other)[k])
              /\ k # "compliance" => PartsOf(e, other)[k] = PartsOf(e, read)[k]
<1>1. PICK leads, own, evals, x, y, convertible, wanted :
        /\ leads = LeadsOf(e, read) /\ own = Own(e, read) /\ evals = EvalsOf(e, read)
        /\ x = PartsOf(e, read) /\ y = PartsOf(e, other)
        /\ convertible = {c \in evals : isConvertible(c, read)}
        /\ wanted = {c \in leads : NeedsHuman(c, read)}
  OBVIOUS
<1>2. other.past = read.past /\ other.cal = read.cal /\ other.owner = read.owner
  BY DEF ReadAlike
<1>3. /\ leads = LeadsOf(e, other) /\ own = Own(e, other) /\ evals = EvalsOf(e, other)
      /\ Responded(e, other) = Responded(e, read)
      /\ convertible = {c \in evals : isConvertible(c, other)}
      /\ wanted = {c \in leads : NeedsHuman(c, other)}
  BY <1>1, <1>2
     DEF LeadsOf, Own, EvalsOf, Responded, InHours, Timed, response, isConvertible, NeedsHuman
<1>4. /\ leads \subseteq Conversations /\ evals \subseteq Conversations
      /\ own \subseteq Findings /\ convertible \subseteq Conversations
      /\ wanted \subseteq Conversations
  BY <1>1 DEF LeadsOf, EvalsOf, Own
<1>5. /\ x = [persuasion |-> persuasion(evals, read), conversion |-> conversion(convertible, read),
              compliance |-> compliance(own, evals, read),
              productivity |-> productivity(wanted, evals, Responded(e, read), read),
              response |-> Responded(e, read)]
      /\ y = [persuasion |-> persuasion(evals, other),
              conversion |-> conversion(convertible, other),
              compliance |-> compliance(own, evals, other),
              productivity |-> productivity(wanted, evals, Responded(e, read), other),
              response |-> Responded(e, read)]
  BY <1>1, <1>3 DEF PartsOf, Parts
<1>6. /\ persuasion(evals, other) = persuasion(evals, read)
      /\ conversion(convertible, other) = conversion(convertible, read)
      /\ productivity(wanted, evals, Responded(e, read), other)
           = productivity(wanted, evals, Responded(e, read), read)
  BY <1>2 DEF persuasion, Marks, conversion, productivity, Count
<1>7. Responded(e, read) \in Score
  <2>1. InHours(e, read) \subseteq Conversations /\ Timed(e, read) \subseteq InHours(e, read)
    BY DEF InHours, Timed
  <2>2. QED
    BY <2>1, ResponseIn DEF Responded, ReadAlike
<1>8. /\ persuasion(evals, read) \in Score /\ conversion(convertible, read) \in Score
      /\ productivity(wanted, evals, Responded(e, read), read) \in Score
  BY <1>4, <1>7, PersuasionIn, ConversionIn, ProductivityIn DEF ReadAlike
<1>9. NoLess(compliance(own, evals, read), compliance(own, evals, other))
  BY <1>1, <1>4, ComplianceMono
<1>10. PICK p, c, q, r, t, u :
         /\ p = persuasion(evals, read) /\ c = conversion(convertible, read)
         /\ q = productivity(wanted, evals, Responded(e, read), read) /\ r = Responded(e, read)
         /\ t = compliance(own, evals, read) /\ u = compliance(own, evals, other)
  OBVIOUS
<1>11. /\ x = [persuasion |-> p, conversion |-> c, compliance |-> t, productivity |-> q,
               response |-> r]
       /\ y = [persuasion |-> p, conversion |-> c, compliance |-> u, productivity |-> q,
               response |-> r]
  BY <1>5, <1>6, <1>10
<1>12. NoLess(p, p) /\ NoLess(c, c) /\ NoLess(q, q) /\ NoLess(r, r) /\ NoLess(t, u)
  BY <1>7, <1>8, <1>9, <1>10, SameIsNoLess
<1>13. DOMAIN x = PartNames /\ DOMAIN y = PartNames
  BY <1>11 DEF PartNames
<1>14. \A k \in PartNames : NoLess(x[k], y[k]) /\ (k # "compliance" => y[k] = x[k])
  BY <1>11, <1>12 DEF PartNames
<1>15. QED
  BY <1>1, <1>13, <1>14

LEMMA SameIsCheaper ==
  ASSUME NEW read, ReadAlike(read, read), NEW S, S \subseteq Findings
  PROVE  CheaperBy(read, read, S)
<1>1. \A x \in S : Deduction(Table(read)[x], Floor(read)) \in Nat
  BY TableIn, FloorIn, DeductionIn DEF ReadAlike
<1>2. QED
  BY <1>1 DEF CheaperBy

LEMMA PartsWeighed ==
  ASSUME NEW read, ReadAlike(read, read), NEW e
  PROVE  Weighed(PartsOf(e, read), read.cal.weights)
<1>1. Own(e, read) \subseteq Findings
  BY DEF Own
<1>2. CheaperBy(read, read, Own(e, read))
  BY <1>1, SameIsCheaper
<1>3. DOMAIN PartsOf(e, read) = PartNames /\ \A k \in PartNames : PartsOf(e, read)[k] \in Score
  BY <1>2, PartsMono DEF NoLess
<1>4. \A k \in PartNames : read.cal.weights[k] \in Nat
  BY PartNamesAreFinite DEF ReadAlike, CalibrationOK
<1>5. QED
  BY <1>3, <1>4 DEF Weighed

\* The row of e has its parts, and the raw score is made of them.
LEMMA RowParts ==
  ASSUME NEW read, NEW e
  PROVE  /\ \A k \in PartNames : Row(e, read)[k] = PartsOf(e, read)[k]
         /\ Row(e, read).raw = Raw(PartsOf(e, read), read.cal.weights)
<1>1. PICK parts : parts = PartsOf(e, read)
  OBVIOUS
<1>2. PICK row : row = Row(e, read)
  OBVIOUS
<1>3. /\ row.persuasion = parts.persuasion /\ row.conversion = parts.conversion
      /\ row.compliance = parts.compliance /\ row.productivity = parts.productivity
      /\ row.response = parts.response /\ row.raw = Raw(parts, read.cal.weights)
  BY <1>1, <1>2, RowOfParts DEF Scored, overallScore
<1>4. QED
  BY <1>1, <1>2, <1>3 DEF PartNames

\* The score of a row lies between the lowest and the highest part there is.
LEMMA RowBetween ==
  ASSUME NEW read, ReadAlike(read, read), NEW e, NEW row, row = Row(e, read)
  PROVE  Between(row, {row[k] : k \in {x \in DOMAIN Weights : row[x] # None}})
<1>1. PICK parts, K, there :
        /\ parts = PartsOf(e, read) /\ K = Present(parts)
        /\ there = {row[k] : k \in {x \in DOMAIN Weights : row[x] # None}}
  OBVIOUS
<1>2. Weighed(parts, read.cal.weights)
  BY <1>1, PartsWeighed
<1>3. \A k \in PartNames : row[k] = parts[k]
  BY <1>1, RowParts
<1>4. K = {x \in DOMAIN Weights : row[x] # None} /\ K \subseteq PartNames
  BY <1>1, <1>3, PartNamesAreFinite DEF Present
<1>5. there = {parts[k] : k \in K}
  BY <1>1, <1>3, <1>4
<1>6. IsFiniteSet(K) /\ \A k \in K : parts[k] \in Points
  BY <1>1, <1>2, KeptIn
<1>7. IsFiniteSet(there) /\ there \subseteq Points
  <2>1. IsFiniteSet({parts[k] : k \in K})
    BY <1>6, ImageIsFinite
  <2>2. QED
    BY <1>5, <1>6, <2>1
<1>8. there \subseteq 0..1000
  BY <1>7 DEF Points
<1>9. ASSUME row.raw # None
      PROVE  Min(there) <= row.raw /\ row.raw <= Max(there)
  <2>1. PICK lo, hi, weights : lo = Min(there) /\ hi = Max(there) /\ weights = read.cal.weights
    OBVIOUS
  <2>2. there \subseteq Int
    BY <1>8
  <2>3. CASE there = {}
    <3>1. PICK a, b : a = 1 /\ b = 0
      OBVIOUS
    <3>2. K = {}
      BY <1>5, <2>3
    <3>3. \A k \in Present(parts) : a <= parts[k] /\ parts[k] <= b
      BY <1>1, <3>2
    <3>4. Raw(parts, weights) # None
      BY <1>1, <1>9, <2>1, RowParts
    <3>5. a \in Int /\ b \in Int /\ Weighed(parts, weights)
      BY <1>2, <2>1, <3>1
    <3>6. Present(parts) # {}
      BY <3>3, <3>4, <3>5, RawBetween
    <3>7. QED
      BY <1>1, <3>2, <3>6
  <2>4. CASE there # {}
    <3>1. lo \in there /\ hi \in there /\ \A y \in there : lo <= y /\ y <= hi
      BY <1>7, <2>1, <2>2, <2>4, Greatest, Least
    <3>2. \A k \in Present(parts) : lo <= parts[k] /\ parts[k] <= hi
      BY <1>1, <1>5, <3>1
    <3>3. Raw(parts, weights) # None
      BY <1>1, <1>9, <2>1, RowParts
    <3>4. lo \in Int /\ hi \in Int /\ Weighed(parts, weights)
      BY <1>2, <2>1, <2>2, <3>1
    <3>5. Raw(parts, weights) \in lo..hi
      BY <3>2, <3>3, <3>4, RawBetween
    <3>6. row.raw \in lo..hi
      BY <1>1, <2>1, <3>5, RowParts
    <3>7. QED
      BY <2>1, <3>4, <3>6
  <2>5. QED
    BY <2>3, <2>4
<1>10. Between(row, there)
  BY <1>8, <1>9 DEF Between
<1>11. QED
  BY <1>1, <1>10

LEMMA BoardIs ==
  ASSUME NEW read
  PROVE  /\ DOMAIN Board(read) = {x \in Employees : OnBoard(x, read)}
         /\ \A e \in DOMAIN Board(read) :
              Board(read)[e] = Ranked(Row(e, read), read.cal.thresholds)
BY DEF Board

LEMMA NowIsRead == TypeOK => ReadAlike(Now, Now)
BY DEF TypeOK, StoredOK, ReadAlike, Now

LEMMA AveragesAre == TypeOK => ScoresAreAverages
<1>1. SUFFICES ASSUME TypeOK, NEW e \in DOMAIN Board(Now)
               PROVE  Between(Board(Now)[e].row,
                        {Board(Now)[e].row[k] :
                           k \in {x \in DOMAIN Weights : Board(Now)[e].row[x] # None}})
  BY DEF ScoresAreAverages, AllBetween
<1>2. PICK row : row = Board(Now)[e].row
  OBVIOUS
<1>3. row = Row(e, Now)
  <2>1. Board(Now)[e] = Ranked(Row(e, Now), Now.cal.thresholds)
    BY <1>1, BoardIs
  <2>2. \A r, t : Ranked(r, t).row = r
    BY DEF Ranked, Kept
  <2>3. QED
    BY <1>2, <2>1, <2>2
<1>4. Between(row, {row[k] : k \in {x \in DOMAIN Weights : row[x] # None}})
  BY <1>1, <1>3, NowIsRead, RowBetween
<1>5. QED
  BY <1>2, <1>4

\* What is not known of an employee counts neither as zero nor as full marks: the score
\* lies between the lowest and the highest part, whatever is stored (overallScore).
THEOREM ScoresBetween == Spec => []ScoresAreAverages
BY AveragesAre, BoardTypes, PTL

-----------------------------------------------------------------------------
(* Rows before and after a verdict *)

\* A critical finding about e is confirmed.
Critical(e, read) ==
  \E f \in Own(e, read) : read.issue[f] = [severity |-> "critical", status |-> "confirmed"]

\* The findings about e cost no more, and none of them has become critical.
Improves(other, read, e) ==
  CheaperBy(other, read, Own(e, read)) /\ (Critical(e, other) => Critical(e, read))

\* The score under the cap.
Overall(raw, critical, cap) == IF critical THEN Min({raw, 10 * cap}) ELSE raw

\* The cap keeps the order, and is not lifted but by fewer critical findings.
LEMMA OverallMono ==
  ASSUME NEW a \in Int, NEW b \in Int, a <= b, NEW cap \in Nat, NEW p, NEW q, q => p
  PROVE  /\ Overall(a, p, cap) \in Int /\ Overall(b, q, cap) \in Int
         /\ Overall(a, p, cap) <= Overall(b, q, cap)
<1>1. PICK c : c = 10 * cap /\ c \in Int
  OBVIOUS
<1>2. /\ Min({a, c}) = IF a <= c THEN a ELSE c
      /\ Min({b, c}) = IF b <= c THEN b ELSE c
  BY <1>1, OfTwo
<1>3. CASE p /\ q
  <2>1. Overall(a, p, cap) = Min({a, c}) /\ Overall(b, q, cap) = Min({b, c})
    BY <1>1, <1>3 DEF Overall
  <2>2. QED
    BY <1>1, <1>2, <2>1
<1>4. CASE p /\ ~q
  <2>1. Overall(a, p, cap) = Min({a, c}) /\ Overall(b, q, cap) = b
    BY <1>1, <1>4 DEF Overall
  <2>2. QED
    BY <1>1, <1>2, <2>1
<1>5. CASE ~p
  <2>1. Overall(a, p, cap) = a /\ Overall(b, q, cap) = b
    BY <1>5 DEF Overall
  <2>2. QED
    BY <2>1
<1>6. QED
  BY <1>3, <1>4, <1>5

\* What of a row the verdicts do not reach.
Settled(e, read) ==
  [sample |-> Cardinality(EvalsOf(e, read)),
   qualified |-> Count(EvalsOf(e, read), "qualified", read),
   confidence |-> scoreConfidence(Cardinality(EvalsOf(e, read)), Analyzed(read),
                                  read.cal.thresholds)]

\* How a row has them.
LEMMA RowFields ==
  ASSUME NEW read, NEW e
  PROVE  /\ Row(e, read).overall
              = Overall(Raw(PartsOf(e, read), read.cal.weights), Critical(e, read),
                        read.cal.thresholds.criticalScoreCap)
         /\ Row(e, read).confirmedCritical <=> Critical(e, read)
         /\ Row(e, read).sample = Settled(e, read).sample
         /\ Row(e, read).qualified = Settled(e, read).qualified
         /\ Row(e, read).confidence = Settled(e, read).confidence
<1>1. PICK parts, own, evals :
        parts = PartsOf(e, read) /\ own = Own(e, read) /\ evals = EvalsOf(e, read)
  OBVIOUS
<1>2. Row(e, read) = Scored(parts, own, evals, read)
  BY <1>1, RowOfParts
<1>3. PICK raw : raw = Raw(parts, read.cal.weights)
  OBVIOUS
<1>4. Row(e, read) = overallScore(parts, raw, Critical(e, read), evals, read)
  BY <1>1, <1>2, <1>3 DEF Scored, Critical
<1>5. \A c : /\ overallScore(parts, raw, c, evals, read).overall
                  = Overall(raw, c, read.cal.thresholds.criticalScoreCap)
             /\ overallScore(parts, raw, c, evals, read).confirmedCritical = c
             /\ overallScore(parts, raw, c, evals, read).sample = Cardinality(evals)
             /\ overallScore(parts, raw, c, evals, read).qualified = Count(evals, "qualified", read)
             /\ overallScore(parts, raw, c, evals, read).confidence
                  = scoreConfidence(Cardinality(evals), Analyzed(read), read.cal.thresholds)
  BY DEF overallScore, Overall
<1>6. QED
  BY <1>1, <1>3, <1>4, <1>5 DEF Settled

\* The verdicts do not reach them.
LEMMA SettledSame ==
  ASSUME NEW read, NEW other, ReadAlike(read, other), NEW e
  PROVE  Settled(e, other) = Settled(e, read)
<1>1. other.past = read.past /\ other.cal = read.cal /\ other.owner = read.owner
  BY DEF ReadAlike
<1>2. EvalsOf(e, other) = EvalsOf(e, read) /\ Analyzed(other) = Analyzed(read)
  BY <1>1 DEF EvalsOf, Analyzed
<1>3. Count(EvalsOf(e, other), "qualified", other) = Count(EvalsOf(e, read), "qualified", read)
  BY <1>1, <1>2 DEF Count
<1>4. QED
  BY <1>1, <1>2, <1>3 DEF Settled

\* Who is on the board does not depend on the verdicts.
LEMMA AlikeBothWays ==
  ASSUME NEW read, NEW other, ReadAlike(read, other)
  PROVE  /\ ReadAlike(other, read) /\ ReadAlike(read, read) /\ ReadAlike(other, other)
         /\ \A e : Own(e, other) = Own(e, read)
         /\ \A e : OnBoard(e, other) <=> OnBoard(e, read)
BY DEF ReadAlike, Own, OnBoard

\* A row of the board is no worse for findings that cost less.
LEMMA RowMono ==
  ASSUME NEW read, NEW other, ReadAlike(read, other), NEW e, Improves(other, read, e),
         NEW row, row = Row(e, read), NEW better, better = Row(e, other)
  PROVE  /\ \A k \in PartNames :
              NoLess(row[k], better[k]) /\ (k # "compliance" => better[k] = row[k])
         /\ NoLess(row.raw, better.raw)
         /\ row.overall \in Int /\ better.overall \in Int /\ row.overall <= better.overall
         /\ better.confirmedCritical => row.confirmedCritical
         /\ better.sample = row.sample /\ better.qualified = row.qualified
         /\ better.confidence = row.confidence
<1>1. PICK parts, more, weights, cap :
        /\ parts = PartsOf(e, read) /\ more = PartsOf(e, other)
        /\ weights = read.cal.weights /\ cap = read.cal.thresholds.criticalScoreCap
  OBVIOUS
<1>2. \A k \in PartNames :
        NoLess(parts[k], more[k]) /\ (k # "compliance" => more[k] = parts[k])
  BY <1>1, PartsMono DEF Improves
<1>3. other.cal = read.cal
  BY DEF ReadAlike
<1>4. Weighed(parts, weights) /\ Weighed(more, weights)
  BY <1>1, <1>3, PartsWeighed, AlikeBothWays
<1>5. NoLess(Raw(parts, weights), Raw(more, weights))
  BY <1>2, <1>4, RawMono
<1>6. row.raw = Raw(parts, weights) /\ better.raw = Raw(more, weights)
  BY <1>1, <1>3, RowParts
<1>7. \A k \in PartNames : row[k] = parts[k] /\ better[k] = more[k]
  BY <1>1, RowParts
<1>8. PICK a, b, p, q : /\ a = row.raw /\ b = better.raw
                        /\ p = Critical(e, read) /\ q = Critical(e, other)
  OBVIOUS
<1>9. row.overall = Overall(a, p, cap) /\ better.overall = Overall(b, q, cap)
  BY <1>1, <1>3, <1>6, <1>8, RowFields
<1>10. a \in Int /\ b \in Int /\ a <= b /\ cap \in Nat
  <2>1. cap \in Nat
    BY <1>1 DEF ReadAlike, CalibrationOK, InRange
  <2>2. QED
    BY <1>5, <1>6, <1>8, <2>1, ScoreNumbers DEF NoLess
<1>11. q => p
  BY <1>8 DEF Improves
<1>12. row.overall \in Int /\ better.overall \in Int /\ row.overall <= better.overall
  BY <1>9, <1>10, <1>11, OverallMono
<1>13. better.confirmedCritical => row.confirmedCritical
  BY RowFields DEF Improves
<1>14. better.sample = row.sample /\ better.qualified = row.qualified
       /\ better.confidence = row.confidence
  BY RowFields, SettledSame
<1>15. QED
  BY <1>2, <1>5, <1>6, <1>7, <1>12, <1>13, <1>14

-----------------------------------------------------------------------------
(* Places before and after a verdict *)

\* One row is no worse than another.
RowNoWorse(row, better) ==
  /\ \A k \in PartNames :
       /\ row[k] \in Int /\ better[k] \in Int /\ row[k] <= better[k]
       /\ k # "compliance" => better[k] = row[k]
  /\ row.overall \in Int /\ better.overall \in Int /\ row.overall <= better.overall
  /\ better.confirmedCritical => row.confirmedCritical
  /\ better.sample = row.sample /\ better.confidence = row.confidence
  /\ better.qualified = row.qualified /\ row.qualified \in Int

\* Who is eligible stays so with a better row.
LEMMA EligibleMono ==
  ASSUME NEW row, NEW better, RowNoWorse(row, better), NEW c, CalibrationOK(c),
         topPerformerEligible(row, c.thresholds)
  PROVE  topPerformerEligible(better, c.thresholds)
<1>1. PICK t, least : t = c.thresholds /\ least = t.minCompliance
  OBVIOUS
<1>2. least \in Nat
  BY <1>1 DEF CalibrationOK, InRange
<1>3. row.compliance \in Int /\ better.compliance \in Int /\ row.compliance <= better.compliance
      /\ better.persuasion = row.persuasion
  BY DEF RowNoWorse, PartNames
<1>4. row.compliance >= 10 * least => better.compliance >= 10 * least
  BY <1>2, <1>3
<1>5. better.sample = row.sample /\ better.confidence = row.confidence
      /\ (better.confirmedCritical => row.confirmedCritical)
  BY DEF RowNoWorse
<1>6. QED
  BY <1>1, <1>3, <1>4, <1>5 DEF topPerformerEligible

\* Seven numbers to rank by, each at least as good.
Keys == [1..7 -> Int]

\* The key of a better row is nowhere less.
LEMMA KeyMono ==
  ASSUME NEW row, NEW better, RowNoWorse(row, better), NEW p, NEW q, p => q
  PROVE  /\ Key(row, p) \in Keys /\ Key(better, q) \in Keys
         /\ \A i \in 1..7 : Key(row, p)[i] <= Key(better, q)[i]
<1>1. PICK x, y : x = (IF p THEN 1 ELSE 0) /\ y = (IF q THEN 1 ELSE 0)
  OBVIOUS
<1>2. x \in Int /\ y \in Int /\ x <= y
  BY <1>1
<1>3. /\ Key(row, p) = <<x, row.overall, row.compliance, row.persuasion, row.conversion,
                         row.qualified, row.response>>
      /\ Key(better, q) = <<y, better.overall, better.compliance, better.persuasion,
                            better.conversion, better.qualified, better.response>>
  BY <1>1 DEF Key
<1>4. /\ row.overall \in Int /\ row.compliance \in Int /\ row.persuasion \in Int
      /\ row.conversion \in Int /\ row.qualified \in Int /\ row.response \in Int
      /\ better.overall \in Int /\ better.compliance \in Int /\ better.persuasion \in Int
      /\ better.conversion \in Int /\ better.qualified \in Int /\ better.response \in Int
      /\ row.overall <= better.overall /\ row.compliance <= better.compliance
      /\ row.persuasion <= better.persuasion /\ row.conversion <= better.conversion
      /\ row.qualified <= better.qualified /\ row.response <= better.response
  BY DEF RowNoWorse, PartNames
<1>5. \A i \in 1..7 : i = 1 \/ i = 2 \/ i = 3 \/ i = 4 \/ i = 5 \/ i = 6 \/ i = 7
  OBVIOUS
<1>6. Key(row, p) \in Keys /\ Key(better, q) \in Keys
  BY <1>2, <1>3, <1>4, <1>5 DEF Keys
<1>7. \A i \in 1..7 : Key(row, p)[i] <= Key(better, q)[i]
  BY <1>2, <1>3, <1>4, <1>5
<1>8. QED
  BY <1>6, <1>7

\* Who stands before the better key stands before the other.
LEMMA BeforeMono ==
  ASSUME NEW k \in Keys, NEW a \in Keys, NEW b \in Keys, \A i \in 1..7 : a[i] <= b[i],
         Before(k, b)
  PROVE  Before(k, a)
<1>1. PICK i \in 1..7 : k[i] > b[i] /\ \A j \in 1..(i - 1) : k[j] = b[j]
  BY DEF Before, Keys
<1>2. PICK T : T = {j \in 1..7 : k[j] > a[j]}
  OBVIOUS
<1>3. \A j \in 1..7 : k[j] \in Int /\ a[j] \in Int /\ b[j] \in Int
  BY DEF Keys
<1>4. i \in T
  BY <1>1, <1>2, <1>3
<1>5. T \subseteq Nat /\ T # {}
  BY <1>2, <1>4
<1>6. PICK m \in T : \A n \in T : m <= n
  BY <1>5, LeastNat
<1>7. m \in 1..7 /\ k[m] > a[m] /\ m <= i
  BY <1>2, <1>4, <1>6
<1>8. ASSUME NEW j \in 1..(m - 1)
      PROVE  k[j] = a[j]
  <2>1. j \in 1..7 /\ j \in 1..(i - 1) /\ j \notin T
    BY <1>5, <1>6, <1>7
  <2>2. QED
    BY <1>1, <1>2, <1>3, <2>1
<1>9. DOMAIN k = 1..7
  BY DEF Keys
<1>10. QED
  BY <1>7, <1>8, <1>9 DEF Before

\* The row and the key of one on the board.
LEMMA BoardRow ==
  ASSUME NEW read, NEW e, e \in DOMAIN Board(read)
  PROVE  /\ Board(read)[e] = Ranked(Row(e, read), read.cal.thresholds)
         /\ Board(read)[e].key = Key(Row(e, read),
              topPerformerEligible(Row(e, read), read.cal.thresholds))
<1>1. Board(read)[e] = Ranked(Row(e, read), read.cal.thresholds)
  BY BoardIs
<1>2. \A row, t : Ranked(row, t).key = Key(row, topPerformerEligible(row, t))
  BY DEF Ranked, Kept
<1>3. QED
  BY <1>1, <1>2

\* A row is no worse for findings that cost less.
LEMMA ImprovedRow ==
  ASSUME NEW read, NEW other, ReadAlike(read, other), NEW e, Improves(other, read, e)
  PROVE  RowNoWorse(Row(e, read), Row(e, other))
<1>1. PICK row, better : row = Row(e, read) /\ better = Row(e, other)
  OBVIOUS
<1>2. /\ \A k \in PartNames :
           NoLess(row[k], better[k]) /\ (k # "compliance" => better[k] = row[k])
      /\ row.overall \in Int /\ better.overall \in Int /\ row.overall <= better.overall
      /\ better.confirmedCritical => row.confirmedCritical
      /\ better.sample = row.sample /\ better.qualified = row.qualified
      /\ better.confidence = row.confidence
  BY <1>1, RowMono
<1>3. row.qualified \in Int
  <2>1. EvalsOf(e, read) \subseteq Conversations
    BY DEF EvalsOf
  <2>2. Count(EvalsOf(e, read), "qualified", read) \in Nat
    BY <2>1, CountOf
  <2>3. QED
    BY <1>1, <2>2, RowFields DEF Settled
<1>4. QED
  BY <1>1, <1>2, <1>3, ScoreNumbers DEF RowNoWorse, NoLess

\* Every row of a board has such a key.
LEMMA KeyIn ==
  ASSUME NEW read, ReadAlike(read, read), NEW e, e \in DOMAIN Board(read)
  PROVE  Board(read)[e].key \in Keys
<1>1. Own(e, read) \subseteq Findings
  BY DEF Own
<1>2. Improves(read, read, e)
  BY <1>1, SameIsCheaper DEF Improves
<1>3. RowNoWorse(Row(e, read), Row(e, read))
  BY <1>2, ImprovedRow
<1>4. PICK row, p : row = Row(e, read) /\ p = topPerformerEligible(row, read.cal.thresholds)
  OBVIOUS
<1>5. Key(row, p) \in Keys
  BY <1>3, <1>4, KeyMono
<1>6. QED
  BY <1>4, <1>5, BoardRow

\* Whose findings cost less is no worse on the board, if the others' rows stay.
LEMMA BoardMono ==
  ASSUME NEW read, NEW other, ReadAlike(read, other), NEW e, Improves(other, read, e),
         NEW before, before = Board(read), NEW after, after = Board(other),
         e \in DOMAIN before, \A x \in DOMAIN before \ {e} : after[x] = before[x]
  PROVE  NoWorse(e, before, after)
<1>1. DOMAIN after = DOMAIN before
  BY BoardIs, AlikeBothWays
<1>2. PICK row, better, c : row = Row(e, read) /\ better = Row(e, other) /\ c = read.cal
  OBVIOUS
<1>3. CalibrationOK(c) /\ other.cal = c
  BY <1>2 DEF ReadAlike
<1>4. RowNoWorse(row, better)
  BY <1>2, ImprovedRow
<1>5. PICK p, q : p = topPerformerEligible(row, c.thresholds)
                  /\ q = topPerformerEligible(better, c.thresholds)
  OBVIOUS
<1>6. p => q
  BY <1>3, <1>4, <1>5, EligibleMono
<1>7. PICK a, b : a = before[e].key /\ b = after[e].key
  OBVIOUS
<1>8. a = Key(row, p) /\ b = Key(better, q)
  BY <1>1, <1>2, <1>3, <1>5, <1>7, BoardRow
<1>9. a \in Keys /\ b \in Keys /\ \A i \in 1..7 : a[i] <= b[i]
  BY <1>4, <1>6, <1>8, KeyMono
<1>10. \A k \in DOMAIN a : b[k] >= a[k]
  BY <1>9 DEF Keys
<1>11. PICK A, B : /\ A = {x \in DOMAIN before : Before(before[x].key, a)}
                   /\ B = {x \in DOMAIN after : Before(after[x].key, b)}
  OBVIOUS
<1>12. ASSUME NEW x \in B
       PROVE  x \in A
  <2>1. x \in DOMAIN before /\ Before(after[x].key, b)
    BY <1>1, <1>11
  <2>2. x # e
    <3>1. SUFFICES ASSUME x = e PROVE FALSE
      OBVIOUS
    <3>2. Before(b, b)
      BY <1>7, <2>1, <3>1
    <3>3. QED
      BY <1>9, <3>2 DEF Before, Keys
  <2>3. after[x] = before[x]
    BY <2>1, <2>2
  <2>4. PICK k : k = before[x].key
    OBVIOUS
  <2>5. k \in Keys
    BY <2>1, <2>4, KeyIn, AlikeBothWays
  <2>6. Before(k, b)
    BY <2>1, <2>3, <2>4
  <2>7. Before(k, a)
    BY <1>9, <2>5, <2>6, BeforeMono
  <2>8. QED
    BY <1>11, <2>1, <2>4, <2>7
<1>13. IsFiniteSet(A)
  BY <1>11, BoardIsFinite, FS_Subset
<1>14. Cardinality(B) <= Cardinality(A)
  BY <1>12, <1>13, CountIn
<1>15. Standing(e, before) = Cardinality(A) /\ Standing(e, after) = Cardinality(B)
  BY <1>7, <1>11 DEF Standing
<1>16. QED
  BY <1>7, <1>10, <1>14, <1>15 DEF NoWorse

-----------------------------------------------------------------------------
(* Verdicts *)

\* A row says no more than its fields.
Fields(row) ==
  [persuasion |-> row.persuasion, conversion |-> row.conversion, compliance |-> row.compliance,
   productivity |-> row.productivity, response |-> row.response, raw |-> row.raw,
   overall |-> row.overall, confirmedCritical |-> row.confirmedCritical,
   sample |-> row.sample, qualified |-> row.qualified, confidence |-> row.confidence]

LEMMA RowIsFields ==
  ASSUME NEW read, NEW e
  PROVE  Row(e, read) = Fields(Row(e, read)) /\ Row(e, read).confirmedCritical \in BOOLEAN
<1>1. PICK parts, own, evals :
        parts = PartsOf(e, read) /\ own = Own(e, read) /\ evals = EvalsOf(e, read)
  OBVIOUS
<1>2. PICK raw, critical :
        raw = Raw(parts, read.cal.weights) /\ critical = Critical(e, read)
  OBVIOUS
<1>3. Row(e, read) = overallScore(parts, raw, critical, evals, read)
  BY <1>1, <1>2, RowOfParts DEF Scored, Critical
<1>4. overallScore(parts, raw, critical, evals, read)
        = Fields(overallScore(parts, raw, critical, evals, read))
  BY DEF overallScore, Fields
<1>5. overallScore(parts, raw, critical, evals, read).confirmedCritical = critical
  BY DEF overallScore
<1>6. critical \in BOOLEAN
  BY <1>2 DEF Critical
<1>7. QED
  BY <1>3, <1>4, <1>5, <1>6

LEMMA NoLessBothWays ==
  ASSUME NEW a, NEW b, NoLess(a, b), NoLess(b, a)
  PROVE  a = b
BY ScoreNumbers DEF NoLess

\* Verdicts on other people's findings leave a row as it is.
LEMMA RowElsewhere ==
  ASSUME NEW read, NEW other, ReadAlike(read, other), NEW e,
         \A g \in Own(e, read) : other.issue[g] = read.issue[g]
  PROVE  Row(e, other) = Row(e, read)
<1>1. Own(e, read) \subseteq Findings /\ Own(e, other) = Own(e, read)
  BY AlikeBothWays DEF Own
<1>2. \A g \in Own(e, read) : Table(other)[g] = Table(read)[g]
  BY <1>1 DEF Table, ReadAlike
<1>3. CheaperBy(other, read, Own(e, read)) /\ CheaperBy(read, other, Own(e, read))
  <2>1. Floor(other) = Floor(read)
    BY DEF Floor, ReadAlike
  <2>2. \A g \in Own(e, read) : Deduction(Table(read)[g], Floor(read)) \in Nat
    BY <1>1, TableIn, FloorIn, DeductionIn DEF ReadAlike
  <2>3. QED
    BY <1>2, <2>1, <2>2 DEF CheaperBy
<1>4. Critical(e, other) <=> Critical(e, read)
  BY <1>1 DEF Critical
<1>5. Improves(other, read, e) /\ Improves(read, other, e)
  BY <1>1, <1>3, <1>4 DEF Improves
<1>6. PICK x, y : x = Row(e, read) /\ y = Row(e, other)
  OBVIOUS
<1>7. /\ \A k \in PartNames : NoLess(x[k], y[k])
      /\ NoLess(x.raw, y.raw)
      /\ x.overall \in Int /\ y.overall \in Int /\ x.overall <= y.overall
      /\ y.confirmedCritical => x.confirmedCritical
      /\ y.sample = x.sample /\ y.qualified = x.qualified /\ y.confidence = x.confidence
  BY <1>5, <1>6, RowMono
<1>8. /\ \A k \in PartNames : NoLess(y[k], x[k])
      /\ NoLess(y.raw, x.raw)
      /\ y.overall <= x.overall
      /\ x.confirmedCritical => y.confirmedCritical
  BY <1>5, <1>6, RowMono, AlikeBothWays
<1>9. x.raw = y.raw /\ \A k \in PartNames : x[k] = y[k]
  BY <1>7, <1>8, NoLessBothWays
<1>10. x.overall = y.overall
  BY <1>7, <1>8
<1>11. x.confirmedCritical = y.confirmedCritical
  BY <1>6, <1>7, <1>8, RowIsFields
<1>12. /\ x.persuasion = y.persuasion /\ x.conversion = y.conversion
       /\ x.compliance = y.compliance /\ x.productivity = y.productivity
       /\ x.response = y.response
  BY <1>9 DEF PartNames
<1>13. Fields(x) = Fields(y)
  BY <1>7, <1>9, <1>10, <1>11, <1>12 DEF Fields
<1>14. QED
  BY <1>6, <1>13, RowIsFields

\* Nor does their row on the board.
LEMMA SameOnBoard ==
  ASSUME NEW read, NEW other, ReadAlike(read, other), NEW e,
         \A g \in Own(e, read) : other.issue[g] = read.issue[g], e \in DOMAIN Board(read)
  PROVE  e \in DOMAIN Board(other) /\ Board(other)[e] = Board(read)[e]
<1>1. e \in DOMAIN Board(other)
  BY BoardIs, AlikeBothWays
<1>2. Row(e, other) = Row(e, read) /\ other.cal = read.cal
  BY RowElsewhere DEF ReadAlike
<1>3. QED
  BY <1>1, <1>2, BoardRow

\* A rejected finding costs nothing, a confirmed one what it costs when it is certain.
LEMMA RejectedIsCheaper ==
  ASSUME NEW f, NEW g, Found(g), f.status = "rejected", NEW floor \in Percent
  PROVE  Deduction(f, floor) <= Deduction(g, floor)
<1>1. Deduction(f, floor) = 0
  BY DEF Deduction
<1>2. QED
  BY <1>1, DeductionIn

\* A confirmed finding costs no less than before, by the same severity.
LEMMA ConfirmedIsDearer ==
  ASSUME NEW f, NEW g, Found(f), Found(g), f.severity = g.severity, f.status = "confirmed",
         NEW floor \in Percent
  PROVE  Deduction(g, floor) <= Deduction(f, floor)
<1>1. CASE g.status = "rejected"
  BY <1>1, RejectedIsCheaper
<1>2. CASE g.status # "rejected" /\ Sure(g) < floor
  <2>1. Deduction(g, floor) = 0
    BY <1>2 DEF Deduction
  <2>2. QED
    BY <2>1, DeductionIn
<1>3. CASE g.status # "rejected" /\ ~(Sure(g) < floor)
  <2>1. PICK s, a, b : s = g.severity /\ a = Sure(g) /\ b = Sure(f)
    OBVIOUS
  <2>2. s \in Severities /\ a \in Percent /\ b = 100
    BY <2>1, SureIn DEF Found, Sure
  <2>3. b \in Percent /\ floor <= a /\ a <= b /\ floor <= b
    BY <1>3, <2>1, <2>2 DEF Percent
  <2>4. InBand(Band[s], a, floor) <= InBand(Band[s], b, floor)
    BY <2>2, <2>3, InBandMono
  <2>5. ~(b < floor)
    BY <2>2, <2>3 DEF Percent
  <2>6. /\ Deduction(g, floor) = InBand(Band[s], a, floor)
        /\ Deduction(f, floor) = InBand(Band[s], b, floor)
    BY <1>3, <2>1, <2>5 DEF Deduction
  <2>7. QED
    BY <2>4, <2>6
<1>4. QED
  BY <1>1, <1>2, <1>3

\* What is read after one more verdict.
After(read, q) == [read EXCEPT !.issue[q.on] = Verdict(q)]

\* Only the finding it is on differs.
LEMMA AfterIs ==
  ASSUME TypeOK, NEW q, RequestOK(q), q.pc = "update", NEW other, other = After(Now, q)
  PROVE  /\ ReadAlike(Now, other) /\ q.on \in Findings
         /\ other.issue[q.on] = Verdict(q)
         /\ \A g \in Findings \ {q.on} : other.issue[g] = Now.issue[g]
<1>1. q.on \in Findings /\ Verdict(q) \in Issue
  BY VerdictOK DEF RequestOK
<1>2. issue \in [Findings -> Issue] /\ Now.issue = issue
  BY DEF TypeOK, StoredOK, Now
<1>3. /\ other.past = Now.past /\ other.cal = Now.cal /\ other.owner = Now.owner
      /\ other.issue = [Now.issue EXCEPT ![q.on] = Verdict(q)]
  BY DEF After, Now
<1>4. other.issue \in [Findings -> Issue]
  BY <1>1, <1>2, <1>3
<1>5. ReadAlike(Now, other)
  BY <1>3, <1>4, NowIsRead DEF ReadAlike
<1>6. QED
  BY <1>1, <1>2, <1>3, <1>5

\* Whoever it is about, a rejection costs nothing.
LEMMA RejectionImproves ==
  ASSUME TypeOK, NEW q, RequestOK(q), q.pc = "update", q.action = "reject",
         NEW other, other = After(Now, q), NEW e
  PROVE  Improves(other, Now, e)
<1>1. PICK read, own, floor : read = Now /\ own = Own(e, read) /\ floor = Floor(read)
  OBVIOUS
<1>2. /\ ReadAlike(read, other) /\ q.on \in Findings /\ other.issue[q.on] = Verdict(q)
      /\ \A g \in Findings \ {q.on} : other.issue[g] = read.issue[g]
  BY <1>1, AfterIs
<1>3. own \subseteq Findings /\ own = Own(e, other)
  <2>1. Own(e, other) = Own(e, read)
    BY <1>2, AlikeBothWays
  <2>2. QED
    BY <1>1, <2>1 DEF Own
<1>4. floor \in Percent
  BY <1>1, <1>2, FloorIn DEF ReadAlike
<1>5. Verdict(q).status = "rejected"
  BY DEF Verdict
<1>6. ASSUME NEW x \in own
      PROVE  Deduction(Table(other)[x], floor) <= Deduction(Table(read)[x], floor)
  <2>1. Found(Table(read)[x]) /\ Found(Table(other)[x])
    BY <1>2, <1>3, TableIn
  <2>2. CASE x = q.on
    <3>1. Table(other)[x].status = "rejected"
      BY <1>2, <1>5, <2>2 DEF Table
    <3>2. QED
      BY <1>4, <2>1, <3>1, RejectedIsCheaper
  <2>3. CASE x # q.on
    <3>1. Table(other)[x] = Table(read)[x]
      BY <1>2, <1>3, <2>3 DEF Table, ReadAlike
    <3>2. Deduction(Table(read)[x], floor) \in Nat
      BY <1>4, <2>1, DeductionIn
    <3>3. QED
      BY <3>1, <3>2
  <2>4. QED
    BY <2>2, <2>3
<1>7. CheaperBy(other, read, own)
  BY <1>1, <1>6 DEF CheaperBy
<1>8. Critical(e, other) => Critical(e, read)
  <2>1. SUFFICES ASSUME NEW x \in own,
                        other.issue[x] = [severity |-> "critical", status |-> "confirmed"]
                 PROVE  read.issue[x] = [severity |-> "critical", status |-> "confirmed"]
    BY <1>1, <1>3 DEF Critical
  <2>2. x # q.on
    BY <1>2, <1>5, <2>1
  <2>3. QED
    BY <1>2, <1>3, <2>1, <2>2
<1>9. QED
  BY <1>1, <1>7, <1>8 DEF Improves

\* Nor does a confirmation let anything off.
LEMMA ConfirmationWorsens ==
  ASSUME TypeOK, NEW q, RequestOK(q), q.pc = "update", q.action = "confirm",
         q.read = issue[q.on].severity, NEW other, other = After(Now, q), NEW e
  PROVE  Improves(Now, other, e)
<1>1. PICK read, own, floor : read = Now /\ own = Own(e, read) /\ floor = Floor(read)
  OBVIOUS
<1>2. /\ ReadAlike(read, other) /\ q.on \in Findings /\ other.issue[q.on] = Verdict(q)
      /\ \A g \in Findings \ {q.on} : other.issue[g] = read.issue[g]
  BY <1>1, AfterIs
<1>3. own \subseteq Findings /\ own = Own(e, other) /\ Floor(other) = floor
  <2>1. Own(e, other) = Own(e, read)
    BY <1>2, AlikeBothWays
  <2>2. Floor(other) = Floor(read)
    BY <1>2 DEF Floor, ReadAlike
  <2>3. QED
    BY <1>1, <2>1, <2>2 DEF Own
<1>4. floor \in Percent
  BY <1>1, <1>2, FloorIn DEF ReadAlike
<1>5. Verdict(q) = [severity |-> read.issue[q.on].severity, status |-> "confirmed"]
  BY <1>1 DEF Verdict, Now
<1>6. ASSUME NEW x \in own
      PROVE  Deduction(Table(read)[x], floor) <= Deduction(Table(other)[x], floor)
  <2>1. Found(Table(read)[x]) /\ Found(Table(other)[x])
    BY <1>2, <1>3, TableIn
  <2>2. CASE x = q.on
    <3>1. /\ Table(other)[x].status = "confirmed"
          /\ Table(other)[x].severity = Table(read)[x].severity
      BY <1>2, <1>5, <2>2 DEF Table
    <3>2. QED
      BY <1>4, <2>1, <3>1, ConfirmedIsDearer
  <2>3. CASE x # q.on
    <3>1. Table(other)[x] = Table(read)[x]
      BY <1>2, <1>3, <2>3 DEF Table, ReadAlike
    <3>2. Deduction(Table(read)[x], floor) \in Nat
      BY <1>4, <2>1, DeductionIn
    <3>3. QED
      BY <3>1, <3>2
  <2>4. QED
    BY <2>2, <2>3
<1>7. CheaperBy(read, other, own)
  BY <1>3, <1>6 DEF CheaperBy
<1>8. Critical(e, read) => Critical(e, other)
  <2>1. SUFFICES ASSUME NEW x \in own,
                        read.issue[x] = [severity |-> "critical", status |-> "confirmed"]
                 PROVE  other.issue[x] = [severity |-> "critical", status |-> "confirmed"]
    BY <1>1, <1>3 DEF Critical
  <2>2. CASE x = q.on
    BY <1>2, <1>5, <2>1, <2>2
  <2>3. CASE x # q.on
    BY <1>2, <1>3, <2>1, <2>3
  <2>4. QED
    BY <2>2, <2>3
<1>9. QED
  BY <1>1, <1>3, <1>7, <1>8 DEF Improves

\* A verdict on its way is fair to everybody on the board.
LEMMA VerdictIsFair ==
  ASSUME TypeOK, NEW q, RequestOK(q), q.pc = "update",
         NEW before, before = Board(Now), NEW after, after = Board(After(Now, q))
  PROVE  Fair(q, before, after)
<1>1. PICK read, other : read = Now /\ other = After(Now, q)
  OBVIOUS
<1>2. /\ ReadAlike(read, other) /\ q.on \in Findings
      /\ \A g \in Findings \ {q.on} : other.issue[g] = read.issue[g]
  BY <1>1, AfterIs
<1>3. PICK of : of = owner[past.finding[q.on].on]
  OBVIOUS
<1>4. \A x : q.on \in Own(x, read) => of = x
  BY <1>1, <1>3 DEF Own, Now, Tables
<1>5. ASSUME NEW x \in DOMAIN before, x # of
      PROVE  after[x] = before[x]
  <2>1. Own(x, read) \subseteq Findings \ {q.on}
    BY <1>4, <1>5 DEF Own
  <2>2. \A g \in Own(x, read) : other.issue[g] = read.issue[g]
    BY <1>2, <2>1
  <2>3. QED
    BY <1>1, <1>2, <1>5, <2>2, SameOnBoard
<1>6. ASSUME NEW e \in DOMAIN before, e = of, q.action = "reject"
      PROVE  NoWorse(e, before, after)
  <2>1. Improves(other, read, e)
    BY <1>1, <1>6, RejectionImproves
  <2>2. before = Board(read) /\ after = Board(other)
    BY <1>1
  <2>3. \A x \in DOMAIN before \ {e} : after[x] = before[x]
    BY <1>5, <1>6
  <2>4. QED
    BY <1>2, <1>6, <2>1, <2>2, <2>3, BoardMono
<1>7. ASSUME NEW e \in DOMAIN before, e = of, q.action = "confirm",
             q.read = issue[q.on].severity
      PROVE  NoWorse(e, after, before)
  <2>1. Improves(read, other, e)
    BY <1>1, <1>7, ConfirmationWorsens
  <2>2. before = Board(read) /\ after = Board(other)
    BY <1>1
  <2>3. DOMAIN after = DOMAIN before
    BY <1>2, <2>2, BoardIs, AlikeBothWays
  <2>4. \A x \in DOMAIN after \ {e} : before[x] = after[x]
    BY <1>5, <1>7, <2>3
  <2>5. ReadAlike(other, read) /\ e \in DOMAIN after
    BY <1>2, <1>7, <2>3, AlikeBothWays
  <2>6. QED
    BY <2>1, <2>2, <2>4, <2>5, BoardMono
<1>8. QED
  BY <1>3, <1>5, <1>6, <1>7 DEF Fair

LEMMA VerdictsFair == TypeOK => VerdictsAreFair
<1>1. SUFFICES ASSUME TypeOK, NEW r \in Requests, request[r].pc = "update"
               PROVE  Fair(request[r], Board(Now),
                        Board([Now EXCEPT !.issue[request[r].on] = Verdict(request[r])]))
  BY DEF VerdictsAreFair
<1>2. PICK q : q = request[r]
  OBVIOUS
<1>3. RequestOK(q) /\ q.pc = "update"
  BY <1>1, <1>2 DEF TypeOK, StoredOK
<1>4. Fair(q, Board(Now), Board(After(Now, q)))
  BY <1>1, <1>3, VerdictIsFair
<1>5. QED
  BY <1>2, <1>4 DEF After

\* Whom a finding is about loses nothing by its rejection, neither points nor a place, and
\* gains nothing by its confirmation, and nobody else's row moves, whatever is stored and
\* however many there are (reviewIssue, gatherQualityBoard, rankEmployees).
THEOREM VerdictsMoveFairly == Spec => []VerdictsAreFair
BY VerdictsFair, BoardTypes, PTL
=============================================================================
