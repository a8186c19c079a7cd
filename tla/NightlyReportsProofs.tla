----------------------- MODULE NightlyReportsProofs -----------------------
(***************************************************************************)
(* What holds of NightlyReports for every set of processes and recipients, *)
(* every calendar and every number of days, clicks and faults.             *)
(***************************************************************************)
EXTENDS NightlyReports, FiniteSetTheorems, TLAPS

\* Every mail a run may owe is one of the mails of the model.
LEMMA OwedAreMails ==
  ASSUME NEW d \in Days, NEW manual \in BOOLEAN
  PROVE  Reports(d, manual) \subseteq Mails /\ Alerts(d) \subseteq Mails
<1>1. Reports(d, manual) \subseteq Reports(d, TRUE)
  BY DEF Reports, If
<1>2. Alerts(d) \cup Reports(d, TRUE) \subseteq Mails
  BY DEF Mails
<1>3. QED
  BY <1>1, <1>2

\* A run that starts is a run, whatever started it, and no run is one too.
LEMMA StartedRunType ==
  ASSUME NEW trigger \in Triggers, NEW force \in BOOLEAN, TypeOK
  PROVE  [NoRun EXCEPT !.phase = "data", !.trigger = trigger,
                       !.force = force, !.now = day] \in Runs
BY DEF NoRun, Runs, Phases, TypeOK

LEMMA StartRunType ==
  ASSUME TypeOK, NEW i \in Instances, NEW trigger \in Triggers, NEW force \in BOOLEAN,
         StartRun(i, trigger, force)
  PROVE  /\ running' \in [Instances -> BOOLEAN]
         /\ run' \in [Instances -> Runs]
         /\ overlap' \in BOOLEAN
BY StartedRunType DEF StartRun, TypeOK

LEMMA NoRunType == NoRun \in Runs
BY CalendarAssumption DEF NoRun, Runs, Phases, Triggers, Days

\* Mails go to recipients.
LEMMA MailRecipient == ASSUME NEW m \in Mails PROVE m.to \in Recipients
BY DEF Mails, Reports, Alerts, MailsTo, If, Recipients

\* Settling a mail, whatever its outcome, leaves a run.
LEMMA MailDoneType ==
  ASSUME TypeOK, NEW i \in Instances, NEW ok \in BOOLEAN, MailDone(i, ok)
  PROVE  run' \in [Instances -> Runs]
<1>1. run[i] \in Runs
  BY DEF TypeOK
<1>2. [run[i] EXCEPT !.phase = "mail", !.cur = NoMail, !.ok = @ /\ ok] \in Runs
  BY <1>1 DEF Runs, Phases
<1>3. QED
  BY <1>2 DEF MailDone, TypeOK

\* Counting a delivery, or a lost row, keeps the counters natural numbers.
LEMMA BumpType ==
  ASSUME NEW f \in [Mails -> Nat], NEW m \in Mails
  PROVE  Bump(f, m) \in [Mails -> Nat]
BY DEF Bump

\* The mail in flight is a mail.
LEMMA InFlight ==
  ASSUME TypeOK, NEW i \in Instances, run[i].phase \in {"sending", "logging"}
  PROVE  run[i].cur \in Mails
BY DEF TypeOK, Runs

\* The types of the variables: what a run owes and works on are mails, and the
\* rows and counters exist for every mail.
THEOREM TypeCorrect == Spec => []TypeOK
<1>1. ASSUME Init PROVE TypeOK
  <2>1. 1 \in Days /\ 0 \in Nat
    BY CalendarAssumption DEF Days
  <2>2. QED
    BY <1>1, <2>1, NoRunType DEF Init, TypeOK
<1>2. ASSUME TypeOK, [Next]_vars PROVE TypeOK'
  <2>1. CASE NextDay
    <3>1. day' \in Days
      BY <1>2, <2>1, CalendarAssumption DEF NextDay, TypeOK, Days
    <3>2. QED
      BY <1>2, <2>1, <3>1 DEF NextDay, TypeOK, mailbox
  <2>2. ASSUME NEW i \in Instances, CronTick(i) PROVE TypeOK'
    BY <1>2, <2>2 DEF CronTick, TypeOK, mailbox
  <2>3. ASSUME NEW i \in Instances, GetLock(i) PROVE TypeOK'
    BY <1>2, <2>3, StartedRunType DEF GetLock, StartRun, TypeOK, Triggers, mailbox
  <2>4. ASSUME NEW i \in Instances, EndCron(i) PROVE TypeOK'
    BY <1>2, <2>4 DEF EndCron, TypeOK, mailbox
  <2>5. ASSUME NEW i \in Instances, Prepare(i) PROVE TypeOK'
    <3> DEFINE manual == run[i].trigger = "send_now"
               now == run[i].now
    <3>1. PICK switchOn \in BOOLEAN, aiKey \in BOOLEAN, quiet \in SUBSET Agents :
            LET mails == IF aiKey
                         THEN Reports(now, manual) \ MailsTo("employee_followup", quiet, now)
                         ELSE Alerts(now)
            IN run' = [run EXCEPT ![i].phase = "mail",
                                  ![i].enabled = manual \/ switchOn,
                                  ![i].owed = mails,
                                  ![i].todo = mails]
      BY <2>5 DEF Prepare
    <3> DEFINE mails == IF aiKey
                        THEN Reports(now, manual) \ MailsTo("employee_followup", quiet, now)
                        ELSE Alerts(now)
    <3>2. run[i] \in Runs /\ now \in Days /\ manual \in BOOLEAN
      BY <1>2 DEF TypeOK, Runs
    <3>3. mails \subseteq Mails
      BY <3>2, OwedAreMails
    <3>4. [run[i] EXCEPT !.phase = "mail", !.enabled = manual \/ switchOn,
                         !.owed = mails, !.todo = mails] \in Runs
      <4> HIDE DEF mails, manual
      <4> QED
        BY <2>5, <3>2, <3>3 DEF Prepare, Runs, Phases
    <3>5. run' \in [Instances -> Runs]
      <4> HIDE DEF manual
      <4> QED
        BY <1>2, <3>1, <3>4 DEF TypeOK
    <3>6. QED
      BY <1>2, <2>5, <3>5 DEF Prepare, TypeOK, mailbox
  <2>6. ASSUME NEW i \in Instances, PrepareFails(i) PROVE TypeOK'
    <3>1. run' \in [Instances -> Runs] /\ running' \in [Instances -> BOOLEAN]
      BY <1>2, <2>6, NoRunType DEF PrepareFails, TypeOK
    <3>2. QED
      BY <1>2, <2>6, <3>1 DEF PrepareFails, Fault, TypeOK, mailbox
  <2>7. ASSUME NEW i \in Instances, ReportFails(i) PROVE TypeOK'
    <3>1. PICK m : run' = [run EXCEPT ![i].ok = FALSE,
                                      ![i].todo = {n \in @ : ~Abandoned(m, n)}]
      BY <2>7 DEF ReportFails
    <3>2. run[i] \in Runs
      BY <1>2 DEF TypeOK
    <3>3. [run[i] EXCEPT !.ok = FALSE, !.todo = {n \in @ : ~Abandoned(m, n)}] \in Runs
      BY <3>2 DEF Runs
    <3>5. run' \in [Instances -> Runs]
      BY <1>2, <3>1, <3>3 DEF TypeOK
    <3>6. QED
      BY <1>2, <2>7, <3>5 DEF ReportFails, Fault, TypeOK, mailbox
  <2>8. ASSUME NEW i \in Instances, CheckSent(i) PROVE TypeOK'
    <3>1. PICK m \in run[i].todo :
            run' = [run EXCEPT ![i].todo = @ \ {m},
                               ![i].phase = IF Skips(i, m) THEN "mail" ELSE "sending",
                               ![i].cur = IF Skips(i, m) THEN NoMail ELSE m]
      BY <2>8 DEF CheckSent
    <3>2. run[i] \in Runs /\ m \in Mails
      BY <1>2 DEF TypeOK, Runs
    <3>3. [run[i] EXCEPT !.todo = @ \ {m},
                         !.phase = IF Skips(i, m) THEN "mail" ELSE "sending",
                         !.cur = IF Skips(i, m) THEN NoMail ELSE m] \in Runs
      BY <3>2, NoMailAssumption DEF Runs, Phases
    <3>4. run' \in [Instances -> Runs]
      BY <1>2, <3>1, <3>3 DEF TypeOK
    <3>5. QED
      BY <1>2, <2>8, <3>4 DEF CheckSent, TypeOK, mailbox
  <2>9. ASSUME NEW i \in Instances, NEW m \in Mails, Delivered(i, m)
        PROVE  /\ copies' \in [Mails -> Nat]
               /\ forced' \in [Mails -> Nat]
               /\ covered' \subseteq [to : Recipients, until : Int]
    <3>1. run[i].now - 1 \in Int /\ m.to \in Recipients
      BY <1>2, MailRecipient DEF TypeOK, Runs, Days
    <3>2. QED
      BY <1>2, <2>9, <3>1, BumpType DEF Delivered, TypeOK
  <2>10. ASSUME NEW i \in Instances, SendOk(i) PROVE TypeOK'
    <3>1. run[i] \in Runs /\ run[i].cur \in Mails
      BY <1>2, <2>10, InFlight DEF SendOk, TypeOK
    <3>2. [run[i] EXCEPT !.phase = "logging"] \in Runs
      BY <2>10, <3>1 DEF SendOk, Runs, Phases
    <3>3. run' \in [Instances -> Runs]
      BY <1>2, <2>10, <3>2 DEF SendOk, TypeOK
    <3>4. QED
      BY <1>2, <2>9, <2>10, <3>1, <3>3 DEF SendOk, TypeOK
  <2>11. ASSUME NEW i \in Instances, LogSent(i) PROVE TypeOK'
    BY <1>2, <2>11, MailDoneType DEF LogSent, TypeOK
  <2>12. ASSUME NEW i \in Instances,
                SendFails(i) \/ SendUnconfirmed(i) \/ LogSentFails(i)
         PROVE  TypeOK'
    <3>1. run[i].cur \in Mails
      BY <1>2, <2>12, InFlight DEF SendFails, SendUnconfirmed, LogSentFails
    <3>2. run' \in [Instances -> Runs]
      BY <1>2, <2>12, MailDoneType DEF SendFails, SendUnconfirmed, LogSentFails
    <3>3. /\ log' \in [Mails -> {"none", "sent", "error"}]
          /\ lost' \in [Mails -> Nat]
      BY <1>2, <2>12, <3>1, BumpType
         DEF SendFails, SendUnconfirmed, LogSentFails, TypeOK
    <3>4. /\ copies' \in [Mails -> Nat]
          /\ forced' \in [Mails -> Nat]
          /\ covered' \subseteq [to : Recipients, until : Int]
      BY <1>2, <2>9, <2>12, <3>1 DEF SendFails, SendUnconfirmed, LogSentFails, TypeOK
    <3>5. Fault /\ UNCHANGED <<day, up, due, cronFlag, conn, running, overlap, manuals>>
      BY <2>12 DEF SendFails, SendUnconfirmed, LogSentFails
    <3>6. faults' \in Nat
      BY <1>2, <3>5 DEF Fault, TypeOK
    <3>7. QED
      BY <1>2, <3>2, <3>3, <3>4, <3>5, <3>6 DEF TypeOK
  <2>13. ASSUME NEW i \in Instances, Finish(i) PROVE TypeOK'
    BY <1>2, <2>13, NoRunType DEF Finish, TypeOK, mailbox
  <2>14. ASSUME NEW i \in Instances, Button(i) PROVE TypeOK'
    <3>1. CASE RunNightlyButton(i)
      <4>1. PICK force \in BOOLEAN : StartRun(i, "run_nightly", force)
        BY <3>1 DEF RunNightlyButton
      <4>2. QED
        BY <1>2, <3>1, <4>1, StartRunType DEF RunNightlyButton, TypeOK, Triggers, mailbox
    <3>2. CASE SendReportsNow(i)
      <4>1. /\ running' \in [Instances -> BOOLEAN]
            /\ run' \in [Instances -> Runs]
            /\ overlap' \in BOOLEAN
        BY <1>2, <3>2, StartRunType DEF SendReportsNow, Triggers
      <4>2. QED
        BY <1>2, <3>2, <4>1 DEF SendReportsNow, TypeOK, mailbox
    <3>3. QED
      BY <2>14, <3>1, <3>2 DEF Button
  <2>15. ASSUME NEW i \in Instances, Crash(i) PROVE TypeOK'
    <3>1. lost' \in [Mails -> Nat]
      BY <1>2, <2>15, InFlight, BumpType DEF Crash, TypeOK
    <3>2. QED
      BY <1>2, <2>15, <3>1, NoRunType DEF Crash, Fault, TypeOK
  <2>16. ASSUME NEW i \in Instances, Restart(i) PROVE TypeOK'
    BY <1>2, <2>16 DEF Restart, TypeOK, mailbox
  <2>19. ASSUME NEW i \in Instances, LoseConnection(i) PROVE TypeOK'
    BY <1>2, <2>19 DEF LoseConnection, Fault, TypeOK, mailbox
  <2>20. ASSUME NEW i \in Instances, LockFails(i) PROVE TypeOK'
    BY <1>2, <2>20 DEF LockFails, Fault, TypeOK, mailbox
  <2>17. CASE UNCHANGED vars
    BY <1>2, <2>17 DEF vars, process, mailbox, TypeOK
  <2>18. QED
    BY <1>2, <2>1, <2>2, <2>3, <2>4, <2>5, <2>6, <2>7, <2>8, <2>10, <2>11, <2>12,
       <2>13, <2>14, <2>15, <2>16, <2>17, <2>19, <2>20 DEF Next, Step, Failure
<1>3. QED
  BY <1>1, <1>2, PTL DEF Spec

-----------------------------------------------------------------------------
(* The scheduler, its lock and the runs. *)

\* GuardsTrackRuns is inductive once the flag is known to be up exactly while
\* the cron task has a connection, and the lock to have one holder.
GuardInv ==
  /\ GuardsTrackRuns
  /\ \A i \in Instances : cronFlag[i] <=> conn[i] # "none"
  /\ \A i, j \in Instances : conn[i] = "held" /\ conn[j] = "held" => i = j

\* The steps of a run that is under way: it stays the same run, and neither the
\* guards nor the connection change.
Working(i) ==
  \/ Prepare(i) \/ ReportFails(i) \/ CheckSent(i) \/ SendOk(i) \/ LogSent(i)
  \/ SendFails(i) \/ SendUnconfirmed(i) \/ LogSentFails(i)

LEMMA WorkingKeepsRun ==
  ASSUME TypeOK, NEW i \in Instances, Working(i)
  PROVE  /\ UNCHANGED <<day, up, due, cronFlag, conn, running, overlap, manuals>>
         /\ \A j \in Instances : run'[j].trigger = run[j].trigger
         /\ \A j \in Instances : run'[j].force = run[j].force
         /\ \A j \in Instances : run'[j].phase = "idle" <=> run[j].phase = "idle"
         /\ \A j \in Instances \ {i} : run'[j] = run[j]
         /\ SendOk(i) \/ run'[i].phase \in {"mail", "sending"}
<1> USE DEF TypeOK, Runs, mailbox
<1>1. CASE Prepare(i)
  BY <1>1 DEF Prepare
<1>2. CASE ReportFails(i)
  BY <1>2 DEF ReportFails, NextMail
<1>3. CASE CheckSent(i)
  BY <1>3 DEF CheckSent, NextMail
<1>4. CASE SendOk(i)
  BY <1>4 DEF SendOk
<1>5. CASE LogSent(i)
  BY <1>5 DEF LogSent, MailDone
<1>6. CASE SendFails(i)
  BY <1>6 DEF SendFails, MailDone
<1>7. CASE SendUnconfirmed(i)
  BY <1>7 DEF SendUnconfirmed, MailDone
<1>8. CASE LogSentFails(i)
  BY <1>8 DEF LogSentFails, MailDone
<1>9. QED
  BY <1>1, <1>2, <1>3, <1>4, <1>5, <1>6, <1>7, <1>8 DEF Working

\* What starting a run does to the guards and the runs.
LEMMA StartRunFacts ==
  ASSUME TypeOK, NEW i \in Instances, NEW trigger \in Triggers, NEW force \in BOOLEAN,
         StartRun(i, trigger, force)
  PROVE  /\ running' = [running EXCEPT ![i] = TRUE]
         /\ \A j \in Instances \ {i} : run'[j] = run[j]
         /\ run'[i].phase = "data" /\ run'[i].cur = NoMail
         /\ run'[i].trigger = trigger /\ run'[i].force = force
         /\ run'[i].owed = {} /\ run'[i].todo = {}
         /\ overlap' = (overlap \/ \E j \in Instances \ {i} : running[j])
BY DEF StartRun, TypeOK, NoRun

LEMMA GuardInvStep ==
  ASSUME TypeOK, GuardInv, [Next]_vars
  PROVE  GuardInv'
<1> USE DEF GuardInv, GuardsTrackRuns, CronRunInFlight
<1>1. CASE NextDay
  BY <1>1 DEF NextDay
<1>2. ASSUME NEW i \in Instances, CronTick(i) PROVE GuardInv'
  BY <1>2 DEF CronTick, TypeOK
<1>3. ASSUME NEW i \in Instances, GetLock(i) PROVE GuardInv'
  <2>1. CASE \E j \in Instances : conn[j] = "held"
    <3>1. /\ conn[i] = "waiting"
          /\ conn' = [conn EXCEPT ![i] = "none"]
          /\ cronFlag' = [cronFlag EXCEPT ![i] = FALSE]
          /\ UNCHANGED <<running, run>>
      BY <1>3, <2>1 DEF GetLock
    <3>2. QED
      BY <3>1 DEF TypeOK
  <2>2. CASE ~(\E j \in Instances : conn[j] = "held") /\ running[i]
    BY <1>3, <2>2 DEF GetLock, TypeOK
  <2>3. CASE ~(\E j \in Instances : conn[j] = "held") /\ ~running[i]
    <3>1. /\ conn[i] = "waiting"
          /\ conn' = [conn EXCEPT ![i] = "held"]
          /\ UNCHANGED cronFlag
          /\ running' = [running EXCEPT ![i] = TRUE]
          /\ \A j \in Instances \ {i} : run'[j] = run[j]
          /\ run'[i].phase = "data" /\ run'[i].trigger = "cron"
      <4>1. /\ conn[i] = "waiting"
            /\ conn' = [conn EXCEPT ![i] = "held"]
            /\ UNCHANGED cronFlag
            /\ StartRun(i, "cron", FALSE)
        BY <1>3, <2>3 DEF GetLock
      <4>2. QED
        BY <4>1, StartRunFacts DEF Triggers
    <3>2. /\ conn'[i] = "held" /\ running'[i]
          /\ \A j \in Instances \ {i} : conn'[j] = conn[j] /\ running'[j] = running[j]
      BY <3>1 DEF TypeOK
    <3>3. \A j \in Instances : cronFlag'[j] <=> conn'[j] # "none"
      BY <3>1, <3>2
    <3>4. \A j, k \in Instances : conn'[j] = "held" /\ conn'[k] = "held" => j = k
      BY <2>3, <3>2
    <3>5. GuardsTrackRuns'
      BY <3>1, <3>2, <3>3
    <3>6. QED
      BY <3>3, <3>4, <3>5
  <2>4. QED
    BY <2>1, <2>2, <2>3
<1>4. ASSUME NEW i \in Instances, EndCron(i) PROVE GuardInv'
  BY <1>4 DEF EndCron, TypeOK
<1>5. ASSUME NEW i \in Instances, Working(i) PROVE GuardInv'
  BY <1>5, WorkingKeepsRun
<1>6. ASSUME NEW i \in Instances, Finish(i) \/ PrepareFails(i) PROVE GuardInv'
  BY <1>6 DEF Finish, PrepareFails, TypeOK, NoRun
<1>7. ASSUME NEW i \in Instances, Button(i) PROVE GuardInv'
  <2>1. PICK trigger \in {"run_nightly", "send_now"}, force \in BOOLEAN :
          StartRun(i, trigger, force)
    BY <1>7 DEF Button, RunNightlyButton, SendReportsNow
  <2>2. /\ running' = [running EXCEPT ![i] = TRUE]
        /\ \A j \in Instances \ {i} : run'[j] = run[j]
        /\ run'[i].phase = "data" /\ run'[i].trigger # "cron"
    BY <2>1, StartRunFacts DEF Triggers
  <2>3. UNCHANGED <<conn, cronFlag>>
    BY <1>7 DEF Button, RunNightlyButton, SendReportsNow
  <2>4. QED
    BY <2>2, <2>3 DEF TypeOK
<1>8. ASSUME NEW i \in Instances, Crash(i) PROVE GuardInv'
  BY <1>8 DEF Crash, TypeOK, NoRun
<1>9. ASSUME NEW i \in Instances, LoseConnection(i) \/ LockFails(i) PROVE GuardInv'
  BY <1>9 DEF LoseConnection, LockFails, TypeOK
<1>10. ASSUME NEW i \in Instances, Restart(i) PROVE GuardInv'
  BY <1>10 DEF Restart
<1>11. CASE UNCHANGED vars
  BY <1>11 DEF vars, process
<1>12. QED
  BY <1>1, <1>2, <1>3, <1>4, <1>5, <1>6, <1>7, <1>8, <1>9, <1>10, <1>11
     DEF Next, Step, Failure, Working

\* A guard is up exactly while its run is in flight, in every process and
\* whatever fails: no second run starts beside the first, and the scheduled run
\* holds its flag and connection to the end.
THEOREM GuardsHold == Spec => []GuardInv
<1>1. Init => GuardInv
  BY DEF Init, GuardInv, GuardsTrackRuns, CronRunInFlight, NoRun
<1>2. QED
  BY <1>1, GuardInvStep, TypeCorrect, PTL DEF Spec

THEOREM GuardsTrack == Spec => []GuardsTrackRuns
BY GuardsHold, PTL DEF GuardInv

\* Two processes run the scheduled pipeline at once only if one of them lost
\* the connection its leader lock lived on.
THEOREM CronExclusion == Spec => []CronRunsExclude
<1>1. GuardInv => CronRunsExclude
  BY DEF GuardInv, GuardsTrackRuns, CronRunsExclude
<1>2. QED
  BY <1>1, GuardsHold, PTL

-----------------------------------------------------------------------------
(* The email log and the mailboxes. *)

\* The steps of Working that touch neither the log nor a mailbox, and what the
\* others do to them, one mail at a time.
LEMMA QuietWork ==
  ASSUME NEW i \in Instances, Prepare(i) \/ ReportFails(i) \/ CheckSent(i)
  PROVE  UNCHANGED mailbox
BY DEF Prepare, ReportFails, CheckSent, mailbox

LEMMA MailWork ==
  ASSUME TypeOK, NEW i \in Instances,
         SendOk(i) \/ LogSent(i) \/ SendFails(i) \/ SendUnconfirmed(i) \/ LogSentFails(i)
  PROVE  /\ run[i].cur \in Mails
         /\ \A m \in Mails \ {run[i].cur} :
              /\ log'[m] = log[m] /\ copies'[m] = copies[m]
              /\ forced'[m] = forced[m] /\ lost'[m] = lost[m]
<1> USE DEF Delivered, Bump, TypeOK
<1>1. run[i].cur \in Mails
  BY InFlight DEF SendOk, LogSent, SendFails, SendUnconfirmed, LogSentFails
<1>2. CASE SendOk(i)
  BY <1>1, <1>2 DEF SendOk
<1>3. CASE LogSent(i)
  BY <1>1, <1>3 DEF LogSent
<1>4. CASE SendFails(i)
  BY <1>1, <1>4 DEF SendFails
<1>5. CASE SendUnconfirmed(i)
  BY <1>1, <1>5 DEF SendUnconfirmed
<1>6. CASE LogSentFails(i)
  BY <1>1, <1>6 DEF LogSentFails
<1>7. QED
  BY <1>1, <1>2, <1>3, <1>4, <1>5, <1>6

\* Nobody unmails a delivered mail.
LEMMA CopiesGrow ==
  ASSUME TypeOK, [Next]_vars
  PROVE  \A m \in Mails : copies'[m] >= copies[m]
<1> USE DEF TypeOK, mailbox
<1>1. ASSUME NEW i \in Instances, Delivered(i, run[i].cur), run[i].cur \in Mails
      PROVE  \A m \in Mails : copies'[m] >= copies[m]
  BY <1>1 DEF Delivered, Bump
<1>2. ASSUME NEW i \in Instances, SendOk(i) \/ SendUnconfirmed(i)
      PROVE  \A m \in Mails : copies'[m] >= copies[m]
  BY <1>1, <1>2, InFlight DEF SendOk, SendUnconfirmed
<1>3. CASE UNCHANGED copies
  BY <1>3
<1>4. (\E i \in Instances : SendOk(i) \/ SendUnconfirmed(i)) \/ UNCHANGED copies
  BY DEF Next, Step, Button, Failure, NextDay, CronTick, GetLock, EndCron, Prepare,
         CheckSent, LogSent, Finish, RunNightlyButton, SendReportsNow, PrepareFails,
         ReportFails, SendFails, LogSentFails, Crash, LoseConnection, LockFails, Restart, vars
<1>5. QED
  BY <1>2, <1>3, <1>4

\* LogIsTruthful is inductive with what is true between a delivery and its row.
MailInv ==
  /\ LogIsTruthful
  /\ \A i \in Instances : run[i].phase = "logging" => copies[run[i].cur] > 0

LEMMA MailInvStep ==
  ASSUME TypeOK, TypeOK', MailInv, [Next]_vars
  PROVE  MailInv'
<1>1. \A m \in Mails : copies'[m] >= copies[m] /\ copies[m] \in Nat /\ copies'[m] \in Nat
  BY CopiesGrow DEF TypeOK
<1>2. ASSUME NEW m \in Mails, log'[m] = "sent" PROVE copies'[m] > 0
  <2>1. log[m] = "sent" \/ \E i \in Instances : LogSent(i) /\ m = run[i].cur
    <3>1. ASSUME NEW i \in Instances, LogSent(i), m # run[i].cur PROVE log'[m] = log[m]
      BY <3>1, MailWork
    <3>2. ASSUME NEW i \in Instances, SendFails(i) \/ SendUnconfirmed(i) \/ LogSentFails(i)
          PROVE  log'[m] = log[m] \/ log'[m] = "error"
      BY <3>2, InFlight DEF SendFails, SendUnconfirmed, LogSentFails, TypeOK
    <3>3. \/ \E i \in Instances : \/ LogSent(i) \/ SendFails(i)
                                  \/ SendUnconfirmed(i) \/ LogSentFails(i)
          \/ UNCHANGED log
      BY DEF Next, Step, Button, Failure, NextDay, CronTick, GetLock, EndCron, Prepare,
             CheckSent, SendOk, Finish, RunNightlyButton, SendReportsNow, PrepareFails,
             ReportFails, Crash, LoseConnection, LockFails, Restart, vars, mailbox
    <3>4. QED
      BY <1>2, <3>1, <3>2, <3>3
  <2>2. copies[m] > 0
    BY <2>1 DEF MailInv, LogIsTruthful, LogSent
  <2>3. QED
    BY <1>1, <2>2
<1>3. ASSUME NEW i \in Instances, run'[i].phase = "logging" PROVE copies'[run'[i].cur] > 0
  <2>1. CASE SendOk(i)
    <3>1. run'[i].cur = run[i].cur /\ run[i].cur \in Mails
      BY <2>1, InFlight DEF SendOk, TypeOK
    <3>2. QED
      BY <1>1, <2>1, <3>1 DEF SendOk, Delivered, Bump, TypeOK
  <2>2. CASE run'[i] = run[i]
    <3>1. run[i].cur \in Mails
      BY <1>3, <2>2, InFlight
    <3>2. QED
      BY <1>1, <1>3, <2>2, <3>1 DEF MailInv
  <2>3. SendOk(i) \/ run'[i] = run[i]
    <3>1. ASSUME NEW j \in Instances, NEW r, r.phase # "logging",
                 run' = [run EXCEPT ![j] = r]
          PROVE  run'[i] = run[i]
      BY <1>3, <3>1 DEF TypeOK
    <3>2. ASSUME NEW j \in Instances, Working(j) PROVE SendOk(i) \/ run'[i] = run[i]
      <4>1. CASE i # j
        BY <3>2, <4>1, WorkingKeepsRun
      <4>2. CASE i = j /\ ~SendOk(i)
        <5>1. run'[i].phase # "logging"
          BY <3>2, <4>2, WorkingKeepsRun
        <5>2. QED
          BY <1>3, <5>1
      <4>3. QED
        BY <4>1, <4>2
    <3>3. NoRun.phase # "logging"
      BY DEF NoRun
    <3>4. ASSUME NEW j \in Instances, Finish(j) \/ PrepareFails(j) \/ Crash(j)
          PROVE  run'[i] = run[i]
      BY <3>1, <3>3, <3>4 DEF Finish, PrepareFails, Crash
    <3>5. ASSUME NEW j \in Instances, NEW trigger, NEW force, StartRun(j, trigger, force)
          PROVE  run'[i] = run[i]
      BY <3>1, <3>5 DEF StartRun, NoRun
    <3>6. ASSUME NEW j \in Instances, Button(j) \/ GetLock(j)
          PROVE  run'[i] = run[i]
      BY <3>5, <3>6 DEF Button, RunNightlyButton, SendReportsNow, GetLock
    <3>7. ASSUME NEW j \in Instances,
                 CronTick(j) \/ EndCron(j) \/ LoseConnection(j) \/ LockFails(j) \/ Restart(j)
          PROVE  run'[i] = run[i]
      BY <3>7 DEF CronTick, EndCron, LoseConnection, LockFails, Restart
    <3>8. CASE NextDay \/ UNCHANGED vars
      BY <3>8 DEF NextDay, vars, process
    <3>9. QED
      BY <3>2, <3>4, <3>6, <3>7, <3>8 DEF Next, Step, Failure, Working
  <2>4. QED
    BY <2>1, <2>2, <2>3
<1>4. QED
  BY <1>2, <1>3 DEF MailInv, LogIsTruthful

\* The log claims a mail only when it was delivered: skipping it as already
\* sent never leaves its reader without it.
THEOREM TruthfulLog == Spec => []LogIsTruthful
<1>1. Init => MailInv
  BY DEF Init, MailInv, LogIsTruthful, NoRun
<1>2. Spec => []MailInv
  BY <1>1, MailInvStep, TypeCorrect, PTL DEF Spec
<1>3. MailInv => LogIsTruthful
  BY DEF MailInv
<1>4. QED
  BY <1>2, <1>3, PTL

-----------------------------------------------------------------------------
(* Duplicates. *)

InHand(i, m) == run[i].phase \in {"sending", "logging"} /\ run[i].cur = m

\* The delivery of m is on record, or about to be.
Recorded(m) ==
  log[m] = "sent" \/ \E i \in Instances : run[i].phase = "logging" /\ run[i].cur = m

\* As long as no two processes ran at once: one run at most is in flight, an
\* unforced one works on a mail without a 'sent' row, and a mail has one
\* delivery for its record and one for each excuse.
DupInv ==
  /\ \A i, j \in Instances : running[i] /\ running[j] => i = j
  /\ \A i \in Instances : run[i].phase # "idle" => running[i]
  /\ \A i \in Instances, m \in Mails : InHand(i, m) /\ ~run[i].force => log[m] # "sent"
  /\ \A m \in Mails :
       copies[m] <= forced[m] + lost[m] + (IF Recorded(m) THEN 1 ELSE 0)

\* The steps that leave the log and the mailboxes alone and put no mail in hand.
LEMMA DupInvQuiet ==
  ASSUME TypeOK, DupInv, UNCHANGED mailbox,
         \A i \in Instances : run'[i].phase \in {"sending", "logging"} => run'[i] = run[i],
         \A m \in Mails : Recorded(m) <=> Recorded(m)',
         \A i \in Instances : run'[i].phase # "idle" => running'[i],
         \A i, j \in Instances : running'[i] /\ running'[j] => i = j
  PROVE  DupInv'
BY DEF DupInv, InHand, mailbox

LEMMA OverlapGrows ==
  ASSUME TypeOK, [Next]_vars, ~overlap' PROVE ~overlap
BY DEF Next, Step, Button, Failure, NextDay, CronTick, GetLock, StartRun, EndCron,
       Prepare, CheckSent, SendOk, LogSent, Finish, RunNightlyButton, SendReportsNow,
       PrepareFails, ReportFails, SendFails, SendUnconfirmed, LogSentFails, Crash,
       LoseConnection, LockFails, Restart, vars, TypeOK

\* A step that settles or delivers the mail in hand of run i, or crashes it:
\* the four facts about that one mail are enough.
LEMMA DupInvMail ==
  ASSUME TypeOK, TypeOK', DupInv, NEW i \in Instances, NEW m \in Mails,
         running[i], UNCHANGED running \/ running' = [running EXCEPT ![i] = FALSE],
         run[i].cur = m,
         \A j \in Instances \ {i} : run'[j] = run[j],
         \A j \in Instances : run'[j].phase # "idle" => running'[j],
         run'[i].phase \in {"sending", "logging"} =>
           run'[i].cur = m /\ run'[i].force = run[i].force,
         \A n \in Mails \ {m} : /\ log'[n] = log[n] /\ copies'[n] = copies[n]
                                /\ forced'[n] = forced[n] /\ lost'[n] = lost[n],
         InHand(i, m)' /\ ~run[i].force => log'[m] # "sent",
         copies'[m] <= forced'[m] + lost'[m] + (IF Recorded(m)' THEN 1 ELSE 0)
  PROVE  DupInv'
<1>1. \A j, k \in Instances : running'[j] /\ running'[k] => j = k
  BY DEF DupInv, TypeOK
<1>2. \A j \in Instances \ {i} : run[j].phase = "idle"
  BY DEF DupInv
<1>3. \A n \in Mails \ {m} : Recorded(n)' <=> Recorded(n)
  BY <1>2 DEF Recorded
<1>4. ASSUME NEW j \in Instances, NEW n \in Mails, InHand(j, n)', ~run'[j].force
      PROVE  log'[n] # "sent"
  <2>1. j = i /\ n = m
    BY <1>2, <1>4 DEF InHand
  <2>2. QED
    BY <1>4, <2>1 DEF InHand
<1>5. ASSUME NEW n \in Mails
      PROVE  copies'[n] <= forced'[n] + lost'[n] + (IF Recorded(n)' THEN 1 ELSE 0)
  BY <1>3 DEF DupInv
<1>6. QED
  BY <1>1, <1>4, <1>5 DEF DupInv

\* While no two processes ever ran at once, nothing breaks the account.
LEMMA DupInvStep ==
  ASSUME TypeOK, TypeOK', GuardInv, GuardInv', ~overlap', DupInv, [Next]_vars
  PROVE  DupInv'
<1> DEFINE Live(i) == run[i].phase # "idle"
<1>1. \A i \in Instances : (Live(i) <=> running[i]) /\ (Live(i)' <=> running'[i])
  BY DEF GuardInv, GuardsTrackRuns
<1>2. \A m \in Mails : /\ copies[m] \in Nat /\ copies'[m] \in Nat
                       /\ forced[m] \in Nat /\ forced'[m] \in Nat
                       /\ lost[m] \in Nat /\ lost'[m] \in Nat
  BY DEF TypeOK
<1>3. ASSUME UNCHANGED <<mailbox, run, running>> PROVE DupInv'
  BY <1>3 DEF DupInv, InHand, Recorded, mailbox
<1>4. CASE NextDay \/ UNCHANGED vars
  BY <1>3, <1>4 DEF NextDay, vars, process
<1>5. ASSUME NEW i \in Instances, CronTick(i) \/ EndCron(i) \/ Restart(i) \/ LoseConnection(i) \/ LockFails(i)
      PROVE  DupInv'
  BY <1>3, <1>5 DEF CronTick, EndCron, Restart, LoseConnection, LockFails
<1>6. ASSUME NEW i \in Instances, NEW trigger \in Triggers, NEW force \in BOOLEAN,
             StartRun(i, trigger, force), ~running[i], UNCHANGED mailbox
      PROVE  DupInv'
  <2>1. /\ running' = [running EXCEPT ![i] = TRUE]
        /\ \A j \in Instances \ {i} : run'[j] = run[j]
        /\ run'[i].phase = "data"
    BY <1>6, StartRunFacts
  <2>6. \A j \in Instances \ {i} : ~running[j]
    BY <1>6 DEF StartRun
  <2>2. \A j \in Instances : run[j].phase # "logging" /\ run'[j].phase \notin {"sending", "logging"}
    BY <1>1, <1>6, <2>1, <2>6
  <2>3. \A m \in Mails : Recorded(m) <=> Recorded(m)'
    BY <1>6, <2>2 DEF Recorded, mailbox
  <2>4. \A j, k \in Instances : running'[j] /\ running'[k] => j = k
    BY <2>1, <2>6 DEF TypeOK
  <2>5. QED
    BY <1>1, <1>6, <2>2, <2>3, <2>4, DupInvQuiet
<1>7. ASSUME NEW i \in Instances, Button(i) PROVE DupInv'
  <2>1. PICK trigger \in Triggers, force \in BOOLEAN : StartRun(i, trigger, force)
    BY <1>7 DEF Button, RunNightlyButton, SendReportsNow, Triggers
  <2>2. ~running[i] /\ UNCHANGED mailbox
    BY <1>7 DEF Button, RunNightlyButton, SendReportsNow
  <2>3. QED
    BY <1>6, <2>1, <2>2
<1>8. ASSUME NEW i \in Instances, GetLock(i) PROVE DupInv'
  <2>1. CASE UNCHANGED <<running, run>>
    BY <1>3, <1>8, <2>1 DEF GetLock
  <2>2. CASE StartRun(i, "cron", FALSE) /\ ~running[i]
    BY <1>6, <1>8, <2>2 DEF GetLock, Triggers
  <2>3. QED
    BY <1>8, <2>1, <2>2 DEF GetLock
<1>9. ASSUME NEW i \in Instances, Prepare(i) \/ ReportFails(i) \/ CheckSent(i) PROVE DupInv'
  <2>1. /\ UNCHANGED <<mailbox, running>>
        /\ \A j \in Instances \ {i} : run'[j] = run[j]
        /\ run'[i].phase # "logging"
        /\ run'[i].force = run[i].force
    <3>1. UNCHANGED running /\ ~SendOk(i)
      BY <1>9 DEF Prepare, ReportFails, CheckSent, NextMail, SendOk
    <3>2. QED
      BY <1>9, <3>1, QuietWork, WorkingKeepsRun DEF Working
  <2>2. run[i].phase \notin {"sending", "logging"}
    BY <1>9 DEF Prepare, ReportFails, CheckSent, NextMail
  <2>3. ASSUME run'[i].phase = "sending", ~run[i].force PROVE log[run'[i].cur] # "sent"
    <3>1. CASE Prepare(i)
      BY <2>3, <3>1 DEF Prepare, TypeOK, Runs
    <3>2. CASE ReportFails(i)
      BY <2>3, <3>2 DEF ReportFails, NextMail, TypeOK
    <3>3. CASE CheckSent(i)
      BY <2>3, <3>3 DEF CheckSent, NextMail, Skips, TypeOK, Runs
    <3>4. QED
      BY <1>9, <3>1, <3>2, <3>3
  <2>4. \A m \in Mails : Recorded(m)' <=> Recorded(m)
    BY <2>1, <2>2 DEF Recorded, mailbox
  <2>5. QED
    BY <1>1, <2>1, <2>3, <2>4 DEF DupInv, InHand, mailbox
<1>10. ASSUME NEW i \in Instances, Finish(i) \/ PrepareFails(i) PROVE DupInv'
  <2>1. /\ UNCHANGED mailbox
        /\ running' = [running EXCEPT ![i] = FALSE]
        /\ \A j \in Instances \ {i} : run'[j] = run[j]
        /\ run'[i].phase = "idle"
        /\ run[i].phase \notin {"sending", "logging"}
    BY <1>10 DEF Finish, PrepareFails, TypeOK, NoRun
  <2>2. \A m \in Mails : Recorded(m)' <=> Recorded(m)
    BY <2>1 DEF Recorded, mailbox
  <2>3. \A j, k \in Instances : running'[j] /\ running'[k] => j = k
    BY <2>1 DEF DupInv, TypeOK
  <2>4. QED
    BY <1>1, <2>1, <2>2, <2>3, DupInvQuiet
\* What a step with a mail in hand may assume.
<1>11. ASSUME NEW i \in Instances, NEW m, m = run[i].cur, run[i].phase \in {"sending", "logging"}
       PROVE  /\ m \in Mails /\ running[i]
              /\ copies[m] <= forced[m] + lost[m] + (IF Recorded(m) THEN 1 ELSE 0)
              /\ Recorded(m) <=> log[m] = "sent" \/ run[i].phase = "logging"
              /\ ~run[i].force => log[m] # "sent"
  <2>1. m \in Mails /\ running[i]
    BY <1>1, <1>11, InFlight
  <2>2. \A j \in Instances : run[j].phase # "idle" => j = i
    BY <1>1, <2>1 DEF DupInv
  <2>3. QED
    BY <1>11, <2>1, <2>2 DEF DupInv, InHand, Recorded
<1>12. ASSUME NEW i \in Instances, SendOk(i) PROVE DupInv'
  <2>0. PICK m \in Mails : m = run[i].cur
    BY <1>11, <1>12 DEF SendOk
  <2>1. /\ copies'[m] = copies[m] + 1
        /\ forced'[m] = forced[m] + (IF run[i].force THEN 1 ELSE 0)
        /\ lost'[m] = lost[m] /\ log'[m] = log[m]
    BY <2>0, <1>11, <1>12 DEF SendOk, Delivered, Bump, TypeOK
  <2>2. /\ run'[i].phase = "logging" /\ run'[i].cur = m /\ run'[i].force = run[i].force
        /\ \A j \in Instances \ {i} : run'[j] = run[j]
        /\ UNCHANGED running
    BY <2>0, <1>12 DEF SendOk, TypeOK, Runs
  <2>3. Recorded(m)'
    BY <2>0, <2>2 DEF Recorded
  <2>4. copies'[m] <= forced'[m] + lost'[m] + 1
    BY <2>0, <1>2, <1>11, <1>12, <2>1 DEF SendOk
  <2>5. \A n \in Mails \ {m} : /\ log'[n] = log[n] /\ copies'[n] = copies[n]
                                /\ forced'[n] = forced[n] /\ lost'[n] = lost[n]
    BY <2>0, <1>12, MailWork
  <2>6. m \in Mails /\ running[i] /\ (~run[i].force => log'[m] # "sent")
    BY <2>0, <1>11, <1>12, <2>1 DEF SendOk
  <2>7. copies'[m] <= forced'[m] + lost'[m] + (IF Recorded(m)' THEN 1 ELSE 0)
    BY <2>0, <2>3, <2>4
  <2>8. \A j \in Instances : run'[j].phase # "idle" => running'[j]
    BY <2>0, <1>1
  <2>9. QED
    BY <2>0, <2>2, <2>5, <2>6, <2>7, <2>8, DupInvMail
<1>13. ASSUME NEW i \in Instances,
              LogSent(i) \/ SendFails(i) \/ SendUnconfirmed(i) \/ LogSentFails(i)
       PROVE  DupInv'
  <2>0. PICK m \in Mails : m = run[i].cur
    BY <1>11, <1>13 DEF LogSent, SendFails, SendUnconfirmed, LogSentFails
  <2>1. /\ run'[i].phase = "mail"
        /\ \A j \in Instances \ {i} : run'[j] = run[j]
        /\ UNCHANGED running
    BY <2>0, <1>13 DEF LogSent, SendFails, SendUnconfirmed, LogSentFails, MailDone, TypeOK, Runs
  <2>2. run[i].phase \in {"sending", "logging"} /\ m \in Mails
    BY <2>0, <1>11, <1>13 DEF LogSent, SendFails, SendUnconfirmed, LogSentFails
  <2>3. log'[m] = "sent" => Recorded(m)'
    BY <2>0, <2>1 DEF Recorded
  <2>4. copies'[m] <= forced'[m] + lost'[m] + (IF Recorded(m)' THEN 1 ELSE 0)
    <3>1. CASE LogSent(i)
      BY <2>0, <1>2, <1>11, <2>2, <2>3, <3>1 DEF LogSent, TypeOK
    <3>2. CASE SendFails(i)
      <4>1. /\ copies'[m] = copies[m] /\ forced'[m] = forced[m]
            /\ \/ log'[m] = log[m] /\ lost'[m] = lost[m]
               \/ log[m] = "sent" /\ lost'[m] = lost[m] + 1
               \/ log[m] # "sent" /\ lost'[m] = lost[m]
        BY <2>0, <2>2, <3>2 DEF SendFails, Bump, TypeOK
      <4>2. Recorded(m) <=> log[m] = "sent"
        BY <2>0, <1>11, <3>2 DEF SendFails
      <4>3. QED
        BY <2>0, <1>2, <1>11, <2>2, <2>3, <4>1, <4>2
    <3>3. CASE SendUnconfirmed(i)
      <4>1. /\ copies'[m] = copies[m] + 1 /\ lost'[m] = lost[m] + 1
            /\ forced'[m] = forced[m] + (IF run[i].force THEN 1 ELSE 0)
        BY <2>0, <2>2, <3>3 DEF SendUnconfirmed, Delivered, Bump, TypeOK
      <4>2. Recorded(m) => run[i].force
        BY <2>0, <1>11, <3>3 DEF SendUnconfirmed
      <4>3. QED
        BY <2>0, <1>2, <1>11, <2>2, <4>1, <4>2
    <3>4. CASE LogSentFails(i)
      <4>1. /\ copies'[m] = copies[m] /\ lost'[m] = lost[m] + 1 /\ forced'[m] = forced[m]
        BY <2>0, <2>2, <3>4 DEF LogSentFails, Bump, TypeOK
      <4>2. QED
        BY <2>0, <1>2, <1>11, <2>2, <4>1
    <3>5. QED
      BY <2>0, <1>13, <3>1, <3>2, <3>3, <3>4
  <2>5. \A n \in Mails \ {m} : /\ log'[n] = log[n] /\ copies'[n] = copies[n]
                                /\ forced'[n] = forced[n] /\ lost'[n] = lost[n]
    BY <2>0, <1>13, MailWork
  <2>6. running[i] /\ ~InHand(i, m)'
    BY <2>0, <1>11, <2>1, <2>2 DEF InHand
  <2>7. \A j \in Instances : run'[j].phase # "idle" => running'[j]
    BY <2>0, <1>1
  <2>8. QED
    BY <2>0, <2>1, <2>2, <2>4, <2>5, <2>6, <2>7, DupInvMail
<1>14. ASSUME NEW i \in Instances, Crash(i) PROVE DupInv'
  <2>1. /\ running' = [running EXCEPT ![i] = FALSE]
        /\ \A j \in Instances \ {i} : run'[j] = run[j]
        /\ run'[i].phase = "idle"
        /\ UNCHANGED <<log, copies, forced>>
    BY <1>14 DEF Crash, TypeOK, NoRun
  <2>2. CASE run[i].phase = "logging"
    <3>0. PICK m \in Mails : m = run[i].cur
      BY <1>11, <2>2
    <3>1. m \in Mails /\ running[i]
      BY <3>0, <1>11, <2>2
    <3>2. /\ lost'[m] = lost[m] + 1
          /\ \A n \in Mails \ {m} : lost'[n] = lost[n]
      BY <3>0, <1>14, <2>2, <3>1 DEF Crash, Bump, TypeOK
    <3>3. copies'[m] <= forced'[m] + lost'[m] + (IF Recorded(m)' THEN 1 ELSE 0)
      BY <3>0, <1>2, <1>11, <2>1, <2>2, <3>1, <3>2
    <3>4. /\ ~InHand(i, m)'
          /\ \A j \in Instances : run'[j].phase # "idle" => running'[j]
          /\ \A n \in Mails \ {m} : /\ log'[n] = log[n] /\ copies'[n] = copies[n]
                                    /\ forced'[n] = forced[n] /\ lost'[n] = lost[n]
      BY <3>0, <1>1, <2>1, <3>2 DEF InHand
    <3>5. QED
      BY <3>0, <2>1, <3>1, <3>3, <3>4, DupInvMail
  <2>3. CASE run[i].phase # "logging"
    <3>1. UNCHANGED mailbox
      BY <1>14, <2>1, <2>3 DEF Crash, mailbox
    <3>2. \A n \in Mails : Recorded(n)' <=> Recorded(n)
      BY <2>1, <2>3 DEF Recorded
    <3>3. \A j, k \in Instances : running'[j] /\ running'[k] => j = k
      BY <2>1 DEF DupInv, TypeOK
    <3>4. QED
      BY <1>1, <2>1, <3>1, <3>2, <3>3, DupInvQuiet
  <2>4. QED
    BY <2>2, <2>3
<1>15. QED
  BY <1>4, <1>5, <1>7, <1>8, <1>9, <1>10, <1>12, <1>13, <1>14 DEF Next, Step, Failure

\* A reader gets the same mail again only by a forced run or after a delivery
\* that lost its 'sent' row, as long as no two processes ran at once.
THEOREM DuplicatesExcused == Spec => []DuplicatesAreExcused
<1> DEFINE Account == ~overlap => DupInv
<1>1. Init => Account
  BY DEF Init, DupInv, InHand, Recorded, NoRun
<1>2. TypeOK /\ TypeOK' /\ GuardInv /\ GuardInv' /\ Account /\ [Next]_vars => Account'
  BY DupInvStep, OverlapGrows
<1>3. TypeOK /\ Account => DuplicatesAreExcused
  BY DEF TypeOK, DupInv, DuplicatesAreExcused
<1>4. QED
  BY <1>1, <1>2, <1>3, TypeCorrect, GuardsHold, PTL DEF Spec
-----------------------------------------------------------------------------
(* What a step does to the log, and what a clean run delivers. *)

\* A 'sent' row gives way to another status only while a forced run is on that
\* mail: an unforced run never touches a mail its reader already has.
THEOREM SentRowsKept == Spec => SentRowsAreKept
<1> DEFINE Account == ~overlap => DupInv
           A == \A m \in Mails : log[m] = "sent" /\ log'[m] # "sent"
                  => overlap \/ \E i \in Instances : run[i].force /\ run[i].cur = m
<1>1. Init => Account
  BY DEF Init, DupInv, InHand, Recorded, NoRun
<1>2. TypeOK /\ TypeOK' /\ GuardInv /\ GuardInv' /\ Account /\ [Next]_vars => Account'
  BY DupInvStep, OverlapGrows
<1>3. ASSUME TypeOK, Account, [Next]_vars PROVE [A]_log
  <2>1. SUFFICES ASSUME NEW m \in Mails, log[m] = "sent", log'[m] # "sent", ~overlap
                 PROVE  \E i \in Instances : run[i].force /\ run[i].cur = m
    OBVIOUS
  <2>2. \/ \E i \in Instances : \/ LogSent(i) \/ SendFails(i)
                                \/ SendUnconfirmed(i) \/ LogSentFails(i)
        \/ UNCHANGED log
    BY <1>3 DEF Next, Step, Button, Failure, NextDay, CronTick, GetLock, EndCron, Prepare,
           CheckSent, SendOk, Finish, RunNightlyButton, SendReportsNow, PrepareFails,
           ReportFails, Crash, LoseConnection, LockFails, Restart, vars, mailbox
  <2>3. PICK i \in Instances : \/ LogSent(i) \/ SendFails(i)
                               \/ SendUnconfirmed(i) \/ LogSentFails(i)
    BY <2>1, <2>2
  <2>4. run[i].cur = m
    BY <1>3, <2>1, <2>3, MailWork
  <2>5. run[i].phase \in {"sending", "logging"}
    BY <2>3 DEF LogSent, SendFails, SendUnconfirmed, LogSentFails
  <2>6. run[i].force
    BY <1>3, <2>1, <2>4, <2>5 DEF DupInv, InHand
  <2>7. QED
    BY <2>4, <2>6
<1>4. QED
  BY <1>1, <1>2, <1>3, TypeCorrect, GuardsHold, PTL DEF Spec, SentRowsAreKept

\* What a step makes of run i: nothing, no run, a run that failed, or one of the
\* four steps by which a run goes on.
LEMMA OwnStep ==
  ASSUME TypeOK, [Next]_vars, NEW i \in Instances
  PROVE  \/ run'[i] = run[i] \/ run'[i].owed = {} \/ ~run'[i].ok
         \/ Prepare(i) \/ CheckSent(i) \/ SendOk(i) \/ LogSent(i)
<1>1. ASSUME NEW j \in Instances, Working(j)
      PROVE  \/ run'[i] = run[i] \/ ~run'[i].ok
             \/ Prepare(i) \/ CheckSent(i) \/ SendOk(i) \/ LogSent(i)
  <2>1. CASE i # j
    BY <1>1, <2>1, WorkingKeepsRun
  <2>2. CASE ReportFails(i)
    BY <2>2 DEF ReportFails, TypeOK
  <2>3. ASSUME MailDone(i, FALSE) PROVE ~run'[i].ok
    <3>1. run' = [run EXCEPT ![i] = [run[i] EXCEPT !.phase = "mail", !.cur = NoMail,
                                                   !.ok = run[i].ok /\ FALSE]]
      BY <2>3 DEF MailDone
    <3>2. run'[i] = [run[i] EXCEPT !.phase = "mail", !.cur = NoMail,
                                   !.ok = run[i].ok /\ FALSE]
      BY <3>1 DEF TypeOK
    <3>3. run[i] \in Runs
      BY DEF TypeOK
    <3>4. QED
      BY <3>2, <3>3 DEF Runs
  <2>4. CASE SendFails(i)
    BY <2>3, <2>4 DEF SendFails
  <2>5. CASE SendUnconfirmed(i)
    BY <2>3, <2>5 DEF SendUnconfirmed
  <2>6. CASE LogSentFails(i)
    BY <2>3, <2>6 DEF LogSentFails
  <2>7. QED
    BY <1>1, <2>1, <2>2, <2>4, <2>5, <2>6 DEF Working
<1>2. ASSUME NEW j \in Instances, NEW r, r.owed = {}, run' = [run EXCEPT ![j] = r]
      PROVE  run'[i] = run[i] \/ run'[i].owed = {}
  BY <1>2 DEF TypeOK
<1>3. ASSUME NEW j \in Instances, Finish(j) \/ PrepareFails(j) \/ Crash(j)
      PROVE  run'[i] = run[i] \/ run'[i].owed = {}
  <2>1. run' = [run EXCEPT ![j] = NoRun]
    BY <1>3 DEF Finish, PrepareFails, Crash
  <2>2. QED
    BY <1>2, <2>1 DEF NoRun
<1>4. ASSUME NEW j \in Instances, NEW trigger, NEW force, StartRun(j, trigger, force)
      PROVE  run'[i] = run[i] \/ run'[i].owed = {}
  BY <1>2, <1>4 DEF StartRun, NoRun
<1>5. ASSUME NEW j \in Instances, Button(j) \/ GetLock(j)
      PROVE  run'[i] = run[i] \/ run'[i].owed = {}
  BY <1>4, <1>5 DEF Button, RunNightlyButton, SendReportsNow, GetLock
<1>6. ASSUME NEW j \in Instances,
             CronTick(j) \/ EndCron(j) \/ LoseConnection(j) \/ LockFails(j) \/ Restart(j)
      PROVE  run'[i] = run[i]
  BY <1>6 DEF CronTick, EndCron, LoseConnection, LockFails, Restart
<1>7. CASE NextDay \/ UNCHANGED vars
  BY <1>7 DEF NextDay, vars, process
<1>8. QED
  BY <1>1, <1>3, <1>5, <1>6, <1>7 DEF Next, Step, Failure, Working

\* While nothing failed in a run that may send, a mail it owed is still to come,
\* being sent, or delivered.
Accounted(i) ==
  run[i].enabled /\ run[i].ok =>
    \A m \in run[i].owed :
      m \in run[i].todo \/ (run[i].phase = "sending" /\ run[i].cur = m) \/ copies[m] > 0

LEMMA AccountedStep ==
  ASSUME TypeOK, TypeOK', MailInv, \A i \in Instances : Accounted(i), [Next]_vars
  PROVE  \A i \in Instances : Accounted(i)'
<1> SUFFICES ASSUME NEW i \in Instances PROVE Accounted(i)'
  OBVIOUS
<1>1. \A m \in Mails : copies'[m] >= copies[m] /\ copies[m] \in Nat /\ copies'[m] \in Nat
  BY CopiesGrow DEF TypeOK
<1>2. run[i].owed \subseteq Mails
  BY DEF TypeOK, Runs
<1>3. CASE run'[i] = run[i]
  BY <1>1, <1>2, <1>3 DEF Accounted
<1>4. CASE run'[i].owed = {}
  BY <1>4 DEF Accounted
<1>5. CASE ~run'[i].ok
  BY <1>5 DEF Accounted
<1>6. CASE Prepare(i)
  BY <1>6 DEF Prepare, Accounted, TypeOK, Runs
<1>7. CASE CheckSent(i)
  <2>1. PICK m \in run[i].todo :
          /\ NextMail(i, m)
          /\ run' = [run EXCEPT ![i].todo = @ \ {m},
                                ![i].phase = IF Skips(i, m) THEN "mail" ELSE "sending",
                                ![i].cur = IF Skips(i, m) THEN NoMail ELSE m]
    BY <1>7 DEF CheckSent
  <2>2. /\ run'[i].enabled = run[i].enabled /\ run'[i].ok = run[i].ok
        /\ run'[i].owed = run[i].owed /\ run'[i].todo = run[i].todo \ {m}
        /\ run'[i].phase = IF Skips(i, m) THEN "mail" ELSE "sending"
        /\ run'[i].cur = IF Skips(i, m) THEN NoMail ELSE m
    BY <2>1 DEF TypeOK, Runs
  <2>3. run[i].phase = "mail"
    BY <2>1 DEF NextMail
  <2>4. m \in Mails
    BY DEF TypeOK, Runs
  <2>5. run[i].enabled /\ Skips(i, m) => copies[m] > 0
    BY <2>4 DEF Skips, MailInv, LogIsTruthful
  <2>6. QED
    <3>1. SUFFICES ASSUME run[i].enabled, run[i].ok, NEW n \in run[i].owed
                   PROVE  \/ n \in run'[i].todo
                          \/ run'[i].phase = "sending" /\ run'[i].cur = n
                          \/ copies'[n] > 0
      BY <2>2 DEF Accounted
    <3>2. n \in run[i].todo \/ copies[n] > 0
      BY <2>3, <3>1 DEF Accounted
    <3>3. n = m /\ Skips(i, m) => copies[n] > 0
      BY <2>5, <3>1
    <3>4. n = m /\ ~Skips(i, m) => run'[i].phase = "sending" /\ run'[i].cur = n
      BY <2>2
    <3>5. n # m /\ n \in run[i].todo => n \in run'[i].todo
      BY <2>2
    <3>6. copies[n] > 0 => copies'[n] > 0
      BY <1>1, <1>2
    <3>7. QED
      BY <3>2, <3>3, <3>4, <3>5, <3>6
<1>8. CASE SendOk(i)
  <2>1. /\ run'[i].enabled = run[i].enabled /\ run'[i].ok = run[i].ok
        /\ run'[i].owed = run[i].owed /\ run'[i].todo = run[i].todo
        /\ run[i].phase = "sending"
    BY <1>8 DEF SendOk, TypeOK
  <2>2. run[i].cur \in Mails
    BY <1>8, InFlight DEF SendOk
  <2>3. copies'[run[i].cur] > 0
    <3>1. copies' = [copies EXCEPT ![run[i].cur] = @ + 1]
      BY <1>8 DEF SendOk, Delivered, Bump
    <3>2. copies'[run[i].cur] = copies[run[i].cur] + 1
      BY <2>2, <3>1 DEF TypeOK
    <3>3. QED
      BY <1>1, <2>2, <3>2
  <2>4. QED
    <3>1. SUFFICES ASSUME run[i].enabled, run[i].ok, NEW n \in run[i].owed
                   PROVE  n \in run'[i].todo \/ copies'[n] > 0
      BY <2>1 DEF Accounted
    <3>2. n \in run[i].todo \/ (run[i].phase = "sending" /\ run[i].cur = n) \/ copies[n] > 0
      BY <3>1 DEF Accounted
    <3>3. copies[n] > 0 => copies'[n] > 0
      BY <1>1, <1>2
    <3>4. QED
      BY <2>1, <2>3, <3>2, <3>3
<1>9. CASE LogSent(i)
  <2>1. /\ run'[i].enabled = run[i].enabled /\ (run'[i].ok => run[i].ok)
        /\ run'[i].owed = run[i].owed /\ run'[i].todo = run[i].todo
        /\ run[i].phase = "logging"
    <3>1. run' = [run EXCEPT ![i] = [run[i] EXCEPT !.phase = "mail", !.cur = NoMail,
                                                   !.ok = run[i].ok /\ TRUE]]
      BY <1>9 DEF LogSent, MailDone
    <3>2. run'[i] = [run[i] EXCEPT !.phase = "mail", !.cur = NoMail,
                                   !.ok = run[i].ok /\ TRUE]
      BY <3>1 DEF TypeOK
    <3>3. run[i] \in Runs
      BY DEF TypeOK
    <3>4. QED
      BY <1>9, <3>2, <3>3 DEF LogSent, Runs
  <2>2. QED
    <3>1. SUFFICES ASSUME run[i].enabled, run[i].ok, NEW n \in run[i].owed
                   PROVE  n \in run'[i].todo \/ copies'[n] > 0
      BY <2>1 DEF Accounted
    <3>2. n \in run[i].todo \/ (run[i].phase = "sending" /\ run[i].cur = n) \/ copies[n] > 0
      BY <3>1 DEF Accounted
    <3>3. copies[n] > 0 => copies'[n] > 0
      BY <1>1, <1>2
    <3>4. QED
      BY <2>1, <3>2, <3>3
<1>10. \/ run'[i] = run[i] \/ run'[i].owed = {} \/ ~run'[i].ok
       \/ Prepare(i) \/ CheckSent(i) \/ SendOk(i) \/ LogSent(i)
  BY OwnStep
<1>11. QED
  BY <1>3, <1>4, <1>5, <1>6, <1>7, <1>8, <1>9, <1>10

\* A run that ends with sending enabled and no failure has delivered every mail
\* it owed, in this run or in an earlier one.
THEOREM CleanRunDelivers == Spec => CleanRunDeliversAll
<1> DEFINE AllAccounted == \A i \in Instances : Accounted(i)
           A == \A i \in Instances :
                  Finish(i) /\ run[i].enabled /\ run[i].ok
                    => \A m \in run[i].owed : copies[m] > 0
<1>1. Init => AllAccounted
  BY DEF Init, Accounted, NoRun
<1>2. TypeOK /\ TypeOK' /\ MailInv /\ AllAccounted /\ [Next]_vars => AllAccounted'
  BY AccountedStep
<1>3. AllAccounted => [A]_vars
  BY DEF Accounted, Finish
<1>4. Init => MailInv
  BY DEF Init, MailInv, LogIsTruthful, NoRun
<1>5. QED
  BY <1>1, <1>2, <1>3, <1>4, MailInvStep, TypeCorrect, PTL DEF Spec, CleanRunDeliversAll

-----------------------------------------------------------------------------
(* The week a weekly report covers. *)

Weekly(m) == m.kind = "employee_weekly"

\* The entry of `covered` for the week the key of m names, when the week's report
\* goes out on its day.
WeekOf(m) == [to |-> m.to, until |-> (m.key + 1) * WeekLen - 1]

\* A day that ends a week is fixed by the week's number.
LEMMA WeekDayOfKey ==
  ASSUME NEW d \in Days, WeeklyDay(d)
  PROVE  ((d - 1) \div WeekLen + 1) * WeekLen = d
<1>1. WeekLen \in Nat /\ WeekLen > 0 /\ d \in Nat /\ d > 0 /\ d % WeekLen = 0
  BY CalendarAssumption DEF Days, WeeklyDay
<1>2. PICK q \in Int : d = q * WeekLen
  BY <1>1
<1>3. (d - 1) \div WeekLen = q - 1
  <2>1. d - 1 = (q - 1) * WeekLen + (WeekLen - 1)
    BY <1>1, <1>2
  <2>2. QED
    BY <1>1, <1>2, <2>1
<1>4. QED
  BY <1>1, <1>2, <1>3

\* A scheduled run owes weekly reports on the last day of a week only.
LEMMA ScheduledWeek ==
  ASSUME NEW d \in Days, NEW m \in Reports(d, FALSE) \cup Alerts(d), Weekly(m)
  PROVE  (m.key + 1) * WeekLen = d
<1>1. WeeklyDay(d) /\ m.key = (d - 1) \div WeekLen
  BY DEF Reports, Alerts, MailsTo, If, Key, Weekly
<1>2. QED
  BY <1>1, WeekDayOfKey

\* What a run is, whatever happens to the log: a run of the send-now button is
\* forced, what a run has in hand or ahead it owes, and the weekly reports of an
\* unforced run are those of the week that ended the day before.
Sane(r) ==
  /\ r.trigger = "send_now" => r.force
  /\ r.phase \in {"sending", "logging"} => r.cur \in r.owed
  /\ r.todo \subseteq r.owed
  /\ ~r.force => \A m \in r.owed : Weekly(m) => (m.key + 1) * WeekLen = r.now

LEMMA SaneStep ==
  ASSUME TypeOK, \A i \in Instances : Sane(run[i]), [Next]_vars
  PROVE  \A i \in Instances : Sane(run'[i])
<1>1. ASSUME NEW i \in Instances, NEW r, Sane(r), run' = [run EXCEPT ![i] = r]
      PROVE  \A j \in Instances : Sane(run'[j])
  BY <1>1 DEF TypeOK
<1>2. ASSUME NEW i \in Instances, NEW ok, MailDone(i, ok)
      PROVE  \A j \in Instances : Sane(run'[j])
  <2> DEFINE r == [run[i] EXCEPT !.phase = "mail", !.cur = NoMail, !.ok = @ /\ ok]
  <2>1. run' = [run EXCEPT ![i] = r]
    BY <1>2 DEF MailDone
  <2>2. Sane(r)
    BY DEF Sane, TypeOK, Runs
  <2>3. QED
    BY <1>1, <2>1, <2>2
<1>3. Sane(NoRun)
  BY DEF Sane, NoRun
<1>4. ASSUME NEW i \in Instances, NEW trigger, NEW force \in BOOLEAN,
             trigger = "send_now" => force, StartRun(i, trigger, force)
      PROVE  \A j \in Instances : Sane(run'[j])
  <2> DEFINE r == [NoRun EXCEPT !.phase = "data", !.trigger = trigger, !.force = force, !.now = day]
  <2>1. Sane(r)
    BY <1>4 DEF Sane, NoRun
  <2>2. QED
    BY <1>1, <1>4, <2>1 DEF StartRun
<1>5. ASSUME NEW i \in Instances, Prepare(i) PROVE \A j \in Instances : Sane(run'[j])
  <2> DEFINE manual == run[i].trigger = "send_now"
             now == run[i].now
  <2>1. PICK switchOn \in BOOLEAN, aiKey \in BOOLEAN, quiet \in SUBSET Agents :
          LET mails == IF aiKey
                       THEN Reports(now, manual) \ MailsTo("employee_followup", quiet, now)
                       ELSE Alerts(now)
          IN run' = [run EXCEPT ![i].phase = "mail",
                                ![i].enabled = manual \/ switchOn,
                                ![i].owed = mails,
                                ![i].todo = mails]
    BY <1>5 DEF Prepare
  <2> DEFINE mails == IF aiKey
                      THEN Reports(now, manual) \ MailsTo("employee_followup", quiet, now)
                      ELSE Alerts(now)
             r == [run[i] EXCEPT !.phase = "mail", !.enabled = manual \/ switchOn,
                                 !.owed = mails, !.todo = mails]
  <2>2. run' = [run EXCEPT ![i] = r]
    BY <2>1
  <2>3. run[i] \in Runs /\ now \in Days
    BY DEF TypeOK, Runs
  <2>4. ~run[i].force => ~manual
    BY DEF Sane
  <2>5. ~run[i].force => \A m \in mails : Weekly(m) => (m.key + 1) * WeekLen = now
    <3>1. ~manual => mails \subseteq Reports(now, FALSE) \cup Alerts(now)
      OBVIOUS
    <3>2. QED
      BY <2>3, <2>4, <3>1, ScheduledWeek
  <2>6. /\ r.phase = "mail" /\ r.force = run[i].force /\ r.trigger = run[i].trigger
        /\ r.now = now /\ r.owed = mails /\ r.todo = mails
    BY <2>3 DEF Runs
  <2>7. Sane(r)
    <3> HIDE DEF r, mails, now, manual
    <3> QED
      BY <2>5, <2>6 DEF Sane
  <2>8. QED
    BY <1>1, <2>2, <2>7
<1>6. ASSUME NEW i \in Instances, ReportFails(i) PROVE \A j \in Instances : Sane(run'[j])
  <2>1. PICK m : run' = [run EXCEPT ![i].ok = FALSE,
                                    ![i].todo = {n \in @ : ~Abandoned(m, n)}]
    BY <1>6 DEF ReportFails
  <2> DEFINE r == [run[i] EXCEPT !.ok = FALSE, !.todo = {n \in @ : ~Abandoned(m, n)}]
  <2>2. run' = [run EXCEPT ![i] = r]
    BY <2>1 DEF TypeOK, Runs
  <2>3. Sane(r)
    BY DEF Sane, TypeOK, Runs
  <2>4. QED
    BY <1>1, <2>2, <2>3
<1>7. ASSUME NEW i \in Instances, CheckSent(i) PROVE \A j \in Instances : Sane(run'[j])
  <2>1. PICK m \in run[i].todo :
          run' = [run EXCEPT ![i].todo = @ \ {m},
                             ![i].phase = IF Skips(i, m) THEN "mail" ELSE "sending",
                             ![i].cur = IF Skips(i, m) THEN NoMail ELSE m]
    BY <1>7 DEF CheckSent
  <2> DEFINE r == [run[i] EXCEPT !.todo = @ \ {m},
                                 !.phase = IF Skips(i, m) THEN "mail" ELSE "sending",
                                 !.cur = IF Skips(i, m) THEN NoMail ELSE m]
  <2>2. run' = [run EXCEPT ![i] = r]
    BY <2>1 DEF TypeOK, Runs
  <2>3. Sane(r)
    BY DEF Sane, TypeOK, Runs
  <2>4. QED
    BY <1>1, <2>2, <2>3
<1>8. ASSUME NEW i \in Instances, SendOk(i) PROVE \A j \in Instances : Sane(run'[j])
  <2>1. Sane([run[i] EXCEPT !.phase = "logging"])
    BY <1>8 DEF SendOk, Sane, TypeOK, Runs
  <2>2. QED
    BY <1>1, <1>8, <2>1 DEF SendOk
<1>9. ASSUME NEW i \in Instances,
             LogSent(i) \/ SendFails(i) \/ SendUnconfirmed(i) \/ LogSentFails(i)
      PROVE  \A j \in Instances : Sane(run'[j])
  BY <1>2, <1>9 DEF LogSent, SendFails, SendUnconfirmed, LogSentFails
<1>10. ASSUME NEW i \in Instances, Finish(i) \/ PrepareFails(i) \/ Crash(i)
       PROVE  \A j \in Instances : Sane(run'[j])
  BY <1>1, <1>3, <1>10 DEF Finish, PrepareFails, Crash
<1>11. ASSUME NEW i \in Instances, Button(i) \/ GetLock(i)
       PROVE  \A j \in Instances : Sane(run'[j])
  BY <1>4, <1>11 DEF Button, RunNightlyButton, SendReportsNow, GetLock
<1>12. ASSUME NEW i \in Instances,
              CronTick(i) \/ EndCron(i) \/ LoseConnection(i) \/ LockFails(i) \/ Restart(i)
       PROVE  \A j \in Instances : Sane(run'[j])
  BY <1>12 DEF CronTick, EndCron, LoseConnection, LockFails, Restart
<1>13. CASE NextDay \/ UNCHANGED vars
  BY <1>13 DEF NextDay, vars, process
<1>14. QED
  BY <1>5, <1>6, <1>7, <1>8, <1>9, <1>10, <1>11, <1>12, <1>13 DEF Next, Step, Failure

\* A weekly report somebody got was forced, or tells of the week its key names.
WeekTold ==
  \A m \in Mails : Weekly(m) /\ copies[m] > 0 => forced[m] > 0 \/ WeekOf(m) \in covered

\* What a run may count as done, of a weekly report it owed.
Told(i, m) ==
  \/ [to |-> m.to, until |-> run[i].now - 1] \in covered
  \/ ~run[i].force /\ forced[m] > 0

WeekAccounted(i) ==
  run[i].enabled /\ run[i].ok =>
    \A m \in run[i].owed :
      Weekly(m) => m \in run[i].todo \/ (run[i].phase = "sending" /\ run[i].cur = m) \/ Told(i, m)

\* Only a delivery counts anything, and what was told or forced stays so.
LEMMA WeeksGrow ==
  ASSUME TypeOK, [Next]_vars
  PROVE  /\ covered \subseteq covered'
         /\ \A m \in Mails : forced[m] > 0 => forced'[m] > 0
         /\ UNCHANGED copies \/ \E i \in Instances : SendOk(i) \/ SendUnconfirmed(i)
<1>1. ASSUME NEW i \in Instances, NEW m \in Mails, Delivered(i, m)
      PROVE  covered \subseteq covered' /\ \A n \in Mails : forced[n] > 0 => forced'[n] > 0
  BY <1>1 DEF Delivered, Bump, TypeOK
<1>2. ASSUME NEW i \in Instances, SendOk(i) \/ SendUnconfirmed(i)
      PROVE  covered \subseteq covered' /\ \A n \in Mails : forced[n] > 0 => forced'[n] > 0
  <2>1. run[i].cur \in Mails /\ Delivered(i, run[i].cur)
    BY <1>2, InFlight DEF SendOk, SendUnconfirmed
  <2>2. QED
    BY <1>1, <2>1
<1>3. \/ \E i \in Instances : SendOk(i) \/ SendUnconfirmed(i)
      \/ UNCHANGED <<copies, forced, covered>>
  <2> DEFINE Kept == UNCHANGED <<copies, forced, covered>>
  <2>1. CASE NextDay \/ UNCHANGED vars
    BY <2>1 DEF NextDay, vars, mailbox
  <2>2. ASSUME NEW i \in Instances, CronTick(i) \/ GetLock(i) \/ EndCron(i) PROVE Kept
    BY <2>2 DEF CronTick, GetLock, EndCron, mailbox
  <2>3. ASSUME NEW i \in Instances, Prepare(i) \/ CheckSent(i) \/ LogSent(i) \/ Finish(i)
        PROVE  Kept
    BY <2>3 DEF Prepare, CheckSent, LogSent, Finish, mailbox
  <2>4. ASSUME NEW i \in Instances, Button(i) \/ Restart(i) PROVE Kept
    BY <2>4 DEF Button, RunNightlyButton, SendReportsNow, Restart, mailbox
  <2>5. ASSUME NEW i \in Instances,
               \/ PrepareFails(i) \/ ReportFails(i) \/ SendFails(i) \/ LogSentFails(i)
               \/ Crash(i) \/ LockFails(i) \/ LoseConnection(i)
        PROVE  Kept
    BY <2>5 DEF PrepareFails, ReportFails, SendFails, LogSentFails, Crash, LockFails,
           LoseConnection, mailbox
  <2>6. QED
    BY <2>1, <2>2, <2>3, <2>4, <2>5 DEF Next, Step, Failure
<1>4. QED
  BY <1>2, <1>3

LEMMA WeekToldStep ==
  ASSUME TypeOK, \A i \in Instances : Sane(run[i]), WeekTold, [Next]_vars
  PROVE  WeekTold'
<1>1. SUFFICES ASSUME NEW m \in Mails, Weekly(m), copies'[m] > 0
               PROVE  forced'[m] > 0 \/ WeekOf(m) \in covered'
  BY DEF WeekTold
<1>2. CASE copies[m] > 0
  BY <1>1, <1>2, WeeksGrow DEF WeekTold
<1>3. ASSUME NEW i \in Instances, SendOk(i) \/ SendUnconfirmed(i), run[i].cur = m
      PROVE  forced'[m] > 0 \/ WeekOf(m) \in covered'
  <2>1. Delivered(i, m) /\ run[i].phase = "sending"
    BY <1>3 DEF SendOk, SendUnconfirmed
  <2>2. CASE run[i].force
    BY <2>1, <2>2 DEF Delivered, Bump, TypeOK
  <2>3. CASE ~run[i].force
    <3>1. m \in run[i].owed /\ (m.key + 1) * WeekLen = run[i].now
      BY <1>1, <1>3, <2>1, <2>3 DEF Sane
    <3>2. [to |-> m.to, until |-> run[i].now - 1] \in covered'
      BY <1>1, <2>1 DEF Delivered, Weekly
    <3>3. QED
      BY <3>1, <3>2 DEF WeekOf
  <2>4. QED
    BY <2>2, <2>3
<1>4. CASE ~(copies[m] > 0)
  <2>1. PICK i \in Instances : SendOk(i) \/ SendUnconfirmed(i)
    BY <1>1, <1>4, WeeksGrow
  <2>2. run[i].cur = m
    BY <1>1, <1>4, <2>1, MailWork
  <2>3. QED
    BY <1>3, <2>1, <2>2
<1>5. QED
  BY <1>2, <1>4

LEMMA WeekAccountedStep ==
  ASSUME TypeOK, TypeOK', MailInv, \A i \in Instances : Sane(run[i]), WeekTold,
         \A i \in Instances : WeekAccounted(i), [Next]_vars
  PROVE  \A i \in Instances : WeekAccounted(i)'
<1> SUFFICES ASSUME NEW i \in Instances PROVE WeekAccounted(i)'
  OBVIOUS
<1>1. run[i].owed \subseteq Mails
  BY DEF TypeOK, Runs
\* A run that stays the same run and keeps what it has ahead keeps its account.
<1>2. ASSUME run'[i].now = run[i].now, run'[i].force = run[i].force,
             NEW m \in run[i].owed, Told(i, m)
      PROVE  Told(i, m)'
  BY <1>1, <1>2, WeeksGrow DEF Told
<1>3. CASE run'[i] = run[i]
  BY <1>2, <1>3 DEF WeekAccounted
<1>4. CASE run'[i].owed = {} \/ ~run'[i].ok
  BY <1>4 DEF WeekAccounted
<1>5. CASE Prepare(i)
  BY <1>5 DEF Prepare, WeekAccounted, TypeOK, Runs
<1>6. CASE CheckSent(i)
  <2>1. PICK m \in run[i].todo :
          /\ NextMail(i, m)
          /\ run' = [run EXCEPT ![i].todo = @ \ {m},
                                ![i].phase = IF Skips(i, m) THEN "mail" ELSE "sending",
                                ![i].cur = IF Skips(i, m) THEN NoMail ELSE m]
    BY <1>6 DEF CheckSent
  <2>2. /\ run'[i].enabled = run[i].enabled /\ run'[i].ok = run[i].ok
        /\ run'[i].now = run[i].now /\ run'[i].force = run[i].force
        /\ run'[i].owed = run[i].owed /\ run'[i].todo = run[i].todo \ {m}
        /\ run'[i].phase = IF Skips(i, m) THEN "mail" ELSE "sending"
        /\ run'[i].cur = IF Skips(i, m) THEN NoMail ELSE m
    BY <2>1 DEF TypeOK, Runs
  <2>3. run[i].phase = "mail" /\ m \in run[i].owed /\ m \in Mails
    BY <1>1, <2>1 DEF NextMail, Sane
  <2>4. ASSUME run[i].enabled, Skips(i, m), Weekly(m) PROVE Told(i, m)
    <3>1. ~run[i].force /\ copies[m] > 0
      BY <2>3, <2>4 DEF Skips, MailInv, LogIsTruthful
    <3>2. (m.key + 1) * WeekLen = run[i].now
      BY <2>3, <2>4, <3>1 DEF Sane
    <3>3. forced[m] > 0 \/ WeekOf(m) \in covered
      BY <2>3, <2>4, <3>1 DEF WeekTold
    <3>4. QED
      BY <3>1, <3>2, <3>3 DEF Told, WeekOf
  <2>5. SUFFICES ASSUME run[i].enabled, run[i].ok, NEW n \in run[i].owed, Weekly(n)
                 PROVE  \/ n \in run'[i].todo
                        \/ run'[i].phase = "sending" /\ run'[i].cur = n
                        \/ Told(i, n)'
    BY <2>2 DEF WeekAccounted
  <2>6. n \in run[i].todo \/ Told(i, n)
    BY <2>3, <2>5 DEF WeekAccounted
  <2>7. CASE n = m /\ Skips(i, m)
    BY <1>2, <2>2, <2>4, <2>5, <2>7
  <2>8. CASE n = m /\ ~Skips(i, m)
    BY <2>2, <2>8
  <2>9. CASE n # m
    BY <1>2, <2>2, <2>6, <2>9
  <2>10. QED
    BY <2>7, <2>8, <2>9
<1>7. CASE SendOk(i)
  <2>1. /\ run'[i].enabled = run[i].enabled /\ run'[i].ok = run[i].ok
        /\ run'[i].now = run[i].now /\ run'[i].force = run[i].force
        /\ run'[i].owed = run[i].owed /\ run'[i].todo = run[i].todo
        /\ run[i].phase = "sending" /\ Delivered(i, run[i].cur)
    BY <1>7 DEF SendOk, TypeOK, Runs
  <2>2. SUFFICES ASSUME run[i].enabled, run[i].ok, NEW n \in run[i].owed, Weekly(n)
                 PROVE  n \in run'[i].todo \/ Told(i, n)'
    BY <2>1 DEF WeekAccounted
  <2>3. n \in run[i].todo \/ run[i].cur = n \/ Told(i, n)
    BY <2>1, <2>2 DEF WeekAccounted
  <2>4. run[i].cur = n => Told(i, n)'
    BY <2>1, <2>2 DEF Delivered, Weekly, Told
  <2>5. QED
    BY <1>2, <2>1, <2>3, <2>4
<1>8. CASE LogSent(i)
  <2>1. run[i] \in Runs
    BY DEF TypeOK
  <2>2. run'[i] = [run[i] EXCEPT !.phase = "mail", !.cur = NoMail, !.ok = run[i].ok /\ TRUE]
    BY <1>8 DEF LogSent, MailDone, TypeOK
  <2>3. /\ run'[i].enabled = run[i].enabled /\ (run'[i].ok => run[i].ok)
        /\ run'[i].now = run[i].now /\ run'[i].force = run[i].force
        /\ run'[i].owed = run[i].owed /\ run'[i].todo = run[i].todo
        /\ run[i].phase = "logging"
    BY <1>8, <2>1, <2>2 DEF LogSent, Runs
  <2>4. QED
    BY <1>2, <2>3 DEF WeekAccounted
<1>9. QED
  BY <1>3, <1>4, <1>5, <1>6, <1>7, <1>8, OwnStep

\* A clean run has left every employee it owed one the report of the week that
\* ended yesterday, or found it replaced by one somebody forced.
THEOREM WeekCovered == Spec => WeekIsCovered
<1> DEFINE AllSane == \A i \in Instances : Sane(run[i])
           AllAccounted == \A i \in Instances : WeekAccounted(i)
           A == \A i \in Instances :
                  Finish(i) /\ run[i].enabled /\ run[i].ok
                    => \A m \in run[i].owed :
                         m.kind = "employee_weekly" =>
                           \/ [to |-> m.to, until |-> run[i].now - 1] \in covered
                           \/ ~run[i].force /\ forced[m] > 0
<1>1. Init => AllSane /\ WeekTold /\ AllAccounted /\ MailInv
  BY DEF Init, Sane, WeekTold, WeekAccounted, MailInv, LogIsTruthful, NoRun
<1>2. TypeOK /\ AllSane /\ [Next]_vars => AllSane'
  BY SaneStep
<1>3. TypeOK /\ AllSane /\ WeekTold /\ [Next]_vars => WeekTold'
  BY WeekToldStep
<1>4. TypeOK /\ TypeOK' /\ MailInv /\ AllSane /\ WeekTold /\ AllAccounted /\ [Next]_vars
        => AllAccounted'
  BY WeekAccountedStep
<1>5. AllAccounted => [A]_vars
  BY DEF WeekAccounted, Told, Weekly, Finish
<1>6. QED
  BY <1>1, <1>2, <1>3, <1>4, <1>5, MailInvStep, TypeCorrect, PTL DEF Spec, WeekIsCovered

-----------------------------------------------------------------------------
(* The end of a night *)

\* The steps a run still has before it: up to three for every mail it may have to
\* send (look-up, sending, logging), one to prepare and one to finish.
RunLeft(i) ==
  CASE run[i].phase = "idle"    -> 0
    [] run[i].phase = "mail"    -> 1 + 3 * Cardinality(run[i].todo)
    [] run[i].phase = "logging" -> 2 + 3 * Cardinality(run[i].todo)
    [] run[i].phase = "sending" -> 3 + 3 * Cardinality(run[i].todo)
    [] run[i].phase = "data"    -> 2 + 3 * Cardinality(Mails)

\* And those of the cron task: one that waits for its connection may yet start a run.
CronLeft(i) ==
  CASE conn[i] = "none"    -> 0
    [] conn[i] = "lost"    -> 1
    [] conn[i] = "held"    -> 2
    [] conn[i] = "waiting" -> 5 + 3 * Cardinality(Mails)

NightLeft(i) == RunLeft(i) + CronLeft(i)

Engaged(i) == running[i] \/ cronFlag[i] \/ conn[i] # "none"

\* What process i can do about its own night, in any state of it.
CanMoveOn(i) ==
  \/ conn[i] = "waiting"
  \/ conn[i] \in {"held", "lost"} /\ ~CronRunInFlight(i)
  \/ run[i].phase \in {"data", "sending", "logging"}
  \/ run[i].phase = "mail" /\ run[i].todo = {}
  \/ \E m \in run[i].todo : NextMail(i, m)

\* The steps of the night of process i, the failing ones included.
NightStep(i) ==
  \/ GetLock(i) \/ LockFails(i) \/ LoseConnection(i) \/ EndCron(i)
  \/ Working(i) \/ Finish(i) \/ PrepareFails(i)

WindsDown(i) ==
  /\ NightStep(i) => NightLeft(i)' < NightLeft(i)
  /\ NightLeft(i)' > NightLeft(i) => CronTick(i) \/ Button(i)

LEMMA MailsFinite == IsFiniteSet(Mails) /\ Cardinality(Mails) \in Nat
<1>1. ASSUME NEW kind, NEW S, IsFiniteSet(S), NEW d \in Days
      PROVE  IsFiniteSet(MailsTo(kind, S, d))
  <2> DEFINE f == [p \in S |-> [kind |-> kind, to |-> p, key |-> Key(kind, d)]]
  <2>1. f \in Surjection(S, MailsTo(kind, S, d))
    BY DEF Surjection, MailsTo
  <2>2. QED
    BY <1>1, <2>1, FS_Surjection
<1>2. ASSUME NEW d \in Days PROVE IsFiniteSet(Alerts(d) \cup Reports(d, TRUE))
  <2>1. \A S, T : IsFiniteSet(S) /\ IsFiniteSet(T) => IsFiniteSet(S \cup T)
    BY FS_Union
  <2>2. IsFiniteSet(Alerts(d))
    BY <1>1, <2>1, PeopleAssumption DEF Alerts
  <2>3. IsFiniteSet(Reports(d, TRUE))
    <3>1. \A kind : /\ IsFiniteSet(MailsTo(kind, CampaignManagers, d))
                    /\ IsFiniteSet(MailsTo(kind, Agents, d))
      BY <1>1, PeopleAssumption
    <3>2. QED
      BY <2>1, <3>1 DEF Reports, If
  <2>4. QED
    BY <2>1, <2>2, <2>3
<1> DEFINE F == {Alerts(d) \cup Reports(d, TRUE) : d \in Days}
<1>3. IsFiniteSet(F)
  <2> DEFINE f == [d \in Days |-> Alerts(d) \cup Reports(d, TRUE)]
  <2>1. f \in Surjection(Days, F)
    BY DEF Surjection
  <2>2. IsFiniteSet(Days)
    BY CalendarAssumption, FS_Interval DEF Days
  <2>3. QED
    BY <2>1, <2>2, FS_Surjection
<1>4. IsFiniteSet(UNION F)
  BY <1>2, <1>3, FS_UNION
<1>5. QED
  BY <1>4, FS_CardinalityType DEF Mails

\* What a run has to do is part of the mails, before a step and after it.
LEMMA TodoCount ==
  ASSUME NEW i \in Instances
  PROVE  /\ TypeOK => /\ IsFiniteSet(run[i].todo)
                      /\ Cardinality(run[i].todo) \in 0..Cardinality(Mails)
         /\ TypeOK' => /\ IsFiniteSet(run'[i].todo)
                       /\ Cardinality(run'[i].todo) \in 0..Cardinality(Mails)
<1>1. ASSUME NEW S, S \subseteq Mails
      PROVE  IsFiniteSet(S) /\ Cardinality(S) \in 0..Cardinality(Mails)
  BY <1>1, MailsFinite, FS_Subset, FS_CardinalityType
<1>2. QED
  BY <1>1 DEF TypeOK, Runs

LEMMA LeftType ==
  ASSUME NEW i \in Instances
  PROVE  /\ TypeOK => /\ RunLeft(i) \in Nat /\ CronLeft(i) \in Nat
                      /\ RunLeft(i) > 0 <=> run[i].phase # "idle"
                      /\ CronLeft(i) > 0 <=> conn[i] # "none"
         /\ TypeOK' => RunLeft(i)' \in Nat /\ CronLeft(i)' \in Nat
<1>1. Cardinality(Mails) \in Nat
  BY MailsFinite
<1>2. ASSUME TypeOK
      PROVE  /\ RunLeft(i) \in Nat /\ CronLeft(i) \in Nat
             /\ RunLeft(i) > 0 <=> run[i].phase # "idle"
             /\ CronLeft(i) > 0 <=> conn[i] # "none"
  <2>1. /\ run[i].phase \in Phases /\ conn[i] \in {"none", "waiting", "held", "lost"}
        /\ Cardinality(run[i].todo) \in Nat
    BY <1>1, <1>2, TodoCount DEF TypeOK, Runs
  <2>2. QED
    BY <1>1, <2>1 DEF RunLeft, CronLeft, Phases
<1>3. ASSUME TypeOK' PROVE RunLeft(i)' \in Nat /\ CronLeft(i)' \in Nat
  <2>1. /\ run'[i].phase \in Phases /\ conn'[i] \in {"none", "waiting", "held", "lost"}
        /\ Cardinality(run'[i].todo) \in Nat
    BY <1>1, <1>3, TodoCount DEF TypeOK, Runs
  <2>2. QED
    BY <1>1, <2>1 DEF RunLeft, CronLeft, Phases
<1>4. QED
  BY <1>2, <1>3

\* Whoever leaves a process's run or its connection alone leaves its count alone.
LEMMA LeftAlone ==
  ASSUME NEW i \in Instances
  PROVE  /\ run'[i] = run[i] => RunLeft(i)' = RunLeft(i)
         /\ conn'[i] = conn[i] => CronLeft(i)' = CronLeft(i)
BY DEF RunLeft, CronLeft

\* A step of the run brings it closer to its end, whether it succeeds or fails.
LEMMA WorkingWinds ==
  ASSUME TypeOK, TypeOK', NEW i \in Instances,
         Working(i) \/ Finish(i) \/ PrepareFails(i)
  PROVE  RunLeft(i)' < RunLeft(i)
<1>1. /\ Cardinality(Mails) \in Nat
      /\ Cardinality(run[i].todo) \in 0..Cardinality(Mails)
      /\ Cardinality(run'[i].todo) \in 0..Cardinality(Mails)
  BY MailsFinite, TodoCount
<1>2. CASE Prepare(i)
  <2>1. run[i].phase = "data" /\ run'[i].phase = "mail"
    BY <1>2 DEF Prepare, TypeOK
  <2>2. QED
    BY <1>1, <2>1 DEF RunLeft
<1>3. ASSUME NEW m \in run[i].todo, run[i].phase = "mail",
             run'[i].phase \in {"mail", "sending"},
             run'[i].todo \subseteq run[i].todo \ {m}
      PROVE  RunLeft(i)' < RunLeft(i)
  <2>1. /\ IsFiniteSet(run[i].todo \ {m})
        /\ Cardinality(run[i].todo \ {m}) = Cardinality(run[i].todo) - 1
    BY TodoCount, FS_RemoveElement
  <2>2. Cardinality(run'[i].todo) <= Cardinality(run[i].todo) - 1
    BY <1>3, <2>1, FS_Subset
  <2>3. QED
    BY <1>1, <1>3, <2>2 DEF RunLeft
<1>4. CASE ReportFails(i)
  <2>1. PICK m \in run[i].todo :
          /\ NextMail(i, m)
          /\ run' = [run EXCEPT ![i].ok = FALSE, ![i].todo = {n \in @ : ~Abandoned(m, n)}]
    BY <1>4 DEF ReportFails
  <2>2. run'[i].phase = run[i].phase /\ run'[i].todo = {n \in run[i].todo : ~Abandoned(m, n)}
    <3>1. run[i] \in Runs
      BY DEF TypeOK
    <3>2. run'[i] = [run[i] EXCEPT !.ok = FALSE, !.todo = {n \in @ : ~Abandoned(m, n)}]
      BY <2>1 DEF TypeOK
    <3>3. QED
      BY <3>1, <3>2 DEF Runs
  <2>3. QED
    BY <1>3, <2>1, <2>2 DEF NextMail, Abandoned
<1>5. CASE CheckSent(i)
  <2>1. PICK m \in run[i].todo :
          /\ NextMail(i, m)
          /\ run' = [run EXCEPT ![i].todo = @ \ {m},
                                ![i].phase = IF Skips(i, m) THEN "mail" ELSE "sending",
                                ![i].cur = IF Skips(i, m) THEN NoMail ELSE m]
    BY <1>5 DEF CheckSent
  <2>2. run'[i].phase \in {"mail", "sending"} /\ run'[i].todo = run[i].todo \ {m}
    BY <2>1 DEF TypeOK, Runs
  <2>3. QED
    BY <1>3, <2>1, <2>2 DEF NextMail
<1>6. CASE SendOk(i)
  <2>1. run[i].phase = "sending" /\ run'[i].phase = "logging" /\ run'[i].todo = run[i].todo
    BY <1>6 DEF SendOk, TypeOK, Runs
  <2>2. QED
    BY <1>1, <2>1 DEF RunLeft
<1>7. CASE LogSent(i) \/ SendFails(i) \/ SendUnconfirmed(i) \/ LogSentFails(i)
  <2>1. /\ run[i].phase \in {"sending", "logging"} /\ run'[i].phase = "mail"
        /\ run'[i].todo = run[i].todo
    BY <1>7 DEF LogSent, SendFails, SendUnconfirmed, LogSentFails, MailDone, TypeOK, Runs
  <2>2. QED
    BY <1>1, <2>1 DEF RunLeft
<1>8. CASE Finish(i) \/ PrepareFails(i)
  <2>1. run[i].phase \in {"mail", "data"} /\ run'[i].phase = "idle"
    BY <1>8 DEF Finish, PrepareFails, TypeOK, NoRun
  <2>2. QED
    BY <1>1, <2>1 DEF RunLeft
<1>9. QED
  BY <1>2, <1>4, <1>5, <1>6, <1>7, <1>8 DEF Working

\* So does a step of the cron task, the one that starts the run included.
LEMMA CronWinds ==
  ASSUME TypeOK, TypeOK', GuardInv, NEW i \in Instances,
         GetLock(i) \/ LockFails(i) \/ LoseConnection(i) \/ EndCron(i)
  PROVE  NightLeft(i)' < NightLeft(i)
<1>1. /\ Cardinality(Mails) \in Nat
      /\ RunLeft(i) \in Nat /\ CronLeft(i) \in Nat
  BY MailsFinite, LeftType
<1>2. CASE run' = run
  <2>1. RunLeft(i)' = RunLeft(i)
    BY <1>2, LeftAlone
  <2>2. \/ conn[i] = "waiting" /\ conn'[i] \in {"none", "held"}
        \/ conn[i] \in {"held", "lost"} /\ conn'[i] = "none"
        \/ conn[i] = "held" /\ conn'[i] = "lost"
    BY DEF GetLock, LockFails, LoseConnection, EndCron, TypeOK
  <2>3. CronLeft(i)' < CronLeft(i)
    BY <1>1, <2>2 DEF CronLeft
  <2>4. QED
    BY <1>1, <2>1, <2>3, LeftType DEF NightLeft
<1>3. CASE run' # run
  <2>1. /\ conn[i] = "waiting" /\ conn'[i] = "held"
        /\ ~running[i] /\ StartRun(i, "cron", FALSE)
    BY <1>3 DEF GetLock, LockFails, LoseConnection, EndCron, TypeOK
  <2>2. run[i].phase = "idle" /\ run'[i].phase = "data"
    BY <2>1, StartRunFacts DEF GuardInv, GuardsTrackRuns, Triggers
  <2>3. /\ RunLeft(i) = 0 /\ RunLeft(i)' = 2 + 3 * Cardinality(Mails)
        /\ CronLeft(i) = 5 + 3 * Cardinality(Mails) /\ CronLeft(i)' = 2
    BY <2>1, <2>2 DEF RunLeft, CronLeft
  <2>4. QED
    BY <1>1, <2>3 DEF NightLeft
<1>4. QED
  BY <1>2, <1>3

LEMMA NightStepWinds ==
  ASSUME TypeOK, TypeOK', GuardInv, NEW i \in Instances, NightStep(i)
  PROVE  NightLeft(i)' < NightLeft(i)
<1>1. CASE Working(i) \/ Finish(i) \/ PrepareFails(i)
  <2>1. conn' = conn
    BY <1>1, WorkingKeepsRun DEF Finish, PrepareFails
  <2>2. /\ RunLeft(i)' < RunLeft(i) /\ CronLeft(i)' = CronLeft(i)
        /\ RunLeft(i) \in Nat /\ RunLeft(i)' \in Nat /\ CronLeft(i) \in Nat
    BY <1>1, <2>1, WorkingWinds, LeftAlone, LeftType
  <2>3. QED
    BY <2>2 DEF NightLeft
<1>2. QED
  BY <1>1, CronWinds DEF NightStep

LEMMA WindsDownStep ==
  ASSUME TypeOK, TypeOK', GuardInv, [Next]_vars, NEW i \in Instances
  PROVE  WindsDown(i)
<1>1. /\ RunLeft(i) \in Nat /\ CronLeft(i) \in Nat /\ NightLeft(i) \in Nat
      /\ RunLeft(i)' \in Nat /\ CronLeft(i)' \in Nat /\ NightLeft(i)' \in Nat
  BY LeftType DEF NightLeft
<1>2. CASE NightStep(i)
  BY <1>1, <1>2, NightStepWinds DEF WindsDown
<1>3. ASSUME run'[i] = run[i], conn'[i] = conn[i] PROVE NightLeft(i)' <= NightLeft(i)
  BY <1>1, <1>3, LeftAlone DEF NightLeft
<1>4. ASSUME ~NightStep(i)
      PROVE  NightLeft(i)' <= NightLeft(i) \/ CronTick(i) \/ Button(i)
  <2>1. CASE NextDay
    BY <1>3, <2>1 DEF NextDay
  <2>2. ASSUME NEW j \in Instances, Step(j) \/ Button(j) \/ Failure(j) \/ Restart(j)
        PROVE  NightLeft(i)' <= NightLeft(i) \/ CronTick(i) \/ Button(i)
    <3>1. CASE j = i
      <4>1. CASE Crash(i)
        <5>1. run'[i].phase = "idle" /\ conn'[i] = "none"
          BY <4>1 DEF Crash, TypeOK, NoRun
        <5>2. RunLeft(i)' = 0 /\ CronLeft(i)' = 0
          BY <5>1 DEF RunLeft, CronLeft
        <5>3. QED
          BY <1>1, <5>2 DEF NightLeft
      <4>2. CASE Restart(i)
        BY <1>3, <4>2 DEF Restart
      <4>3. QED
        BY <1>4, <2>2, <3>1, <4>1, <4>2 DEF Step, Failure, NightStep, Working
    <3>2. CASE j # i
      <4>1. run'[i] = run[i] /\ conn'[i] = conn[i]
        <5>1. CASE Working(j)
          BY <3>2, <5>1, WorkingKeepsRun
        <5>2. CASE CronTick(j) \/ EndCron(j) \/ LoseConnection(j) \/ LockFails(j) \/ Restart(j)
          BY <3>2, <5>2 DEF CronTick, EndCron, LoseConnection, LockFails, Restart, TypeOK
        <5>3. CASE GetLock(j)
          BY <3>2, <5>3 DEF GetLock, StartRun, TypeOK
        <5>4. CASE Button(j)
          BY <3>2, <5>4, StartRunFacts DEF Button, RunNightlyButton, SendReportsNow, Triggers
        <5>5. CASE Finish(j) \/ PrepareFails(j) \/ Crash(j)
          BY <3>2, <5>5 DEF Finish, PrepareFails, Crash, TypeOK
        <5>6. QED
          BY <2>2, <5>1, <5>2, <5>3, <5>4, <5>5 DEF Step, Failure, Working
      <4>2. QED
        BY <1>3, <4>1
    <3>3. QED
      BY <3>1, <3>2
  <2>3. CASE UNCHANGED vars
    BY <1>3, <2>3 DEF vars, process
  <2>4. QED
    BY <2>1, <2>2, <2>3 DEF Next
<1>5. CASE ~NightStep(i)
  BY <1>1, <1>4, <1>5 DEF WindsDown
<1>6. QED
  BY <1>2, <1>5

\* Of the mails left there is always one whose stage comes first.
LEMMA SomeMailIsNext ==
  ASSUME TypeOK, NEW i \in Instances, run[i].phase = "mail", run[i].todo # {}
  PROVE  \E m \in run[i].todo : NextMail(i, m)
<1>1. \A m \in run[i].todo : Stage(m) \in 2..8
  <2>1. \A m \in Mails : Stage(m) \in 2..8
    BY DEF Mails, Alerts, Reports, MailsTo, If, CampaignKinds, Stage
  <2>2. QED
    BY <2>1 DEF TypeOK, Runs
<1> DEFINE At(k) == \E m \in run[i].todo : Stage(m) <= k
<1>2. ASSUME NEW k \in 2..8, At(k), \A j \in 2..8 : j < k => ~At(j)
      PROVE  \E m \in run[i].todo : NextMail(i, m)
  <2>1. PICK m \in run[i].todo : Stage(m) <= k
    BY <1>2
  <2>2. ASSUME NEW n \in run[i].todo PROVE Stage(m) <= Stage(n)
    BY <1>1, <1>2, <2>1
  <2>3. QED
    BY <2>1, <2>2 DEF NextMail
<1>3. At(8)
  BY <1>1
<1>4. \E k \in 2..8 : At(k) /\ \A j \in 2..8 : j < k => ~At(j)
  <2> HIDE DEF At
  <2> QED
    BY <1>3
<1>5. QED
  BY <1>2, <1>4

LEMMA NeverStuck ==
  ASSUME TypeOK, GuardInv, NEW i \in Instances, Engaged(i)
  PROVE  CanMoveOn(i)
<1>1. run[i].phase \in Phases /\ conn[i] \in {"none", "waiting", "held", "lost"}
  BY DEF TypeOK, Runs
<1>2. CASE running[i]
  <2>1. run[i].phase # "idle"
    BY <1>2 DEF GuardInv, GuardsTrackRuns
  <2>2. QED
    BY <1>1, <2>1, SomeMailIsNext DEF CanMoveOn, Phases
<1>3. CASE ~running[i]
  BY <1>1, <1>3 DEF Engaged, GuardInv, CanMoveOn, CronRunInFlight
<1>4. QED
  BY <1>2, <1>3

\* The night of a process is over after finitely many steps of its own, whatever
\* fails: a natural number of them is left exactly while its guards are up or its
\* connection is out, each lowers the number, and only the next tick or a click raises
\* it.  Until then a step is always possible: no order of failures leaves the run
\* waiting for a mail that is not next, or the flag up with nothing to bring it down
\* (nightlyReports.js:71-80, scheduler.js:11-53).
THEOREM NightWindsDown ==
  Spec => /\ [](\A i \in Instances :
                  /\ NightLeft(i) \in Nat
                  /\ NightLeft(i) > 0 <=> Engaged(i)
                  /\ Engaged(i) => CanMoveOn(i))
          /\ [][\A i \in Instances : WindsDown(i)]_vars
<1>1. TypeOK /\ GuardInv => \A i \in Instances :
                              /\ NightLeft(i) \in Nat
                              /\ NightLeft(i) > 0 <=> Engaged(i)
                              /\ Engaged(i) => CanMoveOn(i)
  <2>1. ASSUME TypeOK, GuardInv, NEW i \in Instances
        PROVE  NightLeft(i) \in Nat /\ (NightLeft(i) > 0 <=> Engaged(i))
    <3>1. /\ RunLeft(i) \in Nat /\ CronLeft(i) \in Nat
          /\ RunLeft(i) > 0 <=> running[i]
          /\ CronLeft(i) > 0 <=> conn[i] # "none"
          /\ cronFlag[i] <=> conn[i] # "none"
      BY <2>1, LeftType DEF GuardInv, GuardsTrackRuns
    <3>2. QED
      BY <3>1 DEF NightLeft, Engaged
  <2>2. QED
    BY <2>1, NeverStuck
<1>2. TypeOK /\ TypeOK' /\ GuardInv /\ [Next]_vars => [\A i \in Instances : WindsDown(i)]_vars
  BY WindsDownStep
<1>3. QED
  BY <1>1, <1>2, TypeCorrect, GuardsHold, PTL DEF Spec
============================================================================
