--------------------------- MODULE NightlyReports ---------------------------
(***************************************************************************)
(* The report pipeline: the cron scheduler of each server process          *)
(* (jobs/scheduler.js), the MySQL leader lock it takes, the nightly run    *)
(* with its in-process guard (jobs/nightlyReports.js), the two admin       *)
(* buttons that start the same run (routes/admin.js), and the idempotent   *)
(* sender with its ads_email_log row per (kind, recipient, period)         *)
(* (lib/mailer.js).                                                        *)
(*                                                                         *)
(* A mail is its log key.  What the mail says is left out, except the last *)
(* day of the week a weekly report covers, which the key does not fix.     *)
(***************************************************************************)
EXTENDS Integers, FiniteSets

CONSTANTS
  Instances,         \* server processes sharing one database
  CampaignManagers,  \* active ads_employees rows, by role
  Agents,
  GeneralManagers,
  WeekLen,           \* days in a week: the weekly report goes out on day 0
  MonthLen,          \* days in a month: the monthly reports go out on day 0
  LastDay,           \* bound: the last day the model reaches
  MaxManual,         \* bound: clicks on the two admin buttons
  MaxFaults,         \* bound: crashes, lost connections, failed statements
  NoMail             \* "no mail in flight"

ASSUME CalendarAssumption ==
  /\ WeekLen \in Nat \ {0}
  /\ MonthLen \in Nat \ {0}
  /\ LastDay \in Nat \ {0}

ASSUME PeopleAssumption ==
  IsFiniteSet(CampaignManagers) /\ IsFiniteSet(Agents) /\ IsFiniteSet(GeneralManagers)

ASSUME BoundsAssumption == MaxManual \in Nat /\ MaxFaults \in Nat

-----------------------------------------------------------------------------
(* Periods and the mails a run owes. *)

Days == 1..LastDay

Recipients == CampaignManagers \cup Agents \cup GeneralManagers

WeeklyDay(d) == d % WeekLen = 0
FirstOfMonth(d) == d % MonthLen = 0

CampaignKinds == {"campaign_daily", "campaign_weekly", "campaign_monthly"}

\* The period key of a report built on day d.  Every key but the follow-up's
\* is the period of YESTERDAY: a weekly report covers the seven days that end
\* yesterday, and its key is the ISO week that yesterday belongs to.
Key(kind, d) ==
  CASE kind \in {"campaign_daily", "alert"}            -> d - 1
    [] kind \in {"campaign_weekly", "employee_weekly"} -> (d - 1) \div WeekLen
    [] kind \in {"campaign_monthly", "employee_monthly"} -> (d \div MonthLen) - 1
    [] kind = "employee_followup"                      -> d

MailsTo(kind, people, d) ==
  {[kind |-> kind, to |-> p, key |-> Key(kind, d)] : p \in people}

If(cond, S) == IF cond THEN S ELSE {}

\* Stage 2: without an AI key the run only sends the alert.
Alerts(d) == MailsTo("alert", CampaignManagers \cup GeneralManagers, d)

\* Stages 3 to 6: what a run of day d sends, before the follow-ups of agents
\* with nothing to act on are left out.
Reports(d, manual) ==
  MailsTo("campaign_daily", CampaignManagers, d)
    \cup If(manual \/ WeeklyDay(d), MailsTo("campaign_weekly", CampaignManagers, d))
    \cup If(manual \/ FirstOfMonth(d), MailsTo("campaign_monthly", CampaignManagers, d))
    \cup If(manual \/ WeeklyDay(d), MailsTo("employee_weekly", Agents, d))
    \cup If(manual \/ FirstOfMonth(d), MailsTo("employee_monthly", Agents, d))
    \cup MailsTo("employee_followup", Agents, d)

Mails == UNION {Alerts(d) \cup Reports(d, TRUE) : d \in Days}

ASSUME NoMailAssumption == NoMail \notin Mails

\* The stage a mail is sent in: a run goes through its stages in this order.
Stage(m) ==
  CASE m.kind = "alert"             -> 2
    [] m.kind = "campaign_daily"    -> 3
    [] m.kind = "campaign_weekly"   -> 4
    [] m.kind = "campaign_monthly"  -> 5
    [] m.kind = "employee_weekly"   -> 6
    [] m.kind = "employee_monthly"  -> 7
    [] m.kind = "employee_followup" -> 8

Triggers == {"cron", "run_nightly", "send_now"}

-----------------------------------------------------------------------------
VARIABLES
  day,       \* today
  up,        \* process i is running, with its scheduler started
  due,       \* process i's cron timer fires for today
  cronFlag,  \* scheduler.js `running`
  conn,      \* the connection that takes the leader lock
  running,   \* nightlyReports.js `running`
  run,       \* the run in flight in process i
  log,       \* ads_email_log: status of the row, "none" when there is no row
  copies,    \* how many times the mail was delivered
  forced,    \* deliveries by a run with force
  lost,      \* times a delivery was left without its 'sent' row
  covered,   \* reader and last day of the weekly reports delivered
  overlap,   \* two runs have been in flight at once, in two processes
  manuals, faults

process == <<up, due, cronFlag, conn, running, run>>
mailbox == <<log, copies, forced, lost, covered>>
vars == <<day, process, mailbox, overlap, manuals, faults>>

NoRun == [phase |-> "idle", trigger |-> "cron", force |-> FALSE, now |-> 1,
          enabled |-> FALSE, ok |-> TRUE, owed |-> {}, todo |-> {}, cur |-> NoMail]

Phases == {"idle", "data", "mail", "sending", "logging"}

\* A mail is in flight exactly while it is being sent or logged.
Runs ==
  {r \in [phase : Phases, trigger : Triggers, force : BOOLEAN, now : Days,
          enabled : BOOLEAN, ok : BOOLEAN, owed : SUBSET Mails,
          todo : SUBSET Mails, cur : Mails \cup {NoMail}] :
     r.cur # NoMail <=> r.phase \in {"sending", "logging"}}

TypeOK ==
  /\ day \in Days
  /\ up \in [Instances -> BOOLEAN]
  /\ due \in [Instances -> BOOLEAN]
  /\ cronFlag \in [Instances -> BOOLEAN]
  /\ conn \in [Instances -> {"none", "waiting", "held", "lost"}]
  /\ running \in [Instances -> BOOLEAN]
  /\ run \in [Instances -> Runs]
  /\ log \in [Mails -> {"none", "sent", "error"}]
  /\ copies \in [Mails -> Nat]
  /\ forced \in [Mails -> Nat]
  /\ lost \in [Mails -> Nat]
  /\ covered \subseteq [to : Recipients, until : Int]
  /\ overlap \in BOOLEAN
  /\ manuals \in Nat
  /\ faults \in Nat

Init ==
  /\ day = 1
  /\ up = [i \in Instances |-> TRUE]
  /\ due = [i \in Instances |-> FALSE]
  /\ cronFlag = [i \in Instances |-> FALSE]
  /\ conn = [i \in Instances |-> "none"]
  /\ running = [i \in Instances |-> FALSE]
  /\ run = [i \in Instances |-> NoRun]
  /\ log = [m \in Mails |-> "none"]
  /\ copies = [m \in Mails |-> 0]
  /\ forced = [m \in Mails |-> 0]
  /\ lost = [m \in Mails |-> 0]
  /\ covered = {}
  /\ overlap = FALSE
  /\ manuals = 0
  /\ faults = 0

Fault == faults < MaxFaults /\ faults' = faults + 1

-----------------------------------------------------------------------------
(* jobs/scheduler.js *)

\* 03:00.  node-cron runs inside the process: one that is down misses the tick.
NextDay ==
  /\ day < LastDay
  /\ day' = day + 1
  /\ due' = up
  /\ UNCHANGED <<up, cronFlag, conn, running, run, mailbox, overlap, manuals, faults>>

\* The cron callback: skipped while the previous one is still going, otherwise
\* it sets the flag and asks the pool for a connection.
CronTick(i) ==
  /\ up[i] /\ due[i]
  /\ due' = [due EXCEPT ![i] = FALSE]
  /\ IF cronFlag[i]
     THEN UNCHANGED <<cronFlag, conn>>
     ELSE /\ cronFlag' = [cronFlag EXCEPT ![i] = TRUE]
          /\ conn' = [conn EXCEPT ![i] = "waiting"]
  /\ UNCHANGED <<day, up, running, run, mailbox, overlap, manuals, faults>>

\* runNightly: a no-op while a run is in flight in this process.
StartRun(i, trigger, force) ==
  /\ running' = [running EXCEPT ![i] = TRUE]
  /\ run' = [run EXCEPT ![i] = [NoRun EXCEPT !.phase = "data", !.trigger = trigger,
                                             !.force = force, !.now = day]]
  /\ overlap' = (overlap \/ \E j \in Instances \ {i} : running[j])

\* Mutant of GetLock: the lock is named after the process, not the database.
GetLockPerProcess(i) ==
  /\ conn[i] = "waiting"
  /\ conn' = [conn EXCEPT ![i] = "held"]
  /\ IF running[i] THEN UNCHANGED <<running, run, overlap>>
                   ELSE StartRun(i, "cron", FALSE)
  /\ UNCHANGED <<day, up, due, cronFlag, mailbox, manuals, faults>>

\* get_lock(name, 0) does not wait.  The holder calls runNightly in the same
\* turn; anyone else gives the connection back and clears the flag.
GetLock(i) ==
  /\ conn[i] = "waiting"
  /\ IF \E j \in Instances : conn[j] = "held"
     THEN /\ conn' = [conn EXCEPT ![i] = "none"]
          /\ cronFlag' = [cronFlag EXCEPT ![i] = FALSE]
          /\ UNCHANGED <<running, run, overlap>>
     ELSE /\ conn' = [conn EXCEPT ![i] = "held"]
          /\ UNCHANGED cronFlag
          /\ IF running[i] THEN UNCHANGED <<running, run, overlap>>
                           ELSE StartRun(i, "cron", FALSE)
  /\ UNCHANGED <<day, up, due, mailbox, manuals, faults>>

\* The pool gives no connection, or get_lock throws: caught, and the flag is
\* cleared.
LockFails(i) ==
  /\ conn[i] = "waiting"
  /\ Fault
  /\ conn' = [conn EXCEPT ![i] = "none"]
  /\ cronFlag' = [cronFlag EXCEPT ![i] = FALSE]
  /\ UNCHANGED <<day, up, due, running, run, mailbox, overlap, manuals>>

CronRunInFlight(i) == running[i] /\ run[i].trigger = "cron"

\* Mutants of EndCron: the run is not awaited; the flag is not cleared.
EndCronEarly(i) ==
  /\ conn[i] \in {"held", "lost"}
  /\ conn' = [conn EXCEPT ![i] = "none"]
  /\ cronFlag' = [cronFlag EXCEPT ![i] = FALSE]
  /\ UNCHANGED <<day, up, due, running, run, mailbox, overlap, manuals, faults>>

EndCronNoReset(i) ==
  /\ conn[i] \in {"held", "lost"}
  /\ ~CronRunInFlight(i)
  /\ conn' = [conn EXCEPT ![i] = "none"]
  /\ UNCHANGED <<day, up, due, cronFlag, running, run, mailbox, overlap, manuals, faults>>

\* The two finally blocks: release_lock, conn.release, running = false.  The code
\* swallows a release_lock that fails (scheduler.js:29).  It is taken to fail with
\* its connection only, and the end of a connection frees the lock; a lock left on
\* one that goes back to the pool alive is not in the model.
EndCron(i) ==
  /\ conn[i] \in {"held", "lost"}
  /\ ~CronRunInFlight(i)
  /\ conn' = [conn EXCEPT ![i] = "none"]
  /\ cronFlag' = [cronFlag EXCEPT ![i] = FALSE]
  /\ UNCHANGED <<day, up, due, running, run, mailbox, overlap, manuals, faults>>

-----------------------------------------------------------------------------
(* routes/admin.js: neither button takes the leader lock. *)

RunNightlyButton(i) ==
  /\ up[i] /\ ~running[i]
  /\ manuals < MaxManual /\ manuals' = manuals + 1
  /\ \E force \in BOOLEAN : StartRun(i, "run_nightly", force)
  /\ UNCHANGED <<day, up, due, cronFlag, conn, mailbox, faults>>

SendReportsNow(i) ==
  /\ up[i] /\ ~running[i]
  /\ manuals < MaxManual /\ manuals' = manuals + 1
  /\ StartRun(i, "send_now", TRUE)
  /\ UNCHANGED <<day, up, due, cronFlag, conn, mailbox, faults>>

-----------------------------------------------------------------------------
(* jobs/nightlyReports.js, runNightlyInner *)

\* Stages 1 and 2.  The data stage swallows its own failures.  Then the master
\* switch, the recipients and the AI key are read, once for the whole run; an
\* agent's follow-up is left out when there is nothing to act on.
Prepare(i) ==
  /\ run[i].phase = "data"
  /\ \E switchOn, aiKey \in BOOLEAN, quiet \in SUBSET Agents :
       LET manual == run[i].trigger = "send_now"
           now == run[i].now
           mails == IF aiKey
                    THEN Reports(now, manual) \ MailsTo("employee_followup", quiet, now)
                    ELSE Alerts(now)
       IN run' = [run EXCEPT ![i].phase = "mail",
                             ![i].enabled = manual \/ switchOn,
                             ![i].owed = mails,
                             ![i].todo = mails]
  /\ UNCHANGED <<day, up, due, cronFlag, conn, running, mailbox, overlap, manuals, faults>>

\* Reading the switch or the recipients throws: the run ends at once.
PrepareFails(i) ==
  /\ run[i].phase = "data"
  /\ Fault
  /\ run' = [run EXCEPT ![i] = NoRun]
  /\ running' = [running EXCEPT ![i] = FALSE]
  /\ UNCHANGED <<day, up, due, cronFlag, conn, mailbox, overlap, manuals>>

NextMail(i, m) ==
  /\ run[i].phase = "mail"
  /\ m \in run[i].todo
  /\ \A n \in run[i].todo : Stage(m) <= Stage(n)

\* Gathering the data, rendering the PDF or sendOnce's own look-up throws.  A
\* campaign cadence is abandoned for every manager left, an employee report
\* only for that employee, and a failing alert ends the run.
Abandoned(m, n) ==
  \/ n = m
  \/ m.kind = "alert"
  \/ m.kind \in CampaignKinds /\ n.kind = m.kind

ReportFails(i) ==
  \E m \in run[i].todo :
    /\ NextMail(i, m)
    /\ Fault
    /\ run' = [run EXCEPT ![i].ok = FALSE,
                          ![i].todo = {n \in @ : ~Abandoned(m, n)}]
    /\ UNCHANGED <<day, up, due, cronFlag, conn, running, mailbox, overlap, manuals>>

-----------------------------------------------------------------------------
(* lib/mailer.js, sendOnce *)

\* Mutants of Skips: no look-up; a failed mail counts as sent; force is ignored.
SkipsForcedToo(i, m) == ~run[i].enabled \/ log[m] = "sent"

SkipsNoLookup(i, m) == ~run[i].enabled

SkipsAnyRow(i, m) == ~run[i].enabled \/ (~run[i].force /\ log[m] # "none")

\* The gates, and the look-up of an earlier 'sent' row unless force.
Skips(i, m) == ~run[i].enabled \/ (~run[i].force /\ log[m] = "sent")

\* Mutant of CheckSent: the row is written before the mail is sent.
CheckSentLogsFirst(i) ==
  \E m \in run[i].todo :
    /\ NextMail(i, m)
    /\ run' = [run EXCEPT ![i].todo = @ \ {m},
                          ![i].phase = IF Skips(i, m) THEN "mail" ELSE "sending",
                          ![i].cur = IF Skips(i, m) THEN NoMail ELSE m]
    /\ log' = IF Skips(i, m) THEN log ELSE [log EXCEPT ![m] = "sent"]
    /\ UNCHANGED <<day, up, due, cronFlag, conn, running, copies, forced, lost, covered, overlap, manuals, faults>>

CheckSent(i) ==
  \E m \in run[i].todo :
    /\ NextMail(i, m)
    /\ run' = [run EXCEPT ![i].todo = @ \ {m},
                          ![i].phase = IF Skips(i, m) THEN "mail" ELSE "sending",
                          ![i].cur = IF Skips(i, m) THEN NoMail ELSE m]
    /\ UNCHANGED <<day, up, due, cronFlag, conn, running, mailbox, overlap, manuals, faults>>

Bump(f, m) == [f EXCEPT ![m] = @ + 1]

Delivered(i, m) ==
  /\ copies' = Bump(copies, m)
  /\ forced' = IF run[i].force THEN Bump(forced, m) ELSE forced
  /\ covered' = IF m.kind = "employee_weekly"
                THEN covered \cup {[to |-> m.to, until |-> run[i].now - 1]} ELSE covered

MailDone(i, ok) ==
  run' = [run EXCEPT ![i].phase = "mail", ![i].cur = NoMail, ![i].ok = @ /\ ok]

\* The SMTP server takes the mail.
SendOk(i) ==
  /\ run[i].phase = "sending"
  /\ Delivered(i, run[i].cur)
  /\ run' = [run EXCEPT ![i].phase = "logging"]
  /\ UNCHANGED <<day, up, due, cronFlag, conn, running, log, lost, overlap, manuals, faults>>

\* sendMail rejects: the row becomes 'error', or stays if that write fails too.
\* A forced resend may so take the place of an earlier 'sent' row.
SendFails(i) ==
  LET m == run[i].cur IN
  /\ run[i].phase = "sending"
  /\ Fault
  /\ log' \in {[log EXCEPT ![m] = "error"], log}
  /\ lost' = IF log[m] = "sent" /\ log'[m] = "error" THEN Bump(lost, m) ELSE lost
  /\ MailDone(i, FALSE)
  /\ UNCHANGED <<day, up, due, cronFlag, conn, running, copies, forced, covered, overlap, manuals>>

\* The server took the mail but its answer was lost: sendMail rejects as well.
SendUnconfirmed(i) ==
  LET m == run[i].cur IN
  /\ run[i].phase = "sending"
  /\ Fault
  /\ Delivered(i, m)
  /\ log' \in {[log EXCEPT ![m] = "error"], log}
  /\ lost' = Bump(lost, m)
  /\ MailDone(i, FALSE)
  /\ UNCHANGED <<day, up, due, cronFlag, conn, running, overlap, manuals>>

LogSent(i) ==
  /\ run[i].phase = "logging"
  /\ log' = [log EXCEPT ![run[i].cur] = "sent"]
  /\ MailDone(i, TRUE)
  /\ UNCHANGED <<day, up, due, cronFlag, conn, running, copies, forced, lost, covered, overlap, manuals, faults>>

\* Writing the 'sent' row throws: the catch block reports the delivered mail as
\* an error, in the log too when that write works.
LogSentFails(i) ==
  LET m == run[i].cur IN
  /\ run[i].phase = "logging"
  /\ Fault
  /\ log' \in {[log EXCEPT ![m] = "error"], log}
  /\ lost' = Bump(lost, m)
  /\ MailDone(i, FALSE)
  /\ UNCHANGED <<day, up, due, cronFlag, conn, running, copies, forced, covered, overlap, manuals>>

\* runNightly's finally.
Finish(i) ==
  /\ run[i].phase = "mail"
  /\ run[i].todo = {}
  /\ run' = [run EXCEPT ![i] = NoRun]
  /\ running' = [running EXCEPT ![i] = FALSE]
  /\ UNCHANGED <<day, up, due, cronFlag, conn, mailbox, overlap, manuals, faults>>

-----------------------------------------------------------------------------
(* Faults of the process and of its lock connection. *)

\* Everything but the database is gone; MySQL drops the lock with the session.
Crash(i) ==
  /\ up[i]
  /\ Fault
  /\ up' = [up EXCEPT ![i] = FALSE]
  /\ due' = [due EXCEPT ![i] = FALSE]
  /\ cronFlag' = [cronFlag EXCEPT ![i] = FALSE]
  /\ conn' = [conn EXCEPT ![i] = "none"]
  /\ running' = [running EXCEPT ![i] = FALSE]
  /\ run' = [run EXCEPT ![i] = NoRun]
  /\ lost' = IF run[i].phase = "logging" THEN Bump(lost, run[i].cur) ELSE lost
  /\ UNCHANGED <<day, log, copies, forced, covered, overlap, manuals>>

Restart(i) ==
  /\ ~up[i]
  /\ up' = [up EXCEPT ![i] = TRUE]
  /\ UNCHANGED <<day, due, cronFlag, conn, running, run, mailbox, overlap, manuals, faults>>

\* The idle connection that holds the lock is dropped under the run.
LoseConnection(i) ==
  /\ conn[i] = "held"
  /\ Fault
  /\ conn' = [conn EXCEPT ![i] = "lost"]
  /\ UNCHANGED <<day, up, due, cronFlag, running, run, mailbox, overlap, manuals>>

-----------------------------------------------------------------------------
\* What the event loop of process i does by itself.
Step(i) ==
  \/ CronTick(i) \/ GetLock(i) \/ EndCron(i)
  \/ Prepare(i) \/ CheckSent(i) \/ SendOk(i) \/ LogSent(i) \/ Finish(i)

Button(i) == RunNightlyButton(i) \/ SendReportsNow(i)

Failure(i) ==
  \/ PrepareFails(i) \/ ReportFails(i) \/ SendFails(i) \/ SendUnconfirmed(i)
  \/ LogSentFails(i) \/ Crash(i) \/ LockFails(i) \/ LoseConnection(i)

Next ==
  \/ NextDay
  \/ \E i \in Instances : Step(i) \/ Button(i) \/ Failure(i) \/ Restart(i)

Spec == Init /\ [][Next]_vars

\* A live process keeps executing its own steps: every await settles, because
\* the SMTP, HTTP and MySQL clients have timeouts.  Operators, days, faults and
\* restarts promise nothing.
FairSpec == Spec /\ \A i \in Instances : WF_vars(Step(i))

-----------------------------------------------------------------------------
(* Properties *)

\* The guard of runNightly is set exactly while a run is in flight, and a run
\* the cron started keeps the scheduler's flag and its connection until it
\* ends: the finally blocks never open the door early (scheduler.js:47-53,
\* nightlyReports.js:71-80).
GuardsTrackRuns ==
  \A i \in Instances :
    /\ running[i] <=> run[i].phase # "idle"
    /\ CronRunInFlight(i) => cronFlag[i] /\ conn[i] \in {"held", "lost"}

\* Two processes run the scheduled pipeline at once only if one of them lost
\* the connection its leader lock lived on (scheduler.js:11-33).
CronRunsExclude ==
  \A i, j \in Instances :
    i # j /\ CronRunInFlight(i) /\ CronRunInFlight(j)
      => conn[i] = "lost" \/ conn[j] = "lost"

\* The email log never claims a mail that was not delivered: sendOnce skips a
\* mail only when its reader has it (mailer.js:59-70).
LogIsTruthful == \A m \in Mails : log[m] = "sent" => copies[m] > 0

\* As long as no two processes ran at once, a mail reaches its reader a second
\* time only by a forced run or after a delivery whose 'sent' row was lost
\* (mailer.js:55-75).
DuplicatesAreExcused ==
  ~overlap => \A m \in Mails : copies[m] <= 1 + forced[m] + lost[m]

\* A 'sent' row gives way to another status only while a forced run is on that
\* very mail (mailer.js:77-81, on duplicate key update).
SentRowsAreKept ==
  [][\A m \in Mails : log[m] = "sent" /\ log'[m] # "sent"
       => overlap \/ \E i \in Instances : run[i].force /\ run[i].cur = m]_log

\* A run that ends with sending enabled and no failure has every mail it owed
\* in its reader's hands (nightlyReports.js:132-243).
CleanRunDeliversAll ==
  [][\A i \in Instances :
       Finish(i) /\ run[i].enabled /\ run[i].ok
         => \A m \in run[i].owed : copies[m] > 0]_vars

\* A run that ends so has left every employee it owed one the report of the week
\* that ended yesterday.  The key does not fix the week, so a report forced by hand
\* in the middle of it takes the scheduled one's place, and nothing else does: an
\* earlier scheduled report of the same key is of the same week, and a forced run
\* sends its own (weeklyReports.js:43, mailer.js:59-70).
WeekIsCovered ==
  [][\A i \in Instances :
       Finish(i) /\ run[i].enabled /\ run[i].ok
         => \A m \in run[i].owed :
              m.kind = "employee_weekly" =>
                \/ [to |-> m.to, until |-> run[i].now - 1] \in covered
                \/ ~run[i].force /\ forced[m] > 0]_vars

\* A run ends, the scheduler's flag comes down and the leader lock is given
\* back, whatever failed on the way: the next night is never locked out
\* (nightlyReports.js:78-80, scheduler.js:28-32, 50-52).
NextNightIsFree ==
  \A i \in Instances :
    running[i] \/ cronFlag[i] \/ conn[i] = "held"
      ~> ~running[i] /\ ~cronFlag[i] /\ conn[i] = "none"
=============================================================================
