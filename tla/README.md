# Verification of ads-whatsapp-intelligence

This directory models the server of *ads-whatsapp-intelligence* (`src/server`), a
Node/Express application that reads WhatsApp conversations from WATI and
advertising figures from Meta, has an AI analyse the conversations, and reports on
campaigns and employees by mail and on boards. It holds TLA+ modules translated
from the code, TLC configurations that check them on small instances, and TLAPS
proofs of what should hold for every instance.

The server is one event loop. Nothing in it runs in parallel, but almost every
operation is a chain of `await`s over MySQL, SMTP, WATI, Meta and the AI, and any
other handler may run between two of them. There are no transactions around the
sequences modelled here, so a failed statement or a crash leaves what had been
written. That is where its correctness is decided, and a unit test seldom goes
there; so one action of a module is what the code does between two awaits.

## Inventory

| Component | State it keeps | Operations | Model |
|---|---|---|---|
| Report pipeline: `jobs/nightlyReports.js`, `lib/mailer.js`, `lib/weeklyReports.js` | a `running` flag per process; `ads_email_log`, one row per (kind, recipient, period) | the nightly run with its stages; `sendOnce` | `NightlyReports` |
| Scheduler and leader lock: `jobs/scheduler.js` | a flag per job and process; MySQL's named lock, bound to one connection | the cron jobs | `NightlyReports` |
| Conversation batches: `routes/conversations.js`, `lib/jobState.js` | two job objects in memory, their copies in `ads_job_state` | sync-batch, analyze-batch, stop-jobs, the status poll, the correction at boot | `ConversationJobs`, `JobPanel` |
| Business profile: `lib/businessProfile.js`, `lib/profileStore.js`, `routes/businessProfile.js` | versions in `app_business_profile`; the live profile in memory | save, generate, activate, hydrate | `ProfileVersions` |
| Broadcasts: `lib/broadcast.js`, `routes/broadcasts.js`, `createBroadcast` of `lib/wati.js` | `ads_broadcast_run`, `ads_broadcast_recipient`; a master switch | execute, the send with halving and retries | `Broadcasts` |
| AI analysis: `lib/conversationAnalysis.js`, `lib/deepseek.js`, `jobs/evaluateBacklog.js` | `ads_conversation_analysis`, evaluations, the cost log | analyse one, persist its evaluation, work off the backlog, check the budget | `Analysis` |
| Ingest: `ingest/ingestWati.js`, `lib/conversationMeta.js`, `jobs/boardRefresh.js`, `quickSync.js`, `backfill.js` | contacts, message facts, scores | incremental and full passes, single re-reads, the board's refresh | `Leads` |
| Contact status: `lib/contactStatus.js` | `ads_lead_followup` | gather, snapshot, `contacted_at` | `Leads` |
| Assignment: `lib/watiAssign.js`, `routes/assignment.js` | the owner column, `ads_assignment_log` | assign, undo | `Leads` |
| Quality scores and board: `lib/qualityScore.js`, `lib/qualityBoard.js` | the calibration, one snapshot row per employee and day | score, rank, gather, save the snapshot | `QualityBoard` |
| Quality review: `lib/qualityReview.js` | severity and verdict of each finding | confirm, reject, re-grade | `QualityBoard` |
| Set-up: `lib/setupState.js`, `routes/setup.js`, `server.js` | `setup.json`, the router, the activation | the steps, the last step, the activation, the boot | `Installation` |
| Users: `lib/authUsers.js`, `routes/users.js` | `app_users`, sessions | roles, the last-administrator check, the bootstrap administrator | `Installation` |
| Tags, Meta tokens, read-only pages, rendering, settings, scripts, web client | see *Not modelled* | | |

How they meet: cron and two admin buttons start the nightly run, which calls the
ingest, the analysis and SMTP. Batches, the nightly run, the backlog and the
conversation page all call the same `analyze`, under one daily budget. Ingest
passes, single re-reads and assignments write the same contact row. The end of a
backlog run stores the board's snapshot, which reads owners, evaluations and
verdicts. Every prompt and score reads the live profile, and rows are stamped with
its version. The set-up's last step activates all of it.

What is hard, and the property each component stands or falls with:

* **Report pipeline.** Mails leave the system before the log row does; runs are
  started in three ways and repeated by hand. *A mail reaches its reader, and does
  not reach it twice without a reason the log can show.*
* **Scheduler.** One flag left behind, and no report is ever sent again; a lock
  lost, and two are. *Scheduled runs exclude each other and always free the way for
  the next night.*
* **Conversation batches.** The job object is held both by the pool and by the
  module, and the two part when batches overlap; saves are not awaited. *A finished
  batch is complete, nothing is paid for twice, stop stops, a restart says what was
  cut short.*
* **Business profile.** Save and activation are four to eight awaits over rows that
  other requests change. *A version names one vocabulary for ever, exactly one
  profile is live, and correcting a label costs nothing.*
* **Broadcasts.** A batch refused for one bad id is halved and sent again; a call
  without an answer is repeated. *Everyone eligible gets the message once, and the
  log tells the truth when they did not.*
* **AI analysis.** The budget is read before a call and charged after it. *The spend
  stays within the budget plus what was under way; what is stored is never replaced
  by something older, nor by the emptiness of a read that says it failed.*
* **Ingest, status, assignment.** Three kinds of writers on one row, each writing
  what it read some awaits ago. *Facts only grow, a score is made of the facts beside
  it, the owner here is the owner at WATI, every move is on record.*
* **Scores and review.** Five nested averages and a cap, over verdicts of several
  supervisors. *A verdict never moves a score the wrong way; the snapshot is the
  board.*
* **Set-up, users.** A wizard whose steps and last step can be cut short anywhere.
  *An installed server is usable, what is done holds after a restart, and somebody
  can administer it.*

The hazards behind these sentences are listed line by line in `PROJECT.json`.

## What is modelled

Beside some definitions stands a second one that no specification uses
(`CheckBudgetInclusive` beside `CheckBudget`): the same step with a plausible mistake
in it. `PROJECT.json` pairs it with the property that finds the mistake.

### NightlyReports

One process is an element of `Instances`. `cronFlag` and `running` are the two
module variables of that name, `conn` is the connection `withLeaderLock` holds,
`run` the local variables of `runNightlyInner`. `log` is `ads_email_log`, and
`copies`, `forced`, `lost` and `covered` record what was delivered, by whom, and
what the log missed. A mail is identified with its log key. Calendars are shrunk:
a week has `WeekLen` days and the weekly report goes out on day 0 of it.

| Action | Code |
|---|---|
| `NextDay`, `CronTick`, `GetLock`, `LockFails`, `EndCron` | the cron callback and `withLeaderLock` |
| `RunNightlyButton`, `SendReportsNow` | the two admin buttons, which take no lock |
| `Prepare`, `PrepareFails` | stages 1 and 2: data, master switch, recipients, AI key |
| `CheckSent`, `ReportFails` | a report is built and `sendOnce` looks its row up, or something throws; what is abandoned then depends on the stage |
| `SendOk`, `SendFails`, `SendUnconfirmed` | the three ends of `sendMail` |
| `LogSent`, `LogSentFails` | the row |
| `Finish`, `Crash`, `Restart`, `LoseConnection` | the end of the run and of the process |

Left out: what a report says, and the quick sync (the same wrapper around another
function). The data stage swallows its failures, so it is one step. `EndCron` always
frees the lock: the code swallows a `release_lock` that fails (`scheduler.js:29`), and
the model takes it to fail with its connection only, whose end frees the lock as well.

### ConversationJobs and JobPanel

`job` is the heap of job objects; `cur` is the module variable, and the number of a
pool is the object `runPool` was given. `Take`, `Processed`, `Skipped` and `Failed`
are a worker's turns, `Close` the `.then` behind the pool. `Failed` counts on the
pool's object and the others on `cur`, as the code does. `Ask`, `Select` and `Begin`
are the three turns of a request: the 409 guard, the select answered, the new
object. `saving` is the bag of saves nobody awaits; they land in any order, fail, or
go down with the process. Of what a save writes `saved` has the state only; the
counters that `Restart` brings back with it are left open (any numbers of `Counts`).
`Kind` picks sync or analyze, which differ in the skip, in the select and in when
they save.

`JobPanel` is the abstract specification: what an operator may rely on who looks at
the status endpoint. It has a state, a total and a count; starting resets, counting
counts up, a stop sticks, only a restart says "error", a restart never says
"running", and nothing is on display as running for ever. What a restart says of the
counts is not promised: it is what the last save said. `Panel` in
ConversationJobs is the refinement mapping: the state of the object `cur` points to,
the length of its list, and done, skipped and failed together; "down" while no
process answers. That a start waits for the batch before it is deliberately not in
it: two requests can pass the 409 guard together.

### ProfileVersions

`rows` is the table, `live` the module variable of `profileStore.js`, `request` the
statement each HTTP request waits for. A profile is its two vocabularies; an entry
stands for everything the fingerprint hashes (keys, severities and the like), so
equal vocabularies are equal fingerprints. `validateProfile` repairs what it can
before the save and its errors go into the answer only; a stored profile may
therefore be valid although its save reported errors. `Saved` leaves that open, and
with it whether `/activate` goes on: the wizard's approve does not look. A statement
that fails has not been carried out.

### Broadcasts

`list` is what the database returned, at most `MaxAudience` of those who are eligible,
in an order of its own, and `pos` how many of it are done. The run's total is the
count of the preview, which has no cap; of an audience above it the rest is neither
messaged nor logged, and "everyone" below means the recipients. The recursion
of `sendBatch` does the left half first, so what is pending is always the rest of
the list, cut at the places in `cuts`: a refused batch adds a cut in its middle, a
settled one removes the first cut. One action is one answer of WATI: `Accept`,
`RefuseInvalid` (a bad id; halve, or give up on a single contact), `RefuseBatch`
(any other refusal), `Unsent` and `Unanswered` (429, 5xx or a timeout, before or
after the call was carried out), the last two through `Retry`. Then come
`logRecipients` and `CountChunk` with their swallowed failures. `accepted` and
`doubtful` are what WATI really did, which the program cannot see. The audience and
the switch change at any time (`AudienceShifts`, `setSendEnabled`).

### Analysis

A task is one awaiting call: a page view, the analyze button, a worker of a batch,
the auto-analysis (all in `Workers`), or the backlog. `task[t].pc` is the await it is
at: `fetch` (the thread from WATI), `sync` (the meta row), `budget`
(`assertWithinBudget`), `ask` (the call), `store` (the analysis and its evaluation).
A thread is its length. `charged` is the sum the budget check reads, `logging` the
inserts into `ads_ai_runs` nobody awaits, `lost` the calls that cost money and will
never be in it: answers that never came, inserts that failed, and what a crash took.

| Action | Code |
|---|---|
| `Begin`, `Fetch`, `FetchFails`, `Sync` | `analyze` and `syncOne`: an empty thread is an error for the one and a fact for the other; a read whose last attempt throws is marked and keeps what is stored |
| `FetchRateLimited` | a fourth 429: the read is empty without a mark. `syncOne`, of a page view or a batch, stores that as a fact (`misread`); `analyze` throws on it, as on any empty thread |
| `CheckBudget`, `Answered`, `Garbled`, `Unanswered`, `LogLands`, `LogFails` | `chatJSON` and its bookkeeping |
| `Store`, `persistEvaluation` | the upsert of the analysis; the evaluation, which throws before its first statement (see *Findings*) |
| `StartBacklog`, `SelectPending`, `NextConversation`, `LoopEnds`, `EndBacklog`, `BacklogFails` | `evaluateBacklog` with its guard and its own look at the budget |

Which of the pending conversations a backlog run selects is left open (its dates and
the human reply are not in the model), so starvation of old ones is not either. The
texts of prompts and the validation of the answer are data: an answer is usable,
garbled or lost.

### Leads

What the database keeps of a lead, and who writes it. `thread` and `owner` are WATI's
truth; `row` is `ads_wati_contacts` reduced to the owner, the message facts (the
number of messages they were computed from) and what the score was computed from.
Three kinds of writers, each at its await:

* `pass`: `ingestWati` under its callers. `ListPage` and `BuildRow` collect the rows
  in the two groups `full` and `part` (with and without messages), `Flush` writes one
  of them with the COALESCE upserts (`flush`, `Coalesce`), `EndScan` goes on with
  what the caller does next: the board's refresh re-reads its window (`SelectWindow`,
  `Reread`, `EndReread`), the nightly run and the quick sync come to `Gather` and
  `Snapshot`. A failed page ends the scan and not the caller (`ScanFails`).
* `reader`: `syncOne`, for a page view or for the board's refresh. `Fetch` reads the
  thread, `SyncMeta` upserts the meta row and reads the contact; `SyncRow` updates it.
  A read whose last attempt throws is marked and keeps what is stored (`SyncFails`);
  one that WATI turned away four times is not, and goes on as an empty thread
  (`FetchRateLimited`).
* `desk`: `assignMany` and `undoBatch`. `Look` reads the previous owner, `Accepted`,
  `Refused` and `Unanswered` are WATI's answers with three attempts, `Update` follows
  in our table, `logRow` in the log; the last two swallow their failures.

`WatiMoves` is WATI's own users moving a conversation. The histories say what
excuses a difference: `overlapped` (two writers on one conversation's messages),
`misread` (a read that failed without a mark was taken for an empty one:
`FetchRateLimited` in `syncOne`, after four 429s, `lib/wati.js:65`;
`BuildRowMisread` in a pass, where `firstResponse` catches every failure,
`lib/wati.js:155`), `overtaken` and `astray` (an owner read or set before somebody
moved it), `excused` (a fault kept a carried-out move out of the log).

### Installation

`file` is `setup.json`, `proc` the process (the database it is configured for, the
mounted router, `activated`, the scheduler), `db` each database. `task` is where each
request is, and the boot. A wizard step is `Save`, then `Valid`, `Persist` and
`MarkComplete`; the database step is `SaveDb`, which writes the file and the
configuration in one turn. The last step is `Finish`, `LookUp`, `SaveRange`,
`CreateAdmin`, `Activate`, and the activation, which the boot shares:
`EnsureSchema`, `Bootstrap`, `Mount`. A boot that fails mounts the API all the same
(`degraded`). `StartUp` is the boot of an installed server and `resumeSetupDatabase`
of a half-installed one. `ChangeUser`, `CheckTarget`, `CountAdmins` and `UpdateUser`
are a change of an account with its last-administrator check.

Who may send a request is left open, which allows more than the code does: a claim
lapses after a time and can be taken over while an earlier request is under way.
The four steps that can be put off are the constant `Skippable`. The configuration
by environment variables and the import started after the last step are left out.

### QualityBoard

The pure part is `qualityScore.js` and the gathering of `qualityBoard.js`, as
operators over what was read: `Weighted`, `complianceScore` with `Deduction`,
`responseScore`, `conversionScore`, `productivityScore`, `overallScore` with its cap,
`topPerformerEligible`, `scoreConfidence`, `rankEmployees` (`Key`, `Before`,
`Rankings`), `Row` and `Board`. Scores are integers of tenths, as the code rounds
them, made of exact fractions where the code has floating point; weights and
thresholds are whole numbers, where the code takes any in range. A sort leaves rows
that tie as they were read, in any order the database may give: `Rankings` is the set
of the orders that may come out.

The state around it is a verdict's two turns (`Review`, `Decide`: the severity is
read, and written back with the verdict), the calibration, reassignments, and the
end of a backlog run: `ReadCalibration` (a failed read leaves the defaults), three
reads in any order that may see different owners, `SaveRow` for each employee.

## What is checked

| Run | Question | Instance |
|---|---|---|
| `nightly_one` | what the email log promises, which week an employee is told of, and that no failure locks a later night out | one process, a general manager and an agent, two days, a week and a month of two days, two clicks, one fault |
| `nightly_two` | guards and leader lock | two processes, one campaign manager, one click, one fault |
| `conv_batches` | completeness, no double analysis, stop, saved state | two conversations, two requests, two batches, two workers, saved counters up to two, one fault |
| `conv_batch_ends` | ConversationJobs implements `JobPanel`, its liveness included | sync, one request, two batches, fair workers, one fault |
| `profile_versions` | versions, the active row, the live profile, what a new profile costs and what it keeps | two requests, three versions, two vocabularies, four arrivals, one fault |
| `broadcasts` | who is messaged how often, and what the run says | five contacts of which four are taken, in chunks of three, any set of bad ids, a change of the audience or the switch, three faults |
| `analysis` | the budget; nothing older; the backlog's guard | a worker and the backlog, two conversations of up to two messages, a budget of two calls, three starts, one fault |
| `analysis_unscored` (violated) | "validate the AI's evaluation block and upsert it" | as `analysis` |
| `leads` | facts, scores, first contact, the board's refresh; whose owner is right, which moves are on record | one conversation of one message, the board's refresh and the quick sync, a re-read, a batch with two owners, two attempts and one move by WATI's users, three starts, one fault |
| `leads_rate_limited` (violated) | "on failure, keep whatever is stored" | one conversation of up to two messages, the board's refresh, a re-read, two starts, one fault |
| `installation` | usable, resumable, administered | a step that can be put off and the database step, two databases, two addresses, two requests at once, five in all, two faults |
| `scores` | verdicts, averages, the snapshot | two employees and a bot, two conversations with a finding each or one with two, two verdicts, a calibration or a reassignment, two runs, one fault |

**Why the bounds are enough.** Two days cross a week's and a month's end; with two
clicks and cron, three runs work on the same keys: a first one, a repeat, and a
forced one. One fault is what every property of the pipeline is stated about ("a
lost row", "a lost connection"); with several, each is counted. Two batches are what
it takes for `cur` and a pool to part; two requests to pass the guard together.
Three versions are the first at which an entry can be retired. Chunks of three are
the smallest that halve unevenly (two and one) and halve twice; a fourth contact
makes a second chunk, which is not full, and a fifth is above the cap; three faults
use up the retries of a call. Two broadcast requests share the audience and the
switch only, which one request sees change at any time, so one suffices.

In `analysis` the budget is reached after two calls, with another under way or not yet
logged; the worker and the backlog are the two tasks it takes to meet on
one conversation. Writers of a lead meet on one conversation only, and every property
of Leads is about one, so one suffices. Three starts are the refresh beside a pass and
a re-read, or an assignment, its undo and a pass; the first message is the employee's,
so that it changes the facts, the score and the first contact at once. Longer
conversations and more starts are left to the proofs, which cover all six properties.
Two attempts are the least with a lost answer before the last one. A group of
rows is flushed at 500, which one contact never reaches: that a flush in mid-list is
harmless is what the proofs are for. Two databases and two requests are what it takes
to answer a step into the one while the other is chosen; five requests are a database
step, another step, a last step, and two more to repeat or to disturb them, or
creating a second administrator and two changes against each other. In `scores` the
two pasts are chosen so that the rejected or confirmed finding moves a rank, an
eligibility, the cap, or an average over evaluated and unevaluated conversations, and
the overrides so that a weight changes and a threshold is out of range.

`CHECK_DEADLOCK FALSE` is set throughout because every model stops at its bounds, and
because an idle server waits for a click. `SYMMETRY` is used in runs of safety
properties only, over sets whose members the specification never tells apart.
`scores` has a `VIEW`: what a run of the backlog has read and stored is left out of
it once something failed or changed after the run began. `SnapshotIsTheBoard`, the
only property about it, looks at it again only after the next run began to read,
and that run overwrites every row the board has.

**Refinement.** `ShowsAPanel` states that ConversationJobs implements `JobPanel`
under the mapping `Panel`. The safety part is proved as well (`RefinesJobPanel`); that
no batch is on display as running for ever is checked under fairness.

**Fairness.** `FairSpec` of NightlyReports assumes that a process which can take a
step of its own takes one: its awaits settle, because the SMTP, HTTP and MySQL
clients time out. Nothing is assumed of operators, days, faults or restarts.
`FairSpec` of ConversationJobs assumes the same of the workers of each pool and of
its closing, but not that a select answers. `FairSpec` of Analysis assumes it of each
task and of the backlog's own steps; not of the inserts nobody awaits, nor of starts.
The other properties need no fairness; that a broadcast ends is stated as a variant
(`CallsMakeProgress`): every call advances the list, or shrinks the batch to send
next, or uses up one of three attempts, in this order of weight.

## What is proved

All theorems hold for every value of the constants, under the named assumptions of
the modules: sizes are natural numbers, the bounds on faults and requests are any
natural number, and the sets whose members are counted are finite. Each component's
proofs are in a module of their own, and `PROJECT.json` lists the theorems.

**NightlyReportsProofs.** `TypeCorrect`. `GuardsTrack` and `CronExclusion` follow from
`GuardInv`: besides the guards it says that the scheduler's flag is up exactly while
its task has a connection, and that at most one connection holds the lock.
`TruthfulLog` needs `MailInv`: a mail between its delivery and its row has been
delivered. `DuplicatesExcused` is about sums: `DupInv` says that every copy of a mail
beyond the forced and lost ones is the one its 'sent' row, or the run in flight that
is about to write it, accounts for; that is where "no two runs at once" is used.
`SentRowsKept` and `CleanRunDelivers` are action properties; the second rests on
`Accounted`: a run that has reported no failure has delivered all it owed but what is
still to do, in hand, or was skipped for a row that is truthful.
`WeekCovered` asks more of a weekly report, whose key does not say which seven days it
covers. `WeekTold` says that a report somebody got was forced or tells of the week its
key names; it rests on `Sane` (an unforced run owes weekly reports on the last day of
a week only) and on `WeekDayOfKey`: two such days with one key are one day.
`NightWindsDown` is the safety half of `NextNightIsFree`, and all of that property but
the fairness. `NightLeft` counts the steps a process still has before it: three at
most per mail to do, one to prepare, one to finish, those of the cron task, and for a
task that waits for its connection those of the run it may start. The count is zero
exactly when run, flag and connection are down; it falls at every step of the night,
the failing ones included; a tick or a click alone raises it; and while it is above
zero the guard of one of the steps holds (`NeverStuck`: there is always a mail whose
stage comes first). That there are finitely many mails is `PeopleAssumption`.

**ConversationJobsProofs.** `TypeCorrect` (no pool has more conversations in hand than
workers). `StopReaches` from `RaceInv`, `SavedCurrent` from `SavedInv`: the save that
is the latest carries the state on display. `BatchAccount` is the invariant behind
`DoneComplete`: for each pool, the conversations to do and in hand and those counted
add up to the total, as long as no batch overlaps another. `AnalyzedAtMostOnce` from
`FreshInv`: what a pool has still to do, or a request has selected, is not analysed
yet. `RefinesJobPanel`: the initial state maps to JobPanel's, and each action to one
of its steps or to a stutter. `BatchesRunOut` is the safety half of the panel's
liveness: by `EndInv` the batch on display as running has an open pool, also when
batches overlap and count on each other's objects; an open pool has a step to take;
two steps per conversation to do, one per conversation in hand and the closing are
what is left to it, and only the start of a pool adds to them.

**ProfileVersionsProofs.** `TypeCorrect`. `VersionInv` is the invariant for the
states where no activation overlaps another request: at most one request is inside
an activation (`AloneInv`), what it has read is still what the table holds
(`ReadInv`), and every name points to the version that introduced it (`NamesInv`).
From it follow `NamesOneVocabulary`, `AtMostOneActive` and `RecordKept`;
`LiveFollows` needs `LiveInv` in addition. `LabelFixFree` and `LabelsKept` compare
two reloads of the profile in memory, several statements and perhaps a restart
apart. Its invariant `FreeInv` carries the comparison through the steps between:
from the moment an activation has compared its draft with the active row until it is
live, what it holds, or has stored, `Follows` what is live: new names for new
vocabularies, and the dropped entries among the retired ones; a failure after the
archive opens a gap in which nothing is claimed.

**BroadcastsProofs.** `TypeCorrect` (three attempts at most). `RunsConsistent` is the
invariant of one run, and each request keeps it whatever the others do: the contacts
with an outcome are a prefix of the list, in which nobody is twice; the cuts lie
between the prefix and the end of the list; WATI took a contact as often as answers
were lost, and once more when its batch is settled as queued; an outcome agrees with
the contact's id. The theorems `EveryoneAccounted`, `TruthfulLog`, `BadIdAlone`,
`RepeatsExcused` and `ErrorReachedNobody` follow at once, and `CallsProgress` from
the place of the middle in a halved batch.

**AnalysisProofs.** `TypeCorrect`. `BudgetBounds` from `SpendInv`: what is charged and
what is pending cost less than the budget and the most that was ever pending at once.
It holds at the admission, where the sum read is below the budget and the pending
calls are counted into that maximum, and no other step raises the left side.
`StoredNeverOlder` from `OlderInv`: what a task has read is no newer than WATI, and no
older than what is stored as long as no other task has been on the conversation. A
read without a mark breaks the second part for the facts, where `misread` excuses it,
and never for the analysis, which such a task does not get to (`RateLimitedEffect`).
`BacklogRunsOut` is the safety half of `BacklogEnds`: by `RunInv` the guard is up
exactly while a run is somewhere between its select and its snapshot, and the backlog's
task works only inside the loop; `RunLeft` counts six steps per conversation and those
its task has left, and every step of the run or the task lowers it, failures and a
quota error included.

**LeadsProofs.** `TypeCorrect`. `MovesOnRecord` from `DeskInv`: batches do not share
an id, a plan holds a contact once and only contacts not reached yet, the log has a
row only after the move was carried out. `OwnersAgree` from `ListedOnce` (a contact is
not on a page yet, or on this one, or in one of the two groups) and `OwnerInv`: what a
pass or a batch is about to store is WATI's owner until it is overtaken.
`FactsOnlyGrow` and `ScoresFollow` from `MsgInv`: of a conversation without overlap
one writer at most is about to write, nothing read is ahead of WATI, and what is about
to be written is no less than what is stored, unless a read without a mark emptied it.
The score needs the first part only: it follows the facts, also the wrong ones.
`RefreshesComplete` from `RefreshInv`: what was due is still to be selected, waits, is
being re-read, or has been (`Selected`); and what a re-read has in its hands, or has
stored, is no older than the refresh (`Fresh`, `BoardReads`). `FirstContactStamped`
from `FirstInv`, which rests on `MsgInv` for the conversations without a misread: what
a snapshot has gathered is not behind the table it updates.

**InstallationProofs.** `TypeCorrect`, with `WellFormed` for the accounts.
`InstalledServerIsUsable` from `UsableInv`: whoever records the install has seen every
step settled and activates the process first. `CompletedStepsStand` from `StepsInv`:
the process is on the database of the file, and a step that is about to be marked has
its answers there. `AdministratorRemains` from `AdminInv`: one request at most is
about to take an administrator away, and it leaves another one; every database with
accounts has an administrator; and whoever signs in has an account. This is the longest
argument of the module, because a request can be at any of its awaits while another
swaps the database under it.

**QualityBoardProofs.** The scores are about data, so four assumptions say what the
data may be: there are finitely many employees, conversations and findings
(`FiniteAssumption`); what is stored has been through `validateEvaluation`, whose
`clampScore` and `clampUnit` (`lib/evalValidate.js:25-32`) keep marks and confidences
within 0 to 100 and whose `clampSeverity` keeps severities in the list
(`PastsAssumption`); a weight that is sent is a number, of any sign, as
`resolveWeights` refuses the rest (`WeightsAssumption`); a new severity is one of the
five (`RegradesAssumption`, `lib/qualityReview.js:180`). Nothing is assumed of the
thresholds that are sent: `resolveThresholds` puts them in range.

`SeverityDecided` from `VerdictInv`: a request under way has in its hands the severity
that was given last, while no other is on the finding. `BoardTypes` is the type
invariant `TypeOK`, in which the ranges matter: an SLA of no minutes would divide by
zero, a floor above 100 would turn the deductions round. `SnapshotShowsBoard` from
`FreshInv`: while nothing fails and nothing changes, each table a run has read is as it
was read, the board it saves is the board, and each of its rows is in the snapshot or
still in the list. That every employee is in the list, whatever order the sort leaves,
is `RankingsAreComplete`.

`ScoresBetween` and `VerdictsMoveFairly` hold in every state of the right types; the
work is in what the operators compute, for any number of conversations and findings.
They rest on these layers, each in a section of the module:

* *Folds and sums.* The folds of the community modules are recursive functions on the
  subsets of a set, chosen by `CHOOSE`. `FoldExists` and `FoldsAgree` say that there is
  exactly one, by induction over subsets: of any failing ones a smallest is taken
  (`LeastSet`), so that no induction theorem of the library is needed. From it,
  `SumsAre` (a sum loses with any member that member's value), and that sums keep order
  and factors, and count (`SumMono`, `SumScale`, `SumCount`).
* *Rounding and averages.* `Tenths` keeps order and stays between integers
  (`TenthsMono`, `TenthsBetween`); a common multiple is divided by what it is made of
  (`MultipleDivides`); so a weighted average of what is known is a score or nothing
  (`WeightedIn`), lies between its parts (`RawBetween`) and is no worse for better
  parts (`RawMono`).
* *Compliance.* `CheaperBy` compares the findings on one employee after a verdict with
  those before it. What costs less, leaves no less: for one conversation
  (`ComplianceScoreMono`), for their average and for the findings alone
  (`FromIssuesMono`), and against what the evaluations report (`LowerOfMono`), where
  the lower of two counts and a missing one does not.
* *Rows and places.* `RowMono`: every other part stays, the overall score is no less
  also under the cap for confirmed critical findings; `EligibleMono`; and `BoardMono`:
  with a key that is nowhere less and the others' rows unchanged, nobody stands before
  an employee who did not before. `RowElsewhere` says that the others' rows are
  unchanged. A rejection makes the findings cheaper, and a confirmation is the same
  with the two boards exchanged (`RejectionImproves`, `ConfirmationWorsens`).

**Only model-checked:**

* `NextNightIsFree`, `BacklogEnds` and the liveness of `ShowsAPanel`: liveness under
  fairness is out of the prover's reach, and so is that the guard of a step makes it
  possible (ENABLED). What is proved is the argument they rest on: a natural number
  that the steps under fairness lower and no other step raises while the run lasts
  (`NightWindsDown`, `BacklogRunsOut`, `BatchesRunOut`).
* That the scores are the code's own to the last tenth: model and proofs have exact
  fractions, and the code's floating point may round a tie the other way.
* `EvaluationIsStored` and `FailedFetchKeepsMeta` are violated, see below.

## Findings

Two runs find a violation.

`analysis_unscored`: `persistEvaluation` passes `profile` to `validateEvaluation`
(`lib/conversationAnalysis.js:283`), but `profile` is a variable of
`analyze`. With an evaluation in the answer it throws before its first statement;
`analyze` catches it, and no evaluation is ever stored. The backlog finds the same
conversations pending again and pays for them again.

`leads_rate_limited`: `get()` of `lib/wati.js` does `continue` on a 429 also on its
fourth attempt (line 65), so four in a row end its loop without an error and it
returns nothing. `getThread` makes an empty thread of that, without the mark a failed
read carries (169-193); `syncOne` passes its guard (`lib/conversationMeta.js:63`) and
stores zero messages, no human reply and `no_customer` over what was there, and the
board's refresh counts the conversation as re-read. The comments at
`conversationMeta.js:59-62`, `wati.js:173-177` and `boardRefresh.js:83-84`, and the
header of `tests/regression.partialData.test.js`, say that a failed read keeps what is
stored; the tests make the request throw, which a 429 never does. One writer and one
failed read are enough. What holds in spite of it is what the other properties say
with the exception named `misread`: no mark, no promise.

The models show, or reading them against the code showed, more places where the code
and its comments part. No run looks for them; where a property covers what the code
does keep, it is named:

* `lib/weeklyReports.js:43`: "Send reports now" in mid-week builds a weekly report
  whose key is the ISO week of yesterday. The report of the week's end has the same
  key and is skipped as already sent: nobody gets the report of the full week.
  `WeekIsCovered` says that nothing but such a forced report takes its place.
* `lib/mailer.js:67-69`: the header of `jobs/nightlyReports.js` says a re-run never
  double-sends. The mail goes out before its row is written: a crash, a lost answer of
  the SMTP server or a failed insert in between, and the re-run sends it again.
  `DuplicatesAreExcused` says that these are the only reasons.
* `lib/jobState.js`: a restart is said never to show a stale "idle" for a job that was
  interrupted. The first save is not awaited; a crash before it lands leaves nothing to
  correct.
* `lib/businessProfile.js:184-189`: the labels of removed entries are said to be kept.
  `mergeRetired` starts from the list of the draft; a generated draft has an empty one,
  so what was retired before loses its label. `RemovedKeepLabels` says what is left
  of the promise: the entries dropped by the last activation.
* `routes/businessProfile.js:61` says a save never overwrites the live profile. It
  updates by version, and an activation may have made that row live since it looked.
* `lib/wati.js:155`: `firstResponse` answers a failed read with a conversation of no
  messages. `ingestWati` stores that as a fact (`misread` in Leads), the same loss by
  another way than the one above.
* `lib/broadcast.js:202`: an audience above the cap of 20000 is cut without a word; the
  run's total is the count of the preview, and its sent and failed never add up to it.
* `routes/setup.js:494`: a last step that fails after the administrator was created is
  said to be retryable. With the same address it is refused as taken (409).
* `server.js:114-126`: a boot that could not activate mounts the API and counts as
  activated, but never starts the scheduler, also when the database comes back.
* `lib/conversationAnalysis.js:316-328`: the upsert of a re-analysis overwrites the
  severity of a finding, also one a supervisor has re-graded. Line 283 throws before
  it, so it is not reached today; it is not in QualityBoard.
* `lib/qualityBoard.js:453`: the snapshot is upserted for who is on the board; a row of
  an earlier run of the day stays for an employee who has left it.
* `lib/tagAssign.js:119-126`: of a group of exclusive tags one answer of the AI keeps
  one, so that no count doubles. AI tags are never deleted (185-186): a later answer
  that picks another of the group leaves both in the table.

## Not modelled

* **Tags** (`lib/tag*.js`, `jobs/tagBacklog.js`). A re-tag writes the rows of one
  conversation; one that stops half-way has no run row yet and is repeated by the next
  run. What goes wrong is in the list above and takes no interleaving.
* **Meta tokens** (`lib/metaAuth.js`). A client of an external service around two
  settings. Its race (`:127`, a refresh that stores its token after a disconnect has
  deleted it) is among the hazards; no text of the repository says which should win.
* **The daily job's metrics pass, the wrapper of the admin jobs.** The pass calls
  `syncOne` and `analyze`, which are modelled; its callers are passes of Leads and
  workers of Analysis. `runJob` is a guard and a saved state as in ConversationJobs.
* **Read-only analytics, rendering, prompts.** Queries, layout and wording: no state,
  and no property of the system depends on it. With the web client, which keeps no
  state of the server, this is most of the repository's lines, and why the modules
  stand for a small part of them.
* **Settings, the knowledge base, maintenance scripts.** One-row writes; scripts are
  run by hand.
* **Inside the modelled components**: the filters and templates of broadcasts, the
  review's lists and training insights, the trend and the drill-down of the board, the
  validators' texts, passwords and lockout, the spend and insights read from Meta. The
  HTTP clients, the session store, MySQL and SMTP are external; a module models what
  the server sees of them, lost answers and refusals included.

Two hazards have no property: the exclusive tags take no interleaving and are
described above; the refresh of the Meta token has no specification to be held
against. Type invariants are left to their proofs, except that the run of
Broadcasts checks its own.

## Running it

`tlc -config MCLeads.cfg MCLeads` checks a run (every `.cfg` is named in
`PROJECT.json` with its module); `tlapm LeadsProofs.tla` checks the proofs of a
component.
