-------------------------- MODULE ConversationJobs --------------------------
(***************************************************************************)
(* The background batches of routes/conversations.js: "sync" re-reads the  *)
(* metrics of the filtered conversations, "analyze" sends them to the AI.  *)
(* A request starts a pool of workers over the list it selected; the pool  *)
(* reports to a job object that the status endpoint shows, that stop-jobs  *)
(* stops, and that lib/jobState.js copies to ads_job_state so that a       *)
(* restart can tell the operator what was cut short.                       *)
(*                                                                         *)
(* The code holds a job object in two ways, and the module keeps both: the *)
(* module variable (`batch`, here cur) and the argument the pool was given *)
(* (here the pool's own number).  They part as soon as a second batch      *)
(* starts while the first one winds down.                                  *)
(***************************************************************************)
EXTENDS Integers, FiniteSets

CONSTANTS
  Kind,             \* which of the two batches: "conv:sync" or "conv:analyze"
  Ids,              \* conversations
  Filters,          \* what a request's filter may match
  Requests,         \* the HTTP requests that may be under way at once
  Concurrency,      \* workers of a pool: 3 for sync, 2 for analyze
  SaveEvery,        \* conversations between two saves: 20 for sync, 10 for analyze
  OnlyUnanalyzed,   \* the request's filter: leave out analysed conversations
  Counts,           \* what the counters of a saved object may be
  MaxStarts,        \* bound: batches started
  MaxFaults         \* bound: crashes and failed statements

ASSUME KindAssumption == Kind \in {"conv:sync", "conv:analyze"}
ASSUME IdsAssumption == IsFiniteSet(Ids) /\ Filters \subseteq SUBSET Ids
ASSUME SizesAssumption ==
  /\ Concurrency \in Nat \ {0}
  /\ SaveEvery \in Nat \ {0}
  /\ OnlyUnanalyzed \in BOOLEAN
  /\ Counts \subseteq Nat
  /\ MaxStarts \in Nat
  /\ MaxFaults \in Nat

-----------------------------------------------------------------------------
VARIABLES
  up,          \* the server process runs
  request,     \* what each HTTP request that starts a batch is waiting for
  starts,      \* batches started: the next pool is number starts + 1
  job,         \* job objects; 0 is the idle one, or the one read at boot
  cur,         \* the object the module variable points to
  pool,        \* the pool that was given job object p
  analyses,    \* rows written per conversation (metrics rows for sync)
  saving,      \* saves under way, counted by content: nobody awaits them
  saved,       \* the row of ads_job_state
  overlapping, \* a request was accepted while another one was under way or
               \* a pool still wound down
  raced,       \* a request was accepted while another one was under way
  faults

saves == <<saving, saved>>
history == <<overlapping, raced>>
vars == <<up, request, starts, job, cur, pool, analyses, saves, history, faults>>

States == {"idle", "running", "stopped", "done", "error"}

Job == [state : States, total : Nat, done : Nat, skipped : Nat, failed : Nat]

idleJob == [state |-> "idle", total |-> 0, done |-> 0, skipped |-> 0, failed |-> 0]

Pools == 1..MaxStarts

\* The ids not taken yet, and the ones in the workers' hands.
Pool == {q \in [open : BOOLEAN, todo : SUBSET Ids, busy : SUBSET Ids] :
           Cardinality(q.busy) <= Concurrency}

NoPool == [open |-> FALSE, todo |-> {}, busy |-> {}]

Request == [phase : {"none", "asked", "selected"}, ids : SUBSET Ids]

NoRequest == [phase |-> "none", ids |-> {}]

\* What a save writes; "last" marks the one no later save has been issued after.
Snapshot == [state : States, last : BOOLEAN]

TypeOK ==
  /\ up \in BOOLEAN
  /\ request \in [Requests -> Request]
  /\ starts \in 0..MaxStarts
  /\ job \in [0..MaxStarts -> Job]
  /\ cur \in 0..starts
  /\ pool \in [Pools -> Pool]
  /\ analyses \in [Ids -> Nat]
  /\ saving \in [Snapshot -> Nat]
  /\ saved \in Snapshot
  /\ overlapping \in BOOLEAN
  /\ raced \in BOOLEAN
  /\ faults \in Nat

Init ==
  /\ up = TRUE
  /\ request = [r \in Requests |-> NoRequest]
  /\ starts = 0
  /\ job = [p \in 0..MaxStarts |-> idleJob]
  /\ cur = 0
  /\ pool = [p \in Pools |-> NoPool]
  /\ analyses = [id \in Ids |-> 0]
  /\ saving = [s \in Snapshot |-> 0]
  /\ saved = [state |-> "idle", last |-> TRUE]
  /\ overlapping = FALSE
  /\ raced = FALSE
  /\ faults = 0

Fault == faults < MaxFaults /\ faults' = faults + 1

\* saveJobState(name, batch).catch(() => {}): the object is serialised now, the
\* statement runs whenever its connection gets to it.
Save(state) ==
  /\ saving' = [s \in Snapshot |->
                 IF s.last THEN (IF s.state = state THEN 1 ELSE 0)
                           ELSE saving[s] + saving[[s EXCEPT !.last = TRUE]]]
  /\ saved' = [saved EXCEPT !.last = FALSE]

NoSave == UNCHANGED saves

-----------------------------------------------------------------------------
(* Starting a batch: sync-batch and analyze-batch. *)

Pending == \E r \in Requests : request[r].phase # "none"

\* Mutant of Ask: the 409 guard is gone.
AskUnguarded(r) ==
  /\ up
  /\ request[r].phase = "none"
  /\ starts < MaxStarts
  /\ request' = [request EXCEPT ![r] = [NoRequest EXCEPT !.phase = "asked"]]
  /\ raced' = (raced \/ Pending)
  /\ overlapping' = (overlapping \/ Pending \/ \E p \in Pools : pool[p].open)
  /\ UNCHANGED <<up, starts, job, cur, pool, analyses, saves, faults>>

\* 409 while the batch on display runs; otherwise on to the select.
Ask(r) ==
  /\ up
  /\ request[r].phase = "none"
  /\ starts < MaxStarts
  /\ job[cur].state # "running"
  /\ request' = [request EXCEPT ![r] = [NoRequest EXCEPT !.phase = "asked"]]
  /\ raced' = (raced \/ Pending)
  /\ overlapping' = (overlapping \/ Pending \/ \E p \in Pools : pool[p].open)
  /\ UNCHANGED <<up, starts, job, cur, pool, analyses, saves, faults>>

\* "Only unanalyzed" is part of the where clause.
Eligible ==
  {id \in Ids : Kind = "conv:analyze" /\ OnlyUnanalyzed => analyses[id] = 0}

\* The database answers the select; the handler has not resumed yet.
Select(r) ==
  /\ request[r].phase = "asked"
  /\ \E F \in Filters :
       request' = [request EXCEPT ![r] = [phase |-> "selected", ids |-> F \cap Eligible]]
  /\ UNCHANGED <<up, starts, job, cur, pool, analyses, saves, history, faults>>

SelectFails(r) ==
  /\ request[r].phase = "asked"
  /\ Fault
  /\ request' = [request EXCEPT ![r] = NoRequest]
  /\ UNCHANGED <<up, starts, job, cur, pool, analyses, saves, history>>

\* The handler resumes: a new job object takes the place of whatever was there,
\* and its pool is set going.
Begin(r) ==
  LET p == starts + 1
      ids == request[r].ids
  IN
  /\ request[r].phase = "selected"
  /\ starts < MaxStarts
  /\ starts' = p
  /\ cur' = p
  /\ job' = [job EXCEPT ![p] = [idleJob EXCEPT !.state = "running",
                                               !.total = Cardinality(ids)]]
  /\ pool' = [pool EXCEPT ![p] = [open |-> TRUE, todo |-> ids, busy |-> {}]]
  /\ request' = [request EXCEPT ![r] = NoRequest]
  /\ Save("running")
  /\ UNCHANGED <<up, analyses, overlapping, raced, faults>>

-----------------------------------------------------------------------------
(* runPool *)

\* Mutant of Take: the index is not advanced.
TakeAgain(p, id) ==
  /\ job[p].state = "running"
  /\ id \in pool[p].todo
  /\ Cardinality(pool[p].busy) < Concurrency
  /\ pool' = [pool EXCEPT ![p].busy = @ \cup {id}]
  /\ UNCHANGED <<up, request, starts, job, cur, analyses, saves, history, faults>>

\* A free worker takes the next id, while the pool's own job is running.
Take(p, id) ==
  /\ job[p].state = "running"
  /\ id \in pool[p].todo
  /\ Cardinality(pool[p].busy) < Concurrency
  /\ pool' = [pool EXCEPT ![p].todo = @ \ {id}, ![p].busy = @ \cup {id}]
  /\ UNCHANGED <<up, request, starts, job, cur, analyses, saves, history, faults>>

Release(p, id) == pool' = [pool EXCEPT ![p].busy = @ \ {id}]

\* sync saves every 20 done; analyze every 10 processed.
SaveDue(j) ==
  IF Kind = "conv:sync" THEN j.done % SaveEvery = 0
                        ELSE (j.done + j.skipped + j.failed) % SaveEvery = 0

\* The closure given to the pool counts on the MODULE's object, which is another
\* pool's once a second batch has started.
Count(j) ==
  /\ job' = [job EXCEPT ![cur] = j]
  /\ IF SaveDue(j) THEN Save(j.state) ELSE NoSave

Processed(p, id) ==
  /\ id \in pool[p].busy
  /\ Release(p, id)
  /\ analyses' = [analyses EXCEPT ![id] = @ + 1]
  /\ Count([job[cur] EXCEPT !.done = @ + 1])
  /\ UNCHANGED <<up, request, starts, cur, history, faults>>

\* analyze only: a conversation no human took part in.
Skipped(p, id) ==
  /\ Kind = "conv:analyze"
  /\ id \in pool[p].busy
  /\ Release(p, id)
  /\ Count([job[cur] EXCEPT !.skipped = @ + 1])
  /\ UNCHANGED <<up, request, starts, cur, analyses, history, faults>>

\* The worker throws: runPool counts it on the object it was GIVEN.
Failed(p, id) ==
  /\ id \in pool[p].busy
  /\ Fault
  /\ Release(p, id)
  /\ job' = [job EXCEPT ![p].failed = @ + 1]
  /\ NoSave
  /\ UNCHANGED <<up, request, starts, cur, analyses, history>>

\* The workers have nothing more to take, and hand back what they had.
Drained(p) ==
  /\ pool[p].open
  /\ pool[p].busy = {}
  /\ pool[p].todo = {} \/ job[p].state # "running"

\* Mutants of Close: the first idle worker ends the batch; a stop does not stick.
CloseEarly(p) ==
  LET state == IF job[cur].state # "stopped" THEN "done" ELSE "stopped" IN
  /\ pool[p].open
  /\ pool[p].todo = {} \/ job[p].state # "running"
  /\ pool' = [pool EXCEPT ![p].open = FALSE]
  /\ job' = [job EXCEPT ![cur].state = state]
  /\ Save(state)
  /\ UNCHANGED <<up, request, starts, cur, analyses, history, faults>>

CloseOverStop(p) ==
  /\ Drained(p)
  /\ pool' = [pool EXCEPT ![p] = NoPool]
  /\ job' = [job EXCEPT ![cur].state = "done"]
  /\ Save("done")
  /\ UNCHANGED <<up, request, starts, cur, analyses, history, faults>>

\* The .then after the pool: it too ends the batch of the MODULE's object.
Close(p) ==
  LET state == IF job[cur].state # "stopped" THEN "done" ELSE "stopped" IN
  /\ Drained(p)
  /\ pool' = [pool EXCEPT ![p] = NoPool]
  /\ job' = [job EXCEPT ![cur].state = state]
  /\ Save(state)
  /\ UNCHANGED <<up, request, starts, cur, analyses, history, faults>>

-----------------------------------------------------------------------------
(* stop-jobs, the saves, and a restart. *)

\* Mutant of Stop: the stop is not saved.
StopUnsaved ==
  /\ up
  /\ job[cur].state = "running"
  /\ job' = [job EXCEPT ![cur].state = "stopped"]
  /\ NoSave
  /\ UNCHANGED <<up, request, starts, cur, pool, analyses, history, faults>>

Stop ==
  /\ up
  /\ job[cur].state = "running"
  /\ job' = [job EXCEPT ![cur].state = "stopped"]
  /\ Save("stopped")
  /\ UNCHANGED <<up, request, starts, cur, pool, analyses, history, faults>>

\* Saves run on different connections of the pool, so in any order.
SaveLands(s) ==
  /\ saving[s] > 0
  /\ saving' = [saving EXCEPT ![s] = @ - 1]
  /\ saved' = s
  /\ UNCHANGED <<up, request, starts, job, cur, pool, analyses, history, faults>>

SaveFails(s) ==
  /\ saving[s] > 0
  /\ Fault
  /\ saving' = [saving EXCEPT ![s] = @ - 1]
  /\ UNCHANGED <<up, request, starts, job, cur, pool, analyses, saved, history>>

\* Everything but the database is gone, the statements under way included.
Crash ==
  /\ up
  /\ Fault
  /\ up' = FALSE
  /\ request' = [r \in Requests |-> NoRequest]
  /\ job' = [p \in 0..MaxStarts |-> idleJob]
  /\ cur' = 0
  /\ pool' = [p \in Pools |-> NoPool]
  /\ saving' = [s \in Snapshot |-> 0]
  /\ UNCHANGED <<starts, analyses, saved, overlapping, raced>>

\* A restart cut short whatever was still running.
correctInterrupted(state) == IF state = "running" THEN "error" ELSE state

Restored(state) ==
  [state : {correctInterrupted(state)},
   total : Counts, done : Counts, skipped : Counts, failed : Counts]

\* hydrateJobs, before the routes are mounted.  A read that fails leaves the
\* idle object the module was loaded with, and so does a job that was never saved.
\* The saved counters come back with the state; how far they had come is left open.
Restart ==
  /\ ~up
  /\ up' = TRUE
  /\ \/ /\ saved.state # "idle"
        /\ \E j \in Restored(saved.state) : job' = [job EXCEPT ![0] = j]
        /\ UNCHANGED faults
     \/ /\ saved.state = "idle"
        /\ UNCHANGED <<job, faults>>
     \/ /\ Fault
        /\ UNCHANGED job
  /\ UNCHANGED <<request, starts, cur, pool, analyses, saves, history>>

-----------------------------------------------------------------------------
\* What the event loop does by itself.
Step ==
  \/ \E r \in Requests : Select(r) \/ Begin(r)
  \/ \E p \in Pools, id \in Ids : Take(p, id) \/ Processed(p, id) \/ Skipped(p, id)
  \/ \E p \in Pools : Close(p)
  \/ \E s \in Snapshot : SaveLands(s)

Failure ==
  \/ \E r \in Requests : SelectFails(r)
  \/ \E p \in Pools, id \in Ids : Failed(p, id)
  \/ \E s \in Snapshot : SaveFails(s)
  \/ Crash

Next == Step \/ Failure \/ Stop \/ Restart \/ \E r \in Requests : Ask(r)

Spec == Init /\ [][Next]_vars

\* The process keeps going while something can: every await in a worker settles
\* (HTTP and MySQL time out).  Nobody promises clicks, restarts or faults, nor
\* that a select answers, so a request may hang for ever.
FairSpec ==
  /\ Spec
  /\ \A p \in Pools :
       /\ \A id \in Ids : WF_vars(Processed(p, id) \/ Skipped(p, id) \/ Failed(p, id))
       /\ WF_vars(\E id \in Ids : Take(p, id))
       /\ WF_vars(Close(p))

-----------------------------------------------------------------------------
(* Properties *)

Handled(j) == j.done + j.skipped + j.failed

\* When no batch was accepted while an earlier one wound down or another request
\* was under way, a batch shown as done has been through its whole list, and no
\* batch ever counts more than its list (conversations.js:132-182).
DoneIsComplete ==
  ~overlapping =>
    \A p \in Pools : /\ Handled(job[p]) <= job[p].total
                     /\ job[p].state = "done" => Handled(job[p]) = job[p].total

\* On the same condition, "only unanalyzed" pays for a conversation once
\* (conversations.js:162-180).
AnalyzedOnce ==
  Kind = "conv:analyze" /\ OnlyUnanalyzed /\ ~overlapping
    => \A id \in Ids : analyses[id] <= 1

\* Unless two requests passed the 409 guard together, the only running pool is
\* the one on display, so stop-jobs stops everything there is; and that though
\* a stopped pool may still be winding down (conversations.js:97-101, 163-172).
StopReachesEveryPool ==
  ~raced => \A p \in Pools : pool[p].open /\ job[p].state = "running" => p = cur

\* The row a restart reads says what the operator sees, as long as the last save
\* was the last to land: no change of state goes unsaved (jobState.js:13-18).
SavedIsCurrent ==
  up /\ cur # 0 /\ saved.last => saved.state = job[cur].state

\* The status endpoint (conversations.js:97) shows a panel of JobPanel.
Panel == INSTANCE JobPanel WITH
  state <- IF up THEN job[cur].state ELSE "down",
  total <- job[cur].total,
  handled <- Handled(job[cur])

\* The batch on display counts up, a stop sticks though the pool that was stopped
\* ends later, a restart never says "running", and the display leaves "running":
\* the pool drains, is stopped, or the process dies (conversations.js:84-102,
\* 132-182; jobState.js:20-26).
ShowsAPanel == Panel!FairSpec

=============================================================================
