------------------------------- MODULE Analysis -------------------------------
(***************************************************************************)
(* The AI analysis of conversations: analyze and persistEvaluation of      *)
(* lib/conversationAnalysis.js, syncOne of lib/conversationMeta.js, the    *)
(* daily budget of lib/deepseek.js and the evaluation backlog of           *)
(* jobs/evaluateBacklog.js.                                                *)
(*                                                                         *)
(* A task is one of the awaiting calls of the event loop: a page view, the *)
(* analyze button, a worker of a batch, the auto-analysis, or the backlog. *)
(* A thread is its length, since WATI only ever appends to it.  WATI and   *)
(* the AI are external: a read may fail, an answer may be garbled or lost. *)
(***************************************************************************)
EXTENDS Integers, FiniteSets

CONSTANTS
  Contacts,
  Workers,       \* the tasks other than the backlog
  Backlog,       \* the task of evaluateBacklog
  Budget,        \* config.deepseek.dailyBudgetUsd; 0 switches the guard off
  Cost,          \* what one call costs
  Limit,         \* conversations per backlog run
  MaxMessages,   \* bound: messages of a conversation
  MaxStarts,     \* bound: tasks and backlog runs started
  MaxFaults,     \* bound: failed reads, calls and statements, and crashes
  NoContact

ASSUME ContactsAssumption == IsFiniteSet(Contacts) /\ NoContact \notin Contacts
ASSUME TasksAssumption == IsFiniteSet(Workers) /\ Backlog \notin Workers
ASSUME MoneyAssumption == Budget \in Nat /\ Cost \in Nat \ {0}
ASSUME BoundsAssumption ==
  Limit \in Nat /\ MaxMessages \in Nat /\ MaxStarts \in Nat /\ MaxFaults \in Nat

Tasks == Workers \cup {Backlog}

-----------------------------------------------------------------------------
VARIABLES
  thread,      \* the messages of each conversation at WATI
  meta,        \* ads_conversation_meta.msg_total; 0: no row
  analysis,    \* ads_conversation_analysis.message_count; 0: no row
  evaluated,   \* the conversations with a row in ads_conversation_eval
  task,        \* what each task is waiting for, and what it has read
  backlog,     \* the guard `running`, and where a run of evaluateBacklog stands
  charged,     \* calls of today whose cost is in ads_ai_runs
  logging,     \* inserts into ads_ai_runs that nobody awaits
  lost,        \* calls that cost money and never will be in ads_ai_runs
  peak,        \* history: most calls admitted and not charged at one time
  overlapped,  \* history: conversations two tasks were on at one time
  misread,     \* history: conversations a failed read of which passed for an empty one
  scored,      \* history: conversations whose stored answer had a usable evaluation
  starts, faults

rows == <<meta, analysis, evaluated, scored>>
money == <<charged, logging, lost, peak>>
vars == <<thread, rows, task, backlog, money, overlapped, misread, starts, faults>>

NoBacklog == [running |-> FALSE, pc |-> "off", todo |-> {}]

Idle == [pc |-> "idle", on |-> NoContact, len |-> 0, ai |-> FALSE]

PCs == {"idle", "fetch", "sync", "budget", "ask", "store"}

Task == [pc : PCs, on : Contacts \cup {NoContact}, len : Nat, ai : BOOLEAN]

TypeOK ==
  /\ thread \in [Contacts -> Nat]
  /\ meta \in [Contacts -> Nat]
  /\ analysis \in [Contacts -> Nat]
  /\ evaluated \subseteq Contacts
  /\ scored \subseteq Contacts
  /\ task \in [Tasks -> Task]
  /\ \A t \in Tasks : IF task[t].pc = "idle" THEN task[t] = Idle ELSE task[t].on \in Contacts
  /\ backlog \in [running : BOOLEAN, pc : {"off", "select", "loop", "snapshot"},
                  todo : SUBSET Contacts]
  /\ Cardinality(backlog.todo) <= Limit
  /\ charged \in Nat /\ logging \in Nat /\ lost \in Nat /\ peak \in Nat
  /\ overlapped \subseteq Contacts /\ misread \subseteq Contacts
  /\ starts \in Nat /\ faults \in Nat

Init ==
  /\ thread \in [Contacts -> 0..1]
  /\ meta = [c \in Contacts |-> 0]
  /\ analysis = [c \in Contacts |-> 0]
  /\ evaluated = {}
  /\ scored = {}
  /\ task = [t \in Tasks |-> Idle]
  /\ backlog = NoBacklog
  /\ charged = 0 /\ logging = 0 /\ lost = 0 /\ peak = 0
  /\ overlapped = {} /\ misread = {}
  /\ starts = 0 /\ faults = 0

Fault == faults < MaxFaults /\ faults' = faults + 1

Goes(t, pc) == task' = [task EXCEPT ![t].pc = pc]

\* The task returns or throws; its caller catches, and logs or counts it.
Ends(t) == task' = [task EXCEPT ![t] = Idle]

Asking == {t \in Tasks : task[t].pc = "ask"}

-----------------------------------------------------------------------------
(* analyze and syncOne *)

NewMessage(c) ==
  /\ thread[c] < MaxMessages
  /\ thread' = [thread EXCEPT ![c] = @ + 1]
  /\ UNCHANGED <<rows, task, backlog, money, overlapped, misread, starts, faults>>

\* Task t is put on conversation c; ai tells analyze from a mere syncOne.
TakesOn(t, c, ai) ==
  /\ task' = [task EXCEPT ![t] = [pc |-> "fetch", on |-> c, len |-> 0, ai |-> ai]]
  /\ overlapped' = IF \E u \in Tasks : task[u].on = c THEN overlapped \cup {c} ELSE overlapped

Begin(t, c) ==
  /\ t \in Workers
  /\ task[t].pc = "idle"
  /\ starts < MaxStarts
  /\ starts' = starts + 1
  /\ \E ai \in BOOLEAN : TakesOn(t, c, ai)
  /\ UNCHANGED <<thread, rows, misread, backlog, money, faults>>

\* An empty thread is an error for analyze, and a fact for syncOne.
Fetch(t) ==
  /\ task[t].pc = "fetch"
  /\ IF thread[task[t].on] = 0 /\ task[t].ai
     THEN Ends(t)
     ELSE task' = [task EXCEPT ![t].pc = "sync", ![t].len = thread[task[t].on]]
  /\ UNCHANGED <<thread, rows, backlog, money, overlapped, misread, starts, faults>>

FetchFailsUnmarked(t) ==
  /\ task[t].pc = "fetch"
  /\ Fault
  /\ task' = [task EXCEPT ![t].pc = "sync", ![t].len = 0]
  /\ UNCHANGED <<thread, rows, backlog, money, overlapped, misread, starts>>

\* getThread answers a read whose last attempt throws with an empty, marked
\* thread: analyze throws on the emptiness, syncOne keeps what is stored on the mark.
FetchFails(t) ==
  /\ task[t].pc = "fetch"
  /\ Fault
  /\ Ends(t)
  /\ UNCHANGED <<thread, rows, backlog, money, overlapped, misread, starts>>

\* On a fourth 429 in a row get() does not throw but returns nothing, and the empty
\* thread carries no mark: analyze still throws on it, syncOne stores it.
FetchRateLimited(t) ==
  /\ task[t].pc = "fetch"
  /\ Fault
  /\ IF task[t].ai
     THEN Ends(t) /\ UNCHANGED misread
     ELSE /\ task' = [task EXCEPT ![t].pc = "sync", ![t].len = 0]
          /\ misread' = misread \cup {task[t].on}
  /\ UNCHANGED <<thread, rows, backlog, money, overlapped, starts>>

Sync(t) ==
  /\ task[t].pc = "sync"
  /\ meta' = [meta EXCEPT ![task[t].on] = task[t].len]
  /\ IF task[t].ai THEN Goes(t, "budget") ELSE Ends(t)
  /\ UNCHANGED <<thread, analysis, evaluated, scored, backlog, money, overlapped, misread, starts,
                 faults>>

\* assertWithinBudget: the sum of today's rows, read before the call.
CheckBudgetInclusive(t) ==
  /\ task[t].pc = "budget"
  /\ IF Budget # 0 /\ Cost * charged > Budget
     THEN Ends(t) /\ UNCHANGED peak
     ELSE /\ Goes(t, "ask")
          /\ LET admitted == Cardinality(Asking) + 1 + logging IN
             peak' = IF admitted > peak THEN admitted ELSE peak
  /\ UNCHANGED <<thread, rows, backlog, charged, logging, lost, overlapped, misread, starts,
                 faults>>

CheckBudget(t) ==
  /\ task[t].pc = "budget"
  /\ IF Budget # 0 /\ Cost * charged >= Budget
     THEN Ends(t) /\ UNCHANGED peak
     ELSE /\ Goes(t, "ask")
          /\ LET admitted == Cardinality(Asking) + 1 + logging IN
             peak' = IF admitted > peak THEN admitted ELSE peak
  /\ UNCHANGED <<thread, rows, backlog, charged, logging, lost, overlapped, misread, starts,
                 faults>>

Answered(t) ==
  /\ task[t].pc = "ask"
  /\ logging' = logging + 1
  /\ Goes(t, "store")
  /\ UNCHANGED <<thread, rows, backlog, charged, lost, peak, overlapped, misread, starts, faults>>

\* Not JSON: the call is paid for and logged, and chatJSON throws.
Garbled(t) ==
  /\ task[t].pc = "ask"
  /\ Fault
  /\ logging' = logging + 1
  /\ Ends(t)
  /\ UNCHANGED <<thread, rows, backlog, charged, lost, peak, overlapped, misread, starts>>

\* A timeout or an error: logged without a cost, whatever it did cost.  The
\* backlog gives up when the message speaks of a quota.
Unanswered(t) ==
  /\ task[t].pc = "ask"
  /\ Fault
  /\ lost' = lost + 1
  /\ Ends(t)
  /\ backlog' \in {backlog} \cup
       (IF t = Backlog THEN {[backlog EXCEPT !.pc = "snapshot", !.todo = {}]} ELSE {})
  /\ UNCHANGED <<thread, rows, charged, logging, peak, overlapped, misread, starts>>

\* persistEvaluation refers to a `profile` that is not in its scope: with an
\* evaluation in the answer it throws before its first statement, without one it
\* returns null, and analyze catches the one like the other.
persistEvaluation(c, usable) ==
  /\ scored' = IF usable THEN scored \cup {c} ELSE scored
  /\ UNCHANGED evaluated

Store(t) ==
  /\ task[t].pc = "store"
  /\ analysis' = [analysis EXCEPT ![task[t].on] = task[t].len]
  /\ \E usable \in BOOLEAN : persistEvaluation(task[t].on, usable)
  /\ Ends(t)
  /\ UNCHANGED <<thread, meta, backlog, money, overlapped, misread, starts, faults>>

StatementFails(t) ==
  /\ task[t].pc \in {"sync", "budget", "store"}
  /\ Fault
  /\ Ends(t)
  /\ UNCHANGED <<thread, rows, backlog, money, overlapped, misread, starts>>

-----------------------------------------------------------------------------
(* ads_ai_runs *)

LogLands ==
  /\ logging > 0
  /\ logging' = logging - 1
  /\ charged' = charged + 1
  /\ UNCHANGED <<thread, rows, task, backlog, lost, peak, overlapped, misread, starts, faults>>

LogFails ==
  /\ logging > 0
  /\ Fault
  /\ logging' = logging - 1
  /\ lost' = lost + 1
  /\ UNCHANGED <<thread, rows, task, backlog, charged, peak, overlapped, misread, starts>>

-----------------------------------------------------------------------------
(* evaluateBacklog *)

StartBacklog ==
  /\ ~backlog.running
  /\ starts < MaxStarts
  /\ starts' = starts + 1
  /\ backlog' = [running |-> TRUE, pc |-> "select", todo |-> {}]
  /\ UNCHANGED <<thread, rows, task, money, overlapped, misread, faults>>

\* The conversations no evaluation exists for; which of them a human has replied
\* to, and what their dates are, is left open.
pendingEvaluation == {c \in Contacts : meta[c] > 0} \ evaluated

SelectPending ==
  /\ backlog.pc = "select"
  /\ \E S \in SUBSET pendingEvaluation :
       /\ Cardinality(S) <= Limit
       /\ backlog' = [backlog EXCEPT !.pc = "loop", !.todo = S]
  /\ UNCHANGED <<thread, rows, task, money, overlapped, misread, starts, faults>>

\* budgetRemaining, whose own failure counts as no limit.
NextConversation(c) ==
  /\ backlog.pc = "loop"
  /\ task[Backlog].pc = "idle"
  /\ c \in backlog.todo
  /\ \/ (Budget = 0 \/ Cost * charged < Budget) /\ UNCHANGED faults
     \/ Fault
  /\ TakesOn(Backlog, c, TRUE)
  /\ backlog' = [backlog EXCEPT !.todo = @ \ {c}]
  /\ UNCHANGED <<thread, rows, misread, money, starts>>

LoopEnds ==
  /\ backlog.pc = "loop"
  /\ task[Backlog].pc = "idle"
  /\ backlog.todo = {} \/ (Budget # 0 /\ Cost * charged >= Budget)
  /\ backlog' = [backlog EXCEPT !.pc = "snapshot", !.todo = {}]
  /\ UNCHANGED <<thread, rows, task, money, overlapped, misread, starts, faults>>

\* The snapshot of the board, and the finally.
EndBacklog ==
  /\ backlog.pc = "snapshot"
  /\ backlog' = NoBacklog
  /\ UNCHANGED <<thread, rows, task, money, overlapped, misread, starts, faults>>

BacklogFailsNoFinally ==
  /\ backlog.pc \in {"select", "snapshot"}
  /\ Fault
  /\ backlog' = [NoBacklog EXCEPT !.running = TRUE]
  /\ UNCHANGED <<thread, rows, task, money, overlapped, misread, starts>>

BacklogFails ==
  /\ backlog.pc \in {"select", "snapshot"}
  /\ Fault
  /\ backlog' = NoBacklog
  /\ UNCHANGED <<thread, rows, task, money, overlapped, misread, starts>>

-----------------------------------------------------------------------------
\* The process dies with its tasks and the inserts under way.
Crash ==
  /\ Fault
  /\ task' = [t \in Tasks |-> Idle]
  /\ backlog' = NoBacklog
  /\ lost' = lost + logging + Cardinality(Asking)
  /\ logging' = 0
  /\ UNCHANGED <<thread, rows, charged, peak, overlapped, misread, starts>>

TaskStep(t) ==
  \/ Fetch(t) \/ Sync(t) \/ CheckBudget(t) \/ Answered(t) \/ Store(t)
  \/ FetchFails(t) \/ FetchRateLimited(t) \/ Garbled(t) \/ Unanswered(t) \/ StatementFails(t)

BacklogStep ==
  \/ SelectPending
  \/ \E c \in Contacts : NextConversation(c)
  \/ LoopEnds
  \/ EndBacklog
  \/ BacklogFails

Next ==
  \/ \E c \in Contacts : NewMessage(c)
  \/ \E t \in Workers, c \in Contacts : Begin(t, c)
  \/ \E t \in Tasks : TaskStep(t)
  \/ LogLands
  \/ LogFails
  \/ StartBacklog
  \/ BacklogStep
  \/ Crash

Spec == Init /\ [][Next]_vars

\* The awaits of the tasks settle: the HTTP clients and MySQL time out.
FairSpec ==
  /\ Spec
  /\ \A t \in Tasks : WF_vars(TaskStep(t))
  /\ WF_vars(BacklogStep)

-----------------------------------------------------------------------------
(* Properties *)

\* deepseek.js:15-17: no call is admitted once the day's budget is spent.  The
\* money spent exceeds it by no more than the calls that were under way or not
\* yet logged at one time, and those whose cost never reached the table.
SpendIsBounded ==
  Budget # 0 =>
    Cost * (charged + logging + lost + Cardinality(Asking)) < Budget + Cost * (peak + lost)

\* conversationMeta.js:59-66: what is stored about a conversation is never
\* replaced by something older, or by the emptiness of a read that failed and says
\* so, unless two tasks were on it together (the slower one may then bring the older
\* thread).  A failed read without a mark can empty the meta row, not the analysis.
NeverOlder ==
  [][\A c \in Contacts \ overlapped' :
       /\ analysis'[c] >= analysis[c]
       /\ c \notin misread' => meta'[c] >= meta[c]]_vars

\* evaluateBacklog.js:29-30, 79-81: a run of the backlog always ends, and makes way
\* for the next, whatever fails on the way.
BacklogEnds == backlog.running ~> ~backlog.running

\* conversationAnalysis.js:264-265: "Validate the AI's evaluation block and upsert
\* it".  A usable evaluation ends up in ads_conversation_eval.
EvaluationIsStored == scored \subseteq evaluated
=============================================================================
