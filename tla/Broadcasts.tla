------------------------------ MODULE Broadcasts ------------------------------
(***************************************************************************)
(* WhatsApp campaigns: the execute endpoint of routes/broadcasts.js, the   *)
(* send loop of lib/broadcast.js with its chunks and its bisection, and    *)
(* the call with its retries (createBroadcast, lib/wati.js).  WATI, which  *)
(* sends the messages, is external: it refuses a whole call for one bad    *)
(* contact id, and its answer to a call it carried out may be lost.        *)
(*                                                                         *)
(* The code slices arrays: a batch is halved, and the left half is done    *)
(* before the right.  So what is done is always a prefix of the list, and  *)
(* what is pending the places where it will be cut next.                   *)
(***************************************************************************)
EXTENDS Integers, FiniteSets, SequencesExt

CONSTANTS
  Contacts,
  Requests,     \* the execute requests; each one creates at most one run
  ChunkSize,    \* CHUNK_SIZE: contacts of one call
  MaxAudience,  \* MAX_AUDIENCE: contacts of one run
  MaxChanges,   \* bound: changes of the audience and of the master switch
  MaxFaults     \* bound: crashes, failed statements and calls

ASSUME ContactsAssumption == IsFiniteSet(Contacts)
ASSUME SizesAssumption ==
  /\ ChunkSize \in Nat \ {0}
  /\ MaxAudience \in Nat \ {0}
  /\ MaxChanges \in Nat
  /\ MaxFaults \in Nat

Attempts == 3

-----------------------------------------------------------------------------
VARIABLES
  enabled,    \* ads_settings.broadcasts_send_enabled
  eligible,   \* the contacts the filter matches and no exclusion applies to
  invalid,    \* the contacts whose id WATI refuses
  phase,      \* what each request is waiting for
  expected,   \* the count its client was shown and echoes, or NoCount
  list,       \* the recipients, in the order the database returned them
  pos,        \* recipients done
  cuts,       \* ends of the batches still to be sent in this chunk
  attempt,    \* retries of the call under way
  outcome,    \* what sendBatch made of each contact
  row,        \* the run's row in ads_broadcast_run
  logged,     \* its rows in ads_broadcast_recipient
  accepted,   \* times WATI took the contact for this run
  doubtful,   \* of these, the ones whose answer was lost
  calls,      \* calls made to WATI
  clean,      \* no call of this run has failed but for a bad contact
  changes, faults

audience == <<enabled, eligible, invalid>>
batch == <<list, pos, cuts, attempt, outcome>>
wati == <<accepted, doubtful, calls, clean>>
vars == <<audience, phase, expected, batch, row, logged, wati, changes, faults>>

NoCount == -1

Phases == {"new", "switch", "template", "preview", "insert", "switch again", "recipients",
           "template again", "send", "log", "count", "finish", "error", "over"}

Outcomes == {"none", "queued", "error"}

Row == [status : {"none", "running", "done", "error"},
        total : Nat, sent : Nat, failed : Int]

TypeOK ==
  /\ enabled \in BOOLEAN
  /\ eligible \subseteq Contacts
  /\ invalid \subseteq Contacts
  /\ phase \in [Requests -> Phases]
  /\ expected \in [Requests -> Nat \cup {NoCount}]
  /\ list \in [Requests -> Seq(Contacts)]
  /\ pos \in [Requests -> Nat]
  /\ cuts \in [Requests -> SUBSET Nat]
  /\ attempt \in [Requests -> 0..(Attempts - 1)]
  /\ outcome \in [Requests -> [Contacts -> Outcomes]]
  /\ row \in [Requests -> Row]
  /\ logged \in [Requests -> [Contacts -> Outcomes]]
  /\ accepted \in [Requests -> [Contacts -> Nat]]
  /\ doubtful \in [Requests -> [Contacts -> Nat]]
  /\ calls \in [Requests -> Nat]
  /\ clean \in [Requests -> BOOLEAN]
  /\ changes \in Nat
  /\ faults \in Nat

Init ==
  /\ enabled \in BOOLEAN
  /\ eligible = Contacts
  /\ invalid \in SUBSET Contacts
  /\ phase = [r \in Requests |-> "new"]
  /\ expected = [r \in Requests |-> NoCount]
  /\ list = [r \in Requests |-> <<>>]
  /\ pos = [r \in Requests |-> 0]
  /\ cuts = [r \in Requests |-> {}]
  /\ attempt = [r \in Requests |-> 0]
  /\ outcome = [r \in Requests |-> [c \in Contacts |-> "none"]]
  /\ row = [r \in Requests |-> [status |-> "none", total |-> 0, sent |-> 0, failed |-> 0]]
  /\ logged = [r \in Requests |-> [c \in Contacts |-> "none"]]
  /\ accepted = [r \in Requests |-> [c \in Contacts |-> 0]]
  /\ doubtful = [r \in Requests |-> [c \in Contacts |-> 0]]
  /\ calls = [r \in Requests |-> 0]
  /\ clean = [r \in Requests |-> TRUE]
  /\ changes = 0
  /\ faults = 0

Fault == faults < MaxFaults /\ faults' = faults + 1

Goes(r, p) == phase' = [phase EXCEPT ![r] = p]

-----------------------------------------------------------------------------
(* POST /execute *)

\* The client echoes the count of its preview, or none.
Execute(r) ==
  /\ phase[r] = "new"
  /\ \E n \in {Cardinality(eligible), NoCount} : expected' = [expected EXCEPT ![r] = n]
  /\ Goes(r, "switch")
  /\ UNCHANGED <<audience, batch, row, logged, wati, changes, faults>>

ReadSwitch(r) ==
  /\ phase[r] = "switch"
  /\ Goes(r, IF enabled THEN "template" ELSE "over")
  /\ UNCHANGED <<audience, expected, batch, row, logged, wati, changes, faults>>

\* The template is approved, or not.
Template(r) ==
  /\ phase[r] = "template"
  /\ Goes(r, "preview") \/ Goes(r, "over")
  /\ UNCHANGED <<audience, expected, batch, row, logged, wati, changes, faults>>

\* The guard against an audience that has changed since the preview.
audiencePreview(r) ==
  LET n == Cardinality(eligible) IN
  /\ phase[r] = "preview"
  /\ IF n # 0 /\ expected[r] \in {n, NoCount}
     THEN Goes(r, "insert") /\ row' = [row EXCEPT ![r].total = n]
     ELSE Goes(r, "over") /\ UNCHANGED row
  /\ UNCHANGED <<audience, expected, batch, logged, wati, changes, faults>>

Insert(r) ==
  /\ phase[r] = "insert"
  /\ row' = [row EXCEPT ![r].status = "running"]
  /\ Goes(r, "switch again")
  /\ UNCHANGED <<audience, expected, batch, logged, wati, changes, faults>>

-----------------------------------------------------------------------------
(* sendBroadcast.  What throws here marks the run as an error. *)

ReadSwitchAgain(r) ==
  /\ phase[r] = "switch again"
  /\ Goes(r, IF enabled THEN "recipients" ELSE "error")
  /\ UNCHANGED <<audience, expected, batch, row, logged, wati, changes, faults>>

Smaller(a, b) == IF a <= b THEN a ELSE b

Limit(order) == SubSeq(order, 1, Smaller(Len(order), MaxAudience))

\* Those who are eligible by now, in whatever order, up to the cap: which of a
\* larger audience are left out is the database's choice (no ORDER BY), and the
\* run's total still counts them.
audienceRecipients(r) ==
  /\ phase[r] = "recipients"
  /\ \E order \in SetToSeqs(eligible) : list' = [list EXCEPT ![r] = Limit(order)]
  /\ Goes(r, IF eligible = {} THEN "error" ELSE "template again")
  /\ UNCHANGED <<audience, expected, pos, cuts, attempt, outcome, row, logged, wati, changes, faults>>

\* The batch that ends the next chunk.
NextChunk(r) == {Smaller(pos[r] + ChunkSize, Len(list[r]))}

TemplateAgain(r) ==
  /\ phase[r] = "template again"
  /\ \/ Goes(r, "send") /\ cuts' = [cuts EXCEPT ![r] = NextChunk(r)]
     \/ Goes(r, "error") /\ UNCHANGED cuts
  /\ UNCHANGED <<audience, expected, list, pos, attempt, outcome, row, logged, wati, changes, faults>>

-----------------------------------------------------------------------------
(* sendBatch and createBroadcast: one action per answer of the call. *)

\* The call is for the batch that ends at the first cut.
Call(r, end) ==
  /\ phase[r] = "send"
  /\ end \in cuts[r] /\ \A e \in cuts[r] : end <= e
  /\ calls' = [calls EXCEPT ![r] = @ + 1]

Batch(r, end) == {list[r][p] : p \in (pos[r] + 1)..end}

\* Mutant of Settle: the right half starts where the left one did.
SettleFromStart(r, end, result) ==
  /\ outcome' = [outcome EXCEPT ![r] = [c \in Contacts |->
                   IF c \in Batch(r, end) THEN result ELSE outcome[r][c]]]
  /\ pos' = [pos EXCEPT ![r] = IF cuts[r] = {end} THEN end ELSE @]
  /\ cuts' = [cuts EXCEPT ![r] = @ \ {end}]
  /\ attempt' = [attempt EXCEPT ![r] = 0]
  /\ Goes(r, IF cuts[r] = {end} THEN "log" ELSE "send")

\* sendBatch returns one outcome for the whole batch.
Settle(r, end, result) ==
  /\ outcome' = [outcome EXCEPT ![r] = [c \in Contacts |->
                   IF c \in Batch(r, end) THEN result ELSE outcome[r][c]]]
  /\ pos' = [pos EXCEPT ![r] = end]
  /\ cuts' = [cuts EXCEPT ![r] = @ \ {end}]
  /\ attempt' = [attempt EXCEPT ![r] = 0]
  /\ Goes(r, IF cuts[r] = {end} THEN "log" ELSE "send")

CountOn(f, r, S) ==
  [f EXCEPT ![r] = [c \in Contacts |-> IF c \in S THEN f[r][c] + 1 ELSE f[r][c]]]

Accept(r, end) ==
  /\ Call(r, end)
  /\ Batch(r, end) \cap invalid = {}
  /\ accepted' = CountOn(accepted, r, Batch(r, end))
  /\ Settle(r, end, "queued")
  /\ UNCHANGED <<audience, expected, list, row, logged, doubtful, clean, changes, faults>>

\* Mutants of RefuseInvalid: no halving; the left half is one too large.
RefuseInvalidWhole(r, end) ==
  /\ Call(r, end)
  /\ Batch(r, end) \cap invalid # {}
  /\ Settle(r, end, "error")
  /\ UNCHANGED <<audience, expected, list, row, logged, accepted, doubtful, clean, changes, faults>>

\* "Can't create a broadcast with exists invalid contact": nobody is messaged,
\* and the batch is halved, the left half one larger when it is odd.
RefuseInvalid(r, end) ==
  LET size == end - pos[r] IN
  /\ Call(r, end)
  /\ Batch(r, end) \cap invalid # {}
  /\ IF size > 1
     THEN /\ cuts' = [cuts EXCEPT ![r] = @ \cup {pos[r] + (size + 1) \div 2}]
          /\ attempt' = [attempt EXCEPT ![r] = 0]
          /\ UNCHANGED <<phase, pos, outcome>>
     ELSE Settle(r, end, "error")
  /\ UNCHANGED <<audience, expected, list, row, logged, accepted, doubtful, clean, changes, faults>>

\* Any other refusal (template, country, token) is the answer for the batch.
RefuseBatch(r, end) ==
  /\ Call(r, end)
  /\ Fault
  /\ Settle(r, end, "error")
  /\ clean' = [clean EXCEPT ![r] = FALSE]
  /\ UNCHANGED <<audience, expected, list, row, logged, accepted, doubtful, changes>>

\* Mutants of Retry: one retry too many; no answer is good news.
RetryOnceMore(r, end) ==
  IF attempt[r] < Attempts
  THEN /\ attempt' = [attempt EXCEPT ![r] = @ + 1]
       /\ UNCHANGED <<phase, pos, cuts, outcome>>
  ELSE Settle(r, end, "error")

RetryThenQueued(r, end) ==
  IF attempt[r] < Attempts - 1
  THEN /\ attempt' = [attempt EXCEPT ![r] = @ + 1]
       /\ UNCHANGED <<phase, pos, cuts, outcome>>
  ELSE Settle(r, end, "queued")

\* After an answer that says nothing, the same call again, three times at most.
Retry(r, end) ==
  IF attempt[r] < Attempts - 1
  THEN /\ attempt' = [attempt EXCEPT ![r] = @ + 1]
       /\ UNCHANGED <<phase, pos, cuts, outcome>>
  ELSE Settle(r, end, "error")

\* 429, or a failure before WATI had carried the call out.
Unsent(r, end) ==
  /\ Call(r, end)
  /\ Fault
  /\ Retry(r, end)
  /\ clean' = [clean EXCEPT ![r] = FALSE]
  /\ UNCHANGED <<audience, expected, list, row, logged, accepted, doubtful, changes>>

\* A timeout or a 5xx after it had.
Unanswered(r, end) ==
  /\ Call(r, end)
  /\ Batch(r, end) \cap invalid = {}
  /\ Fault
  /\ accepted' = CountOn(accepted, r, Batch(r, end))
  /\ doubtful' = CountOn(doubtful, r, Batch(r, end))
  /\ Retry(r, end)
  /\ clean' = [clean EXCEPT ![r] = FALSE]
  /\ UNCHANGED <<audience, expected, list, row, logged, changes>>

-----------------------------------------------------------------------------
(* After a chunk.  The failure of any of these statements is swallowed. *)

Chunk(r) ==
  {list[r][p] : p \in (((pos[r] - 1) \div ChunkSize) * ChunkSize + 1)..pos[r]}

\* Mutant of logRecipients: its failure is not swallowed.
logRecipientsThrows(r) ==
  /\ phase[r] = "log"
  /\ \/ /\ logged' = [logged EXCEPT ![r] = [c \in Contacts |->
                        IF c \in Chunk(r) THEN outcome[r][c] ELSE logged[r][c]]]
        /\ Goes(r, "count")
        /\ UNCHANGED faults
     \/ Fault /\ Goes(r, "error") /\ UNCHANGED logged
  /\ UNCHANGED <<audience, expected, batch, row, wati, changes>>

logRecipients(r) ==
  /\ phase[r] = "log"
  /\ \/ /\ logged' = [logged EXCEPT ![r] = [c \in Contacts |->
                        IF c \in Chunk(r) THEN outcome[r][c] ELSE logged[r][c]]]
        /\ UNCHANGED faults
     \/ Fault /\ UNCHANGED logged
  /\ Goes(r, "count")
  /\ UNCHANGED <<audience, expected, batch, row, wati, changes>>

Queued(r) == {c \in Contacts : outcome[r][c] = "queued"}

\* Mutant of CountChunk: the loop ends with the last full chunk.
CountFullChunk(r) ==
  LET sent == Cardinality(Queued(r)) IN
  /\ phase[r] = "count"
  /\ row' = [row EXCEPT ![r].sent = sent, ![r].failed = pos[r] - sent]
  /\ IF pos[r] + ChunkSize <= Len(list[r])
     THEN Goes(r, "send") /\ cuts' = [cuts EXCEPT ![r] = NextChunk(r)]
     ELSE Goes(r, "finish") /\ UNCHANGED cuts
  /\ UNCHANGED <<audience, expected, list, pos, attempt, outcome, logged, wati, changes, faults>>

\* sent and failed, and on to the next chunk.
CountChunk(r) ==
  LET sent == Cardinality(Queued(r)) IN
  /\ phase[r] = "count"
  /\ \/ row' = [row EXCEPT ![r].sent = sent, ![r].failed = pos[r] - sent] /\ UNCHANGED faults
     \/ Fault /\ UNCHANGED row
  /\ IF pos[r] < Len(list[r])
     THEN Goes(r, "send") /\ cuts' = [cuts EXCEPT ![r] = NextChunk(r)]
     ELSE Goes(r, "finish") /\ UNCHANGED cuts
  /\ UNCHANGED <<audience, expected, list, pos, attempt, outcome, logged, wati, changes>>

Finish(r) ==
  /\ phase[r] = "finish"
  /\ \/ row' = [row EXCEPT ![r].status = "done"] /\ UNCHANGED faults
     \/ Fault /\ UNCHANGED row
  /\ Goes(r, "over")
  /\ UNCHANGED <<audience, expected, batch, logged, wati, changes>>

\* The catch block of /execute.
MarkError(r) ==
  /\ phase[r] = "error"
  /\ \/ row' = [row EXCEPT ![r].status = "error"] /\ UNCHANGED faults
     \/ Fault /\ UNCHANGED row
  /\ Goes(r, "over")
  /\ UNCHANGED <<audience, expected, batch, logged, wati, changes>>

-----------------------------------------------------------------------------
(* Failures, and everyone else. *)

\* Before the run's row is there a failed read ends the request, after it the
\* run.
ReadFails(r) ==
  /\ phase[r] \in {"switch", "template", "preview", "insert",
                   "switch again", "recipients", "template again"}
  /\ Fault
  /\ Goes(r, IF row[r].status = "none" THEN "over" ELSE "error")
  /\ UNCHANGED <<audience, expected, batch, row, logged, wati, changes>>

\* The process dies and comes back.  Nothing resumes a run: its row says
\* "running" for ever.
Crash ==
  /\ Fault
  /\ phase' = [r \in Requests |-> IF phase[r] = "new" THEN "new" ELSE "over"]
  /\ UNCHANGED <<audience, expected, batch, row, logged, wati, changes>>

\* An operator turns the switch.
setSendEnabled ==
  /\ changes < MaxChanges /\ changes' = changes + 1
  /\ enabled' = ~enabled
  /\ UNCHANGED <<eligible, invalid, phase, expected, batch, row, logged, wati, faults>>

\* The ingest, the tagging and the supervisors: a contact opts out, comes in, or
\* gets its id.
AudienceShifts(c) ==
  /\ changes < MaxChanges /\ changes' = changes + 1
  /\ eligible' = IF c \in eligible THEN eligible \ {c} ELSE eligible \cup {c}
  /\ UNCHANGED <<enabled, invalid, phase, expected, batch, row, logged, wati, faults>>

-----------------------------------------------------------------------------
Answer(r, end) ==
  \/ Accept(r, end) \/ RefuseInvalid(r, end) \/ RefuseBatch(r, end)
  \/ Unsent(r, end) \/ Unanswered(r, end)

\* What the handler of a request does once it is called.
Step(r) ==
  \/ ReadSwitch(r) \/ Template(r) \/ audiencePreview(r) \/ Insert(r)
  \/ ReadSwitchAgain(r) \/ audienceRecipients(r) \/ TemplateAgain(r) \/ ReadFails(r)
  \/ \E end \in cuts[r] : Answer(r, end)
  \/ logRecipients(r) \/ CountChunk(r) \/ Finish(r) \/ MarkError(r)

Next ==
  \/ \E r \in Requests : Execute(r) \/ Step(r)
  \/ Crash
  \/ setSendEnabled
  \/ \E c \in Contacts : AudienceShifts(c)

Spec == Init /\ [][Next]_vars

-----------------------------------------------------------------------------
(* Properties *)

Done(r) == row[r].status = "done"

\* A finished run has an outcome for every recipient, and an outcome only for
\* recipients: halving a batch, however deep, neither drops nor adds anyone
\* (broadcast.js:255-261, 287-292).
EveryoneIsAccountedFor ==
  \A r \in Requests : Done(r) =>
    \A c \in Contacts : outcome[r][c] # "none" <=> \E p \in 1..Len(list[r]) : list[r][p] = c

\* A 'queued' row says that WATI took the message; an 'error' row without any
\* failure but bad ids, that it did not (broadcast.js:209-214, 252-253).
LogIsTruthful ==
  \A r \in Requests, c \in Contacts :
    /\ logged[r][c] = "queued" => accepted[r][c] > 0
    /\ logged[r][c] = "error" /\ clean[r] => accepted[r][c] = 0

\* What broadcast.js:230-231 says: "so ONE bad id doesn't sink everyone else who
\* happened to share its batch".  Without other failures, a finished run has
\* messaged each valid recipient once and refused exactly the invalid ones.
BadIdSinksOnlyItself ==
  \A r \in Requests : Done(r) /\ clean[r] =>
    \A p \in 1..Len(list[r]) :
      LET c == list[r][p] IN
      IF c \in invalid THEN outcome[r][c] = "error" /\ accepted[r][c] = 0
                       ELSE outcome[r][c] = "queued" /\ accepted[r][c] = 1

\* A run messages a contact twice only after an answer that was lost: halving
\* sends to nobody who was reached, and no other retry follows an accepted call
\* (wati.js:320-350, broadcast.js:255-261).
RepeatsAreExcused ==
  \A r \in Requests, c \in Contacts : accepted[r][c] <= 1 + doubtful[r][c]

\* A run marked as an error has messaged nobody, so it can be started again
\* (routes/broadcasts.js:111-117, broadcast.js:213, 272-278).
ErrorMeansNobodyReached ==
  \A r \in Requests : row[r].status = "error" => \A c \in Contacts : accepted[r][c] = 0

\* Every call brings the run nearer to its end: more of the list is done, or
\* the batch to send next is smaller, or a retry is used up.  So neither the
\* halving nor the retries go on for ever (broadcast.js:255-263, wati.js:320-350).
CallsMakeProgress ==
  [][\A r \in Requests : calls'[r] # calls[r] =>
       \/ pos'[r] > pos[r]
       \/ pos'[r] = pos[r] /\ \E e \in cuts'[r] : \A f \in cuts[r] : e < f
       \/ pos'[r] = pos[r] /\ cuts'[r] = cuts[r] /\ attempt'[r] > attempt[r]]_vars
=============================================================================
