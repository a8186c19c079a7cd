--------------------------- MODULE BroadcastsProofs ---------------------------
(***************************************************************************)
(* What holds of a broadcast for any number of contacts, requests and      *)
(* faults, and any chunk size.                                             *)
(***************************************************************************)
EXTENDS Broadcasts, FiniteSetTheorems, TLAPS

LEMMA SubsetCount ==
  ASSUME NEW S, S \subseteq Contacts
  PROVE  IsFiniteSet(S) /\ Cardinality(S) \in Nat
BY ContactsAssumption, FS_Subset, FS_CardinalityType

\* What the database returns is a sequence with every eligible contact once.
LEMMA OrderFacts ==
  ASSUME NEW S, S \subseteq Contacts, NEW order \in SetToSeqs(S)
  PROVE  /\ order \in Seq(Contacts)
         /\ \A p, q \in 1..Len(order) : order[p] = order[q] => p = q
         /\ S # {} => Len(order) > 0
<1>1. Cardinality(S) \in Nat
  BY SubsetCount
<1>2. order \in [1..Cardinality(S) -> S] /\ \A p, q \in 1..Cardinality(S) : p # q => order[p] # order[q]
  BY DEF SetToSeqs
<1>3. order \in Seq(S) /\ Len(order) = Cardinality(S)
  BY <1>1, <1>2
<1>4. order \in Seq(Contacts)
  BY <1>1, <1>2, <1>3
<1>5. S # {} => Cardinality(S) > 0
  BY <1>1, SubsetCount, FS_EmptySet
<1>6. QED
  BY <1>2, <1>3, <1>4, <1>5

\* What is left of it under the cap is one too, and empty only for nobody.
LEMMA LimitFacts ==
  ASSUME NEW S, S \subseteq Contacts, NEW order \in SetToSeqs(S)
  PROVE  /\ Limit(order) \in Seq(Contacts)
         /\ \A p, q \in 1..Len(Limit(order)) : Limit(order)[p] = Limit(order)[q] => p = q
         /\ S # {} => Len(Limit(order)) > 0
<1>1. /\ order \in Seq(Contacts)
      /\ \A p, q \in 1..Len(order) : order[p] = order[q] => p = q
      /\ S # {} => Len(order) > 0
  BY OrderFacts
<1> DEFINE n == Smaller(Len(order), MaxAudience)
<1>2. Len(order) \in Nat
  BY <1>1
<1>3. n \in Nat /\ n <= Len(order) /\ (Len(order) > 0 => n > 0)
  BY <1>2, SizesAssumption DEF Smaller
<1>4. /\ Limit(order) \in Seq(Contacts)
      /\ Len(Limit(order)) = n
      /\ \A p \in 1..n : Limit(order)[p] = order[p]
  <2>1. Limit(order) = SubSeq(order, 1, n)
    BY DEF Limit
  <2> HIDE DEF n
  <2>2. QED
    BY <1>1, <1>3, <2>1
<1> HIDE DEF n
<1>5. \A p \in 1..n : p \in 1..Len(order)
  BY <1>2, <1>3
<1>6. QED
  BY <1>1, <1>3, <1>4, <1>5

LEMMA LengthType == ASSUME TypeOK, NEW r \in Requests PROVE Len(list[r]) \in Nat
BY DEF TypeOK

LEMMA NextChunkType ==
  ASSUME TypeOK, NEW r \in Requests
  PROVE  NextChunk(r) \in SUBSET Nat
BY LengthType, SizesAssumption DEF TypeOK, NextChunk, Smaller

LEMMA GoesType ==
  ASSUME TypeOK, NEW r \in Requests, NEW p \in Phases, Goes(r, p)
  PROVE  phase' \in [Requests -> Phases]
BY DEF TypeOK, Goes

LEMMA CountOnType ==
  ASSUME NEW f \in [Requests -> [Contacts -> Nat]], NEW r \in Requests, NEW S
  PROVE  CountOn(f, r, S) \in [Requests -> [Contacts -> Nat]]
BY DEF CountOn

LEMMA CallType ==
  ASSUME TypeOK, NEW r \in Requests, NEW end, Call(r, end)
  PROVE  calls' \in [Requests -> Nat] /\ end \in Nat
BY DEF TypeOK, Call

LEMMA SettleType ==
  ASSUME TypeOK, NEW r \in Requests, NEW end \in Nat, NEW result \in Outcomes,
         Settle(r, end, result)
  PROVE  /\ outcome' \in [Requests -> [Contacts -> Outcomes]]
         /\ pos' \in [Requests -> Nat]
         /\ cuts' \in [Requests -> SUBSET Nat]
         /\ attempt' \in [Requests -> 0..(Attempts - 1)]
         /\ phase' \in [Requests -> Phases]
<1>1. outcome' \in [Requests -> [Contacts -> Outcomes]]
  BY DEF TypeOK, Settle
<1>2. pos' \in [Requests -> Nat]
  BY DEF TypeOK, Settle
<1>3. cuts' \in [Requests -> SUBSET Nat]
  BY DEF TypeOK, Settle
<1>4. attempt' \in [Requests -> 0..(Attempts - 1)]
  BY DEF TypeOK, Settle, Attempts
<1>5. phase' \in [Requests -> Phases]
  BY DEF TypeOK, Settle, Goes, Phases
<1>6. QED
  BY <1>1, <1>2, <1>3, <1>4, <1>5

LEMMA RetryType ==
  ASSUME TypeOK, NEW r \in Requests, NEW end \in Nat, Retry(r, end)
  PROVE  /\ outcome' \in [Requests -> [Contacts -> Outcomes]]
         /\ pos' \in [Requests -> Nat]
         /\ cuts' \in [Requests -> SUBSET Nat]
         /\ attempt' \in [Requests -> 0..(Attempts - 1)]
         /\ phase' \in [Requests -> Phases]
<1>1. CASE attempt[r] < Attempts - 1
  <2>1. attempt' = [attempt EXCEPT ![r] = @ + 1] /\ UNCHANGED <<phase, pos, cuts, outcome>>
    BY <1>1 DEF Retry
  <2>2. attempt[r] + 1 \in 0..(Attempts - 1)
    <3>1. attempt[r] \in 0..(3 - 1) /\ attempt[r] < 3 - 1
      BY <1>1 DEF TypeOK, Attempts
    <3>2. QED
      BY <3>1 DEF Attempts
  <2>3. attempt' \in [Requests -> 0..(Attempts - 1)]
    <3>1. PICK n \in 0..(Attempts - 1) : n = attempt[r] + 1
      BY <2>2
    <3>2. attempt' = [attempt EXCEPT ![r] = n]
      BY <2>1, <3>1
    <3>3. QED
      BY <3>2 DEF TypeOK
  <2>4. QED
    BY <2>1, <2>3 DEF TypeOK
<1>2. CASE ~(attempt[r] < Attempts - 1)
  <2>1. Settle(r, end, "error")
    BY <1>2 DEF Retry
  <2>2. QED
    BY <2>1, SettleType DEF Outcomes
<1>3. QED
  BY <1>1, <1>2

LEMMA StatusType ==
  ASSUME TypeOK, NEW r \in Requests, NEW s \in {"none", "running", "done", "error"},
         row' = [row EXCEPT ![r].status = s]
  PROVE  row' \in [Requests -> Row]
BY DEF TypeOK, Row

LEMMA TotalType ==
  ASSUME TypeOK, NEW r \in Requests, NEW n \in Nat, row' = [row EXCEPT ![r].total = n]
  PROVE  row' \in [Requests -> Row]
BY DEF TypeOK, Row

LEMMA SentType ==
  ASSUME TypeOK, NEW r \in Requests, NEW n \in Nat, NEW m \in Int,
         row' = [row EXCEPT ![r].sent = n, ![r].failed = m]
  PROVE  row' \in [Requests -> Row]
<1>1. \A q \in Requests : row'[q] = IF q = r THEN [row[r] EXCEPT !.sent = n, !.failed = m] ELSE row[q]
  BY DEF TypeOK
<1>2. [row[r] EXCEPT !.sent = n, !.failed = m] \in Row
  BY DEF TypeOK, Row
<1>3. QED
  BY <1>1, <1>2 DEF TypeOK

\* The steps before the first call, and the last ones.
LEMMA HandlerType ==
  ASSUME TypeOK, NEW r \in Requests,
         \/ Execute(r) \/ ReadSwitch(r) \/ Template(r) \/ audiencePreview(r) \/ Insert(r)
         \/ ReadSwitchAgain(r) \/ audienceRecipients(r) \/ TemplateAgain(r) \/ ReadFails(r)
         \/ logRecipients(r) \/ CountChunk(r) \/ Finish(r) \/ MarkError(r)
  PROVE  TypeOK'
<1>0. Cardinality(eligible) \in Nat
  BY SubsetCount DEF TypeOK
<1>1. CASE Execute(r)
  <2>1. expected' \in [Requests -> Nat \cup {NoCount}]
    BY <1>0, <1>1 DEF TypeOK, Execute
  <2>2. phase' \in [Requests -> Phases]
    BY <1>1, GoesType DEF Execute, Phases
  <2>3. QED
    BY <1>1, <2>1, <2>2 DEF TypeOK, Execute, audience, batch, wati
<1>2. CASE ReadSwitch(r)
  BY <1>2, GoesType DEF TypeOK, ReadSwitch, Phases, audience, batch, wati
<1>3. CASE Template(r)
  BY <1>3, GoesType DEF TypeOK, Template, Phases, audience, batch, wati
<1>4. CASE audiencePreview(r)
  <2>1. row' \in [Requests -> Row]
    <3>1. row' = [row EXCEPT ![r].total = Cardinality(eligible)] \/ row' = row
      BY <1>4 DEF audiencePreview
    <3>2. QED
      BY <1>0, <3>1, TotalType DEF TypeOK
  <2>2. phase' \in [Requests -> Phases]
    BY <1>4, GoesType DEF audiencePreview, Phases
  <2>3. QED
    BY <1>4, <2>1, <2>2 DEF TypeOK, audiencePreview, audience, batch, wati
<1>5. CASE Insert(r)
  <2>1. row' \in [Requests -> Row]
    BY <1>5, StatusType DEF Insert
  <2>2. phase' \in [Requests -> Phases]
    BY <1>5, GoesType DEF Insert, Phases
  <2>3. QED
    BY <1>5, <2>1, <2>2 DEF TypeOK, Insert, audience, batch, wati
<1>6. CASE ReadSwitchAgain(r)
  BY <1>6, GoesType DEF TypeOK, ReadSwitchAgain, Phases, audience, batch, wati
<1>7. CASE audienceRecipients(r)
  <2>1. list' \in [Requests -> Seq(Contacts)]
    <3>1. PICK order \in SetToSeqs(eligible) : list' = [list EXCEPT ![r] = Limit(order)]
      BY <1>7 DEF audienceRecipients
    <3>2. Limit(order) \in Seq(Contacts)
      BY <3>1, LimitFacts DEF TypeOK
    <3>3. QED
      BY <3>1, <3>2 DEF TypeOK
  <2>2. phase' \in [Requests -> Phases]
    BY <1>7, GoesType DEF audienceRecipients, Phases
  <2>3. QED
    BY <1>7, <2>1, <2>2 DEF TypeOK, audienceRecipients, audience, wati
<1>8. CASE TemplateAgain(r)
  <2>1. cuts' \in [Requests -> SUBSET Nat]
    BY <1>8, NextChunkType DEF TypeOK, TemplateAgain
  <2>2. phase' \in [Requests -> Phases]
    BY <1>8, GoesType DEF TemplateAgain, Phases
  <2>3. QED
    BY <1>8, <2>1, <2>2 DEF TypeOK, TemplateAgain, audience, wati
<1>9. CASE ReadFails(r)
  <2>1. phase' \in [Requests -> Phases] /\ faults' \in Nat
    <3>1. Goes(r, "over") \/ Goes(r, "error")
      BY <1>9 DEF ReadFails
    <3>2. "over" \in Phases /\ "error" \in Phases
      BY DEF Phases
    <3>3. phase' \in [Requests -> Phases]
      BY <3>1, <3>2, GoesType
    <3>4. faults' = faults + 1
      BY <1>9 DEF ReadFails, Fault
    <3>5. faults' \in Nat
      BY <3>4 DEF TypeOK
    <3>6. QED
      BY <3>3, <3>5
  <2>2. QED
    BY <1>9, <2>1 DEF TypeOK, ReadFails, audience, batch, wati
<1>10. CASE logRecipients(r)
  <2>1. logged' \in [Requests -> [Contacts -> Outcomes]]
    <3>1. \/ logged' = [logged EXCEPT ![r] = [c \in Contacts |->
                  IF c \in Chunk(r) THEN outcome[r][c] ELSE logged[r][c]]]
          \/ logged' = logged
      BY <1>10 DEF logRecipients
    <3>2. \A c \in Contacts : outcome[r][c] \in Outcomes /\ logged[r][c] \in Outcomes
      BY DEF TypeOK
    <3>3. [c \in Contacts |-> IF c \in Chunk(r) THEN outcome[r][c] ELSE logged[r][c]]
            \in [Contacts -> Outcomes]
      BY <3>2
    <3>4. QED
      BY <3>1, <3>3 DEF TypeOK
  <2>2. phase' \in [Requests -> Phases]
    BY <1>10, GoesType DEF logRecipients, Phases
  <2>3. faults' \in Nat
    BY <1>10 DEF TypeOK, logRecipients, Fault
  <2>4. QED
    BY <1>10, <2>1, <2>2, <2>3 DEF TypeOK, logRecipients, audience, batch, wati
<1>11. CASE CountChunk(r)
  <2>1. Cardinality(Queued(r)) \in Nat
    BY SubsetCount DEF Queued
  <2>2. row' \in [Requests -> Row]
    <3>1. \/ row' = [row EXCEPT ![r].sent = Cardinality(Queued(r)),
                               ![r].failed = pos[r] - Cardinality(Queued(r))]
          \/ row' = row
      BY <1>11 DEF CountChunk
    <3>2. pos[r] - Cardinality(Queued(r)) \in Int
      BY <2>1 DEF TypeOK
    <3>3. CASE row' = row
      BY <3>3 DEF TypeOK
    <3>4. QED
      BY <2>1, <3>1, <3>2, <3>3, SentType
  <2>3. cuts' \in [Requests -> SUBSET Nat]
    BY <1>11, NextChunkType DEF TypeOK, CountChunk
  <2>4. phase' \in [Requests -> Phases]
    BY <1>11, GoesType DEF CountChunk, Phases
  <2>5. faults' \in Nat
    BY <1>11 DEF TypeOK, CountChunk, Fault
  <2>6. QED
    BY <1>11, <2>2, <2>3, <2>4, <2>5 DEF TypeOK, CountChunk, audience, wati
<1>12. CASE Finish(r)
  <2>1. row' \in [Requests -> Row]
    <3>1. row' = [row EXCEPT ![r].status = "done"] \/ row' = row
      BY <1>12 DEF Finish
    <3>2. QED
      BY <3>1, StatusType DEF TypeOK
  <2>2. phase' \in [Requests -> Phases]
    BY <1>12, GoesType DEF Finish, Phases
  <2>3. faults' \in Nat
    BY <1>12 DEF TypeOK, Finish, Fault
  <2>4. QED
    BY <1>12, <2>1, <2>2, <2>3 DEF TypeOK, Finish, audience, batch, wati
<1>13. CASE MarkError(r)
  <2>1. row' \in [Requests -> Row]
    <3>1. row' = [row EXCEPT ![r].status = "error"] \/ row' = row
      BY <1>13 DEF MarkError
    <3>2. QED
      BY <3>1, StatusType DEF TypeOK
  <2>2. phase' \in [Requests -> Phases]
    BY <1>13, GoesType DEF MarkError, Phases
  <2>3. faults' \in Nat
    BY <1>13 DEF TypeOK, MarkError, Fault
  <2>4. QED
    BY <1>13, <2>1, <2>2, <2>3 DEF TypeOK, MarkError, audience, batch, wati
<1>14. QED
  BY <1>1, <1>2, <1>3, <1>4, <1>5, <1>6, <1>7, <1>8, <1>9, <1>10, <1>11, <1>12, <1>13

LEMMA AnswerType ==
  ASSUME TypeOK, NEW r \in Requests, NEW end, Answer(r, end)
  PROVE  TypeOK'
<1>1. CASE Accept(r, end)
  <2>1. Call(r, end) /\ Settle(r, end, "queued")
    BY <1>1 DEF Accept
  <2>2. end \in Nat /\ calls' \in [Requests -> Nat]
    BY <2>1, CallType
  <2>3. accepted' \in [Requests -> [Contacts -> Nat]]
    BY <1>1, CountOnType DEF TypeOK, Accept
  <2>4. QED
    BY <1>1, <2>1, <2>2, <2>3, SettleType DEF TypeOK, Accept, Outcomes, audience
<1>2. CASE RefuseInvalid(r, end)
  <2>1. Call(r, end)
    BY <1>2 DEF RefuseInvalid
  <2>2. end \in Nat /\ calls' \in [Requests -> Nat]
    BY <2>1, CallType
  <2>3. CASE end - pos[r] > 1
    <3>1. pos[r] + (end - pos[r] + 1) \div 2 \in Nat
      BY <2>2, <2>3 DEF TypeOK
    <3>2. /\ cuts' = [cuts EXCEPT ![r] = @ \cup {pos[r] + (end - pos[r] + 1) \div 2}]
          /\ attempt' = [attempt EXCEPT ![r] = 0]
          /\ UNCHANGED <<phase, pos, outcome>>
      BY <1>2, <2>3 DEF RefuseInvalid
    <3>3. cuts' \in [Requests -> SUBSET Nat]
      BY <3>1, <3>2 DEF TypeOK
    <3>4. attempt' \in [Requests -> 0..(Attempts - 1)]
      BY <3>2 DEF TypeOK, Attempts
    <3>5. QED
      BY <1>2, <2>2, <3>2, <3>3, <3>4 DEF TypeOK, RefuseInvalid, audience
  <2>4. CASE ~(end - pos[r] > 1)
    <3>1. Settle(r, end, "error")
      BY <1>2, <2>4 DEF RefuseInvalid
    <3>2. QED
      BY <1>2, <2>2, <3>1, SettleType DEF TypeOK, RefuseInvalid, Outcomes, audience
  <2>5. QED
    BY <2>3, <2>4
<1>3. CASE RefuseBatch(r, end)
  <2>1. Call(r, end) /\ Settle(r, end, "error") /\ faults' \in Nat
    BY <1>3 DEF TypeOK, RefuseBatch, Fault
  <2>2. end \in Nat /\ calls' \in [Requests -> Nat]
    BY <2>1, CallType
  <2>3. clean' \in [Requests -> BOOLEAN]
    BY <1>3 DEF TypeOK, RefuseBatch
  <2>4. QED
    BY <1>3, <2>1, <2>2, <2>3, SettleType DEF TypeOK, RefuseBatch, Outcomes, audience
<1>4. CASE Unsent(r, end)
  <2>1. Call(r, end) /\ Retry(r, end) /\ faults' \in Nat
    BY <1>4 DEF TypeOK, Unsent, Fault
  <2>2. end \in Nat /\ calls' \in [Requests -> Nat]
    BY <2>1, CallType
  <2>3. clean' \in [Requests -> BOOLEAN]
    BY <1>4 DEF TypeOK, Unsent
  <2>4. QED
    BY <1>4, <2>1, <2>2, <2>3, RetryType DEF TypeOK, Unsent, audience
<1>5. CASE Unanswered(r, end)
  <2>1. Call(r, end) /\ Retry(r, end) /\ faults' \in Nat
    BY <1>5 DEF TypeOK, Unanswered, Fault
  <2>2. end \in Nat /\ calls' \in [Requests -> Nat]
    BY <2>1, CallType
  <2>3. clean' \in [Requests -> BOOLEAN]
    BY <1>5 DEF TypeOK, Unanswered
  <2>4. accepted' \in [Requests -> [Contacts -> Nat]] /\ doubtful' \in [Requests -> [Contacts -> Nat]]
    BY <1>5, CountOnType DEF TypeOK, Unanswered
  <2>5. QED
    BY <1>5, <2>1, <2>2, <2>3, <2>4, RetryType DEF TypeOK, Unanswered, audience
<1>6. QED
  BY <1>1, <1>2, <1>3, <1>4, <1>5 DEF Answer

\* The broadcasts keep their types.
THEOREM TypeCorrect == Spec => []TypeOK
<1>1. Init => TypeOK
  BY DEF Init, TypeOK, Phases, Outcomes, Row, Attempts, NoCount
<1>2. ASSUME TypeOK, [Next]_vars
      PROVE  TypeOK'
  <2>1. CASE \E r \in Requests : Execute(r) \/ Step(r)
    <3>1. PICK r \in Requests : Execute(r) \/ Step(r)
      BY <2>1
    <3>2. CASE \E end \in cuts[r] : Answer(r, end)
      BY <1>2, <3>2, AnswerType
    <3>3. CASE ~ \E end \in cuts[r] : Answer(r, end)
      BY <1>2, <3>1, <3>3, HandlerType DEF Step
    <3>4. QED
      BY <3>2, <3>3
  <2>2. CASE Crash
    <3>1. phase' \in [Requests -> Phases]
      BY <1>2, <2>2 DEF TypeOK, Crash, Phases
    <3>2. QED
      BY <1>2, <2>2, <3>1 DEF TypeOK, Crash, Fault, audience, batch, wati
  <2>3. CASE setSendEnabled
    BY <1>2, <2>3 DEF TypeOK, setSendEnabled, batch, wati
  <2>4. CASE \E c \in Contacts : AudienceShifts(c)
    BY <1>2, <2>4 DEF TypeOK, AudienceShifts, batch, wati
  <2>5. CASE UNCHANGED vars
    BY <1>2, <2>5 DEF TypeOK, vars, audience, batch, wati
  <2>6. QED
    BY <1>2, <2>1, <2>2, <2>3, <2>4, <2>5 DEF Next
<1>3. QED
  BY <1>1, <1>2, PTL DEF Spec

-----------------------------------------------------------------------------
(* The invariant of one run *)

Early == {"new", "switch", "template", "preview", "insert", "switch again", "recipients",
          "template again", "error"}

Reached(r, c) == \E p \in 1..pos[r] : list[r][p] = c

Distinct(r) == \A p, q \in 1..Len(list[r]) : list[r][p] = list[r][q] => p = q

\* The places that have an outcome are the first pos[r] of the list.
Prefix(r) == \A c \in Contacts : outcome[r][c] # "none" <=> Reached(r, c)

\* Every accepted call either answered, and was the last for its contacts, or
\* was lost.
Ledger(r) ==
  \A c \in Contacts :
    /\ accepted[r][c] = doubtful[r][c] + (IF outcome[r][c] = "queued" THEN 1 ELSE 0)
    /\ clean[r] => doubtful[r][c] = 0

Verdicts(r) ==
  \A c \in Contacts :
    /\ outcome[r][c] = "queued" => c \notin invalid
    /\ clean[r] /\ outcome[r][c] = "error" => c \in invalid

LogFollows(r) == \A c \in Contacts : logged[r][c] \in {"none", outcome[r][c]}

Book(r) == Distinct(r) /\ Prefix(r) /\ Ledger(r) /\ Verdicts(r) /\ LogFollows(r)

Placed(r) ==
  /\ phase[r] \in Early =>
       pos[r] = 0 /\ cuts[r] = {} /\ \A c \in Contacts : accepted[r][c] = 0
  /\ phase[r] = "template again" => Len(list[r]) > 0
  /\ phase[r] = "send" =>
       cuts[r] # {} /\ \A e \in cuts[r] : pos[r] < e /\ e <= Len(list[r])
  /\ phase[r] \in {"log", "count"} => cuts[r] = {} /\ pos[r] <= Len(list[r])
  /\ phase[r] = "finish" => pos[r] = Len(list[r])

RowFollows(r) ==
  /\ row[r].status = "done" => phase[r] = "over" /\ pos[r] = Len(list[r])
  /\ row[r].status = "error" =>
       phase[r] = "over" /\ \A c \in Contacts : accepted[r][c] = 0

RunInv(r) == Book(r) /\ Placed(r) /\ RowFollows(r)

SameBook(r) ==
  /\ list'[r] = list[r] /\ pos'[r] = pos[r] /\ outcome'[r] = outcome[r]
  /\ accepted'[r] = accepted[r] /\ doubtful'[r] = doubtful[r] /\ clean'[r] = clean[r]
  /\ invalid' = invalid

SameRun(r) ==
  /\ SameBook(r)
  /\ logged'[r] = logged[r] /\ phase'[r] = phase[r] /\ cuts'[r] = cuts[r] /\ row'[r] = row[r]

LEMMA BookKept ==
  ASSUME NEW r \in Requests, Book(r), SameBook(r), logged'[r] = logged[r]
  PROVE  Book(r)'
<1>1. Distinct(r)'
  BY DEF Book, SameBook, Distinct
<1>2. Prefix(r)'
  BY DEF Book, SameBook, Prefix, Reached
<1>3. Ledger(r)'
  BY DEF Book, SameBook, Ledger
<1>4. Verdicts(r)'
  BY DEF Book, SameBook, Verdicts
<1>5. LogFollows(r)'
  BY DEF Book, SameBook, LogFollows
<1>6. QED
  BY <1>1, <1>2, <1>3, <1>4, <1>5 DEF Book

LEMMA RunKept ==
  ASSUME NEW r \in Requests, RunInv(r), SameRun(r)
  PROVE  RunInv(r)'
<1>1. Book(r)'
  BY BookKept DEF RunInv, SameRun
<1>2. Placed(r)'
  BY DEF RunInv, SameRun, SameBook, Placed, Early
<1>3. RowFollows(r)'
  BY DEF RunInv, SameRun, SameBook, RowFollows
<1>4. QED
  BY <1>1, <1>2, <1>3 DEF RunInv

\* The requests share the switch and the audience only.
LEMMA OtherHandlers ==
  ASSUME TypeOK, NEW r \in Requests, NEW s \in Requests, s # r,
         \/ Execute(r) \/ ReadSwitch(r) \/ Template(r) \/ audiencePreview(r) \/ Insert(r)
         \/ ReadSwitchAgain(r) \/ audienceRecipients(r) \/ TemplateAgain(r) \/ ReadFails(r)
         \/ logRecipients(r) \/ CountChunk(r) \/ Finish(r) \/ MarkError(r)
  PROVE  SameRun(s)
<1>1. CASE Execute(r)
  BY <1>1 DEF TypeOK, Execute, Goes, SameRun, SameBook, audience, batch, wati
<1>2. CASE ReadSwitch(r)
  BY <1>2 DEF TypeOK, ReadSwitch, Goes, SameRun, SameBook, audience, batch, wati
<1>3. CASE Template(r)
  BY <1>3 DEF TypeOK, Template, Goes, SameRun, SameBook, audience, batch, wati
<1>4. CASE audiencePreview(r)
  BY <1>4 DEF TypeOK, audiencePreview, Goes, SameRun, SameBook, audience, batch, wati
<1>5. CASE Insert(r)
  BY <1>5 DEF TypeOK, Insert, Goes, SameRun, SameBook, audience, batch, wati
<1>6. CASE ReadSwitchAgain(r)
  BY <1>6 DEF TypeOK, ReadSwitchAgain, Goes, SameRun, SameBook, audience, batch, wati
<1>7. CASE audienceRecipients(r)
  BY <1>7 DEF TypeOK, audienceRecipients, Goes, SameRun, SameBook, audience, batch, wati
<1>8. CASE TemplateAgain(r)
  BY <1>8 DEF TypeOK, TemplateAgain, Goes, SameRun, SameBook, audience, batch, wati
<1>9. CASE ReadFails(r)
  BY <1>9 DEF TypeOK, ReadFails, Goes, SameRun, SameBook, audience, batch, wati
<1>10. CASE logRecipients(r)
  BY <1>10 DEF TypeOK, logRecipients, Goes, SameRun, SameBook, audience, batch, wati
<1>11. CASE CountChunk(r)
  BY <1>11 DEF TypeOK, CountChunk, Goes, SameRun, SameBook, audience, batch, wati
<1>12. CASE Finish(r)
  BY <1>12 DEF TypeOK, Finish, Goes, SameRun, SameBook, audience, batch, wati
<1>13. CASE MarkError(r)
  BY <1>13 DEF TypeOK, MarkError, Goes, SameRun, SameBook, audience, batch, wati
<1>14. QED
  BY <1>1, <1>2, <1>3, <1>4, <1>5, <1>6, <1>7, <1>8, <1>9, <1>10, <1>11, <1>12, <1>13

\* What an answer changes of the batch, it changes of its own run.
LEMMA OtherBatches ==
  ASSUME TypeOK, NEW r \in Requests, NEW s \in Requests, s # r, NEW end,
         \/ Retry(r, end)
         \/ \E result \in Outcomes : Settle(r, end, result)
  PROVE  phase'[s] = phase[s] /\ pos'[s] = pos[s] /\ cuts'[s] = cuts[s] /\ outcome'[s] = outcome[s]
<1>1. CASE \E result \in Outcomes : Settle(r, end, result)
  BY <1>1 DEF TypeOK, Settle, Goes
<1>2. CASE Retry(r, end) /\ UNCHANGED <<phase, pos, cuts, outcome>>
  BY <1>2
<1>3. QED
  BY <1>1, <1>2 DEF Retry, Outcomes

LEMMA OtherAnswers ==
  ASSUME TypeOK, NEW r \in Requests, NEW s \in Requests, s # r, NEW end, Answer(r, end)
  PROVE  SameRun(s)
<1>1. CASE Accept(r, end)
  BY <1>1, OtherBatches DEF TypeOK, Accept, CountOn, Outcomes, SameRun, SameBook, audience
<1>2. CASE RefuseInvalid(r, end)
  <2>1. CASE end - pos[r] > 1
    BY <1>2, <2>1 DEF TypeOK, RefuseInvalid, SameRun, SameBook, audience
  <2>2. CASE ~(end - pos[r] > 1)
    BY <1>2, <2>2, OtherBatches DEF TypeOK, RefuseInvalid, Outcomes, SameRun, SameBook, audience
  <2>3. QED
    BY <2>1, <2>2
<1>3. CASE RefuseBatch(r, end)
  BY <1>3, OtherBatches DEF TypeOK, RefuseBatch, Outcomes, SameRun, SameBook, audience
<1>4. CASE Unsent(r, end)
  BY <1>4, OtherBatches DEF TypeOK, Unsent, SameRun, SameBook, audience
<1>5. CASE Unanswered(r, end)
  BY <1>5, OtherBatches DEF TypeOK, Unanswered, CountOn, SameRun, SameBook, audience
<1>6. QED
  BY <1>1, <1>2, <1>3, <1>4, <1>5 DEF Answer

-----------------------------------------------------------------------------
(* The steps of the run itself *)

LEMMA QuietRun ==
  ASSUME NEW r \in Requests, RunInv(r), SameBook(r), logged'[r] = logged[r],
         Placed(r)', RowFollows(r)'
  PROVE  RunInv(r)'
BY BookKept DEF RunInv

\* Up to the first call nobody has been reached.
LEMMA EarlySteps ==
  ASSUME TypeOK, NEW r \in Requests, RunInv(r),
         \/ Execute(r) \/ ReadSwitch(r) \/ Template(r) \/ audiencePreview(r) \/ Insert(r)
         \/ ReadSwitchAgain(r) \/ ReadFails(r)
  PROVE  RunInv(r)'
<1>1. phase[r] \in Early /\ phase[r] # "over"
  BY DEF Early, Execute, ReadSwitch, Template, audiencePreview, Insert, ReadSwitchAgain, ReadFails
<1>2. SameBook(r) /\ logged'[r] = logged[r] /\ cuts' = cuts
  BY DEF Execute, ReadSwitch, Template, audiencePreview, Insert, ReadSwitchAgain, ReadFails,
         SameBook, audience, batch, wati
<1>3. phase'[r] \in (Early \ {"template again"}) \cup {"over"}
  <2>1. CASE Execute(r) \/ ReadSwitch(r) \/ Template(r)
    BY <2>1 DEF TypeOK, Execute, ReadSwitch, Template, Goes, Early
  <2>2. CASE audiencePreview(r) \/ Insert(r)
    BY <2>2 DEF TypeOK, audiencePreview, Insert, Goes, Early
  <2>3. CASE ReadSwitchAgain(r)
    BY <2>3 DEF TypeOK, ReadSwitchAgain, Goes, Early
  <2>4. CASE ReadFails(r)
    <3>1. Goes(r, "over") \/ Goes(r, "error")
      BY <2>4 DEF ReadFails
    <3>2. QED
      BY <3>1 DEF TypeOK, Goes, Early
  <2>5. QED
    BY <2>1, <2>2, <2>3, <2>4
<1>4. row[r].status \notin {"done", "error"}
  BY <1>1 DEF RunInv, RowFollows
<1>5. row'[r].status \notin {"done", "error"}
  <2>1. CASE audiencePreview(r)
    <3>1. row' = [row EXCEPT ![r].total = Cardinality(eligible)] \/ row' = row
      BY <2>1 DEF audiencePreview
    <3>2. row'[r].status = row[r].status
      BY <3>1 DEF TypeOK, Row
    <3>3. QED
      BY <1>4, <3>2
  <2>2. CASE Insert(r)
    BY <2>2 DEF TypeOK, Insert, Row
  <2>3. CASE ~audiencePreview(r) /\ ~Insert(r)
    <3>1. row' = row
      BY <2>3 DEF Execute, ReadSwitch, Template, ReadSwitchAgain, ReadFails
    <3>2. QED
      BY <1>4, <3>1
  <2>4. QED
    BY <2>1, <2>2, <2>3
<1>6. Placed(r)'
  BY <1>1, <1>2, <1>3 DEF RunInv, Placed, SameBook, Early
<1>7. RowFollows(r)'
  BY <1>5 DEF RowFollows
<1>8. QED
  BY <1>2, <1>6, <1>7, QuietRun

LEMMA RecipientsStep ==
  ASSUME TypeOK, NEW r \in Requests, RunInv(r), audienceRecipients(r)
  PROVE  RunInv(r)'
<1>1. PICK order \in SetToSeqs(eligible) : list' = [list EXCEPT ![r] = Limit(order)]
  BY DEF audienceRecipients
<1>2. list'[r] = Limit(order)
  BY <1>1 DEF TypeOK
<1>3. Distinct(r)'
  BY <1>2, LimitFacts DEF TypeOK, Distinct
<1>4. pos[r] = 0 /\ pos' = pos /\ cuts[r] = {} /\ cuts' = cuts /\ outcome' = outcome
      /\ accepted' = accepted /\ doubtful' = doubtful /\ clean' = clean /\ invalid' = invalid
      /\ logged' = logged /\ row' = row /\ \A c \in Contacts : accepted[r][c] = 0
  BY DEF RunInv, Placed, Early, audienceRecipients, audience, wati
<1>5. Prefix(r)'
  BY <1>4 DEF RunInv, Book, Prefix, Reached
<1>6. Ledger(r)' /\ Verdicts(r)' /\ LogFollows(r)'
  BY <1>4 DEF RunInv, Book, Ledger, Verdicts, LogFollows
<1>7. phase'[r] = IF eligible = {} THEN "error" ELSE "template again"
  BY DEF TypeOK, audienceRecipients, Goes
<1>8. Placed(r)'
  <2>1. eligible # {} => Len(Limit(order)) > 0
    BY <1>1, LimitFacts DEF TypeOK
  <2>2. QED
    BY <1>2, <1>4, <1>7, <2>1 DEF Placed, Early
<1>9. RowFollows(r)'
  BY <1>4 DEF RunInv, RowFollows, audienceRecipients
<1>10. QED
  BY <1>3, <1>5, <1>6, <1>8, <1>9 DEF RunInv, Book

\* A chunk starts where the last one ended, and ends within the list.
LEMMA ChunkFacts ==
  ASSUME TypeOK, NEW r \in Requests, pos[r] < Len(list[r])
  PROVE  \A e \in NextChunk(r) : pos[r] < e /\ e <= Len(list[r])
<1>1. pos[r] \in Nat /\ Len(list[r]) \in Nat /\ ChunkSize \in Nat \ {0}
  BY LengthType, SizesAssumption DEF TypeOK
<1>2. QED
  BY <1>1 DEF NextChunk, Smaller

LEMMA TemplateAgainStep ==
  ASSUME TypeOK, NEW r \in Requests, RunInv(r), TemplateAgain(r)
  PROVE  RunInv(r)'
<1>1. SameBook(r) /\ logged'[r] = logged[r] /\ row' = row /\ phase[r] = "template again"
  BY DEF TemplateAgain, SameBook, audience, wati
<1>2. pos[r] = 0 /\ cuts[r] = {} /\ Len(list[r]) > 0 /\ \A c \in Contacts : accepted[r][c] = 0
  BY <1>1 DEF RunInv, Placed, Early
<1>3. RowFollows(r)'
  BY <1>1 DEF RunInv, RowFollows
<1>4. CASE phase'[r] = "error" /\ cuts'[r] = {}
  <2>1. Placed(r)'
    BY <1>1, <1>2, <1>4 DEF Placed, SameBook
  <2>2. QED
    BY <1>1, <1>3, <2>1, QuietRun
<1>5. CASE phase'[r] = "send" /\ cuts'[r] = NextChunk(r)
  <2>1. \A e \in NextChunk(r) : pos[r] < e /\ e <= Len(list[r])
    BY <1>2, ChunkFacts
  <2>2. NextChunk(r) # {}
    BY DEF NextChunk
  <2>3. Placed(r)'
    BY <1>1, <1>5, <2>1, <2>2 DEF Placed, SameBook, Early
  <2>4. QED
    BY <1>1, <1>3, <2>3, QuietRun
<1>6. QED
  BY <1>2, <1>4, <1>5 DEF TypeOK, TemplateAgain, Goes

LEMMA LogStep ==
  ASSUME TypeOK, NEW r \in Requests, RunInv(r), logRecipients(r)
  PROVE  RunInv(r)'
<1>1. SameBook(r) /\ row' = row /\ cuts' = cuts /\ phase[r] = "log" /\ phase'[r] = "count"
  BY DEF TypeOK, logRecipients, Goes, SameBook, audience, batch, wati
<1>2. LogFollows(r)'
  <2>1. \A c \in Contacts : logged'[r][c] \in {logged[r][c], outcome[r][c]}
    <3>1. CASE logged' = [logged EXCEPT ![r] = [c \in Contacts |->
                  IF c \in Chunk(r) THEN outcome[r][c] ELSE logged[r][c]]]
      BY <3>1 DEF TypeOK
    <3>2. CASE logged' = logged
      BY <3>2
    <3>3. QED
      BY <3>1, <3>2 DEF logRecipients
  <2>2. QED
    BY <1>1, <2>1 DEF RunInv, Book, LogFollows, SameBook
<1>3. Distinct(r)' /\ Prefix(r)'
  BY <1>1 DEF RunInv, Book, SameBook, Distinct, Prefix, Reached
<1>4. Ledger(r)' /\ Verdicts(r)'
  BY <1>1 DEF RunInv, Book, SameBook, Ledger, Verdicts
<1>5. Placed(r)'
  BY <1>1 DEF RunInv, Placed, SameBook, Early
<1>6. RowFollows(r)'
  BY <1>1 DEF RunInv, RowFollows
<1>7. QED
  BY <1>2, <1>3, <1>4, <1>5, <1>6 DEF RunInv, Book

LEMMA CountStep ==
  ASSUME TypeOK, NEW r \in Requests, RunInv(r), CountChunk(r)
  PROVE  RunInv(r)'
<1>1. SameBook(r) /\ logged'[r] = logged[r] /\ phase[r] = "count"
  BY DEF CountChunk, SameBook, audience, wati
<1>2. cuts[r] = {} /\ pos[r] <= Len(list[r]) /\ pos[r] \in Nat /\ Len(list[r]) \in Nat
  BY <1>1, LengthType DEF TypeOK, RunInv, Placed
<1>3. row'[r].status = row[r].status
  <2>1. CASE row' = [row EXCEPT ![r].sent = Cardinality(Queued(r)),
                               ![r].failed = pos[r] - Cardinality(Queued(r))]
    BY <2>1 DEF TypeOK, Row
  <2>2. CASE row' = row
    BY <2>2
  <2>3. QED
    BY <2>1, <2>2 DEF CountChunk
<1>4. RowFollows(r)'
  BY <1>1, <1>3 DEF RunInv, RowFollows
<1>5. CASE pos[r] < Len(list[r])
  <2>1. phase'[r] = "send" /\ cuts'[r] = NextChunk(r)
    BY <1>5 DEF TypeOK, CountChunk, Goes
  <2>2. \A e \in NextChunk(r) : pos[r] < e /\ e <= Len(list[r])
    BY <1>5, ChunkFacts
  <2>3. NextChunk(r) # {}
    BY DEF NextChunk
  <2>4. Placed(r)'
    BY <1>1, <2>1, <2>2, <2>3 DEF Placed, SameBook, Early
  <2>5. QED
    BY <1>1, <1>4, <2>4, QuietRun
<1>6. CASE ~(pos[r] < Len(list[r]))
  <2>1. phase'[r] = "finish" /\ pos[r] = Len(list[r])
    BY <1>2, <1>6 DEF TypeOK, CountChunk, Goes
  <2>2. Placed(r)'
    BY <1>1, <2>1 DEF Placed, SameBook, Early
  <2>3. QED
    BY <1>1, <1>4, <2>2, QuietRun
<1>7. QED
  BY <1>5, <1>6

\* The two ends of a run.
LEMMA LastSteps ==
  ASSUME TypeOK, NEW r \in Requests, RunInv(r), Finish(r) \/ MarkError(r)
  PROVE  RunInv(r)'
<1>1. SameBook(r) /\ logged'[r] = logged[r] /\ phase'[r] = "over"
  BY DEF TypeOK, Finish, MarkError, Goes, SameBook, audience, batch, wati
<1>2. Placed(r)'
  BY <1>1 DEF Placed, Early
<1>3. RowFollows(r)'
  <2>1. CASE Finish(r)
    <3>1. pos[r] = Len(list[r]) /\ row[r].status # "error"
      BY <2>1 DEF Finish, RunInv, Placed, RowFollows
    <3>2. row'[r].status \in {"done", row[r].status}
      BY <2>1 DEF TypeOK, Row, Finish
    <3>3. QED
      BY <1>1, <3>1, <3>2 DEF RowFollows, SameBook
  <2>2. CASE MarkError(r)
    <3>1. row[r].status # "done" /\ \A c \in Contacts : accepted[r][c] = 0
      BY <2>2 DEF MarkError, RunInv, Placed, RowFollows, Early
    <3>2. row'[r].status \in {"error", row[r].status}
      BY <2>2 DEF TypeOK, Row, MarkError
    <3>3. QED
      BY <1>1, <3>1, <3>2 DEF RowFollows, SameBook
  <2>3. QED
    BY <2>1, <2>2
<1>4. QED
  BY <1>1, <1>2, <1>3, QuietRun

-----------------------------------------------------------------------------
(* The answers *)

\* The batch of a call lies behind what is done, within the list: nobody in it
\* has an outcome yet.
LEMMA CallFacts ==
  ASSUME TypeOK, NEW r \in Requests, RunInv(r), NEW end, Call(r, end)
  PROVE  /\ phase[r] = "send" /\ end \in cuts[r] /\ \A e \in cuts[r] : end <= e
         /\ end \in Nat /\ pos[r] \in Nat /\ Len(list[r]) \in Nat
         /\ pos[r] < end /\ end <= Len(list[r])
         /\ Batch(r, end) \subseteq Contacts
         /\ \A c \in Batch(r, end) : outcome[r][c] = "none"
         /\ row[r].status \notin {"done", "error"}
<1>1. phase[r] = "send" /\ end \in cuts[r] /\ \A e \in cuts[r] : end <= e
  BY DEF Call
<1>2. end \in Nat /\ pos[r] \in Nat /\ Len(list[r]) \in Nat
  BY <1>1, LengthType DEF TypeOK
<1>3. pos[r] < end /\ end <= Len(list[r])
  BY <1>1 DEF RunInv, Placed
<1>4. \A p \in (pos[r] + 1)..end : p \in 1..Len(list[r]) /\ p > pos[r]
  BY <1>2, <1>3
<1>5. Batch(r, end) \subseteq Contacts
  <2>1. list[r] \in Seq(Contacts)
    BY DEF TypeOK
  <2>2. \A p \in 1..Len(list[r]) : list[r][p] \in Contacts
    BY <2>1
  <2>3. QED
    BY <1>4, <2>2 DEF Batch
<1>6. \A c \in Batch(r, end) : outcome[r][c] = "none"
  <2>1. SUFFICES ASSUME NEW c \in Batch(r, end) PROVE ~Reached(r, c)
    BY <1>5 DEF RunInv, Book, Prefix
  <2>2. PICK p \in (pos[r] + 1)..end : c = list[r][p]
    BY DEF Batch
  <2>3. SUFFICES ASSUME NEW q \in 1..pos[r], list[r][q] = c PROVE FALSE
    BY DEF Reached
  <2>4. q \in 1..Len(list[r]) /\ q <= pos[r] /\ q \in Int
    BY <1>2, <1>3
  <2>5. p \in 1..Len(list[r]) /\ p > pos[r] /\ p \in Int
    BY <1>2, <1>4
  <2>6. p = q
    BY <2>2, <2>3, <2>4, <2>5 DEF RunInv, Book, Distinct
  <2>7. QED
    BY <1>2, <2>4, <2>5, <2>6
<1>7. row[r].status \notin {"done", "error"}
  BY <1>1 DEF RunInv, RowFollows
<1>8. QED
  BY <1>1, <1>2, <1>3, <1>5, <1>6, <1>7

\* What a settled batch leaves.
LEMMA SettleFacts ==
  ASSUME TypeOK, NEW r \in Requests, RunInv(r), NEW end, Call(r, end),
         NEW result \in {"queued", "error"}, Settle(r, end, result),
         list' = list, logged' = logged, row' = row
  PROVE  /\ \A c \in Contacts : outcome'[r][c] = IF c \in Batch(r, end) THEN result ELSE outcome[r][c]
         /\ pos'[r] = end
         /\ Distinct(r)' /\ Prefix(r)' /\ LogFollows(r)' /\ Placed(r)' /\ RowFollows(r)'
<1>1. \A c \in Contacts : outcome'[r][c] = IF c \in Batch(r, end) THEN result ELSE outcome[r][c]
  BY DEF TypeOK, Settle
<1>2. pos'[r] = end /\ cuts'[r] = cuts[r] \ {end}
  BY DEF TypeOK, Settle
<1>3. phase'[r] = IF cuts[r] = {end} THEN "log" ELSE "send"
  BY DEF TypeOK, Settle, Goes
<1>4. Distinct(r)'
  BY DEF RunInv, Book, Distinct
<1>5. Prefix(r)'
  <2>1. SUFFICES ASSUME NEW c \in Contacts
                 PROVE  outcome'[r][c] # "none" <=> \E p \in 1..end : list[r][p] = c
    BY <1>2 DEF Prefix, Reached
  <2>2. (\E p \in 1..end : list[r][p] = c) <=> Reached(r, c) \/ c \in Batch(r, end)
    <3>1. \A p : p \in 1..end <=> p \in 1..pos[r] \/ p \in (pos[r] + 1)..end
      BY CallFacts
    <3>2. QED
      BY <3>1 DEF Reached, Batch
  <2>3. outcome[r][c] # "none" <=> Reached(r, c)
    BY DEF RunInv, Book, Prefix
  <2>4. QED
    BY <1>1, <2>2, <2>3
<1>6. LogFollows(r)'
  <2>1. SUFFICES ASSUME NEW c \in Contacts PROVE logged[r][c] \in {"none", outcome'[r][c]}
    BY DEF LogFollows
  <2>2. logged[r][c] \in {"none", outcome[r][c]}
    BY DEF RunInv, Book, LogFollows
  <2>3. c \in Batch(r, end) => outcome[r][c] = "none"
    BY CallFacts
  <2>4. QED
    BY <1>1, <2>2, <2>3
<1>7. Placed(r)'
  <2>1. CASE cuts[r] = {end}
    BY <1>2, <1>3, <2>1, CallFacts DEF Placed, Early
  <2>2. CASE cuts[r] # {end}
    <3>1. cuts[r] \ {end} # {}
      BY <2>2, CallFacts
    <3>2. \A e \in cuts[r] \ {end} : end < e /\ e <= Len(list[r])
      <4>1. \A e \in cuts[r] : e \in Nat /\ end <= e /\ e <= Len(list[r])
        BY CallFacts DEF TypeOK, RunInv, Placed
      <4>2. QED
        BY <4>1, CallFacts
    <3>3. QED
      BY <1>2, <1>3, <2>2, <3>1, <3>2 DEF Placed, Early
  <2>3. QED
    BY <2>1, <2>2
<1>8. RowFollows(r)'
  BY CallFacts DEF RowFollows
<1>9. QED
  BY <1>1, <1>2, <1>4, <1>5, <1>6, <1>7, <1>8

LEMMA CountOnFacts ==
  ASSUME NEW f \in [Requests -> [Contacts -> Nat]], NEW r \in Requests, NEW S
  PROVE  \A c \in Contacts : CountOn(f, r, S)[r][c] = IF c \in S THEN f[r][c] + 1 ELSE f[r][c]
BY DEF CountOn

LEMMA AcceptStep ==
  ASSUME TypeOK, NEW r \in Requests, RunInv(r), NEW end, Accept(r, end)
  PROVE  RunInv(r)'
<1>1. Call(r, end) /\ Settle(r, end, "queued") /\ Batch(r, end) \cap invalid = {}
  BY DEF Accept
<1>2. list' = list /\ logged' = logged /\ row' = row /\ doubtful' = doubtful /\ clean' = clean
      /\ invalid' = invalid
  BY DEF Accept, audience
<1>3. \A c \in Contacts : outcome'[r][c] = IF c \in Batch(r, end) THEN "queued" ELSE outcome[r][c]
  BY <1>1, <1>2, SettleFacts
<1>4. \A c \in Contacts : accepted'[r][c] = IF c \in Batch(r, end) THEN accepted[r][c] + 1 ELSE accepted[r][c]
  <2>1. accepted' = CountOn(accepted, r, Batch(r, end)) /\ accepted \in [Requests -> [Contacts -> Nat]]
    BY DEF TypeOK, Accept
  <2>2. QED
    BY <2>1, CountOnFacts
<1>5. \A c \in Batch(r, end) : outcome[r][c] = "none"
  BY <1>1, CallFacts
<1>6. Ledger(r)'
  <2>1. SUFFICES ASSUME NEW c \in Contacts
                 PROVE  /\ accepted'[r][c] = doubtful[r][c] + (IF outcome'[r][c] = "queued" THEN 1 ELSE 0)
                        /\ clean[r] => doubtful[r][c] = 0
    BY <1>2 DEF Ledger
  <2>2. /\ accepted[r][c] = doubtful[r][c] + (IF outcome[r][c] = "queued" THEN 1 ELSE 0)
        /\ clean[r] => doubtful[r][c] = 0
    BY DEF RunInv, Book, Ledger
  <2>3. doubtful[r][c] \in Nat
    BY DEF TypeOK
  <2>4. CASE c \in Batch(r, end)
    BY <1>3, <1>4, <1>5, <2>2, <2>3, <2>4
  <2>5. CASE c \notin Batch(r, end)
    BY <1>3, <1>4, <2>2, <2>5
  <2>6. QED
    BY <2>4, <2>5
<1>7. Verdicts(r)'
  BY <1>1, <1>2, <1>3 DEF RunInv, Book, Verdicts
<1>8. Distinct(r)' /\ Prefix(r)' /\ LogFollows(r)' /\ Placed(r)' /\ RowFollows(r)'
  BY <1>1, <1>2, SettleFacts
<1>9. QED
  BY <1>6, <1>7, <1>8 DEF RunInv, Book

\* A batch that is refused for good: nobody in it was reached, or the run is no
\* longer clean.
LEMMA RefusedStep ==
  ASSUME TypeOK, NEW r \in Requests, RunInv(r), NEW end, Call(r, end), Settle(r, end, "error"),
         list' = list, logged' = logged, row' = row, invalid' = invalid,
         clean'[r] => clean[r] /\ Batch(r, end) \subseteq invalid,
         \A c \in Contacts :
           \/ accepted'[r][c] = accepted[r][c] /\ doubtful'[r][c] = doubtful[r][c]
           \/ ~clean'[r] /\ accepted'[r][c] = accepted[r][c] + 1 /\ doubtful'[r][c] = doubtful[r][c] + 1
  PROVE  RunInv(r)'
<1>1. \A c \in Contacts : outcome'[r][c] = IF c \in Batch(r, end) THEN "error" ELSE outcome[r][c]
  BY SettleFacts
<1>2. \A c \in Batch(r, end) : outcome[r][c] = "none"
  BY CallFacts
<1>3. Ledger(r)'
  <2>1. SUFFICES ASSUME NEW c \in Contacts
                 PROVE  /\ accepted'[r][c] = doubtful'[r][c] + (IF outcome'[r][c] = "queued" THEN 1 ELSE 0)
                        /\ clean'[r] => doubtful'[r][c] = 0
    BY DEF Ledger
  <2>2. /\ accepted[r][c] = doubtful[r][c] + (IF outcome[r][c] = "queued" THEN 1 ELSE 0)
        /\ clean[r] => doubtful[r][c] = 0
    BY DEF RunInv, Book, Ledger
  <2>3. outcome'[r][c] = "queued" <=> outcome[r][c] = "queued"
    BY <1>1, <1>2
  <2>4. doubtful[r][c] \in Nat /\ accepted[r][c] \in Nat
    BY DEF TypeOK
  <2>5. QED
    BY <2>2, <2>3, <2>4
<1>4. Verdicts(r)'
  BY <1>1 DEF RunInv, Book, Verdicts
<1>5. Distinct(r)' /\ Prefix(r)' /\ LogFollows(r)' /\ Placed(r)' /\ RowFollows(r)'
  BY SettleFacts
<1>6. QED
  BY <1>3, <1>4, <1>5 DEF RunInv, Book

\* The halving: the mid lies inside the batch.
LEMMA HalvingFacts ==
  ASSUME TypeOK, NEW r \in Requests, RunInv(r), NEW end, Call(r, end), end - pos[r] > 1
  PROVE  LET mid == pos[r] + (end - pos[r] + 1) \div 2 IN
         mid \in Nat /\ pos[r] < mid /\ mid < end
<1>1. PICK a \in Nat, b \in Nat : a = pos[r] /\ b = end /\ b - a > 1
  BY CallFacts
<1>2. LET mid == a + (b - a + 1) \div 2 IN mid \in Nat /\ a < mid /\ mid < b
  BY <1>1
<1>3. QED
  BY <1>1, <1>2

LEMMA RefuseInvalidStep ==
  ASSUME TypeOK, NEW r \in Requests, RunInv(r), NEW end, RefuseInvalid(r, end)
  PROVE  RunInv(r)'
<1>1. Call(r, end) /\ Batch(r, end) \cap invalid # {}
  BY DEF RefuseInvalid
<1>2. list' = list /\ logged' = logged /\ row' = row /\ doubtful' = doubtful /\ clean' = clean
      /\ invalid' = invalid /\ accepted' = accepted
  BY DEF RefuseInvalid, audience
<1>3. CASE end - pos[r] > 1
  <2>1. PICK mid : mid = pos[r] + (end - pos[r] + 1) \div 2
    OBVIOUS
  <2>2. mid \in Nat /\ pos[r] < mid /\ mid < end
    BY <1>1, <1>3, <2>1, HalvingFacts
  <2>3. cuts' = [cuts EXCEPT ![r] = @ \cup {mid}] /\ phase' = phase /\ pos' = pos /\ outcome' = outcome
    BY <1>3, <2>1 DEF RefuseInvalid
  <2>4. cuts'[r] = cuts[r] \cup {mid}
    BY <2>3 DEF TypeOK
  <2>5. mid <= Len(list[r])
    BY <1>1, <2>2, CallFacts
  <2>6. Placed(r)'
    BY <1>1, <1>2, <2>2, <2>3, <2>4, <2>5, CallFacts DEF RunInv, Placed, Early
  <2>7. RowFollows(r)'
    BY <1>2, <2>3 DEF RunInv, RowFollows
  <2>8. SameBook(r)
    BY <1>2, <2>3 DEF SameBook
  <2>9. QED
    BY <1>2, <2>6, <2>7, <2>8, QuietRun
<1>4. CASE ~(end - pos[r] > 1)
  <2>1. Settle(r, end, "error")
    BY <1>4 DEF RefuseInvalid
  <2>2. Batch(r, end) \subseteq invalid
    <3>1. end = pos[r] + 1
      BY <1>1, <1>4, CallFacts
    <3>2. \A p \in (pos[r] + 1)..end : p = end
      BY <1>1, <3>1, CallFacts
    <3>3. Batch(r, end) \subseteq {list[r][end]}
      BY <3>2 DEF Batch
    <3>4. QED
      BY <1>1, <3>3
  <2>3. QED
    BY <1>1, <1>2, <2>1, <2>2, RefusedStep
<1>5. QED
  BY <1>3, <1>4

LEMMA RefuseBatchStep ==
  ASSUME TypeOK, NEW r \in Requests, RunInv(r), NEW end, RefuseBatch(r, end)
  PROVE  RunInv(r)'
<1>1. Call(r, end) /\ Settle(r, end, "error")
  BY DEF RefuseBatch
<1>2. list' = list /\ logged' = logged /\ row' = row /\ doubtful' = doubtful
      /\ invalid' = invalid /\ accepted' = accepted
  BY DEF RefuseBatch, audience
<1>3. ~clean'[r]
  BY DEF TypeOK, RefuseBatch
<1>4. QED
  BY <1>1, <1>2, <1>3, RefusedStep

\* No answer: the contacts of the batch may have been reached once more, and
\* once more the answer is lost.
LEMMA RetryStep ==
  ASSUME TypeOK, NEW r \in Requests, RunInv(r), NEW end, Call(r, end), Retry(r, end),
         list' = list, logged' = logged, row' = row, invalid' = invalid, ~clean'[r],
         \A c \in Contacts :
           \/ accepted'[r][c] = accepted[r][c] /\ doubtful'[r][c] = doubtful[r][c]
           \/ accepted'[r][c] = accepted[r][c] + 1 /\ doubtful'[r][c] = doubtful[r][c] + 1
  PROVE  RunInv(r)'
<1>1. CASE Settle(r, end, "error")
  BY <1>1, RefusedStep
<1>2. CASE UNCHANGED <<phase, pos, cuts, outcome>>
  <2>1. Ledger(r)'
    <3>1. SUFFICES ASSUME NEW c \in Contacts
                   PROVE  accepted'[r][c] = doubtful'[r][c] + (IF outcome[r][c] = "queued" THEN 1 ELSE 0)
      BY <1>2 DEF Ledger
    <3>2. accepted[r][c] = doubtful[r][c] + (IF outcome[r][c] = "queued" THEN 1 ELSE 0)
      BY DEF RunInv, Book, Ledger
    <3>3. doubtful[r][c] \in Nat /\ accepted[r][c] \in Nat
      BY DEF TypeOK
    <3>4. QED
      BY <3>2, <3>3
  <2>2. Verdicts(r)'
    BY <1>2 DEF RunInv, Book, Verdicts
  <2>3. Distinct(r)' /\ Prefix(r)' /\ LogFollows(r)'
    BY <1>2 DEF RunInv, Book, Distinct, Prefix, Reached, LogFollows
  <2>4. Placed(r)'
    BY <1>2, CallFacts DEF RunInv, Placed, Early
  <2>5. RowFollows(r)'
    BY CallFacts DEF RowFollows
  <2>6. QED
    BY <2>1, <2>2, <2>3, <2>4, <2>5 DEF RunInv, Book
<1>3. QED
  BY <1>1, <1>2 DEF Retry

LEMMA UnansweredStep ==
  ASSUME TypeOK, NEW r \in Requests, RunInv(r), NEW end, Unsent(r, end) \/ Unanswered(r, end)
  PROVE  RunInv(r)'
<1>1. Call(r, end) /\ Retry(r, end)
  BY DEF Unsent, Unanswered
<1>2. list' = list /\ logged' = logged /\ row' = row /\ invalid' = invalid
  BY DEF Unsent, Unanswered, audience
<1>3. ~clean'[r]
  BY DEF TypeOK, Unsent, Unanswered
<1>4. \A c \in Contacts :
        \/ accepted'[r][c] = accepted[r][c] /\ doubtful'[r][c] = doubtful[r][c]
        \/ accepted'[r][c] = accepted[r][c] + 1 /\ doubtful'[r][c] = doubtful[r][c] + 1
  <2>1. CASE Unsent(r, end)
    BY <2>1 DEF Unsent
  <2>2. CASE Unanswered(r, end)
    <3>1. accepted' = CountOn(accepted, r, Batch(r, end)) /\ doubtful' = CountOn(doubtful, r, Batch(r, end))
      BY <2>2 DEF Unanswered
    <3>2. accepted \in [Requests -> [Contacts -> Nat]] /\ doubtful \in [Requests -> [Contacts -> Nat]]
      BY DEF TypeOK
    <3>3. \A c \in Contacts : accepted'[r][c] = IF c \in Batch(r, end) THEN accepted[r][c] + 1 ELSE accepted[r][c]
      BY <3>1, <3>2, CountOnFacts
    <3>4. \A c \in Contacts : doubtful'[r][c] = IF c \in Batch(r, end) THEN doubtful[r][c] + 1 ELSE doubtful[r][c]
      BY <3>1, <3>2, CountOnFacts
    <3>5. QED
      BY <3>3, <3>4
  <2>3. QED
    BY <2>1, <2>2
<1>5. QED
  BY <1>1, <1>2, <1>3, <1>4, RetryStep

-----------------------------------------------------------------------------
(* The theorems *)

LEMMA InitRuns == Init => \A r \in Requests : RunInv(r)
<1> SUFFICES ASSUME Init, NEW r \in Requests PROVE RunInv(r)
  OBVIOUS
<1>1. list[r] = <<>> /\ Len(list[r]) = 0 /\ pos[r] = 0 /\ cuts[r] = {} /\ phase[r] = "new"
  BY DEF Init
<1>2. \A c \in Contacts : outcome[r][c] = "none" /\ logged[r][c] = "none"
                         /\ accepted[r][c] = 0 /\ doubtful[r][c] = 0
  BY DEF Init
<1>3. row[r].status = "none"
  BY DEF Init
<1>4. Book(r)
  BY <1>1, <1>2 DEF Book, Distinct, Prefix, Reached, Ledger, Verdicts, LogFollows
<1>5. QED
  BY <1>1, <1>2, <1>3, <1>4 DEF RunInv, Placed, RowFollows, Early

LEMMA NextRuns ==
  ASSUME TypeOK, \A r \in Requests : RunInv(r), [Next]_vars
  PROVE  \A r \in Requests : RunInv(r)'
<1> SUFFICES ASSUME NEW s \in Requests PROVE RunInv(s)'
  OBVIOUS
<1>1. CASE \E r \in Requests : Execute(r) \/ Step(r)
  <2>1. PICK r \in Requests : Execute(r) \/ Step(r)
    BY <1>1
  <2>2. CASE s # r
    <3>1. SameRun(s)
      BY <2>1, <2>2, OtherHandlers, OtherAnswers DEF Step
    <3>2. QED
      BY <3>1, RunKept
  <2>3. CASE s = r
    <3>1. CASE \E end \in cuts[r] : Answer(r, end)
      BY <2>3, <3>1, AcceptStep, RefuseInvalidStep, RefuseBatchStep, UnansweredStep DEF Answer
    <3>2. CASE ~ \E end \in cuts[r] : Answer(r, end)
      BY <2>1, <2>3, <3>2, EarlySteps, RecipientsStep, TemplateAgainStep, LogStep, CountStep,
         LastSteps DEF Step
    <3>3. QED
      BY <3>1, <3>2
  <2>4. QED
    BY <2>2, <2>3
<1>2. CASE Crash
  <2>1. SameBook(s) /\ logged' = logged /\ cuts' = cuts /\ row' = row
    BY <1>2 DEF Crash, SameBook, audience, batch, wati
  <2>2. phase'[s] = IF phase[s] = "new" THEN "new" ELSE "over"
    BY <1>2 DEF Crash
  <2>3. Placed(s)'
    BY <2>1, <2>2 DEF RunInv, Placed, SameBook, Early
  <2>4. RowFollows(s)'
    BY <2>1, <2>2 DEF RunInv, RowFollows, SameBook
  <2>5. QED
    BY <2>1, <2>3, <2>4, QuietRun
<1>3. CASE setSendEnabled \/ (\E c \in Contacts : AudienceShifts(c)) \/ UNCHANGED vars
  <2>1. SameRun(s)
    BY <1>3 DEF setSendEnabled, AudienceShifts, vars, SameRun, SameBook, audience, batch, wati
  <2>2. QED
    BY <2>1, RunKept
<1>4. QED
  BY <1>1, <1>2, <1>3 DEF Next

\* Every run keeps its invariant, whatever the other requests do.
THEOREM RunsConsistent == Spec => [](\A r \in Requests : RunInv(r))
<1>1. Init => \A r \in Requests : RunInv(r)
  BY InitRuns
<1>2. TypeOK /\ (\A r \in Requests : RunInv(r)) /\ [Next]_vars => (\A r \in Requests : RunInv(r))'
  BY NextRuns
<1>3. QED
  BY <1>1, <1>2, TypeCorrect, PTL DEF Spec

\* A finished run has an outcome for every recipient and for nobody else.
THEOREM EveryoneAccounted == Spec => []EveryoneIsAccountedFor
<1>1. (\A r \in Requests : RunInv(r)) => EveryoneIsAccountedFor
  BY DEF RunInv, Book, Prefix, Reached, RowFollows, EveryoneIsAccountedFor, Done
<1>2. QED
  BY <1>1, RunsConsistent, PTL

\* What the log of a run says of a contact is what happened to it.
THEOREM TruthfulLog == Spec => []LogIsTruthful
<1>1. TypeOK /\ (\A r \in Requests : RunInv(r)) => LogIsTruthful
  <2> SUFFICES ASSUME TypeOK, NEW r \in Requests, NEW c \in Contacts, RunInv(r)
               PROVE  /\ logged[r][c] = "queued" => accepted[r][c] > 0
                      /\ logged[r][c] = "error" /\ clean[r] => accepted[r][c] = 0
    BY DEF LogIsTruthful
  <2>1. logged[r][c] \in {"none", outcome[r][c]}
    BY DEF RunInv, Book, LogFollows
  <2>2. /\ accepted[r][c] = doubtful[r][c] + (IF outcome[r][c] = "queued" THEN 1 ELSE 0)
        /\ clean[r] => doubtful[r][c] = 0
    BY DEF RunInv, Book, Ledger
  <2>3. doubtful[r][c] \in Nat
    BY DEF TypeOK
  <2>4. QED
    BY <2>1, <2>2, <2>3
<1>2. QED
  BY <1>1, TypeCorrect, RunsConsistent, PTL

\* Without other failures, one bad id costs nobody else the message.
THEOREM BadIdAlone == Spec => []BadIdSinksOnlyItself
<1>1. TypeOK /\ (\A r \in Requests : RunInv(r)) => BadIdSinksOnlyItself
  <2> SUFFICES ASSUME TypeOK, NEW r \in Requests, RunInv(r), Done(r), clean[r],
                      NEW p \in 1..Len(list[r])
               PROVE  IF list[r][p] \in invalid
                      THEN outcome[r][list[r][p]] = "error" /\ accepted[r][list[r][p]] = 0
                      ELSE outcome[r][list[r][p]] = "queued" /\ accepted[r][list[r][p]] = 1
    BY DEF BadIdSinksOnlyItself
  <2>1. PICK c \in Contacts : c = list[r][p]
    <3>1. list[r] \in Seq(Contacts)
      BY DEF TypeOK
    <3>2. QED
      BY <3>1
  <2>2. outcome[r][c] \in {"queued", "error"}
    <3>1. pos[r] = Len(list[r])
      BY DEF Done, RunInv, RowFollows
    <3>2. outcome[r][c] # "none"
      BY <2>1, <3>1 DEF RunInv, Book, Prefix, Reached
    <3>3. QED
      BY <3>2 DEF TypeOK, Outcomes
  <2>3. (outcome[r][c] = "queued" => c \notin invalid) /\ (outcome[r][c] = "error" => c \in invalid)
    BY DEF RunInv, Book, Verdicts
  <2>4. accepted[r][c] = IF outcome[r][c] = "queued" THEN 1 ELSE 0
    BY DEF RunInv, Book, Ledger
  <2>5. QED
    BY <2>1, <2>2, <2>3, <2>4
<1>2. QED
  BY <1>1, TypeCorrect, RunsConsistent, PTL

\* A contact gets the message once, and once more for each answer that was lost.
THEOREM RepeatsExcused == Spec => []RepeatsAreExcused
<1>1. TypeOK /\ (\A r \in Requests : RunInv(r)) => RepeatsAreExcused
  <2> SUFFICES ASSUME TypeOK, NEW r \in Requests, NEW c \in Contacts, RunInv(r)
               PROVE  accepted[r][c] <= 1 + doubtful[r][c]
    BY DEF RepeatsAreExcused
  <2>1. accepted[r][c] = doubtful[r][c] + (IF outcome[r][c] = "queued" THEN 1 ELSE 0)
    BY DEF RunInv, Book, Ledger
  <2>2. doubtful[r][c] \in Nat
    BY DEF TypeOK
  <2>3. QED
    BY <2>1, <2>2
<1>2. QED
  BY <1>1, TypeCorrect, RunsConsistent, PTL

\* A run marked as an error has reached nobody.
THEOREM ErrorReachedNobody == Spec => []ErrorMeansNobodyReached
<1>1. (\A r \in Requests : RunInv(r)) => ErrorMeansNobodyReached
  BY DEF RunInv, RowFollows, ErrorMeansNobodyReached
<1>2. QED
  BY <1>1, RunsConsistent, PTL

\* The variant: what a call may do, in order of weight.
Nearer(r) ==
  \/ pos'[r] > pos[r]
  \/ pos'[r] = pos[r] /\ \E e \in cuts'[r] : \A f \in cuts[r] : e < f
  \/ pos'[r] = pos[r] /\ cuts'[r] = cuts[r] /\ attempt'[r] > attempt[r]

LEMMA SettleNearer ==
  ASSUME TypeOK, NEW r \in Requests, RunInv(r), NEW end, Call(r, end),
         NEW result, Settle(r, end, result)
  PROVE  Nearer(r)
<1>1. pos'[r] = end
  BY DEF TypeOK, Settle
<1>2. pos[r] < end /\ pos[r] \in Nat /\ end \in Nat
  BY CallFacts
<1>3. QED
  BY <1>1, <1>2 DEF Nearer

LEMMA RetryNearer ==
  ASSUME TypeOK, NEW r \in Requests, RunInv(r), NEW end, Call(r, end), Retry(r, end)
  PROVE  Nearer(r)
<1>1. CASE Settle(r, end, "error")
  BY <1>1, SettleNearer
<1>2. CASE attempt' = [attempt EXCEPT ![r] = @ + 1] /\ UNCHANGED <<phase, pos, cuts, outcome>>
  <2>1. attempt[r] \in Int
    <3>1. attempt \in [Requests -> 0..(Attempts - 1)]
      BY DEF TypeOK
    <3>2. QED
      BY <3>1 DEF Attempts
  <2>2. attempt'[r] = attempt[r] + 1
    BY <1>2 DEF TypeOK
  <2>3. QED
    BY <1>2, <2>1, <2>2 DEF Nearer
<1>3. QED
  BY <1>1, <1>2 DEF Retry

LEMMA AnswerNearer ==
  ASSUME TypeOK, NEW r \in Requests, RunInv(r), NEW end, Answer(r, end)
  PROVE  Nearer(r)
<1>1. CASE Accept(r, end)
  BY <1>1, SettleNearer DEF Accept
<1>2. CASE RefuseInvalid(r, end)
  <2>1. Call(r, end)
    BY <1>2 DEF RefuseInvalid
  <2>2. CASE end - pos[r] > 1
    <3>1. PICK mid : mid = pos[r] + (end - pos[r] + 1) \div 2
      OBVIOUS
    <3>2. mid \in Nat /\ mid < end
      BY <2>1, <2>2, <3>1, HalvingFacts
    <3>3. cuts' = [cuts EXCEPT ![r] = @ \cup {mid}] /\ pos' = pos
      BY <1>2, <2>2, <3>1 DEF RefuseInvalid
    <3>4. mid \in cuts'[r]
      BY <3>3 DEF TypeOK
    <3>5. \A f \in cuts[r] : f \in Nat /\ end <= f /\ end \in Nat
      BY <2>1, CallFacts DEF TypeOK
    <3>6. QED
      BY <3>2, <3>3, <3>4, <3>5 DEF Nearer
  <2>3. CASE ~(end - pos[r] > 1)
    BY <1>2, <2>1, <2>3, SettleNearer DEF RefuseInvalid
  <2>4. QED
    BY <2>2, <2>3
<1>3. CASE RefuseBatch(r, end)
  BY <1>3, SettleNearer DEF RefuseBatch
<1>4. CASE Unsent(r, end) \/ Unanswered(r, end)
  BY <1>4, RetryNearer DEF Unsent, Unanswered
<1>5. QED
  BY <1>1, <1>2, <1>3, <1>4 DEF Answer

LEMMA OnlyAnswersCall ==
  ASSUME TypeOK, NEW s \in Requests, [Next]_vars, calls'[s] # calls[s]
  PROVE  \E end \in cuts[s] : Answer(s, end)
<1>1. CASE \E r \in Requests : Execute(r) \/ Step(r)
  <2>1. PICK r \in Requests : Execute(r) \/ Step(r)
    BY <1>1
  <2>2. CASE \E end \in cuts[r] : Answer(r, end)
    <3>1. PICK end \in cuts[r] : Answer(r, end)
      BY <2>2
    <3>2. Call(r, end)
      BY <3>1 DEF Answer, Accept, RefuseInvalid, RefuseBatch, Unsent, Unanswered
    <3>3. s = r
      BY <3>2 DEF TypeOK, Call
    <3>4. QED
      BY <2>2, <3>3
  <2>3. CASE ~ \E end \in cuts[r] : Answer(r, end)
    <3>1. calls' = calls
      BY <2>1, <2>3 DEF Step, Execute, ReadSwitch, Template, audiencePreview, Insert,
         ReadSwitchAgain, audienceRecipients, TemplateAgain, ReadFails, logRecipients,
         CountChunk, Finish, MarkError, wati
    <3>2. QED
      BY <3>1
  <2>4. QED
    BY <2>2, <2>3
<1>2. CASE Crash \/ setSendEnabled \/ (\E c \in Contacts : AudienceShifts(c)) \/ UNCHANGED vars
  BY <1>2 DEF Crash, setSendEnabled, AudienceShifts, vars, wati
<1>3. QED
  BY <1>1, <1>2 DEF Next

\* Every call brings its run nearer to the end, so a run makes finitely many.
THEOREM CallsProgress == Spec => CallsMakeProgress
<1>1. TypeOK /\ (\A r \in Requests : RunInv(r)) /\ [Next]_vars =>
        [\A r \in Requests : calls'[r] # calls[r] =>
           \/ pos'[r] > pos[r]
           \/ pos'[r] = pos[r] /\ \E e \in cuts'[r] : \A f \in cuts[r] : e < f
           \/ pos'[r] = pos[r] /\ cuts'[r] = cuts[r] /\ attempt'[r] > attempt[r]]_vars
  <2> SUFFICES ASSUME TypeOK, \A r \in Requests : RunInv(r), [Next]_vars,
                      NEW r \in Requests, calls'[r] # calls[r]
               PROVE  Nearer(r)
    BY DEF Nearer
  <2>1. QED
    BY OnlyAnswersCall, AnswerNearer
<1>2. QED
  BY <1>1, TypeCorrect, RunsConsistent, PTL DEF Spec, CallsMakeProgress
=============================================================================
