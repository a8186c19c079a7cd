---------------------------- MODULE AnalysisProofs ----------------------------
(***************************************************************************)
(* What holds of the analysis for any number of conversations and tasks:   *)
(* the budget's bound rests on what is under way or not yet logged, and    *)
(* NeverOlder on the thread a task carries being the newest one known of   *)
(* its conversation as long as it is alone on it.                          *)
(***************************************************************************)
EXTENDS Analysis, FiniteSetTheorems, TLAPS

LEMMA TasksFinite == IsFiniteSet(Tasks)
BY TasksAssumption, FS_AddElement DEF Tasks

LEMMA AskingFinite ==
  /\ IsFiniteSet(Asking) /\ Cardinality(Asking) \in Nat
  /\ IsFiniteSet(Asking') /\ Cardinality(Asking') \in Nat
<1>1. Asking \subseteq Tasks /\ Asking' \subseteq Tasks
  BY DEF Asking
<1>2. QED
  BY <1>1, TasksFinite, FS_Subset, FS_CardinalityType

LEMMA TaskType ==
  ASSUME TypeOK, NEW t \in Tasks
  PROVE  /\ task[t] \in Task
         /\ task[t].pc \in PCs /\ task[t].len \in Nat /\ task[t].ai \in BOOLEAN
         /\ task[t].pc # "idle" => task[t].on \in Contacts
         /\ task[t].pc = "idle" => task[t] = Idle
BY DEF TypeOK, Task

LEMMA IdleType == Idle \in Task /\ Idle.pc = "idle" /\ Idle.on = NoContact
BY DEF Idle, Task, PCs

\* What the three ways of changing one task leave of the others.
LEMMA EndsEffect ==
  ASSUME TypeOK, NEW t \in Tasks, Ends(t)
  PROVE  /\ task' \in [Tasks -> Task]
         /\ task'[t] = Idle
         /\ \A u \in Tasks \ {t} : task'[u] = task[u]
BY IdleType DEF Ends, TypeOK

LEMMA GoesEffect ==
  ASSUME TypeOK, NEW t \in Tasks, NEW pc \in PCs, Goes(t, pc)
  PROVE  /\ task' \in [Tasks -> Task]
         /\ task'[t].pc = pc
         /\ task'[t].on = task[t].on
         /\ task'[t].len = task[t].len
         /\ task'[t].ai = task[t].ai
         /\ \A u \in Tasks \ {t} : task'[u] = task[u]
<1>1. /\ task'[t] = [task[t] EXCEPT !.pc = pc]
      /\ \A u \in Tasks \ {t} : task'[u] = task[u]
      /\ DOMAIN task' = Tasks
  BY DEF Goes, TypeOK
<1>2. task[t] \in Task
  BY TaskType
<1>3. /\ task'[t] \in Task /\ task'[t].pc = pc /\ task'[t].on = task[t].on
      /\ task'[t].len = task[t].len /\ task'[t].ai = task[t].ai
  BY <1>1, <1>2 DEF Task
<1>4. QED
  BY <1>1, <1>3 DEF Goes, TypeOK

LEMMA TakesOnEffect ==
  ASSUME TypeOK, NEW t \in Tasks, NEW c \in Contacts, NEW ai \in BOOLEAN, TakesOn(t, c, ai)
  PROVE  /\ task' \in [Tasks -> Task]
         /\ task'[t] = [pc |-> "fetch", on |-> c, len |-> 0, ai |-> ai]
         /\ \A u \in Tasks \ {t} : task'[u] = task[u]
         /\ overlapped \subseteq overlapped'
         /\ overlapped' \subseteq Contacts
<1>1. [pc |-> "fetch", on |-> c, len |-> 0, ai |-> ai] \in Task
  BY DEF Task, PCs
<1>2. QED
  BY <1>1 DEF TakesOn, TypeOK

LEMMA FetchEffect ==
  ASSUME TypeOK, NEW t \in Tasks,
         task[t].pc = "fetch",
         task' = [task EXCEPT ![t].pc = "sync", ![t].len = thread[task[t].on]]
  PROVE  /\ task' \in [Tasks -> Task]
         /\ task'[t].pc = "sync" /\ task'[t].on = task[t].on
         /\ task'[t].len = thread[task[t].on] /\ task'[t].ai = task[t].ai
         /\ \A u \in Tasks \ {t} : task'[u] = task[u]
<1>1. task[t] \in Task /\ task[t].on \in Contacts /\ thread[task[t].on] \in Nat
  BY TaskType DEF TypeOK
<1>2. /\ task'[t] = [task[t] EXCEPT !.pc = "sync", !.len = thread[task[t].on]]
      /\ \A u \in Tasks \ {t} : task'[u] = task[u]
      /\ DOMAIN task' = Tasks
  BY DEF TypeOK
<1>3. /\ task'[t] \in Task /\ task'[t].pc = "sync" /\ task'[t].on = task[t].on
      /\ task'[t].len = thread[task[t].on] /\ task'[t].ai = task[t].ai
  BY <1>1, <1>2 DEF Task, PCs
<1>4. QED
  BY <1>2, <1>3 DEF TypeOK

\* An exhausted read ends a task of analyze, and leaves a mere syncOne with nothing.
LEMMA RateLimitedEffect ==
  ASSUME TypeOK, NEW t \in Tasks, FetchRateLimited(t)
  PROVE  \/ Ends(t) /\ misread' = misread
         \/ /\ ~task[t].ai
            /\ task' \in [Tasks -> Task]
            /\ task'[t].pc = "sync" /\ task'[t].on = task[t].on
            /\ task'[t].len = 0 /\ task'[t].ai = task[t].ai
            /\ \A u \in Tasks \ {t} : task'[u] = task[u]
            /\ misread' = misread \cup {task[t].on}
<1>1. CASE task[t].ai
  BY <1>1 DEF FetchRateLimited
<1>2. CASE ~task[t].ai
  <2>1. /\ task' = [task EXCEPT ![t].pc = "sync", ![t].len = 0]
        /\ misread' = misread \cup {task[t].on}
    BY <1>2 DEF FetchRateLimited
  <2>2. task[t] \in Task
    BY TaskType
  <2>3. /\ task'[t] = [task[t] EXCEPT !.pc = "sync", !.len = 0]
        /\ \A u \in Tasks \ {t} : task'[u] = task[u]
        /\ DOMAIN task' = Tasks
    BY <2>1 DEF TypeOK
  <2>4. /\ task'[t].pc = "sync" /\ task'[t].on = task[t].on
        /\ task'[t].len = 0 /\ task'[t].ai = task[t].ai
        /\ task'[t] = [pc |-> "sync", on |-> task[t].on, len |-> 0, ai |-> task[t].ai]
    BY <2>2, <2>3 DEF Task
  <2>5. task'[t] \in Task
    BY <2>2, <2>4 DEF Task, PCs
  <2>6. task' \in [Tasks -> Task]
    BY <2>1, <2>3, <2>5 DEF TypeOK
  <2>7. QED
    BY <1>2, <2>1, <2>3, <2>4, <2>6
<1>3. QED
  BY <1>1, <1>2

\* The conjunct of TypeOK that speaks of one task at a time.
Placed(t) == IF task[t].pc = "idle" THEN task[t] = Idle ELSE task[t].on \in Contacts

LEMMA PlacedStep ==
  ASSUME TypeOK, NEW t \in Tasks, task' \in [Tasks -> Task], Placed(t)',
         \A u \in Tasks \ {t} : task'[u] = task[u]
  PROVE  \A u \in Tasks : Placed(u)'
BY DEF TypeOK, Placed

BacklogType == [running : BOOLEAN, pc : {"off", "select", "loop", "snapshot"},
                todo : SUBSET Contacts]

LEMMA BacklogTypes ==
  /\ NoBacklog \in BacklogType
  /\ Cardinality(NoBacklog.todo) <= Limit
BY BoundsAssumption, FS_EmptySet DEF NoBacklog, BacklogType


LEMMA BacklogDrained ==
  ASSUME TypeOK, backlog' = [backlog EXCEPT !.pc = "snapshot", !.todo = {}]
  PROVE  /\ backlog' \in BacklogType
         /\ Cardinality(backlog'.todo) <= Limit
<1>1. backlog \in BacklogType
  BY DEF TypeOK, BacklogType
<1>2. backlog' \in BacklogType /\ backlog'.todo = {}
  BY <1>1 DEF BacklogType
<1>3. QED
  BY <1>2, BoundsAssumption, FS_EmptySet

LEMMA TypeStep ==
  ASSUME TypeOK, [Next]_vars
  PROVE  TypeOK'
<1> USE DEF rows, money
<1>0. \A u \in Tasks : Placed(u)
  BY DEF TypeOK, Placed
<1>1. ASSUME NEW c \in Contacts, NewMessage(c) PROVE TypeOK'
  <2>1. thread' \in [Contacts -> Nat]
    BY <1>1, thread[c] + 1 \in Nat DEF NewMessage, TypeOK
  <2>2. QED
    BY <1>1, <2>1 DEF NewMessage, TypeOK
<1>2. ASSUME NEW t \in Workers, NEW c \in Contacts, Begin(t, c) PROVE TypeOK'
  <2>1. t \in Tasks
    BY DEF Tasks
  <2>2. PICK ai \in BOOLEAN : TakesOn(t, c, ai)
    BY <1>2 DEF Begin
  <2>3. Placed(t)'
    <3>1. task'[t] = [pc |-> "fetch", on |-> c, len |-> 0, ai |-> ai]
      BY <2>1, <2>2, TakesOnEffect
    <3>2. QED
      BY <3>1 DEF Placed
  <2>4. /\ task' \in [Tasks -> Task] /\ overlapped' \subseteq Contacts
        /\ \A u \in Tasks : Placed(u)'
    BY <2>1, <2>2, <2>3, TakesOnEffect, PlacedStep
  <2>5. QED
    BY <1>2, <2>4 DEF Begin, TypeOK, Placed
<1>3. ASSUME NEW t \in Tasks, TaskStep(t) PROVE TypeOK'
  <2>1. CASE Fetch(t)
    <3>1. task' \in [Tasks -> Task] /\ \A u \in Tasks : Placed(u)'
      <4>1. CASE Ends(t)
        BY <4>1, EndsEffect, PlacedStep, IdleType DEF Placed
      <4>2. CASE task' = [task EXCEPT ![t].pc = "sync", ![t].len = thread[task[t].on]]
        <5>1. Placed(t)'
          BY <2>1, <4>2, FetchEffect, TaskType DEF Fetch, Placed
        <5>2. QED
          BY <2>1, <4>2, <5>1, FetchEffect, PlacedStep DEF Fetch
      <4>3. QED
        BY <2>1, <4>1, <4>2 DEF Fetch
    <3>2. QED
      BY <2>1, <3>1 DEF Fetch, TypeOK, Placed
  <2>2. CASE Sync(t)
    <3>1. task' \in [Tasks -> Task] /\ \A u \in Tasks : Placed(u)'
      <4>1. CASE Ends(t)
        BY <4>1, EndsEffect, PlacedStep, IdleType DEF Placed
      <4>2. CASE Goes(t, "budget")
        <5>1. Placed(t)'
          BY <2>2, <4>2, GoesEffect, TaskType DEF Sync, Placed, PCs
        <5>2. QED
          BY <4>2, <5>1, GoesEffect, PlacedStep DEF PCs
      <4>3. QED
        BY <2>2, <4>1, <4>2 DEF Sync
    <3>2. meta' \in [Contacts -> Nat]
      BY <2>2, TaskType DEF Sync, TypeOK
    <3>3. QED
      BY <2>2, <3>1, <3>2 DEF Sync, TypeOK, Placed
  <2>3. CASE CheckBudget(t)
    <3>1. task' \in [Tasks -> Task] /\ \A u \in Tasks : Placed(u)'
      <4>1. CASE Ends(t)
        BY <4>1, EndsEffect, PlacedStep, IdleType DEF Placed
      <4>2. CASE Goes(t, "ask")
        <5>1. Placed(t)'
          BY <2>3, <4>2, GoesEffect, TaskType DEF CheckBudget, Placed, PCs
        <5>2. QED
          BY <4>2, <5>1, GoesEffect, PlacedStep DEF PCs
      <4>3. QED
        BY <2>3, <4>1, <4>2 DEF CheckBudget
    <3>2. peak' \in Nat
      BY <2>3, AskingFinite DEF CheckBudget, TypeOK
    <3>3. QED
      BY <2>3, <3>1, <3>2 DEF CheckBudget, TypeOK, Placed
  <2>4. CASE Answered(t)
    <3>1. Placed(t)'
      BY <2>4, GoesEffect, TaskType DEF Answered, Placed, PCs
    <3>2. task' \in [Tasks -> Task] /\ \A u \in Tasks : Placed(u)'
      BY <2>4, <3>1, GoesEffect, PlacedStep DEF Answered, PCs
    <3>3. QED
      BY <2>4, <3>2 DEF Answered, TypeOK, Placed
  <2>5. CASE Store(t)
    <3>1. task' \in [Tasks -> Task] /\ \A u \in Tasks : Placed(u)'
      BY <2>5, EndsEffect, PlacedStep, IdleType DEF Store, Placed
    <3>2. task[t].on \in Contacts /\ task[t].len \in Nat
      BY <2>5, TaskType DEF Store
    <3>3. analysis' \in [Contacts -> Nat]
      BY <2>5, <3>2 DEF Store, TypeOK
    <3>4. scored' \subseteq Contacts /\ evaluated' = evaluated
      BY <2>5, <3>2 DEF Store, persistEvaluation, TypeOK
    <3>5. QED
      BY <2>5, <3>1, <3>3, <3>4 DEF Store, TypeOK, Placed
  <2>6. CASE FetchFails(t) \/ StatementFails(t) \/ Garbled(t)
    <3>1. Ends(t)
      BY <2>6 DEF FetchFails, StatementFails, Garbled
    <3>2. task' \in [Tasks -> Task] /\ \A u \in Tasks : Placed(u)'
      BY <3>1, EndsEffect, PlacedStep, IdleType DEF Placed
    <3>3. logging' \in Nat /\ faults' \in Nat
      BY <2>6 DEF FetchFails, StatementFails, Garbled, Fault, TypeOK
    <3>4. QED
      BY <2>6, <3>2, <3>3 DEF FetchFails, StatementFails, Garbled, TypeOK, Placed
  <2>7. CASE Unanswered(t)
    <3>1. task' \in [Tasks -> Task] /\ \A u \in Tasks : Placed(u)'
      BY <2>7, EndsEffect, PlacedStep, IdleType DEF Unanswered, Placed
    <3>2. backlog' \in BacklogType /\ Cardinality(backlog'.todo) <= Limit
      BY <2>7, BacklogDrained DEF Unanswered, TypeOK, BacklogType
    <3>3. QED
      BY <2>7, <3>1, <3>2 DEF Unanswered, Fault, TypeOK, Placed, BacklogType
  <2>8. CASE FetchRateLimited(t)
    <3>1. task[t].on \in Contacts /\ faults' \in Nat
      BY <2>8, TaskType DEF FetchRateLimited, Fault, TypeOK
    <3>2. /\ task' \in [Tasks -> Task] /\ \A u \in Tasks : Placed(u)'
          /\ misread' \subseteq Contacts
      <4>1. CASE Ends(t) /\ misread' = misread
        BY <4>1, EndsEffect, PlacedStep, IdleType DEF Placed, TypeOK
      <4>2. CASE ~(Ends(t) /\ misread' = misread)
        <5>1. /\ task' \in [Tasks -> Task] /\ misread' = misread \cup {task[t].on}
              /\ task'[t].pc = "sync" /\ task'[t].on = task[t].on
              /\ \A u \in Tasks \ {t} : task'[u] = task[u]
          BY <2>8, <4>2, RateLimitedEffect
        <5>2. Placed(t)'
          BY <3>1, <5>1 DEF Placed
        <5>3. QED
          BY <3>1, <5>1, <5>2, PlacedStep DEF TypeOK
      <4>3. QED
        BY <4>1, <4>2
    <3>3. QED
      BY <2>8, <3>1, <3>2 DEF FetchRateLimited, TypeOK, Placed
  <2>9. QED
    BY <1>3, <2>1, <2>2, <2>3, <2>4, <2>5, <2>6, <2>7, <2>8 DEF TaskStep
<1>4. CASE LogLands \/ LogFails
  <2>1. logging' \in Nat /\ charged' \in Nat /\ lost' \in Nat /\ faults' \in Nat
    BY <1>4 DEF LogLands, LogFails, Fault, TypeOK
  <2>2. QED
    BY <1>4, <2>1 DEF LogLands, LogFails, TypeOK
<1>5. CASE StartBacklog
  <2>1. backlog' \in BacklogType /\ Cardinality(backlog'.todo) <= Limit
    BY <1>5, BoundsAssumption, FS_EmptySet DEF StartBacklog, BacklogType
  <2>2. QED
    BY <1>5, <2>1 DEF StartBacklog, TypeOK, BacklogType
<1>6. CASE SelectPending
  <2>1. PICK S \in SUBSET pendingEvaluation :
          /\ Cardinality(S) <= Limit
          /\ backlog' = [backlog EXCEPT !.pc = "loop", !.todo = S]
    BY <1>6 DEF SelectPending
  <2>2. backlog' \in BacklogType /\ Cardinality(backlog'.todo) <= Limit
    BY <2>1 DEF pendingEvaluation, TypeOK, BacklogType
  <2>3. QED
    BY <1>6, <2>2 DEF SelectPending, TypeOK, BacklogType
<1>7. ASSUME NEW c \in Contacts, NextConversation(c) PROVE TypeOK'
  <2>1. Backlog \in Tasks /\ TakesOn(Backlog, c, TRUE)
    BY <1>7 DEF NextConversation, Tasks
  <2>2. Placed(Backlog)'
    <3>1. task'[Backlog] = [pc |-> "fetch", on |-> c, len |-> 0, ai |-> TRUE]
      BY <2>1, TakesOnEffect
    <3>2. QED
      BY <3>1 DEF Placed
  <2>3. /\ task' \in [Tasks -> Task] /\ overlapped' \subseteq Contacts
        /\ \A u \in Tasks : Placed(u)'
    BY <2>1, <2>2, TakesOnEffect, PlacedStep
  <2>4. /\ IsFiniteSet(backlog.todo) /\ c \in backlog.todo
    BY <1>7, ContactsAssumption, FS_Subset DEF NextConversation, TypeOK
  <2>5. Cardinality(backlog.todo \ {c}) <= Limit
    <3>1. /\ Cardinality(backlog.todo) \in Nat
          /\ Cardinality(backlog.todo \ {c}) = Cardinality(backlog.todo) - 1
      BY <2>4, FS_RemoveElement, FS_CardinalityType
    <3>2. Cardinality(backlog.todo) <= Limit /\ Limit \in Nat
      BY BoundsAssumption DEF TypeOK
    <3>3. QED
      BY <3>1, <3>2
  <2>6. backlog' \in BacklogType /\ Cardinality(backlog'.todo) <= Limit
    BY <1>7, <2>5 DEF NextConversation, TypeOK, BacklogType
  <2>7. faults' \in Nat
    BY <1>7 DEF NextConversation, Fault, TypeOK
  <2>8. QED
    BY <1>7, <2>3, <2>6, <2>7 DEF NextConversation, TypeOK, Placed, BacklogType
<1>8. CASE LoopEnds
  <2>1. backlog' \in BacklogType /\ Cardinality(backlog'.todo) <= Limit
    BY <1>8, BacklogDrained DEF LoopEnds
  <2>2. QED
    BY <1>8, <2>1 DEF LoopEnds, TypeOK, BacklogType
<1>9. CASE EndBacklog \/ BacklogFails
  <2>1. backlog' \in BacklogType /\ Cardinality(backlog'.todo) <= Limit /\ faults' \in Nat
    BY <1>9, BacklogTypes DEF EndBacklog, BacklogFails, Fault, TypeOK
  <2>2. QED
    BY <1>9, <2>1 DEF EndBacklog, BacklogFails, TypeOK, BacklogType
<1>10. CASE Crash
  <2>1. task' \in [Tasks -> Task] /\ \A u \in Tasks : Placed(u)'
    BY <1>10, IdleType DEF Crash, Placed
  <2>2. backlog' \in BacklogType /\ Cardinality(backlog'.todo) <= Limit
    BY <1>10, BacklogTypes DEF Crash
  <2>3. lost' \in Nat /\ logging' \in Nat /\ faults' \in Nat
    BY <1>10, AskingFinite DEF Crash, Fault, TypeOK
  <2>4. QED
    BY <1>10, <2>1, <2>2, <2>3 DEF Crash, TypeOK, Placed, BacklogType
<1>11. CASE UNCHANGED vars
  BY <1>11 DEF vars, TypeOK
<1>12. QED
  BY <1>1, <1>2, <1>3, <1>4, <1>5, <1>6, <1>7, <1>8, <1>9, <1>10, <1>11
  DEF Next, BacklogStep

\* Every variable keeps its type.
THEOREM TypeCorrect == Spec => []TypeOK
<1>1. Init => TypeOK
  BY BacklogTypes, IdleType, FS_EmptySet, BoundsAssumption
  DEF Init, TypeOK, Placed, BacklogType
<1>2. QED
  BY <1>1, TypeStep, PTL DEF Spec

-----------------------------------------------------------------------------
(* The budget *)

\* The calls that cost or may come to cost something, known to the table or not.
Pending == logging + Cardinality(Asking)

SpendInv == Budget # 0 => Cost * (charged + Pending) < Budget + Cost * peak

LEMMA PendingType ==
  /\ TypeOK => Pending \in Nat
  /\ TypeOK' => Pending' \in Nat
<1>1. \A a, b \in Nat : a + b \in Nat
  OBVIOUS
<1>2. QED
  BY <1>1, AskingFinite DEF TypeOK, Pending

LEMMA Products ==
  ASSUME NEW k \in Nat, NEW a \in Nat, NEW b \in Nat
  PROVE  /\ k * a \in Nat
         /\ k * (a + b) = k * a + k * b
         /\ a <= b => k * a <= k * b
OBVIOUS

\* A step that neither admits a call nor charges one can only shrink what is pending.
LEMMA SpendShrinks ==
  ASSUME TypeOK, TypeOK', SpendInv, peak' = peak,
         charged' + Pending' <= charged + Pending
  PROVE  SpendInv'
<1>1. /\ charged + Pending \in Nat /\ charged' + Pending' \in Nat
      /\ peak \in Nat /\ Budget \in Nat /\ Cost \in Nat
  <2>1. /\ charged \in Nat /\ charged' \in Nat /\ peak \in Nat
        /\ Pending \in Nat /\ Pending' \in Nat
    BY PendingType DEF TypeOK
  <2>2. \A a, b \in Nat : a + b \in Nat
    OBVIOUS
  <2>3. QED
    BY <2>1, <2>2, MoneyAssumption
<1>2. Cost * (charged' + Pending') <= Cost * (charged + Pending)
  BY <1>1, Products
<1>3. /\ Cost * (charged + Pending) \in Nat /\ Cost * peak \in Nat
      /\ Cost * (charged' + Pending') \in Nat
  BY <1>1, Products
<1>4. QED
  BY <1>1, <1>2, <1>3 DEF SpendInv

LEMMA AskingLeaves ==
  ASSUME TypeOK, NEW t \in Tasks, task'[t].pc # "ask",
         \A u \in Tasks \ {t} : task'[u] = task[u]
  PROVE  /\ Cardinality(Asking') <= Cardinality(Asking)
         /\ task[t].pc = "ask" => Cardinality(Asking') = Cardinality(Asking) - 1
<1>1. CASE task[t].pc = "ask"
  <2>1. Asking' = Asking \ {t} /\ t \in Asking
    BY <1>1 DEF Asking
  <2>2. QED
    BY <2>1, AskingFinite, FS_RemoveElement
<1>2. CASE task[t].pc # "ask"
  <2>1. Asking' = Asking
    BY <1>2 DEF Asking
  <2>2. QED
    BY <1>2, <2>1, AskingFinite
<1>3. QED
  BY <1>1, <1>2

LEMMA SpendStep ==
  ASSUME TypeOK, TypeOK', SpendInv, [Next]_vars
  PROVE  SpendInv'
<1> USE DEF rows, money
<1>0. /\ Cardinality(Asking) \in Nat /\ Cardinality(Asking') \in Nat
      /\ charged \in Nat /\ logging \in Nat /\ peak \in Nat
  BY AskingFinite DEF TypeOK
<1>1. ASSUME NEW t \in Tasks, TaskStep(t) PROVE SpendInv'
  <2>1. CASE CheckBudget(t) /\ Goes(t, "ask")
    <3>1. Asking' = Asking \cup {t} /\ t \notin Asking
      BY <2>1, GoesEffect DEF CheckBudget, Asking, PCs
    <3>2. Cardinality(Asking') = Cardinality(Asking) + 1
      BY <3>1, AskingFinite, FS_AddElement
    <3>3. Budget # 0 => Cost * charged < Budget
      <4>1. task'[t] # Idle
        BY <2>1, GoesEffect, IdleType DEF PCs
      <4>2. ~Ends(t)
        BY <4>1, EndsEffect
      <4>3. Budget \in Nat /\ Cost * charged \in Nat
        BY <1>0, MoneyAssumption
      <4>4. QED
        BY <2>1, <4>2, <4>3 DEF CheckBudget
    <3>4. charged' = charged /\ logging' = logging
      BY <2>1 DEF CheckBudget
    <3>5. peak' \in Nat /\ Pending' \in Nat /\ Pending' <= peak'
      <4>1. ~Ends(t)
        BY <2>1, GoesEffect, EndsEffect, IdleType DEF PCs
      <4>2. peak' = IF Cardinality(Asking) + 1 + logging > peak
                    THEN Cardinality(Asking) + 1 + logging ELSE peak
        BY <2>1, <4>1 DEF CheckBudget
      <4>3. QED
        BY <1>0, <3>2, <3>4, <4>2 DEF Pending
    <3>6. Cost \in Nat /\ Budget \in Nat
      BY MoneyAssumption
    <3>7. Cost * (charged' + Pending') = Cost * charged + Cost * Pending'
      BY <1>0, <3>4, <3>5, <3>6, Products
    <3>8. Cost * Pending' <= Cost * peak'
      BY <3>5, <3>6, Products
    <3>9. Cost * charged \in Nat /\ Cost * Pending' \in Nat /\ Cost * peak' \in Nat
      BY <1>0, <3>5, <3>6, Products
    <3>10. QED
      BY <3>3, <3>6, <3>7, <3>8, <3>9 DEF SpendInv
  <2>2. CASE Answered(t) \/ Garbled(t)
    <3>1. task[t].pc = "ask" /\ task'[t].pc # "ask"
          /\ \A u \in Tasks \ {t} : task'[u] = task[u]
      BY <2>2, GoesEffect, EndsEffect, IdleType DEF Answered, Garbled, PCs
    <3>2. Cardinality(Asking') = Cardinality(Asking) - 1
      BY <3>1, AskingLeaves
    <3>3. charged' = charged /\ logging' = logging + 1 /\ peak' = peak
      BY <2>2 DEF Answered, Garbled
    <3>4. charged' + Pending' <= charged + Pending
      BY <1>0, <3>2, <3>3 DEF Pending
    <3>5. QED
      BY <3>3, <3>4, SpendShrinks
  <2>3. CASE Fetch(t) \/ Sync(t) \/ Store(t) \/ FetchFails(t) \/ FetchRateLimited(t)
             \/ Unanswered(t) \/ StatementFails(t) \/ (CheckBudget(t) /\ Ends(t) /\ peak' = peak)
    <3>1. task'[t].pc # "ask" /\ \A u \in Tasks \ {t} : task'[u] = task[u]
      <4>1. CASE Ends(t)
        BY <4>1, EndsEffect, IdleType
      <4>2. CASE Goes(t, "budget")
        BY <4>2, GoesEffect DEF PCs
      <4>3. CASE Fetch(t) /\ ~Ends(t)
        BY <4>3, FetchEffect DEF Fetch
      <4>4. CASE FetchRateLimited(t) /\ ~Ends(t)
        BY <4>4, RateLimitedEffect
      <4>5. QED
        BY <2>3, <4>1, <4>2, <4>3, <4>4
        DEF Fetch, Sync, Store, FetchFails, Unanswered, StatementFails
    <3>2. Cardinality(Asking') <= Cardinality(Asking)
      BY <3>1, AskingLeaves
    <3>3. charged' = charged /\ logging' = logging /\ peak' = peak
      BY <2>3 DEF Fetch, Sync, Store, FetchFails, FetchRateLimited, Unanswered,
                  StatementFails, CheckBudget
    <3>4. charged' + Pending' <= charged + Pending
      BY <1>0, <3>2, <3>3 DEF Pending
    <3>5. QED
      BY <3>3, <3>4, SpendShrinks
  <2>4. QED
    BY <1>1, <2>1, <2>2, <2>3 DEF TaskStep, CheckBudget
<1>2. ASSUME NEW t \in Tasks, NEW c \in Contacts, NEW ai \in BOOLEAN, TakesOn(t, c, ai),
             UNCHANGED money
      PROVE SpendInv'
  <2>1. task'[t].pc # "ask" /\ \A u \in Tasks \ {t} : task'[u] = task[u]
    <3>1. task'[t] = [pc |-> "fetch", on |-> c, len |-> 0, ai |-> ai]
      BY <1>2, TakesOnEffect
    <3>2. QED
      BY <1>2, <3>1, TakesOnEffect
  <2>2. charged' + Pending' <= charged + Pending
    BY <1>0, <1>2, <2>1, AskingLeaves DEF Pending
  <2>3. QED
    BY <1>2, <2>2, SpendShrinks
<1>3. CASE task' = task /\ UNCHANGED money
  <2>1. Asking' = Asking
    BY <1>3 DEF Asking
  <2>2. QED
    BY <1>0, <1>3, <2>1, SpendShrinks DEF Pending
<1>4. CASE LogLands \/ LogFails
  <2>1. Asking' = Asking /\ peak' = peak
    BY <1>4 DEF LogLands, LogFails, Asking
  <2>2. charged' + logging' <= charged + logging
    BY <1>0, <1>4 DEF LogLands, LogFails
  <2>3. charged' + Pending' <= charged + Pending
    BY <1>0, <1>4, <2>1, <2>2 DEF Pending, LogLands, LogFails
  <2>4. QED
    BY <2>1, <2>3, SpendShrinks
<1>5. CASE Crash
  <2>1. Asking' = {} /\ charged' = charged /\ logging' = 0 /\ peak' = peak
    BY <1>5, IdleType DEF Crash, Asking
  <2>2. charged' + Pending' <= charged + Pending
    BY <1>0, <2>1, FS_EmptySet DEF Pending
  <2>3. QED
    BY <2>1, <2>2, SpendShrinks
<1>6. CASE UNCHANGED vars
  BY <1>3, <1>6 DEF vars
<1>7. ASSUME NEW c \in Contacts, NewMessage(c) PROVE SpendInv'
  BY <1>3, <1>7 DEF NewMessage
<1>8. ASSUME NEW t \in Workers, NEW c \in Contacts, Begin(t, c) PROVE SpendInv'
  BY <1>2, <1>8 DEF Begin, Tasks
<1>9. ASSUME NEW c \in Contacts, NextConversation(c) PROVE SpendInv'
  BY <1>2, <1>9 DEF NextConversation, Tasks
<1>10. CASE StartBacklog \/ SelectPending \/ LoopEnds \/ EndBacklog \/ BacklogFails
  BY <1>3, <1>10 DEF StartBacklog, SelectPending, LoopEnds, EndBacklog, BacklogFails
<1>11. QED
  BY <1>1, <1>4, <1>5, <1>6, <1>7, <1>8, <1>9, <1>10 DEF Next, BacklogStep

\* The day's spending stays within the budget and what was under way or unlogged
\* at one time, for any budget, any price and any number of tasks.
THEOREM BudgetBounds == Spec => []SpendIsBounded
<1>1. Init => SpendInv
  <2>1. SUFFICES ASSUME Init PROVE SpendInv
    OBVIOUS
  <2>2. Asking = {}
    BY <2>1, IdleType DEF Init, Asking
  <2>3. charged + Pending = 0 /\ peak = 0
    BY <2>1, <2>2, FS_EmptySet DEF Init, Pending
  <2>4. QED
    BY <2>3, MoneyAssumption DEF SpendInv
<1>2. TypeOK /\ SpendInv => SpendIsBounded
  <2>1. SUFFICES ASSUME TypeOK, SpendInv, Budget # 0
                 PROVE  Cost * (charged + logging + lost + Cardinality(Asking))
                          < Budget + Cost * (peak + lost)
    BY DEF SpendIsBounded
  <2>2. /\ charged \in Nat /\ logging \in Nat /\ lost \in Nat /\ peak \in Nat
        /\ Cardinality(Asking) \in Nat /\ Cost \in Nat /\ Budget \in Nat
    BY <2>1, AskingFinite, MoneyAssumption DEF TypeOK
  <2>3. \A a, b \in Nat : Cost * (a + b) = Cost * a + Cost * b
    BY <2>2
  <2>4. /\ Cost * ((charged + (logging + Cardinality(Asking))) + lost)
             = Cost * (charged + (logging + Cardinality(Asking))) + Cost * lost
        /\ Cost * (peak + lost) = Cost * peak + Cost * lost
    BY <2>2, <2>3
  <2>5. charged + logging + lost + Cardinality(Asking)
          = (charged + (logging + Cardinality(Asking))) + lost
    BY <2>2
  <2>6. Cost * (charged + (logging + Cardinality(Asking))) < Budget + Cost * peak
    BY <2>1 DEF SpendInv, Pending
  <2>7. /\ Cost * (charged + (logging + Cardinality(Asking))) \in Nat
        /\ Cost * lost \in Nat /\ Cost * peak \in Nat
    BY <2>2
  <2>8. QED
    BY <2>2, <2>4, <2>5, <2>6, <2>7
<1>3. QED
  BY <1>1, <1>2, SpendStep, TypeCorrect, PTL DEF Spec

-----------------------------------------------------------------------------
(* NeverOlder *)

Known(t) == task[t].pc \notin {"idle", "fetch"}

\* What a task has read is no newer than WATI, and no older than what is stored
\* as long as no other task has been on the conversation.  A syncOne may hold the
\* nothing of an exhausted read; whoever writes an analysis does not.
OlderInv ==
  /\ \A c \in Contacts : meta[c] <= thread[c] /\ analysis[c] <= thread[c]
  /\ \A t \in Tasks : Known(t) => task[t].len <= thread[task[t].on]
  /\ \A t \in Tasks : Known(t) /\ task[t].on \notin overlapped =>
       /\ task[t].on \notin misread => meta[task[t].on] <= task[t].len
       /\ task[t].ai => analysis[task[t].on] <= task[t].len
  /\ \A t \in Tasks : task[t].pc \in {"budget", "ask", "store"} => task[t].ai
  /\ \A t, u \in Tasks :
       t # u /\ task[t].pc # "idle" /\ task[t].on = task[u].on => task[t].on \in overlapped

LEMMA OlderStep ==
  ASSUME TypeOK, TypeOK', OlderInv, [Next]_vars
  PROVE  OlderInv' /\ \A c \in Contacts \ overlapped' :
           /\ analysis'[c] >= analysis[c]
           /\ c \notin misread' => meta'[c] >= meta[c]
<1> DEFINE Kept == \A c \in Contacts \ overlapped' :
             /\ analysis'[c] >= analysis[c]
             /\ c \notin misread' => meta'[c] >= meta[c]
<1> USE DEF rows, money
<1>0. /\ thread \in [Contacts -> Nat] /\ meta \in [Contacts -> Nat]
      /\ analysis \in [Contacts -> Nat]
      /\ \A t \in Tasks : task[t].pc # "idle" => task[t].on \in Contacts
      /\ \A t \in Tasks : task[t].pc = "idle" => task[t].on = NoContact
      /\ \A t \in Tasks : task[t].len \in Nat
      /\ NoContact \notin Contacts
  BY TaskType, IdleType, ContactsAssumption DEF TypeOK
<1>1. ASSUME UNCHANGED <<thread, meta, analysis, overlapped>>, misread \subseteq misread',
             NEW t \in Tasks, \A u \in Tasks \ {t} : task'[u] = task[u],
             \/ task'[t] = Idle
             \/ /\ task'[t].on = task[t].on /\ task'[t].len = task[t].len
                /\ task'[t].ai = task[t].ai
                /\ Known(t)
                /\ task'[t].pc \in {"budget", "ask", "store"} => task[t].ai
             \/ /\ task'[t].on = task[t].on /\ task'[t].ai = task[t].ai
                /\ task[t].pc = "fetch" /\ task'[t].pc = "sync"
                /\ \/ task'[t].len = thread[task[t].on]
                   \/ task'[t].len = 0 /\ ~task[t].ai /\ task[t].on \in misread'
      PROVE OlderInv' /\ Kept
  <2>1. Kept
    BY <1>0, <1>1
  <2>2. (\A u \in Tasks : Known(u) => task[u].len <= thread[task[u].on])'
    BY <1>0, <1>1, IdleType DEF OlderInv, Known
  <2>3. (\A u \in Tasks : Known(u) /\ task[u].on \notin overlapped =>
           /\ task[u].on \notin misread => meta[task[u].on] <= task[u].len
           /\ task[u].ai => analysis[task[u].on] <= task[u].len)'
    BY <1>0, <1>1, IdleType DEF OlderInv, Known
  <2>4. (\A s, u \in Tasks :
           s # u /\ task[s].pc # "idle" /\ task[s].on = task[u].on => task[s].on \in overlapped)'
    BY <1>0, <1>1, IdleType DEF OlderInv, Known
  <2>5. (\A u \in Tasks : task[u].pc \in {"budget", "ask", "store"} => task[u].ai)'
    BY <1>1, IdleType DEF OlderInv
  <2>6. QED
    BY <1>1, <2>1, <2>2, <2>3, <2>4, <2>5 DEF OlderInv
<1>2. CASE UNCHANGED <<thread, meta, analysis, overlapped, misread, task>>
  BY <1>0, <1>2 DEF OlderInv, Known
<1>3. ASSUME NEW t \in Tasks, NEW c \in Contacts, NEW ai \in BOOLEAN, TakesOn(t, c, ai),
             task[t].pc = "idle", UNCHANGED <<thread, meta, analysis, misread>>
      PROVE OlderInv' /\ Kept
  <2>1. /\ task'[t].pc = "fetch" /\ task'[t].on = c
        /\ \A u \in Tasks \ {t} : task'[u] = task[u]
        /\ overlapped \subseteq overlapped'
    <3>1. task'[t] = [pc |-> "fetch", on |-> c, len |-> 0, ai |-> ai]
      BY <1>3, TakesOnEffect
    <3>2. QED
      BY <1>3, <3>1, TakesOnEffect
  <2>2. (\E u \in Tasks : task[u].on = c) => c \in overlapped'
    BY <1>3 DEF TakesOn
  <2>3. (\A s, u \in Tasks :
           s # u /\ task[s].pc # "idle" /\ task[s].on = task[u].on => task[s].on \in overlapped)'
    BY <1>0, <1>3, <2>1, <2>2 DEF OlderInv
  <2>4. (\A u \in Tasks : Known(u) => task[u].len <= thread[task[u].on])'
    BY <1>0, <1>3, <2>1 DEF OlderInv, Known
  <2>5. (\A u \in Tasks : Known(u) /\ task[u].on \notin overlapped =>
           /\ task[u].on \notin misread => meta[task[u].on] <= task[u].len
           /\ task[u].ai => analysis[task[u].on] <= task[u].len)'
    BY <1>0, <1>3, <2>1 DEF OlderInv, Known
  <2>6. (\A u \in Tasks : task[u].pc \in {"budget", "ask", "store"} => task[u].ai)'
    BY <1>3, <2>1 DEF OlderInv
  <2>7. QED
    BY <1>0, <1>3, <2>3, <2>4, <2>5, <2>6 DEF OlderInv
<1>4. ASSUME NEW c \in Contacts, NewMessage(c) PROVE OlderInv' /\ Kept
  <2>1. /\ \A d \in Contacts : thread'[d] \in Nat /\ thread[d] <= thread'[d]
        /\ UNCHANGED <<meta, analysis, task, overlapped, misread>>
    BY <1>0, <1>4 DEF NewMessage
  <2>2. (\A d \in Contacts : meta[d] <= thread[d] /\ analysis[d] <= thread[d])'
    BY <1>0, <2>1 DEF OlderInv
  <2>3. (\A u \in Tasks : Known(u) => task[u].len <= thread[task[u].on])'
    BY <1>0, <2>1 DEF OlderInv, Known
  <2>4. QED
    BY <1>0, <2>1, <2>2, <2>3 DEF OlderInv, Known
<1>5. ASSUME NEW t \in Tasks, TaskStep(t) PROVE OlderInv' /\ Kept
  <2>1. CASE Fetch(t) \/ CheckBudget(t) \/ Answered(t) \/ FetchFails(t) \/ Garbled(t)
             \/ Unanswered(t) \/ StatementFails(t)
    <3>1. UNCHANGED <<thread, meta, analysis, overlapped, misread>>
      BY <2>1 DEF Fetch, CheckBudget, Answered, FetchFails, Garbled, Unanswered, StatementFails
    <3>2. CASE Ends(t)
      BY <1>1, <3>1, <3>2, EndsEffect
    <3>3. CASE Fetch(t) /\ ~Ends(t)
      BY <1>1, <3>1, <3>3, FetchEffect DEF Fetch
    <3>4. CASE (CheckBudget(t) /\ Goes(t, "ask")) \/ Answered(t)
      <4>1. Known(t) /\ task[t].ai
        BY <3>4 DEF CheckBudget, Answered, Known, OlderInv
      <4>2. /\ task'[t].on = task[t].on /\ task'[t].len = task[t].len
            /\ task'[t].ai = task[t].ai
            /\ \A u \in Tasks \ {t} : task'[u] = task[u]
        BY <3>4, GoesEffect DEF Answered, PCs
      <4>3. QED
        BY <1>1, <3>1, <4>1, <4>2
    <3>5. QED
      BY <2>1, <3>2, <3>3, <3>4
      DEF Fetch, CheckBudget, Answered, FetchFails, Garbled, Unanswered, StatementFails
  <2>2. CASE FetchRateLimited(t)
    <3>1. UNCHANGED <<thread, meta, analysis, overlapped>> /\ task[t].pc = "fetch"
      BY <2>2 DEF FetchRateLimited
    <3>2. CASE Ends(t) /\ misread' = misread
      BY <1>1, <3>1, <3>2, EndsEffect
    <3>3. CASE ~(Ends(t) /\ misread' = misread)
      <4>1. /\ ~task[t].ai /\ task'[t].pc = "sync" /\ task'[t].on = task[t].on
            /\ task'[t].len = 0 /\ task'[t].ai = task[t].ai
            /\ \A u \in Tasks \ {t} : task'[u] = task[u]
            /\ misread' = misread \cup {task[t].on}
        BY <2>2, <3>3, RateLimitedEffect
      <4>2. QED
        BY <1>1, <3>1, <4>1
    <3>4. QED
      BY <3>2, <3>3
  <2>3. ASSUME Sync(t) \/ Store(t)
        PROVE  OlderInv' /\ Kept
    <3> DEFINE c == task[t].on
    <3>1. /\ Known(t) /\ c \in Contacts /\ task[t].len \in Nat
          /\ task[t].len <= thread[c]
          /\ c \notin overlapped =>
               /\ c \notin misread => meta[c] <= task[t].len
               /\ task[t].ai => analysis[c] <= task[t].len
      BY <1>0, <2>3 DEF Sync, Store, Known, OlderInv
    <3>2. /\ UNCHANGED <<thread, overlapped, misread>>
          /\ \A d \in Contacts \ {c} : meta'[d] = meta[d] /\ analysis'[d] = analysis[d]
          /\ meta'[c] \in {meta[c], task[t].len}
          /\ \/ analysis'[c] = analysis[c]
             \/ analysis'[c] = task[t].len /\ task[t].ai
      <4>1. CASE Sync(t)
        BY <1>0, <3>1, <4>1 DEF Sync
      <4>2. CASE Store(t)
        BY <1>0, <3>1, <4>2 DEF Store, OlderInv
      <4>3. QED
        BY <2>3, <4>1, <4>2
    <3>3. /\ \A u \in Tasks \ {t} : task'[u] = task[u]
          /\ \/ task'[t] = Idle
             \/ /\ task'[t].on = c /\ task'[t].len = task[t].len
                /\ task'[t].ai = task[t].ai /\ task[t].ai
      BY <2>3, EndsEffect, GoesEffect DEF Sync, Store, PCs
    <3>4. Kept
      BY <1>0, <3>1, <3>2
    <3>5. (\A d \in Contacts : meta[d] <= thread[d] /\ analysis[d] <= thread[d])'
      BY <1>0, <3>1, <3>2 DEF OlderInv
    <3>6. (\A u \in Tasks : Known(u) => task[u].len <= thread[task[u].on])'
      BY <1>0, <3>1, <3>2, <3>3, IdleType DEF OlderInv, Known
    <3>7. (\A s, u \in Tasks :
             s # u /\ task[s].pc # "idle" /\ task[s].on = task[u].on => task[s].on \in overlapped)'
      BY <1>0, <3>1, <3>2, <3>3, IdleType DEF OlderInv, Known
    <3>8. ASSUME NEW u \in Tasks, Known(u)', task'[u].on \notin overlapped'
          PROVE  /\ task'[u].on \notin misread' => meta'[task'[u].on] <= task'[u].len
                 /\ task'[u].ai => analysis'[task'[u].on] <= task'[u].len
      <4>1. CASE u = t
        <5>1. task'[t].on = c /\ task'[t].len = task[t].len /\ task[t].ai
          BY <3>3, <3>8, <4>1, IdleType DEF Known
        <5>2. QED
          BY <1>0, <3>1, <3>2, <3>8, <4>1, <5>1
      <4>2. CASE u # t
        <5>1. task'[u] = task[u] /\ Known(u) /\ task[u].on \notin overlapped
          BY <3>2, <3>3, <3>8, <4>2 DEF Known
        <5>2. task[u].on # c /\ task[u].on \in Contacts
          BY <1>0, <3>1, <4>2, <5>1 DEF OlderInv, Known
        <5>3. QED
          BY <3>2, <5>1, <5>2 DEF OlderInv
      <4>3. QED
        BY <4>1, <4>2
    <3>9. (\A u \in Tasks : task[u].pc \in {"budget", "ask", "store"} => task[u].ai)'
      BY <3>3, IdleType DEF OlderInv
    <3>10. QED
      BY <3>4, <3>5, <3>6, <3>7, <3>8, <3>9 DEF OlderInv
  <2>4. QED
    BY <1>5, <2>1, <2>2, <2>3 DEF TaskStep
<1>6. CASE LogLands \/ LogFails \/ StartBacklog \/ SelectPending \/ LoopEnds
           \/ EndBacklog \/ BacklogFails
  BY <1>2, <1>6
  DEF LogLands, LogFails, StartBacklog, SelectPending, LoopEnds, EndBacklog, BacklogFails
<1>7. CASE Crash
  <2>1. /\ UNCHANGED <<thread, meta, analysis, overlapped, misread>>
        /\ \A u \in Tasks : task'[u].pc = "idle"
    BY <1>7, IdleType DEF Crash
  <2>2. QED
    BY <1>0, <2>1 DEF OlderInv, Known
<1>8. ASSUME NEW t \in Workers, NEW c \in Contacts, Begin(t, c) PROVE OlderInv' /\ Kept
  BY <1>3, <1>8 DEF Begin, Tasks
<1>9. ASSUME NEW c \in Contacts, NextConversation(c) PROVE OlderInv' /\ Kept
  BY <1>3, <1>9 DEF NextConversation, Tasks
<1>10. CASE UNCHANGED vars
  BY <1>2, <1>10 DEF vars
<1>11. QED
  BY <1>4, <1>5, <1>6, <1>7, <1>8, <1>9, <1>10 DEF Next, BacklogStep

\* An analysis never gives way to one of an older thread while one task at a time
\* is on the conversation, whatever fails; nor does a meta row, as long as no read
\* that failed has passed for an empty thread.
THEOREM StoredNeverOlder == Spec => NeverOlder
<1>1. Init => OlderInv
  BY IdleType, ContactsAssumption DEF Init, OlderInv, Known
<1>2. TypeOK /\ TypeOK' /\ OlderInv /\ [Next]_vars => OlderInv'
  BY OlderStep
<1>3. TypeOK /\ TypeOK' /\ OlderInv /\ [Next]_vars
        => [\A c \in Contacts \ overlapped' :
              /\ analysis'[c] >= analysis[c]
              /\ c \notin misread' => meta'[c] >= meta[c]]_vars
  BY OlderStep
<1>4. QED
  BY <1>1, <1>2, <1>3, TypeCorrect, PTL DEF Spec, NeverOlder

-----------------------------------------------------------------------------
(* The end of a backlog run *)

\* The awaits the backlog's task still has before it, and those of the whole run:
\* a conversation costs six steps, one to take it on and five inside analyze.
StagesLeft ==
  CASE task[Backlog].pc = "idle"   -> 0
    [] task[Backlog].pc = "store"  -> 1
    [] task[Backlog].pc = "ask"    -> 2
    [] task[Backlog].pc = "budget" -> 3
    [] task[Backlog].pc = "sync"   -> 4
    [] task[Backlog].pc = "fetch"  -> 5

RunLeft ==
  CASE backlog.pc = "off"      -> 0
    [] backlog.pc = "snapshot" -> 1
    [] backlog.pc = "loop"     -> 2 + 6 * Cardinality(backlog.todo) + StagesLeft
    [] backlog.pc = "select"   -> 3 + 6 * Limit

\* The guard is up exactly while a run is somewhere, and the backlog's task works
\* only inside the run's loop.
RunInv ==
  /\ backlog.running <=> backlog.pc # "off"
  /\ backlog.pc # "loop" => task[Backlog].pc = "idle"

\* What a step may do to a run: its own steps bring it closer to its end, and no
\* step but the start of a run takes it further away.
Advances ==
  /\ BacklogStep \/ TaskStep(Backlog) => RunLeft' < RunLeft
  /\ RunLeft' > RunLeft => StartBacklog

LEMMA StagesBound ==
  /\ TypeOK => StagesLeft \in 0..5
  /\ TypeOK' => StagesLeft' \in 0..5
<1>1. Backlog \in Tasks
  BY DEF Tasks
<1>2. QED
  BY <1>1 DEF TypeOK, Task, PCs, StagesLeft

LEMMA TodoCount ==
  /\ TypeOK => /\ IsFiniteSet(backlog.todo)
               /\ Cardinality(backlog.todo) \in 0..Limit
  /\ TypeOK' => Cardinality(backlog'.todo) \in 0..Limit
<1>1. ASSUME NEW S, S \subseteq Contacts, Cardinality(S) <= Limit
      PROVE  IsFiniteSet(S) /\ Cardinality(S) \in 0..Limit
  BY <1>1, ContactsAssumption, BoundsAssumption, FS_Subset, FS_CardinalityType
<1>2. QED
  BY <1>1 DEF TypeOK

LEMMA RunLeftType ==
  /\ TypeOK => RunLeft \in Nat /\ (RunLeft > 0 <=> backlog.pc # "off")
  /\ TypeOK' => RunLeft' \in Nat
<1>1. ASSUME TypeOK PROVE RunLeft \in Nat /\ (RunLeft > 0 <=> backlog.pc # "off")
  <2>1. /\ StagesLeft \in 0..5 /\ Cardinality(backlog.todo) \in 0..Limit /\ Limit \in Nat
        /\ backlog.pc \in {"off", "select", "loop", "snapshot"}
    BY <1>1, StagesBound, TodoCount, BoundsAssumption DEF TypeOK
  <2>2. QED
    BY <2>1 DEF RunLeft
<1>2. ASSUME TypeOK' PROVE RunLeft' \in Nat
  <2>1. /\ StagesLeft' \in 0..5 /\ Cardinality(backlog'.todo) \in 0..Limit /\ Limit \in Nat
        /\ backlog'.pc \in {"off", "select", "loop", "snapshot"}
    BY <1>2, StagesBound, TodoCount, BoundsAssumption DEF TypeOK
  <2>2. QED
    BY <2>1 DEF RunLeft
<1>3. QED
  BY <1>1, <1>2

\* Whoever leaves the run and its task alone leaves what is before it alone.
LEMMA RunAlone ==
  ASSUME backlog' = backlog, task'[Backlog] = task[Backlog]
  PROVE  RunLeft' = RunLeft /\ (RunInv => RunInv')
BY DEF RunLeft, StagesLeft, RunInv

\* A step of analyze inside the run: the next await, or the end of the conversation.
LEMMA RunTaskStep ==
  ASSUME TypeOK, TypeOK', RunInv, TaskStep(Backlog)
  PROVE  RunInv' /\ RunLeft' < RunLeft
<1>1. /\ Backlog \in Tasks /\ task[Backlog].pc \in PCs
      /\ task'[Backlog].pc \in PCs
      /\ Cardinality(backlog.todo) \in 0..Limit /\ Limit \in Nat
  BY TaskType, TodoCount, BoundsAssumption DEF Tasks, TypeOK, Task
<1>2. task[Backlog].pc # "idle" /\ backlog.pc = "loop" /\ backlog.running
  BY DEF TaskStep, Fetch, Sync, CheckBudget, Answered, Store, FetchFails, FetchRateLimited,
         Garbled, Unanswered, StatementFails, RunInv
<1>3. StagesLeft' < StagesLeft
  <2>1. Ends(Backlog) => task'[Backlog].pc = "idle"
    BY <1>1, EndsEffect, IdleType
  <2>2. ASSUME NEW pc \in PCs, Goes(Backlog, pc) PROVE task'[Backlog].pc = pc
    BY <1>1, <2>2, GoesEffect
  <2>3. \/ task'[Backlog].pc = "idle"
        \/ task[Backlog].pc = "fetch" /\ task'[Backlog].pc = "sync"
        \/ task[Backlog].pc = "sync" /\ task'[Backlog].pc = "budget"
        \/ task[Backlog].pc = "budget" /\ task'[Backlog].pc = "ask"
        \/ task[Backlog].pc = "ask" /\ task'[Backlog].pc = "store"
    <3>1. CASE Fetch(Backlog)
      BY <1>1, <2>1, <3>1, FetchEffect DEF Fetch
    <3>5. CASE FetchRateLimited(Backlog)
      BY <1>1, <2>1, <3>5, RateLimitedEffect DEF FetchRateLimited
    <3>2. CASE Sync(Backlog) \/ CheckBudget(Backlog) \/ Answered(Backlog)
      BY <2>1, <2>2, <3>2 DEF Sync, CheckBudget, Answered, PCs
    <3>3. CASE \/ Store(Backlog) \/ FetchFails(Backlog) \/ Garbled(Backlog)
               \/ Unanswered(Backlog) \/ StatementFails(Backlog)
      BY <2>1, <3>3 DEF Store, FetchFails, Garbled, Unanswered, StatementFails
    <3>4. QED
      BY <3>1, <3>2, <3>3, <3>5 DEF TaskStep
  <2>4. QED
    BY <1>1, <1>2, <2>3 DEF StagesLeft, PCs
<1>4. CASE backlog' = backlog
  <2>1. StagesLeft \in 0..5 /\ StagesLeft' \in 0..5
    BY StagesBound
  <2>2. QED
    BY <1>1, <1>2, <1>3, <1>4, <2>1 DEF RunLeft, RunInv
<1>5. CASE backlog' = [backlog EXCEPT !.pc = "snapshot", !.todo = {}] /\ Unanswered(Backlog)
  <2>1. task'[Backlog].pc = "idle"
    BY <1>1, <1>5, EndsEffect, IdleType DEF Unanswered
  <2>2. backlog'.pc = "snapshot" /\ backlog'.running
    BY <1>2, <1>5 DEF TypeOK
  <2>3. StagesLeft \in 0..5
    BY StagesBound
  <2>4. QED
    BY <1>1, <1>2, <2>1, <2>2, <2>3 DEF RunLeft, RunInv
<1>6. QED
  BY <1>4, <1>5
  DEF TaskStep, Fetch, Sync, CheckBudget, Answered, Store, FetchFails, FetchRateLimited,
      Garbled, Unanswered, StatementFails

\* A step of evaluateBacklog itself.
LEMMA RunOwnStep ==
  ASSUME TypeOK, TypeOK', RunInv, BacklogStep
  PROVE  RunInv' /\ RunLeft' < RunLeft
<1>1. /\ Cardinality(backlog.todo) \in 0..Limit /\ Cardinality(backlog'.todo) \in 0..Limit
      /\ Limit \in Nat
      /\ StagesLeft \in 0..5 /\ StagesLeft' \in 0..5
      /\ Backlog \in Tasks
  BY TodoCount, StagesBound, BoundsAssumption DEF Tasks
<1>2. CASE SelectPending
  <2>1. /\ backlog.pc = "select" /\ backlog'.pc = "loop" /\ backlog'.running = backlog.running
        /\ task' = task
    BY <1>2 DEF SelectPending, TypeOK
  <2>2. StagesLeft' = 0
    BY <2>1 DEF RunInv, StagesLeft
  <2>3. QED
    BY <1>1, <2>1, <2>2 DEF RunInv, RunLeft
<1>3. ASSUME NEW c \in Contacts, NextConversation(c) PROVE RunInv' /\ RunLeft' < RunLeft
  <2>1. /\ backlog.pc = "loop" /\ backlog'.pc = "loop" /\ backlog'.running = backlog.running
        /\ backlog'.todo = backlog.todo \ {c} /\ c \in backlog.todo
        /\ task[Backlog].pc = "idle"
    BY <1>3 DEF NextConversation, TypeOK
  <2>2. Cardinality(backlog'.todo) = Cardinality(backlog.todo) - 1
    BY <2>1, TodoCount, FS_RemoveElement
  <2>3. StagesLeft = 0
    BY <2>1 DEF StagesLeft
  <2>4. RunLeft = 2 + 6 * Cardinality(backlog.todo)
    BY <1>1, <2>1, <2>3 DEF RunLeft
  <2>5. RunLeft' = 2 + 6 * (Cardinality(backlog.todo) - 1) + StagesLeft'
    BY <2>1, <2>2 DEF RunLeft
  <2>6. QED
    BY <1>1, <2>1, <2>4, <2>5 DEF RunInv
<1>4. CASE LoopEnds
  <2>1. /\ backlog.pc = "loop" /\ backlog'.pc = "snapshot" /\ backlog'.running = backlog.running
        /\ task' = task /\ task[Backlog].pc = "idle"
    BY <1>4 DEF LoopEnds, TypeOK
  <2>2. QED
    BY <1>1, <2>1 DEF RunInv, RunLeft
<1>5. CASE EndBacklog \/ BacklogFails
  <2>1. backlog.pc \in {"select", "snapshot"} /\ backlog' = NoBacklog /\ task' = task
    BY <1>5 DEF EndBacklog, BacklogFails
  <2>2. QED
    BY <1>1, <2>1 DEF RunInv, RunLeft, NoBacklog
<1>6. QED
  BY <1>2, <1>3, <1>4, <1>5 DEF BacklogStep

LEMMA RunStep ==
  ASSUME TypeOK, TypeOK', RunInv, [Next]_vars
  PROVE  RunInv' /\ Advances
<1> USE DEF rows, money
<1>1. /\ RunLeft \in Nat /\ RunLeft' \in Nat /\ Backlog \in Tasks /\ Backlog \notin Workers
  BY RunLeftType, TasksAssumption DEF Tasks
<1>2. CASE BacklogStep \/ TaskStep(Backlog)
  BY <1>1, <1>2, RunOwnStep, RunTaskStep DEF Advances
<1>3. CASE /\ ~BacklogStep /\ ~TaskStep(Backlog)
           /\ RunInv' /\ (RunLeft' <= RunLeft \/ StartBacklog)
  BY <1>1, <1>3 DEF Advances
<1>4. ASSUME backlog' = backlog, task'[Backlog] = task[Backlog]
      PROVE  RunInv' /\ RunLeft' <= RunLeft
  BY <1>1, <1>4, RunAlone
<1>5. ASSUME ~BacklogStep, ~TaskStep(Backlog)
      PROVE  RunInv' /\ (RunLeft' <= RunLeft \/ StartBacklog)
  <2>1. ASSUME NEW c \in Contacts, NewMessage(c) PROVE RunInv' /\ RunLeft' <= RunLeft
    BY <1>4, <2>1 DEF NewMessage
  <2>2. ASSUME NEW t \in Workers, NEW c \in Contacts, Begin(t, c)
        PROVE  RunInv' /\ RunLeft' <= RunLeft
    <3>1. t \in Tasks /\ t # Backlog
      BY <1>1 DEF Tasks
    <3>2. task'[Backlog] = task[Backlog]
      BY <1>1, <2>2, <3>1, TakesOnEffect DEF Begin
    <3>3. QED
      BY <1>4, <2>2, <3>2 DEF Begin
  <2>3. ASSUME NEW t \in Tasks, TaskStep(t) PROVE RunInv' /\ RunLeft' <= RunLeft
    <3>1. t # Backlog
      BY <1>5, <2>3
    <3>2. task'[Backlog] = task[Backlog]
      BY <1>1, <2>3, <3>1, EndsEffect, GoesEffect, FetchEffect, RateLimitedEffect
      DEF TaskStep, Fetch, Sync, CheckBudget, Answered, Store, FetchFails, FetchRateLimited,
          Garbled, Unanswered, StatementFails, PCs
    <3>3. backlog' = backlog
      BY <2>3, <3>1
      DEF TaskStep, Fetch, Sync, CheckBudget, Answered, Store, FetchFails, FetchRateLimited,
          Garbled, Unanswered, StatementFails
    <3>4. QED
      BY <1>4, <3>2, <3>3
  <2>4. CASE LogLands \/ LogFails
    BY <1>4, <2>4 DEF LogLands, LogFails
  <2>5. CASE StartBacklog
    BY <2>5 DEF StartBacklog, RunInv
  <2>6. CASE Crash
    <3>1. backlog' = NoBacklog /\ task'[Backlog] = Idle
      BY <1>1, <2>6 DEF Crash
    <3>2. backlog'.running = FALSE /\ backlog'.pc = "off" /\ task'[Backlog].pc = "idle"
      BY <3>1, IdleType DEF NoBacklog
    <3>3. RunLeft' = 0
      BY <3>2 DEF RunLeft
    <3>4. QED
      BY <1>1, <3>2, <3>3 DEF RunInv
  <2>7. CASE UNCHANGED vars
    BY <1>4, <2>7 DEF vars
  <2>8. QED
    BY <1>5, <2>1, <2>2, <2>3, <2>4, <2>5, <2>6, <2>7 DEF Next
<1>6. QED
  BY <1>2, <1>3, <1>5

\* A run of the backlog is never left behind with its guard up: it has a natural
\* number of steps before it exactly while `running` is set, every step of the run or
\* of its task lowers that number, failures included, and nothing raises it but the
\* start of a run, which finds `running` down (evaluateBacklog.js:29-35, 76-81).
THEOREM BacklogRunsOut ==
  Spec => /\ [](RunLeft \in Nat /\ (backlog.running <=> RunLeft > 0))
          /\ [][Advances]_vars
<1>1. Init => RunInv
  BY IdleType DEF Init, RunInv, NoBacklog, Tasks
<1>2. TypeOK /\ TypeOK' /\ RunInv /\ [Next]_vars => RunInv'
  BY RunStep
<1>3. TypeOK /\ TypeOK' /\ RunInv /\ [Next]_vars => [Advances]_vars
  BY RunStep
<1>4. TypeOK /\ RunInv => RunLeft \in Nat /\ (backlog.running <=> RunLeft > 0)
  BY RunLeftType DEF RunInv
<1>5. QED
  BY <1>1, <1>2, <1>3, <1>4, TypeCorrect, PTL DEF Spec
=============================================================================
