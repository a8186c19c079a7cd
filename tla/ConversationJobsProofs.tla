----------------------- MODULE ConversationJobsProofs -----------------------
(***************************************************************************)
(* What holds of the background batches for any number of conversations,   *)
(* requests, workers and restarts.  The three safety results rest on one   *)
(* invariant each, all inductive over TypeOK.                              *)
(***************************************************************************)
EXTENDS ConversationJobs, FiniteSetTheorems, TLAPS

\* Every step, named once: the proofs by cases below follow it.
Finishing(p, id) == Processed(p, id) \/ Skipped(p, id)

LEMMA IdleTypes ==
  idleJob \in Job /\ NoPool \in Pool /\ NoRequest \in Request
BY SizesAssumption, FS_EmptySet DEF idleJob, Job, States, NoPool, Pool, NoRequest, Request

LEMMA PoolSets ==
  ASSUME TypeOK, NEW p \in Pools
  PROVE  /\ pool[p].todo \subseteq Ids /\ IsFiniteSet(pool[p].todo)
         /\ pool[p].busy \subseteq Ids /\ IsFiniteSet(pool[p].busy)
         /\ pool[p].open \in BOOLEAN
         /\ Cardinality(pool[p].todo) \in Nat
         /\ Cardinality(pool[p].busy) \in Nat
         /\ Cardinality(pool[p].busy) <= Concurrency
<1>1. /\ pool[p].todo \in SUBSET Ids /\ pool[p].busy \in SUBSET Ids
      /\ pool[p].open \in BOOLEAN /\ Cardinality(pool[p].busy) <= Concurrency
  BY DEF TypeOK, Pool
<1>2. IsFiniteSet(pool[p].todo) /\ IsFiniteSet(pool[p].busy)
  BY <1>1, IdsAssumption, FS_Subset
<1>3. QED
  BY <1>1, <1>2, FS_CardinalityType

LEMMA SaveType ==
  ASSUME TypeOK, NEW state \in States, Save(state)
  PROVE  saving' \in [Snapshot -> Nat] /\ saved' \in Snapshot
<1>1. \A s \in Snapshot : [s EXCEPT !.last = TRUE] \in Snapshot
  BY DEF Snapshot
<1>2. saved' \in Snapshot
  BY DEF TypeOK, Save, Snapshot
<1>3. saving \in [Snapshot -> Nat]
  BY DEF TypeOK
<1>4. \A s \in Snapshot :
        (IF s.last THEN (IF s.state = state THEN 1 ELSE 0)
                   ELSE saving[s] + saving[[s EXCEPT !.last = TRUE]]) \in Nat
  <2>1. \A s \in Snapshot :
          /\ saving[s] \in Nat /\ saving[[s EXCEPT !.last = TRUE]] \in Nat
          /\ s.last \in BOOLEAN
    BY <1>1, <1>3 DEF Snapshot
  <2>2. \A a, b \in Nat : a + b \in Nat
    OBVIOUS
  <2>3. QED
    BY <2>1, <2>2
<1>5. QED
  BY <1>2, <1>4 DEF Save

LEMMA CountType ==
  ASSUME TypeOK, NEW j \in Job, Count(j)
  PROVE  job' \in [0..MaxStarts -> Job] /\ saving' \in [Snapshot -> Nat] /\ saved' \in Snapshot
<1>1. cur \in 0..MaxStarts /\ j.state \in States
  BY SizesAssumption DEF TypeOK, Job
<1>2. job' \in [0..MaxStarts -> Job]
  BY <1>1 DEF TypeOK, Count
<1>3. CASE Save(j.state)
  BY <1>1, <1>2, <1>3, SaveType
<1>4. CASE NoSave
  BY <1>2, <1>4 DEF NoSave, saves, TypeOK
<1>5. QED
  BY <1>3, <1>4 DEF Count

LEMMA ReleaseType ==
  ASSUME TypeOK, NEW p \in Pools, NEW id \in Ids, id \in pool[p].busy, Release(p, id)
  PROVE  /\ pool' \in [Pools -> Pool]
         /\ pool'[p].open = pool[p].open
         /\ pool'[p].todo = pool[p].todo
         /\ pool'[p].busy = pool[p].busy \ {id}
         /\ Cardinality(pool'[p].busy) = Cardinality(pool[p].busy) - 1
         /\ \A q \in Pools \ {p} : pool'[q] = pool[q]
<1>1. /\ pool'[p] = [pool[p] EXCEPT !.busy = pool[p].busy \ {id}]
      /\ \A q \in Pools \ {p} : pool'[q] = pool[q]
      /\ DOMAIN pool' = Pools
  BY DEF Release, TypeOK
<1>2. /\ pool'[p].open = pool[p].open /\ pool'[p].todo = pool[p].todo
      /\ pool'[p].busy = pool[p].busy \ {id}
  BY <1>1 DEF TypeOK, Pool
<1>3. Cardinality(pool'[p].busy) = Cardinality(pool[p].busy) - 1
  BY <1>2, PoolSets, FS_RemoveElement
<1>4. Cardinality(pool[p].busy \ {id}) <= Concurrency
  BY <1>2, <1>3, PoolSets, SizesAssumption
<1>5. pool'[p] \in Pool
  BY <1>1, <1>4 DEF TypeOK, Pool
<1>6. QED
  BY <1>1, <1>2, <1>3, <1>5 DEF Release, TypeOK

LEMMA TakeType ==
  ASSUME TypeOK, NEW p \in Pools, NEW id \in Ids, Take(p, id)
  PROVE  /\ pool' \in [Pools -> Pool]
         /\ pool'[p].open = pool[p].open
         /\ pool'[p].todo = pool[p].todo \ {id}
         /\ pool'[p].busy = pool[p].busy \cup {id}
         /\ \A q \in Pools \ {p} : pool'[q] = pool[q]
<1>1. /\ pool'[p] = [pool[p] EXCEPT !.todo = pool[p].todo \ {id}, !.busy = pool[p].busy \cup {id}]
      /\ \A q \in Pools \ {p} : pool'[q] = pool[q]
      /\ DOMAIN pool' = Pools
  <2>1. pool' = [pool EXCEPT ![p] = [pool[p] EXCEPT !.todo = pool[p].todo \ {id},
                                                    !.busy = pool[p].busy \cup {id}]]
    BY DEF Take
  <2>2. QED
    BY <2>1 DEF TypeOK
<1>2. /\ pool'[p].open = pool[p].open /\ pool'[p].todo = pool[p].todo \ {id}
      /\ pool'[p].busy = pool[p].busy \cup {id}
  BY <1>1 DEF TypeOK, Pool
<1>3. Cardinality(pool[p].busy \cup {id}) <= Concurrency
  <2>1. /\ IsFiniteSet(pool[p].busy) /\ Cardinality(pool[p].busy) \in Nat
        /\ Cardinality(pool[p].busy) < Concurrency /\ Concurrency \in Nat
    BY PoolSets, SizesAssumption DEF Take
  <2>2. \/ Cardinality(pool[p].busy \cup {id}) = Cardinality(pool[p].busy)
        \/ Cardinality(pool[p].busy \cup {id}) = Cardinality(pool[p].busy) + 1
    BY <2>1, FS_AddElement
  <2>3. QED
    BY <2>1, <2>2
<1>4. pool'[p] \in Pool
  <2>1. pool[p] \in [open : BOOLEAN, todo : SUBSET Ids, busy : SUBSET Ids]
    BY DEF TypeOK, Pool
  <2>2. pool'[p] \in [open : BOOLEAN, todo : SUBSET Ids, busy : SUBSET Ids]
    BY <1>1, <2>1
  <2>3. QED
    BY <1>2, <1>3, <2>2 DEF Pool
<1>5. QED
  BY <1>1, <1>2, <1>4 DEF Take, TypeOK

\* What Begin, Close and Stop do to a job object.
LEMMA JobUpdates ==
  ASSUME TypeOK, NEW p \in 0..MaxStarts
  PROVE  /\ job[p] \in Job
         /\ [job[p] EXCEPT !.done = @ + 1] \in Job
         /\ [job[p] EXCEPT !.skipped = @ + 1] \in Job
         /\ [job[p] EXCEPT !.failed = @ + 1] \in Job
         /\ \A state \in States : [job[p] EXCEPT !.state = state] \in Job
<1>1. job[p] \in Job
  BY DEF TypeOK
<1>2. \A n \in Nat : n + 1 \in Nat
  OBVIOUS
<1>3. QED
  BY <1>1, <1>2 DEF Job

\* What the boot makes of the saved row: an object that is not running, or the idle
\* one as it was.
LEMMA RestartFacts ==
  ASSUME TypeOK, Restart
  PROVE  \/ UNCHANGED job
         \/ \E j \in Job : /\ job' = [job EXCEPT ![0] = j]
                          /\ j.state # "running"
<1>1. CASE job' = job
  BY <1>1
<1>2. ASSUME NEW j \in Restored(saved.state), job' = [job EXCEPT ![0] = j]
      PROVE  j \in Job /\ j.state # "running"
  <2>1. correctInterrupted(saved.state) \in States \ {"running"}
    BY DEF TypeOK, Snapshot, correctInterrupted, States
  <2>2. QED
    BY <2>1, SizesAssumption DEF Restored, Job
<1>3. QED
  BY <1>1, <1>2 DEF Restart

LEMMA TypeStep ==
  ASSUME TypeOK, [Next]_vars
  PROVE  TypeOK'
<1>0. cur \in 0..MaxStarts /\ starts \in Nat /\ MaxStarts \in Nat
  BY SizesAssumption DEF TypeOK
<1>1. ASSUME NEW r \in Requests, Ask(r) PROVE TypeOK'
  BY <1>1, IdleTypes DEF Ask, TypeOK, NoRequest, Request, saves, Pending
<1>2. ASSUME NEW r \in Requests, Select(r) PROVE TypeOK'
  <2>1. PICK S \in SUBSET Ids :
          request' = [request EXCEPT ![r] = [phase |-> "selected", ids |-> S]]
    BY <1>2, IdsAssumption DEF Select, Eligible
  <2>2. QED
    BY <1>2, <2>1 DEF Select, TypeOK, Request, saves, history
<1>3. ASSUME NEW r \in Requests, SelectFails(r) PROVE TypeOK'
  BY <1>3, IdleTypes DEF SelectFails, Fault, TypeOK, saves, history
<1>4. ASSUME NEW r \in Requests, Begin(r) PROVE TypeOK'
  <2> DEFINE p == starts + 1
  <2>1. p \in Pools /\ p \in 0..MaxStarts
    BY <1>0, <1>4 DEF Begin, Pools
  <2>2. request[r].ids \in SUBSET Ids
    BY DEF TypeOK, Request
  <2>3. Cardinality(request[r].ids) \in Nat
    BY <2>2, IdsAssumption, FS_Subset, FS_CardinalityType
  <2>4. [idleJob EXCEPT !.state = "running", !.total = Cardinality(request[r].ids)] \in Job
    BY <2>3 DEF idleJob, Job, States
  <2>5. [open |-> TRUE, todo |-> request[r].ids, busy |-> {}] \in Pool
    BY <2>2, FS_EmptySet, SizesAssumption DEF Pool
  <2>6. saving' \in [Snapshot -> Nat] /\ saved' \in Snapshot
    BY <1>4, SaveType DEF Begin, States
  <2>7. job' \in [0..MaxStarts -> Job]
    BY <1>4, <2>1, <2>4 DEF Begin, TypeOK
  <2>8. pool' \in [Pools -> Pool]
    BY <1>4, <2>1, <2>5 DEF Begin, TypeOK
  <2>9. request' \in [Requests -> Request]
    BY <1>4, IdleTypes DEF Begin, TypeOK
  <2>10. starts' \in 0..MaxStarts /\ cur' \in 0..starts'
    BY <1>0, <1>4, <2>1 DEF Begin
  <2>11. QED
    BY <1>4, <2>6, <2>7, <2>8, <2>9, <2>10 DEF Begin, TypeOK
<1>5. ASSUME NEW p \in Pools, NEW id \in Ids, Take(p, id) PROVE TypeOK'
  BY <1>5, TakeType DEF Take, TypeOK, saves, history
<1>6. ASSUME NEW p \in Pools, NEW id \in Ids, Processed(p, id) PROVE TypeOK'
  <2>1. /\ job' \in [0..MaxStarts -> Job]
        /\ saving' \in [Snapshot -> Nat] /\ saved' \in Snapshot
    BY <1>0, <1>6, JobUpdates, CountType DEF Processed
  <2>2. pool' \in [Pools -> Pool]
    BY <1>6, ReleaseType DEF Processed
  <2>3. analyses' \in [Ids -> Nat]
    BY <1>6 DEF Processed, TypeOK
  <2>4. QED
    BY <1>6, <2>1, <2>2, <2>3 DEF Processed, TypeOK, history
<1>7. ASSUME NEW p \in Pools, NEW id \in Ids, Skipped(p, id) PROVE TypeOK'
  <2>1. /\ job' \in [0..MaxStarts -> Job]
        /\ saving' \in [Snapshot -> Nat] /\ saved' \in Snapshot
    BY <1>0, <1>7, JobUpdates, CountType DEF Skipped
  <2>2. pool' \in [Pools -> Pool]
    BY <1>7, ReleaseType DEF Skipped
  <2>3. QED
    BY <1>7, <2>1, <2>2 DEF Skipped, TypeOK, history
<1>8. ASSUME NEW p \in Pools, NEW id \in Ids, Failed(p, id) PROVE TypeOK'
  <2>1. p \in 0..MaxStarts
    BY <1>0 DEF Pools
  <2>2. job' \in [0..MaxStarts -> Job]
    BY <1>8, <2>1, JobUpdates DEF Failed, TypeOK
  <2>3. pool' \in [Pools -> Pool]
    BY <1>8, ReleaseType DEF Failed
  <2>4. QED
    BY <1>8, <2>2, <2>3 DEF Failed, Fault, NoSave, saves, TypeOK, history
<1>9. ASSUME NEW p \in Pools, Close(p) PROVE TypeOK'
  <2>1. PICK state \in States : Save(state) /\ job' = [job EXCEPT ![cur].state = state]
    BY <1>9 DEF Close, States
  <2>2. job' \in [0..MaxStarts -> Job]
    BY <1>0, <2>1, JobUpdates DEF TypeOK
  <2>3. saving' \in [Snapshot -> Nat] /\ saved' \in Snapshot
    BY <2>1, SaveType
  <2>4. pool' \in [Pools -> Pool]
    BY <1>9, IdleTypes DEF Close, TypeOK
  <2>5. QED
    BY <1>9, <2>2, <2>3, <2>4 DEF Close, TypeOK, history
<1>10. CASE Stop
  <2>1. saving' \in [Snapshot -> Nat] /\ saved' \in Snapshot
    BY <1>10, SaveType DEF Stop, States
  <2>2. job' \in [0..MaxStarts -> Job]
    BY <1>0, <1>10, JobUpdates DEF Stop, States, TypeOK
  <2>3. QED
    BY <1>10, <2>1, <2>2 DEF Stop, TypeOK, history
<1>11. ASSUME NEW s \in Snapshot, SaveLands(s) PROVE TypeOK'
  BY <1>11 DEF SaveLands, TypeOK, history
<1>12. ASSUME NEW s \in Snapshot, SaveFails(s) PROVE TypeOK'
  BY <1>12 DEF SaveFails, Fault, TypeOK, history
<1>13. CASE Crash
  <2>1. /\ job' \in [0..MaxStarts -> Job] /\ pool' \in [Pools -> Pool]
        /\ request' \in [Requests -> Request] /\ saving' \in [Snapshot -> Nat]
    BY <1>13, IdleTypes DEF Crash
  <2>2. cur' \in 0..starts'
    BY <1>0, <1>13 DEF Crash
  <2>3. UNCHANGED <<starts, analyses, saved, overlapping, raced>> /\ up' \in BOOLEAN
    BY <1>13 DEF Crash
  <2>4. faults' \in Nat
    BY <1>13 DEF Crash, Fault, TypeOK
  <2>5. QED
    BY <2>1, <2>2, <2>3, <2>4 DEF TypeOK
<1>14. CASE Restart
  <2>1. job' \in [0..MaxStarts -> Job]
    BY <1>14, RestartFacts DEF TypeOK
  <2>2. faults' \in Nat
    BY <1>14 DEF Restart, Fault, TypeOK
  <2>3. QED
    BY <1>14, <2>1, <2>2 DEF Restart, TypeOK, saves, history
<1>15. CASE UNCHANGED vars
  BY <1>15 DEF vars, saves, history, TypeOK
<1>16. QED
  BY <1>1, <1>2, <1>3, <1>4, <1>5, <1>6, <1>7, <1>8, <1>9, <1>10, <1>11, <1>12,
     <1>13, <1>14, <1>15 DEF Next, Step, Failure

\* The state keeps its type; a pool never has more ids in hand than workers.
THEOREM TypeCorrect == Spec => []TypeOK
<1>1. Init => TypeOK
  <2>1. SUFFICES ASSUME Init PROVE TypeOK
    OBVIOUS
  <2>2. /\ job \in [0..MaxStarts -> Job] /\ pool \in [Pools -> Pool]
        /\ request \in [Requests -> Request]
    BY <2>1, IdleTypes DEF Init
  <2>3. saving \in [Snapshot -> Nat] /\ saved \in Snapshot
    BY <2>1 DEF Init, Snapshot, States
  <2>4. starts \in 0..MaxStarts /\ cur \in 0..starts
    BY <2>1, SizesAssumption DEF Init
  <2>5. QED
    BY <2>1, <2>2, <2>3, <2>4 DEF Init, TypeOK
<1>2. QED
  BY <1>1, TypeStep, PTL DEF Spec

-----------------------------------------------------------------------------
(* Stop reaches every pool. *)

\* Who is under way: at most one request, unless two raced; and while one is,
\* the job on display does not run, because only Begin sets one running.
RaceInv ==
  /\ StopReachesEveryPool
  /\ ~raced =>
       /\ \A r, q \in Requests :
            request[r].phase # "none" /\ request[q].phase # "none" => r = q
       /\ \A r \in Requests : request[r].phase # "none" => job[cur].state # "running"

\* The steps that start no pool, accept no request and set no job running.
LEMMA RaceInvQuiet ==
  ASSUME RaceInv, UNCHANGED <<raced, cur>>,
         \A p \in Pools : pool'[p].open => pool[p].open,
         \A p \in 0..MaxStarts : job'[p].state = "running" => job[p].state = "running",
         \A r \in Requests : request'[r].phase # "none" => request[r].phase # "none",
         TypeOK
  PROVE  RaceInv'
<1>1. cur \in 0..MaxStarts /\ Pools \subseteq 0..MaxStarts
  BY SizesAssumption DEF TypeOK, Pools
<1>2. QED
  BY <1>1 DEF RaceInv, StopReachesEveryPool

LEMMA CountKeepsState ==
  ASSUME TypeOK, NEW j \in Job, j.state = job[cur].state, Count(j)
  PROVE  \A p \in 0..MaxStarts : job'[p].state = job[p].state
<1>1. cur \in 0..MaxStarts
  BY SizesAssumption DEF TypeOK
<1>2. QED
  BY <1>1 DEF Count, TypeOK

LEMMA RaceInvStep ==
  ASSUME TypeOK, RaceInv, [Next]_vars
  PROVE  RaceInv'
<1>0. cur \in 0..MaxStarts /\ starts \in Nat /\ Pools \subseteq 0..MaxStarts
  BY SizesAssumption DEF TypeOK, Pools
<1>1. ASSUME NEW r \in Requests, Ask(r) PROVE RaceInv'
  <2>1. /\ job[cur].state # "running"
        /\ \A q \in Requests \ {r} : request'[q] = request[q]
        /\ raced' = (raced \/ Pending)
        /\ UNCHANGED <<job, cur, pool>>
    BY <1>1 DEF Ask, TypeOK
  <2>2. ~raced' => ~raced /\ \A q \in Requests : request[q].phase = "none"
    BY <2>1 DEF Pending, TypeOK
  <2>3. QED
    BY <2>1, <2>2 DEF RaceInv, StopReachesEveryPool
<1>2. ASSUME NEW r \in Requests, Select(r) \/ SelectFails(r) PROVE RaceInv'
  <2>1. \A q \in Requests : request'[q].phase # "none" => request[q].phase # "none"
    BY <1>2 DEF Select, SelectFails, TypeOK, NoRequest
  <2>2. UNCHANGED <<raced, cur, pool, job>>
    BY <1>2 DEF Select, SelectFails, history
  <2>3. QED
    BY <2>1, <2>2, RaceInvQuiet
<1>3. ASSUME NEW r \in Requests, Begin(r) PROVE RaceInv'
  <2> DEFINE p == starts + 1
  <2>1. p \in Pools /\ p \in 0..MaxStarts
    BY <1>0, <1>3, SizesAssumption DEF Begin, Pools
  <2>2. /\ cur' = p /\ raced' = raced
        /\ \A q \in Pools \ {p} : pool'[q] = pool[q] /\ job'[q] = job[q]
    BY <1>0, <1>3, <2>1 DEF Begin, TypeOK
  <2>3. \A q \in Requests : request'[q].phase # "none" => q # r /\ request'[q] = request[q]
    BY <1>3 DEF Begin, TypeOK, NoRequest
  <2>4. request[r].phase # "none"
    BY <1>3 DEF Begin
  <2>5. ~raced => \A q \in Pools \ {p} : ~(pool[q].open /\ job[q].state = "running")
    BY <1>0, <2>4 DEF RaceInv, StopReachesEveryPool
  <2>6. ~raced' => \A q \in Requests : request'[q].phase = "none"
    BY <2>2, <2>3, <2>4 DEF RaceInv
  <2> HIDE DEF p
  <2>7. StopReachesEveryPool'
    BY <2>2, <2>5 DEF StopReachesEveryPool
  <2>8. QED
    BY <2>6, <2>7 DEF RaceInv
<1>4. ASSUME NEW p \in Pools, NEW id \in Ids, Take(p, id) PROVE RaceInv'
  <2>1. UNCHANGED <<raced, cur, job, request>>
    BY <1>4 DEF Take, history
  <2>2. QED
    BY <1>4, <2>1, TakeType, RaceInvQuiet
<1>5. ASSUME NEW p \in Pools, NEW id \in Ids, Processed(p, id) \/ Skipped(p, id)
      PROVE  RaceInv'
  <2>1. PICK j \in Job : j.state = job[cur].state /\ Count(j)
    <3>1. /\ [job[cur] EXCEPT !.done = @ + 1].state = job[cur].state
          /\ [job[cur] EXCEPT !.skipped = @ + 1].state = job[cur].state
      BY <1>0, JobUpdates DEF Job
    <3>2. QED
      BY <1>0, <1>5, <3>1, JobUpdates DEF Processed, Skipped
  <2>2. id \in pool[p].busy /\ Release(p, id) /\ UNCHANGED <<raced, cur, request>>
    BY <1>5 DEF Processed, Skipped, history
  <2>3. QED
    BY <2>1, <2>2, ReleaseType, CountKeepsState, RaceInvQuiet
<1>6. ASSUME NEW p \in Pools, NEW id \in Ids, Failed(p, id) PROVE RaceInv'
  <2>1. \A q \in 0..MaxStarts : job'[q].state = job[q].state
    BY <1>0, <1>6, JobUpdates DEF Failed, TypeOK, Job
  <2>2. id \in pool[p].busy /\ Release(p, id) /\ UNCHANGED <<raced, cur, request>>
    BY <1>6 DEF Failed, history
  <2>3. QED
    BY <2>1, <2>2, ReleaseType, RaceInvQuiet
<1>7. ASSUME NEW p \in Pools, Close(p) PROVE RaceInv'
  <2>1. PICK state \in {"stopped", "done"} : job' = [job EXCEPT ![cur].state = state]
    BY <1>7 DEF Close
  <2>2. \A q \in 0..MaxStarts : job'[q].state = "running" => job[q].state = "running"
    BY <1>0, <2>1, JobUpdates DEF TypeOK, Job
  <2>3. /\ \A q \in Pools : pool'[q].open => pool[q].open
        /\ UNCHANGED <<raced, cur, request>>
    BY <1>7 DEF Close, TypeOK, NoPool, history
  <2>4. QED
    BY <2>2, <2>3, RaceInvQuiet
<1>8. CASE Stop
  <2>1. \A q \in 0..MaxStarts : job'[q].state = "running" => job[q].state = "running"
    BY <1>0, <1>8, JobUpdates DEF Stop, TypeOK, Job
  <2>2. UNCHANGED <<raced, cur, request, pool>>
    BY <1>8 DEF Stop, history
  <2>3. QED
    BY <2>1, <2>2, RaceInvQuiet
<1>9. ASSUME NEW s \in Snapshot, SaveLands(s) \/ SaveFails(s) PROVE RaceInv'
  <2>1. UNCHANGED <<raced, cur, request, pool, job>>
    BY <1>9 DEF SaveLands, SaveFails, history
  <2>2. QED
    BY <2>1, RaceInvQuiet
<1>10. CASE Crash
  <2>1. /\ \A p \in Pools : ~pool'[p].open
        /\ \A r \in Requests : request'[r].phase = "none"
    BY <1>10 DEF Crash, NoPool, NoRequest
  <2>2. QED
    BY <2>1 DEF RaceInv, StopReachesEveryPool
<1>11. CASE Restart
  <2>1. \/ UNCHANGED job
        \/ \E j \in Job : job' = [job EXCEPT ![0] = j] /\ j.state # "running"
    BY <1>11, RestartFacts
  <2>2. \A q \in 0..MaxStarts : job'[q].state = "running" => job[q].state = "running"
    BY <2>1 DEF TypeOK
  <2>3. UNCHANGED <<raced, cur, request, pool>>
    BY <1>11 DEF Restart, history
  <2>4. QED
    BY <2>2, <2>3, RaceInvQuiet
<1>12. CASE UNCHANGED vars
  BY <1>12 DEF vars, history, RaceInv, StopReachesEveryPool
<1>13. QED
  BY <1>1, <1>2, <1>3, <1>4, <1>5, <1>6, <1>7, <1>8, <1>9, <1>10, <1>11, <1>12
     DEF Next, Step, Failure

\* Unless two requests slipped through the 409 guard together, no pool runs out
\* of stop-jobs' reach, not even one that is started while another winds down.
THEOREM StopReaches == Spec => []StopReachesEveryPool
<1>1. Init => RaceInv
  BY DEF Init, RaceInv, StopReachesEveryPool, NoPool, NoRequest
<1>2. Spec => []RaceInv
  BY <1>1, RaceInvStep, TypeCorrect, PTL DEF Spec
<1>3. RaceInv => StopReachesEveryPool
  BY DEF RaceInv
<1>4. QED
  BY <1>2, <1>3, PTL

-----------------------------------------------------------------------------
(* The saved row. *)

\* The last save issued, landed or not, says what is on display.
SavedInv ==
  cur # 0 =>
    /\ saved.last => saved.state = job[cur].state
    /\ \A s \in Snapshot : s.last /\ saving[s] > 0 => s.state = job[cur].state

\* A step that saves the state it leaves on display.
LEMMA SaveRestores ==
  ASSUME TypeOK, NEW state \in States, Save(state), state = job'[cur'].state
  PROVE  SavedInv'
<1>1. saved'.last = FALSE
  BY DEF Save, TypeOK, Snapshot
<1>2. ASSUME NEW s \in Snapshot, s.last, saving'[s] > 0 PROVE s.state = state
  BY <1>2 DEF Save
<1>3. QED
  BY <1>1, <1>2 DEF SavedInv

\* A step that saves nothing and changes no state on display.
LEMMA NoSaveKeeps ==
  ASSUME SavedInv, NoSave, cur' # 0 => cur' = cur /\ job'[cur].state = job[cur].state
  PROVE  SavedInv'
BY DEF SavedInv, NoSave, saves

LEMMA SavedInvStep ==
  ASSUME TypeOK, SavedInv, [Next]_vars
  PROVE  SavedInv'
<1>0. cur \in 0..MaxStarts /\ Pools \subseteq 0..MaxStarts
  BY SizesAssumption DEF TypeOK, Pools
<1>1. CASE UNCHANGED <<cur, job, saves>>
  BY <1>1, NoSaveKeeps DEF NoSave
<1>2. ASSUME NEW r \in Requests, Ask(r) \/ Select(r) \/ SelectFails(r) PROVE SavedInv'
  BY <1>1, <1>2 DEF Ask, Select, SelectFails
<1>3. ASSUME NEW r \in Requests, Begin(r) PROVE SavedInv'
  <2>1. starts + 1 \in 0..MaxStarts
    BY <1>3, SizesAssumption DEF Begin, TypeOK
  <2>2. job'[cur'].state = "running"
    BY <1>3, <2>1 DEF Begin, TypeOK, idleJob
  <2>3. QED
    BY <1>3, <2>2, SaveRestores DEF Begin, States
<1>4. ASSUME NEW p \in Pools, NEW id \in Ids, Take(p, id) PROVE SavedInv'
  BY <1>1, <1>4 DEF Take
<1>5. ASSUME NEW p \in Pools, NEW id \in Ids, Processed(p, id) \/ Skipped(p, id)
      PROVE  SavedInv'
  <2>1. PICK j \in Job : j.state = job[cur].state /\ Count(j)
    <3>1. /\ [job[cur] EXCEPT !.done = @ + 1].state = job[cur].state
          /\ [job[cur] EXCEPT !.skipped = @ + 1].state = job[cur].state
      BY <1>0, JobUpdates DEF Job
    <3>2. QED
      BY <1>0, <1>5, <3>1, JobUpdates DEF Processed, Skipped
  <2>2. job'[cur].state = job[cur].state /\ cur' = cur
    BY <1>0, <1>5, <2>1, CountKeepsState DEF Processed, Skipped
  <2>3. CASE Save(j.state)
    BY <2>1, <2>2, <2>3, SaveRestores DEF Job
  <2>4. CASE NoSave
    BY <2>2, <2>4, NoSaveKeeps
  <2>5. QED
    BY <2>1, <2>3, <2>4 DEF Count
<1>6. ASSUME NEW p \in Pools, NEW id \in Ids, Failed(p, id) PROVE SavedInv'
  <2>1. job'[cur].state = job[cur].state
    BY <1>0, <1>6, JobUpdates DEF Failed, TypeOK, Job
  <2>2. QED
    BY <1>6, <2>1, NoSaveKeeps DEF Failed
<1>7. ASSUME NEW p \in Pools, Close(p) PROVE SavedInv'
  <2>1. PICK state \in States : Save(state) /\ job' = [job EXCEPT ![cur].state = state]
    BY <1>7 DEF Close, States
  <2>2. cur' = cur
    BY <1>7 DEF Close
  <2>3. job'[cur'].state = state
    BY <1>0, <2>1, <2>2, JobUpdates DEF TypeOK, Job
  <2>4. QED
    BY <2>1, <2>3, SaveRestores
<1>8. CASE Stop
  <2>1. job'[cur'].state = "stopped"
    BY <1>0, <1>8, JobUpdates DEF Stop, TypeOK, Job
  <2>2. QED
    BY <1>8, <2>1, SaveRestores DEF Stop, States
<1>9. ASSUME NEW s \in Snapshot, SaveLands(s) PROVE SavedInv'
  <2>1. /\ saving[s] > 0 /\ saved' = s /\ UNCHANGED <<cur, job>>
        /\ \A t \in Snapshot : saving'[t] > 0 => saving[t] > 0
    BY <1>9 DEF SaveLands, TypeOK
  <2>2. QED
    BY <2>1 DEF SavedInv
<1>10. ASSUME NEW s \in Snapshot, SaveFails(s) PROVE SavedInv'
  <2>1. /\ UNCHANGED <<cur, job, saved>>
        /\ \A t \in Snapshot : saving'[t] > 0 => saving[t] > 0
    BY <1>10 DEF SaveFails, TypeOK
  <2>2. QED
    BY <2>1 DEF SavedInv
<1>11. CASE Crash
  BY <1>11 DEF Crash, SavedInv
<1>12. CASE Restart
  <2>1. CASE cur = 0
    BY <1>12, <2>1 DEF Restart, SavedInv
  <2>2. CASE cur # 0
    <3>1. job'[cur].state = job[cur].state
      BY <1>0, <1>12, <2>2 DEF Restart, TypeOK
    <3>2. QED
      BY <1>12, <3>1, NoSaveKeeps DEF Restart, NoSave
  <2>3. QED
    BY <2>1, <2>2
<1>13. CASE UNCHANGED vars
  BY <1>1, <1>13 DEF vars
<1>14. QED
  BY <1>2, <1>3, <1>4, <1>5, <1>6, <1>7, <1>8, <1>9, <1>10, <1>11, <1>12, <1>13
     DEF Next, Step, Failure

\* No change of state goes unsaved: once the last save has landed, the row a
\* restart would read says what the operator sees.
THEOREM SavedCurrent == Spec => []SavedIsCurrent
<1>1. Init => SavedInv
  BY DEF Init, SavedInv
<1>2. Spec => []SavedInv
  BY <1>1, SavedInvStep, TypeCorrect, PTL DEF Spec
<1>3. SavedInv => SavedIsCurrent
  BY DEF SavedInv, SavedIsCurrent
<1>4. QED
  BY <1>2, <1>3, PTL

-----------------------------------------------------------------------------
(* The account of a batch that nothing overlapped. *)

OneThing ==
  /\ \A r, q \in Requests :
       request[r].phase # "none" /\ request[q].phase # "none" => r = q
  /\ \A p, q \in Pools : pool[p].open /\ pool[q].open => p = q
  /\ \A r \in Requests, p \in Pools : ~(request[r].phase # "none" /\ pool[p].open)

\* What a pool has handled, holds and has still to take add up to its list; an
\* open pool counts on its own object because that is the one on display.
PoolInv(p) ==
  /\ pool[p].open =>
       /\ p = cur
       /\ job[p].state \in {"running", "stopped"}
       /\ pool[p].todo \cap pool[p].busy = {}
       /\ Handled(job[p]) + Cardinality(pool[p].todo) + Cardinality(pool[p].busy)
            = job[p].total
  /\ ~pool[p].open =>
       /\ pool[p] = NoPool
       /\ job[p].state # "running"
       /\ Handled(job[p]) <= job[p].total
       /\ job[p].state = "done" => Handled(job[p]) = job[p].total

BatchInv ==
  ~overlapping => OneThing /\ job[0].state # "running" /\ \A p \in Pools : PoolInv(p)

\* The counters of a job are numbers.
LEMMA Counters ==
  ASSUME TypeOK, NEW p \in 0..MaxStarts
  PROVE  /\ job[p].done \in Nat /\ job[p].skipped \in Nat /\ job[p].failed \in Nat
         /\ job[p].total \in Nat /\ Handled(job[p]) \in Nat
<1>1. job[p] \in Job
  BY DEF TypeOK
<1>2. job[p].done \in Nat /\ job[p].skipped \in Nat /\ job[p].failed \in Nat /\ job[p].total \in Nat
  BY <1>1 DEF Job
<1>3. QED
  BY <1>2 DEF Handled

\* The steps of one pool.
LEMMA BatchInvPool ==
  ASSUME BatchInv, UNCHANGED <<request, overlapping, cur>>, NEW p \in Pools,
         \A q \in Pools \ {p} : pool'[q] = pool[q] /\ job'[q] = job[q],
         job'[0].state = job[0].state, pool'[p].open => pool[p].open,
         ~overlapping => PoolInv(p)'
  PROVE  BatchInv'
<1> SUFFICES ASSUME ~overlapping PROVE BatchInv'
  BY DEF BatchInv
<1>1. OneThing'
  BY DEF BatchInv, OneThing
<1>2. ASSUME NEW q \in Pools PROVE PoolInv(q)'
  <2>1. CASE q = p
    BY <2>1
  <2>2. CASE q # p
    <3>1. PoolInv(q) /\ pool'[q] = pool[q] /\ job'[q] = job[q]
      BY <2>2 DEF BatchInv
    <3>2. QED
      BY <3>1 DEF PoolInv
  <2>3. QED
    BY <2>1, <2>2
<1>3. QED
  BY <1>1, <1>2 DEF BatchInv

\* The steps that leave the pools and their jobs alone.
LEMMA BatchInvSame ==
  ASSUME BatchInv, UNCHANGED <<pool, cur, overlapping>>, job'[0].state # "running",
         \A p \in Pools : job'[p] = job[p],
         \A r \in Requests : request'[r].phase # "none" => request[r].phase # "none"
  PROVE  BatchInv'
<1> SUFFICES ASSUME ~overlapping PROVE BatchInv'
  BY DEF BatchInv
<1>1. OneThing'
  BY DEF BatchInv, OneThing
<1>2. \A p \in Pools : PoolInv(p)'
  BY DEF BatchInv, PoolInv
<1>3. QED
  BY <1>1, <1>2 DEF BatchInv

\* Who works: a pool with something in hand or to take is open, and counts on
\* its own object.
LEMMA WorkingPool ==
  ASSUME TypeOK, BatchInv, ~overlapping, NEW p \in Pools,
         pool[p].todo # {} \/ pool[p].busy # {} \/ pool[p].open
  PROVE  /\ pool[p].open /\ p = cur /\ p # 0 /\ p \in 0..MaxStarts
         /\ job[p].state \in {"running", "stopped"}
         /\ pool[p].todo \cap pool[p].busy = {}
         /\ Handled(job[p]) + Cardinality(pool[p].todo) + Cardinality(pool[p].busy)
              = job[p].total
         /\ \A r \in Requests : request[r].phase = "none"
         /\ \A q \in Pools \ {p} : pool[q] = NoPool
<1>1. p # 0 /\ p \in 0..MaxStarts
  BY SizesAssumption DEF Pools
<1>2. pool[p].open
  BY DEF BatchInv, PoolInv, NoPool
<1>3. QED
  BY <1>1, <1>2 DEF BatchInv, PoolInv, OneThing

\* One conversation leaves the workers' hands and is counted on job object p.
LEMMA HandledOne ==
  ASSUME TypeOK, BatchInv, ~overlapping, NEW p \in Pools, NEW id \in Ids,
         id \in pool[p].busy, Release(p, id), cur' = cur, NEW j,
         j \in {[job[p] EXCEPT !.done = @ + 1], [job[p] EXCEPT !.skipped = @ + 1],
                [job[p] EXCEPT !.failed = @ + 1]},
         job' = [job EXCEPT ![p] = j]
  PROVE  PoolInv(p)'
<1>1. /\ pool[p].open /\ p = cur /\ p \in 0..MaxStarts
      /\ job[p].state \in {"running", "stopped"}
      /\ pool[p].todo \cap pool[p].busy = {}
      /\ Handled(job[p]) + Cardinality(pool[p].todo) + Cardinality(pool[p].busy)
           = job[p].total
  BY WorkingPool
<1>2. /\ pool'[p].open /\ pool'[p].todo = pool[p].todo
      /\ pool'[p].busy = pool[p].busy \ {id}
      /\ Cardinality(pool'[p].busy) = Cardinality(pool[p].busy) - 1
  BY <1>1, ReleaseType
<1>3. job'[p] = j
  BY <1>1 DEF TypeOK
<1>4. job[p] \in Job
  BY <1>1 DEF TypeOK
<1>5. j.state = job[p].state /\ j.total = job[p].total /\ Handled(j) = Handled(job[p]) + 1
  BY <1>4 DEF Job, Handled
<1>6. /\ Cardinality(pool[p].todo) \in Nat /\ Cardinality(pool[p].busy) \in Nat
      /\ Handled(job[p]) \in Nat
  BY <1>1, PoolSets, Counters
<1>7. Handled(job'[p]) + Cardinality(pool'[p].todo) + Cardinality(pool'[p].busy)
        = job'[p].total
  BY <1>1, <1>2, <1>3, <1>5, <1>6
<1>8. QED
  BY <1>1, <1>2, <1>3, <1>5, <1>7 DEF PoolInv

LEMMA BatchInvStep ==
  ASSUME TypeOK, TypeOK', BatchInv, [Next]_vars
  PROVE  BatchInv'
<1>0. /\ cur \in 0..MaxStarts /\ starts \in Nat /\ MaxStarts \in Nat
      /\ Pools \subseteq 0..MaxStarts /\ 0 \notin Pools /\ 0 \in 0..MaxStarts
  BY SizesAssumption DEF TypeOK, Pools
<1>1. ASSUME NEW r \in Requests, Ask(r) PROVE BatchInv'
  <2> SUFFICES ASSUME ~overlapping' PROVE BatchInv'
    BY DEF BatchInv
  <2>1. /\ ~overlapping /\ ~Pending /\ \A p \in Pools : ~pool[p].open
        /\ \A q \in Requests \ {r} : request'[q] = request[q]
        /\ UNCHANGED <<pool, cur, job>>
    BY <1>1 DEF Ask, TypeOK
  <2>2. OneThing'
    BY <2>1 DEF OneThing, Pending
  <2>3. \A p \in Pools : PoolInv(p)'
    BY <2>1 DEF BatchInv, PoolInv
  <2>4. QED
    BY <2>1, <2>2, <2>3 DEF BatchInv
<1>2. ASSUME NEW r \in Requests, Select(r) \/ SelectFails(r) PROVE BatchInv'
  <2>1. \A q \in Requests : request'[q].phase # "none" => request[q].phase # "none"
    BY <1>2 DEF Select, SelectFails, TypeOK, NoRequest
  <2>2. UNCHANGED <<pool, cur, overlapping, job>>
    BY <1>2 DEF Select, SelectFails, history
  <2>3. CASE overlapping
    BY <2>2, <2>3 DEF BatchInv
  <2>4. CASE ~overlapping
    BY <2>1, <2>2, <2>4, BatchInvSame DEF BatchInv
  <2>5. QED
    BY <2>3, <2>4 DEF TypeOK
<1>3. ASSUME NEW r \in Requests, Begin(r) PROVE BatchInv'
  <2> SUFFICES ASSUME ~overlapping' PROVE BatchInv'
    BY DEF BatchInv
  <2>0. PICK p \in Pools : p = starts + 1
    BY <1>0, <1>3 DEF Begin, Pools
  <2>11. PICK ids : ids = request[r].ids
    OBVIOUS
  <2>1. p \in 0..MaxStarts /\ p # 0
    BY <1>0
  <2>2. /\ request[r].phase # "none" /\ cur' = p /\ ~overlapping
        /\ job'[p] = [idleJob EXCEPT !.state = "running", !.total = Cardinality(ids)]
        /\ pool'[p] = [open |-> TRUE, todo |-> ids, busy |-> {}]
        /\ \A q \in Pools \ {p} : pool'[q] = pool[q] /\ job'[q] = job[q]
        /\ job'[0] = job[0]
    BY <1>0, <1>3, <2>0, <2>1, <2>11 DEF Begin, TypeOK
  <2>3. \A q \in Pools : ~pool[q].open
    BY <2>2 DEF BatchInv, OneThing
  <2>4. \A q \in Requests : request'[q].phase = "none"
    BY <1>3, <2>2 DEF Begin, BatchInv, OneThing, TypeOK, NoRequest
  <2>5. ids \in SUBSET Ids
    BY <2>11 DEF TypeOK, Request
  <2>6. Cardinality(ids) \in Nat
    BY <2>5, IdsAssumption, FS_Subset, FS_CardinalityType
  <2>7. PoolInv(p)'
    <3>1. /\ job'[p].state = "running" /\ job'[p].total = Cardinality(ids)
          /\ job'[p].done = 0 /\ job'[p].skipped = 0 /\ job'[p].failed = 0
      BY <2>2 DEF idleJob
    <3>2. Handled(job'[p]) = 0
      BY <3>1 DEF Handled
    <3>3. pool'[p].open /\ pool'[p].todo = ids /\ pool'[p].busy = {}
      BY <2>2
    <3>4. QED
      BY <2>2, <2>6, <3>1, <3>2, <3>3, FS_EmptySet DEF PoolInv
  <2>8. \A q \in Pools \ {p} : PoolInv(q)'
    BY <2>2, <2>3 DEF BatchInv, PoolInv
  <2>9. OneThing'
    BY <2>2, <2>3, <2>4 DEF OneThing
  <2>10. QED
    BY <2>2, <2>7, <2>8, <2>9 DEF BatchInv
<1>4. ASSUME NEW p \in Pools, NEW id \in Ids, Take(p, id) PROVE BatchInv'
  <2>1. /\ UNCHANGED <<request, overlapping, cur, job>>
        /\ id \in pool[p].todo
    BY <1>4 DEF Take, history
  <2>2. /\ pool'[p].open = pool[p].open
        /\ pool'[p].todo = pool[p].todo \ {id}
        /\ pool'[p].busy = pool[p].busy \cup {id}
        /\ \A q \in Pools \ {p} : pool'[q] = pool[q]
    BY <1>4, TakeType
  <2>3. ASSUME ~overlapping PROVE PoolInv(p)'
    <3>1. /\ pool[p].open /\ p = cur /\ p \in 0..MaxStarts
          /\ job[p].state \in {"running", "stopped"}
          /\ pool[p].todo \cap pool[p].busy = {}
          /\ Handled(job[p]) + Cardinality(pool[p].todo) + Cardinality(pool[p].busy)
               = job[p].total
      BY <2>1, <2>3, WorkingPool
    <3>2. /\ Cardinality(pool'[p].todo) = Cardinality(pool[p].todo) - 1
          /\ Cardinality(pool'[p].busy) = Cardinality(pool[p].busy) + 1
      <4>1. IsFiniteSet(pool[p].todo) /\ IsFiniteSet(pool[p].busy)
        BY PoolSets
      <4>2. id \in pool[p].todo /\ id \notin pool[p].busy
        BY <2>1, <3>1
      <4>3. Cardinality(pool[p].todo \ {id}) = Cardinality(pool[p].todo) - 1
        BY <4>1, <4>2, FS_RemoveElement
      <4>4. Cardinality(pool[p].busy \cup {id}) = Cardinality(pool[p].busy) + 1
        BY <4>1, <4>2, FS_AddElement
      <4>5. QED
        BY <2>2, <4>3, <4>4
    <3>3. pool'[p].todo \cap pool'[p].busy = {}
      BY <2>2, <3>1
    <3>4. /\ Cardinality(pool[p].todo) \in Nat /\ Cardinality(pool[p].busy) \in Nat
          /\ Handled(job[p]) \in Nat
      BY <3>1, PoolSets, Counters
    <3>5. Handled(job[p]) + Cardinality(pool'[p].todo) + Cardinality(pool'[p].busy)
            = job[p].total
      BY <3>1, <3>2, <3>4
    <3>6. QED
      BY <2>1, <2>2, <3>1, <3>3, <3>5 DEF PoolInv
  <2>4. QED
    BY <2>1, <2>2, <2>3, BatchInvPool
<1>5. ASSUME NEW p \in Pools, NEW id \in Ids,
             Processed(p, id) \/ Skipped(p, id) \/ Failed(p, id)
      PROVE  BatchInv'
  <2>1. /\ id \in pool[p].busy /\ Release(p, id)
        /\ UNCHANGED <<request, overlapping, cur>>
    BY <1>5 DEF Processed, Skipped, Failed, history
  <2>2. /\ pool'[p].open = pool[p].open
        /\ \A q \in Pools \ {p} : pool'[q] = pool[q]
    BY <2>1, ReleaseType
  <2>3. CASE overlapping
    BY <2>1, <2>3 DEF BatchInv
  <2>4. CASE ~overlapping
    <3>1. p = cur /\ p # 0
      BY <2>1, <2>4, WorkingPool
    <3>2. PICK j \in {[job[p] EXCEPT !.done = @ + 1], [job[p] EXCEPT !.skipped = @ + 1],
                      [job[p] EXCEPT !.failed = @ + 1]} : job' = [job EXCEPT ![p] = j]
      BY <1>5, <3>1 DEF Processed, Skipped, Failed, Count
    <3>3. PoolInv(p)'
      BY <2>1, <2>4, <3>2, HandledOne
    <3>4. job'[0].state = job[0].state /\ \A q \in Pools \ {p} : job'[q] = job[q]
      BY <1>0, <3>1, <3>2 DEF TypeOK
    <3>5. QED
      BY <2>1, <2>2, <3>3, <3>4, BatchInvPool
  <2>5. QED
    BY <2>3, <2>4 DEF TypeOK
<1>6. ASSUME NEW p \in Pools, Close(p) PROVE BatchInv'
  <2>1. /\ UNCHANGED <<request, overlapping, cur>>
        /\ pool[p].open /\ pool[p].busy = {}
        /\ pool[p].todo = {} \/ job[p].state # "running"
    BY <1>6 DEF Close, Drained, history
  <2>2. /\ pool'[p] = NoPool
        /\ \A q \in Pools \ {p} : pool'[q] = pool[q]
    BY <1>6 DEF Close, TypeOK
  <2>3. CASE overlapping
    BY <2>1, <2>3 DEF BatchInv
  <2>4. CASE ~overlapping
    <3>1. /\ p = cur /\ p # 0 /\ p \in 0..MaxStarts
          /\ job[p].state \in {"running", "stopped"}
          /\ Handled(job[p]) + Cardinality(pool[p].todo) + Cardinality(pool[p].busy)
               = job[p].total
      BY <2>1, <2>4, WorkingPool
    <3>2. job' = [job EXCEPT ![p] = [job[p] EXCEPT
                     !.state = IF job[p].state # "stopped" THEN "done" ELSE "stopped"]]
      BY <1>6, <3>1 DEF Close
    <3>3. job[p] \in Job
      BY <3>1 DEF TypeOK
    <3>4. /\ job'[p].state = IF job[p].state # "stopped" THEN "done" ELSE "stopped"
          /\ job'[p].total = job[p].total /\ Handled(job'[p]) = Handled(job[p])
      BY <3>1, <3>2, <3>3 DEF TypeOK, Job, Handled
    <3>5. job'[0].state = job[0].state /\ \A q \in Pools \ {p} : job'[q] = job[q]
      BY <1>0, <3>1, <3>2 DEF TypeOK
    <3>6. /\ Cardinality(pool[p].todo) \in Nat /\ Cardinality(pool[p].busy) = 0
          /\ Handled(job[p]) \in Nat /\ job[p].total \in Nat
      BY <2>1, <3>1, PoolSets, Counters, FS_EmptySet
    <3>7. /\ Handled(job'[p]) <= job'[p].total
          /\ job'[p].state = "done" => Handled(job'[p]) = job'[p].total
      <4>1. Handled(job[p]) + Cardinality(pool[p].todo) = job[p].total
        BY <3>1, <3>6
      <4>2. job'[p].state = "done" => Cardinality(pool[p].todo) = 0
        BY <2>1, <3>1, <3>4, FS_EmptySet
      <4>3. QED
        BY <3>4, <3>6, <4>1, <4>2
    <3>8. PoolInv(p)'
      BY <2>2, <3>1, <3>4, <3>7 DEF PoolInv, NoPool
    <3>9. QED
      BY <2>1, <2>2, <3>5, <3>8, BatchInvPool
  <2>5. QED
    BY <2>3, <2>4 DEF TypeOK
<1>7. CASE Stop
  <2>1. /\ UNCHANGED <<request, overlapping, cur, pool>>
        /\ job[cur].state = "running"
        /\ job' = [job EXCEPT ![cur] = [job[cur] EXCEPT !.state = "stopped"]]
    BY <1>7 DEF Stop, history
  <2>2. CASE overlapping
    BY <2>1, <2>2 DEF BatchInv
  <2>3. CASE ~overlapping
    <3>1. cur \in Pools /\ pool[cur].open
      <4>1. cur # 0
        BY <2>1, <2>3 DEF BatchInv
      <4>2. cur \in Pools
        BY <1>0, <4>1 DEF Pools
      <4>3. QED
        BY <2>1, <2>3, <4>2 DEF BatchInv, PoolInv
    <3>2. job[cur] \in Job
      BY <1>0 DEF TypeOK
    <3>3. /\ job'[cur].state = "stopped" /\ job'[cur].total = job[cur].total
          /\ Handled(job'[cur]) = Handled(job[cur])
      BY <1>0, <2>1, <3>2 DEF TypeOK, Job, Handled
    <3>4. job'[0].state = job[0].state /\ \A q \in Pools \ {cur} : job'[q] = job[q]
      BY <1>0, <2>1, <3>1 DEF TypeOK
    <3>5. PICK p \in Pools : p = cur
      BY <3>1
    <3>6. PoolInv(p)
      BY <2>3 DEF BatchInv
    <3>7. PoolInv(p)'
      BY <2>1, <3>1, <3>3, <3>5, <3>6 DEF PoolInv
    <3>8. QED
      BY <2>1, <3>4, <3>5, <3>7, BatchInvPool
  <2>4. QED
    BY <2>2, <2>3 DEF TypeOK
<1>8. ASSUME NEW s \in Snapshot, SaveLands(s) \/ SaveFails(s) PROVE BatchInv'
  <2>1. UNCHANGED <<overlapping, cur, request, pool, job>>
    BY <1>8 DEF SaveLands, SaveFails, history
  <2>2. QED
    BY <2>1 DEF BatchInv, OneThing, PoolInv
<1>9. CASE Crash
  <2>1. /\ \A p \in Pools : pool'[p] = NoPool /\ job'[p] = idleJob
        /\ job'[0] = idleJob
        /\ \A r \in Requests : request'[r].phase = "none"
    BY <1>0, <1>9 DEF Crash, NoRequest
  <2>2. \A p \in Pools : PoolInv(p)'
    BY <2>1 DEF PoolInv, NoPool, idleJob, Handled
  <2>3. OneThing'
    BY <2>1 DEF OneThing, NoPool
  <2>4. QED
    BY <2>1, <2>2, <2>3 DEF BatchInv, idleJob
<1>10. CASE Restart
  <2>1. UNCHANGED <<request, overlapping, cur, pool>>
    BY <1>10 DEF Restart, history
  <2>2. \A p \in Pools : job'[p] = job[p]
    BY <1>0, <1>10 DEF Restart, TypeOK
  <2>3. CASE overlapping
    BY <2>1, <2>3 DEF BatchInv
  <2>4. CASE ~overlapping
    <3>1. \/ UNCHANGED job
          \/ \E j \in Job : job' = [job EXCEPT ![0] = j] /\ j.state # "running"
      BY <1>10, RestartFacts
    <3>2. job'[0].state # "running"
      <4>1. CASE UNCHANGED job
        BY <2>4, <4>1 DEF BatchInv
      <4>2. CASE ~UNCHANGED job
        BY <1>0, <3>1, <4>2 DEF TypeOK
      <4>3. QED
        BY <4>1, <4>2
    <3>3. QED
      BY <2>1, <2>2, <3>2, BatchInvSame
  <2>5. QED
    BY <2>3, <2>4 DEF TypeOK
<1>11. CASE UNCHANGED vars
  BY <1>11 DEF vars, history, BatchInv, OneThing, PoolInv
<1>12. QED
  BY <1>1, <1>2, <1>3, <1>4, <1>5, <1>6, <1>7, <1>8, <1>9, <1>10, <1>11
     DEF Next, Step, Failure

THEOREM BatchAccount == Spec => []BatchInv
<1>1. Init => BatchInv
  <2>1. SUFFICES ASSUME Init PROVE BatchInv
    OBVIOUS
  <2>2. /\ \A p \in Pools : pool[p] = NoPool /\ job[p] = idleJob
        /\ job[0] = idleJob
        /\ \A r \in Requests : request[r].phase = "none"
    BY <2>1, SizesAssumption DEF Init, NoRequest, Pools
  <2>3. \A p \in Pools : PoolInv(p)
    BY <2>2 DEF PoolInv, NoPool, idleJob, Handled
  <2>4. QED
    BY <2>2, <2>3 DEF BatchInv, OneThing, NoPool, idleJob
<1>2. QED
  BY <1>1, BatchInvStep, TypeCorrect, PTL DEF Spec

\* A batch that nothing overlapped is shown as done only when it has been
\* through its whole list, and never counts beyond it.
THEOREM DoneComplete == Spec => []DoneIsComplete
<1>1. ASSUME TypeOK, BatchInv PROVE DoneIsComplete
  <2>1. SUFFICES ASSUME ~overlapping, NEW p \in Pools
                 PROVE  /\ Handled(job[p]) <= job[p].total
                        /\ job[p].state = "done" => Handled(job[p]) = job[p].total
    BY DEF DoneIsComplete
  <2>2. PoolInv(p)
    BY <1>1, <2>1 DEF BatchInv
  <2>3. /\ Cardinality(pool[p].todo) \in Nat /\ Cardinality(pool[p].busy) \in Nat
        /\ pool[p].open \in BOOLEAN
    BY <1>1, PoolSets
  <2>4. Handled(job[p]) \in Nat /\ job[p].total \in Nat
    BY <1>1, Counters, SizesAssumption DEF Pools
  <2>5. QED
    BY <2>2, <2>3, <2>4 DEF PoolInv
<1>2. QED
  BY <1>1, BatchAccount, TypeCorrect, PTL

-----------------------------------------------------------------------------
(* A conversation is analysed once. *)

\* What a request selected or a pool still holds has no analysis yet.
FreshInv ==
  Kind = "conv:analyze" /\ OnlyUnanalyzed /\ ~overlapping =>
    /\ \A r \in Requests :
         request[r].phase = "selected" => \A id \in request[r].ids : analyses[id] = 0
    /\ \A p \in Pools, id \in Ids :
         id \in pool[p].todo \/ id \in pool[p].busy => analyses[id] = 0
    /\ \A id \in Ids : analyses[id] <= 1

\* The steps that analyse nothing, select nothing and give no pool more.
LEMMA FreshInvQuiet ==
  ASSUME FreshInv, UNCHANGED analyses, overlapping => overlapping',
         \A r \in Requests : request'[r].phase = "selected" => request'[r] = request[r],
         \A p \in Pools, id \in Ids :
           id \in pool'[p].todo \/ id \in pool'[p].busy
             => id \in pool[p].todo \/ id \in pool[p].busy
  PROVE  FreshInv'
BY DEF FreshInv

LEMMA FreshInvStep ==
  ASSUME TypeOK, TypeOK', BatchInv, FreshInv, [Next]_vars
  PROVE  FreshInv'
<1>1. ASSUME NEW r \in Requests, Ask(r) \/ SelectFails(r) PROVE FreshInv'
  <2>1. \A q \in Requests : request'[q].phase = "selected" => request'[q] = request[q]
    BY <1>1 DEF Ask, SelectFails, TypeOK, NoRequest
  <2>2. UNCHANGED <<analyses, pool>>
    BY <1>1 DEF Ask, SelectFails
  <2>4. ASSUME Ask(r) PROVE overlapping => overlapping'
    <3>1. overlapping' = (overlapping \/ Pending \/ \E p \in Pools : pool[p].open)
      BY <2>4 DEF Ask
    <3>2. QED
      BY <3>1
  <2>5. ASSUME SelectFails(r) PROVE overlapping => overlapping'
    BY <2>5 DEF SelectFails, history
  <2>3. QED
    BY <1>1, <2>1, <2>2, <2>4, <2>5, FreshInvQuiet
<1>2. ASSUME NEW r \in Requests, Select(r) PROVE FreshInv'
  <2>1. PICK S \in SUBSET Eligible :
          request' = [request EXCEPT ![r] = [phase |-> "selected", ids |-> S]]
    BY <1>2 DEF Select
  <2>2. UNCHANGED <<analyses, pool, overlapping>>
    BY <1>2 DEF Select, history
  <2>3. \A q \in Requests \ {r} : request'[q] = request[q]
    BY <2>1 DEF TypeOK
  <2>4. request'[r].ids = S
    BY <2>1 DEF TypeOK
  <2>5. Kind = "conv:analyze" /\ OnlyUnanalyzed => \A id \in S : analyses[id] = 0
    BY DEF Eligible
  <2>6. QED
    BY <2>2, <2>3, <2>4, <2>5 DEF FreshInv
<1>3. ASSUME NEW r \in Requests, Begin(r) PROVE FreshInv'
  <2>0. PICK p \in Pools : p = starts + 1
    BY <1>3, SizesAssumption DEF Begin, Pools, TypeOK
  <2>1. /\ request[r].phase = "selected" /\ UNCHANGED <<analyses, overlapping>>
        /\ pool'[p].todo = request[r].ids /\ pool'[p].busy = {}
        /\ \A q \in Pools \ {p} : pool'[q] = pool[q]
    BY <1>3, <2>0 DEF Begin, TypeOK
  <2>2. \A q \in Requests : request'[q].phase = "selected" => request'[q] = request[q]
    BY <1>3 DEF Begin, TypeOK, NoRequest
  <2>3. QED
    BY <2>1, <2>2 DEF FreshInv
<1>4. ASSUME NEW p \in Pools, NEW id \in Ids, Take(p, id) PROVE FreshInv'
  <2>1. UNCHANGED <<analyses, overlapping, request>> /\ id \in pool[p].todo
    BY <1>4 DEF Take, history
  <2>2. /\ pool'[p].todo = pool[p].todo \ {id} /\ pool'[p].busy = pool[p].busy \cup {id}
        /\ \A q \in Pools \ {p} : pool'[q] = pool[q]
    BY <1>4, TakeType
  <2>3. \A q \in Pools, x \in Ids :
          x \in pool'[q].todo \/ x \in pool'[q].busy => x \in pool[q].todo \/ x \in pool[q].busy
    BY <2>1, <2>2
  <2>4. QED
    BY <2>1, <2>3, FreshInvQuiet
<1>5. ASSUME NEW p \in Pools, NEW id \in Ids, Skipped(p, id) \/ Failed(p, id)
      PROVE  FreshInv'
  <2>1. /\ UNCHANGED <<analyses, overlapping, request>>
        /\ id \in pool[p].busy /\ Release(p, id)
    BY <1>5 DEF Skipped, Failed, history
  <2>2. /\ pool'[p].todo = pool[p].todo /\ pool'[p].busy = pool[p].busy \ {id}
        /\ \A q \in Pools \ {p} : pool'[q] = pool[q]
    BY <2>1, ReleaseType
  <2>3. QED
    BY <2>1, <2>2, FreshInvQuiet
<1>6. ASSUME NEW p \in Pools, NEW id \in Ids, Processed(p, id) PROVE FreshInv'
  <2>1. SUFFICES ASSUME Kind = "conv:analyze", OnlyUnanalyzed, ~overlapping'
                 PROVE  FreshInv'
    BY DEF FreshInv
  <2>2. /\ UNCHANGED <<overlapping, request>>
        /\ id \in pool[p].busy /\ Release(p, id)
        /\ analyses' = [analyses EXCEPT ![id] = @ + 1]
    BY <1>6 DEF Processed, history
  <2>3. /\ pool[p].todo \cap pool[p].busy = {}
        /\ \A r \in Requests : request[r].phase = "none"
        /\ \A q \in Pools \ {p} : pool[q] = NoPool
    BY <2>1, <2>2, WorkingPool
  <2>4. /\ pool'[p].todo = pool[p].todo /\ pool'[p].busy = pool[p].busy \ {id}
        /\ \A q \in Pools \ {p} : pool'[q] = pool[q]
    BY <2>2, ReleaseType
  <2>5. analyses[id] = 0
    BY <2>1, <2>2 DEF FreshInv
  <2>6. analyses'[id] = 1 /\ \A x \in Ids \ {id} : analyses'[x] = analyses[x]
    BY <2>2, <2>5 DEF TypeOK
  <2>7. ASSUME NEW q \in Pools, NEW x \in Ids, x \in pool'[q].todo \/ x \in pool'[q].busy
        PROVE  analyses'[x] = 0
    <3>1. q = p
      BY <2>3, <2>4, <2>7 DEF NoPool
    <3>2. x # id /\ (x \in pool[p].todo \/ x \in pool[p].busy)
      BY <2>2, <2>3, <2>4, <2>7, <3>1
    <3>3. QED
      BY <2>1, <2>2, <2>6, <3>2 DEF FreshInv
  <2>8. \A x \in Ids : analyses'[x] <= 1
    BY <2>1, <2>2, <2>6 DEF FreshInv
  <2>9. QED
    BY <2>2, <2>3, <2>7, <2>8 DEF FreshInv
<1>7. ASSUME NEW p \in Pools, Close(p) PROVE FreshInv'
  <2>1. /\ UNCHANGED <<analyses, overlapping, request>>
        /\ pool'[p] = NoPool /\ \A q \in Pools \ {p} : pool'[q] = pool[q]
    BY <1>7 DEF Close, TypeOK, history
  <2>2. QED
    BY <2>1, FreshInvQuiet DEF NoPool
<1>8. CASE Stop
  <2>1. UNCHANGED <<analyses, overlapping, request, pool>>
    BY <1>8 DEF Stop, history
  <2>2. QED
    BY <2>1, FreshInvQuiet
<1>9. ASSUME NEW s \in Snapshot, SaveLands(s) \/ SaveFails(s) PROVE FreshInv'
  <2>1. UNCHANGED <<analyses, overlapping, request, pool>>
    BY <1>9 DEF SaveLands, SaveFails, history
  <2>2. QED
    BY <2>1, FreshInvQuiet
<1>10. CASE Crash
  BY <1>10, FreshInvQuiet DEF Crash, NoPool, NoRequest
<1>11. CASE Restart
  <2>1. UNCHANGED <<analyses, overlapping, request, pool>>
    BY <1>11 DEF Restart, history
  <2>2. QED
    BY <2>1, FreshInvQuiet
<1>12. CASE UNCHANGED vars
  BY <1>12, FreshInvQuiet DEF vars, history
<1>13. QED
  BY <1>1, <1>2, <1>3, <1>4, <1>5, <1>6, <1>7, <1>8, <1>9, <1>10, <1>11, <1>12
     DEF Next, Step, Failure

\* With "only unanalyzed", and nothing overlapping, the AI reads and the
\* operator pays for a conversation once.
THEOREM AnalyzedAtMostOnce == Spec => []AnalyzedOnce
<1>1. Init => FreshInv
  BY DEF Init, FreshInv, NoRequest, NoPool
<1>2. Spec => []FreshInv
  BY <1>1, FreshInvStep, BatchAccount, TypeCorrect, PTL DEF Spec
<1>3. FreshInv => AnalyzedOnce
  BY DEF FreshInv, AnalyzedOnce
<1>4. QED
  BY <1>2, <1>3, PTL
-----------------------------------------------------------------------------
(* The panel: a batch refines JobPanel, its liveness aside. *)

\* Nothing outlives the process.
DownInv ==
  ~up => /\ \A r \in Requests : request[r].phase = "none"
         /\ \A p \in Pools : pool[p] = NoPool
         /\ cur = 0 /\ job[0] = idleJob

LEMMA DownInvStep ==
  ASSUME DownInv, [Next]_vars
  PROVE  DownInv'
<1>1. CASE up /\ up'
  BY <1>1 DEF DownInv
<1>2. CASE Crash
  BY <1>2, SizesAssumption DEF Crash, DownInv, NoRequest
<1>3. CASE Restart
  BY <1>3 DEF Restart, DownInv
<1>4. CASE ~up /\ ~Restart
  <2>1. /\ \A r \in Requests : request[r].phase = "none"
        /\ \A p \in Pools : ~pool[p].open /\ pool[p].busy = {} /\ pool[p].todo = {}
    BY <1>4 DEF DownInv, NoPool
  <2>2. /\ \A r \in Requests : ~Ask(r) /\ ~Select(r) /\ ~SelectFails(r) /\ ~Begin(r)
        /\ ~Stop /\ ~Crash
    BY <1>4, <2>1 DEF Ask, Select, SelectFails, Begin, Stop, Crash
  <2>3. /\ \A p \in Pools, id \in Ids :
             ~Take(p, id) /\ ~Processed(p, id) /\ ~Skipped(p, id) /\ ~Failed(p, id)
        /\ \A p \in Pools : ~Close(p)
    BY <2>1 DEF Take, Processed, Skipped, Failed, Close, Drained
  <2>4. UNCHANGED <<up, request, pool, cur, job>>
    BY <1>4, <2>2, <2>3 DEF Next, Step, Failure, SaveLands, SaveFails, vars
  <2>5. QED
    BY <2>4 DEF DownInv
<1>5. CASE up /\ ~up' /\ ~Crash
  BY <1>5 DEF Next, Step, Failure, Ask, Select, SelectFails, Begin, Take, Processed, Skipped,
              Failed, Close, Stop, SaveLands, SaveFails, Restart, vars
<1>6. QED
  BY <1>1, <1>2, <1>3, <1>4, <1>5

\* A step that leaves the job on display alone is a stutter of the panel.
LEMMA PanelStutters ==
  ASSUME UNCHANGED <<up, cur>>, job'[cur] = job[cur]
  PROVE  UNCHANGED Panel!vars
BY DEF Panel!vars, Handled

\* One more conversation of the job on display.
LEMMA PanelCounts ==
  ASSUME TypeOK, UNCHANGED <<up, cur>>, up,
         \/ job'[cur] = [job[cur] EXCEPT !.done = @ + 1]
         \/ job'[cur] = [job[cur] EXCEPT !.skipped = @ + 1]
         \/ job'[cur] = [job[cur] EXCEPT !.failed = @ + 1]
  PROVE  Panel!Count
<1>1. cur \in 0..MaxStarts /\ job[cur] \in Job
  BY SizesAssumption DEF TypeOK
<1>2. job[cur].done \in Nat /\ job[cur].skipped \in Nat /\ job[cur].failed \in Nat
  BY <1>1 DEF Job
<1>3. Handled(job'[cur]) = Handled(job[cur]) + 1 /\ job'[cur].state = job[cur].state
      /\ job'[cur].total = job[cur].total
  BY <1>1, <1>2 DEF Handled, Job
<1>4. job[cur].state # "down"
  BY <1>1 DEF Job, States
<1>5. QED
  BY <1>3, <1>4 DEF Panel!Count, Handled

LEMMA PanelStep ==
  ASSUME TypeOK, DownInv, [Next]_vars
  PROVE  [Panel!Next]_(Panel!vars)
<1>0. /\ cur \in 0..MaxStarts /\ Pools \subseteq 0..MaxStarts /\ job[cur] \in Job
      /\ job[cur].state \in States /\ job[cur].state # "down"
      /\ job \in [0..MaxStarts -> Job]
  BY SizesAssumption DEF TypeOK, Pools, Job, States
<1>1. ASSUME NEW r \in Requests, Ask(r) \/ Select(r) \/ SelectFails(r) PROVE UNCHANGED Panel!vars
  BY <1>1, PanelStutters DEF Ask, Select, SelectFails
<1>2. ASSUME NEW r \in Requests, Begin(r) PROVE Panel!Start
  <2>1. up /\ up'
    BY <1>2 DEF Begin, DownInv
  <2>2. request[r].ids \subseteq Ids /\ starts \in Nat
    BY DEF TypeOK, Request
  <2>3. Cardinality(request[r].ids) \in Nat
    BY <2>2, IdsAssumption, FS_Subset, FS_CardinalityType
  <2>4. starts + 1 \in 0..MaxStarts
    BY <1>2, <2>2, SizesAssumption DEF Begin
  <2>5. cur' = starts + 1
        /\ job'[cur'] = [idleJob EXCEPT !.state = "running", !.total = Cardinality(request[r].ids)]
    BY <1>0, <1>2, <2>4 DEF Begin
  <2>6. job'[cur'].state = "running" /\ job'[cur'].total = Cardinality(request[r].ids)
        /\ Handled(job'[cur']) = 0
    BY <2>5 DEF idleJob, Handled
  <2>7. QED
    BY <1>0, <2>1, <2>3, <2>6 DEF Panel!Start, Handled
<1>3. ASSUME NEW p \in Pools, NEW id \in Ids, Take(p, id) PROVE UNCHANGED Panel!vars
  BY <1>3, PanelStutters DEF Take
<1>4. ASSUME NEW p \in Pools, NEW id \in Ids, Processed(p, id) \/ Skipped(p, id) PROVE Panel!Count
  <2>1. up /\ UNCHANGED <<up, cur>>
    BY <1>4 DEF Processed, Skipped, DownInv, NoPool
  <2>2. \/ job'[cur] = [job[cur] EXCEPT !.done = @ + 1]
        \/ job'[cur] = [job[cur] EXCEPT !.skipped = @ + 1]
    BY <1>0, <1>4 DEF Processed, Skipped, Count
  <2>3. QED
    BY <2>1, <2>2, PanelCounts
<1>5. ASSUME NEW p \in Pools, NEW id \in Ids, Failed(p, id)
      PROVE  Panel!Count \/ UNCHANGED Panel!vars
  <2>1. up /\ UNCHANGED <<up, cur>>
    BY <1>5 DEF Failed, DownInv, NoPool
  <2>2. CASE p = cur
    <3>1. job'[cur] = [job[cur] EXCEPT !.failed = @ + 1]
      BY <1>0, <1>5, <2>2 DEF Failed
    <3>2. QED
      BY <2>1, <3>1, PanelCounts
  <2>3. CASE p # cur
    <3>1. job'[cur] = job[cur]
      BY <1>0, <1>5, <2>3 DEF Failed
    <3>2. QED
      BY <2>1, <3>1, PanelStutters
  <2>4. QED
    BY <2>2, <2>3
<1>6. ASSUME NEW p \in Pools, Close(p) PROVE Panel!Finish \/ UNCHANGED Panel!vars
  <2>1. up /\ UNCHANGED <<up, cur>>
    BY <1>6 DEF Close, Drained, DownInv, NoPool
  <2>2. CASE job[cur].state = "stopped"
    <3>1. job'[cur] = job[cur]
      BY <1>0, <1>6, <2>2 DEF Close, Job
    <3>2. QED
      BY <2>1, <3>1, PanelStutters
  <2>3. CASE job[cur].state # "stopped"
    <3>1. job'[cur] = [job[cur] EXCEPT !.state = "done"]
      BY <1>0, <1>6, <2>3 DEF Close
    <3>2. job'[cur].state = "done" /\ job'[cur].total = job[cur].total
          /\ Handled(job'[cur]) = Handled(job[cur])
      BY <1>0, <3>1 DEF Job, Handled
    <3>3. QED
      BY <1>0, <2>1, <2>3, <3>2 DEF Panel!Finish, Handled
  <2>4. QED
    BY <2>2, <2>3
<1>7. CASE Stop
  <2>1. job'[cur] = [job[cur] EXCEPT !.state = "stopped"] /\ up /\ UNCHANGED <<up, cur>>
    BY <1>0, <1>7 DEF Stop
  <2>2. job'[cur].state = "stopped" /\ job'[cur].total = job[cur].total
        /\ Handled(job'[cur]) = Handled(job[cur])
    BY <1>0, <2>1 DEF Job, Handled
  <2>3. job[cur].state = "running"
    BY <1>7 DEF Stop
  <2>4. Panel!Stop
    BY <2>1, <2>2, <2>3 DEF Panel!Stop, Handled
  <2>5. QED
    BY <2>4 DEF Panel!Next
<1>8. ASSUME NEW s \in Snapshot, SaveLands(s) \/ SaveFails(s) PROVE UNCHANGED Panel!vars
  BY <1>8, PanelStutters DEF SaveLands, SaveFails
<1>9. CASE Crash
  <2>1. up /\ ~up' /\ cur' = 0 /\ job'[0] = idleJob
    BY <1>9, SizesAssumption DEF Crash
  <2>2. job'[cur'].total = 0 /\ Handled(job'[cur']) = 0
    BY <2>1 DEF idleJob, Handled
  <2>3. Panel!Die
    BY <1>0, <2>1, <2>2 DEF Panel!Die, Handled
  <2>4. QED
    BY <2>3 DEF Panel!Next
<1>10. CASE Restart
  <2>1. ~up /\ up' /\ cur = 0 /\ cur' = 0 /\ job[0] = idleJob /\ 0 \in 0..MaxStarts
    BY <1>0, <1>10 DEF Restart, DownInv
  <2>2. \/ UNCHANGED job
        \/ \E j \in Job : job' = [job EXCEPT ![0] = j] /\ j.state # "running"
    BY <1>10, RestartFacts
  <2>3. job'[0] \in Job /\ job'[0].state # "running"
    <3>1. CASE UNCHANGED job
      BY <2>1, <3>1, IdleTypes DEF idleJob
    <3>2. CASE ~UNCHANGED job
      BY <2>1, <2>2, <3>2 DEF TypeOK
    <3>3. QED
      BY <3>1, <3>2
  <2>4. /\ job'[0].state \in {"idle", "stopped", "done", "error"}
        /\ job'[0].total \in Nat /\ Handled(job'[0]) \in Nat
    BY <2>3 DEF States, Job, Handled
  <2>5. Panel!Restart
    BY <2>1, <2>4 DEF Panel!Restart, Handled
  <2>6. QED
    BY <2>5 DEF Panel!Next
<1>11. CASE UNCHANGED vars
  <2>1. UNCHANGED Panel!vars
    BY <1>11 DEF vars, Panel!vars, Handled
  <2>2. QED
    BY <2>1
<1>12. QED
  BY <1>1, <1>2, <1>3, <1>4, <1>5, <1>6, <1>7, <1>8, <1>9, <1>10, <1>11
     DEF Next, Step, Failure, Panel!Next

\* Whatever the requests, the pools and the saves do, the display moves as JobPanel
\* says: it counts up, a stop sticks, a restart never says "running".
THEOREM RefinesJobPanel == Spec => Panel!Spec
<1>1. Init => Panel!Init /\ DownInv
  BY SizesAssumption DEF Init, Panel!Init, DownInv, idleJob, Handled
<1>2. Spec => []DownInv
  BY <1>1, DownInvStep, PTL DEF Spec
<1>3. QED
  BY <1>1, <1>2, PanelStep, TypeCorrect, PTL DEF Spec, Panel!Spec

-----------------------------------------------------------------------------
(* The end of a batch *)

\* The steps a pool still has before it: each conversation is taken and handed back,
\* and the pool is closed.
PoolLeft(p) ==
  IF pool[p].open THEN 1 + 2 * Cardinality(pool[p].todo) + Cardinality(pool[p].busy) ELSE 0

\* A closed pool has nothing left, and a batch on display as running has its pool.
EndInv ==
  /\ \A p \in Pools : ~pool[p].open => pool[p] = NoPool
  /\ job[cur].state = "running" => cur \in Pools /\ pool[cur].open

PoolStep(p) ==
  \/ \E id \in Ids : Take(p, id) \/ Finishing(p, id) \/ Failed(p, id)
  \/ Close(p)

\* What an open pool can do: hand back a conversation, close, or take the next one.
PoolCanGo(p) ==
  \/ pool[p].busy # {}
  \/ Drained(p)
  \/ /\ job[p].state = "running" /\ pool[p].todo # {}
     /\ Cardinality(pool[p].busy) < Concurrency

PoolRunsOut(p) ==
  /\ PoolStep(p) => PoolLeft(p)' < PoolLeft(p)
  /\ PoolLeft(p)' > PoolLeft(p) => \E r \in Requests : Begin(r)

LEMMA PoolLeftType ==
  ASSUME NEW p \in Pools
  PROVE  /\ TypeOK => PoolLeft(p) \in Nat /\ (PoolLeft(p) > 0 <=> pool[p].open)
         /\ TypeOK' => PoolLeft(p)' \in Nat
<1>1. ASSUME NEW S, S \subseteq Ids PROVE Cardinality(S) \in Nat
  BY <1>1, IdsAssumption, FS_Subset, FS_CardinalityType
<1>2. /\ TypeOK => pool[p].todo \subseteq Ids /\ pool[p].busy \subseteq Ids
      /\ TypeOK' => pool'[p].todo \subseteq Ids /\ pool'[p].busy \subseteq Ids
  BY DEF TypeOK, Pool
<1>3. /\ TypeOK => Cardinality(pool[p].todo) \in Nat /\ Cardinality(pool[p].busy) \in Nat
      /\ TypeOK' => Cardinality(pool'[p].todo) \in Nat /\ Cardinality(pool'[p].busy) \in Nat
  BY <1>1, <1>2
<1>4. QED
  BY <1>3 DEF PoolLeft

\* The states of the jobs when one conversation is handed back.
LEMMA FinishingKeepsStates ==
  ASSUME TypeOK, NEW p \in Pools, NEW id \in Ids, Finishing(p, id) \/ Failed(p, id)
  PROVE  /\ \A q \in 0..MaxStarts : job'[q].state = job[q].state
         /\ Release(p, id) /\ id \in pool[p].busy /\ cur' = cur
<1>1. cur \in 0..MaxStarts /\ p \in 0..MaxStarts
  BY SizesAssumption DEF TypeOK, Pools
<1>2. CASE Failed(p, id)
  <2>1. job' = [job EXCEPT ![p] = [job[p] EXCEPT !.failed = @ + 1]]
    BY <1>2 DEF Failed
  <2>2. job[p] \in Job
    BY <1>1 DEF TypeOK
  <2>3. QED
    BY <1>1, <1>2, <2>1, <2>2 DEF Failed, TypeOK, Job
<1>3. CASE Finishing(p, id)
  <2>1. PICK j \in {[job[cur] EXCEPT !.done = @ + 1], [job[cur] EXCEPT !.skipped = @ + 1]} :
          Count(j)
    BY <1>3 DEF Finishing, Processed, Skipped
  <2>2. j \in Job /\ j.state = job[cur].state
    BY <1>1, <2>1, JobUpdates DEF Job
  <2>3. QED
    BY <1>3, <2>1, <2>2, CountKeepsState DEF Finishing, Processed, Skipped
<1>4. QED
  BY <1>2, <1>3

LEMMA EndInvStep ==
  ASSUME TypeOK, TypeOK', EndInv, [Next]_vars
  PROVE  EndInv'
<1>0. /\ cur \in 0..MaxStarts /\ starts \in Nat /\ MaxStarts \in Nat
      /\ Pools \subseteq 0..MaxStarts /\ 0 \notin Pools
  BY SizesAssumption DEF TypeOK, Pools
<1>1. ASSUME UNCHANGED <<pool, cur, job>> PROVE EndInv'
  BY <1>1 DEF EndInv
<1>2. ASSUME NEW r \in Requests, Ask(r) \/ Select(r) \/ SelectFails(r) PROVE EndInv'
  BY <1>1, <1>2 DEF Ask, Select, SelectFails
<1>3. ASSUME NEW r \in Requests, Begin(r) PROVE EndInv'
  <2> DEFINE p == starts + 1
  <2>1. /\ p \in Pools /\ cur' = p
        /\ pool' = [pool EXCEPT ![p] = [open |-> TRUE, todo |-> request[r].ids, busy |-> {}]]
    BY <1>0, <1>3 DEF Begin, Pools
  <2>2. pool'[p].open /\ \A q \in Pools \ {p} : pool'[q] = pool[q]
    BY <2>1 DEF TypeOK
  <2>3. QED
    BY <2>1, <2>2 DEF EndInv
<1>4. ASSUME NEW p \in Pools, NEW id \in Ids, Take(p, id) PROVE EndInv'
  <2>1. /\ pool'[p].open = pool[p].open /\ id \in pool[p].todo
        /\ \A q \in Pools \ {p} : pool'[q] = pool[q]
        /\ UNCHANGED <<job, cur>>
    BY <1>4, TakeType DEF Take
  <2>2. pool[p].open
    BY <2>1 DEF EndInv, NoPool
  <2>3. QED
    BY <2>1, <2>2 DEF EndInv
<1>5. ASSUME NEW p \in Pools, NEW id \in Ids, Finishing(p, id) \/ Failed(p, id) PROVE EndInv'
  <2>1. /\ \A q \in 0..MaxStarts : job'[q].state = job[q].state
        /\ Release(p, id) /\ id \in pool[p].busy /\ cur' = cur
    BY <1>5, FinishingKeepsStates
  <2>2. /\ pool'[p].open = pool[p].open
        /\ \A q \in Pools \ {p} : pool'[q] = pool[q]
    BY <2>1, ReleaseType
  <2>3. pool[p].open
    BY <2>1 DEF EndInv, NoPool
  <2>4. QED
    BY <1>0, <2>1, <2>2, <2>3 DEF EndInv
<1>6. ASSUME NEW p \in Pools, Close(p) PROVE EndInv'
  <2>1. /\ pool'[p] = NoPool /\ \A q \in Pools \ {p} : pool'[q] = pool[q]
        /\ cur' = cur
    BY <1>6 DEF Close, TypeOK
  <2>2. PICK state \in {"done", "stopped"} : job' = [job EXCEPT ![cur].state = state]
    BY <1>6 DEF Close
  <2>3. job'[cur].state # "running"
    BY <1>0, <2>2 DEF TypeOK, Job
  <2>4. QED
    BY <2>1, <2>3 DEF EndInv
<1>7. CASE Stop
  <2>1. UNCHANGED <<pool, cur>> /\ job'[cur].state = "stopped"
    BY <1>0, <1>7 DEF Stop, TypeOK, Job
  <2>2. QED
    BY <2>1 DEF EndInv
<1>8. ASSUME NEW s \in Snapshot, SaveLands(s) \/ SaveFails(s) PROVE EndInv'
  BY <1>1, <1>8 DEF SaveLands, SaveFails
<1>9. CASE Crash
  <2>1. cur' = 0 /\ job'[0].state = "idle" /\ \A p \in Pools : pool'[p] = NoPool
    BY <1>0, <1>9 DEF Crash, idleJob
  <2>2. QED
    BY <2>1 DEF EndInv
<1>10. CASE Restart
  <2>1. UNCHANGED <<pool, cur>>
    BY <1>10 DEF Restart
  <2>2. CASE UNCHANGED job
    BY <1>1, <2>1, <2>2
  <2>3. ASSUME NEW j \in Job, job' = [job EXCEPT ![0] = j], j.state # "running"
        PROVE  EndInv'
    <3>1. job'[0].state # "running"
      BY <1>0, <2>3 DEF TypeOK
    <3>2. \A p \in Pools : job'[p] = job[p]
      BY <1>0, <2>3 DEF TypeOK
    <3>3. cur = 0 \/ cur \in Pools
      BY <1>0 DEF Pools
    <3>4. QED
      BY <2>1, <3>1, <3>2, <3>3 DEF EndInv
  <2>4. QED
    BY <1>10, <2>2, <2>3, RestartFacts
<1>11. CASE UNCHANGED vars
  BY <1>1, <1>11 DEF vars
<1>12. QED
  BY <1>2, <1>3, <1>4, <1>5, <1>6, <1>7, <1>8, <1>9, <1>10, <1>11
     DEF Next, Step, Failure, Finishing

LEMMA PoolStepRunsOut ==
  ASSUME TypeOK, TypeOK', EndInv, NEW p \in Pools, PoolStep(p)
  PROVE  PoolLeft(p)' < PoolLeft(p)
<1>1. /\ IsFiniteSet(pool[p].todo) /\ IsFiniteSet(pool[p].busy)
      /\ Cardinality(pool[p].todo) \in Nat /\ Cardinality(pool[p].busy) \in Nat
  BY PoolSets
<1>2. ASSUME NEW id \in Ids, Take(p, id) PROVE PoolLeft(p)' < PoolLeft(p)
  <2>1. /\ id \in pool[p].todo
        /\ pool'[p].open = pool[p].open
        /\ pool'[p].todo = pool[p].todo \ {id}
        /\ pool'[p].busy = pool[p].busy \cup {id}
    BY <1>2, TakeType DEF Take
  <2>2. /\ pool[p].open
        /\ Cardinality(pool'[p].todo) = Cardinality(pool[p].todo) - 1
        /\ Cardinality(pool'[p].busy) \in {Cardinality(pool[p].busy), Cardinality(pool[p].busy) + 1}
    <3>1. pool[p].open
      BY <2>1 DEF EndInv, NoPool
    <3>2. Cardinality(pool[p].todo \ {id}) = Cardinality(pool[p].todo) - 1
      BY <1>1, <2>1, FS_RemoveElement
    <3>3. Cardinality(pool[p].busy \cup {id})
            \in {Cardinality(pool[p].busy), Cardinality(pool[p].busy) + 1}
      BY <1>1, FS_AddElement
    <3>4. QED
      BY <2>1, <3>1, <3>2, <3>3
  <2>3. QED
    BY <1>1, <2>1, <2>2 DEF PoolLeft
<1>3. ASSUME NEW id \in Ids, Finishing(p, id) \/ Failed(p, id) PROVE PoolLeft(p)' < PoolLeft(p)
  <2>1. /\ id \in pool[p].busy
        /\ pool'[p].open = pool[p].open
        /\ pool'[p].todo = pool[p].todo
        /\ Cardinality(pool'[p].busy) = Cardinality(pool[p].busy) - 1
    BY <1>3, FinishingKeepsStates, ReleaseType
  <2>2. pool[p].open
    BY <2>1 DEF EndInv, NoPool
  <2>3. QED
    BY <1>1, <2>1, <2>2 DEF PoolLeft
<1>4. CASE Close(p)
  <2>1. pool[p].open /\ ~pool'[p].open
    BY <1>4 DEF Close, Drained, NoPool, TypeOK
  <2>2. QED
    BY <1>1, <2>1 DEF PoolLeft
<1>5. QED
  BY <1>2, <1>3, <1>4 DEF PoolStep

LEMMA RunsOutStep ==
  ASSUME TypeOK, TypeOK', EndInv, [Next]_vars, NEW p \in Pools
  PROVE  PoolRunsOut(p)
<1>1. PoolLeft(p) \in Nat /\ PoolLeft(p)' \in Nat
  BY PoolLeftType
<1>2. CASE PoolStep(p)
  BY <1>1, <1>2, PoolStepRunsOut DEF PoolRunsOut
<1>3. ASSUME pool'[p] = pool[p] PROVE PoolLeft(p)' = PoolLeft(p)
  BY <1>3 DEF PoolLeft
<1>4. ASSUME ~PoolStep(p)
      PROVE  PoolLeft(p)' <= PoolLeft(p) \/ \E r \in Requests : Begin(r)
  <2>1. CASE Crash
    <3>1. PoolLeft(p)' = 0
      BY <2>1 DEF Crash, PoolLeft, NoPool
    <3>2. QED
      BY <1>1, <3>1
  <2>2. ASSUME NEW q \in Pools, PoolStep(q) PROVE pool'[p] = pool[p]
    <3>1. q # p
      BY <1>4, <2>2
    <3>2. ASSUME NEW id \in Ids, Take(q, id) PROVE pool'[p] = pool[p]
      BY <3>1, <3>2, TakeType
    <3>3. ASSUME NEW id \in Ids, Finishing(q, id) \/ Failed(q, id) PROVE pool'[p] = pool[p]
      BY <3>1, <3>3, FinishingKeepsStates, ReleaseType
    <3>4. CASE Close(q)
      BY <3>1, <3>4 DEF Close, TypeOK
    <3>5. QED
      BY <2>2, <3>2, <3>3, <3>4 DEF PoolStep
  <2>3. CASE \/ Stop \/ Restart \/ UNCHANGED vars
             \/ \E r \in Requests : Ask(r) \/ Select(r) \/ SelectFails(r)
             \/ \E s \in Snapshot : SaveLands(s) \/ SaveFails(s)
    <3>1. pool' = pool
      BY <2>3 DEF Stop, Restart, vars, Ask, Select, SelectFails, SaveLands, SaveFails
    <3>2. QED
      BY <1>1, <1>3, <3>1
  <2>4. QED
    BY <1>1, <1>3, <2>1, <2>2, <2>3 DEF Next, Step, Failure, PoolStep, Finishing
<1>5. CASE ~PoolStep(p)
  BY <1>1, <1>4, <1>5 DEF PoolRunsOut
<1>6. QED
  BY <1>2, <1>5

\* No batch runs for ever: the one on display as running has an open pool, an open
\* pool always has a step to take and a natural number of them left, failures of
\* conversations included, and nothing but the start of a pool adds to them.  A stop,
\* or a second pool that closes the job on display, only lets it drain sooner
\* (conversations.js:84-102, 132-182).
THEOREM BatchesRunOut ==
  Spec => /\ [](job[cur].state = "running" => cur \in Pools /\ pool[cur].open)
          /\ [](\A p \in Pools :
                  /\ PoolLeft(p) \in Nat
                  /\ PoolLeft(p) > 0 <=> pool[p].open
                  /\ pool[p].open => PoolCanGo(p))
          /\ [][\A p \in Pools : PoolRunsOut(p)]_vars
<1>1. Init => EndInv
  BY SizesAssumption DEF Init, EndInv, idleJob
<1>2. TypeOK /\ TypeOK' /\ EndInv /\ [Next]_vars => EndInv'
  BY EndInvStep
<1>3. TypeOK /\ TypeOK' /\ EndInv /\ [Next]_vars => [\A p \in Pools : PoolRunsOut(p)]_vars
  BY RunsOutStep
<1>4. TypeOK => \A p \in Pools :
                  /\ PoolLeft(p) \in Nat
                  /\ PoolLeft(p) > 0 <=> pool[p].open
                  /\ pool[p].open => PoolCanGo(p)
  <2>1. ASSUME TypeOK, NEW p \in Pools, pool[p].open PROVE PoolCanGo(p)
    <3>1. CASE pool[p].busy # {}
      BY <3>1 DEF PoolCanGo
    <3>2. CASE pool[p].busy = {}
      <4>1. Cardinality(pool[p].busy) < Concurrency
        BY <3>2, FS_EmptySet, SizesAssumption
      <4>2. QED
        BY <2>1, <3>2, <4>1 DEF PoolCanGo, Drained
    <3>3. QED
      BY <3>1, <3>2
  <2>2. QED
    BY <2>1, PoolLeftType
<1>5. EndInv => (job[cur].state = "running" => cur \in Pools /\ pool[cur].open)
  BY DEF EndInv
<1>6. QED
  BY <1>1, <1>2, <1>3, <1>4, <1>5, TypeCorrect, PTL DEF Spec
=============================================================================
