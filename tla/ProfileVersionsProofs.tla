------------------------ MODULE ProfileVersionsProofs ------------------------
(***************************************************************************)
(* What holds of the profile versions for any number of versions, requests *)
(* and failures, while no activation overlaps another request.             *)
(***************************************************************************)
EXTENDS ProfileVersions, TLAPS

LEMMA ZeroIsAVersion == 0 \in 0..MaxVersion /\ (\A v \in Versions : v \in 0..MaxVersion)
BY BoundsAssumption DEF Versions

LEMMA SeedTypes ==
  /\ NoName \in Name
  /\ Seed \in Loaded /\ Seed.profile \in Profile
  /\ NoRequest \in Request
<1>1. NoName \in Name
  BY ZeroIsAVersion DEF NoName, Name
<1>2. [vocab |-> SeedVocabulary, retired |-> {}, ok |-> TRUE] \in Profile
  BY VocabularyAssumption DEF Profile
<1>3. QED
  BY <1>1, <1>2, ZeroIsAVersion DEF Seed, Loaded, NoRequest, Request, Phases

LEMMA RowTypes ==
  ASSUME TypeOK, NEW v \in Versions
  PROVE  /\ rows[v] \in Row
         /\ rows[v].status \in {"none", "draft", "active", "archived"}
         /\ rows[v].profile \in Profile
         /\ rows[v].name \in Name
BY DEF TypeOK, Row

LEMMA RequestTypes ==
  ASSUME TypeOK, NEW r \in Requests
  PROVE  /\ request[r] \in Request
         /\ request[r].phase \in Phases
         /\ request[r].activates \in BOOLEAN
         /\ request[r].version \in 0..MaxVersion
         /\ request[r].profile \in Profile
         /\ request[r].name \in Name
BY DEF TypeOK, Request

LEMMA StoredTypes ==
  ASSUME TypeOK, NEW v \in 0..MaxVersion
  PROVE  /\ Stored(v) \in Loaded
         /\ Stored(v).profile \in Profile
         /\ Stored(v).name \in Name
<1>1. CASE v = 0
  BY <1>1, SeedTypes DEF Stored, Loaded
<1>2. CASE v # 0
  <2>1. v \in Versions
    BY <1>2, BoundsAssumption DEF Versions
  <2>2. Stored(v) = [version |-> v, profile |-> rows[v].profile, name |-> rows[v].name]
    BY <1>2 DEF Stored
  <2>3. rows[v].profile \in Profile /\ rows[v].name \in Name
    BY <2>1, RowTypes
  <2>4. QED
    BY <2>2, <2>3 DEF Loaded
<1>3. QED
  BY <1>1, <1>2

LEMMA StoredIsRow ==
  ASSUME NEW v \in Versions
  PROVE  /\ v # 0
         /\ Stored(v).version = v
         /\ Stored(v).profile = rows[v].profile
         /\ Stored(v).name = rows[v].name
BY BoundsAssumption DEF Stored, Versions

\* The ways a step moves its request on.
LEMMA GoesType ==
  ASSUME TypeOK, NEW r \in Requests, NEW phase \in Phases, Goes(r, phase)
  PROVE  request' \in [Requests -> Request]
BY RequestTypes DEF TypeOK, Goes, Request

LEMMA EndsType ==
  ASSUME TypeOK, NEW r \in Requests, Ends(r)
  PROVE  request' \in [Requests -> Request]
BY SeedTypes DEF TypeOK, Ends

LEMMA SavedType ==
  ASSUME TypeOK, NEW r \in Requests, Saved(r)
  PROVE  request' \in [Requests -> Request]
<1>1. CASE Goes(r, "draft")
  BY <1>1, GoesType DEF Phases
<1>2. CASE Ends(r)
  BY <1>2, EndsType
<1>3. QED
  BY <1>1, <1>2 DEF Saved

LEMMA FoundType ==
  ASSUME TypeOK, NEW r \in Requests, NEW phase \in Phases, NEW v \in 0..MaxVersion,
         request' = [request EXCEPT ![r].phase = phase, ![r].version = v]
  PROVE  request' \in [Requests -> Request]
BY RequestTypes DEF TypeOK, Request

LEMMA PhaseField ==
  ASSUME NEW g \in [Requests -> Request], NEW r \in Requests, NEW x \in Phases
  PROVE  /\ [g EXCEPT ![r].phase = x] \in [Requests -> Request]
         /\ [g EXCEPT ![r].phase = x][r].profile = g[r].profile
<1>1. g[r] \in Request
  OBVIOUS
<1>2. [g[r] EXCEPT !.phase = x] \in Request /\ [g[r] EXCEPT !.phase = x].profile = g[r].profile
  BY <1>1 DEF Request
<1>3. QED
  BY <1>2

LEMMA ProfileField ==
  ASSUME NEW g \in [Requests -> Request], NEW r \in Requests, NEW x \in Profile
  PROVE  /\ [g EXCEPT ![r].profile = x] \in [Requests -> Request]
<1>1. g[r] \in Request
  OBVIOUS
<1>2. [g[r] EXCEPT !.profile = x] \in Request
  BY <1>1 DEF Request
<1>3. QED
  BY <1>2

LEMMA NameField ==
  ASSUME NEW g \in [Requests -> Request], NEW r \in Requests, NEW x \in Name
  PROVE  /\ [g EXCEPT ![r].name = x] \in [Requests -> Request]
         /\ [g EXCEPT ![r].name = x][r].profile = g[r].profile
<1>1. g[r] \in Request
  OBVIOUS
<1>2. [g[r] EXCEPT !.name = x] \in Request /\ [g[r] EXCEPT !.name = x].profile = g[r].profile
  BY <1>1 DEF Request
<1>3. QED
  BY <1>2

LEMMA StartsType ==
  ASSUME TypeOK, NEW r \in Requests, NEW q \in Request, Starts(r, q)
  PROVE  TypeOK'
<1>1. request' \in [Requests -> Request]
  BY DEF Starts, TypeOK
<1>2. raced' \in BOOLEAN /\ arrivals' \in Nat
  BY DEF Starts, TypeOK
<1>3. QED
  BY <1>1, <1>2 DEF Starts, TypeOK

-----------------------------------------------------------------------------
(* Type correctness. *)

LEMMA SubmitType ==
  ASSUME TypeOK, NEW r \in Requests, Submit(r)
  PROVE  TypeOK'
<1>1. PICK vocab \in Vocabularies, retired \in RetiredSent, ok \in BOOLEAN, activates \in BOOLEAN :
        Starts(r, [NoRequest EXCEPT !.phase = "look", !.activates = activates,
                     !.profile = [vocab |-> vocab, retired |-> retired, ok |-> ok]])
  BY DEF Submit
<1>2. retired \in SUBSET Entries
  <2>1. live.profile.retired \in SUBSET Entries
    BY DEF TypeOK, Loaded, Profile
  <2>2. \A v \in Versions : rows[v].profile.retired \in SUBSET Entries
    BY RowTypes DEF Profile
  <2>3. QED
    BY <2>1, <2>2 DEF RetiredSent
<1>3. [vocab |-> vocab, retired |-> retired, ok |-> ok] \in Profile
  BY <1>2, VocabularyAssumption DEF Profile
<1>4. [NoRequest EXCEPT !.phase = "look", !.activates = activates,
         !.profile = [vocab |-> vocab, retired |-> retired, ok |-> ok]] \in Request
  BY <1>3, SeedTypes DEF Request, Phases
<1>5. QED
  BY <1>1, <1>4, StartsType

LEMMA GenerateType ==
  ASSUME TypeOK, NEW r \in Requests, Generate(r)
  PROVE  TypeOK'
<1>1. PICK vocab \in Vocabularies, ok \in BOOLEAN :
        Starts(r, [NoRequest EXCEPT !.phase = "look",
                     !.profile = [vocab |-> vocab, retired |-> {}, ok |-> ok]])
  BY DEF Generate
<1>2. [vocab |-> vocab, retired |-> {}, ok |-> ok] \in Profile
  BY VocabularyAssumption DEF Profile
<1>3. [NoRequest EXCEPT !.phase = "look",
         !.profile = [vocab |-> vocab, retired |-> {}, ok |-> ok]] \in Request
  BY <1>2, SeedTypes DEF Request, Phases
<1>4. QED
  BY <1>1, <1>3, StartsType

LEMMA ActivateType ==
  ASSUME TypeOK, NEW r \in Requests, Activate(r)
  PROVE  TypeOK'
<1>1. [NoRequest EXCEPT !.phase = "draft", !.activates = TRUE] \in Request
  BY SeedTypes DEF Request, Phases
<1>2. QED
  BY <1>1, StartsType DEF Activate

LEMMA SaveDraftType ==
  ASSUME TypeOK, NEW r \in Requests, saveDraft(r)
  PROVE  TypeOK'
<1>1. CASE Look(r)
  <2>1. PICK v \in 0..MaxVersion :
          request' = [request EXCEPT ![r].phase = IF v = 0 THEN "number" ELSE "update",
                                     ![r].version = v]
    BY <1>1 DEF Look
  <2>2. (IF v = 0 THEN "number" ELSE "update") \in Phases
    BY DEF Phases
  <2>3. request' \in [Requests -> Request]
    BY <2>1, <2>2, FoundType
  <2>4. QED
    BY <1>1, <2>3 DEF Look, TypeOK, history
<1>2. CASE nextVersion(r)
  <2>1. PICK v \in Versions :
          request' = [request EXCEPT ![r].phase = "insert", ![r].version = v]
    BY <1>2 DEF nextVersion
  <2>2. request' \in [Requests -> Request]
    BY <2>1, ZeroIsAVersion, FoundType DEF Phases
  <2>3. QED
    BY <1>2, <2>2 DEF nextVersion, TypeOK, history
<1>3. CASE Insert(r)
  <2>1. request' \in [Requests -> Request]
    BY <1>3, SavedType, EndsType DEF Insert
  <2>2. [status |-> "draft", name |-> NoName, profile |-> request[r].profile] \in Row
    BY RequestTypes, SeedTypes DEF Row
  <2>3. rows' \in [Versions -> Row]
    BY <1>3, <2>2 DEF Insert, TypeOK
  <2>4. QED
    BY <1>3, <2>1, <2>3 DEF Insert, TypeOK, history
<1>4. CASE Update(r)
  <2>1. request' \in [Requests -> Request]
    BY <1>4, SavedType DEF Update
  <2>2. rows' \in [Versions -> Row]
    <3>1. request[r].profile \in Profile
      BY RequestTypes
    <3>2. QED
      BY <1>4, <3>1, RowTypes DEF Update, TypeOK, Row
  <2>3. QED
    BY <1>4, <2>1, <2>2 DEF Update, TypeOK, history
<1>5. QED
  BY <1>1, <1>2, <1>3, <1>4 DEF saveDraft

LEMMA CarriedNameType ==
  ASSUME TypeOK, NEW r \in Requests, NEW a \in 0..MaxVersion
  PROVE  CarriedName(request[r], a) \in Name
<1>1. Stored(a).name \in Name /\ request[r].version \in 0..MaxVersion
  BY StoredTypes, RequestTypes
<1>2. QED
  BY <1>1 DEF CarriedName, Name

LEMMA MergeRetiredType ==
  ASSUME TypeOK, NEW p \in Profile, NEW a \in 0..MaxVersion
  PROVE  /\ mergeRetired(p, a) \in Profile
         /\ mergeRetired(p, a).vocab = p.vocab
         /\ mergeRetired(p, a).ok = p.ok
<1>1. PICK removed :
        removed = UNION {Stored(a).profile.vocab[f] \ p.vocab[f] : f \in Facets}
  OBVIOUS
<1>2. removed \subseteq Entries
  BY <1>1, StoredTypes DEF Profile
<1>3. mergeRetired(p, a) = [p EXCEPT !.retired = @ \cup IF a = 0 THEN {} ELSE removed]
  BY <1>1 DEF mergeRetired
<1>4. QED
  BY <1>2, <1>3 DEF Profile

\* What row a had and p has not is among what p keeps.
LEMMA MergeRetiredKeeps ==
  ASSUME TypeOK, NEW p \in Profile, NEW a \in Versions, NEW f \in Facets
  PROVE  rows[a].profile.vocab[f] \ p.vocab[f] \subseteq mergeRetired(p, a).retired
<1>1. a # 0 /\ Stored(a).profile = rows[a].profile
  BY StoredIsRow DEF Versions
<1>2. mergeRetired(p, a).retired =
        p.retired \cup UNION {Stored(a).profile.vocab[g] \ p.vocab[g] : g \in Facets}
  BY <1>1 DEF mergeRetired, Profile
<1>3. QED
  BY <1>1, <1>2

LEMMA ActivateDraftType ==
  ASSUME TypeOK, NEW r \in Requests, activateDraft(r)
  PROVE  TypeOK'
<1>1. CASE ReadDraft(r)
  <2>1. PICK v \in 0..MaxVersion :
          \/ request' = [request EXCEPT ![r].phase = "active", ![r].version = v,
                                        ![r].profile = Stored(v).profile]
          \/ Ends(r)
    BY <1>1 DEF ReadDraft
  <2>2. request' \in [Requests -> Request]
    <3>1. CASE request' = [request EXCEPT ![r].phase = "active", ![r].version = v,
                                          ![r].profile = Stored(v).profile]
      <4>1. PICK g : g = [request EXCEPT ![r].phase = "active", ![r].version = v]
        OBVIOUS
      <4>2. g \in [Requests -> Request]
        BY <4>1, RequestTypes DEF TypeOK, Request, Phases
      <4>3. request' = [g EXCEPT ![r].profile = Stored(v).profile]
        BY <3>1, <4>1
      <4>4. QED
        BY <4>2, <4>3, StoredTypes, ProfileField
    <3>2. QED
      BY <2>1, <3>1, EndsType
  <2>3. QED
    BY <1>1, <2>2 DEF ReadDraft, TypeOK, history
<1>2. CASE ReadActive(r)
  <2>1. PICK a \in 0..MaxVersion :
          request' = [request EXCEPT
            ![r].phase = "archive",
            ![r].name = CarriedName(request[r], a),
            ![r].profile = mergeRetired(request[r].profile, a)]
    BY <1>2 DEF ReadActive
  <2>2. mergeRetired(request[r].profile, a) \in Profile
    BY RequestTypes, MergeRetiredType
  <2>3. request' \in [Requests -> Request]
    <3>1. PICK g : g = [request EXCEPT ![r].phase = "archive"]
      OBVIOUS
    <3>2. PICK h : h = [g EXCEPT ![r].name = CarriedName(request[r], a)]
      OBVIOUS
    <3>3. g \in [Requests -> Request] /\ g[r].profile = request[r].profile
      <4>1. request \in [Requests -> Request] /\ "archive" \in Phases
        BY DEF TypeOK, Phases
      <4>2. QED
        BY <3>1, <4>1, PhaseField
    <3>4. h \in [Requests -> Request] /\ h[r].profile = request[r].profile
      BY <3>2, <3>3, CarriedNameType, NameField
    <3>5. request' = [h EXCEPT ![r].profile = mergeRetired(request[r].profile, a)]
      BY <2>1, <3>1, <3>2
    <3>6. QED
      BY <2>2, <3>4, <3>5, ProfileField
  <2>4. QED
    BY <1>2, <2>3 DEF ReadActive, TypeOK, history
<1>3. CASE Archive(r)
  <2>1. request' \in [Requests -> Request]
    BY <1>3, GoesType DEF Archive, Phases
  <2>2. rows' \in [Versions -> Row]
    BY <1>3, RowTypes DEF Archive, Row
  <2>3. QED
    BY <1>3, <2>1, <2>2 DEF Archive, TypeOK, history
<1>4. CASE Promote(r)
  <2>1. request' \in [Requests -> Request]
    BY <1>4, GoesType DEF Promote, Phases
  <2>2. rows' \in [Versions -> Row]
    BY <1>4, RequestTypes DEF Promote, TypeOK, Row
  <2>3. QED
    BY <1>4, <2>1, <2>2 DEF Promote, TypeOK, history
<1>5. CASE Load(r)
  <2>1. PICK a \in 0..MaxVersion :
          request' = [request EXCEPT ![r].phase = "apply", ![r].version = a,
                        ![r].profile = Stored(a).profile, ![r].name = Stored(a).name]
    BY <1>5 DEF Load
  <2>2. request' \in [Requests -> Request]
    <3>1. PICK g : g = [request EXCEPT ![r].phase = "apply", ![r].version = a]
      OBVIOUS
    <3>2. PICK h : h = [g EXCEPT ![r].profile = Stored(a).profile]
      OBVIOUS
    <3>3. g \in [Requests -> Request]
      BY <3>1, RequestTypes DEF TypeOK, Request, Phases
    <3>4. h \in [Requests -> Request]
      BY <3>2, <3>3, StoredTypes, ProfileField
    <3>5. request' = [h EXCEPT ![r].name = Stored(a).name]
      BY <2>1, <3>1, <3>2
    <3>6. QED
      BY <3>4, <3>5, StoredTypes, NameField
  <2>3. QED
    BY <1>5, <2>2 DEF Load, TypeOK, history
<1>6. CASE setProfile(r)
  <2>1. request' \in [Requests -> Request]
    BY <1>6, EndsType DEF setProfile
  <2>2. live' \in Loaded
    BY <1>6, RequestTypes DEF setProfile, Loaded
  <2>3. QED
    BY <1>6, <2>1, <2>2 DEF setProfile, TypeOK
<1>7. QED
  BY <1>1, <1>2, <1>3, <1>4, <1>5, <1>6 DEF activateDraft

LEMMA FailureType ==
  ASSUME TypeOK, \/ \E r \in Requests : StatementFails(r) \/ LoadFails(r)
                 \/ Crash \/ Restart
  PROVE  TypeOK'
<1>1. ASSUME NEW r \in Requests, StatementFails(r)
      PROVE  TypeOK'
  <2>1. request' \in [Requests -> Request] /\ faults' \in Nat
    BY <1>1, EndsType DEF StatementFails, Fault, TypeOK
  <2>2. gap' \in BOOLEAN
    BY <1>1 DEF StatementFails
  <2>3. QED
    BY <1>1, <2>1, <2>2 DEF StatementFails, TypeOK
<1>2. ASSUME NEW r \in Requests, LoadFails(r)
      PROVE  TypeOK'
  BY <1>2, EndsType, SeedTypes DEF LoadFails, Fault, TypeOK
<1>3. CASE Crash
  <2>1. request' \in [Requests -> Request] /\ faults' \in Nat /\ live' \in Loaded
    BY <1>3, SeedTypes DEF Crash, Fault, TypeOK
  <2>2. gap' \in BOOLEAN
    BY <1>3 DEF Crash
  <2>3. QED
    BY <1>3, <2>1, <2>2 DEF Crash, TypeOK
<1>4. CASE Restart
  <2>1. live' \in Loaded
    BY <1>4, SeedTypes, StoredTypes DEF Restart
  <2>2. reloadFailed' \in BOOLEAN /\ faults' \in Nat /\ up' \in BOOLEAN
    <3>1. up' \in BOOLEAN
      BY <1>4 DEF Restart
    <3>2. CASE UNCHANGED <<reloadFailed, faults>>
      BY <3>1, <3>2 DEF TypeOK
    <3>3. CASE Fault /\ reloadFailed' = TRUE
      BY <3>1, <3>3 DEF Fault, TypeOK
    <3>4. QED
      BY <1>4, <3>2, <3>3 DEF Restart
  <2>3. QED
    BY <1>4, <2>1, <2>2 DEF Restart, TypeOK
<1>5. QED
  BY <1>1, <1>2, <1>3, <1>4

\* The state keeps its type whatever fails (every step of ProfileVersions).
THEOREM TypeCorrect == Spec => []TypeOK
<1>1. Init => TypeOK
  <2>1. [status |-> "none", profile |-> Seed.profile, name |-> NoName] \in Row
    BY SeedTypes DEF Row
  <2>2. QED
    <3>1. SUFFICES ASSUME Init PROVE TypeOK
      OBVIOUS
    <3>2. rows \in [Versions -> Row] /\ live \in Loaded /\ request \in [Requests -> Request]
      BY <2>1, <3>1, SeedTypes DEF Init
    <3>3. QED
      BY <3>1, <3>2 DEF Init, TypeOK
<1>2. TypeOK /\ [Next]_vars => TypeOK'
  <2>1. ASSUME TypeOK, Next
        PROVE  TypeOK'
    BY <2>1, SubmitType, GenerateType, ActivateType, SaveDraftType, ActivateDraftType, FailureType
       DEF Next
  <2>2. ASSUME TypeOK, UNCHANGED vars
        PROVE  TypeOK'
    BY <2>2 DEF vars, history, TypeOK
  <2>3. QED
    BY <2>1, <2>2
<1>3. QED
  BY <1>1, <1>2, PTL DEF Spec

-----------------------------------------------------------------------------
(* The invariant behind the three results on rows. *)

Activating == {"draft", "active", "archive", "promote", "load", "apply"}

\* A request that activates says so from the start, and no other one meets it.
AloneInv ==
  /\ \A r \in Requests : request[r].phase \in Activating => request[r].activates
  /\ \A r, o \in Requests :
       request[r].activates /\ Busy(r) /\ Busy(o) => r = o

\* What an activation has read is still so when it is used.
NamesARow(q, f) ==
  \/ q.name[f] = q.version
  \/ \E w \in Versions : /\ HasBeenLive(w)
                         /\ rows[w].name[f] = q.name[f]
                         /\ rows[w].profile.vocab[f] = q.profile.vocab[f]

ReadInv(r) ==
  LET q == request[r] IN
  /\ q.phase = "insert" => q.version \in Versions
  /\ q.phase \in {"update", "active", "archive", "promote"} =>
       q.version \in Versions /\ rows[q.version].status = "draft"
  /\ q.phase \in {"active", "archive", "promote"} => q.profile.ok
  /\ q.phase \in {"archive", "promote"} => \A f \in Facets : NamesARow(q, f)
  /\ q.phase = "promote" => \A v \in Versions : rows[v].status # "active"

\* A version in use belongs to a row that has been live.
NamesInv ==
  \A v \in Versions, f \in Facets :
    HasBeenLive(v) => rows[v].name[f] \in Versions /\ HasBeenLive(rows[v].name[f])

VersionInv ==
  ~raced => /\ AloneInv
            /\ \A r \in Requests : ReadInv(r)
            /\ NamesInv
            /\ VersionNamesOneVocabulary
            /\ OneActive

LEMMA LatestFacts ==
  ASSUME TypeOK, NEW statuses, NEW v \in 0..MaxVersion, IsLatest(v, statuses), v # 0
  PROVE  v \in Versions /\ rows[v].status \in statuses
BY BoundsAssumption DEF IsLatest, Versions

\* A step that leaves the rows that have been live alone, and at most adds a
\* draft, has only its own request to look after.
LEMMA DraftStep ==
  ASSUME TypeOK, VersionInv, ~raced, NEW r \in Requests,
         Busy(r),
         request'[r].activates => request[r].activates,
         request'[r].phase \in Activating => request'[r].activates,
         \A o \in Requests : o # r => request'[o] = request[o],
         \A v \in Versions : \/ rows'[v].status = rows[v].status
                             \/ rows[v].status = "none" /\ rows'[v].status = "draft",
         \A v \in Versions : HasBeenLive(v) => rows'[v] = rows[v],
         ReadInv(r)'
  PROVE  VersionInv'
<1>1. /\ AloneInv
      /\ \A o \in Requests : ReadInv(o)
      /\ NamesInv
      /\ VersionNamesOneVocabulary
      /\ OneActive
  BY DEF VersionInv
<1>2. AloneInv'
  BY <1>1 DEF AloneInv, Busy
<1>3. \A v \in Versions : HasBeenLive(v)' <=> HasBeenLive(v)
  BY DEF HasBeenLive
<1>4. ASSUME NEW o \in Requests, o # r
      PROVE  ReadInv(o)'
  <2>1. ReadInv(o) /\ request'[o] = request[o]
    BY <1>1, <1>4
  <2>2. \A f \in Facets : NamesARow(request[o], f) => NamesARow(request[o], f)'
    BY <1>3, <2>1 DEF NamesARow, HasBeenLive
  <2>3. QED
    BY <2>1, <2>2 DEF ReadInv
<1>5. NamesInv'
  BY <1>1, <1>3 DEF NamesInv, HasBeenLive
<1>6. VersionNamesOneVocabulary'
  BY <1>1, <1>3 DEF VersionNamesOneVocabulary
<1>7. OneActive'
  BY <1>1 DEF OneActive, HasBeenLive
<1>8. QED
  BY <1>2, <1>4, <1>5, <1>6, <1>7 DEF VersionInv

\* A step that only moves its own request on.
LEMMA MoveStep ==
  ASSUME TypeOK, VersionInv, ~raced, NEW r \in Requests, Busy(r),
         UNCHANGED rows,
         request'[r].activates => request[r].activates,
         request'[r].phase \in Activating => request'[r].activates,
         \A o \in Requests : o # r => request'[o] = request[o],
         ReadInv(r)'
  PROVE  VersionInv'
BY DraftStep

LEMMA IdleReadInv ==
  ASSUME NEW r \in Requests, request'[r].phase \in {"idle", "look", "number", "draft", "load", "apply"}
  PROVE  ReadInv(r)'
BY DEF ReadInv

\* How Goes, Ends and Saved change the requests.
LEMMA GoesFacts ==
  ASSUME TypeOK, NEW r \in Requests, NEW phase, Goes(r, phase)
  PROVE  /\ request'[r] = [request[r] EXCEPT !.phase = phase]
         /\ request'[r].phase = phase
         /\ request'[r].activates = request[r].activates
         /\ request'[r].version = request[r].version
         /\ request'[r].profile = request[r].profile
         /\ request'[r].name = request[r].name
         /\ \A o \in Requests : o # r => request'[o] = request[o]
BY RequestTypes DEF TypeOK, Goes, Request

LEMMA EndsFacts ==
  ASSUME TypeOK, NEW r \in Requests, Ends(r)
  PROVE  /\ request'[r].phase = "idle"
         /\ request'[r].activates = FALSE
         /\ \A o \in Requests : o # r => request'[o] = request[o]
BY DEF TypeOK, Ends, NoRequest

LEMMA SavedFacts ==
  ASSUME TypeOK, NEW r \in Requests, Saved(r)
  PROVE  /\ request'[r].phase \in {"idle", "draft"}
         /\ request'[r].phase = "draft" => request'[r].activates
         /\ request'[r].activates => request[r].activates
         /\ \A o \in Requests : o # r => request'[o] = request[o]
<1>1. CASE request[r].activates /\ Goes(r, "draft")
  BY <1>1, GoesFacts
<1>2. CASE Ends(r)
  BY <1>2, EndsFacts
<1>3. QED
  BY <1>1, <1>2 DEF Saved

LEMMA EndsStep ==
  ASSUME TypeOK, VersionInv, ~raced, NEW r \in Requests, Busy(r), Ends(r), UNCHANGED rows
  PROVE  VersionInv'
BY EndsFacts, IdleReadInv, MoveStep DEF Activating

LEMMA LookStep ==
  ASSUME TypeOK, VersionInv, ~raced, NEW r \in Requests, Look(r)
  PROVE  VersionInv'
<1>1. PICK v \in 0..MaxVersion :
        /\ request[r].phase = "look"
        /\ IsLatest(v, {"draft"})
        /\ request' = [request EXCEPT ![r].phase = IF v = 0 THEN "number" ELSE "update",
                                      ![r].version = v]
        /\ UNCHANGED rows
  BY DEF Look
<1>2. /\ request'[r].phase = IF v = 0 THEN "number" ELSE "update"
      /\ request'[r].version = v
      /\ request'[r].activates = request[r].activates
      /\ \A o \in Requests : o # r => request'[o] = request[o]
  BY <1>1, RequestTypes DEF TypeOK, Request
<1>3. ReadInv(r)'
  <2>1. CASE v = 0
    BY <1>2, <2>1, IdleReadInv
  <2>2. CASE v # 0
    BY <1>1, <1>2, <2>2, LatestFacts DEF ReadInv
  <2>3. QED
    BY <2>1, <2>2
<1>4. Busy(r) /\ request'[r].phase \notin Activating
  BY <1>1, <1>2 DEF Busy, Activating
<1>5. QED
  BY <1>1, <1>2, <1>3, <1>4, MoveStep

LEMMA NumberStep ==
  ASSUME TypeOK, VersionInv, ~raced, NEW r \in Requests, nextVersion(r)
  PROVE  VersionInv'
<1>1. PICK v \in Versions :
        /\ request[r].phase = "number"
        /\ request' = [request EXCEPT ![r].phase = "insert", ![r].version = v]
        /\ UNCHANGED rows
  BY DEF nextVersion
<1>2. /\ request'[r].phase = "insert"
      /\ request'[r].version = v
      /\ request'[r].activates = request[r].activates
      /\ \A o \in Requests : o # r => request'[o] = request[o]
  BY <1>1, RequestTypes DEF TypeOK, Request
<1>3. ReadInv(r)'
  BY <1>2 DEF ReadInv, Versions
<1>4. Busy(r) /\ request'[r].phase \notin Activating
  BY <1>1, <1>2 DEF Busy, Activating
<1>5. QED
  BY <1>1, <1>2, <1>3, <1>4, MoveStep

LEMMA InsertStep ==
  ASSUME TypeOK, VersionInv, ~raced, NEW r \in Requests, Insert(r)
  PROVE  VersionInv'
<1>1. PICK v : v = request[r].version
  OBVIOUS
<1>2. request[r].phase = "insert" /\ Busy(r) /\ v \in Versions
  BY <1>1 DEF Insert, VersionInv, ReadInv, Busy
<1>3. CASE rows[v].status = "none"
  <2>1. rows' = [rows EXCEPT ![v] = [status |-> "draft", name |-> NoName,
                                     profile |-> request[r].profile]]
    BY <1>1, <1>3 DEF Insert
  <2>2. Saved(r)
    BY <1>1, <1>3 DEF Insert
  <2>3. /\ rows'[v].status = "draft"
        /\ \A w \in Versions : w # v => rows'[w] = rows[w]
    BY <1>2, <2>1 DEF TypeOK
  <2>4. \A w \in Versions : \/ rows'[w].status = rows[w].status
                            \/ rows[w].status = "none" /\ rows'[w].status = "draft"
    BY <1>3, <2>3
  <2>5. \A w \in Versions : HasBeenLive(w) => rows'[w] = rows[w]
    BY <1>3, <2>3 DEF HasBeenLive
  <2>6. ReadInv(r)' /\ (request'[r].phase \in Activating => request'[r].activates)
    BY <2>2, SavedFacts, IdleReadInv DEF Activating
  <2>7. QED
    BY <1>2, <2>2, <2>4, <2>5, <2>6, SavedFacts, DraftStep
<1>4. CASE rows[v].status # "none"
  BY <1>1, <1>2, <1>4, EndsStep DEF Insert
<1>5. QED
  BY <1>3, <1>4

LEMMA UpdateStep ==
  ASSUME TypeOK, VersionInv, ~raced, NEW r \in Requests, Update(r)
  PROVE  VersionInv'
<1>1. PICK v : v = request[r].version
  OBVIOUS
<1>2. /\ request[r].phase = "update" /\ Busy(r)
      /\ v \in Versions /\ rows[v].status = "draft"
  BY <1>1 DEF Update, VersionInv, ReadInv, Busy
<1>3. rows' = [rows EXCEPT ![v].profile = request[r].profile] /\ Saved(r)
  BY <1>1 DEF Update
<1>4. /\ rows'[v].status = rows[v].status
      /\ \A w \in Versions : w # v => rows'[w] = rows[w]
  BY <1>2, <1>3, RowTypes DEF TypeOK, Row
<1>5. \A w \in Versions : rows'[w].status = rows[w].status
  BY <1>4
<1>6. \A w \in Versions : HasBeenLive(w) => rows'[w] = rows[w]
  BY <1>2, <1>4 DEF HasBeenLive
<1>7. ReadInv(r)' /\ (request'[r].phase \in Activating => request'[r].activates)
  BY <1>3, SavedFacts, IdleReadInv DEF Activating
<1>8. QED
  BY <1>2, <1>3, <1>5, <1>6, <1>7, SavedFacts, DraftStep

LEMMA ReadDraftStep ==
  ASSUME TypeOK, VersionInv, ~raced, NEW r \in Requests, ReadDraft(r)
  PROVE  VersionInv'
<1>1. PICK v \in 0..MaxVersion :
        /\ request[r].phase = "draft"
        /\ IsLatest(v, {"draft"})
        /\ IF v # 0 /\ Stored(v).profile.ok
           THEN request' = [request EXCEPT ![r].phase = "active", ![r].version = v,
                                           ![r].profile = Stored(v).profile]
           ELSE Ends(r)
        /\ UNCHANGED rows
  BY DEF ReadDraft
<1>2. Busy(r) /\ request[r].activates
  BY <1>1 DEF Busy, VersionInv, AloneInv, Activating
<1>3. CASE v # 0 /\ Stored(v).profile.ok
  <2>1. /\ request'[r].phase = "active"
        /\ request'[r].version = v
        /\ request'[r].profile = Stored(v).profile
        /\ request'[r].activates = request[r].activates
        /\ \A o \in Requests : o # r => request'[o] = request[o]
    BY <1>1, <1>3, RequestTypes DEF TypeOK, Request
  <2>2. v \in Versions /\ rows[v].status = "draft"
    BY <1>1, <1>3, LatestFacts
  <2>3. ReadInv(r)'
    BY <1>1, <1>3, <2>1, <2>2 DEF ReadInv
  <2>4. QED
    BY <1>1, <1>2, <2>1, <2>3, MoveStep
<1>4. CASE ~(v # 0 /\ Stored(v).profile.ok)
  BY <1>1, <1>2, <1>4, EndsStep
<1>5. QED
  BY <1>3, <1>4

LEMMA ReadActiveStep ==
  ASSUME TypeOK, VersionInv, ~raced, NEW r \in Requests, ReadActive(r)
  PROVE  VersionInv'
<1>1. PICK q : q = request[r]
  OBVIOUS
<1>2. PICK a \in 0..MaxVersion :
        /\ q.phase = "active"
        /\ IsLatest(a, {"active"})
        /\ request' = [request EXCEPT
             ![r].phase = "archive",
             ![r].name = CarriedName(q, a),
             ![r].profile = mergeRetired(q.profile, a)]
        /\ UNCHANGED rows
  BY <1>1 DEF ReadActive
<1>3. /\ request'[r].phase = "archive"
      /\ request'[r].name = CarriedName(q, a)
      /\ request'[r].profile = mergeRetired(q.profile, a)
      /\ request'[r].version = q.version
      /\ request'[r].activates = q.activates
      /\ \A o \in Requests : o # r => request'[o] = request[o]
  BY <1>1, <1>2, RequestTypes DEF TypeOK, Request
<1>4. /\ Busy(r) /\ q.activates
      /\ q.version \in Versions /\ rows[q.version].status = "draft" /\ q.profile.ok
  BY <1>1, <1>2 DEF Busy, VersionInv, AloneInv, ReadInv, Activating
<1>5. /\ request'[r].profile.vocab = q.profile.vocab
      /\ request'[r].profile.ok = q.profile.ok
  BY <1>1, <1>3, RequestTypes, MergeRetiredType
<1>6. ASSUME NEW f \in Facets
      PROVE  NamesARow(request[r], f)'
  <2>1. CASE a # 0 /\ Stored(a).profile.vocab[f] = q.profile.vocab[f]
    <3>1. a \in Versions /\ rows[a].status = "active"
      BY <1>2, <2>1, LatestFacts
    <3>2. /\ CarriedName(q, a)[f] = rows[a].name[f]
          /\ rows[a].profile.vocab[f] = q.profile.vocab[f]
      BY <2>1, <3>1, StoredIsRow DEF CarriedName
    <3>3. QED
      BY <1>2, <1>3, <1>5, <3>1, <3>2 DEF NamesARow, HasBeenLive
  <2>2. CASE ~(a # 0 /\ Stored(a).profile.vocab[f] = q.profile.vocab[f])
    <3>1. CarriedName(q, a)[f] = q.version
      BY <2>2 DEF CarriedName
    <3>2. QED
      BY <1>3, <3>1 DEF NamesARow
  <2>3. QED
    BY <2>1, <2>2
<1>7. ReadInv(r)'
  BY <1>2, <1>3, <1>4, <1>5, <1>6 DEF ReadInv
<1>8. QED
  BY <1>1, <1>2, <1>3, <1>4, <1>7, MoveStep

\* An activation under way is the only request there is.
LEMMA OnlyActivation ==
  ASSUME VersionInv, ~raced, NEW r \in Requests, request[r].phase \in Activating,
         NEW o \in Requests, o # r
  PROVE  request[o].phase = "idle"
<1>1. request[r].activates /\ Busy(r)
  BY DEF VersionInv, AloneInv, Busy, Activating
<1>2. ~Busy(o)
  BY <1>1 DEF VersionInv, AloneInv
<1>3. QED
  BY <1>2 DEF Busy

\* AloneInv here takes both requests' share in it.
LEMMA AloneStep ==
  ASSUME VersionInv, ~raced, NEW r \in Requests, request[r].phase \in Activating,
         request'[r].activates,
         \A o \in Requests : o # r => request'[o] = request[o]
  PROVE  /\ AloneInv'
         /\ \A o \in Requests : o # r => ReadInv(o)'
<1>1. \A o \in Requests : o # r => request'[o].phase = "idle"
  BY OnlyActivation
<1>2. AloneInv'
  BY <1>1 DEF AloneInv, Busy, Activating
<1>3. \A o \in Requests : o # r => ReadInv(o)'
  BY <1>1, IdleReadInv
<1>4. QED
  BY <1>2, <1>3

LEMMA ArchiveStep ==
  ASSUME TypeOK, VersionInv, ~raced, NEW r \in Requests, Archive(r)
  PROVE  VersionInv'
<1>1. /\ request[r].phase = "archive" /\ Goes(r, "promote")
      /\ rows' = [v \in Versions |-> IF rows[v].status = "active"
                                     THEN [rows[v] EXCEPT !.status = "archived"] ELSE rows[v]]
  BY DEF Archive
<1>2. /\ request'[r].phase = "promote"
      /\ request'[r].activates
      /\ request'[r].version = request[r].version
      /\ request'[r].profile = request[r].profile
      /\ request'[r].name = request[r].name
      /\ \A o \in Requests : o # r => request'[o] = request[o]
  BY <1>1, GoesFacts DEF VersionInv, AloneInv, Activating
<1>3. \A v \in Versions :
        /\ rows'[v].profile = rows[v].profile
        /\ rows'[v].name = rows[v].name
        /\ rows'[v].status = IF rows[v].status = "active" THEN "archived" ELSE rows[v].status
  BY <1>1, RowTypes DEF Row
<1>4. \A v \in Versions : HasBeenLive(v)' <=> HasBeenLive(v)
  BY <1>3 DEF HasBeenLive
<1>5. AloneInv' /\ \A o \in Requests : o # r => ReadInv(o)'
  BY <1>1, <1>2, AloneStep DEF Activating
<1>6. ReadInv(r)'
  <2>1. ReadInv(r)
    BY DEF VersionInv
  <2>2. \A f \in Facets : NamesARow(request[r], f)'
    BY <1>1, <1>2, <1>3, <1>4, <2>1 DEF ReadInv, NamesARow
  <2>3. QED
    BY <1>1, <1>2, <1>3, <2>1, <2>2 DEF ReadInv
<1>7. NamesInv'
  BY <1>3, <1>4 DEF VersionInv, NamesInv
<1>8. VersionNamesOneVocabulary'
  BY <1>3, <1>4 DEF VersionInv, VersionNamesOneVocabulary
<1>9. OneActive'
  BY <1>3 DEF OneActive
<1>10. QED
  BY <1>5, <1>6, <1>7, <1>8, <1>9 DEF VersionInv

LEMMA PromoteStep ==
  ASSUME TypeOK, VersionInv, ~raced, NEW r \in Requests, Promote(r)
  PROVE  VersionInv'
<1>1. PICK q : q = request[r]
  OBVIOUS
<1>2. /\ q.phase = "promote" /\ Goes(r, "load")
      /\ rows' = [rows EXCEPT ![q.version] = [status |-> "active", profile |-> q.profile,
                                              name |-> q.name]]
  BY <1>1 DEF Promote
<1>3. /\ q.version \in Versions /\ rows[q.version].status = "draft" /\ q.profile.ok
      /\ \A f \in Facets : NamesARow(q, f)
      /\ \A v \in Versions : rows[v].status # "active"
  BY <1>1, <1>2 DEF VersionInv, ReadInv
<1>4. /\ rows'[q.version].status = "active"
      /\ rows'[q.version].profile = q.profile
      /\ rows'[q.version].name = q.name
      /\ \A v \in Versions : v # q.version => rows'[v] = rows[v]
  BY <1>2, <1>3 DEF TypeOK
<1>5. \A v \in Versions : HasBeenLive(v)' <=> HasBeenLive(v) \/ v = q.version
  BY <1>4 DEF HasBeenLive
<1>6. /\ request'[r].phase = "load"
      /\ request'[r].activates
      /\ \A o \in Requests : o # r => request'[o] = request[o]
  BY <1>1, <1>2, GoesFacts DEF VersionInv, AloneInv, Activating
<1>7. AloneInv' /\ \A o \in Requests : ReadInv(o)'
  <2>1. request[r].phase \in Activating
    BY <1>1, <1>2 DEF Activating
  <2>2. ReadInv(r)'
    BY <1>6, IdleReadInv
  <2>3. QED
    BY <1>6, <2>1, <2>2, AloneStep
<1>8. ~HasBeenLive(q.version) /\ NamesInv /\ VersionNamesOneVocabulary
  BY <1>3 DEF HasBeenLive, VersionInv
<1>9. NamesInv'
  <2>1. ASSUME NEW v \in Versions, NEW f \in Facets, HasBeenLive(v)'
        PROVE  rows'[v].name[f] \in Versions /\ HasBeenLive(rows[v].name[f])'
    <3>1. CASE v # q.version
      BY <1>4, <1>5, <1>8, <2>1, <3>1 DEF NamesInv
    <3>2. CASE v = q.version
      <4>1. CASE q.name[f] = q.version
        BY <1>3, <1>4, <1>5, <3>2, <4>1
      <4>2. CASE q.name[f] # q.version
        BY <1>3, <1>4, <1>5, <1>8, <3>2, <4>2 DEF NamesARow, NamesInv
      <4>3. QED
        BY <4>1, <4>2
    <3>3. QED
      BY <3>1, <3>2
  <2>2. QED
    BY <2>1 DEF NamesInv
<1>10. VersionNamesOneVocabulary'
  <2>1. ASSUME NEW v \in Versions, NEW f \in Facets, v # q.version, HasBeenLive(v),
               rows[v].name[f] = q.name[f]
        PROVE  rows[v].profile.vocab[f] = q.profile.vocab[f]
    <3>1. q.name[f] # q.version
      BY <1>8, <2>1 DEF NamesInv
    <3>2. PICK w \in Versions : /\ HasBeenLive(w)
                                /\ rows[w].name[f] = q.name[f]
                                /\ rows[w].profile.vocab[f] = q.profile.vocab[f]
      BY <1>3, <3>1 DEF NamesARow
    <3>3. QED
      BY <1>8, <2>1, <3>2 DEF VersionNamesOneVocabulary
  <2>2. QED
    BY <1>4, <1>5, <1>8, <2>1 DEF VersionNamesOneVocabulary
<1>11. OneActive'
  BY <1>3, <1>4 DEF OneActive
<1>12. QED
  BY <1>7, <1>9, <1>10, <1>11 DEF VersionInv

LEMMA StartsStep ==
  ASSUME TypeOK, VersionInv, ~raced', NEW r \in Requests,
         NEW q \in Request, q.phase \in {"look", "draft"}, q.phase = "draft" => q.activates,
         Starts(r, q)
  PROVE  VersionInv'
<1>1. /\ ~raced
      /\ \A o \in Requests : Busy(o) => ~q.activates /\ ~request[o].activates
      /\ request' = [request EXCEPT ![r] = q]
      /\ ~Busy(r) /\ UNCHANGED rows
  BY DEF Starts
<1>2. request'[r] = q /\ \A o \in Requests : o # r => request'[o] = request[o]
  BY <1>1 DEF TypeOK
<1>3. AloneInv'
  <2>1. \A o \in Requests : request'[o].phase \in Activating => request'[o].activates
    BY <1>1, <1>2 DEF VersionInv, AloneInv, Activating
  <2>2. ASSUME NEW o \in Requests, NEW u \in Requests,
               request'[o].activates, Busy(o)', Busy(u)'
        PROVE  o = u
    BY <1>1, <1>2, <2>2 DEF VersionInv, AloneInv, Busy
  <2>3. QED
    BY <2>1, <2>2 DEF AloneInv
<1>4. ASSUME NEW o \in Requests
      PROVE  ReadInv(o)'
  <2>1. CASE o = r
    BY <1>2, <2>1, IdleReadInv
  <2>2. CASE o # r
    <3>1. ReadInv(o) /\ request'[o] = request[o]
      BY <1>1, <1>2, <2>2 DEF VersionInv
    <3>2. \A f \in Facets : NamesARow(request[o], f)' <=> NamesARow(request[o], f)
      BY <1>1, <3>1 DEF NamesARow, HasBeenLive
    <3>3. QED
      BY <1>1, <3>1, <3>2 DEF ReadInv
  <2>3. QED
    BY <2>1, <2>2
<1>5. NamesInv' /\ VersionNamesOneVocabulary' /\ OneActive'
  BY <1>1 DEF VersionInv, NamesInv, VersionNamesOneVocabulary, OneActive, HasBeenLive
<1>6. QED
  BY <1>3, <1>4, <1>5 DEF VersionInv

LEMMA ArrivalStep ==
  ASSUME TypeOK, VersionInv, ~raced', NEW r \in Requests,
         Submit(r) \/ Generate(r) \/ Activate(r)
  PROVE  VersionInv'
<1>1. CASE Submit(r)
  <2>1. PICK vocab \in Vocabularies, retired \in RetiredSent, ok \in BOOLEAN, activates \in BOOLEAN :
          Starts(r, [NoRequest EXCEPT !.phase = "look", !.activates = activates,
                       !.profile = [vocab |-> vocab, retired |-> retired, ok |-> ok]])
    BY <1>1 DEF Submit
  <2>2. PICK q : q = [NoRequest EXCEPT !.phase = "look", !.activates = activates,
                        !.profile = [vocab |-> vocab, retired |-> retired, ok |-> ok]]
    OBVIOUS
  <2>3. request' \in [Requests -> Request]
    BY <1>1, SubmitType DEF TypeOK
  <2>4. request'[r] = q
    BY <2>1, <2>2 DEF Starts, TypeOK
  <2>5. q \in Request /\ q.phase = "look"
    <3>1. q \in Request
      BY <2>3, <2>4
    <3>2. q.phase = "look"
      BY <2>2 DEF NoRequest
    <3>3. QED
      BY <3>1, <3>2
  <2>6. QED
    BY <2>1, <2>2, <2>5, StartsStep
<1>2. CASE Generate(r)
  <2>1. PICK vocab \in Vocabularies, ok \in BOOLEAN :
          Starts(r, [NoRequest EXCEPT !.phase = "look",
                       !.profile = [vocab |-> vocab, retired |-> {}, ok |-> ok]])
    BY <1>2 DEF Generate
  <2>2. PICK q : q = [NoRequest EXCEPT !.phase = "look",
                        !.profile = [vocab |-> vocab, retired |-> {}, ok |-> ok]]
    OBVIOUS
  <2>3. request' \in [Requests -> Request]
    BY <1>2, GenerateType DEF TypeOK
  <2>4. request'[r] = q
    BY <2>1, <2>2 DEF Starts, TypeOK
  <2>5. q \in Request
    BY <2>3, <2>4
  <2>6. q.phase = "look"
    BY <2>2 DEF NoRequest
  <2>7. QED
    BY <2>1, <2>2, <2>5, <2>6, StartsStep
<1>3. CASE Activate(r)
  <2>1. [NoRequest EXCEPT !.phase = "draft", !.activates = TRUE] \in Request
    BY SeedTypes DEF Request, Phases
  <2>2. PICK q : q = [NoRequest EXCEPT !.phase = "draft", !.activates = TRUE]
    OBVIOUS
  <2>3. q.phase = "draft" /\ q.activates
    BY <2>2 DEF NoRequest
  <2>4. QED
    BY <1>3, <2>1, <2>2, <2>3, StartsStep DEF Activate
<1>4. QED
  BY <1>1, <1>2, <1>3

LEMMA LoadStep ==
  ASSUME TypeOK, VersionInv, ~raced, NEW r \in Requests,
         Load(r) \/ setProfile(r) \/ StatementFails(r) \/ LoadFails(r)
  PROVE  VersionInv'
<1>1. CASE Load(r)
  <2>1. PICK a \in 0..MaxVersion :
          /\ request[r].phase = "load"
          /\ request' = [request EXCEPT ![r].phase = "apply", ![r].version = a,
                          ![r].profile = Stored(a).profile, ![r].name = Stored(a).name]
          /\ UNCHANGED rows
    BY <1>1 DEF Load
  <2>2. /\ request'[r].phase = "apply"
        /\ request'[r].activates = request[r].activates
        /\ \A o \in Requests : o # r => request'[o] = request[o]
    BY <2>1, RequestTypes DEF TypeOK, Request
  <2>3. Busy(r) /\ request[r].activates
    BY <2>1 DEF Busy, VersionInv, AloneInv, Activating
  <2>4. QED
    BY <2>1, <2>2, <2>3, IdleReadInv, MoveStep
<1>2. CASE setProfile(r)
  BY <1>2, EndsStep DEF setProfile, Busy
<1>3. CASE StatementFails(r)
  BY <1>3, EndsStep DEF StatementFails, Busy
<1>4. CASE LoadFails(r)
  BY <1>4, EndsStep DEF LoadFails, Busy
<1>5. QED
  BY <1>1, <1>2, <1>3, <1>4

LEMMA RebootStep ==
  ASSUME TypeOK, VersionInv, ~raced, Crash \/ Restart
  PROVE  VersionInv'
<1>1. UNCHANGED rows
  BY DEF Crash, Restart
<1>2. CASE Crash
  <2>1. \A r \in Requests : request'[r].phase = "idle"
    BY <1>2 DEF Crash, NoRequest
  <2>2. AloneInv' /\ \A r \in Requests : ReadInv(r)'
    BY <2>1, IdleReadInv DEF AloneInv, Activating, Busy
  <2>3. NamesInv' /\ VersionNamesOneVocabulary' /\ OneActive'
    BY <1>1 DEF VersionInv, NamesInv, VersionNamesOneVocabulary, OneActive, HasBeenLive
  <2>4. QED
    BY <2>2, <2>3 DEF VersionInv
<1>3. CASE Restart
  <2>1. UNCHANGED <<rows, request, raced>>
    BY <1>3 DEF Restart
  <2>2. QED
    BY <2>1 DEF VersionInv, AloneInv, Busy, ReadInv, NamesARow, NamesInv,
                VersionNamesOneVocabulary, OneActive, HasBeenLive
<1>4. QED
  BY <1>2, <1>3

\* Once an activation has overlapped another request, nothing is claimed again.
LEMMA RacedStays ==
  ASSUME [Next]_vars, raced
  PROVE  raced'
<1>1. ASSUME NEW r \in Requests, Submit(r) \/ Generate(r) \/ Activate(r)
      PROVE  raced'
  <2>1. PICK q : Starts(r, q)
    BY <1>1 DEF Submit, Generate, Activate
  <2>2. raced' = (raced \/ \E o \in Requests : Busy(o) /\ (q.activates \/ request[o].activates))
    BY <2>1 DEF Starts
  <2>3. QED
    BY <2>2
<1>2. ASSUME NEW r \in Requests, saveDraft(r) \/ activateDraft(r)
      PROVE  raced' = raced
  BY <1>2 DEF saveDraft, Look, nextVersion, Insert, Update, activateDraft, ReadDraft, ReadActive,
              Archive, Promote, Load, setProfile, history
<1>3. ASSUME NEW r \in Requests, StatementFails(r) \/ LoadFails(r)
      PROVE  raced' = raced
  BY <1>3 DEF StatementFails, LoadFails
<1>4. ASSUME Crash \/ Restart \/ UNCHANGED vars
      PROVE  raced' = raced
  BY <1>4 DEF Crash, Restart, vars, history
<1>5. QED
  BY <1>1, <1>2, <1>3, <1>4 DEF Next

THEOREM VersionsHold == Spec => []VersionInv
<1>1. Init => VersionInv
  <2>1. SUFFICES ASSUME Init PROVE VersionInv
    OBVIOUS
  <2>2. /\ \A v \in Versions : rows[v].status = "none"
        /\ \A r \in Requests : request[r].phase = "idle"
    BY <2>1 DEF Init, NoRequest
  <2>3. QED
    BY <2>2 DEF VersionInv, AloneInv, Activating, Busy, ReadInv, NamesInv,
                VersionNamesOneVocabulary, OneActive, HasBeenLive
<1>2. TypeOK /\ VersionInv /\ [Next]_vars => VersionInv'
  <2>1. SUFFICES ASSUME TypeOK, VersionInv, [Next]_vars, ~raced'
                 PROVE  VersionInv'
    BY DEF VersionInv
  <2>2. ~raced
    BY <2>1, RacedStays
  <2>3. ASSUME NEW r \in Requests, Submit(r) \/ Generate(r) \/ Activate(r)
        PROVE  VersionInv'
    BY <2>1, <2>3, ArrivalStep
  <2>4. ASSUME NEW r \in Requests, saveDraft(r)
        PROVE  VersionInv'
    BY <2>1, <2>2, <2>4, LookStep, NumberStep, InsertStep, UpdateStep DEF saveDraft
  <2>5. ASSUME NEW r \in Requests, activateDraft(r)
        PROVE  VersionInv'
    BY <2>1, <2>2, <2>5, ReadDraftStep, ReadActiveStep, ArchiveStep, PromoteStep, LoadStep
       DEF activateDraft
  <2>6. ASSUME NEW r \in Requests, StatementFails(r) \/ LoadFails(r)
        PROVE  VersionInv'
    BY <2>1, <2>2, <2>6, LoadStep
  <2>7. CASE Crash \/ Restart
    BY <2>1, <2>2, <2>7, RebootStep
  <2>8. CASE UNCHANGED vars
    BY <2>1, <2>8 DEF vars, history, VersionInv, AloneInv, Busy, ReadInv, NamesARow, NamesInv,
                      VersionNamesOneVocabulary, OneActive, HasBeenLive
  <2>9. QED
    BY <2>1, <2>3, <2>4, <2>5, <2>6, <2>7, <2>8 DEF Next
<1>3. QED
  BY <1>1, <1>2, TypeCorrect, PTL DEF Spec

\* A policy_version or tag_version says which vocabulary scored a row, for as
\* long as no activation overlaps another request (activateDraft, saveDraft).
THEOREM NamesOneVocabulary == Spec => []VersionNamesOneVocabulary
<1>1. VersionInv => VersionNamesOneVocabulary
  BY DEF VersionInv, VersionNamesOneVocabulary
<1>2. QED
  BY <1>1, VersionsHold, PTL

\* There is one active row at most, and it is valid (activateDraft).
THEOREM AtMostOneActive == Spec => []OneActive
<1>1. VersionInv => OneActive
  BY DEF VersionInv, OneActive
<1>2. QED
  BY <1>1, VersionsHold, PTL

-----------------------------------------------------------------------------
(* What has been live is never rewritten. *)

LEMMA SavesAddDrafts ==
  ASSUME TypeOK, VersionInv, ~raced, NEW r \in Requests, saveDraft(r)
  PROVE  \A v \in Versions :
           /\ HasBeenLive(v) => rows'[v] = rows[v]
           /\ HasBeenLive(v)' => HasBeenLive(v)
<1>1. CASE Look(r) \/ nextVersion(r)
  BY <1>1 DEF Look, nextVersion, HasBeenLive
<1>2. CASE Insert(r)
  <2>1. PICK v : v = request[r].version
    OBVIOUS
  <2>2. v \in Versions
    BY <1>2, <2>1 DEF Insert, VersionInv, ReadInv
  <2>3. CASE rows[v].status = "none"
    <3>1. /\ rows'[v].status = "draft"
          /\ \A w \in Versions : w # v => rows'[w] = rows[w]
      BY <1>2, <2>1, <2>2, <2>3 DEF Insert, TypeOK
    <3>2. QED
      BY <2>3, <3>1 DEF HasBeenLive
  <2>4. CASE rows[v].status # "none"
    BY <1>2, <2>1, <2>4 DEF Insert, HasBeenLive
  <2>5. QED
    BY <2>3, <2>4
<1>3. CASE Update(r)
  <2>1. PICK v : v = request[r].version
    OBVIOUS
  <2>2. v \in Versions /\ rows[v].status = "draft"
    BY <1>3, <2>1 DEF Update, VersionInv, ReadInv
  <2>3. /\ rows'[v].status = rows[v].status
        /\ \A w \in Versions : w # v => rows'[w] = rows[w]
    BY <1>3, <2>1, <2>2, RowTypes DEF Update, TypeOK, Row
  <2>4. QED
    BY <2>2, <2>3 DEF HasBeenLive
<1>4. QED
  BY <1>1, <1>2, <1>3 DEF saveDraft

LEMMA RecordStep ==
  ASSUME TypeOK, VersionInv, ~raced, Next
  PROVE  \A v \in Versions : HasBeenLive(v) => rows'[v].profile = rows[v].profile
<1>1. CASE UNCHANGED rows
  BY <1>1
<1>2. ASSUME NEW r \in Requests, saveDraft(r)
      PROVE  \A v \in Versions : HasBeenLive(v) => rows'[v].profile = rows[v].profile
  BY <1>2, SavesAddDrafts
<1>3. ASSUME NEW r \in Requests, Archive(r)
      PROVE  \A v \in Versions : HasBeenLive(v) => rows'[v].profile = rows[v].profile
  BY <1>3, RowTypes DEF Archive, Row
<1>4. ASSUME NEW r \in Requests, Promote(r)
      PROVE  \A v \in Versions : HasBeenLive(v) => rows'[v].profile = rows[v].profile
  <2>1. rows[request[r].version].status = "draft"
    BY <1>4 DEF Promote, VersionInv, ReadInv
  <2>2. \A v \in Versions : v # request[r].version => rows'[v] = rows[v]
    BY <1>4 DEF Promote, TypeOK
  <2>3. QED
    BY <2>1, <2>2 DEF HasBeenLive
<1>5. ASSUME NEW r \in Requests, activateDraft(r), ~Archive(r), ~Promote(r)
      PROVE  UNCHANGED rows
  BY <1>5 DEF activateDraft, ReadDraft, ReadActive, Load, setProfile
<1>6. ASSUME NEW r \in Requests,
             Submit(r) \/ Generate(r) \/ Activate(r) \/ StatementFails(r) \/ LoadFails(r)
      PROVE  UNCHANGED rows
  BY <1>6 DEF Submit, Generate, Activate, Starts, StatementFails, LoadFails
<1>7. CASE Crash \/ Restart
  BY <1>7 DEF Crash, Restart
<1>8. QED
  BY <1>1, <1>2, <1>3, <1>4, <1>5, <1>6, <1>7 DEF Next

\* The profile of a version that has been live is what it was, so an old score
\* can be read beside the vocabulary that gave it (saveDraft, activateDraft).
THEOREM RecordKept == Spec => RecordIsKept
<1>1. TypeOK /\ VersionInv /\ [Next]_vars
        => [~raced => \A v \in Versions : HasBeenLive(v) => rows'[v].profile = rows[v].profile]_rows
  <2>1. CASE UNCHANGED vars
    BY <2>1 DEF vars
  <2>2. CASE Next
    BY <2>2, RecordStep
  <2>3. QED
    BY <2>1, <2>2
<1>2. QED
  BY <1>1, TypeCorrect, VersionsHold, PTL DEF Spec, RecordIsKept

-----------------------------------------------------------------------------
(* Memory follows the table. *)

Reloading(r) == request[r].phase \in {"load", "apply"}

Holds(q) == [version |-> q.version, profile |-> q.profile, name |-> q.name]

\* What a reload holds in its hands is still the active row when it is applied.
LiveInv ==
  ~raced =>
    /\ up /\ ~reloadFailed /\ (\A r \in Requests : ~Reloading(r))
         => \A v \in Versions : rows[v].status = "active" => live = Stored(v)
    /\ \A r \in Requests, v \in Versions :
         request[r].phase = "apply" /\ rows[v].status = "active" => Holds(request[r]) = Stored(v)

\* A step that touches neither the active row nor a reload.
LEMMA QuietLive ==
  ASSUME LiveInv, ~raced, UNCHANGED <<up, live, reloadFailed>>,
         \A v \in Versions : rows'[v].status = "active" => rows'[v] = rows[v],
         \A r \in Requests : \/ request'[r] = request[r]
                             \/ ~Reloading(r) /\ ~Reloading(r)'
  PROVE  LiveInv'
<1>1. \A v \in Versions : rows'[v].status = "active" =>
        rows[v].status = "active" /\ Stored(v)' = Stored(v)
  BY DEF Stored
<1>2. \A r \in Requests : Reloading(r)' <=> Reloading(r)
  BY DEF Reloading
<1>3. \A r \in Requests : request'[r].phase = "apply" => request'[r] = request[r]
  BY DEF Reloading
<1>4. ASSUME up', ~reloadFailed', \A r \in Requests : ~Reloading(r)'
      PROVE  \A v \in Versions : rows'[v].status = "active" => live' = Stored(v)'
  BY <1>1, <1>2, <1>4 DEF LiveInv
<1>5. ASSUME NEW r \in Requests, NEW v \in Versions,
             request'[r].phase = "apply", rows'[v].status = "active"
      PROVE  Holds(request[r])' = Stored(v)'
  BY <1>1, <1>3, <1>5 DEF LiveInv, Holds
<1>6. QED
  BY <1>4, <1>5 DEF LiveInv

\* Where a request begins, and where saveDraft leaves it.
LEMMA ArrivalPhase ==
  ASSUME NEW r \in Requests, Submit(r) \/ Generate(r) \/ Activate(r)
  PROVE  \E q : Starts(r, q) /\ q.phase \in {"look", "draft"}
<1>1. \A vocab, retired, ok, activates :
        [NoRequest EXCEPT !.phase = "look", !.activates = activates,
           !.profile = [vocab |-> vocab, retired |-> retired, ok |-> ok]].phase = "look"
  BY DEF NoRequest
<1>2. \A vocab, ok :
        [NoRequest EXCEPT !.phase = "look",
           !.profile = [vocab |-> vocab, retired |-> {}, ok |-> ok]].phase = "look"
  BY DEF NoRequest
<1>3. [NoRequest EXCEPT !.phase = "draft", !.activates = TRUE].phase = "draft"
  BY DEF NoRequest
<1>4. CASE Submit(r)
  BY <1>1, <1>4 DEF Submit
<1>5. CASE Generate(r)
  BY <1>2, <1>5 DEF Generate
<1>6. CASE Activate(r)
  BY <1>3, <1>6 DEF Activate
<1>7. QED
  BY <1>4, <1>5, <1>6

LEMMA SavePhases ==
  ASSUME TypeOK, NEW r \in Requests, saveDraft(r)
  PROVE  /\ request'[r].phase \in {"number", "insert", "update", "draft", "idle"}
         /\ \A o \in Requests : o # r => request'[o] = request[o]
<1>1. CASE Look(r)
  BY <1>1, RequestTypes DEF Look, TypeOK, Request
<1>2. CASE nextVersion(r)
  BY <1>2, RequestTypes DEF nextVersion, TypeOK, Request
<1>3. CASE Insert(r)
  BY <1>3, SavedFacts, EndsFacts DEF Insert
<1>4. CASE Update(r)
  BY <1>4, SavedFacts DEF Update
<1>5. QED
  BY <1>1, <1>2, <1>3, <1>4 DEF saveDraft

LEMMA SaveLive ==
  ASSUME TypeOK, VersionInv, LiveInv, ~raced, NEW r \in Requests, saveDraft(r)
  PROVE  LiveInv'
<1>1. \A v \in Versions : rows'[v].status = "active" => rows'[v] = rows[v]
  BY SavesAddDrafts DEF HasBeenLive
<1>2. UNCHANGED <<up, live, reloadFailed>>
  BY DEF saveDraft, Look, nextVersion, Insert, Update, history
<1>3. ~Reloading(r)
  BY DEF saveDraft, Look, nextVersion, Insert, Update, Reloading
<1>4. ~Reloading(r)' /\ \A o \in Requests : o # r => request'[o] = request[o]
  BY SavePhases DEF Reloading
<1>5. QED
  BY <1>1, <1>2, <1>3, <1>4, QuietLive

LEMMA ReadLive ==
  ASSUME TypeOK, LiveInv, ~raced, NEW r \in Requests,
         ReadDraft(r) \/ ReadActive(r) \/ StatementFails(r)
  PROVE  LiveInv'
<1>1. UNCHANGED <<up, rows, live, reloadFailed>> /\ ~Reloading(r)
  BY DEF ReadDraft, ReadActive, StatementFails, history, Reloading
<1>2. ~Reloading(r)' /\ \A o \in Requests : o # r => request'[o] = request[o]
  <2>1. CASE ReadDraft(r)
    <3>1. PICK v \in 0..MaxVersion :
            \/ request' = [request EXCEPT ![r].phase = "active", ![r].version = v,
                                          ![r].profile = Stored(v).profile]
            \/ Ends(r)
      BY <2>1 DEF ReadDraft
    <3>2. QED
      BY <3>1, RequestTypes, EndsFacts DEF TypeOK, Request, Reloading
  <2>2. CASE ReadActive(r)
    <3>1. PICK a \in 0..MaxVersion :
            request' = [request EXCEPT
              ![r].phase = "archive",
              ![r].name = CarriedName(request[r], a),
              ![r].profile = mergeRetired(request[r].profile, a)]
      BY <2>2 DEF ReadActive
    <3>2. QED
      BY <3>1, RequestTypes DEF TypeOK, Request, Reloading
  <2>3. CASE StatementFails(r)
    BY <2>3, EndsFacts DEF StatementFails, Reloading
  <2>4. QED
    BY <2>1, <2>2, <2>3
<1>3. QED
  BY <1>1, <1>2, QuietLive

LEMMA ActivationLive ==
  ASSUME TypeOK, VersionInv, LiveInv, ~raced, NEW r \in Requests,
         Archive(r) \/ Promote(r) \/ Load(r) \/ setProfile(r) \/ LoadFails(r)
  PROVE  LiveInv'
<1>1. \A o \in Requests : o # r => request'[o].phase = "idle"
  <2>1. request[r].phase \in Activating
    BY DEF Archive, Promote, Load, setProfile, LoadFails, Activating
  <2>2. \A o \in Requests : o # r => request'[o] = request[o]
    BY DEF Archive, Promote, Load, setProfile, LoadFails, Goes, Ends, TypeOK
  <2>3. QED
    BY <2>1, <2>2, OnlyActivation
<1>2. CASE Archive(r)
  <2>1. \A v \in Versions : rows'[v].status # "active"
    BY <1>2, RowTypes DEF Archive, Row
  <2>2. QED
    BY <2>1 DEF LiveInv
<1>3. CASE Promote(r)
  <2>1. request'[r].phase = "load"
    BY <1>3, GoesFacts DEF Promote
  <2>2. QED
    BY <1>1, <2>1 DEF LiveInv, Reloading
<1>4. CASE Load(r)
  <2>1. PICK a \in 0..MaxVersion :
          /\ IsLatest(a, {"active"})
          /\ request' = [request EXCEPT ![r].phase = "apply", ![r].version = a,
                          ![r].profile = Stored(a).profile, ![r].name = Stored(a).name]
          /\ UNCHANGED rows
    BY <1>4 DEF Load
  <2>2. /\ request'[r].phase = "apply"
        /\ request'[r].version = a
        /\ request'[r].profile = Stored(a).profile
        /\ request'[r].name = Stored(a).name
    BY <2>1, RequestTypes DEF TypeOK, Request
  <2>3. ASSUME NEW v \in Versions, rows[v].status = "active"
        PROVE  v = a
    <3>1. v <= a /\ a # 0
      BY <2>1, <2>3, BoundsAssumption DEF IsLatest, Versions
    <3>2. a \in Versions /\ rows[a].status = "active"
      BY <2>1, <3>1, LatestFacts
    <3>3. QED
      BY <2>3, <3>2 DEF VersionInv, OneActive
  <2>4. ASSUME NEW v \in Versions, rows'[v].status = "active"
        PROVE  Holds(request[r])' = Stored(v)'
    <3>1. v = a /\ Stored(v)' = Stored(v)
      BY <2>1, <2>3, <2>4 DEF Stored
    <3>2. Stored(v) = [version |-> v, profile |-> rows[v].profile, name |-> rows[v].name]
      BY BoundsAssumption DEF Stored, Versions
    <3>3. QED
      BY <2>2, <3>1, <3>2 DEF Holds
  <2>5. QED
    BY <1>1, <2>2, <2>4 DEF LiveInv, Reloading
<1>5. CASE setProfile(r)
  <2>1. request[r].phase = "apply" /\ live' = Holds(request[r]) /\ UNCHANGED rows
    BY <1>5 DEF setProfile, Holds
  <2>2. request'[r].phase = "idle"
    BY <1>5, EndsFacts DEF setProfile
  <2>3. \A v \in Versions : rows'[v].status = "active" => live' = Stored(v)'
    BY <2>1 DEF LiveInv, Stored
  <2>4. QED
    BY <1>1, <2>2, <2>3 DEF LiveInv
<1>6. CASE LoadFails(r)
  <2>1. reloadFailed'
    BY <1>6 DEF LoadFails
  <2>2. request'[r].phase = "idle"
    BY <1>6, EndsFacts DEF LoadFails
  <2>3. QED
    BY <1>1, <2>1, <2>2 DEF LiveInv
<1>7. QED
  BY <1>2, <1>3, <1>4, <1>5, <1>6

LEMMA RebootLive ==
  ASSUME TypeOK, VersionInv, LiveInv, ~raced, Crash \/ Restart
  PROVE  LiveInv'
<1>1. CASE Crash
  BY <1>1 DEF Crash, LiveInv, NoRequest
<1>2. CASE Restart
  <2>1. UNCHANGED <<rows, request>>
    BY <1>2 DEF Restart
  <2>2. \A r \in Requests, v \in Versions :
          request'[r].phase = "apply" /\ rows'[v].status = "active"
            => Holds(request[r])' = Stored(v)'
    BY <2>1 DEF LiveInv, Holds, Stored
  <2>3. CASE reloadFailed'
    BY <2>2, <2>3 DEF LiveInv
  <2>4. CASE ~reloadFailed'
    <3>1. PICK a \in 0..MaxVersion : IsLatest(a, {"active"}) /\ live' = Stored(a)
      BY <1>2, <2>4 DEF Restart
    <3>2. ASSUME NEW v \in Versions, rows[v].status = "active"
          PROVE  v = a
      <4>1. v <= a /\ a # 0
        BY <3>1, <3>2, BoundsAssumption DEF IsLatest, Versions
      <4>2. a \in Versions /\ rows[a].status = "active"
        BY <3>1, <4>1, LatestFacts
      <4>3. QED
        BY <3>2, <4>2 DEF VersionInv, OneActive
    <3>3. \A v \in Versions : rows'[v].status = "active" => live' = Stored(v)'
      BY <2>1, <3>1, <3>2 DEF Stored
    <3>4. QED
      BY <2>2, <3>3 DEF LiveInv
  <2>5. QED
    BY <2>3, <2>4
<1>3. QED
  BY <1>1, <1>2

\* LiveInv is kept by every step (hydrate, and what may happen around it).
THEOREM LiveHolds == Spec => []LiveInv
<1>1. Init => LiveInv
  <2>1. SUFFICES ASSUME Init PROVE LiveInv
    OBVIOUS
  <2>2. \A v \in Versions : rows[v].status = "none"
    BY <2>1 DEF Init
  <2>3. QED
    BY <2>2 DEF LiveInv
<1>2. TypeOK /\ VersionInv /\ LiveInv /\ [Next]_vars => LiveInv'
  <2>1. SUFFICES ASSUME TypeOK, VersionInv, LiveInv, [Next]_vars, ~raced'
                 PROVE  LiveInv'
    BY DEF LiveInv
  <2>2. ~raced
    BY <2>1, RacedStays
  <2>3. ASSUME NEW r \in Requests, Submit(r) \/ Generate(r) \/ Activate(r)
        PROVE  LiveInv'
    <3>1. PICK q : Starts(r, q) /\ q.phase \in {"look", "draft"}
      BY <2>3, ArrivalPhase
    <3>2. /\ UNCHANGED <<up, rows, live, reloadFailed>>
          /\ ~Reloading(r) /\ ~Reloading(r)'
          /\ \A o \in Requests : o # r => request'[o] = request[o]
      BY <2>1, <3>1 DEF Starts, Busy, Reloading, TypeOK
    <3>3. QED
      BY <2>1, <2>2, <3>2, QuietLive
  <2>4. ASSUME NEW r \in Requests, saveDraft(r)
        PROVE  LiveInv'
    BY <2>1, <2>2, <2>4, SaveLive
  <2>5. ASSUME NEW r \in Requests, activateDraft(r) \/ StatementFails(r) \/ LoadFails(r)
        PROVE  LiveInv'
    BY <2>1, <2>2, <2>5, ReadLive, ActivationLive DEF activateDraft
  <2>6. CASE Crash \/ Restart
    BY <2>1, <2>2, <2>6, RebootLive
  <2>7. CASE UNCHANGED vars
    BY <2>1, <2>7 DEF vars, history, LiveInv, Reloading, Holds, Stored
  <2>8. QED
    BY <2>1, <2>3, <2>4, <2>5, <2>6, <2>7 DEF Next
<1>3. QED
  BY <1>1, <1>2, TypeCorrect, VersionsHold, PTL DEF Spec

\* What the process scores with is the active row, unless it is being reloaded
\* or the reload failed (activateDraft, hydrate).
THEOREM LiveFollows == Spec => []LiveIsActive
<1>1. LiveInv => LiveIsActive
  BY DEF LiveInv, LiveIsActive, Reloading
<1>2. QED
  BY <1>1, LiveHolds, PTL

-----------------------------------------------------------------------------
(* What a new profile costs, and what it keeps. *)

\* A profile p named n, beside l, which is live: a part of it has a new name exactly
\* when it is a new vocabulary, and what it drops it keeps as retired.
Follows(l, p, n) ==
  \A f \in Facets :
    /\ n[f] = l.name[f] <=> p.vocab[f] = l.profile.vocab[f]
    /\ l.profile.vocab[f] \ p.vocab[f] \subseteq p.retired

ActiveRow == \E v \in Versions : rows[v].status = "active"

\* From the moment an activation has compared its draft with the active row until
\* it is live, what it holds, or has stored, follows what is live.
FreeInv ==
  ~raced /\ ~gap =>
    /\ ~up => ~reloadFailed /\ \A r \in Requests : ~Busy(r)
    /\ ~up \/ reloadFailed => live.version = 0
    /\ live.version # 0 /\ (\A r \in Requests : request[r].phase # "promote") => ActiveRow
    /\ \A r \in Requests :
         request[r].phase = "apply" /\ request[r].version # 0 => ActiveRow
    /\ live.version # 0 =>
         \A r \in Requests :
           /\ \/ request[r].phase \in {"archive", "promote"}
              \/ request[r].phase = "apply" /\ request[r].version # 0
              => Follows(live, request[r].profile, request[r].name)
           /\ request[r].phase = "load" =>
                \A v \in Versions :
                  rows[v].status = "active" => Follows(live, rows[v].profile, rows[v].name)

Comparing == {"archive", "promote", "load", "apply"}

\* A step that takes no request into, or out of, the second half of an activation.
LEMMA QuietFree ==
  ASSUME FreeInv, ~raced, ~gap, UNCHANGED <<up, live, reloadFailed>>,
         \A v \in Versions : rows[v].status = "active" => rows'[v] = rows[v],
         \A v \in Versions : rows'[v].status = "active" => rows[v].status = "active",
         \A r \in Requests : \/ request'[r] = request[r]
                             \/ /\ up
                                /\ request[r].phase # "promote"
                                /\ request'[r].phase \notin Comparing
  PROVE  FreeInv'
<1>1. ActiveRow' <=> ActiveRow
  BY DEF ActiveRow
<1>2. \A r \in Requests : request'[r].phase = "promote" <=> request[r].phase = "promote"
  BY DEF Comparing
<1>3. \A r \in Requests : request'[r].phase \in Comparing => request'[r] = request[r]
  OBVIOUS
<1>4. live' = live
  OBVIOUS
<1>5. ~up' => ~reloadFailed' /\ \A r \in Requests : ~Busy(r)'
  BY DEF FreeInv, Busy
<1>6. ~up' \/ reloadFailed' => live'.version = 0
  BY DEF FreeInv
<1>7. live'.version # 0 /\ (\A r \in Requests : request'[r].phase # "promote") => ActiveRow'
  BY <1>1, <1>2 DEF FreeInv
<1>8. ASSUME NEW r \in Requests, request'[r].phase = "apply", request'[r].version # 0
      PROVE  ActiveRow'
  BY <1>1, <1>3, <1>8 DEF FreeInv, Comparing
<1>9. ASSUME live'.version # 0, NEW r \in Requests,
             \/ request'[r].phase \in {"archive", "promote"}
             \/ request'[r].phase = "apply" /\ request'[r].version # 0
      PROVE  Follows(live', request'[r].profile, request'[r].name)
  <2>1. request'[r] = request[r]
    BY <1>3, <1>9 DEF Comparing
  <2>2. Follows(live, request[r].profile, request[r].name)
    BY <1>9, <2>1 DEF FreeInv
  <2>3. QED
    BY <1>4, <2>1, <2>2
<1>10. ASSUME live'.version # 0, NEW r \in Requests, request'[r].phase = "load",
              NEW v \in Versions, rows'[v].status = "active"
       PROVE  Follows(live', rows'[v].profile, rows'[v].name)
  <2>1. request'[r] = request[r] /\ rows[v].status = "active" /\ rows'[v] = rows[v]
    BY <1>3, <1>10 DEF Comparing
  <2>2. Follows(live, rows[v].profile, rows[v].name)
    BY <1>10, <2>1 DEF FreeInv
  <2>3. QED
    BY <1>4, <2>1, <2>2
<1>11. QED
  BY <1>5, <1>6, <1>7, <1>8, <1>9, <1>10 DEF FreeInv

\* The step of an activation, beside which no request is busy.
LEMMA OthersIdle ==
  ASSUME TypeOK, VersionInv, ~raced, NEW r \in Requests,
         Archive(r) \/ Promote(r) \/ Load(r) \/ setProfile(r) \/ LoadFails(r)
  PROVE  /\ \A o \in Requests : o # r => request'[o].phase = "idle"
         /\ Busy(r)
<1>1. request[r].phase \in Activating
  BY DEF Archive, Promote, Load, setProfile, LoadFails, Activating
<1>2. \A o \in Requests : o # r => request'[o] = request[o]
  BY DEF Archive, Promote, Load, setProfile, LoadFails, Goes, Ends, TypeOK
<1>3. QED
  BY <1>1, <1>2, OnlyActivation DEF Busy, Activating

\* The comparison: live is the active row, whose names are names of rows that have
\* been live, and the draft's own number is not one of them.
LEMMA ReadActiveFree ==
  ASSUME TypeOK, VersionInv, LiveInv, FreeInv, ~raced, ~gap, NEW r \in Requests, ReadActive(r)
  PROVE  FreeInv'
<1>1. PICK q : q = request[r]
  OBVIOUS
<1>2. PICK a \in 0..MaxVersion :
        /\ q.phase = "active"
        /\ IsLatest(a, {"active"})
        /\ request' = [request EXCEPT
             ![r].phase = "archive",
             ![r].name = CarriedName(q, a),
             ![r].profile = mergeRetired(q.profile, a)]
        /\ UNCHANGED <<up, rows, live, history, arrivals, faults>>
  BY <1>1 DEF ReadActive
<1>3. /\ request'[r].phase = "archive"
      /\ request'[r].name = CarriedName(q, a)
      /\ request'[r].profile = mergeRetired(q.profile, a)
      /\ \A o \in Requests : o # r => request'[o] = request[o]
  BY <1>1, <1>2, RequestTypes DEF TypeOK, Request
<1>4. request'[r].profile.vocab = q.profile.vocab
  BY <1>1, <1>3, RequestTypes, MergeRetiredType
<1>5. /\ \A o \in Requests : o # r => request'[o].phase = "idle"
      /\ Busy(r) /\ up
  BY <1>1, <1>2, <1>3, OnlyActivation DEF FreeInv, Busy, Activating
<1>6. \A o \in Requests : request[o].phase # "promote" /\ ~Reloading(o)
  BY <1>1, <1>2, OnlyActivation DEF Reloading, Activating
<1>7. q.version \in Versions /\ rows[q.version].status = "draft"
  BY <1>1, <1>2 DEF VersionInv, ReadInv
<1>8. ASSUME live.version # 0
      PROVE  ActiveRow /\ Follows(live, request'[r].profile, request'[r].name)
  <2>1. ActiveRow /\ ~reloadFailed
    BY <1>6, <1>8 DEF FreeInv
  <2>2. PICK v \in Versions : rows[v].status = "active"
    BY <2>1 DEF ActiveRow
  <2>3. a \in Versions /\ rows[a].status = "active"
    <3>1. a # 0
      BY <1>2, <2>2, BoundsAssumption DEF IsLatest, Versions
    <3>2. QED
      BY <1>2, <3>1, LatestFacts
  <2>4. live = Stored(a)
    BY <1>5, <1>6, <2>1, <2>3 DEF LiveInv
  <2>5. live.profile = rows[a].profile /\ live.name = rows[a].name /\ a # 0
    BY <2>3, <2>4, StoredIsRow
  <2>6. ASSUME NEW f \in Facets
        PROVE  CarriedName(q, a)[f] = live.name[f] <=> q.profile.vocab[f] = live.profile.vocab[f]
    <3>1. CASE q.profile.vocab[f] = live.profile.vocab[f]
      <4>1. CarriedName(q, a)[f] = Stored(a).name[f]
        BY <2>4, <2>5, <3>1 DEF CarriedName
      <4>2. QED
        BY <2>4, <3>1, <4>1
    <3>2. CASE q.profile.vocab[f] # live.profile.vocab[f]
      <4>1. CarriedName(q, a)[f] = q.version
        BY <2>4, <2>5, <3>2 DEF CarriedName
      <4>2. HasBeenLive(a) /\ rows[a].name[f] \in Versions /\ HasBeenLive(rows[a].name[f])
        BY <2>3 DEF VersionInv, NamesInv, HasBeenLive
      <4>3. rows[a].name[f] # q.version
        BY <1>7, <4>2 DEF HasBeenLive
      <4>4. QED
        BY <2>5, <3>2, <4>1, <4>3
    <3>3. QED
      BY <3>1, <3>2
  <2>7. ASSUME NEW f \in Facets
        PROVE  live.profile.vocab[f] \ q.profile.vocab[f] \subseteq request'[r].profile.retired
    <3>1. rows[a].profile.vocab[f] \ q.profile.vocab[f] \subseteq mergeRetired(q.profile, a).retired
      BY <1>1, <2>3, <2>5, RequestTypes, MergeRetiredKeeps
    <3>2. QED
      BY <1>3, <2>5, <3>1
  <2>8. QED
    BY <1>3, <1>4, <2>1, <2>6, <2>7 DEF Follows
<1>9. ASSUME live'.version # 0
      PROVE  ActiveRow' /\ Follows(live', request'[r].profile, request'[r].name)
  BY <1>2, <1>8, <1>9 DEF ActiveRow
<1>10. up' /\ (reloadFailed' => live'.version = 0)
  BY <1>2, <1>5 DEF FreeInv, history
<1>11. QED
  BY <1>3, <1>5, <1>9, <1>10 DEF FreeInv

\* The two updates: the comparison is handed on to the row.
LEMMA UpdatesFree ==
  ASSUME TypeOK, VersionInv, FreeInv, ~raced, ~gap, NEW r \in Requests,
         Archive(r) \/ Promote(r)
  PROVE  FreeInv'
<1>1. /\ \A o \in Requests : o # r => request'[o].phase = "idle"
      /\ Busy(r) /\ up
  BY OthersIdle DEF FreeInv
<1>2. UNCHANGED <<up, live, reloadFailed>>
  BY DEF Archive, Promote, history
<1>3. CASE Archive(r)
  <2>1. request[r].phase = "archive" /\ Goes(r, "promote")
    BY <1>3 DEF Archive
  <2>2. /\ request'[r].phase = "promote"
        /\ request'[r].profile = request[r].profile
        /\ request'[r].name = request[r].name
    BY <2>1, GoesFacts
  <2>3. live.version # 0 => Follows(live, request[r].profile, request[r].name)
    BY <2>1 DEF FreeInv
  <2>4. QED
    BY <1>1, <1>2, <2>2, <2>3 DEF FreeInv
<1>4. CASE Promote(r)
  <2>1. PICK q : q = request[r]
    OBVIOUS
  <2>2. /\ q.phase = "promote" /\ Goes(r, "load")
        /\ rows' = [rows EXCEPT ![q.version] = [status |-> "active", profile |-> q.profile,
                                                name |-> q.name]]
    BY <1>4, <2>1 DEF Promote
  <2>3. q.version \in Versions /\ \A v \in Versions : rows[v].status # "active"
    BY <2>1, <2>2 DEF VersionInv, ReadInv
  <2>4. /\ rows'[q.version].status = "active"
        /\ rows'[q.version].profile = q.profile
        /\ rows'[q.version].name = q.name
        /\ \A v \in Versions : v # q.version => rows'[v] = rows[v]
    BY <2>2, <2>3 DEF TypeOK
  <2>5. request'[r].phase = "load"
    BY <2>2, GoesFacts
  <2>6. live.version # 0 => Follows(live, q.profile, q.name)
    BY <2>1, <2>2 DEF FreeInv
  <2>7. ActiveRow'
    BY <2>3, <2>4 DEF ActiveRow
  <2>8. \A v \in Versions : rows'[v].status = "active" => v = q.version
    BY <2>3, <2>4
  <2>9. QED
    BY <1>1, <1>2, <2>4, <2>5, <2>6, <2>7, <2>8 DEF FreeInv
<1>5. QED
  BY <1>3, <1>4

\* The reload: from the row to memory.
LEMMA ReloadFree ==
  ASSUME TypeOK, VersionInv, FreeInv, ~raced, ~gap, NEW r \in Requests,
         Load(r) \/ setProfile(r) \/ LoadFails(r)
  PROVE  FreeInv'
<1>1. /\ \A o \in Requests : o # r => request'[o].phase = "idle"
      /\ Busy(r) /\ up
  BY OthersIdle DEF FreeInv
<1>2. CASE Load(r)
  <2>1. PICK a \in 0..MaxVersion :
          /\ request[r].phase = "load"
          /\ IsLatest(a, {"active"})
          /\ request' = [request EXCEPT ![r].phase = "apply", ![r].version = a,
                          ![r].profile = Stored(a).profile, ![r].name = Stored(a).name]
          /\ UNCHANGED <<up, rows, live, history, arrivals, faults>>
    BY <1>2 DEF Load
  <2>2. /\ request'[r].phase = "apply"
        /\ request'[r].version = a
        /\ request'[r].profile = Stored(a).profile
        /\ request'[r].name = Stored(a).name
    BY <2>1, RequestTypes DEF TypeOK, Request
  <2>3. a # 0 => a \in Versions /\ rows[a].status = "active"
    BY <2>1, LatestFacts
  <2>4. \A o \in Requests : request[o].phase # "promote"
    BY <2>1, OnlyActivation DEF Activating
  <2>5. live.version # 0 => ActiveRow
    BY <2>4 DEF FreeInv
  <2>6. ASSUME a # 0
        PROVE  /\ ActiveRow
               /\ live.version # 0 => Follows(live, Stored(a).profile, Stored(a).name)
    <3>1. ActiveRow
      BY <2>3, <2>6 DEF ActiveRow
    <3>2. Stored(a).profile = rows[a].profile /\ Stored(a).name = rows[a].name
      BY <2>3, <2>6, StoredIsRow
    <3>3. live.version # 0 => Follows(live, rows[a].profile, rows[a].name)
      BY <2>1, <2>3, <2>6 DEF FreeInv
    <3>4. QED
      BY <3>1, <3>2, <3>3
  <2>7. UNCHANGED <<up, live, reloadFailed>> /\ ActiveRow' = ActiveRow
    BY <2>1 DEF history, ActiveRow
  <2>8. QED
    BY <1>1, <2>2, <2>5, <2>6, <2>7 DEF FreeInv
<1>3. CASE setProfile(r)
  <2>1. /\ request[r].phase = "apply" /\ live' = Holds(request[r]) /\ ~reloadFailed' /\ up' = up
        /\ UNCHANGED rows
    BY <1>3 DEF setProfile, Holds
  <2>2. request'[r].phase = "idle"
    BY <1>3, EndsFacts DEF setProfile
  <2>3. live'.version # 0 => ActiveRow'
    BY <2>1 DEF FreeInv, Holds, ActiveRow
  <2>4. QED
    BY <1>1, <2>1, <2>2, <2>3 DEF FreeInv
<1>4. CASE LoadFails(r)
  <2>1. live'.version = 0 /\ up' = up
    BY <1>4 DEF LoadFails, Seed
  <2>2. request'[r].phase = "idle"
    BY <1>4, EndsFacts DEF LoadFails
  <2>3. QED
    BY <1>1, <2>1, <2>2 DEF FreeInv
<1>5. QED
  BY <1>2, <1>3, <1>4

\* A crash loses what was under way, and a restart begins with what is active.
LEMMA RebootFree ==
  ASSUME TypeOK, FreeInv, ~raced, ~gap, Crash \/ Restart
  PROVE  FreeInv'
<1>1. CASE Crash
  <2>1. /\ live'.version = 0 /\ ~reloadFailed'
        /\ \A r \in Requests : request'[r].phase = "idle"
    BY <1>1 DEF Crash, Seed, NoRequest
  <2>2. QED
    BY <2>1 DEF FreeInv, Busy
<1>2. CASE Restart
  <2>1. up' /\ \A r \in Requests : request'[r].phase = "idle"
    BY <1>2 DEF Restart, FreeInv, Busy
  <2>2. CASE reloadFailed'
    <3>1. ~reloadFailed
      BY <1>2 DEF Restart, FreeInv
    <3>2. live' = Seed
      BY <1>2, <2>2, <3>1 DEF Restart
    <3>3. live'.version = 0
      BY <3>2 DEF Seed
    <3>4. QED
      BY <2>1, <3>3 DEF FreeInv
  <2>3. CASE ~reloadFailed'
    <3>1. PICK a \in 0..MaxVersion : IsLatest(a, {"active"}) /\ live' = Stored(a)
      BY <1>2, <2>3 DEF Restart
    <3>2. a # 0 => a \in Versions /\ rows[a].status = "active"
      BY <3>1, LatestFacts
    <3>3. live'.version = a
      BY <3>1, <3>2, StoredIsRow DEF Stored, Seed
    <3>4. live'.version # 0 => ActiveRow'
      BY <1>2, <3>2, <3>3 DEF Restart, ActiveRow
    <3>5. QED
      BY <2>1, <2>3, <3>4 DEF FreeInv
  <2>4. QED
    BY <2>2, <2>3
<1>3. QED
  BY <1>1, <1>2

LEMMA GapStays ==
  ASSUME [Next]_vars, gap
  PROVE  gap'
<1>1. ASSUME NEW r \in Requests, Submit(r) \/ Generate(r) \/ Activate(r)
      PROVE  gap'
  BY <1>1 DEF Submit, Generate, Activate, Starts
<1>2. ASSUME NEW r \in Requests, saveDraft(r) \/ activateDraft(r)
      PROVE  gap' = gap
  BY <1>2 DEF saveDraft, Look, nextVersion, Insert, Update, activateDraft, ReadDraft, ReadActive,
              Archive, Promote, Load, setProfile, history
<1>3. ASSUME NEW r \in Requests, StatementFails(r) \/ LoadFails(r)
      PROVE  gap'
  BY <1>3 DEF StatementFails, LoadFails
<1>4. ASSUME Crash \/ Restart \/ UNCHANGED vars
      PROVE  gap'
  BY <1>4 DEF Crash, Restart, vars, history
<1>5. QED
  BY <1>1, <1>2, <1>3, <1>4 DEF Next

\* The steps outside the second half of an activation.
LEMMA OutsideFree ==
  ASSUME TypeOK, VersionInv, FreeInv, ~raced, ~gap, ~gap', NEW r \in Requests,
         \/ Submit(r) \/ Generate(r) \/ Activate(r)
         \/ saveDraft(r) \/ ReadDraft(r) \/ StatementFails(r)
  PROVE  FreeInv'
<1>1. CASE Submit(r) \/ Generate(r) \/ Activate(r)
  <2>1. PICK q : Starts(r, q) /\ q.phase \in {"look", "draft"}
    BY <1>1, ArrivalPhase
  <2>2. /\ UNCHANGED <<up, rows, live, reloadFailed>> /\ up
        /\ request[r].phase = "idle" /\ request'[r].phase \in {"look", "draft"}
        /\ \A o \in Requests : o # r => request'[o] = request[o]
    BY <2>1 DEF Starts, Busy, TypeOK
  <2>3. QED
    BY <2>2, QuietFree DEF Comparing
<1>2. CASE saveDraft(r)
  <2>1. /\ \A v \in Versions : rows[v].status = "active" => rows'[v] = rows[v]
        /\ \A v \in Versions : rows'[v].status = "active" => rows[v].status = "active"
    BY <1>2, SavesAddDrafts DEF HasBeenLive
  <2>2. UNCHANGED <<up, live, reloadFailed>> /\ request[r].phase \in {"look", "number", "insert", "update"}
    BY <1>2 DEF saveDraft, Look, nextVersion, Insert, Update, history
  <2>3. /\ request'[r].phase \notin Comparing
        /\ \A o \in Requests : o # r => request'[o] = request[o]
    BY <1>2, SavePhases DEF Comparing
  <2>4. up
    BY <2>2 DEF FreeInv, Busy
  <2>5. QED
    BY <2>1, <2>2, <2>3, <2>4, QuietFree
<1>3. CASE ReadDraft(r)
  <2>1. /\ UNCHANGED <<up, rows, live, reloadFailed>> /\ request[r].phase = "draft"
    BY <1>3 DEF ReadDraft, history
  <2>2. PICK v \in 0..MaxVersion :
          \/ request' = [request EXCEPT ![r].phase = "active", ![r].version = v,
                                        ![r].profile = Stored(v).profile]
          \/ Ends(r)
    BY <1>3 DEF ReadDraft
  <2>3. /\ request'[r].phase \in {"active", "idle"}
        /\ \A o \in Requests : o # r => request'[o] = request[o]
    BY <2>2, RequestTypes, EndsFacts DEF TypeOK, Request
  <2>4. up
    BY <2>1 DEF FreeInv, Busy
  <2>5. QED
    BY <2>1, <2>3, <2>4, QuietFree DEF Comparing
<1>4. CASE StatementFails(r)
  <2>1. /\ UNCHANGED <<up, rows, live, reloadFailed>>
        /\ request[r].phase \notin {"idle", "promote"}
        /\ Ends(r)
    BY <1>4 DEF StatementFails
  <2>2. /\ request'[r].phase = "idle"
        /\ \A o \in Requests : o # r => request'[o] = request[o]
    BY <2>1, EndsFacts
  <2>3. up
    BY <2>1 DEF FreeInv, Busy
  <2>4. QED
    BY <2>1, <2>2, <2>3, QuietFree DEF Comparing
<1>5. QED
  BY <1>1, <1>2, <1>3, <1>4

\* What a comparison found stands until it is live.
THEOREM FreeHolds == Spec => []FreeInv
<1>1. Init => FreeInv
  BY DEF Init, FreeInv, Seed, Busy, NoRequest
<1>2. TypeOK /\ VersionInv /\ LiveInv /\ FreeInv /\ [Next]_vars => FreeInv'
  <2>1. SUFFICES ASSUME TypeOK, VersionInv, LiveInv, FreeInv, [Next]_vars
                 PROVE  FreeInv'
    OBVIOUS
  <2>2. CASE ~raced' /\ ~gap'
    <3>1. ~raced /\ ~gap
      BY <2>1, <2>2, RacedStays, GapStays
    <3>2. ASSUME NEW r \in Requests,
                 \/ Submit(r) \/ Generate(r) \/ Activate(r)
                 \/ saveDraft(r) \/ ReadDraft(r) \/ StatementFails(r)
          PROVE  FreeInv'
      BY <2>1, <2>2, <3>1, <3>2, OutsideFree
    <3>3. ASSUME NEW r \in Requests, activateDraft(r) \/ LoadFails(r), ~ReadDraft(r)
          PROVE  FreeInv'
      BY <2>1, <3>1, <3>3, ReadActiveFree, UpdatesFree, ReloadFree DEF activateDraft
    <3>4. CASE Crash \/ Restart
      BY <2>1, <3>1, <3>4, RebootFree
    <3>5. CASE UNCHANGED vars
      BY <2>1, <3>1, <3>5, QuietFree DEF vars, history
    <3>6. QED
      BY <2>1, <3>2, <3>3, <3>4, <3>5 DEF Next
  <2>3. CASE raced' \/ gap'
    BY <2>3 DEF FreeInv
  <2>4. QED
    BY <2>2, <2>3
<1>3. QED
  BY <1>1, <1>2, TypeCorrect, VersionsHold, LiveHolds, PTL DEF Spec

\* What is live is followed by what has been compared with it.
LEMMA LiveIsFollowed ==
  ASSUME TypeOK, FreeInv, [Next]_vars, live' # live,
         ~raced, ~gap, live.version # 0, live'.version # 0
  PROVE  Follows(live, live'.profile, live'.name)
<1>1. CASE Crash
  BY <1>1 DEF Crash, Seed
<1>2. CASE Restart
  BY <1>2 DEF Restart, FreeInv
<1>3. ASSUME NEW r \in Requests, LoadFails(r)
      PROVE  FALSE
  BY <1>3 DEF LoadFails, Seed
<1>4. ASSUME NEW r \in Requests, setProfile(r)
      PROVE  Follows(live, live'.profile, live'.name)
  <2>1. request[r].phase = "apply" /\ live' = Holds(request[r])
    BY <1>4 DEF setProfile, Holds
  <2>2. live'.version = request[r].version /\ live'.profile = request[r].profile
          /\ live'.name = request[r].name
    BY <2>1 DEF Holds
  <2>3. QED
    BY <2>1, <2>2 DEF FreeInv
<1>5. ASSUME NEW r \in Requests, saveDraft(r) \/ (activateDraft(r) /\ ~setProfile(r))
      PROVE  UNCHANGED live
  BY <1>5 DEF saveDraft, Look, nextVersion, Insert, Update, activateDraft, ReadDraft,
              ReadActive, Archive, Promote, Load
<1>6. ASSUME NEW r \in Requests,
             Submit(r) \/ Generate(r) \/ Activate(r) \/ StatementFails(r)
      PROVE  UNCHANGED live
  BY <1>6 DEF Submit, Generate, Activate, Starts, StatementFails
<1>7. QED
  BY <1>1, <1>2, <1>3, <1>4, <1>5, <1>6 DEF Next, vars

\* An edit of labels costs nothing, and a change of a vocabulary a re-analysis,
\* unless an activation overlapped another request or failed between its two
\* updates (activateDraft: the fingerprints, policy_version and tag_version).
THEOREM LabelFixFree == Spec => LabelFixIsFree
<1>1. TypeOK /\ FreeInv /\ [Next]_vars
        => [~raced /\ ~gap /\ live.version # 0 /\ live'.version # 0
              => \A f \in Facets : live'.name[f] = live.name[f]
                                     <=> live'.profile.vocab[f] = live.profile.vocab[f]]_live
  BY LiveIsFollowed DEF Follows
<1>2. QED
  BY <1>1, TypeCorrect, FreeHolds, PTL DEF Spec, LabelFixIsFree

\* What goes live keeps, as retired, what it drops of what was live before it, on
\* the same conditions (activateDraft: mergeRetired).
THEOREM LabelsKept == Spec => RemovedKeepLabels
<1>1. TypeOK /\ FreeInv /\ [Next]_vars
        => [~raced /\ ~gap /\ live.version # 0 /\ live'.version # 0
              => \A f \in Facets :
                   live.profile.vocab[f] \ live'.profile.vocab[f]
                     \subseteq live'.profile.retired]_live
  BY LiveIsFollowed DEF Follows
<1>2. QED
  BY <1>1, TypeCorrect, FreeHolds, PTL DEF Spec, RemovedKeepLabels
=============================================================================
