---------------------------- MODULE ProfileVersions ----------------------------
(***************************************************************************)
(* The business profile that every AI prompt and score is built from: the  *)
(* versions in app_business_profile, the draft that is saved, generated    *)
(* and activated over HTTP (lib/businessProfile.js,                        *)
(* routes/businessProfile.js, and the business step of routes/setup.js),   *)
(* and the copy each process scores with (lib/profileStore.js).            *)
(*                                                                         *)
(* A profile is two vocabularies, the one the analysis prompt sees and the *)
(* tags; an entry stands for everything that is hashed into a fingerprint, *)
(* so two profiles have one fingerprint when the vocabulary is the same.   *)
(* Labels are not hashed and left out: an edit of a label is a save with   *)
(* an unchanged vocabulary.                                                *)
(***************************************************************************)
EXTENDS Integers

CONSTANTS
  Facets,        \* "policy" and "tag": what is versioned apart
  Entries,       \* issue types, next steps and tags
  Vocabularies,  \* what an operator or the AI may write
  SeedVocabulary,\* of the bundled generic profile
  Requests,      \* the HTTP requests that may be under way at once
  MaxVersion,    \* bound: versions
  MaxArrivals,   \* bound: requests
  MaxFaults      \* bound: crashes and failed statements

ASSUME VocabularyAssumption ==
  /\ Vocabularies \subseteq [Facets -> SUBSET Entries]
  /\ SeedVocabulary \in [Facets -> SUBSET Entries]
ASSUME BoundsAssumption ==
  MaxVersion \in Nat /\ MaxArrivals \in Nat /\ MaxFaults \in Nat

-----------------------------------------------------------------------------
VARIABLES
  up,            \* the server process runs
  rows,          \* app_business_profile, by version
  live,          \* profileStore.js: the profile in memory
  request,       \* what each HTTP request is doing
  raced,         \* an activation has overlapped another request
  gap,           \* an activation ended between its two updates
  reloadFailed,  \* the last hydrate fell back to the bundled profile
  arrivals, faults

history == <<raced, gap, reloadFailed>>
vars == <<up, rows, live, request, history, arrivals, faults>>

Versions == 1..MaxVersion

\* retired: the removed entries whose labels are kept.  ok: validateProfile
\* finds no error in it as it is stored.
Profile == [vocab : [Facets -> SUBSET Entries], retired : SUBSET Entries, ok : BOOLEAN]

\* policy_version and tag_version: "p3" and "t3" are 3.  0 is "seed", or the
\* empty string of a draft.
Name == [Facets -> 0..MaxVersion]

NoName == [f \in Facets |-> 0]

\* "none" when the table has no such version.
Row == [status : {"none", "draft", "active", "archived"}, profile : Profile, name : Name]

Loaded == [version : 0..MaxVersion, profile : Profile, name : Name]

Seed == [version |-> 0, name |-> NoName,
         profile |-> [vocab |-> SeedVocabulary, retired |-> {}, ok |-> TRUE]]

Phases == {"idle", "look", "number", "insert", "update",
           "draft", "active", "archive", "promote", "load", "apply"}

\* A request is named for the statement it is waiting for.
Request == [phase : Phases, activates : BOOLEAN, version : 0..MaxVersion,
            profile : Profile, name : Name]

NoRequest == [phase |-> "idle", activates |-> FALSE, version |-> 0,
              profile |-> Seed.profile, name |-> NoName]

TypeOK ==
  /\ up \in BOOLEAN
  /\ rows \in [Versions -> Row]
  /\ live \in Loaded
  /\ request \in [Requests -> Request]
  /\ raced \in BOOLEAN
  /\ gap \in BOOLEAN
  /\ reloadFailed \in BOOLEAN
  /\ arrivals \in Nat
  /\ faults \in Nat

Init ==
  /\ up = TRUE
  /\ rows = [v \in Versions |-> [status |-> "none", profile |-> Seed.profile, name |-> NoName]]
  /\ live = Seed
  /\ request = [r \in Requests |-> NoRequest]
  /\ raced = FALSE
  /\ gap = FALSE
  /\ reloadFailed = FALSE
  /\ arrivals = 0
  /\ faults = 0

Fault == faults < MaxFaults /\ faults' = faults + 1

\* order by version desc limit 1; 0 for no row.
IsLatest(v, statuses) ==
  /\ v # 0 => rows[v].status \in statuses
  /\ \A w \in Versions : rows[w].status \in statuses => w <= v

Stored(v) == IF v = 0 THEN Seed
             ELSE [version |-> v, profile |-> rows[v].profile, name |-> rows[v].name]

Goes(r, phase) == request' = [request EXCEPT ![r].phase = phase]

Ends(r) == request' = [request EXCEPT ![r] = NoRequest]

Busy(r) == request[r].phase # "idle"

-----------------------------------------------------------------------------
(* Requests arrive. *)

Starts(r, q) ==
  /\ up
  /\ ~Busy(r)
  /\ arrivals < MaxArrivals /\ arrivals' = arrivals + 1
  /\ request' = [request EXCEPT ![r] = q]
  /\ raced' = (raced \/ \E o \in Requests : Busy(o) /\ (q.activates \/ request[o].activates))
  /\ UNCHANGED <<up, rows, live, gap, reloadFailed, faults>>

\* The list of retired entries comes back as it went out, with the live profile
\* or with the draft.
RetiredSent == {live.profile.retired}
                 \cup {rows[v].profile.retired : v \in {w \in Versions : rows[w].status = "draft"}}

\* PUT /draft; or activate and approve, with a profile to save first.  The
\* profile is what validation makes of the one that was sent.
Submit(r) ==
  \E vocab \in Vocabularies, retired \in RetiredSent, ok, activates \in BOOLEAN :
    Starts(r, [NoRequest EXCEPT !.phase = "look", !.activates = activates,
                 !.profile = [vocab |-> vocab, retired |-> retired, ok |-> ok]])

\* The AI writes a new profile over the bundled one, whose list is empty.
Generate(r) ==
  \E vocab \in Vocabularies, ok \in BOOLEAN :
    Starts(r, [NoRequest EXCEPT !.phase = "look",
                 !.profile = [vocab |-> vocab, retired |-> {}, ok |-> ok]])

\* activate and approve without one.
Activate(r) == Starts(r, [NoRequest EXCEPT !.phase = "draft", !.activates = TRUE])

-----------------------------------------------------------------------------
(* saveDraft *)

\* Mutant of Look: the newest row is the draft, active or not.
LookAnyRow(r) ==
  \E v \in 0..MaxVersion :
    /\ request[r].phase = "look"
    /\ IsLatest(v, {"draft", "active"})
    /\ request' = [request EXCEPT ![r].phase = IF v = 0 THEN "number" ELSE "update",
                                  ![r].version = v]
    /\ UNCHANGED <<up, rows, live, history, arrivals, faults>>

\* getDraft: a draft there is gets replaced.
Look(r) ==
  \E v \in 0..MaxVersion :
    /\ request[r].phase = "look"
    /\ IsLatest(v, {"draft"})
    /\ request' = [request EXCEPT ![r].phase = IF v = 0 THEN "number" ELSE "update",
                                  ![r].version = v]
    /\ UNCHANGED <<up, rows, live, history, arrivals, faults>>

nextVersion(r) ==
  \E v \in Versions :
    /\ request[r].phase = "number"
    /\ IsLatest(v - 1, {"draft", "active", "archived"})
    /\ request' = [request EXCEPT ![r].phase = "insert", ![r].version = v]
    /\ UNCHANGED <<up, rows, live, history, arrivals, faults>>

\* Validation repairs what it can before the save, and its errors only go into
\* the answer: a profile that had some may be stored without any.  activate stops
\* at them; approve, in the setup wizard, does not look and goes on.
Saved(r) ==
  \/ request[r].activates /\ Goes(r, "draft")
  \/ Ends(r)

\* The version is the primary key: the second insert of a number fails.
Insert(r) ==
  LET v == request[r].version IN
  /\ request[r].phase = "insert"
  /\ IF rows[v].status = "none"
     THEN /\ rows' = [rows EXCEPT ![v] = [status |-> "draft", name |-> NoName,
                                          profile |-> request[r].profile]]
          /\ Saved(r)
     ELSE Ends(r) /\ UNCHANGED rows
  /\ UNCHANGED <<up, live, history, arrivals, faults>>

\* The row found, by its number alone.
Update(r) ==
  /\ request[r].phase = "update"
  /\ rows' = [rows EXCEPT ![request[r].version].profile = request[r].profile]
  /\ Saved(r)
  /\ UNCHANGED <<up, live, history, arrivals, faults>>

-----------------------------------------------------------------------------
(* activateDraft *)

\* No draft, or one with errors, is refused.
ReadDraft(r) ==
  \E v \in 0..MaxVersion :
    /\ request[r].phase = "draft"
    /\ IsLatest(v, {"draft"})
    /\ IF v # 0 /\ Stored(v).profile.ok
       THEN request' = [request EXCEPT ![r].phase = "active", ![r].version = v,
                                       ![r].profile = Stored(v).profile]
       ELSE Ends(r)
    /\ UNCHANGED <<up, rows, live, history, arrivals, faults>>

\* Mutant of mergeRetired: the two vocabularies are swapped.
mergeRetiredSwapped(p, a) ==
  LET added == UNION {p.vocab[f] \ Stored(a).profile.vocab[f] : f \in Facets} IN
  [p EXCEPT !.retired = @ \cup IF a = 0 THEN {} ELSE added]

\* Profile p, with the entries of row a it leaves out among its retired ones.
mergeRetired(p, a) ==
  LET removed == UNION {Stored(a).profile.vocab[f] \ p.vocab[f] : f \in Facets} IN
  [p EXCEPT !.retired = @ \cup IF a = 0 THEN {} ELSE removed]

\* Mutants of ReadActive: the version is carried whatever changed; never; or it
\* is named after the next row.
ReadActiveNamed(r, a, name) ==
  /\ request[r].phase = "active"
  /\ IsLatest(a, {"active"})
  /\ request' = [request EXCEPT
       ![r].phase = "archive",
       ![r].name = name,
       ![r].profile = mergeRetired(request[r].profile, a)]
  /\ UNCHANGED <<up, rows, live, history, arrivals, faults>>

ReadActiveCarries(r) ==
  \E a \in 0..MaxVersion :
    ReadActiveNamed(r, a, IF a # 0 THEN Stored(a).name
                                   ELSE [f \in Facets |-> request[r].version])

ReadActiveRenames(r) ==
  \E a \in 0..MaxVersion : ReadActiveNamed(r, a, [f \in Facets |-> request[r].version])

\* An unchanged fingerprint carries the version of row a forward.
CarriedName(q, a) ==
  [f \in Facets |->
     IF a # 0 /\ Stored(a).profile.vocab[f] = q.profile.vocab[f]
     THEN Stored(a).name[f] ELSE q.version]

\* The active row, if any, and what the new one takes from it.
ReadActive(r) ==
  \E a \in 0..MaxVersion :
    LET q == request[r] IN
    /\ q.phase = "active"
    /\ IsLatest(a, {"active"})
    /\ request' = [request EXCEPT
         ![r].phase = "archive",
         ![r].name = CarriedName(q, a),
         ![r].profile = mergeRetired(q.profile, a)]
    /\ UNCHANGED <<up, rows, live, history, arrivals, faults>>

\* Mutant of Archive: the active row stays.
ArchiveNothing(r) ==
  /\ request[r].phase = "archive"
  /\ Goes(r, "promote")
  /\ UNCHANGED <<up, rows, live, history, arrivals, faults>>

Archive(r) ==
  /\ request[r].phase = "archive"
  /\ rows' = [v \in Versions |-> IF rows[v].status = "active"
                                 THEN [rows[v] EXCEPT !.status = "archived"] ELSE rows[v]]
  /\ Goes(r, "promote")
  /\ UNCHANGED <<up, live, history, arrivals, faults>>

\* Mutant of Promote: memory is not reloaded.
PromoteNoReload(r) ==
  LET q == request[r] IN
  /\ q.phase = "promote"
  /\ rows' = [rows EXCEPT ![q.version] = [status |-> "active", profile |-> q.profile,
                                          name |-> q.name]]
  /\ Ends(r)
  /\ UNCHANGED <<up, live, history, arrivals, faults>>

\* The profile it read, to the row it read, whatever its status is by now.
Promote(r) ==
  LET q == request[r] IN
  /\ q.phase = "promote"
  /\ rows' = [rows EXCEPT ![q.version] = [status |-> "active", profile |-> q.profile,
                                          name |-> q.name]]
  /\ Goes(r, "load")
  /\ UNCHANGED <<up, live, history, arrivals, faults>>

\* hydrate: the database answers, then the handler resumes.
Load(r) ==
  \E a \in 0..MaxVersion :
    /\ request[r].phase = "load"
    /\ IsLatest(a, {"active"})
    /\ request' = [request EXCEPT ![r].phase = "apply", ![r].version = a,
                         ![r].profile = Stored(a).profile, ![r].name = Stored(a).name]
    /\ UNCHANGED <<up, rows, live, history, arrivals, faults>>

setProfile(r) ==
  LET q == request[r] IN
  /\ q.phase = "apply"
  /\ live' = [version |-> q.version, profile |-> q.profile, name |-> q.name]
  /\ reloadFailed' = FALSE
  /\ Ends(r)
  /\ UNCHANGED <<up, rows, raced, gap, arrivals, faults>>

-----------------------------------------------------------------------------
(* Failures and restarts. *)

\* Any statement may fail, and ends its request; nothing is rolled back.
StatementFails(r) ==
  /\ request[r].phase \notin {"idle", "load", "apply"}
  /\ Fault
  /\ gap' = (gap \/ request[r].phase = "promote")
  /\ Ends(r)
  /\ UNCHANGED <<up, rows, live, raced, reloadFailed, arrivals>>

\* But hydrate catches it, and the bundled profile goes live.
LoadFails(r) ==
  /\ request[r].phase = "load"
  /\ Fault
  /\ live' = Seed
  /\ reloadFailed' = TRUE
  /\ Ends(r)
  /\ UNCHANGED <<up, rows, raced, gap, arrivals>>

Crash ==
  /\ up
  /\ Fault
  /\ up' = FALSE
  /\ live' = Seed
  /\ request' = [r \in Requests |-> NoRequest]
  /\ gap' = (gap \/ \E r \in Requests : request[r].phase = "promote")
  /\ reloadFailed' = FALSE
  /\ UNCHANGED <<rows, raced, arrivals>>

\* activateRuntime hydrates before it mounts the routes.
Restart ==
  /\ ~up
  /\ up' = TRUE
  /\ \/ /\ \E a \in 0..MaxVersion : IsLatest(a, {"active"}) /\ live' = Stored(a)
        /\ UNCHANGED <<reloadFailed, faults>>
     \/ Fault /\ live' = Seed /\ reloadFailed' = TRUE
  /\ UNCHANGED <<rows, request, raced, gap, arrivals>>

-----------------------------------------------------------------------------
saveDraft(r) == Look(r) \/ nextVersion(r) \/ Insert(r) \/ Update(r)

activateDraft(r) ==
  ReadDraft(r) \/ ReadActive(r) \/ Archive(r) \/ Promote(r) \/ Load(r) \/ setProfile(r)

Next ==
  \/ \E r \in Requests :
       \/ Submit(r) \/ Generate(r) \/ Activate(r)
       \/ saveDraft(r) \/ activateDraft(r)
       \/ StatementFails(r) \/ LoadFails(r)
  \/ Crash
  \/ Restart

Spec == Init /\ [][Next]_vars

-----------------------------------------------------------------------------
(* Properties *)

HasBeenLive(v) == rows[v].status \in {"active", "archived"}

\* As long as no activation overlapped another request, two versions share a
\* policy_version (or tag_version) only if they have the same vocabulary: every
\* analysed row is stamped with one, and it says what scored the row
\* (businessProfile.js:5-8, 181-182).
VersionNamesOneVocabulary ==
  ~raced =>
    \A v, w \in Versions, f \in Facets :
      HasBeenLive(v) /\ HasBeenLive(w) /\ rows[v].name[f] = rows[w].name[f]
        => rows[v].profile.vocab[f] = rows[w].profile.vocab[f]

\* On the same condition, whatever fails between its two updates, an activation
\* never leaves two active rows, and an active one has passed validation
\* (businessProfile.js:171-172, 192-198).
OneActive ==
  ~raced =>
    \A v, w \in Versions :
      rows[v].status = "active"
        => rows[v].profile.ok /\ (rows[w].status = "active" => v = w)

\* What scores conversations is the active row, unless it is being reloaded or
\* a reload failed (businessProfile.js:73-109, 200).
LiveIsActive ==
  up /\ ~raced /\ ~reloadFailed /\ (\A r \in Requests : request[r].phase \notin {"load", "apply"})
    => \A v \in Versions : rows[v].status = "active" => live = Stored(v)

\* A profile that has been live is never rewritten (businessProfile.js:135-150).
RecordIsKept ==
  [][~raced => \A v \in Versions : HasBeenLive(v) => rows'[v].profile = rows[v].profile]_rows

\* The price of a new profile: what is live changes its policy_version exactly
\* when that part of the vocabulary changed, so that a label fix re-analyses
\* nothing and a real change everything (businessProfile.js:160-166, 181-182).
\* An activation that failed half-way leaves no active row to compare with.
LabelFixIsFree ==
  [][~raced /\ ~gap /\ live.version # 0 /\ live'.version # 0
       => \A f \in Facets : live'.name[f] = live.name[f]
                              <=> live'.profile.vocab[f] = live.profile.vocab[f]]_live

\* What goes live keeps, as retired, every entry it drops of what was live before it:
\* a row stored the day before still has a label to show.  This holds of one
\* generation only, since a generated draft brings an empty list
\* (businessProfile.js:184-190).  An activation that failed half-way leaves no active
\* row to take the entries from.
RemovedKeepLabels ==
  [][~raced /\ ~gap /\ live.version # 0 /\ live'.version # 0
       => \A f \in Facets :
            live.profile.vocab[f] \ live'.profile.vocab[f] \subseteq live'.profile.retired]_live
=============================================================================
