------------------------- MODULE ZenodoReleaseProofs -------------------------
(* Proofs about ZenodoRelease, for every value of its constants.            *)
EXTENDS ZenodoRelease, SequenceTheorems, TLAPS

----------------------------------------------------------------------------
LEMMA InitRelease == Init => ReleaseInvariant
  <1> SUFFICES ASSUME Init PROVE ReleaseInvariant
    OBVIOUS
  <1> USE DEF Init
  <1>0. Len(records) = 0 /\ Ids = {}
    BY DEF Ids
  <1>1. TypeOK
    <2>1. records \in Seq(Record)
      BY EmptySeq
    <2>2. at \in [Versions -> Places]
      BY DEF Places
    <2>3. draft \in [Versions -> Ids \cup {None}] /\ configured \in Ids \cup {None}
      OBVIOUS
    <2>4. failures \in 0..MaxFailures
      BY VersionsAssumption
    <2> QED BY <1>0, <2>1, <2>2, <2>3, <2>4 DEF TypeOK
  <1>2. JobsAreOwn
    BY DEF JobsAreOwn, OneJob, DraftIsOwn, ConfiguredIsKnown, ConceptIsKnown, Running, Editing
  <1>3. OneRecordPerRelease /\ PublishedIsComplete /\ DoneIsArchived
    BY <1>0 DEF OneRecordPerRelease, PublishedIsComplete, DoneIsArchived, Published
  <1> QED BY <1>1, <1>2, <1>3 DEF ReleaseInvariant

LEMMA Typed ==
  ASSUME TypeOK
  PROVE  /\ Len(records) \in Nat /\ Ids = 1..Len(records)
         /\ DOMAIN records = Ids /\ \A i \in Ids : records[i] \in Record
         /\ failures \in Nat /\ failures <= MaxFailures /\ MaxFailures \in Nat
         /\ None \notin Versions /\ None \notin Ids
  <1>1. records \in Seq(Record) /\ failures \in 0..MaxFailures
    BY DEF TypeOK
  <1>2. Len(records) \in Nat /\ records \in [1..Len(records) -> Record]
    BY <1>1, LenProperties
  <1> QED BY <1>1, <1>2, VersionsAssumption DEF Ids, None

(* What the outcome of a request does to the job. *)
LEMMA MoveType ==
  ASSUME TypeOK, NEW v \in Versions, NEW place \in Places,
         GoesTo(v, place) \/ (Exits(v) /\ UNCHANGED failures)
  PROVE  /\ at' \in [Versions -> Places] /\ at'[v] \in {place, "failed"}
         /\ \A w \in Versions : w # v => at'[w] = at[w]
         /\ failures' \in 0..MaxFailures
  <1>1. failures' \in 0..MaxFailures
    BY Typed DEF GoesTo, Fails, TypeOK
  <1>2. "failed" \in Places
    BY DEF Places
  <1>3. at' = [at EXCEPT ![v] = place] \/ at' = [at EXCEPT ![v] = "failed"]
    BY DEF GoesTo, Fails, Exits
  <1> QED BY <1>1, <1>2, <1>3 DEF TypeOK

----------------------------------------------------------------------------
(* A step of the job of v, whose local variables are its own.               *)
JobVariables ==
  /\ at \in [Versions -> Places] /\ failures \in 0..MaxFailures
  /\ draft \in [Versions -> Ids \cup {None}]
  /\ todo \in [Versions -> SUBSET (Versions \X Parts)]
  /\ \A v \in Versions :
        at[v] \in Places \ {"unreleased", "finding", "creating", "failed"} => draft[v] # None

OnlyJob(v) ==
  /\ Running(v) /\ env' = env
  /\ \A w \in Versions : w # v => at'[w] = at[w] /\ draft'[w] = draft[w] /\ todo'[w] = todo[w]

LEMMA JobKeepsOwn ==
  ASSUME ReleaseInvariant, NEW v \in Versions, OnlyJob(v),
         ~env.overlap => DraftIsOwn(v)',
         Orderly => ConfiguredIsKnown' /\ ConceptIsKnown(v)'
  PROVE  JobsAreOwn'
  <1> USE DEF ReleaseInvariant, JobsAreOwn, OnlyJob
  <1>1. ~env.overlap => \A w \in Versions : w # v => ~Running(w) /\ ~Running(w)'
    BY DEF OneJob, Running
  <1>2. ~env.overlap => OneJob'
    BY <1>1 DEF OneJob
  <1>3. \A w \in Versions : ~Running(w)' => DraftIsOwn(w)' /\ ConceptIsKnown(w)'
    BY DEF Running, DraftIsOwn, ConceptIsKnown, Editing
  <1>4. Orderly' = Orderly /\ env.overlap' = env.overlap /\ (Orderly => ~env.overlap)
    BY DEF Orderly
  <1> QED BY <1>1, <1>2, <1>3, <1>4

(* No record changes. *)
LEMMA QuietRelease ==
  ASSUME ReleaseInvariant, NEW v \in Versions, OnlyJob(v), UNCHANGED <<records, configured>>,
         JobVariables', ~env.overlap => DraftIsOwn(v)', Orderly => ConceptIsKnown(v)',
         ~env.overlap /\ at'[v] = "done" => Published(v) # {}
  PROVE  ReleaseInvariant'
  <1> USE DEF ReleaseInvariant
  <1>1. Ids' = Ids /\ \A w : Published(w)' = Published(w)
    BY DEF Ids, Published
  <1>2. TypeOK'
    BY <1>1 DEF TypeOK, JobVariables
  <1>3. JobsAreOwn'
    <2>1. Orderly => ConfiguredIsKnown'
      BY <1>1 DEF JobsAreOwn, ConfiguredIsKnown
    <2> QED BY <2>1, JobKeepsOwn
  <1>4. OneRecordPerRelease' /\ PublishedIsComplete'
    BY <1>1 DEF OneRecordPerRelease, PublishedIsComplete, Orderly, OnlyJob
  <1>5. DoneIsArchived'
    BY <1>1 DEF DoneIsArchived, OnlyJob
  <1> QED BY <1>2, <1>3, <1>4, <1>5

(* A record of the account is replaced by one of the same concept. *)
LEMMA EditFacts ==
  ASSUME TypeOK, NEW d \in Ids, NEW r \in Record, records' = [records EXCEPT ![d] = r],
         r.concept = records[d].concept
  PROVE  /\ Ids' = Ids /\ records'[d] = r /\ \A i \in Ids : i # d => records'[i] = records[i]
         /\ \A i \in Ids : records'[i].concept = records[i].concept
         /\ records' \in Seq(Record)
         /\ \A i \in Ids' : /\ records'[i].concept \in 1..i
                            /\ records'[records'[i].concept].concept = records'[i].concept
  <1>1. records \in Seq(Record) /\ d \in 1..Len(records)
    BY DEF TypeOK, Ids
  <1>2. records' \in Seq(Record) /\ Len(records') = Len(records)
    BY <1>1, ExceptSeq
  <1>3. \A i \in Ids : records'[i] = IF i = d THEN r ELSE records[i]
    BY <1>1, ExceptSeq DEF Ids
  <1>4. Ids' = Ids /\ Ids = 1..Len(records) /\ Len(records) \in Nat
    BY <1>2, Typed DEF Ids
  <1>5. \A i \in Ids : records'[i].concept = records[i].concept
    BY <1>3
  <1>6. \A i \in Ids : /\ records[i].concept \in 1..i /\ records[i].concept \in Ids
                       /\ records[records[i].concept].concept = records[i].concept
    BY <1>4 DEF TypeOK
  <1> QED BY <1>2, <1>3, <1>4, <1>5, <1>6

LEMMA EditRelease ==
  ASSUME ReleaseInvariant, NEW v \in Versions, OnlyJob(v), draft[v] \in Ids,
         NEW r \in Record, Edit(v, r), r.concept = Mine(v).concept, ~r.published,
         at[v] \in Editing, at'[v] \in Editing \cup {"failed"},
         JobVariables', ~env.overlap => DraftIsOwn(v)'
  PROVE  ReleaseInvariant'
  <1> USE DEF ReleaseInvariant
  <1>1. /\ Ids' = Ids /\ records'[draft[v]] = r
        /\ \A i \in Ids : i # draft[v] => records'[i] = records[i]
        /\ \A i \in Ids : records'[i].concept = records[i].concept
        /\ records' \in Seq(Record)
        /\ \A i \in Ids' : /\ records'[i].concept \in 1..i
                           /\ records'[records'[i].concept].concept = records'[i].concept
    BY EditFacts DEF Edit, Mine
  <1>2. ~records[draft[v]].published /\ configured' = configured
    BY DEF Edit, Mine
  <1>3. /\ \A i \in Ids : records'[i].published <=> records[i].published
        /\ \A i \in Ids : records[i].published => records'[i] = records[i]
        /\ \A w : Published(w)' = Published(w)
    BY <1>1, <1>2 DEF Published
  <1>4. TypeOK'
    BY <1>1, <1>2 DEF TypeOK, JobVariables
  <1>5. JobsAreOwn'
    <2>1. Orderly => ConfiguredIsKnown' /\ ConceptIsKnown(v)'
      BY <1>1, <1>2, <1>3 DEF JobsAreOwn, ConfiguredIsKnown, ConceptIsKnown, Editing
    <2> QED BY <2>1, JobKeepsOwn
  <1>6. OneRecordPerRelease'
    BY <1>1, <1>3 DEF OneRecordPerRelease, Orderly, OnlyJob
  <1>7. PublishedIsComplete'
    BY <1>1, <1>3 DEF PublishedIsComplete, OnlyJob
  <1>8. DoneIsArchived'
    BY <1>3 DEF DoneIsArchived, OnlyJob, Editing
  <1> QED BY <1>4, <1>5, <1>6, <1>7, <1>8

(* A draft is added.  In good order there was none. *)
LEMMA CreateRelease ==
  ASSUME ReleaseInvariant, NEW v \in Versions, OnlyJob(v), NEW r \in Record, Create(v, r),
         \/ r.concept = Len(records) + 1
         \/ \E i \in Ids : r.concept = records[i].concept,
         ~r.published, configured' = configured, at'[v] \in {"saving", "failed"},
         JobVariables',
         Orderly => /\ \A i \in Ids : records[i].published /\ records[i].concept = r.concept
                    /\ configured # None => configured = r.concept
                    /\ Published(v) = {}
  PROVE  ReleaseInvariant'
  <1> USE DEF ReleaseInvariant
  <1> DEFINE n == Len(records) + 1
  <1>1. records \in Seq(Record) /\ Len(records) \in Nat /\ Ids = 1..Len(records)
    BY Typed DEF TypeOK
  <1>2. /\ records' = Append(records, r) /\ records' \in Seq(Record) /\ Len(records') = n
        /\ records'[n] = r /\ \A i \in Ids : records'[i] = records[i]
        /\ draft' = [draft EXCEPT ![v] = n]
    BY <1>1, AppendProperties DEF Create
  <1>3. /\ Ids' = Ids \cup {n} /\ n \notin Ids /\ n \in Nat /\ n # None
        /\ \A i \in Ids : i \in Nat /\ i < n
    BY <1>1, <1>2 DEF Ids, None
  <1> HIDE DEF n
  <1>4. \A i \in Ids : records[i].concept \in 1..i /\ records[i].concept \in Ids
                       /\ records[records[i].concept].concept = records[i].concept
    BY <1>1 DEF TypeOK
  <1>5. \A w : Published(w)' = Published(w)
    BY <1>2, <1>3 DEF Published
  <1>6. TypeOK'
    <2>1. records'[n].concept \in 1..n /\ records'[records'[n].concept].concept = r.concept
      <3>1. CASE r.concept = n
        BY <1>2, <1>3, <3>1
      <3>2. ASSUME NEW i \in Ids, r.concept = records[i].concept
            PROVE  r.concept \in 1..n /\ records'[r.concept].concept = r.concept
        BY <1>2, <1>3, <1>4, <3>2
      <3> QED BY <1>2, <3>1, <3>2 DEF n
    <2>2. \A i \in Ids' : /\ records'[i].concept \in 1..i
                          /\ records'[records'[i].concept].concept = records'[i].concept
      BY <1>2, <1>3, <1>4, <2>1
    <2>3. configured' \in Ids' \cup {None}
      BY <1>3 DEF TypeOK
    <2> QED BY <1>2, <2>2, <2>3 DEF TypeOK, JobVariables
  <1>7. JobsAreOwn'
    <2>1. DraftIsOwn(v)'
      <3>1. Mine(v)' = r \/ at'[v] = "failed"
        BY <1>2 DEF Mine, TypeOK
      <3> QED BY <3>1 DEF DraftIsOwn, Editing
    <2>2. Orderly => ConfiguredIsKnown'
      BY <1>2, <1>3 DEF ConfiguredIsKnown
    <2>3. Orderly => ConceptIsKnown(v)'
      BY <1>5 DEF ConceptIsKnown
    <2> QED BY <2>1, <2>2, <2>3, JobKeepsOwn
  <1>8. OneRecordPerRelease'
    <2>1. Orderly' = Orderly
      BY DEF Orderly, OnlyJob
    <2> SUFFICES ASSUME Orderly
                 PROVE  /\ \A w \in Versions, i, j \in Ids' :
                              i \in Published(w)' /\ j \in Published(w)' => i = j
                        /\ \A i, j \in Ids' : records'[i].concept = records'[j].concept
                        /\ \A i, j \in Ids' :
                              ~records'[i].published /\ ~records'[j].published => i = j
      BY <2>1 DEF OneRecordPerRelease
    <2>2. \A w : Published(w) \subseteq Ids
      BY DEF Published
    <2>3. \A w \in Versions, i, j \in Ids' :
             i \in Published(w)' /\ j \in Published(w)' => i = j
      BY <1>5, <2>2 DEF OneRecordPerRelease
    <2>4. \A i \in Ids' : records'[i].concept = r.concept
      BY <1>2, <1>3
    <2>5. \A i \in Ids' : ~records'[i].published => i = n
      BY <1>2, <1>3
    <2> QED BY <2>3, <2>4, <2>5
  <1>9. PublishedIsComplete'
    BY <1>2, <1>3 DEF PublishedIsComplete, OnlyJob
  <1>10. DoneIsArchived'
    BY <1>5 DEF DoneIsArchived, OnlyJob
  <1> QED BY <1>6, <1>7, <1>8, <1>9, <1>10

----------------------------------------------------------------------------
(* The steps.                                                               *)

(* Starting a job: nothing else runs, and its variables are empty. *)
LEMMA StartRelease ==
  ASSUME ReleaseInvariant, NEW v \in Versions, Start(v), env' = env PROVE ReleaseInvariant'
  <1> USE DEF ReleaseInvariant
  <1>1. /\ UNCHANGED <<records, configured, failures>>
        /\ at' \in [Versions -> Places] /\ at'[v] = "finding"
        /\ draft' \in [Versions -> Ids \cup {None}]
        /\ todo' \in [Versions -> SUBSET (Versions \X Parts)]
        /\ \A w \in Versions : w # v => /\ at'[w] = at[w] /\ draft'[w] = draft[w]
                                        /\ todo'[w] = todo[w]
    <2>1. "finding" \in Places
      BY DEF Places
    <2> QED BY <2>1 DEF Start, TypeOK
  <1>2. Ids' = Ids /\ \A w : Published(w)' = Published(w)
    BY <1>1 DEF Ids, Published
  <1>3. TypeOK'
    BY <1>1, <1>2 DEF TypeOK
  <1>4. ~env.overlap => \A w \in Versions : ~Running(w)
    BY DEF Start
  <1>5. JobsAreOwn'
    <2>1. ~env.overlap => OneJob'
      BY <1>1, <1>4 DEF OneJob, Running
    <2>2. ~env.overlap => \A w \in Versions : DraftIsOwn(w)'
      BY <1>1, <1>4 DEF DraftIsOwn, Running, Editing
    <2>3. ~env.overlap => \A w \in Versions : ConceptIsKnown(w)'
      BY <1>1, <1>4 DEF ConceptIsKnown, Running, Editing
    <2>4. ConfiguredIsKnown => ConfiguredIsKnown'
      BY <1>1, <1>2 DEF ConfiguredIsKnown
    <2> QED BY <2>1, <2>2, <2>3, <2>4 DEF JobsAreOwn, Orderly
  <1>6. OneRecordPerRelease' /\ PublishedIsComplete'
    BY <1>1, <1>2 DEF OneRecordPerRelease, PublishedIsComplete, Orderly
  <1>7. DoneIsArchived'
    BY <1>1, <1>2 DEF DoneIsArchived
  <1> QED BY <1>3, <1>5, <1>6, <1>7

LEMMA ConfigureRelease ==
  ASSUME ReleaseInvariant, Configure, env' = env PROVE ReleaseInvariant'
  <1> USE DEF ReleaseInvariant
  <1>1. UNCHANGED <<records, at, draft, todo, failures>>
    BY DEF Configure
  <1>2. PICK i \in Ids : records[i].published /\ configured' = records[i].concept
    BY DEF Configure
  <1>3. Ids' = Ids /\ \A w : Published(w)' = Published(w)
    BY <1>1 DEF Ids, Published
  <1>4. records[i].concept \in Ids
    BY Typed DEF TypeOK
  <1>5. TypeOK'
    BY <1>1, <1>2, <1>3, <1>4 DEF TypeOK
  <1>6. JobsAreOwn'
    <2>1. Orderly => ConfiguredIsKnown'
      BY <1>1, <1>2, <1>3 DEF ConfiguredIsKnown, OneRecordPerRelease
    <2>2. OneJob => OneJob'
      BY <1>1 DEF OneJob, Running
    <2>3. \A w \in Versions : /\ DraftIsOwn(w) => DraftIsOwn(w)'
                              /\ ConceptIsKnown(w) => ConceptIsKnown(w)'
      BY <1>1, <1>3 DEF DraftIsOwn, ConceptIsKnown, Mine, ToDelete, NextFile
    <2> QED BY <2>1, <2>2, <2>3 DEF JobsAreOwn, Orderly
  <1>7. OneRecordPerRelease' /\ PublishedIsComplete' /\ DoneIsArchived'
    BY <1>1, <1>3 DEF OneRecordPerRelease, PublishedIsComplete, DoneIsArchived, Orderly
  <1> QED BY <1>5, <1>6, <1>7

(* A job that ends with an error knows nothing any more. *)
LEMMA ExitRelease ==
  ASSUME ReleaseInvariant, NEW v \in Versions, Running(v), Exits(v), env' = env,
         UNCHANGED <<records, configured, draft, todo>>, failures' \in 0..MaxFailures
  PROVE  ReleaseInvariant'
  <1> USE DEF ReleaseInvariant
  <1>1. /\ at' \in [Versions -> Places] /\ at'[v] = "failed"
        /\ \A w \in Versions : w # v => at'[w] = at[w]
    <2>1. "failed" \in Places
      BY DEF Places
    <2> QED BY <2>1 DEF Exits, TypeOK
  <1>2. JobVariables'
    BY <1>1 DEF JobVariables, TypeOK, Ids
  <1>3. DraftIsOwn(v)' /\ ConceptIsKnown(v)'
    BY <1>1 DEF DraftIsOwn, ConceptIsKnown, Editing
  <1> QED BY <1>1, <1>2, <1>3, QuietRelease DEF OnlyJob

LEMMA FindRelease ==
  ASSUME ReleaseInvariant, NEW v \in Versions, find_concept(v), env' = env
  PROVE  ReleaseInvariant'
  <1> USE DEF ReleaseInvariant
  <1>1. /\ at[v] = "finding" /\ UNCHANGED <<records, configured, todo>> /\ Running(v)
        /\ Ids' = Ids
    BY DEF find_concept, Running, Ids
  <1>2. PICK found \in own_records(Ids) :
          \/ Concepts(found) = {} /\ GoesTo(v, "creating") /\ UNCHANGED draft
          \/ \E c \in Ids : /\ Concepts(found) = {c} /\ GoesTo(v, "opening")
                            /\ draft' = [draft EXCEPT ![v] = c]
          \/ Exits(v) /\ UNCHANGED <<draft, failures>>
    BY DEF find_concept
  <1>3. Orderly => found = Ids
    BY DEF own_records, Orderly
  <1>4. CASE Concepts(found) = {} /\ GoesTo(v, "creating") /\ UNCHANGED draft
    <2>1. /\ at' \in [Versions -> Places] /\ at'[v] \in {"creating", "failed"}
          /\ \A w \in Versions : w # v => at'[w] = at[w]
          /\ failures' \in 0..MaxFailures
      <3>1. "creating" \in Places
        BY DEF Places
      <3> QED BY <1>4, <3>1, MoveType
    <2>2. Orderly => ConceptIsKnown(v)'
      <3> SUFFICES ASSUME Orderly PROVE records = <<>>
        BY <1>1, <2>1 DEF ConceptIsKnown, Editing
      <3>1. Ids = {}
        BY <1>3, <1>4 DEF Concepts
      <3>2. Len(records) = 0 /\ records \in Seq(Record)
        BY <3>1, Typed DEF TypeOK
      <3> QED BY <3>2, EmptySeq
    <2>3. DraftIsOwn(v)'
      BY <2>1 DEF DraftIsOwn, Editing
    <2>4. JobVariables'
      BY <1>1, <1>4, <2>1 DEF JobVariables, TypeOK
    <2> QED BY <1>1, <1>4, <2>1, <2>2, <2>3, <2>4, QuietRelease DEF OnlyJob
  <1>5. ASSUME NEW c \in Ids, Concepts(found) = {c}, GoesTo(v, "opening"),
               draft' = [draft EXCEPT ![v] = c]
        PROVE  ReleaseInvariant'
    <2>1. /\ at' \in [Versions -> Places] /\ at'[v] \in {"opening", "failed"}
          /\ \A w \in Versions : w # v => at'[w] = at[w]
          /\ failures' \in 0..MaxFailures
      <3>1. "opening" \in Places
        BY DEF Places
      <3> QED BY <1>5, <3>1, MoveType
    <2>2. /\ draft' \in [Versions -> Ids \cup {None}] /\ draft'[v] = c /\ c # None
          /\ \A w \in Versions : w # v => draft'[w] = draft[w]
      BY <1>5, Typed DEF TypeOK
    <2>3. Orderly => ConceptIsKnown(v)'
      <3> SUFFICES ASSUME Orderly, NEW i \in Ids PROVE records[i].concept = c
        BY <1>1, <2>1, <2>2 DEF ConceptIsKnown, Editing
      <3>1. CASE configured # None
        BY <1>5, <3>1 DEF Concepts, JobsAreOwn, ConfiguredIsKnown
      <3>2. CASE configured = None
        BY <1>3, <1>5, <3>2 DEF Concepts
      <3> QED BY <3>1, <3>2
    <2>4. DraftIsOwn(v)'
      BY <2>1 DEF DraftIsOwn, Editing
    <2>5. JobVariables'
      BY <1>1, <2>1, <2>2 DEF JobVariables, TypeOK
    <2> QED BY <1>1, <2>1, <2>2, <2>3, <2>4, <2>5, QuietRelease DEF OnlyJob
  <1>6. CASE Exits(v) /\ UNCHANGED <<draft, failures>>
    BY <1>1, <1>6, ExitRelease DEF TypeOK
  <1> QED BY <1>2, <1>4, <1>5, <1>6

(* The record that a job works on is one of the account's. *)
LEMMA MineType ==
  ASSUME TypeOK, NEW v \in Versions, at[v] \in Editing \cup {"opening", "versioning"}
  PROVE  draft[v] \in Ids /\ Mine(v) \in Record
  <1>1. draft[v] \in Ids
    BY DEF TypeOK, Editing, Places
  <1> QED BY <1>1, Typed DEF Mine

(* A job that has found the record it goes on with. *)
LEMMA FoundRelease ==
  ASSUME ReleaseInvariant, NEW v \in Versions, at[v] \in {"opening", "versioning"}, env' = env,
         NEW i \in Ids, draft' = [draft EXCEPT ![v] = i],
         \/ GoesTo(v, "saving") /\ ~records[i].published
         \/ GoesTo(v, "versioning"),
         UNCHANGED <<records, configured, todo>>, Orderly => Published(v) = {}
  PROVE  ReleaseInvariant'
  <1> USE DEF ReleaseInvariant
  <1>1. /\ at' \in [Versions -> Places] /\ at'[v] \in {"saving", "versioning", "failed"}
        /\ at'[v] = "saving" => ~records[i].published
        /\ \A w \in Versions : w # v => at'[w] = at[w]
        /\ failures' \in 0..MaxFailures
    <2>1. "saving" \in Places /\ "versioning" \in Places
      BY DEF Places
    <2> QED BY <2>1, MoveType
  <1>2. /\ draft' \in [Versions -> Ids \cup {None}] /\ draft'[v] = i /\ i # None
        /\ \A w \in Versions : w # v => draft'[w] = draft[w]
    BY Typed DEF TypeOK
  <1>3. DraftIsOwn(v)'
    BY <1>1, <1>2 DEF DraftIsOwn, Editing, Mine
  <1>4. Orderly => ConceptIsKnown(v)'
    <2>1. Published(v)' = Published(v)
      BY DEF Published, Ids
    <2> QED BY <1>1, <2>1 DEF ConceptIsKnown
  <1>5. JobVariables'
    BY <1>1, <1>2 DEF JobVariables, TypeOK, Ids
  <1>6. OnlyJob(v)
    BY <1>1, <1>2 DEF OnlyJob, Running
  <1> QED BY <1>1, <1>3, <1>4, <1>5, <1>6, QuietRelease

LEMMA OpenRelease ==
  ASSUME ReleaseInvariant, NEW v \in Versions, open_draft(v), env' = env
  PROVE  ReleaseInvariant'
  <1> USE DEF ReleaseInvariant
  <1>1. /\ at[v] = "opening" /\ UNCHANGED <<records, configured, todo>> /\ Running(v)
        /\ draft[v] \in Ids
    BY MineType DEF open_draft, Running
  <1> DEFINE All == {i \in Ids : records[i].concept = draft[v]}
  <1>2. PICK found \in own_records(All) :
          \/ PublishedAs(found, v) # {} /\ GoesTo(v, "done") /\ UNCHANGED draft
          \/ /\ PublishedAs(found, v) = {} /\ GoesTo(v, "saving")
             /\ \E i \in found : ~records[i].published /\ draft' = [draft EXCEPT ![v] = i]
          \/ /\ PublishedAs(found, v) = {} /\ GoesTo(v, "versioning")
             /\ \E i \in found : draft' = [draft EXCEPT ![v] = i]
          \/ Exits(v) /\ UNCHANGED <<draft, failures>>
    BY DEF open_draft
  <1>3. found \subseteq Ids
    BY DEF own_records
  <1>4. Orderly => found = Ids
    <2>1. Orderly => All = Ids
      BY <1>1 DEF JobsAreOwn, ConceptIsKnown
    <2> QED BY <2>1 DEF own_records, Orderly
  <1>5. PublishedAs(found, v) \subseteq Published(v)
        /\ (Orderly => PublishedAs(found, v) = Published(v))
    BY <1>3, <1>4 DEF PublishedAs, Published
  <1>6. CASE PublishedAs(found, v) # {} /\ GoesTo(v, "done") /\ UNCHANGED draft
    <2>1. /\ at' \in [Versions -> Places] /\ at'[v] \in {"done", "failed"}
          /\ \A w \in Versions : w # v => at'[w] = at[w]
          /\ failures' \in 0..MaxFailures
      <3>1. "done" \in Places
        BY DEF Places
      <3> QED BY <1>6, <3>1, MoveType
    <2>2. DraftIsOwn(v)' /\ ConceptIsKnown(v)'
      BY <2>1 DEF DraftIsOwn, ConceptIsKnown, Editing
    <2>3. JobVariables'
      BY <1>1, <1>6, <2>1, Typed DEF JobVariables, TypeOK, Ids
    <2> QED BY <1>1, <1>5, <1>6, <2>1, <2>2, <2>3, QuietRelease DEF OnlyJob
  <1>7. CASE Exits(v) /\ UNCHANGED <<draft, failures>>
    BY <1>1, <1>7, ExitRelease DEF TypeOK
  <1>8. ASSUME NEW i \in found, draft' = [draft EXCEPT ![v] = i], PublishedAs(found, v) = {},
               \/ GoesTo(v, "saving") /\ ~records[i].published
               \/ GoesTo(v, "versioning")
        PROVE  ReleaseInvariant'
    BY <1>1, <1>3, <1>5, <1>8, FoundRelease
  <1> QED BY <1>2, <1>6, <1>7, <1>8

LEMMA CreateRecordRelease ==
  ASSUME ReleaseInvariant, NEW v \in Versions, CreateRecord(v), env' = env
  PROVE  ReleaseInvariant'
  <1> USE DEF ReleaseInvariant
  <1> DEFINE r == [concept |-> Len(records) + 1, version |-> v, files |-> {},
                   begun |-> {}, published |-> FALSE]
  <1>1. /\ at[v] = "creating" /\ UNCHANGED <<configured, todo>> /\ Create(v, r)
        /\ Running(v) /\ GoesTo(v, "saving")
    BY DEF CreateRecord, Running
  <1>2. /\ r \in Record /\ r.concept = Len(records) + 1 /\ ~r.published
    BY Typed DEF Record
  <1> HIDE DEF r
  <1>3. /\ at' \in [Versions -> Places] /\ at'[v] \in {"saving", "failed"}
        /\ \A w \in Versions : w # v => at'[w] = at[w]
        /\ failures' \in 0..MaxFailures
    <2>1. "saving" \in Places
      BY DEF Places
    <2> QED BY <1>1, <2>1, MoveType
  <1>4. Orderly => Ids = {} /\ configured = None /\ Published(v) = {}
    <2>1. Orderly => records = <<>>
      BY <1>1 DEF JobsAreOwn, ConceptIsKnown
    <2> QED BY <2>1 DEF Ids, TypeOK, Published
  <1>5. /\ draft' = [draft EXCEPT ![v] = Len(records) + 1]
        /\ Len(records) + 1 \in Ids' /\ Ids \subseteq Ids' /\ Len(records) + 1 # None
    <2>1. records \in Seq(Record) /\ Len(records) \in Nat
      BY Typed DEF TypeOK
    <2>2. Len(records') = Len(records) + 1
      BY <1>1, <1>2, <2>1, AppendProperties DEF Create
    <2> QED BY <1>1, <2>1, <2>2 DEF Create, Ids, None
  <1>6. JobVariables'
    BY <1>1, <1>3, <1>5 DEF JobVariables, TypeOK
  <1>7. OnlyJob(v)
    BY <1>1, <1>3, <1>5 DEF OnlyJob, TypeOK
  <1> QED BY <1>1, <1>2, <1>3, <1>4, <1>6, <1>7, CreateRelease

LEMMA NewVersionRelease ==
  ASSUME ReleaseInvariant, NEW v \in Versions, NewVersion(v), env' = env
  PROVE  ReleaseInvariant'
  <1> USE DEF ReleaseInvariant
  <1> DEFINE latest == records[draft[v]]
             drafts == {i \in Ids : records[i].concept = latest.concept /\ ~records[i].published}
  <1>1. /\ at[v] = "versioning" /\ UNCHANGED <<configured, todo>> /\ Running(v)
        /\ GoesTo(v, "saving") /\ draft[v] \in Ids /\ latest \in Record
    BY MineType DEF NewVersion, Running, Mine
  <1>2. Orderly => Published(v) = {}
    BY <1>1 DEF JobsAreOwn, ConceptIsKnown
  <1>3. ASSUME NEW i \in drafts, draft' = [draft EXCEPT ![v] = i], UNCHANGED records
        PROVE  ReleaseInvariant'
    <2>1. i \in Ids /\ ~records[i].published
      OBVIOUS
    <2> QED BY <1>1, <1>2, <1>3, <2>1, FoundRelease
  <1>4. ASSUME drafts = {}, NEW inherited \in {{}, latest.files},
               Create(v, [latest EXCEPT !.version = None, !.files = inherited,
                                        !.published = FALSE])
        PROVE  ReleaseInvariant'
    <2> DEFINE r == [latest EXCEPT !.version = None, !.files = inherited, !.published = FALSE]
    <2>1. r \in Record /\ r.concept = latest.concept /\ ~r.published
      <3>1. inherited \in SUBSET (Versions \X Parts)
        BY <1>1 DEF Record
      <3> QED BY <1>1, <3>1 DEF Record
    <2>2. Orderly => /\ \A i \in Ids : records[i].published /\ records[i].concept = r.concept
                     /\ configured # None => configured = r.concept
      BY <1>1, <1>4, <2>1 DEF OneRecordPerRelease, JobsAreOwn, ConfiguredIsKnown
    <2>3. Create(v, r)
      BY <1>4
    <2> HIDE DEF r, latest
    <2>4. /\ at' \in [Versions -> Places] /\ at'[v] \in {"saving", "failed"}
          /\ \A w \in Versions : w # v => at'[w] = at[w]
          /\ failures' \in 0..MaxFailures
      <3>1. "saving" \in Places
        BY DEF Places
      <3> QED BY <1>1, <3>1, MoveType
    <2>5. /\ draft' = [draft EXCEPT ![v] = Len(records) + 1]
          /\ Len(records) + 1 \in Ids' /\ Ids \subseteq Ids' /\ Len(records) + 1 # None
      <3>1. records \in Seq(Record) /\ Len(records) \in Nat
        BY Typed DEF TypeOK
      <3>2. Len(records') = Len(records) + 1
        BY <2>1, <2>3, <3>1, AppendProperties DEF Create
      <3> QED BY <2>3, <3>1, <3>2 DEF Create, Ids, None
    <2>6. JobVariables'
      BY <1>1, <2>4, <2>5 DEF JobVariables, TypeOK
    <2>7. OnlyJob(v)
      BY <1>1, <2>4, <2>5 DEF OnlyJob, TypeOK
    <2>8. \E i \in Ids : r.concept = records[i].concept
      BY <1>1, <2>1 DEF latest
    <2> QED BY <1>1, <1>2, <2>1, <2>2, <2>3, <2>4, <2>6, <2>7, <2>8, CreateRelease
  <1>5. \/ \E i \in drafts : draft' = [draft EXCEPT ![v] = i] /\ UNCHANGED records
        \/ /\ drafts = {}
           /\ \E inherited \in {{}, latest.files} :
                 Create(v, [latest EXCEPT !.version = None, !.files = inherited,
                                          !.published = FALSE])
    BY DEF NewVersion
  <1> HIDE DEF latest, drafts
  <1> QED BY <1>3, <1>4, <1>5

(* A job goes from place to place with the same draft. *)
LEMMA SameDraft ==
  ASSUME TypeOK, NEW v \in Versions, at[v] \in Editing, NEW place \in Editing, GoesTo(v, place),
         Ids' = Ids, draft' = draft, env' = env,
         todo' = todo \/ \E rest \in SUBSET (Versions \X Parts) : todo' = [todo EXCEPT ![v] = rest]
  PROVE  /\ at'[v] \in {place, "failed"} /\ OnlyJob(v) /\ JobVariables'
         /\ \A rest : todo' = [todo EXCEPT ![v] = rest] => todo'[v] = rest
  <1>1. /\ at' \in [Versions -> Places] /\ at'[v] \in {place, "failed"}
        /\ \A w \in Versions : w # v => at'[w] = at[w]
        /\ failures' \in 0..MaxFailures
    <2>1. place \in Places
      BY DEF Editing, Places
    <2> QED BY <2>1, MoveType
  <1>2. /\ todo' \in [Versions -> SUBSET (Versions \X Parts)]
        /\ \A w \in Versions : w # v => todo'[w] = todo[w]
        /\ \A rest : todo' = [todo EXCEPT ![v] = rest] => todo'[v] = rest
    BY DEF TypeOK
  <1>3. OnlyJob(v)
    BY <1>1, <1>2 DEF OnlyJob, Running, Editing
  <1>4. JobVariables'
    <2>1. draft[v] # None
      BY MineType, Typed
    <2> QED BY <1>1, <1>2, <2>1 DEF JobVariables, TypeOK
  <1> QED BY <1>1, <1>2, <1>3, <1>4

(* The record that an Edit leaves. *)
LEMMA MineEdited ==
  ASSUME TypeOK, NEW v \in Versions, draft[v] \in Ids, NEW r, Edit(v, r)
  PROVE  Mine(v)' = r /\ draft' = draft /\ configured' = configured /\ ~Mine(v).published
  BY Typed DEF Edit, Mine

(* An Edit's length is the account's; what is replaced is a record. *)
LEMMA EditedIds ==
  ASSUME TypeOK, NEW v \in Versions, draft[v] \in Ids, NEW r \in Record, Edit(v, r)
  PROVE  Ids' = Ids
  <1>1. records \in Seq(Record) /\ draft[v] \in 1..Len(records)
    BY DEF TypeOK, Ids
  <1>2. Len(records') = Len(records)
    BY <1>1, ExceptSeq DEF Edit
  <1> QED BY <1>2 DEF Ids

LEMMA SaveRelease ==
  ASSUME ReleaseInvariant, NEW v \in Versions, Save(v), env' = env PROVE ReleaseInvariant'
  <1> USE DEF ReleaseInvariant
  <1> DEFINE r == Saved(v)
  <1>1. /\ at[v] = "saving" /\ Edit(v, r) /\ todo' = [todo EXCEPT ![v] = ToDelete(v)]
        /\ GoesTo(v, "deleting") /\ draft[v] \in Ids /\ Mine(v) \in Record
    BY MineType DEF Save, Editing
  <1>2. /\ r \in Record /\ r.concept = Mine(v).concept /\ r.version = v
        /\ r.published = Mine(v).published /\ r.files = Mine(v).files /\ r.begun = Mine(v).begun
    BY <1>1 DEF Saved, Record
  <1> HIDE DEF r
  <1>3. Mine(v)' = r /\ draft' = draft /\ ~r.published /\ Ids' = Ids
    BY <1>1, <1>2, MineEdited, EditedIds
  <1>4. ToDelete(v) \in SUBSET (Versions \X Parts)
    BY <1>1 DEF ToDelete, Record
  <1>5. at'[v] \in {"deleting", "failed"} /\ OnlyJob(v) /\ JobVariables' /\ todo'[v] = ToDelete(v)
    BY <1>1, <1>3, <1>4, SameDraft DEF Editing
  <1>6. DraftIsOwn(v)'
    BY <1>2, <1>3, <1>5 DEF DraftIsOwn, Editing, ToDelete
  <1> QED BY <1>1, <1>2, <1>3, <1>5, <1>6, EditRelease DEF Editing

LEMMA DeleteRelease ==
  ASSUME ReleaseInvariant, NEW v \in Versions, NEW f \in todo[v], Delete(v, f), env' = env
  PROVE  ReleaseInvariant'
  <1> USE DEF ReleaseInvariant
  <1> DEFINE r == [Mine(v) EXCEPT !.files = @ \ {f}, !.begun = @ \ {f}]
  <1>1. /\ at[v] = "deleting" /\ Edit(v, r) /\ todo' = [todo EXCEPT ![v] = @ \ {f}]
        /\ GoesTo(v, "deleting") /\ draft[v] \in Ids /\ Mine(v) \in Record
    BY MineType DEF Delete, Editing
  <1>2. /\ r \in Record /\ r.concept = Mine(v).concept /\ r.version = Mine(v).version
        /\ r.published = Mine(v).published
        /\ r.files = Mine(v).files \ {f} /\ r.begun = Mine(v).begun \ {f}
    BY <1>1 DEF Record
  <1> HIDE DEF r
  <1>3. Mine(v)' = r /\ draft' = draft /\ ~r.published /\ Ids' = Ids
    BY <1>1, <1>2, MineEdited, EditedIds
  <1>4. todo[v] \ {f} \in SUBSET (Versions \X Parts) /\ todo' = [todo EXCEPT ![v] = todo[v] \ {f}]
    BY <1>1 DEF TypeOK
  <1>5. at'[v] \in {"deleting", "failed"} /\ OnlyJob(v) /\ JobVariables' /\ todo'[v] = todo[v] \ {f}
    BY <1>1, <1>3, <1>4, SameDraft DEF Editing
  <1>6. ~env.overlap => DraftIsOwn(v)'
    <2>1. ~env.overlap => Mine(v).version = v /\ ToDelete(v) = todo[v]
      BY <1>1 DEF JobsAreOwn, DraftIsOwn, Editing
    <2> QED BY <1>2, <1>3, <1>5, <2>1 DEF DraftIsOwn, Editing, ToDelete
  <1> QED BY <1>1, <1>2, <1>3, <1>5, <1>6, EditRelease DEF Editing

LEMMA BeginUploadsRelease ==
  ASSUME ReleaseInvariant, NEW v \in Versions, BeginUploads(v), env' = env
  PROVE  ReleaseInvariant'
  <1> USE DEF ReleaseInvariant
  <1>1. /\ at[v] = "deleting" /\ todo[v] = {} /\ todo' = [todo EXCEPT ![v] = Files(v)]
        /\ GoesTo(v, "uploading") /\ UNCHANGED <<records, configured, draft>>
    BY DEF BeginUploads, GoesTo
  <1>2. Ids' = Ids /\ Mine(v)' = Mine(v) /\ Published(v)' = Published(v)
    BY <1>1 DEF Ids, Mine, Published
  <1>3. Files(v) \in SUBSET (Versions \X Parts)
    BY DEF Files
  <1>4. at'[v] \in {"uploading", "failed"} /\ OnlyJob(v) /\ JobVariables' /\ todo'[v] = Files(v)
    BY <1>1, <1>2, <1>3, SameDraft DEF Editing
  <1>5. ~env.overlap => DraftIsOwn(v)'
    <2>1. ~env.overlap => /\ Mine(v).version = v /\ ~Mine(v).published
                          /\ Mine(v).files = {} /\ Mine(v).begun = {}
      BY <1>1 DEF JobsAreOwn, DraftIsOwn, Editing, ToDelete
    <2> QED BY <1>2, <1>4, <2>1 DEF DraftIsOwn, Editing
  <1>6. Orderly => ConceptIsKnown(v)'
    <2>1. Orderly => Published(v) = {}
      BY <1>1 DEF JobsAreOwn, ConceptIsKnown, Editing
    <2> QED BY <1>2, <1>4, <2>1 DEF ConceptIsKnown
  <1> QED BY <1>1, <1>4, <1>5, <1>6, QuietRelease

LEMMA AnnounceRelease ==
  ASSUME ReleaseInvariant, NEW v \in Versions, Announce(v), env' = env
  PROVE  ReleaseInvariant'
  <1> USE DEF ReleaseInvariant
  <1> DEFINE r == [Mine(v) EXCEPT !.begun = @ \cup {NextFile(v)}]
  <1>1. /\ at[v] = "uploading" /\ Edit(v, r) /\ todo' = todo /\ todo[v] # {}
        /\ GoesTo(v, "committing") /\ draft[v] \in Ids /\ Mine(v) \in Record
    BY MineType DEF Announce, Editing
  <1>2. NextFile(v) \in Versions \X Parts /\ NextFile(v)' = NextFile(v)
    <2>1. NextFile(v) \in todo[v] /\ todo[v] \in SUBSET (Versions \X Parts)
      BY <1>1 DEF NextFile, TypeOK
    <2> QED BY <1>1, <2>1 DEF NextFile
  <1>3. /\ r \in Record /\ r.concept = Mine(v).concept /\ r.version = Mine(v).version
        /\ r.published = Mine(v).published
        /\ r.files = Mine(v).files /\ r.begun = Mine(v).begun \cup {NextFile(v)}
    BY <1>1, <1>2 DEF Record
  <1> HIDE DEF r
  <1>4. Mine(v)' = r /\ draft' = draft /\ ~r.published /\ Ids' = Ids
    BY <1>1, <1>3, MineEdited, EditedIds
  <1>5. at'[v] \in {"committing", "failed"} /\ OnlyJob(v) /\ JobVariables'
    BY <1>1, <1>4, SameDraft DEF Editing
  <1>6. ~env.overlap => DraftIsOwn(v)'
    <2>1. ~env.overlap => /\ Mine(v).version = v /\ Mine(v).begun = {}
                          /\ todo[v] \subseteq Files(v) /\ Mine(v).files = Files(v) \ todo[v]
      BY <1>1 DEF JobsAreOwn, DraftIsOwn, Editing
    <2> QED BY <1>1, <1>2, <1>3, <1>4, <1>5, <2>1 DEF DraftIsOwn, Editing, Files
  <1> QED BY <1>1, <1>3, <1>4, <1>5, <1>6, EditRelease DEF Editing

LEMMA CommitRelease ==
  ASSUME ReleaseInvariant, NEW v \in Versions, Commit(v), env' = env PROVE ReleaseInvariant'
  <1> USE DEF ReleaseInvariant
  <1> DEFINE f == NextFile(v)
             r == [Mine(v) EXCEPT !.files = @ \cup {f}, !.begun = @ \ {f}]
  <1>1. /\ at[v] = "committing" /\ draft[v] \in Ids /\ Mine(v) \in Record /\ Running(v)
    BY MineType DEF Commit, Editing, Running
  <1>2. CASE Exits(v) /\ UNCHANGED <<records, configured, draft, todo, failures>>
    BY <1>1, <1>2, ExitRelease DEF TypeOK
  <1>3. CASE /\ f \in Mine(v).begun /\ Edit(v, r) /\ todo' = [todo EXCEPT ![v] = @ \ {f}]
             /\ GoesTo(v, "uploading")
    <2>1. /\ r \in Record /\ r.concept = Mine(v).concept /\ r.version = Mine(v).version
          /\ r.published = Mine(v).published
          /\ r.files = Mine(v).files \cup {f} /\ r.begun = Mine(v).begun \ {f}
      <3>1. f \in Versions \X Parts
        BY <1>1, <1>3 DEF Record
      <3> HIDE DEF f
      <3> QED BY <1>1, <3>1 DEF Record
    <2>2. Edit(v, r) /\ GoesTo(v, "uploading") /\ todo' = [todo EXCEPT ![v] = todo[v] \ {f}]
      BY <1>3
    <2> HIDE DEF r
    <2>3. Mine(v)' = r /\ draft' = draft /\ ~r.published /\ Ids' = Ids
      BY <1>1, <2>1, <2>2, MineEdited, EditedIds
    <2>4. todo[v] \ {f} \in SUBSET (Versions \X Parts)
      BY DEF TypeOK
    <2>5. at'[v] \in {"uploading", "failed"} /\ OnlyJob(v) /\ JobVariables'
          /\ todo'[v] = todo[v] \ {f}
      BY <1>1, <2>2, <2>3, <2>4, SameDraft DEF Editing
    <2>6. ~env.overlap => DraftIsOwn(v)'
      <3>1. ~env.overlap => /\ Mine(v).version = v /\ Mine(v).begun = {f} /\ f \in todo[v]
                            /\ todo[v] \subseteq Files(v)
                            /\ Mine(v).files = Files(v) \ todo[v]
        BY <1>1 DEF JobsAreOwn, DraftIsOwn, Editing, NextFile
      <3> HIDE DEF f
      <3>2. ~env.overlap => /\ r.files = Files(v) \ (todo[v] \ {f}) /\ r.begun = {}
                            /\ todo[v] \ {f} \subseteq Files(v)
        BY <2>1, <3>1
      <3> QED BY <2>1, <2>3, <2>5, <3>1, <3>2 DEF DraftIsOwn, Editing, Files
    <2> QED BY <1>1, <2>1, <2>2, <2>3, <2>5, <2>6, EditRelease DEF Editing
  <1> QED BY <1>2, <1>3 DEF Commit

(* What is published is complete, and the first of its version. *)
LEMMA PublishRelease ==
  ASSUME ReleaseInvariant, NEW v \in Versions, Publish(v), env' = env PROVE ReleaseInvariant'
  <1> USE DEF ReleaseInvariant
  <1> DEFINE r == [Mine(v) EXCEPT !.published = TRUE]
             d == draft[v]
  <1>1. /\ at[v] = "uploading" /\ todo[v] = {} /\ todo' = todo
        /\ d \in Ids /\ Mine(v) \in Record /\ Running(v)
    BY MineType DEF Publish, Editing, Running
  <1>2. CASE Exits(v) /\ UNCHANGED <<records, configured, draft, failures>>
    BY <1>1, <1>2, ExitRelease DEF TypeOK
  <1>3. CASE Mine(v).begun = {} /\ Edit(v, r) /\ GoesTo(v, "done")
    <2>1. /\ r \in Record /\ r.concept = Mine(v).concept /\ r.version = Mine(v).version
          /\ r.published /\ r.files = Mine(v).files
      BY <1>1 DEF Record
    <2>2. Edit(v, r) /\ GoesTo(v, "done")
      BY <1>3
    <2> HIDE DEF r, d
    <2>3. /\ Ids' = Ids /\ records'[d] = r /\ \A i \in Ids : i # d => records'[i] = records[i]
          /\ \A i \in Ids : records'[i].concept = records[i].concept
          /\ records' \in Seq(Record)
          /\ \A i \in Ids' : /\ records'[i].concept \in 1..i
                             /\ records'[records'[i].concept].concept = records'[i].concept
      BY <1>1, <2>1, <2>2, EditFacts DEF Edit, Mine, d
    <2>4. draft' = draft /\ configured' = configured /\ ~records[d].published
      BY <2>2 DEF Edit, Mine, d
    <2>5. /\ at' \in [Versions -> Places] /\ at'[v] \in {"done", "failed"}
          /\ \A w \in Versions : w # v => at'[w] = at[w]
          /\ failures' \in 0..MaxFailures
      <3>1. "done" \in Places
        BY DEF Places
      <3> QED BY <2>2, <3>1, MoveType
    <2>6. TypeOK'
      <3>1. d # None
        BY <1>1, Typed
      <3> QED BY <1>1, <2>3, <2>4, <2>5, <3>1 DEF TypeOK, d
    <2>7. JobsAreOwn'
      <3>1. DraftIsOwn(v)' /\ ConceptIsKnown(v)'
        BY <2>5 DEF DraftIsOwn, ConceptIsKnown, Editing
      <3>2. Orderly => ConfiguredIsKnown'
        BY <2>3, <2>4 DEF JobsAreOwn, ConfiguredIsKnown
      <3>3. OnlyJob(v)
        BY <1>1, <2>4, <2>5 DEF OnlyJob
      <3> QED BY <3>1, <3>2, <3>3, JobKeepsOwn
    <2>8. ~env.overlap => r.version = v /\ r.files = Files(v)
      <3>1. ~env.overlap => Mine(v).version = v /\ Mine(v).files = Files(v) \ todo[v]
        BY <1>1 DEF JobsAreOwn, DraftIsOwn, Editing
      <3>2. Files(v) \ {} = Files(v)
        OBVIOUS
      <3> QED BY <1>1, <2>1, <3>1, <3>2
    <2>9. \A w : /\ Published(w) \subseteq Published(w)'
                 /\ Published(w)' \subseteq Published(w) \cup {d}
                 /\ d \in Published(w)' <=> r.version = w
      BY <1>1, <2>1, <2>3, <2>4 DEF Published
    <2>10. OneRecordPerRelease'
      <3> SUFFICES ASSUME Orderly
                   PROVE  /\ \A w \in Versions, i, j \in Ids :
                                i \in Published(w)' /\ j \in Published(w)' => i = j
                          /\ \A i, j \in Ids : records'[i].concept = records'[j].concept
                          /\ \A i, j \in Ids :
                                ~records'[i].published /\ ~records'[j].published => i = j
        BY <2>3 DEF OneRecordPerRelease, Orderly
      <3>1. Published(v) = {} /\ r.version = v
        BY <1>1, <2>8 DEF JobsAreOwn, ConceptIsKnown, Editing, Orderly
      <3>2. \A w \in Versions, i, j \in Ids :
               i \in Published(w)' /\ j \in Published(w)' => i = j
        BY <2>9, <3>1 DEF OneRecordPerRelease
      <3>3. \A i, j \in Ids : ~records'[i].published /\ ~records'[j].published => i = j
        BY <2>1, <2>3 DEF OneRecordPerRelease
      <3> QED BY <2>3, <3>2, <3>3 DEF OneRecordPerRelease
    <2>11. PublishedIsComplete'
      BY <2>1, <2>3, <2>8 DEF PublishedIsComplete
    <2>12. DoneIsArchived'
      BY <2>5, <2>8, <2>9 DEF DoneIsArchived
    <2> QED BY <2>6, <2>7, <2>10, <2>11, <2>12
  <1> QED BY <1>1, <1>2, <1>3 DEF Publish

LEMMA NextRelease == ReleaseInvariant /\ [Next]_vars => ReleaseInvariant'
  <1> SUFFICES ASSUME ReleaseInvariant, [Next]_vars PROVE ReleaseInvariant'
    OBVIOUS
  <1> USE DEF ReleaseInvariant
  <1>1. CASE Configure /\ env' = env
    BY <1>1, ConfigureRelease
  <1>2. ASSUME NEW v \in Versions, Start(v), env' = env PROVE ReleaseInvariant'
    BY <1>2, StartRelease
  <1>3. ASSUME NEW v \in Versions, Crash(v), env' = env PROVE ReleaseInvariant'
    BY <1>3, ExitRelease, Typed DEF Crash, Fails
  <1>4. ASSUME NEW v \in Versions, Refused(v), env' = env PROVE ReleaseInvariant'
    BY <1>4, ExitRelease DEF Refused, Running, TypeOK
  <1>5. ASSUME NEW v \in Versions, Job(v), env' = env PROVE ReleaseInvariant'
    BY <1>4, <1>5, FindRelease, CreateRecordRelease, OpenRelease, NewVersionRelease, SaveRelease,
       BeginUploadsRelease, AnnounceRelease, CommitRelease, PublishRelease, DeleteRelease DEF Job
  <1>6. CASE UNCHANGED vars
    <2>1. \A v \in Versions : /\ DraftIsOwn(v) => DraftIsOwn(v)'
                              /\ ConceptIsKnown(v) => ConceptIsKnown(v)'
      BY <1>6 DEF vars, DraftIsOwn, ConceptIsKnown, Mine, ToDelete, NextFile, Published, Ids
    <2>2. JobsAreOwn'
      BY <1>6, <2>1 DEF vars, JobsAreOwn, OneJob, Running, ConfiguredIsKnown, Ids, Orderly
    <2>3. TypeOK'
      BY <1>6 DEF vars, TypeOK, Ids
    <2>4. OneRecordPerRelease' /\ PublishedIsComplete' /\ DoneIsArchived'
      BY <1>6 DEF vars, OneRecordPerRelease, PublishedIsComplete, DoneIsArchived, Published, Ids,
                  Orderly
    <2> QED BY <2>2, <2>3, <2>4
  <1> QED BY <1>1, <1>2, <1>3, <1>5, <1>6 DEF Next

LEMMA ReleaseInvariantHolds == Spec => []ReleaseInvariant
  BY InitRelease, NextRelease, PTL DEF Spec

----------------------------------------------------------------------------
(* The records of the account and the state of the jobs are always of their *)
(* types, in every environment.                                             *)
THEOREM TypeCorrect == Spec => []TypeOK
  BY ReleaseInvariantHolds, PTL DEF ReleaseInvariant

(* find_concept and open_draft: with one job at a time and a search that    *)
(* knows every record, a release has one published version, all of them in  *)
(* one concept with one draft, whatever requests failed                     *)
(* (zenodo_release.py:311-350).                                             *)
THEOREM ReleasedOnce == Spec => []OneRecordPerRelease
  BY ReleaseInvariantHolds, PTL DEF ReleaseInvariant

(* main: with one job at a time, even if a search misses records, what is   *)
(* published has exactly the files of the version it names                  *)
(* (zenodo_release.py:399-433).                                             *)
THEOREM PublishedComplete == Spec => []PublishedIsComplete
  BY ReleaseInvariantHolds, PTL DEF ReleaseInvariant

(* main: with one job at a time, one that ends without an error has         *)
(* archived its release (zenodo_release.py:399-433).                        *)
THEOREM DoneArchived == Spec => []DoneIsArchived
  BY ReleaseInvariantHolds, PTL DEF ReleaseInvariant
=============================================================================
