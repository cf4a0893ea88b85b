---------------------------- MODULE ZenodoRelease ----------------------------
(****************************************************************************)
(* Archiving releases on Zenodo: scripts/zenodo_release.py, run by a job of *)
(* the release pipeline that may fail at any request, whether or not the    *)
(* request had its effect, and may then be run again.                       *)
(*                                                                          *)
(* The records are those of the account with the project's title; a record  *)
(* is known by its place in the sequence and a concept by its first record. *)
(* Of the metadata only the version is kept.                                *)
(****************************************************************************)
EXTENDS Naturals, Sequences

CONSTANTS
    Versions,       \* the releases, as numbers
    Parts,          \* the files of a release
    MaxFailures,    \* bound on the requests that fail
    Environments    \* [overlap, lag]: whether the jobs of two releases may
                    \* run at once, and whether a search may miss records

ASSUME VersionsAssumption == Versions \subseteq Nat \ {0} /\ MaxFailures \in Nat
ASSUME EnvironmentAssumption == Environments \subseteq [overlap : BOOLEAN, lag : BOOLEAN]

Files(v) == {v} \X Parts
None == 0

VARIABLES
    records,    \* [concept, version, files, begun, published] of each record
    configured, \* ZENODO_CONCEPT_ID
    at,         \* where the job of each version is
    draft,      \* the draft it works on, or the record it is to make one from
    todo,       \* the files it has yet to delete or to upload
    failures,
    env         \* the environment, which stays as it is

vars == <<records, configured, at, draft, todo, failures, env>>

Ids == 1..Len(records)

Init ==
    /\ records = <<>>
    /\ configured = None
    /\ at = [v \in Versions |-> "unreleased"]
    /\ draft = [v \in Versions |-> None]
    /\ todo = [v \in Versions |-> {}]
    /\ failures = 0
    /\ env \in Environments

(* A definition below whose name says what it gets wrong is a faulty        *)
(* variant of the one that follows it; no specification uses it.            *)

----------------------------------------------------------------------------
(* The job and its requests.  A request that had its effect may still fail. *)

Exits(v) == at' = [at EXCEPT ![v] = "failed"]

Fails(v) == failures < MaxFailures /\ failures' = failures + 1 /\ Exits(v)

GoesTo(v, place) ==
    \/ at' = [at EXCEPT ![v] = place] /\ UNCHANGED failures
    \/ Fails(v)

Running(v) == at[v] \notin {"unreleased", "failed", "done"}

(* The pipeline runs the job of a version, or runs it again.                *)
Start(v) ==
    /\ at[v] \in {"unreleased", "failed"}
    /\ env.overlap \/ \A w \in Versions : ~Running(w)
    /\ at' = [at EXCEPT ![v] = "finding"]
    /\ draft' = [draft EXCEPT ![v] = None]
    /\ todo' = [todo EXCEPT ![v] = {}]
    /\ UNCHANGED <<records, configured, failures>>

(* A request fails without effect.                                          *)
Crash(v) ==
    /\ Running(v)
    /\ Fails(v)
    /\ UNCHANGED <<records, configured, draft, todo>>

(* The maintainer sets the variable once a record has been published.       *)
Configure ==
    /\ configured = None
    /\ \E i \in Ids : records[i].published /\ configured' = records[i].concept
    /\ UNCHANGED <<records, at, draft, todo, failures>>

----------------------------------------------------------------------------
(* Finding or making the draft.                                             *)

(* The answers to a search that the records of R match.                     *)
own_records(R) == IF env.lag THEN SUBSET R ELSE {R}

ConceptsOfPublished(found) ==
    IF configured # None THEN {configured}
    ELSE {records[i].concept : i \in {j \in found : records[j].published}}

Concepts(found) ==
    IF configured # None THEN {configured} ELSE {records[i].concept : i \in found}

find_concept(v) ==
    /\ at[v] = "finding"
    /\ \E found \in own_records(Ids) :
          \/ /\ Concepts(found) = {}
             /\ GoesTo(v, "creating")
             /\ UNCHANGED draft
          \/ \E c \in Ids :
                /\ Concepts(found) = {c}
                /\ GoesTo(v, "opening")
                /\ draft' = [draft EXCEPT ![v] = c]
          \/ /\ \E c, d \in Concepts(found) : c # d
             /\ Exits(v)
             /\ UNCHANGED <<draft, failures>>
    /\ UNCHANGED <<records, configured, todo>>

CreateKeepingDraft(v, record) ==
    /\ records' = Append(records, record)
    /\ UNCHANGED draft

Create(v, record) ==
    /\ records' = Append(records, record)
    /\ draft' = [draft EXCEPT ![v] = Len(records')]

(* POST /records                                                            *)
CreateRecord(v) ==
    /\ at[v] = "creating"
    /\ Create(v, [concept |-> Len(records) + 1, version |-> v, files |-> {},
                  begun |-> {}, published |-> FALSE])
    /\ GoesTo(v, "saving")
    /\ UNCHANGED <<configured, todo>>

PublishedAsLatest(found, v) ==
    {i \in found : /\ records[i].published /\ records[i].version = v
                   /\ \A j \in found : j <= i}

PublishedAs(found, v) ==
    {i \in found : records[i].published /\ records[i].version = v}

open_draft(v) ==
    /\ at[v] = "opening"
    /\ \E found \in own_records({i \in Ids : records[i].concept = draft[v]}) :
          LET published == {i \in found : records[i].published}
              drafts == found \ published
          IN  \/ /\ PublishedAs(found, v) # {}
                 /\ GoesTo(v, "done")
                 /\ UNCHANGED draft
              \/ /\ PublishedAs(found, v) = {}
                 /\ \E i \in drafts : draft' = [draft EXCEPT ![v] = i]
                 /\ GoesTo(v, "saving")
              \/ /\ PublishedAs(found, v) = {} /\ drafts = {}
                 /\ \E i \in published :
                       /\ \A j \in published : j <= i
                       /\ draft' = [draft EXCEPT ![v] = i]
                 /\ GoesTo(v, "versioning")
              \/ /\ found = {}
                 /\ Exits(v)
                 /\ UNCHANGED <<draft, failures>>
    /\ UNCHANGED <<records, configured, todo>>

(* POST versions: Zenodo returns the draft that there is, or makes one,     *)
(* which may have the files of the version before.                          *)
NewVersion(v) ==
    /\ at[v] = "versioning"
    /\ LET latest == records[draft[v]]
           drafts == {i \in Ids : records[i].concept = latest.concept /\ ~records[i].published}
       IN  \/ /\ \E i \in drafts : draft' = [draft EXCEPT ![v] = i]
              /\ UNCHANGED records
           \/ /\ drafts = {}
              /\ \E inherited \in {{}, latest.files} :
                    Create(v, [latest EXCEPT !.version = None, !.files = inherited,
                                             !.published = FALSE])
    /\ GoesTo(v, "saving")
    /\ UNCHANGED <<configured, todo>>

----------------------------------------------------------------------------
(* main, with the draft.  Zenodo refuses to change a published record.      *)

Mine(v) == records[draft[v]]

Edit(v, record) ==
    /\ ~Mine(v).published
    /\ records' = [records EXCEPT ![draft[v]] = record]
    /\ UNCHANGED <<configured, draft>>

Refused(v) ==
    /\ at[v] \in {"saving", "deleting", "uploading", "committing", "publishing"}
    /\ Mine(v).published
    /\ Exits(v)
    /\ UNCHANGED <<records, configured, draft, todo, failures>>

SavedKeepingVersion(v) == Mine(v)

Saved(v) == [Mine(v) EXCEPT !.version = v]

ToDeleteCommitted(v) == Mine(v).files

ToDeleteUnfinished(v) == Mine(v).begun

ToDelete(v) == Mine(v).files \cup Mine(v).begun

(* PUT the metadata, GET the files.                                         *)
Save(v) ==
    /\ at[v] = "saving"
    /\ Edit(v, Saved(v))
    /\ todo' = [todo EXCEPT ![v] = ToDelete(v)]
    /\ GoesTo(v, "deleting")

Delete(v, f) ==
    /\ at[v] = "deleting" /\ f \in todo[v]
    /\ Edit(v, [Mine(v) EXCEPT !.files = @ \ {f}, !.begun = @ \ {f}])
    /\ todo' = [todo EXCEPT ![v] = @ \ {f}]
    /\ GoesTo(v, "deleting")

BeginUploads(v) ==
    /\ at[v] = "deleting" /\ todo[v] = {}
    /\ todo' = [todo EXCEPT ![v] = Files(v)]
    /\ at' = [at EXCEPT ![v] = "uploading"]
    /\ UNCHANGED <<records, configured, draft, failures>>

NextFile(v) == CHOOSE f \in todo[v] : TRUE

(* POST files: a name that is there already would be refused.               *)
Announce(v) ==
    /\ at[v] = "uploading" /\ todo[v] # {}
    /\ NextFile(v) \notin Mine(v).files \cup Mine(v).begun
    /\ Edit(v, [Mine(v) EXCEPT !.begun = @ \cup {NextFile(v)}])
    /\ GoesTo(v, "committing")
    /\ UNCHANGED todo

(* PUT content, POST commit: refused for a file that is gone or committed.  *)
Commit(v) ==
    /\ at[v] = "committing"
    /\ \/ /\ NextFile(v) \in Mine(v).begun
          /\ Edit(v, [Mine(v) EXCEPT !.files = @ \cup {NextFile(v)},
                                     !.begun = @ \ {NextFile(v)}])
          /\ todo' = [todo EXCEPT ![v] = @ \ {NextFile(v)}]
          /\ GoesTo(v, "uploading")
       \/ /\ NextFile(v) \notin Mine(v).begun
          /\ Exits(v)
          /\ UNCHANGED <<records, configured, draft, todo, failures>>

(* Zenodo refuses to publish a record with no file or an unfinished one.    *)
Publish(v) ==
    /\ at[v] = "uploading" /\ todo[v] = {}
    /\ \/ /\ Mine(v).begun = {} /\ Mine(v).files # {}
          /\ Edit(v, [Mine(v) EXCEPT !.published = TRUE])
          /\ GoesTo(v, "done")
       \/ /\ Mine(v).begun # {} \/ Mine(v).files = {}
          /\ Exits(v)
          /\ UNCHANGED <<records, configured, draft, failures>>
    /\ UNCHANGED todo

----------------------------------------------------------------------------
Job(v) ==
    \/ find_concept(v) \/ CreateRecord(v) \/ open_draft(v) \/ NewVersion(v)
    \/ Save(v) \/ BeginUploads(v) \/ Announce(v) \/ Commit(v) \/ Publish(v)
    \/ Refused(v)
    \/ \E f \in todo[v] : Delete(v, f)

Next ==
    /\ Configure \/ \E v \in Versions : Start(v) \/ Crash(v) \/ Job(v)
    /\ UNCHANGED env

(* A job that has been started takes its next step; nobody need start one.  *)
Fairness == \A v \in Versions : WF_vars(Job(v) /\ UNCHANGED env)

Spec == Init /\ [][Next]_vars
FairSpec == Spec /\ Fairness

----------------------------------------------------------------------------
Places ==
    {"unreleased", "finding", "creating", "opening", "versioning", "saving",
     "deleting", "uploading", "committing", "done", "failed"}

Record == [concept : Nat, version : Versions \cup {None}, published : BOOLEAN,
           files : SUBSET (Versions \X Parts), begun : SUBSET (Versions \X Parts)]

(* Types; a job past open_draft knows a record, a concept is its first one. *)
TypeOK ==
    /\ records \in Seq(Record)
    /\ \A i \in Ids : /\ records[i].concept \in 1..i
                      /\ records[records[i].concept].concept = records[i].concept
    /\ configured \in Ids \cup {None}
    /\ at \in [Versions -> Places]
    /\ draft \in [Versions -> Ids \cup {None}]
    /\ \A v \in Versions :
          at[v] \in Places \ {"unreleased", "finding", "creating", "failed"} => draft[v] # None
    /\ todo \in [Versions -> SUBSET (Versions \X Parts)]
    /\ failures \in 0..MaxFailures

Published(v) == {i \in Ids : records[i].published /\ records[i].version = v}

(* One job at a time and a search that knows every record: the pipeline     *)
(* asks for neither, so the properties below say which of them they need.   *)
Orderly == ~env.overlap /\ ~env.lag

(* open_draft and find_concept: however many runs of the jobs failed, and   *)
(* also when the answer to the publishing request was lost, a release has   *)
(* one published version, all in one concept, with one draft at a time.     *)
OneRecordPerRelease ==
    Orderly =>
        /\ \A v \in Versions, i, j \in Ids :
              i \in Published(v) /\ j \in Published(v) => i = j
        /\ \A i, j \in Ids : records[i].concept = records[j].concept
        /\ \A i, j \in Ids : ~records[i].published /\ ~records[j].published => i = j

(* The loops of main: what is published has exactly the files of the        *)
(* version it names, whatever earlier runs, of this release or of another,  *)
(* left in the draft.                                                       *)
PublishedIsComplete ==
    ~env.overlap =>
        \A i \in Ids : records[i].published =>
            /\ records[i].version \in Versions
            /\ records[i].files = Files(records[i].version)

(* A job that has ended without an error has archived its release.          *)
DoneIsArchived == ~env.overlap => \A v \in Versions : at[v] = "done" => Published(v) # {}

(* A run of the job which no request fails for archives its release,        *)
(* whatever the runs before it left behind: it never has to be repaired by  *)
(* hand.                                                                    *)
RetryArchives ==
    \A v \in Versions :
        (at[v] = "finding" /\ failures = MaxFailures /\ Orderly) ~> at[v] = "done"

----------------------------------------------------------------------------
(* The properties as an inductive invariant.                                *)

Editing == {"saving", "deleting", "uploading", "committing"}

(* The pipeline runs one job at a time, unless it runs those of two         *)
(* releases at once.                                                        *)
OneJob == \A v, w \in Versions : Running(v) /\ Running(w) => v = w

(* What the draft of a job that nobody disturbs has at each of its places.  *)
DraftIsOwn(v) ==
    /\ at[v] \in Editing => ~Mine(v).published
    /\ at[v] \in Editing \ {"saving"} => Mine(v).version = v
    /\ at[v] = "deleting" => ToDelete(v) = todo[v]
    /\ at[v] \in {"uploading", "committing"} =>
          todo[v] \subseteq Files(v) /\ Mine(v).files = Files(v) \ todo[v]
    /\ at[v] = "uploading" => Mine(v).begun = {}
    /\ at[v] = "committing" => todo[v] # {} /\ Mine(v).begun = {NextFile(v)}

(* Every record is of the concept that the job has found, or of the one it  *)
(* is about to make, and a job that goes on past open_draft has nothing     *)
(* published yet.                                                           *)
ConceptIsKnown(v) ==
    /\ at[v] = "creating" => records = <<>>
    /\ at[v] = "opening" => \A i \in Ids : records[i].concept = draft[v]
    /\ at[v] \in Editing \cup {"versioning"} => Published(v) = {}

ConfiguredIsKnown == configured # None => \A i \in Ids : records[i].concept = configured

JobsAreOwn ==
    /\ env \in Environments
    /\ ~env.overlap => OneJob /\ \A v \in Versions : DraftIsOwn(v)
    /\ Orderly => ConfiguredIsKnown /\ \A v \in Versions : ConceptIsKnown(v)

ReleaseInvariant ==
    TypeOK /\ JobsAreOwn /\ OneRecordPerRelease /\ PublishedIsComplete /\ DoneIsArchived
=============================================================================
