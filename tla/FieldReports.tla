---------------------------- MODULE FieldReports ----------------------------
(***************************************************************************)
(* Field reports, their pictures and their reviews.                        *)
(*                                                                         *)
(* A publication writes the pictures of its reports into a directory and   *)
(* then the reports into one document; no transaction spans the two, the   *)
(* process may stop between any two writes, and what is left over is       *)
(* removed when it starts again.  Publications hold a lock and await       *)
(* nothing that suspends, so that reviews fall between them only.          *)
(*                                                                         *)
(* Pictures are named by their content: reports that show the same share   *)
(* one file.  A write of a file is atomic; what it is about to replace is  *)
(* complete until then.                                                    *)
(***************************************************************************)
EXTENDS Integers, FiniteSets, Sequences

CONSTANTS
    Reports,
    Media,
    Pictures,       \* Pictures[r]: the media of report r
    Batches,        \* sets of reports that are published together
    Reviewers,
    Retention,      \* retention_days
    MaxBytes,       \* maximum_bytes, in media
    MaxReports,     \* maximum_reports
    LastDay,        \* bound on the clock
    MaxRevision     \* bound on the reviews of a report

ASSUME ReportsAssumption ==
    /\ Pictures \in [Reports -> SUBSET Media]
    /\ Batches \subseteq SUBSET Reports
    /\ Retention \in Nat \ {0}
    /\ MaxBytes \in Nat /\ MaxReports \in Nat /\ LastDay \in Nat /\ MaxRevision \in Nat

Decisions == {"reject", "retain", "associate", "admit"}

\* Decisions that name an incident, whose existence is asked for first.
AboutIncidents == {"associate", "admit"}

VARIABLES
    today,
    up,             \* whether the process runs
    upload,         \* the publication under way
    file,           \* what the directory holds of each medium
    report,         \* the document: reports ...
    reviews,        \* ... their reviews ...
    observations,   \* ... and the operator observations made of them
    reviewer        \* a review that waits for the incident

reportVars == <<today, up, upload, file, report, reviews, observations, reviewer>>

Days == 0..(LastDay + Retention)

\* A medium is its content (bin) and its metadata, which alone say when it expires.
Files == [bin : BOOLEAN, meta : BOOLEAN, expires : Days]
Missing == [bin |-> FALSE, meta |-> FALSE, expires |-> 0]

NoUpload == [stage |-> "none", batch |-> {}, todo |-> {}, fresh |-> {}, expires |-> 0]

\* own: the media that the publication of the report has itself written.
Unpublished == [state |-> "absent", revision |-> 0, expires |-> 0, own |-> {}]

Waits(r, d, n) == [report |-> r, decision |-> d, revision |-> n]
Idle == [report |-> {}, decision |-> "none", revision |-> 0]

UploadState == [stage : {"none", "media", "meta", "store", "undo"},
                batch : Batches \cup {{}}, todo : SUBSET Media, fresh : SUBSET Media,
                expires : Days]
ReportRecord == [state : {"absent", "pending"} \cup Decisions, revision : 0..MaxRevision,
                 expires : Days, own : SUBSET Media]
ReviewRecord == [decision : Decisions, revision : 1..MaxRevision]
WaitingReview == [report : Reports, decision : AboutIncidents, revision : 0..MaxRevision]

ReportsTypeOK ==
    /\ today \in 0..LastDay /\ up \in BOOLEAN
    /\ upload \in UploadState
    /\ file \in [Media -> Files]
    /\ report \in [Reports -> ReportRecord]
    /\ reviews \in [Reports -> Seq(ReviewRecord)]
    /\ observations \subseteq Reports \X (1..MaxRevision)
    /\ reviewer \in [Reviewers -> WaitingReview \cup {Idle}]

ReportsInit ==
    /\ today = 0 /\ up = TRUE /\ upload = NoUpload
    /\ file = [m \in Media |-> Missing]
    /\ report = [r \in Reports |-> Unpublished]
    /\ reviews = [r \in Reports |-> <<>>]
    /\ observations = {}
    /\ reviewer = [p \in Reviewers |-> Idle]

Stored == {r \in Reports : report[r].state # "absent"}
Of(batch) == UNION {Pictures[r] : r \in batch}
Referenced == Of(Stored)
document == <<report, reviews, observations>>

-----------------------------------------------------------------------------
(* FilesystemFieldMediaStore *)

\* delete: the content, then the metadata.
Deleted(files, gone) == [m \in Media |-> IF m \in gone THEN Missing ELSE files[m]]

\* purge_expired: what has expired, and content without metadata.
Purged(files) ==
    Deleted(files, {m \in Media : IF files[m].meta THEN files[m].expires <= today
                                 ELSE files[m].bin})

\* get: only what is complete and has not expired is there.
IsThere(m) == file[m].bin /\ file[m].meta /\ file[m].expires > today

Used(files) == Cardinality({m \in Media : files[m].bin})

-----------------------------------------------------------------------------
(* submit_with_media and import_reports *)

\* The media of a batch have been sanitized, which sets their retention.  (A
\* submission that is stored already returns at once and changes nothing.)
Begin(batch) ==
    /\ up /\ upload = NoUpload /\ batch # {}
    /\ upload' = [stage |-> "media", batch |-> batch, todo |-> Of(batch), fresh |-> {},
                  expires |-> today + Retention]
    /\ UNCHANGED <<today, up, file, document, reviewer>>

\* _publish_media: a medium that is there stays as it is ...
Keep(m) ==
    /\ upload.stage = "media" /\ m \in upload.todo /\ IsThere(m)
    /\ upload' = [upload EXCEPT !.todo = @ \ {m}]
    /\ UNCHANGED <<today, up, file, document, reviewer>>

\* ... and any other is fresh: what get found of it is deleted, put purges, looks
\* at the capacity and writes the content.  Looking and writing may fail.
WriteContent(m) ==
    /\ upload.stage = "media" /\ m \in upload.todo /\ ~IsThere(m)
    /\ LET kept == Purged(IF file[m].bin THEN Deleted(file, {m}) ELSE file) IN
       \/ /\ Used(kept) < MaxBytes
          /\ file' = [kept EXCEPT ![m].bin = TRUE]
          /\ upload' = [upload EXCEPT !.stage = "meta", !.fresh = @ \cup {m}]
       \/ /\ file' = kept
          /\ upload' = [upload EXCEPT !.stage = "undo", !.fresh = @ \cup {m}]
    /\ UNCHANGED <<today, up, document, reviewer>>

\* The metadata of the content that has just been written.
WriteMetadata(m) ==
    /\ upload.stage = "meta" /\ m \in upload.todo \cap upload.fresh
    /\ \/ /\ file' = [file EXCEPT ![m] = [@ EXCEPT !.meta = TRUE, !.expires = upload.expires]]
          /\ upload' = [upload EXCEPT !.stage = "media", !.todo = @ \ {m}]
       \/ /\ upload' = [upload EXCEPT !.stage = "undo"]
          /\ UNCHANGED file
    /\ UNCHANGED <<today, up, document, reviewer>>

\* add_report, add_reports: all of the batch or nothing.
Store ==
    /\ upload.stage = "media" /\ upload.todo = {}
    /\ upload.batch \cap Stored = {}
    /\ Cardinality(Stored \cup upload.batch) <= MaxReports
    /\ report' = [r \in Reports |->
            IF r \in upload.batch
            THEN [state |-> "pending", revision |-> 0, expires |-> upload.expires,
                  own |-> upload.fresh \cap Pictures[r]]
            ELSE report[r]]
    /\ upload' = NoUpload
    /\ UNCHANGED <<today, up, file, reviews, observations, reviewer>>

\* A report that was imported before comes again with another instant and is
\* refused, as is one too many; and the document may not be writable.
RefuseBatch ==
    /\ upload.stage = "media" /\ upload.todo = {}
    /\ upload' = [upload EXCEPT !.stage = "undo"]
    /\ UNCHANGED <<today, up, file, document, reviewer>>

\* Faulty variant: all media of the batch are removed.
AllPrepared == Of(upload.batch)

\* _remove_new_media: what this publication has written, or meant to.
ToRemove == upload.fresh

Undo ==
    /\ upload.stage = "undo"
    /\ file' = Deleted(file, ToRemove)
    /\ upload' = NoUpload
    /\ UNCHANGED <<today, up, document, reviewer>>

-----------------------------------------------------------------------------
(* review and record_review *)

\* record_review refuses a review of an older revision.
IsCurrent(r, n) == report[r].revision = n

Records(r, d, n) ==
    IF IsCurrent(r, n)
    THEN /\ report' = [report EXCEPT ![r] = [@ EXCEPT !.state = d, !.revision = n + 1]]
         /\ reviews' = [reviews EXCEPT ![r] =
                Append(@, [decision |-> d, revision |-> n + 1])]
         /\ observations' = IF d = "admit" THEN observations \cup {<<r, n + 1>>}
                            ELSE observations
    ELSE UNCHANGED document

Review(p, r, d) ==
    /\ up /\ upload = NoUpload /\ reviewer[p] = Idle
    /\ r \in Stored /\ report[r].revision < MaxRevision
    /\ IF d \in AboutIncidents
       THEN /\ reviewer' = [reviewer EXCEPT ![p] = Waits(r, d, report[r].revision)]
            /\ UNCHANGED document
       ELSE Records(r, d, report[r].revision) /\ UNCHANGED reviewer
    /\ UNCHANGED <<today, up, upload, file>>

\* The incident exists, or it does not and the review ends.
Answered(p, exists) ==
    /\ upload = NoUpload /\ reviewer[p] # Idle
    /\ IF exists
       THEN Records(reviewer[p].report, reviewer[p].decision, reviewer[p].revision)
       ELSE UNCHANGED document
    /\ reviewer' = [reviewer EXCEPT ![p] = Idle]
    /\ UNCHANGED <<today, up, upload, file>>

-----------------------------------------------------------------------------
\* The process stops; half of a removal may be done.
Stops ==
    /\ up
    /\ up' = FALSE
    /\ upload' = NoUpload
    /\ reviewer' = [p \in Reviewers |-> Idle]
    /\ \/ UNCHANGED file
       \/ /\ upload.stage = "undo"
          /\ \E gone \in SUBSET upload.fresh, half \in upload.fresh :
                file' = [Deleted(file, gone) EXCEPT ![half].bin = FALSE]
    /\ UNCHANGED <<today, document>>

\* reconcile: what no report of the document refers to is removed as well.
Reconciled ==
    Deleted(Purged(file), {m \in Media \ Referenced : Purged(file)[m].bin})

\* create_app with the directory and the document that are there.
Start ==
    /\ ~up
    /\ up' = TRUE
    /\ file' = Reconciled
    /\ UNCHANGED <<today, upload, document, reviewer>>

NextDay ==
    /\ today < LastDay
    /\ today' = today + 1
    /\ UNCHANGED <<up, upload, file, document, reviewer>>

ReportsNext ==
    \/ \E batch \in Batches : Begin(batch)
    \/ \E m \in Media : Keep(m) \/ WriteContent(m) \/ WriteMetadata(m)
    \/ Store \/ RefuseBatch \/ Undo
    \/ \E p \in Reviewers :
        \/ \E r \in Reports, d \in Decisions : Review(p, r, d)
        \/ \E exists \in BOOLEAN : Answered(p, exists)
    \/ Stops \/ Start \/ NextDay

ReportsSpec == ReportsInit /\ [][ReportsNext]_reportVars

-----------------------------------------------------------------------------
(* Properties *)

\* What a report has itself published is there until its retention ends, whatever
\* other publications of the same pictures do: expire, fail, or stop half-way.
MediaIsHeld ==
    \A r \in Stored : report[r].expires > today =>
        \A m \in report[r].own :
            file[m] = [bin |-> TRUE, meta |-> TRUE, expires |-> report[r].expires]

\* While nothing is being published, every picture kept is one of a report.
NothingUnreferenced ==
    up /\ upload = NoUpload => \A m \in Media \ Referenced : ~file[m].bin

\* The reviews of a report are numbered without gaps, the last of them is its
\* state, and every admission, and nothing else, has made an observation.
HistoryIsComplete ==
    \A r \in Reports :
        /\ Len(reviews[r]) = report[r].revision
        /\ \A i \in DOMAIN reviews[r] :
            /\ reviews[r][i].revision = i
            /\ reviews[r][i].decision = "admit" <=> <<r, i>> \in observations
        /\ reviews[r] # <<>> => report[r].state = reviews[r][report[r].revision].decision

\* The two stores of field reports agree whatever fails between them, and the
\* history of reviews has no gaps.
FieldReportsAgree == MediaIsHeld /\ NothingUnreferenced /\ HistoryIsComplete
=============================================================================
