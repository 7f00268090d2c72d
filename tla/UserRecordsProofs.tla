-------------------------- MODULE UserRecordsProofs --------------------------
(***************************************************************************)
(* Proofs about what users leave behind: FieldReports for every set of     *)
(* reports, media, batches and reviewers and every retention and capacity, *)
(* and ConversationMemory for every set of turns and world states and      *)
(* every retention.                                                        *)
(***************************************************************************)
EXTENDS FieldReports, ConversationMemory, TLAPS

-----------------------------------------------------------------------------
(* FieldReports: the inductive invariant *)

\* A medium that is complete and kept until the given day.
KeptUntil(day) == [bin |-> TRUE, meta |-> TRUE, expires |-> day]

\* Reports are reviewed after they are stored, and their pictures are their own.
RecordsFit ==
    /\ \A r \in Reports : /\ r \notin Stored => report[r].revision = 0
                          /\ report[r].own \subseteq Pictures[r]
    /\ \A o \in observations : o[2] <= report[o[1]].revision
    /\ \A p \in Reviewers : reviewer[p] # Idle =>
            reviewer[p].report \in Stored /\ reviewer[p].revision < MaxRevision

\* A publication works on the pictures of its batch; what it has written is complete
\* but for the medium it is at.
UploadFits ==
    /\ ~up => upload = NoUpload
    /\ upload.fresh \subseteq Of(upload.batch) /\ upload.todo \subseteq Of(upload.batch)
    /\ upload.stage = "media" => upload.fresh \cap upload.todo = {}
    /\ upload.stage = "meta" =>
            /\ \A m, n \in upload.fresh \cap upload.todo : m = n
            /\ \A m \in upload.fresh \cap upload.todo : file[m].bin

FreshIsWritten ==
    upload.stage \in {"media", "meta"} /\ upload.expires > today =>
        \A m \in upload.fresh \ upload.todo : file[m] = KeptUntil(upload.expires)

\* What a publication may remove is held by no report.
FreshIsFree ==
    \A r \in Stored : report[r].expires > today => report[r].own \cap upload.fresh = {}

\* Content without a report is of the publication under way.
LeftoversAreFresh ==
    up => \A m \in Media \ Referenced : file[m].bin => m \in upload.fresh

ReportsInv ==
    /\ ReportsTypeOK
    /\ MediaIsHeld
    /\ HistoryIsComplete
    /\ RecordsFit
    /\ UploadFits
    /\ FreshIsWritten
    /\ FreshIsFree
    /\ LeftoversAreFresh

-----------------------------------------------------------------------------
(* FieldReports: files and what a step leaves alone *)

\* Numbers of days.
LEMMA DaysAreNumbers ==
    ASSUME ReportsTypeOK
    PROVE  /\ today \in Nat /\ today + Retention \in Days
           /\ \A day \in Days : day \in Nat
           /\ upload.expires \in Nat
           /\ \A m \in Media : file[m] \in Files /\ file[m].expires \in Nat
           /\ \A r \in Reports : report[r].expires \in Nat
  <1>1. /\ today \in 0..LastDay /\ upload \in UploadState
        /\ \A m \in Media : file[m] \in Files
        /\ \A r \in Reports : report[r] \in ReportRecord
    BY DEF ReportsTypeOK
  <1>2. LastDay \in Nat /\ Retention \in Nat
    BY ReportsAssumption
  <1>3. today \in Nat /\ today + Retention \in Days /\ \A day \in Days : day \in Nat
    BY <1>1, <1>2 DEF Days
  <1>4. /\ upload.expires \in Days /\ \A m \in Media : file[m].expires \in Days
        /\ \A r \in Reports : report[r].expires \in Days
    BY <1>1 DEF UploadState, Files, ReportRecord
  <1>5. QED
    BY <1>1, <1>3, <1>4

LEMMA MissingIsAFile == Missing \in Files /\ ~Missing.bin
  BY ReportsAssumption DEF Missing, Files, Days

\* Content whose metadata are written is complete.
LEMMA CompletedFile ==
    ASSUME NEW f \in Files, NEW day \in Days, f.bin
    PROVE  /\ [f EXCEPT !.meta = TRUE, !.expires = day] \in Files
           /\ [f EXCEPT !.meta = TRUE, !.expires = day] = KeptUntil(day)
  <1> DEFINE g == [f EXCEPT !.meta = TRUE, !.expires = day]
  <1>1. g \in Files /\ g.bin = TRUE /\ g.meta = TRUE /\ g.expires = day
    BY DEF Files
  <1> HIDE DEF g
  <1>2. g = KeptUntil(day)
    BY <1>1 DEF Files, KeptUntil
  <1>3. QED
    BY <1>1, <1>2 DEF g

\* What is deleted is missing, the rest stays.
LEMMA DeletedFiles ==
    ASSUME NEW files \in [Media -> Files], NEW gone
    PROVE  /\ Deleted(files, gone) \in [Media -> Files]
           /\ \A m \in Media : Deleted(files, gone)[m] =
                    IF m \in gone THEN Missing ELSE files[m]
  BY MissingIsAFile DEF Deleted

\* What is purged is missing; what is complete and has not expired stays.
LEMMA PurgedFiles ==
    ASSUME NEW files \in [Media -> Files], today \in Nat
    PROVE  /\ Purged(files) \in [Media -> Files]
           /\ \A m \in Media : Purged(files)[m] = files[m] \/ Purged(files)[m] = Missing
           /\ \A m \in Media : files[m].meta /\ files[m].expires > today =>
                    Purged(files)[m] = files[m]
  <1> DEFINE gone == {m \in Media : IF files[m].meta THEN files[m].expires <= today
                                   ELSE files[m].bin}
  <1>1. Purged(files) = Deleted(files, gone)
    BY DEF Purged
  <1>2. \A m \in Media : files[m].meta /\ files[m].expires > today => m \notin gone
    <2>1. TAKE m \in Media
    <2>2. files[m].expires \in Nat
      <3>1. files[m] \in Files
        OBVIOUS
      <3>2. QED
        BY <3>1, ReportsAssumption DEF Files, Days
    <2>3. QED
      BY <2>2
  <1> HIDE DEF gone
  <1>3. QED
    BY <1>1, <1>2, DeletedFiles

\* Pictures of reports are media.
LEMMA PicturesOf ==
    ASSUME NEW batch \in SUBSET Reports
    PROVE  /\ Of(batch) \subseteq Media
           /\ \A m : m \in Of(batch) <=> \E r \in batch : m \in Pictures[r]
  BY ReportsAssumption DEF Of

\* A step that leaves the document and the reviewers alone.
LEMMA DocumentStays ==
    ASSUME ReportsInv, UNCHANGED <<report, reviews, observations, reviewer>>
    PROVE  HistoryIsComplete' /\ RecordsFit' /\ Stored' = Stored /\ Referenced' = Referenced
  BY DEF ReportsInv, HistoryIsComplete, RecordsFit, Stored, Referenced, Of

\* Files that a report holds.
Held(m) == \E r \in Stored : report[r].expires > today /\ m \in report[r].own

LEMMA HeldFiles ==
    ASSUME ReportsInv, NEW m \in Media, Held(m)
    PROVE  /\ file[m].bin /\ file[m].meta /\ file[m].expires > today /\ IsThere(m)
           /\ m \notin upload.fresh /\ m \in Referenced
  <1>1. PICK r \in Stored : report[r].expires > today /\ m \in report[r].own
    BY DEF Held
  <1>2. r \in Reports
    BY DEF Stored
  <1>3. file[m] = KeptUntil(report[r].expires)
    BY <1>1 DEF ReportsInv, MediaIsHeld, KeptUntil
  <1>4. m \notin upload.fresh
    BY <1>1 DEF ReportsInv, FreshIsFree
  <1>5. m \in Pictures[r]
    BY <1>1, <1>2 DEF ReportsInv, RecordsFit
  <1>6. m \in Referenced
    BY <1>5, PicturesOf DEF Referenced, Stored
  <1>7. QED
    BY <1>1, <1>3, <1>4, <1>6 DEF KeptUntil, IsThere

\* A step that leaves the files alone that reports hold.
LEMMA HeldStays ==
    ASSUME ReportsInv, UNCHANGED <<today, report>>,
           \A m \in Media : Held(m) => file'[m] = file[m]
    PROVE  MediaIsHeld'
  <1>1. Stored' = Stored
    BY DEF Stored
  <1>2. ASSUME NEW r \in Stored, report[r].expires > today, NEW m \in report[r].own
        PROVE  file'[m] = [bin |-> TRUE, meta |-> TRUE, expires |-> report[r].expires]
    <2>1. m \in Media /\ Held(m)
      BY <1>2 DEF Held, ReportsInv, ReportsTypeOK, ReportRecord, Stored
    <2>2. QED
      BY <1>2, <2>1 DEF ReportsInv, MediaIsHeld
  <1>3. QED
    BY <1>1, <1>2 DEF MediaIsHeld

-----------------------------------------------------------------------------
(* FieldReports: the steps of a publication *)

LEMMA BeginKeeps ==
    ASSUME ReportsInv, NEW batch \in Batches, Begin(batch) PROVE ReportsInv'
  <1>1. /\ up /\ upload = NoUpload
        /\ upload' = [stage |-> "media", batch |-> batch, todo |-> Of(batch),
                      fresh |-> {}, expires |-> today + Retention]
        /\ UNCHANGED <<today, up, file, report, reviews, observations, reviewer>>
    BY DEF Begin, document
  <1>2. batch \in SUBSET Reports /\ Of(batch) \subseteq Media
    BY ReportsAssumption, PicturesOf
  <1>3. today + Retention \in Days
    BY DaysAreNumbers DEF ReportsInv
  <1>4. /\ upload' \in UploadState /\ upload'.stage = "media" /\ upload'.batch = batch
        /\ upload'.todo = Of(batch) /\ upload'.fresh = {}
    BY <1>1, <1>2, <1>3 DEF UploadState
  <1>5. ReportsTypeOK'
    BY <1>1, <1>4 DEF ReportsInv, ReportsTypeOK
  <1>6. MediaIsHeld' /\ HistoryIsComplete' /\ RecordsFit'
    BY <1>1, HeldStays, DocumentStays
  <1>7. UploadFits' /\ FreshIsWritten' /\ FreshIsFree'
    BY <1>1, <1>4 DEF UploadFits, FreshIsWritten, FreshIsFree
  <1>8. LeftoversAreFresh'
    <2>1. upload.fresh = {}
      BY <1>1 DEF NoUpload
    <2>2. QED
      BY <1>1, <2>1, DocumentStays DEF ReportsInv, LeftoversAreFresh
  <1>9. QED
    BY <1>5, <1>6, <1>7, <1>8 DEF ReportsInv

LEMMA KeepKeeps ==
    ASSUME ReportsInv, NEW m \in Media, Keep(m) PROVE ReportsInv'
  <1>1. /\ upload.stage = "media" /\ m \in upload.todo
        /\ upload' = [upload EXCEPT !.todo = @ \ {m}]
        /\ UNCHANGED <<today, up, file, report, reviews, observations, reviewer>>
    BY DEF Keep, document
  <1>2. /\ upload' \in UploadState /\ upload'.todo = upload.todo \ {m}
        /\ upload'.stage = upload.stage /\ upload'.batch = upload.batch
        /\ upload'.fresh = upload.fresh /\ upload'.expires = upload.expires
    BY <1>1 DEF ReportsInv, ReportsTypeOK, UploadState
  <1>3. ReportsTypeOK'
    BY <1>1, <1>2 DEF ReportsInv, ReportsTypeOK
  <1>4. MediaIsHeld' /\ HistoryIsComplete' /\ RecordsFit'
    BY <1>1, HeldStays, DocumentStays
  <1>5. up /\ upload.fresh \cap upload.todo = {}
    BY <1>1 DEF ReportsInv, ReportsTypeOK, UploadFits, NoUpload
  <1>6. UploadFits' /\ FreshIsFree'
    BY <1>1, <1>2, <1>5, DocumentStays DEF ReportsInv, UploadFits, FreshIsFree, Of
  <1>7. upload'.fresh \ upload'.todo = upload.fresh \ upload.todo
    BY <1>2, <1>5, <1>1
  <1>8. FreshIsWritten'
    BY <1>1, <1>2, <1>7 DEF ReportsInv, FreshIsWritten, KeptUntil
  <1>9. LeftoversAreFresh'
    BY <1>1, <1>2, DocumentStays DEF ReportsInv, LeftoversAreFresh
  <1>10. QED
    BY <1>3, <1>4, <1>6, <1>8, <1>9 DEF ReportsInv

\* The content that is written was held by nobody, for it was not there.
LEMMA WriteContentKeeps ==
    ASSUME ReportsInv, NEW m \in Media, WriteContent(m) PROVE ReportsInv'
  <1> DEFINE base == IF file[m].bin THEN Deleted(file, {m}) ELSE file
             kept == Purged(base)
  <1>1. /\ upload.stage = "media" /\ m \in upload.todo /\ ~IsThere(m)
        /\ UNCHANGED <<today, up, report, reviews, observations, reviewer>>
        /\ \/ /\ file' = [kept EXCEPT ![m].bin = TRUE]
              /\ upload' = [upload EXCEPT !.stage = "meta", !.fresh = @ \cup {m}]
           \/ /\ file' = kept
              /\ upload' = [upload EXCEPT !.stage = "undo", !.fresh = @ \cup {m}]
    BY DEF WriteContent, document
  <1>2. file \in [Media -> Files] /\ today \in Nat
    BY DaysAreNumbers DEF ReportsInv, ReportsTypeOK
  <1>3. base \in [Media -> Files] /\ \A n \in Media : n # m => base[n] = file[n]
    BY <1>2, DeletedFiles
  <1> HIDE DEF base
  <1>4. /\ kept \in [Media -> Files]
        /\ \A n \in Media : n # m => kept[n] = file[n] \/ kept[n] = Missing
        /\ \A n \in Media : n # m /\ file[n].meta /\ file[n].expires > today =>
                kept[n] = file[n]
    BY <1>2, <1>3, PurgedFiles
  <1> HIDE DEF kept
  <1>5. /\ file' \in [Media -> Files]
        /\ \A n \in Media : n # m => file'[n] = kept[n]
        /\ upload'.stage = "meta" => file'[m].bin
        /\ upload' \in UploadState /\ upload'.stage \in {"meta", "undo"}
        /\ upload'.fresh = upload.fresh \cup {m} /\ upload'.todo = upload.todo
        /\ upload'.batch = upload.batch /\ upload'.expires = upload.expires
    <2>1. upload \in UploadState /\ kept[m] \in Files
      BY <1>4 DEF ReportsInv, ReportsTypeOK
    <2>2. /\ [kept[m] EXCEPT !.bin = TRUE] \in Files
          /\ [kept[m] EXCEPT !.bin = TRUE].bin
      BY <2>1 DEF Files
    <2>3. CASE /\ file' = [kept EXCEPT ![m].bin = TRUE]
               /\ upload' = [upload EXCEPT !.stage = "meta", !.fresh = @ \cup {m}]
      <3>1. file' = [kept EXCEPT ![m] = [kept[m] EXCEPT !.bin = TRUE]]
        BY <2>3
      <3>2. /\ file' \in [Media -> Files] /\ file'[m].bin
            /\ \A n \in Media : n # m => file'[n] = kept[n]
        BY <1>4, <2>2, <3>1
      <3>3. QED
        BY <2>1, <2>3, <3>2 DEF UploadState
    <2>4. CASE /\ file' = kept
               /\ upload' = [upload EXCEPT !.stage = "undo", !.fresh = @ \cup {m}]
      BY <1>4, <2>1, <2>4 DEF UploadState
    <2>5. QED
      BY <1>1, <2>3, <2>4
  <1>6. up /\ upload.fresh \cap upload.todo = {}
    BY <1>1 DEF ReportsInv, ReportsTypeOK, UploadFits, NoUpload
  <1>7. \A n \in Media : Held(n) => n # m /\ file'[n] = file[n]
    BY <1>1, <1>4, <1>5, HeldFiles
  <1>8. ReportsTypeOK'
    BY <1>1, <1>5 DEF ReportsInv, ReportsTypeOK
  <1>9. MediaIsHeld' /\ HistoryIsComplete' /\ RecordsFit'
    BY <1>1, <1>7, HeldStays, DocumentStays
  <1>10. UploadFits'
    <2>1. upload'.fresh \cap upload'.todo = {m}
      BY <1>1, <1>5, <1>6
    <2>2. upload'.fresh \subseteq Of(upload'.batch) /\ upload'.todo \subseteq Of(upload'.batch)
      BY <1>1, <1>5 DEF ReportsInv, UploadFits
    <2>3. QED
      BY <1>1, <1>5, <1>6, <2>1, <2>2 DEF UploadFits, Of
  <1>11. FreshIsWritten'
    <2>1. upload'.fresh \ upload'.todo = upload.fresh \ upload.todo
      BY <1>1, <1>5
    <2>2. ASSUME upload.expires > today, NEW n \in upload.fresh \ upload.todo
          PROVE  file'[n] = KeptUntil(upload.expires)
      <3>1. n # m /\ n \in Media
        BY <1>1 DEF ReportsInv, ReportsTypeOK, UploadState
      <3>2. file[n] = KeptUntil(upload.expires)
        BY <1>1, <2>2 DEF ReportsInv, FreshIsWritten
      <3>3. file[n].meta /\ file[n].expires > today
        BY <2>2, <3>2 DEF KeptUntil
      <3>4. QED
        BY <1>4, <1>5, <3>1, <3>2, <3>3
    <2>3. QED
      BY <1>1, <1>5, <2>1, <2>2 DEF FreshIsWritten, KeptUntil
  <1>12. FreshIsFree'
    <2>1. ASSUME NEW r \in Stored, report[r].expires > today
          PROVE  report[r].own \cap upload'.fresh = {}
      <3>1. m \notin report[r].own
        BY <1>7, <2>1 DEF Held
      <3>2. QED
        BY <1>5, <2>1, <3>1 DEF ReportsInv, FreshIsFree
    <2>2. QED
      BY <1>1, <2>1, DocumentStays DEF FreshIsFree
  <1>13. LeftoversAreFresh'
    BY <1>1, <1>4, <1>5, MissingIsAFile, DocumentStays DEF ReportsInv, LeftoversAreFresh
  <1>14. QED
    BY <1>8, <1>9, <1>10, <1>11, <1>12, <1>13 DEF ReportsInv

LEMMA WriteMetadataKeeps ==
    ASSUME ReportsInv, NEW m \in Media, WriteMetadata(m) PROVE ReportsInv'
  <1>1. /\ upload.stage = "meta" /\ m \in upload.todo /\ m \in upload.fresh
        /\ UNCHANGED <<today, up, report, reviews, observations, reviewer>>
    BY DEF WriteMetadata, document
  <1>2. /\ upload \in UploadState /\ file \in [Media -> Files] /\ file[m] \in Files
        /\ upload.expires \in Days /\ up
    BY <1>1 DEF ReportsInv, ReportsTypeOK, UploadFits, NoUpload, UploadState
  <1>3. file[m].bin /\ \A n \in upload.fresh \cap upload.todo : n = m
    BY <1>1 DEF ReportsInv, UploadFits
  <1>4. HistoryIsComplete' /\ RecordsFit' /\ Stored' = Stored /\ Referenced' = Referenced
    BY <1>1, DocumentStays
  <1>5. CASE upload' = [upload EXCEPT !.stage = "undo"] /\ UNCHANGED file
    <2>1. /\ upload' \in UploadState /\ upload'.stage = "undo" /\ upload'.todo = upload.todo
          /\ upload'.fresh = upload.fresh /\ upload'.batch = upload.batch
      BY <1>2, <1>5 DEF UploadState
    <2>2. ReportsTypeOK'
      BY <1>1, <1>5, <2>1 DEF ReportsInv, ReportsTypeOK
    <2>3. MediaIsHeld'
      BY <1>1, <1>5, HeldStays
    <2>4. UploadFits' /\ FreshIsWritten' /\ FreshIsFree' /\ LeftoversAreFresh'
      BY <1>1, <1>2, <1>4, <1>5, <2>1
      DEF ReportsInv, UploadFits, FreshIsWritten, FreshIsFree, LeftoversAreFresh, Of
    <2>5. QED
      BY <1>4, <2>2, <2>3, <2>4 DEF ReportsInv
  <1>6. CASE /\ file' = [file EXCEPT ![m] =
                            [@ EXCEPT !.meta = TRUE, !.expires = upload.expires]]
             /\ upload' = [upload EXCEPT !.stage = "media", !.todo = @ \ {m}]
    <2>1. /\ upload' \in UploadState /\ upload'.stage = "media"
          /\ upload'.todo = upload.todo \ {m} /\ upload'.fresh = upload.fresh
          /\ upload'.batch = upload.batch /\ upload'.expires = upload.expires
      BY <1>2, <1>6 DEF UploadState
    <2>2. /\ [file[m] EXCEPT !.meta = TRUE, !.expires = upload.expires] \in Files
          /\ [file[m] EXCEPT !.meta = TRUE, !.expires = upload.expires]
                = KeptUntil(upload.expires)
      BY <1>2, <1>3, CompletedFile
    <2>3. /\ file' \in [Media -> Files] /\ file'[m] = KeptUntil(upload.expires)
          /\ \A n \in Media : n # m => file'[n] = file[n]
      BY <1>2, <1>6, <2>2
    <2>4. ReportsTypeOK'
      BY <1>1, <2>1, <2>3 DEF ReportsInv, ReportsTypeOK
    <2>5. MediaIsHeld'
      BY <1>1, <2>3, HeldStays, HeldFiles
    <2>6. UploadFits'
      <3>1. upload'.fresh \cap upload'.todo = {}
        BY <1>3, <2>1
      <3>2. QED
        BY <1>1, <1>2, <2>1, <3>1 DEF ReportsInv, UploadFits, Of
    <2>7. FreshIsWritten'
      <3>1. ASSUME upload.expires > today, NEW n \in upload.fresh \ (upload.todo \ {m})
            PROVE  file'[n] = KeptUntil(upload.expires)
        <4>1. n \in Media
          BY <1>2 DEF UploadState
        <4>2. CASE n = m
          BY <2>3, <4>2
        <4>3. CASE n # m
          BY <1>1, <2>3, <3>1, <4>1, <4>3 DEF ReportsInv, FreshIsWritten
        <4>4. QED
          BY <4>2, <4>3
      <3>2. QED
        BY <1>1, <2>1, <3>1 DEF FreshIsWritten, KeptUntil
    <2>8. FreshIsFree'
      BY <1>1, <1>4, <2>1 DEF ReportsInv, FreshIsFree
    <2>9. LeftoversAreFresh'
      BY <1>1, <1>4, <2>1, <2>3 DEF ReportsInv, LeftoversAreFresh
    <2>10. QED
      BY <1>4, <2>4, <2>5, <2>6, <2>7, <2>8, <2>9 DEF ReportsInv
  <1>7. QED
    BY <1>5, <1>6 DEF WriteMetadata

\* Reports are stored when all of their pictures are there.
LEMMA StoreKeeps == ASSUME ReportsInv, Store PROVE ReportsInv'
  <1> DEFINE new(r) == [state |-> "pending", revision |-> 0, expires |-> upload.expires,
                        own |-> upload.fresh \cap Pictures[r]]
  <1>1. /\ upload.stage = "media" /\ upload.todo = {} /\ upload.batch \cap Stored = {}
        /\ upload' = NoUpload
        /\ report' = [r \in Reports |-> IF r \in upload.batch THEN new(r) ELSE report[r]]
        /\ UNCHANGED <<today, up, file, reviews, observations, reviewer>>
    BY DEF Store
  <1>2. /\ upload \in UploadState /\ upload.batch \subseteq Reports /\ upload.expires \in Days
        /\ upload.fresh \subseteq Media
    BY ReportsAssumption DEF ReportsInv, ReportsTypeOK, UploadState
  <1>3. \A r \in Reports :
            /\ new(r) \in ReportRecord /\ new(r).state = "pending" /\ new(r).revision = 0
            /\ new(r).expires = upload.expires
            /\ new(r).own = upload.fresh \cap Pictures[r]
    BY <1>2, ReportsAssumption DEF ReportRecord
  <1> HIDE DEF new
  <1>4. report' \in [Reports -> ReportRecord]
    BY <1>1, <1>3 DEF ReportsInv, ReportsTypeOK
  <1>5. Stored' = Stored \cup upload.batch
    BY <1>1, <1>2, <1>3 DEF Stored
  <1>6. /\ NoUpload \in UploadState /\ NoUpload.stage = "none" /\ NoUpload.fresh = {}
        /\ NoUpload.todo = {}
    BY ReportsAssumption DEF NoUpload, UploadState, Days
  <1>7. ReportsTypeOK'
    BY <1>1, <1>4, <1>6 DEF ReportsInv, ReportsTypeOK
  <1>8. MediaIsHeld'
    <2>1. ASSUME NEW r \in Stored', report'[r].expires > today, NEW m \in report'[r].own
          PROVE  file[m] = [bin |-> TRUE, meta |-> TRUE, expires |-> report'[r].expires]
      <3>1. CASE r \in upload.batch
        <4>1. /\ report'[r].expires = upload.expires /\ m \in upload.fresh
          BY <1>1, <1>2, <1>3, <2>1, <3>1
        <4>2. QED
          BY <1>1, <2>1, <4>1 DEF ReportsInv, FreshIsWritten, KeptUntil
      <3>2. CASE r \notin upload.batch
        BY <1>1, <1>5, <2>1, <3>2 DEF ReportsInv, MediaIsHeld, Stored
      <3>3. QED
        BY <3>1, <3>2
    <2>2. QED
      BY <1>1, <2>1 DEF MediaIsHeld
  <1>9. \A r \in Reports : /\ r \in upload.batch => report[r].revision = 0 /\ r \notin Stored
                           /\ report'[r].revision = report[r].revision
                           /\ r \notin upload.batch => report'[r] = report[r]
    BY <1>1, <1>3 DEF ReportsInv, RecordsFit
  <1>10. HistoryIsComplete'
    <2>1. ASSUME NEW r \in Reports PROVE reviews[r] # <<>> => report'[r].state = report[r].state
      <3>1. CASE r \in upload.batch
        <4>1. Len(reviews[r]) = 0 /\ reviews[r] \in Seq(ReviewRecord)
          BY <1>9, <3>1 DEF ReportsInv, ReportsTypeOK, HistoryIsComplete
        <4>2. QED
          BY <4>1
      <3>2. CASE r \notin upload.batch
        BY <1>9, <3>2
      <3>3. QED
        BY <3>1, <3>2
    <2>2. QED
      BY <1>1, <1>9, <2>1 DEF ReportsInv, HistoryIsComplete
  <1>11. RecordsFit'
    <2>1. \A r \in Reports : report'[r].own \subseteq Pictures[r]
      BY <1>1, <1>3, <1>9 DEF ReportsInv, RecordsFit
    <2>2. \A o \in observations : o[2] <= report'[o[1]].revision
      BY <1>9 DEF ReportsInv, ReportsTypeOK, RecordsFit
    <2>3. QED
      BY <1>1, <1>5, <1>9, <2>1, <2>2 DEF ReportsInv, RecordsFit
  <1>12. UploadFits' /\ FreshIsWritten' /\ FreshIsFree'
    BY <1>1, <1>6 DEF UploadFits, FreshIsWritten, FreshIsFree
  <1>13. LeftoversAreFresh'
    <2>1. ASSUME NEW m \in Media \ Referenced' PROVE m \notin Referenced /\ m \notin upload.fresh
      <3>1. \A r \in Stored \cup upload.batch : m \notin Pictures[r]
        BY <1>5, <2>1 DEF Referenced, Of
      <3>2. m \notin Referenced /\ m \notin Of(upload.batch)
        BY <3>1 DEF Referenced, Of
      <3>3. QED
        BY <3>2 DEF ReportsInv, UploadFits
    <2>2. QED
      BY <1>1, <2>1 DEF ReportsInv, LeftoversAreFresh
  <1>14. QED
    BY <1>7, <1>8, <1>10, <1>11, <1>12, <1>13 DEF ReportsInv

LEMMA RefuseBatchKeeps == ASSUME ReportsInv, RefuseBatch PROVE ReportsInv'
  <1>1. /\ upload.stage = "media" /\ upload' = [upload EXCEPT !.stage = "undo"]
        /\ UNCHANGED <<today, up, file, report, reviews, observations, reviewer>>
    BY DEF RefuseBatch, document
  <1>2. /\ upload' \in UploadState /\ upload'.stage = "undo" /\ upload'.todo = upload.todo
        /\ upload'.fresh = upload.fresh /\ upload'.batch = upload.batch
        /\ up
    <2>1. upload \in UploadState
      BY DEF ReportsInv, ReportsTypeOK
    <2>2. up
      BY <1>1 DEF ReportsInv, ReportsTypeOK, UploadFits, NoUpload
    <2>3. QED
      BY <1>1, <2>1, <2>2 DEF UploadState
  <1>3. ReportsTypeOK'
    BY <1>1, <1>2 DEF ReportsInv, ReportsTypeOK
  <1>4. MediaIsHeld' /\ HistoryIsComplete' /\ RecordsFit'
    BY <1>1, HeldStays, DocumentStays
  <1>5. UploadFits' /\ FreshIsWritten' /\ FreshIsFree' /\ LeftoversAreFresh'
    BY <1>1, <1>2, DocumentStays
    DEF ReportsInv, UploadFits, FreshIsWritten, FreshIsFree, LeftoversAreFresh, Of
  <1>6. QED
    BY <1>3, <1>4, <1>5 DEF ReportsInv

\* Nothing that a report holds is removed.
LEMMA UndoKeeps == ASSUME ReportsInv, Undo PROVE ReportsInv'
  <1>1. /\ file' = Deleted(file, upload.fresh) /\ upload' = NoUpload
        /\ UNCHANGED <<today, up, report, reviews, observations, reviewer>>
    BY DEF Undo, ToRemove, document
  <1>2. /\ file' \in [Media -> Files]
        /\ \A m \in Media : file'[m] = IF m \in upload.fresh THEN Missing ELSE file[m]
    BY <1>1, DeletedFiles DEF ReportsInv, ReportsTypeOK
  <1>3. /\ NoUpload \in UploadState /\ NoUpload.stage = "none" /\ NoUpload.fresh = {}
        /\ NoUpload.todo = {}
    BY ReportsAssumption DEF NoUpload, UploadState, Days
  <1>4. ReportsTypeOK'
    BY <1>1, <1>2, <1>3 DEF ReportsInv, ReportsTypeOK
  <1>5. MediaIsHeld' /\ HistoryIsComplete' /\ RecordsFit'
    BY <1>1, <1>2, HeldFiles, HeldStays, DocumentStays
  <1>6. UploadFits' /\ FreshIsWritten' /\ FreshIsFree'
    BY <1>1, <1>3 DEF UploadFits, FreshIsWritten, FreshIsFree
  <1>7. LeftoversAreFresh'
    BY <1>1, <1>2, MissingIsAFile, DocumentStays DEF ReportsInv, LeftoversAreFresh
  <1>8. QED
    BY <1>4, <1>5, <1>6, <1>7 DEF ReportsInv

-----------------------------------------------------------------------------
(* FieldReports: reviews, the process and time *)

\* A review appends itself to the history of its report, and makes an observation
\* exactly when it admits the report.
LEMMA ReviewRecorded ==
    ASSUME ReportsInv, NEW r \in Stored, NEW d \in Decisions, NEW n \in 0..MaxRevision,
           n < MaxRevision, Records(r, d, n), UNCHANGED <<today, up, upload, file>>,
           reviewer' \in [Reviewers -> WaitingReview \cup {Idle}],
           \A p \in Reviewers : reviewer'[p] # Idle =>
                reviewer'[p].report \in Stored /\ reviewer'[p].revision < MaxRevision
    PROVE  ReportsInv'
  <1>1. r \in Reports /\ report[r] \in ReportRecord /\ report[r].state # "absent"
    BY DEF Stored, ReportsInv, ReportsTypeOK
  <1>2. n \in Nat /\ n + 1 \in 1..MaxRevision /\ n + 1 \in 0..MaxRevision
    BY ReportsAssumption
  <1>3. CASE ~IsCurrent(r, n)
    <2>1. UNCHANGED <<report, reviews, observations>>
      BY <1>3 DEF Records, document
    <2>2. ReportsTypeOK'
      BY <2>1 DEF ReportsInv, ReportsTypeOK
    <2>3. Stored' = Stored /\ Referenced' = Referenced
      BY <2>1 DEF Stored, Referenced, Of
    <2>4. HistoryIsComplete' /\ RecordsFit'
      BY <2>1, <2>3 DEF ReportsInv, HistoryIsComplete, RecordsFit
    <2>5. MediaIsHeld' /\ UploadFits' /\ FreshIsWritten' /\ FreshIsFree' /\ LeftoversAreFresh'
      BY <2>1, <2>3
      DEF ReportsInv, MediaIsHeld, UploadFits, FreshIsWritten, FreshIsFree, LeftoversAreFresh, Of
    <2>6. QED
      BY <2>2, <2>4, <2>5 DEF ReportsInv
  <1>4. CASE IsCurrent(r, n)
    <2> DEFINE revised == [report[r] EXCEPT !.state = d, !.revision = n + 1]
               entry == [decision |-> d, revision |-> n + 1]
    <2>1. report[r].revision = n
      BY <1>4 DEF IsCurrent
    <2>2. /\ revised \in ReportRecord /\ revised.state = d /\ revised.revision = n + 1
          /\ revised.expires = report[r].expires /\ revised.own = report[r].own
      BY <1>1, <1>2 DEF ReportRecord
    <2>3. report' = [report EXCEPT ![r] = revised]
      BY <1>4 DEF Records
    <2>4. /\ entry \in ReviewRecord /\ entry.decision = d /\ entry.revision = n + 1
      BY <1>2 DEF ReviewRecord
    <2>5. reviews' = [reviews EXCEPT ![r] = Append(reviews[r], entry)]
      BY <1>4 DEF Records
    <2>6. observations' = IF d = "admit" THEN observations \cup {<<r, n + 1>>}
                          ELSE observations
      BY <1>4 DEF Records
    <2> HIDE DEF revised, entry
    <2>7. /\ report' \in [Reports -> ReportRecord] /\ report'[r] = revised
          /\ \A s \in Reports : s # r => report'[s] = report[s]
      BY <1>1, <2>2, <2>3 DEF ReportsInv, ReportsTypeOK
    <2>8. /\ reviews[r] \in Seq(ReviewRecord) /\ Len(reviews[r]) = n
          /\ Append(reviews[r], entry) \in Seq(ReviewRecord)
          /\ Len(Append(reviews[r], entry)) = n + 1
          /\ DOMAIN Append(reviews[r], entry) = 1..(n + 1) /\ DOMAIN reviews[r] = 1..n
          /\ \A i \in 1..n : Append(reviews[r], entry)[i] = reviews[r][i]
          /\ Append(reviews[r], entry)[n + 1] = entry
          /\ Append(reviews[r], entry) # <<>>
      <3>1. reviews[r] \in Seq(ReviewRecord) /\ Len(reviews[r]) = n
        BY <1>1, <2>1 DEF ReportsInv, ReportsTypeOK, HistoryIsComplete
      <3>2. QED
        BY <2>4, <3>1
    <2>9. /\ reviews' \in [Reports -> Seq(ReviewRecord)]
          /\ reviews'[r] = Append(reviews[r], entry)
          /\ \A s \in Reports : s # r => reviews'[s] = reviews[s]
      BY <1>1, <2>5, <2>8 DEF ReportsInv, ReportsTypeOK
    <2>10. Stored' = Stored
      BY <1>1, <2>2, <2>7 DEF Stored, Decisions
    <2>11. Referenced' = Referenced
      BY <2>10 DEF Referenced, Of
    <2>12. ReportsTypeOK'
      <3>1. observations' \subseteq Reports \X (1..MaxRevision)
        BY <1>1, <1>2, <2>6 DEF ReportsInv, ReportsTypeOK
      <3>2. QED
        BY <2>7, <2>9, <3>1 DEF ReportsInv, ReportsTypeOK
    <2>13. \A s \in Reports : /\ report'[s].expires = report[s].expires
                              /\ report'[s].own = report[s].own
      BY <2>2, <2>7
    <2>14. MediaIsHeld' /\ FreshIsFree'
      BY <2>10, <2>13 DEF ReportsInv, MediaIsHeld, FreshIsFree, Stored
    <2>15. UploadFits' /\ FreshIsWritten' /\ LeftoversAreFresh'
      BY <2>11 DEF ReportsInv, UploadFits, FreshIsWritten, LeftoversAreFresh, Of
    <2>16. RecordsFit'
      <3>1. \A s \in Reports : /\ s \notin Stored => report'[s].revision = 0
                               /\ report'[s].own \subseteq Pictures[s]
        BY <2>7, <2>13 DEF ReportsInv, RecordsFit
      <3>2. ASSUME NEW o \in observations' PROVE o[2] <= report'[o[1]].revision
        <4>1. o \in observations => o[1] \in Reports /\ o[2] \in Nat
                                    /\ o[2] <= report[o[1]].revision
          BY ReportsAssumption DEF ReportsInv, ReportsTypeOK, RecordsFit
        <4>2. o \in observations \/ (o[1] = r /\ o[2] = n + 1)
          BY <2>6, <3>2
        <4>3. QED
          BY <1>2, <2>1, <2>2, <2>7, <4>1, <4>2
      <3>3. QED
        BY <2>10, <3>1, <3>2 DEF RecordsFit
    <2>17. HistoryIsComplete'
      <3>1. ASSUME NEW s \in Reports, s # r
            PROVE  /\ Len(reviews'[s]) = report'[s].revision
                   /\ \A i \in DOMAIN reviews'[s] :
                        /\ reviews'[s][i].revision = i
                        /\ reviews'[s][i].decision = "admit" <=> <<s, i>> \in observations'
                   /\ reviews'[s] # <<>> =>
                        report'[s].state = reviews'[s][report'[s].revision].decision
        <4>1. \A i : <<s, i>> \in observations' <=> <<s, i>> \in observations
          BY <2>6, <3>1
        <4>2. reviews'[s] = reviews[s] /\ report'[s] = report[s]
          BY <2>7, <2>9, <3>1
        <4>3. /\ Len(reviews[s]) = report[s].revision
              /\ \A i \in DOMAIN reviews[s] :
                    /\ reviews[s][i].revision = i
                    /\ reviews[s][i].decision = "admit" <=> <<s, i>> \in observations
              /\ reviews[s] # <<>> => report[s].state = reviews[s][report[s].revision].decision
          BY <3>1 DEF ReportsInv, HistoryIsComplete
        <4>4. QED
          BY <4>1, <4>2, <4>3
      <3>2. Len(reviews'[r]) = report'[r].revision
        BY <2>2, <2>7, <2>8, <2>9
      <3>3. ASSUME NEW i \in DOMAIN reviews'[r]
            PROVE  /\ reviews'[r][i].revision = i
                   /\ reviews'[r][i].decision = "admit" <=> <<r, i>> \in observations'
        <4>1. CASE i = n + 1
          <5>1. <<r, n + 1>> \notin observations
            <6>1. \A o \in observations : o[2] <= report[o[1]].revision
              BY DEF ReportsInv, RecordsFit
            <6>2. QED
              BY <1>2, <2>1, <6>1
          <5>2. <<r, i>> \in observations' <=> d = "admit"
            BY <2>6, <4>1, <5>1
          <5>3. QED
            BY <2>4, <2>8, <2>9, <4>1, <5>2
        <4>2. CASE i # n + 1
          <5>1. i \in 1..n /\ i \in DOMAIN reviews[r] /\ reviews'[r][i] = reviews[r][i]
            BY <1>2, <2>8, <2>9, <3>3, <4>2
          <5>2. <<r, i>> \in observations' <=> <<r, i>> \in observations
            BY <2>6, <4>2
          <5>3. QED
            BY <1>1, <5>1, <5>2 DEF ReportsInv, HistoryIsComplete
        <4>3. QED
          BY <4>1, <4>2
      <3>4. report'[r].state = reviews'[r][report'[r].revision].decision
        BY <2>2, <2>4, <2>7, <2>8, <2>9
      <3>5. QED
        BY <3>1, <3>2, <3>3, <3>4 DEF HistoryIsComplete
    <2>18. QED
      BY <2>12, <2>14, <2>15, <2>16, <2>17 DEF ReportsInv
  <1>5. QED
    BY <1>3, <1>4

LEMMA IdleReviewer == Idle \notin WaitingReview
  BY ReportsAssumption DEF Idle, WaitingReview, AboutIncidents

LEMMA ReviewKeeps ==
    ASSUME ReportsInv, NEW p \in Reviewers, NEW r \in Reports, NEW d \in Decisions,
           Review(p, r, d)
    PROVE  ReportsInv'
  <1>1. /\ r \in Stored /\ report[r].revision < MaxRevision
        /\ UNCHANGED <<today, up, upload, file>>
    BY DEF Review
  <1>2. report[r].revision \in 0..MaxRevision
    BY DEF ReportsInv, ReportsTypeOK, ReportRecord
  <1>3. CASE d \in AboutIncidents
    <2> DEFINE wait == Waits(r, d, report[r].revision)
    <2>1. reviewer' = [reviewer EXCEPT ![p] = wait] /\ UNCHANGED <<report, reviews, observations>>
      BY <1>3 DEF Review, document
    <2>2. wait \in WaitingReview /\ wait.report = r /\ wait.revision = report[r].revision
      BY <1>2, <1>3 DEF Waits, WaitingReview
    <2> HIDE DEF wait
    <2>3. reviewer' \in [Reviewers -> WaitingReview \cup {Idle}]
      BY <2>1, <2>2 DEF ReportsInv, ReportsTypeOK
    <2>4. \A q \in Reviewers : reviewer'[q] # Idle =>
                reviewer'[q].report \in Stored /\ reviewer'[q].revision < MaxRevision
      <3>1. \A q \in Reviewers : reviewer'[q] = IF q = p THEN wait ELSE reviewer[q]
        BY <2>1 DEF ReportsInv, ReportsTypeOK
      <3>2. QED
        BY <1>1, <2>2, <3>1 DEF ReportsInv, RecordsFit
    <2>5. ReportsTypeOK'
      BY <1>1, <2>1, <2>3 DEF ReportsInv, ReportsTypeOK
    <2>6. Stored' = Stored /\ Referenced' = Referenced
      BY <2>1 DEF Stored, Referenced, Of
    <2>7. RecordsFit' /\ HistoryIsComplete'
      BY <2>1, <2>4, <2>6 DEF ReportsInv, RecordsFit, HistoryIsComplete
    <2>8. MediaIsHeld' /\ UploadFits' /\ FreshIsWritten' /\ FreshIsFree' /\ LeftoversAreFresh'
      BY <1>1, <2>1, <2>6
      DEF ReportsInv, MediaIsHeld, UploadFits, FreshIsWritten, FreshIsFree, LeftoversAreFresh, Of
    <2>9. QED
      BY <2>5, <2>7, <2>8 DEF ReportsInv
  <1>4. CASE d \notin AboutIncidents
    <2>1. Records(r, d, report[r].revision) /\ UNCHANGED reviewer
      BY <1>4 DEF Review
    <2>2. /\ reviewer' \in [Reviewers -> WaitingReview \cup {Idle}]
          /\ \A q \in Reviewers : reviewer'[q] # Idle =>
                reviewer'[q].report \in Stored /\ reviewer'[q].revision < MaxRevision
      BY <2>1 DEF ReportsInv, ReportsTypeOK, RecordsFit
    <2>3. QED
      BY <1>1, <1>2, <2>1, <2>2, ReviewRecorded
  <1>5. QED
    BY <1>3, <1>4

LEMMA AnsweredKeeps ==
    ASSUME ReportsInv, NEW p \in Reviewers, NEW exists \in BOOLEAN, Answered(p, exists)
    PROVE  ReportsInv'
  <1>1. /\ reviewer[p] # Idle /\ reviewer' = [reviewer EXCEPT ![p] = Idle]
        /\ UNCHANGED <<today, up, upload, file>>
    BY DEF Answered
  <1>2. /\ reviewer[p] \in WaitingReview /\ reviewer[p].report \in Stored
        /\ reviewer[p].revision < MaxRevision
    BY <1>1 DEF ReportsInv, ReportsTypeOK, RecordsFit
  <1>3. /\ reviewer[p].decision \in Decisions /\ reviewer[p].revision \in 0..MaxRevision
    BY <1>2 DEF WaitingReview, AboutIncidents, Decisions
  <1>4. /\ reviewer' \in [Reviewers -> WaitingReview \cup {Idle}]
        /\ \A q \in Reviewers : reviewer'[q] # Idle =>
                reviewer'[q].report \in Stored /\ reviewer'[q].revision < MaxRevision
    BY <1>1 DEF ReportsInv, ReportsTypeOK, RecordsFit
  <1>5. CASE exists
    BY <1>1, <1>2, <1>3, <1>4, <1>5, ReviewRecorded DEF Answered
  <1>6. CASE ~exists
    <2>1. UNCHANGED <<report, reviews, observations>>
      BY <1>6 DEF Answered, document
    <2>2. ReportsTypeOK'
      BY <1>1, <1>4, <2>1 DEF ReportsInv, ReportsTypeOK
    <2>3. Stored' = Stored /\ Referenced' = Referenced
      BY <2>1 DEF Stored, Referenced, Of
    <2>4. RecordsFit' /\ HistoryIsComplete'
      BY <1>4, <2>1, <2>3 DEF ReportsInv, RecordsFit, HistoryIsComplete
    <2>5. MediaIsHeld' /\ UploadFits' /\ FreshIsWritten' /\ FreshIsFree' /\ LeftoversAreFresh'
      BY <1>1, <2>1, <2>3
      DEF ReportsInv, MediaIsHeld, UploadFits, FreshIsWritten, FreshIsFree, LeftoversAreFresh, Of
    <2>6. QED
      BY <2>2, <2>4, <2>5 DEF ReportsInv
  <1>7. QED
    BY <1>5, <1>6

\* Whatever part of a removal was done, nothing was removed that a report holds.
LEMMA StopsKeeps == ASSUME ReportsInv, Stops PROVE ReportsInv'
  <1>1. /\ up' = FALSE /\ upload' = NoUpload /\ reviewer' = [p \in Reviewers |-> Idle]
        /\ UNCHANGED <<today, report, reviews, observations>>
    BY DEF Stops, document
  <1>2. /\ file' \in [Media -> Files]
        /\ \A m \in Media : m \notin upload.fresh => file'[m] = file[m]
    <2>1. CASE UNCHANGED file
      BY <2>1 DEF ReportsInv, ReportsTypeOK
    <2>2. ASSUME NEW gone \in SUBSET upload.fresh, NEW half \in upload.fresh,
                 file' = [Deleted(file, gone) EXCEPT ![half].bin = FALSE]
          PROVE  /\ file' \in [Media -> Files]
                 /\ \A m \in Media : m \notin upload.fresh => file'[m] = file[m]
      <3> DEFINE left == Deleted(file, gone)
      <3>1. /\ left \in [Media -> Files]
            /\ \A m \in Media : m \notin gone => left[m] = file[m]
        BY DeletedFiles DEF ReportsInv, ReportsTypeOK
      <3>2. file' = [left EXCEPT ![half] = [left[half] EXCEPT !.bin = FALSE]]
        BY <2>2
      <3> HIDE DEF left
      <3>3. half \in Media
        BY DEF ReportsInv, ReportsTypeOK, UploadState
      <3>4. left[half] \in Files
        BY <3>1, <3>3
      <3>5. [left[half] EXCEPT !.bin = FALSE] \in Files
        BY <3>4 DEF Files
      <3>6. QED
        BY <3>1, <3>2, <3>5
    <2>3. QED
      BY <2>1, <2>2 DEF Stops
  <1>3. /\ NoUpload \in UploadState /\ NoUpload.stage = "none" /\ NoUpload.fresh = {}
        /\ NoUpload.todo = {}
    BY ReportsAssumption DEF NoUpload, UploadState, Days
  <1>4. ReportsTypeOK'
    BY <1>1, <1>2, <1>3 DEF ReportsInv, ReportsTypeOK
  <1>5. MediaIsHeld'
    BY <1>1, <1>2, HeldFiles, HeldStays
  <1>6. Stored' = Stored
    BY <1>1 DEF Stored
  <1>7. HistoryIsComplete' /\ RecordsFit'
    BY <1>1, <1>6 DEF ReportsInv, HistoryIsComplete, RecordsFit
  <1>8. UploadFits' /\ FreshIsWritten' /\ FreshIsFree' /\ LeftoversAreFresh'
    BY <1>1, <1>3 DEF UploadFits, FreshIsWritten, FreshIsFree, LeftoversAreFresh
  <1>9. QED
    BY <1>4, <1>5, <1>7, <1>8 DEF ReportsInv

\* Reconciling removes what has expired and what no report refers to, and all of it.
LEMMA StartKeeps == ASSUME ReportsInv, Start PROVE ReportsInv'
  <1> DEFINE kept == Purged(file)
             orphans == {m \in Media \ Referenced : kept[m].bin}
  <1>1. /\ ~up /\ up' = TRUE /\ file' = Deleted(kept, orphans)
        /\ UNCHANGED <<today, upload, report, reviews, observations, reviewer>>
    BY DEF Start, Reconciled, document
  <1>2. file \in [Media -> Files] /\ today \in Nat
    BY DaysAreNumbers DEF ReportsInv, ReportsTypeOK
  <1>3. /\ kept \in [Media -> Files]
        /\ \A m \in Media : file[m].meta /\ file[m].expires > today => kept[m] = file[m]
    BY <1>2, PurgedFiles
  <1>4. \A m : m \in orphans <=> m \in Media \ Referenced /\ kept[m].bin
    OBVIOUS
  <1> HIDE DEF kept, orphans
  <1>5. /\ file' \in [Media -> Files]
        /\ \A m \in Media : file'[m] = IF m \in orphans THEN Missing ELSE kept[m]
    BY <1>1, <1>3, DeletedFiles
  <1>6. /\ upload = NoUpload /\ upload.stage = "none" /\ upload.fresh = {}
        /\ upload.todo = {}
    BY <1>1 DEF ReportsInv, UploadFits, NoUpload
  <1>7. ReportsTypeOK'
    BY <1>1, <1>5 DEF ReportsInv, ReportsTypeOK
  <1>8. MediaIsHeld' /\ HistoryIsComplete' /\ RecordsFit'
    BY <1>1, <1>3, <1>4, <1>5, HeldFiles, HeldStays, DocumentStays
  <1>9. UploadFits' /\ FreshIsWritten' /\ FreshIsFree'
    BY <1>1, <1>6 DEF UploadFits, FreshIsWritten, FreshIsFree
  <1>10. LeftoversAreFresh'
    BY <1>1, <1>4, <1>5, MissingIsAFile, DocumentStays DEF LeftoversAreFresh
  <1>11. QED
    BY <1>7, <1>8, <1>9, <1>10 DEF ReportsInv

LEMMA NextDayKeeps == ASSUME ReportsInv, NextDay PROVE ReportsInv'
  <1>1. /\ today' = today + 1 /\ today < LastDay
        /\ UNCHANGED <<up, upload, file, report, reviews, observations, reviewer>>
    BY DEF NextDay, document
  <1>2. /\ today \in Nat /\ upload.expires \in Nat
        /\ \A r \in Reports : report[r].expires \in Nat
    BY DaysAreNumbers DEF ReportsInv
  <1>3. ReportsTypeOK'
    BY <1>1, <1>2, ReportsAssumption DEF ReportsInv, ReportsTypeOK
  <1>4. HistoryIsComplete' /\ RecordsFit' /\ Stored' = Stored /\ Referenced' = Referenced
    BY <1>1, DocumentStays
  <1>5. MediaIsHeld' /\ FreshIsFree'
    <2>1. \A r \in Stored : report[r].expires > today' => report[r].expires > today
      BY <1>1, <1>2 DEF Stored
    <2>2. QED
      BY <1>1, <1>4, <2>1 DEF ReportsInv, MediaIsHeld, FreshIsFree
  <1>6. FreshIsWritten'
    <2>1. upload.expires > today' => upload.expires > today
      BY <1>1, <1>2
    <2>2. QED
      BY <1>1, <2>1 DEF ReportsInv, FreshIsWritten, KeptUntil
  <1>7. UploadFits' /\ LeftoversAreFresh'
    BY <1>1, <1>4 DEF ReportsInv, UploadFits, LeftoversAreFresh, Of
  <1>8. QED
    BY <1>3, <1>4, <1>5, <1>6, <1>7 DEF ReportsInv

LEMMA ReportsInitFits == ReportsInit => ReportsInv
  <1> SUFFICES ASSUME ReportsInit PROVE ReportsInv
    OBVIOUS
  <1>1. /\ NoUpload \in UploadState /\ NoUpload.stage = "none" /\ NoUpload.fresh = {}
        /\ NoUpload.todo = {}
        /\ Unpublished \in ReportRecord /\ Unpublished.state = "absent"
        /\ Unpublished.revision = 0 /\ Unpublished.own = {}
    BY ReportsAssumption DEF NoUpload, UploadState, Days, Unpublished, ReportRecord
  <1>2. ReportsTypeOK
    BY <1>1, MissingIsAFile, ReportsAssumption DEF ReportsInit, ReportsTypeOK
  <1>3. Stored = {}
    BY <1>1 DEF ReportsInit, Stored
  <1>4. HistoryIsComplete /\ RecordsFit
    BY <1>1, <1>3 DEF ReportsInit, HistoryIsComplete, RecordsFit
  <1>5. MediaIsHeld /\ UploadFits /\ FreshIsWritten /\ FreshIsFree
    BY <1>1, <1>3 DEF ReportsInit, MediaIsHeld, UploadFits, FreshIsWritten, FreshIsFree
  <1>6. LeftoversAreFresh
    BY MissingIsAFile DEF ReportsInit, LeftoversAreFresh
  <1>7. QED
    BY <1>2, <1>4, <1>5, <1>6 DEF ReportsInv

LEMMA ReportsStepFits == ReportsInv /\ [ReportsNext]_reportVars => ReportsInv'
  <1> SUFFICES ASSUME ReportsInv, [ReportsNext]_reportVars PROVE ReportsInv'
    OBVIOUS
  <1>1. ASSUME NEW batch \in Batches, Begin(batch) PROVE ReportsInv'
    BY <1>1, BeginKeeps
  <1>2. ASSUME NEW m \in Media, Keep(m) \/ WriteContent(m) \/ WriteMetadata(m)
        PROVE  ReportsInv'
    BY <1>2, KeepKeeps, WriteContentKeeps, WriteMetadataKeeps
  <1>3. CASE Store \/ RefuseBatch \/ Undo
    BY <1>3, StoreKeeps, RefuseBatchKeeps, UndoKeeps
  <1>4. ASSUME NEW p \in Reviewers, NEW r \in Reports, NEW d \in Decisions, Review(p, r, d)
        PROVE  ReportsInv'
    BY <1>4, ReviewKeeps
  <1>5. ASSUME NEW p \in Reviewers, NEW exists \in BOOLEAN, Answered(p, exists)
        PROVE  ReportsInv'
    BY <1>5, AnsweredKeeps
  <1>6. CASE Stops \/ Start \/ NextDay
    BY <1>6, StopsKeeps, StartKeeps, NextDayKeeps
  <1>7. CASE UNCHANGED reportVars
    <2>1. UNCHANGED <<today, up, upload, file, report, reviews, observations, reviewer>>
      BY <1>7 DEF reportVars
    <2>2. ReportsTypeOK'
      BY <2>1 DEF ReportsInv, ReportsTypeOK
    <2>3. MediaIsHeld' /\ HistoryIsComplete' /\ RecordsFit' /\ Stored' = Stored
          /\ Referenced' = Referenced
      BY <2>1, HeldStays, DocumentStays
    <2>4. UploadFits' /\ FreshIsWritten' /\ FreshIsFree' /\ LeftoversAreFresh'
      BY <2>1, <2>3
      DEF ReportsInv, UploadFits, FreshIsWritten, FreshIsFree, LeftoversAreFresh, Of, KeptUntil
    <2>5. QED
      BY <2>2, <2>3, <2>4 DEF ReportsInv
  <1>8. QED
    BY <1>1, <1>2, <1>3, <1>4, <1>5, <1>6, <1>7 DEF ReportsNext

\* The inductive invariant holds in every state.
LEMMA ReportsInvHolds == ReportsSpec => []ReportsInv
  BY ReportsInitFits, ReportsStepFits, PTL DEF ReportsSpec

\* Every variable of the field reports has its type.
THEOREM ReportsAreTyped == ReportsSpec => []ReportsTypeOK
  <1>1. ReportsInv => ReportsTypeOK
    BY DEF ReportsInv
  <1>2. QED
    BY <1>1, ReportsInvHolds, PTL

\* The pictures that a report has published are there until its retention ends, none
\* is kept that no report refers to, and the reviews of a report are complete, however
\* publications of shared pictures expire, fail, or are stopped between any two writes
\* (submit_with_media, reconcile, record_review).
THEOREM FieldReportsStayInAgreement == ReportsSpec => []FieldReportsAgree
  <1>1. ReportsInv => FieldReportsAgree
    <2>1. upload = NoUpload => upload.fresh = {}
      BY DEF NoUpload
    <2>2. QED
      BY <2>1 DEF ReportsInv, FieldReportsAgree, NothingUnreferenced, LeftoversAreFresh
  <1>2. QED
    BY <1>1, ReportsInvHolds, PTL

-----------------------------------------------------------------------------
(* ConversationMemory: the inductive invariant *)

\* The conversation is created once, by its first turn, before any other turn.
RowFits ==
    /\ row.state = "absent" => messages = {} /\ \A t \in Turns : turn[t].pc = "new"
    /\ turn[Creator].pc = "new" => row.state = "absent"

\* The row is as recent as its messages and as what turns have read of them.
RowIsLatest ==
    /\ \A m \in messages : m.at <= row.updated
    /\ \A t \in Turns : \A m \in turn[t].history : m.at <= row.updated

Said(t, role) == \E m \in messages : m.turn = t /\ m.role = role

\* What a turn has stored is there as long as the conversation is.
TurnFits(t) ==
    /\ \A m \in turn[t].history : m.turn # t
    /\ turn[t].pc = "new" => turn[t].history = {}
    /\ turn[t].pc \in {"new", "ask"} => \A m \in messages : m.turn # t
    /\ turn[t].pc \in {"list", "save"} => turn[t].version \in Versions
    /\ IsOpen =>
        /\ turn[t].pc \in {"assist", "expire", "answer", "list", "save"} => Said(t, "user")
        /\ turn[t].pc \in {"list", "save"} => Said(t, "assistant")
        /\ turn[t].pc = "save" => \A s \in turn[t].known.sources : \A role \in Roles :
                                        Said(s, role)

TalkInv ==
    /\ TalkTypeOK
    /\ ConversationIsSound
    /\ RowFits
    /\ RowIsLatest
    /\ \A t \in Turns : TurnFits(t)

-----------------------------------------------------------------------------
(* ConversationMemory: what a step leaves alone *)

\* A turn moves, the others stay.
LEMMA TurnMoves ==
    ASSUME TalkTypeOK, NEW t \in Turns, NEW k \in TurnState, turn' = [turn EXCEPT ![t] = k]
    PROVE  /\ turn' \in [Turns -> TurnState] /\ turn'[t] = k
           /\ \A q \in Turns : q # t => turn'[q] = turn[q]
  BY DEF TalkTypeOK

\* A record that is absent, and turns that hold nothing.
LEMMA BlankStates ==
    /\ Absent \in Record /\ Absent.status = "absent" /\ Absent.sources = {}
    /\ \A pc \in {"new", "over"} :
            TurnAt(pc) \in TurnState /\ TurnAt(pc).pc = pc /\ TurnAt(pc).history = {}
  <1>1. /\ 0 \in 0..LastMoment /\ 0 \in 0..(LastMoment + Life)
    BY MemoryAssumption
  <1>2. Absent \in Record /\ Absent.status = "absent" /\ Absent.sources = {}
    BY <1>1 DEF Absent, Record
  <1>3. QED
    BY <1>1, <1>2 DEF TurnAt, TurnState

\* A turn that has begun is of a conversation that was created.
LEMMA BegunIsCreated ==
    ASSUME TalkInv, NEW t \in Turns, turn[t].pc # "new"
    PROVE  row.state # "absent"
  BY DEF TalkInv, RowFits

\* What a turn reads of the clock is an instant that has been.
LEMMA ReadingsArePast ==
    ASSUME TalkTypeOK, NEW t \in Turns, NEW now \in Readings(t)
    PROVE  now \in Nat /\ now \in 0..LastMoment /\ moment \in 0..LastMoment
  <1>1. /\ turn[t] \in TurnState /\ moment \in 0..LastMoment /\ LastMoment \in Nat
    BY MemoryAssumption DEF TalkTypeOK
  <1>2. turn[t].since \in 0..LastMoment
    BY <1>1 DEF TurnState
  <1>3. QED
    BY <1>1, <1>2 DEF Readings

\* Turns that others do not touch still fit.
LEMMA OthersFit ==
    ASSUME NEW q \in Turns, TurnFits(q), turn'[q] = turn[q], messages \subseteq messages',
           \A m \in messages' : m \in messages \/ m.turn # q,
           IsOpen' => IsOpen
    PROVE  TurnFits(q)'
  BY DEF TurnFits, Said

\* Memory is about messages that stay.
LEMMA MemoryStays ==
    ASSUME TalkInv, UNCHANGED memory, messages \subseteq messages'
    PROVE  /\ memory' \in [Versions -> Record]
           /\ OneActiveMemory' /\ LineageIsSound' /\ SourcesExist'
  <1>1. memory' \in [Versions -> Record] /\ OneActiveMemory' /\ LineageIsSound'
    BY DEF TalkInv, TalkTypeOK, ConversationIsSound, OneActiveMemory, LineageIsSound
  <1>2. SourcesExist'
    BY DEF TalkInv, ConversationIsSound, SourcesExist
  <1>3. QED
    BY <1>1, <1>2

\* A step of one turn that says nothing.  Its history may only shrink, or be read
\* from the conversation before the turn has said anything.
LEMMA TurnSteps ==
    ASSUME TalkInv, NEW t \in Turns, NEW k \in TurnState, turn' = [turn EXCEPT ![t] = k],
           UNCHANGED <<moment, row, messages>>,
           row.state # "absent", k.pc # "new",
           \/ k.history \subseteq turn[t].history
           \/ k.history \subseteq messages /\ \A m \in messages : m.turn # t,
           memory' \in [Versions -> Record],
           OneActiveMemory', LineageIsSound', SourcesExist',
           TurnFits(t)'
    PROVE  TalkInv'
  <1>1. /\ turn' \in [Turns -> TurnState] /\ turn'[t] = k
        /\ \A q \in Turns : q # t => turn'[q] = turn[q]
    BY TurnMoves DEF TalkInv
  <1>2. TalkTypeOK'
    BY <1>1 DEF TalkInv, TalkTypeOK
  <1>3. MessagesAreOrdered'
    BY <1>1 DEF TalkInv, ConversationIsSound, MessagesAreOrdered
  <1>4. RowFits'
    BY <1>1, MemoryAssumption DEF TalkInv, RowFits
  <1>5. RowIsLatest'
    BY <1>1 DEF TalkInv, RowIsLatest
  <1>6. ASSUME NEW q \in Turns, q # t PROVE TurnFits(q)'
    BY <1>1, <1>6, OthersFit DEF TalkInv, IsOpen
  <1>7. QED
    BY <1>2, <1>3, <1>4, <1>5, <1>6 DEF TalkInv, ConversationIsSound

\* A turn that ends holds nothing and fits.
LEMMA EndedTurnFits ==
    ASSUME TalkTypeOK, NEW t \in Turns, Ends(t)
    PROVE  TurnFits(t)' /\ turn' = [turn EXCEPT ![t] = TurnAt("over")]
  <1>1. turn' = [turn EXCEPT ![t] = TurnAt("over")]
    BY DEF Ends
  <1>2. turn'[t] = TurnAt("over")
    BY <1>1, BlankStates, TurnMoves
  <1>3. QED
    BY <1>1, <1>2, BlankStates DEF TurnFits

\* The turn ends, and memory is as sound as it was.
LEMMA EndsKeeps ==
    ASSUME TalkInv, NEW t \in Turns, Ends(t), UNCHANGED <<moment, row, messages>>,
           row.state # "absent", memory' \in [Versions -> Record],
           OneActiveMemory', LineageIsSound', SourcesExist'
    PROVE  TalkInv'
  <1>1. TurnFits(t)' /\ turn' = [turn EXCEPT ![t] = TurnAt("over")]
    BY EndedTurnFits DEF TalkInv
  <1>2. QED
    BY <1>1, BlankStates, TurnSteps

-----------------------------------------------------------------------------
(* ConversationMemory: the steps *)

LEMMA CreateKeeps == ASSUME TalkInv, NEW t \in Turns, Create(t) PROVE TalkInv'
  <1> DEFINE k == [turn[t] EXCEPT !.pc = "ask", !.since = moment]
  <1>1. /\ turn[t].pc = "new" /\ t = Creator /\ turn' = [turn EXCEPT ![t] = k]
        /\ row' = [state |-> "open", updated |-> moment]
        /\ UNCHANGED <<moment, messages, memory>>
    BY DEF Create
  <1>2. messages = {} /\ \A q \in Turns : turn[q].pc = "new" /\ turn[q].history = {}
    BY <1>1 DEF TalkInv, RowFits, TurnFits
  <1>3. k \in TurnState /\ k.pc = "ask" /\ k.history = turn[t].history
    BY DEF TalkInv, TalkTypeOK, TurnState
  <1> HIDE DEF k
  <1>4. /\ turn' \in [Turns -> TurnState] /\ turn'[t] = k
        /\ \A q \in Turns : q # t => turn'[q] = turn[q]
    BY <1>1, <1>3, TurnMoves DEF TalkInv
  <1>5. row' \in RowRecord /\ row'.state = "open"
    BY <1>1, MemoryAssumption DEF TalkInv, TalkTypeOK, RowRecord, Moments
  <1>6. TalkTypeOK'
    BY <1>1, <1>4, <1>5 DEF TalkInv, TalkTypeOK
  <1>7. MessagesAreOrdered' /\ RowIsLatest'
    BY <1>1, <1>2, <1>3, <1>4 DEF MessagesAreOrdered, RowIsLatest
  <1>8. OneActiveMemory' /\ LineageIsSound' /\ SourcesExist'
    BY <1>1, MemoryStays
  <1>9. RowFits'
    BY <1>1, <1>3, <1>4, <1>5 DEF RowFits
  <1>10. \A q \in Turns : TurnFits(q)'
    BY <1>1, <1>2, <1>3, <1>4 DEF TurnFits
  <1>11. QED
    BY <1>6, <1>7, <1>8, <1>9, <1>10 DEF TalkInv, ConversationIsSound

LEMMA LoadKeeps == ASSUME TalkInv, NEW t \in Turns, Load(t) PROVE TalkInv'
  <1>1. /\ turn[t].pc = "new" /\ row.state # "absent"
        /\ UNCHANGED <<moment, row, messages, memory>>
    BY DEF Load
  <1>2. /\ memory' \in [Versions -> Record]
        /\ OneActiveMemory' /\ LineageIsSound' /\ SourcesExist'
    BY <1>1, MemoryStays
  <1>3. CASE Ends(t)
    BY <1>1, <1>2, <1>3, EndsKeeps
  <1>4. CASE ~Ends(t)
    <2> DEFINE k == [turn[t] EXCEPT !.pc = "ask", !.since = moment, !.history = messages]
    <2>1. turn' = [turn EXCEPT ![t] = k]
      BY <1>4 DEF Load
    <2>2. k \in TurnState /\ k.pc = "ask" /\ k.history = messages
      BY DEF TalkInv, TalkTypeOK, TurnState
    <2> HIDE DEF k
    <2>3. turn'[t] = k
      BY <2>1, <2>2, TurnMoves DEF TalkInv
    <2>4. \A m \in messages : m.turn # t
      BY <1>1 DEF TalkInv, TurnFits
    <2>5. TurnFits(t)'
      BY <1>1, <2>2, <2>3, <2>4 DEF TurnFits
    <2>6. QED
      BY <1>1, <1>2, <2>1, <2>2, <2>4, <2>5, TurnSteps
  <1>5. QED
    BY <1>3, <1>4

\* A message is appended after all that were, and after all that turns have read.
LEMMA AppendSteps ==
    ASSUME TalkInv, NEW t \in Turns, NEW role \in Roles,
           NEW next \in {"assist", "list", "over"},
           AppendMessage(t, role, next), UNCHANGED <<moment, memory>>,
           turn[t].pc \in {"ask", "answer"},
           role = "user" <=> turn[t].pc = "ask", role = "user" <=> next = "assist",
           next = "list" => turn[t].version \in Versions
    PROVE  TalkInv'
  <1>1. row.state # "absent"
    BY BegunIsCreated
  <1>2. CASE ~IsOpen
    <2>1. Ends(t) /\ UNCHANGED <<moment, row, messages, memory>>
      BY <1>2 DEF AppendMessage
    <2>2. /\ memory' \in [Versions -> Record]
          /\ OneActiveMemory' /\ LineageIsSound' /\ SourcesExist'
      BY <2>1, MemoryStays
    <2>3. QED
      BY <1>1, <2>1, <2>2, EndsKeeps
  <1>3. CASE IsOpen
    <2>1. PICK now \in Readings(t) :
            /\ messages' = messages \cup {[turn |-> t, role |-> role, at |-> Stamp(now)]}
            /\ row' = [row EXCEPT !.updated = Stamp(now)]
            /\ turn' = [turn EXCEPT ![t] = [@ EXCEPT !.pc = next, !.since = moment]]
      BY <1>3 DEF AppendMessage
    <2> DEFINE at == Stamp(now)
               new == [turn |-> t, role |-> role, at |-> at]
               k == [turn[t] EXCEPT !.pc = next, !.since = moment]
    <2>2. /\ row \in RowRecord /\ row.updated \in Nat /\ moment \in 0..LastMoment
          /\ turn[t] \in TurnState /\ messages \subseteq Messages
      BY DEF TalkInv, TalkTypeOK, RowRecord, Moments
    <2>3. at \in Nat /\ at > row.updated
      <3>1. now \in Nat
        BY ReadingsArePast DEF TalkInv
      <3>2. QED
        BY <2>2, <3>1 DEF Stamp, LaterOf
    <2>4. /\ k \in TurnState /\ k.pc = next /\ k.history = turn[t].history
          /\ k.version = turn[t].version
      BY <2>2 DEF TurnState
    <2>5. turn' = [turn EXCEPT ![t] = k] /\ messages' = messages \cup {new}
          /\ row' = [row EXCEPT !.updated = at]
      BY <2>1
    <2> HIDE DEF at, k
    <2>6. new \in Messages /\ new.turn = t /\ new.role = role /\ new.at = at
      BY <2>3 DEF Messages, Moments
    <2> HIDE DEF new
    <2>7. row' \in RowRecord /\ row'.state = row.state /\ row'.updated = at
      BY <2>2, <2>3, <2>5 DEF RowRecord, Moments
    <2>8. /\ turn' \in [Turns -> TurnState] /\ turn'[t] = k
          /\ \A q \in Turns : q # t => turn'[q] = turn[q]
      BY <2>4, <2>5, TurnMoves DEF TalkInv
    <2>9. \A q \in Turns : turn'[q].history = turn[q].history
      BY <2>4, <2>8
    <2>10. /\ \A m \in messages : m.at \in Nat /\ m.at < at
           /\ \A q \in Turns : \A m \in turn[q].history : m.at < at
      <3>1. ASSUME NEW m \in Messages, m.at <= row.updated PROVE m.at \in Nat /\ m.at < at
        <4>1. m.at \in Nat
          BY DEF Messages, Moments
        <4>2. QED
          BY <2>2, <2>3, <3>1, <4>1
      <3>2. \A q \in Turns : turn[q].history \subseteq Messages
        BY DEF TalkInv, TalkTypeOK, TurnState
      <3>3. QED
        BY <2>2, <3>1, <3>2 DEF TalkInv, RowIsLatest
    <2>11. TalkTypeOK'
      BY <2>2, <2>5, <2>6, <2>7, <2>8 DEF TalkInv, TalkTypeOK
    <2>12. MessagesAreOrdered'
      <3>1. ASSUME NEW m \in messages', NEW n \in messages', m.at = n.at PROVE m = n
        BY <2>3, <2>5, <2>6, <2>10, <3>1 DEF TalkInv, ConversationIsSound, MessagesAreOrdered
      <3>2. ASSUME NEW m \in messages', NEW n \in messages', m.turn = n.turn,
                   m.role = "user", n.role = "assistant"
            PROVE  m.at < n.at
        <4>1. CASE m \in messages /\ n \in messages
          BY <3>2, <4>1 DEF TalkInv, ConversationIsSound, MessagesAreOrdered
        <4>2. CASE n = new /\ m \in messages
          BY <2>6, <2>10, <4>2
        <4>3. CASE m = new
          <5>1. role = "user" /\ turn[t].pc = "ask"
            BY <2>6, <3>2, <4>3
          <5>2. \A x \in messages : x.turn # t
            BY <5>1 DEF TalkInv, TurnFits
          <5>3. QED
            BY <2>5, <2>6, <3>2, <4>3, <5>1, <5>2
        <4>4. QED
          BY <2>5, <4>1, <4>2, <4>3
      <3>3. ASSUME NEW q \in Turns, NEW m \in turn'[q].history \cap messages',
                   NEW n \in messages', n.turn = q
            PROVE  m.at < n.at
        <4>1. m \in turn[q].history /\ m.at < at
          BY <2>9, <2>10, <3>3
        <4>2. m # new
          BY <2>3, <2>6, <4>1
        <4>3. CASE n = new
          BY <2>6, <4>1, <4>3
        <4>4. CASE n # new
          BY <2>5, <3>3, <4>1, <4>2, <4>4 DEF TalkInv, ConversationIsSound, MessagesAreOrdered
        <4>5. QED
          BY <4>3, <4>4
      <3>4. QED
        BY <3>1, <3>2, <3>3 DEF MessagesAreOrdered
    <2>13. OneActiveMemory' /\ LineageIsSound' /\ SourcesExist'
      BY <2>5, MemoryStays
    <2>14. RowFits'
      BY <1>1, <2>4, <2>7, <2>8, MemoryAssumption DEF TalkInv, RowFits
    <2>15. RowIsLatest'
      <3>1. \A m \in messages' : m.at <= at
        BY <2>3, <2>5, <2>6, <2>10
      <3>2. \A q \in Turns : \A m \in turn'[q].history : m.at <= at
        <4>1. \A q \in Turns : \A m \in turn[q].history : m.at \in Nat
          BY DEF TalkInv, TalkTypeOK, TurnState, Messages, Moments
        <4>2. QED
          BY <2>3, <2>9, <2>10, <4>1
      <3>3. QED
        BY <2>7, <3>1, <3>2 DEF RowIsLatest
    <2>16. TurnFits(t)'
      <3>1. \A m \in turn'[t].history : m.turn # t
        BY <2>9 DEF TalkInv, TurnFits
      <3>2. Said(t, role)'
        BY <2>5, <2>6 DEF Said
      <3>3. next # "assist" => Said(t, "user")'
        <4>1. next # "assist" => Said(t, "user")
          BY <1>3 DEF TalkInv, TurnFits
        <4>2. QED
          BY <2>5, <4>1 DEF Said
      <3>4. next = "assist" => role = "user"
        OBVIOUS
      <3>5. next = "list" => role = "assistant"
        BY DEF Roles
      <3>6. QED
        BY <2>4, <2>8, <3>1, <3>2, <3>3, <3>4, <3>5 DEF TurnFits
    <2>17. ASSUME NEW q \in Turns, q # t PROVE TurnFits(q)'
      BY <1>3, <2>5, <2>6, <2>8, <2>17, OthersFit DEF TalkInv
    <2>18. QED
      BY <2>11, <2>12, <2>13, <2>14, <2>15, <2>16, <2>17 DEF TalkInv, ConversationIsSound
  <1>4. QED
    BY <1>2, <1>3

LEMMA AskKeeps == ASSUME TalkInv, NEW t \in Turns, Ask(t) PROVE TalkInv'
  BY AppendSteps DEF Ask, Roles

LEMMA AnswerKeeps == ASSUME TalkInv, NEW t \in Turns, Answer(t) PROVE TalkInv'
  <1> DEFINE next == IF turn[t].version = NoVersion THEN "over" ELSE "list"
  <1>1. /\ turn[t].pc = "answer" /\ UNCHANGED <<moment, memory>>
        /\ AppendMessage(t, "assistant", next)
    BY DEF Answer
  <1>2. turn[t].version \in Versions \cup {NoVersion}
    BY DEF TalkInv, TalkTypeOK, TurnState
  <1>3. next \in {"list", "over"} /\ (next = "list" => turn[t].version \in Versions)
    BY <1>2
  <1> HIDE DEF next
  <1>4. QED
    BY <1>1, <1>3, AppendSteps DEF Roles

LEMMA AssistPlainlyKeeps == ASSUME TalkInv, NEW t \in Turns, AssistPlainly(t) PROVE TalkInv'
  <1> DEFINE k == [turn[t] EXCEPT !.pc = "answer"]
  <1>1. /\ turn[t].pc = "assist" /\ turn' = [turn EXCEPT ![t] = k]
        /\ UNCHANGED <<moment, row, messages, memory>>
    BY DEF AssistPlainly, TalkInv, TalkTypeOK
  <1>2. /\ k \in TurnState /\ k.pc = "answer" /\ k.history = turn[t].history
    BY DEF TalkInv, TalkTypeOK, TurnState
  <1> HIDE DEF k
  <1>3. turn'[t] = k
    BY <1>1, <1>2, TurnMoves DEF TalkInv
  <1>4. TurnFits(t)'
    BY <1>1, <1>2, <1>3 DEF TalkInv, TurnFits, Said, IsOpen
  <1>5. QED
    BY <1>1, <1>2, <1>4, BegunIsCreated, MemoryStays, TurnSteps

LEMMA RecallKeeps ==
    ASSUME TalkInv, NEW t \in Turns, NEW v \in Versions, Recall(t, v) PROVE TalkInv'
  <1>1. PICK now \in Readings(t) :
          turn' = [turn EXCEPT ![t] =
            [@ EXCEPT !.pc = "expire", !.version = v,
                      !.expiring = {m \in Versions : /\ memory[m].status = "active"
                                                     /\ memory[m].expires <= now}]]
    BY DEF Recall
  <1> DEFINE due == {m \in Versions : memory[m].status = "active" /\ memory[m].expires <= now}
             k == [turn[t] EXCEPT !.pc = "expire", !.version = v, !.expiring = due]
  <1>2. /\ turn[t].pc = "assist" /\ turn' = [turn EXCEPT ![t] = k]
        /\ UNCHANGED <<moment, row, messages, memory>>
    BY <1>1 DEF Recall
  <1>3. due \in SUBSET Versions
    OBVIOUS
  <1> HIDE DEF due
  <1>4. k \in TurnState /\ k.pc = "expire" /\ k.history = turn[t].history
    BY <1>3 DEF TalkInv, TalkTypeOK, TurnState
  <1> HIDE DEF k
  <1>5. turn'[t] = k
    BY <1>2, <1>4, TurnMoves DEF TalkInv
  <1>6. TurnFits(t)'
    BY <1>2, <1>4, <1>5 DEF TalkInv, TurnFits, Said, IsOpen
  <1>7. QED
    BY <1>2, <1>4, <1>6, BegunIsCreated, MemoryStays, TurnSteps

\* An active record that expires is no longer the active one, and was superseded
\* by none: others that lead to it still lead to a record that exists.
LEMMA ExpiredIsSound ==
    ASSUME TalkInv, NEW v \in Versions, memory[v].status = "active",
           memory' = [memory EXCEPT ![v].status = "expired"], UNCHANGED messages
    PROVE  /\ memory' \in [Versions -> Record]
           /\ OneActiveMemory' /\ LineageIsSound' /\ SourcesExist'
  <1> DEFINE e == [memory[v] EXCEPT !.status = "expired"]
  <1>1. memory \in [Versions -> Record] /\ memory' = [memory EXCEPT ![v] = e]
    BY DEF TalkInv, TalkTypeOK
  <1>2. /\ e \in Record /\ e.status = "expired" /\ e.by = memory[v].by
        /\ e.sources = memory[v].sources
    BY <1>1 DEF Record
  <1> HIDE DEF e
  <1>3. /\ memory' \in [Versions -> Record] /\ memory'[v] = e
        /\ \A w \in Versions : w # v => memory'[w] = memory[w]
    BY <1>1, <1>2
  <1>4. \A w \in Versions : /\ memory'[w].status = "active" => memory[w].status = "active"
                            /\ memory'[w].sources = memory[w].sources
                            /\ memory'[w].by = memory[w].by
                            /\ memory'[w].status = "superseded" <=> memory[w].status = "superseded"
                            /\ memory[w].status # "absent" => memory'[w].status # "absent"
    BY <1>2, <1>3
  <1>5. OneActiveMemory'
    BY <1>4 DEF TalkInv, ConversationIsSound, OneActiveMemory
  <1>6. SourcesExist'
    BY <1>4 DEF TalkInv, ConversationIsSound, SourcesExist
  <1>7. {w \in Versions : memory'[w].status = "superseded"}
            = {w \in Versions : memory[w].status = "superseded"}
    BY <1>4
  <1>8. LineageIsSound'
    <2>1. LineageIsSound
      BY DEF TalkInv, ConversationIsSound
    <2>2. QED
      BY <1>4, <1>7, <2>1 DEF LineageIsSound
  <1>9. QED
    BY <1>3, <1>5, <1>6, <1>8

LEMMA ExpireKeeps ==
    ASSUME TalkInv, NEW t \in Turns, NEW v \in Versions, Expire(t, v) PROVE TalkInv'
  <1> DEFINE k == [turn[t] EXCEPT !.expiring = @ \ {v}]
  <1>1. /\ turn[t].pc = "expire" /\ turn' = [turn EXCEPT ![t] = k]
        /\ UNCHANGED <<moment, row, messages>>
    BY DEF Expire, TalkInv, TalkTypeOK
  <1>2. /\ k \in TurnState /\ k.pc = turn[t].pc /\ k.history = turn[t].history
    BY DEF TalkInv, TalkTypeOK, TurnState
  <1> HIDE DEF k
  <1>3. turn'[t] = k
    BY <1>1, <1>2, TurnMoves DEF TalkInv
  <1>4. TurnFits(t)'
    BY <1>1, <1>2, <1>3 DEF TalkInv, TurnFits, Said, IsOpen
  <1>5. /\ memory' \in [Versions -> Record]
        /\ OneActiveMemory' /\ LineageIsSound' /\ SourcesExist'
    <2>1. CASE memory[v].status = "active"
      BY <1>1, <2>1, ExpiredIsSound DEF Expire
    <2>2. CASE memory[v].status # "active"
      BY <1>1, <2>2, MemoryStays DEF Expire
    <2>3. QED
      BY <2>1, <2>2
  <1>6. QED
    BY <1>1, <1>2, <1>4, <1>5, BegunIsCreated, TurnSteps

LEMMA RecalledKeeps == ASSUME TalkInv, NEW t \in Turns, Recalled(t) PROVE TalkInv'
  <1> DEFINE k == [turn[t] EXCEPT !.pc = "answer"]
  <1>1. /\ turn[t].pc = "expire" /\ turn' = [turn EXCEPT ![t] = k]
        /\ UNCHANGED <<moment, row, messages, memory>>
    BY DEF Recalled, TalkInv, TalkTypeOK
  <1>2. /\ k \in TurnState /\ k.pc = "answer" /\ k.history = turn[t].history
    BY DEF TalkInv, TalkTypeOK, TurnState
  <1> HIDE DEF k
  <1>3. turn'[t] = k
    BY <1>1, <1>2, TurnMoves DEF TalkInv
  <1>4. TurnFits(t)'
    BY <1>1, <1>2, <1>3 DEF TalkInv, TurnFits, Said, IsOpen
  <1>5. QED
    BY <1>1, <1>2, <1>4, BegunIsCreated, MemoryStays, TurnSteps

\* What is listed is a record whose sources are in the conversation.
LEMMA ListKeeps == ASSUME TalkInv, NEW t \in Turns, List(t) PROVE TalkInv'
  <1>1. PICK now \in Readings(t) :
          turn' = [turn EXCEPT ![t] = [@ EXCEPT !.pc = "save", !.since = moment,
                                                !.confirmed = now,
                                                !.known = memory[turn[t].version]]]
    BY DEF List
  <1> DEFINE k == [turn[t] EXCEPT !.pc = "save", !.since = moment, !.confirmed = now,
                                  !.known = memory[turn[t].version]]
  <1>2. /\ turn[t].pc = "list" /\ turn' = [turn EXCEPT ![t] = k]
        /\ UNCHANGED <<moment, row, messages, memory>>
    BY <1>1 DEF List
  <1>3. turn[t].version \in Versions /\ memory[turn[t].version] \in Record
    BY <1>2 DEF TalkInv, TurnFits, TalkTypeOK
  <1>4. now \in 0..LastMoment /\ moment \in 0..LastMoment /\ turn[t] \in TurnState
    BY ReadingsArePast DEF TalkInv, TalkTypeOK
  <1>5. /\ k \in TurnState /\ k.pc = "save" /\ k.history = turn[t].history
        /\ k.version = turn[t].version /\ k.known = memory[turn[t].version]
    BY <1>3, <1>4 DEF TurnState
  <1> HIDE DEF k
  <1>6. turn'[t] = k
    BY <1>2, <1>5, TurnMoves DEF TalkInv
  <1>7. \A s \in k.known.sources : \A role \in Roles : Said(s, role)
    BY <1>3, <1>5 DEF TalkInv, ConversationIsSound, SourcesExist, Said
  <1>8. TurnFits(t)'
    BY <1>2, <1>3, <1>5, <1>6, <1>7 DEF TalkInv, TurnFits, Said, IsOpen
  <1>9. QED
    BY <1>2, <1>5, <1>8, BegunIsCreated, MemoryStays, TurnSteps

\* What a save writes of its own version is a record that is active, and is traced
\* to the turn and to what the turn has listed.
LEMMA EvaluatedIsActive ==
    ASSUME TalkTypeOK, NEW t \in Turns, NEW now \in Readings(t)
    PROVE  /\ Evaluated(t, now) \in Record /\ Evaluated(t, now).status = "active"
           /\ Evaluated(t, now).sources \subseteq turn[t].known.sources \cup {t}
  <1>1. /\ turn[t].known \in Record /\ turn[t].confirmed \in 0..LastMoment
        /\ LastMoment \in Nat /\ Life \in Nat
    BY MemoryAssumption DEF TalkTypeOK, TurnState
  <1>2. turn[t].confirmed + Life \in 0..(LastMoment + Life)
    BY <1>1
  <1>3. /\ Candidate(t) \in Record /\ Candidate(t).status = "active"
        /\ Candidate(t).sources = {t}
    BY <1>1, <1>2 DEF Candidate, Record
  <1>4. CASE turn[t].known.status = "active" /\ turn[t].known.expires > now
    <2> DEFINE old == turn[t].known
               confirmed == LaterOf(old.confirmed, Candidate(t).confirmed)
               expires == LaterOf(old.expires, Candidate(t).expires)
    <2>1. Evaluated(t, now) = [old EXCEPT !.sources = old.sources \cup {t},
                                          !.confirmed = confirmed, !.expires = expires]
      BY <1>4 DEF Evaluated
    <2>2. confirmed \in 0..LastMoment /\ expires \in 0..(LastMoment + Life)
      BY <1>1, <1>3 DEF LaterOf, Record
    <2> DEFINE sources == old.sources \cup {t}
    <2>3. sources \in SUBSET Turns
      BY <1>1 DEF Record
    <2>4. old \in Record /\ old.status = "active"
      BY <1>1, <1>4
    <2>5. Evaluated(t, now) = [old EXCEPT !.sources = sources, !.confirmed = confirmed,
                                          !.expires = expires]
      BY <2>1
    <2> HIDE DEF confirmed, expires, sources, old
    <2>6. /\ Evaluated(t, now) \in Record /\ Evaluated(t, now).status = "active"
          /\ Evaluated(t, now).sources = sources
      BY <2>2, <2>3, <2>4, <2>5 DEF Record
    <2>7. QED
      BY <2>6 DEF sources, old
  <1>5. CASE ~(turn[t].known.status = "active" /\ turn[t].known.expires > now)
    BY <1>3, <1>5 DEF Evaluated
  <1>6. QED
    BY <1>4, <1>5

\* A save leaves one record active and every other that was active superseded by it.
LEMMA SavedIsSound ==
    ASSUME TalkInv, NEW t \in Turns, turn[t].pc = "save", IsOpen, NEW now \in Readings(t),
           memory' = Saved(t, now), UNCHANGED messages
    PROVE  /\ memory' \in [Versions -> Record]
           /\ OneActiveMemory' /\ LineageIsSound' /\ SourcesExist'
  <1> DEFINE own == turn[t].version
             e == Evaluated(t, now)
             old == {v \in Versions : memory[v].status = "superseded"}
             new == {v \in Versions : memory'[v].status = "superseded"}
  <1>1. own \in Versions /\ memory \in [Versions -> Record]
    BY DEF TalkInv, TalkTypeOK, TurnFits
  <1>2. e \in Record /\ e.status = "active" /\ e.sources \subseteq turn[t].known.sources \cup {t}
    BY EvaluatedIsActive DEF TalkInv
  <1>3. memory' = [v \in Versions |->
                    IF v = own THEN e
                    ELSE IF memory[v].status = "active"
                    THEN [memory[v] EXCEPT !.status = "superseded", !.by = own]
                    ELSE memory[v]]
    BY DEF Saved
  <1> HIDE DEF own, e
  <1>4. ASSUME NEW v \in Versions, v # own, memory[v].status = "active"
        PROVE  /\ memory'[v] \in Record /\ memory'[v].status = "superseded"
               /\ memory'[v].by = own /\ memory'[v].sources = memory[v].sources
    <2>1. memory'[v] = [memory[v] EXCEPT !.status = "superseded", !.by = own]
      BY <1>3, <1>4
    <2>2. memory[v] \in Record
      BY <1>1
    <2>3. QED
      BY <1>1, <2>1, <2>2 DEF Record
  <1>5. ASSUME NEW v \in Versions, v # own, memory[v].status # "active"
        PROVE  memory'[v] = memory[v]
    BY <1>3, <1>5
  <1>6. memory'[own] = e
    BY <1>1, <1>3
  <1>7. memory' \in [Versions -> Record]
    <2>1. \A v \in Versions : memory'[v] \in Record
      BY <1>1, <1>2, <1>4, <1>5, <1>6
    <2>2. memory' = [v \in Versions |-> memory'[v]]
      BY <1>3
    <2>3. QED
      BY <2>1, <2>2
  <1>8. OneActiveMemory'
    BY <1>4, <1>5 DEF OneActiveMemory
  <1>9. LineageIsSound'
    <2>1. own \notin new
      BY <1>2, <1>6
    <2>2. \A v \in Versions : memory[v].status # "absent" => memory'[v].status # "absent"
      BY <1>2, <1>4, <1>5, <1>6
    <2>3. LineageIsSound
      BY DEF TalkInv, ConversationIsSound
    <2>4. ASSUME NEW v \in new
          PROVE  memory'[v].by \in Versions /\ memory'[memory'[v].by].status # "absent"
      <3>1. CASE memory[v].status = "active"
        BY <1>1, <1>2, <1>4, <1>6, <2>1, <3>1
      <3>2. CASE memory[v].status # "active"
        <4>1. memory'[v] = memory[v] /\ v \in old
          BY <1>5, <2>1, <3>2
        <4>2. memory[v].by \in Versions /\ memory[memory[v].by].status # "absent"
          BY <2>3, <4>1 DEF LineageIsSound
        <4>3. QED
          BY <2>2, <4>1, <4>2
      <3>3. QED
        BY <3>1, <3>2
    <2>5. ASSUME NEW some \in SUBSET new, some # {}
          PROVE  \E v \in some : memory'[v].by \notin some
      <3>1. CASE \E v \in some : memory[v].status = "active"
        BY <1>4, <2>1, <3>1
      <3>2. CASE \A v \in some : memory[v].status # "active"
        <4>1. \A v \in some : memory'[v] = memory[v]
          BY <1>5, <2>1, <3>2
        <4>2. some \in SUBSET old
          BY <4>1
        <4>3. \E v \in some : memory[v].by \notin some
          BY <2>3, <2>5, <4>2 DEF LineageIsSound
        <4>4. QED
          BY <4>1, <4>3
      <3>3. QED
        BY <3>1, <3>2
    <2>6. QED
      BY <2>4, <2>5 DEF LineageIsSound
  <1>10. SourcesExist'
    <2>1. \A v \in Versions : \A s \in memory[v].sources : \A role \in Roles : Said(s, role)
      BY DEF TalkInv, ConversationIsSound, SourcesExist, Said
    <2>2. Said(t, "user") /\ Said(t, "assistant")
          /\ \A s \in turn[t].known.sources : \A role \in Roles : Said(s, role)
      BY DEF TalkInv, TurnFits
    <2>3. ASSUME NEW v \in Versions, NEW s \in memory'[v].sources, NEW role \in Roles
          PROVE  Said(s, role)
      <3>1. CASE v = own
        BY <1>2, <1>6, <2>2, <3>1 DEF Roles
      <3>2. CASE v # own
        BY <1>4, <1>5, <2>1, <3>2
      <3>3. QED
        BY <3>1, <3>2
    <2>4. QED
      BY <2>3 DEF SourcesExist, Said
  <1>11. QED
    BY <1>7, <1>8, <1>9, <1>10

LEMMA SaveKeeps == ASSUME TalkInv, NEW t \in Turns, Save(t) PROVE TalkInv'
  <1>1. /\ turn[t].pc = "save" /\ Ends(t) /\ UNCHANGED <<moment, row, messages>>
    BY DEF Save
  <1>2. PICK now \in Readings(t) :
          memory' = IF IsOpen /\ Candidate(t).expires > now THEN Saved(t, now) ELSE memory
    BY DEF Save
  <1>3. /\ memory' \in [Versions -> Record]
        /\ OneActiveMemory' /\ LineageIsSound' /\ SourcesExist'
    <2>1. CASE IsOpen /\ Candidate(t).expires > now
      BY <1>1, <1>2, <2>1, SavedIsSound
    <2>2. CASE ~(IsOpen /\ Candidate(t).expires > now)
      BY <1>1, <1>2, <2>2, MemoryStays
    <2>3. QED
      BY <2>1, <2>2
  <1>4. QED
    BY <1>1, <1>3, BegunIsCreated, EndsKeeps

LEMMA AbandonKeeps == ASSUME TalkInv, NEW t \in Turns, Abandon(t) PROVE TalkInv'
  <1>1. /\ turn[t].pc # "new" /\ Ends(t) /\ UNCHANGED <<moment, row, messages, memory>>
    BY DEF Abandon
  <1>2. QED
    BY <1>1, BegunIsCreated, EndsKeeps, MemoryStays

\* With the row go its messages, and all that was remembered of them.
LEMMA DeleteKeeps == ASSUME TalkInv, Delete PROVE TalkInv'
  <1>1. /\ row.state = "open" /\ row' = [row EXCEPT !.state = "deleted"]
        /\ messages' = {} /\ memory' = NoMemory /\ UNCHANGED <<moment, turn>>
    BY DEF Delete, IsOpen
  <1>2. row' \in RowRecord /\ row'.state = "deleted" /\ row'.updated = row.updated
    BY <1>1 DEF TalkInv, TalkTypeOK, RowRecord
  <1>3. /\ memory' \in [Versions -> Record]
        /\ \A v \in Versions : memory'[v].status = "absent" /\ memory'[v].sources = {}
    BY <1>1, BlankStates DEF NoMemory
  <1>4. TalkTypeOK'
    BY <1>1, <1>2, <1>3 DEF TalkInv, TalkTypeOK
  <1>5. MessagesAreOrdered' /\ OneActiveMemory' /\ SourcesExist'
    BY <1>1, <1>3 DEF MessagesAreOrdered, OneActiveMemory, SourcesExist
  <1>6. LineageIsSound'
    <2>1. {v \in Versions : memory'[v].status = "superseded"} = {}
      BY <1>3
    <2>2. QED
      BY <2>1 DEF LineageIsSound
  <1>7. RowFits'
    BY <1>1, <1>2 DEF TalkInv, RowFits
  <1>8. RowIsLatest'
    BY <1>1, <1>2 DEF TalkInv, RowIsLatest
  <1>9. \A t \in Turns : TurnFits(t)'
    BY <1>1, <1>2 DEF TalkInv, TurnFits, IsOpen
  <1>10. QED
    BY <1>4, <1>5, <1>6, <1>7, <1>8, <1>9 DEF TalkInv, ConversationIsSound

LEMMA MomentPassesKeeps == ASSUME TalkInv, MomentPasses PROVE TalkInv'
  <1>1. /\ moment' = moment + 1 /\ moment < LastMoment
        /\ UNCHANGED <<row, messages, memory, turn>>
    BY DEF MomentPasses
  <1>2. TalkTypeOK'
    BY <1>1, MemoryAssumption DEF TalkInv, TalkTypeOK
  <1>3. MessagesAreOrdered' /\ OneActiveMemory' /\ LineageIsSound' /\ SourcesExist'
    BY <1>1, MemoryStays DEF TalkInv, ConversationIsSound, MessagesAreOrdered
  <1>4. RowFits' /\ RowIsLatest' /\ \A t \in Turns : TurnFits(t)'
    BY <1>1 DEF TalkInv, RowFits, RowIsLatest, TurnFits, Said, IsOpen
  <1>5. QED
    BY <1>2, <1>3, <1>4 DEF TalkInv, ConversationIsSound

-----------------------------------------------------------------------------
(* ConversationMemory: the theorems *)

LEMMA TalkInitFits == TalkInit => TalkInv
  <1> SUFFICES ASSUME TalkInit PROVE TalkInv
    OBVIOUS
  <1>1. /\ moment = 0 /\ row = [state |-> "absent", updated |-> 0] /\ messages = {}
        /\ memory = NoMemory /\ turn = [t \in Turns |-> TurnAt("new")]
    BY DEF TalkInit
  <1>2. /\ memory \in [Versions -> Record]
        /\ \A v \in Versions : memory[v].status = "absent" /\ memory[v].sources = {}
    BY <1>1, BlankStates DEF NoMemory
  <1>3. /\ turn \in [Turns -> TurnState]
        /\ \A t \in Turns : turn[t].pc = "new" /\ turn[t].history = {}
    BY <1>1, BlankStates
  <1>4. TalkTypeOK
    BY <1>1, <1>2, <1>3, MemoryAssumption DEF TalkTypeOK, RowRecord, Moments
  <1>5. MessagesAreOrdered /\ OneActiveMemory /\ SourcesExist
    BY <1>1, <1>2 DEF MessagesAreOrdered, OneActiveMemory, SourcesExist
  <1>6. LineageIsSound
    <2>1. {v \in Versions : memory[v].status = "superseded"} = {}
      BY <1>2
    <2>2. QED
      BY <2>1 DEF LineageIsSound
  <1>7. RowFits /\ RowIsLatest /\ \A t \in Turns : TurnFits(t)
    BY <1>1, <1>3 DEF RowFits, RowIsLatest, TurnFits, IsOpen
  <1>8. QED
    BY <1>4, <1>5, <1>6, <1>7 DEF TalkInv, ConversationIsSound

LEMMA TalkStepFits == TalkInv /\ [TalkNext]_talkVars => TalkInv'
  <1> SUFFICES ASSUME TalkInv, [TalkNext]_talkVars PROVE TalkInv'
    OBVIOUS
  <1>1. CASE UNCHANGED talkVars
    <2>1. UNCHANGED <<moment, row, messages, memory, turn>>
      BY <1>1 DEF talkVars
    <2>2. TalkTypeOK' /\ RowFits' /\ RowIsLatest' /\ \A t \in Turns : TurnFits(t)'
      BY <2>1 DEF TalkInv, TalkTypeOK, RowFits, RowIsLatest, TurnFits, Said, IsOpen
    <2>3. MessagesAreOrdered' /\ OneActiveMemory' /\ LineageIsSound' /\ SourcesExist'
      BY <2>1, MemoryStays DEF TalkInv, ConversationIsSound, MessagesAreOrdered
    <2>4. QED
      BY <2>2, <2>3 DEF TalkInv, ConversationIsSound
  <1>2. CASE Delete
    BY <1>2, DeleteKeeps
  <1>3. CASE MomentPasses
    BY <1>3, MomentPassesKeeps
  <1>4. ASSUME NEW t \in Turns, TurnNext(t) PROVE TalkInv'
    <2>1. ASSUME NEW v \in Versions, Recall(t, v) \/ Expire(t, v) PROVE TalkInv'
      BY <2>1, RecallKeeps, ExpireKeeps
    <2>2. QED
      BY <1>4, <2>1, CreateKeeps, LoadKeeps, AskKeeps, AssistPlainlyKeeps, RecalledKeeps,
         AnswerKeeps, ListKeeps, SaveKeeps, AbandonKeeps DEF TurnNext
  <1>5. QED
    BY <1>1, <1>2, <1>3, <1>4 DEF TalkNext

LEMMA TalkInvHolds == TalkSpec => []TalkInv
  BY TalkInitFits, TalkStepFits, PTL DEF TalkSpec

\* The conversation, its messages, its memory and its turns keep their types.
THEOREM TalkIsTyped == TalkSpec => []TalkTypeOK
  <1>1. TalkInv => TalkTypeOK
    BY DEF TalkInv
  <1>2. QED
    BY <1>1, TalkInvHolds, PTL

\* However turns of a conversation overlap, expire, fail or lose it to a deletion,
\* its messages have one order in which every answer follows its question and every
\* question what its turn was told of before, at most one record of memory is
\* active, a superseded one leads to one that is not, and what is remembered is
\* traced to messages that exist.
THEOREM ConversationStaysSound == TalkSpec => []ConversationIsSound
  <1>1. TalkInv => ConversationIsSound
    BY DEF TalkInv
  <1>2. QED
    BY <1>1, TalkInvHolds, PTL
=============================================================================
