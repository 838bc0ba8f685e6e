-------------------------------- MODULE Exports --------------------------------
(***************************************************************************)
(* Files: what clients upload (core/storage) and the exports of a program, *)
(* a syllabus or a course kit (M01, M02, M03: one task each, of the same   *)
(* shape).  The bytes go to the object store, their row to storage_assets, *)
(* the outcome of an export to the job row of VidyaTask, which the sweep   *)
(* of stale_task_cleanup fails when it looks stuck: three stores and no    *)
(* transaction over them.  What a program or a syllabus holds is           *)
(* abstracted, of a kit what is kept from some readers.                    *)
(***************************************************************************)
EXTENDS Backend

CONSTANTS
    ExportJobs,   \* bound: exports asked for
    Uploads,      \* bound: the object keys clients get a URL for
    ExportKeys    \* bound: the object keys of export runs, 1..n in their order

ASSUME ExportsAssumption ==
    /\ ExportKeys \subseteq Nat
    /\ Cardinality(ExportKeys) >= Cardinality(ExportJobs) * (1 + MaxRetries + MaxFaults)

\* The key of an upload, and of every run of an export, holds a uuid of its own.
ASSUME ExportNames ==
    /\ Uploads \cap ExportKeys = {}
    /\ None \notin ExportJobs \cup Uploads \cup ExportKeys
    /\ None \notin {"export", "create_asset", "delete_asset"}

VARIABLES
    document,   \* the document exported is of a status that allows it
    job,        \* the export jobs: status, format, and the asset the result names
    urls,       \* uploads whose URL was given out
    object,     \* the object store
    asset,      \* the rows of storage_assets: "none", "live" or "deleted"
    selected    \* the jobs a running sweep has read

files == <<document, job, urls, object, asset, selected>>

Keys == Uploads \cup ExportKeys

\* What a kit's file may hold for its teachers only.
Reserved == {"notes", "answers", "explanations", "rubrics"}

\* "dean" is the role of who asked; the file of a program or a syllabus has nothing
\* reserved, like a handout.
Formats == [as : {"handout"}, dean : {FALSE}] \cup [as : {"pdf", "pptx"}, dean : BOOLEAN]

NoJob == [status |-> "NONE", format |-> None, result |-> None]
NoObject == [there |-> FALSE, job |-> None, shows |-> {}]

Live == {"PENDING", "RUNNING"}

ExportsTypeOK ==
    /\ document \in BOOLEAN
    /\ job \in [ExportJobs -> [status : Live \cup {"NONE", "SUCCESS", "FAILED"},
                               format : Formats \cup {None}, result : ExportKeys \cup {None}]]
    /\ urls \subseteq Uploads
    /\ object \in [Keys -> [there : BOOLEAN, job : ExportJobs \cup {None}, shows : SUBSET Reserved]]
    /\ asset \in [Keys -> {"none", "live", "deleted"}]
    /\ selected \subseteq ExportJobs
    /\ BackendTypeOK({"export", "create_asset", "delete_asset"}, {"export"}, ExportJobs \cup Keys,
                     {"started", "put", "stored", "raised", "refused"}, Formats, ExportKeys)

ExportsInit ==
    /\ document = TRUE
    /\ job = [j \in ExportJobs |-> NoJob]
    /\ urls = {}
    /\ object = [k \in Keys |-> NoObject]
    /\ asset = [k \in Keys |-> "none"]
    /\ selected = {}
    /\ BackendInit

----------------------------------------------------------------------------
(* Uploads.                                                                *)

\* No row is written before the upload.
GenerateUploadUrl(u) ==
    /\ u \notin urls
    /\ urls' = urls \cup {u}
    /\ UNCHANGED <<document, job, object, asset, selected, backend>>

\* The client, as often as it likes.
PutUpload(u) ==
    /\ u \in urls
    /\ object' = [object EXCEPT ![u].there = TRUE]
    /\ UNCHANGED <<document, job, urls, asset, selected, backend>>

CreateAsset(r, u) ==
    /\ object[u].there
    /\ Begin(r, "create_asset", u, None)
    /\ UNCHANGED <<files, queue>>

\* object_key is unique, deleted rows included.
WriteAsset(r) ==
    /\ req[r].op = "create_asset"
    /\ asset' = [asset EXCEPT ![req[r].on] = IF @ = "none" THEN "live" ELSE @]
    /\ End(r)
    /\ UNCHANGED <<document, job, urls, object, selected, queue>>

DeleteAsset(r, k) ==
    /\ asset[k] = "live"
    /\ Begin(r, "delete_asset", k, None)
    /\ UNCHANGED <<files, queue>>

\* deleted_at; the object stays.
DeleteOnRequest(r) ==
    /\ req[r].op = "delete_asset"
    /\ asset' = [asset EXCEPT ![req[r].on] = "deleted"]
    /\ End(r)
    /\ UNCHANGED <<document, job, urls, object, selected, queue>>

----------------------------------------------------------------------------
(* Exports: requests.                                                      *)

DispatchExport(r, format) ==
    /\ document
    /\ \E j \in ExportJobs : job[j] = NoJob
    /\ Begin(r, "export", None, format)
    /\ UNCHANGED <<files, queue>>

WriteExportJob(r) ==
    /\ req[r].op = "export"
    /\ \E j \in ExportJobs :
          /\ job[j] = NoJob
          /\ job' = [job EXCEPT ![j] = [NoJob EXCEPT !.status = "PENDING", !.format = req[r].mem]]
          /\ EndPublishing(r, j, "export")
    /\ UNCHANGED <<document, urls, object, asset, selected, queue>>

\* What the components do to the document meanwhile: another status, or none.
DocumentChanges ==
    /\ document' = ~document
    /\ UNCHANGED <<job, urls, object, asset, selected, backend>>

----------------------------------------------------------------------------
(* Exports: the task.                                                      *)

\* VidyaTask writes the job row in a session of its own and swallows errors.
WriteJob(j, status, key) ==
    \/ /\ job' = [job EXCEPT ![j].status = status, ![j].result = IF key = None THEN @ ELSE key]
       /\ UNCHANGED faults
    \/ Fault /\ UNCHANGED job

BeforeStart(w, m) ==
    /\ Take(w, m, "export", "started", None)
    /\ WriteJob(msg[m].to, "RUNNING", None)
    /\ UNCHANGED <<document, urls, object, asset, selected, req, raced, again, lost>>

\* A slide of the PPTX without bullets falls back to its notes, whoever asks.
PptxShows(dean, bare) == (IF dean THEN {} ELSE {"notes", "answers"}) \cup (IF bare THEN {"notes"} ELSE {})

\* The explanations of the answers are printed for a dean, too.
PdfShows(dean) == IF dean THEN {"explanations"} ELSE Reserved

HandoutShows == {}

Shows(format, bare) ==
    CASE format.as = "pptx" -> PptxShows(format.dean, bare)
      [] format.as = "pdf" -> PdfShows(format.dean)
      [] OTHER -> HandoutShows

FreshKey == {k \in ExportKeys : ~object[k].there /\ \A i \in ExportKeys : i < k => object[i].there}

\* The status is checked again, the file made from what this read shows, and put.
PutExport(w) ==
    /\ In(w, "export", "started")
    /\ document
    /\ \E k \in FreshKey, bare \in BOOLEAN :
          /\ object' = [object EXCEPT ![k] = [there |-> TRUE, job |-> exec[w].to,
                                              shows |-> Shows(job[exec[w].to].format, bare)]]
          /\ Goto(w, "put", k)
    /\ UNCHANGED <<document, job, urls, asset, selected, msg, again, lost, faults>>

RefuseExport(w) ==
    /\ In(w, "export", "started")
    /\ ~document
    /\ Goto(w, "refused", None)
    /\ UNCHANGED <<files, msg, again, lost, faults>>

CommitExport(w) ==
    /\ In(w, "export", "put")
    /\ asset' = [asset EXCEPT ![exec[w].mem] = "live"]
    /\ Goto(w, "stored", exec[w].mem)
    /\ UNCHANGED <<document, job, urls, object, selected, msg, again, lost, faults>>

\* The database, the store or the generator fails, before or after the commit.
FailExport(w) ==
    /\ exec[w].task = "export" /\ exec[w].phase \in {"started", "put", "stored"}
    /\ Fault
    /\ Goto(w, "raised", None)
    /\ UNCHANGED <<files, msg, again, lost>>

OnSuccess(w) ==
    /\ In(w, "export", "stored")
    /\ WriteJob(exec[w].to, "SUCCESS", exec[w].mem)
    /\ Finish(w)
    /\ UNCHANGED <<document, urls, object, asset, selected, lost>>

OnRetry(w) == In(w, "export", "raised") /\ Retry(w) /\ UNCHANGED <<files, lost, faults>>

OnFailure(w) ==
    /\ In(w, "export", "raised") \/ In(w, "export", "refused")
    /\ WriteJob(exec[w].to, "FAILED", None)
    /\ Finish(w)
    /\ UNCHANGED <<document, urls, object, asset, selected, lost>>

ExportTask(w) ==
    \/ PutExport(w) \/ RefuseExport(w) \/ CommitExport(w) \/ FailExport(w)
    \/ OnSuccess(w) \/ OnRetry(w) \/ OnFailure(w)

----------------------------------------------------------------------------
(* stale_task_cleanup: it reads the jobs that are PENDING or RUNNING for too *)
(* long, and fails them whatever they have become.                          *)

SweepSelect ==
    /\ selected = {}
    /\ selected' \in SUBSET {j \in ExportJobs : job[j].status \in Live} \ {{}}
    /\ UNCHANGED <<document, job, urls, object, asset, backend>>

SweepCommit ==
    /\ selected # {}
    /\ job' = [j \in ExportJobs |-> IF j \in selected THEN [job[j] EXCEPT !.status = "FAILED"] ELSE job[j]]
    /\ selected' = {}
    /\ UNCHANGED <<document, urls, object, asset, backend>>

Sweep == SweepSelect \/ SweepCommit

----------------------------------------------------------------------------
UploadsNext ==
    \/ \E u \in Uploads : GenerateUploadUrl(u) \/ PutUpload(u) \/ \E r \in Reqs : CreateAsset(r, u)
    \/ \E r \in Reqs : WriteAsset(r) \/ DeleteOnRequest(r) \/ \E u \in Uploads : DeleteAsset(r, u)
    \/ Environment /\ UNCHANGED files

ExportsNext ==
    \/ \E r \in Reqs : \/ WriteExportJob(r) \/ DeleteOnRequest(r)
                       \/ \E k \in ExportKeys : DeleteAsset(r, k)
                       \/ \E format \in Formats : DispatchExport(r, format)
    \/ \E w \in Workers : ExportTask(w) /\ UNCHANGED <<req, raced>>
    \/ \E w \in Workers, m \in Slots : BeforeStart(w, m)
    \/ DocumentChanges \/ Sweep
    \/ Environment /\ UNCHANGED files

----------------------------------------------------------------------------
Running(k) == \E w \in Workers : exec[w].task = "export" /\ exec[w].mem = k

\* What the three stores say of a file agrees, through retries, redeliveries and
\* crashes: a row has its object, a job that succeeded names a row of its own
\* file; a file of an export has no row only while its run has still to commit or
\* after a failure, and there is one file per job unless it was run again.
\* Handouts hold nothing reserved, and a dean's file no answers and no rubrics.
FilesAgree ==
    /\ \A k \in Keys : asset[k] # "none" => object[k].there
    /\ \A j \in ExportJobs : job[j].status = "SUCCESS" =>
          /\ asset[job[j].result] # "none"
          /\ object[job[j].result].job = j
    /\ \A k \in ExportKeys :
          /\ object[k].there => Running(k) \/ asset[k] # "none" \/ faults > 0
          /\ \A i \in ExportKeys \ {k} :
                object[k].there /\ object[i].there /\ object[k].job = object[i].job => object[k].job \in again
          /\ object[k].there =>
                LET format == job[object[k].job].format IN
                /\ format.as = "handout" => object[k].shows = {}
                /\ format.dean => object[k].shows \cap {"answers", "rubrics"} = {}
=============================================================================
