---------------------------- MODULE EvidenceFiles ----------------------------
(***************************************************************************)
(* EvidenceFileService for the files of one evidence event: upload, share  *)
(* links, live export, persisted export bundle (request, queue, worker),   *)
(* legal hold.  A file lives in two stores, its bytes in Azure Blob under  *)
(* tenant/event/filename and its row, with their SHA-256, in the database; *)
(* every operation ends with a custody event in the Evidence Vault.        *)
(*                                                                         *)
(* Bytes are model values and their own hash.  publicSafeView and          *)
(* getBundle only read.  Blob storage and BullMQ are external.             *)
(***************************************************************************)
EXTENDS Naturals, FiniteSets

CONSTANTS
    Owners,         \* tenants
    SystemOwned,    \* the owner of an event with tenantId null
    Names,          \* filenames
    Bytes,          \* contents
    FileBound,      \* bound on the file rows: their ids are 1..FileBound
    Tasks,          \* concurrent requests
    ExportAttempts, \* attempts of an export job
    BundleBound,    \* bound on the bundles
    TaskBound,      \* bound on the requests
    NoBytes, NoFile, NoTask

ASSUME FilesAssumption == ExportAttempts \in Nat \ {0} /\ BundleBound \in Nat
                             /\ FileBound \in Nat /\ TaskBound \in Nat

Files == 1..FileBound
FileRecords == [name: Names, sha256: Bytes, hold: BOOLEAN]
Manifests == SUBSET [id: Files, sha256: Bytes]

\* A request or job in progress: an upload, a custody event to be written, an export
\* bundle on its way, a change of a legal hold.
CustodyEvents == {"UPLOADED", "SHARED", "EXPORTED", "PERSISTED"} \X Nat
UploadTasks == [at: {"upload", "stored"}, name: Names, bytes: Bytes, hold: BOOLEAN]
LogTasks == [at: {"log"}, event: CustodyEvents]
ExportTasks ==
    [at: {"manifest"}, left: 1..ExportAttempts]
        \union [at: {"bundle"}, left: 1..ExportAttempts, manifest: Manifests]
        \union [at: {"log"}, left: 1..ExportAttempts, event: CustodyEvents]
HoldTasks == [at: {"hold", "holdlog"}, holds: Files, hold: BOOLEAN]
TaskRecords == UploadTasks \union LogTasks \union ExportTasks \union HoldTasks

ASSUME NoRecordAssumption == NoFile \notin FileRecords /\ NoTask \notin TaskRecords

VARIABLES
    owner,      \* the tenant of the event
    azure,      \* is storage configured, is Redis
    blob,       \* contents by filename
    file,       \* evidence_files: [name, sha256, hold]
    bundle,     \* evidence_export_bundles: the manifest of each
    task,       \* requests and jobs in progress
    begun,      \* how many requests there were
    custody,    \* custody events: <<kind, subject>>
    holdLog,    \* the last legal-hold event of each file
    stored,     \* history: how many uploads stored bytes under a name
    failed,     \* history: tasks that failed after changing a row
    overlapped  \* history: two changes of one file's hold overlapped

filesVars == <<owner, azure, blob, file, bundle, task, begun, custody, holdLog, stored, failed,
               overlapped>>

Rows == {f \in Files : file[f] # NoFile}
\* A tenant reaches its own events and those that have no owner.
requireEvent(u) == owner = SystemOwned \/ owner = u

IdleTask(t) == task[t] = NoTask

\* A request of tenant u begins.
Begin(t, u, first) ==
    /\ IdleTask(t)
    /\ requireEvent(u)
    /\ begun < TaskBound
    /\ begun' = begun + 1
    /\ task' = [task EXCEPT ![t] = first]

TaskAt(t, at) == task[t] # NoTask /\ task[t].at = at
Goes(t, at) == task' = [task EXCEPT ![t].at = at]
Ends(t) == task' = [task EXCEPT ![t] = NoTask]

FilesInit ==
    /\ owner \in Owners \union {SystemOwned}
    /\ azure \in [blob: BOOLEAN, redis: BOOLEAN]
    /\ blob = [n \in Names |-> NoBytes]
    /\ file = [f \in Files |-> NoFile]
    /\ bundle = <<>>
    /\ task = [t \in Tasks |-> NoTask]
    /\ begun = 0
    /\ custody = {}
    /\ holdLog = [f \in Files |-> "none"]
    /\ stored = [n \in Names |-> 0]
    /\ failed = FALSE
    /\ overlapped = FALSE

----------------------------------------------------------------------------
(* upload().                                                               *)

Upload(t, u, n, b, hold) ==
    /\ Begin(t, u, [at |-> "upload", name |-> n, bytes |-> b, hold |-> hold])
    /\ UNCHANGED <<owner, azure, blob, file, bundle, custody, holdLog, stored, failed, overlapped>>

\* BlobService.upload: the bytes replace what was under the name; without storage
\* nothing happens and the row gets a stub URI.
StoreBlob(t) ==
    /\ TaskAt(t, "upload")
    /\ Goes(t, "stored")
    /\ IF azure.blob
       THEN /\ blob' = [blob EXCEPT ![task[t].name] = task[t].bytes]
            /\ stored' = [stored EXCEPT ![task[t].name] = IF @ = 2 THEN 2 ELSE @ + 1]
       ELSE UNCHANGED <<blob, stored>>
    /\ UNCHANGED <<owner, azure, begun, file, bundle, custody, holdLog, failed, overlapped>>

\* Mutant: the row is created first, the bytes are stored afterwards.
CreateFileFirst(t) ==
    /\ TaskAt(t, "upload")
    /\ LET f == Cardinality(Rows) + 1 IN
          /\ f \in Files
          /\ file' = [file EXCEPT ![f] = [name |-> task[t].name, sha256 |-> task[t].bytes,
                                          hold |-> task[t].hold]]
          /\ task' = [task EXCEPT ![t] = [at |-> "log", event |-> <<"UPLOADED", f>>]]
    /\ UNCHANGED <<owner, azure, begun, blob, bundle, custody, holdLog, stored, failed, overlapped>>

CreateFile(t) ==
    /\ TaskAt(t, "stored")
    /\ LET f == Cardinality(Rows) + 1 IN
          /\ f \in Files
          /\ file' = [file EXCEPT ![f] = [name |-> task[t].name, sha256 |-> task[t].bytes,
                                          hold |-> task[t].hold]]
          /\ task' = [task EXCEPT ![t] = [at |-> "log", event |-> <<"UPLOADED", f>>]]
    /\ UNCHANGED <<owner, azure, begun, blob, bundle, custody, holdLog, stored, failed, overlapped>>

----------------------------------------------------------------------------
(* generateShareLinks() and exportBundle(): the rows are read, the URLs    *)
(* signed, and the custody event is written before they are returned.      *)

generateShareLinks(t, u) ==
    /\ Begin(t, u, [at |-> "log", event |-> <<"SHARED", 0>>])
    /\ UNCHANGED <<owner, azure, blob, file, bundle, custody, holdLog, stored, failed, overlapped>>

exportBundle(t, u) ==
    /\ Begin(t, u, [at |-> "log", event |-> <<"EXPORTED", 0>>])
    /\ UNCHANGED <<owner, azure, blob, file, bundle, custody, holdLog, stored, failed, overlapped>>

----------------------------------------------------------------------------
(* requestExportBundle() and processBundle().                              *)

\* With Redis the worker runs processBundle, else the request does; only the
\* worker's job is repeated when it fails.
requestExportBundle(t, u) ==
    /\ Begin(t, u, [at |-> "manifest",
                                    left |-> IF azure.redis THEN ExportAttempts ELSE 1])
    /\ UNCHANGED <<owner, azure, blob, file, bundle, custody, holdLog, stored, failed, overlapped>>

ReadManifest(t) ==
    /\ TaskAt(t, "manifest")
    /\ task' = [task EXCEPT ![t] = [at |-> "bundle", left |-> @.left,
                                    manifest |-> {[id |-> f, sha256 |-> file[f].sha256] : f \in Rows}]]
    /\ UNCHANGED <<owner, azure, begun, blob, file, bundle, custody, holdLog, stored, failed, overlapped>>

CreateBundle(t) ==
    /\ TaskAt(t, "bundle")
    /\ Cardinality(DOMAIN bundle) < BundleBound
    /\ LET k == Cardinality(DOMAIN bundle) + 1 IN
          /\ bundle' = [i \in 1..k |-> IF i = k THEN task[t].manifest ELSE bundle[i]]
          /\ task' = [task EXCEPT ![t] = [at |-> "log", event |-> <<"PERSISTED", k>>,
                                          left |-> @.left]]
    /\ UNCHANGED <<owner, azure, begun, blob, file, custody, holdLog, stored, failed, overlapped>>

----------------------------------------------------------------------------
(* setLegalHold().                                                         *)

Holding(f) == {t \in Tasks : task[t] # NoTask /\ "holds" \in DOMAIN task[t] /\ task[t].holds = f}

\* A hold that already has the value asked for is refused.
ReadHold(t, u, f, hold) ==
    /\ f \in Rows
    /\ file[f].hold # hold
    /\ Begin(t, u, [at |-> "hold", holds |-> f, hold |-> hold])
    /\ overlapped' = (overlapped \/ Holding(f) # {})
    /\ UNCHANGED <<owner, azure, blob, file, bundle, custody, holdLog, stored, failed>>

setLegalHold(t) ==
    /\ TaskAt(t, "hold")
    /\ file' = [file EXCEPT ![task[t].holds].hold = task[t].hold]
    /\ Goes(t, "holdlog")
    /\ UNCHANGED <<owner, azure, begun, blob, bundle, custody, holdLog, stored, failed, overlapped>>

LogHold(t) ==
    /\ TaskAt(t, "holdlog")
    /\ holdLog' = [holdLog EXCEPT ![task[t].holds] = IF task[t].hold THEN "SET" ELSE "LIFTED"]
    /\ Ends(t)
    /\ UNCHANGED <<owner, azure, begun, blob, file, bundle, custody, stored, failed, overlapped>>

----------------------------------------------------------------------------
\* The custody event of an upload, a share, an export or a bundle.
LogCustody(t) ==
    /\ TaskAt(t, "log")
    /\ custody' = custody \union {task[t].event}
    /\ Ends(t)
    /\ UNCHANGED <<owner, azure, begun, blob, file, bundle, holdLog, stored, failed, overlapped>>

\* A statement fails or the process dies: a request is over, a job with attempts
\* left starts again from the manifest.
FailTask(t) ==
    /\ ~IdleTask(t)
    /\ task' = [task EXCEPT ![t] =
                   IF "left" \in DOMAIN @ /\ @.left > 1
                   THEN [at |-> "manifest", left |-> @.left - 1] ELSE NoTask]
    /\ failed' = (failed \/ task[t].at \in {"log", "holdlog"})
    /\ UNCHANGED <<owner, azure, begun, blob, file, bundle, custody, holdLog, stored, overlapped>>

FilesNext ==
    \E t \in Tasks :
        \/ \E u \in Owners :
              \/ \E n \in Names, b \in Bytes, hold \in BOOLEAN : Upload(t, u, n, b, hold)
              \/ generateShareLinks(t, u) \/ exportBundle(t, u) \/ requestExportBundle(t, u)
              \/ \E f \in Files, hold \in BOOLEAN : ReadHold(t, u, f, hold)
        \/ StoreBlob(t) \/ CreateFile(t) \/ ReadManifest(t) \/ CreateBundle(t)
        \/ setLegalHold(t) \/ LogHold(t) \/ LogCustody(t) \/ FailTask(t)

FilesSpec == FilesInit /\ [][FilesNext]_filesVars

----------------------------------------------------------------------------
FilesTypeOK ==
    /\ owner \in Owners \union {SystemOwned}
    /\ blob \in [Names -> Bytes \union {NoBytes}]
    /\ azure \in [blob: BOOLEAN, redis: BOOLEAN]
    /\ file \in [Files -> FileRecords \union {NoFile}]
    /\ \A k \in DOMAIN bundle : bundle[k] \in Manifests
    /\ task \in [Tasks -> TaskRecords \union {NoTask}]
    /\ begun \in 0..TaskBound
    /\ holdLog \in [Files -> {"none", "SET", "LIFTED"}]
    /\ stored \in [Names -> 0..2]
    /\ failed \in BOOLEAN /\ overlapped \in BOOLEAN

\* With storage configured, the bytes under a file's name are those its row has the
\* hash of, however uploads overlap and fail, as long as no second upload used the
\* name (evidence-file.service.ts upload, blob.service.ts upload).
FilesVerifiable ==
    azure.blob => \A f \in Rows : stored[file[f].name] < 2 => blob[file[f].name] = file[f].sha256

Quiet == \A t \in Tasks : IdleTask(t)

\* At rest, and when nothing failed between a row and its event, every file and
\* every bundle has its custody event, and the last legal-hold event of a file
\* agrees with its flag unless two changes overlapped (evidence-file.service.ts).
CustodyComplete ==
    Quiet /\ ~failed =>
        /\ \A f \in Rows : <<"UPLOADED", f>> \in custody
        /\ \A k \in DOMAIN bundle : <<"PERSISTED", k>> \in custody
        /\ ~overlapped => \A f \in Rows :
              holdLog[f] # "none" => file[f].hold = (holdLog[f] = "SET")

\* Every file can be verified against its stored hash and every change of the
\* files is in the custody log, within the limits the two parts state.
FilesAccounted == FilesVerifiable /\ CustodyComplete
=============================================================================
