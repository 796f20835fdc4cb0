---------------------------- MODULE DownloadFile ----------------------------
(***************************************************************************)
(* One package file and the DownloadThreads that write it, one at a time:  *)
(* the writes and fsyncs of DownloadRequest::WriteFun, the roll back of    *)
(* the resume point in the constructor of DownloadThread, the sync at the  *)
(* end of a request, and power loss at any moment.                         *)
(*                                                                         *)
(* The file is opened READ_WRITE and never truncated, so a resumed thread  *)
(* trusts every byte below the offset it seeks to.  The thread rolls the   *)
(* resume point back by MIN_FILE_DOWNLOAD_SIZE; the write callback fsyncs  *)
(* before that many bytes are unsynced.  The module states what the two    *)
(* constants must guarantee together.                                      *)
(*                                                                         *)
(* The content of the file is abstracted to the length `durable' of the    *)
(* prefix that is known to hold the bytes of the package on disk: what     *)
(* lies above it may be a hole or stale pages after a power loss.          *)
(***************************************************************************)
EXTENDS Integers

CONSTANTS
    packageSize,             \* DownloadInfo.packageSize of this package
    MIN_FILE_DOWNLOAD_SIZE,  \* constant.h, 10 MB
    CURL_MAX_WRITE_SIZE,     \* libcurl: the largest buffer of one write callback
    IoFaults                 \* TRUE: fflush and fsync may fail

ASSUME SizesAssumption ==
    /\ packageSize \in Nat \ {0}
    /\ CURL_MAX_WRITE_SIZE \in Nat \ {0}
    /\ MIN_FILE_DOWNLOAD_SIZE \in Nat
    /\ MIN_FILE_DOWNLOAD_SIZE > 2 * CURL_MAX_WRITE_SIZE
    /\ IoFaults \in BOOLEAN

VARIABLES
    fileSize,        \* what FileUtils::GetFileSize(path) returns
    syncedSize,      \* the file size covered by the last successful fsync
    durable,         \* the prefix that holds package bytes whatever happens
    phase,           \* where the thread is: "none", "downloading", "verifying"
    fileInitSize,    \* fileInitSize_: the file size when the thread was created
    startSize,       \* the offset the thread seeked to
    offset,          \* the position of the FILE
    fsyncSize,       \* bytes written since the last fsync of this request
    downloadedSize,  \* downloadedSize_ of the thread
    callback         \* the last DownloadCallbackInfo the thread reported

vars == <<fileSize, syncedSize, durable, phase, fileInitSize, startSize,
          offset, fsyncSize, downloadedSize, callback>>

thread == <<fileInitSize, startSize, offset, fsyncSize, downloadedSize>>
disk   == <<fileSize, syncedSize, durable>>

Larger(a, b) == IF a >= b THEN a ELSE b

FILE_SIZE_MB_mut == MIN_FILE_DOWNLOAD_SIZE + CURL_MAX_WRITE_SIZE

(* FILE_SIZE_MB: the number of unsynced bytes that triggers an fsync.      *)
FILE_SIZE_MB == MIN_FILE_DOWNLOAD_SIZE - 2 * CURL_MAX_WRITE_SIZE

CalculatedRollBackSize_mut(size) ==
    IF size <= FILE_SIZE_MB THEN 0 ELSE MIN_FILE_DOWNLOAD_SIZE

CalculatedRollBackSize(size) ==
    IF size <= MIN_FILE_DOWNLOAD_SIZE THEN size ELSE MIN_FILE_DOWNLOAD_SIZE

(* The constructor of DownloadThread: the size a new thread starts from.   *)
ResumeSize(realSize) == Larger(realSize - CalculatedRollBackSize(realSize), 0)

CallbackInfo == [status : {"INIT", "DOWNLOADING", "VERIFYING", "AUTO_PAUSE",
                           "SUCCESS", "FAIL"},
                 downloadedSize : 0..packageSize]

CallbackDownload_mut(status, size, initSize) ==
    [status |-> status,
     downloadedSize |-> IF status = "FAIL" THEN packageSize ELSE size]

(* The size a callback carries: the package size after a failure, but      *)
(* never less than the file held when the thread was created.              *)
CallbackDownload(status, size, initSize) ==
    [status |-> status,
     downloadedSize |-> IF size < initSize THEN initSize
                        ELSE IF status = "FAIL" THEN packageSize
                        ELSE size]

Init ==
    /\ fileSize = 0 /\ syncedSize = 0 /\ durable = 0
    /\ phase = "none"
    /\ fileInitSize = 0 /\ startSize = 0 /\ offset = 0
    /\ fsyncSize = 0 /\ downloadedSize = 0
    /\ callback = [status |-> "INIT", downloadedSize |-> 0]

(* A new thread (first start, resume or retry): construct, report          *)
(* DOWNLOADING, open the file without truncating it and seek.              *)
StartThread ==
    /\ phase = "none"
    /\ callback.status # "SUCCESS"
    /\ phase' = "downloading"
    /\ fileInitSize' = fileSize
    /\ startSize' = ResumeSize(fileSize)
    /\ offset' = startSize'
    /\ downloadedSize' = startSize'
    /\ fsyncSize' = 0
    /\ callback' = CallbackDownload("DOWNLOADING", startSize', fileSize)
    /\ UNCHANGED disk

(* WriteFun up to AddFsyncSize: one buffer of at most CURL_MAX_WRITE_SIZE  *)
(* bytes; the fsync that may be due comes before the next buffer.          *)
WriteFun(n) ==
    /\ phase = "downloading"
    /\ fsyncSize < FILE_SIZE_MB
    /\ offset + n <= packageSize
    /\ offset' = offset + n
    /\ fsyncSize' = fsyncSize + n
    /\ fileSize' = Larger(fileSize, offset + n)
    /\ UNCHANGED <<syncedSize, durable, phase, fileInitSize, startSize,
                   downloadedSize, callback>>

(* What a successful fflush and fsync make durable: everything written so  *)
(* far, if what lies below the seek offset was already there.              *)
SyncedDisk ==
    /\ syncedSize' = fileSize
    /\ durable' = IF startSize <= durable THEN Larger(durable, offset) ELSE durable
    /\ UNCHANGED fileSize

(* The rest of WriteFun: fflush, fsync, ClearSyncSize.                     *)
FsyncInWriteFun ==
    /\ phase = "downloading"
    /\ fsyncSize >= FILE_SIZE_MB
    /\ SyncedDisk
    /\ fsyncSize' = 0
    /\ UNCHANGED <<phase, fileInitSize, startSize, offset, downloadedSize, callback>>

(* libcurl's progress callback: downloadedSize_ catches up with what was   *)
(* received, reported when the percentage or the report interval says so.  *)
CallbackProgress ==
    /\ phase = "downloading"
    /\ downloadedSize' = offset
    /\ callback' \in {callback, CallbackDownload("DOWNLOADING", offset, fileInitSize)}
    /\ UNCHANGED <<fileSize, syncedSize, durable, phase, fileInitSize,
                   startSize, offset, fsyncSize>>

(* SyncFile at the end of a request: its failures are logged and ignored.  *)
SyncFile ==
    \/ SyncedDisk
    \/ /\ IoFaults
       /\ fileSize' \in syncedSize..fileSize
       /\ UNCHANGED <<syncedSize, durable>>

ClearPackage ==
    /\ fileSize' = 0 /\ syncedSize' = 0 /\ durable' = 0

(* fflush or fsync fails inside WriteFun: CURLE_WRITE_ERROR, IO_EXCEPTION, *)
(* the file is deleted and the failure is not retried.                     *)
WriteError ==
    /\ IoFaults
    /\ phase = "downloading"
    /\ phase' = "none"
    /\ callback' = CallbackDownload("FAIL", downloadedSize, fileInitSize)
    /\ ClearPackage
    /\ UNCHANGED thread

(* The request ends early: a net change or a curl error (AUTO_PAUSE) or a  *)
(* server timeout, a redirect or a size error (FAIL).                      *)
RequestEnds(status) ==
    /\ phase = "downloading"
    /\ SyncFile
    /\ phase' = "none"
    /\ callback' = CallbackDownload(status, downloadedSize, fileInitSize)
    /\ UNCHANGED thread

(* Everything was received: sync the file and report VERIFYING.            *)
HandleDownloadFinish ==
    /\ phase = "downloading"
    /\ fsyncSize < FILE_SIZE_MB
    /\ offset = packageSize
    /\ downloadedSize = packageSize
    /\ SyncFile
    /\ phase' = "verifying"
    /\ callback' = CallbackDownload("VERIFYING", downloadedSize, fileInitSize)
    /\ UNCHANGED thread

(* sha256 matches: possible only if the file holds the package.            *)
VerifySuccess ==
    /\ phase = "verifying"
    /\ startSize <= durable
    /\ fileSize = packageSize
    /\ phase' = "none"
    /\ callback' = CallbackDownload("SUCCESS", downloadedSize, fileInitSize)
    /\ UNCHANGED <<disk, thread>>

(* sha256 does not match (the server's bytes may be wrong at any time).    *)
VerifyFail ==
    /\ phase = "verifying"
    /\ phase' = "none"
    /\ callback' = CallbackDownload("FAIL", downloadedSize, fileInitSize)
    /\ ClearPackage
    /\ UNCHANGED thread

(* Power loss: unsynced writes may or may not have reached the disk, and   *)
(* the file size may have reached it without the data.  After the restart  *)
(* the recorded size is corrected to the size of the file.                 *)
PowerLoss ==
    /\ phase' = "none"
    /\ fileSize' \in syncedSize..fileSize
    /\ syncedSize' = fileSize'
    /\ callback' = IF callback.status = "SUCCESS" THEN callback
                   ELSE [status |-> "INIT", downloadedSize |-> fileSize']
    /\ UNCHANGED <<durable, thread>>

Next ==
    \/ StartThread
    \/ \E n \in 1..CURL_MAX_WRITE_SIZE : WriteFun(n)
    \/ FsyncInWriteFun
    \/ CallbackProgress
    \/ WriteError
    \/ \E status \in {"AUTO_PAUSE", "FAIL"} : RequestEnds(status)
    \/ HandleDownloadFinish
    \/ VerifySuccess
    \/ VerifyFail
    \/ PowerLoss

Spec == Init /\ [][Next]_vars

-----------------------------------------------------------------------------

(* Every size lies within the package; the callback is well formed.        *)
TypeOK ==
    /\ fileSize \in 0..packageSize
    /\ syncedSize \in 0..packageSize
    /\ durable \in 0..packageSize
    /\ phase \in {"none", "downloading", "verifying"}
    /\ fileInitSize \in 0..packageSize
    /\ startSize \in 0..packageSize
    /\ offset \in 0..packageSize
    /\ fsyncSize \in Nat
    /\ downloadedSize \in 0..packageSize
    /\ callback \in CallbackInfo

(* A thread never trusts a byte that a power loss may have destroyed: the  *)
(* offset DownloadThread seeks to after the roll back lies inside the      *)
(* prefix WriteFun had made durable, over any sequence of pauses, ignored  *)
(* sync failures and power losses.  Otherwise sha256 would fail and the    *)
(* whole package would be deleted and downloaded again.                    *)
ResumeInsideDurablePrefix ==
    phase # "none" => startSize <= durable

(* The part of the file that could be lost never exceeds the roll back, so *)
(* the next thread, whenever it starts, resumes on solid ground.           *)
UnsyncedTailBounded ==
    fileSize <= durable + MIN_FILE_DOWNLOAD_SIZE

(* What ties the running request to the disk.                              *)
RequestSynced ==
    phase = "downloading" =>
        /\ startSize <= durable
        /\ offset <= durable + fsyncSize
        /\ offset <= fileSize
        /\ fsyncSize < FILE_SIZE_MB + CURL_MAX_WRITE_SIZE

(* The inductive invariant of the module.                                  *)
DurabilityInv ==
    /\ TypeOK
    /\ durable <= syncedSize
    /\ syncedSize <= fileSize
    /\ UnsyncedTailBounded
    /\ RequestSynced
    /\ ResumeInsideDurablePrefix

(* "After a pause the resumed download rolls the size back; avoid a roll   *)
(* back of the progress" (download_thread.cpp:236): as long as the file    *)
(* has not lost bytes to a failed sync, the size a thread reports never    *)
(* shrinks over pauses, retries and resumes, although every new thread     *)
(* itself starts again from a smaller size.                                *)
ProgressNeverRollsBack ==
    [][ /\ callback.status \in {"DOWNLOADING", "AUTO_PAUSE", "VERIFYING"}
        /\ callback'.status \in {"DOWNLOADING", "AUTO_PAUSE", "VERIFYING",
                                 "SUCCESS"}
        /\ fileSize >= callback.downloadedSize
        => callback'.downloadedSize >= callback.downloadedSize ]_vars

=============================================================================
