------------------------ MODULE DownloadFile_proofs -------------------------
(***************************************************************************)
(* Proofs about DownloadFile, for every package size, every roll back and  *)
(* every write buffer that satisfy SizesAssumption.                        *)
(***************************************************************************)
EXTENDS DownloadFile, TLAPS

(* The roll back of the constructor of DownloadThread, as arithmetic: the  *)
(* resume point is never above the file size, and it lies below the file   *)
(* size by the full roll back or is zero.                                  *)
LEMMA ResumeSizeBounds ==
    ASSUME NEW n \in Nat
    PROVE  /\ ResumeSize(n) \in 0..n
           /\ \/ ResumeSize(n) = 0
              \/ ResumeSize(n) = n - MIN_FILE_DOWNLOAD_SIZE
  BY SizesAssumption DEF ResumeSize, CalculatedRollBackSize, Larger

(* A thread that starts over an unsynced tail within the bound starts      *)
(* inside the durable prefix.                                              *)
LEMMA ResumeOnSolidGround ==
    ASSUME NEW n \in Nat, NEW d \in Nat,
           n <= d + MIN_FILE_DOWNLOAD_SIZE
    PROVE  ResumeSize(n) <= d
  BY ResumeSizeBounds, SizesAssumption

(* What CallbackDownload reports is a well-formed callback.                *)
LEMMA CallbackDownloadType ==
    ASSUME NEW st \in {"INIT", "DOWNLOADING", "VERIFYING", "AUTO_PAUSE", "SUCCESS", "FAIL"},
           NEW size \in 0..packageSize, NEW initSize \in 0..packageSize
    PROVE  CallbackDownload(st, size, initSize) \in CallbackInfo
  BY SizesAssumption DEF CallbackDownload, CallbackInfo

(* The empty file of a package that was never downloaded is durable.       *)
LEMMA DurabilityInit == Init => DurabilityInv
  BY SizesAssumption
  DEF Init, DurabilityInv, TypeOK, CallbackInfo, UnsyncedTailBounded,
      RequestSynced, ResumeInsideDurablePrefix

(* Every step of the thread and every power loss keeps the invariant.      *)
LEMMA DurabilityStep == DurabilityInv /\ [Next]_vars => DurabilityInv'
<1> SUFFICES ASSUME DurabilityInv, [Next]_vars PROVE DurabilityInv'
    OBVIOUS
<1> USE SizesAssumption
<1>0. /\ TypeOK /\ durable <= syncedSize /\ syncedSize <= fileSize
      /\ UnsyncedTailBounded /\ RequestSynced /\ ResumeInsideDurablePrefix
    BY DEF DurabilityInv
<1>1. CASE StartThread
  <2>1. startSize' \in 0..fileSize /\ startSize' <= durable
      BY <1>0, <1>1, ResumeSizeBounds, ResumeOnSolidGround
      DEF StartThread, TypeOK, UnsyncedTailBounded
  <2>2. callback' \in CallbackInfo
      BY <1>0, <1>1, <2>1, CallbackDownloadType DEF StartThread, TypeOK
  <2>3. TypeOK'
      BY <1>0, <1>1, <2>1, <2>2 DEF StartThread, TypeOK, disk
  <2>4. FILE_SIZE_MB \in Nat /\ FILE_SIZE_MB > 0
      BY DEF FILE_SIZE_MB
  <2>5. QED
      BY <1>0, <1>1, <2>1, <2>3, <2>4
      DEF StartThread, disk, DurabilityInv, TypeOK, UnsyncedTailBounded,
          RequestSynced, ResumeInsideDurablePrefix
<1>2. ASSUME NEW n \in 1..CURL_MAX_WRITE_SIZE, WriteFun(n) PROVE DurabilityInv'
  <2>1. TypeOK'
      BY <1>0, <1>2 DEF WriteFun, TypeOK, Larger
  <2>2. RequestSynced'
      BY <1>0, <1>2 DEF WriteFun, RequestSynced, TypeOK, Larger, FILE_SIZE_MB
  <2>3. UnsyncedTailBounded'
      BY <1>0, <1>2 DEF WriteFun, RequestSynced, UnsyncedTailBounded, TypeOK, Larger, FILE_SIZE_MB
  <2>4. QED
      BY <1>0, <1>2, <2>1, <2>2, <2>3
      DEF WriteFun, DurabilityInv, TypeOK, Larger, ResumeInsideDurablePrefix
<1>3. CASE FsyncInWriteFun
  <2>1. TypeOK'
      BY <1>0, <1>3 DEF FsyncInWriteFun, SyncedDisk, TypeOK, Larger
  <2>2. QED
      BY <1>0, <1>3, <2>1
      DEF FsyncInWriteFun, SyncedDisk, Larger, DurabilityInv, TypeOK, FILE_SIZE_MB,
          UnsyncedTailBounded, RequestSynced, ResumeInsideDurablePrefix
<1>4. CASE CallbackProgress
  <2>1. callback' \in CallbackInfo
      BY <1>0, <1>4, CallbackDownloadType DEF CallbackProgress, TypeOK
  <2>2. QED
      BY <1>0, <1>4, <2>1
      DEF CallbackProgress, DurabilityInv, TypeOK, UnsyncedTailBounded,
          RequestSynced, ResumeInsideDurablePrefix
<1>5. CASE WriteError
  <2>1. callback' \in CallbackInfo
      BY <1>0, <1>5, CallbackDownloadType DEF WriteError, TypeOK
  <2>2. QED
      BY <1>0, <1>5, <2>1
      DEF WriteError, ClearPackage, thread, DurabilityInv, TypeOK, UnsyncedTailBounded,
          RequestSynced, ResumeInsideDurablePrefix
<1>6. ASSUME NEW status \in {"AUTO_PAUSE", "FAIL"}, RequestEnds(status) PROVE DurabilityInv'
  <2>1. callback' \in CallbackInfo
      BY <1>0, <1>6, CallbackDownloadType DEF RequestEnds, TypeOK
  <2>2. CASE SyncedDisk
      BY <1>0, <1>6, <2>1, <2>2
      DEF RequestEnds, SyncedDisk, Larger, thread, DurabilityInv, TypeOK,
          UnsyncedTailBounded, RequestSynced, ResumeInsideDurablePrefix
  <2>3. CASE fileSize' \in syncedSize..fileSize /\ UNCHANGED <<syncedSize, durable>>
    <3>1. fileSize' \in 0..packageSize /\ fileSize' >= syncedSize /\ fileSize' <= fileSize
        BY <1>0, <2>3 DEF TypeOK
    <3>2. QED
        BY <1>0, <1>6, <2>1, <2>3, <3>1
        DEF RequestEnds, thread, DurabilityInv, TypeOK,
            UnsyncedTailBounded, RequestSynced, ResumeInsideDurablePrefix
  <2>4. QED
      BY <1>6, <2>2, <2>3 DEF RequestEnds, SyncFile
<1>7. CASE HandleDownloadFinish
  <2>1. callback' \in CallbackInfo
      BY <1>0, <1>7, CallbackDownloadType DEF HandleDownloadFinish, TypeOK
  <2>2. CASE SyncedDisk
      BY <1>0, <1>7, <2>1, <2>2
      DEF HandleDownloadFinish, SyncedDisk, Larger, thread, DurabilityInv, TypeOK,
          UnsyncedTailBounded, RequestSynced, ResumeInsideDurablePrefix
  <2>3. CASE fileSize' \in syncedSize..fileSize /\ UNCHANGED <<syncedSize, durable>>
    <3>1. fileSize' \in 0..packageSize /\ fileSize' >= syncedSize /\ fileSize' <= fileSize
        BY <1>0, <2>3 DEF TypeOK
    <3>2. QED
        BY <1>0, <1>7, <2>1, <2>3, <3>1
        DEF HandleDownloadFinish, thread, DurabilityInv, TypeOK,
            UnsyncedTailBounded, RequestSynced, ResumeInsideDurablePrefix
  <2>4. QED
      BY <1>7, <2>2, <2>3 DEF HandleDownloadFinish, SyncFile
<1>8. CASE VerifySuccess
  <2>1. callback' \in CallbackInfo
      BY <1>0, <1>8, CallbackDownloadType DEF VerifySuccess, TypeOK
  <2>2. QED
      BY <1>0, <1>8, <2>1
      DEF VerifySuccess, disk, thread, DurabilityInv, TypeOK, UnsyncedTailBounded,
          RequestSynced, ResumeInsideDurablePrefix
<1>9. CASE VerifyFail
  <2>1. callback' \in CallbackInfo
      BY <1>0, <1>9, CallbackDownloadType DEF VerifyFail, TypeOK
  <2>2. QED
      BY <1>0, <1>9, <2>1
      DEF VerifyFail, ClearPackage, thread, DurabilityInv, TypeOK, UnsyncedTailBounded,
          RequestSynced, ResumeInsideDurablePrefix
<1>10. CASE PowerLoss
  <2>1. fileSize' \in 0..packageSize /\ fileSize' >= syncedSize /\ fileSize' <= fileSize
      BY <1>0, <1>10 DEF PowerLoss, TypeOK
  <2>2. callback' \in CallbackInfo
      BY <1>0, <1>10, <2>1 DEF PowerLoss, TypeOK, CallbackInfo
  <2>3. QED
      BY <1>0, <1>10, <2>1, <2>2
      DEF PowerLoss, thread, DurabilityInv, TypeOK, UnsyncedTailBounded,
          RequestSynced, ResumeInsideDurablePrefix
<1>11. CASE UNCHANGED vars
  BY <1>0, <1>11
  DEF vars, DurabilityInv, TypeOK, UnsyncedTailBounded, RequestSynced,
      ResumeInsideDurablePrefix
<1>12. QED
  BY <1>1, <1>2, <1>3, <1>4, <1>5, <1>6, <1>7, <1>8, <1>9, <1>10, <1>11 DEF Next

(* Everything a thread may rely on holds in every reachable state.         *)
THEOREM DurabilityInductive == Spec => []DurabilityInv
<1>1. QED
  BY DurabilityInit, DurabilityStep, PTL DEF Spec

(* Whatever the package size, the roll back and the write buffer: a thread *)
(* that resumes a package after pauses, failed syncs and power losses      *)
(* never relies on bytes that were not made durable, so a resume by itself *)
(* never makes the sha256 check fail.                                      *)
THEOREM ResumeIsSafe == Spec => []ResumeInsideDurablePrefix
<1>1. DurabilityInv => ResumeInsideDurablePrefix
  BY DEF DurabilityInv
<1>2. QED
  BY <1>1, DurabilityInductive, PTL

(* The bytes a power loss may take never exceed the roll back.             *)
THEOREM UnsyncedTailIsBounded == Spec => []UnsyncedTailBounded
<1>1. DurabilityInv => UnsyncedTailBounded
  BY DEF DurabilityInv
<1>2. QED
  BY <1>1, DurabilityInductive, PTL

-----------------------------------------------------------------------------

(* What a running thread has reported is covered by what it received and   *)
(* by what the file held when it was created.                              *)
ReportCovered ==
    phase # "none" =>
        /\ downloadedSize <= offset
        /\ callback.downloadedSize <= Larger(downloadedSize, fileInitSize)

(* The step property of ProgressNeverRollsBack.                            *)
NoRollBack ==
    /\ callback.status \in {"DOWNLOADING", "AUTO_PAUSE", "VERIFYING"}
    /\ callback'.status \in {"DOWNLOADING", "AUTO_PAUSE", "VERIFYING", "SUCCESS"}
    /\ fileSize >= callback.downloadedSize
    => callback'.downloadedSize >= callback.downloadedSize

(* CallbackDownload reports the larger of what was received and what the   *)
(* file held, except after a failure.                                      *)
LEMMA CallbackDownloadSize ==
    ASSUME NEW st \in {"DOWNLOADING", "VERIFYING", "AUTO_PAUSE", "SUCCESS"},
           NEW size \in 0..packageSize, NEW initSize \in 0..packageSize
    PROVE  CallbackDownload(st, size, initSize).downloadedSize = Larger(size, initSize)
  BY SizesAssumption DEF CallbackDownload, Larger

(* One step keeps ReportCovered and rolls no report back: a running thread *)
(* by ReportCovered, a new one because it reports at least the file size.  *)
LEMMA ProgressStep ==
    TypeOK /\ ReportCovered /\ [Next]_vars => ReportCovered' /\ [NoRollBack]_vars
<1> SUFFICES ASSUME TypeOK, ReportCovered, [Next]_vars
             PROVE  ReportCovered' /\ NoRollBack
    OBVIOUS
<1> USE SizesAssumption
<1>0. callback.downloadedSize \in 0..packageSize
    BY DEF TypeOK, CallbackInfo
<1>1. CASE StartThread
  <2>1. startSize' \in 0..fileSize
      BY <1>1, ResumeSizeBounds DEF StartThread, TypeOK
  <2>2. callback'.downloadedSize = Larger(startSize', fileSize)
      BY <1>1, <2>1, CallbackDownloadSize DEF StartThread, TypeOK
  <2>3. QED
      BY <1>0, <1>1, <2>1, <2>2
      DEF StartThread, TypeOK, ReportCovered, NoRollBack, Larger
<1>2. ASSUME NEW n \in 1..CURL_MAX_WRITE_SIZE, WriteFun(n)
      PROVE  ReportCovered' /\ NoRollBack
    BY <1>0, <1>2 DEF WriteFun, TypeOK, ReportCovered, NoRollBack, Larger
<1>3. CASE FsyncInWriteFun
    BY <1>0, <1>3 DEF FsyncInWriteFun, TypeOK, ReportCovered, NoRollBack
<1>4. CASE CallbackProgress
  <2>1. CallbackDownload("DOWNLOADING", offset, fileInitSize).downloadedSize
          = Larger(offset, fileInitSize)
      BY CallbackDownloadSize DEF TypeOK
  <2>2. CASE callback' = callback
      BY <1>0, <1>4, <2>2
      DEF CallbackProgress, TypeOK, ReportCovered, NoRollBack, Larger
  <2>3. CASE callback' = CallbackDownload("DOWNLOADING", offset, fileInitSize)
      BY <1>0, <1>4, <2>1, <2>3
      DEF CallbackProgress, TypeOK, ReportCovered, NoRollBack, Larger
  <2>4. QED
      BY <1>4, <2>2, <2>3 DEF CallbackProgress
<1>5. CASE WriteError
    BY <1>5 DEF WriteError, CallbackDownload, ReportCovered, NoRollBack
<1>6. ASSUME NEW st \in {"AUTO_PAUSE", "FAIL"}, RequestEnds(st)
      PROVE  ReportCovered' /\ NoRollBack
  <2>1. CASE st = "FAIL"
      BY <1>6, <2>1 DEF RequestEnds, CallbackDownload, ReportCovered, NoRollBack
  <2>2. CASE st = "AUTO_PAUSE"
    <3>1. callback'.downloadedSize = Larger(downloadedSize, fileInitSize)
        BY <1>6, <2>2, CallbackDownloadSize DEF RequestEnds, TypeOK
    <3>2. QED
        BY <1>0, <1>6, <3>1 DEF RequestEnds, TypeOK, ReportCovered, NoRollBack, Larger
  <2>3. QED
      BY <2>1, <2>2
<1>7. CASE HandleDownloadFinish
  <2>1. callback'.downloadedSize = Larger(downloadedSize, fileInitSize)
      BY <1>7, CallbackDownloadSize DEF HandleDownloadFinish, TypeOK
  <2>2. QED
      BY <1>0, <1>7, <2>1
      DEF HandleDownloadFinish, thread, TypeOK, ReportCovered, NoRollBack, Larger
<1>8. CASE VerifySuccess
  <2>1. callback'.downloadedSize = Larger(downloadedSize, fileInitSize)
      BY <1>8, CallbackDownloadSize DEF VerifySuccess, TypeOK
  <2>2. QED
      BY <1>0, <1>8, <2>1 DEF VerifySuccess, TypeOK, ReportCovered, NoRollBack, Larger
<1>9. CASE VerifyFail
    BY <1>9 DEF VerifyFail, CallbackDownload, ReportCovered, NoRollBack
<1>10. CASE PowerLoss
    BY <1>10 DEF PowerLoss, ReportCovered, NoRollBack
<1>11. CASE UNCHANGED vars
    BY <1>0, <1>11 DEF vars, TypeOK, ReportCovered, NoRollBack
<1>12. QED
  BY <1>1, <1>2, <1>3, <1>4, <1>5, <1>6, <1>7, <1>8, <1>9, <1>10, <1>11 DEF Next

(* The size reported to the client never shrinks over pauses and resumes   *)
(* of a file that kept its bytes, although each resume starts lower.       *)
THEOREM ProgressIsMonotone == Spec => ProgressNeverRollsBack
<1>1. Init => ReportCovered
  BY DEF Init, ReportCovered
<1>2. DurabilityInv => TypeOK
  BY DEF DurabilityInv
<1>3. QED
  BY <1>1, <1>2, DurabilityInductive, ProgressStep, PTL
  DEF Spec, ProgressNeverRollsBack, NoRollBack
=============================================================================
