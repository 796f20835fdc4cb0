------------------------ MODULE StreamInstall_proofs ------------------------
(***************************************************************************)
(* Proofs about StreamInstall, for a package of any size, a buffer of any  *)
(* size, chunks of any sizes, an int of any width, any number of retries,  *)
(* calls, restarts and faults.                                             *)
(***************************************************************************)
EXTENDS StreamInstall, TLAPS

(***************************************************************************)
(* The inductive invariant, part by part.                                  *)
(***************************************************************************)
Mixed == "mixed" \in seen
Blocks == [start : 0 .. Size, len : 1 .. BufferRoom]

MainRecord ==
    [pc : Steps, order : Orders, asked : Orders \cup {"RESTORED"}, retry : 0 .. MaxRetryCount,
     ok : BOOLEAN, recordPoint : Int, taskProgress : {"INIT", "INSTALLING"} \cup Results]
WorkerRecord ==
    [st : {"none", "lock", "head", "get", "write", "report", "ended"},
     off : 0 .. Size, downloadedSize : Int, bufferPos : 0 .. BufferRoom,
     left : 0 .. Size, total : BOOLEAN, exit : BOOLEAN, wake : BOOLEAN, again : BOOLEAN,
     end : {"INIT", "DOWNLOAD_SUCCESS", "DOWNLOAD_FAIL", "DOWNLOAD_CANCEL"}]
InstRecord ==
    [up : BOOLEAN, heard : BOOLEAN, next : 0 .. Size, queue : Seq(Blocks), dealt : 0 .. Size]
ReportRecord ==
    [len : -1 .. BufferRoom, late : BOOLEAN,
     status : {"INIT", "INSTALLING", "INSTALL_SUCCESS", "INSTALL_FAIL"}]

MainType ==
    /\ main \in MainRecord
    /\ main.recordPoint >= -(IntMax + 1)
    /\ main.pc \in {"start", "session", "join", "wait", "failed"} => main.retry < MaxRetryCount
    /\ main.pc = "record" => main.taskProgress # "INIT"
    /\ main.pc \notin {"record", "next", "destroy", "apply", "rebooted"} => main.taskProgress = "INIT"
WorkerType == worker \in WorkerRecord
InstType ==
    /\ inst \in InstRecord
    /\ \A i \in 1 .. Len(inst.queue) : inst.queue[i].start + inst.queue[i].len <= Size
ReportType == report \in ReportRecord /\ (report # NoReport => report.len >= 0)
RowType ==
    /\ task \in {"none", "CHECK_VERSION_SUCCESS", "INSTALLING", "INSTALL_SUCCESS", "INSTALL_FAIL", "INSTALL_PAUSE"}
    /\ point \in -(IntMax + 1) .. IntMax
StatusType ==
    /\ dl \in {"INIT", "DOWNLOAD_SUCCESS", "DOWNLOAD_FAIL", "DOWNLOAD_CANCEL"}
    /\ sys \in {"INIT", "INSTALLING", "INSTALL_SUCCESS", "INSTALL_FAIL"}
    /\ bounds \in [calls : 0 .. MaxCalls, faults : 0 .. MaxFaults]
    /\ seen \subseteq Happenings

StreamTypes == MainType /\ WorkerType /\ InstType /\ ReportType /\ RowType /\ StatusType

(* The status of the task's row at the steps of the flow.                  *)
TaskFollowsFlow ==
    /\ main.pc \in {"start", "session", "join", "wait", "failed", "result", "record"} => task = "INSTALLING"
    /\ main.pc \in {"mode", "write"} => task \notin {"none", "INSTALLING"}

(* Between two installs nothing of the last one is left: no thread, no     *)
(* report, no status.  An open session belongs to the running attempt, or  *)
(* is the leftover of a process that died.                                 *)
SessionFollowsFlow ==
    /\ main.pc \in {"idle", "mode", "write", "apply", "down"} => ~inst.heard
    /\ main.pc \in {"join", "wait"} => inst.heard
    /\ main.pc = "session" => ~inst.up /\ inst.queue = <<>>
    /\ inst.up /\ inst.heard => main.pc \in {"join", "wait"}
    /\ ~inst.heard => /\ worker.st = "none" /\ ~worker.exit
                      /\ report = NoReport /\ dl = "INIT" /\ sys = "INIT"
    /\ report # NoReport /\ ~report.late => main.pc \in {"join", "wait"}

(* The buffer and the offsets of the worker.                               *)
BufferFits ==
    /\ worker.bufferPos <= worker.off
    /\ worker.st \in {"lock", "head"} => worker.bufferPos = 0
    /\ worker.st \in {"get", "write"} => worker.bufferPos < BufferRoom
    /\ worker.st = "write" => worker.left >= 1 /\ worker.off + worker.left <= Size
    /\ worker.again /\ worker.st # "lock" => worker.st = "report" /\ worker.bufferPos = 0

(* The blocks of a session follow one another up to the next expected      *)
(* byte, and begin at the last byte dealt with or before it.               *)
Contiguous(q, next) ==
    /\ \A i \in 1 .. Len(q) - 1 : q[i + 1].start = q[i].start + q[i].len
    /\ q # <<>> => q[Len(q)].start + q[Len(q)].len = next

Position == IF inst.queue = <<>> THEN inst.next ELSE inst.queue[1].start

QueueIsContiguous ==
    inst.up /\ ~Mixed => Contiguous(inst.queue, inst.next) /\ Position <= inst.dealt

(* The thread feeds the session it was started for: it has not read its    *)
(* record point yet, or its unsent bytes are the ones expected next.       *)
ThreadFeedsSession ==
    inst.up /\ inst.heard /\ ~Mixed =>
       /\ worker.st \in {"get", "write"} => inst.next = worker.off - worker.bufferPos
       /\ main.pc = "wait" /\ (worker.st \in {"lock", "head"} \/ (worker.st = "report" /\ worker.again))
            => inst.next = ResumeFrom(worker.downloadedSize)
       /\ main.pc = "join" =>
            /\ ~Running /\ inst.queue = <<>> /\ inst.next = ResumeFrom(main.recordPoint)
            /\ report = NoReport \/ report.late

(* The bytes of a report that is under way and will be counted.            *)
Pending == IF report = NoReport \/ report.late THEN 0 ELSE report.len

(* The record point is never ahead of the installer, the report under way  *)
(* included.                                                               *)
PointIsBehind ==
    ~Mixed =>
       /\ point <= inst.dealt
       /\ FrameLives => main.recordPoint + Pending <= inst.dealt
       /\ inst.up /\ inst.heard => main.recordPoint + Pending <= Position

(* Without an overflow the thread's count is its place in the package.     *)
CountIsOffset ==
    "wrapped" \notin seen /\ ~Mixed =>
       /\ point >= 0 /\ main.recordPoint >= 0
       /\ worker.st \in {"lock", "head"} \/ (worker.st = "report" /\ worker.again)
            => worker.downloadedSize \in 0 .. Size
       /\ worker.st \in {"get", "write"} => worker.downloadedSize = worker.off
       /\ worker.st = "get" /\ worker.off = Size => worker.bufferPos = 0

(* Whoever says success says it of the whole package.                      *)
SuccessIsDealt ==
    /\ report.status = "INSTALL_SUCCESS" => inst.dealt = Size
    /\ ~Mixed =>
         (sys = "INSTALL_SUCCESS" \/ main.ok \/ main.taskProgress = "INSTALL_SUCCESS" \/ task = "INSTALL_SUCCESS"
            => inst.dealt = Size)

(* Whatever leads to a pause has interrupted the install.                  *)
StopIsExplained ==
    (\/ worker.exit \/ (worker.st = "report" /\ worker.end = "DOWNLOAD_CANCEL") \/ dl = "DOWNLOAD_CANCEL"
     \/ sys = "INSTALL_FAIL" \/ report.status = "INSTALL_FAIL" \/ task = "INSTALL_PAUSE"
     \/ main.taskProgress = "INSTALL_PAUSE")
       => "interrupted" \in seen

(* An order to install only does not become another one.                   *)
OrderIsAsked ==
    main.asked = "INSTALL" => main.order = "INSTALL" /\ main.pc \notin {"apply", "rebooted"}

StreamIInv ==
    /\ StreamTypes /\ TaskFollowsFlow /\ SessionFollowsFlow /\ BufferFits
    /\ QueueIsContiguous /\ ThreadFeedsSession /\ PointIsBehind /\ CountIsOffset
    /\ SuccessIsDealt /\ StopIsExplained /\ OrderIsAsked
    /\ BlocksInPlace /\ NoByteSkipped /\ NothingLeftInBuffer

-----------------------------------------------------------------------------
(* The operators the specification is built from                           *)

(* The sizes are positive, the bounds are numbers.                         *)
LEMMA Sizes ==
    /\ Size \in Nat \ {0} /\ BufferRoom \in Nat \ {0} /\ MaxRetryCount \in Nat \ {0}
    /\ IntMax \in Nat \ {0} /\ MaxQueue \in Nat \ {0} /\ MaxCalls \in Nat /\ MaxFaults \in Nat
    /\ Chunks \subseteq Nat \ {0} /\ Asked \subseteq Orders
BY SizesAssumption DEF Orders

(* The lesser of two numbers.                                              *)
LEMMA MinOfTwo == ASSUME NEW a \in Int, NEW b \in Int PROVE Min({a, b}) = IF a <= b THEN a ELSE b
BY DEF Min

(* The greater of two numbers.                                             *)
LEMMA MaxOfTwo == ASSUME NEW a \in Int, NEW b \in Int PROVE Max({a, b}) = IF a <= b THEN b ELSE a
BY DEF Max

(* The transfer resumes within the package, at the point itself if that is *)
(* within it, and never after it.                                          *)
LEMMA ResumeWithin ==
    ASSUME NEW n \in Int
    PROVE  /\ ResumeFrom(n) \in 0 .. Size
           /\ n \in 0 .. Size => ResumeFrom(n) = n
           /\ n <= Size => n <= ResumeFrom(n)
           /\ \A d \in Nat : n <= d => ResumeFrom(n) <= d
<1>1. Min({n, Size}) = IF n <= Size THEN n ELSE Size
  BY Sizes, MinOfTwo
<1>2. Min({n, Size}) \in Int
  BY <1>1, Sizes
<1>3. ResumeFrom(n) = IF 0 <= Min({n, Size}) THEN Min({n, Size}) ELSE 0
  BY <1>2, MaxOfTwo DEF ResumeFrom
<1>4. QED BY <1>1, <1>3, Sizes

(* What PutInt stores is an int, and never more than what it was given.    *)
LEMMA PutIntBelow ==
    ASSUME NEW n \in Int, n >= -(IntMax + 1)
    PROVE  PutInt(n) \in -(IntMax + 1) .. IntMax /\ PutInt(n) <= n
<1> DEFINE x == n + IntMax + 1
           k == 2 * IntMax + 2
<1>1. x \in Nat /\ k \in Nat \ {0}
  BY Sizes
<1>2. x % k \in 0 .. k - 1 /\ x % k <= x
  <2> HIDE DEF x, k
  <2>1. QED BY <1>1
<1>3. QED BY <1>2, Sizes DEF PutInt

(* A count that comes to all of the package in per cent is all of it.      *)
LEMMA WholeInPerCent ==
    ASSUME NEW n \in Int, (n * 100) \div Size = 100 PROVE n >= Size
<1>1. \A k \in Nat \ {0} : (n * 100) \div k = 100 => n >= k
  OBVIOUS
<1>2. QED BY <1>1, Sizes

(* One turn of WriteFunc's loop takes at least one byte into the buffer.   *)
LEMMA FilledEffect ==
    ASSUME WorkerType, BufferFits, worker.st = "write"
    PROVE  \E n \in 1 .. Size :
             /\ n <= worker.left /\ n <= BufferRoom - worker.bufferPos
             /\ Filled \in WorkerRecord
             /\ Filled.bufferPos >= 1
             /\ Filled.bufferPos = worker.bufferPos + n
             /\ Filled.off = worker.off + n
             /\ Filled.downloadedSize = worker.downloadedSize + n
             /\ Filled.left = worker.left - n
             /\ Filled.st = IF worker.left = n THEN "get" ELSE "write"
             /\ Filled.exit = worker.exit /\ Filled.again = worker.again /\ Filled.end = worker.end
             /\ worker.left = n \/ Filled.bufferPos = BufferRoom
<1> DEFINE n == Min({BufferRoom - worker.bufferPos, worker.left})
<1>1. worker \in WorkerRecord
  BY DEF WorkerType
<1>2. n = IF BufferRoom - worker.bufferPos <= worker.left THEN BufferRoom - worker.bufferPos ELSE worker.left
  BY <1>1, Sizes, MinOfTwo DEF WorkerRecord
<1>3. n \in 1 .. Size /\ n <= worker.left /\ n <= BufferRoom - worker.bufferPos
      /\ (worker.left = n \/ n = BufferRoom - worker.bufferPos)
  BY <1>1, <1>2, Sizes DEF BufferFits, WorkerRecord
<1>4. Filled = [worker EXCEPT !.bufferPos = @ + n, !.left = @ - n, !.off = @ + n, !.downloadedSize = @ + n,
                              !.st = IF worker.left = n THEN "get" ELSE "write"]
  BY DEF Filled
<1> HIDE DEF n
<1>5. /\ Filled.bufferPos = worker.bufferPos + n /\ Filled.off = worker.off + n
      /\ Filled.downloadedSize = worker.downloadedSize + n /\ Filled.left = worker.left - n
      /\ Filled.st = IF worker.left = n THEN "get" ELSE "write"
      /\ Filled.exit = worker.exit /\ Filled.again = worker.again /\ Filled.end = worker.end
  BY <1>1, <1>4 DEF WorkerRecord
<1>6. Filled \in WorkerRecord
  <2>1. /\ worker.off + n \in 0 .. Size /\ worker.bufferPos + n \in 0 .. BufferRoom
        /\ worker.left - n \in 0 .. Size /\ worker.downloadedSize + n \in Int
        /\ (IF worker.left = n THEN "get" ELSE "write") \in {"get", "write"}
    BY <1>1, <1>3, Sizes DEF BufferFits, WorkerRecord
  <2> DEFINE f == [worker EXCEPT !.bufferPos = @ + n, !.left = @ - n, !.off = @ + n, !.downloadedSize = @ + n,
                                 !.st = IF worker.left = n THEN "get" ELSE "write"]
  <2>2. f \in WorkerRecord
    BY <1>1, <2>1 DEF WorkerRecord
  <2>3. QED BY <1>4, <2>2
<1>7. (worker.left = n \/ Filled.bufferPos = BufferRoom) /\ Filled.bufferPos >= 1
  BY <1>1, <1>3, <1>5, Sizes DEF WorkerRecord
<1>8. QED BY <1>3, <1>5, <1>6, <1>7

(* The values the records start from.                                      *)
LEMMA FreshRecords ==
    /\ Idle \in MainRecord /\ Idle.pc = "idle" /\ Idle.order = "INSTALL" /\ Idle.asked = "INSTALL"
    /\ Idle.retry = 0 /\ Idle.ok = FALSE /\ Idle.recordPoint = 0 /\ Idle.taskProgress = "INIT"
    /\ NoWorker \in WorkerRecord /\ NoWorker.st = "none" /\ NoWorker.off = 0 /\ NoWorker.bufferPos = 0
    /\ NoWorker.exit = FALSE /\ NoWorker.again = FALSE /\ NoWorker.end = "INIT"
    /\ NoReport \in ReportRecord /\ NoReport.len = -1 /\ NoReport.late = FALSE /\ NoReport.status = "INIT"
    /\ Closed \in InstRecord /\ Closed.up = FALSE /\ Closed.heard = FALSE /\ Closed.next = 0
    /\ Closed.queue = <<>> /\ Closed.dealt = 0
<1> USE Sizes
<1>1. /\ Idle \in MainRecord /\ Idle.pc = "idle" /\ Idle.order = "INSTALL" /\ Idle.asked = "INSTALL"
      /\ Idle.retry = 0 /\ Idle.ok = FALSE /\ Idle.recordPoint = 0 /\ Idle.taskProgress = "INIT"
  BY DEF Idle, MainRecord, Steps, Orders, Results
<1>2. /\ NoWorker \in WorkerRecord /\ NoWorker.st = "none" /\ NoWorker.off = 0 /\ NoWorker.bufferPos = 0
      /\ NoWorker.exit = FALSE /\ NoWorker.again = FALSE /\ NoWorker.end = "INIT"
  BY DEF NoWorker, WorkerRecord
<1>3. /\ NoReport \in ReportRecord /\ NoReport.len = -1 /\ NoReport.late = FALSE /\ NoReport.status = "INIT"
  BY DEF NoReport, ReportRecord
<1>4. /\ Closed \in InstRecord /\ Closed.up = FALSE /\ Closed.heard = FALSE /\ Closed.next = 0
      /\ Closed.queue = <<>> /\ Closed.dealt = 0
  BY DEF Closed, InstRecord
<1>5. QED BY <1>1, <1>2, <1>3, <1>4

(* The steps and the orders the flow takes, and the ends of the ranges.    *)
LEMMA Names ==
    /\ "idle" \in Steps /\ "mode" \in Steps /\ "write" \in Steps /\ "start" \in Steps /\ "session" \in Steps
    /\ "join" \in Steps /\ "wait" \in Steps /\ "failed" \in Steps /\ "result" \in Steps
    /\ "record" \in Steps /\ "next" \in Steps
    /\ "destroy" \in Steps /\ "apply" \in Steps /\ "rebooted" \in Steps /\ "down" \in Steps
    /\ Orders \subseteq Orders \cup {"RESTORED"} /\ "INSTALL_AND_APPLY" \in Orders
    /\ "RESTORED" \in Orders \cup {"RESTORED"}
    /\ 0 \in 0 .. MaxRetryCount /\ 0 < MaxRetryCount /\ 0 \in Int /\ 0 >= -(IntMax + 1)
    /\ 0 \in 0 .. Size /\ 0 \in 0 .. BufferRoom
BY Sizes DEF Steps, Orders

(* The installer takes the next n bytes from the head of its queue: the    *)
(* rest of a block stays, the blocks behind it are untouched, and what it  *)
(* has dealt with only grows.                                              *)
LEMMA DealEffect ==
    ASSUME InstType, NEW n \in 1 .. BufferRoom, Deal(n)
    PROVE  /\ inst.queue # <<>> /\ inst.queue[1] \in Blocks /\ n <= inst.queue[1].len
           /\ inst.queue[1].start + inst.queue[1].len <= Size
           /\ inst' \in InstRecord
           /\ inst'.up = inst.up /\ inst'.heard = inst.heard /\ inst'.next = inst.next
           /\ inst'.dealt >= inst.dealt
           /\ inst.queue[1].start <= inst.dealt => inst'.dealt >= inst.queue[1].start + n
           /\ \/ /\ n = inst.queue[1].len /\ Len(inst'.queue) = Len(inst.queue) - 1
                 /\ \A i \in 1 .. Len(inst'.queue) : inst'.queue[i] = inst.queue[i + 1]
              \/ /\ n < inst.queue[1].len /\ Len(inst'.queue) = Len(inst.queue)
                 /\ inst'.queue[1].start = inst.queue[1].start + n
                 /\ inst'.queue[1].len = inst.queue[1].len - n
                 /\ \A i \in 2 .. Len(inst'.queue) : inst'.queue[i] = inst.queue[i]
<1> DEFINE q == inst.queue
           b == Head(q)
           rest == Block(b.start + b.len, b.len - n)
           q2 == IF n = b.len THEN Tail(q) ELSE <<rest>> \o Tail(q)
           d2 == IF b.start <= inst.dealt THEN Max({inst.dealt, b.start + n}) ELSE inst.dealt
<1>1. inst \in InstRecord /\ q \in Seq(Blocks) /\ q # <<>> /\ n <= b.len
      /\ inst.dealt \in 0 .. Size
  BY DEF InstType, InstRecord, Deal
<1>2. inst' = [inst EXCEPT !.queue = q2, !.dealt = d2]
  BY DEF Deal
<1>3. /\ b = q[1] /\ Tail(q) \in Seq(Blocks) /\ Len(Tail(q)) = Len(q) - 1 /\ Len(q) \in Nat /\ Len(q) >= 1
      /\ \A i \in 1 .. Len(q) - 1 : Tail(q)[i] = q[i + 1]
  <2> HIDE DEF q
  <2>1. QED BY <1>1
<1>4. b \in Blocks
  BY <1>1, <1>3
<1>5. b.start \in 0 .. Size /\ b.len \in 1 .. BufferRoom
  BY <1>4 DEF Blocks
<1>6. b.start + b.len <= Size
  BY <1>1, <1>3 DEF InstType
<1>7. /\ rest.start = b.start + n /\ rest.len = b.len - n
  BY <1>5, Sizes DEF Block
<1>8. n # b.len => rest \in Blocks
  <2>1. n # b.len => b.start + n \in 0 .. Size /\ b.len - n \in 1 .. BufferRoom
    <3> HIDE DEF b
    <3>1. QED BY <1>1, <1>5, <1>6, Sizes
  <2>2. rest = [start |-> (b.start + b.len) - (b.len - n), len |-> b.len - n]
    BY DEF Block
  <2>3. (b.start + b.len) - (b.len - n) = b.start + n
    BY <1>5, Sizes
  <2>4. QED BY <2>1, <2>2, <2>3 DEF Blocks
<1>9. d2 \in 0 .. Size /\ d2 >= inst.dealt /\ (b.start <= inst.dealt => d2 >= b.start + n)
  <2>1. b.start + n \in 0 .. Size
    BY <1>1, <1>5, <1>6, Sizes
  <2>2. Max({inst.dealt, b.start + n}) = IF inst.dealt <= b.start + n THEN b.start + n ELSE inst.dealt
    BY <1>1, <2>1, Sizes, MaxOfTwo
  <2>3. QED BY <1>1, <2>1, <2>2, Sizes
<1> HIDE DEF b, rest, d2, q
<1>10. /\ q2 \in Seq(Blocks)
       /\ \/ n = b.len /\ Len(q2) = Len(q) - 1 /\ \A i \in 1 .. Len(q2) : q2[i] = q[i + 1]
          \/ n < b.len /\ Len(q2) = Len(q) /\ q2[1] = rest /\ \A i \in 2 .. Len(q2) : q2[i] = q[i]
  <2>1. CASE n = b.len
    BY <1>3, <2>1
  <2>2. CASE n # b.len
    <3>1. rest \in Blocks /\ n < b.len
      BY <1>1, <1>5, <1>8, <2>2, Sizes
    <3> DEFINE t == Tail(q)
    <3>2. t \in Seq(Blocks) /\ Len(t) = Len(q) - 1 /\ \A i \in 1 .. Len(t) : t[i] = q[i + 1]
      BY <1>3
    <3>3. q2 = <<rest>> \o t
      BY <2>2
    <3> HIDE DEF t, q2
    <3>4. <<rest>> \o t \in Seq(Blocks) /\ Len(<<rest>> \o t) = Len(t) + 1 /\ (<<rest>> \o t)[1] = rest
      BY <3>1, <3>2
    <3>5. \A i \in 1 .. Len(t) : (<<rest>> \o t)[i + 1] = t[i]
      BY <3>1, <3>2
    <3>6. \A i \in 2 .. Len(q2) : q2[i] = q[i]
      <4> SUFFICES ASSUME NEW i \in 2 .. Len(q2) PROVE q2[i] = q[i]
        OBVIOUS
      <4>1. i - 1 \in 1 .. Len(t) /\ i = (i - 1) + 1
        BY <1>3, <3>2, <3>3, <3>4
      <4>2. QED BY <3>2, <3>3, <3>5, <4>1
    <3>7. q2 \in Seq(Blocks) /\ q2[1] = rest
      BY <3>3, <3>4
    <3>8. Len(q2) = Len(q)
      <4>1. Len(q2) = Len(t) + 1
        BY <3>3, <3>4
      <4>2. QED BY <1>3, <3>2, <4>1
    <3>9. QED BY <3>1, <3>6, <3>7, <3>8
  <2>3. QED BY <2>1, <2>2
<1> HIDE DEF q2
<1>11. inst' \in InstRecord /\ inst'.queue = q2 /\ inst'.dealt = d2
       /\ inst'.up = inst.up /\ inst'.heard = inst.heard /\ inst'.next = inst.next
  BY <1>1, <1>2, <1>9, <1>10 DEF InstRecord
<1>12. QED BY <1>1, <1>3, <1>4, <1>6, <1>7, <1>9, <1>10, <1>11 DEF q

(* The queue stays contiguous when the installer takes from its head, and  *)
(* the session's position moves by what it took.                           *)
LEMMA DealPosition ==
    ASSUME InstType, NEW n \in 1 .. BufferRoom, Deal(n), Contiguous(inst.queue, inst.next)
    PROVE  /\ Contiguous(inst.queue, inst.next)'
           /\ Position = inst.queue[1].start
           /\ Position' = inst.queue[1].start + n
<1> DEFINE q == inst.queue
           q2 == inst'.queue
           next == inst.next
<1>1. /\ q # <<>> /\ q[1] \in Blocks /\ inst'.next = next
      /\ \/ /\ n = q[1].len /\ Len(q2) = Len(q) - 1 /\ \A i \in 1 .. Len(q2) : q2[i] = q[i + 1]
         \/ /\ n < q[1].len /\ Len(q2) = Len(q)
            /\ q2[1].start = q[1].start + n /\ q2[1].len = q[1].len - n
            /\ \A i \in 2 .. Len(q2) : q2[i] = q[i]
  BY DealEffect
<1>2. q \in Seq(Blocks) /\ q2 \in Seq(Blocks) /\ next \in Int
  BY DealEffect DEF InstType, InstRecord
<1>3. /\ Len(q) \in Nat /\ Len(q2) \in Nat /\ Len(q) >= 1
      /\ q2 # <<>> <=> Len(q2) >= 1
      /\ \A i \in 1 .. Len(q) : q[i] \in Blocks
      /\ \A i \in 1 .. Len(q2) : q2[i] \in Blocks
  <2> HIDE DEF q, q2
  <2>1. QED BY <1>1, <1>2
<1>4. \A k \in Blocks : k.start \in Int /\ k.len \in Int
  BY Sizes DEF Blocks
<1>5. (\A i \in 1 .. Len(q) - 1 : q[i + 1].start = q[i].start + q[i].len)
      /\ q[Len(q)].start + q[Len(q)].len = next
  BY <1>1 DEF Contiguous
<1> HIDE DEF q, q2, next
<1>6. CASE n = q[1].len /\ Len(q2) = Len(q) - 1 /\ \A i \in 1 .. Len(q2) : q2[i] = q[i + 1]
  <2>1. \A i \in 1 .. Len(q2) - 1 : q2[i + 1].start = q2[i].start + q2[i].len
    BY <1>3, <1>5, <1>6
  <2>2. q2 # <<>> => q2[Len(q2)].start + q2[Len(q2)].len = next
    BY <1>3, <1>5, <1>6
  <2>3. q2 # <<>> => q2[1].start = q[1].start + n
    BY <1>3, <1>5, <1>6
  <2>4. q2 = <<>> => next = q[1].start + n
    BY <1>3, <1>5, <1>6
  <2>5. QED BY <1>1, <2>1, <2>2, <2>3, <2>4 DEF Contiguous, Position, q, q2, next
<1>7. CASE /\ n < q[1].len /\ Len(q2) = Len(q)
           /\ q2[1].start = q[1].start + n /\ q2[1].len = q[1].len - n
           /\ \A i \in 2 .. Len(q2) : q2[i] = q[i]
  <2>1. q2[1].start + q2[1].len = q[1].start + q[1].len
    BY <1>3, <1>4, <1>7, Sizes
  <2>2. \A i \in 1 .. Len(q2) : q2[i].start + q2[i].len = q[i].start + q[i].len
    BY <1>3, <1>7, <2>1
  <2>3. \A i \in 1 .. Len(q2) - 1 : q2[i + 1].start = q2[i].start + q2[i].len
    BY <1>3, <1>5, <1>7, <2>2
  <2>4. q2[Len(q2)].start + q2[Len(q2)].len = next
    BY <1>3, <1>5, <1>7, <2>2
  <2>5. QED BY <1>1, <1>3, <1>7, <2>3, <2>4 DEF Contiguous, Position, q, q2, next
<1>8. QED BY <1>1, <1>6, <1>7

(* WriteFunc appends the unsent bytes of the buffer to the queue.          *)
LEMMA FlushEffect ==
    ASSUME InstType, WorkerType, BufferFits, worker.st = "write",
           NEW b, b = Block(Filled.off, Filled.bufferPos),
           inst' = [inst EXCEPT !.queue = Append(@, b), !.next = b.start + b.len]
    PROVE  /\ b \in Blocks /\ b.start = worker.off - worker.bufferPos /\ b.start + b.len = Filled.off
           /\ inst' \in InstRecord
           /\ inst'.up = inst.up /\ inst'.heard = inst.heard /\ inst'.dealt = inst.dealt
           /\ inst'.next = Filled.off
           /\ Len(inst'.queue) = Len(inst.queue) + 1
           /\ inst'.queue[Len(inst.queue) + 1] = b
           /\ \A i \in 1 .. Len(inst.queue) : inst'.queue[i] = inst.queue[i]
<1>1. PICK n \in 1 .. Size :
        /\ n <= worker.left /\ n <= BufferRoom - worker.bufferPos
        /\ Filled.bufferPos = worker.bufferPos + n /\ Filled.off = worker.off + n
        /\ Filled \in WorkerRecord /\ Filled.bufferPos >= 1
  BY FilledEffect
<1>2. /\ worker.off \in 0 .. Size /\ worker.bufferPos \in 0 .. BufferRoom /\ worker.bufferPos <= worker.off
      /\ Filled.off \in 0 .. Size /\ Filled.bufferPos \in 1 .. BufferRoom
  BY <1>1, Sizes DEF WorkerType, WorkerRecord, BufferFits
<1>3. b.start = Filled.off - Filled.bufferPos /\ b.len = Filled.bufferPos
  BY DEF Block
<1>4. /\ b.start \in 0 .. Size /\ b.len \in 1 .. BufferRoom
      /\ b.start = worker.off - worker.bufferPos /\ b.start + b.len = Filled.off
  BY <1>1, <1>2, <1>3, Sizes
<1>5. b \in Blocks
  <2>1. b = [start |-> b.start, len |-> b.len]
    BY DEF Block
  <2>2. QED BY <1>4, <2>1 DEF Blocks
<1> DEFINE q == inst.queue
<1>6. inst \in InstRecord /\ q \in Seq(Blocks)
  BY DEF InstType, InstRecord
<1>7. /\ Append(q, b) \in Seq(Blocks) /\ Len(Append(q, b)) = Len(q) + 1 /\ Append(q, b)[Len(q) + 1] = b
      /\ \A i \in 1 .. Len(q) : Append(q, b)[i] = q[i]
  <2> HIDE DEF q
  <2>1. QED BY <1>5, <1>6
<1> DEFINE q2 == Append(q, b)
<1>8. inst' = [inst EXCEPT !.queue = q2, !.next = b.start + b.len] /\ q2 \in Seq(Blocks)
      /\ b.start + b.len \in 0 .. Size
  BY <1>2, <1>4, <1>7
<1> HIDE DEF q2
<1>9. inst' \in InstRecord /\ inst'.queue = q2 /\ inst'.next = b.start + b.len
      /\ inst'.up = inst.up /\ inst'.heard = inst.heard /\ inst'.dealt = inst.dealt
  BY <1>6, <1>8 DEF InstRecord
<1>10. QED BY <1>4, <1>5, <1>7, <1>9 DEF q2

(* A block that begins where the next byte is expected keeps the queue     *)
(* contiguous and the session's position.                                  *)
LEMMA FlushPosition ==
    ASSUME InstType, WorkerType, BufferFits, worker.st = "write",
           NEW b, b = Block(Filled.off, Filled.bufferPos),
           inst' = [inst EXCEPT !.queue = Append(@, b), !.next = b.start + b.len],
           Contiguous(inst.queue, inst.next), b.start = inst.next
    PROVE  Contiguous(inst.queue, inst.next)' /\ Position' = Position
<1> DEFINE q == inst.queue
           q2 == inst'.queue
<1>1. /\ b \in Blocks /\ inst'.next = b.start + b.len
      /\ Len(q2) = Len(q) + 1 /\ q2[Len(q) + 1] = b /\ \A i \in 1 .. Len(q) : q2[i] = q[i]
  BY FlushEffect
<1>2. q \in Seq(Blocks) /\ q2 \in Seq(Blocks)
  BY FlushEffect DEF InstType, InstRecord
<1>3. (\A i \in 1 .. Len(q) - 1 : q[i + 1].start = q[i].start + q[i].len)
      /\ (q # <<>> => q[Len(q)].start + q[Len(q)].len = inst.next)
  BY DEF Contiguous
<1> HIDE DEF q, q2
<1>4. Len(q) \in Nat /\ (q # <<>> <=> Len(q) >= 1) /\ q2 # <<>>
  BY <1>1, <1>2
<1>5. \A i \in 1 .. Len(q2) - 1 : q2[i + 1].start = q2[i].start + q2[i].len
  <2> SUFFICES ASSUME NEW i \in 1 .. Len(q2) - 1 PROVE q2[i + 1].start = q2[i].start + q2[i].len
    OBVIOUS
  <2>1. CASE i = Len(q)
    BY <1>1, <1>3, <1>4, <2>1
  <2>2. CASE i # Len(q)
    BY <1>1, <1>3, <1>4, <2>2
  <2>3. QED BY <2>1, <2>2
<1>6. q2[Len(q2)].start + q2[Len(q2)].len = inst'.next
  BY <1>1, <1>4
<1>7. (q # <<>> => q2[1] = q[1]) /\ (q = <<>> => q2[1].start = inst.next)
  BY <1>1, <1>4
<1>8. QED BY <1>4, <1>5, <1>6, <1>7 DEF Contiguous, Position, q, q2

-----------------------------------------------------------------------------
(* What each action does, field by field, and what it keeps                *)

(* A call that CanInstall accepts starts a flow.                           *)
LEMMA DoInstallEffect ==
    ASSUME StreamTypes, NEW order \in Asked, DoInstall(order)
    PROVE  /\ main.pc = "idle" /\ task \notin {"none", "INSTALLING"}
           /\ main'.pc = "mode" /\ main'.order = order /\ main'.asked = order /\ main'.ok = FALSE
           /\ main'.recordPoint = 0 /\ main'.taskProgress = "INIT"
           /\ UNCHANGED <<task, point, dl, sys, worker, inst, report, seen>>
BY FreshRecords DEF StreamTypes, MainType, MainRecord, DoInstall, CanInstall

(* An order to apply goes on to the reboot; any other needs                *)
(* IsAllowInstall.                                                         *)
LEMMA GetStepAfterInitEffect ==
    ASSUME StreamTypes, GetStepAfterInit
    PROVE  /\ main.pc = "mode"
           /\ main'.pc \in {"write", "idle", "apply"} /\ (main'.pc = "apply" => main.order = "APPLY")
           /\ UNCHANGED <<main.order, main.asked, main.ok, main.recordPoint, main.taskProgress>>
           /\ UNCHANGED <<task, point, dl, sys, worker, inst, report, seen>>
BY FreshRecords DEF StreamTypes, MainType, MainRecord, GetStepAfterInit, Step

(* The executor records the install as under way.                          *)
LEMMA WriteInstallingEffect ==
    ASSUME StreamTypes, WriteInstalling
    PROVE  /\ main.pc = "write" /\ main'.pc = "start"
           /\ UNCHANGED <<main.order, main.asked, main.ok, main.recordPoint, main.taskProgress>>
           /\ main.taskProgress = "INIT"
           /\ task' = "INSTALLING" /\ seen' = seen \ {"interrupted", "unrecorded"}
           /\ UNCHANGED <<point, dl, sys, worker, inst, report>>
BY FreshRecords DEF StreamTypes, MainType, MainRecord, WriteInstalling

(* An attempt begins without a session and reads the record point of the   *)
(* row.                                                                    *)
LEMMA DoSysInstallEffect ==
    ASSUME StreamTypes, DoSysInstall
    PROVE  /\ main.pc = "start" /\ main'.pc = "session" /\ main'.recordPoint = point
           /\ UNCHANGED <<main.order, main.asked, main.ok, main.taskProgress>>
           /\ inst'.up = FALSE /\ inst'.next = 0 /\ inst'.queue = <<>>
           /\ UNCHANGED <<inst.heard, inst.dealt>>
           /\ dl' = "INIT" /\ sys' = "INIT"
           /\ UNCHANGED <<task, point, worker, report, seen>>
BY FreshRecords DEF StreamTypes, MainType, MainRecord, InstType, InstRecord, DoSysInstall, StreamStopped

(* A session opens at the record point, or the attempt fails.              *)
LEMMA StartStreamUpdateEffect ==
    ASSUME StreamTypes, StartStreamUpdate
    PROVE  /\ main.pc = "session"
           /\ UNCHANGED <<main.order, main.asked, main.ok, main.taskProgress>>
           /\ UNCHANGED <<inst.queue, inst.dealt>>
           /\ UNCHANGED <<task, point, dl, sys, worker, report>>
           /\ \/ /\ main'.pc = "join" /\ main'.recordPoint = main.recordPoint /\ inst'.up = TRUE
                 /\ inst'.heard = TRUE
                 /\ inst'.next = ResumeFrom(main.recordPoint)
                 /\ seen' = (IF Running THEN seen \cup {"mixed"} ELSE seen)
              \/ main'.pc = "failed" /\ main'.recordPoint = 0 /\ UNCHANGED <<inst, seen>>
BY FreshRecords DEF StreamTypes, MainType, MainRecord, InstType, InstRecord, StartStreamUpdate, Step, FrameGone

(* The thread of the last attempt is gone; the new one has the record      *)
(* point.                                                                  *)
LEMMA StartDownloadEffect ==
    ASSUME StreamTypes, StartDownload
    PROVE  /\ main.pc = "join" /\ main'.pc = "wait"
           /\ UNCHANGED <<main.order, main.asked, main.ok, main.recordPoint, main.taskProgress>>
           /\ worker.st \in {"none", "ended"} /\ worker'.st = "lock" /\ worker'.downloadedSize = main.recordPoint
           /\ worker'.off = 0 /\ worker'.bufferPos = 0 /\ worker'.exit = FALSE /\ worker'.again = FALSE
           /\ worker'.end = "INIT"
           /\ UNCHANGED <<task, point, dl, sys, inst, report, seen>>
BY FreshRecords DEF StreamTypes, MainType, MainRecord, WorkerType, WorkerRecord, StartDownload, Step

(* A result ends the session; the thread is told to stop if it still runs. *)
LEMMA WaitInstallResultEffect ==
    ASSUME StreamTypes, WaitInstallResult
    PROVE  /\ main.pc = "wait"
           /\ main'.pc \in {"result", "failed"}
           /\ main'.ok = main.ok \/ sys = "INSTALL_SUCCESS"
           /\ main'.recordPoint = 0
           /\ UNCHANGED <<main.order, main.asked, main.taskProgress>>
           /\ UNCHANGED <<worker.st, worker.off, worker.downloadedSize, worker.bufferPos, worker.left,
                          worker.again, worker.end>>
           /\ worker'.exit = worker.exit \/ "interrupted" \in seen'
           /\ inst'.up = FALSE /\ inst'.next = 0 /\ inst'.queue = <<>>
           /\ UNCHANGED <<inst.heard, inst.dealt>>
           /\ report'.len = report.len /\ report'.status = report.status
           /\ (report = NoReport => report' = NoReport)
           /\ report # NoReport => report' # NoReport /\ report'.late = TRUE
           /\ seen' \in {seen, seen \cup {"interrupted"}}
           /\ UNCHANGED <<task, point, dl, sys>>
BY FreshRecords DEF StreamTypes, MainType, MainRecord, WorkerType, WorkerRecord, InstType, InstRecord,
    ReportType, ReportRecord, WaitInstallResult, StopBoth, FrameGone, StreamStopped

(* So does the end of the wait without a result.                           *)
LEMMA WaitTimesOutEffect ==
    ASSUME StreamTypes, WaitTimesOut
    PROVE  /\ main.pc = "wait"
           /\ main'.pc = "failed" /\ main'.ok = main.ok
           /\ main'.recordPoint = 0
           /\ UNCHANGED <<main.order, main.asked, main.taskProgress>>
           /\ UNCHANGED <<worker.st, worker.off, worker.downloadedSize, worker.bufferPos, worker.left,
                          worker.again, worker.end>>
           /\ worker'.exit = worker.exit \/ "interrupted" \in seen'
           /\ inst'.up = FALSE /\ inst'.next = 0 /\ inst'.queue = <<>>
           /\ UNCHANGED <<inst.heard, inst.dealt>>
           /\ report'.len = report.len /\ report'.status = report.status
           /\ (report = NoReport => report' = NoReport)
           /\ report # NoReport => report' # NoReport /\ report'.late = TRUE
           /\ seen' \in {seen, seen \cup {"interrupted"}}
           /\ UNCHANGED <<task, point, dl, sys>>
BY FreshRecords DEF StreamTypes, MainType, MainRecord, WorkerType, WorkerRecord, InstType, InstRecord,
    ReportType, ReportRecord, WaitTimesOut, StopBoth, FrameGone, StreamStopped

(* A failed attempt is followed by another one or by the result.           *)
LEMMA InstallComponentWithRetryEffect ==
    ASSUME StreamTypes, InstallComponentWithRetry
    PROVE  /\ main.pc = "failed" /\ main'.pc \in {"start", "result"}
           /\ UNCHANGED <<main.order, main.asked, main.ok, main.recordPoint, main.taskProgress>>
           /\ UNCHANGED <<task, point, dl, sys, worker, inst, report, seen>>
BY FreshRecords DEF StreamTypes, MainType, MainRecord, InstallComponentWithRetry

(* The result: a success is one of the installer object, a pause has a     *)
(* reason.                                                                 *)
LEMMA HandleInstallResultEffect ==
    ASSUME StreamTypes, HandleInstallResult
    PROVE  /\ main.pc = "result" /\ main'.pc = "record"
           /\ UNCHANGED <<main.order, main.asked, main.ok, main.recordPoint>>
           /\ main'.taskProgress \in Results
           /\ main'.taskProgress = "INSTALL_SUCCESS" => main.ok
           /\ main'.taskProgress = "INSTALL_PAUSE" => sys = "INSTALL_FAIL" \/ dl = "DOWNLOAD_CANCEL"
           /\ UNCHANGED <<task, point, dl, sys, worker, inst, report, seen>>
BY FreshRecords DEF StreamTypes, MainType, MainRecord, HandleInstallResult, Results

(* The row gets taskProgress_.                                             *)
LEMMA UpdateProgressByTaskIdEffect ==
    ASSUME StreamTypes, UpdateProgressByTaskId
    PROVE  /\ main.pc = "record" /\ main'.pc = "next" /\ task' = main.taskProgress
           /\ task' \in {"INSTALLING", "INSTALL_SUCCESS", "INSTALL_PAUSE", "INSTALL_FAIL"}
           /\ UNCHANGED <<main.order, main.asked, main.ok, main.recordPoint, main.taskProgress>>
           /\ UNCHANGED <<point, dl, sys, worker, inst, report, seen>>
BY DEF StreamTypes, MainType, MainRecord, UpdateProgressByTaskId, Step, Results

(* A failed install clears the rows.                                       *)
LEMMA GetStepAfterInstallEffect ==
    ASSUME StreamTypes, GetStepAfterInstall
    PROVE  /\ main.pc = "next" /\ main'.pc = "destroy"
           /\ UNCHANGED <<main.order, main.asked, main.ok, main.recordPoint, main.taskProgress>>
           /\ \/ task = "INSTALL_FAIL" /\ task' = "none" /\ point' = 0
              \/ UNCHANGED <<task, point>>
           /\ UNCHANGED <<dl, sys, worker, inst, report, seen>>
BY FreshRecords DEF StreamTypes, MainType, MainRecord, GetStepAfterInstall, Step

(* Nothing of the installer object survives it.                            *)
LEMMA DestroyEffect ==
    ASSUME StreamTypes, Destroy
    PROVE  /\ main.pc = "destroy" /\ worker.st \in {"none", "ended"}
           /\ \/ /\ task = "INSTALL_SUCCESS" /\ main.order = "INSTALL_AND_APPLY" /\ main'.pc = "apply"
                 /\ main'.order = main.order
                 /\ main'.asked = main.asked /\ main'.ok = main.ok /\ main'.recordPoint = main.recordPoint
                 /\ main'.taskProgress = main.taskProgress
              \/ main' = Idle
           /\ worker' = NoWorker /\ dl' = "INIT" /\ sys' = "INIT" /\ report' = NoReport
           /\ inst'.heard = FALSE
           /\ UNCHANGED <<inst.up, inst.next, inst.queue, inst.dealt>>
           /\ UNCHANGED <<task, point, seen>>
BY FreshRecords DEF StreamTypes, MainType, MainRecord, WorkerType, WorkerRecord, InstType, InstRecord,
    ReportType, ReportRecord, Destroy, Applies

(* The device is restarted on an order to apply, or after a success.       *)
LEMMA DoRebootEffect ==
    ASSUME StreamTypes, DoReboot
    PROVE  /\ main.pc \in {"apply", "destroy"} /\ main'.pc = "rebooted"
           /\ main.pc = "destroy" => task = "INSTALL_SUCCESS" /\ main.order = "INSTALL_AND_APPLY"
           /\ UNCHANGED <<main.order, main.asked, main.ok, main.recordPoint, main.taskProgress>>
           /\ UNCHANGED <<task, point, dl, sys, worker, inst, report, seen>>
BY FreshRecords DEF StreamTypes, MainType, MainRecord, DoReboot, Step, Applies

(* An interrupted install is paused and taken up again.                    *)
LEMMA RestartEffect ==
    ASSUME StreamTypes, Restart
    PROVE  /\ main.pc = "down" /\ main'.recordPoint = 0 /\ main'.ok = FALSE /\ main'.taskProgress = "INIT"
           /\ \/ /\ task = "INSTALLING" /\ task' = "INSTALL_PAUSE" /\ main'.pc = "mode"
                 /\ main'.order = "INSTALL_AND_APPLY" /\ main'.asked = "RESTORED"
                 /\ seen' = seen \cup {"interrupted"}
              \/ /\ task # "INSTALLING" /\ main'.pc = "idle" /\ main'.order = "INSTALL" /\ main'.asked = "INSTALL"
                 /\ UNCHANGED <<task, seen>>
           /\ UNCHANGED <<point, dl, sys, worker, inst, report>>
<1>1. main.pc = "down" /\ UNCHANGED <<point, dl, sys, worker, inst, report>>
  BY DEF Restart
<1>2. CASE task = "INSTALLING"
  BY <1>1, <1>2, FreshRecords DEF Restart, MainRecord
<1>3. CASE task # "INSTALLING"
  BY <1>1, <1>3, FreshRecords DEF Restart
<1>4. QED BY <1>2, <1>3

(* The thread asks for the headers, or reports that it has no handle.      *)
LEMMA ExecuteThreadFuncEffect ==
    ASSUME StreamTypes, ExecuteThreadFunc
    PROVE  /\ worker.st = "lock" /\ main.pc \notin {"join", "destroy"}
           /\ UNCHANGED <<worker.off, worker.downloadedSize, worker.bufferPos, worker.left, worker.exit>>
           /\ \/ worker'.st = "head" /\ worker'.again = FALSE
              \/ worker'.st = "report" /\ worker'.again = TRUE /\ worker'.end = "DOWNLOAD_FAIL"
           /\ UNCHANGED <<task, point, main, dl, sys, inst, report, seen>>
<1>1. /\ worker \in WorkerRecord /\ worker.st = "lock" /\ main.pc \notin {"join", "destroy"}
      /\ UNCHANGED <<task, point, main, dl, sys, inst, report, seen>>
  BY DEF StreamTypes, WorkerType, ExecuteThreadFunc, Work, Joining
<1>2. CASE worker' = [worker EXCEPT !.st = "head", !.wake = FALSE, !.again = FALSE]
  BY <1>1, <1>2 DEF WorkerRecord
<1>3. CASE worker' = [Ends("DOWNLOAD_FAIL") EXCEPT !.wake = FALSE, !.again = TRUE]
  BY <1>1, <1>3 DEF WorkerRecord, Ends
<1>4. QED BY <1>2, <1>3 DEF ExecuteThreadFunc, Work

(* The transfer begins at the resume point, or the thread reports a        *)
(* failure.                                                                *)
LEMMA CheckFileSizeEffect ==
    ASSUME StreamTypes, CheckFileSize
    PROVE  /\ worker.st = "head"
           /\ UNCHANGED <<worker.downloadedSize, worker.bufferPos, worker.left, worker.exit, worker.again>>
           /\ \/ worker'.st = "get" /\ worker'.off = ResumeFrom(worker.downloadedSize)
              \/ worker'.st = "report" /\ worker'.off = worker.off /\ worker'.end = "DOWNLOAD_FAIL"
           /\ UNCHANGED <<task, point, main, dl, sys, inst, report, seen>>
BY FreshRecords DEF StreamTypes, WorkerType, WorkerRecord, CheckFileSize, Work, Ends

(* A chunk is handed to WriteFunc.                                         *)
LEMMA ReceiveEffect ==
    ASSUME StreamTypes, NEW n \in 1 .. Size, Receive(n)
    PROVE  /\ worker.st = "get" /\ worker'.st = "write" /\ worker'.left = n /\ worker.off + n <= Size
           /\ UNCHANGED <<worker.off, worker.downloadedSize, worker.bufferPos, worker.exit, worker.again,
                          worker.end>>
           /\ UNCHANGED <<task, point, main, dl, sys, inst, report, seen>>
BY FreshRecords DEF StreamTypes, WorkerType, WorkerRecord, Receive, Work

(* The transfer ends complete, broken or stopped.                          *)
LEMMA DownloadFileEffect ==
    ASSUME StreamTypes, DownloadFile \/ DownloadProgress
    PROVE  /\ worker.st = "get" /\ worker'.st = "report"
           /\ UNCHANGED <<worker.off, worker.downloadedSize, worker.bufferPos, worker.left, worker.exit,
                          worker.again>>
           /\ \/ worker.off = Size /\ worker'.end = "DOWNLOAD_SUCCESS" /\ UNCHANGED seen
              \/ worker'.end = "DOWNLOAD_CANCEL" /\ seen' = seen \cup {"interrupted"}
              \/ worker'.end = "DOWNLOAD_CANCEL" /\ worker.exit /\ UNCHANGED seen
           /\ UNCHANGED <<task, point, main, dl, sys, inst, report>>
BY FreshRecords DEF StreamTypes, WorkerType, WorkerRecord, DownloadFile, DownloadProgress, Work, Ends

(* The length of the answer is known.                                      *)
LEMMA HeadersComeEffect ==
    ASSUME StreamTypes, HeadersCome
    PROVE  /\ UNCHANGED <<worker.st, worker.off, worker.downloadedSize, worker.bufferPos, worker.left,
                          worker.exit, worker.again, worker.end>>
           /\ UNCHANGED <<task, point, main, dl, sys, inst, report, seen>>
BY DEF StreamTypes, WorkerType, WorkerRecord, HeadersCome, Work

(* The thread tells its status, and loops or ends.                         *)
LEMMA DownloadCallbackEffect ==
    ASSUME StreamTypes, DownloadCallback
    PROVE  /\ worker.st = "report" /\ dl' = worker.end
           /\ \/ /\ worker.again /\ worker'.st = "lock"
                 /\ UNCHANGED <<worker.off, worker.downloadedSize, worker.bufferPos>>
                 /\ UNCHANGED <<worker.left, worker.exit, worker.again, worker.end>>
              \/ /\ ~worker.again /\ worker'.st = "ended" /\ worker'.off = 0 /\ worker'.bufferPos = 0
                 /\ worker'.exit = FALSE /\ worker'.again = FALSE /\ worker'.end = "INIT"
           /\ UNCHANGED <<task, point, main, sys, inst, report, seen>>
BY FreshRecords DEF StreamTypes, WorkerType, WorkerRecord, DownloadCallback, Work

(* The installer closes the session and reports its failure.               *)
LEMMA InstallerFailsEffect ==
    ASSUME StreamTypes, InstallerFails
    PROVE  /\ inst.up /\ inst.heard /\ report = NoReport
           /\ inst'.up = FALSE /\ inst'.next = 0 /\ inst'.queue = <<>>
           /\ UNCHANGED <<inst.heard, inst.dealt>>
           /\ report'.len = 0 /\ report'.status = "INSTALL_FAIL" /\ report'.late = FALSE
           /\ seen' = seen \cup {"interrupted"}
           /\ UNCHANGED <<task, point, main, dl, sys, worker>>
BY FreshRecords DEF StreamTypes, InstType, InstRecord, ReportType, ReportRecord, InstallerFails, StreamStopped

(* A report moves the record point and the row.                            *)
LEMMA InstallerCallbackEffect ==
    ASSUME StreamTypes, InstallerCallback
    PROVE  /\ report # NoReport /\ report.late = FALSE /\ report' = NoReport
           /\ main'.recordPoint = main.recordPoint + report.len
           /\ UNCHANGED <<main.pc, main.order, main.asked, main.ok, main.taskProgress>>
           /\ point' = PutInt(main.recordPoint + report.len)
           /\ sys' = (IF ((main.recordPoint + report.len) * 100) \div Size = 100
                      THEN "INSTALL_SUCCESS" ELSE report.status)
           /\ seen' = (IF point' = main.recordPoint + report.len THEN seen ELSE seen \cup {"wrapped"})
           /\ UNCHANGED <<task, dl, worker, inst>>
BY FreshRecords DEF StreamTypes, MainType, MainRecord, ReportType, ReportRecord, InstallerCallback, CountReport

(* A late report changes the status, and may reach into another attempt or *)
(* take the result away.                                                   *)
LEMMA LateCallbackEffect ==
    ASSUME StreamTypes, LateCallback
    PROVE  /\ report # NoReport /\ report.late = TRUE /\ report' = NoReport
           /\ UNCHANGED <<main.pc, main.order, main.asked, main.ok>>
           /\ \/ /\ main.pc \in {"session", "join", "wait"} /\ seen' = seen \cup {"mixed"}
                 /\ point' = PutInt(main.recordPoint + report.len)
                 /\ main'.taskProgress = main.taskProgress
                 /\ sys' \in {report.status, "INSTALL_SUCCESS"}
              \/ /\ seen' \in {seen, seen \cup {"unrecorded"}} /\ UNCHANGED <<main.recordPoint, point>>
                 /\ main'.taskProgress \in {main.taskProgress, "INSTALLING"}
                 /\ sys' = report.status \/ (sys' = "INSTALL_SUCCESS" /\ inst.dealt = Size)
           /\ UNCHANGED <<task, dl, worker, inst>>
<1>1. CASE FrameLives /\ main'.recordPoint = main.recordPoint + report.len /\ seen' = seen \cup {"mixed"}
  BY <1>1, FreshRecords DEF StreamTypes, MainType, MainRecord, ReportType, ReportRecord, LateCallback, FrameLives
<1>2. CASE ~(FrameLives /\ main'.recordPoint = main.recordPoint + report.len /\ seen' = seen \cup {"mixed"})
  BY <1>2, FreshRecords DEF StreamTypes, MainType, MainRecord, ReportType, ReportRecord, LateCallback, FrameLives
<1>3. QED BY <1>1, <1>2

(* The rows and what the installer has dealt with survive the service.     *)
LEMMA CrashEffect ==
    ASSUME StreamTypes, Crash
    PROVE  /\ main.pc \notin {"down", "rebooted"}
           /\ main'.pc = "down" /\ main'.order = "INSTALL" /\ main'.asked = "INSTALL"
           /\ main'.ok = FALSE /\ main'.recordPoint = 0 /\ main'.taskProgress = "INIT"
           /\ dl' = "INIT" /\ sys' = "INIT" /\ worker' = NoWorker /\ report' = NoReport
           /\ inst'.heard = FALSE
           /\ UNCHANGED <<inst.up, inst.next, inst.queue, inst.dealt>>
           /\ UNCHANGED <<task, point, seen>>
BY FreshRecords DEF StreamTypes, MainType, MainRecord, WorkerType, WorkerRecord, InstType, InstRecord,
    ReportType, ReportRecord, Crash

(* WriteFunc hands its buffer over, is refused, or only fills its buffer.   *)
LEMMA WriteFuncEffect ==
    ASSUME StreamTypes, BufferFits, WriteFunc
    PROVE  /\ worker.st = "write"
           /\ UNCHANGED <<worker.exit, worker.again>>
           /\ UNCHANGED <<task, point, main, dl, sys, report>>
           /\ \/ /\ inst.up /\ InstType'
                 /\ UNCHANGED <<inst.up, inst.heard, inst.dealt>> /\ inst'.next = worker'.off
                 /\ worker.off - worker.bufferPos = inst.next /\ Contiguous(inst.queue, inst.next)
                      => Contiguous(inst.queue, inst.next)' /\ Position' = Position
                 /\ seen' = (IF worker.off - worker.bufferPos = inst.next \/ "mixed" \in seen
                             THEN seen ELSE seen \cup {"misfed"})
                 /\ worker'.st \in {"get", "write"} /\ worker'.bufferPos = 0
                 /\ worker'.downloadedSize - worker'.off = worker.downloadedSize - worker.off
                 /\ worker'.st = "write" => worker'.left >= 1 /\ worker'.off + worker'.left <= Size
              \/ /\ worker'.st = "report" /\ worker'.end = "DOWNLOAD_CANCEL"
                 /\ UNCHANGED <<worker.off, worker.bufferPos>>
                 /\ seen' = seen \cup {"interrupted"} /\ UNCHANGED inst
              \/ /\ UNCHANGED <<inst, seen>>
                 /\ worker'.st = "get" /\ worker'.bufferPos < BufferRoom
                 /\ worker'.off - worker'.bufferPos = worker.off - worker.bufferPos
                 /\ worker'.downloadedSize - worker'.off = worker.downloadedSize - worker.off
                 /\ worker'.downloadedSize # Size
<1> DEFINE b == Block(Filled.off, Filled.bufferPos)
<1>1. /\ worker \in WorkerRecord /\ WorkerType /\ InstType /\ worker.st = "write"
      /\ UNCHANGED <<task, point, main, dl, sys, report>>
  BY DEF StreamTypes, WorkerType, WriteFunc, Work
<1>2. PICK n \in 1 .. Size :
        /\ n <= worker.left /\ n <= BufferRoom - worker.bufferPos
        /\ Filled \in WorkerRecord /\ Filled.bufferPos >= 1
        /\ Filled.bufferPos = worker.bufferPos + n
        /\ Filled.off = worker.off + n
        /\ Filled.downloadedSize = worker.downloadedSize + n
        /\ Filled.left = worker.left - n
        /\ Filled.st = IF worker.left = n THEN "get" ELSE "write"
        /\ Filled.exit = worker.exit /\ Filled.again = worker.again /\ Filled.end = worker.end
        /\ worker.left = n \/ Filled.bufferPos = BufferRoom
  BY <1>1, FilledEffect
<1>3. /\ worker.off \in 0 .. Size /\ worker.left \in 0 .. Size /\ worker.bufferPos \in 0 .. BufferRoom
      /\ worker.downloadedSize \in Int /\ worker.off + worker.left <= Size
  BY <1>1 DEF WorkerRecord, BufferFits
<1>4. /\ Filled.downloadedSize - Filled.off = worker.downloadedSize - worker.off
      /\ Filled.off - Filled.bufferPos = worker.off - worker.bufferPos
      /\ Filled.st \in {"get", "write"}
      /\ Filled.st = "write" => Filled.left >= 1 /\ Filled.off + Filled.left <= Size
  BY <1>2, <1>3, Sizes
<1>5. CASE /\ inst.up /\ inst' = [inst EXCEPT !.queue = Append(@, b), !.next = b.start + b.len]
           /\ seen' = IF b.start = inst.next \/ "mixed" \in seen THEN seen ELSE seen \cup {"misfed"}
           /\ worker' = [Filled EXCEPT !.bufferPos = 0]
  <2>1. /\ worker'.bufferPos = 0
        /\ UNCHANGED <<worker.exit, worker.again>>
        /\ worker'.off = Filled.off /\ worker'.downloadedSize = Filled.downloadedSize
        /\ worker'.st = Filled.st /\ worker'.left = Filled.left
    BY <1>2, <1>5 DEF WorkerRecord
  <2>2. /\ b.start = worker.off - worker.bufferPos /\ inst'.next = Filled.off /\ b.start + b.len = Filled.off
        /\ UNCHANGED <<inst.up, inst.heard, inst.dealt>> /\ inst' \in InstRecord /\ b \in Blocks
        /\ Len(inst'.queue) = Len(inst.queue) + 1
        /\ inst'.queue[Len(inst.queue) + 1] = b
        /\ \A i \in 1 .. Len(inst.queue) : inst'.queue[i] = inst.queue[i]
    BY <1>1, <1>5, FlushEffect
  <2>3. b.start = inst.next /\ Contiguous(inst.queue, inst.next)
          => Contiguous(inst.queue, inst.next)' /\ Position' = Position
    BY <1>1, <1>5, FlushPosition
  <2> HIDE DEF b
  <2>4. b.start + b.len <= Size
    BY <1>2, <1>3, <2>2, Sizes
  <2>5. Len(inst.queue) \in Nat
    BY <1>1 DEF InstType, InstRecord
  <2>6. InstType'
    BY <1>1, <2>2, <2>4, <2>5 DEF InstType
  <2>7. QED BY <1>1, <1>4, <1>5, <2>1, <2>2, <2>3, <2>6
<1>6. CASE worker' = Ends("DOWNLOAD_CANCEL") /\ seen' = seen \cup {"interrupted"} /\ UNCHANGED inst
  BY <1>1, <1>6 DEF Ends, WorkerRecord
<1>7. CASE ~MustFlush(Filled) /\ worker' = Filled /\ UNCHANGED <<inst, seen>>
  <2>1. worker'.bufferPos # BufferRoom /\ worker'.downloadedSize # Size
    BY <1>7 DEF MustFlush
  <2>2. worker'.st = "get" /\ worker'.bufferPos < BufferRoom
    BY <1>2, <1>3, <1>7, <2>1, Sizes
  <2>3. QED BY <1>1, <1>2, <1>4, <1>7, <2>1, <2>2
<1>8. QED BY <1>5, <1>6, <1>7 DEF WriteFunc, Work


(* The installer reports what it took, if it is heard, and says success    *)
(* only of the whole package.                                              *)
LEMMA DealReports ==
    ASSUME StreamTypes, NEW n \in 1 .. BufferRoom, Deal(n)
    PROVE  /\ inst.up /\ report = NoReport /\ InstType'
           /\ \/ ~inst.heard /\ report' = NoReport
              \/ /\ inst.heard /\ report' # NoReport /\ report'.len = n /\ report'.late = FALSE
                 /\ report'.status = "INSTALLING" \/ (report'.status = "INSTALL_SUCCESS" /\ inst'.dealt = Size)
           /\ seen' = (IF inst.queue[1].start <= inst.dealt \/ "mixed" \in seen THEN seen ELSE seen \cup {"gap"})
           /\ UNCHANGED <<task, point, main, dl, sys, worker>>
<1>1. InstType /\ inst \in InstRecord /\ inst.queue \in Seq(Blocks) /\ inst.queue # <<>>
  BY DEF StreamTypes, InstType, InstRecord, Deal
<1>2. Head(inst.queue) = inst.queue[1]
  <2> DEFINE q == inst.queue
  <2> HIDE DEF q
  <2>1. q \in Seq(Blocks) /\ q # <<>>
    BY <1>1 DEF q
  <2>2. Head(q) = q[1]
    BY <2>1
  <2>3. QED BY <2>2 DEF q
<1>3. InstType'
  <2>1. /\ inst' \in InstRecord
        /\ inst.queue[1] \in Blocks /\ n <= inst.queue[1].len
        /\ inst.queue[1].start + inst.queue[1].len <= Size
        /\ \/ /\ n = inst.queue[1].len /\ Len(inst'.queue) = Len(inst.queue) - 1
              /\ \A i \in 1 .. Len(inst'.queue) : inst'.queue[i] = inst.queue[i + 1]
           \/ /\ n < inst.queue[1].len /\ Len(inst'.queue) = Len(inst.queue)
              /\ inst'.queue[1].start = inst.queue[1].start + n
              /\ inst'.queue[1].len = inst.queue[1].len - n
              /\ \A i \in 2 .. Len(inst'.queue) : inst'.queue[i] = inst.queue[i]
    BY <1>1, DealEffect
  <2>2. /\ inst.queue[1].start \in Int /\ inst.queue[1].len \in Int
        /\ Len(inst.queue) \in Nat /\ Len(inst'.queue) \in Nat
    BY <1>1, <2>1 DEF Blocks, InstRecord
  <2>3. \A i \in 1 .. Len(inst.queue) : inst.queue[i].start + inst.queue[i].len <= Size
    BY <1>1 DEF InstType
  <2>4. \A i \in 1 .. Len(inst'.queue) : inst'.queue[i].start + inst'.queue[i].len <= Size
    <3>1. CASE n = inst.queue[1].len
      <4>1. \A i \in 1 .. Len(inst'.queue) : inst'.queue[i] = inst.queue[i + 1] /\ i + 1 \in 1 .. Len(inst.queue)
        BY <2>1, <2>2, <3>1
      <4>2. QED BY <2>3, <4>1
    <3>2. CASE n < inst.queue[1].len
      <4>1. inst'.queue[1].start + inst'.queue[1].len <= Size
        BY <2>1, <2>2, <3>2, Sizes
      <4>2. \A i \in 2 .. Len(inst'.queue) : inst'.queue[i] = inst.queue[i] /\ i \in 1 .. Len(inst.queue)
        BY <2>1, <2>2, <3>2
      <4>3. \A i \in 1 .. Len(inst'.queue) : i = 1 \/ i \in 2 .. Len(inst'.queue)
        BY <2>2
      <4>4. QED BY <2>3, <4>1, <4>2, <4>3
    <3>3. QED BY <2>1, <3>1, <3>2
  <2>5. QED BY <2>1, <2>4 DEF InstType
<1>4. /\ inst.up /\ report = NoReport /\ UNCHANGED <<task, point, main, dl, sys, worker>>
      /\ seen' = IF inst.queue[1].start <= inst.dealt \/ "mixed" \in seen THEN seen ELSE seen \cup {"gap"}
  BY <1>2 DEF Deal
<1>5. PICK s \in {"INSTALLING", "INSTALL_SUCCESS"} :
        /\ s = "INSTALL_SUCCESS" => inst'.dealt = Size
        /\ report' = IF inst.heard THEN [len |-> n, status |-> s, late |-> FALSE] ELSE NoReport
  BY DEF Deal
<1>6. \/ ~inst.heard /\ report' = NoReport
      \/ /\ inst.heard /\ report' # NoReport /\ report'.len = n /\ report'.late = FALSE
         /\ report'.status = "INSTALLING" \/ (report'.status = "INSTALL_SUCCESS" /\ inst'.dealt = Size)
  BY <1>5, FreshRecords
<1>7. QED BY <1>3, <1>4, <1>6


(* The position of a session depends on the queue and the next byte alone. *)
LEMMA PositionKept == ASSUME UNCHANGED <<inst.queue, inst.next>> PROVE Position' = Position
BY DEF Position

(* The bytes under way depend on the report alone.                         *)
LEMMA PendingKept ==
    ASSUME ReportType
    PROVE  /\ Pending \in Nat
           /\ report = NoReport \/ report.late => Pending = 0
           /\ report # NoReport /\ ~report.late => Pending = report.len
           /\ UNCHANGED report => Pending' = Pending
           /\ report' = NoReport \/ report'.late => Pending' = 0
           /\ report' # NoReport /\ ~report'.late => Pending' = report'.len
BY Sizes DEF Pending, ReportType, ReportRecord

(* What the sizes of a session are.                                        *)
LEMMA SessionNumbers ==
    ASSUME StreamTypes
    PROVE  /\ Position \in 0 .. Size /\ inst.next \in 0 .. Size /\ inst.dealt \in 0 .. Size
           /\ point \in Int /\ main.recordPoint \in Int /\ Pending \in Nat
<1>1. inst \in InstRecord /\ inst.next \in 0 .. Size /\ inst.dealt \in 0 .. Size
  BY DEF StreamTypes, InstType, InstRecord
<1>2. point \in Int /\ main.recordPoint \in Int /\ Pending \in Nat
  BY PendingKept, Sizes DEF StreamTypes, RowType, MainType, MainRecord
<1>3. CASE inst.queue = <<>>
  BY <1>1, <1>2, <1>3 DEF Position
<1>4. CASE inst.queue # <<>>
  <2> DEFINE q == inst.queue
  <2>1. q \in Seq(Blocks) /\ q # <<>>
    BY <1>1, <1>4 DEF InstRecord
  <2>2. q[1] \in Blocks
    <3> HIDE DEF q
    <3>1. QED BY <2>1
  <2>3. Position \in 0 .. Size
    BY <1>4, <2>2 DEF Position, Blocks
  <2>4. QED BY <1>1, <1>2, <2>3
<1>5. QED BY <1>3, <1>4


(* The flow keeps its record, and an attempt is one of MaxRetryCount.      *)
LEMMA MainStep ==
    ASSUME StreamIInv, Next PROVE MainType'
<1>1. MainType /\ ReportType /\ RowType
  BY DEF StreamIInv, StreamTypes
<1>2. CASE UNCHANGED main
  BY <1>1, <1>2 DEF MainType, MainRecord
<1>3. ASSUME NEW order \in Asked, DoInstall(order) PROVE MainType'
  <2>1. order \in Orders /\ order \in Orders \cup {"RESTORED"}
    BY Sizes
  <2>2. QED BY <1>1, <1>3, <2>1, FreshRecords, Names DEF DoInstall, MainType, MainRecord
<1>4. CASE GetStepAfterInit
  BY <1>1, <1>4, Names DEF GetStepAfterInit, Step, MainType, MainRecord
<1>5. CASE WriteInstalling
  BY <1>1, <1>5, Names DEF WriteInstalling, MainType, MainRecord
<1>6. CASE DoSysInstall
  <2>1. point \in Int /\ point >= -(IntMax + 1)
    BY <1>1, Sizes DEF RowType
  <2>2. QED BY <1>1, <1>6, <2>1, Names DEF DoSysInstall, MainType, MainRecord
<1>7. CASE StartStreamUpdate
  BY <1>1, <1>7, Names DEF StartStreamUpdate, Step, FrameGone, MainType, MainRecord
<1>8. CASE StartDownload
  BY <1>1, <1>8, FreshRecords, Names DEF StartDownload, Step, MainType, MainRecord
<1>9. CASE WaitInstallResult
  BY <1>1, <1>9, FreshRecords, Names DEF WaitInstallResult, StopBoth, FrameGone, StreamStopped, MainType,
      MainRecord
<1>10. CASE WaitTimesOut
  BY <1>1, <1>10, FreshRecords, Names DEF WaitTimesOut, StopBoth, FrameGone, StreamStopped, MainType, MainRecord
<1>11. CASE InstallComponentWithRetry
  <2>1. main.retry + 1 \in 0 .. MaxRetryCount
    BY <1>1, <1>11, Sizes DEF InstallComponentWithRetry, MainType, MainRecord
  <2>2. CASE dl = "DOWNLOAD_CANCEL"
    BY <1>1, <1>11, <2>2, Names DEF InstallComponentWithRetry, MainType, MainRecord
  <2>3. CASE dl # "DOWNLOAD_CANCEL" /\ main.retry + 1 < MaxRetryCount
    BY <1>1, <1>11, <2>1, <2>3, Names DEF InstallComponentWithRetry, MainType, MainRecord
  <2>4. CASE dl # "DOWNLOAD_CANCEL" /\ ~(main.retry + 1 < MaxRetryCount)
    BY <1>1, <1>11, <2>1, <2>4, Names DEF InstallComponentWithRetry, MainType, MainRecord
  <2>5. QED BY <2>2, <2>3, <2>4
<1>12. CASE HandleInstallResult
  <2>1. PICK result \in Results : main' = [main EXCEPT !.pc = "record", !.taskProgress = result]
    BY <1>12 DEF HandleInstallResult, Results
  <2>2. result \in {"INIT", "INSTALLING"} \cup Results /\ result # "INIT"
    BY DEF Results
  <2>3. QED BY <1>1, <2>1, <2>2, Names DEF MainType, MainRecord
<1>13. CASE GetStepAfterInstall
  BY <1>1, <1>13, Names DEF GetStepAfterInstall, Step, MainType, MainRecord
<1>14. CASE Destroy
  BY <1>1, <1>14, FreshRecords, Names DEF Destroy, Applies, MainType, MainRecord
<1>15. CASE DoReboot
  BY <1>1, <1>15, Names DEF DoReboot, Step, Applies, MainType, MainRecord
<1>16. CASE Restart
  <2>1. CASE task = "INSTALLING"
    BY <1>16, <2>1, Names, FreshRecords DEF Restart, MainType, MainRecord
  <2>2. CASE task # "INSTALLING"
    BY <1>16, <2>2, Names, FreshRecords DEF Restart, MainType, MainRecord
  <2>3. QED BY <2>1, <2>2
<1>17. CASE InstallerCallback
  <2>1. report.len \in Int /\ report.len >= 0
    BY <1>1, <1>17, Sizes DEF InstallerCallback, ReportType, ReportRecord
  <2>2. main.recordPoint + report.len \in Int /\ main.recordPoint + report.len >= -(IntMax + 1)
    BY <1>1, <2>1, Sizes DEF MainType, MainRecord
  <2>3. QED BY <1>1, <1>17, <2>2 DEF InstallerCallback, CountReport, MainType, MainRecord
<1>18. CASE LateCallback
  <2>1. report.len \in Int /\ report.len >= 0
    BY <1>1, <1>18, Sizes DEF LateCallback, ReportType, ReportRecord
  <2>2. main.recordPoint + report.len \in Int /\ main.recordPoint + report.len >= -(IntMax + 1)
    BY <1>1, <2>1, Sizes DEF MainType, MainRecord
  <2>3. QED BY <1>1, <1>18, <2>2 DEF LateCallback, MainType, MainRecord
<1>19. CASE Crash
  BY <1>1, <1>19, FreshRecords, Names DEF Crash, MainType, MainRecord
<1>20. CASE UpdateProgressByTaskId
  BY <1>1, <1>20, Names DEF UpdateProgressByTaskId, Step, MainType, MainRecord
<1>21. QED BY <1>2, <1>3, <1>4, <1>5, <1>6, <1>7, <1>8, <1>9, <1>10, <1>11, <1>12, <1>13, <1>14, <1>15, <1>16,
    <1>17, <1>18, <1>19, <1>20 DEF Next, Flow, Works, Transfer, HeadersCome, DownloadProgress, ExecuteThreadFunc,
    Work, Ends, Joining, WriteFunc,
    DownloadFile, DownloadCallback, Receive, CheckFileSize, Deal, Block, InstallerFails, StreamStopped

(* The worker keeps its record.                                            *)
LEMMA WorkerStep ==
    ASSUME StreamIInv, Next PROVE WorkerType'
<1>1. WorkerType /\ MainType /\ BufferFits
  BY DEF StreamIInv, StreamTypes
<1>2. CASE UNCHANGED worker
  BY <1>1, <1>2 DEF WorkerType, WorkerRecord
<1>3. CASE StartDownload
  <2>1. main.recordPoint \in Int
    BY <1>1 DEF MainType, MainRecord
  <2>2. QED BY <1>3, <2>1, FreshRecords DEF StartDownload, WorkerType, WorkerRecord
<1>4. CASE WaitInstallResult
  BY <1>1, <1>4, FreshRecords, Names DEF WaitInstallResult, StopBoth, FrameGone, StreamStopped, WorkerType,
      WorkerRecord
<1>5. CASE WaitTimesOut
  BY <1>1, <1>5, FreshRecords, Names DEF WaitTimesOut, StopBoth, FrameGone, StreamStopped, WorkerType,
      WorkerRecord
<1>6. CASE Destroy
  BY <1>1, <1>6, FreshRecords, Names DEF Destroy, Applies, WorkerType, WorkerRecord
<1>7. CASE ExecuteThreadFunc
  <2>1. /\ [worker EXCEPT !.st = "head", !.wake = FALSE, !.again = FALSE] \in WorkerRecord
        /\ [Ends("DOWNLOAD_FAIL") EXCEPT !.wake = FALSE, !.again = TRUE] \in WorkerRecord
    BY <1>1 DEF WorkerType, WorkerRecord, Ends
  <2>2. QED BY <1>7, <2>1 DEF ExecuteThreadFunc, Work, WorkerType
<1>8. CASE WriteFunc
  <2>1. Filled \in WorkerRecord
    BY <1>1, <1>8, FilledEffect DEF WriteFunc
  <2>2. [Filled EXCEPT !.bufferPos = 0] \in WorkerRecord /\ Ends("DOWNLOAD_CANCEL") \in WorkerRecord
    BY <1>1, <2>1, Names DEF WorkerType, WorkerRecord, Ends
  <2>3. QED BY <1>8, <2>1, <2>2 DEF WriteFunc, Work, WorkerType
<1>9. CASE DownloadFile \/ DownloadProgress
  <2>1. Ends("DOWNLOAD_SUCCESS") \in WorkerRecord /\ Ends("DOWNLOAD_CANCEL") \in WorkerRecord
    BY <1>1 DEF Ends, WorkerType, WorkerRecord
  <2>2. QED BY <1>9, <2>1 DEF DownloadFile, DownloadProgress, Work, WorkerType
<1>10. CASE DownloadCallback
  BY <1>1, <1>10, FreshRecords, Names DEF DownloadCallback, Work, WorkerType, WorkerRecord
<1>11. ASSUME NEW n \in 1 .. Size, Receive(n) PROVE WorkerType'
  <2>1. n \in 0 .. Size
    BY Sizes
  <2>2. QED BY <1>1, <1>11, <2>1 DEF Receive, Work, WorkerType, WorkerRecord
<1>12. CASE CheckFileSize
  <2>1. ResumeFrom(worker.downloadedSize) \in 0 .. Size
    BY <1>1, ResumeWithin DEF WorkerType, WorkerRecord
  <2>2. /\ [worker EXCEPT !.st = "get", !.off = ResumeFrom(worker.downloadedSize)] \in WorkerRecord
        /\ Ends("DOWNLOAD_FAIL") \in WorkerRecord
    BY <1>1, <2>1 DEF WorkerType, WorkerRecord, Ends
  <2>3. QED BY <1>12, <2>2 DEF CheckFileSize, Work, WorkerType
<1>13. CASE Crash
  BY <1>1, <1>13, FreshRecords, Names DEF Crash, WorkerType, WorkerRecord
<1>14. CASE HeadersCome
  BY <1>1, <1>14 DEF HeadersCome, Work, WorkerType, WorkerRecord
<1>15. QED BY <1>2, <1>3, <1>4, <1>5, <1>6, <1>7, <1>8, <1>9, <1>10, <1>11, <1>12, <1>13, <1>14 DEF Next, Flow,
    Works, Transfer, UpdateProgressByTaskId, DoInstall, CanInstall, GetStepAfterInit, Step, WriteInstalling,
    DoSysInstall, StreamStopped,
    StartStreamUpdate, FrameGone, InstallComponentWithRetry, HandleInstallResult, GetStepAfterInstall, DoReboot,
    Applies, Restart, Deal, Block, InstallerFails, InstallerCallback, CountReport, LateCallback, FrameLives

(* A report is of at least no byte.                                        *)
LEMMA ReportStep ==
    ASSUME StreamIInv, Next PROVE ReportType'
<1>1. ReportType
  BY DEF StreamIInv, StreamTypes
<1>2. CASE UNCHANGED report
  BY <1>1, <1>2 DEF ReportType, ReportRecord
<1>3. CASE WaitInstallResult
  BY <1>1, <1>3, FreshRecords DEF WaitInstallResult, StopBoth, FrameGone, StreamStopped, ReportType,
      ReportRecord
<1>4. CASE WaitTimesOut
  BY <1>1, <1>4, FreshRecords DEF WaitTimesOut, StopBoth, FrameGone, StreamStopped, ReportType, ReportRecord
<1>5. CASE Destroy
  BY <1>1, <1>5, FreshRecords DEF Destroy, Applies, ReportType, ReportRecord
<1>6. ASSUME NEW n \in 1 .. BufferRoom, Deal(n) PROVE ReportType'
  BY <1>1, <1>6, FreshRecords, Sizes DEF Deal, ReportType, ReportRecord
<1>7. CASE InstallerFails
  <2>1. 0 \in -1 .. BufferRoom /\ 0 >= 0
    BY Sizes
  <2>2. QED BY <1>7, <2>1 DEF InstallerFails, ReportType, ReportRecord
<1>8. CASE InstallerCallback
  BY <1>1, <1>8, FreshRecords DEF InstallerCallback, CountReport, ReportType, ReportRecord
<1>9. CASE LateCallback
  BY <1>1, <1>9, FreshRecords DEF LateCallback, FrameLives, ReportType, ReportRecord
<1>10. CASE Crash
  BY <1>1, <1>10, FreshRecords DEF Crash, ReportType, ReportRecord
<1>11. QED BY <1>2, <1>3, <1>4, <1>5, <1>6, <1>7, <1>8, <1>9, <1>10 DEF Next, Flow, Works, Transfer, HeadersCome,
    DownloadProgress, UpdateProgressByTaskId, DoInstall,
    CanInstall, GetStepAfterInit, Step, WriteInstalling, DoSysInstall, StreamStopped, StartStreamUpdate,
    FrameGone, StartDownload, InstallComponentWithRetry, HandleInstallResult, GetStepAfterInstall, DoReboot,
    Applies, Restart, ExecuteThreadFunc, Work, Ends, Joining, WriteFunc, DownloadFile, DownloadCallback,
    Receive, CheckFileSize

(* The rows keep a status and an int.                                      *)
LEMMA RowStep ==
    ASSUME StreamIInv, Next PROVE RowType'
<1>1. RowType /\ MainType /\ ReportType
  BY DEF StreamIInv, StreamTypes
<1>2. CASE UNCHANGED <<task, point>>
  BY <1>1, <1>2 DEF RowType, MainType, MainRecord, ReportType, ReportRecord
<1>3. CASE WriteInstalling
  BY <1>1, <1>3, PutIntBelow DEF WriteInstalling, RowType, MainType, MainRecord, ReportType, ReportRecord
<1>4. CASE HandleInstallResult
  BY <1>1, <1>4, PutIntBelow DEF HandleInstallResult, Step, RowType, MainType, MainRecord, ReportType,
      ReportRecord
<1>5. CASE GetStepAfterInstall
  <2>1. 0 \in -(IntMax + 1) .. IntMax
    BY Sizes
  <2>2. QED BY <1>1, <1>5, <2>1 DEF GetStepAfterInstall, RowType
<1>6. CASE Restart
  BY <1>1, <1>6, FreshRecords, PutIntBelow DEF Restart, RowType, MainType, MainRecord, ReportType, ReportRecord
<1>7. CASE InstallerCallback
  <2>1. /\ main.recordPoint + report.len \in Int
        /\ main.recordPoint + report.len >= -(IntMax + 1)
    BY <1>1, <1>7, Sizes DEF InstallerCallback, ReportType, ReportRecord, MainType, MainRecord
  <2>2. QED BY <1>1, <1>7, <2>1, PutIntBelow DEF InstallerCallback, CountReport, RowType
<1>8. CASE LateCallback
  <2>1. /\ main.recordPoint + report.len \in Int
        /\ main.recordPoint + report.len >= -(IntMax + 1)
    BY <1>1, <1>8, Sizes DEF LateCallback, ReportType, ReportRecord, MainType, MainRecord
  <2>2. QED BY <1>1, <1>8, <2>1, PutIntBelow DEF LateCallback, RowType
<1>9. CASE UpdateProgressByTaskId
  BY <1>1, <1>9 DEF UpdateProgressByTaskId, RowType, MainType, MainRecord, Results
<1>10. QED BY <1>2, <1>3, <1>4, <1>5, <1>6, <1>7, <1>8, <1>9 DEF Next, Flow, Works, Transfer, HeadersCome,
    DownloadProgress, DoInstall, CanInstall,
    GetStepAfterInit, Step, DoSysInstall, StreamStopped, StartStreamUpdate, FrameGone, StartDownload,
    WaitInstallResult, StopBoth, WaitTimesOut, InstallComponentWithRetry, Destroy, Applies, DoReboot,
    ExecuteThreadFunc, Work, Ends, Joining, WriteFunc, DownloadFile, DownloadCallback, Receive, CheckFileSize,
    Deal, Block, InstallerFails, Crash

(* The statuses, the bounds and the happenings.                            *)
LEMMA StatusStep ==
    ASSUME StreamIInv, Next PROVE StatusType'
<1>1. StatusType /\ WorkerType /\ ReportType
  BY DEF StreamIInv, StreamTypes
<1>2. CASE UNCHANGED <<dl, sys, bounds, seen>>
  BY <1>1, <1>2 DEF StatusType, WorkerType, WorkerRecord, ReportType, ReportRecord, Happenings
<1>3. ASSUME NEW order \in Asked, DoInstall(order) PROVE StatusType'
  <2>1. bounds.calls + 1 \in 0 .. MaxCalls
    BY <1>1, <1>3, Sizes DEF DoInstall, StatusType
  <2>2. QED BY <1>1, <1>3, <2>1 DEF DoInstall, StatusType
<1>4. CASE WriteInstalling
  BY <1>1, <1>4 DEF WriteInstalling, StatusType, WorkerType, WorkerRecord, ReportType, ReportRecord, Happenings
<1>5. CASE DoSysInstall
  BY <1>1, <1>5 DEF DoSysInstall, StreamStopped, StatusType, WorkerType, WorkerRecord, ReportType, ReportRecord,
      Happenings
<1>6. CASE StartStreamUpdate
  BY <1>1, <1>6 DEF StartStreamUpdate, Step, FrameGone, StatusType, WorkerType, WorkerRecord, ReportType,
      ReportRecord, Happenings
<1>7. CASE WaitInstallResult
  BY <1>1, <1>7, FreshRecords DEF WaitInstallResult, StopBoth, FrameGone, StreamStopped, StatusType, WorkerType,
      WorkerRecord, ReportType, ReportRecord, Happenings
<1>8. CASE WaitTimesOut
  BY <1>1, <1>8, FreshRecords DEF WaitTimesOut, StopBoth, FrameGone, StreamStopped, StatusType, WorkerType,
      WorkerRecord, ReportType, ReportRecord, Happenings
<1>9. CASE Destroy
  BY <1>1, <1>9, FreshRecords DEF Destroy, Applies, StatusType, WorkerType, WorkerRecord, ReportType,
      ReportRecord, Happenings
<1>10. CASE Restart
  BY <1>1, <1>10, FreshRecords DEF Restart, StatusType, WorkerType, WorkerRecord, ReportType, ReportRecord,
      Happenings
<1>11. CASE ExecuteThreadFunc
  <2>1. CASE bounds.faults < MaxFaults
    <3>1. bounds.faults + 1 \in 0 .. MaxFaults
      BY <1>1, <2>1, Sizes DEF StatusType
    <3>2. QED BY <1>1, <1>11, <3>1 DEF ExecuteThreadFunc, Work, StatusType
  <2>2. CASE ~(bounds.faults < MaxFaults)
    BY <1>1, <1>11, <2>2 DEF ExecuteThreadFunc, Work, StatusType
  <2>3. QED BY <2>1, <2>2
<1>12. CASE WriteFunc
  BY <1>1, <1>12 DEF WriteFunc, Work, Ends, StatusType, WorkerType, WorkerRecord, ReportType, ReportRecord,
      Happenings
<1>13. CASE DownloadFile \/ DownloadProgress
  BY <1>1, <1>13 DEF DownloadFile, DownloadProgress, Work, Ends, StatusType, WorkerType, WorkerRecord,
      ReportType, ReportRecord,
      Happenings
<1>14. CASE DownloadCallback
  BY <1>1, <1>14, FreshRecords DEF DownloadCallback, Work, StatusType, WorkerType, WorkerRecord, ReportType,
      ReportRecord, Happenings
<1>15. ASSUME NEW n \in 1 .. BufferRoom, Deal(n) PROVE StatusType'
  BY <1>1, <1>15, FreshRecords DEF Deal, Block, StatusType, WorkerType, WorkerRecord, ReportType, ReportRecord,
      Happenings
<1>16. CASE InstallerFails
  BY <1>1, <1>16, FreshRecords DEF InstallerFails, StreamStopped, StatusType, WorkerType, WorkerRecord,
      ReportType, ReportRecord, Happenings
<1>17. CASE InstallerCallback
  BY <1>1, <1>17, FreshRecords DEF InstallerCallback, CountReport, StatusType, WorkerType, WorkerRecord,
      ReportType, ReportRecord, Happenings
<1>18. CASE LateCallback
  BY <1>1, <1>18, FreshRecords DEF LateCallback, FrameLives, StatusType, WorkerType, WorkerRecord, ReportType,
      ReportRecord, Happenings
<1>19. CASE Crash
  <2>1. bounds.faults + 1 \in 0 .. MaxFaults
    BY <1>1, <1>19, Sizes DEF Crash, StatusType
  <2>2. QED BY <1>1, <1>19, <2>1 DEF Crash, StatusType
<1>20. QED BY <1>2, <1>3, <1>4, <1>5, <1>6, <1>7, <1>8, <1>9, <1>10, <1>11, <1>12, <1>13, <1>14, <1>15, <1>16,
    <1>17, <1>18, <1>19 DEF Next, Flow, Works, Transfer, HeadersCome, UpdateProgressByTaskId, GetStepAfterInit,
    Step, StartDownload,
    InstallComponentWithRetry, HandleInstallResult, GetStepAfterInstall, DoReboot, Applies, Receive, Work,
    CheckFileSize, Ends

(* A closed session is one of the installer's states.                      *)
LEMMA StoppedSession == ASSUME InstType, inst' = StreamStopped PROVE InstType'
<1>1. inst \in InstRecord /\ 0 \in 0 .. Size /\ <<>> \in Seq(Blocks) /\ Len(<<>>) = 0
  BY Names DEF InstType
<1>2. inst' \in InstRecord /\ inst'.queue = <<>>
  BY <1>1 DEF StreamStopped, InstRecord
<1>3. 1 .. Len(inst'.queue) = {}
  BY <1>1, <1>2
<1>4. QED BY <1>2, <1>3 DEF InstType

(* The installer keeps its record and its blocks lie within the package.   *)
LEMMA InstStep ==
    ASSUME StreamIInv, Next PROVE InstType'
<1>1. StreamTypes /\ InstType /\ BufferFits
  BY DEF StreamIInv, StreamTypes
<1>2. CASE UNCHANGED inst
  BY <1>1, <1>2 DEF InstType, InstRecord
<1>3. CASE DoSysInstall
  BY <1>1, <1>3, StoppedSession DEF DoSysInstall
<1>4. CASE StartStreamUpdate
  <2>1. ResumeFrom(main.recordPoint) \in 0 .. Size
    BY <1>1, ResumeWithin DEF StreamTypes, MainType, MainRecord
  <2>2. QED BY <1>1, <1>4, <2>1 DEF StartStreamUpdate, InstType, InstRecord
<1>5. CASE WaitInstallResult
  BY <1>1, <1>5, StoppedSession DEF WaitInstallResult, StopBoth
<1>6. CASE WaitTimesOut
  BY <1>1, <1>6, StoppedSession DEF WaitTimesOut, StopBoth
<1>7. CASE Destroy
  BY <1>1, <1>7, FreshRecords DEF Destroy, Applies, InstType, InstRecord
<1>8. CASE WriteFunc
  BY <1>1, <1>8, WriteFuncEffect DEF InstType
<1>9. ASSUME NEW n \in 1 .. BufferRoom, Deal(n) PROVE InstType'
  BY <1>1, <1>9, DealReports
<1>10. CASE InstallerFails
  BY <1>1, <1>10, StoppedSession DEF InstallerFails
<1>11. CASE Crash
  BY <1>1, <1>11, FreshRecords DEF Crash, InstType, InstRecord
<1>12. QED BY <1>2, <1>3, <1>4, <1>5, <1>6, <1>7, <1>8, <1>9, <1>10, <1>11 DEF Next, Flow, Works, Transfer,
    HeadersCome, DownloadProgress, UpdateProgressByTaskId, DoInstall,
    CanInstall, GetStepAfterInit, Step, WriteInstalling, StartDownload, InstallComponentWithRetry,
    HandleInstallResult, GetStepAfterInstall, DoReboot, Applies, Restart, ExecuteThreadFunc, Work, Ends,
    Joining, DownloadFile, DownloadCallback, Receive, CheckFileSize, InstallerCallback, CountReport,
    LateCallback, FrameLives

(* Together: a step keeps all types.                                       *)
LEMMA TypeStep == ASSUME StreamIInv, Next PROVE StreamTypes'
BY MainStep, WorkerStep, InstStep, ReportStep, RowStep, StatusStep DEF StreamTypes

(* The status of the task follows the flow.                                *)
LEMMA TaskStep ==
    ASSUME StreamIInv, StreamTypes', Next PROVE TaskFollowsFlow'
<1>1. StreamTypes /\ TaskFollowsFlow
  BY DEF StreamIInv
<1>2. CASE UNCHANGED <<main, task>>
  BY <1>1, <1>2 DEF TaskFollowsFlow
<1>3. ASSUME NEW order \in Asked, DoInstall(order) PROVE TaskFollowsFlow'
  BY <1>1, <1>3, DoInstallEffect DEF TaskFollowsFlow
<1>4. CASE GetStepAfterInit
  BY <1>1, <1>4, GetStepAfterInitEffect DEF TaskFollowsFlow
<1>5. CASE WriteInstalling
  BY <1>1, <1>5, WriteInstallingEffect DEF TaskFollowsFlow
<1>6. CASE DoSysInstall
  BY <1>1, <1>6, DoSysInstallEffect DEF TaskFollowsFlow
<1>7. CASE StartStreamUpdate
  BY <1>1, <1>7, StartStreamUpdateEffect DEF TaskFollowsFlow
<1>8. CASE StartDownload
  BY <1>1, <1>8, StartDownloadEffect DEF TaskFollowsFlow
<1>9. CASE WaitInstallResult
  BY <1>1, <1>9, WaitInstallResultEffect, FreshRecords DEF TaskFollowsFlow
<1>10. CASE WaitTimesOut
  BY <1>1, <1>10, WaitTimesOutEffect, FreshRecords DEF TaskFollowsFlow
<1>11. CASE InstallComponentWithRetry
  BY <1>1, <1>11, InstallComponentWithRetryEffect DEF TaskFollowsFlow
<1>12. CASE HandleInstallResult
  BY <1>1, <1>12, HandleInstallResultEffect DEF TaskFollowsFlow
<1>13. CASE GetStepAfterInstall
  BY <1>1, <1>13, GetStepAfterInstallEffect DEF TaskFollowsFlow
<1>14. CASE Destroy
  BY <1>1, <1>14, DestroyEffect, FreshRecords DEF TaskFollowsFlow
<1>15. CASE DoReboot
  BY <1>1, <1>15, DoRebootEffect DEF TaskFollowsFlow
<1>16. CASE Restart
  BY <1>1, <1>16, RestartEffect DEF TaskFollowsFlow
<1>17. CASE InstallerCallback
  BY <1>1, <1>17, InstallerCallbackEffect, FreshRecords DEF TaskFollowsFlow
<1>18. CASE LateCallback
  BY <1>1, <1>18, LateCallbackEffect, FreshRecords DEF TaskFollowsFlow
<1>19. CASE Crash
  BY <1>1, <1>19, CrashEffect, FreshRecords DEF TaskFollowsFlow
<1>20. CASE UpdateProgressByTaskId
  BY <1>1, <1>20, UpdateProgressByTaskIdEffect DEF TaskFollowsFlow
<1>21. QED BY <1>2, <1>3, <1>4, <1>5, <1>6, <1>7, <1>8, <1>9, <1>10, <1>11, <1>12, <1>13, <1>14, <1>15, <1>16,
    <1>17, <1>18, <1>19, <1>20 DEF Next, Flow, Works, Transfer, HeadersCome, DownloadProgress, ExecuteThreadFunc,
    Work, Ends, Joining, WriteFunc,
    DownloadFile, DownloadCallback, Receive, CheckFileSize, Deal, Block, InstallerFails, StreamStopped

(* A session, a thread and a report belong to the attempt under way.       *)
LEMMA SessionStep ==
    ASSUME StreamIInv, StreamTypes', Next PROVE SessionFollowsFlow'
<1>1. StreamTypes /\ SessionFollowsFlow /\ BufferFits
  BY DEF StreamIInv
<1>2. ASSUME NEW order \in Asked, DoInstall(order) PROVE SessionFollowsFlow'
  BY <1>1, <1>2, DoInstallEffect DEF SessionFollowsFlow
<1>3. CASE GetStepAfterInit
  BY <1>1, <1>3, GetStepAfterInitEffect DEF SessionFollowsFlow
<1>4. CASE WriteInstalling
  BY <1>1, <1>4, WriteInstallingEffect DEF SessionFollowsFlow
<1>5. CASE DoSysInstall
  BY <1>1, <1>5, DoSysInstallEffect DEF SessionFollowsFlow
<1>6. CASE StartStreamUpdate
  BY <1>1, <1>6, StartStreamUpdateEffect DEF SessionFollowsFlow
<1>7. CASE StartDownload
  BY <1>1, <1>7, StartDownloadEffect DEF SessionFollowsFlow
<1>8. CASE WaitInstallResult
  BY <1>1, <1>8, WaitInstallResultEffect, FreshRecords DEF SessionFollowsFlow
<1>9. CASE WaitTimesOut
  BY <1>1, <1>9, WaitTimesOutEffect, FreshRecords DEF SessionFollowsFlow
<1>10. CASE InstallComponentWithRetry
  BY <1>1, <1>10, InstallComponentWithRetryEffect DEF SessionFollowsFlow
<1>11. CASE HandleInstallResult
  BY <1>1, <1>11, HandleInstallResultEffect DEF SessionFollowsFlow
<1>12. CASE GetStepAfterInstall
  BY <1>1, <1>12, GetStepAfterInstallEffect DEF SessionFollowsFlow
<1>13. CASE Destroy
  BY <1>1, <1>13, DestroyEffect, FreshRecords DEF SessionFollowsFlow
<1>14. CASE DoReboot
  BY <1>1, <1>14, DoRebootEffect DEF SessionFollowsFlow
<1>15. CASE Restart
  BY <1>1, <1>15, RestartEffect DEF SessionFollowsFlow
<1>16. CASE ExecuteThreadFunc
  BY <1>1, <1>16, ExecuteThreadFuncEffect DEF SessionFollowsFlow
<1>17. CASE WriteFunc
  BY <1>1, <1>17, WriteFuncEffect DEF SessionFollowsFlow
<1>18. CASE DownloadFile \/ DownloadProgress
  BY <1>1, <1>18, DownloadFileEffect DEF SessionFollowsFlow
<1>19. CASE DownloadCallback
  BY <1>1, <1>19, DownloadCallbackEffect, FreshRecords DEF SessionFollowsFlow
<1>20. ASSUME NEW n \in 1 .. Size, Receive(n) PROVE SessionFollowsFlow'
  BY <1>1, <1>20, ReceiveEffect DEF SessionFollowsFlow
<1>21. CASE CheckFileSize
  BY <1>1, <1>21, CheckFileSizeEffect DEF SessionFollowsFlow
<1>22. ASSUME NEW n \in 1 .. BufferRoom, Deal(n) PROVE SessionFollowsFlow'
  <2>1. InstType
    BY <1>1 DEF StreamTypes
  <2>2. QED BY <1>1, <1>22, <2>1, DealEffect, DealReports DEF SessionFollowsFlow
<1>23. CASE InstallerFails
  BY <1>1, <1>23, InstallerFailsEffect, FreshRecords DEF SessionFollowsFlow
<1>24. CASE InstallerCallback
  BY <1>1, <1>24, InstallerCallbackEffect, FreshRecords DEF SessionFollowsFlow
<1>25. CASE LateCallback
  BY <1>1, <1>25, LateCallbackEffect, FreshRecords DEF SessionFollowsFlow
<1>26. CASE Crash
  BY <1>1, <1>26, CrashEffect, FreshRecords DEF SessionFollowsFlow
<1>27. CASE HeadersCome
  BY <1>1, <1>27, HeadersComeEffect DEF SessionFollowsFlow
<1>28. CASE UpdateProgressByTaskId
  BY <1>1, <1>28, UpdateProgressByTaskIdEffect DEF SessionFollowsFlow
<1>29. QED BY <1>2, <1>3, <1>4, <1>5, <1>6, <1>7, <1>8, <1>9, <1>10, <1>11, <1>12, <1>13, <1>14, <1>15, <1>16,
    <1>17, <1>18, <1>19, <1>20, <1>21, <1>22, <1>23, <1>24, <1>25, <1>26, <1>27, <1>28 DEF Next, Flow, Works,
    Transfer

(* The buffer is never full between two turns of WriteFunc's loop.         *)
LEMMA BufferStep ==
    ASSUME StreamIInv, StreamTypes', Next PROVE BufferFits'
<1>1. StreamTypes /\ BufferFits
  BY DEF StreamIInv
<1>2. CASE UNCHANGED worker
  BY <1>1, <1>2, Sizes DEF BufferFits, StreamTypes, WorkerType, WorkerRecord
<1>3. CASE StartDownload
  BY <1>1, <1>3, StartDownloadEffect DEF BufferFits
<1>4. CASE WaitInstallResult
  BY <1>1, <1>4, WaitInstallResultEffect, FreshRecords, Sizes DEF BufferFits, StreamTypes, WorkerType,
      WorkerRecord
<1>5. CASE WaitTimesOut
  BY <1>1, <1>5, WaitTimesOutEffect, FreshRecords, Sizes DEF BufferFits, StreamTypes, WorkerType, WorkerRecord
<1>6. CASE Destroy
  BY <1>1, <1>6, DestroyEffect, FreshRecords DEF BufferFits
<1>7. CASE ExecuteThreadFunc
  BY <1>1, <1>7, ExecuteThreadFuncEffect, Sizes DEF BufferFits, StreamTypes, WorkerType, WorkerRecord
<1>8. CASE WriteFunc
  BY <1>1, <1>8, WriteFuncEffect, Sizes DEF BufferFits, StreamTypes, WorkerType, WorkerRecord
<1>9. CASE DownloadFile \/ DownloadProgress
  BY <1>1, <1>9, DownloadFileEffect, Sizes DEF BufferFits, StreamTypes, WorkerType, WorkerRecord
<1>10. CASE DownloadCallback
  <2>1. worker.again => worker.bufferPos = 0 /\ worker.bufferPos <= worker.off
    BY <1>1, <1>10, DownloadCallbackEffect DEF BufferFits
  <2>2. CASE worker.again
    BY <1>1, <2>1, <2>2, <1>10, DownloadCallbackEffect DEF BufferFits
  <2>3. CASE ~worker.again
    <3>1. worker'.st = "ended" /\ worker'.bufferPos = 0 /\ worker'.off = 0 /\ worker'.again = FALSE
      BY <1>1, <2>3, <1>10, DownloadCallbackEffect
    <3>2. QED BY <3>1 DEF BufferFits
  <2>4. QED BY <2>2, <2>3
<1>11. ASSUME NEW n \in 1 .. Size, Receive(n) PROVE BufferFits'
  BY <1>1, <1>11, ReceiveEffect, Sizes DEF BufferFits, StreamTypes, WorkerType, WorkerRecord
<1>12. CASE CheckFileSize
  BY <1>1, <1>12, CheckFileSizeEffect, Sizes DEF BufferFits, StreamTypes, WorkerType, WorkerRecord
<1>13. CASE Crash
  BY <1>1, <1>13, CrashEffect, FreshRecords DEF BufferFits
<1>14. CASE HeadersCome
  BY <1>1, <1>14, HeadersComeEffect DEF BufferFits, StreamTypes, WorkerType, WorkerRecord
<1>15. QED BY <1>2, <1>3, <1>4, <1>5, <1>6, <1>7, <1>8, <1>9, <1>10, <1>11, <1>12, <1>13, <1>14 DEF Next, Flow,
    Works, Transfer, UpdateProgressByTaskId, DoInstall, CanInstall, GetStepAfterInit, Step, WriteInstalling,
    DoSysInstall, StreamStopped,
    StartStreamUpdate, FrameGone, InstallComponentWithRetry, HandleInstallResult, GetStepAfterInstall, DoReboot,
    Applies, Restart, Deal, Block, InstallerFails, InstallerCallback, CountReport, LateCallback, FrameLives

(* The blocks of a session stay contiguous, from what has been dealt with  *)
(* on.                                                                     *)
LEMMA QueueStep ==
    ASSUME StreamIInv, StreamTypes', Next PROVE QueueIsContiguous'
<1>1. StreamTypes /\ QueueIsContiguous /\ ThreadFeedsSession /\ PointIsBehind /\ SessionFollowsFlow /\ BufferFits
  BY DEF StreamIInv
<1>2. CASE UNCHANGED <<inst, seen>>
  BY <1>1, <1>2, PositionKept DEF QueueIsContiguous, Mixed
<1>3. CASE WriteInstalling
  BY <1>1, <1>3, WriteInstallingEffect, PositionKept DEF QueueIsContiguous, Mixed
<1>4. CASE DoSysInstall
  BY <1>1, <1>4, DoSysInstallEffect, PositionKept DEF QueueIsContiguous, Mixed
<1>5. CASE StartStreamUpdate
  <2>1. SUFFICES ASSUME inst'.up, ~Mixed' PROVE Contiguous(inst.queue, inst.next)' /\ (Position <= inst.dealt)'
    BY DEF QueueIsContiguous
  <2>2. main.pc = "session" /\ inst.queue = <<>> /\ ~inst.up
    BY <1>1, <1>5, StartStreamUpdateEffect DEF SessionFollowsFlow
  <2>3. inst'.queue = <<>> /\ inst'.next = ResumeFrom(main.recordPoint) /\ inst'.dealt = inst.dealt /\ ~Mixed
    BY <2>1, <2>2, <1>5, <1>1, StartStreamUpdateEffect DEF Mixed
  <2>4. main.recordPoint <= inst.dealt /\ main.recordPoint \in Int /\ inst.dealt \in Nat
    <3>1. main.recordPoint + Pending <= inst.dealt
      BY <1>1, <2>2, <2>3 DEF PointIsBehind, FrameLives
    <3>2. QED BY <1>1, <3>1, SessionNumbers
  <2>5. ResumeFrom(main.recordPoint) <= inst.dealt
    BY <2>4, ResumeWithin
  <2>6. QED BY <2>3, <2>5 DEF Contiguous, Position
<1>6. CASE WaitInstallResult
  BY <1>1, <1>6, WaitInstallResultEffect, FreshRecords, PositionKept DEF QueueIsContiguous, Mixed
<1>7. CASE WaitTimesOut
  BY <1>1, <1>7, WaitTimesOutEffect, FreshRecords, PositionKept DEF QueueIsContiguous, Mixed
<1>8. CASE Destroy
  BY <1>1, <1>8, DestroyEffect, FreshRecords, PositionKept DEF QueueIsContiguous, Mixed
<1>9. CASE Restart
  BY <1>1, <1>9, RestartEffect, PositionKept DEF QueueIsContiguous, Mixed
<1>10. CASE WriteFunc
  <2>1. SUFFICES ASSUME inst'.up, ~Mixed' PROVE Contiguous(inst.queue, inst.next)' /\ (Position <= inst.dealt)'
    BY DEF QueueIsContiguous
  <2>2. ~Mixed /\ inst.up
    BY <1>1, <2>1, <1>10, WriteFuncEffect DEF Mixed
  <2>3. Contiguous(inst.queue, inst.next) /\ Position <= inst.dealt
    BY <1>1, <2>2 DEF QueueIsContiguous
  <2>4. inst.next = worker.off - worker.bufferPos
    BY <1>1, <2>2, <1>10, WriteFuncEffect DEF ThreadFeedsSession, SessionFollowsFlow
  <2>5. QED BY <1>1, <2>2, <2>3, <2>4, <1>10, WriteFuncEffect, PositionKept
<1>11. CASE DownloadFile \/ DownloadProgress
  BY <1>1, <1>11, DownloadFileEffect, PositionKept DEF QueueIsContiguous, Mixed
<1>12. ASSUME NEW n \in 1 .. BufferRoom, Deal(n) PROVE QueueIsContiguous'
  <2>1. SUFFICES ASSUME inst'.up, ~Mixed' PROVE Contiguous(inst.queue, inst.next)' /\ (Position <= inst.dealt)'
    BY DEF QueueIsContiguous
  <2>2. ~Mixed /\ inst.up /\ InstType
    BY <1>1, <2>1, <1>12, DealReports DEF Mixed, StreamTypes
  <2>3. Contiguous(inst.queue, inst.next) /\ Position <= inst.dealt
    BY <1>1, <2>2 DEF QueueIsContiguous
  <2>4. Contiguous(inst.queue, inst.next)' /\ Position = inst.queue[1].start /\ Position' = inst.queue[1].start + n
    BY <2>2, <2>3, <1>12, DealPosition
  <2>5. inst'.dealt >= inst.queue[1].start + n
    BY <2>2, <2>3, <2>4, <1>12, DealEffect
  <2>6. QED BY <1>1, <2>4, <2>5, SessionNumbers, Sizes
<1>13. CASE InstallerFails
  BY <1>1, <1>13, InstallerFailsEffect, FreshRecords, PositionKept DEF QueueIsContiguous, Mixed
<1>14. CASE InstallerCallback
  BY <1>1, <1>14, InstallerCallbackEffect, FreshRecords, PositionKept DEF QueueIsContiguous, Mixed
<1>15. CASE LateCallback
  BY <1>1, <1>15, LateCallbackEffect, FreshRecords, PositionKept DEF QueueIsContiguous, Mixed
<1>16. CASE Crash
  BY <1>1, <1>16, CrashEffect, FreshRecords, PositionKept DEF QueueIsContiguous, Mixed
<1>17. QED BY <1>2, <1>3, <1>4, <1>5, <1>6, <1>7, <1>8, <1>9, <1>10, <1>11, <1>12, <1>13, <1>14, <1>15, <1>16
    DEF Next, Flow, Works, Transfer, HeadersCome, UpdateProgressByTaskId, DoInstall, CanInstall,
    GetStepAfterInit, Step, StartDownload,
    InstallComponentWithRetry, HandleInstallResult, GetStepAfterInstall, DoReboot, Applies, ExecuteThreadFunc,
    Work, Ends, Joining, DownloadCallback, Receive, CheckFileSize

(* The thread's unsent bytes are the ones the session expects next; a      *)
(* session that opens while the last thread runs mixes two attempts.       *)
LEMMA ThreadStep ==
    ASSUME StreamIInv, StreamTypes', Next PROVE ThreadFeedsSession'
<1>1. StreamTypes /\ ThreadFeedsSession /\ SessionFollowsFlow /\ BufferFits
  BY DEF StreamIInv
<1>2. ASSUME NEW order \in Asked, DoInstall(order) PROVE ThreadFeedsSession'
  BY <1>1, <1>2, DoInstallEffect DEF ThreadFeedsSession, Running, Mixed
<1>3. CASE GetStepAfterInit
  BY <1>1, <1>3, GetStepAfterInitEffect DEF ThreadFeedsSession, Running, Mixed
<1>4. CASE WriteInstalling
  BY <1>1, <1>4, WriteInstallingEffect DEF ThreadFeedsSession, Running, Mixed
<1>5. CASE DoSysInstall
  BY <1>1, <1>5, DoSysInstallEffect DEF ThreadFeedsSession, Running, Mixed
<1>6. CASE StartStreamUpdate
  <2>1. /\ main.pc = "session" /\ ~inst.up /\ inst.queue = <<>> /\ (report = NoReport \/ report.late)
    BY <1>1, <1>6, StartStreamUpdateEffect DEF SessionFollowsFlow
  <2>2. CASE UNCHANGED <<inst, seen>>
    BY <2>1, <2>2 DEF ThreadFeedsSession
  <2>3. CASE /\ main'.pc = "join" /\ main'.recordPoint = main.recordPoint
             /\ inst'.next = ResumeFrom(main.recordPoint)
             /\ seen' = (IF Running THEN seen \cup {"mixed"} ELSE seen)
    BY <1>1, <2>1, <2>3, <1>6, StartStreamUpdateEffect DEF ThreadFeedsSession, Running, Mixed
  <2>4. QED BY <1>1, <2>2, <2>3, <1>6, StartStreamUpdateEffect
<1>7. CASE StartDownload
  BY <1>1, <1>7, StartDownloadEffect DEF ThreadFeedsSession, Running, Mixed
<1>8. CASE WaitInstallResult
  BY <1>1, <1>8, WaitInstallResultEffect, FreshRecords DEF ThreadFeedsSession, Running, Mixed
<1>9. CASE WaitTimesOut
  BY <1>1, <1>9, WaitTimesOutEffect, FreshRecords DEF ThreadFeedsSession, Running, Mixed
<1>10. CASE InstallComponentWithRetry
  BY <1>1, <1>10, InstallComponentWithRetryEffect DEF ThreadFeedsSession, Running, Mixed
<1>11. CASE HandleInstallResult
  BY <1>1, <1>11, HandleInstallResultEffect DEF ThreadFeedsSession, Running, Mixed
<1>12. CASE GetStepAfterInstall
  BY <1>1, <1>12, GetStepAfterInstallEffect DEF ThreadFeedsSession, Running, Mixed
<1>13. CASE Destroy
  BY <1>1, <1>13, DestroyEffect, FreshRecords DEF ThreadFeedsSession, Running, Mixed
<1>14. CASE DoReboot
  BY <1>1, <1>14, DoRebootEffect DEF ThreadFeedsSession, Running, Mixed
<1>15. CASE Restart
  BY <1>1, <1>15, RestartEffect DEF ThreadFeedsSession, Running, Mixed
<1>16. CASE ExecuteThreadFunc
  BY <1>1, <1>16, ExecuteThreadFuncEffect DEF ThreadFeedsSession, Running, Mixed
<1>17. CASE WriteFunc
  <2>1. SUFFICES ASSUME (inst.up /\ inst.heard /\ ~Mixed)' PROVE ThreadFeedsSession'
    BY DEF ThreadFeedsSession
  <2>2. worker.st = "write" /\ worker.off \in Int /\ worker.bufferPos \in Int
    BY <1>1, <1>17, WriteFuncEffect, Sizes DEF StreamTypes, WorkerType, WorkerRecord
  <2>3. worker'.off \in Int /\ worker'.bufferPos \in Int
    BY Sizes DEF StreamTypes, WorkerType, WorkerRecord
  <2>4. inst.up /\ inst.heard /\ ~Mixed
    BY <1>1, <2>1, <1>17, WriteFuncEffect DEF Mixed
  <2>5. inst.next = worker.off - worker.bufferPos /\ main.pc # "join" /\ ~worker.again
    BY <1>1, <2>2, <2>4 DEF ThreadFeedsSession, Running, BufferFits
  <2>6. /\ main'.pc # "join" /\ ~worker'.again
        /\ worker'.st \in {"get", "write", "report"}
        /\ worker'.st \in {"get", "write"} => inst'.next = worker'.off - worker'.bufferPos
    BY <1>1, <2>2, <2>3, <2>5, <1>17, WriteFuncEffect
  <2>7. QED BY <2>6 DEF ThreadFeedsSession
<1>18. CASE DownloadFile \/ DownloadProgress
  <2>1. worker.st = "get" /\ ~worker.again /\ worker'.again = worker.again /\ worker'.st = "report"
    BY <1>1, <1>18, DownloadFileEffect DEF BufferFits
  <2>2. UNCHANGED <<main, inst, report>> /\ (~Mixed' => ~Mixed)
    BY <1>1, <1>18, DownloadFileEffect DEF Mixed
  <2>3. QED BY <1>1, <2>1, <2>2 DEF ThreadFeedsSession, Running
<1>19. CASE DownloadCallback
  BY <1>1, <1>19, DownloadCallbackEffect, FreshRecords DEF ThreadFeedsSession, Running, Mixed
<1>20. ASSUME NEW n \in 1 .. Size, Receive(n) PROVE ThreadFeedsSession'
  BY <1>1, <1>20, ReceiveEffect DEF ThreadFeedsSession, Running, Mixed
<1>21. CASE CheckFileSize
  <2>1. /\ worker.st = "head" /\ ~worker.again /\ worker'.again = worker.again /\ worker'.bufferPos = 0
        /\ UNCHANGED <<main, inst, report, seen>>
    BY <1>1, <1>21, CheckFileSizeEffect DEF BufferFits
  <2>2. worker'.st = "report" \/ (worker'.st = "get" /\ worker'.off = ResumeFrom(worker.downloadedSize))
    BY <1>1, <1>21, CheckFileSizeEffect
  <2>3. ResumeFrom(worker.downloadedSize) - 0 = ResumeFrom(worker.downloadedSize)
    BY <1>1, ResumeWithin DEF StreamTypes, WorkerType, WorkerRecord
  <2>4. inst.up /\ inst.heard => main.pc \in {"join", "wait"}
    BY <1>1 DEF SessionFollowsFlow
  <2>5. QED BY <1>1, <2>1, <2>2, <2>3, <2>4 DEF ThreadFeedsSession, Running, Mixed
<1>22. ASSUME NEW n \in 1 .. BufferRoom, Deal(n) PROVE ThreadFeedsSession'
  <2>1. inst.queue # <<>> /\ UNCHANGED <<inst.up, inst.heard, inst.next>>
    BY <1>1, <1>22, DealEffect DEF StreamTypes
  <2>2. UNCHANGED <<main, worker>> /\ (~Mixed' => ~Mixed) /\ inst.up
    BY <1>1, <1>22, DealReports DEF Mixed
  <2>3. QED BY <1>1, <2>1, <2>2 DEF ThreadFeedsSession, Running
<1>23. CASE InstallerFails
  BY <1>1, <1>23, InstallerFailsEffect, FreshRecords DEF ThreadFeedsSession, Running, Mixed
<1>24. CASE InstallerCallback
  BY <1>1, <1>24, InstallerCallbackEffect, FreshRecords DEF ThreadFeedsSession, Running, Mixed
<1>25. CASE LateCallback
  BY <1>1, <1>25, LateCallbackEffect, FreshRecords DEF ThreadFeedsSession, Running, Mixed
<1>26. CASE Crash
  BY <1>1, <1>26, CrashEffect, FreshRecords DEF ThreadFeedsSession, Running, Mixed
<1>27. CASE HeadersCome
  BY <1>1, <1>27, HeadersComeEffect DEF ThreadFeedsSession, Running, Mixed
<1>28. CASE UpdateProgressByTaskId
  BY <1>1, <1>28, UpdateProgressByTaskIdEffect DEF ThreadFeedsSession, Running, Mixed
<1>29. QED BY <1>2, <1>3, <1>4, <1>5, <1>6, <1>7, <1>8, <1>9, <1>10, <1>11, <1>12, <1>13, <1>14, <1>15, <1>16,
    <1>17, <1>18, <1>19, <1>20, <1>21, <1>22, <1>23, <1>24, <1>25, <1>26, <1>27, <1>28 DEF Next, Flow, Works,
    Transfer

(* The record point stays behind the installer: it is read from a row that *)
(* was behind, and moved by what was taken from the head of the queue.     *)
LEMMA PointStep ==
    ASSUME StreamIInv, StreamTypes', Next PROVE PointIsBehind'
<1>1. /\ StreamTypes /\ ReportType /\ PointIsBehind /\ QueueIsContiguous /\ ThreadFeedsSession
      /\ SessionFollowsFlow /\ BufferFits
  BY DEF StreamIInv, StreamTypes
<1>2. CASE UNCHANGED <<main, point, inst, report, seen>>
  BY <1>1, <1>2, PositionKept, PendingKept, SessionNumbers DEF PointIsBehind, FrameLives, Mixed
<1>3. ASSUME NEW order \in Asked, DoInstall(order) PROVE PointIsBehind'
  <2>1. main.pc = "idle" /\ main'.pc = "mode" /\ UNCHANGED <<point, inst, seen>>
    BY <1>1, <1>3, DoInstallEffect
  <2>2. QED BY <1>1, <2>1 DEF PointIsBehind, FrameLives, Mixed, SessionFollowsFlow
<1>4. CASE GetStepAfterInit
  BY <1>1, <1>4, GetStepAfterInitEffect, PositionKept, PendingKept, SessionNumbers DEF PointIsBehind,
      FrameLives, Mixed
<1>5. CASE WriteInstalling
  BY <1>1, <1>5, WriteInstallingEffect, PositionKept, PendingKept, SessionNumbers DEF PointIsBehind, FrameLives,
      Mixed
<1>6. CASE DoSysInstall
  <2>1. Pending' = 0
    BY <1>1, <1>6, DoSysInstallEffect, PendingKept DEF SessionFollowsFlow
  <2>2. main'.recordPoint = point /\ UNCHANGED <<point, inst.dealt, seen>> /\ inst'.up = FALSE
    BY <1>1, <1>6, DoSysInstallEffect
  <2>3. point + 0 = point
    BY <1>1, SessionNumbers
  <2>4. QED BY <1>1, <2>1, <2>2, <2>3 DEF PointIsBehind, Mixed
<1>7. CASE StartStreamUpdate
  <2>1. /\ main.pc = "session" /\ ~inst.up /\ inst.queue = <<>> /\ Pending = 0 /\ Pending' = 0
    BY <1>1, <1>7, StartStreamUpdateEffect, PendingKept DEF SessionFollowsFlow
  <2>2. CASE main'.pc = "failed" /\ UNCHANGED <<inst, seen>>
    BY <1>1, <2>1, <2>2, <1>7, StartStreamUpdateEffect DEF PointIsBehind, FrameLives, Mixed
  <2>3. CASE /\ main'.pc = "join" /\ main'.recordPoint = main.recordPoint
             /\ inst'.next = ResumeFrom(main.recordPoint)
             /\ seen' = (IF Running THEN seen \cup {"mixed"} ELSE seen)
    <3>1. SUFFICES ASSUME ~Mixed' PROVE PointIsBehind'
      BY DEF PointIsBehind
    <3>2. ~Mixed
      BY <2>3, <3>1 DEF Mixed
    <3>3. point <= inst.dealt /\ main.recordPoint <= inst.dealt
      BY <1>1, <2>1, <3>2, SessionNumbers DEF PointIsBehind, FrameLives
    <3>4. main.recordPoint <= ResumeFrom(main.recordPoint)
      BY <1>1, <3>3, ResumeWithin, SessionNumbers, Sizes
    <3>5. /\ Position' = ResumeFrom(main.recordPoint) /\ inst'.dealt = inst.dealt /\ point' = point
          /\ (main.recordPoint + Pending)' = main.recordPoint
      BY <1>1, <2>1, <2>3, <1>7, StartStreamUpdateEffect, SessionNumbers DEF Position
    <3>6. QED BY <3>3, <3>4, <3>5 DEF PointIsBehind
  <2>4. QED BY <1>1, <2>2, <2>3, <1>7, StartStreamUpdateEffect
<1>8. CASE StartDownload
  BY <1>1, <1>8, StartDownloadEffect, PositionKept, PendingKept, SessionNumbers DEF PointIsBehind, FrameLives,
      Mixed
<1>9. CASE WaitInstallResult
  BY <1>1, <1>9, WaitInstallResultEffect, FreshRecords, PositionKept, PendingKept, SessionNumbers
      DEF PointIsBehind, FrameLives, Mixed
<1>10. CASE WaitTimesOut
  BY <1>1, <1>10, WaitTimesOutEffect, FreshRecords, PositionKept, PendingKept, SessionNumbers DEF PointIsBehind,
      FrameLives, Mixed
<1>11. CASE InstallComponentWithRetry
  BY <1>1, <1>11, InstallComponentWithRetryEffect, PositionKept, PendingKept, SessionNumbers DEF PointIsBehind,
      FrameLives, Mixed
<1>12. CASE HandleInstallResult
  BY <1>1, <1>12, HandleInstallResultEffect, PositionKept, PendingKept, SessionNumbers DEF PointIsBehind,
      FrameLives, Mixed
<1>13. CASE GetStepAfterInstall
  BY <1>1, <1>13, GetStepAfterInstallEffect, PositionKept, PendingKept, SessionNumbers DEF PointIsBehind,
      FrameLives, Mixed
<1>14. CASE Destroy
  BY <1>1, <1>14, DestroyEffect, FreshRecords, PositionKept, PendingKept, SessionNumbers DEF PointIsBehind,
      FrameLives, Mixed
<1>15. CASE DoReboot
  BY <1>1, <1>15, DoRebootEffect, PositionKept, PendingKept, SessionNumbers DEF PointIsBehind, FrameLives, Mixed
<1>16. CASE Restart
  <2>1. main.pc = "down" /\ main'.pc \in {"mode", "idle"} /\ UNCHANGED <<point, inst>> /\ (~Mixed' => ~Mixed)
    BY <1>1, <1>16, RestartEffect DEF Mixed
  <2>2. QED BY <1>1, <2>1 DEF PointIsBehind, FrameLives, SessionFollowsFlow
<1>17. CASE WriteFunc
  <2>1. SUFFICES ASSUME ~Mixed' PROVE PointIsBehind'
    BY DEF PointIsBehind
  <2>2. ~Mixed /\ worker.st = "write" /\ UNCHANGED <<point, main, report, inst.dealt, inst.up, inst.heard>>
    BY <1>1, <2>1, <1>17, WriteFuncEffect DEF Mixed
  <2>3. Pending' = Pending
    BY <1>1, <2>2, PendingKept
  <2>4. inst.up /\ inst.heard => Position' = Position
    <3>1. CASE UNCHANGED inst
      BY <3>1, PositionKept
    <3>2. CASE inst' # inst /\ inst.up /\ inst.heard
      <4>1. inst.next = worker.off - worker.bufferPos /\ Contiguous(inst.queue, inst.next)
        BY <1>1, <2>2, <3>2 DEF ThreadFeedsSession, QueueIsContiguous
      <4>2. QED BY <1>1, <3>2, <4>1, <1>17, WriteFuncEffect
    <3>3. QED BY <3>1, <3>2
  <2>5. QED BY <1>1, <2>2, <2>3, <2>4 DEF PointIsBehind, FrameLives
<1>18. CASE DownloadFile \/ DownloadProgress
  BY <1>1, <1>18, DownloadFileEffect, PositionKept, PendingKept, SessionNumbers DEF PointIsBehind, FrameLives,
      Mixed
<1>19. ASSUME NEW n \in 1 .. BufferRoom, Deal(n) PROVE PointIsBehind'
  <2>1. SUFFICES ASSUME ~Mixed' PROVE PointIsBehind'
    BY DEF PointIsBehind
  <2>2. /\ ~Mixed /\ inst.up /\ report = NoReport /\ UNCHANGED <<point, main>>
        /\ \/ ~inst.heard /\ report' = NoReport
           \/ inst.heard /\ report' # NoReport /\ report'.len = n /\ report'.late = FALSE
    BY <1>1, <2>1, <1>19, DealReports DEF Mixed
  <2>3. Contiguous(inst.queue, inst.next) /\ Position <= inst.dealt /\ InstType
    BY <1>1, <2>2 DEF QueueIsContiguous, StreamTypes
  <2>4. /\ Position = inst.queue[1].start /\ Position' = inst.queue[1].start + n
        /\ inst'.dealt >= inst.queue[1].start + n /\ inst'.dealt >= inst.dealt
        /\ UNCHANGED <<inst.up, inst.heard>>
    BY <2>3, <1>19, DealPosition, DealEffect
  <2>5. inst'.dealt \in Int /\ n \in Int
    BY Sizes DEF StreamTypes, InstType, InstRecord
  <2>6. point' <= inst'.dealt
    BY <1>1, <2>2, <2>4, <2>5, SessionNumbers DEF PointIsBehind
  <2>7. CASE ~inst.heard
    BY <1>1, <2>2, <2>4, <2>6, <2>7 DEF PointIsBehind, FrameLives, SessionFollowsFlow
  <2>8. CASE inst.heard
    <3>1. Pending = 0 /\ Pending' = n
      BY <1>1, <2>2, <2>8, PendingKept
    <3>2. main.recordPoint <= Position
      BY <1>1, <2>2, <2>8, <3>1, SessionNumbers DEF PointIsBehind
    <3>3. main.recordPoint + n <= inst.queue[1].start + n /\ main.recordPoint + n <= inst'.dealt
      BY <1>1, <2>4, <2>5, <3>2, SessionNumbers
    <3>4. QED BY <2>2, <2>4, <2>6, <3>1, <3>3 DEF PointIsBehind
  <2>9. QED BY <2>7, <2>8
<1>20. CASE InstallerFails
  BY <1>1, <1>20, InstallerFailsEffect, FreshRecords, PositionKept, PendingKept, SessionNumbers
      DEF PointIsBehind, FrameLives, Mixed
<1>21. CASE InstallerCallback
  <2>1. SUFFICES ASSUME ~Mixed' PROVE PointIsBehind'
    BY DEF PointIsBehind
  <2> DEFINE m == main.recordPoint + report.len
  <2>2. /\ ~Mixed /\ main.pc \in {"join", "wait"} /\ UNCHANGED inst /\ point' = PutInt(m)
        /\ main'.recordPoint = m /\ Pending = report.len /\ Pending' = 0
    BY <1>1, <2>1, <1>21, InstallerCallbackEffect, PendingKept DEF Mixed, SessionFollowsFlow
  <2>3. m \in Int /\ m >= -(IntMax + 1)
    BY <1>1, <2>2, SessionNumbers, PendingKept, Sizes DEF StreamTypes, MainType, MainRecord
  <2>4. m <= inst.dealt /\ (inst.up /\ inst.heard => m <= Position)
    BY <1>1, <2>2 DEF PointIsBehind, FrameLives
  <2> HIDE DEF m
  <2>5. PutInt(m) <= inst.dealt
    BY <1>1, <2>3, <2>4, PutIntBelow, SessionNumbers, Sizes
  <2>6. Position' = Position /\ (main.recordPoint + Pending)' = m
    BY <2>2, <2>3, PositionKept
  <2>7. QED BY <2>2, <2>4, <2>5, <2>6 DEF PointIsBehind, FrameLives
<1>22. CASE LateCallback
  BY <1>1, <1>22, LateCallbackEffect, FreshRecords, PositionKept, PendingKept, SessionNumbers DEF PointIsBehind,
      FrameLives, Mixed
<1>23. CASE Crash
  BY <1>1, <1>23, CrashEffect, FreshRecords, PositionKept, PendingKept, SessionNumbers DEF PointIsBehind,
      FrameLives, Mixed
<1>24. CASE UpdateProgressByTaskId
  BY <1>1, <1>24, UpdateProgressByTaskIdEffect, PositionKept, PendingKept, SessionNumbers DEF PointIsBehind,
      FrameLives, Mixed
<1>25. QED BY <1>2, <1>3, <1>4, <1>5, <1>6, <1>7, <1>8, <1>9, <1>10, <1>11, <1>12, <1>13, <1>14, <1>15, <1>16,
    <1>17, <1>18, <1>19, <1>20, <1>21, <1>22, <1>23, <1>24 DEF Next, Flow, Works, Transfer, HeadersCome,
    ExecuteThreadFunc, Work, Ends,
    Joining, DownloadCallback, Receive, CheckFileSize

(* The thread's count is its offset until the record point overflows an    *)
(* int.                                                                    *)
LEMMA CountStep ==
    ASSUME StreamIInv, StreamTypes', Next PROVE CountIsOffset'
<1>1. StreamTypes /\ CountIsOffset /\ SessionFollowsFlow /\ BufferFits /\ PointIsBehind
  BY DEF StreamIInv
<1>2. ASSUME NEW order \in Asked, DoInstall(order) PROVE CountIsOffset'
  <2>1. main'.recordPoint = 0 /\ UNCHANGED <<point, worker, seen>>
    BY <1>1, <1>2, DoInstallEffect
  <2>2. QED BY <1>1, <2>1 DEF CountIsOffset, Mixed
<1>3. CASE GetStepAfterInit
  BY <1>1, <1>3, GetStepAfterInitEffect DEF CountIsOffset, Mixed
<1>4. CASE WriteInstalling
  BY <1>1, <1>4, WriteInstallingEffect DEF CountIsOffset, Mixed
<1>5. CASE DoSysInstall
  BY <1>1, <1>5, DoSysInstallEffect DEF CountIsOffset, Mixed
<1>6. CASE StartStreamUpdate
  <2>1. /\ UNCHANGED <<point, worker>> /\ main'.recordPoint \in {0, main.recordPoint}
        /\ "wrapped" \notin seen' /\ ~Mixed' => "wrapped" \notin seen /\ ~Mixed
    BY <1>1, <1>6, StartStreamUpdateEffect DEF Mixed
  <2>2. QED BY <1>1, <2>1 DEF CountIsOffset
<1>7. CASE StartDownload
  <2>1. ~Mixed /\ "wrapped" \notin seen => main.recordPoint \in 0 .. Size
    <3>1. ~Mixed => main.recordPoint + Pending <= inst.dealt
      BY <1>1, <1>7, StartDownloadEffect DEF PointIsBehind, FrameLives
    <3>2. ~Mixed => main.recordPoint <= Size
      BY <1>1, <3>1, SessionNumbers, Sizes
    <3>3. QED BY <1>1, <3>2, SessionNumbers DEF CountIsOffset
  <2>2. QED BY <1>1, <2>1, <1>7, StartDownloadEffect DEF CountIsOffset, Mixed
<1>8. CASE WaitInstallResult
  BY <1>1, <1>8, WaitInstallResultEffect, FreshRecords DEF CountIsOffset, Mixed
<1>9. CASE WaitTimesOut
  BY <1>1, <1>9, WaitTimesOutEffect, FreshRecords DEF CountIsOffset, Mixed
<1>10. CASE InstallComponentWithRetry
  BY <1>1, <1>10, InstallComponentWithRetryEffect DEF CountIsOffset, Mixed
<1>11. CASE HandleInstallResult
  BY <1>1, <1>11, HandleInstallResultEffect DEF CountIsOffset, Mixed
<1>12. CASE GetStepAfterInstall
  BY <1>1, <1>12, GetStepAfterInstallEffect DEF CountIsOffset, Mixed
<1>13. CASE Destroy
  BY <1>1, <1>13, DestroyEffect, FreshRecords DEF CountIsOffset, Mixed
<1>14. CASE DoReboot
  BY <1>1, <1>14, DoRebootEffect DEF CountIsOffset, Mixed
<1>15. CASE Restart
  BY <1>1, <1>15, RestartEffect DEF CountIsOffset, Mixed
<1>16. CASE ExecuteThreadFunc
  BY <1>1, <1>16, ExecuteThreadFuncEffect DEF CountIsOffset, Mixed
<1>17. CASE WriteFunc
  <2>1. SUFFICES ASSUME "wrapped" \notin seen', ~Mixed' PROVE CountIsOffset'
    BY DEF CountIsOffset
  <2>2. /\ "wrapped" \notin seen /\ ~Mixed /\ UNCHANGED <<point, main, worker.again>>
        /\ worker.st = "write"
    BY <1>1, <2>1, <1>17, WriteFuncEffect DEF Mixed
  <2>3. worker.downloadedSize = worker.off /\ point >= 0 /\ main.recordPoint >= 0 /\ ~worker.again
    BY <1>1, <2>2 DEF CountIsOffset, BufferFits
  <2>4. /\ worker.off \in Int /\ worker'.off \in Int /\ worker'.downloadedSize \in Int
    BY <1>1, Sizes DEF StreamTypes, WorkerType, WorkerRecord
  <2>5. /\ worker'.st \in {"get", "write", "report"}
        /\ worker'.st \in {"get", "write"} => worker'.downloadedSize = worker'.off
        /\ worker'.st = "get" /\ worker'.off = Size => worker'.bufferPos = 0
    BY <1>1, <2>3, <2>4, <1>17, WriteFuncEffect
  <2>6. QED BY <2>2, <2>3, <2>5 DEF CountIsOffset
<1>18. CASE DownloadFile \/ DownloadProgress
  <2>1. worker.st = "get" /\ ~worker.again /\ worker'.again = worker.again /\ worker'.st = "report"
    BY <1>1, <1>18, DownloadFileEffect DEF BufferFits
  <2>2. /\ UNCHANGED <<point, main>>
        /\ "wrapped" \notin seen' /\ ~Mixed' => "wrapped" \notin seen /\ ~Mixed
    BY <1>1, <1>18, DownloadFileEffect DEF Mixed
  <2>3. QED BY <1>1, <2>1, <2>2 DEF CountIsOffset
<1>19. CASE DownloadCallback
  BY <1>1, <1>19, DownloadCallbackEffect, FreshRecords DEF CountIsOffset, Mixed
<1>20. ASSUME NEW n \in 1 .. Size, Receive(n) PROVE CountIsOffset'
  BY <1>1, <1>20, ReceiveEffect DEF CountIsOffset, Mixed
<1>21. CASE CheckFileSize
  <2>1. /\ worker.st = "head" /\ ~worker.again /\ worker'.again = worker.again /\ worker'.bufferPos = 0
        /\ worker'.downloadedSize = worker.downloadedSize /\ UNCHANGED <<main, point, seen>>
    BY <1>1, <1>21, CheckFileSizeEffect DEF BufferFits
  <2>2. worker'.st = "report" \/ (worker'.st = "get" /\ worker'.off = ResumeFrom(worker.downloadedSize))
    BY <1>1, <1>21, CheckFileSizeEffect
  <2>3. worker.downloadedSize \in 0 .. Size => ResumeFrom(worker.downloadedSize) = worker.downloadedSize
    BY Sizes, ResumeWithin
  <2>4. QED BY <1>1, <2>1, <2>2, <2>3 DEF CountIsOffset, Mixed
<1>22. ASSUME NEW n \in 1 .. BufferRoom, Deal(n) PROVE CountIsOffset'
  BY <1>1, <1>22, DealEffect, DealReports, DealPosition, FreshRecords DEF CountIsOffset, Mixed
<1>23. CASE InstallerFails
  BY <1>1, <1>23, InstallerFailsEffect, FreshRecords DEF CountIsOffset, Mixed
<1>24. CASE InstallerCallback
  <2> DEFINE m == main.recordPoint + report.len
  <2>1. SUFFICES ASSUME "wrapped" \notin seen', ~Mixed' PROVE CountIsOffset'
    BY DEF CountIsOffset
  <2>2. "wrapped" \notin seen /\ ~Mixed /\ UNCHANGED worker /\ point' = m /\ main'.recordPoint = m
    BY <1>1, <2>1, <1>24, InstallerCallbackEffect DEF Mixed
  <2>3. report.len \in Nat
    <3>1. report # NoReport /\ ReportType
      BY <1>1, <1>24, InstallerCallbackEffect DEF StreamTypes
    <3>2. QED BY <3>1, Sizes DEF ReportType, ReportRecord
  <2>4. m >= 0
    BY <1>1, <2>2, <2>3, SessionNumbers DEF CountIsOffset
  <2>5. QED BY <1>1, <2>2, <2>4 DEF CountIsOffset
<1>25. CASE LateCallback
  BY <1>1, <1>25, LateCallbackEffect, FreshRecords DEF CountIsOffset, Mixed
<1>26. CASE Crash
  BY <1>1, <1>26, CrashEffect, FreshRecords DEF CountIsOffset, Mixed
<1>27. CASE HeadersCome
  BY <1>1, <1>27, HeadersComeEffect DEF CountIsOffset, Mixed
<1>28. CASE UpdateProgressByTaskId
  BY <1>1, <1>28, UpdateProgressByTaskIdEffect DEF CountIsOffset, Mixed
<1>29. QED BY <1>2, <1>3, <1>4, <1>5, <1>6, <1>7, <1>8, <1>9, <1>10, <1>11, <1>12, <1>13, <1>14, <1>15, <1>16,
    <1>17, <1>18, <1>19, <1>20, <1>21, <1>22, <1>23, <1>24, <1>25, <1>26, <1>27, <1>28 DEF Next, Flow, Works,
    Transfer

(* A success is of the whole package: the count is behind the installer,   *)
(* so a count of one hundred per cent is too.                              *)
LEMMA SuccessStep ==
    ASSUME StreamIInv, StreamTypes', Next PROVE SuccessIsDealt'
<1>1. StreamTypes /\ SuccessIsDealt /\ SessionFollowsFlow /\ BufferFits /\ PointIsBehind
  BY DEF StreamIInv
<1>2. CASE UNCHANGED <<main, report, inst, sys, task, seen>>
  BY <1>1, <1>2 DEF SuccessIsDealt, Mixed
<1>3. ASSUME NEW order \in Asked, DoInstall(order) PROVE SuccessIsDealt'
  BY <1>1, <1>3, DoInstallEffect DEF SuccessIsDealt, Mixed
<1>4. CASE GetStepAfterInit
  BY <1>1, <1>4, GetStepAfterInitEffect DEF SuccessIsDealt, Mixed
<1>5. CASE WriteInstalling
  BY <1>1, <1>5, WriteInstallingEffect DEF SuccessIsDealt, Mixed
<1>6. CASE DoSysInstall
  BY <1>1, <1>6, DoSysInstallEffect DEF SuccessIsDealt, Mixed
<1>7. CASE StartStreamUpdate
  BY <1>1, <1>7, StartStreamUpdateEffect DEF SuccessIsDealt, Mixed
<1>8. CASE StartDownload
  BY <1>1, <1>8, StartDownloadEffect DEF SuccessIsDealt, Mixed
<1>9. CASE WaitInstallResult
  BY <1>1, <1>9, WaitInstallResultEffect, FreshRecords DEF SuccessIsDealt, Mixed
<1>10. CASE WaitTimesOut
  BY <1>1, <1>10, WaitTimesOutEffect, FreshRecords DEF SuccessIsDealt, Mixed
<1>11. CASE InstallComponentWithRetry
  BY <1>1, <1>11, InstallComponentWithRetryEffect DEF SuccessIsDealt, Mixed
<1>12. CASE HandleInstallResult
  BY <1>1, <1>12, HandleInstallResultEffect DEF SuccessIsDealt, Mixed
<1>13. CASE GetStepAfterInstall
  BY <1>1, <1>13, GetStepAfterInstallEffect DEF SuccessIsDealt, Mixed
<1>14. CASE Destroy
  BY <1>1, <1>14, DestroyEffect, FreshRecords DEF SuccessIsDealt, Mixed
<1>15. CASE DoReboot
  BY <1>1, <1>15, DoRebootEffect DEF SuccessIsDealt, Mixed
<1>16. CASE Restart
  BY <1>1, <1>16, RestartEffect DEF SuccessIsDealt, Mixed
<1>17. CASE WriteFunc
  BY <1>1, <1>17, WriteFuncEffect DEF SuccessIsDealt, Mixed
<1>18. CASE DownloadFile \/ DownloadProgress
  BY <1>1, <1>18, DownloadFileEffect DEF SuccessIsDealt, Mixed
<1>19. ASSUME NEW n \in 1 .. BufferRoom, Deal(n) PROVE SuccessIsDealt'
  <2>1. inst'.dealt >= inst.dealt /\ inst'.dealt \in 0 .. Size
    BY <1>1, <1>19, DealEffect DEF StreamTypes, InstRecord
  <2>2. inst.dealt = Size => inst'.dealt = Size
    BY <2>1, Sizes
  <2>3. UNCHANGED <<main, sys, task>> /\ (~Mixed' => ~Mixed)
    BY <1>1, <1>19, DealReports DEF Mixed
  <2>4. report'.status = "INSTALL_SUCCESS" => inst'.dealt = Size
    BY <1>1, <1>19, DealReports, FreshRecords
  <2>5. QED BY <1>1, <2>2, <2>3, <2>4 DEF SuccessIsDealt
<1>20. CASE InstallerFails
  BY <1>1, <1>20, InstallerFailsEffect, FreshRecords DEF SuccessIsDealt, Mixed
<1>21. CASE InstallerCallback
  <2> DEFINE m == main.recordPoint + report.len
  <2>1. /\ UNCHANGED <<inst, task, main.ok, main.taskProgress>> /\ (~Mixed' => ~Mixed) /\ report' = NoReport
        /\ main.pc \in {"join", "wait"} /\ Pending = report.len
    BY <1>1, <1>21, InstallerCallbackEffect, PendingKept DEF Mixed, SessionFollowsFlow, StreamTypes
  <2>2. /\ sys' = (IF (m * 100) \div Size = 100 THEN "INSTALL_SUCCESS" ELSE report.status)
    BY <1>1, <1>21, InstallerCallbackEffect
  <2>3. m \in Int /\ (~Mixed => m <= inst.dealt)
    BY <1>1, <2>1, SessionNumbers DEF PointIsBehind, FrameLives
  <2> HIDE DEF m
  <2>4. ~Mixed /\ (m * 100) \div Size = 100 => inst.dealt = Size
    BY <1>1, <2>3, WholeInPerCent, SessionNumbers, Sizes
  <2>5. ~Mixed /\ sys' = "INSTALL_SUCCESS" => inst.dealt = Size
    BY <1>1, <2>2, <2>4 DEF SuccessIsDealt
  <2>6. QED BY <1>1, <2>1, <2>5, FreshRecords DEF SuccessIsDealt
<1>22. CASE LateCallback
  BY <1>1, <1>22, LateCallbackEffect, FreshRecords DEF SuccessIsDealt, Mixed
<1>23. CASE Crash
  BY <1>1, <1>23, CrashEffect, FreshRecords DEF SuccessIsDealt, Mixed
<1>24. CASE UpdateProgressByTaskId
  BY <1>1, <1>24, UpdateProgressByTaskIdEffect DEF SuccessIsDealt, Mixed
<1>25. QED BY <1>2, <1>3, <1>4, <1>5, <1>6, <1>7, <1>8, <1>9, <1>10, <1>11, <1>12, <1>13, <1>14, <1>15, <1>16,
    <1>17, <1>18, <1>19, <1>20, <1>21, <1>22, <1>23, <1>24 DEF Next, Flow, Works, Transfer, HeadersCome,
    ExecuteThreadFunc, Work, Ends,
    Joining, DownloadCallback, Receive, CheckFileSize

(* What can lead to a pause is preceded by an interruption.                *)
LEMMA StopStep ==
    ASSUME StreamIInv, StreamTypes', Next PROVE StopIsExplained'
<1>1. StreamTypes /\ StopIsExplained /\ TaskFollowsFlow /\ SessionFollowsFlow /\ BufferFits
  BY DEF StreamIInv
<1>3. CASE WriteInstalling
  BY <1>1, <1>3, WriteInstallingEffect, FreshRecords DEF StopIsExplained, SessionFollowsFlow
<1>4. CASE DoSysInstall
  BY <1>1, <1>4, DoSysInstallEffect DEF StopIsExplained
<1>5. CASE StartStreamUpdate
  BY <1>1, <1>5, StartStreamUpdateEffect DEF StopIsExplained
<1>6. CASE StartDownload
  BY <1>1, <1>6, StartDownloadEffect DEF StopIsExplained
<1>7. CASE WaitInstallResult
  BY <1>1, <1>7, WaitInstallResultEffect, FreshRecords DEF StopIsExplained
<1>8. CASE WaitTimesOut
  BY <1>1, <1>8, WaitTimesOutEffect, FreshRecords DEF StopIsExplained
<1>9. CASE HandleInstallResult
  BY <1>1, <1>9, HandleInstallResultEffect DEF StopIsExplained
<1>10. CASE GetStepAfterInstall
  BY <1>1, <1>10, GetStepAfterInstallEffect DEF StopIsExplained
<1>11. CASE Destroy
  BY <1>1, <1>11, DestroyEffect, FreshRecords DEF StopIsExplained
<1>12. CASE Restart
  BY <1>1, <1>12, RestartEffect DEF StopIsExplained
<1>13. CASE ExecuteThreadFunc
  BY <1>1, <1>13, ExecuteThreadFuncEffect DEF StopIsExplained
<1>14. CASE WriteFunc
  BY <1>1, <1>14, WriteFuncEffect DEF StopIsExplained
<1>15. CASE DownloadFile \/ DownloadProgress
  BY <1>1, <1>15, DownloadFileEffect DEF StopIsExplained
<1>16. CASE DownloadCallback
  BY <1>1, <1>16, DownloadCallbackEffect, FreshRecords DEF StopIsExplained
<1>17. ASSUME NEW n \in 1 .. Size, Receive(n) PROVE StopIsExplained'
  BY <1>1, <1>17, ReceiveEffect DEF StopIsExplained
<1>18. CASE CheckFileSize
  BY <1>1, <1>18, CheckFileSizeEffect DEF StopIsExplained
<1>19. ASSUME NEW n \in 1 .. BufferRoom, Deal(n) PROVE StopIsExplained'
  BY <1>1, <1>19, DealEffect, DealReports, DealPosition, FreshRecords DEF StopIsExplained
<1>20. CASE InstallerFails
  BY <1>1, <1>20, InstallerFailsEffect, FreshRecords DEF StopIsExplained
<1>21. CASE InstallerCallback
  BY <1>1, <1>21, InstallerCallbackEffect, FreshRecords DEF StopIsExplained
<1>22. CASE LateCallback
  BY <1>1, <1>22, LateCallbackEffect, FreshRecords DEF StopIsExplained
<1>23. CASE Crash
  BY <1>1, <1>23, CrashEffect, FreshRecords DEF StopIsExplained
<1>24. CASE HeadersCome
  BY <1>1, <1>24, HeadersComeEffect DEF StopIsExplained
<1>25. CASE UpdateProgressByTaskId
  BY <1>1, <1>25, UpdateProgressByTaskIdEffect DEF StopIsExplained
<1>26. ASSUME NEW order \in Asked, DoInstall(order) PROVE StopIsExplained'
  BY <1>1, <1>26, DoInstallEffect DEF StopIsExplained
<1>27. CASE GetStepAfterInit
  BY <1>1, <1>27, GetStepAfterInitEffect DEF StopIsExplained
<1>28. CASE InstallComponentWithRetry
  BY <1>1, <1>28, InstallComponentWithRetryEffect DEF StopIsExplained
<1>29. CASE DoReboot
  BY <1>1, <1>29, DoRebootEffect DEF StopIsExplained
<1>30. QED BY <1>3, <1>4, <1>5, <1>6, <1>7, <1>8, <1>9, <1>10, <1>11, <1>12, <1>13, <1>14, <1>15, <1>16,
    <1>17, <1>18, <1>19, <1>20, <1>21, <1>22, <1>23, <1>24, <1>25, <1>26, <1>27, <1>28, <1>29
    DEF Next, Flow, Works, Transfer

(* An order to install only never reaches the reboot.                      *)
LEMMA OrderStep ==
    ASSUME StreamIInv, StreamTypes', Next PROVE OrderIsAsked'
<1>1. StreamTypes /\ OrderIsAsked
  BY DEF StreamIInv
<1>2. CASE UNCHANGED main
  BY <1>1, <1>2 DEF OrderIsAsked
<1>3. ASSUME NEW order \in Asked, DoInstall(order) PROVE OrderIsAsked'
  BY <1>1, <1>3, DoInstallEffect DEF OrderIsAsked
<1>4. CASE GetStepAfterInit
  BY <1>1, <1>4, GetStepAfterInitEffect DEF OrderIsAsked
<1>5. CASE WriteInstalling
  BY <1>1, <1>5, WriteInstallingEffect DEF OrderIsAsked
<1>6. CASE DoSysInstall
  BY <1>1, <1>6, DoSysInstallEffect DEF OrderIsAsked
<1>7. CASE StartStreamUpdate
  BY <1>1, <1>7, StartStreamUpdateEffect DEF OrderIsAsked
<1>8. CASE StartDownload
  BY <1>1, <1>8, StartDownloadEffect DEF OrderIsAsked
<1>9. CASE WaitInstallResult
  BY <1>1, <1>9, WaitInstallResultEffect, FreshRecords DEF OrderIsAsked
<1>10. CASE WaitTimesOut
  BY <1>1, <1>10, WaitTimesOutEffect, FreshRecords DEF OrderIsAsked
<1>11. CASE InstallComponentWithRetry
  BY <1>1, <1>11, InstallComponentWithRetryEffect DEF OrderIsAsked
<1>12. CASE HandleInstallResult
  BY <1>1, <1>12, HandleInstallResultEffect DEF OrderIsAsked
<1>13. CASE GetStepAfterInstall
  BY <1>1, <1>13, GetStepAfterInstallEffect DEF OrderIsAsked
<1>14. CASE Destroy
  BY <1>1, <1>14, DestroyEffect, FreshRecords DEF OrderIsAsked
<1>15. CASE DoReboot
  BY <1>1, <1>15, DoRebootEffect DEF OrderIsAsked
<1>16. CASE Restart
  BY <1>1, <1>16, RestartEffect DEF OrderIsAsked
<1>17. CASE InstallerCallback
  BY <1>1, <1>17, InstallerCallbackEffect, FreshRecords DEF OrderIsAsked
<1>18. CASE LateCallback
  BY <1>1, <1>18, LateCallbackEffect, FreshRecords DEF OrderIsAsked
<1>19. CASE Crash
  BY <1>1, <1>19, CrashEffect, FreshRecords DEF OrderIsAsked
<1>20. CASE UpdateProgressByTaskId
  BY <1>1, <1>20, UpdateProgressByTaskIdEffect DEF OrderIsAsked
<1>21. QED BY <1>2, <1>3, <1>4, <1>5, <1>6, <1>7, <1>8, <1>9, <1>10, <1>11, <1>12, <1>13, <1>14, <1>15, <1>16,
    <1>17, <1>18, <1>19, <1>20 DEF Next, Flow, Works, Transfer, HeadersCome, DownloadProgress, ExecuteThreadFunc,
    Work, Ends, Joining, WriteFunc,
    DownloadFile, DownloadCallback, Receive, CheckFileSize, Deal, Block, InstallerFails, StreamStopped

(* No block is handed over out of place, and none is taken past a gap.     *)
LEMMA SeenStep ==
    ASSUME StreamIInv, StreamTypes', Next PROVE (BlocksInPlace /\ NoByteSkipped)'
<1>1. /\ StreamTypes /\ BlocksInPlace /\ NoByteSkipped /\ BufferFits /\ ThreadFeedsSession
      /\ QueueIsContiguous /\ SessionFollowsFlow
  BY DEF StreamIInv
<1>2. CASE UNCHANGED seen
  BY <1>1, <1>2 DEF BlocksInPlace, NoByteSkipped
<1>3. CASE WriteInstalling
  BY <1>1, <1>3, WriteInstallingEffect DEF BlocksInPlace, NoByteSkipped
<1>4. CASE StartStreamUpdate
  BY <1>1, <1>4, StartStreamUpdateEffect DEF BlocksInPlace, NoByteSkipped
<1>5. CASE WaitInstallResult
  BY <1>1, <1>5, WaitInstallResultEffect, FreshRecords DEF BlocksInPlace, NoByteSkipped
<1>6. CASE WaitTimesOut
  BY <1>1, <1>6, WaitTimesOutEffect, FreshRecords DEF BlocksInPlace, NoByteSkipped
<1>7. CASE Restart
  BY <1>1, <1>7, RestartEffect DEF BlocksInPlace, NoByteSkipped
<1>8. CASE WriteFunc
  <2>1. inst.up /\ "mixed" \notin seen => inst.next = worker.off - worker.bufferPos
    BY <1>1, <1>8, WriteFuncEffect DEF SessionFollowsFlow, ThreadFeedsSession, Mixed
  <2>2. QED BY <1>1, <2>1, <1>8, WriteFuncEffect DEF BlocksInPlace, NoByteSkipped
<1>9. CASE DownloadFile \/ DownloadProgress
  BY <1>1, <1>9, DownloadFileEffect DEF BlocksInPlace, NoByteSkipped
<1>10. ASSUME NEW n \in 1 .. BufferRoom, Deal(n) PROVE (BlocksInPlace /\ NoByteSkipped)'
  <2>1. inst.up /\ ("mixed" \notin seen => Contiguous(inst.queue, inst.next) /\ Position <= inst.dealt) /\ InstType
    BY <1>1, <1>10, DealReports DEF QueueIsContiguous, Mixed, StreamTypes
  <2>2. "mixed" \notin seen => inst.queue[1].start <= inst.dealt
    BY <2>1, <1>10, DealPosition
  <2>3. QED BY <1>1, <2>2, <1>10, DealReports DEF BlocksInPlace, NoByteSkipped
<1>11. CASE InstallerFails
  BY <1>1, <1>11, InstallerFailsEffect, FreshRecords DEF BlocksInPlace, NoByteSkipped
<1>12. CASE InstallerCallback
  BY <1>1, <1>12, InstallerCallbackEffect, FreshRecords DEF BlocksInPlace, NoByteSkipped
<1>13. CASE LateCallback
  BY <1>1, <1>13, LateCallbackEffect, FreshRecords DEF BlocksInPlace, NoByteSkipped
<1>14. QED BY <1>2, <1>3, <1>4, <1>5, <1>6, <1>7, <1>8, <1>9, <1>10, <1>11, <1>12, <1>13 DEF Next, Flow,
    Works, Transfer, HeadersCome, UpdateProgressByTaskId, DoInstall, CanInstall, GetStepAfterInit, Step,
    DoSysInstall, StreamStopped, StartDownload,
    InstallComponentWithRetry, HandleInstallResult, GetStepAfterInstall, Destroy, Applies, DoReboot,
    ExecuteThreadFunc, Work, Ends, Joining, DownloadCallback, Receive, CheckFileSize, Crash

(* A complete transfer has flushed its buffer.                             *)
LEMMA DrainStep ==
    ASSUME StreamIInv, StreamTypes', Next PROVE NothingLeftInBuffer'
<1>1. StreamTypes /\ NothingLeftInBuffer /\ BufferFits /\ CountIsOffset
  BY DEF StreamIInv
<1>2. CASE UNCHANGED <<worker, seen>>
  BY <1>1, <1>2 DEF NothingLeftInBuffer, CountIsOffset, Mixed
<1>3. CASE WriteInstalling
  BY <1>1, <1>3, WriteInstallingEffect DEF NothingLeftInBuffer, CountIsOffset, Mixed
<1>4. CASE StartStreamUpdate
  BY <1>1, <1>4, StartStreamUpdateEffect DEF NothingLeftInBuffer, CountIsOffset, Mixed
<1>5. CASE StartDownload
  BY <1>1, <1>5, StartDownloadEffect DEF NothingLeftInBuffer, CountIsOffset, Mixed
<1>6. CASE WaitInstallResult
  BY <1>1, <1>6, WaitInstallResultEffect, FreshRecords DEF NothingLeftInBuffer, CountIsOffset, Mixed
<1>7. CASE WaitTimesOut
  BY <1>1, <1>7, WaitTimesOutEffect, FreshRecords DEF NothingLeftInBuffer, CountIsOffset, Mixed
<1>8. CASE Destroy
  BY <1>1, <1>8, DestroyEffect, FreshRecords DEF NothingLeftInBuffer, CountIsOffset, Mixed
<1>9. CASE Restart
  BY <1>1, <1>9, RestartEffect DEF NothingLeftInBuffer, CountIsOffset, Mixed
<1>10. CASE ExecuteThreadFunc
  BY <1>1, <1>10, ExecuteThreadFuncEffect DEF NothingLeftInBuffer, CountIsOffset, Mixed
<1>11. CASE WriteFunc
  BY <1>1, <1>11, WriteFuncEffect DEF NothingLeftInBuffer, CountIsOffset, Mixed
<1>12. CASE DownloadFile \/ DownloadProgress
  BY <1>1, <1>12, DownloadFileEffect DEF NothingLeftInBuffer, CountIsOffset, Mixed
<1>13. CASE DownloadCallback
  BY <1>1, <1>13, DownloadCallbackEffect, FreshRecords DEF NothingLeftInBuffer, CountIsOffset, Mixed
<1>14. ASSUME NEW n \in 1 .. Size, Receive(n) PROVE NothingLeftInBuffer'
  BY <1>1, <1>14, ReceiveEffect DEF NothingLeftInBuffer, CountIsOffset, Mixed
<1>15. CASE CheckFileSize
  BY <1>1, <1>15, CheckFileSizeEffect DEF NothingLeftInBuffer, CountIsOffset, Mixed
<1>16. ASSUME NEW n \in 1 .. BufferRoom, Deal(n) PROVE NothingLeftInBuffer'
  BY <1>1, <1>16, DealEffect, DealReports, DealPosition, FreshRecords DEF NothingLeftInBuffer, CountIsOffset,
      Mixed
<1>17. CASE InstallerFails
  BY <1>1, <1>17, InstallerFailsEffect, FreshRecords DEF NothingLeftInBuffer, CountIsOffset, Mixed
<1>18. CASE InstallerCallback
  BY <1>1, <1>18, InstallerCallbackEffect, FreshRecords DEF NothingLeftInBuffer, CountIsOffset, Mixed
<1>19. CASE LateCallback
  BY <1>1, <1>19, LateCallbackEffect, FreshRecords DEF NothingLeftInBuffer, CountIsOffset, Mixed
<1>20. CASE Crash
  BY <1>1, <1>20, CrashEffect, FreshRecords DEF NothingLeftInBuffer, CountIsOffset, Mixed
<1>21. CASE HeadersCome
  BY <1>1, <1>21, HeadersComeEffect DEF NothingLeftInBuffer, CountIsOffset, Mixed
<1>22. QED BY <1>2, <1>3, <1>4, <1>5, <1>6, <1>7, <1>8, <1>9, <1>10, <1>11, <1>12, <1>13, <1>14, <1>15, <1>16,
    <1>17, <1>18, <1>19, <1>20, <1>21 DEF Next, Flow, Works, Transfer, UpdateProgressByTaskId, DoInstall,
    CanInstall, GetStepAfterInit, Step,
    DoSysInstall, StreamStopped, InstallComponentWithRetry, HandleInstallResult, GetStepAfterInstall, DoReboot,
    Applies

-----------------------------------------------------------------------------
(* The theorems                                                            *)

(* The first attempt starts from nothing.                                  *)
LEMMA StreamInit == Init => StreamIInv
<1> SUFFICES ASSUME Init PROVE StreamIInv
  OBVIOUS
<1>1. /\ task = "CHECK_VERSION_SUCCESS" /\ point = 0 /\ main = Idle /\ dl = "INIT" /\ sys = "INIT"
      /\ worker = NoWorker /\ inst = Closed /\ report = NoReport
      /\ bounds = [calls |-> 0, faults |-> 0] /\ seen = {}
  BY DEF Init
<1>2. StreamTypes
  <2>1. MainType /\ WorkerType /\ ReportType
    BY <1>1, FreshRecords, Names DEF MainType, WorkerType, ReportType
  <2>2. Len(inst.queue) = 0 /\ inst \in InstRecord
    BY <1>1, FreshRecords
  <2>3. InstType
    BY <2>2 DEF InstType
  <2>4. RowType /\ StatusType
    BY <1>1, Sizes DEF RowType, StatusType
  <2>5. QED BY <2>1, <2>3, <2>4 DEF StreamTypes
<1>3. TaskFollowsFlow /\ SessionFollowsFlow /\ BufferFits /\ OrderIsAsked
  BY <1>1, FreshRecords, Names DEF TaskFollowsFlow, SessionFollowsFlow, BufferFits, OrderIsAsked
<1>4. QueueIsContiguous /\ ThreadFeedsSession
  BY <1>1, FreshRecords DEF QueueIsContiguous, ThreadFeedsSession
<1>5. PointIsBehind /\ CountIsOffset
  BY <1>1, FreshRecords DEF PointIsBehind, FrameLives, CountIsOffset
<1>6. SuccessIsDealt /\ StopIsExplained
  BY <1>1, FreshRecords DEF SuccessIsDealt, StopIsExplained
<1>7. BlocksInPlace /\ NoByteSkipped /\ NothingLeftInBuffer
  BY <1>1, FreshRecords DEF BlocksInPlace, NoByteSkipped, NothingLeftInBuffer
<1>8. QED BY <1>2, <1>3, <1>4, <1>5, <1>6, <1>7 DEF StreamIInv

(* Every step of the flow, of the thread and of the installer keeps the    *)
(* invariant.                                                              *)
LEMMA StreamInductive == ASSUME StreamIInv, Next PROVE StreamIInv'
<1>1. StreamTypes'
  BY TypeStep
<1>2. TaskFollowsFlow' /\ SessionFollowsFlow' /\ BufferFits' /\ QueueIsContiguous' /\ ThreadFeedsSession'
  BY <1>1, TaskStep, SessionStep, BufferStep, QueueStep, ThreadStep
<1>3. PointIsBehind' /\ CountIsOffset' /\ SuccessIsDealt' /\ StopIsExplained' /\ OrderIsAsked'
  BY <1>1, PointStep, CountStep, SuccessStep, StopStep, OrderStep
<1>4. BlocksInPlace' /\ NoByteSkipped' /\ NothingLeftInBuffer'
  BY <1>1, SeenStep, DrainStep
<1>5. QED BY <1>1, <1>2, <1>3, <1>4 DEF StreamIInv

(* The invariant holds in every state.                                     *)
LEMMA StreamIInvHolds == Spec => []StreamIInv
<1>1. StreamIInv /\ [Next]_vars => StreamIInv'
  <2> SUFFICES ASSUME StreamIInv, [Next]_vars PROVE StreamIInv'
    OBVIOUS
  <2>1. CASE Next
    BY <2>1, StreamInductive
  <2>2. CASE UNCHANGED vars
    BY <2>2 DEF vars, StreamIInv, StreamTypes, MainType, WorkerType, InstType, ReportType, RowType, StatusType,
                TaskFollowsFlow, SessionFollowsFlow, BufferFits, QueueIsContiguous, Position, ThreadFeedsSession,
                Running, PointIsBehind, Pending, FrameLives, CountIsOffset, SuccessIsDealt, StopIsExplained,
                OrderIsAsked, BlocksInPlace, NoByteSkipped, NothingLeftInBuffer, Mixed
  <2>3. QED BY <2>1, <2>2
<1>2. QED BY <1>1, StreamInit, PTL DEF Spec

(* The installer is given every byte of the package in its place, and a    *)
(* success is of the whole package, whatever the sizes of the package, of  *)
(* the buffer, of curl's chunks and of an int are, and however many        *)
(* attempts, faults and restarts there are.                                *)
THEOREM StreamIsWhole == Spec => []StreamInv
<1>1. StreamIInv => StreamInv
  <2> SUFFICES ASSUME StreamIInv PROVE StreamInv
    OBVIOUS
  <2>1. StreamTypes /\ BlocksInPlace /\ NoByteSkipped /\ NothingLeftInBuffer /\ SuccessIsDealt
    BY DEF StreamIInv
  <2>2. SuccessIsWhole
    BY <2>1 DEF SuccessIsDealt, SuccessIsWhole, Mixed
  <2>3. inst \in InstRecord
    BY <2>1 DEF StreamTypes, InstType
  <2>4. /\ {inst.up, inst.heard} \subseteq BOOLEAN /\ inst.next \in 0 .. Size /\ inst.dealt \in 0 .. Size
        /\ inst.queue \in Seq(Blocks)
    BY <2>3 DEF InstRecord
  <2>5. \A i \in DOMAIN inst.queue : inst.queue[i] \in Blocks
    <3> DEFINE q == inst.queue
    <3>1. q \in Seq(Blocks)
      BY <2>4
    <3> HIDE DEF q
    <3>2. \A i \in DOMAIN q : q[i] \in Blocks
      BY <3>1
    <3>3. QED BY <3>2 DEF q
  <2>6. TypeOK
    BY <2>1, <2>4, <2>5 DEF TypeOK, StreamTypes, MainType, MainRecord, WorkerType, WorkerRecord, ReportType,
                            ReportRecord, RowType, StatusType, Blocks
  <2>7. QED BY <2>1, <2>2, <2>6 DEF StreamInv
<1>2. QED BY <1>1, StreamIInvHolds, PTL

(* A recorded pause has a reason, and the device is restarted only when it *)
(* was asked for or the service had restarted.                             *)
THEOREM StatusHasReason == Spec => []StatusIsExplained
<1>1. StreamIInv => StatusIsExplained
  BY DEF StreamIInv, StopIsExplained, OrderIsAsked, StatusIsExplained, PauseIsExplained, RebootIsAsked
<1>2. QED BY <1>1, StreamIInvHolds, PTL


(* A step that leaves the rows, the bytes dealt with and the mix-up alone  *)
(* is a stutter of the rows.                                               *)
LEMMA RowsStutter ==
    ASSUME UNCHANGED <<task, point, inst.dealt>>, "mixed" \in seen' <=> "mixed" \in seen
    PROVE  UNCHANGED Rows!vars
BY DEF Rows!vars

(* Every step of the streamed install is a step of its rows, or a stutter. *)
LEMMA RowsStep == ASSUME StreamIInv, StreamIInv', Next PROVE [Rows!Next]_(Rows!vars)
<1>1. StreamTypes /\ TaskFollowsFlow /\ BufferFits /\ SuccessIsDealt /\ PointIsBehind'
  BY DEF StreamIInv
<1>2. CASE WriteInstalling
  <2>1. Rows!Begin
    BY <1>1, <1>2, WriteInstallingEffect DEF Rows!Begin, TaskFollowsFlow
  <2>2. QED BY <2>1 DEF Rows!Next
<1>3. CASE DoSysInstall
  BY <1>1, <1>3, DoSysInstallEffect, RowsStutter
<1>4. CASE StartStreamUpdate
  <2>1. UNCHANGED <<task, point, inst.dealt>> /\ ("mixed" \in seen => "mixed" \in seen')
    BY <1>1, <1>4, StartStreamUpdateEffect
  <2>2. CASE "mixed" \in seen'
    BY <2>1, <2>2 DEF Rows!MixUp, Rows!Next
  <2>3. CASE "mixed" \notin seen'
    BY <2>1, <2>3, RowsStutter
  <2>4. QED BY <2>2, <2>3
<1>5. CASE WaitInstallResult
  BY <1>1, <1>5, WaitInstallResultEffect, RowsStutter
<1>6. CASE WaitTimesOut
  BY <1>1, <1>6, WaitTimesOutEffect, RowsStutter
<1>7. CASE HandleInstallResult
  BY <1>1, <1>7, HandleInstallResultEffect, RowsStutter
<1>8. CASE GetStepAfterInstall
  <2>1. CASE task = "INSTALL_FAIL" /\ task' = "none" /\ point' = 0
    BY <1>1, <1>8, <2>1, GetStepAfterInstallEffect DEF Rows!Clear, Rows!Next
  <2>2. CASE UNCHANGED <<task, point>>
    BY <1>1, <1>8, <2>2, GetStepAfterInstallEffect, RowsStutter
  <2>3. QED BY <1>1, <1>8, <2>1, <2>2, GetStepAfterInstallEffect
<1>9. CASE Destroy
  BY <1>1, <1>9, DestroyEffect, RowsStutter
<1>10. CASE Restart
  <2>1. CASE task = "INSTALLING"
    BY <1>1, <1>10, <2>1, RestartEffect DEF Rows!Stop, Rows!Next
  <2>2. CASE task # "INSTALLING"
    BY <1>1, <1>10, <2>2, RestartEffect, RowsStutter
  <2>3. QED BY <2>1, <2>2
<1>11. CASE WriteFunc
  BY <1>1, <1>11, WriteFuncEffect, RowsStutter
<1>12. CASE DownloadFile \/ DownloadProgress
  BY <1>1, <1>12, DownloadFileEffect, RowsStutter
<1>13. ASSUME NEW n \in 1 .. BufferRoom, Deal(n) PROVE [Rows!Next]_(Rows!vars)
  <2>1. UNCHANGED <<task, point>> /\ ("mixed" \in seen' <=> "mixed" \in seen)
    <3>1. UNCHANGED <<task, point>> /\ (seen' = seen \/ seen' = seen \cup {"gap"})
      BY <1>1, <1>13, DealReports
    <3>2. QED BY <3>1
  <2>2. inst'.dealt >= inst.dealt /\ inst'.dealt \in 0 .. Size /\ inst.dealt \in 0 .. Size
    BY <1>1, <1>13, DealEffect DEF StreamTypes, InstType, InstRecord
  <2>3. CASE inst'.dealt = inst.dealt
    BY <2>1, <2>3, RowsStutter
  <2>4. CASE inst'.dealt # inst.dealt
    <3>1. inst'.dealt \in inst.dealt + 1 .. Size
      BY <2>2, <2>4, Sizes
    <3>2. QED BY <2>1, <3>1 DEF Rows!Deal, Rows!Next
  <2>5. QED BY <2>3, <2>4
<1>14. CASE InstallerFails
  BY <1>1, <1>14, InstallerFailsEffect, RowsStutter
<1>15. CASE InstallerCallback
  <2>1. UNCHANGED <<task, inst.dealt>> /\ ("mixed" \in seen' <=> "mixed" \in seen)
    BY <1>1, <1>15, InstallerCallbackEffect
  <2>2. "mixed" \in seen \/ point' <= inst.dealt
    BY <1>1, <2>1 DEF PointIsBehind, Mixed
  <2>3. QED BY <2>1, <2>2 DEF Rows!Count, Rows!Next
<1>16. CASE LateCallback
  <2>1. UNCHANGED <<task, inst.dealt>> /\ ("mixed" \in seen => "mixed" \in seen')
    BY <1>1, <1>16, LateCallbackEffect
  <2>2. CASE "mixed" \in seen'
    BY <2>1, <2>2 DEF Rows!MixUp, Rows!Next
  <2>3. CASE "mixed" \notin seen'
    <3>1. UNCHANGED point
      BY <1>1, <1>16, <2>3, LateCallbackEffect
    <3>2. QED BY <2>1, <2>3, <3>1, RowsStutter
  <2>4. QED BY <2>2, <2>3
<1>17. CASE Crash
  BY <1>1, <1>17, CrashEffect, RowsStutter
<1>18. CASE UNCHANGED <<task, point, inst, seen>>
  BY <1>18, RowsStutter
<1>19. CASE UpdateProgressByTaskId
  <2>1. task = "INSTALLING" /\ task' = main.taskProgress /\ UNCHANGED <<point, inst, seen>>
    BY <1>1, <1>19, UpdateProgressByTaskIdEffect DEF TaskFollowsFlow
  <2>2. CASE task' = "INSTALL_SUCCESS"
    <3>1. inst.dealt = Size \/ "mixed" \in seen
      BY <1>1, <2>1, <2>2 DEF SuccessIsDealt, Mixed
    <3>2. QED BY <2>1, <2>2, <3>1 DEF Rows!Succeed, Rows!Next
  <2>3. CASE task' \in {"INSTALL_PAUSE", "INSTALL_FAIL"}
    BY <2>1, <2>3 DEF Rows!Stop, Rows!Next
  <2>4. CASE task' = "INSTALLING"
    BY <2>1, <2>4, RowsStutter
  <2>5. QED BY <1>1, <1>19, <2>2, <2>3, <2>4, UpdateProgressByTaskIdEffect
<1>20. QED
  BY <1>2, <1>3, <1>4, <1>5, <1>6, <1>7, <1>8, <1>9, <1>10, <1>11, <1>12, <1>13, <1>14, <1>15, <1>16, <1>17,
      <1>18, <1>19
  DEF Next, Flow, Works, Transfer, HeadersCome, DoInstall, GetStepAfterInit, StartDownload,
      InstallComponentWithRetry, DoReboot,
      ExecuteThreadFunc, DownloadCallback, Receive, CheckFileSize, Work

(* Only a new install replaces a result.                                   *)
LEMMA ResultStaysStep ==
    ASSUME StreamIInv, Next, task \in {"INSTALL_SUCCESS", "INSTALL_PAUSE"}, main.pc # "write"
    PROVE  task' = task
<1>1. TaskFollowsFlow
  BY DEF StreamIInv
<1>2. ASSUME NEW n \in 1 .. BufferRoom, Deal(n) PROVE task' = task
  BY <1>2 DEF Deal
<1>3. QED
  BY <1>1, <1>2 DEF TaskFollowsFlow, Next, Flow, Works, Transfer, HeadersCome, DownloadProgress,
      UpdateProgressByTaskId, DoInstall, GetStepAfterInit, WriteInstalling,
      DoSysInstall,
     StartStreamUpdate, StartDownload, WaitInstallResult, WaitTimesOut, InstallComponentWithRetry,
     HandleInstallResult, GetStepAfterInstall, Destroy, DoReboot, Restart, ExecuteThreadFunc, WriteFunc,
     DownloadFile, DownloadCallback, Receive, CheckFileSize, InstallerFails, InstallerCallback, CountReport,
     LateCallback, Crash, Work

(* The streamed install implements the promise of its rows: StreamRow's    *)
(* status, record point and success, with the result kept until the next   *)
(* install begins.                                                         *)
THEOREM StreamKeepsRows == Spec => KeepsRows
<1>1. Init => Rows!Init
  BY FreshRecords DEF Init, Rows!Init
<1>2. StreamIInv /\ StreamIInv' /\ [Next]_vars => [Rows!Next]_(Rows!vars)
  <2> SUFFICES ASSUME StreamIInv, StreamIInv', [Next]_vars PROVE [Rows!Next]_(Rows!vars)
    OBVIOUS
  <2>1. CASE Next
    BY <2>1, RowsStep
  <2>2. CASE UNCHANGED vars
    BY <2>2, RowsStutter DEF vars
  <2>3. QED BY <2>1, <2>2
<1>3. StreamIInv /\ [Next]_vars
        => [(task \in {"INSTALL_SUCCESS", "INSTALL_PAUSE"} /\ main.pc # "write") => task' = task]_vars
  BY ResultStaysStep
<1>4. QED BY <1>1, <1>2, <1>3, StreamIInvHolds, PTL DEF Spec, KeepsRows, Rows!Spec, ResultStays
=============================================================================
