------------------------ MODULE ServiceCalls_proofs ------------------------
(***************************************************************************)
(* Proofs about ServiceCalls, for any IPC threads, requests, callers,      *)
(* infos and hooks, and any number of calls.                               *)
(***************************************************************************)
EXTENDS ServiceCalls, TLAPS

(***************************************************************************)
(* The inductive invariant, part by part.                                  *)
(***************************************************************************)
Pcs == {"idle", "entered", "wait", "leave", "query", "start", "install", "mode", "cancel", "components",
        "erased", "done"}
Statuses == {"INIT", "CHECK_VERSION_SUCCESS", "DOWNLOADING", "DOWNLOAD_PAUSE", "DOWNLOAD_FAIL",
             "DOWNLOAD_SUCCESS", "INSTALLING", "INSTALL_FAIL", "INSTALL_SUCCESS", "UPDATING"}

\* A record with the fields of a call.
IsCall(c) ==
    c \in [pc : {c.pc}, code : {c.code}, who : {c.who}, info : {c.info}, id : {c.id}, fair : {c.fair},
           err : {c.err}, got : {c.got}]

CallTypes ==
    /\ calls = [s \in Slots |-> calls[s]]
    /\ \A s \in Slots : IsCall(calls[s]) /\ calls[s].pc \in Pcs /\ calls[s].fair \in BOOLEAN
    /\ made \in Nat

ServiceTypes ==
    /\ stage \in {"load", "publish", "up"} /\ tries \in 0 .. dlopenTries /\ loaded \in BOOLEAN
    /\ hooked \subseteq Hookable /\ (hooked # {} => loaded)
    /\ recent \subseteq {"download", "upgrade"} /\ keys \in {"present", "erased"}
    /\ stage = "load" => loaded = FALSE /\ tries < dlopenTries

CheckTypes ==
    /\ updateImpMap \subseteq Infos /\ checkComplete \in [Infos -> BOOLEAN]
    /\ threads \subseteq [id : 1 .. made, info : updateImpMap, pc : {"ask", "insert", "insertTask", "call"}]

RowTypes ==
    /\ db \in [task : Nat, comps : Nat, status : Statuses]
    /\ starts \in [download : Nat, upgrade : Nat]
    /\ unseen \in BOOLEAN /\ crossed \in BOOLEAN

(* What the step of a call says about it.                                  *)
CallsFit ==
    \A s \in Slots :
      /\ calls[s].pc # "idle" => stage = "up"
      /\ calls[s].pc \in {"wait", "leave"} => calls[s].code = "CHECK_VERSION"
      /\ calls[s].pc \in {"query", "start"} => calls[s].code = "DOWNLOAD"
      /\ calls[s].pc \in {"install", "mode"} => calls[s].code = "UPGRADE"
      /\ calls[s].pc = "cancel" => calls[s].code = "CANCEL"
      /\ calls[s].pc = "components" => calls[s].code = "GET_NEW_VERSION"
      /\ calls[s].pc = "erased" => calls[s].code = "FORCE_FACTORY_RESET"
      /\ calls[s].pc = "entered" => calls[s].got = <<>>
      /\ calls[s].pc = "entered" /\ calls[s].code \in OnlineCodes => calls[s].info \in Infos
      /\ calls[s].pc \in Serving => calls[s].info \in updateImpMap
      /\ calls[s].pc \notin {"idle", "done"} => calls[s].id \in 1 .. made

(* A call under way was checked, or it waits to be handed to the extension *)
(* that hooked it.                                                         *)
Checked(s) ==
    /\ IsCallerValid(calls[s].who) /\ IsPermissionGranted(calls[s].who, calls[s].code)
    /\ calls[s].code \in ResetCodes => calls[s].fair
    /\ build # "empty" /\ ~loaded /\ IsUserUnlockRequired(calls[s].code) => unlocked

CallsAreChecked ==
    \A s \in Slots : calls[s].pc \notin {"idle", "done"} =>
        Checked(s) \/ (calls[s].pc = "entered" /\ loaded /\ calls[s].code \in hooked)

(* A call and a thread have an id of their own.                            *)
IdsDiffer ==
    /\ \A s, t \in Slots : calls[s].pc \notin {"idle", "done"} /\ calls[t].pc \notin {"idle", "done"}
                           /\ calls[s].id = calls[t].id => s = t
    /\ \A t, u \in threads : t.id = u.id => t = u
    /\ \A s \in Slots, t \in threads : calls[s].pc = "entered" => calls[s].id # t.id
    /\ \A s \in Slots, t \in threads : calls[s].pc \in {"wait", "leave"} /\ calls[s].id = t.id
                                       => calls[s].info = t.info

Waits(s, i) == calls[s].pc \in {"wait", "leave"} /\ calls[s].info = i

(* Checks of an updater that did not overlap are one at a time.            *)
OneWaits == \A s, t \in Slots : \A i \in Infos \ overlap : Waits(s, i) /\ Waits(t, i) => s = t

Quiet(i) == i \notin overlap \cup timedOut

(* The flag is up for the call that has its answer; every thread has a     *)
(* call that waits for it.                                                 *)
FlagIsOwn ==
    \A i \in Infos : Quiet(i) /\ checkComplete[i] => \E s \in Slots : Waits(s, i) /\ calls[s].got # <<>>
ThreadIsAwaited ==
    \A t \in threads : Quiet(t.info) =>
        \E s \in Slots : Waits(s, t.info) /\ calls[s].id = t.id /\ calls[s].got = <<>>

(* An answer raises the flag; who leaves has one, or was told TIME_OUT.    *)
AnswerRaisesFlag ==
    \A s \in Slots : calls[s].pc = "wait" /\ calls[s].info \notin overlap /\ calls[s].got # <<>>
                     => checkComplete[calls[s].info]
LeavesWithAnswer ==
    \A s \in Slots : calls[s].pc = "leave" /\ calls[s].info \notin overlap =>
        /\ Quiet(calls[s].info) => calls[s].got # <<>>
        /\ calls[s].err = "TIME_OUT" => calls[s].got = <<>>

(* One check fills the tables, and meanwhile the row says INIT; otherwise  *)
(* the tables are of one version.                                          *)
Fills(t) == t.pc \in {"insert", "insertTask"}
TablesAgree ==
    ~crossed =>
      /\ \A t, u \in threads : Fills(t) /\ Fills(u) => t = u
      /\ \A t \in threads : Fills(t) => db.status = "INIT"
      /\ \A t \in threads : t.pc = "insertTask" => db.comps = 2
      /\ (\A t \in threads : t.pc # "insertTask") => db.task = db.comps

(* What GetNewVersionInfo has read is still so, or its call is torn.       *)
ReadIsCurrent ==
    \A s \in Slots : calls[s].pc = "components" /\ ~calls[s].fair /\ ~crossed =>
        calls[s].got = <<db.task>> /\ db.task = db.comps

(* At most one start is under way, and a call that passed the filter meets *)
(* one only where the status tells it so; once the second has passed the   *)
(* start shows in the status.                                              *)
Downloads(s) == calls[s].pc \in {"query", "start"}
Upgrades(s) == calls[s].pc \in {"install", "mode"}
OneDownload ==
    /\ \A s, t \in Slots : Downloads(s) /\ Downloads(t) => s = t
    /\ \A s \in Slots : calls[s].pc = "query" /\ starts.download > 0 => db.status = "DOWNLOADING"
    /\ \A s \in Slots : calls[s].pc = "start" => starts.download = 0
    /\ starts.download <= 1
    /\ "download" \notin recent => \A s \in Slots : ~Downloads(s)
    /\ "download" \notin recent /\ starts.download > 0 => db.status = "DOWNLOADING"
OneUpgrade ==
    /\ \A s, t \in Slots : Upgrades(s) /\ Upgrades(t) => s = t
    /\ \A s \in Slots : calls[s].pc = "install" /\ starts.upgrade > 0 => db.status = "INSTALLING"
    /\ \A s \in Slots : calls[s].pc = "mode" => starts.upgrade = 0
    /\ starts.upgrade <= 1
    /\ "upgrade" \notin recent => \A s \in Slots : ~Upgrades(s)
    /\ "upgrade" \notin recent /\ starts.upgrade > 0 => db.status = "INSTALLING"
OneStarts == ~unseen /\ ~crossed => OneDownload /\ OneUpgrade

ServiceInv ==
    /\ CallTypes /\ ServiceTypes /\ CheckTypes /\ RowTypes
    /\ CallsFit /\ CallsAreChecked /\ IdsDiffer
    /\ OneWaits /\ FlagIsOwn /\ ThreadIsAwaited /\ AnswerRaisesFlag /\ LeavesWithAnswer
    /\ TablesAgree /\ ReadIsCurrent /\ OneStarts
    /\ OwnAnswer /\ NoDeadFrame /\ VersionInfoIsWhole /\ KeysGoneIsTold

-----------------------------------------------------------------------------
(* The operators the specification is built from                           *)

(* A slot's call is replaced, the others stay.                             *)
CallShape ==
    /\ calls = [s \in Slots |-> calls[s]]
    /\ \A s \in Slots : IsCall(calls[s]) /\ calls[s].pc \in Pcs /\ calls[s].fair \in BOOLEAN
Others(s) == \A t \in Slots \ {s} : calls'[t] = calls[t]

(* The call a slot starts from.                                            *)
LEMMA FreshCall ==
    /\ IsCall(NoCall) /\ NoCall.pc = "idle" /\ NoCall.pc \in Pcs /\ NoCall.fair = FALSE /\ NoCall.got = <<>>
    /\ NoCall.err = None /\ NoCall.id = 0
BY DEF IsCall, NoCall, Pcs

(* A call keeps its fields when one of them is replaced.                   *)
LEMMA CallFields ==
    ASSUME NEW c, IsCall(c), NEW x
    PROVE  /\ IsCall([c EXCEPT !.pc = x]) /\ IsCall([c EXCEPT !.fair = x]) /\ IsCall([c EXCEPT !.got = x])
           /\ IsCall([c EXCEPT !.err = x]) /\ IsCall([c EXCEPT !.who = x]) /\ IsCall([c EXCEPT !.id = x])
BY DEF IsCall

(* An answered call is forgotten, or kept as done.                         *)
LEMMA EndedEffect ==
    ASSUME NEW c, IsCall(c), c.fair \in BOOLEAN, NEW err, NEW r, r = Ended(c, err)
    PROVE  /\ IsCall(r) /\ r.pc \in Pcs /\ r.fair \in BOOLEAN
           /\ c.pc = "entered" => r = NoCall
           /\ \/ r = NoCall
              \/ /\ r.pc = "done" /\ c.code \in {"CHECK_VERSION", "GET_NEW_VERSION"}
                 /\ r.code = c.code /\ r.info = c.info /\ r.got = c.got /\ r.fair = c.fair /\ r.err = err
<1>1. CASE c.code \in {"CHECK_VERSION", "GET_NEW_VERSION"} /\ c.pc # "entered"
  <2>1. r = [c EXCEPT !.pc = "done", !.err = err, !.who = Nobody, !.id = 0]
    BY <1>1 DEF Ended
  <2>2. IsCall(r)
    BY <2>1 DEF IsCall
  <2>3. r.pc = "done" /\ r.code = c.code /\ r.info = c.info /\ r.got = c.got /\ r.fair = c.fair /\ r.err = err
    BY <2>1 DEF IsCall
  <2>4. QED BY <1>1, <2>2, <2>3 DEF Pcs
<1>2. CASE ~(c.code \in {"CHECK_VERSION", "GET_NEW_VERSION"} /\ c.pc # "entered")
  <2>1. r = NoCall
    BY <1>2 DEF Ended
  <2>2. QED BY <2>1, FreshCall
<1>3. QED BY <1>1, <1>2

(* One slot's call is replaced by another one.                             *)
LEMMA SlotEffect ==
    ASSUME CallTypes, NEW s \in Slots, NEW c, IsCall(c), c.pc \in Pcs, c.fair \in BOOLEAN,
           calls' = [calls EXCEPT ![s] = c]
    PROVE  CallShape' /\ calls'[s] = c /\ Others(s)
<1>1. calls = [u \in Slots |-> calls[u]]
  BY DEF CallTypes
<1>2. calls'[s] = c /\ Others(s) /\ calls' = [u \in Slots |-> calls'[u]]
  BY <1>1 DEF Others
<1>3. \A u \in Slots : IsCall(calls'[u]) /\ calls'[u].pc \in Pcs /\ calls'[u].fair \in BOOLEAN
  BY <1>2 DEF CallTypes, Others
<1>4. QED BY <1>2, <1>3 DEF CallShape

(* Answer, for the call of a slot.                                         *)
LEMMA AnswerEffect ==
    ASSUME CallTypes, NEW s \in Slots, NEW err, Answer(s, err)
    PROVE  /\ CallShape' /\ Others(s)
           /\ calls[s].pc = "entered" => calls'[s] = NoCall
           /\ \/ calls'[s] = NoCall
              \/ /\ calls'[s].pc = "done" /\ calls[s].code \in {"CHECK_VERSION", "GET_NEW_VERSION"}
                 /\ UNCHANGED <<calls[s].code, calls[s].info, calls[s].got, calls[s].fair>> /\ calls'[s].err = err
<1> DEFINE c == calls[s]
           r == Ended(c, err)
<1>1. IsCall(c) /\ c.fair \in BOOLEAN
  BY DEF CallTypes
<1>2. calls' = [calls EXCEPT ![s] = r]
  BY DEF Answer
<1>3. /\ IsCall(r) /\ r.pc \in Pcs /\ r.fair \in BOOLEAN
      /\ c.pc = "entered" => r = NoCall
      /\ \/ r = NoCall
         \/ /\ r.pc = "done" /\ c.code \in {"CHECK_VERSION", "GET_NEW_VERSION"}
            /\ r.code = c.code /\ r.info = c.info /\ r.got = c.got /\ r.fair = c.fair /\ r.err = err
  BY <1>1, EndedEffect
<1> HIDE DEF r
<1>4. CallShape' /\ calls'[s] = r /\ Others(s)
  BY <1>2, <1>3, SlotEffect
<1>5. QED BY <1>3, <1>4

(* Goto, for the call of a slot.                                           *)
LEMMA GotoEffect ==
    ASSUME CallTypes, NEW s \in Slots, NEW pc \in Pcs, Goto(s, pc)
    PROVE  /\ CallShape' /\ Others(s) /\ calls'[s].pc = pc
           /\ UNCHANGED <<calls[s].code, calls[s].who, calls[s].info, calls[s].id, calls[s].fair,
                          calls[s].err, calls[s].got>>
<1> DEFINE r == [calls[s] EXCEPT !.pc = pc]
<1>1. IsCall(calls[s]) /\ calls[s].fair \in BOOLEAN
  BY DEF CallTypes
<1>2. calls' = [calls EXCEPT ![s] = r]
  BY DEF Goto
<1>3. IsCall(r) /\ r.pc = pc /\ r.code = calls[s].code /\ r.who = calls[s].who /\ r.info = calls[s].info
      /\ r.id = calls[s].id /\ r.fair = calls[s].fair /\ r.err = calls[s].err /\ r.got = calls[s].got
  BY <1>1, CallFields DEF IsCall
<1> HIDE DEF r
<1>4. CallShape' /\ calls'[s] = r /\ Others(s)
  BY <1>1, <1>2, <1>3, SlotEffect
<1>5. QED BY <1>3, <1>4

(* The calls that read the tables meanwhile are marked, nothing else.      *)
LEMMA TornEffect ==
    ASSUME CallTypes, NEW c, c = Torn
    PROVE  /\ c = [s \in Slots |-> c[s]]
           /\ \A s \in Slots :
                /\ IsCall(c[s]) /\ c[s].fair \in BOOLEAN
                /\ c[s].pc = calls[s].pc /\ c[s].code = calls[s].code /\ c[s].who = calls[s].who
                /\ c[s].info = calls[s].info /\ c[s].id = calls[s].id /\ c[s].err = calls[s].err
                /\ c[s].got = calls[s].got
                /\ calls[s].fair => c[s].fair
                /\ calls[s].code = "GET_NEW_VERSION" /\ calls[s].pc \notin {"idle", "done"} => c[s].fair
<1>1. c = [s \in Slots |-> c[s]]
  BY DEF Torn
<1>2. ASSUME NEW s \in Slots
      PROVE  /\ IsCall(c[s]) /\ c[s].fair \in BOOLEAN
             /\ c[s].pc = calls[s].pc /\ c[s].code = calls[s].code /\ c[s].who = calls[s].who
             /\ c[s].info = calls[s].info /\ c[s].id = calls[s].id /\ c[s].err = calls[s].err
             /\ c[s].got = calls[s].got
             /\ calls[s].fair => c[s].fair
             /\ calls[s].code = "GET_NEW_VERSION" /\ calls[s].pc \notin {"idle", "done"} => c[s].fair
  <2> DEFINE f == calls[s].fair \/ (calls[s].code = "GET_NEW_VERSION" /\ s \in Busy)
  <2>1. c[s] = [calls[s] EXCEPT !.fair = f]
    BY DEF Torn
  <2>2. IsCall(calls[s])
    BY DEF CallTypes
  <2>3. f \in BOOLEAN /\ (calls[s].fair => f)
        /\ (calls[s].code = "GET_NEW_VERSION" /\ calls[s].pc \notin {"idle", "done"} => f)
    BY DEF Busy
  <2> HIDE DEF f
  <2>4. /\ IsCall(c[s]) /\ c[s].fair = f
        /\ c[s].pc = calls[s].pc /\ c[s].code = calls[s].code /\ c[s].who = calls[s].who
        /\ c[s].info = calls[s].info /\ c[s].id = calls[s].id /\ c[s].err = calls[s].err
        /\ c[s].got = calls[s].got
    BY <2>1, <2>2, CallFields DEF IsCall
  <2>5. QED BY <2>3, <2>4
<1>3. QED BY <1>1, <1>2

-----------------------------------------------------------------------------
(* What each operation changes                                             *)

(* A call that was let in is answered, and leaves nothing behind but the   *)
(* updater of its info and a reboot.                                       *)
Dismisses(s) ==
    /\ calls[s].pc = "entered" /\ calls'[s] = NoCall /\ Others(s) /\ CallShape'
    /\ updateImpMap \subseteq updateImpMap' /\ updateImpMap' \subseteq Infos
    /\ UNCHANGED <<build, stage, tries, loaded, hooked, unlocked, mdm, made, checkComplete, checking, threads,
                   db, recent, starts, keys, overlap, timedOut, smashed, unseen, crossed, told>>

(* What a handler that only answers does.                                  *)
LEMMA DismissEffect ==
    ASSUME CallTypes, CheckTypes, CallsFit, NEW s \in Slots,
           \/ HandleFunc(s) \/ NoOnlineUpdater(s) \/ Describes(s) \/ ReadsOnly(s)
           \/ FactoryReset(s) \/ DeepFactoryReset(s) \/ GetDeepFactoryResetInfo(s)
           \/ ApplyNewVersion(s) \/ VerifyUpgradePackage(s)
    PROVE  Dismisses(s)
<1>1. updateImpMap \subseteq Infos
  BY DEF CheckTypes
<1>2. CASE HandleFunc(s)
  <2>1. calls[s].pc = "entered" /\ \E err : Answer(s, err)
    BY <1>2 DEF At, Open, Dispatched, HandleFunc
  <2>2. UNCHANGED <<build, stage, tries, loaded, hooked, unlocked, mdm, made, updateImpMap,
                    checkComplete, checking, threads, db, recent, starts, keys, overlap,
                    timedOut, smashed, unseen, crossed, told>>
    BY <1>2 DEF HandleFunc, procVars, envVars, chkVars, devVars, history
  <2>3. QED BY <1>1, <2>1, <2>2, AnswerEffect DEF Dismisses
<1>3. CASE NoOnlineUpdater(s)
  <2>1. calls[s].pc = "entered" /\ \E err : Answer(s, err)
    BY <1>3 DEF At, Open, Dispatched, NoOnlineUpdater
  <2>2. UNCHANGED <<build, stage, tries, loaded, hooked, unlocked, mdm, made, updateImpMap,
                    checkComplete, checking, threads, db, recent, starts, keys, overlap,
                    timedOut, smashed, unseen, crossed, told>>
    BY <1>3 DEF NoOnlineUpdater, procVars, envVars, chkVars, devVars, history
  <2>3. QED BY <1>1, <2>1, <2>2, AnswerEffect DEF Dismisses
<1>4. CASE Describes(s)
  <2>1. calls[s].pc = "entered" /\ \E err : Answer(s, err)
    BY <1>4 DEF At, Dispatched, Describes
  <2>2. calls[s].info \in Infos /\ updateImpMap' = updateImpMap \cup {calls[s].info}
    BY <1>4, <2>1 DEF Describes, GetOnlineUpdater, Dispatched, At, CallsFit, DescriptionCodes, OnlineCodes
  <2>3. UNCHANGED <<build, stage, tries, loaded, hooked, unlocked, mdm, made, checkComplete,
                    checking, threads, db, recent, starts, keys, overlap, timedOut, smashed,
                    unseen, crossed, told>>
    BY <1>4 DEF Describes, procVars, envVars, devVars, history
  <2>4. QED BY <1>1, <2>1, <2>2, <2>3, AnswerEffect DEF Dismisses
<1>5. CASE ReadsOnly(s)
  <2>1. calls[s].pc = "entered" /\ \E err : Answer(s, err)
    BY <1>5 DEF At, Dispatched, ReadsOnly
  <2>2. calls[s].info \in Infos /\ updateImpMap' = updateImpMap \cup {calls[s].info}
    BY <1>5, <2>1 DEF ReadsOnly, GetOnlineUpdater, Dispatched, At, CallsFit, ReadCodes, OnlineCodes
  <2>3. UNCHANGED <<build, stage, tries, loaded, hooked, unlocked, mdm, made, checkComplete,
                    checking, threads, db, recent, starts, keys, overlap, timedOut, smashed,
                    unseen, crossed, told>>
    BY <1>5 DEF ReadsOnly, procVars, envVars, devVars, history
  <2>4. QED BY <1>1, <2>1, <2>2, <2>3, AnswerEffect DEF Dismisses
<1>6. CASE FactoryReset(s)
  <2>1. calls[s].pc = "entered" /\ \E err : Answer(s, err)
    BY <1>6 DEF At, Open, Dispatched, FactoryReset, ExecReset
  <2>2. UNCHANGED <<build, stage, tries, loaded, hooked, unlocked, mdm, made, updateImpMap,
                    checkComplete, checking, threads, db, recent, starts, keys, overlap,
                    timedOut, smashed, unseen, crossed, told>>
    BY <1>6 DEF FactoryReset, procVars, envVars, chkVars, devVars, history
  <2>3. QED BY <1>1, <2>1, <2>2, AnswerEffect DEF Dismisses
<1>7. CASE DeepFactoryReset(s)
  <2>1. calls[s].pc = "entered" /\ \E err : Answer(s, err)
    BY <1>7 DEF At, Open, Dispatched, DeepFactoryReset, ExecReset
  <2>2. UNCHANGED <<build, stage, tries, loaded, hooked, unlocked, mdm, made, updateImpMap,
                    checkComplete, checking, threads, db, recent, starts, keys, overlap,
                    timedOut, smashed, unseen, crossed, told>>
    BY <1>7 DEF DeepFactoryReset, procVars, envVars, chkVars, devVars, history
  <2>3. QED BY <1>1, <2>1, <2>2, AnswerEffect DEF Dismisses
<1>8. CASE GetDeepFactoryResetInfo(s)
  <2>1. calls[s].pc = "entered" /\ \E err : Answer(s, err)
    BY <1>8 DEF At, Open, Dispatched, GetDeepFactoryResetInfo
  <2>2. UNCHANGED <<build, stage, tries, loaded, hooked, unlocked, mdm, made, updateImpMap,
                    checkComplete, checking, threads, db, recent, starts, keys, overlap,
                    timedOut, smashed, unseen, crossed, told>>
    BY <1>8 DEF GetDeepFactoryResetInfo, procVars, envVars, chkVars, devVars, history
  <2>3. QED BY <1>1, <2>1, <2>2, AnswerEffect DEF Dismisses
<1>9. CASE ApplyNewVersion(s)
  <2>1. calls[s].pc = "entered" /\ \E err : Answer(s, err)
    BY <1>9 DEF At, Open, Dispatched, ApplyNewVersion, ExecReset
  <2>2. UNCHANGED <<build, stage, tries, loaded, hooked, unlocked, mdm, made, updateImpMap,
                    checkComplete, checking, threads, db, recent, starts, keys, overlap,
                    timedOut, smashed, unseen, crossed, told>>
    BY <1>9 DEF ApplyNewVersion, procVars, envVars, chkVars, devVars, history
  <2>3. QED BY <1>1, <2>1, <2>2, AnswerEffect DEF Dismisses
<1>10. CASE VerifyUpgradePackage(s)
  <2>1. calls[s].pc = "entered" /\ \E err : Answer(s, err)
    BY <1>10 DEF At, Open, Dispatched, VerifyUpgradePackage
  <2>2. UNCHANGED <<build, stage, tries, loaded, hooked, unlocked, mdm, made, updateImpMap,
                    checkComplete, checking, threads, db, recent, starts, keys, overlap,
                    timedOut, smashed, unseen, crossed, told>>
    BY <1>10 DEF VerifyUpgradePackage, procVars, envVars, chkVars, devVars, history
  <2>3. QED BY <1>1, <2>1, <2>2, AnswerEffect DEF Dismisses
<1>11. QED BY <1>2, <1>3, <1>4, <1>5, <1>6, <1>7, <1>8, <1>9, <1>10

(* OnStart, the hooks, the user and the administrator.                     *)
StandsBy ==
    /\ stage = "up" => stage' = "up" /\ loaded' = loaded
    /\ loaded => loaded' = loaded
    /\ hooked \subseteq hooked' /\ (unlocked => unlocked')
    /\ UNCHANGED <<build, calls, made, updateImpMap, checkComplete, threads,
                   db, recent, starts, keys, reboot, overlap, timedOut, smashed, unseen, crossed, told>>

\* They touch no call, no check and no row.
LEMMA StandByEffect ==
    ASSUME ServiceTypes,
           \/ \E opens \in BOOLEAN : LoadModule(opens)
           \/ NoModule \/ Publish
           \/ \E code \in Hookable : HookFunc(code)
           \/ UserUnlocks \/ MdmForbids \/ IsCheckingExpires
    PROVE  StandsBy /\ ServiceTypes'
<1>1. ASSUME NEW opens \in BOOLEAN, LoadModule(opens) PROVE StandsBy /\ ServiceTypes'
  BY <1>1 DEF LoadModule, StandsBy, ServiceTypes, dlopenTries, procVars, envVars, chkVars, devVars, history
<1>2. CASE NoModule
  BY <1>2 DEF NoModule, StandsBy, ServiceTypes, dlopenTries, procVars, envVars, chkVars, devVars, history
<1>3. CASE Publish
  BY <1>3 DEF Publish, StandsBy, ServiceTypes, procVars, envVars, chkVars, devVars, history
<1>4. ASSUME NEW code \in Hookable, HookFunc(code) PROVE StandsBy /\ ServiceTypes'
  BY <1>4 DEF HookFunc, StandsBy, ServiceTypes, procVars, envVars, chkVars, devVars, history
<1>5. CASE UserUnlocks
  BY <1>5 DEF UserUnlocks, StandsBy, ServiceTypes, procVars, envVars, chkVars, devVars, history
<1>6. CASE MdmForbids
  BY <1>6 DEF MdmForbids, StandsBy, ServiceTypes, procVars, envVars, chkVars, devVars, history
<1>7. CASE IsCheckingExpires
  BY <1>7 DEF IsCheckingExpires, StandsBy, ServiceTypes, procVars, envVars, chkVars, devVars, history
<1>8. QED BY <1>1, <1>2, <1>3, <1>4, <1>5, <1>6, <1>7

(* A call that comes in is refused, or let in with an id of its own.       *)
LEMMA CallbackEnterEffect ==
    ASSUME CallTypes, NEW s \in Slots, NEW code, NEW who, NEW info, CallbackEnter(s, code, who, info)
    PROVE  /\ stage = "up" /\ calls[s].pc \in {"idle", "done"} /\ made' = made + 1 /\ CallShape' /\ Others(s)
           /\ \/ calls'[s] = NoCall
              \/ /\ Enter(who, code) = "SUCCESS"
                 /\ calls'[s].pc = "entered" /\ calls'[s].code = code /\ calls'[s].who = who
                 /\ calls'[s].info = info /\ calls'[s].id = made + 1 /\ calls'[s].got = <<>>
                 /\ calls'[s].fair = (code \in ResetCodes /\ ~mdm)
           /\ UNCHANGED <<build, stage, tries, loaded, hooked, unlocked, mdm, updateImpMap, checkComplete,
               checking, threads, db, recent, starts, keys, reboot, overlap, timedOut, smashed, unseen, crossed,
               told>>

<1> DEFINE call == [NoCall EXCEPT !.pc = "entered", !.code = code, !.who = who, !.info = info,
                                 !.id = made', !.fair = code \in ResetCodes /\ ~mdm]
           r == IF Enter(who, code) = "SUCCESS" THEN call ELSE Ended(call, Enter(who, code))
<1>1. stage = "up" /\ calls[s].pc \in {"idle", "done"} /\ made' = made + 1
  BY DEF CallbackEnter, Busy
<1>2. calls' = [calls EXCEPT ![s] = r]
  BY DEF CallbackEnter
<1>3. /\ IsCall(call) /\ call.pc = "entered" /\ call.code = code /\ call.who = who /\ call.info = info
      /\ call.id = made' /\ call.got = <<>> /\ call.fair = (code \in ResetCodes /\ ~mdm) /\ call.fair \in BOOLEAN
  BY DEF NoCall, IsCall
<1> HIDE DEF call
<1>4. IsCall(r) /\ r.pc \in Pcs /\ r.fair \in BOOLEAN
  <2>1. CASE Enter(who, code) = "SUCCESS"
    BY <1>3, <2>1 DEF Pcs
  <2>2. CASE Enter(who, code) # "SUCCESS"
    BY <1>3, <2>2, EndedEffect
  <2>3. QED BY <2>1, <2>2
<1>5. r = NoCall \/ (Enter(who, code) = "SUCCESS" /\ r = call)
  <2>1. CASE Enter(who, code) = "SUCCESS"
    BY <2>1
  <2>2. CASE Enter(who, code) # "SUCCESS"
    <3>1. \A e : Ended(call, e) = NoCall
      BY <1>3 DEF Ended
    <3>2. QED BY <2>2, <3>1
  <2>3. QED BY <2>1, <2>2
<1> HIDE DEF r
<1>6. CallShape' /\ calls'[s] = r /\ Others(s)
  BY <1>2, <1>4, SlotEffect
<1>7. UNCHANGED <<build, stage, tries, loaded, hooked, unlocked, mdm, updateImpMap,
                  checkComplete, checking, threads, db, recent, starts, keys, reboot, overlap,
                  timedOut, smashed, unseen, crossed, told>>
  BY DEF CallbackEnter, procVars, envVars, chkVars, devVars, history
<1>8. QED BY <1>1, <1>3, <1>5, <1>6, <1>7

(* A check is answered at once, or a thread is made that answers it.       *)
LEMMA CheckNewVersionEffect ==
    ASSUME CallTypes, CheckTypes, CallsFit, NEW s \in Slots, CheckNewVersion(s)
    PROVE  /\ calls[s].pc = "entered" /\ calls[s].code = "CHECK_VERSION" /\ calls[s].info \in Infos
           /\ ~(loaded /\ calls[s].code \in hooked)
           /\ CallShape' /\ Others(s) /\ calls'[s].pc = "wait"
           /\ UNCHANGED <<calls[s].code, calls[s].who, calls[s].info, calls[s].id, calls[s].fair,
               calls[s].err>>
           /\ updateImpMap' = updateImpMap \cup {calls[s].info}
           /\ overlap \subseteq overlap'
           /\ calls[s].info \notin overlap' => \A u \in Slots \ {s} : ~Waits(u, calls[s].info)
           /\ \/ /\ calls'[s].got = <<"busy">> /\ UNCHANGED threads
                 /\ checkComplete' = [checkComplete EXCEPT ![calls[s].info] = TRUE]
              \/ /\ UNCHANGED <<calls[s].got, checkComplete>>
                 /\ threads' = threads \cup {[id |-> calls[s].id, info |-> calls[s].info, pc |-> "ask"]}
           /\ UNCHANGED <<build, stage, tries, loaded, hooked, unlocked, mdm, made, db, recent, starts, keys,
               reboot, timedOut, smashed, unseen, crossed, told>>

<1>1. calls[s].pc = "entered" /\ calls[s].code = "CHECK_VERSION" /\ ~(loaded /\ calls[s].code \in hooked)
  BY DEF CheckNewVersion, Open, Dispatched, At, CallbackParcel, IsMapFuncExist
<1>2. calls[s].info \in Infos
  BY <1>1 DEF CallsFit, OnlineCodes
<1>3. /\ updateImpMap' = updateImpMap \cup {calls[s].info} /\ overlap \subseteq overlap'
      /\ UNCHANGED <<build, stage, tries, loaded, hooked, unlocked, mdm, made, db, recent,
                     starts, keys, reboot, timedOut, smashed, unseen, crossed, told>>
  BY DEF CheckNewVersion, GetOnlineUpdater, procVars, envVars, chkVars, devVars, history
<1>4. calls[s].info \notin overlap' => \A u \in Slots \ {s} : ~Waits(u, calls[s].info)
  BY DEF CheckNewVersion, Waits
<1>5. IsCall(calls[s]) /\ calls[s].fair \in BOOLEAN
  BY DEF CallTypes
<1>6. CASE /\ calls' = [calls EXCEPT ![s].pc = "wait", ![s].got = <<"busy">>]
           /\ checkComplete' = [checkComplete EXCEPT ![calls[s].info] = TRUE] /\ UNCHANGED threads
  <2> DEFINE r == [calls[s] EXCEPT !.pc = "wait", !.got = <<"busy">>]
  <2>1. calls' = [calls EXCEPT ![s] = r]
    BY <1>6 DEF CallTypes
  <2>2. /\ IsCall(r) /\ r.pc = "wait" /\ r.got = <<"busy">> /\ r.code = calls[s].code /\ r.who = calls[s].who
        /\ r.info = calls[s].info /\ r.id = calls[s].id /\ r.fair = calls[s].fair /\ r.err = calls[s].err
    BY <1>5 DEF IsCall
  <2> HIDE DEF r
  <2>3. "wait" \in Pcs
    BY DEF Pcs
  <2>4. CallShape' /\ calls'[s] = r /\ Others(s)
    BY <1>5, <2>1, <2>2, <2>3, SlotEffect
  <2>5. QED BY <1>1, <1>2, <1>3, <1>4, <1>6, <2>2, <2>4
<1>7. CASE /\ Goto(s, "wait") /\ UNCHANGED checkComplete
           /\ threads' = threads \cup {[id |-> calls[s].id, info |-> calls[s].info, pc |-> "ask"]}
  <2>1. "wait" \in Pcs
    BY DEF Pcs
  <2>2. QED BY <1>1, <1>2, <1>3, <1>4, <1>7, <2>1, GotoEffect
<1>8. QED BY <1>6, <1>7 DEF CheckNewVersion

(* The wait of a check ends with the flag.                                 *)
LEMMA WaitReturnsEffect ==
    ASSUME CallTypes, NEW s \in Slots, WaitReturns(s)
    PROVE  /\ calls[s].pc = "wait"
           /\ checkComplete[calls[s].info]
           /\ CallShape' /\ Others(s) /\ calls'[s].pc = "leave" /\ calls'[s].err = "SUCCESS"
           /\ UNCHANGED <<calls[s].code, calls[s].who, calls[s].info, calls[s].id, calls[s].fair,
               calls[s].got>>
           /\ UNCHANGED <<build, stage, tries, loaded, hooked, unlocked, mdm, made, updateImpMap,
               checkComplete, checking, threads, db, recent, starts, keys, reboot, overlap, timedOut, smashed,
               unseen, crossed, told>>
<1> DEFINE r == [calls[s] EXCEPT !.pc = "leave", !.err = "SUCCESS"]
<1>1. calls' = [calls EXCEPT ![s] = r]
  BY DEF WaitReturns, CallTypes
<1>2. IsCall(calls[s]) /\ calls[s].fair \in BOOLEAN
  BY DEF CallTypes
<1>3. /\ IsCall(r) /\ r.pc = "leave" /\ r.err = "SUCCESS" /\ r.code = calls[s].code /\ r.who = calls[s].who
      /\ r.info = calls[s].info /\ r.id = calls[s].id /\ r.fair = calls[s].fair /\ r.got = calls[s].got
  BY <1>2 DEF IsCall
<1> HIDE DEF r
<1>4. "leave" \in Pcs
  BY DEF Pcs
<1>5. CallShape' /\ calls'[s] = r /\ Others(s)
  BY <1>1, <1>2, <1>3, <1>4, SlotEffect
<1>6. /\ calls[s].pc = "wait" /\ checkComplete[calls[s].info]
      /\ UNCHANGED <<build, stage, tries, loaded, hooked, unlocked, mdm, made, updateImpMap,
                     checkComplete, checking, threads, db, recent, starts, keys, reboot,
                     overlap, timedOut, smashed, unseen, crossed, told>>
  BY DEF WaitReturns, At, procVars, envVars, chkVars, devVars, history
<1>7. QED BY <1>3, <1>5, <1>6

(* The wait of a check ends without it.                                    *)
LEMMA WaitTimesOutEffect ==
    ASSUME CallTypes, NEW s \in Slots, WaitTimesOut(s)
    PROVE  /\ calls[s].pc = "wait"
           /\ ~checkComplete[calls[s].info] /\ timedOut' = timedOut \cup {calls[s].info}
           /\ CallShape' /\ Others(s) /\ calls'[s].pc = "leave" /\ calls'[s].err = "TIME_OUT"
           /\ UNCHANGED <<calls[s].code, calls[s].who, calls[s].info, calls[s].id, calls[s].fair,
               calls[s].got>>
           /\ UNCHANGED <<build, stage, tries, loaded, hooked, unlocked, mdm, made, updateImpMap,
               checkComplete, checking, threads, db, recent, starts, keys, reboot, overlap, smashed, unseen,
               crossed, told>>
<1> DEFINE r == [calls[s] EXCEPT !.pc = "leave", !.err = "TIME_OUT"]
<1>1. calls' = [calls EXCEPT ![s] = r]
  BY DEF WaitTimesOut, CallTypes
<1>2. IsCall(calls[s]) /\ calls[s].fair \in BOOLEAN
  BY DEF CallTypes
<1>3. /\ IsCall(r) /\ r.pc = "leave" /\ r.err = "TIME_OUT" /\ r.code = calls[s].code /\ r.who = calls[s].who
      /\ r.info = calls[s].info /\ r.id = calls[s].id /\ r.fair = calls[s].fair /\ r.got = calls[s].got
  BY <1>2 DEF IsCall
<1> HIDE DEF r
<1>4. "leave" \in Pcs
  BY DEF Pcs
<1>5. CallShape' /\ calls'[s] = r /\ Others(s)
  BY <1>1, <1>2, <1>3, <1>4, SlotEffect
<1>6. /\ calls[s].pc = "wait" /\ ~checkComplete[calls[s].info] /\ timedOut' = timedOut \cup {calls[s].info}
      /\ UNCHANGED <<build, stage, tries, loaded, hooked, unlocked, mdm, made, updateImpMap,
                     checkComplete, checking, threads, db, recent, starts, keys, reboot,
                     overlap, smashed, unseen, crossed, told>>
  BY DEF WaitTimesOut, At, procVars, envVars, chkVars, devVars, history
<1>7. QED BY <1>3, <1>5, <1>6

(* The check returns what it was told, and the flag goes down.             *)
LEMMA LeaveCheckEffect ==
    ASSUME CallTypes, CallsFit, NEW s \in Slots, LeaveCheck(s)
    PROVE  /\ calls[s].pc = "leave"
           /\ CallShape' /\ Others(s)
           /\ \/ calls'[s] = NoCall
              \/ /\ calls'[s].pc = "done" /\ calls'[s].code = "CHECK_VERSION" /\ calls'[s].err = calls[s].err
                 /\ calls'[s].info = calls[s].info /\ calls'[s].got = calls[s].got
           /\ checkComplete' = [checkComplete EXCEPT ![calls[s].info] = FALSE]
           /\ UNCHANGED <<build, stage, tries, loaded, hooked, unlocked, mdm, made, updateImpMap, checking,
               threads, db, recent, starts, keys, reboot, overlap, timedOut, smashed, unseen, crossed, told>>

<1>1. /\ calls[s].pc = "leave" /\ Answer(s, calls[s].err)
      /\ checkComplete' = [checkComplete EXCEPT ![calls[s].info] = FALSE]
      /\ UNCHANGED <<build, stage, tries, loaded, hooked, unlocked, mdm, made, updateImpMap,
                     checking, threads, db, recent, starts, keys, reboot, overlap, timedOut,
                     smashed, unseen, crossed, told>>
  BY DEF LeaveCheck, At, procVars, envVars, chkVars, devVars, history
<1>2. calls[s].code = "CHECK_VERSION"
  BY <1>1 DEF CallsFit
<1>3. QED BY <1>1, <1>2, AnswerEffect

(* Download is refused, or goes on to read the status.                     *)
LEMMA DownloadEffect ==
    ASSUME CallTypes, CallsFit, NEW s \in Slots, Download(s)
    PROVE  /\ calls[s].pc = "entered" /\ calls[s].code = "DOWNLOAD" /\ calls[s].info \in Infos /\ ~(loaded /\
               calls[s].code \in hooked)
           /\ updateImpMap' = updateImpMap \cup {calls[s].info}
           /\ recent' = recent \cup {"download"}
           /\ CallShape' /\ Others(s)
           /\ \/ calls'[s] = NoCall
              \/ /\ "download" \notin recent /\ calls'[s].pc = "query"
                 /\ UNCHANGED <<calls[s].code, calls[s].who, calls[s].info, calls[s].id, calls[s].fair, calls[s].got>>
           /\ UNCHANGED <<build, stage, tries, loaded, hooked, unlocked, mdm, made, checkComplete, checking,
               threads, db, starts, keys, reboot, overlap, timedOut, smashed, unseen, crossed, told>>

<1>1. calls[s].pc = "entered" /\ calls[s].code = "DOWNLOAD" /\ ~(loaded /\ calls[s].code \in hooked)
  BY DEF Download, Open, Dispatched, At, CallbackParcel, IsMapFuncExist
<1>2. calls[s].info \in Infos
  BY <1>1 DEF CallsFit, OnlineCodes
<1>3. /\ updateImpMap' = updateImpMap \cup {calls[s].info} /\ recent' = recent \cup {"download"}
      /\ UNCHANGED <<build, stage, tries, loaded, hooked, unlocked, mdm, made, checkComplete,
                     checking, threads, db, starts, keys, reboot, overlap, timedOut, smashed,
                     unseen, crossed, told>>
  BY DEF Download, GetOnlineUpdater, procVars, envVars, chkVars, devVars, history
<1>4. CASE Triggered("download")
  <2>1. Answer(s, "FAIL")
    BY <1>4 DEF Download
  <2>2. QED BY <1>1, <1>2, <1>3, <2>1, AnswerEffect
<1>5. CASE ~Triggered("download")
  <2>1. Goto(s, "query") /\ "download" \notin recent
    BY <1>5 DEF Download, Triggered
  <2>2. "query" \in Pcs
    BY DEF Pcs
  <2>3. QED BY <1>1, <1>2, <1>3, <2>1, <2>2, GotoEffect
<1>6. QED BY <1>4, <1>5

(* The download is started, or is not.                                     *)
LEMMA DoDownloadEffect ==
    ASSUME CallTypes, RowTypes, CallsFit, NEW s \in Slots, DoDownload(s)
    PROVE  /\ calls[s].pc = "start"
           /\ CallShape' /\ Others(s) /\ calls'[s] = NoCall
           /\ starts'.upgrade = starts.upgrade
           /\ starts' \in [download : Nat, upgrade : Nat]
           /\ starts'.download = starts.download + 1 \/ starts' = starts
           /\ UNCHANGED <<build, stage, tries, loaded, hooked, unlocked, mdm, made, updateImpMap,
               checkComplete, checking, threads, db, recent, keys, reboot, overlap, timedOut, smashed, unseen,
               crossed, told>>
<1>1. calls[s].pc = "start" /\ (\E err : Answer(s, err))
  BY DEF DoDownload, At
<1>2. calls[s].code = "DOWNLOAD"
  BY <1>1 DEF CallsFit
<1>3. starts' = [starts EXCEPT !.download = @ + 1] \/ starts' = starts
  BY DEF DoDownload
<1>4. UNCHANGED <<build, stage, tries, loaded, hooked, unlocked, mdm, made, updateImpMap,
                  checkComplete, checking, threads, db, recent, keys, reboot, overlap, timedOut,
                  smashed, unseen, crossed, told>>
  BY DEF DoDownload, procVars, envVars, chkVars, devVars, history
<1>5. QED BY <1>1, <1>2, <1>3, <1>4, AnswerEffect DEF RowTypes

(* Upgrade is refused, or goes on to ask whether it can install.           *)
LEMMA UpgradeEffect ==
    ASSUME CallTypes, CallsFit, NEW s \in Slots, Upgrade(s)
    PROVE  /\ calls[s].pc = "entered" /\ calls[s].code = "UPGRADE" /\ calls[s].info \in Infos /\ ~(loaded /\
               calls[s].code \in hooked)
           /\ updateImpMap' = updateImpMap \cup {calls[s].info}
           /\ recent' = recent \cup {"upgrade"}
           /\ CallShape' /\ Others(s)
           /\ \/ calls'[s] = NoCall
              \/ /\ "upgrade" \notin recent /\ calls'[s].pc = "install"
                 /\ UNCHANGED <<calls[s].code, calls[s].who, calls[s].info, calls[s].id, calls[s].fair, calls[s].got>>
           /\ UNCHANGED <<build, stage, tries, loaded, hooked, unlocked, mdm, made, checkComplete, checking,
               threads, db, starts, keys, reboot, overlap, timedOut, smashed, unseen, crossed, told>>

<1>1. calls[s].pc = "entered" /\ calls[s].code = "UPGRADE" /\ ~(loaded /\ calls[s].code \in hooked)
  BY DEF Upgrade, Open, Dispatched, At, CallbackParcel, IsMapFuncExist
<1>2. calls[s].info \in Infos
  BY <1>1 DEF CallsFit, OnlineCodes
<1>3. /\ updateImpMap' = updateImpMap \cup {calls[s].info} /\ recent' = recent \cup {"upgrade"}
      /\ UNCHANGED <<build, stage, tries, loaded, hooked, unlocked, mdm, made, checkComplete,
                     checking, threads, db, starts, keys, reboot, overlap, timedOut, smashed,
                     unseen, crossed, told>>
  BY DEF Upgrade, GetOnlineUpdater, procVars, envVars, chkVars, devVars, history
<1>4. CASE Triggered("upgrade")
  <2>1. Answer(s, "FAIL")
    BY <1>4 DEF Upgrade
  <2>2. QED BY <1>1, <1>2, <1>3, <2>1, AnswerEffect
<1>5. CASE ~Triggered("upgrade")
  <2>1. Goto(s, "install") /\ "upgrade" \notin recent
    BY <1>5 DEF Upgrade, Triggered
  <2>2. "install" \in Pcs
    BY DEF Pcs
  <2>3. QED BY <1>1, <1>2, <1>3, <2>1, <2>2, GotoEffect
<1>6. QED BY <1>4, <1>5

(* A call that passed its filter reads the status and goes on, or ends.    *)
Proceeds(s) ==
    /\ calls[s].pc \in {"query", "install"}
    /\ CallShape' /\ Others(s)
    /\ \/ calls'[s] = NoCall
       \/ /\ \/ calls[s].pc = "query" /\ calls'[s].pc = "start" /\ db.status = "CHECK_VERSION_SUCCESS"
             \/ calls[s].pc = "install" /\ calls'[s].pc = "mode" /\ db.status # "INSTALLING"
          /\ UNCHANGED <<calls[s].code, calls[s].who, calls[s].info, calls[s].id, calls[s].fair, calls[s].got>>
    /\ UNCHANGED <<build, stage, tries, loaded, hooked, unlocked, mdm, made, updateImpMap,
                   checkComplete, checking, threads, db, recent, starts, keys, reboot, overlap, timedOut,
                   smashed, unseen, crossed, told>>

\* The two handlers that do no more.
LEMMA ProceedEffect ==
    ASSUME CallTypes, CallsFit, NEW s \in Slots, QueryTask(s) \/ DoInstall(s)
    PROVE  Proceeds(s)
<1>1. "start" \in Pcs /\ "mode" \in Pcs
  BY DEF Pcs
<1>2. CASE QueryTask(s)
  <2>1. calls[s].pc = "query" /\ calls[s].code = "DOWNLOAD"
    BY <1>2 DEF QueryTask, At, CallsFit
  <2>2. UNCHANGED <<build, stage, tries, loaded, hooked, unlocked, mdm, made, updateImpMap,
                    checkComplete, checking, threads, db, recent, starts, keys, reboot, overlap,
                    timedOut, smashed, unseen, crossed, told>>
    BY <1>2 DEF QueryTask, procVars, envVars, chkVars, devVars, history
  <2>3. CASE db.status = "CHECK_VERSION_SUCCESS"
    <3>1. Goto(s, "start")
      BY <1>2, <2>3 DEF QueryTask
    <3>2. QED BY <1>1, <2>1, <2>2, <2>3, <3>1, GotoEffect DEF Proceeds
  <2>4. CASE db.status # "CHECK_VERSION_SUCCESS"
    <3>1. Answer(s, "FAIL")
      BY <1>2, <2>4 DEF QueryTask
    <3>2. QED BY <2>1, <2>2, <3>1, AnswerEffect DEF Proceeds
  <2>5. QED BY <2>3, <2>4
<1>3. CASE DoInstall(s)
  <2>1. calls[s].pc = "install" /\ calls[s].code = "UPGRADE"
    BY <1>3 DEF DoInstall, At, CallsFit
  <2>2. UNCHANGED <<build, stage, tries, loaded, hooked, unlocked, mdm, made, updateImpMap,
                    checkComplete, checking, threads, db, recent, starts, keys, reboot, overlap,
                    timedOut, smashed, unseen, crossed, told>>
    BY <1>3 DEF DoInstall, procVars, envVars, chkVars, devVars, history
  <2>3. CASE CanInstall
    <3>1. Goto(s, "mode")
      BY <1>3, <2>3 DEF DoInstall
    <3>2. db.status # "INSTALLING"
      BY <2>3 DEF CanInstall
    <3>3. QED BY <1>1, <2>1, <2>2, <3>1, <3>2, GotoEffect DEF Proceeds
  <2>4. CASE ~CanInstall
    <3>1. Answer(s, "SUCCESS")
      BY <1>3, <2>4 DEF DoInstall
    <3>2. QED BY <2>1, <2>2, <3>1, AnswerEffect DEF Proceeds
  <2>5. QED BY <2>3, <2>4
<1>4. QED BY <1>2, <1>3

(* Cancel is refused, or goes on.                                          *)
LEMMA CancelEffect ==
    ASSUME CallTypes, CallsFit, NEW s \in Slots, Cancel(s)
    PROVE  /\ calls[s].pc = "entered" /\ calls[s].code = "CANCEL" /\ calls[s].info \in Infos /\ ~(loaded /\
               calls[s].code \in hooked)
           /\ updateImpMap' = updateImpMap \cup {calls[s].info}
           /\ CallShape' /\ Others(s)
           /\ \/ calls'[s] = NoCall
              \/ /\ calls'[s].pc = "cancel"
                 /\ UNCHANGED <<calls[s].code, calls[s].who, calls[s].info, calls[s].id, calls[s].fair, calls[s].got>>
           /\ UNCHANGED <<build, stage, tries, loaded, hooked, unlocked, mdm, made, checkComplete, checking,
               threads, db, recent, starts, keys, reboot, overlap, timedOut, smashed, unseen, crossed, told>>

<1>1. calls[s].pc = "entered" /\ calls[s].code = "CANCEL" /\ ~(loaded /\ calls[s].code \in hooked)
  BY DEF Cancel, Open, Dispatched, At, CallbackParcel, IsMapFuncExist
<1>2. calls[s].info \in Infos
  BY <1>1 DEF CallsFit, OnlineCodes
<1>3. /\ updateImpMap' = updateImpMap \cup {calls[s].info}
      /\ UNCHANGED <<build, stage, tries, loaded, hooked, unlocked, mdm, made, checkComplete,
                     checking, threads, db, recent, starts, keys, reboot, overlap, timedOut,
                     smashed, unseen, crossed, told>>
  BY DEF Cancel, GetOnlineUpdater, procVars, envVars, chkVars, devVars, history
<1>4. "cancel" \in Pcs
  BY DEF Pcs
<1>5. Goto(s, "cancel") \/ Answer(s, "FAIL")
  BY DEF Cancel
<1>6. CASE Goto(s, "cancel")
  BY <1>1, <1>2, <1>3, <1>4, <1>6, GotoEffect
<1>7. CASE Answer(s, "FAIL")
  BY <1>1, <1>2, <1>3, <1>7, AnswerEffect
<1>8. QED BY <1>5, <1>6, <1>7

(* A download is cancelled, also one that has ended meanwhile.             *)
LEMMA DoCancelEffect ==
    ASSUME CallTypes, RowTypes, CallsFit, NEW s \in Slots, DoCancel(s)
    PROVE  /\ calls[s].pc = "cancel"
           /\ CallShape' /\ Others(s) /\ calls'[s] = NoCall
           /\ db' \in [task : Nat, comps : Nat, status : Statuses] /\ starts' \in [download : Nat, upgrade :
               Nat]
           /\ UNCHANGED <<db.task, db.comps, starts.upgrade>>
           /\ \/ UNCHANGED <<db, starts>>
              \/ /\ db.status \in {"DOWNLOADING", "DOWNLOAD_SUCCESS", "DOWNLOAD_PAUSE"}
                 /\ db'.status = "CHECK_VERSION_SUCCESS" /\ starts'.download = 0
           /\ UNCHANGED <<build, stage, tries, loaded, hooked, unlocked, mdm, made, updateImpMap,
               checkComplete, checking, threads, recent, keys, reboot, overlap, timedOut, smashed, unseen, crossed,
               told>>

<1>1. calls[s].pc = "cancel" /\ (\E err : Answer(s, err))
  BY DEF DoCancel, At
<1>2. calls[s].code = "CANCEL"
  BY <1>1 DEF CallsFit
<1>3. CallShape' /\ Others(s) /\ calls'[s] = NoCall
  BY <1>1, <1>2, AnswerEffect
<1>4. \/ UNCHANGED <<db, starts>>
      \/ /\ db.status \in {"DOWNLOADING", "DOWNLOAD_SUCCESS", "DOWNLOAD_PAUSE"}
         /\ db' = [db EXCEPT !.status = "CHECK_VERSION_SUCCESS"] /\ starts' = [starts EXCEPT !.download = 0]
  BY DEF DoCancel
<1>5. UNCHANGED <<build, stage, tries, loaded, hooked, unlocked, mdm, made, updateImpMap,
                  checkComplete, checking, threads, recent, keys, reboot, overlap, timedOut,
                  smashed, unseen, crossed, told>>
  BY DEF DoCancel, procVars, envVars, chkVars, devVars, history
<1>6. QED BY <1>1, <1>3, <1>4, <1>5 DEF RowTypes, Statuses

(* The calls are only marked as torn.                                      *)
Tears ==
    /\ CallShape'
    /\ \A u \in Slots :
         /\ UNCHANGED <<calls[u].pc, calls[u].code, calls[u].who, calls[u].info, calls[u].id,
                        calls[u].err, calls[u].got>>
         /\ calls[u].fair => calls'[u].fair
         /\ calls[u].code = "GET_NEW_VERSION" /\ calls[u].pc \notin {"idle", "done"} => calls'[u].fair

\* Marking the calls that read the two tables meanwhile does no more than that.
LEMMA TearsEffect ==
    ASSUME CallTypes, calls' = Torn PROVE Tears
<1>1. /\ calls' = [s \in Slots |-> calls'[s]]
      /\ \A s \in Slots :
           /\ IsCall(calls'[s]) /\ calls'[s].fair \in BOOLEAN
           /\ calls'[s].pc = calls[s].pc /\ calls'[s].code = calls[s].code /\ calls'[s].who = calls[s].who
           /\ calls'[s].info = calls[s].info /\ calls'[s].id = calls[s].id /\ calls'[s].err = calls[s].err
           /\ calls'[s].got = calls[s].got
           /\ calls[s].fair => calls'[s].fair
           /\ calls[s].code = "GET_NEW_VERSION" /\ calls[s].pc \notin {"idle", "done"} => calls'[s].fair
  BY TornEffect
<1>2. QED BY <1>1 DEF Tears, CallShape, CallTypes

(* An error is cleared with all its rows, or the call only answers.        *)
LEMMA ClearErrorEffect ==
    ASSUME CallTypes, RowTypes, CallsFit, NEW s \in Slots, ClearError(s)
    PROVE  /\ calls[s].pc = "entered" /\ calls[s].code = "CLEAR_ERROR" /\ calls[s].info \in Infos /\ ~(loaded
               /\ calls[s].code \in hooked)
           /\ updateImpMap' = updateImpMap \cup {calls[s].info}
           /\ CallShape' /\ calls'[s] = NoCall
           /\ db' \in [task : Nat, comps : Nat, status : Statuses]
           /\ \/ Others(s) /\ UNCHANGED db
              \/ /\ db.status = "INSTALL_FAIL" /\ db'.task = 0 /\ db'.comps = 0 /\ db'.status = "INIT"
                 /\ \A u \in Slots \ {s} :
                      /\ UNCHANGED <<calls[u].pc, calls[u].code, calls[u].who, calls[u].info, calls[u].id,
                                     calls[u].err, calls[u].got>>
                      /\ calls[u].fair => calls'[u].fair
                      /\ calls[u].code = "GET_NEW_VERSION" /\ calls[u].pc \notin {"idle", "done"} => calls'[u].fair
           /\ UNCHANGED <<build, stage, tries, loaded, hooked, unlocked, mdm, made, checkComplete, checking,
               threads, recent, starts, keys, reboot, overlap, timedOut, smashed, unseen, crossed, told>>

<1>1. calls[s].pc = "entered" /\ calls[s].code = "CLEAR_ERROR" /\ ~(loaded /\ calls[s].code \in hooked)
  BY DEF ClearError, Open, Dispatched, At, CallbackParcel, IsMapFuncExist
<1>2. calls[s].info \in Infos
  BY <1>1 DEF CallsFit, OnlineCodes
<1>3. /\ updateImpMap' = updateImpMap \cup {calls[s].info}
      /\ UNCHANGED <<build, stage, tries, loaded, hooked, unlocked, mdm, made, checkComplete,
                     checking, threads, recent, starts, keys, reboot, overlap, timedOut,
                     smashed, unseen, crossed, told>>
  BY DEF ClearError, GetOnlineUpdater, procVars, envVars, chkVars, devVars, history
<1>4. CASE (\E err : Answer(s, err)) /\ UNCHANGED db
  BY <1>1, <1>2, <1>3, <1>4, AnswerEffect DEF RowTypes
<1>5. CASE db.status = "INSTALL_FAIL" /\ db' = Cleared /\ calls' = [Torn EXCEPT ![s] = Ended(@, "SUCCESS")]
  <2> DEFINE c == Torn
             r == Ended(c[s], "SUCCESS")
  <2>1. calls' = [c EXCEPT ![s] = r]
    BY <1>5
  <2>2. /\ c = [u \in Slots |-> c[u]]
        /\ \A u \in Slots :
             /\ IsCall(c[u]) /\ c[u].fair \in BOOLEAN
             /\ c[u].pc = calls[u].pc /\ c[u].code = calls[u].code /\ c[u].who = calls[u].who
             /\ c[u].info = calls[u].info /\ c[u].id = calls[u].id /\ c[u].err = calls[u].err
             /\ c[u].got = calls[u].got
             /\ calls[u].fair => c[u].fair
             /\ calls[u].code = "GET_NEW_VERSION" /\ calls[u].pc \notin {"idle", "done"} => c[u].fair
    BY TornEffect
  <2> HIDE DEF c
  <2>3. r = NoCall
    BY <1>1, <2>2, EndedEffect
  <2> HIDE DEF r
  <2>4. /\ calls'[s] = NoCall /\ \A u \in Slots \ {s} : calls'[u] = c[u]
        /\ calls' = [u \in Slots |-> calls'[u]]
    BY <2>1, <2>2, <2>3
  <2>5. CallShape'
    <3>1. ASSUME NEW u \in Slots PROVE IsCall(calls'[u]) /\ calls'[u].pc \in Pcs /\ calls'[u].fair \in BOOLEAN
      <4>1. CASE u = s
        BY <2>4, <4>1, FreshCall
      <4>2. CASE u # s
        BY <2>2, <2>4, <4>2 DEF CallTypes
      <4>3. QED BY <4>1, <4>2
    <3>2. QED BY <2>4, <3>1 DEF CallShape
  <2>6. db'.task = 0 /\ db'.comps = 0 /\ db'.status = "INIT" /\ db' \in [task : Nat, comps : Nat, status : Statuses]
    BY <1>5 DEF Cleared, Statuses
  <2>7. QED BY <1>1, <1>2, <1>3, <1>5, <2>2, <2>4, <2>5, <2>6
<1>6. QED BY <1>4, <1>5 DEF ClearError

(* An install is started, or the call is answered, or what was downloaded  *)
(* is cleared.                                                             *)
LEMMA GetStepAfterInitEffect ==
    ASSUME CallTypes, RowTypes, CallsFit, NEW s \in Slots, GetStepAfterInit(s)
    PROVE  /\ calls[s].pc = "mode"
           /\ CallShape' /\ calls'[s] = NoCall
           /\ db' \in [task : Nat, comps : Nat, status : Statuses]
           /\ starts' \in [download : Nat, upgrade : Nat] /\ UNCHANGED starts.download
           /\ \/ Others(s) /\ UNCHANGED <<db, starts>>
              \/ Others(s) /\ UNCHANGED db /\ starts'.upgrade = starts.upgrade + 1
              \/ /\ db.status = "DOWNLOAD_SUCCESS" /\ db'.task = 0 /\ db'.comps = 0 /\ db'.status = "INIT"
                 /\ UNCHANGED starts
                 /\ \A u \in Slots \ {s} :
                      /\ UNCHANGED <<calls[u].pc, calls[u].code, calls[u].who, calls[u].info, calls[u].id,
                                     calls[u].err, calls[u].got>>
                      /\ calls[u].fair => calls'[u].fair
                      /\ calls[u].code = "GET_NEW_VERSION" /\ calls[u].pc \notin {"idle", "done"} => calls'[u].fair
           /\ UNCHANGED <<build, stage, tries, loaded, hooked, unlocked, mdm, made, updateImpMap, checkComplete,
                          checking, threads, recent, keys, reboot, overlap, timedOut, smashed, unseen, crossed,
                          told>>
<1>1. calls[s].pc = "mode" /\ calls[s].code = "UPGRADE"
  BY DEF GetStepAfterInit, At, CallsFit
<1>2. UNCHANGED <<build, stage, tries, loaded, hooked, unlocked, mdm, made, updateImpMap, checkComplete,
                  checking, threads, recent, keys, reboot, overlap, timedOut, smashed, unseen, crossed, told>>
  BY DEF GetStepAfterInit, procVars, envVars, chkVars, devVars, history
<1>3. CASE (\E err : Answer(s, err)) /\ UNCHANGED db /\ starts' = [starts EXCEPT !.upgrade = @ + 1]
  <2>1. CallShape' /\ Others(s) /\ calls'[s] = NoCall
    BY <1>1, <1>3, AnswerEffect
  <2>2. /\ starts' \in [download : Nat, upgrade : Nat] /\ starts'.upgrade = starts.upgrade + 1
        /\ UNCHANGED starts.download
    BY <1>3 DEF RowTypes
  <2>3. QED BY <1>1, <1>2, <1>3, <2>1, <2>2 DEF RowTypes
<1>4. CASE (\E err : Answer(s, err)) /\ UNCHANGED <<db, starts>>
  BY <1>1, <1>2, <1>4, AnswerEffect DEF RowTypes
<1>5. CASE /\ db.status = "DOWNLOAD_SUCCESS" /\ db' = Cleared /\ UNCHANGED starts
           /\ calls' = [Torn EXCEPT ![s] = Ended(@, "FAIL")]
  <2> DEFINE c == Torn
             r == Ended(c[s], "FAIL")
  <2>1. calls' = [c EXCEPT ![s] = r]
    BY <1>5
  <2>2. /\ c = [u \in Slots |-> c[u]]
        /\ \A u \in Slots :
             /\ IsCall(c[u]) /\ c[u].fair \in BOOLEAN
             /\ c[u].pc = calls[u].pc /\ c[u].code = calls[u].code /\ c[u].who = calls[u].who
             /\ c[u].info = calls[u].info /\ c[u].id = calls[u].id /\ c[u].err = calls[u].err
             /\ c[u].got = calls[u].got
             /\ calls[u].fair => c[u].fair
             /\ calls[u].code = "GET_NEW_VERSION" /\ calls[u].pc \notin {"idle", "done"} => c[u].fair
    BY TornEffect
  <2> HIDE DEF c
  <2>3. r = NoCall
    BY <1>1, <2>2, EndedEffect
  <2> HIDE DEF r
  <2>4. /\ calls'[s] = NoCall /\ \A u \in Slots \ {s} : calls'[u] = c[u]
        /\ calls' = [u \in Slots |-> calls'[u]]
    BY <2>1, <2>2, <2>3
  <2>5. CallShape'
    <3>1. ASSUME NEW u \in Slots PROVE IsCall(calls'[u]) /\ calls'[u].pc \in Pcs /\ calls'[u].fair \in BOOLEAN
      <4>1. CASE u = s
        BY <2>4, <4>1, FreshCall
      <4>2. CASE u # s
        BY <2>2, <2>4, <4>2 DEF CallTypes
      <4>3. QED BY <4>1, <4>2
    <3>2. QED BY <2>4, <3>1 DEF CallShape
  <2>6. db'.task = 0 /\ db'.comps = 0 /\ db'.status = "INIT" /\ db' \in [task : Nat, comps : Nat, status : Statuses]
    BY <1>5 DEF Cleared, Statuses
  <2>7. QED BY <1>1, <1>2, <1>5, <2>2, <2>4, <2>5, <2>6 DEF RowTypes
<1>6. ~IsStreamUpgrade /\ (IF IsStreamUpgrade THEN db.status # "INIT" ELSE db.status = "DOWNLOAD_SUCCESS")
        => db.status = "DOWNLOAD_SUCCESS"
  OBVIOUS
<1>7. QED BY <1>3, <1>4, <1>5, <1>6 DEF GetStepAfterInit

(* The row of the task is read first.                                      *)
LEMMA GetNewVersionInfoEffect ==
    ASSUME CallTypes, CallsFit, NEW s \in Slots, GetNewVersionInfo(s)
    PROVE  /\ calls[s].pc = "entered" /\ calls[s].code = "GET_NEW_VERSION" /\ calls[s].info \in Infos /\
               ~(loaded /\ calls[s].code \in hooked)
           /\ updateImpMap' = updateImpMap \cup {calls[s].info}
           /\ CallShape' /\ Others(s) /\ calls'[s].pc = "components" /\ calls'[s].got = <<db.task>>
           /\ calls'[s].fair \in BOOLEAN /\ (~calls'[s].fair => \A t \in threads : t.pc # "insertTask")
           /\ UNCHANGED <<calls[s].code, calls[s].who, calls[s].info, calls[s].id, calls[s].err>>
           /\ UNCHANGED <<build, stage, tries, loaded, hooked, unlocked, mdm, made, checkComplete, checking,
               threads, db, recent, starts, keys, reboot, overlap, timedOut, smashed, unseen, crossed, told>>
<1>1. calls[s].pc = "entered" /\ calls[s].code = "GET_NEW_VERSION" /\ ~(loaded /\ calls[s].code \in hooked)
  BY DEF GetNewVersionInfo, Open, Dispatched, At, CallbackParcel, IsMapFuncExist
<1>2. calls[s].info \in Infos
  BY <1>1 DEF CallsFit, OnlineCodes
<1> DEFINE f == \E t \in threads : t.pc = "insertTask"
           r == [calls[s] EXCEPT !.pc = "components", !.got = <<db.task>>, !.fair = f]
<1>3. f \in BOOLEAN
  OBVIOUS
<1> HIDE DEF f
<1>4. IsCall(calls[s])
  BY DEF CallTypes
<1>5. calls' = [calls EXCEPT ![s] = r]
  BY DEF GetNewVersionInfo, CallTypes, f
<1>6. /\ IsCall(r) /\ r.pc = "components" /\ r.got = <<db.task>> /\ r.fair = f /\ r.code = calls[s].code
      /\ r.who = calls[s].who /\ r.info = calls[s].info /\ r.id = calls[s].id /\ r.err = calls[s].err
  BY <1>4 DEF IsCall
<1> HIDE DEF r
<1>7. "components" \in Pcs
  BY DEF Pcs
<1>8. CallShape' /\ calls'[s] = r /\ Others(s)
  BY <1>3, <1>5, <1>6, <1>7, SlotEffect
<1>9. /\ updateImpMap' = updateImpMap \cup {calls[s].info}
      /\ UNCHANGED <<build, stage, tries, loaded, hooked, unlocked, mdm, made, checkComplete,
                     checking, threads, db, recent, starts, keys, reboot, overlap, timedOut,
                     smashed, unseen, crossed, told>>
  BY DEF GetNewVersionInfo, GetOnlineUpdater, procVars, envVars, chkVars, devVars, history
<1>10. calls'[s].fair \in BOOLEAN /\ (~calls'[s].fair => \A t \in threads : t.pc # "insertTask")
  BY <1>3, <1>6, <1>8 DEF f
<1>11. QED BY <1>1, <1>2, <1>6, <1>8, <1>9, <1>10

(* The rows of the components are read second, and the call answers.       *)
LEMMA QueryAllComponentsEffect ==
    ASSUME CallTypes, CallsFit, NEW s \in Slots, QueryAllComponents(s)
    PROVE  /\ calls[s].pc = "components"
           /\ CallShape' /\ Others(s)
           /\ \/ calls'[s] = NoCall
              \/ /\ calls'[s].pc = "done" /\ calls'[s].code = "GET_NEW_VERSION" /\ calls'[s].fair = calls[s].fair
                 /\ calls'[s].got = Append(calls[s].got, db.comps)
           /\ UNCHANGED <<build, stage, tries, loaded, hooked, unlocked, mdm, made, updateImpMap,
               checkComplete, checking, threads, db, recent, starts, keys, reboot, overlap, timedOut, smashed,
               unseen, crossed, told>>

<1> DEFINE c == [calls[s] EXCEPT !.got = Append(@, db.comps)]
           r == Ended(c, "SUCCESS")
<1>1. calls[s].pc = "components"
  BY DEF QueryAllComponents, At
<1>2. calls[s].code = "GET_NEW_VERSION"
  BY <1>1 DEF CallsFit
<1>3. IsCall(calls[s]) /\ calls[s].fair \in BOOLEAN
  BY DEF CallTypes
<1>4. calls' = [calls EXCEPT ![s] = r]
  BY DEF QueryAllComponents
<1>5. /\ IsCall(c) /\ c.pc = calls[s].pc /\ c.code = calls[s].code /\ c.fair = calls[s].fair
      /\ c.got = Append(calls[s].got, db.comps)
  BY <1>3 DEF IsCall
<1> HIDE DEF c
<1>6. /\ IsCall(r) /\ r.pc \in Pcs /\ r.fair \in BOOLEAN
      /\ r = NoCall \/ (r.pc = "done" /\ r.code = c.code /\ r.got = c.got /\ r.fair = c.fair)
  BY <1>3, <1>5, EndedEffect
<1> HIDE DEF r
<1>7. CallShape' /\ calls'[s] = r /\ Others(s)
  BY <1>4, <1>6, SlotEffect
<1>8. UNCHANGED <<build, stage, tries, loaded, hooked, unlocked, mdm, made, updateImpMap,
                  checkComplete, checking, threads, db, recent, starts, keys, reboot, overlap,
                  timedOut, smashed, unseen, crossed, told>>
  BY DEF QueryAllComponents, procVars, envVars, chkVars, devVars, history
<1>9. QED BY <1>1, <1>2, <1>5, <1>6, <1>7, <1>8

(* The keys are erased, or the call fails.                                 *)
LEMMA FileManagerEraseKeysEffect ==
    ASSUME CallTypes, NEW s \in Slots, FileManagerEraseKeys(s)
    PROVE  /\ calls[s].pc = "entered" /\ calls[s].code = "FORCE_FACTORY_RESET" /\ ~(loaded /\ calls[s].code \in
               hooked)
           /\ CallShape' /\ Others(s)
           /\ \/ calls'[s] = NoCall /\ UNCHANGED keys
              \/ /\ keys' = "erased" /\ calls'[s].pc = "erased"
                 /\ UNCHANGED <<calls[s].code, calls[s].who, calls[s].info, calls[s].id, calls[s].fair, calls[s].got>>
           /\ UNCHANGED <<build, stage, tries, loaded, hooked, unlocked, mdm, made, updateImpMap,
               checkComplete, checking, threads, db, recent, starts, reboot, overlap, timedOut, smashed, unseen,
               crossed, told>>

<1>1. calls[s].pc = "entered" /\ calls[s].code = "FORCE_FACTORY_RESET" /\ ~(loaded /\ calls[s].code \in hooked)
  BY DEF FileManagerEraseKeys, Open, Dispatched, At, CallbackParcel, IsMapFuncExist
<1>2. UNCHANGED <<build, stage, tries, loaded, hooked, unlocked, mdm, made, updateImpMap,
                  checkComplete, checking, threads, db, recent, starts, reboot, overlap,
                  timedOut, smashed, unseen, crossed, told>>
  BY DEF FileManagerEraseKeys, procVars, envVars, chkVars, devVars, history
<1>3. "erased" \in Pcs
  BY DEF Pcs
<1>4. CASE keys' = "erased" /\ Goto(s, "erased")
  BY <1>1, <1>2, <1>3, <1>4, GotoEffect
<1>5. CASE keys' = keys /\ Answer(s, "CALL_FAIL")
  BY <1>1, <1>2, <1>5, AnswerEffect
<1>6. QED BY <1>4, <1>5 DEF FileManagerEraseKeys

(* The device goes down, or the caller is told that it does not.           *)
LEMMA ForceFactoryResetEffect ==
    ASSUME CallTypes, CallsFit, NEW s \in Slots, ForceFactoryReset(s)
    PROVE  /\ calls[s].pc = "erased"
           /\ CallShape' /\ Others(s) /\ calls'[s] = NoCall
           /\ reboot' # None \/ told'
           /\ UNCHANGED <<build, stage, tries, loaded, hooked, unlocked, mdm, made, updateImpMap,
               checkComplete, checking, threads, db, recent, starts, keys, overlap, timedOut, smashed, unseen,
               crossed>>
<1>1. calls[s].pc = "erased" /\ (\E err : Answer(s, err)) /\ (reboot' = "wipe" \/ told')
  BY DEF ForceFactoryReset, At, ExecReset
<1>2. calls[s].code = "FORCE_FACTORY_RESET"
  BY <1>1 DEF CallsFit
<1>3. UNCHANGED <<build, stage, tries, loaded, hooked, unlocked, mdm, made, updateImpMap,
                  checkComplete, checking, threads, db, recent, starts, keys, overlap, timedOut,
                  smashed, unseen, crossed>>
  BY DEF ForceFactoryReset, procVars, envVars, chkVars, devVars, history
<1>4. "wipe" # None
  BY DEF None
<1>5. QED BY <1>1, <1>2, <1>3, <1>4, AnswerEffect

(* A thread goes on with its id and its info.                              *)
LEMMA MovesEffect ==
    ASSUME CheckTypes, NEW t \in threads, NEW pc, Moves(t, pc)
    PROVE  /\ t \in [id : 1 .. made, info : updateImpMap, pc : {"ask", "insert", "insertTask", "call"}]
           /\ threads' = (threads \ {t}) \cup {[id |-> t.id, info |-> t.info, pc |-> pc]}
<1>1. t \in [id : 1 .. made, info : updateImpMap, pc : {"ask", "insert", "insertTask", "call"}]
  BY DEF CheckTypes
<1>2. [t EXCEPT !.pc = pc] = [id |-> t.id, info |-> t.info, pc |-> pc]
  BY <1>1
<1>3. QED BY <1>1, <1>2 DEF Moves

(* The server has answered: the tables are cleared, and then filled, or    *)
(* stay.                                                                   *)
LEMMA CheckAnswersEffect ==
    ASSUME CallTypes, CheckTypes, RowTypes, NEW t \in threads, NEW found, CheckAnswers(t, found)
    PROVE  /\ t.pc = "ask"
           /\ crossed => crossed'
           /\ crossed' \in BOOLEAN
           /\ db' \in [task : Nat, comps : Nat, status : Statuses] /\ CallShape'
           /\ \/ /\ UNCHANGED <<calls, db, crossed>>
                 /\ threads' = (threads \ {t}) \cup {[id |-> t.id, info |-> t.info, pc |-> "call"]}
              \/ /\ ~HasUndoneTask /\ Tears /\ db'.task = 0 /\ db'.comps = 0 /\ db'.status = "INIT"
                 /\ ~crossed' => \A u \in threads \ {t} : ~Fills(u)
                 /\ \E pc \in {"insert", "call"} :
                      threads' = (threads \ {t}) \cup {[id |-> t.id, info |-> t.info, pc |-> pc]}
           /\ UNCHANGED <<build, stage, tries, loaded, hooked, unlocked, mdm, made, updateImpMap,
               checkComplete, recent, starts, keys, reboot, overlap, timedOut, smashed, unseen, told>>

<1> DEFINE replaces == found = "new" /\ ~HasUndoneTask /\ db.comps # 2
           clears == replaces \/ (found = "none" /\ ~HasUndoneTask)
           to == IF replaces THEN "insert" ELSE "call"
           crosses == clears /\ \E u \in threads \ {t} : u.pc \in {"insert", "insertTask"}
<1>1. /\ t.pc = "ask" /\ Moves(t, to) /\ db' = (IF clears THEN Cleared ELSE db)
      /\ calls' = (IF clears THEN Torn ELSE calls) /\ crossed' = (crossed \/ crosses)
      /\ UNCHANGED <<build, stage, tries, loaded, hooked, unlocked, mdm, made, updateImpMap,
                     checkComplete, recent, starts, keys, reboot, overlap, timedOut, smashed,
                     unseen, told>>
  BY DEF CheckAnswers, procVars, envVars, chkVars, devVars, history
<1>2. threads' = (threads \ {t}) \cup {[id |-> t.id, info |-> t.info, pc |-> to]}
  BY <1>1, MovesEffect
<1>3. CASE clears
  <2>1. ~HasUndoneTask /\ db' = Cleared /\ calls' = Torn /\ to \in {"insert", "call"}
    BY <1>1, <1>3
  <2>2. Tears /\ CallShape'
    BY <2>1, TearsEffect DEF Tears
  <2>3. db'.task = 0 /\ db'.comps = 0 /\ db'.status = "INIT" /\ db' \in [task : Nat, comps : Nat, status : Statuses]
    BY <2>1 DEF Cleared, Statuses
  <2>4. ~crossed' => \A u \in threads \ {t} : ~Fills(u)
    BY <1>1, <1>3 DEF Fills
  <2>5. crossed' \in BOOLEAN /\ (crossed => crossed')
    BY <1>1 DEF RowTypes
  <2> HIDE DEF to, replaces, clears, crosses
  <2>6. QED BY <1>1, <1>2, <2>1, <2>2, <2>3, <2>4, <2>5
<1>4. CASE ~clears
  <2>1. db' = db /\ calls' = calls /\ to = "call" /\ crossed' = crossed
    BY <1>1, <1>4 DEF RowTypes
  <2>2. CallShape'
    BY <2>1 DEF CallShape, CallTypes, IsCall
  <2> HIDE DEF to, replaces, clears, crosses
  <2>3. QED BY <1>1, <1>2, <2>1, <2>2 DEF RowTypes
<1>5. QED BY <1>3, <1>4

(* A check writes the rows of the components.                              *)
LEMMA InsertComponentsEffect ==
    ASSUME CallTypes, CheckTypes, RowTypes, NEW t \in threads, InsertComponents(t)
    PROVE  /\ t.pc = "insert" /\ Tears /\ CallShape'
           /\ threads' = (threads \ {t}) \cup {[id |-> t.id, info |-> t.info, pc |-> "insertTask"]}
           /\ UNCHANGED <<db.task, db.status>> /\ db'.comps = 2
           /\ db' \in [task : Nat, comps : Nat, status : Statuses]
           /\ UNCHANGED <<build, stage, tries, loaded, hooked, unlocked, mdm, made, updateImpMap,
               checkComplete, checking, recent, starts, keys, reboot, overlap, timedOut, smashed, unseen, crossed,
               told>>
<1>1. /\ t.pc = "insert" /\ Moves(t, "insertTask") /\ calls' = Torn
      /\ UNCHANGED <<build, stage, tries, loaded, hooked, unlocked, mdm, made, updateImpMap,
                     checkComplete, checking, recent, starts, keys, reboot, overlap, timedOut,
                     smashed, unseen, crossed, told>>
  BY DEF InsertComponents, procVars, envVars, chkVars, devVars, history
<1>2. Tears /\ CallShape'
  BY <1>1, TearsEffect DEF Tears
<1>3. UNCHANGED <<db.task, db.status>> /\ db'.comps = 2
  BY DEF InsertComponents, RowTypes
<1>4. db' \in [task : Nat, comps : Nat, status : Statuses]
  BY DEF InsertComponents, RowTypes, Statuses
<1>5. QED BY <1>1, <1>2, <1>3, <1>4, MovesEffect

(* A check writes the rows of the task.                                    *)
LEMMA InsertTaskEffect ==
    ASSUME CallTypes, CheckTypes, RowTypes, NEW t \in threads, InsertTask(t)
    PROVE  /\ t.pc = "insertTask" /\ Tears /\ CallShape'
           /\ threads' = (threads \ {t}) \cup {[id |-> t.id, info |-> t.info, pc |-> "call"]}
           /\ UNCHANGED db.comps /\ db'.task = 2 /\ db'.status = "CHECK_VERSION_SUCCESS"
           /\ db' \in [task : Nat, comps : Nat, status : Statuses]
           /\ UNCHANGED <<build, stage, tries, loaded, hooked, unlocked, mdm, made, updateImpMap,
               checkComplete, checking, recent, starts, keys, reboot, overlap, timedOut, smashed, unseen, crossed,
               told>>
<1>1. /\ t.pc = "insertTask" /\ Moves(t, "call") /\ calls' = Torn
      /\ UNCHANGED <<build, stage, tries, loaded, hooked, unlocked, mdm, made, updateImpMap,
                     checkComplete, checking, recent, starts, keys, reboot, overlap, timedOut,
                     smashed, unseen, crossed, told>>
  BY DEF InsertTask, procVars, envVars, chkVars, devVars, history
<1>2. Tears /\ CallShape'
  BY <1>1, TearsEffect DEF Tears
<1>3. UNCHANGED db.comps /\ db'.task = 2 /\ db'.status = "CHECK_VERSION_SUCCESS"
  BY DEF InsertTask, RowTypes
<1>4. db' \in [task : Nat, comps : Nat, status : Statuses]
  BY DEF InsertTask, RowTypes, Statuses
<1>5. QED BY <1>1, <1>2, <1>3, <1>4, MovesEffect

(* The answer reaches the call that has the id of the thread, if it still  *)
(* waits.                                                                  *)
LEMMA OnCheckCompleteEffect ==
    ASSUME CallTypes, CheckTypes, NEW t \in threads, OnCheckComplete(t)
    PROVE  /\ t.pc = "call" /\ threads' = threads \ {t}
           /\ checkComplete' = [checkComplete EXCEPT ![t.info] = TRUE]
           /\ CallShape'
           /\ \A s \in Slots : calls[s].pc \in {"wait", "leave"} /\ calls[s].id = t.id =>
                /\ UNCHANGED <<calls[s].pc, calls[s].code, calls[s].who, calls[s].info, calls[s].id, calls[s].fair>>
                /\ calls'[s].got = <<"own">> /\ calls'[s].err # "TIME_OUT"
           /\ \A s \in Slots : ~(calls[s].pc \in {"wait", "leave"} /\ calls[s].id = t.id) => calls'[s] =
               calls[s]
           /\ smashed' => smashed \/ \A s \in Slots : ~(calls[s].pc \in {"wait", "leave"} /\ calls[s].id =
               t.id)
           /\ UNCHANGED <<build, stage, tries, loaded, hooked, unlocked, mdm, made, updateImpMap, checking, db,
               recent, starts, keys, reboot, overlap, timedOut, unseen, crossed, told>>

<1> DEFINE waiting == {s \in Slots : calls[s].id = t.id /\ calls[s].pc \in {"wait", "leave"}}
           new(s) == [calls[s] EXCEPT !.got = <<"own">>, !.err = IF @ = None THEN @ ELSE "SUCCESS"]
<1>1. /\ t.pc = "call" /\ threads' = threads \ {t} /\ checkComplete' = [checkComplete EXCEPT ![t.info] = TRUE]
      /\ calls' = [s \in Slots |-> IF s \notin waiting THEN calls[s] ELSE new(s)]
      /\ smashed' = (smashed \/ waiting = {})
      /\ UNCHANGED <<build, stage, tries, loaded, hooked, unlocked, mdm, made, updateImpMap,
                     checking, db, recent, starts, keys, reboot, overlap, timedOut, unseen,
                     crossed, told>>
  BY DEF OnCheckComplete, procVars, envVars, chkVars, devVars, history
<1>2. ASSUME NEW s \in Slots
      PROVE  /\ IsCall(new(s)) /\ new(s).pc = calls[s].pc /\ new(s).code = calls[s].code
             /\ new(s).who = calls[s].who /\ new(s).info = calls[s].info /\ new(s).id = calls[s].id
             /\ new(s).fair = calls[s].fair /\ new(s).got = <<"own">> /\ new(s).err # "TIME_OUT"
  <2> DEFINE e == IF calls[s].err = None THEN calls[s].err ELSE "SUCCESS"
  <2>1. e # "TIME_OUT"
    BY DEF None
  <2>2. IsCall(calls[s])
    BY DEF CallTypes
  <2>3. new(s) = [calls[s] EXCEPT !.got = <<"own">>, !.err = e]
    BY <2>2 DEF IsCall
  <2> HIDE DEF e, new
  <2>4. QED BY <2>1, <2>2, <2>3 DEF IsCall
<1> HIDE DEF new
<1>3. CallShape'
  <2>1. calls' = [s \in Slots |-> calls'[s]]
    BY <1>1
  <2>2. ASSUME NEW s \in Slots PROVE IsCall(calls'[s]) /\ calls'[s].pc \in Pcs /\ calls'[s].fair \in BOOLEAN
    <3>1. calls'[s] = calls[s] \/ calls'[s] = new(s)
      BY <1>1
    <3>2. IsCall(calls[s]) /\ calls[s].pc \in Pcs /\ calls[s].fair \in BOOLEAN
      BY DEF CallTypes
    <3>3. CASE calls'[s] = calls[s]
      BY <3>2, <3>3
    <3>4. CASE calls'[s] = new(s)
      BY <1>2, <3>2, <3>4
    <3>5. QED BY <3>1, <3>3, <3>4
  <2>3. QED BY <2>1, <2>2 DEF CallShape
<1>4. \A s \in Slots : calls[s].pc \in {"wait", "leave"} /\ calls[s].id = t.id => calls'[s] = new(s)
  BY <1>1
<1>5. \A s \in Slots : ~(calls[s].pc \in {"wait", "leave"} /\ calls[s].id = t.id) => calls'[s] = calls[s]
  BY <1>1
<1>6. smashed' => smashed \/ \A s \in Slots : ~(calls[s].pc \in {"wait", "leave"} /\ calls[s].id = t.id)
  BY <1>1
<1> HIDE DEF waiting
<1>7. QED BY <1>1, <1>2, <1>3, <1>4, <1>5, <1>6

(* A flow that was started begins, or ends.                                *)
LEMMA FlowMovesEffect ==
    ASSUME RowTypes, FlowMoves
    PROVE  /\ db' \in [task : Nat, comps : Nat, status : Statuses]
           /\ starts' \in [download : Nat, upgrade : Nat]
           /\ UNCHANGED <<db.task, db.comps>> /\ db.status # "INIT"
           /\ unseen' \in BOOLEAN /\ (unseen => unseen')
           /\ \/ /\ starts.download > 0 /\ db.status = "CHECK_VERSION_SUCCESS" /\ db'.status = "DOWNLOADING"
                 /\ starts' = starts
              \/ /\ starts.download > 0 /\ db.status = "DOWNLOADING"
                 /\ starts'.download = starts.download - 1 /\ starts'.upgrade = starts.upgrade
              \/ /\ starts.upgrade > 0 /\ db.status # "INSTALLING" /\ db'.status = "INSTALLING"
                 /\ starts' = starts /\ (starts.download > 0 => unseen')
              \/ /\ starts.upgrade > 0 /\ db.status = "INSTALLING"
                 /\ starts'.upgrade = starts.upgrade - 1 /\ starts'.download = starts.download
           /\ UNCHANGED <<build, stage, tries, loaded, hooked, unlocked, mdm, calls, made, updateImpMap,
               checkComplete, checking, threads, recent, keys, reboot, overlap, timedOut, smashed, crossed, told>>

<1>1. UNCHANGED <<build, stage, tries, loaded, hooked, unlocked, mdm, calls, made, updateImpMap,
                  checkComplete, checking, threads, recent, keys, reboot, overlap, timedOut,
                  smashed, crossed, told>>
  BY DEF FlowMoves, procVars, envVars, chkVars, devVars
<1>2. CASE /\ starts.download > 0 /\ db.status = "CHECK_VERSION_SUCCESS"
           /\ db' = [db EXCEPT !.status = "DOWNLOADING"] /\ UNCHANGED <<starts, unseen>>
  BY <1>1, <1>2 DEF RowTypes, Statuses
<1>3. ASSUME NEW to \in {"DOWNLOAD_SUCCESS", "DOWNLOAD_FAIL", "DOWNLOAD_PAUSE"},
             starts.download > 0, db.status = "DOWNLOADING", db' = [db EXCEPT !.status = to],
             starts' = [starts EXCEPT !.download = @ - 1], UNCHANGED unseen
      PROVE  /\ db' \in [task : Nat, comps : Nat, status : Statuses] /\ starts' \in [download : Nat, upgrade : Nat]
             /\ UNCHANGED <<db.task, db.comps>> /\ unseen' \in BOOLEAN /\ (unseen => unseen')
             /\ starts'.download = starts.download - 1 /\ starts'.upgrade = starts.upgrade
  BY <1>3 DEF RowTypes, Statuses
<1>4. CASE /\ InstallBegins /\ db' = [db EXCEPT !.status = "INSTALLING"]
           /\ unseen' = (unseen \/ starts.download > 0) /\ UNCHANGED starts
  <2>1. starts.upgrade > 0 /\ db.status \notin {"INIT", "INSTALLING"}
    BY <1>4 DEF InstallBegins
  <2>2. unseen' \in BOOLEAN /\ (unseen => unseen') /\ (starts.download > 0 => unseen')
    BY <1>4 DEF RowTypes
  <2>3. QED BY <1>1, <1>4, <2>1, <2>2 DEF RowTypes, Statuses
<1>5. ASSUME NEW to \in {"INSTALL_FAIL", IF build = "UPDATER" THEN "UPDATING" ELSE "INSTALL_SUCCESS"},
             starts.upgrade > 0, db.status = "INSTALLING",
             db' = [db EXCEPT !.status = to], starts' = [starts EXCEPT !.upgrade = @ - 1], UNCHANGED unseen
      PROVE  /\ db' \in [task : Nat, comps : Nat, status : Statuses] /\ starts' \in [download : Nat, upgrade : Nat]
             /\ UNCHANGED <<db.task, db.comps>> /\ unseen' \in BOOLEAN /\ (unseen => unseen')
             /\ starts'.upgrade = starts.upgrade - 1 /\ starts'.download = starts.download
  <2>1. to \in {"INSTALL_FAIL", "UPDATING", "INSTALL_SUCCESS"}
    OBVIOUS
  <2>2. QED BY <1>5, <2>1 DEF RowTypes, Statuses
<1>6. QED BY <1>1, <1>2, <1>3, <1>4, <1>5 DEF FlowMoves

(* A second has passed since a call was let through.                       *)
LEMMA SecondPassesEffect ==
    ASSUME RowTypes, NEW what, SecondPasses(what)
    PROVE  /\ recent' = recent \ {what}
           /\ unseen' \in BOOLEAN /\ (unseen => unseen')
           /\ ~unseen' => /\ \A s \in Slots : ~Downloads(s) /\ ~Upgrades(s)
                          /\ starts.download > 0 => db.status = "DOWNLOADING"
                          /\ starts.upgrade > 0 => db.status = "INSTALLING"
           /\ UNCHANGED <<build, stage, tries, loaded, hooked, unlocked, mdm, calls, made, updateImpMap,
               checkComplete, checking, threads, db, starts, keys, reboot, overlap, timedOut, smashed, crossed,
               told>>
<1>1. recent' = recent \ {what} /\ UNCHANGED <<build, stage, tries, loaded, hooked, unlocked,
                                               mdm, calls, made, updateImpMap, checkComplete,
                                               checking, threads, db, starts, keys, reboot,
                                               overlap, timedOut, smashed, crossed, told>>
  BY DEF SecondPasses, procVars, envVars, chkVars, devVars, history
<1>2. unseen' \in BOOLEAN /\ (unseen => unseen')
  BY DEF SecondPasses, RowTypes
<1>3. ~unseen' => /\ \A s \in Slots : ~Downloads(s) /\ ~Upgrades(s)
                  /\ starts.download > 0 => db.status = "DOWNLOADING"
                  /\ starts.upgrade > 0 => db.status = "INSTALLING"
  BY DEF SecondPasses, Downloads, Upgrades
<1>4. QED BY <1>1, <1>2, <1>3

-----------------------------------------------------------------------------
(* Every step keeps the invariant                                          *)

(* The calls keep their shape.                                             *)
LEMMA CallTypesStep ==
    ASSUME ServiceInv, Next PROVE CallTypes'
<1>1. CallTypes /\ ServiceTypes /\ CheckTypes /\ RowTypes /\ CallsFit
  BY DEF ServiceInv
<1>2. CASE UNCHANGED <<calls, made>>
  BY <1>1, <1>2 DEF CallTypes, IsCall
<1>3. ASSUME NEW s \in Slots, Dismisses(s) PROVE CallTypes'
  BY <1>1, <1>3, FreshCall DEF CallTypes, CallShape, Dismisses
<1>4. ASSUME NEW s \in Slots, NEW code \in Codes, NEW who \in Callers,
             NEW info \in IF code \in OnlineCodes THEN Infos ELSE {NoInfo},
             CallbackEnter(s, code, who, info) PROVE CallTypes'
  BY <1>1, <1>4, CallbackEnterEffect, FreshCall DEF CallTypes, CallShape
<1>5. ASSUME NEW s \in Slots, CheckNewVersion(s) PROVE CallTypes'
  BY <1>1, <1>5, CheckNewVersionEffect DEF CallTypes, CallShape
<1>6. ASSUME NEW s \in Slots, WaitReturns(s) PROVE CallTypes'
  BY <1>1, <1>6, WaitReturnsEffect DEF CallTypes, CallShape
<1>7. ASSUME NEW s \in Slots, WaitTimesOut(s) PROVE CallTypes'
  BY <1>1, <1>7, WaitTimesOutEffect DEF CallTypes, CallShape
<1>8. ASSUME NEW s \in Slots, LeaveCheck(s) PROVE CallTypes'
  BY <1>1, <1>8, LeaveCheckEffect, FreshCall DEF CallTypes, CallShape
<1>9. ASSUME NEW s \in Slots, Download(s) PROVE CallTypes'
  BY <1>1, <1>9, DownloadEffect, FreshCall DEF CallTypes, CallShape
<1>10. ASSUME NEW s \in Slots, DoDownload(s) PROVE CallTypes'
  BY <1>1, <1>10, DoDownloadEffect, FreshCall DEF CallTypes, CallShape
<1>11. ASSUME NEW s \in Slots, Upgrade(s) PROVE CallTypes'
  BY <1>1, <1>11, UpgradeEffect, FreshCall DEF CallTypes, CallShape
<1>12. ASSUME NEW s \in Slots, Cancel(s) PROVE CallTypes'
  BY <1>1, <1>12, CancelEffect, FreshCall DEF CallTypes, CallShape
<1>13. ASSUME NEW s \in Slots, DoCancel(s) PROVE CallTypes'
  BY <1>1, <1>13, DoCancelEffect, FreshCall DEF CallTypes, CallShape
<1>14. ASSUME NEW s \in Slots, ClearError(s) PROVE CallTypes'
  BY <1>1, <1>14, ClearErrorEffect, FreshCall DEF CallTypes, CallShape
<1>15. ASSUME NEW s \in Slots, GetNewVersionInfo(s) PROVE CallTypes'
  BY <1>1, <1>15, GetNewVersionInfoEffect DEF CallTypes, CallShape
<1>16. ASSUME NEW s \in Slots, QueryAllComponents(s) PROVE CallTypes'
  BY <1>1, <1>16, QueryAllComponentsEffect, FreshCall DEF CallTypes, CallShape
<1>17. ASSUME NEW s \in Slots, FileManagerEraseKeys(s) PROVE CallTypes'
  BY <1>1, <1>17, FileManagerEraseKeysEffect, FreshCall DEF CallTypes, CallShape
<1>18. ASSUME NEW s \in Slots, ForceFactoryReset(s) PROVE CallTypes'
  BY <1>1, <1>18, ForceFactoryResetEffect, FreshCall DEF CallTypes, CallShape
<1>19. ASSUME NEW t \in threads, NEW found, CheckAnswers(t, found) PROVE CallTypes'
  BY <1>1, <1>19, CheckAnswersEffect DEF CallTypes, CallShape, Tears
<1>20. ASSUME NEW t \in threads, InsertComponents(t) PROVE CallTypes'
  BY <1>1, <1>20, InsertComponentsEffect DEF CallTypes, CallShape, Tears
<1>21. ASSUME NEW t \in threads, InsertTask(t) PROVE CallTypes'
  BY <1>1, <1>21, InsertTaskEffect DEF CallTypes, CallShape, Tears
<1>22. ASSUME NEW t \in threads, OnCheckComplete(t) PROVE CallTypes'
  BY <1>1, <1>22, OnCheckCompleteEffect DEF CallTypes, CallShape
<1>23. CASE StandsBy \/ FlowMoves
  BY <1>1, <1>2, <1>23, FlowMovesEffect DEF StandsBy
<1>24. ASSUME NEW what, SecondPasses(what) PROVE CallTypes'
  BY <1>1, <1>2, <1>24, SecondPassesEffect
<1>25. ASSUME NEW s \in Slots, Proceeds(s) PROVE CallTypes'
  BY <1>1, <1>25, FreshCall DEF CallTypes, CallShape, Proceeds
<1>26. ASSUME NEW s \in Slots, GetStepAfterInit(s) PROVE CallTypes'
  BY <1>1, <1>26, GetStepAfterInitEffect, FreshCall DEF CallTypes, CallShape
<1>27. QED BY <1>1, StandByEffect, DismissEffect, ProceedEffect, <1>3, <1>4, <1>5, <1>6, <1>7, <1>8, <1>9, <1>10,
    <1>11, <1>12, <1>13, <1>14, <1>15, <1>16, <1>17, <1>18, <1>19, <1>20, <1>21, <1>22, <1>23, <1>24, <1>25, <1>26
    DEF Next, Handles, CheckThread, Environment

(* The state of the service keeps its type.                                *)
LEMMA ServiceTypesStep ==
    ASSUME ServiceInv, Next PROVE ServiceTypes'
<1>1. CallTypes /\ ServiceTypes /\ CheckTypes /\ RowTypes /\ CallsFit
  BY DEF ServiceInv
<1>2. CASE UNCHANGED <<stage, tries, loaded, hooked, recent, keys>>
  BY <1>1, <1>2 DEF ServiceTypes
<1>3. CASE StandsBy /\ ServiceTypes'
  BY <1>3
<1>4. ASSUME NEW s \in Slots, Download(s) PROVE ServiceTypes'
  BY <1>1, <1>4, DownloadEffect DEF ServiceTypes
<1>5. ASSUME NEW s \in Slots, Upgrade(s) PROVE ServiceTypes'
  BY <1>1, <1>5, UpgradeEffect DEF ServiceTypes
<1>6. ASSUME NEW s \in Slots, FileManagerEraseKeys(s) PROVE ServiceTypes'
  BY <1>1, <1>6, FileManagerEraseKeysEffect DEF ServiceTypes
<1>7. ASSUME NEW what, SecondPasses(what) PROVE ServiceTypes'
  BY <1>1, <1>7, SecondPassesEffect DEF ServiceTypes
<1>8. ASSUME NEW s \in Slots,
             Dismisses(s) \/ (\E code, who, info : CallbackEnter(s, code, who, info)) \/ CheckNewVersion(s)
             \/ WaitReturns(s) \/ WaitTimesOut(s) \/ LeaveCheck(s) \/ DoDownload(s) \/ Cancel(s) \/
             DoCancel(s) \/ ClearError(s) \/ GetNewVersionInfo(s) \/ QueryAllComponents(s) \/
             ForceFactoryReset(s)
      PROVE  ServiceTypes'
  BY <1>1, <1>2, <1>8, CallbackEnterEffect, CheckNewVersionEffect, WaitReturnsEffect, WaitTimesOutEffect,
      LeaveCheckEffect, DoDownloadEffect, CancelEffect, DoCancelEffect, ClearErrorEffect,
      GetNewVersionInfoEffect, QueryAllComponentsEffect, ForceFactoryResetEffect DEF Dismisses
<1>9. ASSUME NEW t \in threads,
             (\E found : CheckAnswers(t, found)) \/ InsertComponents(t) \/ InsertTask(t) \/
             OnCheckComplete(t)
      PROVE  ServiceTypes'
  BY <1>1, <1>2, <1>9, CheckAnswersEffect, InsertComponentsEffect, InsertTaskEffect, OnCheckCompleteEffect
<1>10. CASE FlowMoves
  BY <1>1, <1>2, <1>10, FlowMovesEffect
<1>11. ASSUME NEW s \in Slots, Proceeds(s) PROVE ServiceTypes'
  BY <1>1, <1>2, <1>11 DEF Proceeds
<1>12. ASSUME NEW s \in Slots, GetStepAfterInit(s) PROVE ServiceTypes'
  BY <1>1, <1>2, <1>12, GetStepAfterInitEffect
<1>13. QED BY <1>1, StandByEffect, DismissEffect, ProceedEffect, <1>3, <1>4, <1>5, <1>6, <1>7, <1>8, <1>9, <1>10,
    <1>11, <1>12 DEF Next, Handles, CheckThread, Environment

(* The flags and the threads keep their types.                             *)
LEMMA CheckTypesStep ==
    ASSUME ServiceInv, Next PROVE CheckTypes'
<1>1. CallTypes /\ ServiceTypes /\ CheckTypes /\ RowTypes /\ CallsFit
  BY DEF ServiceInv
<1>2. CASE UNCHANGED <<updateImpMap, checkComplete, threads, made>>
  BY <1>1, <1>2 DEF CheckTypes, CallsFit
<1>3. ASSUME NEW s \in Slots, Dismisses(s) PROVE CheckTypes'
  BY <1>1, <1>3 DEF CheckTypes, CallsFit, Dismisses
<1>4. ASSUME NEW s \in Slots, NEW code \in Codes, NEW who \in Callers,
             NEW info \in IF code \in OnlineCodes THEN Infos ELSE {NoInfo},
             CallbackEnter(s, code, who, info) PROVE CheckTypes'
  <2>1. made' = made + 1 /\ made \in Nat /\ UNCHANGED <<updateImpMap, checkComplete, threads>>
    BY <1>1, <1>4, CallbackEnterEffect DEF CallTypes
  <2>2. 1 .. made \subseteq 1 .. made'
    BY <2>1
  <2>3. QED BY <1>1, <2>1, <2>2 DEF CheckTypes
<1>5. ASSUME NEW s \in Slots, CheckNewVersion(s) PROVE CheckTypes'
  <2>1. /\ calls[s].pc = "entered" /\ calls[s].info \in Infos /\ made' = made
        /\ updateImpMap' = updateImpMap \cup {calls[s].info}
        /\ threads' \subseteq threads \cup {[id |-> calls[s].id, info |-> calls[s].info, pc |-> "ask"]}
    BY <1>1, <1>5, CheckNewVersionEffect
  <2>2. checkComplete' \in [Infos -> BOOLEAN]
    BY <1>1, <2>1, <1>5, CheckNewVersionEffect DEF CheckTypes
  <2>3. calls[s].id \in 1 .. made
    BY <1>1, <2>1 DEF CallsFit
  <2>4. [id |-> calls[s].id, info |-> calls[s].info, pc |-> "ask"]
          \in [id : 1 .. made, info : updateImpMap', pc : {"ask", "insert", "insertTask", "call"}]
    BY <2>1, <2>3
  <2>5. threads \subseteq [id : 1 .. made, info : updateImpMap', pc : {"ask", "insert", "insertTask", "call"}]
    BY <1>1, <2>1 DEF CheckTypes
  <2>6. QED BY <1>1, <2>1, <2>2, <2>4, <2>5 DEF CheckTypes
<1>6. ASSUME NEW s \in Slots, LeaveCheck(s) PROVE CheckTypes'
  BY <1>1, <1>6, LeaveCheckEffect DEF CheckTypes, CallsFit
<1>7. ASSUME NEW s \in Slots, Download(s) PROVE CheckTypes'
  BY <1>1, <1>7, DownloadEffect DEF CheckTypes, CallsFit
<1>8. ASSUME NEW s \in Slots, Upgrade(s) PROVE CheckTypes'
  BY <1>1, <1>8, UpgradeEffect DEF CheckTypes, CallsFit
<1>9. ASSUME NEW s \in Slots, Cancel(s) PROVE CheckTypes'
  BY <1>1, <1>9, CancelEffect DEF CheckTypes, CallsFit
<1>10. ASSUME NEW s \in Slots, ClearError(s) PROVE CheckTypes'
  BY <1>1, <1>10, ClearErrorEffect DEF CheckTypes, CallsFit
<1>11. ASSUME NEW s \in Slots, GetNewVersionInfo(s) PROVE CheckTypes'
  <2>1. /\ calls[s].info \in Infos /\ updateImpMap' = updateImpMap \cup {calls[s].info}
        /\ UNCHANGED <<checkComplete, threads, made>>
    BY <1>1, <1>11, GetNewVersionInfoEffect
  <2>2. QED BY <1>1, <2>1 DEF CheckTypes
<1>12. ASSUME NEW t \in threads, NEW found, CheckAnswers(t, found) PROVE CheckTypes'
  BY <1>1, <1>12, CheckAnswersEffect DEF CheckTypes, CallsFit
<1>13. ASSUME NEW t \in threads, InsertComponents(t) PROVE CheckTypes'
  BY <1>1, <1>13, InsertComponentsEffect DEF CheckTypes, CallsFit
<1>14. ASSUME NEW t \in threads, InsertTask(t) PROVE CheckTypes'
  BY <1>1, <1>14, InsertTaskEffect DEF CheckTypes, CallsFit
<1>15. ASSUME NEW t \in threads, OnCheckComplete(t) PROVE CheckTypes'
  BY <1>1, <1>15, OnCheckCompleteEffect DEF CheckTypes, CallsFit
<1>16. CASE StandsBy \/ FlowMoves
  BY <1>1, <1>2, <1>16, FlowMovesEffect DEF StandsBy
<1>17. ASSUME NEW s \in Slots,
             WaitReturns(s) \/ WaitTimesOut(s) \/ DoDownload(s) \/ DoCancel(s) \/ QueryAllComponents(s) \/
             FileManagerEraseKeys(s) \/ ForceFactoryReset(s)
      PROVE  CheckTypes'
  BY <1>1, <1>2, <1>17, WaitReturnsEffect, WaitTimesOutEffect, DoDownloadEffect, DoCancelEffect,
      QueryAllComponentsEffect, FileManagerEraseKeysEffect, ForceFactoryResetEffect
<1>18. ASSUME NEW what, SecondPasses(what) PROVE CheckTypes'
  BY <1>1, <1>2, <1>18, SecondPassesEffect
<1>19. ASSUME NEW s \in Slots, Proceeds(s) PROVE CheckTypes'
  BY <1>1, <1>2, <1>19 DEF Proceeds
<1>20. ASSUME NEW s \in Slots, GetStepAfterInit(s) PROVE CheckTypes'
  BY <1>1, <1>2, <1>20, GetStepAfterInitEffect
<1>21. QED BY <1>1, StandByEffect, DismissEffect, ProceedEffect, <1>3, <1>4, <1>5, <1>6, <1>7, <1>8, <1>9, <1>10,
    <1>11, <1>12, <1>13, <1>14, <1>15, <1>16, <1>17, <1>18, <1>19, <1>20 DEF Next, Handles, CheckThread, Environment

(* The rows and the starts keep their types.                               *)
LEMMA RowTypesStep ==
    ASSUME ServiceInv, Next PROVE RowTypes'
<1>1. CallTypes /\ ServiceTypes /\ CheckTypes /\ RowTypes /\ CallsFit
  BY DEF ServiceInv
<1>2. CASE UNCHANGED <<db, starts, unseen, crossed>>
  BY <1>1, <1>2 DEF RowTypes
<1>3. ASSUME NEW s \in Slots, DoDownload(s) PROVE RowTypes'
  BY <1>1, <1>3, DoDownloadEffect DEF RowTypes
<1>4. ASSUME NEW s \in Slots, Upgrade(s) PROVE RowTypes'
  BY <1>1, <1>2, <1>4, UpgradeEffect
<1>5. ASSUME NEW s \in Slots, DoCancel(s) PROVE RowTypes'
  BY <1>1, <1>5, DoCancelEffect DEF RowTypes
<1>6. ASSUME NEW s \in Slots, ClearError(s) PROVE RowTypes'
  BY <1>1, <1>6, ClearErrorEffect DEF RowTypes
<1>7. ASSUME NEW t \in threads, NEW found, CheckAnswers(t, found) PROVE RowTypes'
  BY <1>1, <1>7, CheckAnswersEffect DEF RowTypes
<1>8. ASSUME NEW t \in threads, InsertComponents(t) PROVE RowTypes'
  BY <1>1, <1>8, InsertComponentsEffect DEF RowTypes
<1>9. ASSUME NEW t \in threads, InsertTask(t) PROVE RowTypes'
  BY <1>1, <1>9, InsertTaskEffect DEF RowTypes
<1>10. CASE FlowMoves
  BY <1>1, <1>10, FlowMovesEffect DEF RowTypes
<1>11. ASSUME NEW what, SecondPasses(what) PROVE RowTypes'
  BY <1>1, <1>11, SecondPassesEffect DEF RowTypes
<1>12. CASE StandsBy
  BY <1>1, <1>2, <1>12 DEF StandsBy
<1>13. ASSUME NEW s \in Slots,
             Dismisses(s) \/ (\E code, who, info : CallbackEnter(s, code, who, info)) \/ CheckNewVersion(s)
             \/ WaitReturns(s) \/ WaitTimesOut(s) \/ LeaveCheck(s) \/ Download(s) \/ Cancel(s) \/
             GetNewVersionInfo(s) \/ QueryAllComponents(s) \/ FileManagerEraseKeys(s) \/
             ForceFactoryReset(s)
      PROVE  RowTypes'
  BY <1>1, <1>2, <1>13, CallbackEnterEffect, CheckNewVersionEffect, WaitReturnsEffect, WaitTimesOutEffect,
      LeaveCheckEffect, DownloadEffect, CancelEffect, GetNewVersionInfoEffect, QueryAllComponentsEffect,
      FileManagerEraseKeysEffect, ForceFactoryResetEffect DEF Dismisses
<1>14. ASSUME NEW t \in threads, OnCheckComplete(t) PROVE RowTypes'
  BY <1>1, <1>2, <1>14, OnCheckCompleteEffect
<1>15. ASSUME NEW s \in Slots, Proceeds(s) PROVE RowTypes'
  BY <1>1, <1>2, <1>15 DEF Proceeds
<1>16. ASSUME NEW s \in Slots, GetStepAfterInit(s) PROVE RowTypes'
  BY <1>1, <1>16, GetStepAfterInitEffect DEF RowTypes
<1>17. QED BY <1>1, StandByEffect, DismissEffect, ProceedEffect, <1>3, <1>4, <1>5, <1>6, <1>7, <1>8, <1>9, <1>10,
    <1>11, <1>12, <1>13, <1>14, <1>15, <1>16 DEF Next, Handles, CheckThread, Environment

(* What the step of a call says about it stays so.                         *)
LEMMA CallsFitStep ==
    ASSUME ServiceInv, CallTypes', Next PROVE CallsFit'
<1>1. CallTypes /\ ServiceTypes /\ CheckTypes /\ RowTypes /\ CallsFit
  BY DEF ServiceInv
<1>2. CASE UNCHANGED <<calls, stage, updateImpMap, made>>
  BY <1>1, <1>2 DEF CallsFit, CallTypes
<1>3. CASE StandsBy
  BY <1>1, <1>3 DEF CallsFit, CallTypes, StandsBy
<1>4. ASSUME NEW s \in Slots, Dismisses(s) PROVE CallsFit'
  BY <1>1, <1>4, FreshCall DEF CallsFit, Serving, CallTypes, Others, Dismisses
<1>5. ASSUME NEW s \in Slots, NEW code \in Codes, NEW who \in Callers,
             NEW info \in IF code \in OnlineCodes THEN Infos ELSE {NoInfo},
             CallbackEnter(s, code, who, info) PROVE CallsFit'
  BY <1>1, <1>5, CallbackEnterEffect, FreshCall DEF CallsFit, Serving, CallTypes, Others
<1>6. ASSUME NEW s \in Slots, CheckNewVersion(s) PROVE CallsFit'
  BY <1>1, <1>6, CheckNewVersionEffect DEF CallsFit, CallTypes, Others
<1>7. ASSUME NEW s \in Slots, WaitReturns(s) PROVE CallsFit'
  BY <1>1, <1>7, WaitReturnsEffect DEF CallsFit, Serving, CallTypes, Others
<1>8. ASSUME NEW s \in Slots, WaitTimesOut(s) PROVE CallsFit'
  BY <1>1, <1>8, WaitTimesOutEffect DEF CallsFit, Serving, CallTypes, Others
<1>9. ASSUME NEW s \in Slots, LeaveCheck(s) PROVE CallsFit'
  BY <1>1, <1>9, LeaveCheckEffect, FreshCall DEF CallsFit, Serving, CallTypes, Others
<1>10. ASSUME NEW s \in Slots, Download(s) PROVE CallsFit'
  BY <1>1, <1>10, DownloadEffect, FreshCall DEF CallsFit, Serving, CallTypes, Others
<1>11. ASSUME NEW s \in Slots, DoDownload(s) PROVE CallsFit'
  BY <1>1, <1>11, DoDownloadEffect, FreshCall DEF CallsFit, Serving, CallTypes, Others
<1>12. ASSUME NEW s \in Slots, Upgrade(s) PROVE CallsFit'
  BY <1>1, <1>12, UpgradeEffect, FreshCall DEF CallsFit, Serving, CallTypes, Others
<1>13. ASSUME NEW s \in Slots, Cancel(s) PROVE CallsFit'
  BY <1>1, <1>13, CancelEffect, FreshCall DEF CallsFit, Serving, CallTypes, Others
<1>14. ASSUME NEW s \in Slots, DoCancel(s) PROVE CallsFit'
  BY <1>1, <1>14, DoCancelEffect, FreshCall DEF CallsFit, Serving, CallTypes, Others
<1>15. ASSUME NEW s \in Slots, ClearError(s) PROVE CallsFit'
  BY <1>1, <1>15, ClearErrorEffect, FreshCall DEF CallsFit, Serving, CallTypes, Others
<1>16. ASSUME NEW s \in Slots, GetNewVersionInfo(s) PROVE CallsFit'
  BY <1>1, <1>16, GetNewVersionInfoEffect DEF CallsFit, CallTypes, Others
<1>17. ASSUME NEW s \in Slots, QueryAllComponents(s) PROVE CallsFit'
  BY <1>1, <1>17, QueryAllComponentsEffect, FreshCall DEF CallsFit, Serving, CallTypes, Others
<1>18. ASSUME NEW s \in Slots, FileManagerEraseKeys(s) PROVE CallsFit'
  BY <1>1, <1>18, FileManagerEraseKeysEffect, FreshCall DEF CallsFit, Serving, CallTypes, Others
<1>19. ASSUME NEW s \in Slots, ForceFactoryReset(s) PROVE CallsFit'
  BY <1>1, <1>19, ForceFactoryResetEffect, FreshCall DEF CallsFit, Serving, CallTypes, Others
<1>20. ASSUME NEW t \in threads, NEW found, CheckAnswers(t, found) PROVE CallsFit'
  BY <1>1, <1>20, CheckAnswersEffect DEF CallsFit, CallTypes, Others, Tears
<1>21. ASSUME NEW t \in threads, InsertComponents(t) PROVE CallsFit'
  BY <1>1, <1>21, InsertComponentsEffect DEF CallsFit, CallTypes, Others, Tears
<1>22. ASSUME NEW t \in threads, InsertTask(t) PROVE CallsFit'
  BY <1>1, <1>22, InsertTaskEffect DEF CallsFit, CallTypes, Others, Tears
<1>23. ASSUME NEW t \in threads, OnCheckComplete(t) PROVE CallsFit'
  BY <1>1, <1>23, OnCheckCompleteEffect DEF CallsFit, CallTypes, Others
<1>24. CASE FlowMoves
  BY <1>1, <1>2, <1>24, FlowMovesEffect
<1>25. ASSUME NEW what, SecondPasses(what) PROVE CallsFit'
  BY <1>1, <1>2, <1>25, SecondPassesEffect
<1>26. ASSUME NEW s \in Slots, Proceeds(s) PROVE CallsFit'
  BY <1>1, <1>26, FreshCall DEF CallsFit, Serving, CallTypes, Others, Proceeds
<1>27. ASSUME NEW s \in Slots, GetStepAfterInit(s) PROVE CallsFit'
  BY <1>1, <1>27, GetStepAfterInitEffect, FreshCall DEF CallsFit, Serving, CallTypes, Others
<1>28. QED BY <1>1, StandByEffect, DismissEffect, ProceedEffect, <1>3, <1>4, <1>5, <1>6, <1>7, <1>8, <1>9, <1>10,
    <1>11, <1>12, <1>13, <1>14, <1>15, <1>16, <1>17, <1>18, <1>19, <1>20, <1>21, <1>22, <1>23, <1>24, <1>25, <1>26,
    <1>27 DEF Next, Handles, CheckThread, Environment

(* No call goes on unchecked.                                              *)
LEMMA CallsAreCheckedStep ==
    ASSUME ServiceInv, CallTypes', Next PROVE CallsAreChecked'
<1>1. CallTypes /\ ServiceTypes /\ CheckTypes /\ RowTypes /\ CallsFit /\ CallsAreChecked
  BY DEF ServiceInv
<1>2. CASE UNCHANGED <<calls, build, loaded, hooked, unlocked>>
  BY <1>1, <1>2 DEF CallsAreChecked, Checked, IsPermissionGranted
<1>3. CASE StandsBy
  BY <1>1, <1>3 DEF CallsAreChecked, Checked, IsPermissionGranted, StandsBy
<1>4. ASSUME NEW s \in Slots, Dismisses(s) PROVE CallsAreChecked'
  BY <1>1, <1>4, FreshCall DEF CallsAreChecked, Checked, IsPermissionGranted, Others, Dismisses
<1>5. ASSUME NEW s \in Slots, NEW code \in Codes, NEW who \in Callers,
             NEW info \in IF code \in OnlineCodes THEN Infos ELSE {NoInfo},
             CallbackEnter(s, code, who, info) PROVE CallsAreChecked'
  <2>1. SUFFICES ASSUME NEW u \in Slots, (calls[u].pc \notin {"idle", "done"})'
                  PROVE  Checked(u)' \/ (calls[u].pc = "entered" /\ loaded /\ calls[u].code \in hooked)'
    BY DEF CallsAreChecked
  <2>2. CASE u # s
    BY <1>1, <2>1, <2>2, <1>5, CallbackEnterEffect DEF CallsAreChecked, Checked, IsPermissionGranted, Others
  <2>3. CASE u = s
    <3>1. /\ Enter(who, code) = "SUCCESS" /\ calls'[s].pc = "entered" /\ calls'[s].code = code
          /\ calls'[s].who = who /\ calls'[s].fair = (code \in ResetCodes /\ ~mdm)
          /\ UNCHANGED <<build, loaded, hooked, unlocked>>
      BY <1>1, <2>1, <2>3, <1>5, CallbackEnterEffect, FreshCall
    <3>2. CASE loaded /\ code \in hooked
      BY <2>3, <3>1, <3>2
    <3>3. CASE ~(loaded /\ code \in hooked)
      <4>1. ~(build # "empty" /\ ~loaded /\ IsUserUnlockRequired(code) /\ ~unlocked)
        BY <3>1 DEF Enter
      <4>2. PermissionCheck(who, code) = "SUCCESS"
        BY <3>1, <3>3, <4>1 DEF Enter, IsMapFuncExist
      <4>3. IsCallerValid(who) /\ IsPermissionGranted(who, code) /\ ~IsResetDisabledByMdm(code)
        BY <4>2 DEF PermissionCheck
      <4>4. code \in ResetCodes => calls'[s].fair
        BY <3>1, <4>3 DEF IsResetDisabledByMdm
      <4>5. QED BY <2>3, <3>1, <4>1, <4>3, <4>4 DEF Checked, IsPermissionGranted
    <3>4. QED BY <3>2, <3>3
  <2>4. QED BY <2>2, <2>3
<1>6. ASSUME NEW s \in Slots, CheckNewVersion(s) PROVE CallsAreChecked'
  BY <1>1, <1>6, CheckNewVersionEffect DEF CallsAreChecked, Checked, IsPermissionGranted, Others
<1>7. ASSUME NEW s \in Slots, WaitReturns(s) PROVE CallsAreChecked'
  BY <1>1, <1>7, WaitReturnsEffect DEF CallsAreChecked, Checked, IsPermissionGranted, Others
<1>8. ASSUME NEW s \in Slots, WaitTimesOut(s) PROVE CallsAreChecked'
  BY <1>1, <1>8, WaitTimesOutEffect DEF CallsAreChecked, Checked, IsPermissionGranted, Others
<1>9. ASSUME NEW s \in Slots, LeaveCheck(s) PROVE CallsAreChecked'
  BY <1>1, <1>9, LeaveCheckEffect, FreshCall DEF CallsAreChecked, Checked, IsPermissionGranted, Others
<1>10. ASSUME NEW s \in Slots, Download(s) PROVE CallsAreChecked'
  BY <1>1, <1>10, DownloadEffect, FreshCall DEF CallsAreChecked, Checked, IsPermissionGranted, Others
<1>11. ASSUME NEW s \in Slots, DoDownload(s) PROVE CallsAreChecked'
  BY <1>1, <1>11, DoDownloadEffect, FreshCall DEF CallsAreChecked, Checked, IsPermissionGranted, Others
<1>12. ASSUME NEW s \in Slots, Upgrade(s) PROVE CallsAreChecked'
  BY <1>1, <1>12, UpgradeEffect, FreshCall DEF CallsAreChecked, Checked, IsPermissionGranted, Others
<1>13. ASSUME NEW s \in Slots, Cancel(s) PROVE CallsAreChecked'
  BY <1>1, <1>13, CancelEffect, FreshCall DEF CallsAreChecked, Checked, IsPermissionGranted, Others
<1>14. ASSUME NEW s \in Slots, DoCancel(s) PROVE CallsAreChecked'
  BY <1>1, <1>14, DoCancelEffect, FreshCall DEF CallsAreChecked, Checked, IsPermissionGranted, Others
<1>15. ASSUME NEW s \in Slots, ClearError(s) PROVE CallsAreChecked'
  BY <1>1, <1>15, ClearErrorEffect, FreshCall DEF CallsAreChecked, Checked, IsPermissionGranted, Others
<1>16. ASSUME NEW s \in Slots, GetNewVersionInfo(s) PROVE CallsAreChecked'
  BY <1>1, <1>16, GetNewVersionInfoEffect DEF CallsAreChecked, Checked, IsPermissionGranted, Others, ResetCodes
<1>17. ASSUME NEW s \in Slots, QueryAllComponents(s) PROVE CallsAreChecked'
  BY <1>1, <1>17, QueryAllComponentsEffect, FreshCall DEF CallsAreChecked, Checked, IsPermissionGranted, Others
<1>18. ASSUME NEW s \in Slots, FileManagerEraseKeys(s) PROVE CallsAreChecked'
  BY <1>1, <1>18, FileManagerEraseKeysEffect, FreshCall DEF CallsAreChecked, Checked, IsPermissionGranted,
      Others
<1>19. ASSUME NEW s \in Slots, ForceFactoryReset(s) PROVE CallsAreChecked'
  BY <1>1, <1>19, ForceFactoryResetEffect, FreshCall DEF CallsAreChecked, Checked, IsPermissionGranted, Others
<1>20. ASSUME NEW t \in threads, NEW found, CheckAnswers(t, found) PROVE CallsAreChecked'
  BY <1>1, <1>20, CheckAnswersEffect DEF CallsAreChecked, Checked, IsPermissionGranted, Others, Tears
<1>21. ASSUME NEW t \in threads, InsertComponents(t) PROVE CallsAreChecked'
  BY <1>1, <1>21, InsertComponentsEffect DEF CallsAreChecked, Checked, IsPermissionGranted, Others, Tears
<1>22. ASSUME NEW t \in threads, InsertTask(t) PROVE CallsAreChecked'
  BY <1>1, <1>22, InsertTaskEffect DEF CallsAreChecked, Checked, IsPermissionGranted, Others, Tears
<1>23. ASSUME NEW t \in threads, OnCheckComplete(t) PROVE CallsAreChecked'
  BY <1>1, <1>23, OnCheckCompleteEffect DEF CallsAreChecked, Checked, IsPermissionGranted, Others
<1>24. CASE FlowMoves
  BY <1>1, <1>2, <1>24, FlowMovesEffect
<1>25. ASSUME NEW what, SecondPasses(what) PROVE CallsAreChecked'
  BY <1>1, <1>2, <1>25, SecondPassesEffect
<1>26. ASSUME NEW s \in Slots, Proceeds(s) PROVE CallsAreChecked'
  BY <1>1, <1>26, FreshCall DEF CallsAreChecked, Checked, IsPermissionGranted, Others, Proceeds
<1>27. ASSUME NEW s \in Slots, GetStepAfterInit(s) PROVE CallsAreChecked'
  BY <1>1, <1>27, GetStepAfterInitEffect, FreshCall DEF CallsAreChecked, Checked, IsPermissionGranted, Others
<1>28. QED BY <1>1, StandByEffect, DismissEffect, ProceedEffect, <1>3, <1>4, <1>5, <1>6, <1>7, <1>8, <1>9, <1>10,
    <1>11, <1>12, <1>13, <1>14, <1>15, <1>16, <1>17, <1>18, <1>19, <1>20, <1>21, <1>22, <1>23, <1>24, <1>25, <1>26,
    <1>27 DEF Next, Handles, CheckThread, Environment

(* Ids stay apart.                                                         *)
LEMMA IdsDifferStep ==
    ASSUME ServiceInv, CallTypes', Next PROVE IdsDiffer'
<1>1. CallTypes /\ ServiceTypes /\ CheckTypes /\ RowTypes /\ CallsFit /\ IdsDiffer
  BY DEF ServiceInv
<1>2. CASE UNCHANGED <<calls, threads>>
  BY <1>1, <1>2 DEF IdsDiffer, CallTypes
<1>3. ASSUME NEW s \in Slots, Dismisses(s) PROVE IdsDiffer'
  BY <1>1, <1>3, FreshCall DEF IdsDiffer, CallTypes, Others, Dismisses
<1>4. ASSUME NEW s \in Slots, NEW code \in Codes, NEW who \in Callers,
             NEW info \in IF code \in OnlineCodes THEN Infos ELSE {NoInfo},
             CallbackEnter(s, code, who, info) PROVE IdsDiffer'
  <2>1. /\ Others(s) /\ UNCHANGED threads /\ made \in Nat
        /\ calls'[s] = NoCall \/ (calls'[s].pc = "entered" /\ calls'[s].id = made + 1)
    BY <1>1, <1>4, CallbackEnterEffect DEF CallTypes
  <2>2. \A u \in Slots : calls[u].pc \notin {"idle", "done"} => calls[u].id # made + 1
    BY <1>1, <2>1 DEF CallsFit
  <2>3. \A t \in threads : t.id # made + 1
    BY <1>1, <2>1 DEF CheckTypes
  <2>4. QED BY <1>1, <2>1, <2>2, <2>3, FreshCall DEF IdsDiffer, Others
<1>5. ASSUME NEW s \in Slots, CheckNewVersion(s) PROVE IdsDiffer'
  BY <1>1, <1>5, CheckNewVersionEffect DEF IdsDiffer, CallTypes, Others
<1>6. ASSUME NEW s \in Slots, WaitReturns(s) PROVE IdsDiffer'
  BY <1>1, <1>6, WaitReturnsEffect DEF IdsDiffer, CallTypes, Others
<1>7. ASSUME NEW s \in Slots, WaitTimesOut(s) PROVE IdsDiffer'
  BY <1>1, <1>7, WaitTimesOutEffect DEF IdsDiffer, CallTypes, Others
<1>8. ASSUME NEW s \in Slots, LeaveCheck(s) PROVE IdsDiffer'
  BY <1>1, <1>8, LeaveCheckEffect, FreshCall DEF IdsDiffer, CallTypes, Others
<1>9. ASSUME NEW s \in Slots, Download(s) PROVE IdsDiffer'
  BY <1>1, <1>9, DownloadEffect, FreshCall DEF IdsDiffer, CallTypes, Others
<1>10. ASSUME NEW s \in Slots, DoDownload(s) PROVE IdsDiffer'
  BY <1>1, <1>10, DoDownloadEffect, FreshCall DEF IdsDiffer, CallTypes, Others
<1>11. ASSUME NEW s \in Slots, Upgrade(s) PROVE IdsDiffer'
  BY <1>1, <1>11, UpgradeEffect, FreshCall DEF IdsDiffer, CallTypes, Others
<1>12. ASSUME NEW s \in Slots, Cancel(s) PROVE IdsDiffer'
  BY <1>1, <1>12, CancelEffect, FreshCall DEF IdsDiffer, CallTypes, Others
<1>13. ASSUME NEW s \in Slots, DoCancel(s) PROVE IdsDiffer'
  BY <1>1, <1>13, DoCancelEffect, FreshCall DEF IdsDiffer, CallTypes, Others
<1>14. ASSUME NEW s \in Slots, ClearError(s) PROVE IdsDiffer'
  BY <1>1, <1>14, ClearErrorEffect, FreshCall DEF IdsDiffer, CallTypes, Others
<1>15. ASSUME NEW s \in Slots, GetNewVersionInfo(s) PROVE IdsDiffer'
  BY <1>1, <1>15, GetNewVersionInfoEffect DEF IdsDiffer, CallTypes, Others
<1>16. ASSUME NEW s \in Slots, QueryAllComponents(s) PROVE IdsDiffer'
  BY <1>1, <1>16, QueryAllComponentsEffect, FreshCall DEF IdsDiffer, CallTypes, Others
<1>17. ASSUME NEW s \in Slots, FileManagerEraseKeys(s) PROVE IdsDiffer'
  BY <1>1, <1>17, FileManagerEraseKeysEffect, FreshCall DEF IdsDiffer, CallTypes, Others
<1>18. ASSUME NEW s \in Slots, ForceFactoryReset(s) PROVE IdsDiffer'
  BY <1>1, <1>18, ForceFactoryResetEffect, FreshCall DEF IdsDiffer, CallTypes, Others
<1>19. ASSUME NEW t \in threads, NEW found, CheckAnswers(t, found) PROVE IdsDiffer'
  BY <1>1, <1>19, CheckAnswersEffect DEF IdsDiffer, CallTypes, Others, Tears
<1>20. ASSUME NEW t \in threads, InsertComponents(t) PROVE IdsDiffer'
  BY <1>1, <1>20, InsertComponentsEffect DEF IdsDiffer, CallTypes, Others, Tears
<1>21. ASSUME NEW t \in threads, InsertTask(t) PROVE IdsDiffer'
  BY <1>1, <1>21, InsertTaskEffect DEF IdsDiffer, CallTypes, Others, Tears
<1>22. ASSUME NEW t \in threads, OnCheckComplete(t) PROVE IdsDiffer'
  BY <1>1, <1>22, OnCheckCompleteEffect DEF IdsDiffer, CallTypes, Others
<1>23. CASE StandsBy \/ FlowMoves
  BY <1>1, <1>2, <1>23, FlowMovesEffect DEF StandsBy
<1>24. ASSUME NEW what, SecondPasses(what) PROVE IdsDiffer'
  BY <1>1, <1>2, <1>24, SecondPassesEffect
<1>25. ASSUME NEW s \in Slots, Proceeds(s) PROVE IdsDiffer'
  BY <1>1, <1>25, FreshCall DEF IdsDiffer, CallTypes, Others, Proceeds
<1>26. ASSUME NEW s \in Slots, GetStepAfterInit(s) PROVE IdsDiffer'
  BY <1>1, <1>26, GetStepAfterInitEffect, FreshCall DEF IdsDiffer, CallTypes, Others
<1>27. QED BY <1>1, StandByEffect, DismissEffect, ProceedEffect, <1>3, <1>4, <1>5, <1>6, <1>7, <1>8, <1>9, <1>10,
    <1>11, <1>12, <1>13, <1>14, <1>15, <1>16, <1>17, <1>18, <1>19, <1>20, <1>21, <1>22, <1>23, <1>24, <1>25, <1>26
    DEF Next, Handles, CheckThread, Environment

(* Whoever erases the keys goes on to reset, or says that it failed.       *)
LEMMA KeysGoneIsToldStep ==
    ASSUME ServiceInv, CallTypes', Next PROVE KeysGoneIsTold'
<1>1. CallTypes /\ ServiceTypes /\ CheckTypes /\ RowTypes /\ CallsFit /\ KeysGoneIsTold
  BY DEF ServiceInv
<1>2. CASE UNCHANGED <<calls, keys, reboot, told>>
  BY <1>1, <1>2 DEF KeysGoneIsTold, At
<1>3. ASSUME NEW s \in Slots, Dismisses(s) PROVE KeysGoneIsTold'
  <2>1. reboot = None
    BY DEF Next
  <2>2. QED BY <1>1, <2>1, <1>3 DEF KeysGoneIsTold, At, Others, Dismisses
<1>4. ASSUME NEW s \in Slots, NEW code \in Codes, NEW who \in Callers,
             NEW info \in IF code \in OnlineCodes THEN Infos ELSE {NoInfo},
             CallbackEnter(s, code, who, info) PROVE KeysGoneIsTold'
  BY <1>1, <1>4, CallbackEnterEffect, FreshCall DEF KeysGoneIsTold, At, Others
<1>5. ASSUME NEW s \in Slots, CheckNewVersion(s) PROVE KeysGoneIsTold'
  BY <1>1, <1>5, CheckNewVersionEffect DEF KeysGoneIsTold, At, Others
<1>6. ASSUME NEW s \in Slots, WaitReturns(s) PROVE KeysGoneIsTold'
  BY <1>1, <1>6, WaitReturnsEffect DEF KeysGoneIsTold, At, Others
<1>7. ASSUME NEW s \in Slots, WaitTimesOut(s) PROVE KeysGoneIsTold'
  BY <1>1, <1>7, WaitTimesOutEffect DEF KeysGoneIsTold, At, Others
<1>8. ASSUME NEW s \in Slots, LeaveCheck(s) PROVE KeysGoneIsTold'
  BY <1>1, <1>8, LeaveCheckEffect, FreshCall DEF KeysGoneIsTold, At, Others
<1>9. ASSUME NEW s \in Slots, Download(s) PROVE KeysGoneIsTold'
  BY <1>1, <1>9, DownloadEffect, FreshCall DEF KeysGoneIsTold, At, Others
<1>10. ASSUME NEW s \in Slots, DoDownload(s) PROVE KeysGoneIsTold'
  BY <1>1, <1>10, DoDownloadEffect, FreshCall DEF KeysGoneIsTold, At, Others
<1>11. ASSUME NEW s \in Slots, Upgrade(s) PROVE KeysGoneIsTold'
  BY <1>1, <1>11, UpgradeEffect, FreshCall DEF KeysGoneIsTold, At, Others
<1>12. ASSUME NEW s \in Slots, Cancel(s) PROVE KeysGoneIsTold'
  BY <1>1, <1>12, CancelEffect, FreshCall DEF KeysGoneIsTold, At, Others
<1>13. ASSUME NEW s \in Slots, DoCancel(s) PROVE KeysGoneIsTold'
  BY <1>1, <1>13, DoCancelEffect, FreshCall DEF KeysGoneIsTold, At, Others
<1>14. ASSUME NEW s \in Slots, ClearError(s) PROVE KeysGoneIsTold'
  BY <1>1, <1>14, ClearErrorEffect, FreshCall DEF KeysGoneIsTold, At, Others
<1>15. ASSUME NEW s \in Slots, GetNewVersionInfo(s) PROVE KeysGoneIsTold'
  BY <1>1, <1>15, GetNewVersionInfoEffect DEF KeysGoneIsTold, At, Others
<1>16. ASSUME NEW s \in Slots, QueryAllComponents(s) PROVE KeysGoneIsTold'
  BY <1>1, <1>16, QueryAllComponentsEffect, FreshCall DEF KeysGoneIsTold, At, Others
<1>17. ASSUME NEW s \in Slots, FileManagerEraseKeys(s) PROVE KeysGoneIsTold'
  BY <1>1, <1>17, FileManagerEraseKeysEffect, FreshCall DEF KeysGoneIsTold, At, Others
<1>18. ASSUME NEW s \in Slots, ForceFactoryReset(s) PROVE KeysGoneIsTold'
  BY <1>1, <1>18, ForceFactoryResetEffect, FreshCall DEF KeysGoneIsTold, At, Others
<1>19. ASSUME NEW t \in threads, NEW found, CheckAnswers(t, found) PROVE KeysGoneIsTold'
  BY <1>1, <1>19, CheckAnswersEffect DEF KeysGoneIsTold, At, Others, Tears
<1>20. ASSUME NEW t \in threads, InsertComponents(t) PROVE KeysGoneIsTold'
  BY <1>1, <1>20, InsertComponentsEffect DEF KeysGoneIsTold, At, Others, Tears
<1>21. ASSUME NEW t \in threads, InsertTask(t) PROVE KeysGoneIsTold'
  BY <1>1, <1>21, InsertTaskEffect DEF KeysGoneIsTold, At, Others, Tears
<1>22. ASSUME NEW t \in threads, OnCheckComplete(t) PROVE KeysGoneIsTold'
  BY <1>1, <1>22, OnCheckCompleteEffect DEF KeysGoneIsTold, At, Others
<1>23. CASE StandsBy \/ FlowMoves
  BY <1>1, <1>2, <1>23, FlowMovesEffect DEF StandsBy
<1>24. ASSUME NEW what, SecondPasses(what) PROVE KeysGoneIsTold'
  BY <1>1, <1>2, <1>24, SecondPassesEffect
<1>25. ASSUME NEW s \in Slots, Proceeds(s) PROVE KeysGoneIsTold'
  BY <1>1, <1>25, FreshCall DEF KeysGoneIsTold, At, Others, Proceeds
<1>26. ASSUME NEW s \in Slots, GetStepAfterInit(s) PROVE KeysGoneIsTold'
  BY <1>1, <1>26, GetStepAfterInitEffect, FreshCall DEF KeysGoneIsTold, At, Others
<1>27. QED BY <1>1, StandByEffect, DismissEffect, ProceedEffect, <1>3, <1>4, <1>5, <1>6, <1>7, <1>8, <1>9, <1>10,
    <1>11, <1>12, <1>13, <1>14, <1>15, <1>16, <1>17, <1>18, <1>19, <1>20, <1>21, <1>22, <1>23, <1>24, <1>25, <1>26
    DEF Next, Handles, CheckThread, Environment

(* Checks that are not one at a time overlap.                              *)
LEMMA OneWaitsStep ==
    ASSUME ServiceInv, CallTypes', Next PROVE OneWaits'
<1>1. CallTypes /\ ServiceTypes /\ CheckTypes /\ RowTypes /\ CallsFit /\ OneWaits
  BY DEF ServiceInv
<1>2. CASE UNCHANGED <<calls, overlap>>
  BY <1>1, <1>2 DEF OneWaits, Waits
<1>3. ASSUME NEW s \in Slots, Dismisses(s) PROVE OneWaits'
  BY <1>1, <1>3, FreshCall DEF OneWaits, Waits, Others, Dismisses
<1>4. ASSUME NEW s \in Slots, NEW code \in Codes, NEW who \in Callers,
             NEW info \in IF code \in OnlineCodes THEN Infos ELSE {NoInfo},
             CallbackEnter(s, code, who, info) PROVE OneWaits'
  BY <1>1, <1>4, CallbackEnterEffect, FreshCall DEF OneWaits, Waits, Others
<1>5. ASSUME NEW s \in Slots, CheckNewVersion(s) PROVE OneWaits'
  BY <1>1, <1>5, CheckNewVersionEffect DEF OneWaits, Waits, Others
<1>6. ASSUME NEW s \in Slots, WaitReturns(s) PROVE OneWaits'
  BY <1>1, <1>6, WaitReturnsEffect DEF OneWaits, Waits, Others
<1>7. ASSUME NEW s \in Slots, WaitTimesOut(s) PROVE OneWaits'
  BY <1>1, <1>7, WaitTimesOutEffect DEF OneWaits, Waits, Others
<1>8. ASSUME NEW s \in Slots, LeaveCheck(s) PROVE OneWaits'
  BY <1>1, <1>8, LeaveCheckEffect, FreshCall DEF OneWaits, Waits, Others
<1>9. ASSUME NEW s \in Slots, Download(s) PROVE OneWaits'
  BY <1>1, <1>9, DownloadEffect, FreshCall DEF OneWaits, Waits, Others
<1>10. ASSUME NEW s \in Slots, DoDownload(s) PROVE OneWaits'
  BY <1>1, <1>10, DoDownloadEffect, FreshCall DEF OneWaits, Waits, Others
<1>11. ASSUME NEW s \in Slots, Upgrade(s) PROVE OneWaits'
  BY <1>1, <1>11, UpgradeEffect, FreshCall DEF OneWaits, Waits, Others
<1>12. ASSUME NEW s \in Slots, Cancel(s) PROVE OneWaits'
  BY <1>1, <1>12, CancelEffect, FreshCall DEF OneWaits, Waits, Others
<1>13. ASSUME NEW s \in Slots, DoCancel(s) PROVE OneWaits'
  BY <1>1, <1>13, DoCancelEffect, FreshCall DEF OneWaits, Waits, Others
<1>14. ASSUME NEW s \in Slots, ClearError(s) PROVE OneWaits'
  BY <1>1, <1>14, ClearErrorEffect, FreshCall DEF OneWaits, Waits, Others
<1>15. ASSUME NEW s \in Slots, GetNewVersionInfo(s) PROVE OneWaits'
  BY <1>1, <1>15, GetNewVersionInfoEffect DEF OneWaits, Waits, Others
<1>16. ASSUME NEW s \in Slots, QueryAllComponents(s) PROVE OneWaits'
  BY <1>1, <1>16, QueryAllComponentsEffect, FreshCall DEF OneWaits, Waits, Others
<1>17. ASSUME NEW s \in Slots, FileManagerEraseKeys(s) PROVE OneWaits'
  BY <1>1, <1>17, FileManagerEraseKeysEffect, FreshCall DEF OneWaits, Waits, Others
<1>18. ASSUME NEW s \in Slots, ForceFactoryReset(s) PROVE OneWaits'
  BY <1>1, <1>18, ForceFactoryResetEffect, FreshCall DEF OneWaits, Waits, Others
<1>19. ASSUME NEW t \in threads, NEW found, CheckAnswers(t, found) PROVE OneWaits'
  BY <1>1, <1>19, CheckAnswersEffect DEF OneWaits, Waits, Others, Tears
<1>20. ASSUME NEW t \in threads, InsertComponents(t) PROVE OneWaits'
  BY <1>1, <1>20, InsertComponentsEffect DEF OneWaits, Waits, Others, Tears
<1>21. ASSUME NEW t \in threads, InsertTask(t) PROVE OneWaits'
  BY <1>1, <1>21, InsertTaskEffect DEF OneWaits, Waits, Others, Tears
<1>22. ASSUME NEW t \in threads, OnCheckComplete(t) PROVE OneWaits'
  BY <1>1, <1>22, OnCheckCompleteEffect DEF OneWaits, Waits, Others
<1>23. CASE StandsBy \/ FlowMoves
  BY <1>1, <1>2, <1>23, FlowMovesEffect DEF StandsBy
<1>24. ASSUME NEW what, SecondPasses(what) PROVE OneWaits'
  BY <1>1, <1>2, <1>24, SecondPassesEffect
<1>25. ASSUME NEW s \in Slots, Proceeds(s) PROVE OneWaits'
  BY <1>1, <1>25, FreshCall DEF OneWaits, Waits, Others, Proceeds
<1>26. ASSUME NEW s \in Slots, GetStepAfterInit(s) PROVE OneWaits'
  BY <1>1, <1>26, GetStepAfterInitEffect, FreshCall DEF OneWaits, Waits, Others
<1>27. QED BY <1>1, StandByEffect, DismissEffect, ProceedEffect, <1>3, <1>4, <1>5, <1>6, <1>7, <1>8, <1>9, <1>10,
    <1>11, <1>12, <1>13, <1>14, <1>15, <1>16, <1>17, <1>18, <1>19, <1>20, <1>21, <1>22, <1>23, <1>24, <1>25, <1>26
    DEF Next, Handles, CheckThread, Environment

(* The flag goes up with an answer and down with its call.                 *)
LEMMA FlagIsOwnStep ==
    ASSUME ServiceInv, CallTypes', Next PROVE FlagIsOwn'
<1>1. CallTypes /\ ServiceTypes /\ CheckTypes /\ RowTypes /\ CallsFit /\ FlagIsOwn /\ OneWaits /\ ThreadIsAwaited
  BY DEF ServiceInv
<1>2. CASE UNCHANGED <<calls, checkComplete, overlap, timedOut>>
  BY <1>1, <1>2 DEF FlagIsOwn, Quiet, Waits, CheckTypes
<1>3. ASSUME NEW s \in Slots, Dismisses(s) PROVE FlagIsOwn'
  BY <1>1, <1>3, FreshCall DEF FlagIsOwn, Quiet, Waits, CheckTypes, Others, Dismisses
<1>4. ASSUME NEW s \in Slots, NEW code \in Codes, NEW who \in Callers,
             NEW info \in IF code \in OnlineCodes THEN Infos ELSE {NoInfo},
             CallbackEnter(s, code, who, info) PROVE FlagIsOwn'
  BY <1>1, <1>4, CallbackEnterEffect, FreshCall DEF FlagIsOwn, Quiet, Waits, CheckTypes, Others
<1>5. ASSUME NEW s \in Slots, CheckNewVersion(s) PROVE FlagIsOwn'
  BY <1>1, <1>5, CheckNewVersionEffect DEF FlagIsOwn, Quiet, Waits, CheckTypes, Others
<1>6. ASSUME NEW s \in Slots, WaitReturns(s) PROVE FlagIsOwn'
  BY <1>1, <1>6, WaitReturnsEffect DEF FlagIsOwn, Quiet, Waits, CheckTypes, Others
<1>7. ASSUME NEW s \in Slots, WaitTimesOut(s) PROVE FlagIsOwn'
  BY <1>1, <1>7, WaitTimesOutEffect DEF FlagIsOwn, Quiet, Waits, CheckTypes, Others
<1>8. ASSUME NEW s \in Slots, LeaveCheck(s) PROVE FlagIsOwn'
  BY <1>1, <1>8, LeaveCheckEffect, FreshCall DEF FlagIsOwn, Quiet, Waits, CheckTypes, Others
<1>9. ASSUME NEW s \in Slots, Download(s) PROVE FlagIsOwn'
  BY <1>1, <1>9, DownloadEffect, FreshCall DEF FlagIsOwn, Quiet, Waits, CheckTypes, Others
<1>10. ASSUME NEW s \in Slots, DoDownload(s) PROVE FlagIsOwn'
  BY <1>1, <1>10, DoDownloadEffect, FreshCall DEF FlagIsOwn, Quiet, Waits, CheckTypes, Others
<1>11. ASSUME NEW s \in Slots, Upgrade(s) PROVE FlagIsOwn'
  BY <1>1, <1>11, UpgradeEffect, FreshCall DEF FlagIsOwn, Quiet, Waits, CheckTypes, Others
<1>12. ASSUME NEW s \in Slots, Cancel(s) PROVE FlagIsOwn'
  BY <1>1, <1>12, CancelEffect, FreshCall DEF FlagIsOwn, Quiet, Waits, CheckTypes, Others
<1>13. ASSUME NEW s \in Slots, DoCancel(s) PROVE FlagIsOwn'
  BY <1>1, <1>13, DoCancelEffect, FreshCall DEF FlagIsOwn, Quiet, Waits, CheckTypes, Others
<1>14. ASSUME NEW s \in Slots, ClearError(s) PROVE FlagIsOwn'
  BY <1>1, <1>14, ClearErrorEffect, FreshCall DEF FlagIsOwn, Quiet, Waits, CheckTypes, Others
<1>15. ASSUME NEW s \in Slots, GetNewVersionInfo(s) PROVE FlagIsOwn'
  BY <1>1, <1>15, GetNewVersionInfoEffect DEF FlagIsOwn, Quiet, Waits, CheckTypes, Others
<1>16. ASSUME NEW s \in Slots, QueryAllComponents(s) PROVE FlagIsOwn'
  BY <1>1, <1>16, QueryAllComponentsEffect, FreshCall DEF FlagIsOwn, Quiet, Waits, CheckTypes, Others
<1>17. ASSUME NEW s \in Slots, FileManagerEraseKeys(s) PROVE FlagIsOwn'
  BY <1>1, <1>17, FileManagerEraseKeysEffect, FreshCall DEF FlagIsOwn, Quiet, Waits, CheckTypes, Others
<1>18. ASSUME NEW s \in Slots, ForceFactoryReset(s) PROVE FlagIsOwn'
  BY <1>1, <1>18, ForceFactoryResetEffect, FreshCall DEF FlagIsOwn, Quiet, Waits, CheckTypes, Others
<1>19. ASSUME NEW t \in threads, NEW found, CheckAnswers(t, found) PROVE FlagIsOwn'
  BY <1>1, <1>19, CheckAnswersEffect DEF FlagIsOwn, Quiet, Waits, CheckTypes, Others, Tears
<1>20. ASSUME NEW t \in threads, InsertComponents(t) PROVE FlagIsOwn'
  BY <1>1, <1>20, InsertComponentsEffect DEF FlagIsOwn, Quiet, Waits, CheckTypes, Others, Tears
<1>21. ASSUME NEW t \in threads, InsertTask(t) PROVE FlagIsOwn'
  BY <1>1, <1>21, InsertTaskEffect DEF FlagIsOwn, Quiet, Waits, CheckTypes, Others, Tears
<1>22. ASSUME NEW t \in threads, OnCheckComplete(t) PROVE FlagIsOwn'
  <2>1. SUFFICES ASSUME NEW i \in Infos, Quiet(i), checkComplete'[i]
                 PROVE  \E u \in Slots : Waits(u, i)' /\ calls'[u].got # <<>>
    BY <1>1, <1>22, OnCheckCompleteEffect DEF FlagIsOwn, Quiet
  <2>2. CASE i = t.info
    <3>1. PICK u \in Slots : Waits(u, i) /\ calls[u].id = t.id
      BY <1>1, <2>1, <2>2 DEF ThreadIsAwaited
    <3>2. calls'[u].got = <<"own">> /\ calls'[u].pc = calls[u].pc /\ calls'[u].info = calls[u].info
      BY <1>1, <3>1, <1>22, OnCheckCompleteEffect DEF Waits
    <3>3. Waits(u, i)' /\ calls'[u].got # <<>>
      BY <3>1, <3>2 DEF Waits
    <3>4. QED BY <3>3
  <2>3. CASE i # t.info
    <3>1. checkComplete[i]
      BY <1>1, <2>1, <2>3, <1>22, OnCheckCompleteEffect DEF CheckTypes
    <3>2. PICK u \in Slots : Waits(u, i) /\ calls[u].got # <<>>
      BY <1>1, <2>1, <3>1 DEF FlagIsOwn
    <3>3. Waits(u, i)' /\ calls'[u].got # <<>>
      <4>1. CASE calls[u].id = t.id
        <5>1. calls'[u].got = <<"own">> /\ calls'[u].pc = calls[u].pc /\ calls'[u].info = calls[u].info
          BY <1>1, <3>2, <4>1, <1>22, OnCheckCompleteEffect DEF Waits
        <5>2. QED BY <3>2, <5>1 DEF Waits
      <4>2. CASE calls[u].id # t.id
        BY <1>1, <3>2, <4>2, <1>22, OnCheckCompleteEffect DEF Waits
      <4>3. QED BY <4>1, <4>2
    <3>4. QED BY <3>3
  <2>4. QED BY <2>2, <2>3
<1>23. CASE StandsBy \/ FlowMoves
  BY <1>1, <1>2, <1>23, FlowMovesEffect DEF StandsBy
<1>24. ASSUME NEW what, SecondPasses(what) PROVE FlagIsOwn'
  BY <1>1, <1>2, <1>24, SecondPassesEffect
<1>25. ASSUME NEW s \in Slots, Proceeds(s) PROVE FlagIsOwn'
  BY <1>1, <1>25, FreshCall DEF FlagIsOwn, Quiet, Waits, CheckTypes, Others, Proceeds
<1>26. ASSUME NEW s \in Slots, GetStepAfterInit(s) PROVE FlagIsOwn'
  BY <1>1, <1>26, GetStepAfterInitEffect, FreshCall DEF FlagIsOwn, Quiet, Waits, CheckTypes, Others
<1>27. QED BY <1>1, StandByEffect, DismissEffect, ProceedEffect, <1>3, <1>4, <1>5, <1>6, <1>7, <1>8, <1>9, <1>10,
    <1>11, <1>12, <1>13, <1>14, <1>15, <1>16, <1>17, <1>18, <1>19, <1>20, <1>21, <1>22, <1>23, <1>24, <1>25, <1>26
    DEF Next, Handles, CheckThread, Environment

(* A call that was not answered waits for its thread.                      *)
LEMMA ThreadIsAwaitedStep ==
    ASSUME ServiceInv, CallTypes', Next PROVE ThreadIsAwaited'
<1>1. /\ CallTypes /\ ServiceTypes /\ CheckTypes /\ RowTypes /\ CallsFit /\ ThreadIsAwaited
      /\ IdsDiffer /\ OneWaits /\ LeavesWithAnswer
  BY DEF ServiceInv
<1>2. CASE UNCHANGED <<calls, threads, overlap, timedOut>>
  BY <1>1, <1>2 DEF ThreadIsAwaited, Quiet, Waits
<1>3. ASSUME NEW s \in Slots, Dismisses(s) PROVE ThreadIsAwaited'
  BY <1>1, <1>3, FreshCall DEF ThreadIsAwaited, Quiet, Waits, Others, Dismisses
<1>4. ASSUME NEW s \in Slots, NEW code \in Codes, NEW who \in Callers,
             NEW info \in IF code \in OnlineCodes THEN Infos ELSE {NoInfo},
             CallbackEnter(s, code, who, info) PROVE ThreadIsAwaited'
  BY <1>1, <1>4, CallbackEnterEffect, FreshCall DEF ThreadIsAwaited, Quiet, Waits, Others
<1>5. ASSUME NEW s \in Slots, CheckNewVersion(s) PROVE ThreadIsAwaited'
  <2>1. SUFFICES ASSUME NEW v \in threads', Quiet(v.info)'
                 PROVE  \E u \in Slots : Waits(u, v.info)' /\ calls'[u].id = v.id /\ calls'[u].got = <<>>
    BY DEF ThreadIsAwaited
  <2>2. CASE v \in threads
    <3>1. Quiet(v.info)
      BY <1>1, <2>1, <1>5, CheckNewVersionEffect DEF Quiet
    <3>2. PICK u \in Slots : Waits(u, v.info) /\ calls[u].id = v.id /\ calls[u].got = <<>>
      BY <1>1, <2>2, <3>1 DEF ThreadIsAwaited
    <3>3. u # s /\ calls'[u] = calls[u]
      BY <1>1, <3>2, <1>5, CheckNewVersionEffect DEF Waits, Others
    <3>4. QED BY <3>2, <3>3 DEF Waits
  <2>3. CASE v \notin threads
    <3>1. v = [id |-> calls[s].id, info |-> calls[s].info, pc |-> "ask"] /\ calls'[s].got = calls[s].got
      BY <1>1, <2>1, <2>3, <1>5, CheckNewVersionEffect
    <3>2. /\ calls[s].got = <<>> /\ calls'[s].pc = "wait"
          /\ calls'[s].info = calls[s].info /\ calls'[s].id = calls[s].id
      BY <1>1, <1>5, CheckNewVersionEffect DEF CallsFit
    <3>3. v.id = calls[s].id /\ v.info = calls[s].info
      BY <3>1
    <3>4. QED BY <3>1, <3>2, <3>3 DEF Waits
  <2>4. QED BY <2>2, <2>3
<1>6. ASSUME NEW s \in Slots, WaitReturns(s) PROVE ThreadIsAwaited'
  BY <1>1, <1>6, WaitReturnsEffect DEF ThreadIsAwaited, Quiet, Waits, Others
<1>7. ASSUME NEW s \in Slots, WaitTimesOut(s) PROVE ThreadIsAwaited'
  BY <1>1, <1>7, WaitTimesOutEffect DEF ThreadIsAwaited, Quiet, Waits, Others
<1>8. ASSUME NEW s \in Slots, LeaveCheck(s) PROVE ThreadIsAwaited'
  <2>1. SUFFICES ASSUME NEW v \in threads, Quiet(v.info)
                 PROVE  \E u \in Slots : Waits(u, v.info)' /\ calls'[u].id = v.id /\ calls'[u].got = <<>>
    BY <1>1, <1>8, LeaveCheckEffect DEF ThreadIsAwaited, Quiet
  <2>2. PICK u \in Slots : Waits(u, v.info) /\ calls[u].id = v.id /\ calls[u].got = <<>>
    BY <1>1, <2>1 DEF ThreadIsAwaited
  <2>3. u # s
    BY <1>1, <2>1, <2>2, <1>8, LeaveCheckEffect DEF LeavesWithAnswer, Waits, Quiet
  <2>4. calls'[u] = calls[u]
    BY <1>1, <2>3, <1>8, LeaveCheckEffect DEF Others
  <2>5. QED BY <2>2, <2>4 DEF Waits
<1>9. ASSUME NEW s \in Slots, Download(s) PROVE ThreadIsAwaited'
  BY <1>1, <1>9, DownloadEffect, FreshCall DEF ThreadIsAwaited, Quiet, Waits, Others
<1>10. ASSUME NEW s \in Slots, DoDownload(s) PROVE ThreadIsAwaited'
  BY <1>1, <1>10, DoDownloadEffect, FreshCall DEF ThreadIsAwaited, Quiet, Waits, Others
<1>11. ASSUME NEW s \in Slots, Upgrade(s) PROVE ThreadIsAwaited'
  BY <1>1, <1>11, UpgradeEffect, FreshCall DEF ThreadIsAwaited, Quiet, Waits, Others
<1>12. ASSUME NEW s \in Slots, Cancel(s) PROVE ThreadIsAwaited'
  BY <1>1, <1>12, CancelEffect, FreshCall DEF ThreadIsAwaited, Quiet, Waits, Others
<1>13. ASSUME NEW s \in Slots, DoCancel(s) PROVE ThreadIsAwaited'
  BY <1>1, <1>13, DoCancelEffect, FreshCall DEF ThreadIsAwaited, Quiet, Waits, Others
<1>14. ASSUME NEW s \in Slots, ClearError(s) PROVE ThreadIsAwaited'
  BY <1>1, <1>14, ClearErrorEffect, FreshCall DEF ThreadIsAwaited, Quiet, Waits, Others
<1>15. ASSUME NEW s \in Slots, GetNewVersionInfo(s) PROVE ThreadIsAwaited'
  BY <1>1, <1>15, GetNewVersionInfoEffect DEF ThreadIsAwaited, Quiet, Waits, Others
<1>16. ASSUME NEW s \in Slots, QueryAllComponents(s) PROVE ThreadIsAwaited'
  BY <1>1, <1>16, QueryAllComponentsEffect, FreshCall DEF ThreadIsAwaited, Quiet, Waits, Others
<1>17. ASSUME NEW s \in Slots, FileManagerEraseKeys(s) PROVE ThreadIsAwaited'
  BY <1>1, <1>17, FileManagerEraseKeysEffect, FreshCall DEF ThreadIsAwaited, Quiet, Waits, Others
<1>18. ASSUME NEW s \in Slots, ForceFactoryReset(s) PROVE ThreadIsAwaited'
  BY <1>1, <1>18, ForceFactoryResetEffect, FreshCall DEF ThreadIsAwaited, Quiet, Waits, Others
<1>19. ASSUME NEW t \in threads, NEW found, CheckAnswers(t, found) PROVE ThreadIsAwaited'
  BY <1>1, <1>19, CheckAnswersEffect DEF ThreadIsAwaited, Quiet, Waits, Others, Tears
<1>20. ASSUME NEW t \in threads, InsertComponents(t) PROVE ThreadIsAwaited'
  BY <1>1, <1>20, InsertComponentsEffect DEF ThreadIsAwaited, Quiet, Waits, Others, Tears
<1>21. ASSUME NEW t \in threads, InsertTask(t) PROVE ThreadIsAwaited'
  BY <1>1, <1>21, InsertTaskEffect DEF ThreadIsAwaited, Quiet, Waits, Others, Tears
<1>22. ASSUME NEW t \in threads, OnCheckComplete(t) PROVE ThreadIsAwaited'
  <2>1. SUFFICES ASSUME NEW v \in threads \ {t}, Quiet(v.info)
                 PROVE  \E u \in Slots : Waits(u, v.info)' /\ calls'[u].id = v.id /\ calls'[u].got = <<>>
    BY <1>1, <1>22, OnCheckCompleteEffect DEF ThreadIsAwaited, Quiet
  <2>2. PICK u \in Slots : Waits(u, v.info) /\ calls[u].id = v.id /\ calls[u].got = <<>>
    BY <1>1, <2>1 DEF ThreadIsAwaited
  <2>3. v.id # t.id
    BY <1>1, <2>1 DEF IdsDiffer
  <2>4. calls'[u] = calls[u]
    BY <1>1, <2>2, <2>3, <1>22, OnCheckCompleteEffect
  <2>5. QED BY <2>2, <2>4 DEF Waits
<1>23. CASE StandsBy \/ FlowMoves
  BY <1>1, <1>2, <1>23, FlowMovesEffect DEF StandsBy
<1>24. ASSUME NEW what, SecondPasses(what) PROVE ThreadIsAwaited'
  BY <1>1, <1>2, <1>24, SecondPassesEffect
<1>25. ASSUME NEW s \in Slots, Proceeds(s) PROVE ThreadIsAwaited'
  BY <1>1, <1>25, FreshCall DEF ThreadIsAwaited, Quiet, Waits, Others, Proceeds
<1>26. ASSUME NEW s \in Slots, GetStepAfterInit(s) PROVE ThreadIsAwaited'
  BY <1>1, <1>26, GetStepAfterInitEffect, FreshCall DEF ThreadIsAwaited, Quiet, Waits, Others
<1>27. QED BY <1>1, StandByEffect, DismissEffect, ProceedEffect, <1>3, <1>4, <1>5, <1>6, <1>7, <1>8, <1>9, <1>10,
    <1>11, <1>12, <1>13, <1>14, <1>15, <1>16, <1>17, <1>18, <1>19, <1>20, <1>21, <1>22, <1>23, <1>24, <1>25, <1>26
    DEF Next, Handles, CheckThread, Environment

(* The flag of an answer stays up until its call leaves.                   *)
LEMMA AnswerRaisesFlagStep ==
    ASSUME ServiceInv, CallTypes', Next PROVE AnswerRaisesFlag'
<1>1. CallTypes /\ ServiceTypes /\ CheckTypes /\ RowTypes /\ CallsFit /\ AnswerRaisesFlag /\ OneWaits /\ IdsDiffer
  BY DEF ServiceInv
<1>2. CASE UNCHANGED <<calls, checkComplete, overlap>>
  BY <1>1, <1>2 DEF AnswerRaisesFlag, CheckTypes, Waits
<1>3. ASSUME NEW s \in Slots, Dismisses(s) PROVE AnswerRaisesFlag'
  BY <1>1, <1>3, FreshCall DEF AnswerRaisesFlag, CheckTypes, Waits, Others, Dismisses
<1>4. ASSUME NEW s \in Slots, NEW code \in Codes, NEW who \in Callers,
             NEW info \in IF code \in OnlineCodes THEN Infos ELSE {NoInfo},
             CallbackEnter(s, code, who, info) PROVE AnswerRaisesFlag'
  BY <1>1, <1>4, CallbackEnterEffect, FreshCall DEF AnswerRaisesFlag, CheckTypes, Waits, Others
<1>5. ASSUME NEW s \in Slots, CheckNewVersion(s) PROVE AnswerRaisesFlag'
  <2>1. SUFFICES ASSUME NEW u \in Slots, calls'[u].pc = "wait", calls'[u].info \notin overlap', calls'[u].got # <<>>
                 PROVE  checkComplete'[calls'[u].info]
    BY DEF AnswerRaisesFlag
  <2>2. CASE u = s
    <3>1. calls[s].got = <<>> /\ calls[s].info \in Infos /\ calls'[s].info = calls[s].info
      BY <1>1, <1>5, CheckNewVersionEffect DEF CallsFit
    <3>2. checkComplete' = [checkComplete EXCEPT ![calls[s].info] = TRUE]
      BY <1>1, <2>1, <2>2, <3>1, <1>5, CheckNewVersionEffect
    <3>3. QED BY <1>1, <2>2, <3>1, <3>2 DEF CheckTypes
  <2>3. CASE u # s
    <3>1. calls'[u] = calls[u] /\ calls[u].info \notin overlap
      BY <1>1, <2>1, <2>3, <1>5, CheckNewVersionEffect DEF Others
    <3>2. checkComplete[calls[u].info]
      BY <1>1, <2>1, <3>1 DEF AnswerRaisesFlag
    <3>3. UNCHANGED checkComplete \/ checkComplete' = [checkComplete EXCEPT ![calls[s].info] = TRUE]
      BY <1>1, <1>5, CheckNewVersionEffect
    <3>4. calls[u].info \in Infos
      BY <1>1, <2>1, <3>1 DEF CallsFit, Serving, CheckTypes
    <3>5. QED BY <1>1, <3>1, <3>2, <3>3, <3>4 DEF CheckTypes
  <2>4. QED BY <2>2, <2>3
<1>6. ASSUME NEW s \in Slots, WaitReturns(s) PROVE AnswerRaisesFlag'
  BY <1>1, <1>6, WaitReturnsEffect DEF AnswerRaisesFlag, CheckTypes, Waits, Others
<1>7. ASSUME NEW s \in Slots, WaitTimesOut(s) PROVE AnswerRaisesFlag'
  BY <1>1, <1>7, WaitTimesOutEffect DEF AnswerRaisesFlag, CheckTypes, Waits, Others
<1>8. ASSUME NEW s \in Slots, LeaveCheck(s) PROVE AnswerRaisesFlag'
  <2>1. SUFFICES ASSUME NEW u \in Slots, calls'[u].pc = "wait", calls'[u].info \notin overlap', calls'[u].got # <<>>
                 PROVE  checkComplete'[calls'[u].info]
    BY DEF AnswerRaisesFlag
  <2>2. u # s
    BY <1>1, <2>1, <1>8, LeaveCheckEffect, FreshCall
  <2>3. calls'[u] = calls[u] /\ UNCHANGED overlap
    BY <1>1, <2>2, <1>8, LeaveCheckEffect DEF Others
  <2>4. calls[u].info \in Infos
    BY <1>1, <2>1, <2>3 DEF CallsFit, Serving, CheckTypes
  <2>5. calls[u].info # calls[s].info
    BY <1>1, <2>1, <2>2, <2>3, <2>4, <1>8, LeaveCheckEffect DEF OneWaits, Waits
  <2>6. checkComplete[calls[u].info]
    BY <1>1, <2>1, <2>3 DEF AnswerRaisesFlag
  <2>7. checkComplete' = [checkComplete EXCEPT ![calls[s].info] = FALSE]
    BY <1>1, <1>8, LeaveCheckEffect
  <2>8. QED BY <1>1, <2>3, <2>4, <2>5, <2>6, <2>7 DEF CheckTypes
<1>9. ASSUME NEW s \in Slots, Download(s) PROVE AnswerRaisesFlag'
  BY <1>1, <1>9, DownloadEffect, FreshCall DEF AnswerRaisesFlag, CheckTypes, Waits, Others
<1>10. ASSUME NEW s \in Slots, DoDownload(s) PROVE AnswerRaisesFlag'
  BY <1>1, <1>10, DoDownloadEffect, FreshCall DEF AnswerRaisesFlag, CheckTypes, Waits, Others
<1>11. ASSUME NEW s \in Slots, Upgrade(s) PROVE AnswerRaisesFlag'
  BY <1>1, <1>11, UpgradeEffect, FreshCall DEF AnswerRaisesFlag, CheckTypes, Waits, Others
<1>12. ASSUME NEW s \in Slots, Cancel(s) PROVE AnswerRaisesFlag'
  BY <1>1, <1>12, CancelEffect, FreshCall DEF AnswerRaisesFlag, CheckTypes, Waits, Others
<1>13. ASSUME NEW s \in Slots, DoCancel(s) PROVE AnswerRaisesFlag'
  BY <1>1, <1>13, DoCancelEffect, FreshCall DEF AnswerRaisesFlag, CheckTypes, Waits, Others
<1>14. ASSUME NEW s \in Slots, ClearError(s) PROVE AnswerRaisesFlag'
  BY <1>1, <1>14, ClearErrorEffect, FreshCall DEF AnswerRaisesFlag, CheckTypes, Waits, Others
<1>15. ASSUME NEW s \in Slots, GetNewVersionInfo(s) PROVE AnswerRaisesFlag'
  BY <1>1, <1>15, GetNewVersionInfoEffect DEF AnswerRaisesFlag, CheckTypes, Waits, Others
<1>16. ASSUME NEW s \in Slots, QueryAllComponents(s) PROVE AnswerRaisesFlag'
  BY <1>1, <1>16, QueryAllComponentsEffect, FreshCall DEF AnswerRaisesFlag, CheckTypes, Waits, Others
<1>17. ASSUME NEW s \in Slots, FileManagerEraseKeys(s) PROVE AnswerRaisesFlag'
  BY <1>1, <1>17, FileManagerEraseKeysEffect, FreshCall DEF AnswerRaisesFlag, CheckTypes, Waits, Others
<1>18. ASSUME NEW s \in Slots, ForceFactoryReset(s) PROVE AnswerRaisesFlag'
  BY <1>1, <1>18, ForceFactoryResetEffect, FreshCall DEF AnswerRaisesFlag, CheckTypes, Waits, Others
<1>19. ASSUME NEW t \in threads, NEW found, CheckAnswers(t, found) PROVE AnswerRaisesFlag'
  BY <1>1, <1>19, CheckAnswersEffect DEF AnswerRaisesFlag, CheckTypes, Waits, Others, Tears
<1>20. ASSUME NEW t \in threads, InsertComponents(t) PROVE AnswerRaisesFlag'
  BY <1>1, <1>20, InsertComponentsEffect DEF AnswerRaisesFlag, CheckTypes, Waits, Others, Tears
<1>21. ASSUME NEW t \in threads, InsertTask(t) PROVE AnswerRaisesFlag'
  BY <1>1, <1>21, InsertTaskEffect DEF AnswerRaisesFlag, CheckTypes, Waits, Others, Tears
<1>22. ASSUME NEW t \in threads, OnCheckComplete(t) PROVE AnswerRaisesFlag'
  <2>1. SUFFICES ASSUME NEW u \in Slots, calls'[u].pc = "wait", calls'[u].info \notin overlap', calls'[u].got # <<>>
                 PROVE  checkComplete'[calls'[u].info]
    BY DEF AnswerRaisesFlag
  <2>2. checkComplete' = [checkComplete EXCEPT ![t.info] = TRUE] /\ UNCHANGED overlap
    BY <1>1, <1>22, OnCheckCompleteEffect
  <2>3. CASE calls[u].pc \in {"wait", "leave"} /\ calls[u].id = t.id
    <3>1. calls'[u].info = calls[u].info /\ calls[u].info = t.info /\ t.info \in Infos
      BY <1>1, <2>3, <1>22, OnCheckCompleteEffect DEF IdsDiffer, CheckTypes
    <3>2. QED BY <1>1, <2>2, <3>1 DEF CheckTypes
  <2>4. CASE ~(calls[u].pc \in {"wait", "leave"} /\ calls[u].id = t.id)
    <3>1. calls'[u] = calls[u]
      BY <1>1, <2>4, <1>22, OnCheckCompleteEffect
    <3>2. checkComplete[calls[u].info] /\ calls[u].info \in Infos
      BY <1>1, <2>1, <2>2, <3>1 DEF AnswerRaisesFlag, CallsFit, Serving, CheckTypes
    <3>3. QED BY <1>1, <2>2, <3>1, <3>2 DEF CheckTypes
  <2>5. QED BY <2>3, <2>4
<1>23. CASE StandsBy \/ FlowMoves
  BY <1>1, <1>2, <1>23, FlowMovesEffect DEF StandsBy
<1>24. ASSUME NEW what, SecondPasses(what) PROVE AnswerRaisesFlag'
  BY <1>1, <1>2, <1>24, SecondPassesEffect
<1>25. ASSUME NEW s \in Slots, Proceeds(s) PROVE AnswerRaisesFlag'
  BY <1>1, <1>25, FreshCall DEF AnswerRaisesFlag, CheckTypes, Waits, Others, Proceeds
<1>26. ASSUME NEW s \in Slots, GetStepAfterInit(s) PROVE AnswerRaisesFlag'
  BY <1>1, <1>26, GetStepAfterInitEffect, FreshCall DEF AnswerRaisesFlag, CheckTypes, Waits, Others
<1>27. QED BY <1>1, StandByEffect, DismissEffect, ProceedEffect, <1>3, <1>4, <1>5, <1>6, <1>7, <1>8, <1>9, <1>10,
    <1>11, <1>12, <1>13, <1>14, <1>15, <1>16, <1>17, <1>18, <1>19, <1>20, <1>21, <1>22, <1>23, <1>24, <1>25, <1>26
    DEF Next, Handles, CheckThread, Environment

(* A wait ends with the answer, or with TIME_OUT.                          *)
LEMMA LeavesWithAnswerStep ==
    ASSUME ServiceInv, CallTypes', Next PROVE LeavesWithAnswer'
<1>1. /\ CallTypes /\ ServiceTypes /\ CheckTypes /\ RowTypes /\ CallsFit /\ LeavesWithAnswer
      /\ FlagIsOwn /\ AnswerRaisesFlag /\ OneWaits
  BY DEF ServiceInv
<1>2. CASE UNCHANGED <<calls, overlap, timedOut>>
  BY <1>1, <1>2 DEF LeavesWithAnswer, Quiet
<1>3. ASSUME NEW s \in Slots, Dismisses(s) PROVE LeavesWithAnswer'
  BY <1>1, <1>3, FreshCall DEF LeavesWithAnswer, Quiet, Others, Dismisses
<1>4. ASSUME NEW s \in Slots, NEW code \in Codes, NEW who \in Callers,
             NEW info \in IF code \in OnlineCodes THEN Infos ELSE {NoInfo},
             CallbackEnter(s, code, who, info) PROVE LeavesWithAnswer'
  BY <1>1, <1>4, CallbackEnterEffect, FreshCall DEF LeavesWithAnswer, Quiet, Others
<1>5. ASSUME NEW s \in Slots, CheckNewVersion(s) PROVE LeavesWithAnswer'
  BY <1>1, <1>5, CheckNewVersionEffect DEF LeavesWithAnswer, Quiet, Others
<1>6. ASSUME NEW s \in Slots, WaitReturns(s) PROVE LeavesWithAnswer'
  <2>1. calls[s].info \in Infos /\ checkComplete[calls[s].info] /\ calls[s].pc = "wait"
    BY <1>1, <1>6, WaitReturnsEffect DEF CallsFit, Serving, CheckTypes
  <2>2. ASSUME Quiet(calls[s].info) PROVE calls[s].got # <<>>
    <3>1. PICK u \in Slots : Waits(u, calls[s].info) /\ calls[u].got # <<>>
      BY <1>1, <2>1, <2>2 DEF FlagIsOwn
    <3>2. u = s
      BY <1>1, <2>1, <2>2, <3>1 DEF OneWaits, Waits, Quiet
    <3>3. QED BY <3>1, <3>2
  <2>3. QED BY <1>1, <2>2, <1>6, WaitReturnsEffect DEF LeavesWithAnswer, Quiet, Others
<1>7. ASSUME NEW s \in Slots, WaitTimesOut(s) PROVE LeavesWithAnswer'
  BY <1>1, <1>7, WaitTimesOutEffect DEF LeavesWithAnswer, AnswerRaisesFlag, Quiet, Others
<1>8. ASSUME NEW s \in Slots, LeaveCheck(s) PROVE LeavesWithAnswer'
  BY <1>1, <1>8, LeaveCheckEffect, FreshCall DEF LeavesWithAnswer, Quiet, Others
<1>9. ASSUME NEW s \in Slots, Download(s) PROVE LeavesWithAnswer'
  BY <1>1, <1>9, DownloadEffect, FreshCall DEF LeavesWithAnswer, Quiet, Others
<1>10. ASSUME NEW s \in Slots, DoDownload(s) PROVE LeavesWithAnswer'
  BY <1>1, <1>10, DoDownloadEffect, FreshCall DEF LeavesWithAnswer, Quiet, Others
<1>11. ASSUME NEW s \in Slots, Upgrade(s) PROVE LeavesWithAnswer'
  BY <1>1, <1>11, UpgradeEffect, FreshCall DEF LeavesWithAnswer, Quiet, Others
<1>12. ASSUME NEW s \in Slots, Cancel(s) PROVE LeavesWithAnswer'
  BY <1>1, <1>12, CancelEffect, FreshCall DEF LeavesWithAnswer, Quiet, Others
<1>13. ASSUME NEW s \in Slots, DoCancel(s) PROVE LeavesWithAnswer'
  BY <1>1, <1>13, DoCancelEffect, FreshCall DEF LeavesWithAnswer, Quiet, Others
<1>14. ASSUME NEW s \in Slots, ClearError(s) PROVE LeavesWithAnswer'
  BY <1>1, <1>14, ClearErrorEffect, FreshCall DEF LeavesWithAnswer, Quiet, Others
<1>15. ASSUME NEW s \in Slots, GetNewVersionInfo(s) PROVE LeavesWithAnswer'
  BY <1>1, <1>15, GetNewVersionInfoEffect DEF LeavesWithAnswer, Quiet, Others
<1>16. ASSUME NEW s \in Slots, QueryAllComponents(s) PROVE LeavesWithAnswer'
  BY <1>1, <1>16, QueryAllComponentsEffect, FreshCall DEF LeavesWithAnswer, Quiet, Others
<1>17. ASSUME NEW s \in Slots, FileManagerEraseKeys(s) PROVE LeavesWithAnswer'
  BY <1>1, <1>17, FileManagerEraseKeysEffect, FreshCall DEF LeavesWithAnswer, Quiet, Others
<1>18. ASSUME NEW s \in Slots, ForceFactoryReset(s) PROVE LeavesWithAnswer'
  BY <1>1, <1>18, ForceFactoryResetEffect, FreshCall DEF LeavesWithAnswer, Quiet, Others
<1>19. ASSUME NEW t \in threads, NEW found, CheckAnswers(t, found) PROVE LeavesWithAnswer'
  BY <1>1, <1>19, CheckAnswersEffect DEF LeavesWithAnswer, Quiet, Others, Tears
<1>20. ASSUME NEW t \in threads, InsertComponents(t) PROVE LeavesWithAnswer'
  BY <1>1, <1>20, InsertComponentsEffect DEF LeavesWithAnswer, Quiet, Others, Tears
<1>21. ASSUME NEW t \in threads, InsertTask(t) PROVE LeavesWithAnswer'
  BY <1>1, <1>21, InsertTaskEffect DEF LeavesWithAnswer, Quiet, Others, Tears
<1>22. ASSUME NEW t \in threads, OnCheckComplete(t) PROVE LeavesWithAnswer'
  BY <1>1, <1>22, OnCheckCompleteEffect DEF LeavesWithAnswer, Quiet, Others
<1>23. CASE StandsBy \/ FlowMoves
  BY <1>1, <1>2, <1>23, FlowMovesEffect DEF StandsBy
<1>24. ASSUME NEW what, SecondPasses(what) PROVE LeavesWithAnswer'
  BY <1>1, <1>2, <1>24, SecondPassesEffect
<1>25. ASSUME NEW s \in Slots, Proceeds(s) PROVE LeavesWithAnswer'
  BY <1>1, <1>25, FreshCall DEF LeavesWithAnswer, Quiet, Others, Proceeds
<1>26. ASSUME NEW s \in Slots, GetStepAfterInit(s) PROVE LeavesWithAnswer'
  BY <1>1, <1>26, GetStepAfterInitEffect, FreshCall DEF LeavesWithAnswer, Quiet, Others
<1>27. QED BY <1>1, StandByEffect, DismissEffect, ProceedEffect, <1>3, <1>4, <1>5, <1>6, <1>7, <1>8, <1>9, <1>10,
    <1>11, <1>12, <1>13, <1>14, <1>15, <1>16, <1>17, <1>18, <1>19, <1>20, <1>21, <1>22, <1>23, <1>24, <1>25, <1>26
    DEF Next, Handles, CheckThread, Environment

(* A check is answered with its own answer.                                *)
LEMMA OwnAnswerStep ==
    ASSUME ServiceInv, CallTypes', Next PROVE OwnAnswer'
<1>1. CallTypes /\ ServiceTypes /\ CheckTypes /\ RowTypes /\ CallsFit /\ OwnAnswer /\ LeavesWithAnswer
  BY DEF ServiceInv
<1>2. CASE UNCHANGED <<calls, overlap, timedOut>>
  BY <1>1, <1>2 DEF OwnAnswer, At
<1>3. ASSUME NEW s \in Slots, Dismisses(s) PROVE OwnAnswer'
  BY <1>1, <1>3, FreshCall DEF OwnAnswer, At, Others, Dismisses
<1>4. ASSUME NEW s \in Slots, NEW code \in Codes, NEW who \in Callers,
             NEW info \in IF code \in OnlineCodes THEN Infos ELSE {NoInfo},
             CallbackEnter(s, code, who, info) PROVE OwnAnswer'
  BY <1>1, <1>4, CallbackEnterEffect, FreshCall DEF OwnAnswer, At, Others
<1>5. ASSUME NEW s \in Slots, CheckNewVersion(s) PROVE OwnAnswer'
  BY <1>1, <1>5, CheckNewVersionEffect DEF OwnAnswer, At, Others
<1>6. ASSUME NEW s \in Slots, WaitReturns(s) PROVE OwnAnswer'
  BY <1>1, <1>6, WaitReturnsEffect DEF OwnAnswer, At, Others
<1>7. ASSUME NEW s \in Slots, WaitTimesOut(s) PROVE OwnAnswer'
  BY <1>1, <1>7, WaitTimesOutEffect DEF OwnAnswer, At, Others
<1>8. ASSUME NEW s \in Slots, LeaveCheck(s) PROVE OwnAnswer'
  <2>1. calls[s].info \notin overlap =>
          /\ calls[s].info \notin timedOut => calls[s].got # <<>>
          /\ calls[s].err = "TIME_OUT" => calls[s].got = <<>>
    BY <1>1, <1>8, LeaveCheckEffect DEF LeavesWithAnswer, Quiet
  <2>2. QED BY <1>1, <2>1, <1>8, LeaveCheckEffect, FreshCall DEF OwnAnswer, At, Others
<1>9. ASSUME NEW s \in Slots, Download(s) PROVE OwnAnswer'
  BY <1>1, <1>9, DownloadEffect, FreshCall DEF OwnAnswer, At, Others
<1>10. ASSUME NEW s \in Slots, DoDownload(s) PROVE OwnAnswer'
  BY <1>1, <1>10, DoDownloadEffect, FreshCall DEF OwnAnswer, At, Others
<1>11. ASSUME NEW s \in Slots, Upgrade(s) PROVE OwnAnswer'
  BY <1>1, <1>11, UpgradeEffect, FreshCall DEF OwnAnswer, At, Others
<1>12. ASSUME NEW s \in Slots, Cancel(s) PROVE OwnAnswer'
  BY <1>1, <1>12, CancelEffect, FreshCall DEF OwnAnswer, At, Others
<1>13. ASSUME NEW s \in Slots, DoCancel(s) PROVE OwnAnswer'
  BY <1>1, <1>13, DoCancelEffect, FreshCall DEF OwnAnswer, At, Others
<1>14. ASSUME NEW s \in Slots, ClearError(s) PROVE OwnAnswer'
  BY <1>1, <1>14, ClearErrorEffect, FreshCall DEF OwnAnswer, At, Others
<1>15. ASSUME NEW s \in Slots, GetNewVersionInfo(s) PROVE OwnAnswer'
  BY <1>1, <1>15, GetNewVersionInfoEffect DEF OwnAnswer, At, Others
<1>16. ASSUME NEW s \in Slots, QueryAllComponents(s) PROVE OwnAnswer'
  BY <1>1, <1>16, QueryAllComponentsEffect, FreshCall DEF OwnAnswer, At, Others
<1>17. ASSUME NEW s \in Slots, FileManagerEraseKeys(s) PROVE OwnAnswer'
  BY <1>1, <1>17, FileManagerEraseKeysEffect, FreshCall DEF OwnAnswer, At, Others
<1>18. ASSUME NEW s \in Slots, ForceFactoryReset(s) PROVE OwnAnswer'
  BY <1>1, <1>18, ForceFactoryResetEffect, FreshCall DEF OwnAnswer, At, Others
<1>19. ASSUME NEW t \in threads, NEW found, CheckAnswers(t, found) PROVE OwnAnswer'
  BY <1>1, <1>19, CheckAnswersEffect DEF OwnAnswer, At, Others, Tears
<1>20. ASSUME NEW t \in threads, InsertComponents(t) PROVE OwnAnswer'
  BY <1>1, <1>20, InsertComponentsEffect DEF OwnAnswer, At, Others, Tears
<1>21. ASSUME NEW t \in threads, InsertTask(t) PROVE OwnAnswer'
  BY <1>1, <1>21, InsertTaskEffect DEF OwnAnswer, At, Others, Tears
<1>22. ASSUME NEW t \in threads, OnCheckComplete(t) PROVE OwnAnswer'
  BY <1>1, <1>22, OnCheckCompleteEffect DEF OwnAnswer, At, Others
<1>23. CASE StandsBy \/ FlowMoves
  BY <1>1, <1>2, <1>23, FlowMovesEffect DEF StandsBy
<1>24. ASSUME NEW what, SecondPasses(what) PROVE OwnAnswer'
  BY <1>1, <1>2, <1>24, SecondPassesEffect
<1>25. ASSUME NEW s \in Slots, Proceeds(s) PROVE OwnAnswer'
  BY <1>1, <1>25, FreshCall DEF OwnAnswer, At, Others, Proceeds
<1>26. ASSUME NEW s \in Slots, GetStepAfterInit(s) PROVE OwnAnswer'
  BY <1>1, <1>26, GetStepAfterInitEffect, FreshCall DEF OwnAnswer, At, Others
<1>27. QED BY <1>1, StandByEffect, DismissEffect, ProceedEffect, <1>3, <1>4, <1>5, <1>6, <1>7, <1>8, <1>9, <1>10,
    <1>11, <1>12, <1>13, <1>14, <1>15, <1>16, <1>17, <1>18, <1>19, <1>20, <1>21, <1>22, <1>23, <1>24, <1>25, <1>26
    DEF Next, Handles, CheckThread, Environment

(* A thread finds its call, unless checks overlapped or timed out.         *)
LEMMA NoDeadFrameStep ==
    ASSUME ServiceInv, CallTypes', Next PROVE NoDeadFrame'
<1>1. CallTypes /\ ServiceTypes /\ CheckTypes /\ RowTypes /\ CallsFit /\ NoDeadFrame /\ ThreadIsAwaited
  BY DEF ServiceInv
<1>2. CASE UNCHANGED <<smashed, overlap, timedOut>>
  BY <1>1, <1>2 DEF NoDeadFrame
<1>3. ASSUME NEW s \in Slots, CheckNewVersion(s) PROVE NoDeadFrame'
  BY <1>1, <1>3, CheckNewVersionEffect DEF NoDeadFrame
<1>4. ASSUME NEW s \in Slots, WaitTimesOut(s) PROVE NoDeadFrame'
  BY <1>1, <1>4, WaitTimesOutEffect DEF NoDeadFrame
<1>5. ASSUME NEW t \in threads, OnCheckComplete(t) PROVE NoDeadFrame'
  <2>1. UNCHANGED <<overlap, timedOut>>
    BY <1>1, <1>5, OnCheckCompleteEffect
  <2>2. ASSUME \A s \in Slots : ~(calls[s].pc \in {"wait", "leave"} /\ calls[s].id = t.id)
        PROVE  timedOut \cup overlap # {}
    BY <1>1, <2>2 DEF ThreadIsAwaited, Quiet, Waits
  <2>3. smashed' => smashed \/ \A s \in Slots : ~(calls[s].pc \in {"wait", "leave"} /\ calls[s].id = t.id)
    BY <1>1, <1>5, OnCheckCompleteEffect
  <2>4. QED BY <1>1, <2>1, <2>2, <2>3 DEF NoDeadFrame
<1>6. CASE StandsBy \/ FlowMoves
  BY <1>1, <1>2, <1>6, FlowMovesEffect DEF StandsBy
<1>7. ASSUME NEW s \in Slots,
             Dismisses(s) \/ (\E code, who, info : CallbackEnter(s, code, who, info)) \/ WaitReturns(s) \/
             LeaveCheck(s) \/ Download(s) \/ DoDownload(s) \/ Upgrade(s) \/ Cancel(s) \/ DoCancel(s) \/
             ClearError(s) \/ GetNewVersionInfo(s) \/ QueryAllComponents(s) \/ FileManagerEraseKeys(s) \/
             ForceFactoryReset(s)
      PROVE  NoDeadFrame'
  BY <1>1, <1>2, <1>7, CallbackEnterEffect, WaitReturnsEffect, LeaveCheckEffect, DownloadEffect,
      DoDownloadEffect, UpgradeEffect, CancelEffect, DoCancelEffect, ClearErrorEffect, GetNewVersionInfoEffect,
      QueryAllComponentsEffect, FileManagerEraseKeysEffect, ForceFactoryResetEffect DEF Dismisses
<1>8. ASSUME NEW t \in threads, (\E found : CheckAnswers(t, found)) \/ InsertComponents(t) \/ InsertTask(t)
      PROVE  NoDeadFrame'
  BY <1>1, <1>2, <1>8, CheckAnswersEffect, InsertComponentsEffect, InsertTaskEffect
<1>9. ASSUME NEW what, SecondPasses(what) PROVE NoDeadFrame'
  BY <1>1, <1>2, <1>9, SecondPassesEffect
<1>10. ASSUME NEW s \in Slots, Proceeds(s) PROVE NoDeadFrame'
  BY <1>1, <1>2, <1>10 DEF Proceeds
<1>11. ASSUME NEW s \in Slots, GetStepAfterInit(s) PROVE NoDeadFrame'
  BY <1>1, <1>2, <1>11, GetStepAfterInitEffect
<1>12. QED BY <1>1, StandByEffect, DismissEffect, ProceedEffect, <1>3, <1>4, <1>5, <1>6, <1>7, <1>8, <1>9, <1>10,
    <1>11 DEF Next, Handles, CheckThread, Environment

(* One check at a time fills the tables, unless two crossed.               *)
LEMMA TablesAgreeStep ==
    ASSUME ServiceInv, CallTypes', Next PROVE TablesAgree'
<1>1. CallTypes /\ ServiceTypes /\ CheckTypes /\ RowTypes /\ CallsFit /\ TablesAgree
  BY DEF ServiceInv
<1>2. CASE UNCHANGED <<threads, db, crossed>>
  BY <1>1, <1>2 DEF TablesAgree, Fills, CheckTypes, RowTypes
<1>3. ASSUME NEW s \in Slots, CheckNewVersion(s) PROVE TablesAgree'
  BY <1>1, <1>3, CheckNewVersionEffect DEF TablesAgree, Fills, CheckTypes, RowTypes
<1>4. ASSUME NEW s \in Slots, DoCancel(s) PROVE TablesAgree'
  BY <1>1, <1>4, DoCancelEffect DEF TablesAgree, Fills, CheckTypes, RowTypes
<1>5. ASSUME NEW s \in Slots, ClearError(s) PROVE TablesAgree'
  BY <1>1, <1>5, ClearErrorEffect DEF TablesAgree, Fills, CheckTypes, RowTypes
<1>6. ASSUME NEW t \in threads, NEW found, CheckAnswers(t, found) PROVE TablesAgree'
  BY <1>1, <1>6, CheckAnswersEffect DEF TablesAgree, Fills, CheckTypes, RowTypes
<1>7. ASSUME NEW t \in threads, InsertComponents(t) PROVE TablesAgree'
  <2> DEFINE n == [id |-> t.id, info |-> t.info, pc |-> "insertTask"]
  <2>1. /\ t.pc = "insert" /\ threads' = (threads \ {t}) \cup {n}
        /\ db'.comps = 2 /\ db'.status = db.status /\ UNCHANGED crossed
    BY <1>1, <1>7, InsertComponentsEffect
  <2>2. n.pc = "insertTask"
    OBVIOUS
  <2> HIDE DEF n
  <2>3. ~crossed => (\A u \in threads \ {t} : ~Fills(u)) /\ db.status = "INIT"
    BY <1>1, <2>1 DEF TablesAgree, Fills
  <2>4. QED BY <2>1, <2>2, <2>3 DEF TablesAgree, Fills
<1>8. ASSUME NEW t \in threads, InsertTask(t) PROVE TablesAgree'
  BY <1>1, <1>8, InsertTaskEffect DEF TablesAgree, Fills, CheckTypes, RowTypes
<1>9. ASSUME NEW t \in threads, OnCheckComplete(t) PROVE TablesAgree'
  BY <1>1, <1>9, OnCheckCompleteEffect DEF TablesAgree, Fills, CheckTypes, RowTypes
<1>10. CASE FlowMoves
  BY <1>1, <1>10, FlowMovesEffect DEF TablesAgree, Fills, CheckTypes, RowTypes
<1>11. CASE StandsBy
  BY <1>1, <1>2, <1>11 DEF StandsBy
<1>12. ASSUME NEW s \in Slots,
             Dismisses(s) \/ (\E code, who, info : CallbackEnter(s, code, who, info)) \/ WaitReturns(s) \/
             WaitTimesOut(s) \/ LeaveCheck(s) \/ Download(s) \/ DoDownload(s) \/ Upgrade(s) \/ Cancel(s) \/
             GetNewVersionInfo(s) \/ QueryAllComponents(s) \/ FileManagerEraseKeys(s) \/
             ForceFactoryReset(s)
      PROVE  TablesAgree'
  BY <1>1, <1>2, <1>12, CallbackEnterEffect, WaitReturnsEffect, WaitTimesOutEffect, LeaveCheckEffect,
      DownloadEffect, DoDownloadEffect, UpgradeEffect, CancelEffect, GetNewVersionInfoEffect,
      QueryAllComponentsEffect, FileManagerEraseKeysEffect, ForceFactoryResetEffect DEF Dismisses
<1>13. ASSUME NEW what, SecondPasses(what) PROVE TablesAgree'
  BY <1>1, <1>2, <1>13, SecondPassesEffect
<1>14. ASSUME NEW s \in Slots, Proceeds(s) PROVE TablesAgree'
  BY <1>1, <1>2, <1>14 DEF Proceeds
<1>15. ASSUME NEW s \in Slots, GetStepAfterInit(s) PROVE TablesAgree'
  BY <1>1, <1>15, GetStepAfterInitEffect DEF TablesAgree, Fills, CheckTypes, RowTypes
<1>16. QED BY <1>1, StandByEffect, DismissEffect, ProceedEffect, <1>3, <1>4, <1>5, <1>6, <1>7, <1>8, <1>9, <1>10,
    <1>11, <1>12, <1>13, <1>14, <1>15 DEF Next, Handles, CheckThread, Environment

(* What was read of the task stays so, or the call is torn.                *)
LEMMA ReadIsCurrentStep ==
    ASSUME ServiceInv, CallTypes', Next PROVE ReadIsCurrent'
<1>1. CallTypes /\ ServiceTypes /\ CheckTypes /\ RowTypes /\ CallsFit /\ ReadIsCurrent /\ TablesAgree
  BY DEF ServiceInv
<1>2. CASE UNCHANGED <<calls, db, crossed>>
  BY <1>1, <1>2 DEF ReadIsCurrent
<1>3. ASSUME NEW s \in Slots, Dismisses(s) PROVE ReadIsCurrent'
  BY <1>1, <1>3, FreshCall DEF ReadIsCurrent, Others, Dismisses
<1>4. ASSUME NEW s \in Slots, NEW code \in Codes, NEW who \in Callers,
             NEW info \in IF code \in OnlineCodes THEN Infos ELSE {NoInfo},
             CallbackEnter(s, code, who, info) PROVE ReadIsCurrent'
  BY <1>1, <1>4, CallbackEnterEffect, FreshCall DEF ReadIsCurrent, Others
<1>5. ASSUME NEW s \in Slots, CheckNewVersion(s) PROVE ReadIsCurrent'
  BY <1>1, <1>5, CheckNewVersionEffect DEF ReadIsCurrent, Others
<1>6. ASSUME NEW s \in Slots, WaitReturns(s) PROVE ReadIsCurrent'
  BY <1>1, <1>6, WaitReturnsEffect DEF ReadIsCurrent, Others
<1>7. ASSUME NEW s \in Slots, WaitTimesOut(s) PROVE ReadIsCurrent'
  BY <1>1, <1>7, WaitTimesOutEffect DEF ReadIsCurrent, Others
<1>8. ASSUME NEW s \in Slots, LeaveCheck(s) PROVE ReadIsCurrent'
  BY <1>1, <1>8, LeaveCheckEffect, FreshCall DEF ReadIsCurrent, Others
<1>9. ASSUME NEW s \in Slots, Download(s) PROVE ReadIsCurrent'
  BY <1>1, <1>9, DownloadEffect, FreshCall DEF ReadIsCurrent, Others
<1>10. ASSUME NEW s \in Slots, DoDownload(s) PROVE ReadIsCurrent'
  BY <1>1, <1>10, DoDownloadEffect, FreshCall DEF ReadIsCurrent, Others
<1>11. ASSUME NEW s \in Slots, Upgrade(s) PROVE ReadIsCurrent'
  BY <1>1, <1>11, UpgradeEffect, FreshCall DEF ReadIsCurrent, Others
<1>12. ASSUME NEW s \in Slots, Cancel(s) PROVE ReadIsCurrent'
  BY <1>1, <1>12, CancelEffect, FreshCall DEF ReadIsCurrent, Others
<1>13. ASSUME NEW s \in Slots, DoCancel(s) PROVE ReadIsCurrent'
  BY <1>1, <1>13, DoCancelEffect, FreshCall DEF ReadIsCurrent, Others
<1>14. ASSUME NEW s \in Slots, ClearError(s) PROVE ReadIsCurrent'
  BY <1>1, <1>14, ClearErrorEffect, FreshCall DEF ReadIsCurrent, CallsFit, Others
<1>15. ASSUME NEW s \in Slots, GetNewVersionInfo(s) PROVE ReadIsCurrent'
  <2>1. ~calls'[s].fair /\ ~crossed => db.task = db.comps
    BY <1>1, <1>15, GetNewVersionInfoEffect DEF TablesAgree
  <2>2. QED BY <1>1, <2>1, <1>15, GetNewVersionInfoEffect DEF ReadIsCurrent, Others
<1>16. ASSUME NEW s \in Slots, QueryAllComponents(s) PROVE ReadIsCurrent'
  BY <1>1, <1>16, QueryAllComponentsEffect, FreshCall DEF ReadIsCurrent, Others
<1>17. ASSUME NEW s \in Slots, FileManagerEraseKeys(s) PROVE ReadIsCurrent'
  BY <1>1, <1>17, FileManagerEraseKeysEffect, FreshCall DEF ReadIsCurrent, Others
<1>18. ASSUME NEW s \in Slots, ForceFactoryReset(s) PROVE ReadIsCurrent'
  BY <1>1, <1>18, ForceFactoryResetEffect, FreshCall DEF ReadIsCurrent, Others
<1>19. ASSUME NEW t \in threads, NEW found, CheckAnswers(t, found) PROVE ReadIsCurrent'
  <2>1. CASE UNCHANGED <<calls, db, crossed>>
    BY <1>2, <2>1
  <2>2. CASE Tears
    <3>1. \A s \in Slots : calls'[s].pc = "components" => calls'[s].fair
      BY <1>1, <2>2 DEF Tears, CallsFit
    <3>2. QED BY <3>1 DEF ReadIsCurrent
  <2>3. QED BY <1>1, <1>19, <2>1, <2>2, CheckAnswersEffect
<1>20. ASSUME NEW t \in threads, InsertComponents(t) PROVE ReadIsCurrent'
  <2>1. \A s \in Slots : calls'[s].pc = "components" => calls'[s].fair
    BY <1>1, <1>20, InsertComponentsEffect DEF Tears, CallsFit
  <2>2. QED BY <2>1 DEF ReadIsCurrent
<1>21. ASSUME NEW t \in threads, InsertTask(t) PROVE ReadIsCurrent'
  <2>1. \A s \in Slots : calls'[s].pc = "components" => calls'[s].fair
    BY <1>1, <1>21, InsertTaskEffect DEF Tears, CallsFit
  <2>2. QED BY <2>1 DEF ReadIsCurrent
<1>22. ASSUME NEW t \in threads, OnCheckComplete(t) PROVE ReadIsCurrent'
  BY <1>1, <1>22, OnCheckCompleteEffect DEF ReadIsCurrent, Others
<1>23. CASE FlowMoves
  BY <1>1, <1>23, FlowMovesEffect DEF ReadIsCurrent
<1>24. CASE StandsBy
  BY <1>1, <1>2, <1>24 DEF StandsBy
<1>25. ASSUME NEW what, SecondPasses(what) PROVE ReadIsCurrent'
  BY <1>1, <1>2, <1>25, SecondPassesEffect
<1>26. ASSUME NEW s \in Slots, Proceeds(s) PROVE ReadIsCurrent'
  BY <1>1, <1>26, FreshCall DEF ReadIsCurrent, Others, Proceeds
<1>27. ASSUME NEW s \in Slots, GetStepAfterInit(s) PROVE ReadIsCurrent'
  BY <1>1, <1>27, GetStepAfterInitEffect, FreshCall DEF ReadIsCurrent, CallsFit, Others
<1>28. QED BY <1>1, StandByEffect, DismissEffect, ProceedEffect, <1>3, <1>4, <1>5, <1>6, <1>7, <1>8, <1>9, <1>10,
    <1>11, <1>12, <1>13, <1>14, <1>15, <1>16, <1>17, <1>18, <1>19, <1>20, <1>21, <1>22, <1>23, <1>24, <1>25, <1>26,
    <1>27 DEF Next, Handles, CheckThread, Environment

(* An answer that is not torn is of one version.                           *)
LEMMA VersionInfoIsWholeStep ==
    ASSUME ServiceInv, CallTypes', Next PROVE VersionInfoIsWhole'
<1>1. CallTypes /\ ServiceTypes /\ CheckTypes /\ RowTypes /\ CallsFit /\ VersionInfoIsWhole /\ ReadIsCurrent
  BY DEF ServiceInv
<1>2. CASE UNCHANGED <<calls, crossed>>
  BY <1>1, <1>2 DEF VersionInfoIsWhole, At
<1>3. ASSUME NEW s \in Slots, Dismisses(s) PROVE VersionInfoIsWhole'
  BY <1>1, <1>3, FreshCall DEF VersionInfoIsWhole, At, Others, Dismisses
<1>4. ASSUME NEW s \in Slots, NEW code \in Codes, NEW who \in Callers,
             NEW info \in IF code \in OnlineCodes THEN Infos ELSE {NoInfo},
             CallbackEnter(s, code, who, info) PROVE VersionInfoIsWhole'
  BY <1>1, <1>4, CallbackEnterEffect, FreshCall DEF VersionInfoIsWhole, At, Others
<1>5. ASSUME NEW s \in Slots, CheckNewVersion(s) PROVE VersionInfoIsWhole'
  BY <1>1, <1>5, CheckNewVersionEffect DEF VersionInfoIsWhole, At, Others
<1>6. ASSUME NEW s \in Slots, WaitReturns(s) PROVE VersionInfoIsWhole'
  BY <1>1, <1>6, WaitReturnsEffect DEF VersionInfoIsWhole, At, Others
<1>7. ASSUME NEW s \in Slots, WaitTimesOut(s) PROVE VersionInfoIsWhole'
  BY <1>1, <1>7, WaitTimesOutEffect DEF VersionInfoIsWhole, At, Others
<1>8. ASSUME NEW s \in Slots, LeaveCheck(s) PROVE VersionInfoIsWhole'
  BY <1>1, <1>8, LeaveCheckEffect, FreshCall DEF VersionInfoIsWhole, At, Others
<1>9. ASSUME NEW s \in Slots, Download(s) PROVE VersionInfoIsWhole'
  BY <1>1, <1>9, DownloadEffect, FreshCall DEF VersionInfoIsWhole, At, Others
<1>10. ASSUME NEW s \in Slots, DoDownload(s) PROVE VersionInfoIsWhole'
  BY <1>1, <1>10, DoDownloadEffect, FreshCall DEF VersionInfoIsWhole, At, Others
<1>11. ASSUME NEW s \in Slots, Upgrade(s) PROVE VersionInfoIsWhole'
  BY <1>1, <1>11, UpgradeEffect, FreshCall DEF VersionInfoIsWhole, At, Others
<1>12. ASSUME NEW s \in Slots, Cancel(s) PROVE VersionInfoIsWhole'
  BY <1>1, <1>12, CancelEffect, FreshCall DEF VersionInfoIsWhole, At, Others
<1>13. ASSUME NEW s \in Slots, DoCancel(s) PROVE VersionInfoIsWhole'
  BY <1>1, <1>13, DoCancelEffect, FreshCall DEF VersionInfoIsWhole, At, Others
<1>14. ASSUME NEW s \in Slots, ClearError(s) PROVE VersionInfoIsWhole'
  BY <1>1, <1>14, ClearErrorEffect, FreshCall DEF VersionInfoIsWhole, At, Others
<1>15. ASSUME NEW s \in Slots, GetNewVersionInfo(s) PROVE VersionInfoIsWhole'
  BY <1>1, <1>15, GetNewVersionInfoEffect DEF VersionInfoIsWhole, At, Others
<1>16. ASSUME NEW s \in Slots, QueryAllComponents(s) PROVE VersionInfoIsWhole'
  <2>1. calls[s].pc = "components" /\ Others(s) /\ UNCHANGED crossed
    BY <1>1, <1>16, QueryAllComponentsEffect
  <2>2. ASSUME calls'[s].pc = "done", ~calls'[s].fair, ~crossed PROVE calls'[s].got[1] = calls'[s].got[2]
    <3>1. ~calls[s].fair /\ calls'[s].got = Append(calls[s].got, db.comps)
      BY <1>1, <2>2, <1>16, QueryAllComponentsEffect, FreshCall
    <3>2. calls[s].got = <<db.task>> /\ db.task = db.comps
      BY <1>1, <2>1, <2>2, <3>1 DEF ReadIsCurrent
    <3>3. Append(<<db.task>>, db.comps)[1] = db.task /\ Append(<<db.task>>, db.comps)[2] = db.comps
      <4>1. <<db.task>> \in Seq({db.task, db.comps}) /\ Len(<<db.task>>) = 1 /\ <<db.task>>[1] = db.task
        OBVIOUS
      <4>2. QED BY <4>1
    <3>4. QED BY <3>1, <3>2, <3>3
  <2>3. ASSUME NEW u \in Slots, calls'[u].pc = "done", calls'[u].code = "GET_NEW_VERSION", Len(calls'[u].got) = 2,
               ~calls'[u].fair, ~crossed
        PROVE  calls'[u].got[1] = calls'[u].got[2]
    <3>1. CASE u = s
      BY <2>2, <2>3, <3>1
    <3>2. CASE u # s
      BY <1>1, <2>1, <2>3, <3>2 DEF VersionInfoIsWhole, At, Others
    <3>3. QED BY <3>1, <3>2
  <2>4. QED BY <2>1, <2>3 DEF VersionInfoIsWhole, At
<1>17. ASSUME NEW s \in Slots, FileManagerEraseKeys(s) PROVE VersionInfoIsWhole'
  BY <1>1, <1>17, FileManagerEraseKeysEffect, FreshCall DEF VersionInfoIsWhole, At, Others
<1>18. ASSUME NEW s \in Slots, ForceFactoryReset(s) PROVE VersionInfoIsWhole'
  BY <1>1, <1>18, ForceFactoryResetEffect, FreshCall DEF VersionInfoIsWhole, At, Others
<1>19. ASSUME NEW t \in threads, NEW found, CheckAnswers(t, found) PROVE VersionInfoIsWhole'
  BY <1>1, <1>19, CheckAnswersEffect DEF VersionInfoIsWhole, At, Others, Tears
<1>20. ASSUME NEW t \in threads, InsertComponents(t) PROVE VersionInfoIsWhole'
  BY <1>1, <1>20, InsertComponentsEffect DEF VersionInfoIsWhole, At, Others, Tears
<1>21. ASSUME NEW t \in threads, InsertTask(t) PROVE VersionInfoIsWhole'
  BY <1>1, <1>21, InsertTaskEffect DEF VersionInfoIsWhole, At, Others, Tears
<1>22. ASSUME NEW t \in threads, OnCheckComplete(t) PROVE VersionInfoIsWhole'
  BY <1>1, <1>22, OnCheckCompleteEffect DEF VersionInfoIsWhole, At, Others
<1>23. CASE StandsBy \/ FlowMoves
  BY <1>1, <1>2, <1>23, FlowMovesEffect DEF StandsBy
<1>24. ASSUME NEW what, SecondPasses(what) PROVE VersionInfoIsWhole'
  BY <1>1, <1>2, <1>24, SecondPassesEffect
<1>25. ASSUME NEW s \in Slots, Proceeds(s) PROVE VersionInfoIsWhole'
  BY <1>1, <1>25, FreshCall DEF VersionInfoIsWhole, At, Others, Proceeds
<1>26. ASSUME NEW s \in Slots, GetStepAfterInit(s) PROVE VersionInfoIsWhole'
  BY <1>1, <1>26, GetStepAfterInitEffect, FreshCall DEF VersionInfoIsWhole, At, Others
<1>27. QED BY <1>1, StandByEffect, DismissEffect, ProceedEffect, <1>3, <1>4, <1>5, <1>6, <1>7, <1>8, <1>9, <1>10,
    <1>11, <1>12, <1>13, <1>14, <1>15, <1>16, <1>17, <1>18, <1>19, <1>20, <1>21, <1>22, <1>23, <1>24, <1>25, <1>26
    DEF Next, Handles, CheckThread, Environment

(* Two calls start one download, and one install.                          *)
LEMMA OneStartsStep ==
    ASSUME ServiceInv, CallTypes', Next PROVE OneStarts'
<1> USE DEF Downloads, Upgrades
<1>1. CallTypes /\ ServiceTypes /\ CheckTypes /\ RowTypes /\ CallsFit /\ OneStarts /\ TablesAgree
  BY DEF ServiceInv
<1>2. starts.download \in Nat /\ starts.upgrade \in Nat
  BY <1>1 DEF RowTypes
\* A call that goes no step of Download or Upgrade.
<1>3. ASSUME NEW s \in Slots, Others(s), calls'[s].pc \notin {"query", "start", "install", "mode"},
             UNCHANGED <<starts, db, recent, unseen, crossed>>
      PROVE  OneStarts'
  BY <1>1, <1>3 DEF OneStarts, OneDownload, OneUpgrade, Others
\* A step that no call takes.
<1>4. ASSUME \A s \in Slots : UNCHANGED calls[s].pc, UNCHANGED <<starts, recent, unseen>>, crossed => crossed',
             ~crossed => UNCHANGED db.status \/ db.status \notin {"DOWNLOADING", "INSTALLING"}
      PROVE  OneStarts'
  BY <1>1, <1>4 DEF OneStarts, OneDownload, OneUpgrade
<1>5. ASSUME NEW s \in Slots, Dismisses(s) PROVE OneStarts'
  BY <1>3, <1>5, FreshCall DEF Dismisses
<1>6. ASSUME NEW s \in Slots, NEW code \in Codes, NEW who \in Callers,
             NEW info \in IF code \in OnlineCodes THEN Infos ELSE {NoInfo},
             CallbackEnter(s, code, who, info) PROVE OneStarts'
  BY <1>1, <1>3, <1>6, CallbackEnterEffect, FreshCall
<1>7. ASSUME NEW s \in Slots, CheckNewVersion(s) \/ WaitReturns(s) \/ WaitTimesOut(s) \/ LeaveCheck(s)
      PROVE  OneStarts'
  BY <1>1, <1>3, <1>7, CheckNewVersionEffect, WaitReturnsEffect, WaitTimesOutEffect, LeaveCheckEffect, FreshCall
<1>8. ASSUME NEW s \in Slots, Cancel(s) \/ GetNewVersionInfo(s) \/ QueryAllComponents(s)
      PROVE  OneStarts'
  BY <1>1, <1>3, <1>8, CancelEffect, GetNewVersionInfoEffect, QueryAllComponentsEffect, FreshCall
<1>9. ASSUME NEW s \in Slots, FileManagerEraseKeys(s) \/ ForceFactoryReset(s) PROVE OneStarts'
  BY <1>1, <1>3, <1>9, FileManagerEraseKeysEffect, ForceFactoryResetEffect, FreshCall
<1>10. ASSUME NEW s \in Slots, Download(s) PROVE OneStarts'
  <2>1. Others(s) /\ UNCHANGED <<starts, db, unseen, crossed>> /\ recent' = recent \cup {"download"}
    BY <1>1, <1>10, DownloadEffect
  <2>2. CASE calls'[s] = NoCall
    BY <1>1, <2>1, <2>2, FreshCall DEF OneStarts, OneDownload, OneUpgrade, Others
  <2>3. CASE "download" \notin recent /\ calls'[s].pc = "query"
    BY <1>1, <2>1, <2>3 DEF OneStarts, OneDownload, OneUpgrade, Others
  <2>4. QED BY <1>1, <2>2, <2>3, <1>10, DownloadEffect
<1>11. ASSUME NEW s \in Slots, Upgrade(s) PROVE OneStarts'
  <2>1. Others(s) /\ UNCHANGED <<starts, db, unseen, crossed>> /\ recent' = recent \cup {"upgrade"}
    BY <1>1, <1>11, UpgradeEffect
  <2>2. CASE calls'[s] = NoCall
    BY <1>1, <2>1, <2>2, FreshCall DEF OneStarts, OneDownload, OneUpgrade, Others
  <2>3. CASE "upgrade" \notin recent /\ calls'[s].pc = "install"
    BY <1>1, <2>1, <2>3 DEF OneStarts, OneDownload, OneUpgrade, Others
  <2>4. QED BY <1>1, <2>2, <2>3, <1>11, UpgradeEffect
<1>12. ASSUME NEW s \in Slots, Proceeds(s) PROVE OneStarts'
  <2>1. Others(s) /\ UNCHANGED <<starts, db, recent, unseen, crossed>>
    BY <1>12 DEF Proceeds
  <2>2. CASE calls'[s] = NoCall
    BY <1>3, <2>1, <2>2, FreshCall
  <2>3. CASE calls[s].pc = "query" /\ calls'[s].pc = "start" /\ db.status = "CHECK_VERSION_SUCCESS"
    BY <1>1, <1>2, <2>1, <2>3 DEF OneStarts, OneDownload, OneUpgrade, Others
  <2>4. CASE calls[s].pc = "install" /\ calls'[s].pc = "mode" /\ db.status # "INSTALLING"
    BY <1>1, <1>2, <2>1, <2>4 DEF OneStarts, OneDownload, OneUpgrade, Others
  <2>5. QED BY <1>12, <2>2, <2>3, <2>4 DEF Proceeds
<1>13. ASSUME NEW s \in Slots, DoDownload(s) PROVE OneStarts'
  BY <1>1, <1>2, <1>13, DoDownloadEffect, FreshCall DEF OneStarts, OneDownload, OneUpgrade, Others
<1>14. ASSUME NEW s \in Slots, GetStepAfterInit(s) PROVE OneStarts'
  <2>1. /\ calls[s].pc = "mode" /\ calls'[s].pc = "idle" /\ UNCHANGED <<recent, unseen, crossed>>
        /\ UNCHANGED starts.download /\ \A u \in Slots \ {s} : calls'[u].pc = calls[u].pc
    BY <1>1, <1>14, GetStepAfterInitEffect, FreshCall DEF Others
  <2>2. CASE UNCHANGED <<db, starts>>
    BY <1>1, <2>1, <2>2 DEF OneStarts, OneDownload, OneUpgrade
  <2>3. CASE UNCHANGED db /\ starts'.upgrade = starts.upgrade + 1
    BY <1>1, <1>2, <2>1, <2>3 DEF OneStarts, OneDownload, OneUpgrade
  <2>4. CASE db.status = "DOWNLOAD_SUCCESS" /\ UNCHANGED starts
    BY <1>1, <2>1, <2>4 DEF OneStarts, OneDownload, OneUpgrade
  <2>5. QED BY <1>1, <1>14, <2>2, <2>3, <2>4, GetStepAfterInitEffect
<1>15. ASSUME NEW s \in Slots, DoCancel(s) PROVE OneStarts'
  BY <1>1, <1>2, <1>15, DoCancelEffect, FreshCall DEF OneStarts, OneDownload, OneUpgrade, Others
<1>16. ASSUME NEW s \in Slots, ClearError(s) PROVE OneStarts'
  <2>1. /\ calls[s].pc = "entered" /\ calls'[s].pc = "idle" /\ UNCHANGED <<starts, recent, unseen, crossed>>
        /\ \A u \in Slots \ {s} : calls'[u].pc = calls[u].pc
        /\ UNCHANGED db \/ db.status = "INSTALL_FAIL"
    BY <1>1, <1>16, ClearErrorEffect, FreshCall DEF Others
  <2>2. QED BY <1>1, <2>1 DEF OneStarts, OneDownload, OneUpgrade
<1>17. ASSUME NEW t \in threads, NEW found, CheckAnswers(t, found) PROVE OneStarts'
  <2>1. UNCHANGED <<starts, recent, unseen>> /\ (crossed => crossed') /\ \A u \in Slots : calls'[u].pc = calls[u].pc
    BY <1>1, <1>17, CheckAnswersEffect DEF Tears
  <2>2. UNCHANGED db \/ ~HasUndoneTask
    BY <1>1, <1>17, CheckAnswersEffect
  <2>3. QED BY <1>4, <2>1, <2>2 DEF HasUndoneTask
<1>18. ASSUME NEW t \in threads, InsertComponents(t) PROVE OneStarts'
  BY <1>1, <1>4, <1>18, InsertComponentsEffect DEF Tears
<1>19. ASSUME NEW t \in threads, InsertTask(t) PROVE OneStarts'
  <2>1. /\ UNCHANGED <<starts, recent, unseen, crossed>> /\ \A u \in Slots : calls'[u].pc = calls[u].pc
        /\ t.pc = "insertTask"
    BY <1>1, <1>19, InsertTaskEffect DEF Tears
  <2>2. ~crossed => db.status = "INIT"
    BY <1>1, <2>1 DEF TablesAgree, Fills
  <2>3. QED BY <1>4, <2>1, <2>2
<1>20. ASSUME NEW t \in threads, OnCheckComplete(t) PROVE OneStarts'
  <2>1. UNCHANGED <<starts, db, recent, unseen, crossed>> /\ \A u \in Slots : calls'[u].pc = calls[u].pc
    BY <1>1, <1>20, OnCheckCompleteEffect
  <2>2. QED BY <1>4, <2>1
<1>21. CASE FlowMoves
  <2>1. UNCHANGED <<calls, recent, crossed>> /\ (unseen => unseen')
    BY <1>1, <1>21, FlowMovesEffect
  <2>2. CASE /\ starts.download > 0 /\ db.status = "CHECK_VERSION_SUCCESS"
             /\ db'.status = "DOWNLOADING" /\ starts' = starts
    BY <1>1, <2>1, <2>2 DEF OneStarts, OneDownload, OneUpgrade
  <2>3. CASE /\ db.status = "DOWNLOADING" /\ starts.download > 0
             /\ starts'.download = starts.download - 1 /\ starts'.upgrade = starts.upgrade
    <3>1. ~unseen /\ ~crossed => starts'.download = 0
      BY <1>1, <1>2, <2>3 DEF OneStarts, OneDownload
    <3>2. QED BY <1>1, <2>1, <2>3, <3>1 DEF OneStarts, OneDownload, OneUpgrade
  <2>4. CASE /\ starts.upgrade > 0 /\ db.status # "INSTALLING" /\ db'.status = "INSTALLING" /\ starts' = starts
             /\ (starts.download > 0 => unseen')
    BY <1>1, <2>1, <2>4 DEF OneStarts, OneDownload, OneUpgrade
  <2>5. CASE /\ db.status = "INSTALLING" /\ starts.upgrade > 0
             /\ starts'.upgrade = starts.upgrade - 1 /\ starts'.download = starts.download
    <3>1. ~unseen /\ ~crossed => starts'.upgrade = 0
      BY <1>1, <1>2, <2>5 DEF OneStarts, OneUpgrade
    <3>2. QED BY <1>1, <2>1, <2>5, <3>1 DEF OneStarts, OneDownload, OneUpgrade
  <2>6. QED BY <1>1, <2>2, <2>3, <2>4, <2>5, <1>21, FlowMovesEffect
<1>22. ASSUME NEW what, SecondPasses(what) PROVE OneStarts'
  BY <1>1, <1>22, SecondPassesEffect DEF OneStarts, OneDownload, OneUpgrade
<1>23. CASE StandsBy
  BY <1>4, <1>23 DEF StandsBy
<1>24. QED BY <1>1, StandByEffect, DismissEffect, ProceedEffect, <1>5, <1>6, <1>7, <1>8, <1>9, <1>10, <1>11,
    <1>12, <1>13, <1>14, <1>15, <1>16, <1>17, <1>18, <1>19, <1>20, <1>21, <1>22, <1>23 DEF Next, Handles,
    CheckThread, Environment

(* The service starts in a state of the invariant.                         *)
LEMMA ServiceInvInit == Init => ServiceInv
<1> SUFFICES ASSUME Init PROVE ServiceInv
  OBVIOUS
<1>1. calls = [s \in Slots |-> NoCall] /\ made = 0 /\ threads = {} /\ updateImpMap = {}
  BY DEF Init
<1>2. \A s \in Slots : calls[s] = NoCall
  BY <1>1
<1>3. CallTypes
  BY <1>1, <1>2, FreshCall DEF CallTypes
<1>4. ServiceTypes
  <2>1. /\ stage = "load" /\ tries = 0 /\ loaded = FALSE /\ hooked = {} /\ recent = {} /\ keys = "present"
    BY DEF Init
  <2>2. tries \in 0 .. dlopenTries /\ tries < dlopenTries
    BY <2>1 DEF dlopenTries
  <2>3. hooked \subseteq Hookable /\ recent \subseteq {"download", "upgrade"} /\ (hooked # {} => loaded)
    BY <2>1
  <2>4. loaded \in BOOLEAN /\ (stage = "load" => loaded = FALSE)
    BY <2>1
  <2>5. QED BY <2>1, <2>2, <2>3, <2>4 DEF ServiceTypes
<1>5. CheckTypes
  BY DEF Init, CheckTypes
<1>6. RowTypes
  <2>1. /\ db \in [task : {1}, comps : {1},
                    status : {"CHECK_VERSION_SUCCESS"} \cup
                               IF build = "STREAM_INSTALLER" THEN {} ELSE {"DOWNLOAD_SUCCESS"}]
        /\ starts = [download |-> 0, upgrade |-> 0] /\ unseen = FALSE /\ crossed = FALSE
    BY DEF Init
  <2>2. db \in [task : Nat, comps : Nat, status : Statuses]
    BY <2>1 DEF Statuses
  <2>3. starts \in [download : Nat, upgrade : Nat]
    BY <2>1
  <2>4. QED BY <2>1, <2>2, <2>3 DEF RowTypes
<1>7. CallsFit /\ CallsAreChecked /\ IdsDiffer
  BY <1>1, <1>2, FreshCall DEF CallsFit, Serving, CallsAreChecked, IdsDiffer
<1>8. OneWaits /\ ThreadIsAwaited /\ AnswerRaisesFlag /\ LeavesWithAnswer
  BY <1>1, <1>2, FreshCall DEF OneWaits, Waits, ThreadIsAwaited, AnswerRaisesFlag, LeavesWithAnswer
<1>9. FlagIsOwn
  BY DEF Init, FlagIsOwn
<1>10. TablesAgree
  BY DEF Init, TablesAgree
<1>11. ReadIsCurrent /\ OneStarts
  <2>1. starts.download = 0 /\ starts.upgrade = 0
    BY DEF Init
  <2>2. QED BY <1>2, <2>1, FreshCall DEF ReadIsCurrent, OneStarts, OneDownload, OneUpgrade, Downloads, Upgrades
<1>12. OwnAnswer /\ VersionInfoIsWhole
  BY <1>2, FreshCall DEF OwnAnswer, VersionInfoIsWhole, At
<1>13. NoDeadFrame /\ KeysGoneIsTold
  BY DEF Init, NoDeadFrame, KeysGoneIsTold
<1>14. QED BY <1>3, <1>4, <1>5, <1>6, <1>7, <1>8, <1>9, <1>10, <1>11, <1>12, <1>13 DEF ServiceInv

(* A step that changes nothing keeps it.                                   *)
LEMMA ServiceInvStutters == ASSUME ServiceInv, UNCHANGED vars PROVE ServiceInv'
<1>1. UNCHANGED <<build, stage, tries, loaded, hooked, unlocked, mdm, calls, made, updateImpMap, checkComplete,
                  checking, threads, db, recent, starts, keys, reboot,
                  overlap, timedOut, smashed, unseen, crossed, told>>
  BY DEF vars, procVars, envVars, chkVars, devVars, history
<1>2. (CallTypes /\ ServiceTypes /\ CheckTypes /\ RowTypes)'
  BY <1>1 DEF ServiceInv, CallTypes, IsCall, ServiceTypes, CheckTypes, RowTypes
<1>3. (CallsFit /\ CallsAreChecked /\ IdsDiffer)'
  BY <1>1 DEF ServiceInv, CallsFit, CallsAreChecked, Checked, IsPermissionGranted, IdsDiffer
<1>4. (OneWaits /\ FlagIsOwn /\ ThreadIsAwaited /\ AnswerRaisesFlag /\ LeavesWithAnswer)'
  BY <1>1 DEF ServiceInv, OneWaits, FlagIsOwn, ThreadIsAwaited, AnswerRaisesFlag, LeavesWithAnswer, Waits, Quiet
<1>5. (TablesAgree /\ ReadIsCurrent /\ OneStarts)'
  BY <1>1 DEF ServiceInv, TablesAgree, Fills, ReadIsCurrent, OneStarts, OneDownload, OneUpgrade, Downloads,
       Upgrades
<1>6. (OwnAnswer /\ NoDeadFrame /\ VersionInfoIsWhole /\ KeysGoneIsTold)'
  BY <1>1 DEF ServiceInv, OwnAnswer, NoDeadFrame, VersionInfoIsWhole, KeysGoneIsTold, At
<1>7. QED BY <1>2, <1>3, <1>4, <1>5, <1>6 DEF ServiceInv

(* Every step of the service keeps the invariant.                          *)
LEMMA ServiceInvStep == ServiceInv /\ [Next]_vars => ServiceInv'
<1>1. ASSUME ServiceInv, Next PROVE ServiceInv'
  <2>1. CallTypes' /\ ServiceTypes' /\ CheckTypes' /\ RowTypes'
    BY <1>1, CallTypesStep, ServiceTypesStep, CheckTypesStep, RowTypesStep
  <2>2. CallsFit' /\ CallsAreChecked' /\ IdsDiffer'
    BY <1>1, <2>1, CallsFitStep, CallsAreCheckedStep, IdsDifferStep
  <2>3. OneWaits' /\ FlagIsOwn' /\ ThreadIsAwaited' /\ AnswerRaisesFlag' /\ LeavesWithAnswer'
    BY <1>1, <2>1, OneWaitsStep, FlagIsOwnStep, ThreadIsAwaitedStep, AnswerRaisesFlagStep, LeavesWithAnswerStep
  <2>4. TablesAgree' /\ ReadIsCurrent' /\ OneStarts'
    BY <1>1, <2>1, TablesAgreeStep, ReadIsCurrentStep, OneStartsStep
  <2>5. OwnAnswer' /\ NoDeadFrame' /\ VersionInfoIsWhole' /\ KeysGoneIsTold'
    BY <1>1, <2>1, OwnAnswerStep, NoDeadFrameStep, VersionInfoIsWholeStep, KeysGoneIsToldStep
  <2>6. QED BY <2>1, <2>2, <2>3, <2>4, <2>5 DEF ServiceInv
<1>2. QED BY <1>1, ServiceInvStutters

(* The invariant holds throughout.                                         *)
LEMMA ServiceInvHolds == Spec => []ServiceInv
BY ServiceInvInit, ServiceInvStep, PTL DEF Spec

-----------------------------------------------------------------------------
(* Whatever the extension hooks and whenever: what the stub let pass       *)
(* unchecked for the extension never reaches a handler of the service, and *)
(* every handler runs for a caller that was checked when it came in.       *)
THEOREM CallersAreChecked == Spec => []NothingRunsUnchecked
<1>1. ServiceInv => NothingRunsUnchecked
  <2> SUFFICES ASSUME ServiceInv, NEW s \in Slots, Dispatched(s) \/ calls[s].pc \notin {"idle", "entered", "done"}
               PROVE  Checked(s)
    BY DEF NothingRunsUnchecked, Checked
  <2>1. calls[s].pc \notin {"idle", "done"} /\ ~(calls[s].pc = "entered" /\ loaded /\ calls[s].code \in hooked)
    BY DEF Dispatched, At, CallbackParcel, IsMapFuncExist
  <2>2. QED BY <2>1 DEF ServiceInv, CallsAreChecked
<1>2. QED BY <1>1, ServiceInvHolds, PTL

(* A check answers its own caller, and only while that caller waits, for   *)
(* any number of clients and calls, as long as no check of its updater     *)
(* overlapped another or timed out.                                        *)
THEOREM ChecksAnswerTheirCaller == Spec => []CheckInv
<1>1. ServiceInv => CheckInv
  <2> SUFFICES ASSUME ServiceInv PROVE CheckInv
    OBVIOUS
  <2>1. \A t \in threads : t.info \in updateImpMap /\ t.id \in 1 .. made
    BY DEF ServiceInv, CheckTypes
  <2>2. \A s \in Slots :
          /\ calls[s].pc \in {"idle", "entered", "erased", "done"} \cup Serving
          /\ calls[s].pc \in Serving => calls[s].info \in updateImpMap
    BY DEF ServiceInv, CallTypes, Pcs, CallsFit, Serving
  <2>3. TypeOK
    BY <2>1, <2>2 DEF ServiceInv, ServiceTypes, CheckTypes, TypeOK
  <2>4. QED BY <2>3 DEF ServiceInv, CheckInv
<1>2. QED BY <1>1, ServiceInvHolds, PTL

(* What a handler reads of the task holds for what it then does: one start *)
(* for any number of calls, and one version in one answer, with the        *)
(* exceptions the two definitions name.                                    *)
THEOREM ReadsHoldForTheAnswer == Spec => []StatusReadsHold
<1>1. ServiceInv => StatusReadsHold
  <2> SUFFICES ASSUME ServiceInv PROVE StatusReadsHold
    OBVIOUS
  <2>1. starts.download \in Nat /\ starts.upgrade \in Nat
    BY DEF ServiceInv, RowTypes
  <2>2. OneStart
    BY <2>1 DEF ServiceInv, OneStarts, OneDownload, OneUpgrade, OneStart
  <2>3. QED BY <2>2 DEF ServiceInv, StatusReadsHold
<1>2. QED BY <1>1, ServiceInvHolds, PTL

(* A device that runs on without its keys has a reset under way, or a      *)
(* caller who was told that it failed.                                     *)
THEOREM ErasedKeysAreTold == Spec => []KeysGoneIsTold
<1>1. ServiceInv => KeysGoneIsTold
  BY DEF ServiceInv
<1>2. QED BY <1>1, ServiceInvHolds, PTL

=============================================================================
