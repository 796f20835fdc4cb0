--------------------------- MODULE JsCalls_proofs ---------------------------
(***************************************************************************)
(* Proofs about JsCalls, for any number of calls of any of the methods, in *)
(* any interleaving of the JavaScript thread and the workers.              *)
(***************************************************************************)
EXTENDS JsCalls, TLAPS

(***************************************************************************)
(* The inductive invariant.                                                *)
(***************************************************************************)
Phases == {"idle", "refused", "queued", "reading", "running", "storing", "ran", "answered"}
SentValues == UNION {[D -> Values] : D \in SUBSET Members}

CallRecord ==
    [phase : Phases, method : Methods, style : {None, "callback", "promise", "ani"},
     omitted : SUBSET Members, sent : SentValues, raced : BOOLEAN, error : BOOLEAN, answer : Values]

CallTypes ==
    /\ member \in [Members -> Values]
    /\ call \in [Calls -> CallRecord]
    /\ sessions \subseteq Calls /\ works \subseteq Calls /\ refs \subseteq Calls
    /\ overlapped \subseteq Calls /\ unfinished \subseteq Calls

(* Two live calls that share a member both count as overlapped.            *)
SharingIsOverlap ==
    \A c, d \in Calls :
        (c # d /\ Live(c) /\ Live(d) /\ Uses(call[c].method) \cap Uses(call[d].method) # {})
            => c \in overlapped

(* Only a napi call uses the members, and the call of a binding without    *)
(* members is never at one of the steps that use them.                     *)
MemberStepsAreNapi ==
    \A c \in Calls :
        /\ call[c].phase \in {"queued", "reading", "storing", "ran"} => call[c].style # "ani"
        /\ call[c].phase = "storing" => StoredIn(call[c].method) # None

(* Until the request is sent the members hold what the call's own parse    *)
(* wrote, and between the answer and its delivery the member the worker    *)
(* stored into holds that answer.                                          *)
MembersAreOwn ==
    \A c \in Calls \ overlapped :
        /\ call[c].phase \in {"queued", "reading"} =>
              \A p \in Range(call[c].method.parse) \ call[c].omitted : member[p] = c
        /\ call[c].phase = "ran" /\ ~call[c].error /\ StoredIn(call[c].method) # None
              => member[StoredIn(call[c].method)] = c

(* A race needs a second call that shares the member.                      *)
RaceIsOverlap == \A c \in Calls : call[c].raced => c \in overlapped

CallInv ==
    /\ CallTypes /\ SharingIsOverlap /\ MemberStepsAreNapi /\ MembersAreOwn /\ RaceIsOverlap
    /\ OwnArguments /\ OwnAnswer /\ ResourcesFollowSessions

-----------------------------------------------------------------------------
(* The methods                                                             *)

(* The answer is built from the member the worker stored it in, for every  *)
(* method of the three native objects.                                     *)
LEMMA AnswerMember == ASSUME NEW m \in Methods PROVE GetUpdateResult(m) = StoredIn(m)
<1> USE DEF GetUpdateResult, StoredIn, Method
<1> USE DEF CheckNewVersion, GetUpgradePolicy, GetNewVersionInfo, GetNewVersionDescription,
            GetCurrentVersionInfo, GetCurrentVersionDescription, GetTaskInfo, GetDeepFactoryResetInfo
<1>1. CASE m \in ClientMethods
  <2>1. m.object = "client" /\ m # GetDeepFactoryResetInfo
    BY <1>1 DEF ClientMethods, CancelUpgrade, Download, PauseDownload, ResumeDownload, Upgrade, ClearError,
                TerminateUpgrade, SetUpgradePolicy
  <2>2. QED BY <2>1
<1>2. CASE m \in RestorerMethods
  BY <1>2 DEF RestorerMethods, FactoryReset, ForceFactoryReset, DeepFactoryReset
<1>3. CASE m \in LocalMethods
  BY <1>3 DEF LocalMethods, VerifyUpgradePackage, ApplyNewVersion
<1>4. QED BY <1>1, <1>2, <1>3 DEF Methods

(* The members of a method are members of its object.                      *)
LEMMA UsesAreMembers ==
    ASSUME NEW m \in Methods
    PROVE  /\ Uses(m) \subseteq Members
           /\ Range(m.parse) \subseteq Uses(m)
           /\ StoredIn(m) # None => StoredIn(m) \in Uses(m)
BY DEF Members, Uses

(* The parse writes argument members only.                                 *)
LEMMA WrittenAreArguments ==
    ASSUME NEW m, NEW omitted, NEW bad
    PROVE  WrittenBy(m, omitted, bad) \subseteq Range(m.parse)
BY DEF WrittenBy, Range

(* The index of every argument is within the list of the method.           *)
LEMMA ParseIndices ==
    ASSUME NEW m \in Methods
    PROVE  \A i \in DOMAIN m.parse : i < Len(m.parse) + 1
<1> DEFINE Within(s) == \A i \in DOMAIN s : i < Len(s) + 1
<1>1. Within(<<>>) /\ (\A p : Within(<<p>>)) /\ (\A p, q : Within(<<p, q>>))
  OBVIOUS
<1>2. CASE m \in ClientMethods
  <2>1. CASE m \in {Download, PauseDownload, ResumeDownload, Upgrade, ClearError, GetNewVersionDescription}
    <3>1. \E q : m.parse = <<"versionDigestInfo", q>>
      BY <2>1 DEF Download, PauseDownload, ResumeDownload, Upgrade, ClearError, GetNewVersionDescription, Method
    <3>2. QED BY <1>1, <3>1
  <2>2. CASE m \in {SetUpgradePolicy, GetCurrentVersionDescription}
    <3>1. \E p : m.parse = <<p>>
      BY <2>2 DEF SetUpgradePolicy, GetCurrentVersionDescription, Method
    <3>2. QED BY <1>1, <3>1
  <2>3. CASE m \in {CheckNewVersion, CancelUpgrade, TerminateUpgrade, GetUpgradePolicy, GetNewVersionInfo,
                    GetCurrentVersionInfo, GetTaskInfo}
    <3>1. m.parse = <<>>
      BY <2>3 DEF CheckNewVersion, CancelUpgrade, TerminateUpgrade, GetUpgradePolicy, GetNewVersionInfo,
                  GetCurrentVersionInfo, GetTaskInfo, Method
    <3>2. QED BY <1>1, <3>1
  <2>4. QED BY <1>2, <2>1, <2>2, <2>3 DEF ClientMethods
<1>3. CASE m \in RestorerMethods \cup LocalMethods
  <2>1. m.parse = <<>> \/ \E p : m.parse = <<p>>
    BY <1>3 DEF RestorerMethods, LocalMethods, FactoryReset, ForceFactoryReset, DeepFactoryReset,
                GetDeepFactoryResetInfo, VerifyUpgradePackage, ApplyNewVersion, Method
  <2>2. QED BY <1>1, <2>1
<1>4. QED BY <1>2, <1>3 DEF Methods

(* All that was supplied is written when no argument is refused.           *)
LEMMA SuppliedAreWritten ==
    ASSUME NEW m \in Methods, NEW omitted
    PROVE  WrittenBy(m, omitted, None) = Range(m.parse) \ omitted
BY ParseIndices DEF WrittenBy, Range

(* The methods of the local updater keep nothing in members.               *)
LEMMA LocalHasNoMember ==
    ASSUME NEW m \in LocalMethods PROVE m \in Methods /\ Range(m.parse) = {}
BY DEF LocalMethods, Methods, VerifyUpgradePackage, ApplyNewVersion, Method, Range

(* A race marks the workers that are at a member the write touches, and    *)
(* changes nothing else of any call.                                       *)
LEMMA RacingEffect ==
    ASSUME NEW written, NEW next \in [Calls -> CallRecord], NEW raced, raced = Racing(written, next)
    PROVE  /\ raced \in [Calls -> CallRecord]
           /\ \A d \in Calls :
                /\ raced[d] = [next[d] EXCEPT !.raced = raced[d].raced]
                /\ raced[d].raced =>
                     \/ next[d].raced
                     \/ next[d].phase = "reading" /\ Range(next[d].method.parse) \cap written # {}
                     \/ next[d].phase = "storing" /\ StoredIn(next[d].method) \in written
<1>1. \A d \in Calls : next[d] \in CallRecord
  OBVIOUS
<1>2. \A r \in CallRecord : [r EXCEPT !.raced = TRUE] \in CallRecord /\ [r EXCEPT !.raced = r.raced] = r
                            /\ [r EXCEPT !.raced = TRUE].raced = TRUE
  BY DEF CallRecord
<1> HIDE DEF CallRecord
<1>3. QED BY <1>1, <1>2 DEF Racing
-----------------------------------------------------------------------------
(* The steps                                                               *)

(* The record of a call that was not made yet, and of one that was refused. *)
LEMMA IdleRecord ==
    /\ Idle \in CallRecord /\ Idle.phase = "idle" /\ Idle.raced = FALSE /\ Idle.error = FALSE
    /\ DOMAIN Idle.sent = {}
    /\ Refused \in CallRecord /\ Refused.phase = "refused" /\ Refused.raced = FALSE
    /\ Refused.sent = Idle.sent
<1>1. CheckNewVersion \in Methods
  BY DEF Methods, ClientMethods
<1>2. [p \in {} |-> 0] \in SentValues
  BY DEF SentValues
<1>3. Idle \in CallRecord /\ Idle.phase = "idle" /\ Idle.raced = FALSE /\ Idle.error = FALSE
  BY <1>1, <1>2 DEF Idle, CallRecord, Phases, Values
<1>4. DOMAIN Idle.sent = {}
  BY DEF Idle
<1>5. Refused \in CallRecord /\ Refused.phase = "refused" /\ Refused.raced = FALSE /\ Refused.sent = Idle.sent
  BY <1>3 DEF Refused, CallRecord, Phases
<1>6. QED BY <1>3, <1>4, <1>5

(* No call was made.                                                       *)
LEMMA CallInit == Init => CallInv
<1> SUFFICES ASSUME Init PROVE CallInv
  OBVIOUS
<1>1. Idle \in CallRecord
  BY IdleRecord
<1>2. CallTypes
  BY <1>1 DEF Init, CallTypes, Values
<1>3. \A c \in Calls : call[c] = Idle /\ ~Live(c)
  BY DEF Init, Live, Idle
<1>4. QED
  BY <1>2, <1>3 DEF Init, CallInv, SharingIsOverlap, MemberStepsAreNapi, MembersAreOwn, RaceIsOverlap,
     OwnArguments, OwnAnswer, ResourcesFollowSessions, Idle

(* Whether or not the work can be queued, the session, the work and the    *)
(* reference of the new call are together or their leftover is on record.  *)
LEMMA StartEffect ==
    ASSUME CallTypes, ResourcesFollowSessions, NEW c \in Calls, NEW style, NEW ok, StartSession(c, style, ok)
    PROVE  /\ sessions' \in {sessions, sessions \cup {c}}
           /\ works' \subseteq Calls /\ refs' \subseteq Calls /\ unfinished' \subseteq Calls
           /\ sessions' \subseteq works'
           /\ (works' \cup refs') \ sessions' \subseteq unfinished'
BY DEF StartSession, AsyncStartWork, PromiseStartWork, StartWorkFails, CallTypes, ResourcesFollowSessions

(* The arrival of a call, refused or queued: it writes only members its    *)
(* method uses, and every live call it shares one with is overlapped.      *)
Arrival(c, m) ==
    /\ call[c].phase = "idle"
    /\ member' \in [Members -> Values]
    /\ \A p \in Members \ Uses(m) : member'[p] = member[p]
    /\ call' \in [Calls -> CallRecord]
    /\ \A d \in Calls \ {c} :
         /\ call'[d] = [call[d] EXCEPT !.raced = call'[d].raced]
         /\ call'[d].raced => call[d].raced \/ (Live(d) /\ Share(d, m))
    /\ ~call'[c].raced /\ call'[c].sent = Idle.sent
    /\ \/ call'[c].phase = "refused" /\ sessions' = sessions
       \/ /\ call'[c].phase = "queued" /\ sessions' = sessions \cup {c}
          /\ call'[c].method = m
          /\ call'[c].style # "ani"
          /\ \A p \in Range(m.parse) \ call'[c].omitted : member'[p] = c
    /\ works' \subseteq Calls /\ refs' \subseteq Calls /\ unfinished' \subseteq Calls
    /\ sessions' \subseteq works'
    /\ (works' \cup refs') \ sessions' \subseteq unfinished'
    /\ Overlap(c, m)

(* A call may arrive at any time: what it disturbs is overlapped.          *)
LEMMA ArrivalStep ==
    ASSUME CallInv, NEW c \in Calls, NEW m \in Methods, Arrival(c, m)
    PROVE  CallInv'
<1> USE DEF CallInv
<1>1. /\ overlapped \subseteq overlapped' /\ overlapped' \subseteq Calls
      /\ \A d \in Calls : Live(d) /\ Share(d, m) => d \in overlapped' /\ c \in overlapped'
  BY DEF Arrival, Overlap, CallTypes
<1>2. CallTypes'
  BY <1>1 DEF Arrival, CallTypes
<1>3. \A d \in Calls : call[d] \in CallRecord /\ call'[d] \in CallRecord
  BY DEF Arrival, CallTypes
<1>4. \A d \in Calls \ {c} :
        /\ call'[d].phase = call[d].phase /\ call'[d].method = call[d].method
        /\ call'[d].style = call[d].style /\ call'[d].omitted = call[d].omitted
        /\ call'[d].sent = call[d].sent /\ call'[d].error = call[d].error
        /\ call'[d].answer = call[d].answer
  BY <1>3 DEF Arrival, CallRecord
<1>5. \A d \in Calls \ {c} : Live(d)' <=> Live(d)
  BY <1>4 DEF Live
<1>6. /\ ~Live(c)
      /\ Live(c)' => call'[c].method = m
      /\ Live(c)' <=> c \in sessions'
  <2>1. ~Live(c)
    BY DEF Arrival, Live
  <2>2. c \notin sessions
    BY <2>1 DEF ResourcesFollowSessions
  <2>3. QED BY <2>1, <2>2 DEF Arrival, Live
<1>7. SharingIsOverlap'
  BY <1>1, <1>4, <1>5, <1>6 DEF SharingIsOverlap, Share
<1>8. MemberStepsAreNapi'
  BY <1>4 DEF MemberStepsAreNapi, Arrival
<1>9. RaceIsOverlap'
  BY <1>1 DEF RaceIsOverlap, Arrival
<1>10. MembersAreOwn'
  <2> SUFFICES ASSUME NEW d \in Calls, d \notin overlapped'
               PROVE  /\ call'[d].phase \in {"queued", "reading"} =>
                          \A p \in Range(call'[d].method.parse) \ call'[d].omitted : member'[p] = d
                      /\ call'[d].phase = "ran" /\ ~call'[d].error /\ StoredIn(call'[d].method) # None
                          => member'[StoredIn(call'[d].method)] = d
    BY DEF MembersAreOwn
  <2>1. CASE d = c
    BY <2>1 DEF Arrival
  <2>2. CASE d # c
    <3>1. d \notin overlapped
      BY <1>1
    <3>2. call[d].method \in Methods
      BY <1>3 DEF CallRecord
    <3>3. call[d].phase \in {"queued", "reading", "ran"} => Live(d)
      BY DEF Live, MemberStepsAreNapi
    <3>4. Live(d) => Uses(call[d].method) \cap Uses(m) = {}
      BY <1>1 DEF Share
    <3>5. Live(d) => \A p \in Uses(call[d].method) : member'[p] = member[p]
      BY <3>2, <3>4, UsesAreMembers DEF Arrival
    <3>6. QED BY <1>4, <2>2, <3>1, <3>2, <3>3, <3>5, UsesAreMembers DEF MembersAreOwn
  <2>3. QED BY <2>1, <2>2
<1>11. OwnArguments'
  BY <1>1, <1>4, IdleRecord DEF OwnArguments, Arrival
<1>12. OwnAnswer'
  BY <1>1, <1>4 DEF OwnAnswer, Arrival
<1>13. ResourcesFollowSessions'
  <2>1. sessions' = {d \in Calls : Live(d)'}
    BY <1>5, <1>6 DEF Arrival, ResourcesFollowSessions
  <2>2. QED BY <2>1 DEF Arrival, ResourcesFollowSessions
<1>14. QED BY <1>2, <1>7, <1>8, <1>9, <1>10, <1>11, <1>12, <1>13

(* A parse writes the number of the call into members of its method.       *)
LEMMA ParseEffect ==
    ASSUME CallTypes, NEW c \in Calls, NEW m \in Methods, NEW omitted, NEW bad,
           bad \in Range(m.parse) \cup {None}, ParseUpgOptions(c, m, omitted, bad)
    PROVE  /\ member' \in [Members -> Values]
           /\ \A p \in Members \ Uses(m) : member'[p] = member[p]
           /\ \A p \in WrittenBy(m, omitted, bad) : member'[p] = c
<1>1. PICK partly \in BOOLEAN :
         /\ member' = [p \in Members |->
                         IF p \in WrittenBy(m, omitted, bad) \/ (partly /\ p = bad) THEN c ELSE member[p]]
         /\ (bad = None => ~partly)
  BY DEF ParseUpgOptions, WrittenByField, None
<1>2. WrittenBy(m, omitted, bad) \subseteq Range(m.parse) /\ Range(m.parse) \subseteq Uses(m)
      /\ Uses(m) \subseteq Members
  BY WrittenAreArguments, UsesAreMembers
<1>3. c \in Values
  BY DEF Values
<1>4. member' \in [Members -> Values]
  BY <1>1, <1>3 DEF CallTypes
<1>5. QED BY <1>1, <1>2, <1>4

(* The members that the new call's parse touches mark the workers that are *)
(* at them, and these are live calls that share a member with it.          *)
LEMMA ArrivalRaces ==
    ASSUME CallInv, NEW c \in Calls, NEW m \in Methods, NEW written \in SUBSET Range(m.parse),
           NEW r \in CallRecord, r.phase \in {"refused", "queued"}, ~r.raced,
           call' = Racing(written, [call EXCEPT ![c] = r])
    PROVE  /\ call' \in [Calls -> CallRecord]
           /\ call'[c] = r
           /\ \A d \in Calls \ {c} :
                /\ call'[d] = [call[d] EXCEPT !.raced = call'[d].raced]
                /\ call'[d].raced => call[d].raced \/ (Live(d) /\ Share(d, m))
<1> DEFINE next == [call EXCEPT ![c] = r]
<1>1. next \in [Calls -> CallRecord] /\ next[c] = r /\ \A d \in Calls \ {c} : next[d] = call[d]
  BY DEF CallInv, CallTypes
<1>0. call' = Racing(written, next)
  OBVIOUS
<1> HIDE DEF next
<1>2. /\ call' \in [Calls -> CallRecord]
      /\ \A d \in Calls :
           /\ call'[d] = [next[d] EXCEPT !.raced = call'[d].raced]
           /\ call'[d].raced =>
                \/ next[d].raced
                \/ next[d].phase = "reading" /\ Range(next[d].method.parse) \cap written # {}
                \/ next[d].phase = "storing" /\ StoredIn(next[d].method) \in written
  BY <1>0, <1>1, RacingEffect
<1>3. call'[c] = r
  <2>1. call'[c] = [r EXCEPT !.raced = call'[c].raced] /\ call'[c].raced = FALSE
    BY <1>1, <1>2 DEF CallRecord
  <2>2. [r EXCEPT !.raced = FALSE] = r
    BY DEF CallRecord
  <2>3. QED BY <2>1, <2>2
<1>4. ASSUME NEW d \in Calls \ {c}, call'[d].raced, ~call[d].raced PROVE Live(d) /\ Share(d, m)
  <2>1. call[d].method \in Methods /\ next[d] = call[d]
    BY <1>1 DEF CallInv, CallTypes, CallRecord
  <2>2. \/ call[d].phase = "reading" /\ Range(call[d].method.parse) \cap written # {}
        \/ call[d].phase = "storing" /\ StoredIn(call[d].method) \in written
    BY <1>2, <1>4, <2>1
  <2>3. Live(d)
    BY <2>2 DEF Live, CallInv, MemberStepsAreNapi
  <2>4. Uses(call[d].method) \cap Uses(m) # {}
    BY <2>1, <2>2, UsesAreMembers DEF CallInv, MemberStepsAreNapi
  <2>5. QED BY <2>3, <2>4 DEF Share
<1>5. QED BY <1>1, <1>2, <1>3, <1>4

(* The records of a call that was accepted: with its arguments, and by the *)
(* local updater in spite of a bad one.                                    *)
Accepted(m, style, omitted) ==
    [Idle EXCEPT !.phase = "queued", !.method = m, !.style = style, !.omitted = omitted]
AcceptedBad(m, style) ==
    [Idle EXCEPT !.phase = "queued", !.method = m, !.style = style, !.error = TRUE]

(* Both are records of a queued call of the method that has sent nothing.  *)
LEMMA AcceptedRecord ==
    ASSUME NEW m \in Methods, NEW style \in {"callback", "promise"}, NEW omitted \in SUBSET Members,
           NEW r, r = Accepted(m, style, omitted)
    PROVE  /\ r \in CallRecord /\ r.phase = "queued" /\ ~r.raced /\ r.sent = Idle.sent
           /\ r.method = m /\ r.style = style /\ r.omitted = omitted
BY IdleRecord DEF Accepted, CallRecord, Phases

(* The second has its error set.                                           *)
LEMMA AcceptedBadRecord ==
    ASSUME NEW m \in Methods, NEW style \in {"callback", "promise"}, NEW r, r = AcceptedBad(m, style)
    PROVE  /\ r \in CallRecord /\ r.phase = "queued" /\ ~r.raced /\ r.sent = Idle.sent
           /\ r.method = m /\ r.style = style
BY IdleRecord DEF AcceptedBad, CallRecord, Phases

(* A method call with valid arguments.                                     *)
LEMMA InvokeStep ==
    ASSUME CallInv, NEW c \in Calls, NEW m \in Methods, Invoke(c, m) PROVE CallInv'
<1>1. PICK argc \in {callbackStartIndex(m), m.position}, ok \in BOOLEAN,
           omitted \in SUBSET (Range(m.parse) \cap Optional) :
         /\ ParseUpgOptions(c, m, omitted, None)
         /\ StartSession(c, Style(m, argc), ok)
         /\ call' = Racing(WrittenBy(m, omitted, None), [call EXCEPT ![c] =
                      IF ~Queued(c) THEN Refused
                      ELSE [Idle EXCEPT !.phase = "queued", !.method = m,
                                        !.style = Style(m, argc), !.omitted = omitted]])
  BY DEF Invoke
<1> DEFINE accepted == Accepted(m, Style(m, argc), omitted)
           r == IF ~Queued(c) THEN Refused ELSE accepted
<1>2. Style(m, argc) \in {"callback", "promise"} /\ omitted \in SUBSET Members
  BY UsesAreMembers DEF Style
<1>3. call' = Racing(WrittenBy(m, omitted, None), [call EXCEPT ![c] = r])
  BY <1>1 DEF Accepted
<1>4. /\ accepted \in CallRecord /\ accepted.phase = "queued" /\ ~accepted.raced
      /\ accepted.sent = Idle.sent /\ accepted.method = m
      /\ accepted.style = Style(m, argc) /\ accepted.omitted = omitted
  <2>1. accepted = Accepted(m, Style(m, argc), omitted)
    OBVIOUS
  <2> HIDE DEF accepted
  <2>2. QED BY <1>2, <2>1, AcceptedRecord
<1>5. call[c].phase = "idle" /\ Overlap(c, m)
  BY DEF Invoke, NextCall
<1>6. c \notin sessions
  BY <1>5 DEF CallInv, ResourcesFollowSessions, Live
<1> HIDE DEF accepted
<1>7. /\ r \in CallRecord /\ r.phase \in {"refused", "queued"} /\ ~r.raced /\ r.sent = Idle.sent
  BY <1>4, IdleRecord
<1>8. /\ call' \in [Calls -> CallRecord]
      /\ call'[c] = r
      /\ \A d \in Calls \ {c} :
           /\ call'[d] = [call[d] EXCEPT !.raced = call'[d].raced]
           /\ call'[d].raced => call[d].raced \/ (Live(d) /\ Share(d, m))
  <2>1. WrittenBy(m, omitted, None) \in SUBSET Range(m.parse)
    BY WrittenAreArguments
  <2> HIDE DEF r
  <2>2. QED BY <1>3, <1>7, <2>1, ArrivalRaces
<1>9. /\ member' \in [Members -> Values]
      /\ \A p \in Members \ Uses(m) : member'[p] = member[p]
      /\ \A p \in Range(m.parse) \ omitted : member'[p] = c
  BY <1>1, ParseEffect, SuppliedAreWritten DEF CallInv
<1>10. /\ sessions' \in {sessions, sessions \cup {c}}
       /\ works' \subseteq Calls /\ refs' \subseteq Calls /\ unfinished' \subseteq Calls
       /\ sessions' \subseteq works'
       /\ (works' \cup refs') \ sessions' \subseteq unfinished'
  BY <1>1, StartEffect DEF CallInv
<1>11. Arrival(c, m)
  <2>1. CASE Queued(c)
    BY <1>2, <1>4, <1>5, <1>6, <1>7, <1>8, <1>9, <1>10, <2>1 DEF Arrival, Queued
  <2>2. CASE ~Queued(c)
    BY <1>5, <1>6, <1>7, <1>8, <1>9, <1>10, <2>2, IdleRecord DEF Arrival, Queued
  <2>3. QED BY <2>1, <2>2
<1>12. QED BY <1>11, ArrivalStep

(* A method call with a bad argument: refused after the members before it  *)
(* were written, or queued by the local updater to answer an error.        *)
LEMMA InvokeBadArgumentStep ==
    ASSUME CallInv, NEW c \in Calls, NEW m \in Methods, InvokeBadArgument(c, m) PROVE CallInv'
<1>1. call[c].phase = "idle" /\ Overlap(c, m)
  BY DEF InvokeBadArgument, NextCall
<1>2. c \notin sessions
  BY <1>1 DEF CallInv, ResourcesFollowSessions, Live
<1>3. ASSUME NEW bad \in Range(m.parse) \cap Validated, NEW omitted \in SUBSET (Range(m.parse) \cap Optional),
             ParseUpgOptions(c, m, omitted, bad),
             call' = Racing(WrittenBy(m, omitted, bad), [call EXCEPT ![c] = Refused]),
             UNCHANGED <<sessions, works, refs, unfinished>>
      PROVE  CallInv'
  <2>1. WrittenBy(m, omitted, bad) \in SUBSET Range(m.parse)
    BY WrittenAreArguments
  <2>2. Refused \in CallRecord /\ Refused.phase \in {"refused", "queued"} /\ ~Refused.raced
    BY IdleRecord
  <2>3. /\ call' \in [Calls -> CallRecord]
        /\ call'[c] = Refused
        /\ \A d \in Calls \ {c} :
             /\ call'[d] = [call[d] EXCEPT !.raced = call'[d].raced]
             /\ call'[d].raced => call[d].raced \/ (Live(d) /\ Share(d, m))
    BY <1>3, <2>1, <2>2, ArrivalRaces
  <2>4. /\ member' \in [Members -> Values]
        /\ \A p \in Members \ Uses(m) : member'[p] = member[p]
    BY <1>3, ParseEffect DEF CallInv
  <2>5. Arrival(c, m)
    BY <1>1, <1>3, <2>3, <2>4, IdleRecord DEF Arrival, CallInv, CallTypes, ResourcesFollowSessions
  <2>6. QED BY <2>5, ArrivalStep
<1>4. ASSUME m \in LocalMethods, NEW argc, NEW ok, StartSession(c, Style(m, argc), ok),
             call' = [call EXCEPT ![c] =
                        IF ~Queued(c) THEN Refused
                        ELSE [Idle EXCEPT !.phase = "queued", !.method = m,
                                          !.style = Style(m, argc), !.error = TRUE]],
             UNCHANGED member
      PROVE  CallInv'
  <2> DEFINE r == IF ~Queued(c) THEN Refused ELSE AcceptedBad(m, Style(m, argc))
  <2>1. Style(m, argc) \in {"callback", "promise"}
    BY DEF Style
  <2>2. call' = [call EXCEPT ![c] = r]
    BY <1>4 DEF AcceptedBad
  <2>3. /\ r \in CallRecord /\ ~r.raced /\ r.sent = Idle.sent
        /\ Queued(c) => r.phase = "queued" /\ r.method = m /\ r.style # "ani"
        /\ ~Queued(c) => r.phase = "refused"
    <3>1. CASE Queued(c)
      <4>1. r = AcceptedBad(m, Style(m, argc))
        BY <3>1
      <4> HIDE DEF r
      <4>2. QED BY <2>1, <3>1, <4>1, AcceptedBadRecord
    <3>2. CASE ~Queued(c)
      BY <3>2, IdleRecord
    <3>3. QED BY <3>1, <3>2
  <2> HIDE DEF r
  <2>4. /\ call' \in [Calls -> CallRecord] /\ call'[c] = r
        /\ \A d \in Calls \ {c} : call'[d] = call[d] /\ call'[d] \in CallRecord
    BY <2>2, <2>3 DEF CallInv, CallTypes
  <2>5. \A d \in Calls \ {c} : call'[d] = [call[d] EXCEPT !.raced = call'[d].raced]
    BY <2>4 DEF CallRecord
  <2>6. /\ sessions' \in {sessions, sessions \cup {c}}
        /\ works' \subseteq Calls /\ refs' \subseteq Calls /\ unfinished' \subseteq Calls
        /\ sessions' \subseteq works'
        /\ (works' \cup refs') \ sessions' \subseteq unfinished'
    BY <1>4, StartEffect DEF CallInv
  <2>7. Range(m.parse) = {} /\ member' \in [Members -> Values]
    BY <1>4, LocalHasNoMember DEF CallInv, CallTypes
  <2>8. Arrival(c, m)
    <3>1. CASE Queued(c)
      BY <1>1, <1>2, <1>4, <2>3, <2>4, <2>5, <2>6, <2>7, <3>1 DEF Arrival, Queued
    <3>2. CASE ~Queued(c)
      BY <1>1, <1>2, <1>4, <2>3, <2>4, <2>5, <2>6, <2>7, <3>2 DEF Arrival, Queued
    <3>3. QED BY <3>1, <3>2
  <2>9. QED BY <2>8, ArrivalStep
<1>5. QED BY <1>3, <1>4 DEF InvokeBadArgument

(* What the invariant says of one call.                                    *)
CallOk(c) ==
    /\ call[c].phase \in {"queued", "reading", "storing", "ran"} => call[c].style # "ani"
    /\ call[c].phase = "storing" => StoredIn(call[c].method) # None
    /\ call[c].raced => c \in overlapped
    /\ c \notin overlapped =>
         /\ call[c].phase \in {"queued", "reading"} =>
              \A p \in Range(call[c].method.parse) \ call[c].omitted : member[p] = c
         /\ call[c].phase = "ran" /\ ~call[c].error /\ StoredIn(call[c].method) # None
              => member[StoredIn(call[c].method)] = c
    /\ \A p \in DOMAIN call[c].sent : call[c].sent[p] = c \/ p \in call[c].omitted \/ c \in overlapped
    /\ (call[c].phase = "answered" /\ ~call[c].error /\ StoredIn(call[c].method) # None)
         => call[c].answer = c \/ c \in overlapped

(* A step of one call that leaves the members alone and makes it live only *)
(* if it was live before.                                                  *)
LEMMA OneCallStep ==
    ASSUME CallInv, NEW c \in Calls, UNCHANGED <<member, overlapped>>,
           NEW r \in CallRecord, call' = [call EXCEPT ![c] = r],
           Live(c)' => Live(c) /\ r.method = call[c].method,
           CallOk(c)',
           sessions' = {d \in sessions : d # c \/ Live(c)'},
           works' \subseteq Calls /\ refs' \subseteq Calls /\ unfinished' \subseteq Calls,
           sessions' \subseteq works', (works' \cup refs') \ sessions' \subseteq unfinished'
    PROVE  CallInv'
<1> USE DEF CallInv
<1>1. call' \in [Calls -> CallRecord] /\ call'[c] = r /\ \A d \in Calls \ {c} : call'[d] = call[d]
  BY DEF CallTypes
<1>2. CallTypes'
  BY <1>1 DEF CallTypes
<1>3. \A d \in Calls \ {c} : Live(d)' <=> Live(d)
  BY <1>1 DEF Live
<1>4. SharingIsOverlap'
  BY <1>1, <1>3 DEF SharingIsOverlap
<1>5. ResourcesFollowSessions'
  <2>1. sessions' = {d \in Calls : Live(d)'}
    BY <1>3 DEF ResourcesFollowSessions
  <2>2. QED BY <2>1 DEF ResourcesFollowSessions
<1>6. \A d \in Calls \ {c} : CallOk(d) /\ call'[d] = call[d]
  BY <1>1 DEF CallOk, MemberStepsAreNapi, MembersAreOwn, RaceIsOverlap, OwnArguments, OwnAnswer
<1>7. \A d \in Calls : CallOk(d)'
  BY <1>6 DEF CallOk
<1>8. MemberStepsAreNapi' /\ RaceIsOverlap' /\ OwnArguments'
  BY <1>7 DEF CallOk, MemberStepsAreNapi, RaceIsOverlap, OwnArguments
<1>9. MembersAreOwn' /\ OwnAnswer'
  BY <1>7 DEF CallOk, MembersAreOwn, OwnAnswer
<1>10. QED BY <1>2, <1>4, <1>5, <1>8, <1>9

(* The worker begins, or returns at once for a bad argument.               *)
LEMMA ExecuteWorkStep ==
    ASSUME CallInv, NEW c \in Calls, ExecuteWork(c) PROVE CallInv'
<1> DEFINE r == [call[c] EXCEPT !.phase = IF call[c].error THEN "ran" ELSE "reading"]
<1>1. call[c] \in CallRecord /\ CallOk(c)
  BY DEF CallInv, CallTypes, CallOk, MemberStepsAreNapi, MembersAreOwn, RaceIsOverlap, OwnArguments, OwnAnswer
<1>2. /\ r \in CallRecord /\ r.phase = IF call[c].error THEN "ran" ELSE "reading"
      /\ r.method = call[c].method /\ r.style = call[c].style /\ r.omitted = call[c].omitted
      /\ r.sent = call[c].sent /\ r.raced = call[c].raced /\ r.error = call[c].error /\ r.answer = call[c].answer
  BY <1>1 DEF CallRecord, Phases
<1>3. call' = [call EXCEPT ![c] = r]
  BY DEF ExecuteWork
<1> HIDE DEF r
<1>4. call'[c] = r /\ call[c].phase = "queued" /\ UNCHANGED <<member, sessions, works, refs, overlapped, unfinished>>
  BY <1>2, <1>3 DEF ExecuteWork, CallInv, CallTypes
<1>5. Live(c) /\ Live(c)'
  BY <1>1, <1>2, <1>4 DEF Live, CallOk
<1>6. CallOk(c)'
  BY <1>1, <1>2, <1>4 DEF CallOk
<1>7. QED
  BY <1>2, <1>3, <1>4, <1>5, <1>6, OneCallStep DEF CallInv, CallTypes, ResourcesFollowSessions

(* The request takes the members as they are now.                          *)
LEMMA SendRequestStep ==
    ASSUME CallInv, NEW c \in Calls, SendRequest(c) PROVE CallInv'
<1>1. PICK sent \in [Range(call[c].method.parse) -> Values] :
         /\ \A p \in DOMAIN sent : sent[p] \in {member[p]} \cup (IF call[c].raced THEN {Torn} ELSE {})
         /\ call' = [call EXCEPT ![c].phase = "running", ![c].sent = sent]
  BY DEF SendRequest
<1> DEFINE r == [call[c] EXCEPT !.phase = "running", !.sent = sent]
<1>2. call[c] \in CallRecord /\ CallOk(c) /\ call[c].method \in Methods
  BY DEF CallInv, CallTypes, CallOk, MemberStepsAreNapi, MembersAreOwn, RaceIsOverlap, OwnArguments, OwnAnswer,
         CallRecord
<1>3. sent \in SentValues /\ DOMAIN sent = Range(call[c].method.parse)
  BY <1>2, UsesAreMembers DEF SentValues
<1>4. /\ r \in CallRecord /\ r.phase = "running" /\ r.sent = sent
      /\ r.method = call[c].method /\ r.style = call[c].style /\ r.omitted = call[c].omitted
      /\ r.raced = call[c].raced
  BY <1>2, <1>3 DEF CallRecord, Phases
<1>5. call' = [call EXCEPT ![c] = r]
  BY <1>1
<1> HIDE DEF r
<1>6. call'[c] = r /\ call[c].phase = "reading" /\ UNCHANGED <<member, sessions, works, refs, overlapped, unfinished>>
  BY <1>4, <1>5 DEF SendRequest, CallInv, CallTypes
<1>7. Live(c) /\ Live(c)'
  BY <1>2, <1>4, <1>6 DEF Live, CallOk
<1>8. CallOk(c)'
  BY <1>1, <1>2, <1>3, <1>4, <1>6 DEF CallOk
<1>9. QED
  BY <1>4, <1>5, <1>6, <1>7, <1>8, OneCallStep DEF CallInv, CallTypes, ResourcesFollowSessions

(* The kit returns.                                                        *)
LEMMA ReceiveAnswerStep ==
    ASSUME CallInv, NEW c \in Calls, ReceiveAnswer(c) PROVE CallInv'
<1>1. PICK ret \in BOOLEAN, businessError \in BOOLEAN :
         call' = [call EXCEPT ![c].error = ~ret \/ businessError,
                              ![c].phase = IF ret /\ StoredIn(call[c].method) # None THEN "storing" ELSE "ran"]
  BY DEF ReceiveAnswer
<1> DEFINE r == [call[c] EXCEPT !.error = ~ret \/ businessError,
                                !.phase = IF ret /\ StoredIn(call[c].method) # None THEN "storing" ELSE "ran"]
<1>2. call[c] \in CallRecord /\ CallOk(c)
  BY DEF CallInv, CallTypes, CallOk, MemberStepsAreNapi, MembersAreOwn, RaceIsOverlap, OwnArguments, OwnAnswer
<1>3. /\ r \in CallRecord /\ r.error = (~ret \/ businessError)
      /\ r.phase = IF ret /\ StoredIn(call[c].method) # None THEN "storing" ELSE "ran"
      /\ r.method = call[c].method /\ r.style = call[c].style /\ r.omitted = call[c].omitted
      /\ r.raced = call[c].raced /\ r.sent = call[c].sent
  BY <1>2 DEF CallRecord, Phases
<1>4. call' = [call EXCEPT ![c] = r]
  BY <1>1
<1> HIDE DEF r
<1>5. /\ call'[c] = r /\ call[c].phase = "running" /\ call[c].style # "ani"
      /\ UNCHANGED <<member, sessions, works, refs, overlapped, unfinished>>
  BY <1>3, <1>4 DEF ReceiveAnswer, CallInv, CallTypes
<1>6. Live(c) /\ Live(c)'
  BY <1>3, <1>5 DEF Live
<1>7. CallOk(c)'
  BY <1>2, <1>3, <1>5 DEF CallOk
<1>8. QED
  BY <1>3, <1>4, <1>5, <1>6, <1>7, OneCallStep DEF CallInv, CallTypes, ResourcesFollowSessions

(* The answer is built from the member and given to the application.       *)
LEMMA CompleteWorkStep ==
    ASSUME CallInv, NEW c \in Calls, CompleteWork(c) PROVE CallInv'
<1>1. PICK v \in Built(c) : call' = [call EXCEPT ![c].phase = "answered", ![c].answer = v]
  BY DEF CompleteWork
<1> DEFINE r == [call[c] EXCEPT !.phase = "answered", !.answer = v]
<1>2. call[c] \in CallRecord /\ CallOk(c) /\ call[c].method \in Methods
  BY DEF CallInv, CallTypes, CallOk, MemberStepsAreNapi, MembersAreOwn, RaceIsOverlap, OwnArguments, OwnAnswer,
         CallRecord
<1>3. call[c].phase = "ran" /\ Live(c) /\ UNCHANGED <<member, overlapped>> /\ sessions' = sessions \ {c}
  BY <1>2 DEF CompleteWork, Live, CallOk
<1>4. GetUpdateResult(call[c].method) = StoredIn(call[c].method)
  BY <1>2, AnswerMember
<1>5. ASSUME c \notin overlapped, ~call[c].error, StoredIn(call[c].method) # None PROVE v = c
  <2>1. member[StoredIn(call[c].method)] = c
    BY <1>2, <1>3, <1>5 DEF CallOk
  <2>2. ASSUME NEW d \in Calls \ {c}, call[d].phase = "storing", StoredIn(call[d].method) = StoredIn(call[c].method)
        PROVE  FALSE
    <3>1. Live(d) /\ call[d].method \in Methods
      BY <2>2 DEF Live, CallInv, CallTypes, CallRecord, MemberStepsAreNapi
    <3>2. StoredIn(call[c].method) \in Uses(call[c].method) \cap Uses(call[d].method)
      BY <1>2, <1>5, <2>2, <3>1, UsesAreMembers
    <3>3. QED BY <1>3, <1>5, <2>2, <3>1, <3>2 DEF CallInv, SharingIsOverlap
  <2>3. {d \in Calls \ {c} : call[d].phase = "storing" /\ StoredIn(call[d].method) = StoredIn(call[c].method)} = {}
    BY <2>2
  <2>4. v \in {member[StoredIn(call[c].method)]}
    BY <1>4, <1>5, <2>3 DEF Built
  <2>5. QED BY <2>1, <2>4
<1>6. v \in Values
  <2>1. StoredIn(call[c].method) # None => member[StoredIn(call[c].method)] \in Values
    BY <1>2, UsesAreMembers DEF CallInv, CallTypes
  <2>2. QED BY <1>4, <2>1 DEF Built, Values
<1>7. /\ r \in CallRecord /\ r.phase = "answered" /\ r.answer = v
      /\ r.method = call[c].method /\ r.style = call[c].style /\ r.omitted = call[c].omitted
      /\ r.raced = call[c].raced /\ r.sent = call[c].sent /\ r.error = call[c].error
  BY <1>2, <1>6 DEF CallRecord, Phases
<1>8. call' = [call EXCEPT ![c] = r]
  BY <1>1
<1> HIDE DEF r
<1>9. call'[c] = r
  BY <1>7, <1>8 DEF CallInv, CallTypes
<1>10. ~Live(c)'
  BY <1>7, <1>9 DEF Live
<1>11. CallOk(c)'
  BY <1>2, <1>3, <1>5, <1>7, <1>9 DEF CallOk
<1>12. /\ works' \subseteq Calls /\ refs' \subseteq Calls /\ unfinished' \subseteq Calls
       /\ sessions' \subseteq works' /\ (works' \cup refs') \ sessions' \subseteq unfinished'
  BY <1>3 DEF CompleteWork, AsyncNotifyJS, PromiseNotifyJS, Release, CallInv, CallTypes, ResourcesFollowSessions
<1>13. sessions' = {d \in sessions : d # c \/ Live(c)'}
  BY <1>3, <1>10
<1>14. QED
  BY <1>3, <1>7, <1>8, <1>10, <1>11, <1>12, <1>13, OneCallStep

(* ANI: the arguments are locals of the call.                              *)
LEMMA AniInvokeStep ==
    ASSUME CallInv, NEW c \in Calls, NEW m \in Methods, AniInvoke(c, m) PROVE CallInv'
<1> DEFINE sent == [p \in Range(m.parse) |-> c]
           r == [Idle EXCEPT !.phase = "running", !.method = m, !.style = "ani", !.sent = sent]
<1>1. sent \in SentValues /\ DOMAIN sent = Range(m.parse) /\ \A p \in DOMAIN sent : sent[p] = c
  BY UsesAreMembers DEF SentValues, Values
<1>2. call' = [call EXCEPT ![c] = r]
  BY DEF AniInvoke
<1> HIDE DEF sent
<1>3. /\ r \in CallRecord /\ r.phase = "running" /\ r.sent = sent /\ r.style = "ani" /\ r.raced = FALSE
  BY <1>1, IdleRecord DEF CallRecord, Phases
<1> HIDE DEF r
<1>4. call'[c] = r /\ call[c].phase = "idle" /\ UNCHANGED <<member, sessions, works, refs, overlapped, unfinished>>
  BY <1>2, <1>3 DEF AniInvoke, NextCall, CallInv, CallTypes
<1>5. ~Live(c) /\ ~Live(c)'
  BY <1>3, <1>4 DEF Live
<1>6. CallOk(c)'
  BY <1>1, <1>3, <1>4 DEF CallOk
<1>7. QED
  BY <1>2, <1>3, <1>4, <1>5, <1>6, OneCallStep DEF CallInv, CallTypes, ResourcesFollowSessions

(* ANI: so is the answer.                                                  *)
LEMMA AniReturnStep ==
    ASSUME CallInv, NEW c \in Calls, AniReturn(c) PROVE CallInv'
<1>1. PICK ret \in BOOLEAN, businessError \in BOOLEAN :
         call' = [call EXCEPT ![c].phase = "answered", ![c].error = ~ret \/ businessError,
                              ![c].answer = IF StoredIn(call[c].method) = None \/ ~ret \/ businessError THEN 0 ELSE c]
  BY DEF AniReturn
<1> DEFINE r == [call[c] EXCEPT !.phase = "answered", !.error = ~ret \/ businessError,
                                !.answer = IF StoredIn(call[c].method) = None \/ ~ret \/ businessError THEN 0 ELSE c]
<1>2. call[c] \in CallRecord /\ CallOk(c)
  BY DEF CallInv, CallTypes, CallOk, MemberStepsAreNapi, MembersAreOwn, RaceIsOverlap, OwnArguments, OwnAnswer
<1>3. /\ r \in CallRecord /\ r.error = (~ret \/ businessError) /\ r.phase = "answered"
      /\ r.answer = IF StoredIn(call[c].method) = None \/ ~ret \/ businessError THEN 0 ELSE c
      /\ r.method = call[c].method /\ r.style = call[c].style /\ r.omitted = call[c].omitted
      /\ r.raced = call[c].raced /\ r.sent = call[c].sent
  BY <1>2 DEF CallRecord, Phases, Values
<1>4. call' = [call EXCEPT ![c] = r]
  BY <1>1
<1> HIDE DEF r
<1>5. /\ call'[c] = r /\ call[c].phase = "running" /\ call[c].style = "ani"
      /\ UNCHANGED <<member, sessions, works, refs, overlapped, unfinished>>
  BY <1>3, <1>4 DEF AniReturn, CallInv, CallTypes
<1>6. ~Live(c) /\ ~Live(c)'
  BY <1>3, <1>5 DEF Live
<1>7. CallOk(c)'
  BY <1>2, <1>3, <1>5 DEF CallOk
<1>8. QED
  BY <1>3, <1>4, <1>5, <1>6, <1>7, OneCallStep DEF CallInv, CallTypes, ResourcesFollowSessions

(* The worker stores the answer: the workers it races with, and the calls  *)
(* whose member it overwrites, share that member with it.                  *)
LEMMA StoreAnswerStep ==
    ASSUME CallInv, NEW c \in Calls, StoreAnswer(c) PROVE CallInv'
<1> DEFINE p == StoredIn(call[c].method)
           r == [call[c] EXCEPT !.phase = "ran"]
           next == [call EXCEPT ![c] = r]
<1>1. /\ call[c].phase = "storing" /\ UNCHANGED <<sessions, works, refs, overlapped, unfinished>>
      /\ call' = Racing({p}, next)
  BY DEF StoreAnswer
<1>2. PICK v \in {c} \cup (IF call[c].raced THEN {member[p], Torn} ELSE {}) : member' = [member EXCEPT ![p] = v]
  BY DEF StoreAnswer
<1>3. \A d \in Calls : call[d] \in CallRecord /\ CallOk(d) /\ call[d].method \in Methods
  BY DEF CallInv, CallTypes, CallOk, MemberStepsAreNapi, MembersAreOwn, RaceIsOverlap, OwnArguments, OwnAnswer,
         CallRecord
<1>4. p # None /\ p \in Uses(call[c].method) /\ p \in Members /\ Live(c)
  BY <1>1, <1>3, UsesAreMembers DEF CallOk, Live
<1>5. v \in Values /\ member' \in [Members -> Values] /\ member'[p] = v
      /\ \A q \in Members \ {p} : member'[q] = member[q]
  <2>1. v \in Values
    BY <1>4 DEF CallInv, CallTypes, Values
  <2>2. QED BY <1>2, <1>4, <2>1 DEF CallInv, CallTypes
<1>6. c \notin overlapped => v = c
  BY <1>2, <1>3 DEF CallOk
<1>7. /\ r \in CallRecord /\ r.phase = "ran"
      /\ r.method = call[c].method /\ r.style = call[c].style /\ r.omitted = call[c].omitted
      /\ r.raced = call[c].raced /\ r.sent = call[c].sent /\ r.error = call[c].error /\ r.answer = call[c].answer
  BY <1>3 DEF CallRecord, Phases
<1> HIDE DEF r
<1>8. next \in [Calls -> CallRecord] /\ next[c] = r /\ \A d \in Calls \ {c} : next[d] = call[d]
  BY <1>7 DEF CallInv, CallTypes
<1> HIDE DEF next, p
<1>9. /\ call' \in [Calls -> CallRecord]
      /\ \A d \in Calls :
           /\ call'[d] = [next[d] EXCEPT !.raced = call'[d].raced]
           /\ call'[d].raced =>
                \/ next[d].raced
                \/ next[d].phase = "reading" /\ Range(next[d].method.parse) \cap {p} # {}
                \/ next[d].phase = "storing" /\ StoredIn(next[d].method) \in {p}
  <2> DEFINE written == {p}
  <2>1. call' = Racing(written, next)
    BY <1>1
  <2> HIDE DEF written
  <2>2. /\ call' \in [Calls -> CallRecord]
        /\ \A d \in Calls :
             /\ call'[d] = [next[d] EXCEPT !.raced = call'[d].raced]
             /\ call'[d].raced =>
                  \/ next[d].raced
                  \/ next[d].phase = "reading" /\ Range(next[d].method.parse) \cap written # {}
                  \/ next[d].phase = "storing" /\ StoredIn(next[d].method) \in written
    BY <1>8, <2>1, RacingEffect
  <2>3. QED BY <2>2 DEF written
<1>10. \A d \in Calls : next[d] \in CallRecord
  BY <1>8
<1>11. \A d \in Calls :
         /\ call'[d].phase = next[d].phase /\ call'[d].method = next[d].method
         /\ call'[d].style = next[d].style /\ call'[d].omitted = next[d].omitted
         /\ call'[d].sent = next[d].sent /\ call'[d].error = next[d].error
         /\ call'[d].answer = next[d].answer
  BY <1>9, <1>10 DEF CallRecord
<1>12. \A d \in Calls \ {c} :
         /\ call'[d].phase = call[d].phase /\ call'[d].method = call[d].method
         /\ call'[d].style = call[d].style /\ call'[d].omitted = call[d].omitted
         /\ call'[d].sent = call[d].sent /\ call'[d].error = call[d].error
         /\ call'[d].answer = call[d].answer
  BY <1>8, <1>11
<1>13. /\ call'[c].phase = "ran" /\ call'[c].method = call[c].method /\ call'[c].style = call[c].style
       /\ call'[c].omitted = call[c].omitted /\ call'[c].sent = call[c].sent
  BY <1>7, <1>8, <1>11
<1>14. \A d \in Calls : Live(d)' <=> Live(d)
  BY <1>1, <1>12, <1>13 DEF Live
<1>15. \A d \in Calls \ {c} : Live(d) /\ d \notin overlapped => p \notin Uses(call[d].method)
  BY <1>4 DEF CallInv, SharingIsOverlap
<1>16. ASSUME NEW d \in Calls, call'[d].raced PROVE d \in overlapped
  <2>1. CASE d = c
    BY <1>3, <1>7, <1>8, <1>9, <1>16, <2>1 DEF CallOk
  <2>2. CASE d # c
    <3>1. \/ call[d].raced
          \/ call[d].phase = "reading" /\ p \in Range(call[d].method.parse)
          \/ call[d].phase = "storing" /\ StoredIn(call[d].method) = p
      BY <1>8, <1>9, <1>16, <2>2
    <3>2. call[d].phase \in {"reading", "storing"} => Live(d)
      BY <1>3 DEF CallOk, Live
    <3>3. p \in Range(call[d].method.parse) \/ StoredIn(call[d].method) = p => p \in Uses(call[d].method)
      BY <1>3, <1>4, UsesAreMembers
    <3>4. QED BY <1>3, <1>15, <2>2, <3>1, <3>2, <3>3 DEF CallOk
  <2>3. QED BY <2>1, <2>2
<1>17. ASSUME NEW d \in Calls, d \notin overlapped
       PROVE  /\ call'[d].phase \in {"queued", "reading"} =>
                   \A q \in Range(call'[d].method.parse) \ call'[d].omitted : member'[q] = d
              /\ call'[d].phase = "ran" /\ ~call'[d].error /\ StoredIn(call'[d].method) # None
                   => member'[StoredIn(call'[d].method)] = d
  <2>1. CASE d = c
    BY <1>5, <1>6, <1>13, <1>17, <2>1 DEF p
  <2>2. CASE d # c
    <3>1. call[d].phase \in {"queued", "reading", "ran"} => Live(d)
      BY <1>3 DEF CallOk, Live
    <3>2. Live(d) => \A q \in Uses(call[d].method) : member'[q] = member[q]
      BY <1>3, <1>5, <1>15, <1>17, <2>2, UsesAreMembers
    <3>3. QED BY <1>3, <1>12, <1>17, <2>2, <3>1, <3>2, UsesAreMembers DEF CallOk
  <2>3. QED BY <2>1, <2>2
<1>18. CallTypes'
  BY <1>1, <1>5, <1>9 DEF CallInv, CallTypes
<1>19. SharingIsOverlap'
  BY <1>1, <1>12, <1>13, <1>14 DEF CallInv, SharingIsOverlap
<1>20. MemberStepsAreNapi'
  BY <1>1, <1>3, <1>12, <1>13 DEF CallOk, MemberStepsAreNapi
<1>21. MembersAreOwn'
  BY <1>1, <1>17 DEF MembersAreOwn
<1>22. RaceIsOverlap'
  BY <1>1, <1>16 DEF RaceIsOverlap
<1>23. OwnArguments'
  BY <1>1, <1>3, <1>12, <1>13 DEF CallOk, OwnArguments
<1>24. OwnAnswer'
  <2>1. ASSUME NEW d \in Calls, call'[d].phase = "answered", ~call'[d].error, StoredIn(call'[d].method) # None
        PROVE  call'[d].answer = d \/ d \in overlapped
    <3>1. d # c
      BY <1>13, <2>1
    <3>2. QED BY <1>3, <1>12, <2>1, <3>1 DEF CallOk
  <2>2. QED BY <1>1, <2>1 DEF OwnAnswer
<1>25. ResourcesFollowSessions'
  BY <1>1, <1>14 DEF CallInv, ResourcesFollowSessions
<1>26. QED BY <1>18, <1>19, <1>20, <1>21, <1>22, <1>23, <1>24, <1>25 DEF CallInv
-----------------------------------------------------------------------------
(* The theorems                                                            *)

(* Every step of the two threads and of either binding keeps the           *)
(* invariant.                                                              *)
LEMMA CallInvHolds == Spec => []CallInv
<1>1. CallInv /\ [Next]_vars => CallInv'
  <2> SUFFICES ASSUME CallInv, [Next]_vars PROVE CallInv'
    OBVIOUS
  <2>1. ASSUME NEW c \in Calls, NEW m \in Called, Invoke(c, m) \/ InvokeBadArgument(c, m) PROVE CallInv'
    BY <2>1, CalledAssumption, InvokeStep, InvokeBadArgumentStep
  <2>2. ASSUME NEW c \in Calls, NEW m \in AniMethods \cap Called, AniInvoke(c, m) PROVE CallInv'
    BY <2>2, CalledAssumption, AniInvokeStep
  <2>3. ASSUME NEW c \in Calls, Worker(c) PROVE CallInv'
    BY <2>3, ExecuteWorkStep, SendRequestStep, ReceiveAnswerStep, StoreAnswerStep DEF Worker
  <2>4. ASSUME NEW c \in Calls, CompleteWork(c) \/ AniReturn(c) PROVE CallInv'
    BY <2>4, CompleteWorkStep, AniReturnStep
  <2>5. CASE UNCHANGED vars
    BY <2>5 DEF vars, CallInv, CallTypes, SharingIsOverlap, MemberStepsAreNapi, MembersAreOwn, RaceIsOverlap,
                OwnArguments, OwnAnswer, ResourcesFollowSessions, Live
  <2>6. QED BY <2>1, <2>2, <2>3, <2>4, <2>5 DEF Next, Over
<1>2. QED BY <1>1, CallInit, PTL DEF Spec

(* The members of the native objects are safe for every call that does not *)
(* overlap with one that shares a member with it: its request carries its  *)
(* own arguments, whatever the other calls do.                             *)
THEOREM RequestsCarryOwnArguments == Spec => []OwnArguments
<1>1. CallInv => OwnArguments
  BY DEF CallInv
<1>2. QED BY <1>1, CallInvHolds, PTL

(* Under the same condition the application is given the answer to its own *)
(* call, with every pair of methods, of the same object or of several.     *)
THEOREM AnswersAreOwn == Spec => []OwnAnswer
<1>1. CallInv => OwnAnswer
  BY DEF CallInv
<1>2. QED BY <1>1, CallInvHolds, PTL

(* A session is in the manager exactly while its call is live and holds    *)
(* its work; what outlives a session is on record as never released.       *)
THEOREM SessionsOwnTheirWork == Spec => []SessionInv
<1>1. CallInv => SessionInv
  <2> SUFFICES ASSUME CallInv PROVE SessionInv
    OBVIOUS
  <2>1. \A c \in Calls : call[c] \in CallRecord
    BY DEF CallInv, CallTypes
  <2>2. ASSUME NEW c \in Calls PROVE call[c].sent \in [DOMAIN call[c].sent -> Values]
    BY <2>1 DEF CallRecord, SentValues
  <2>3. TypeOK
    BY <2>1, <2>2 DEF CallInv, CallTypes, TypeOK, CallRecord, Phases
  <2>4. QED BY <2>3 DEF CallInv, SessionInv
<1>2. QED BY <1>1, CallInvHolds, PTL
=============================================================================
