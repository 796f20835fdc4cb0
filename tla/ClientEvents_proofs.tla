------------------------ MODULE ClientEvents_proofs ------------------------
(***************************************************************************)
(* Proofs about ClientEvents, for any subscriptions, numbers of tries,     *)
(* processes of the service, events and listeners.                         *)
(***************************************************************************)
EXTENDS ClientEvents, TLAPS, SequenceTheorems

(***************************************************************************)
(* The inductive invariant, part by part.                                  *)
(***************************************************************************)
Event == [u : Updaters, c : Classes]
JsRecord == [pc : {"idle", "handler", "get", "ipc", "stuck"}, op : {None, "on", "off", "init"},
             u : Updaters \cup {None}, c : Classes \cup {None}, tries : 0..(maxRetryTimes - 1), got : 0..MaxGen]

AppTypes ==
    /\ binding \in {"napi", "ani"} /\ unlocked \in BOOLEAN /\ created \in BOOLEAN
    /\ listeners \in [Updaters -> Seq(Listener)]
    /\ \A u \in Updaters : Len(listeners[u]) <= MaxListeners[u]
    /\ queue \in Seq(Event) /\ Len(queue) <= MaxQueue
    /\ held \in Listener \cup {Nobody}
    /\ why \in [Updaters -> {None, "off", "failed"}]

\* What the call of the JS thread is about.
JsTypes ==
    /\ js \in JsRecord
    /\ js.pc \in {"get", "ipc"} => js.u \in Updaters /\ js.op \in {"on", "off", "init"}
    /\ js.pc = "handler" => held # Nobody

KitTypes ==
    /\ worker \in 0..MaxGen /\ proxy \in 0..MaxGen /\ gen \in 0..MaxGen /\ up \in BOOLEAN
    /\ recipients \subseteq Processes /\ notices \subseteq Processes
    /\ cbMap \subseteq Updaters /\ reg \subseteq Updaters /\ unfinished \subseteq Updaters
    /\ retryTimes \in 0..retryMaxTimes
    /\ proxy <= gen /\ (up => gen > 0)

\* The handler that runs, and its event.
HandlerFits ==
    held # Nobody => /\ event \in Event
                     /\ held \in ToSet(listeners[event.u])
                     /\ binding = "napi" => held.c = event.c

\* An off on its way was noted; in ANI it is that of the last listener.
OffIsNoted ==
    js.pc \in {"get", "ipc"} /\ js.op = "off" =>
        /\ why[js.u] = "off"
        /\ binding = "ani" => js.u = "online" /\ listeners[js.u] = <<>>

Wanted(u) == listeners[u] # <<>> \/ (u = "local" /\ created)
Explained(u) ==
    \/ u \in cbMap
    \/ why[u] = "failed"
    \/ why[u] = "off" /\ binding = "napi"
    \/ u = "local" /\ binding = "ani"
Registers(u) == js.pc \in {"get", "ipc"} /\ js.op \in {"on", "init"} /\ js.u = u

\* An updater that is wanted is explained, or registers right now.
WantedOrUnderWay == \A u \in Updaters : Wanted(u) => Explained(u) \/ Registers(u)

ClientInv ==
    /\ AppTypes /\ JsTypes /\ KitTypes
    /\ HandlerFits /\ StuckOnlyByOwnCall
    /\ OffIsNoted /\ WantedOrUnderWay
    /\ WantedIsRegistered /\ StaleOnlyAfterFailedOff

-----------------------------------------------------------------------------
(* The operators the specification is built from                           *)

(* The call of the JS thread that is none.                                 *)
LEMMA IdleFields ==
    /\ Idle \in JsRecord /\ Idle.pc = "idle" /\ Idle.op = None /\ Idle.u = None /\ Idle.c = None
    /\ Idle.tries = 0 /\ Idle.got = 0
<1>1. 0 \in 0..(maxRetryTimes - 1) /\ 0 \in 0..MaxGen
  BY TriesAssumption, BoundsAssumption
<1>2. QED BY <1>1 DEF Idle, JsRecord, None

(* A call of the kit begins.                                               *)
LEMMA StartEffect ==
    ASSUME NEW op \in {"on", "off", "init"}, NEW u \in Updaters, Start(op, u)
    PROVE  js' \in JsRecord /\ js'.pc = "get" /\ js'.op = op /\ js'.u = u
<1>1. js' = [Idle EXCEPT !.pc = "get", !.op = op, !.u = u]
  BY DEF Start
<1>2. js' \in JsRecord
  BY <1>1, IdleFields DEF JsRecord
<1>3. js'.pc = "get" /\ js'.op = op /\ js'.u = u
  BY <1>1, IdleFields DEF JsRecord
<1>4. QED BY <1>2, <1>3

(* A call blocks the JS thread.                                            *)
LEMMA StuckEffect ==
    ASSUME NEW op \in {"on", "off", "init"}, NEW u \in Updaters, NEW c \in Classes, Stuck(op, u, c)
    PROVE  js' \in JsRecord /\ js'.pc = "stuck" /\ js'.op = op /\ js'.u = u /\ js'.c = c
<1>1. js' = [Idle EXCEPT !.pc = "stuck", !.op = op, !.u = u, !.c = c]
  BY DEF Stuck
<1>2. js' \in JsRecord
  BY <1>1, IdleFields DEF JsRecord
<1>3. js'.pc = "stuck" /\ js'.op = op /\ js'.u = u /\ js'.c = c
  BY <1>1, IdleFields DEF JsRecord
<1>4. QED BY <1>2, <1>3

(* A call has ended: its thread is idle, or in the handler it came from.   *)
LEMMA DoneEffect ==
    Done \in JsRecord /\ Done.pc \in {"idle", "handler"} /\ (Done.pc = "handler" => held # Nobody)
<1>1. CASE held = Nobody
  BY <1>1, IdleFields DEF Done
<1>2. CASE held # Nobody
  <2>1. Done = [Idle EXCEPT !.pc = "handler"]
    BY <1>2 DEF Done
  <2>2. Done \in JsRecord
    BY <2>1, IdleFields DEF JsRecord
  <2>3. Done.pc = "handler"
    BY <2>1, IdleFields DEF JsRecord
  <2>4. QED BY <1>2, <2>2, <2>3
<1>3. QED BY <1>1, <1>2

(* A registration that failed is tried again, or has ended.                *)
LEMMA AgainEffect ==
    ASSUME js \in JsRecord, NEW r, r = Again
    PROVE  /\ r \in JsRecord
           /\ \/ r.pc \in {"idle", "handler"} /\ (r.pc = "handler" => held # Nobody)
              \/ r.pc = "get" /\ r.op = js.op /\ r.u = js.u /\ js.op = "on"
<1>1. CASE js.op = "on" /\ js.tries + 1 < maxRetryTimes
  <2>1. r = [js EXCEPT !.pc = "get", !.tries = @ + 1]
    BY <1>1 DEF Again
  <2>2. js.tries \in 0..(maxRetryTimes - 1)
    BY DEF JsRecord
  <2>3. js.tries + 1 \in 0..(maxRetryTimes - 1)
    BY <1>1, <2>2, TriesAssumption
  <2>4. r = [js EXCEPT !.pc = "get", !.tries = js.tries + 1]
    BY <2>1
  <2>5. r \in JsRecord
    BY <2>3, <2>4 DEF JsRecord
  <2>6. r.pc = "get" /\ r.op = js.op /\ r.u = js.u
    BY <2>4 DEF JsRecord
  <2>7. QED BY <1>1, <2>5, <2>6
<1>2. CASE ~(js.op = "on" /\ js.tries + 1 < maxRetryTimes)
  BY <1>2, DoneEffect DEF Again
<1>3. QED BY <1>1, <1>2

(* A proxy is got: of the process that runs, with all callbacks registered *)
(* or refused.                                                             *)
Connects ==
    /\ proxy' = gen' /\ gen' \in 1..MaxGen /\ up' = TRUE /\ recipients' \subseteq Processes
    /\ reg \subseteq reg' /\ reg' \subseteq reg \cup cbMap
    /\ cbMap \subseteq reg' \/ missed'

\* What a new connection, to the service that runs or to one it loads, leaves behind.
LEMMA ConnectEffect ==
    ASSUME KitTypes, AppTypes, NEW g \in Processes, Connect(g)
    PROVE  Connects
<1>1. gen' = g /\ up' = TRUE /\ proxy' = g /\ recipients' = recipients \cup {g}
  BY DEF Connect
<1>2. recipients \subseteq Processes /\ g \in 1..MaxGen
  BY DEF KitTypes, Processes
<1>3. CASE CallbackEnter
  <2>1. reg' = reg \cup cbMap
    BY <1>3 DEF Connect
  <2>2. QED BY <1>1, <1>2, <2>1 DEF Connects
<1>4. CASE ~CallbackEnter
  <2>1. reg' = reg /\ missed' = (cbMap # {})
    BY <1>4 DEF Connect
  <2>2. QED BY <1>1, <1>2, <2>1 DEF Connects
<1>5. QED BY <1>3, <1>4

(* What a step may do to the proxy and the service.                        *)
Reaches ==
    \/ UNCHANGED <<proxy, recipients, gen, up, reg, missed>>
    \/ proxy' = 0 /\ UNCHANGED <<recipients, gen, up, reg, missed>>
    \/ Connects

\* GetService keeps the proxy there is, or connects.
LEMMA GetServiceEffect ==
    ASSUME KitTypes, AppTypes, NEW g \in Processes, GetService(g)
    PROVE  Reaches
BY ConnectEffect DEF GetService, Reaches

\* A GetService that fails leaves the kit without a proxy.
LEMMA NoServiceEffect ==
    ASSUME NoService
    PROVE  proxy' = 0 /\ UNCHANGED <<recipients, gen, up, reg, missed>>
BY DEF NoService, CannotConnect, NoProxy

(* What a step that reaches the service keeps.                             *)
LEMMA ReachesKeeps ==
    ASSUME KitTypes, WantedIsRegistered, StaleOnlyAfterFailedOff, Reaches, UNCHANGED cbMap,
           unfinished \subseteq unfinished'
    PROVE  /\ WantedIsRegistered' /\ StaleOnlyAfterFailedOff'
           /\ proxy' \in 0..MaxGen /\ gen' \in 0..MaxGen /\ up' \in BOOLEAN /\ proxy' <= gen' /\ (up' => gen' > 0)
           /\ recipients' \subseteq Processes /\ reg' \subseteq Updaters
<1>1. CASE UNCHANGED <<proxy, recipients, gen, up, reg, missed>>
  BY <1>1 DEF KitTypes, WantedIsRegistered, StaleOnlyAfterFailedOff
<1>2. CASE proxy' = 0 /\ UNCHANGED <<recipients, gen, up, reg, missed>>
  <2>1. proxy' \in 0..MaxGen /\ proxy' <= gen'
    BY <1>2, BoundsAssumption DEF KitTypes
  <2>2. ~(up' /\ proxy' = gen')
    BY <1>2 DEF KitTypes
  <2>3. QED BY <1>2, <2>1, <2>2 DEF KitTypes, WantedIsRegistered, StaleOnlyAfterFailedOff
<1>3. CASE Connects
  <2>1. proxy' \in 0..MaxGen /\ gen' \in 0..MaxGen /\ proxy' <= gen' /\ gen' > 0
    BY <1>3 DEF Connects
  <2>2. QED BY <1>3, <2>1 DEF KitTypes, Connects, WantedIsRegistered, StaleOnlyAfterFailedOff
<1>4. QED BY <1>1, <1>2, <1>3 DEF Reaches

(* What erasing listeners leaves.                                          *)
LEMMA UnsubscribeEffect ==
    ASSUME AppTypes, NEW u \in Updaters, NEW c, NEW hs,
           NEW left \in BoundedSeq(Listener, Len(listeners[u])), Unsubscribe(u, c, hs, left)
    PROVE  /\ left \in Seq(Listener) /\ Len(left) <= Len(listeners[u])
           /\ \A l \in ToSet(listeners[u]) : (\A h \in hs : ~Same(l, c, h)) => l \in ToSet(left)
           /\ listeners[u] = <<>> => left = <<>>
<1> DEFINE s == listeners[u]
           stay == {i \in DOMAIN s : \A h \in hs : ~Same(s[i], c, h)}
<1>1. s \in Seq(Listener) /\ Len(s) \in Nat
  BY DEF AppTypes
<1>2. PICK m \in 0..Len(s) : left \in [1..m -> Listener]
  BY DEF BoundedSeq, SeqOf
<1>3. m \in Nat /\ m <= Len(s)
  BY <1>1, <1>2
<1>4. left \in Seq(Listener)
  BY <1>2, <1>3, SeqDef
<1>5. Len(left) = m /\ DOMAIN left = 1..m
  BY <1>2, <1>3, <1>4, LenProperties
<1>6. PICK from \in [DOMAIN left -> stay] :
        /\ stay = {from[k] : k \in DOMAIN left}
        /\ \A k \in DOMAIN left : left[k] = s[from[k]]
  BY DEF Unsubscribe
<1>7. ASSUME NEW l \in ToSet(s), \A h \in hs : ~Same(l, c, h) PROVE l \in ToSet(left)
  <2>1. PICK i \in DOMAIN s : l = s[i]
    BY DEF ToSet
  <2>2. i \in stay
    BY <1>7, <2>1
  <2> HIDE DEF stay, s
  <2>3. PICK k \in DOMAIN left : i = from[k]
    BY <1>6, <2>2
  <2>4. left[k] = l
    BY <1>6, <2>1, <2>3
  <2>5. QED BY <2>4 DEF ToSet
<1>8. ASSUME s = <<>> PROVE left = <<>>
  <2>1. Len(left) = 0
    BY <1>1, <1>3, <1>5, <1>8
  <2>2. QED BY <1>4, <2>1, EmptySeq
<1>9. QED BY <1>3, <1>4, <1>5, <1>7, <1>8

-----------------------------------------------------------------------------
(* Every step keeps the invariant                                          *)

AppInv == AppTypes /\ JsTypes /\ HandlerFits /\ StuckOnlyByOwnCall /\ OffIsNoted /\ WantedOrUnderWay
KitInv == KitTypes /\ WantedIsRegistered /\ StaleOnlyAfterFailedOff

(* A step that leaves the application alone keeps its part.                *)
LEMMA AppStays ==
    ASSUME AppInv, UNCHANGED <<binding, unlocked, created, listeners, queue, event, held, js, cbMap, why>>
    PROVE  AppInv'
<1>1. AppTypes' /\ JsTypes'
  BY DEF AppInv, AppTypes, JsTypes
<1>2. HandlerFits' /\ StuckOnlyByOwnCall' /\ OffIsNoted'
  BY DEF AppInv, HandlerFits, StuckOnlyByOwnCall, OffIsNoted
<1>3. WantedOrUnderWay'
  BY DEF AppInv, WantedOrUnderWay, Wanted, Explained, Registers
<1>4. QED BY <1>1, <1>2, <1>3 DEF AppInv

(* A step that leaves the kit and the service alone keeps theirs.          *)
LEMMA KitStays ==
    ASSUME KitInv, UNCHANGED <<worker, kitVars, notices, svcVars, missed, unfinished>>
    PROVE  KitInv'
BY DEF KitInv, KitTypes, WantedIsRegistered, StaleOnlyAfterFailedOff, kitVars, svcVars

(* The steps of the service and of the worker, which the application does  *)
(* not take part in.                                                       *)
LEMMA ServiceDiesStep == ASSUME AppInv, KitInv, ServiceDies PROVE AppInv' /\ KitInv'
<1>1. AppInv'
  BY AppStays DEF ServiceDies, appVars
<1>2. /\ up' = FALSE /\ reg' = {} /\ UNCHANGED <<worker, proxy, cbMap, retryTimes, gen, missed, unfinished>>
      /\ notices' = notices \cup ({gen} \cap recipients) /\ recipients' = recipients \ {gen}
  BY DEF ServiceDies
<1>3. KitTypes'
  BY <1>2 DEF KitInv, KitTypes
<1>4. WantedIsRegistered' /\ StaleOnlyAfterFailedOff'
  BY <1>2 DEF WantedIsRegistered, StaleOnlyAfterFailedOff
<1>5. QED BY <1>1, <1>3, <1>4 DEF KitInv

\* A new process of the service knows no callback, and no proxy stands for it yet.
LEMMA ServiceStartsStep == ASSUME AppInv, KitInv, ServiceStarts PROVE AppInv' /\ KitInv'
<1>1. AppInv'
  BY AppStays DEF ServiceStarts, appVars, kitVars
<1>2. /\ gen < MaxGen /\ gen' = gen + 1 /\ up' = TRUE /\ reg' = {}
      /\ UNCHANGED <<worker, proxy, recipients, cbMap, retryTimes, notices, missed, unfinished>>
  BY DEF ServiceStarts, kitVars
<1>3. gen' \in 0..MaxGen /\ gen' > 0 /\ proxy <= gen' /\ proxy # gen'
  BY <1>2, BoundsAssumption DEF KitInv, KitTypes
<1>4. KitTypes'
  BY <1>2, <1>3 DEF KitInv, KitTypes
<1>5. WantedIsRegistered' /\ StaleOnlyAfterFailedOff'
  BY <1>2, <1>3 DEF WantedIsRegistered, StaleOnlyAfterFailedOff
<1>6. QED BY <1>1, <1>4, <1>5 DEF KitInv

\* The user unlocks: nothing but what the service lets in changes.
LEMMA UserUnlocksStep == ASSUME AppInv, KitInv, UserUnlocks PROVE AppInv' /\ KitInv'
<1>1. unlocked' = TRUE /\ UNCHANGED <<binding, appVars, queue, worker, kitVars, notices,
                                      svcVars, why, missed, unfinished>>
  BY DEF UserUnlocks
<1>2. KitInv'
  BY <1>1, KitStays
<1>3. UNCHANGED <<binding, created, listeners, event, held, js, queue, cbMap, why>>
  BY <1>1 DEF appVars, kitVars
<1>4. AppTypes' /\ JsTypes'
  BY <1>1, <1>3 DEF AppInv, AppTypes, JsTypes
<1>5. HandlerFits' /\ StuckOnlyByOwnCall' /\ OffIsNoted'
  BY <1>3 DEF AppInv, HandlerFits, StuckOnlyByOwnCall, OffIsNoted
<1>6. WantedOrUnderWay'
  BY <1>3 DEF AppInv, WantedOrUnderWay, Wanted, Explained, Registers
<1>7. QED BY <1>2, <1>4, <1>5, <1>6 DEF AppInv

\* An event of the service enters the queue of the application.
LEMMA ServiceEventStep ==
    ASSUME AppInv, KitInv, NEW u \in Updaters, NEW c \in Classes, ServiceEvent(u, c)
    PROVE  AppInv' /\ KitInv'
<1>1. /\ Len(queue) < MaxQueue /\ queue' = Append(queue, [u |-> u, c |-> c])
      /\ UNCHANGED <<binding, unlocked, appVars, worker, kitVars, notices, svcVars, why, missed, unfinished>>
  BY DEF ServiceEvent
<1>2. KitInv'
  BY <1>1, KitStays
<1>3. UNCHANGED <<binding, unlocked, created, listeners, event, held, js, cbMap, why>>
  BY <1>1 DEF appVars, kitVars
<1>4. queue \in Seq(Event) /\ [u |-> u, c |-> c] \in Event
  BY DEF AppInv, AppTypes, Event
<1>5. queue' \in Seq(Event) /\ Len(queue') <= MaxQueue
  BY <1>1, <1>4, BoundsAssumption
<1>6. AppTypes' /\ JsTypes'
  BY <1>3, <1>5 DEF AppInv, AppTypes, JsTypes
<1>7. HandlerFits' /\ StuckOnlyByOwnCall' /\ OffIsNoted'
  BY <1>3 DEF AppInv, HandlerFits, StuckOnlyByOwnCall, OffIsNoted
<1>8. WantedOrUnderWay'
  BY <1>3 DEF AppInv, WantedOrUnderWay, Wanted, Explained, Registers
<1>9. QED BY <1>2, <1>6, <1>7, <1>8 DEF AppInv

\* A death notice, early or late, drops the proxy and may connect again.
LEMMA ResetServiceStep ==
    ASSUME AppInv, KitInv, NEW g \in Processes, ResetService(g)
    PROVE  AppInv' /\ KitInv'
<1>1. AppInv'
  BY AppStays DEF ResetService, appVars
<1>2. UNCHANGED <<worker, cbMap, unfinished>> /\ notices' \subseteq notices
  BY DEF ResetService
<1>3. retryTimes' \in 0..retryMaxTimes
  <2>1. retryTimes' = retryTimes \/ (retryTimes < retryMaxTimes /\ retryTimes' = retryTimes + 1)
    BY DEF ResetService
  <2>2. QED BY <2>1, TriesAssumption DEF KitInv, KitTypes
<1>4. Reaches
  <2>1. CASE cbMap # {} /\ retryTimes < retryMaxTimes
    <3>1. (\E n \in Processes : Connect(n)) \/ CannotConnect
      BY <2>1 DEF ResetService
    <3>2. QED BY <3>1, ConnectEffect DEF AppInv, KitInv, CannotConnect, NoProxy, Reaches
  <2>2. CASE ~(cbMap # {} /\ retryTimes < retryMaxTimes)
    BY <2>2 DEF ResetService, NoProxy, Reaches
  <2>3. QED BY <2>1, <2>2
<1>5. /\ WantedIsRegistered' /\ StaleOnlyAfterFailedOff'
      /\ proxy' \in 0..MaxGen /\ gen' \in 0..MaxGen /\ up' \in BOOLEAN /\ proxy' <= gen' /\ (up' => gen' > 0)
      /\ recipients' \subseteq Processes /\ reg' \subseteq Updaters
  BY <1>2, <1>4, ReachesKeeps DEF KitInv
<1>6. QED BY <1>1, <1>2, <1>3, <1>5 DEF KitInv, KitTypes

\* A worker gets the service for a call of its own.
LEMMA WorkerGetServiceStep == ASSUME AppInv, KitInv, WorkerGetService PROVE AppInv' /\ KitInv'
<1>1. AppInv'
  BY AppStays DEF WorkerGetService, appVars
<1>2. PICK g \in Processes : GetService(g) /\ worker' = g
  BY DEF WorkerGetService
<1>3. UNCHANGED <<cbMap, retryTimes, notices, unfinished>> /\ worker' \in 0..MaxGen
  BY <1>2 DEF WorkerGetService, Processes
<1>4. Reaches
  BY <1>2, GetServiceEffect DEF AppInv, KitInv
<1>5. /\ WantedIsRegistered' /\ StaleOnlyAfterFailedOff'
      /\ proxy' \in 0..MaxGen /\ gen' \in 0..MaxGen /\ up' \in BOOLEAN /\ proxy' <= gen' /\ (up' => gen' > 0)
      /\ recipients' \subseteq Processes /\ reg' \subseteq Updaters
  BY <1>3, <1>4, ReachesKeeps DEF KitInv
<1>6. QED BY <1>1, <1>3, <1>5 DEF KitInv, KitTypes

\* The call of a worker drops the proxy when it fails.
LEMMA WorkerCallsStep == ASSUME AppInv, KitInv, WorkerCalls PROVE AppInv' /\ KitInv'
<1>1. AppInv'
  BY AppStays DEF WorkerCalls, appVars
<1>2. /\ worker' = 0 /\ (proxy' = proxy \/ proxy' = 0)
      /\ UNCHANGED <<recipients, cbMap, retryTimes, notices, gen, up, reg, missed, unfinished>>
  BY DEF WorkerCalls, svcVars, NoProxy
<1>3. Reaches
  BY <1>2 DEF Reaches
<1>4. /\ WantedIsRegistered' /\ StaleOnlyAfterFailedOff'
      /\ proxy' \in 0..MaxGen /\ gen' \in 0..MaxGen /\ up' \in BOOLEAN /\ proxy' <= gen' /\ (up' => gen' > 0)
      /\ recipients' \subseteq Processes /\ reg' \subseteq Updaters
  BY <1>2, <1>3, ReachesKeeps DEF KitInv
<1>5. worker' \in 0..MaxGen
  BY <1>2, BoundsAssumption
<1>6. QED BY <1>1, <1>2, <1>4, <1>5 DEF KitInv, KitTypes

(* The calls of the application.                                           *)
LEMMA GetLocalUpdaterStep == ASSUME AppInv, KitInv, GetLocalUpdater PROVE AppInv' /\ KitInv'
<1>1. /\ MayCall /\ created' = TRUE
      /\ UNCHANGED <<binding, unlocked, listeners, event, held, queue, worker, kitVars, notices, svcVars,
                     why, missed, unfinished>>
  BY DEF GetLocalUpdater
<1>2. KitInv'
  BY <1>1, KitStays
<1>3. UNCHANGED cbMap /\ js.pc \in {"idle", "handler"}
  BY <1>1 DEF kitVars, MayCall
<1>4. AppTypes'
  BY <1>1 DEF AppInv, AppTypes
<1>5. HandlerFits'
  BY <1>1 DEF AppInv, HandlerFits
<1>6. CASE binding = "napi"
  <2>1. js' \in JsRecord /\ js'.pc = "get" /\ js'.op = "init" /\ js'.u = "local"
    <3>1. Start("init", "local") /\ "local" \in Updaters
      BY <1>6 DEF GetLocalUpdater, Updaters
    <3>2. QED BY <3>1, StartEffect
  <2>2. JsTypes' /\ StuckOnlyByOwnCall' /\ OffIsNoted'
    BY <2>1 DEF JsTypes, StuckOnlyByOwnCall, OffIsNoted, Updaters
  <2>3. WantedOrUnderWay'
    BY <1>1, <1>3, <2>1 DEF AppInv, WantedOrUnderWay, Wanted, Explained, Registers, Updaters
  <2>4. QED BY <1>2, <1>4, <1>5, <2>2, <2>3 DEF AppInv
<1>7. CASE binding # "napi"
  <2>1. UNCHANGED js /\ binding = "ani"
    BY <1>7 DEF GetLocalUpdater, AppInv, AppTypes
  <2>2. JsTypes' /\ StuckOnlyByOwnCall' /\ OffIsNoted'
    BY <1>1, <2>1 DEF AppInv, JsTypes, StuckOnlyByOwnCall, OffIsNoted
  <2>3. WantedOrUnderWay'
    BY <1>1, <1>3, <2>1 DEF AppInv, WantedOrUnderWay, Wanted, Explained, Registers, Updaters
  <2>4. QED BY <1>2, <1>4, <1>5, <2>2, <2>3 DEF AppInv
<1>8. QED BY <1>6, <1>7

(* A call that blocks its thread changes nothing else.                     *)
LEMMA StuckStep ==
    ASSUME AppInv, NEW op \in {"on", "off"}, NEW u \in Updaters, NEW c \in Classes, NEW h, MayCall,
           Blocks(op, u, c, h), Stuck(op, u, c),
           UNCHANGED <<binding, unlocked, created, listeners, queue, event, held, cbMap, why>>
    PROVE  AppInv'
<1>1. js' \in JsRecord /\ js'.pc = "stuck" /\ js'.u = u /\ js'.c = c
  BY StuckEffect
<1>2. held # Nobody /\ event.u = u /\ (binding = "ani" \/ held.c = c)
  BY DEF Blocks, SameClass
<1>3. AppTypes' /\ JsTypes'
  BY <1>1 DEF AppInv, AppTypes, JsTypes
<1>4. HandlerFits' /\ OffIsNoted'
  BY <1>1 DEF AppInv, HandlerFits, OffIsNoted
<1>5. StuckOnlyByOwnCall'
  BY <1>1, <1>2 DEF StuckOnlyByOwnCall
<1>6. js.pc \in {"idle", "handler"}
  BY DEF MayCall
<1>7. WantedOrUnderWay'
  BY <1>1, <1>6 DEF AppInv, WantedOrUnderWay, Wanted, Explained, Registers
<1>8. QED BY <1>3, <1>4, <1>5, <1>7 DEF AppInv

\* on adds a listener and may start a registration, or blocks in its own handler.
LEMMA OnStep ==
    ASSUME AppInv, KitInv, NEW u \in Updaters, NEW s \in Subscriptions, On(u, s.c, s.h)
    PROVE  AppInv' /\ KitInv'
<1>1. /\ MayCall /\ (u = "local" => created)
      /\ UNCHANGED <<binding, unlocked, created, event, held, queue, worker, kitVars, notices, svcVars,
                     why, missed, unfinished>>
  BY DEF On
<1>2. KitInv'
  BY <1>1, KitStays
<1>3. UNCHANGED cbMap /\ js.pc \in {"idle", "handler"}
  BY <1>1 DEF kitVars, MayCall
<1>4. CASE Blocks("on", u, s.c, s.h) /\ Stuck("on", u, s.c) /\ UNCHANGED listeners
  <2>1. s.c \in Classes
    BY DEF Classes
  <2>2. QED BY <1>1, <1>2, <1>3, <1>4, <2>1, StuckStep
<1>5. CASE /\ Len(listeners[u]) < MaxListeners[u]
           /\ listeners' = [listeners EXCEPT ![u] = Append(@, [c |-> s.c, h |-> s.h])]
           /\ IF RegistersWhen(u) THEN Start("on", u) ELSE UNCHANGED js
  <2>1. [c |-> s.c, h |-> s.h] = s /\ s \in Listener
    BY SubscriptionsAssumption DEF Listener
  <2>2. listeners[u] \in Seq(Listener) /\ listeners \in [Updaters -> Seq(Listener)]
    BY DEF AppInv, AppTypes
  <2>3. listeners'[u] = Append(listeners[u], s) /\ \A v \in Updaters \ {u} : listeners'[v] = listeners[v]
    BY <1>5, <2>1, <2>2
  <2>4. Append(listeners[u], s) \in Seq(Listener) /\ Len(Append(listeners[u], s)) = Len(listeners[u]) + 1
    BY <2>1, <2>2
  <2>5. listeners' \in [Updaters -> Seq(Listener)]
    BY <1>5, <2>1, <2>2, <2>4
  <2>6. \A v \in Updaters : Len(listeners'[v]) <= MaxListeners[v]
    <3>1. MaxListeners[u] \in Nat /\ Len(listeners[u]) \in Nat
      BY <2>2, BoundsAssumption DEF Updaters
    <3>2. Len(listeners'[u]) <= MaxListeners[u]
      BY <1>5, <2>3, <2>4, <3>1
    <3>3. QED BY <2>3, <3>2 DEF AppInv, AppTypes
  <2>7. AppTypes'
    BY <1>1, <2>5, <2>6 DEF AppInv, AppTypes
  <2>8. \A v \in Updaters : ToSet(listeners[v]) \subseteq ToSet(listeners'[v])
    <3>1. ToSet(listeners[u]) \subseteq ToSet(Append(listeners[u], s))
      BY <2>1, <2>2, <2>4 DEF ToSet
    <3>2. QED BY <2>3, <3>1
  <2>9. HandlerFits'
    BY <1>1, <2>8 DEF AppInv, HandlerFits, Event
  <2>10. CASE RegistersWhen(u)
    <3>1. js' \in JsRecord /\ js'.pc = "get" /\ js'.op = "on" /\ js'.u = u
      BY <1>5, <2>10, StartEffect
    <3>2. JsTypes' /\ StuckOnlyByOwnCall' /\ OffIsNoted'
      BY <3>1 DEF JsTypes, StuckOnlyByOwnCall, OffIsNoted
    <3>3. WantedOrUnderWay'
      BY <1>1, <1>3, <2>3, <3>1 DEF AppInv, WantedOrUnderWay, Wanted, Explained, Registers
    <3>4. QED BY <1>2, <2>7, <2>9, <3>2, <3>3 DEF AppInv
  <2>11. CASE ~RegistersWhen(u)
    <3>1. UNCHANGED js /\ Wanted(u)
      BY <1>1, <1>5, <2>11 DEF RegistersWhen, Wanted, Updaters
    <3>2. JsTypes' /\ StuckOnlyByOwnCall' /\ OffIsNoted'
      BY <1>1, <1>3, <3>1 DEF AppInv, JsTypes, StuckOnlyByOwnCall, OffIsNoted
    <3>3. WantedOrUnderWay'
      BY <1>1, <1>3, <2>3, <3>1 DEF AppInv, WantedOrUnderWay, Wanted, Explained, Registers
    <3>4. QED BY <1>2, <2>7, <2>9, <3>2, <3>3 DEF AppInv
  <2>12. QED BY <2>10, <2>11
<1>6. QED BY <1>4, <1>5 DEF On

\* off removes listeners and may start an unregistration, or blocks.
LEMMA OffStep ==
    ASSUME AppInv, KitInv, NEW u \in Updaters, NEW c \in Classes, NEW hs, hs # {}, Off(u, c, hs)
    PROVE  AppInv' /\ KitInv'
<1>1. /\ MayCall /\ (u = "local" => created)
      /\ UNCHANGED <<binding, unlocked, created, event, held, queue, worker, kitVars, notices, svcVars,
                     missed, unfinished>>
  BY DEF Off
<1>2. KitInv'
  BY <1>1, KitStays
<1>3. UNCHANGED cbMap /\ js.pc \in {"idle", "handler"}
  BY <1>1 DEF kitVars, MayCall
<1>4. CASE (\E h \in hs : Blocks("off", u, c, h)) /\ Stuck("off", u, c) /\ UNCHANGED <<listeners, why>>
  BY <1>1, <1>2, <1>3, <1>4, StuckStep
<1>5. ASSUME \A h \in hs : ~Blocks("off", u, c, h),
             NEW left \in BoundedSeq(Listener, Len(listeners[u])), Unsubscribe(u, c, hs, left),
             listeners' = [listeners EXCEPT ![u] = left],
             IF UnregistersWhen(u, left) THEN Start("off", u) /\ why' = [why EXCEPT ![u] = "off"]
             ELSE UNCHANGED <<js, why>>
      PROVE  AppInv' /\ KitInv'
  <2>1. /\ left \in Seq(Listener) /\ Len(left) <= Len(listeners[u])
        /\ \A l \in ToSet(listeners[u]) : (\A h \in hs : ~Same(l, c, h)) => l \in ToSet(left)
        /\ listeners[u] = <<>> => left = <<>>
    BY <1>5, UnsubscribeEffect DEF AppInv
  <2>2. listeners[u] \in Seq(Listener) /\ listeners \in [Updaters -> Seq(Listener)]
    BY DEF AppInv, AppTypes
  <2>3. listeners'[u] = left /\ (\A v \in Updaters \ {u} : listeners'[v] = listeners[v])
        /\ listeners' \in [Updaters -> Seq(Listener)]
    BY <1>5, <2>1, <2>2
  <2>4. \A v \in Updaters : Len(listeners'[v]) <= MaxListeners[v]
    <3>1. MaxListeners[u] \in Nat /\ Len(listeners[u]) \in Nat /\ Len(left) \in Nat
          /\ Len(listeners[u]) <= MaxListeners[u]
      BY <2>1, <2>2, BoundsAssumption DEF Updaters, AppInv, AppTypes
    <3>2. Len(left) <= MaxListeners[u]
      BY <2>1, <3>1
    <3>3. QED BY <2>3, <3>2 DEF AppInv, AppTypes
  <2>5. why' \in [Updaters -> {None, "off", "failed"}]
    BY <1>5 DEF AppInv, AppTypes
  <2>6. AppTypes'
    BY <1>1, <2>3, <2>4, <2>5 DEF AppInv, AppTypes
  <2>7. HandlerFits'
    <3>1. SUFFICES ASSUME held # Nobody PROVE held \in ToSet(listeners'[event.u])
      BY <1>1 DEF AppInv, HandlerFits
    <3>2. event.u \in Updaters /\ held \in ToSet(listeners[event.u])
      BY <3>1 DEF AppInv, HandlerFits, Event
    <3>3. CASE event.u # u
      BY <2>3, <3>2, <3>3
    <3>4. CASE event.u = u
      <4>1. binding = "napi" /\ held.c # c
        BY <1>5, <3>1, <3>4 DEF Blocks, SameClass, AppInv, AppTypes
      <4>2. \A h \in hs : ~Same(held, c, h)
        BY <4>1 DEF Same
      <4>3. QED BY <2>1, <2>3, <3>2, <3>4, <4>2
    <3>5. QED BY <3>3, <3>4
  <2>8. CASE UnregistersWhen(u, left)
    <3>1. js' \in JsRecord /\ js'.pc = "get" /\ js'.op = "off" /\ js'.u = u
      BY <1>5, <2>8, StartEffect
    <3>2. why' = [why EXCEPT ![u] = "off"] /\ u = "online" /\ (binding = "ani" => left = <<>>)
      BY <1>5, <2>8 DEF UnregistersWhen
    <3>3. why'[u] = "off" /\ \A v \in Updaters \ {u} : why'[v] = why[v]
      BY <3>2 DEF AppInv, AppTypes
    <3>4. JsTypes' /\ StuckOnlyByOwnCall' /\ OffIsNoted'
      BY <1>1, <2>3, <3>1, <3>2, <3>3 DEF JsTypes, StuckOnlyByOwnCall, OffIsNoted
    <3>5. WantedOrUnderWay'
      <4>1. SUFFICES ASSUME NEW v \in Updaters, Wanted(v)' PROVE Explained(v)'
        BY DEF WantedOrUnderWay
      <4>2. CASE v = u
        <5>1. binding = "napi"
          BY <1>1, <2>3, <3>2, <4>1, <4>2 DEF Wanted, AppInv, AppTypes
        <5>2. QED BY <1>1, <3>3, <4>2, <5>1 DEF Explained
      <4>3. CASE v # u
        BY <1>1, <1>3, <2>3, <3>3, <4>1, <4>3 DEF AppInv, WantedOrUnderWay, Wanted, Explained, Registers
      <4>4. QED BY <4>2, <4>3
    <3>6. QED BY <1>2, <2>6, <2>7, <3>4, <3>5 DEF AppInv
  <2>9. CASE ~UnregistersWhen(u, left)
    <3>1. UNCHANGED <<js, why>>
      BY <1>5, <2>9
    <3>2. \A v \in Updaters : Wanted(v)' => Wanted(v)
      BY <1>1, <2>1, <2>3 DEF Wanted
    <3>3. JsTypes' /\ StuckOnlyByOwnCall' /\ OffIsNoted'
      BY <1>1, <1>3, <3>1 DEF AppInv, JsTypes, StuckOnlyByOwnCall, OffIsNoted
    <3>4. WantedOrUnderWay'
      BY <1>1, <1>3, <3>1, <3>2 DEF AppInv, WantedOrUnderWay, Explained, Registers
    <3>5. QED BY <1>2, <2>6, <2>7, <3>3, <3>4 DEF AppInv
  <2>10. QED BY <2>8, <2>9
<1>6. QED BY <1>4, <1>5 DEF Off

\* The call of the JS thread gets the service, or fails and may try again.
LEMMA CallGetServiceStep == ASSUME AppInv, KitInv, CallGetService PROVE AppInv' /\ KitInv'
<1>1. /\ js.pc = "get" /\ js \in JsRecord /\ js.u \in Updaters /\ js.op \in {"on", "off", "init"}
      /\ UNCHANGED <<binding, unlocked, created, listeners, event, held, queue, worker, cbMap, retryTimes, notices>>
  BY DEF CallGetService, AppInv, JsTypes
<1>2. HandlerFits'
  BY <1>1 DEF AppInv, HandlerFits
<1>3. ASSUME NEW g \in Processes, GetService(g), js' = [js EXCEPT !.pc = "ipc", !.got = g], UNCHANGED <<why,
                                                                                                        unfinished>>
      PROVE  AppInv' /\ KitInv'
  <2>1. Reaches
    BY <1>3, GetServiceEffect DEF AppInv, KitInv
  <2>2. /\ WantedIsRegistered' /\ StaleOnlyAfterFailedOff'
        /\ proxy' \in 0..MaxGen /\ gen' \in 0..MaxGen /\ up' \in BOOLEAN /\ proxy' <= gen' /\ (up' => gen' > 0)
        /\ recipients' \subseteq Processes /\ reg' \subseteq Updaters
    BY <1>1, <1>3, <2>1, ReachesKeeps DEF KitInv
  <2>3. KitInv'
    BY <1>1, <1>3, <2>2 DEF KitInv, KitTypes
  <2>4. g \in 0..MaxGen
    BY DEF Processes
  <2>5. js' \in JsRecord
    BY <1>1, <1>3, <2>4 DEF JsRecord
  <2>6. js'.pc = "ipc" /\ js'.op = js.op /\ js'.u = js.u
    BY <1>1, <1>3 DEF JsRecord
  <2>7. AppTypes' /\ JsTypes'
    BY <1>1, <1>3, <2>5, <2>6 DEF AppInv, AppTypes, JsTypes
  <2>8. StuckOnlyByOwnCall' /\ OffIsNoted'
    BY <1>1, <1>3, <2>6 DEF AppInv, StuckOnlyByOwnCall, OffIsNoted
  <2>9. WantedOrUnderWay'
    BY <1>1, <1>3, <2>6 DEF AppInv, WantedOrUnderWay, Wanted, Explained, Registers
  <2>10. QED BY <1>2, <2>3, <2>7, <2>8, <2>9 DEF AppInv
<1>4. ASSUME NoService, js' = Again,
             why' = IF js.op # "off" /\ js.u \notin cbMap THEN [why EXCEPT ![js.u] = "failed"] ELSE why,
             unfinished' = IF js.op = "off" THEN unfinished \cup {js.u} ELSE unfinished
      PROVE  AppInv' /\ KitInv'
  <2>1. Reaches
    BY <1>4, NoServiceEffect DEF Reaches
  <2>2. unfinished \subseteq unfinished' /\ unfinished' \subseteq Updaters
    BY <1>1, <1>4 DEF KitInv, KitTypes
  <2>3. /\ WantedIsRegistered' /\ StaleOnlyAfterFailedOff'
        /\ proxy' \in 0..MaxGen /\ gen' \in 0..MaxGen /\ up' \in BOOLEAN /\ proxy' <= gen' /\ (up' => gen' > 0)
        /\ recipients' \subseteq Processes /\ reg' \subseteq Updaters
    BY <1>1, <2>1, <2>2, ReachesKeeps DEF KitInv
  <2>4. KitInv'
    BY <1>1, <2>2, <2>3 DEF KitInv, KitTypes
  <2>5. /\ js' \in JsRecord
        /\ \/ js'.pc \in {"idle", "handler"} /\ (js'.pc = "handler" => held # Nobody)
           \/ js'.pc = "get" /\ js'.op = js.op /\ js'.u = js.u /\ js.op = "on"
    BY <1>1, <1>4, AgainEffect
  <2>6. why' \in [Updaters -> {None, "off", "failed"}]
    BY <1>1, <1>4 DEF AppInv, AppTypes
  <2>7. AppTypes' /\ JsTypes'
    BY <1>1, <2>5, <2>6 DEF AppInv, AppTypes, JsTypes
  <2>8. StuckOnlyByOwnCall' /\ OffIsNoted'
    BY <2>5 DEF StuckOnlyByOwnCall, OffIsNoted
  <2>9. WantedOrUnderWay'
    <3>1. SUFFICES ASSUME NEW v \in Updaters, Wanted(v) PROVE Explained(v)'
      BY <1>1 DEF WantedOrUnderWay, Wanted
    <3>2. CASE js.op # "off" /\ js.u \notin cbMap
      <4>1. why' = [why EXCEPT ![js.u] = "failed"]
        BY <1>4, <3>2
      <4>2. CASE v = js.u
        BY <1>1, <4>1, <4>2 DEF Explained, AppInv, AppTypes
      <4>3. CASE v # js.u
        <5>1. why'[v] = why[v]
          BY <1>1, <4>1, <4>3 DEF AppInv, AppTypes
        <5>2. QED BY <1>1, <3>1, <4>3, <5>1 DEF AppInv, WantedOrUnderWay, Explained, Registers
      <4>4. QED BY <4>2, <4>3
    <3>3. CASE ~(js.op # "off" /\ js.u \notin cbMap)
      <4>1. why' = why
        BY <1>4, <3>3
      <4>2. QED BY <1>1, <3>1, <3>3, <4>1 DEF AppInv, WantedOrUnderWay, Explained, Registers
    <3>4. QED BY <3>2, <3>3
  <2>10. QED BY <1>2, <2>4, <2>7, <2>8, <2>9 DEF AppInv
<1>5. QED BY <1>3, <1>4 DEF CallGetService

\* The registration reaches the map, and the service if it answers.
LEMMA RegisterUpdateCallbackStep == ASSUME AppInv, KitInv, RegisterUpdateCallback PROVE AppInv' /\ KitInv'
<1>1. /\ js.pc = "ipc" /\ js \in JsRecord /\ js.u \in Updaters /\ js.op \in {"on", "init"}
      /\ cbMap' = cbMap \cup {js.u} /\ why' = [why EXCEPT ![js.u] = None] /\ unfinished' = unfinished \ {js.u}
      /\ UNCHANGED <<binding, unlocked, created, listeners, event, held, queue, worker, recipients, retryTimes,
                     notices, gen, up, missed>>
  BY DEF RegisterUpdateCallback, AppInv, JsTypes
<1>2. HandlerFits'
  BY <1>1 DEF AppInv, HandlerFits
<1>3. why' \in [Updaters -> {None, "off", "failed"}] /\ \A v \in Updaters \ {js.u} : why'[v] = why[v]
  BY <1>1 DEF AppInv, AppTypes
<1>4. /\ js' \in JsRecord
      /\ \/ js'.pc \in {"idle", "handler"} /\ (js'.pc = "handler" => held # Nobody)
         \/ js'.pc = "get" /\ js'.op = js.op /\ js'.u = js.u /\ js.op = "on"
  <2>1. js' = Done \/ js' = Again
    BY DEF RegisterUpdateCallback
  <2>2. QED BY <1>1, <2>1, DoneEffect, AgainEffect
<1>5. AppTypes' /\ JsTypes'
  BY <1>1, <1>3, <1>4 DEF AppInv, AppTypes, JsTypes
<1>6. StuckOnlyByOwnCall' /\ OffIsNoted'
  BY <1>4 DEF StuckOnlyByOwnCall, OffIsNoted
<1>7. WantedOrUnderWay'
  <2>1. SUFFICES ASSUME NEW v \in Updaters, Wanted(v) PROVE Explained(v)'
    BY <1>1 DEF WantedOrUnderWay, Wanted
  <2>2. CASE v = js.u
    BY <1>1, <2>2 DEF Explained
  <2>3. CASE v # js.u
    BY <1>1, <1>3, <2>1, <2>3 DEF AppInv, WantedOrUnderWay, Explained, Registers
  <2>4. QED BY <2>2, <2>3
<1>8. KitInv'
  <2>1. CASE Answers(js.got) /\ reg' = reg \cup {js.u} /\ UNCHANGED proxy
    BY <1>1, <2>1 DEF KitInv, KitTypes, WantedIsRegistered, StaleOnlyAfterFailedOff
  <2>2. CASE proxy' = NoProxy /\ UNCHANGED reg
    <3>1. proxy' \in 0..MaxGen /\ proxy' <= gen /\ ~(up /\ proxy' = gen)
      BY <2>2, BoundsAssumption DEF KitInv, KitTypes, NoProxy
    <3>2. QED BY <1>1, <2>2, <3>1 DEF KitInv, KitTypes, WantedIsRegistered, StaleOnlyAfterFailedOff
  <2>3. QED BY <2>1, <2>2 DEF RegisterUpdateCallback
<1>9. QED BY <1>2, <1>5, <1>6, <1>7, <1>8 DEF AppInv

\* The unregistration leaves the map, and the service if it answers.
LEMMA UnregisterUpdateCallbackStep == ASSUME AppInv, KitInv, UnregisterUpdateCallback PROVE AppInv' /\ KitInv'
<1>1. /\ js.pc = "ipc" /\ js.op = "off" /\ js.u \in Updaters /\ cbMap' = cbMap \ {js.u} /\ js' = Done
      /\ UNCHANGED <<binding, unlocked, created, listeners, event, held, queue, worker, recipients, retryTimes,
                     notices, gen, up, why, missed>>
  BY DEF UnregisterUpdateCallback, AppInv, JsTypes
<1>2. HandlerFits'
  BY <1>1 DEF AppInv, HandlerFits
<1>3. js' \in JsRecord /\ js'.pc \in {"idle", "handler"} /\ (js'.pc = "handler" => held # Nobody)
  BY <1>1, DoneEffect
<1>4. AppTypes' /\ JsTypes'
  BY <1>1, <1>3 DEF AppInv, AppTypes, JsTypes
<1>5. StuckOnlyByOwnCall' /\ OffIsNoted'
  BY <1>3 DEF StuckOnlyByOwnCall, OffIsNoted
<1>6. WantedOrUnderWay'
  <2>1. SUFFICES ASSUME NEW v \in Updaters, Wanted(v) PROVE Explained(v)'
    BY <1>1 DEF WantedOrUnderWay, Wanted
  <2>2. CASE v = js.u
    <3>1. why[v] = "off" /\ (binding = "ani" => v = "online" /\ listeners[v] = <<>>)
      BY <1>1, <2>2 DEF AppInv, OffIsNoted
    <3>2. binding = "napi"
      BY <2>1, <3>1 DEF Wanted, AppInv, AppTypes
    <3>3. QED BY <1>1, <3>1, <3>2 DEF Explained
  <2>3. CASE v # js.u
    BY <1>1, <2>1, <2>3 DEF AppInv, WantedOrUnderWay, Explained, Registers
  <2>4. QED BY <2>2, <2>3
<1>7. KitInv'
  <2>1. CASE Answers(js.got) /\ reg' = reg \ {js.u} /\ UNCHANGED <<proxy, unfinished>>
    BY <1>1, <2>1 DEF KitInv, KitTypes, WantedIsRegistered, StaleOnlyAfterFailedOff
  <2>2. CASE proxy' = NoProxy /\ unfinished' = unfinished \cup {js.u} /\ UNCHANGED reg
    <3>1. proxy' \in 0..MaxGen /\ proxy' <= gen /\ ~(up /\ proxy' = gen)
      BY <2>2, BoundsAssumption DEF KitInv, KitTypes, NoProxy
    <3>2. QED BY <1>1, <2>2, <3>1 DEF KitInv, KitTypes, WantedIsRegistered, StaleOnlyAfterFailedOff
  <2>3. QED BY <2>1, <2>2 DEF UnregisterUpdateCallback
<1>8. QED BY <1>2, <1>4, <1>5, <1>6, <1>7 DEF AppInv

(* The events reach the listeners.                                         *)
LEMMA NotifyAfterEffect ==
    ASSUME AppInv, NEW e \in Event, NEW i \in Nat, NotifyAfter(i, e),
           UNCHANGED <<binding, unlocked, created, listeners, cbMap, why>>,
           js.pc \in {"idle", "handler"}, queue' \in Seq(Event), Len(queue') <= MaxQueue
    PROVE  AppInv'
<1>1. listeners[e.u] \in Seq(Listener)
  BY DEF AppInv, AppTypes, Event
<1>2. CASE held' = Nobody /\ js' = Idle
  <2>1. js' \in JsRecord /\ js'.pc = "idle"
    BY <1>2, IdleFields
  <2>2. AppTypes' /\ JsTypes'
    BY <1>2, <2>1 DEF AppInv, AppTypes, JsTypes
  <2>3. HandlerFits' /\ StuckOnlyByOwnCall' /\ OffIsNoted'
    BY <1>2, <2>1 DEF HandlerFits, StuckOnlyByOwnCall, OffIsNoted
  <2>4. WantedOrUnderWay'
    BY <2>1 DEF AppInv, WantedOrUnderWay, Wanted, Explained, Registers
  <2>5. QED BY <2>2, <2>3, <2>4 DEF AppInv
<1>3. ASSUME NEW j \in (i + 1)..Len(listeners[e.u]), IsSubscribeEvent(listeners[e.u][j], e.c),
             held' = listeners[e.u][j], event' = e, js' = [Idle EXCEPT !.pc = "handler"]
      PROVE  AppInv'
  <2>1. j \in DOMAIN listeners[e.u]
    BY <1>1
  <2>2. held' \in Listener /\ held' \in ToSet(listeners[e.u])
    BY <1>1, <1>3, <2>1 DEF ToSet
  <2>3. held' # Nobody
    BY <2>2, SubscriptionsAssumption DEF Listener
  <2>4. js' \in JsRecord /\ js'.pc = "handler"
    BY <1>3, IdleFields DEF JsRecord
  <2>5. AppTypes' /\ JsTypes'
    BY <2>2, <2>3, <2>4 DEF AppInv, AppTypes, JsTypes
  <2>6. HandlerFits'
    BY <1>3, <2>2 DEF HandlerFits, IsSubscribeEvent, SameClass
  <2>7. StuckOnlyByOwnCall' /\ OffIsNoted'
    BY <2>4 DEF StuckOnlyByOwnCall, OffIsNoted
  <2>8. WantedOrUnderWay'
    BY <2>4 DEF AppInv, WantedOrUnderWay, Wanted, Explained, Registers
  <2>9. QED BY <2>5, <2>6, <2>7, <2>8 DEF AppInv
<1>4. QED BY <1>2, <1>3 DEF NotifyAfter

\* The next event of the queue is told to its first listener, if any.
LEMMA PublishToJSStep == ASSUME AppInv, KitInv, PublishToJS PROVE AppInv' /\ KitInv'
<1>1. /\ js.pc = "idle" /\ queue # <<>> /\ queue' = Tail(queue) /\ NotifyAfter(0, Head(queue))
      /\ UNCHANGED <<binding, unlocked, created, listeners, worker, kitVars, notices, svcVars,
                     why, missed, unfinished>>
  BY DEF PublishToJS
<1>2. KitInv'
  BY <1>1, KitStays
<1>3. queue \in Seq(Event) /\ Len(queue) <= MaxQueue
  BY DEF AppInv, AppTypes
<1>4. Head(queue) \in Event /\ queue' \in Seq(Event) /\ Len(queue') <= MaxQueue
  BY <1>1, <1>3, HeadTailProperties, BoundsAssumption
<1>5. UNCHANGED cbMap
  BY <1>1 DEF kitVars
<1>6. QED BY <1>1, <1>2, <1>4, <1>5, NotifyAfterEffect

\* A handler returns, and the next listener is looked for behind it.
LEMMA HandlerReturnsStep == ASSUME AppInv, KitInv, HandlerReturns PROVE AppInv' /\ KitInv'
<1>1. /\ js.pc = "handler"
      /\ UNCHANGED <<binding, unlocked, created, listeners, queue, worker, kitVars, notices, svcVars,
                     why, missed, unfinished>>
  BY DEF HandlerReturns
<1>2. KitInv'
  BY <1>1, KitStays
<1>3. event \in Event
  BY <1>1 DEF AppInv, JsTypes, HandlerFits
<1>4. PICK i \in DOMAIN listeners[event.u] : NotifyAfter(i, event)
  BY DEF HandlerReturns
<1>5. i \in Nat
  BY <1>3, <1>4 DEF AppInv, AppTypes, Event
<1>6. UNCHANGED cbMap /\ queue' \in Seq(Event) /\ Len(queue') <= MaxQueue
  BY <1>1 DEF kitVars, AppInv, AppTypes
<1>7. QED BY <1>1, <1>2, <1>3, <1>4, <1>5, <1>6, NotifyAfterEffect

(* The process starts in a state of the invariant.                         *)
LEMMA ClientInvInit == Init => ClientInv
<1> SUFFICES ASSUME Init PROVE ClientInv
  OBVIOUS
<1>1. /\ binding \in {"napi", "ani"} /\ unlocked \in BOOLEAN /\ created = FALSE
      /\ listeners = [u \in Updaters |-> <<>>] /\ queue = <<>> /\ held = Nobody /\ js = Idle
      /\ why = [u \in Updaters |-> None]
  BY DEF Init
<1>2. \A u \in Updaters : listeners[u] = <<>>
  BY <1>1
<1>3. AppTypes
  <2>1. <<>> \in Seq(Listener) /\ <<>> \in Seq(Event) /\ Len(<<>>) = 0
    OBVIOUS
  <2>2. \A u \in Updaters : Len(listeners[u]) <= MaxListeners[u]
    BY <1>2, <2>1, BoundsAssumption DEF Updaters
  <2>3. Len(queue) <= MaxQueue
    BY <1>1, <2>1, BoundsAssumption
  <2>4. listeners \in [Updaters -> Seq(Listener)] /\ why \in [Updaters -> {None, "off", "failed"}]
    BY <1>1, <2>1
  <2>5. QED BY <1>1, <2>1, <2>2, <2>3, <2>4 DEF AppTypes
<1>4. JsTypes /\ StuckOnlyByOwnCall /\ OffIsNoted
  BY <1>1, IdleFields DEF JsTypes, StuckOnlyByOwnCall, OffIsNoted
<1>5. HandlerFits
  BY <1>1 DEF HandlerFits
<1>6. WantedOrUnderWay
  BY <1>1, <1>2 DEF WantedOrUnderWay, Wanted
<1>7. KitTypes
  <2>1. /\ worker = 0 /\ proxy = 0 /\ gen = 0 /\ up = FALSE /\ retryTimes = 0
        /\ recipients = {} /\ notices = {} /\ cbMap = {} /\ reg = {} /\ unfinished = {}
    BY DEF Init
  <2>2. 0 \in 0..MaxGen /\ 0 \in 0..retryMaxTimes
    BY BoundsAssumption, TriesAssumption
  <2>3. proxy <= gen /\ (up => gen > 0)
    BY <2>1
  <2>4. /\ worker \in 0..MaxGen /\ proxy \in 0..MaxGen /\ gen \in 0..MaxGen
        /\ retryTimes \in 0..retryMaxTimes
    BY <2>1, <2>2
  <2>5. /\ recipients \subseteq Processes /\ notices \subseteq Processes
        /\ cbMap \subseteq Updaters /\ reg \subseteq Updaters /\ unfinished \subseteq Updaters
        /\ up \in BOOLEAN
    BY <2>1
  <2>6. QED BY <2>3, <2>4, <2>5 DEF KitTypes
<1>8. WantedIsRegistered /\ StaleOnlyAfterFailedOff
  BY DEF Init, WantedIsRegistered, StaleOnlyAfterFailedOff
<1>9. QED BY <1>3, <1>4, <1>5, <1>6, <1>7, <1>8 DEF ClientInv

(* Every step of the process and of the service keeps the invariant.       *)
LEMMA ClientInvStep == ClientInv /\ [Next]_vars => ClientInv'
<1> SUFFICES ASSUME ClientInv, [Next]_vars PROVE ClientInv'
  OBVIOUS
<1>1. AppInv /\ KitInv
  BY DEF ClientInv, AppInv, KitInv
<1>2. CASE UNCHANGED vars
  <2>1. AppInv'
    BY <1>1, <1>2, AppStays DEF vars, appVars, kitVars
  <2>2. KitInv'
    BY <1>1, <1>2, KitStays DEF vars
  <2>3. QED BY <2>1, <2>2 DEF ClientInv, AppInv, KitInv
<1>3. ASSUME NEW u \in Updaters, NEW s \in Subscriptions, On(u, s.c, s.h) \/ Off(u, s.c, {s.h})
      PROVE  AppInv' /\ KitInv'
  <2>1. s.c \in Classes /\ {s.h} # {}
    BY DEF Classes
  <2>2. QED BY <1>1, <1>3, <2>1, OnStep, OffStep
<1>4. ASSUME NEW u \in Updaters, NEW c \in Classes, Off(u, c, Handlers)
      PROVE  AppInv' /\ KitInv'
  <2>1. Handlers # {}
    BY DEF Classes, Handlers
  <2>2. QED BY <1>1, <1>4, <2>1, OffStep
<1>5. CASE Next
  <2>1. AppInv' /\ KitInv'
    BY <1>1, <1>3, <1>4, <1>5, ServiceDiesStep, ServiceStartsStep, UserUnlocksStep, ServiceEventStep, ResetServiceStep,
       WorkerGetServiceStep, WorkerCallsStep, GetLocalUpdaterStep, CallGetServiceStep,
       RegisterUpdateCallbackStep, UnregisterUpdateCallbackStep, PublishToJSStep, HandlerReturnsStep DEF Next
  <2>2. QED BY <2>1 DEF ClientInv, AppInv, KitInv
<1>6. QED BY <1>2, <1>5

(* The invariant holds throughout.                                         *)
LEMMA ClientInvHolds == Spec => []ClientInv
BY ClientInvInit, ClientInvStep, PTL DEF Spec

-----------------------------------------------------------------------------
(* A handler runs only while it is subscribed to the event it is told of,  *)
(* and only its own on or off blocks the JS thread: for any listeners, in  *)
(* either binding.                                                         *)
THEOREM HandlersAreSubscribed == Spec => []HandlerInv
<1>1. ClientInv => HandlerInv
  <2> SUFFICES ASSUME ClientInv PROVE HandlerInv
    OBVIOUS
  <2>1. js.pc \in {"idle", "handler", "get", "ipc", "stuck"} /\ js.tries \in 0..(maxRetryTimes - 1) /\ js.got \in 0..MaxGen
    BY DEF ClientInv, JsTypes, JsRecord
  <2>2. TypeOK
    BY <2>1 DEF ClientInv, AppTypes, KitTypes, TypeOK
  <2>3. HandlerIsSubscribed
    BY DEF ClientInv, HandlerFits, HandlerIsSubscribed
  <2>4. QED BY <2>2, <2>3 DEF ClientInv, HandlerInv
<1>2. QED BY <1>1, ClientInvHolds, PTL

(* The callbacks of the kit and those of the service agree, over any       *)
(* number of deaths of the service, late death notices and failing calls,  *)
(* with the two exceptions the property names.                             *)
THEOREM CallbacksAgree == Spec => []RegistrationsAgree
<1>1. ClientInv => RegistrationsAgree
  BY DEF ClientInv, RegistrationsAgree
<1>2. QED BY <1>1, ClientInvHolds, PTL

(* An updater with listeners that the kit will not register again was told *)
(* off, or the service could not be loaded when it registered.             *)
THEOREM SilenceHasReason == Spec => []SilenceIsExplained
<1>1. ClientInv => SilenceIsExplained
  BY DEF ClientInv, SilenceIsExplained, WantedOrUnderWay, Wanted, Explained, Registers
<1>2. QED BY <1>1, ClientInvHolds, PTL

=============================================================================
