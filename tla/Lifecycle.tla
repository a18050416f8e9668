----------------------------- MODULE Lifecycle -----------------------------
(* The life of a tunnel across the parts that change or watch it: the        *)
(* request handlers of internal/api/handlers.go, the state cache (stateFor)  *)
(* and the detector's memory (lastSeen) they share, the detector loop of     *)
(* cmd/ispof/main.go, systemctl as internal/procmgr drives it, and systemd,  *)
(* which acts on its own.                                                    *)
(*                                                                           *)
(* The store is one variable here: Store shows that each of its calls acts   *)
(* as one step.  Between two steps of a handler anything may happen; each    *)
(* lock in the code (stateMu, lastSeenMu) spans exactly one step.            *)
EXTENDS Naturals, FiniteSets

CONSTANTS
    Names,       \* tunnels
    Handlers,    \* requests served at the same time
    Detector,    \* the goroutine of runStateDetector
    Kinds,       \* the kinds of request clients make
    MaxMishaps   \* bound: systemctl calls that fail, and restarts of the panel

Actions == {"start", "stop", "restart", "enable", "disable"}
Requests == Actions \cup {"view", "create", "update", "import", "delete"}

ASSUME LifecycleAssumption ==
    /\ Names # {}
    /\ Detector \notin Handlers
    /\ Kinds \subseteq Requests
    /\ MaxMishaps \in Nat

VARIABLES
    store,     \* each tunnel's config: none, created here, or imported
    source,    \* the file a tunnel is or may be imported from exists
    unit,      \* systemd's ActiveState of quiccochet@<name>
    enabled,   \* the unit starts at boot
    job,       \* what systemd still does of a systemctl call that timed out
    cache,     \* s.stateCache, "none" for no entry or one older than stateCacheTTL
    lastSeen,  \* s.lastSeen, "none" for no entry
    told,      \* what the event log last said of the tunnel's state
    mishaps,   \* systemctl calls that failed and restarts so far
    pc, on, kind, obs, note, \* each actor: place, tunnel, request, state read
    alone,     \* history: nobody else was at work on a's tunnel during a's request
    todo       \* the tunnels the detector has yet to look at

world == <<unit, enabled, job>>
memory == <<cache, lastSeen>>
local == <<pc, on, kind, obs, note, alone>>
vars == <<store, source, world, memory, told, mishaps, local, todo>>

AnyName == CHOOSE n \in Names : TRUE
Actors == Handlers \cup {Detector}
Unit == {"inactive", "active", "activating"}
Seen == Unit \cup {"none"}

(* The panel starts, perhaps again, beside the units it finds.               *)
Init ==
    /\ store \in [Names -> {"absent", "created", "imported"}]
    /\ source \in [Names -> BOOLEAN]
    /\ unit \in [Names -> Unit]
    /\ enabled \in [Names -> BOOLEAN]
    /\ \A n \in Names : store[n] = "absent" => unit[n] = "inactive" /\ ~enabled[n]
    /\ job = [n \in Names |-> "none"]
    /\ cache = [n \in Names |-> "none"]
    /\ lastSeen = [n \in Names |-> "none"]
    /\ told = [n \in Names |-> "none"]
    /\ mishaps = 0
    /\ pc = [a \in Actors |-> "idle"]
    /\ on = [a \in Actors |-> AnyName]
    /\ kind = [a \in Actors |-> "view"]
    /\ obs = [a \in Actors |-> "none"]
    /\ note = [a \in Actors |-> "none"]
    /\ alone = [a \in Actors |-> FALSE]
    /\ todo = {}

(* ---------------------------- bookkeeping -------------------------------- *)

At(a, label) == pc[a] = label
Goto(a, label) == pc' = [pc EXCEPT ![a] = label]
Busy(n) == {a \in Actors : pc[a] # "idle" /\ on[a] = n}

(* a turns to tunnel n: whoever is at work on n is not alone any more.       *)
Engage(a, n, k, label) ==
    /\ Goto(a, label)
    /\ on' = [on EXCEPT ![a] = n]
    /\ kind' = [kind EXCEPT ![a] = k]
    /\ obs' = [obs EXCEPT ![a] = "none"]
    /\ note' = [note EXCEPT ![a] = "none"]
    /\ alone' = [b \in Actors |-> IF b = a THEN Busy(n) \subseteq {a}
                                  ELSE alone[b] /\ b \notin Busy(n)]

(* a's request is over, or the detector is between two tunnels.              *)
Leave(a) ==
    /\ Goto(a, "idle")
    /\ on' = [on EXCEPT ![a] = AnyName]
    /\ kind' = [kind EXCEPT ![a] = "view"]
    /\ obs' = [obs EXCEPT ![a] = "none"]
    /\ note' = [note EXCEPT ![a] = "none"]
    /\ alone' = [alone EXCEPT ![a] = FALSE]

Move(a, label) == Goto(a, label) /\ UNCHANGED <<on, kind, obs, note, alone>>

(* Routing: which handler a request goes to, and where that one begins.      *)
First(k) == CASE k \in Actions -> "get"
              [] k = "view" -> "lookup"
              [] k = "delete" -> "dget"
              [] k = "import" -> "iread"
              [] OTHER -> "write"

Request(h) ==
    /\ At(h, "idle")
    /\ \E n \in Names, k \in Kinds : Engage(h, n, k, First(k))
    /\ UNCHANGED <<store, source, world, memory, told, mishaps, todo>>

(* ------------------------------ stateFor --------------------------------- *)

AfterState(a) == IF a = Detector THEN "compare" ELSE "answer"

Lookup(a) ==
    /\ At(a, "lookup")
    /\ IF cache[on[a]] # "none"
       THEN /\ obs' = [obs EXCEPT ![a] = cache[on[a]]]
            /\ Goto(a, AfterState(a))
       ELSE Goto(a, "probe") /\ UNCHANGED obs
    /\ UNCHANGED <<store, source, world, memory, told, mishaps, on, kind, note, alone, todo>>

(* systemctl show; when it cannot run, the empty state, which everyone reads *)
(* as inactive.                                                              *)
Probe(a) ==
    /\ At(a, "probe")
    /\ \/ obs' = [obs EXCEPT ![a] = unit[on[a]]] /\ UNCHANGED <<mishaps, alone>>
       \/ /\ mishaps < MaxMishaps /\ mishaps' = mishaps + 1
          /\ obs' = [obs EXCEPT ![a] = "inactive"]
          /\ alone' = [alone EXCEPT ![a] = FALSE]
    /\ Goto(a, "fill")
    /\ UNCHANGED <<store, source, world, memory, told, on, kind, note, todo>>

(* The entry counts as new from now, not from the moment of the probe.       *)
Fill(a) ==
    /\ At(a, "fill")
    /\ cache' = [cache EXCEPT ![on[a]] = obs[a]]
    /\ Move(a, AfterState(a))
    /\ UNCHANGED <<store, source, world, lastSeen, told, mishaps, todo>>

(* Mutant: cached states have no time to live.                               *)
ExpireNever(n) == FALSE /\ UNCHANGED vars

(* stateCacheTTL is over for n.                                              *)
Expire(n) ==
    /\ cache[n] # "none"
    /\ cache' = [cache EXCEPT ![n] = "none"]
    /\ UNCHANGED <<store, source, world, lastSeen, told, mishaps, local, todo>>

(* The response is written.                                                  *)
Respond(h) ==
    /\ At(h, "answer")
    /\ Leave(h)
    /\ UNCHANGED <<store, source, world, memory, told, mishaps, todo>>

(* ------------------------- systemctl and systemd ------------------------- *)

Effect(k, s) == CASE k \in {"start", "restart"} -> "active"
                  [] k = "stop" -> "inactive"
                  [] OTHER -> s
Enabling(k, e) == CASE k = "enable" -> TRUE [] k = "disable" -> FALSE [] OTHER -> e

(* systemctl k returns 0.  It replaces a job still queued for the unit.      *)
Systemctl(k, n) ==
    /\ unit' = [unit EXCEPT ![n] = Effect(k, @)]
    /\ enabled' = [enabled EXCEPT ![n] = Enabling(k, @)]
    /\ job' = [job EXCEPT ![n] = IF k \in {"enable", "disable"} THEN @ ELSE "none"]
    /\ UNCHANGED mishaps

(* It fails, or run's timeout kills it and systemd goes on with the job.     *)
SystemctlFails(k, n) ==
    /\ mishaps < MaxMishaps /\ mishaps' = mishaps + 1
    /\ \/ UNCHANGED job
       \/ k \notin {"enable", "disable"} /\ job' = [job EXCEPT ![n] = k]
    /\ UNCHANGED <<unit, enabled>>

(* What a request other than a delete takes for the state of n has changed.  *)
Becomes(n, s) ==
    /\ unit' = [unit EXCEPT ![n] = s]
    /\ alone' = [a \in Actors |-> alone[a] /\ (on[a] = n => kind[a] = "delete")]
    /\ UNCHANGED <<store, source, enabled, memory, told, mishaps, pc, on, kind, obs, note, todo>>

JobEnds(n) == /\ job[n] # "none"
              /\ Becomes(n, Effect(job[n], unit[n]))
              /\ job' = [job EXCEPT ![n] = "none"]
Dies(n) == unit[n] = "active" /\ Becomes(n, "activating") /\ UNCHANGED job
Exits(n) == unit[n] = "active" /\ Becomes(n, "inactive") /\ UNCHANGED job
AutoRestart(n) == unit[n] = "activating" /\ Becomes(n, "active") /\ UNCHANGED job

(* ---------------------------- tunnelAction ------------------------------- *)

ActionGet(h) ==
    /\ At(h, "get")
    /\ IF store[on[h]] = "absent" THEN Leave(h) ELSE Move(h, "run")
    /\ UNCHANGED <<store, source, world, memory, told, mishaps, todo>>

ActionRun(h) ==
    /\ At(h, "run")
    /\ \/ Systemctl(kind[h], on[h]) /\ Goto(h, "report") /\ UNCHANGED note
       \/ /\ SystemctlFails(kind[h], on[h])
          /\ note' = [note EXCEPT ![h] = "error"]
          /\ Goto(h, "forgetCache")
    /\ UNCHANGED <<store, source, memory, told, on, kind, obs, alone, todo>>

(* Mutant: the event says what was asked for, not the state.                 *)
ActionReportKind(h) ==
    /\ At(h, "report")
    /\ told' = [told EXCEPT ![on[h]] = kind[h]]
    /\ Move(h, "forgetCache")
    /\ UNCHANGED <<store, source, world, memory, mishaps, todo>>

(* Mutant: the action is answered without invalidateState.                   *)
ActionReportOnly(h) ==
    /\ At(h, "report")
    /\ told' = [told EXCEPT ![on[h]] = Effect(kind[h], @)]
    /\ Move(h, "lookup")
    /\ UNCHANGED <<store, source, world, memory, mishaps, todo>>

(* events.Started, Restarted or Stopped; enable and disable have no event.   *)
ActionReport(h) ==
    /\ At(h, "report")
    /\ told' = [told EXCEPT ![on[h]] = Effect(kind[h], @)]
    /\ Move(h, "forgetCache")
    /\ UNCHANGED <<store, source, world, memory, mishaps, todo>>

(* invalidateState: the cached state, then the detector's memory.            *)
ForgetCache(h) ==
    /\ At(h, "forgetCache")
    /\ cache' = [cache EXCEPT ![on[h]] = "none"]
    /\ Move(h, "forgetSeen")
    /\ UNCHANGED <<store, source, world, lastSeen, told, mishaps, todo>>

ForgetSeen(h) ==
    /\ At(h, "forgetSeen")
    /\ lastSeen' = [lastSeen EXCEPT ![on[h]] = "none"]
    /\ \/ kind[h] = "delete" /\ Move(h, "dsource")
       \/ kind[h] # "delete" /\ note[h] = "error" /\ Leave(h)
       \/ kind[h] # "delete" /\ note[h] # "error" /\ Move(h, "lookup")
    /\ UNCHANGED <<store, source, world, cache, told, mishaps, todo>>

(* ---------------------------- deleteTunnel ------------------------------- *)

DeleteGet(h) ==
    /\ At(h, "dget")
    /\ note' = [note EXCEPT ![h] = IF store[on[h]] = "imported" THEN "imported" ELSE @]
    /\ Goto(h, "dstop")
    /\ UNCHANGED <<store, source, world, memory, told, mishaps, on, kind, obs, alone, todo>>

(* Stop, then Disable; the error of either is discarded.                     *)
DeleteCalls(h, k, label, next) ==
    /\ At(h, label)
    /\ \/ Systemctl(k, on[h]) /\ UNCHANGED alone
       \/ SystemctlFails(k, on[h]) /\ alone' = [alone EXCEPT ![h] = FALSE]
    /\ Goto(h, next)
    /\ UNCHANGED <<store, source, memory, told, on, kind, obs, note, todo>>
DeleteStop(h) == DeleteCalls(h, "stop", "dstop", "ddisable")
DeleteDisable(h) == DeleteCalls(h, "disable", "ddisable", "dremove")

(* Mutant: a delete does not invalidate the state it cached.                 *)
DeleteRemoveOnly(h) ==
    /\ At(h, "dremove")
    /\ \/ store' = [store EXCEPT ![on[h]] = "absent"] /\ Move(h, "dsource")
       \/ store[on[h]] # "absent" /\ Leave(h) /\ UNCHANGED store
    /\ UNCHANGED <<source, world, memory, told, mishaps, todo>>

DeleteRemove(h) ==
    /\ At(h, "dremove")
    /\ \/ store' = [store EXCEPT ![on[h]] = "absent"] /\ Move(h, "forgetCache")
       \/ store[on[h]] # "absent" /\ Leave(h) /\ UNCHANGED store
    /\ UNCHANGED <<source, world, memory, told, mishaps, todo>>

(* os.Remove of the file the tunnel was imported from; it may fail.          *)
DeleteSource(h) ==
    /\ At(h, "dsource")
    /\ \/ /\ source' = [source EXCEPT ![on[h]] = @ /\ note[h] # "imported"]
          /\ Move(h, "devent")
       \/ /\ note[h] = "imported" /\ source[on[h]]
          /\ alone' = [alone EXCEPT ![h] = FALSE]
          /\ Goto(h, "devent")
          /\ UNCHANGED <<source, on, kind, obs, note>>
    /\ UNCHANGED <<store, world, memory, told, mishaps, todo>>

DeleteEvent(h) ==
    /\ At(h, "devent")
    /\ told' = [told EXCEPT ![on[h]] = "none"]
    /\ Leave(h)
    /\ UNCHANGED <<store, source, world, memory, mishaps, todo>>

(* --------------------- create, update, import ---------------------------- *)

(* createTunnel and updateTunnel.  An update keeps or drops the import path, *)
(* as the client's body has it or not.                                       *)
Write(h) ==
    /\ At(h, "write")
    /\ \/ /\ kind[h] = "create" /\ store[on[h]] = "absent"
          /\ store' = [store EXCEPT ![on[h]] = "created"]
       \/ /\ kind[h] = "update" /\ store[on[h]] # "absent"
          /\ \E s \in {store[on[h]], "created"} : store' = [store EXCEPT ![on[h]] = s]
       \/ /\ (kind[h] = "create") = (store[on[h]] # "absent")
          /\ UNCHANGED store
    /\ Leave(h)
    /\ UNCHANGED <<source, world, memory, told, mishaps, todo>>

(* handleDiscoverImport for one path: read it, then Create.                  *)
ImportRead(h) ==
    /\ At(h, "iread")
    /\ IF source[on[h]] THEN Move(h, "icreate") ELSE Leave(h)
    /\ UNCHANGED <<store, source, world, memory, told, mishaps, todo>>

ImportCreate(h) ==
    /\ At(h, "icreate")
    /\ store' = [store EXCEPT ![on[h]] = IF @ = "absent" THEN "imported" ELSE @]
    /\ Leave(h)
    /\ UNCHANGED <<source, world, memory, told, mishaps, todo>>

(* ------------------------- DetectStateChanges ---------------------------- *)

Tick ==
    /\ At(Detector, "idle") /\ todo = {}
    /\ todo' = {n \in Names : store[n] # "absent"}
    /\ UNCHANGED <<store, source, world, memory, told, mishaps, local>>

DetectorNext ==
    /\ At(Detector, "idle")
    /\ \E n \in todo : Engage(Detector, n, "view", "lookup") /\ todo' = todo \ {n}
    /\ UNCHANGED <<store, source, world, memory, told, mishaps>>

(* Mutant: the first state seen is remembered, a change of it is not.        *)
CompareOnce ==
    /\ At(Detector, "compare")
    /\ LET n == on[Detector]
           curr == obs[Detector]
       IN  /\ told' = [told EXCEPT ![n] = IF lastSeen[n] \in {"none", curr} THEN @ ELSE curr]
           /\ lastSeen' = [lastSeen EXCEPT ![n] = IF @ = "none" THEN curr ELSE @]
    /\ Leave(Detector)
    /\ UNCHANGED <<store, source, world, cache, mishaps, todo>>

(* Under lastSeenMu: compare, push the event, remember.                      *)
Compare ==
    /\ At(Detector, "compare")
    /\ LET n == on[Detector]
           curr == obs[Detector]
       IN  /\ told' = [told EXCEPT ![n] = IF lastSeen[n] \in {"none", curr} THEN @ ELSE curr]
           /\ lastSeen' = [lastSeen EXCEPT ![n] = curr]
    /\ Leave(Detector)
    /\ UNCHANGED <<store, source, world, cache, mishaps, todo>>

(* The panel is killed and started again: only files and units remain.       *)
PanelRestart ==
    /\ cache' = [n \in Names |-> "none"]
    /\ lastSeen' = [n \in Names |-> "none"]
    /\ told' = [n \in Names |-> "none"]
    /\ pc' = [a \in Actors |-> "idle"]
    /\ on' = [a \in Actors |-> AnyName]
    /\ kind' = [a \in Actors |-> "view"]
    /\ obs' = [a \in Actors |-> "none"]
    /\ note' = [a \in Actors |-> "none"]
    /\ alone' = [a \in Actors |-> FALSE]
    /\ todo' = {}
    /\ mishaps < MaxMishaps /\ mishaps' = mishaps + 1
    /\ UNCHANGED <<store, source, world>>

StateFor(a) == Lookup(a) \/ Probe(a) \/ Fill(a)
Handle(h) == \/ StateFor(h) \/ Respond(h)
             \/ ActionGet(h) \/ ActionRun(h) \/ ActionReport(h)
             \/ ForgetCache(h) \/ ForgetSeen(h)
             \/ DeleteGet(h) \/ DeleteStop(h) \/ DeleteDisable(h)
             \/ DeleteRemove(h) \/ DeleteSource(h) \/ DeleteEvent(h)
             \/ Write(h) \/ ImportRead(h) \/ ImportCreate(h)
Detect == Tick \/ DetectorNext \/ StateFor(Detector) \/ Compare
Systemd(n) == JobEnds(n) \/ Dies(n) \/ Exits(n) \/ AutoRestart(n)

Next == \/ \E h \in Handlers : Request(h) \/ Handle(h)
        \/ Detect
        \/ \E n \in Names : Expire(n) \/ Systemd(n)
        \/ PanelRestart

(* A handler runs to its end, the detector's ticker ticks, time passes.      *)
Fairness == /\ \A h \in Handlers : WF_vars(Handle(h))
            /\ WF_vars(Detect)
            /\ \A n \in Names : WF_vars(Expire(n))

Spec == Init /\ [][Next]_vars
FairSpec == Spec /\ Fairness

(* ------------------------------ properties ------------------------------- *)

(* Every variable has its type.                                              *)
TypeOK ==
    /\ store \in [Names -> {"absent", "created", "imported"}]
    /\ source \in [Names -> BOOLEAN]
    /\ unit \in [Names -> Unit]
    /\ enabled \in [Names -> BOOLEAN]
    /\ job \in [Names -> {"none", "start", "restart", "stop"}]
    /\ cache \in [Names -> Seen]
    /\ lastSeen \in [Names -> Seen]
    /\ told \in [Names -> Seen]
    /\ mishaps \in 0 .. MaxMishaps
    /\ pc \in [Actors -> {"idle", "lookup", "probe", "fill", "answer", "compare",
                          "get", "run", "report", "forgetCache", "forgetSeen",
                          "dget", "dstop", "ddisable", "dremove", "dsource", "devent",
                          "write", "iread", "icreate"}]
    /\ on \in [Actors -> Names]
    /\ kind \in [Actors -> Requests]
    /\ obs \in [Actors -> Seen]
    /\ note \in [Actors -> {"none", "error", "imported"}]
    /\ alone \in [Actors -> BOOLEAN]
    /\ todo \subseteq Names

(* A delete that nobody else crosses and whose calls succeed leaves nothing: *)
(* no config, no running or enabled unit, no file to discover again, no      *)
(* cached state and no detector memory (504-544), whatever state the unit    *)
(* was in, whatever it did meanwhile and whatever timed out before.          *)
CleanDelete ==
    \A h \in Handlers : At(h, "devent") /\ alone[h] =>
        LET n == on[h]
        IN  /\ store[n] = "absent" /\ unit[n] = "inactive" /\ ~enabled[n]
            /\ job[n] = "none"
            /\ cache[n] = "none" /\ lastSeen[n] = "none"
            /\ note[h] = "imported" => ~source[n]

(* The state in the answer to a start, stop or restart is the unit's, not    *)
(* one cached before the action, if nobody else was at work on the tunnel    *)
(* (577, 584).                                                               *)
AnswerIsCurrent ==
    \A h \in Handlers : At(h, "answer") /\ alone[h] /\ kind[h] \in Actions =>
        obs[h] = unit[on[h]]

(* A tunnel left alone is, time and again, remembered by the detector in its *)
(* true state, in spite of slow probes that store an old one, of failed      *)
(* probes, and of requests that erase the memory (404-423).                  *)
LeftAlone(n, s) == unit[n] = s /\ store[n] # "absent"
DetectorConverges ==
    \A n \in Names, s \in Unit :
        <>[]LeftAlone(n, s) => []<>(lastSeen[n] = s)

(* And what the panel shows of it comes to be its true state for good:       *)
(* neither a stale cache entry nor a probe that overtakes a later one can    *)
(* keep the wrong state on screen.                                           *)
ViewConverges ==
    \A n \in Names, s \in Unit :
        <>[]LeftAlone(n, s) => <>[](cache[n] \in {"none", s})

(* "emits an event whenever the active state changes" (400-401): of a tunnel *)
(* left alone by its clients, the log's last word comes to be its state.  It *)
(* fails when the unit dies after a start and before the detector's next     *)
(* look: invalidateState (577) has erased what the detector would compare    *)
(* the new state with.                                                       *)
ChangesReported ==
    \A n \in Names, s \in Unit :
        <>[](LeftAlone(n, s) /\ Busy(n) \subseteq {Detector})
            => []<>(told[n] \in {"none", s})
=============================================================================
