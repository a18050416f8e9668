-------------------------- MODULE LifecycleProofs ---------------------------
(* What a delete leaves behind and what an action answers, for any number of *)
(* tunnels, requests at a time, failing calls and restarts of the panel.     *)
EXTENDS Lifecycle, TLAPS

USE LifecycleAssumption

(* ---------------------------- the invariant ------------------------------ *)

(* Nobody else is at work on the tunnel of an actor that is alone.           *)
Exclusive(a) ==
    alone[a] => /\ pc[a] # "idle"
                /\ \A b \in Actors \ {a} : pc[b] = "idle" \/ on[b] # on[a]

(* An actor is where its request takes it.                                   *)
Routed(a) ==
    /\ a = Detector => pc[a] \in {"idle", "lookup", "probe", "fill", "compare"}
    /\ a # Detector => pc[a] # "compare"
    /\ pc[a] \in {"get", "run", "report"} => kind[a] \in Actions
    /\ pc[a] \in {"forgetCache", "forgetSeen"} => kind[a] \in Actions \cup {"delete"}
    /\ pc[a] \in {"dget", "dstop", "ddisable", "dremove", "dsource", "devent"}
           => kind[a] = "delete"

(* What a delete has done so far stays done: an inactive unit without a job  *)
(* does nothing by itself.                                                   *)
Done == {"devent"}
Forgotten == {"dsource"} \cup Done
Uncached == {"forgetSeen"} \cup Forgotten
Removed == {"forgetCache"} \cup Uncached
Disabled == {"dremove"} \cup Removed
Stopped == {"ddisable"} \cup Disabled
Clean(a) ==
    alone[a] /\ kind[a] = "delete" =>
        LET n == on[a]
        IN  /\ pc[a] \in Stopped => unit[n] = "inactive" /\ job[n] = "none"
            /\ pc[a] \in Disabled => ~enabled[n]
            /\ pc[a] \in Removed => store[n] = "absent"
            /\ pc[a] \in Uncached => cache[n] = "none"
            /\ pc[a] \in Forgotten => lastSeen[n] = "none"
            /\ pc[a] \in Done /\ note[a] = "imported" => ~source[n]

(* An action that has emptied the cache probes the unit, and what it read is *)
(* still so.                                                                 *)
Current(a) ==
    alone[a] /\ kind[a] \in Actions =>
        /\ pc[a] \in {"forgetSeen", "lookup"} => cache[on[a]] = "none"
        /\ pc[a] \in {"fill", "answer"} => obs[a] = unit[on[a]]

Kept(a) == Exclusive(a) /\ Routed(a) /\ Clean(a) /\ Current(a)
Inductive == TypeOK /\ \A a \in Actors : Kept(a)

LEMMA InitHolds == Init => Inductive
<1> SUFFICES ASSUME Init PROVE Inductive
    OBVIOUS
<1>1. AnyName \in Names
      BY DEF AnyName
<1>2. mishaps \in 0 .. MaxMishaps
      BY DEF Init
<1>3. TypeOK
      BY <1>1, <1>2 DEF Init, TypeOK, Seen, Requests
<1>4. \A a \in Actors : Kept(a)
      BY DEF Init, Kept, Exclusive, Routed, Clean, Current
<1> QED BY <1>3, <1>4 DEF Inductive

(* --------------------- what the steps have in common --------------------- *)

(* A step of h on its tunnel: the others' places and tunnels are as before.  *)
OthersStay(h) ==
    \A a \in Actors \ {h} :
        /\ pc'[a] = pc[a] /\ on'[a] = on[a] /\ kind'[a] = kind[a]
        /\ obs'[a] = obs[a] /\ note'[a] = note[a]
        /\ alone'[a] => alone[a]
TunnelsStay(h) ==
    \A n \in Names \ {on[h]} :
        /\ store'[n] = store[n] /\ source'[n] = source[n]
        /\ unit'[n] = unit[n] /\ enabled'[n] = enabled[n] /\ job'[n] = job[n]
        /\ cache'[n] = cache[n] /\ lastSeen'[n] = lastSeen[n]
HolderStays(h) ==
    /\ alone'[h] => alone[h] /\ pc'[h] # "idle"
    /\ on'[h] = on[h] \/ (pc'[h] = "idle" /\ ~alone'[h])
Own(h) == OthersStay(h) /\ TunnelsStay(h) /\ HolderStays(h)

(* Such a step disturbs nobody else, for nobody alone is on h's tunnel.      *)
LEMMA Elsewhere ==
    ASSUME Inductive, NEW h \in Actors, pc[h] # "idle", TypeOK', Own(h),
           Routed(h)', Clean(h)', Current(h)'
    PROVE  Inductive'
<1>1. Exclusive(h)'
  <2>1. alone'[h] => alone[h] /\ pc'[h] # "idle" /\ on'[h] = on[h]
        BY DEF Own, HolderStays
  <2>2. Exclusive(h)
        BY DEF Inductive, Kept
  <2>3. \A b \in Actors \ {h} : pc'[b] = pc[b] /\ on'[b] = on[b]
        BY DEF Own, OthersStay
  <2> QED BY <2>1, <2>2, <2>3 DEF Exclusive
<1>2. ASSUME NEW a \in Actors \ {h}
      PROVE  Kept(a)'
  <2>1. /\ pc'[a] = pc[a] /\ on'[a] = on[a] /\ kind'[a] = kind[a]
        /\ obs'[a] = obs[a] /\ note'[a] = note[a]
        /\ alone'[a] => alone[a]
        BY DEF Own, OthersStay
  <2>2. a \in Actors /\ Exclusive(a) /\ Routed(a) /\ Clean(a) /\ Current(a)
        BY DEF Inductive, Kept
  <2>3. Routed(a)'
        BY <2>1, <2>2 DEF Routed
  <2>4. Exclusive(a)'
    <3>1. \A b \in Actors \ {a, h} : pc'[b] = pc[b] /\ on'[b] = on[b]
          BY DEF Own, OthersStay
    <3>2. pc'[h] = "idle" \/ on'[h] = on[h]
          BY DEF Own, HolderStays
    <3> QED BY <2>1, <2>2, <3>1, <3>2 DEF Exclusive
  <2>5. CASE ~alone'[a]
        BY <2>3, <2>4, <2>5 DEF Kept, Clean, Current
  <2>6. CASE alone'[a]
    <3>1. alone[a] /\ on[a] # on[h] /\ on[a] \in Names
          BY <2>1, <2>2, <2>6 DEF Exclusive, Inductive, TypeOK
    <3>2. LET n == on[a]
          IN  /\ store'[n] = store[n] /\ source'[n] = source[n]
              /\ unit'[n] = unit[n] /\ enabled'[n] = enabled[n] /\ job'[n] = job[n]
              /\ cache'[n] = cache[n] /\ lastSeen'[n] = lastSeen[n]
          BY <3>1 DEF Own, TunnelsStay
    <3>3. Clean(a)'
          BY <2>1, <2>2, <3>1, <3>2 DEF Clean
    <3>4. Current(a)'
          BY <2>1, <2>2, <3>1, <3>2 DEF Current
    <3> QED BY <2>3, <2>4, <3>3, <3>4 DEF Kept
  <2> QED BY <2>5, <2>6
<1> QED BY <1>1, <1>2 DEF Inductive, Kept

(* The end of a request.                                                     *)
LEMMA LeaveLocal ==
    ASSUME Inductive, NEW h \in Actors, Leave(h)
    PROVE  /\ OthersStay(h) /\ HolderStays(h)
           /\ Routed(h)' /\ Clean(h)' /\ Current(h)'
<1>1. /\ pc'[h] = "idle" /\ ~alone'[h]
      BY DEF Inductive, TypeOK, Leave, Goto
<1>2. OthersStay(h)
      BY DEF Inductive, TypeOK, Leave, Goto, OthersStay
<1> QED BY <1>1, <1>2 DEF HolderStays, Routed, Clean, Current

LEMMA MoveLocal ==
    ASSUME Inductive, NEW h \in Actors, NEW label, label # "idle", Move(h, label)
    PROVE  /\ OthersStay(h) /\ HolderStays(h)
           /\ pc'[h] = label /\ on'[h] = on[h] /\ kind'[h] = kind[h]
           /\ obs'[h] = obs[h] /\ note'[h] = note[h] /\ alone'[h] = alone[h]
<1>1. /\ pc'[h] = label /\ on'[h] = on[h] /\ kind'[h] = kind[h]
      /\ obs'[h] = obs[h] /\ note'[h] = note[h] /\ alone'[h] = alone[h]
      BY DEF Inductive, TypeOK, Move, Goto
<1>2. OthersStay(h)
      BY DEF Inductive, TypeOK, Move, Goto, OthersStay
<1> QED BY <1>1, <1>2 DEF HolderStays

(* ------------------------------- stateFor -------------------------------- *)

LEMMA LookupKeeps ==
    ASSUME Inductive, NEW a \in Actors, Lookup(a)
    PROVE  Inductive'
<1> USE DEF Lookup, At, Goto, AfterState
<1>1. TypeOK'
      BY DEF Inductive, TypeOK, world, memory
<1>2. Own(a)
      BY DEF Inductive, TypeOK, world, memory, Own, OthersStay, TunnelsStay, HolderStays
<1>3. pc[a] = "lookup" /\ Kept(a)
      BY DEF Inductive
<1>4. Routed(a)'
      BY <1>3 DEF Kept, Routed, Inductive, TypeOK
<1>5. Clean(a)'
      BY <1>3 DEF Kept, Clean, Inductive, TypeOK, Stopped, Disabled, Removed, Uncached, Forgotten, Done
<1>6. Current(a)'
      BY <1>3 DEF Kept, Current, Inductive, TypeOK
<1> QED BY <1>1, <1>2, <1>3, <1>4, <1>5, <1>6, Elsewhere

LEMMA ProbeKeeps ==
    ASSUME Inductive, NEW a \in Actors, Probe(a)
    PROVE  Inductive'
<1> USE DEF Probe, At, Goto
<1>1. TypeOK'
  <2>1. mishaps' \in 0 .. MaxMishaps
        BY DEF Inductive, TypeOK
  <2>2. unit[on[a]] \in Seen /\ "inactive" \in Seen
        BY DEF Inductive, TypeOK, Seen, Unit
  <2>3. obs' \in [Actors -> Seen] /\ alone' \in [Actors -> BOOLEAN]
        BY <2>2 DEF Inductive, TypeOK
  <2> QED BY <2>1, <2>2 DEF Inductive, TypeOK, world, memory
<1>2. Own(a)
      BY DEF Inductive, TypeOK, world, memory, Own, OthersStay, TunnelsStay, HolderStays
<1>3. pc[a] = "probe" /\ Kept(a)
      BY DEF Inductive
<1>4. Routed(a)'
      BY <1>3 DEF Kept, Routed, Inductive, TypeOK
<1>5. Clean(a)'
      BY <1>3 DEF Kept, Clean, Inductive, TypeOK, Stopped, Disabled, Removed, Uncached, Forgotten, Done
<1>6. Current(a)'
      BY <1>3 DEF Kept, Current, Inductive, TypeOK, world
<1> QED BY <1>1, <1>2, <1>3, <1>4, <1>5, <1>6, Elsewhere

LEMMA FillKeeps ==
    ASSUME Inductive, NEW a \in Actors, Fill(a)
    PROVE  Inductive'
<1> USE DEF Fill, At, AfterState
<1>1. TypeOK'
      BY DEF Inductive, TypeOK, world, Seen, Move, Goto
<1>2. /\ pc[a] = "fill" /\ Kept(a)
      /\ pc'[a] = AfterState(a) /\ AfterState(a) # "idle"
      /\ OthersStay(a) /\ HolderStays(a)
      /\ on'[a] = on[a] /\ kind'[a] = kind[a]
      /\ obs'[a] = obs[a] /\ note'[a] = note[a] /\ alone'[a] = alone[a]
      BY MoveLocal DEF Inductive
<1>3. Own(a)
      BY <1>2 DEF Inductive, TypeOK, world, Own, TunnelsStay
<1>4. Routed(a)'
      BY <1>2 DEF Kept, Routed
<1>5. Clean(a)'
      BY <1>2 DEF Kept, Clean, Stopped, Disabled, Removed, Uncached, Forgotten, Done
<1>6. Current(a)'
      BY <1>2 DEF Kept, Current, world
<1> QED BY <1>1, <1>2, <1>3, <1>4, <1>5, <1>6, Elsewhere

LEMMA RespondKeeps ==
    ASSUME Inductive, NEW h \in Handlers, Respond(h)
    PROVE  Inductive'
<1> USE DEF Respond, At
<1>1. h \in Actors /\ pc[h] = "answer"
      BY DEF Actors
<1>2. TypeOK'
      BY <1>1 DEF Inductive, TypeOK, world, memory, Leave, Goto, Requests, Seen, AnyName
<1>3. OthersStay(h) /\ HolderStays(h) /\ Routed(h)' /\ Clean(h)' /\ Current(h)'
      BY <1>1, LeaveLocal
<1>4. Own(h)
      BY <1>3 DEF world, memory, Own, TunnelsStay
<1> QED BY <1>1, <1>2, <1>3, <1>4, Elsewhere

(* ----------------------------- tunnelAction ------------------------------ *)

LEMMA ActionGetKeeps ==
    ASSUME Inductive, NEW h \in Handlers, ActionGet(h)
    PROVE  Inductive'
<1> USE DEF ActionGet, At
<1>1. h \in Actors /\ h # Detector /\ pc[h] = "get" /\ Kept(h)
      BY DEF Actors, Inductive
<1>2. TypeOK'
  <2>1. CASE Leave(h)
        BY <1>1, <2>1 DEF Inductive, TypeOK, world, memory, Leave, Goto, Requests, Seen, AnyName
  <2>2. CASE Move(h, "run")
        BY <1>1, <2>2 DEF Inductive, TypeOK, world, memory, Move, Goto
  <2> QED BY <2>1, <2>2
<1>3. TunnelsStay(h)
      BY DEF world, memory, TunnelsStay
<1>4. CASE Leave(h)
      BY <1>1, <1>2, <1>3, <1>4, LeaveLocal, Elsewhere DEF Own
<1>5. CASE Move(h, "run")
  <2>1. /\ pc'[h] = "run" /\ on'[h] = on[h] /\ kind'[h] = kind[h]
        /\ OthersStay(h) /\ HolderStays(h)
        BY <1>1, <1>5, MoveLocal
  <2>2. Routed(h)' /\ Clean(h)' /\ Current(h)'
        BY <1>1, <2>1 DEF Kept, Routed, Clean, Current, Stopped, Disabled, Removed,
                          Uncached, Forgotten, Done
  <2> QED BY <1>1, <1>2, <1>3, <2>1, <2>2, Elsewhere DEF Own
<1> QED BY <1>4, <1>5

LEMMA ActionRunKeeps ==
    ASSUME Inductive, NEW h \in Handlers, ActionRun(h)
    PROVE  Inductive'
<1> USE DEF ActionRun, At, Goto
<1>1. h \in Actors /\ h # Detector /\ pc[h] = "run" /\ Kept(h) /\ kind[h] \in Actions
      BY DEF Actors, Inductive, Kept, Routed
<1>2. CASE Systemctl(kind[h], on[h]) /\ pc' = [pc EXCEPT ![h] = "report"] /\ UNCHANGED note
  <2>1. /\ unit' = [unit EXCEPT ![on[h]] = Effect(kind[h], @)]
        /\ enabled' = [enabled EXCEPT ![on[h]] = Enabling(kind[h], @)]
        /\ job' = [job EXCEPT ![on[h]] = IF kind[h] \in {"enable", "disable"} THEN @ ELSE "none"]
        /\ mishaps' = mishaps
        BY <1>2 DEF Systemctl
  <2>2. TypeOK'
    <3>1. on[h] \in Names /\ unit[on[h]] \in Unit
          BY <1>1 DEF Inductive, TypeOK
    <3>2. Effect(kind[h], unit[on[h]]) \in Unit
          BY <3>1 DEF Effect, Unit
    <3>3. Enabling(kind[h], enabled[on[h]]) \in BOOLEAN
          BY <1>1 DEF Inductive, TypeOK, Enabling
    <3> QED BY <1>1, <1>2, <2>1, <3>2, <3>3 DEF Inductive, TypeOK, memory
  <2>3. Own(h)
        BY <1>1, <1>2, <2>1
        DEF Inductive, TypeOK, memory, Own, OthersStay, TunnelsStay, HolderStays
  <2>4. pc'[h] = "report" /\ kind'[h] = kind[h]
        BY <1>1, <1>2 DEF Inductive, TypeOK
  <2>5. Routed(h)' /\ Clean(h)' /\ Current(h)'
        BY <1>1, <2>4 DEF Routed, Clean, Current, Actions
  <2> QED BY <1>1, <2>2, <2>3, <2>5, Elsewhere
<1>3. CASE /\ SystemctlFails(kind[h], on[h])
           /\ note' = [note EXCEPT ![h] = "error"]
           /\ pc' = [pc EXCEPT ![h] = "forgetCache"]
  <2>1. /\ UNCHANGED <<unit, enabled>> /\ mishaps' = mishaps + 1 /\ mishaps < MaxMishaps
        /\ \/ job' = job
           \/ job' = [job EXCEPT ![on[h]] = kind[h]] /\ kind[h] \in {"start", "restart", "stop"}
        BY <1>1, <1>3 DEF SystemctlFails, Actions
  <2>2. TypeOK'
    <3>1. mishaps' \in 0 .. MaxMishaps
          BY <2>1 DEF Inductive, TypeOK
    <3> QED BY <1>1, <1>3, <2>1, <3>1 DEF Inductive, TypeOK, memory
  <2>3. Own(h)
        BY <1>1, <1>3, <2>1
        DEF Inductive, TypeOK, memory, Own, OthersStay, TunnelsStay, HolderStays
  <2>4. pc'[h] = "forgetCache" /\ kind'[h] = kind[h]
        BY <1>1, <1>3 DEF Inductive, TypeOK
  <2>5. Routed(h)' /\ Clean(h)' /\ Current(h)'
        BY <1>1, <2>4 DEF Routed, Clean, Current, Actions
  <2> QED BY <1>1, <2>2, <2>3, <2>5, Elsewhere
<1> QED BY <1>2, <1>3

LEMMA ActionReportKeeps ==
    ASSUME Inductive, NEW h \in Handlers, ActionReport(h)
    PROVE  Inductive'
<1> USE DEF ActionReport, At
<1>1. h \in Actors /\ h # Detector /\ pc[h] = "report" /\ Kept(h) /\ kind[h] \in Actions
      BY DEF Actors, Inductive, Kept, Routed
<1>2. TypeOK'
  <2>1. told' \in [Names -> Seen]
        BY <1>1 DEF Inductive, TypeOK, Effect, Seen, Unit
  <2> QED BY <1>1, <2>1 DEF Inductive, TypeOK, world, memory, Move, Goto
<1>3. /\ pc'[h] = "forgetCache" /\ on'[h] = on[h] /\ kind'[h] = kind[h]
      /\ OthersStay(h) /\ HolderStays(h)
      BY <1>1, MoveLocal
<1>4. Own(h)
      BY <1>3 DEF world, memory, Own, TunnelsStay
<1>5. Routed(h)' /\ Clean(h)' /\ Current(h)'
      BY <1>1, <1>3 DEF Routed, Clean, Current, Actions
<1> QED BY <1>1, <1>2, <1>4, <1>5, Elsewhere

LEMMA ForgetCacheKeeps ==
    ASSUME Inductive, NEW h \in Handlers, ForgetCache(h)
    PROVE  Inductive'
<1> USE DEF ForgetCache, At
<1>1. h \in Actors /\ h # Detector /\ pc[h] = "forgetCache" /\ Kept(h)
      BY DEF Actors, Inductive
<1>2. TypeOK'
      BY <1>1 DEF Inductive, TypeOK, world, Seen, Move, Goto
<1>3. /\ pc'[h] = "forgetSeen" /\ on'[h] = on[h] /\ kind'[h] = kind[h]
      /\ obs'[h] = obs[h] /\ note'[h] = note[h] /\ alone'[h] = alone[h]
      /\ OthersStay(h) /\ HolderStays(h)
      BY <1>1, MoveLocal
<1>4. cache'[on[h]] = "none" /\ TunnelsStay(h)
      BY <1>1 DEF Inductive, TypeOK, world, TunnelsStay
<1>5. Routed(h)'
      BY <1>1, <1>3 DEF Kept, Routed
<1>6. Clean(h)'
      BY <1>1, <1>3, <1>4 DEF Kept, Clean, Stopped, Disabled, Removed, Uncached, Forgotten,
                             Done, world
<1>7. Current(h)'
      BY <1>3, <1>4 DEF Current
<1> QED BY <1>1, <1>2, <1>3, <1>4, <1>5, <1>6, <1>7, Elsewhere DEF Own

LEMMA ForgetSeenKeeps ==
    ASSUME Inductive, NEW h \in Handlers, ForgetSeen(h)
    PROVE  Inductive'
<1> USE DEF ForgetSeen, At
<1>1. h \in Actors /\ h # Detector /\ pc[h] = "forgetSeen" /\ Kept(h)
      BY DEF Actors, Inductive
<1>2. lastSeen' \in [Names -> Seen] /\ lastSeen'[on[h]] = "none" /\ TunnelsStay(h)
      BY <1>1 DEF Inductive, TypeOK, world, Seen, TunnelsStay
<1>3. CASE Leave(h)
  <2>1. TypeOK'
        BY <1>1, <1>2, <1>3 DEF Inductive, TypeOK, world, Leave, Goto, Requests, Seen, AnyName
  <2> QED BY <1>1, <1>2, <1>3, <2>1, LeaveLocal, Elsewhere DEF Own
<1>4. ASSUME NEW label, Move(h, label),
             \/ kind[h] = "delete" /\ label = "dsource"
             \/ kind[h] # "delete" /\ label = "lookup"
      PROVE  Inductive'
  <2>1. TypeOK'
        BY <1>1, <1>2, <1>4 DEF Inductive, TypeOK, world, Move, Goto
  <2>2. /\ pc'[h] = label /\ on'[h] = on[h] /\ kind'[h] = kind[h]
        /\ obs'[h] = obs[h] /\ note'[h] = note[h] /\ alone'[h] = alone[h]
        /\ OthersStay(h) /\ HolderStays(h)
        BY <1>1, <1>4, MoveLocal
  <2>3. Routed(h)'
        BY <1>1, <1>4, <2>2 DEF Kept, Routed
  <2>4. Clean(h)'
        BY <1>1, <1>2, <1>4, <2>2 DEF Kept, Clean, Stopped, Disabled, Removed, Uncached,
                                     Forgotten, Done, world
  <2>5. Current(h)'
        BY <1>1, <1>4, <2>2 DEF Kept, Current, Actions
  <2> QED BY <1>1, <1>2, <2>1, <2>2, <2>3, <2>4, <2>5, Elsewhere DEF Own
<1> QED BY <1>3, <1>4

(* ----------------------------- deleteTunnel ------------------------------ *)

LEMMA DeleteGetKeeps ==
    ASSUME Inductive, NEW h \in Handlers, DeleteGet(h)
    PROVE  Inductive'
<1> USE DEF DeleteGet, At, Goto
<1>1. h \in Actors /\ h # Detector /\ pc[h] = "dget" /\ Kept(h)
      BY DEF Actors, Inductive
<1>2. TypeOK'
      BY <1>1 DEF Inductive, TypeOK, world, memory
<1>3. Own(h)
      BY <1>1 DEF Inductive, TypeOK, world, memory, Own, OthersStay, TunnelsStay, HolderStays
<1>4. pc'[h] = "dstop" /\ kind'[h] = kind[h] /\ kind[h] = "delete"
      BY <1>1 DEF Kept, Routed, Inductive, TypeOK
<1>5. Routed(h)' /\ Clean(h)' /\ Current(h)'
      BY <1>1, <1>4 DEF Routed, Clean, Current, Actions, Stopped, Disabled, Removed, Uncached,
                        Forgotten, Done
<1> QED BY <1>1, <1>2, <1>3, <1>5, Elsewhere

(* Stop or Disable, which may fail; then the request is not taken for alone. *)
LEMMA DeleteCallsKeep ==
    ASSUME Inductive, NEW h \in Handlers, NEW k \in {"stop", "disable"}, NEW label, NEW next,
           \/ k = "stop" /\ label = "dstop" /\ next = "ddisable"
           \/ k = "disable" /\ label = "ddisable" /\ next = "dremove",
           DeleteCalls(h, k, label, next)
    PROVE  Inductive'
<1> USE DEF DeleteCalls, At, Goto
<1>1. h \in Actors /\ h # Detector /\ pc[h] = label /\ Kept(h) /\ kind[h] = "delete"
      BY DEF Actors, Inductive, Kept, Routed
<1>2. on[h] \in Names /\ pc'[h] = next /\ kind'[h] = kind[h] /\ on'[h] = on[h]
      BY <1>1 DEF Inductive, TypeOK
<1>3. Routed(h)'
      BY <1>1, <1>2 DEF Routed
<1>4. Current(h)'
      BY <1>1, <1>2 DEF Current, Actions
<1>5. CASE Systemctl(k, on[h]) /\ UNCHANGED alone
  <2>1. /\ unit' = [unit EXCEPT ![on[h]] = Effect(k, @)]
        /\ enabled' = [enabled EXCEPT ![on[h]] = Enabling(k, @)]
        /\ job' = [job EXCEPT ![on[h]] = IF k \in {"enable", "disable"} THEN @ ELSE "none"]
        /\ mishaps' = mishaps
        BY <1>5 DEF Systemctl
  <2>2. TypeOK'
    <3>1. unit[on[h]] \in Unit
          BY <1>2 DEF Inductive, TypeOK
    <3>2. Effect(k, unit[on[h]]) \in Unit
          BY <3>1 DEF Effect, Unit
    <3>3. Enabling(k, enabled[on[h]]) \in BOOLEAN
          BY <1>2 DEF Inductive, TypeOK, Enabling
    <3> QED BY <1>1, <1>5, <2>1, <3>2, <3>3 DEF Inductive, TypeOK, memory
  <2>3. Own(h)
        BY <1>1, <1>5, <2>1
        DEF Inductive, TypeOK, memory, Own, OthersStay, TunnelsStay, HolderStays
  <2>4. /\ k = "stop" => unit'[on[h]] = "inactive" /\ job'[on[h]] = "none"
        /\ k = "disable" => /\ ~enabled'[on[h]]
                            /\ unit'[on[h]] = unit[on[h]] /\ job'[on[h]] = job[on[h]]
        BY <1>2, <2>1 DEF Inductive, TypeOK, Effect, Enabling
  <2>5. Clean(h)'
        BY <1>1, <1>2, <1>5, <2>4 DEF Kept, Clean, Stopped, Disabled, Removed, Uncached,
                                      Forgotten, Done
  <2> QED BY <1>1, <1>3, <1>4, <2>2, <2>3, <2>5, Elsewhere
<1>6. CASE SystemctlFails(k, on[h]) /\ alone' = [alone EXCEPT ![h] = FALSE]
  <2>1. /\ UNCHANGED <<unit, enabled>> /\ mishaps' = mishaps + 1 /\ mishaps < MaxMishaps
        /\ \/ job' = job
           \/ job' = [job EXCEPT ![on[h]] = k] /\ k = "stop"
        BY <1>6 DEF SystemctlFails
  <2>2. TypeOK'
    <3>1. mishaps' \in 0 .. MaxMishaps
          BY <2>1 DEF Inductive, TypeOK
    <3> QED BY <1>1, <1>6, <2>1, <3>1 DEF Inductive, TypeOK, memory
  <2>3. Own(h)
        BY <1>1, <1>6, <2>1
        DEF Inductive, TypeOK, memory, Own, OthersStay, TunnelsStay, HolderStays
  <2>4. ~alone'[h]
        BY <1>1, <1>6 DEF Inductive, TypeOK
  <2> QED BY <1>1, <1>3, <1>4, <2>2, <2>3, <2>4, Elsewhere DEF Clean
<1> QED BY <1>5, <1>6

LEMMA DeleteRemoveKeeps ==
    ASSUME Inductive, NEW h \in Handlers, DeleteRemove(h)
    PROVE  Inductive'
<1> USE DEF DeleteRemove, At
<1>1. h \in Actors /\ h # Detector /\ pc[h] = "dremove" /\ Kept(h) /\ kind[h] = "delete"
      BY DEF Actors, Inductive, Kept, Routed
<1>2. CASE store' = [store EXCEPT ![on[h]] = "absent"] /\ Move(h, "forgetCache")
  <2>1. TypeOK'
        BY <1>1, <1>2 DEF Inductive, TypeOK, world, memory, Move, Goto
  <2>2. /\ pc'[h] = "forgetCache" /\ on'[h] = on[h] /\ kind'[h] = kind[h]
        /\ note'[h] = note[h] /\ alone'[h] = alone[h]
        /\ OthersStay(h) /\ HolderStays(h)
        BY <1>1, <1>2, MoveLocal
  <2>3. store'[on[h]] = "absent" /\ TunnelsStay(h)
        BY <1>1, <1>2 DEF Inductive, TypeOK, world, memory, TunnelsStay
  <2>4. Routed(h)' /\ Current(h)'
        BY <1>1, <2>2 DEF Routed, Current
  <2>5. Clean(h)'
        BY <1>1, <2>2, <2>3 DEF Kept, Clean, Stopped, Disabled, Removed, Uncached, Forgotten,
                               Done, world
  <2> QED BY <1>1, <2>1, <2>2, <2>3, <2>4, <2>5, Elsewhere DEF Own
<1>3. CASE Leave(h) /\ UNCHANGED store
  <2>1. TypeOK'
        BY <1>1, <1>3 DEF Inductive, TypeOK, world, memory, Leave, Goto, Requests, Seen, AnyName
  <2>2. TunnelsStay(h)
        BY <1>3 DEF world, memory, TunnelsStay
  <2> QED BY <1>1, <1>3, <2>1, <2>2, LeaveLocal, Elsewhere DEF Own
<1> QED BY <1>2, <1>3

LEMMA DeleteSourceKeeps ==
    ASSUME Inductive, NEW h \in Handlers, DeleteSource(h)
    PROVE  Inductive'
<1> USE DEF DeleteSource, At
<1>1. h \in Actors /\ h # Detector /\ pc[h] = "dsource" /\ Kept(h) /\ kind[h] = "delete"
      BY DEF Actors, Inductive, Kept, Routed
<1>2. CASE /\ source' = [source EXCEPT ![on[h]] = @ /\ note[h] # "imported"]
           /\ Move(h, "devent")
  <2>1. on[h] \in Names /\ source'[on[h]] \in BOOLEAN
        BY <1>1, <1>2 DEF Inductive, TypeOK
  <2>2. source' \in [Names -> BOOLEAN]
        BY <1>2, <2>1 DEF Inductive, TypeOK
  <2>3. TypeOK'
        BY <1>1, <1>2, <2>2 DEF Inductive, TypeOK, world, memory, Move, Goto
  <2>4. /\ pc'[h] = "devent" /\ on'[h] = on[h] /\ kind'[h] = kind[h]
        /\ note'[h] = note[h] /\ alone'[h] = alone[h]
        /\ OthersStay(h) /\ HolderStays(h)
        BY <1>1, <1>2, MoveLocal
  <2>5. /\ note[h] = "imported" => ~source'[on[h]]
        /\ TunnelsStay(h)
        BY <1>1, <1>2, <2>1 DEF Inductive, TypeOK, world, memory, TunnelsStay
  <2>6. Routed(h)' /\ Current(h)'
        BY <1>1, <2>4 DEF Routed, Current
  <2>7. Clean(h)'
        BY <1>1, <2>4, <2>5 DEF Kept, Clean, Stopped, Disabled, Removed, Uncached, Forgotten,
                               Done, world, memory
  <2> QED BY <1>1, <2>3, <2>4, <2>5, <2>6, <2>7, Elsewhere DEF Own
<1>3. CASE /\ alone' = [alone EXCEPT ![h] = FALSE]
           /\ Goto(h, "devent")
           /\ UNCHANGED <<source, on, kind, obs, note>>
  <2> USE DEF Goto
  <2>1. TypeOK'
        BY <1>1, <1>3 DEF Inductive, TypeOK, world, memory
  <2>2. Own(h)
        BY <1>1, <1>3
        DEF Inductive, TypeOK, world, memory, Own, OthersStay, TunnelsStay, HolderStays
  <2>3. pc'[h] = "devent" /\ kind'[h] = kind[h] /\ ~alone'[h]
        BY <1>1, <1>3 DEF Inductive, TypeOK
  <2>4. Routed(h)' /\ Clean(h)' /\ Current(h)'
        BY <1>1, <2>3 DEF Routed, Clean, Current
  <2> QED BY <1>1, <2>1, <2>2, <2>4, Elsewhere
<1> QED BY <1>2, <1>3

LEMMA DeleteEventKeeps ==
    ASSUME Inductive, NEW h \in Handlers, DeleteEvent(h)
    PROVE  Inductive'
<1> USE DEF DeleteEvent, At
<1>1. h \in Actors /\ pc[h] = "devent"
      BY DEF Actors
<1>2. TypeOK'
      BY <1>1 DEF Inductive, TypeOK, world, memory, Leave, Goto, Requests, Seen, AnyName
<1>3. TunnelsStay(h)
      BY DEF world, memory, TunnelsStay
<1> QED BY <1>1, <1>2, <1>3, LeaveLocal, Elsewhere DEF Own

(* ----------------------- create, update, import -------------------------- *)

LEMMA WriteKeeps ==
    ASSUME Inductive, NEW h \in Handlers, Write(h)
    PROVE  Inductive'
<1> USE DEF Write, At
<1>1. h \in Actors /\ pc[h] = "write" /\ on[h] \in Names
      BY DEF Actors, Inductive, TypeOK
<1>2. store' \in [Names -> {"absent", "created", "imported"}] /\ TunnelsStay(h)
  <2>1. \/ UNCHANGED store
        \/ \E s \in {store[on[h]], "created"} : store' = [store EXCEPT ![on[h]] = s]
        OBVIOUS
  <2> QED BY <1>1, <2>1 DEF Inductive, TypeOK, world, memory, TunnelsStay
<1>3. TypeOK'
      BY <1>1, <1>2 DEF Inductive, TypeOK, world, memory, Leave, Goto, Requests, Seen, AnyName
<1> QED BY <1>1, <1>2, <1>3, LeaveLocal, Elsewhere DEF Own

LEMMA ImportReadKeeps ==
    ASSUME Inductive, NEW h \in Handlers, ImportRead(h)
    PROVE  Inductive'
<1> USE DEF ImportRead, At
<1>1. h \in Actors /\ h # Detector /\ pc[h] = "iread" /\ Kept(h) /\ TunnelsStay(h)
      BY DEF Actors, Inductive, world, memory, TunnelsStay
<1>2. CASE Leave(h)
  <2>1. TypeOK'
        BY <1>1, <1>2 DEF Inductive, TypeOK, world, memory, Leave, Goto, Requests, Seen, AnyName
  <2> QED BY <1>1, <1>2, <2>1, LeaveLocal, Elsewhere DEF Own
<1>3. CASE Move(h, "icreate")
  <2>1. TypeOK'
        BY <1>1, <1>3 DEF Inductive, TypeOK, world, memory, Move, Goto
  <2>2. /\ pc'[h] = "icreate" /\ OthersStay(h) /\ HolderStays(h)
        BY <1>1, <1>3, MoveLocal
  <2>3. Routed(h)' /\ Clean(h)' /\ Current(h)'
        BY <1>1, <2>2 DEF Routed, Clean, Current, Stopped, Disabled, Removed, Uncached,
                          Forgotten, Done
  <2> QED BY <1>1, <2>1, <2>2, <2>3, Elsewhere DEF Own
<1> QED BY <1>2, <1>3

LEMMA ImportCreateKeeps ==
    ASSUME Inductive, NEW h \in Handlers, ImportCreate(h)
    PROVE  Inductive'
<1> USE DEF ImportCreate, At
<1>1. h \in Actors /\ pc[h] = "icreate" /\ on[h] \in Names
      BY DEF Actors, Inductive, TypeOK
<1>2. store' \in [Names -> {"absent", "created", "imported"}] /\ TunnelsStay(h)
      BY <1>1 DEF Inductive, TypeOK, world, memory, TunnelsStay
<1>3. TypeOK'
      BY <1>1, <1>2 DEF Inductive, TypeOK, world, memory, Leave, Goto, Requests, Seen, AnyName
<1> QED BY <1>1, <1>2, <1>3, LeaveLocal, Elsewhere DEF Own

(* ------------------------------ the detector ----------------------------- *)

LEMMA CompareKeeps == ASSUME Inductive, Compare PROVE Inductive'
<1> USE DEF Compare, At
<1>1. /\ Detector \in Actors /\ pc[Detector] = "compare" /\ on[Detector] \in Names
      /\ obs[Detector] \in Seen
      BY DEF Actors, Inductive, TypeOK
<1>2. told' \in [Names -> Seen] /\ lastSeen' \in [Names -> Seen]
      BY <1>1 DEF Inductive, TypeOK
<1>3. TypeOK'
      BY <1>1, <1>2 DEF Inductive, TypeOK, world, Leave, Goto, Requests, Seen, AnyName
<1>4. TunnelsStay(Detector)
      BY <1>1 DEF Inductive, TypeOK, world, TunnelsStay
<1> QED BY <1>1, <1>3, <1>4, LeaveLocal, Elsewhere DEF Own

LEMMA TickKeeps == ASSUME Inductive, Tick PROVE Inductive'
<1>1. TypeOK'
      BY DEF Inductive, TypeOK, Tick, world, memory, local
<1>2. \A a \in Actors : Kept(a)'
      BY DEF Inductive, Tick, Kept, Exclusive, Routed, Clean, Current, world, memory, local
<1> QED BY <1>1, <1>2 DEF Inductive

(* An actor at rest takes up a tunnel: it is alone if nobody is at work on   *)
(* it, and whoever is, is alone no more.                                     *)
LEMMA EngageKeeps ==
    ASSUME Inductive, NEW a \in Actors, pc[a] = "idle",
           NEW n \in Names, NEW k \in Requests, NEW label, Engage(a, n, k, label),
           \/ label = "lookup" /\ k = "view"
           \/ /\ a # Detector
              /\ \/ label = "get" /\ k \in Actions
                 \/ label = "dget" /\ k = "delete"
                 \/ label \in {"iread", "write"},
           todo' \subseteq Names, UNCHANGED <<store, source, world, memory, told, mishaps>>
    PROVE  Inductive'
<1> USE DEF Engage, Goto
<1>1. /\ pc'[a] = label /\ on'[a] = n /\ kind'[a] = k /\ label # "idle"
      /\ alone'[a] => Busy(n) \subseteq {a}
      BY DEF Inductive, TypeOK
<1>2. \A b \in Actors \ {a} :
          /\ pc'[b] = pc[b] /\ on'[b] = on[b] /\ kind'[b] = kind[b]
          /\ obs'[b] = obs[b] /\ note'[b] = note[b]
          /\ alone'[b] => alone[b] /\ b \notin Busy(n)
      BY DEF Inductive, TypeOK
<1>3. TypeOK'
  <2>1. alone' \in [Actors -> BOOLEAN]
        BY DEF Inductive, TypeOK
  <2> QED BY <2>1 DEF Inductive, TypeOK, Seen, world, memory
<1>4. Kept(a)'
  <2>1. Exclusive(a)'
        BY <1>1, <1>2 DEF Exclusive, Busy
  <2>2. Routed(a)' /\ Clean(a)' /\ Current(a)'
        BY <1>1 DEF Routed, Clean, Current, Actions, Stopped, Disabled, Removed, Uncached,
                    Forgotten, Done
  <2> QED BY <2>1, <2>2 DEF Kept
<1>5. ASSUME NEW b \in Actors \ {a}
      PROVE  Kept(b)'
  <2>1. Kept(b)
        BY DEF Inductive
  <2>2. Exclusive(b)'
        BY <1>1, <1>2, <2>1 DEF Kept, Exclusive, Busy
  <2>3. Routed(b)' /\ Clean(b)' /\ Current(b)'
        BY <1>2, <2>1 DEF Kept, Routed, Clean, Current, world, memory
  <2> QED BY <2>2, <2>3 DEF Kept
<1> QED BY <1>3, <1>4, <1>5 DEF Inductive

LEMMA RequestKeeps == ASSUME Inductive, NEW h \in Handlers, Request(h) PROVE Inductive'
<1>1. PICK n \in Names, k \in Kinds : Engage(h, n, k, First(k))
      BY DEF Request
<1>2. /\ h \in Actors /\ h # Detector /\ pc[h] = "idle" /\ k \in Requests
      /\ todo' \subseteq Names
      /\ UNCHANGED <<store, source, world, memory, told, mishaps>>
      BY DEF Request, At, Actors, Inductive, TypeOK
<1>3. \/ First(k) = "lookup" /\ k = "view"
      \/ First(k) = "get" /\ k \in Actions
      \/ First(k) = "dget" /\ k = "delete"
      \/ First(k) \in {"iread", "write"}
      BY <1>2 DEF First, Requests, Actions
<1> QED BY <1>1, <1>2, <1>3, EngageKeeps

LEMMA DetectorNextKeeps == ASSUME Inductive, DetectorNext PROVE Inductive'
<1>1. PICK n \in todo : Engage(Detector, n, "view", "lookup") /\ todo' = todo \ {n}
      BY DEF DetectorNext
<1>2. /\ Detector \in Actors /\ pc[Detector] = "idle" /\ n \in Names
      /\ todo' \subseteq Names /\ "view" \in Requests
      /\ UNCHANGED <<store, source, world, memory, told, mishaps>>
      BY <1>1 DEF DetectorNext, At, Actors, Inductive, TypeOK, Requests
<1> QED BY <1>1, <1>2, EngageKeeps

(* -------------------------- systemd, time, restarts ---------------------- *)

LEMMA ExpireKeeps == ASSUME Inductive, NEW n \in Names, Expire(n) PROVE Inductive'
<1> USE DEF Expire
<1>1. TypeOK'
      BY DEF Inductive, TypeOK, Seen, world, local
<1>2. \A m \in Names : cache'[m] = cache[m] \/ cache'[m] = "none"
      BY DEF Inductive, TypeOK
<1>3. ASSUME NEW a \in Actors
      PROVE  Kept(a)'
  <2>1. Kept(a) /\ on[a] \in Names
        BY DEF Inductive, TypeOK
  <2> QED BY <1>2, <2>1 DEF Kept, Exclusive, Routed, Clean, Current, world, local
<1> QED BY <1>1, <1>3 DEF Inductive

(* What systemd does by itself it does to a unit that runs or has a job:     *)
(* not to one a delete has stopped.                                          *)
LEMMA BecomesKeeps ==
    ASSUME Inductive, NEW n \in Names, NEW s \in Unit, Becomes(n, s),
           job[n] # "none" \/ unit[n] # "inactive",
           job' = job \/ job' = [job EXCEPT ![n] = "none"]
    PROVE  Inductive'
<1> USE DEF Becomes
<1>1. TypeOK'
  <2>1. alone' \in [Actors -> BOOLEAN]
        BY DEF Inductive, TypeOK
  <2> QED BY <2>1 DEF Inductive, TypeOK, memory
<1>2. \A m \in Names \ {n} : unit'[m] = unit[m] /\ job'[m] = job[m]
      BY DEF Inductive, TypeOK
<1>3. ASSUME NEW a \in Actors
      PROVE  Kept(a)'
  <2>1. Kept(a) /\ on[a] \in Names
        BY DEF Inductive, TypeOK
  <2>2. alone'[a] => alone[a] /\ (on[a] = n => kind[a] = "delete")
        BY DEF Inductive, TypeOK
  <2>3. Exclusive(a)' /\ Routed(a)'
        BY <2>1, <2>2 DEF Kept, Exclusive, Routed
  <2>4. CASE on[a] # n \/ ~alone'[a]
        BY <1>2, <2>1, <2>2, <2>3, <2>4 DEF Kept, Clean, Current, memory
  <2>5. CASE on[a] = n /\ alone'[a]
    <3>1. alone[a] /\ kind[a] = "delete" /\ pc[a] \notin Stopped
          BY <2>1, <2>2, <2>5 DEF Kept, Clean
    <3>2. Clean(a)' /\ Current(a)'
          BY <3>1 DEF Clean, Current, Actions, Stopped, Disabled, Removed, Uncached, Forgotten,
                      Done
    <3> QED BY <2>3, <3>2 DEF Kept
  <2> QED BY <2>4, <2>5
<1> QED BY <1>1, <1>3 DEF Inductive

LEMMA SystemdKeeps == ASSUME Inductive, NEW n \in Names, Systemd(n) PROVE Inductive'
<1>1. unit[n] \in Unit
      BY DEF Inductive, TypeOK
<1>2. CASE JobEnds(n)
  <2>1. Effect(job[n], unit[n]) \in Unit
        BY <1>1 DEF Effect, Unit
  <2> QED BY <1>2, <2>1, BecomesKeeps DEF JobEnds
<1>3. CASE Dies(n)
      BY <1>3, BecomesKeeps DEF Dies, Unit
<1>4. CASE Exits(n)
      BY <1>4, BecomesKeeps DEF Exits, Unit
<1>5. CASE AutoRestart(n)
      BY <1>5, BecomesKeeps DEF AutoRestart, Unit
<1> QED BY <1>2, <1>3, <1>4, <1>5 DEF Systemd

LEMMA PanelRestartKeeps == ASSUME Inductive, PanelRestart PROVE Inductive'
<1> USE DEF PanelRestart
<1>1. AnyName \in Names
      BY DEF AnyName
<1>2. mishaps' \in 0 .. MaxMishaps
      BY DEF Inductive, TypeOK
<1>3. TypeOK'
      BY <1>1, <1>2 DEF Inductive, TypeOK, Seen, Requests, world
<1>4. \A a \in Actors : Kept(a)'
      BY DEF Kept, Exclusive, Routed, Clean, Current
<1> QED BY <1>3, <1>4 DEF Inductive

LEMMA HandleKeeps == ASSUME Inductive, NEW h \in Handlers, Handle(h) PROVE Inductive'
<1>1. h \in Actors
      BY DEF Actors
<1>2. CASE StateFor(h) \/ Respond(h)
      BY <1>1, <1>2, LookupKeeps, ProbeKeeps, FillKeeps, RespondKeeps DEF StateFor
<1>3. CASE ActionGet(h) \/ ActionRun(h) \/ ActionReport(h) \/ ForgetCache(h) \/ ForgetSeen(h)
      BY <1>3, ActionGetKeeps, ActionRunKeeps, ActionReportKeeps, ForgetCacheKeeps,
         ForgetSeenKeeps
<1>4. CASE DeleteStop(h)
      BY <1>4, DeleteCallsKeep DEF DeleteStop
<1>5. CASE DeleteDisable(h)
      BY <1>5, DeleteCallsKeep DEF DeleteDisable
<1>6. CASE DeleteGet(h) \/ DeleteRemove(h) \/ DeleteSource(h) \/ DeleteEvent(h)
      BY <1>6, DeleteGetKeeps, DeleteRemoveKeeps, DeleteSourceKeeps, DeleteEventKeeps
<1>7. CASE Write(h) \/ ImportRead(h) \/ ImportCreate(h)
      BY <1>7, WriteKeeps, ImportReadKeeps, ImportCreateKeeps
<1> QED BY <1>2, <1>3, <1>4, <1>5, <1>6, <1>7 DEF Handle

LEMMA NextKeeps == Inductive /\ [Next]_vars => Inductive'
<1> SUFFICES ASSUME Inductive, [Next]_vars PROVE Inductive'
    OBVIOUS
<1>1. ASSUME NEW h \in Handlers, Request(h) \/ Handle(h)
      PROVE  Inductive'
      BY <1>1, RequestKeeps, HandleKeeps
<1>2. CASE Detect
  <2>1. Detector \in Actors
        BY DEF Actors
  <2> QED BY <1>2, <2>1, TickKeeps, DetectorNextKeeps, LookupKeeps, ProbeKeeps, FillKeeps,
             CompareKeeps DEF Detect, StateFor
<1>3. ASSUME NEW n \in Names, Expire(n) \/ Systemd(n)
      PROVE  Inductive'
      BY <1>3, ExpireKeeps, SystemdKeeps
<1>4. CASE PanelRestart
      BY <1>4, PanelRestartKeeps
<1>5. CASE UNCHANGED vars
  <2>1. TypeOK'
        BY <1>5 DEF Inductive, TypeOK, vars, world, memory, local
  <2>2. \A a \in Actors : Kept(a)'
        BY <1>5 DEF Inductive, Kept, Exclusive, Routed, Clean, Current, vars, world, memory, local
  <2> QED BY <2>1, <2>2 DEF Inductive
<1> QED BY <1>1, <1>2, <1>3, <1>4, <1>5 DEF Next

LEMMA InductiveHolds == Spec => []Inductive
BY InitHolds, NextKeeps, PTL DEF Spec

(* ------------------------------- theorems -------------------------------- *)

(* Every variable has its type.                                              *)
THEOREM TypeCorrect == Spec => []TypeOK
<1>1. Inductive => TypeOK
      BY DEF Inductive
<1> QED BY <1>1, InductiveHolds, PTL

(* deleteTunnel leaves nothing of a tunnel that nobody else is at work on    *)
(* (504-544): Stop makes the unit inactive and takes the place of a job that *)
(* timed out before, and neither comes back by itself; what follows does not *)
(* undo what went before.                                                    *)
THEOREM DeleteLeavesNothing == Spec => []CleanDelete
<1>1. Inductive => CleanDelete
  <2> SUFFICES ASSUME Inductive, NEW h \in Handlers, At(h, "devent"), alone[h]
               PROVE  /\ store[on[h]] = "absent" /\ unit[on[h]] = "inactive"
                      /\ ~enabled[on[h]] /\ job[on[h]] = "none"
                      /\ cache[on[h]] = "none" /\ lastSeen[on[h]] = "none"
                      /\ note[h] = "imported" => ~source[on[h]]
      BY DEF CleanDelete
  <2>1. Clean(h) /\ kind[h] = "delete" /\ pc[h] = "devent"
        BY DEF Inductive, Kept, Routed, Actors, At
  <2> QED BY <2>1 DEF Clean, Stopped, Disabled, Removed, Uncached, Forgotten, Done
<1> QED BY <1>1, InductiveHolds, PTL

(* tunnelAction answers with the unit's own state (577, 584): it empties the *)
(* cache before it asks stateFor, and nobody else fills it in between.       *)
THEOREM ActionAnswersState == Spec => []AnswerIsCurrent
<1>1. Inductive => AnswerIsCurrent
      BY DEF Inductive, AnswerIsCurrent, Kept, Current, Actors, At
<1> QED BY <1>1, InductiveHolds, PTL
=============================================================================
