------------------------------ MODULE External ------------------------------
(* The quiccochet processes of one tunnel and what the panel makes of them:  *)
(* stateFor of internal/api asks systemd and, unless the unit is active,     *)
(* FindExternal of internal/procmgr looks for a process outside the unit.    *)
EXTENDS Naturals

CONSTANTS
    Pids,      \* processes, 0 excluded; the lower ones come first in ps
    MaxFails   \* bound: calls of ps that fail

(* The config a process runs with: the unit's, /etc/ispof/tunnels/<n>.json;  *)
(* the panel's, <tunnels-dir>/<n>.json (the unit's too, where that is the    *)
(* directory); <n>.json elsewhere; another.                                  *)
Paths == {"unit", "panel", "named", "other"}

VARIABLES
    active,  \* ActiveState of quiccochet@<n>
    own,     \* the unit's process, 0 for none
    hand,    \* the config of each process started by hand, "none" for no process
    at,      \* where the lookup is
    pid,     \* what it found
    cache,   \* the cached external_pid, with its validity
    fails

systemd == <<active, own>>
lookup == <<at, pid, cache, fails>>
vars == <<systemd, hand, lookup>>

Init ==
    /\ active = "inactive" /\ own = 0
    /\ hand = [p \in Pids |-> "none"]
    /\ at = "idle" /\ pid = 0 /\ cache = [pid |-> 0, fresh |-> FALSE] /\ fails = 0

(* ------------------------- processes and systemd ------------------------- *)

Free == {p \in Pids : hand[p] = "none" /\ p # own}

UnitStarts ==
    /\ own = 0 /\ own' \in Free /\ active' = "active"
    /\ UNCHANGED <<hand, lookup>>
(* SIGTERM is sent, the process has up to TimeoutStopSec to end.             *)
UnitStops ==
    /\ active = "active" /\ active' = "deactivating"
    /\ UNCHANGED <<own, hand, lookup>>

(* It has stopped, or died; it may be waiting for RestartSec.                *)
UnitEnds ==
    /\ own # 0 /\ own' = 0 /\ active' \in {"inactive", "activating"}
    /\ UNCHANGED <<hand, lookup>>

HandStarts ==
    /\ \E p \in Free, path \in Paths :
          hand' = [hand EXCEPT ![p] = path]
    /\ UNCHANGED <<systemd, lookup>>
HandEnds ==
    /\ \E p \in Pids : hand[p] # "none" /\ hand' = [hand EXCEPT ![p] = "none"]
    /\ UNCHANGED <<systemd, lookup>>

(* -------------------------- stateFor, FindExternal ----------------------- *)

Args(p) == IF p = own THEN "unit" ELSE hand[p]

(* Mutant: the panel's own path only.                                        *)
FoundByPath == {p \in Pids : Args(p) = "panel"}

(* The lines of ps that FindExternal takes: they name the panel's path or    *)
(* /<n>.json, but not the directory /etc/ispof/tunnels/.                     *)
Found == {p \in Pids : Args(p) \in {"panel", "named"}}

First(s) == CHOOSE p \in s : \A q \in s : p <= q

(* systemctl show.                                                           *)
Look ==
    /\ at = "idle" /\ ~cache.fresh
    /\ pid' = 0 /\ at' = IF active = "active" THEN "store" ELSE "ps"
    /\ UNCHANGED <<systemd, hand, cache, fails>>

FindExternal ==
    /\ at = "ps" /\ at' = "store"
    /\ pid' = IF Found = {} THEN 0 ELSE First(Found)
    /\ UNCHANGED <<systemd, hand, cache, fails>>

PsFails ==
    /\ at = "ps" /\ at' = "store"
    /\ fails < MaxFails /\ fails' = fails + 1
    /\ UNCHANGED <<systemd, hand, pid, cache>>

Remember ==
    /\ at = "store" /\ at' = "idle"
    /\ cache' = [pid |-> pid, fresh |-> TRUE] /\ pid' = 0
    /\ UNCHANGED <<systemd, hand, fails>>

Expire ==
    /\ cache.fresh /\ cache' = [cache EXCEPT !.fresh = FALSE]
    /\ UNCHANGED <<systemd, hand, at, pid, fails>>

Lookup == Look \/ FindExternal \/ Remember
Next == UnitStarts \/ UnitStops \/ UnitEnds \/ HandStarts \/ HandEnds \/ Lookup \/ PsFails \/ Expire

(* The detector asks for ever, and the cache's time to live passes.          *)
Spec == Init /\ [][Next]_vars
FairSpec == Spec /\ WF_vars(Lookup) /\ WF_vars(Expire)

(* -------------------------------- properties ----------------------------- *)

(* A process of the tunnel outside the panel's unit, by the name of its      *)
(* config, is surfaced while it lasts and the unit is not active             *)
(* (handlers.go 83-87), and no longer once it has ended.                     *)
Outside(p) == active # "active" /\ hand[p] \in {"panel", "named"}
Surfaced ==
    /\ \A p \in Pids : <>[]Outside(p) => []<>(cache.pid # 0)
    /\ \A p \in Pids : <>[](hand[p] = "none") => <>[](cache.pid # p)
==============================================================================
