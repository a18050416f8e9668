-------------------------------- MODULE Panel --------------------------------
(* The panel's process: main of cmd/ispof, run by systemd as ispof.service,  *)
(* its background workers, its HTTP server and the streams open on it.       *)
EXTENDS Naturals, FiniteSets

CONSTANTS
    Tabs,        \* clients that keep a stream open
    Passed,      \* command lines: sets of flags
    MaxTrouble   \* bound: crashes, failures of store.New and of the listener

(* The flags main defines (51-57).                                           *)
Defined == {"listen", "tunnels-dir", "log-level", "auth", "scrape-interval",
            "auto-discover", "version"}

VARIABLES
    wanted,   \* the unit has been started, and not stopped since
    unit,     \* running, waiting for RestartSec, or inactive
    phase,    \* where main is
    code,     \* the exit status of its last run
    workers,  \* goroutines: scraper, detector, discovery
    streams,  \* tabs with an open stream
    cancelled, \* ctx of NotifyContext is done
    trouble,
    host      \* what main finds, see Hosts

process == <<phase, code, workers, streams, cancelled>>
vars == <<wanted, unit, process, trouble, host>>

Workers == {"scraper", "detector", "discovery"}
(* The command line; systemctl is in the PATH; the store has a tunnel;       *)
(* another program may hold the port for a while.                            *)
Hosts == [flags : Passed, systemctl : BOOLEAN, tunnels : BOOLEAN, portBusy : BOOLEAN]

Init ==
    /\ wanted = TRUE /\ unit = "running"
    /\ phase = "flags" /\ code = 0 /\ workers = {} /\ streams = {} /\ cancelled = FALSE
    /\ trouble = 0 /\ host \in Hosts

(* ---------------------------------- main --------------------------------- *)

Goto(from, to) == unit = "running" /\ phase = from /\ phase' = to

(* The process ends, and all that is in it.                                  *)
Ends(status) ==
    /\ phase' = "exit" /\ code' = status
    /\ workers' = {} /\ streams' = {} /\ cancelled' = FALSE
    /\ UNCHANGED <<wanted, unit>>

(* flag.Parse: an unknown flag is an exit with status 2.                     *)
ParseFlags ==
    /\ \/ /\ host.flags \subseteq Defined /\ Goto("flags", "store")
          /\ UNCHANGED <<wanted, unit, code, workers, streams, cancelled>>
       \/ /\ ~(host.flags \subseteq Defined) /\ unit = "running" /\ phase = "flags"
          /\ Ends(2)
    /\ UNCHANGED <<trouble, host>>

OpenStore ==
    /\ Goto("store", "wire")
    /\ UNCHANGED <<wanted, unit, code, workers, streams, cancelled, trouble, host>>

(* Mutant: the failure is logged and main returns.                           *)
StoreFailsQuietly ==
    /\ unit = "running" /\ phase = "store" /\ trouble < MaxTrouble
    /\ Ends(0)
    /\ trouble' = trouble + 1 /\ UNCHANGED host

(* MkdirAll fails: fatal.                                                    *)
StoreFails ==
    /\ unit = "running" /\ phase = "store" /\ trouble < MaxTrouble
    /\ Ends(1)
    /\ trouble' = trouble + 1 /\ UNCHANGED host

(* The error of procmgr.New is only logged; the workers start.               *)
Wire ==
    /\ Goto("wire", "listen")
    /\ workers' = Workers
    /\ UNCHANGED <<wanted, unit, code, streams, cancelled, trouble, host>>

Listen ==
    /\ ~cancelled /\ Goto("listen", "serve")
    /\ UNCHANGED <<wanted, unit, code, workers, streams, cancelled, trouble, host>>

(* The port is taken: the error is logged and the context cancelled, as by a *)
(* signal.                                                                   *)
ListenFails ==
    /\ host.portBusy /\ ~cancelled /\ phase = "listen" /\ unit = "running" /\ trouble < MaxTrouble
    /\ cancelled' = TRUE
    /\ trouble' = trouble + 1
    /\ UNCHANGED <<wanted, unit, phase, code, workers, streams, host>>

(* A pass of the detector probes each tunnel; without systemctl the Manager  *)
(* is nil, and its first use a panic that ends the process.                  *)
Detect ==
    /\ unit = "running" /\ "detector" \in workers /\ host.tunnels /\ ~host.systemctl
    /\ Ends(2)
    /\ UNCHANGED <<trouble, host>>

(* A worker sees the context done; the discovery also ends by itself.        *)
WorkerEnds(w) ==
    /\ unit = "running" /\ w \in workers /\ (cancelled \/ w = "discovery")
    /\ workers' = workers \ {w}
    /\ UNCHANGED <<wanted, unit, phase, code, streams, cancelled, trouble, host>>

(* Shutdown: no new connections, wait for those there are.                   *)
Drain ==
    /\ unit = "running" /\ cancelled /\ phase \in {"listen", "serve"} /\ phase' = "drain"
    /\ UNCHANGED <<wanted, unit, code, workers, streams, cancelled, trouble, host>>

(* Mutant: Shutdown has no deadline.                                         *)
ReturnWhenIdle ==
    /\ unit = "running" /\ phase = "drain" /\ streams = {}
    /\ Ends(0)
    /\ UNCHANGED <<trouble, host>>

(* Shutdown comes back when all are idle, or after 5 s; main returns.        *)
Return ==
    /\ unit = "running" /\ phase = "drain"
    /\ Ends(0)
    /\ UNCHANGED <<trouble, host>>

(* The process is killed, by the kernel or by hand.                          *)
Crash ==
    /\ unit = "running" /\ phase # "exit" /\ trouble < MaxTrouble
    /\ Ends(2)
    /\ trouble' = trouble + 1 /\ UNCHANGED host

(* --------------------------------- streams ------------------------------- *)

Connect(t) ==
    /\ unit = "running" /\ phase = "serve" /\ t \notin streams
    /\ streams' = streams \cup {t}
    /\ UNCHANGED <<wanted, unit, phase, code, workers, cancelled, trouble, host>>

(* The client goes, or ReadTimeout ends the stream: net/http leaves the      *)
(* request's read deadline on while the handler runs, and cancels its        *)
(* context when the deadline passes, 30 s after the request.                 *)
Disconnect(t) ==
    /\ t \in streams /\ streams' = streams \ {t}
    /\ UNCHANGED <<wanted, unit, phase, code, workers, cancelled, trouble, host>>

(* --------------------------------- systemd ------------------------------- *)

Catching == unit = "running" /\ phase \in {"listen", "serve", "drain"}

(* systemctl stop: SIGTERM, which ends main at once before NotifyContext.    *)
Stop ==
    /\ wanted /\ wanted' = FALSE
    /\ \/ /\ Catching
          /\ cancelled' = TRUE /\ UNCHANGED <<unit, phase, code, workers, streams>>
       \/ /\ ~Catching
          /\ unit' = "inactive" /\ phase' = "exit"
          /\ UNCHANGED <<code, workers, streams, cancelled>>
    /\ UNCHANGED <<trouble, host>>

(* Restart=on-failure: after a status other than 0, unless it was stopped.   *)
Reap ==
    /\ unit = "running" /\ phase = "exit"
    /\ unit' = IF wanted /\ code # 0 THEN "waiting" ELSE "inactive"
    /\ UNCHANGED <<wanted, process, trouble, host>>

Relaunch ==
    /\ unit = "waiting" /\ wanted
    /\ unit' = "running" /\ phase' = "flags"
    /\ UNCHANGED <<wanted, code, workers, streams, cancelled, trouble, host>>

Boot == ParseFlags \/ OpenStore \/ Wire \/ Listen
End == Detect \/ Drain \/ Return
Main == Boot \/ StoreFails \/ ListenFails \/ Crash \/ End \/ \E w \in Workers : WorkerEnds(w)
Systemd == Stop \/ Reap \/ Relaunch
Next == Main \/ Systemd \/ \E t \in Tabs : Connect(t) \/ Disconnect(t)

(* main and systemd go on; nothing is asked of tabs, users or the port.      *)
Spec == Init /\ [][Next]_vars
FairSpec == Spec /\ WF_vars(Boot) /\ WF_vars(Detect) /\ WF_vars(Drain) /\ WF_vars(Return)
                 /\ WF_vars(Reap) /\ WF_vars(Relaunch)

(* -------------------------------- properties ----------------------------- *)

(* A stop of the unit ends the panel, with streams open and whatever stage   *)
(* its start had reached (157-161: Shutdown waits 5 s at most), without the  *)
(* SIGKILL systemd would send at last, which is not modelled.                *)
StopEnds == ~wanted ~> unit = "inactive"

(* A panel that is wanted comes to serve, and comes back after every crash   *)
(* and every failed start, as "Restart=on-failure" (ispof.service 25) is     *)
(* there for.  Each premise is needed: an unknown flag ends every start      *)
(* (keys-dir, which ispof.service 21 passes, is one), without systemctl the  *)
(* detector's first pass panics, and after a listener that failed main       *)
(* returns normally, with status 0, which no restart follows.                *)
Ready == host.flags \subseteq Defined /\ (host.systemctl \/ ~host.tunnels) /\ ~host.portBusy
Serves == []<>(Ready /\ wanted => phase = "serve" /\ unit = "running")
==============================================================================
