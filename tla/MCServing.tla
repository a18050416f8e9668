------------------------------ MODULE MCServing ------------------------------
(* An event log, a log tail, a lookup of processes and the panel's process.  *)
(* A behaviour of this instance is one of any of the four, the part chosen   *)
(* at its start, beside the others at rest; a panel at rest finds its port   *)
(* taken, so that nothing is asked of it.                                    *)
EXTENDS Serving

CONSTANTS p1, p2, c1, c2

VARIABLE part \* which of the four moves

MCPushers == {p1, p2}
MCConnections == {c1, c2}
MCPids == 1 .. 3

(* The command line of ispof.service, without and with the flag main lacks.  *)
MCFlags == {"listen", "tunnels-dir", "log-level", "auth"}
MCPassed == {MCFlags, MCFlags \cup {"keys-dir"}}

tail == <<written, newlines, process, client, tailing, read, start, lines>>
lookup == <<active, own, hand, at, pid, cache, fails>>
panel == <<wanted, unit, phase, code, workers, streams, cancelled, host, crashes>>

MCInit ==
    /\ part \in {"log", "tail", "external", "panel"}
    /\ Init /\ Logs!Init /\ Outside!Init /\ Unit!Init
    /\ part # "panel" =>
           host = [flags |-> MCFlags, systemctl |-> TRUE, tunnels |-> TRUE, portBusy |-> TRUE]

Log == part = "log" /\ UNCHANGED <<part, tail, lookup, panel>>
Follow == part = "tail" /\ UNCHANGED <<part, vars, lookup, panel>>
Search == part = "external" /\ UNCHANGED <<part, vars, tail, panel>>
Run == part = "panel" /\ UNCHANGED <<part, vars, tail, lookup>>

MCNext ==
    \/ Log /\ Next
    \/ Follow /\ Logs!Next
    \/ Search /\ Outside!Next
    \/ Run /\ Unit!Next

all == <<part, vars, tail, lookup, panel>>

(* The fairness of each, for the part that moves.                            *)
Fair ==
    /\ \A p \in Pushers : WF_all(Log /\ (Record(p) \/ Send(p)))
    /\ WF_all(Follow /\ Logs!Handle) /\ WF_all(Follow /\ Logs!Kill)
    /\ WF_all(Search /\ Outside!Lookup) /\ WF_all(Search /\ Outside!Expire)
    /\ WF_all(Run /\ Unit!Boot) /\ WF_all(Run /\ Unit!Detect) /\ WF_all(Run /\ Unit!Drain)
    /\ WF_all(Run /\ Unit!Return) /\ WF_all(Run /\ Unit!Reap) /\ WF_all(Run /\ Unit!Relaunch)

MCSpec == MCInit /\ [][MCNext]_all /\ Fair
=============================================================================
