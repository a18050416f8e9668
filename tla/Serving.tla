------------------------------- MODULE Serving -------------------------------
(* What runs beside the requests: the event log (EventLog), the tail of a    *)
(* log (LogTail), the search for processes outside the units (External), and *)
(* the panel's own process under systemd (Panel).  They share no state.      *)
EXTENDS EventLog

CONSTANTS
    ReadSize, MaxBytes,          \* LogTail
    Pids, MaxFails,              \* External
    Clients, Passed, MaxCrashes  \* Panel; its Tabs and its MaxTrouble

ASSUME LogTailAssumption == ReadSize \in Nat \ {0} /\ MaxBytes \in Nat

(* Process ids are numbers; 0 stands for none.                               *)
ASSUME PidsAreNumbers == Pids \subseteq Nat \ {0} /\ MaxFails \in Nat

(* A panel that is asked for its version exits at once.                      *)
ASSUME PanelAssumption == MaxCrashes \in Nat /\ \A flags \in Passed : "version" \notin flags

VARIABLES
    written, newlines, process, client, tailing, read, start, lines,  \* LogTail; tailing
                                                                      \* is its stage
    active, own, hand, at, pid, cache, fails,                         \* External
    wanted, unit, phase, code, workers, streams, cancelled, host,     \* Panel; crashes is
    crashes                                                           \* its trouble

Logs == INSTANCE LogTail WITH stage <- tailing
Outside == INSTANCE External
Unit == INSTANCE Panel WITH Tabs <- Clients, MaxTrouble <- MaxCrashes, trouble <- crashes

(* LogTail: every variable has its type.                                     *)
TailTypeOK == Logs!TypeOK

(* LogTail: the lines sent are the lines of the output.                      *)
WholeLines == Logs!WholeLines

(* LogTail: no complete line waits in the handler for more output.           *)
NoneHeldBack == Logs!NoneHeldBack

(* LogTail: every line written is sent in the end.                           *)
LinesArrive == Logs!LinesArrive

(* LogTail: a client that goes away leaves no journalctl behind.             *)
NoOrphan == Logs!NoOrphan

(* External: a process outside the unit is surfaced while it lasts.          *)
Surfaced == Outside!Surfaced

(* Panel: a stop of the unit ends the panel.                                 *)
StopEnds == Unit!StopEnds

(* Panel: a panel that is wanted comes to serve, after any crashes.          *)
Serves == Unit!Serves
=============================================================================
