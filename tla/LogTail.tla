------------------------------ MODULE LogTail -------------------------------
(* tunnelStreamLogs of internal/api/handlers.go: the output of journalctl -f *)
(* (TailLogs of internal/procmgr), cut into lines and streamed to a browser. *)
(*                                                                           *)
(* A byte is its position in the output; which bytes are newlines is all the *)
(* splitter asks of them.  A line is the interval of its bytes, newline not  *)
(* included.  buf and leftover are one interval of bytes not yet sent.       *)
EXTENDS Integers, Sequences

CONSTANTS
    ReadSize,  \* of buf (4096)
    MaxBytes   \* bound: the output's length

VARIABLES
    written, newlines, \* the output so far: its length, where its newlines are
    process,           \* journalctl: not started, running, exited, waited for
    client,            \* the request's context is not cancelled
    stage,             \* where the handler is
    read,              \* bytes taken from the pipe
    start,             \* the first of them not sent: data is start .. read
    lines              \* history: the line events sent

output == <<written, newlines>>
vars == <<output, process, client, stage, read, start, lines>>

Init ==
    /\ written = 0 /\ newlines = {}
    /\ process = "none"
    /\ client = TRUE
    /\ stage = "new"
    /\ read = 0 /\ start = 1
    /\ lines = <<>>

(* Get, TailLogs, StdoutPipe, Start: each may fail and end the request.      *)
Open ==
    /\ stage = "new"
    /\ \/ stage' = "reading" /\ process' = "running"
       \/ stage' = "done" /\ UNCHANGED process
    /\ UNCHANGED <<output, client, read, start, lines>>

(* Mutant: what is left over from one read is forgotten at the next.         *)
ReadAfresh ==
    /\ stage = "reading" /\ read < written
    /\ \E n \in 1 .. ReadSize : read + n <= written /\ read' = read + n
    /\ start' = read + 1
    /\ stage' = "splitting"
    /\ UNCHANGED <<output, process, client, lines>>

(* Mutant: the number of bytes read is taken to be one too many.             *)
ReadBeyond ==
    /\ stage = "reading" /\ read < written
    /\ \E n \in 1 .. ReadSize : read + n <= written /\ read' = read + n + 1
    /\ stage' = "splitting"
    /\ UNCHANGED <<output, process, client, start, lines>>

(* stdout.Read returns some of what is there, at most a buffer of it.        *)
Read ==
    /\ stage = "reading" /\ read < written
    /\ \E n \in 1 .. ReadSize : read + n <= written /\ read' = read + n
    /\ stage' = "splitting"
    /\ UNCHANGED <<output, process, client, start, lines>>

(* Mutant: one line for each read.                                           *)
SplitOnce ==
    /\ stage = "splitting"
    /\ \E p \in newlines :
           /\ p \in start .. read
           /\ \A q \in newlines \cap (start .. read) : p <= q
           /\ lines' = Append(lines, [from |-> start, to |-> p - 1])
           /\ start' = p + 1
    /\ stage' = "reading"
    /\ UNCHANGED <<output, process, client, read>>

(* The first newline of data ends a line, which is sent and flushed; a write *)
(* to a client that is gone fails, and the loop goes on all the same.        *)
Split ==
    /\ stage = "splitting"
    /\ \E p \in newlines :
           /\ p \in start .. read
           /\ \A q \in newlines \cap (start .. read) : p <= q
           /\ lines' = Append(lines, [from |-> start, to |-> p - 1])
           /\ start' = p + 1
    /\ UNCHANGED <<output, process, client, stage, read>>

(* No newline in data: it becomes leftover.                                  *)
Keep ==
    /\ stage = "splitting"
    /\ newlines \cap (start .. read) = {}
    /\ stage' = "reading"
    /\ UNCHANGED <<output, process, client, read, start, lines>>

(* Mutant: the loop ends with the process, whatever is left in the pipe.     *)
FinishEarly ==
    /\ stage = "reading" /\ process = "exited"
    /\ stage' = "done" /\ process' = "reaped"
    /\ UNCHANGED <<output, client, read, start, lines>>

(* The pipe is empty and its writer gone: the loop ends, and Wait reaps.     *)
Finish ==
    /\ stage = "reading" /\ read = written /\ process = "exited"
    /\ stage' = "done" /\ process' = "reaped"
    /\ UNCHANGED <<output, client, read, start, lines>>

(* journalctl: a byte of output, an exit of its own accord.                  *)
Write ==
    /\ process = "running" /\ written < MaxBytes
    /\ written' = written + 1
    /\ \E nl \in {newlines, newlines \cup {written'}} : newlines' = nl
    /\ UNCHANGED <<process, client, stage, read, start, lines>>
Exit ==
    /\ process = "running"
    /\ process' = "exited"
    /\ UNCHANGED <<output, client, stage, read, start, lines>>

Leave ==
    /\ client /\ client' = FALSE
    /\ UNCHANGED <<output, process, stage, read, start, lines>>

(* Mutant: the command is not bound to the request's context.                *)
KillNever == FALSE /\ UNCHANGED vars

(* exec.CommandContext kills journalctl when the request is cancelled.       *)
Kill ==
    /\ ~client /\ process = "running"
    /\ process' = "exited"
    /\ UNCHANGED <<output, client, stage, read, start, lines>>

Handle == Open \/ Read \/ Split \/ Keep \/ Finish
Next == Handle \/ Write \/ Exit \/ Leave \/ Kill

(* The handler and the kill go on; nothing is asked of journalctl or of the  *)
(* client.                                                                   *)
Spec == Init /\ [][Next]_vars
FairSpec == Spec /\ WF_vars(Handle) /\ WF_vars(Kill)

(* ------------------------------ properties ------------------------------- *)

Line == [from : Nat, to : Nat]

(* Every variable has its type.                                              *)
TypeOK ==
    /\ written \in Nat /\ newlines \subseteq 1 .. written
    /\ process \in {"none", "running", "exited", "reaped"}
    /\ client \in BOOLEAN
    /\ stage \in {"new", "reading", "splitting", "done"}
    /\ read \in 0 .. written /\ start \in 1 .. read + 1
    /\ lines \in Seq(Line)

(* However the output is cut into reads (730-745), the lines sent are its    *)
(* lines: each runs from just behind a newline to just before the next one,  *)
(* in order, none skipped, split, joined or sent twice.                      *)
IsLine(i) ==
    /\ lines[i].from = IF i = 1 THEN 1 ELSE lines[i - 1].to + 2
    /\ lines[i].to + 1 \in newlines
    /\ newlines \cap (lines[i].from .. lines[i].to) = {}
WholeLines ==
    /\ \A i \in DOMAIN lines : IsLine(i)
    /\ start = IF lines = <<>> THEN 1 ELSE lines[Len(lines)].to + 2

(* The handler does not sit on a line: when it goes back to wait for output, *)
(* every line that is complete in what it has read has been sent.            *)
NoneHeldBack == stage \in {"reading", "done"} => newlines \cap (start .. read) = {}

(* Every line written is sent in the end, the last ones before an exit of    *)
(* journalctl included.                                                      *)
LinesArrive == \A p \in 1 .. MaxBytes : (p \in newlines) ~> (start > p)

(* "Cancel ctx to stop" (manager.go 256): a client that goes away leaves no  *)
(* journalctl behind.                                                        *)
NoOrphan == ~client ~> process \in {"none", "reaped"}
=============================================================================
