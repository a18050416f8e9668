--------------------------- MODULE LogTailProofs ----------------------------
(* The safety of LogTail, for any buffer size and any output.                *)
EXTENDS Serving, TLAPS

USE LogTailAssumption DEF TailTypeOK, WholeLines, NoneHeldBack

(* The inductive invariant.                                                   *)
Unopened == tailing = "new" => read = 0
Inductive == TailTypeOK /\ WholeLines /\ NoneHeldBack /\ Unopened

LEMMA InitHolds == Logs!Init => Inductive
BY DEF Logs!Init, Inductive, Logs!TypeOK, Logs!WholeLines, Logs!NoneHeldBack, Unopened, Logs!IsLine

LEMMA LineTyped ==
    ASSUME NEW s \in Seq(Logs!Line), NEW i \in DOMAIN s
    PROVE  s[i].from \in Nat /\ s[i].to \in Nat
<1>1. s[i] \in Logs!Line OBVIOUS
<1> QED BY <1>1 DEF Logs!Line

LEMMA LineAppended ==
    ASSUME NEW s \in Seq(Logs!Line), NEW l \in Logs!Line
    PROVE  Append(s, l) \in Seq(Logs!Line) /\ Len(Append(s, l)) = Len(s) + 1
OBVIOUS

(* A step that leaves what has been read alone keeps what holds of it, if    *)
(* newlines come only behind it.                                             *)
LEMMA OutputGrows ==
    ASSUME Inductive, UNCHANGED <<start, lines, read>>,
           newlines \subseteq newlines', newlines' \subseteq newlines \cup {written + 1},
           tailing' \in {"reading", "done"} => tailing \in {"reading", "done", "new"}
    PROVE  WholeLines' /\ NoneHeldBack'
<1>0. lines \in Seq(Logs!Line)
      BY DEF Inductive, Logs!TypeOK
<1> USE DEF Inductive, Logs!TypeOK
<1>1. ASSUME NEW i \in DOMAIN lines PROVE Logs!IsLine(i)'
  <2>1. Logs!IsLine(i) BY DEF Logs!WholeLines
  <2>2. lines[i].to \in Nat BY <1>0, LineTyped
  <2>3. lines[i].to + 1 <= written BY <2>1, <2>2 DEF Logs!IsLine
  <2> QED BY <2>1, <2>2, <2>3 DEF Logs!IsLine
<1>2. NoneHeldBack' BY DEF Logs!NoneHeldBack, Unopened
<1> QED BY <1>1, <1>2 DEF Logs!WholeLines

LEMMA SplitKeeps == Inductive /\ Logs!Split => Inductive'
<1> SUFFICES ASSUME Inductive, Logs!Split PROVE Inductive'
    OBVIOUS
<1> USE DEF Inductive, Logs!TypeOK, Logs!Line, Logs!output
<1>1. PICK p \in newlines :
          /\ p \in start .. read
          /\ \A q \in newlines \cap (start .. read) : p <= q
          /\ lines' = Append(lines, [from |-> start, to |-> p - 1])
          /\ start' = p + 1
      BY DEF Logs!Split
<1>2. UNCHANGED <<written, newlines, process, client, tailing, read>>
      BY DEF Logs!Split
<1>3. [from |-> start, to |-> p - 1] \in Logs!Line
      BY <1>1
<1>4. lines' \in Seq(Logs!Line) /\ Len(lines') = Len(lines) + 1
  <2>1. lines \in Seq(Logs!Line) OBVIOUS
  <2> QED BY ONLY <1>1, <1>3, <2>1, LineAppended
<1>5. TailTypeOK'
      BY <1>1, <1>2, <1>4
<1>6. ASSUME NEW i \in DOMAIN lines' PROVE Logs!IsLine(i)'
  <2>1. CASE i \in DOMAIN lines
    <3>1. lines'[i] = lines[i] /\ (i # 1 => lines'[i - 1] = lines[i - 1])
          BY <1>1, <1>3, <2>1
    <3> QED BY <1>2, <2>1, <3>1 DEF Logs!WholeLines, Logs!IsLine
  <2>2. CASE i = Len(lines) + 1
    <3>1. lines'[i] = [from |-> start, to |-> p - 1]
          BY <1>1, <1>3, <2>2
    <3>2. i # 1 => lines'[i - 1] = lines[Len(lines)] /\ lines # <<>>
          BY <1>1, <1>3, <2>2
    <3>3. start = IF i = 1 THEN 1 ELSE lines'[i - 1].to + 2
          BY <2>2, <3>2 DEF Logs!WholeLines
    <3>4. newlines \cap (start .. p - 1) = {}
          BY <1>1
    <3>5. lines'[i].from = start /\ lines'[i].to = p - 1 /\ p - 1 + 1 = p
          BY <3>1
    <3> QED BY <1>2, <3>3, <3>4, <3>5 DEF Logs!IsLine
  <2> QED BY <1>4, <2>1, <2>2
<1>7. start' = lines'[Len(lines')].to + 2 /\ lines' # <<>>
  <2>1. lines \in Seq(Logs!Line) /\ p \in Nat OBVIOUS
  <2>2. lines'[Len(lines')] = [from |-> start, to |-> p - 1] /\ lines' # <<>>
        BY ONLY <1>1, <1>3, <1>4, <2>1
  <2>3. (p - 1) + 2 = p + 1 BY ONLY <2>1
  <2> QED BY ONLY <1>1, <2>2, <2>3
<1>8. NoneHeldBack' /\ Unopened'
      BY <1>2 DEF Logs!NoneHeldBack, Unopened, Logs!Split
<1> QED BY <1>5, <1>6, <1>7, <1>8 DEF Logs!WholeLines

LEMMA NextHolds == Inductive /\ [Logs!Next]_Logs!vars => Inductive'
<1> SUFFICES ASSUME Inductive, [Logs!Next]_Logs!vars PROVE Inductive'
    OBVIOUS
<1> USE DEF Inductive, Logs!TypeOK, Logs!output
<1>1. CASE Logs!Open
  <2>1. TailTypeOK' /\ Unopened' BY <1>1 DEF Logs!Open, Unopened
  <2> QED BY <1>1, <2>1, OutputGrows DEF Logs!Open
<1>2. CASE Logs!Read
  <2>1. TailTypeOK' BY <1>2 DEF Logs!Read
  <2>2. WholeLines' BY <1>2 DEF Logs!Read, Logs!WholeLines, Logs!IsLine
  <2> QED BY <1>2, <2>1, <2>2 DEF Logs!Read, Logs!NoneHeldBack, Unopened
<1>3. CASE Logs!Split
  BY <1>3, SplitKeeps
<1>4. CASE Logs!Keep
  <2>1. WholeLines' BY <1>4 DEF Logs!Keep, Logs!WholeLines, Logs!IsLine
  <2> QED BY <1>4, <2>1 DEF Logs!Keep, Logs!NoneHeldBack, Unopened
<1>5. CASE Logs!Finish
  <2>1. TailTypeOK' /\ Unopened' BY <1>5 DEF Logs!Finish, Unopened
  <2> QED BY <1>5, <2>1, OutputGrows DEF Logs!Finish
<1>6. CASE Logs!Write
  <2>1. TailTypeOK' /\ Unopened' BY <1>6 DEF Logs!Write, Unopened
  <2> QED BY <1>6, <2>1, OutputGrows DEF Logs!Write
<1>7. CASE Logs!Exit \/ Logs!Leave \/ Logs!Kill \/ UNCHANGED Logs!vars
  <2>1. TailTypeOK' /\ Unopened' BY <1>7 DEF Logs!Exit, Logs!Leave, Logs!Kill, Logs!vars, Unopened
  <2> QED BY <1>7, <2>1, OutputGrows DEF Logs!Exit, Logs!Leave, Logs!Kill, Logs!vars
<1> QED BY <1>1, <1>2, <1>3, <1>4, <1>5, <1>6, <1>7 DEF Logs!Next, Logs!Handle

(* The strengthened invariant holds in every reachable state.                *)
THEOREM Invariance == Logs!Spec => []Inductive
<1> QED BY InitHolds, NextHolds, PTL DEF Logs!Spec

(* Every variable has its type.                                              *)
THEOREM TypeCorrect == Logs!Spec => []TailTypeOK
<1>1. Inductive => TailTypeOK BY DEF Inductive
<1> QED BY <1>1, Invariance, PTL

(* The lines sent are the lines of the output, whole and in order, however  *)
(* it is cut into reads.                                                     *)
THEOREM LinesAreWhole == Logs!Spec => []WholeLines
<1>1. Inductive => WholeLines BY DEF Inductive
<1> QED BY <1>1, Invariance, PTL

(* No complete line waits in the handler while it waits for output.         *)
THEOREM NoLineHeldBack == Logs!Spec => []NoneHeldBack
<1>1. Inductive => NoneHeldBack BY DEF Inductive
<1> QED BY <1>1, Invariance, PTL
=============================================================================
