----------------------------- MODULE Exposition -----------------------------
(* Parse of internal/scraper: the text of a metrics endpoint, line by line,  *)
(* to a map from canonical keys to values.  A line is a sequence of tokens:  *)
(* words, numbers, and the characters the parser looks for.                  *)
EXTENDS Integers, Sequences, SequencesExt

CONSTANTS
    Lines,    \* lines an endpoint writes, see Text
    MaxLines  \* bound: lines of a text

VARIABLES
    text,    \* the lines of the response
    read,    \* how many the scanner has read
    out,     \* the map so far: pairs of a key and a value
    status   \* reading, done or failed

vars == <<text, read, out, status>>

(* --------------------------------- tokens -------------------------------- *)

Tok(t, v) == [t |-> t, v |-> v]
Word(v) == Tok("word", v)
Number(v) == Tok("number", v)  \* whatever ParseFloat accepts, NaN and Inf too
Space == Tok("space", "")
Comma == Tok("comma", "")
Open == Tok("open", "")
Close == Tok("close", "")
Hash == Tok("hash", "")

Positions(s, tok) == {i \in DOMAIN s : s[i] = tok}

(* What an endpoint writes for a line: a sample of a series, its labels (the *)
(* tokens of each) in some order, between the value and the metric a gap and *)
(* behind the value perhaps a timestamp; or something else.                  *)
Braced(labels) ==
    IF labels = <<>> THEN <<>>
    ELSE <<Open>> \o Tail(FlattenSeq([i \in DOMAIN labels |-> <<Comma>> \o labels[i]])) \o <<Close>>
Text(l) == IF l.kind = "sample"
           THEN <<Word("m")>> \o Braced(l.labels) \o l.gap \o <<Number(l.value)>> \o l.after
           ELSE l.tokens

(* --------------------------------- parser -------------------------------- *)

(* TrimSpace.                                                                *)
Trimmed(s) == LET kept == DOMAIN s \ Positions(s, Space)
              IN  IF kept = {} THEN <<>> ELSE SubSeq(s, Min(kept), Max(kept))

Depth(s, i) == Cardinality({j \in Positions(s, Open) : j <= i})
                   - Cardinality({j \in Positions(s, Close) : j <= i})
Ends(s) == {i \in Positions(s, Space) : Depth(s, i) = 0}

Upto(s, tok) == IF Positions(s, tok) = {} THEN s ELSE SubSeq(s, 1, Min(Positions(s, tok)) - 1)

Pieces(labels) ==
    LET cuts == SetToSortSeq(Positions(labels, Comma) \cup {0, Len(labels) + 1}, <)
    IN  [i \in 1 .. Len(cuts) - 1 |-> SubSeq(labels, cuts[i] + 1, cuts[i + 1] - 1)]

(* Mutant: the pieces stay in the order they are written.                    *)
CanonicalAsWritten(labels) == Pieces(labels)

(* canonicalizeLabels: split at commas, sorted and joined.  No piece holds a *)
(* comma, so what is left of them is how often each occurs.                  *)
Canonical(labels) ==
    LET pieces == Pieces(labels)
    IN  [p \in ToSet(pieces) |-> Cardinality({i \in DOMAIN pieces : pieces[i] = p})]

(* splitNameLabels and the key made of it: text behind the closing brace     *)
(* makes the whole a name.                                                   *)
Key(s) ==
    IF Positions(s, Open) = {} \/ Last(s) # Close THEN [name |-> s, labels |-> <<>>]
    ELSE LET i == Min(Positions(s, Open))
         IN  [name |-> SubSeq(s, 1, i - 1), labels |-> Canonical(SubSeq(s, i + 1, Len(s) - 1))]

(* parseLine: the metric up to the first space outside braces; of the rest,  *)
(* trimmed, the value up to the next space; nothing when that is no number.  *)
Metric(s) == SubSeq(s, 1, Min(Ends(s)) - 1)
Value(s) == Upto(Trimmed(SubSeq(s, Min(Ends(s)) + 1, Len(s))), Space)
ParseLine(s) ==
    IF Ends(s) \subseteq {1} \/ Len(Value(s)) # 1 \/ Value(s)[1].t # "number" THEN {}
    ELSE {<<Key(Metric(s)), Value(s)[1].v>>}

Set(map, pairs) == {e \in map : \A p \in pairs : p[1] # e[1]} \cup pairs

(* ---------------------------------- Parse -------------------------------- *)

Init ==
    /\ text \in BoundedSeq(Lines, MaxLines)
    /\ read = 0 /\ out = {} /\ status = "reading"

(* Comments, blank and malformed lines are skipped.                          *)
Scan ==
    /\ status = "reading" /\ read < Len(text) /\ text[read + 1].kind # "long"
    /\ read' = read + 1
    /\ LET s == Trimmed(Text(text[read + 1]))
       IN  out' = IF s = <<>> \/ Head(s) = Hash THEN out ELSE Set(out, ParseLine(s))
    /\ UNCHANGED <<text, status>>

(* A line beyond the scanner's buffer: Parse returns its error and no map.   *)
TooLong ==
    /\ status = "reading" /\ read < Len(text) /\ text[read + 1].kind = "long"
    /\ status' = "failed" /\ out' = {}
    /\ UNCHANGED <<text, read>>

Finish ==
    /\ status = "reading" /\ read = Len(text) /\ status' = "done"
    /\ UNCHANGED <<text, read, out>>

Next == Scan \/ TooLong \/ Finish
Spec == Init /\ [][Next]_vars

(* -------------------------------- properties ----------------------------- *)

Samples == {i \in DOMAIN text : text[i].kind = "sample"}
Series(i) == ToSet(text[i].labels)

(* The labels of a series hold no brace and at most one comma; two commas    *)
(* are enough for two series to have the same pieces.                        *)
Plain(i) ==
    LET all == FlattenSeq(text[i].labels)
    IN  /\ Positions(all, Open) \cup Positions(all, Close) = {}
        /\ Cardinality(Positions(all, Comma)) <= 1

(* In a text of plain series each has an entry of its own, with the value it *)
(* was last given, whatever the order of its labels, spaces in them or at    *)
(* the value, stamps, comments, blank and malformed lines in between         *)
(* (257-266): "one bad metric should never poison the rest of the scrape".   *)
ParsedAsMeant ==
    status = "done" /\ (\A i \in Samples : Plain(i)) =>
        LET key(i) == Key(Metric(Text(text[i])))
        IN  \A i \in Samples :
                /\ \A j \in Samples : key(i) = key(j) <=> Series(i) = Series(j)
                /\ (\A j \in Samples : Series(i) = Series(j) => j <= i) =>
                       {e \in out : e[1] = key(i)} = {<<key(i), text[i].value>>}
=============================================================================
