----------------------------- MODULE MCScraper -----------------------------
(* The way of a metric: the loop with two tunnels, one of them created       *)
(* again, the parser, and the chart.  A behaviour of this instance is one of *)
(* any of the three, the part chosen at its start, beside the others at      *)
(* rest.                                                                     *)
EXTENDS Metrics, TLC

CONSTANTS a, b

VARIABLE part \* which of the three moves

MCNames == {a, b}
MCSymmetry == Permutations(MCNames)

Word(v) == [t |-> "word", v |-> v]
Number(v) == [t |-> "number", v |-> v]
Sign(t) == [t |-> t, v |-> ""]
Space == Sign("space")
Comma == Sign("comma")

(* Labels: plain; with a space; with a comma; four that make two series with *)
(* the same pieces; with a brace.                                            *)
Plain == <<Word("a=x")>>
Spaced == <<Word("b=y"), Space, Word("z")>>
Split(one, other) == <<Word(one), Comma, Word(other)>>
Brace == <<Word("d="), Sign("open")>>
Orders == {<<>>, <<Plain, Spaced>>, <<Spaced, Plain>>,
           <<Split("c=p", "q")>>, <<Plain, Split("c=p", "q")>>, <<Split("c=p", "q"), Plain>>,
           <<Split("a=x", "y"), Split("c=z", "w")>>, <<Split("a=x", "w"), Split("c=z", "y")>>,
           <<Brace>>}

Given(labels, gap, value, after) ==
    [kind |-> "sample", labels |-> labels, gap |-> gap, value |-> value, after |-> after]
Series == {Given(o, <<Space>>, v, <<>>) : o \in Orders, v \in {"5", "NaN"}}
          \cup {Given(<<Plain, Spaced>>, <<Space, Space>>, "7", <<Space, Number("99")>>)}

(* Blank; a comment; a name alone; an unclosed brace; one too many; a word   *)
(* for a value, or behind it; text behind the closing brace, a space before. *)
Others == {[kind |-> "other", tokens |-> s] : s \in
              {<<Space>>, <<Sign("hash"), Space, Word("m")>>, <<Word("m")>>,
               <<Word("m"), Sign("open"), Word("a=x"), Space, Number("8")>>,
               <<Word("m"), Sign("close"), Space, Number("8")>>,
               <<Word("m"), Space, Word("v")>>, <<Word("m"), Space, Number("8"), Word("v")>>,
               <<Word("m"), Sign("open"), Word("a=x"), Sign("close"), Word("v"), Space, Number("8")>>,
               <<Space, Word("m"), Sign("open"), Sign("close"), Space, Number("8"), Space>>}}

MCLines == Series \cup Others \cup {[kind |-> "long"]}

parser == <<text, scanned, out, status>>
chart == <<clock, present, counter, total, sample, phase, pulsed, answer, rateCache, hist>>

MCInit ==
    /\ part \in {"loop", "text", "chart"}
    /\ Init /\ Chart!Init /\ Parser!Init
    /\ part # "loop" => \A n \in Names : store[n] = "absent"
    /\ part # "text" => text = <<>>

Loop == part = "loop" /\ UNCHANGED <<part, parser, chart>>
Parsing == part = "text" /\ UNCHANGED <<part, vars, chart>>
Drawing == part = "chart" /\ UNCHANGED <<part, vars, parser>>

MCNext ==
    \/ Loop /\ Next
    \/ Parsing /\ Parser!Next
    \/ Drawing /\ Chart!Next

MCSpec == MCInit /\ [][MCNext]_<<part, vars, parser, chart>>
=============================================================================
