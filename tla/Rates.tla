-------------------------------- MODULE Rates --------------------------------
(* The rates a tab draws of one tunnel: ingestSnapshot of the browser turns  *)
(* the daemon's byte counter, as the panel last scraped it, into points of a *)
(* chart, one per snapshot of the stream and one per answer to a list.       *)
EXTENDS Integers, Sequences

CONSTANTS
    ScrapeEvery, \* ticks between two scrapes (10 s)
    PulseEvery,  \* ticks between two snapshots (ssePulseInterval, 5 s)
    MaxGap,      \* ticks after which no rate is computed (60 s)
    Cap,         \* HISTORY_CAP
    MaxDelay,    \* bound: ticks the answer to a list may take
    MaxTime      \* bound: ticks of a behaviour

VARIABLES
    now,
    present,   \* the tunnel is stored
    counter,   \* the daemon's counter: traffic since its start
    total,     \* traffic ever
    sample,    \* what Latest returns
    phase,     \* the tick of the first snapshot
    pulsed,    \* this tick's snapshot has been sent, or lost
    answer,    \* a list's answer on its way, and when it was asked
    rateCache, \* the tab's state.rateCache
    hist       \* the tab's state.history

server == <<present, counter, total, sample, phase>>
tab == <<rateCache, hist>>
vars == <<now, server, pulsed, answer, tab>>

None == [kind |-> "none"]
(* The counter, with what it stands for: the total and the moment.           *)
Sample(up) == [kind |-> "sample", up |-> up, at |-> now, bytes |-> counter, sum |-> total]
(* What listTunnels and send say of the tunnel.                              *)
View == IF present THEN sample ELSE [kind |-> "gone"]

Init ==
    /\ now = 0 /\ present = TRUE /\ counter = 0 /\ total = 0
    /\ sample = None /\ phase \in 1 .. PulseEvery /\ pulsed = FALSE
    /\ answer = None /\ rateCache = None /\ hist = <<>>

(* ---------------------------------- panel -------------------------------- *)

Due == now >= phase /\ (now - phase) % PulseEvery = 0

(* A tick: bytes flow or not, the daemon may start anew, and a scrape that   *)
(* is due succeeds or fails.                                                 *)
Tick ==
    /\ now < MaxTime /\ now' = now + 1
    /\ Due => pulsed
    /\ answer # None => now < answer.asked + MaxDelay
    /\ pulsed' = FALSE
    /\ \E sent \in 0 .. 1, restart, up \in BOOLEAN :
         /\ counter' = (IF restart THEN 0 ELSE counter) + sent
         /\ total' = total + sent
         /\ sample' = IF present /\ now' % ScrapeEvery = 0 THEN Sample(up)' ELSE sample
    /\ UNCHANGED <<present, phase, answer, tab>>

(* A request deletes the tunnel, or creates it again.                        *)
Toggle ==
    /\ present' = ~present
    /\ UNCHANGED <<now, counter, total, sample, phase, pulsed, answer, tab>>

(* --------------------------------- the tab ------------------------------- *)

(* The bytes a rate divides by dt: none without a previous value, after too  *)
(* long a gap, or when the counter fell.                                     *)
Bytes(m) ==
    LET dt == now - rateCache.ts
        d == m.bytes - rateCache.bytes
    IN  IF rateCache # None /\ dt \in 1 .. MaxGap - 1 /\ d > 0 THEN d ELSE 0

Trimmed(h) == IF Len(h) > Cap THEN Tail(h) ELSE h

Point(m) == [drawn |-> Bytes(m), bytes |-> m.bytes, at |-> m.at, sum |-> m.sum]
Drawn(m) ==
    /\ rateCache' = [kind |-> "rate", ts |-> now, bytes |-> m.bytes]
    /\ hist' = Trimmed(Append(hist, Point(m)))

(* Mutant: a failed scrape's empty metrics are read as zeroes.               *)
IngestDown(v) ==
    \/ v.kind = "gone" /\ rateCache' = None /\ hist' = <<>>
    \/ v.kind = "none" /\ UNCHANGED tab
    \/ v.kind = "sample" /\ Drawn(IF v.up THEN v ELSE [v EXCEPT !.bytes = 0])

(* ingestSnapshot: what is gone is forgotten, what has no good scrape is     *)
(* left as it is.                                                            *)
Ingest(v) ==
    \/ v.kind = "gone" /\ rateCache' = None /\ hist' = <<>>
    \/ v.kind = "none" /\ UNCHANGED tab
    \/ v.kind = "sample" /\ ~v.up /\ UNCHANGED tab
    \/ v.kind = "sample" /\ v.up /\ Drawn(v)

Snapshot ==
    /\ Due /\ ~pulsed /\ pulsed' = TRUE
    /\ Ingest(View)
    /\ UNCHANGED <<now, server, answer>>

(* The stream is down, or the tab asleep.                                    *)
Miss ==
    /\ Due /\ ~pulsed /\ pulsed' = TRUE
    /\ UNCHANGED <<now, server, answer, tab>>

(* A GET of the list: the panel answers now, the tab reads it later.         *)
Ask ==
    /\ answer = None /\ answer' = [kind |-> "answer", view |-> View, asked |-> now]
    /\ UNCHANGED <<now, server, pulsed, tab>>

Land ==
    /\ answer # None /\ answer' = None
    /\ Ingest(answer.view)
    /\ UNCHANGED <<now, server, pulsed>>

Next == Tick \/ Toggle \/ Snapshot \/ Miss \/ Ask \/ Land
Spec == Init /\ [][Next]_vars

(* -------------------------------- properties ----------------------------- *)

(* Pairs of neighbours in the chart.                                         *)
Steps == {<<hist[i - 1], hist[i]>> : i \in 2 .. Len(hist)}

(* What a chart shows between two of its points is never more than what the  *)
(* daemon carried between the scrapes they were made of: through restarts of *)
(* the daemon, failed scrapes, gaps, a delete and a new tunnel of the name   *)
(* (1192-1193).  Points in the order of their scrapes, that is: an answer    *)
(* that lands after a newer snapshot turns the chart back.                   *)
NeverOverstated == \A s \in Steps : s[1].at <= s[2].at => s[2].drawn <= s[2].sum - s[1].sum
==============================================================================
