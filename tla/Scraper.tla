------------------------------ MODULE Scraper ------------------------------
(* internal/scraper/scraper.go: the loop that scrapes every tunnel's metrics *)
(* endpoint once per tick of a ticker, one goroutine per tunnel, and keeps   *)
(* the last samples of each tunnel name.  Requests create, change and delete *)
(* tunnels meanwhile (the store, one step a call).                           *)
(*                                                                           *)
(* Time is discrete, in a unit of which Interval and Timeout are multiples.  *)
(* It does not pass while something is due: a round the loop is free to      *)
(* start, or the time-out of a request.  Steps take no time of their own.    *)
(* What an endpoint answers is left out: a failed scrape is a sample too.    *)
EXTENDS Integers, Sequences

CONSTANTS
    Names,
    MaxHistory,  \* samples kept of a name (60)
    Interval,    \* of the ticker (10 s)
    Timeout,     \* of the HTTP client (3 s)
    MaxTime,     \* bound: length of a run
    MaxLives,    \* bound: how often a name is created
    MaxFailures  \* bound: how often the store cannot list the tunnels

ASSUME ScraperAssumption ==
    /\ MaxHistory \in Nat \ {0}
    /\ Interval \in Nat \ {0}
    /\ Timeout \in Nat \ {0}
    /\ MaxTime \in Nat /\ MaxLives \in Nat /\ MaxFailures \in Nat

VARIABLES
    now,       \* time.Now
    due, tick, \* the ticker: when it fires next, and whether its channel is full
    store,     \* each tunnel: absent, without a metrics address, or with one
    life,      \* how often a tunnel of that name was created
    since,     \* history: when it last got a metrics address
    running,   \* the goroutines of the round in progress
    began,     \* history: when the loop last took a tick, -1 before the first
    history,   \* s.history
    failures   \* failed listings so far

ticker == <<now, due, tick>>
config == <<store, life, since>>
vars == <<ticker, config, running, began, history, failures>>

Init ==
    /\ now = 0
    /\ due = Interval
    /\ tick = TRUE              \* the eager first round
    /\ store \in [Names -> {"absent", "metrics"}]
    /\ life = [n \in Names |-> IF store[n] = "absent" THEN 0 ELSE 1]
    /\ since = [n \in Names |-> 0]
    /\ running = {} /\ began = -1
    /\ history = [n \in Names |-> <<>>]
    /\ failures = 0

(* ------------------------------- the loop -------------------------------- *)

(* Mutant: the sample is not stamped.                                        *)
ScrapeUnstamped(n) == [name |-> n, life |-> life[n], time |-> -1]

(* A goroutine, and the sample it will push: scrapeOne stamps the sample     *)
(* before it sends the request.                                              *)
Scrape(n) == [name |-> n, life |-> life[n], time |-> now]

(* Mutant: no wg.Wait, a round may start in the middle of another.           *)
RoundOverlapping ==
    /\ tick
    /\ tick' = FALSE /\ began' = now
    /\ running' = running \cup {Scrape(n) : n \in {m \in Names : store[m] = "metrics"}}
    /\ UNCHANGED <<now, due, config, history, failures>>

(* targets(), then a goroutine for each tunnel that has an address.          *)
Round ==
    /\ tick /\ running = {}
    /\ tick' = FALSE /\ began' = now
    /\ running' = {Scrape(n) : n \in {m \in Names : store[m] = "metrics"}}
    /\ UNCHANGED <<now, due, config, history, failures>>

(* List fails, targets() is nil and the tick is lost.                        *)
RoundFails ==
    /\ tick /\ running = {} /\ failures < MaxFailures
    /\ tick' = FALSE /\ began' = now
    /\ failures' = failures + 1
    /\ UNCHANGED <<now, due, config, running, history>>

(* Mutant: the first MaxHistory elements are kept.                           *)
TrimmedEnd(s) == IF Len(s) > MaxHistory THEN SubSeq(s, 1, MaxHistory) ELSE s

(* The last MaxHistory elements.                                             *)
Trimmed(s) == IF Len(s) > MaxHistory THEN SubSeq(s, Len(s) - MaxHistory + 1, Len(s)) ELSE s

(* An answer, an error or the time-out: push.                                *)
Push(g) ==
    /\ running' = running \ {g}
    /\ history' = [history EXCEPT ![g.name] = Trimmed(Append(@, g))]
    /\ UNCHANGED <<ticker, config, began, failures>>

(* Mutant: a client without a time-out.                                      *)
PassUnbounded ==
    /\ now < MaxTime
    /\ ~(tick /\ running = {})
    /\ now' = now + 1
    /\ IF now' = due THEN tick' = TRUE /\ due' = due + Interval ELSE UNCHANGED <<tick, due>>
    /\ UNCHANGED <<config, running, began, history, failures>>

(* A unit of time.  A tick that finds the ticker's channel full is lost.     *)
Pass ==
    /\ now < MaxTime
    /\ ~(tick /\ running = {})
    /\ \A g \in running : now < g.time + Timeout
    /\ now' = now + 1
    /\ IF now' = due THEN tick' = TRUE /\ due' = due + Interval ELSE UNCHANGED <<tick, due>>
    /\ UNCHANGED <<config, running, began, history, failures>>

(* ------------------------------ the requests ----------------------------- *)

Set(n, s) ==
    /\ store' = [store EXCEPT ![n] = s]
    /\ since' = [since EXCEPT ![n] = IF s # "metrics" THEN 0
                                     ELSE IF store[n] = s THEN @ ELSE now]
    /\ UNCHANGED <<ticker, running, began, history, failures>>

Create(n) == /\ store[n] = "absent" /\ life[n] < MaxLives
             /\ life' = [life EXCEPT ![n] = @ + 1]
             /\ \E s \in {"silent", "metrics"} : Set(n, s)
Update(n) == /\ store[n] # "absent"
             /\ \E s \in {"silent", "metrics"} : Set(n, s)
             /\ UNCHANGED life
Delete(n) == /\ store[n] # "absent"
             /\ Set(n, "absent")
             /\ UNCHANGED life

Next == \/ Round \/ RoundFails \/ Pass
        \/ \E g \in running : Push(g)
        \/ \E n \in Names : Create(n) \/ Update(n) \/ Delete(n)

Spec == Init /\ [][Next]_vars

(* ------------------------------- properties ------------------------------ *)

Sample == [name : Names, life : Nat, time : 0 .. MaxTime]

(* Every variable has its type.                                              *)
TypeOK ==
    /\ now \in 0 .. MaxTime
    /\ due \in Nat
    /\ tick \in BOOLEAN
    /\ store \in [Names -> {"absent", "silent", "metrics"}]
    /\ life \in [Names -> Nat]
    /\ since \in [Names -> 0 .. MaxTime]
    /\ running \subseteq Sample
    /\ began \in Int
    /\ history \in [Names -> Seq(Sample)]
    /\ failures \in 0 .. MaxFailures

(* A history is chronological, without two samples of one moment, and no     *)
(* longer than MaxHistory (56, 109-110), whatever order and speed the        *)
(* endpoints answer in: what Rate and the sparklines divide by.              *)
Chronological ==
    \A n \in Names :
        /\ Len(history[n]) <= MaxHistory
        /\ \A i, j \in DOMAIN history[n] :
               i < j => history[n][i].time < history[n][j].time

(* Adding a tunnel, or giving it an address, works without a restart         *)
(* (63-66), and in bounded time: one that has had its address for longer     *)
(* than Bound has a sample of its own no older than that, in spite of slow   *)
(* endpoints, lost ticks and listings that failed.                           *)
Period == IF Interval > Timeout THEN Interval ELSE Timeout
Bound == failures * Period + Period + Timeout
Latest(n) == history[n][Len(history[n])]
Fresh ==
    \A n \in Names : store[n] = "metrics" /\ now - since[n] > Bound =>
        /\ history[n] # <<>>
        /\ Latest(n).life = life[n]
        /\ now - Latest(n).time <= Bound

(* "one slow endpoint can't delay the loop" (10-11): a tick is taken up at   *)
(* the moment it fires, provided that the time-out is within the interval.   *)
OnTime == Timeout <= Interval => (tick => now = due - Interval)
=============================================================================
