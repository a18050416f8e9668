------------------------------ MODULE Metrics -------------------------------
(* The way of a metric: the loop that scrapes (Scraper), the parser of what  *)
(* is scraped (Exposition) and the charts a tab draws of it (Rates).  What   *)
(* the loop keeps of a sample is its moment, so the three share no state.    *)
EXTENDS Scraper

CONSTANTS
    Lines, MaxLines,               \* Exposition
    ScrapeEvery, PulseEvery,       \* Rates
    MaxGap, Cap, MaxDelay,
    LastTick                       \* its MaxTime

VARIABLES
    text, scanned, out, status,              \* Exposition; scanned is its read
    clock, present, counter, total, sample,  \* Rates; clock is its now
    phase, pulsed, answer, rateCache, hist

Parser == INSTANCE Exposition WITH read <- scanned
Chart == INSTANCE Rates WITH now <- clock, MaxTime <- LastTick

(* Exposition: each series has an entry, with the value it was last given.   *)
ParsedAsMeant == Parser!ParsedAsMeant

(* Rates: no point of a chart shows more than was carried.                   *)
NeverOverstated == Chart!NeverOverstated
=============================================================================
