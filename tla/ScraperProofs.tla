--------------------------- MODULE ScraperProofs ---------------------------
(* Theorems about Scraper: for any number of tunnels, any interval, time-out *)
(* and length of history, histories are chronological and samples fresh. At  *)
(* the end, the charts of Rates.                                                  *)
EXTENDS Metrics, TLAPS

(* The inductive invariant.                                                   *)

(* The next tick is less than a period away; rounds follow each other within *)
(* a Period and never share a moment; a round lasts at most Timeout.         *)
Paced ==
    /\ now < due /\ due <= now + Interval
    /\ began <= now /\ now <= began + Period
    /\ tick => began < now
    /\ ~tick => due <= began + Interval
    /\ \A g \in running : g.time = began /\ now <= began + Timeout

(* With a time-out within the interval, a round is over when the next is due. *)
Punctual ==
    Timeout <= Interval =>
        /\ tick => now = due - Interval
        /\ tick /\ running # {} => due = began + Interval + Interval
        /\ ~tick => due = began + Interval

(* One goroutine a name, and all samples there are older than its own.       *)
Ordered ==
    /\ Chronological
    /\ \A n \in Names : \A i \in DOMAIN history[n] : history[n][i].time <= began
    /\ \A g \in running : \A i \in DOMAIN history[g.name] : history[g.name][i].time < began
    /\ \A g, h \in running : g.name = h.name => g = h

(* A tunnel with an address got it, or was last scraped, not long before the *)
(* last round, and one period earlier still if that round is at work on it.  *)
Pending(n) == \E g \in running : g.name = n /\ g.life = life[n]
Since(n, t) == \/ since[n] >= t
               \/ history[n] # <<>> /\ Latest(n).life = life[n] /\ Latest(n).time >= t
Attended ==
    /\ \A n \in Names : store[n] = "metrics" =>
           Since(n, began - failures * Period - IF Pending(n) THEN Period ELSE 0)
    /\ \A g \in running : store[g.name] = "metrics" /\ g.life # life[g.name] =>
           since[g.name] >= began

Inductive == TypeOK /\ Paced /\ Punctual /\ Ordered /\ Attended

(* What push leaves in a history: the newest samples and then the new one.   *)
LEMMA TrimmedAppend ==
    ASSUME NEW s \in Seq(Sample), NEW g \in Sample, Len(s) <= MaxHistory
    PROVE  LET t == Trimmed(Append(s, g))
           IN  /\ t \in Seq(Sample)
               /\ Len(t) <= MaxHistory
               /\ t # <<>> /\ t[Len(t)] = g
               /\ \A i \in DOMAIN t : i < Len(t) =>
                      IF Len(s) = MaxHistory THEN i + 1 \in DOMAIN s /\ t[i] = s[i + 1]
                                             ELSE i \in DOMAIN s /\ t[i] = s[i]
<1> USE ScraperAssumption
<1> DEFINE a == Append(s, g)
<1>1. a \in Seq(Sample) /\ Len(a) = Len(s) + 1 /\ a[Len(a)] = g
      /\ \A i \in 1 .. Len(s) : a[i] = s[i]
  OBVIOUS
<1>2. CASE Len(s) = MaxHistory
  <2>1. Trimmed(a) = SubSeq(a, 2, Len(a))
    BY <1>1, <1>2 DEF Trimmed
  <2>2. /\ SubSeq(a, 2, Len(a)) \in Seq(Sample)
        /\ Len(SubSeq(a, 2, Len(a))) = Len(s)
        /\ \A i \in 1 .. Len(s) : SubSeq(a, 2, Len(a))[i] = a[i + 1]
    BY <1>1, <1>2
  <2> QED
    BY <1>1, <1>2, <2>1, <2>2
<1>3. CASE Len(s) < MaxHistory
  <2>1. Trimmed(a) = a
    BY <1>1, <1>3 DEF Trimmed
  <2> QED
    BY <1>1, <1>3, <2>1
<1> QED
  BY <1>2, <1>3

(* ------------------------------- the clock ------------------------------- *)

LEMMA PeriodType == Period \in Nat /\ Period >= Interval /\ Period >= Timeout /\ Period >= 1
BY ScraperAssumption DEF Period

LEMMA InductiveInit == Init => Inductive
<1> SUFFICES ASSUME Init PROVE Inductive
  OBVIOUS
<1> USE ScraperAssumption DEF Init
<1>1. TypeOK
  BY DEF TypeOK
<1>2. Paced
  BY PeriodType DEF Paced
<1>3. Punctual
  BY DEF Punctual
<1>4. Ordered
  BY DEF Ordered, Chronological
<1>5. Attended
  <2>1. failures * Period = 0
    BY PeriodType
  <2> QED
    BY <2>1, PeriodType DEF Attended, Since, Pending
<1> QED
  BY <1>1, <1>2, <1>3, <1>4, <1>5 DEF Inductive

LEMMA TypeStep == TypeOK /\ [Next]_vars => TypeOK'
<1> SUFFICES ASSUME TypeOK, [Next]_vars PROVE TypeOK'
  OBVIOUS
<1> USE ScraperAssumption DEF TypeOK
<1>0. ASSUME NEW n \in Names PROVE Scrape(n) \in Sample
  BY DEF Scrape, Sample
<1>1. CASE Round
  <2>1. tick' \in BOOLEAN
    BY <1>1 DEF Round
  <2>2. began' \in Int
    BY <1>1 DEF Round
  <2>3. running' \subseteq Sample
    BY <1>0, <1>1 DEF Round
  <2>4. UNCHANGED <<now, due, store, life, since, history, failures>>
    BY <1>1 DEF Round, config
  <2> QED
    BY <2>1, <2>2, <2>3, <2>4
<1>2. CASE RoundFails
  <2>1. tick' \in BOOLEAN
    BY <1>2 DEF RoundFails
  <2>2. began' \in Int /\ failures' \in 0 .. MaxFailures
    BY <1>2 DEF RoundFails
  <2>3. UNCHANGED <<now, due, store, life, since, running, history>>
    BY <1>2 DEF RoundFails, config
  <2> QED
    BY <2>1, <2>2, <2>3
<1>3. CASE Pass
  <2>1. tick' \in BOOLEAN
    BY <1>3 DEF Pass
  <2>2. now' \in 0 .. MaxTime /\ due' \in Nat
    BY <1>3 DEF Pass
  <2>3. UNCHANGED <<store, life, since, running, began, history, failures>>
    BY <1>3 DEF Pass, config
  <2> QED
    BY <2>1, <2>2, <2>3
<1>4. ASSUME NEW g \in running, Push(g) PROVE TypeOK'
  <2>1. g \in Sample /\ g.name \in Names /\ history[g.name] \in Seq(Sample)
    BY DEF Sample
  <2>2. Trimmed(Append(history[g.name], g)) \in Seq(Sample)
    BY <2>1 DEF Trimmed
  <2> QED
    BY <1>4, <2>1, <2>2 DEF Push, ticker, config
<1>5. ASSUME NEW n \in Names, NEW s \in {"absent", "silent", "metrics"}, Set(n, s),
             life' \in [Names -> Nat]
      PROVE  TypeOK'
  BY <1>5 DEF Set, ticker
<1>6. ASSUME NEW n \in Names, Create(n) PROVE TypeOK'
  <2>1. life' \in [Names -> Nat]
    BY <1>6 DEF Create
  <2>2. \E s \in {"absent", "silent", "metrics"} : Set(n, s)
    BY <1>6 DEF Create
  <2> QED
    BY <1>5, <2>1, <2>2
<1>7. ASSUME NEW n \in Names, Update(n) \/ Delete(n) PROVE TypeOK'
  <2>1. life' \in [Names -> Nat]
    BY <1>7 DEF Update, Delete
  <2>2. \E s \in {"absent", "silent", "metrics"} : Set(n, s)
    BY <1>7 DEF Update, Delete
  <2> QED
    BY <1>5, <2>1, <2>2
<1>8. CASE UNCHANGED vars
  BY <1>8 DEF vars, ticker, config
<1> QED
  BY <1>1, <1>2, <1>3, <1>4, <1>6, <1>7, <1>8 DEF Next

(* What the requests leave alone.                                            *)
LEMMA Requests ==
    ASSUME NEW n \in Names, Create(n) \/ Update(n) \/ Delete(n)
    PROVE  UNCHANGED <<ticker, running, began, history, failures>>
BY DEF Create, Update, Delete, Set

LEMMA PacedStep == TypeOK /\ Paced /\ [Next]_vars => Paced'
<1> SUFFICES ASSUME TypeOK, Paced, [Next]_vars PROVE Paced'
  OBVIOUS
<1> USE ScraperAssumption, PeriodType DEF TypeOK, Paced
<1>1. CASE Round
  BY <1>1 DEF Round, Scrape, config
<1>2. CASE RoundFails
  BY <1>2 DEF RoundFails, config
<1>3. CASE Pass
  <2>1. now' = now + 1 /\ UNCHANGED <<running, began>>
    BY <1>3 DEF Pass
  <2>2. now' <= began + Period
    <3>1. CASE running = {}
      BY <1>3, <3>1 DEF Pass
    <3>2. CASE running # {}
      <4> PICK g \in running : TRUE
        BY <3>2
      <4>1. g.time = began /\ now < g.time + Timeout
        BY <1>3 DEF Pass
      <4> QED
        BY <2>1, <4>1
    <3> QED
      BY <3>1, <3>2
  <2>3. ASSUME NEW g \in running PROVE now' <= began + Timeout
    <3>1. g.time = began /\ now < g.time + Timeout
      BY <1>3 DEF Pass
    <3> QED
      BY <2>1, <3>1
  <2>4. now' < due' /\ due' <= now' + Interval
    BY <1>3 DEF Pass
  <2>5. (tick' => began < now') /\ (~tick' => due' <= began + Interval)
    BY <1>3 DEF Pass
  <2> QED
    BY <2>1, <2>2, <2>3, <2>4, <2>5
<1>4. ASSUME NEW g \in running, Push(g) PROVE Paced'
  BY <1>4 DEF Push, ticker
<1>5. ASSUME NEW n \in Names, Create(n) \/ Update(n) \/ Delete(n) PROVE Paced'
  BY <1>5, Requests DEF ticker
<1>6. CASE UNCHANGED vars
  BY <1>6 DEF vars, ticker
<1> QED
  BY <1>1, <1>2, <1>3, <1>4, <1>5, <1>6 DEF Next

LEMMA PunctualStep == TypeOK /\ Paced /\ Punctual /\ [Next]_vars => Punctual'
<1> SUFFICES ASSUME TypeOK, Paced, Punctual, Timeout <= Interval, [Next]_vars
             PROVE  /\ tick' => now' = due' - Interval
                    /\ tick' /\ running' # {} => due' = began' + Interval + Interval
                    /\ ~tick' => due' = began' + Interval
  BY DEF Punctual
<1> USE ScraperAssumption DEF TypeOK, Paced, Punctual
<1>1. CASE Round
  BY <1>1 DEF Round
<1>2. CASE RoundFails
  BY <1>2 DEF RoundFails
<1>3. CASE Pass
  <2>1. ~tick
    <3> SUFFICES ASSUME tick PROVE FALSE
      OBVIOUS
    <3> PICK g \in running : now < g.time + Timeout
      BY <1>3 DEF Pass
    <3> QED
      OBVIOUS
  <2> QED
    BY <1>3, <2>1 DEF Pass
<1>4. ASSUME NEW g \in running, Push(g)
      PROVE  UNCHANGED <<now, due, tick, began>> /\ running' \subseteq running
  BY <1>4 DEF Push, ticker
<1>5. ASSUME NEW n \in Names, Create(n) \/ Update(n) \/ Delete(n)
      PROVE  UNCHANGED <<now, due, tick, began, running>>
  BY <1>5, Requests DEF ticker
<1>6. CASE UNCHANGED vars
  BY <1>6 DEF vars, ticker
<1> QED
  BY <1>1, <1>2, <1>3, <1>4, <1>5, <1>6 DEF Next

(* ----------------------------- the histories ----------------------------- *)

(* What is below a step of Ordered and of Attended: a push changes one       *)
(* history, by one sample at its end.                                        *)
LEMMA Pushed ==
    ASSUME TypeOK, Chronological, NEW g \in running, Push(g)
    PROVE  /\ g \in Sample /\ g.name \in Names
           /\ history'[g.name] # <<>> /\ Latest(g.name)' = g
           /\ Len(history'[g.name]) <= MaxHistory
           /\ \E k \in {0, 1} :
                  \A j \in DOMAIN history'[g.name] : j < Len(history'[g.name]) =>
                      /\ j + k \in DOMAIN history[g.name]
                      /\ history'[g.name][j] = history[g.name][j + k]
           /\ \A n \in Names \ {g.name} : history'[n] = history[n] /\ Latest(n)' = Latest(n)
           /\ running' = running \ {g}
           /\ UNCHANGED <<now, due, tick, store, life, since, began, failures>>
<1> USE ScraperAssumption
<1> DEFINE s == history[g.name]
           t == Trimmed(Append(s, g))
<1>1. g \in Sample /\ g.name \in Names /\ s \in Seq(Sample)
  BY DEF TypeOK, Sample
<1>2. Len(s) <= MaxHistory
  BY <1>1 DEF Chronological
<1>3. /\ t \in Seq(Sample)
      /\ Len(t) <= MaxHistory
      /\ t # <<>> /\ t[Len(t)] = g
      /\ \A i \in DOMAIN t : i < Len(t) =>
             IF Len(s) = MaxHistory THEN i + 1 \in DOMAIN s /\ t[i] = s[i + 1]
                                    ELSE i \in DOMAIN s /\ t[i] = s[i]
  BY <1>1, <1>2, TrimmedAppend
<1>4. history'[g.name] = t /\ \A n \in Names \ {g.name} : history'[n] = history[n]
  BY <1>1 DEF Push, TypeOK
<1>5. \E k \in {0, 1} : \A j \in DOMAIN t : j < Len(t) =>
          j + k \in DOMAIN s /\ t[j] = s[j + k]
  <2> HIDE DEF t
  <2>1. CASE Len(s) = MaxHistory
    <3> WITNESS 1 \in {0, 1}
    <3> QED
      BY <1>3, <2>1
  <2>2. CASE Len(s) # MaxHistory
    <3>1. \A j \in DOMAIN t : j < Len(t) => j + 0 \in DOMAIN s /\ t[j] = s[j + 0]
      BY <1>1, <1>3, <2>2
    <3> QED
      BY <3>1
  <2> QED
    BY <2>1, <2>2
<1>6. running' = running \ {g} /\ UNCHANGED <<now, due, tick, store, life, since, began, failures>>
  BY DEF Push, ticker, config
<1> HIDE DEF t
<1> QED
  BY <1>1, <1>3, <1>4, <1>5, <1>6 DEF Latest

LEMMA Sampled ==
    ASSUME TypeOK, NEW n \in Names
    PROVE  /\ history[n] \in Seq(Sample) /\ Len(history[n]) \in Nat
           /\ \A i \in DOMAIN history[n] : history[n][i] \in Sample /\ history[n][i].time \in Int
<1>1. history[n] \in Seq(Sample)
  BY DEF TypeOK
<1>2. \A g \in Sample : g.time \in Int
  BY ScraperAssumption DEF Sample
<1> QED
  BY <1>1, <1>2

LEMMA OrderedStep == TypeOK /\ Paced /\ Ordered /\ [Next]_vars => Ordered'
<1> SUFFICES ASSUME TypeOK, Paced, Ordered, [Next]_vars PROVE Ordered'
  OBVIOUS
<1>0. began \in Int /\ now \in Int
  BY ScraperAssumption DEF TypeOK
<1>1. CASE Round
  <2>1. began < began' /\ began' \in Int /\ UNCHANGED history
    BY <1>0, <1>1 DEF Round, Paced
  <2>2. \A g \in running' : g.name \in Names /\ g = Scrape(g.name)
    BY <1>1 DEF Round, Scrape
  <2>3. \A n \in Names : \A i \in DOMAIN history[n] : history[n][i].time < began'
    BY <1>0, <2>1, Sampled DEF Ordered
  <2>4. \A n \in Names : \A i \in DOMAIN history[n] : history[n][i].time <= began'
    BY <2>1, <2>3, Sampled
  <2> QED
    BY <2>1, <2>2, <2>3, <2>4 DEF Ordered, Chronological
<1>2. CASE RoundFails
  <2>1. began <= began' /\ began' \in Int /\ UNCHANGED <<running, history>> /\ running = {}
    BY <1>0, <1>2 DEF RoundFails, Paced
  <2>2. \A n \in Names : \A i \in DOMAIN history[n] : history[n][i].time <= began'
    BY <1>0, <2>1, Sampled DEF Ordered
  <2> QED
    BY <2>1, <2>2 DEF Ordered, Chronological
<1>3. ASSUME NEW g \in running, Push(g) PROVE Ordered'
  <2> DEFINE t == history'[g.name]
  <2>1. /\ g.name \in Names /\ t # <<>> /\ t[Len(t)] = g /\ Len(t) <= MaxHistory
        /\ \A n \in Names \ {g.name} : history'[n] = history[n]
        /\ running' = running \ {g} /\ began' = began
    BY <1>3, Pushed DEF Ordered, Latest
  <2>2. PICK k \in {0, 1} : \A j \in DOMAIN t : j < Len(t) =>
            j + k \in DOMAIN history[g.name] /\ t[j] = history[g.name][j + k]
    BY <1>3, Pushed DEF Ordered
  <2>3. TypeOK'
    BY TypeStep
  <2>4. g.time = began
    BY DEF Paced
  <2>5. \A i \in DOMAIN t : i < Len(t) => t[i].time < began
    BY <2>2 DEF Ordered
  <2>6. \A i \in DOMAIN t : t[i].time <= began
    <3>1. t \in Seq(Sample)
      BY <2>1, <2>3 DEF TypeOK
    <3>2. \A h \in Sample : h.time \in Int
      BY ScraperAssumption DEF Sample
    <3> QED
      BY <1>0, <2>1, <2>4, <2>5, <3>1, <3>2
  <2>7. ASSUME NEW i \in DOMAIN t, NEW j \in DOMAIN t, i < j PROVE t[i].time < t[j].time
    <3>1. t \in Seq(Sample) /\ history[g.name] \in Seq(Sample)
      BY <2>1, <2>3 DEF TypeOK
    <3>2. CASE j = Len(t)
      BY <2>1, <2>4, <2>5, <2>7, <3>1, <3>2
    <3>3. CASE j < Len(t)
      <4>1. i + k < j + k /\ i < Len(t)
        BY <2>7, <3>1, <3>3
      <4>2. /\ i + k \in DOMAIN history[g.name] /\ t[i] = history[g.name][i + k]
            /\ j + k \in DOMAIN history[g.name] /\ t[j] = history[g.name][j + k]
        BY <2>2, <3>3, <4>1
      <4> QED
        BY <2>1, <4>1, <4>2 DEF Ordered, Chronological
    <3> QED
      BY <3>1, <3>2, <3>3
  <2>8. Chronological'
    BY <2>1, <2>7 DEF Ordered, Chronological
  <2>9. \A h \in running' : h \in running /\ h.name # g.name
    BY <2>1 DEF Ordered
  <2>10. \A h \in running' : h.name \in Names
    BY <2>1 DEF TypeOK, Sample
  <2> QED
    BY <2>1, <2>6, <2>8, <2>9, <2>10 DEF Ordered
<1>4. CASE UNCHANGED <<running, began, history>>
  BY <1>4 DEF Ordered, Chronological
<1> QED
  BY <1>1, <1>2, <1>3, <1>4, Requests DEF Next, Pass, vars

(* ------------------------------ the samples ------------------------------ *)

(* What a request leaves true of a tunnel with an address.                   *)
LEMMA Requested ==
    ASSUME TypeOK, NEW n \in Names, Create(n) \/ Update(n) \/ Delete(n),
           NEW m \in Names, store'[m] = "metrics"
    PROVE  \/ since'[m] = now
           \/ store[m] = "metrics" /\ since'[m] = since[m] /\ life'[m] = life[m]
<1>1. CASE m # n
  BY <1>1 DEF Create, Update, Delete, Set, TypeOK
<1>2. CASE m = n /\ Create(n)
  BY <1>2 DEF Create, Set, TypeOK
<1>3. CASE m = n /\ (Update(n) \/ Delete(n))
  BY <1>3 DEF Update, Delete, Set, TypeOK
<1> QED
  BY <1>1, <1>2, <1>3

LEMMA SinceTypes == TypeOK => /\ began \in Int /\ now \in Int
                              /\ failures * Period \in Nat
                              /\ (failures + 1) * Period = failures * Period + Period
                              /\ \A n \in Names : since[n] \in Int
BY PeriodType, ScraperAssumption DEF TypeOK

LEMMA SinceWeaker ==
    ASSUME TypeOK, NEW n \in Names, NEW t \in Int, NEW u \in Int, u <= t, Since(n, t)
    PROVE  Since(n, u)
<1>1. history[n] # <<>> => Latest(n).time \in Int
  BY Sampled DEF Latest
<1> QED
  BY <1>1, SinceTypes DEF Since

LEMMA AttendedStep == TypeOK /\ Paced /\ Ordered /\ Attended /\ [Next]_vars => Attended'
<1> SUFFICES ASSUME TypeOK, Paced, Ordered, Attended, [Next]_vars PROVE Attended'
  OBVIOUS
<1> USE PeriodType, SinceTypes
<1>1. CASE Round
  <2>0. running' = {Scrape(n) : n \in {m \in Names : store[m] = "metrics"}}
    BY <1>1 DEF Round
  <2>1. /\ \A g \in running' : g.name \in Names /\ g.life = life[g.name]
        /\ began' = now /\ running = {}
        /\ UNCHANGED <<store, life, since, history, failures>>
    BY <1>1, <2>0 DEF Round, Scrape, config
  <2>2. ASSUME NEW n \in Names, store[n] = "metrics"
        PROVE  Since(n, now - failures * Period - Period) /\ Pending(n)'
    <3>1. Since(n, began - failures * Period)
      BY <2>1, <2>2 DEF Attended, Pending
    <3>2. now - failures * Period - Period <= began - failures * Period
      BY DEF Paced
    <3>3. /\ Scrape(n) \in running'
          /\ Scrape(n).name = n /\ Scrape(n).life = life[n]
      BY <2>0, <2>2 DEF Scrape
    <3>4. Pending(n)'
      BY <2>1, <3>3 DEF Pending
    <3> QED
      BY <3>1, <3>2, <3>4, SinceWeaker
  <2>3. ASSUME NEW n \in Names, store'[n] = "metrics"
        PROVE  Since(n, began - failures * Period - IF Pending(n) THEN Period ELSE 0)'
    BY <2>1, <2>2, <2>3 DEF Since, Latest
  <2> QED
    BY <2>1, <2>3 DEF Attended
<1>2. CASE RoundFails
  <2>1. /\ began' = now /\ failures' = failures + 1 /\ running = {}
        /\ UNCHANGED <<store, life, since, running, history>>
    BY <1>2 DEF RoundFails, config
  <2>2. ASSUME NEW n \in Names, store[n] = "metrics"
        PROVE  Since(n, now - (failures + 1) * Period)
    <3>1. Since(n, began - failures * Period)
      BY <2>1, <2>2 DEF Attended, Pending
    <3>2. now - (failures + 1) * Period <= began - failures * Period
      BY DEF Paced
    <3> QED
      BY <2>2, <3>1, <3>2, SinceWeaker
  <2>3. ASSUME NEW n \in Names, store'[n] = "metrics"
        PROVE  Since(n, began - failures * Period - IF Pending(n) THEN Period ELSE 0)'
    BY <2>1, <2>2, <2>3 DEF Since, Latest, Pending
  <2> QED
    BY <2>1, <2>3 DEF Attended
<1>3. ASSUME NEW g \in running, Push(g) PROVE Attended'
  <2>1. /\ g \in Sample /\ g.name \in Names /\ history'[g.name] # <<>> /\ Latest(g.name)' = g
        /\ \A n \in Names \ {g.name} : history'[n] = history[n] /\ Latest(n)' = Latest(n)
        /\ running' = running \ {g} /\ g.time = began
        /\ UNCHANGED <<now, store, life, since, began, failures>>
    BY <1>3, Pushed DEF Ordered, Paced
  <2>2. ASSUME NEW n \in Names, store'[n] = "metrics"
        PROVE  Since(n, began - failures * Period - IF Pending(n) THEN Period ELSE 0)'
    <3>1. CASE n # g.name
      <4>1. Since(n, began - failures * Period - IF Pending(n) THEN Period ELSE 0)
        BY <2>1, <2>2 DEF Attended
      <4>2. Pending(n)' <=> Pending(n)
        BY <2>1, <3>1 DEF Pending
      <4> QED
        BY <2>1, <3>1, <4>1, <4>2 DEF Since
    <3>2. CASE n = g.name
      <4>1. ~Pending(n)'
        BY <2>1, <3>2 DEF Pending, Ordered
      <4>2. CASE g.life = life[n]
        BY <2>1, <3>2, <4>1, <4>2 DEF Since
      <4>3. CASE g.life # life[n]
        <5>1. since[n] >= began
          BY <2>1, <2>2, <3>2, <4>3 DEF Attended
        <5> QED
          BY <2>1, <4>1, <5>1 DEF Since
      <4> QED
        BY <4>2, <4>3
    <3> QED
      BY <3>1, <3>2
  <2> QED
    BY <2>1, <2>2 DEF Attended
<1>4. ASSUME NEW n \in Names, Create(n) \/ Update(n) \/ Delete(n) PROVE Attended'
  <2>1. UNCHANGED <<now, running, began, history, failures>>
    BY <1>4, Requests DEF ticker
  <2>2. \A m \in Names : store'[m] = "metrics" =>
            \/ since'[m] = now
            \/ store[m] = "metrics" /\ since'[m] = since[m] /\ life'[m] = life[m]
    BY <1>4, Requested
  <2>3. began <= now
    BY DEF Paced
  <2>4. ASSUME NEW m \in Names, store'[m] = "metrics"
        PROVE  Since(m, began - failures * Period - IF Pending(m) THEN Period ELSE 0)'
    <3>1. CASE since'[m] = now
      BY <2>1, <2>3, <3>1 DEF Since
    <3>2. CASE store[m] = "metrics" /\ since'[m] = since[m] /\ life'[m] = life[m]
      <4>1. Since(m, began - failures * Period - IF Pending(m) THEN Period ELSE 0)
        BY <3>2 DEF Attended
      <4>2. Pending(m)' <=> Pending(m)
        BY <2>1, <3>2 DEF Pending
      <4> QED
        BY <2>1, <3>2, <4>1, <4>2 DEF Since, Latest
    <3> QED
      BY <2>2, <2>4, <3>1, <3>2
  <2>5. \A g \in running : g.name \in Names
    BY DEF TypeOK, Sample
  <2>6. ASSUME NEW g \in running', store'[g.name] = "metrics", g.life # life'[g.name]
        PROVE  since'[g.name] >= began'
    BY <2>1, <2>2, <2>3, <2>5, <2>6 DEF Attended
  <2> QED
    BY <2>4, <2>6 DEF Attended
<1>5. CASE UNCHANGED <<store, life, since, running, began, history, failures>>
  BY <1>5 DEF Attended, Since, Pending, Latest
<1> QED
  BY <1>1, <1>2, <1>3, <1>4, <1>5 DEF Next, Pass, vars, config

(* ------------------------------ the theorems ----------------------------- *)

LEMMA InductiveStep == Inductive /\ [Next]_vars => Inductive'
BY TypeStep, PacedStep, PunctualStep, OrderedStep, AttendedStep DEF Inductive

THEOREM Invariance == Spec => []Inductive
BY InductiveInit, InductiveStep, PTL DEF Spec

(* The variables keep their types.                                           *)
THEOREM TypeCorrect == Spec => []TypeOK
<1>1. Inductive => TypeOK
  BY DEF Inductive
<1> QED
  BY <1>1, Invariance, PTL

(* Histories are chronological and bounded: push needs no sort, because a    *)
(* round never starts before the previous one has pushed everything.         *)
THEOREM HistoriesChronological == Spec => []Chronological
<1>1. Inductive => Chronological
  BY DEF Inductive, Ordered
<1> QED
  BY <1>1, Invariance, PTL

(* Every tunnel with an address has a fresh sample of its own.               *)
THEOREM SamplesFresh == Spec => []Fresh
<1>1. Inductive => Fresh
  <2> SUFFICES ASSUME Inductive, NEW n \in Names, store[n] = "metrics", now - since[n] > Bound
               PROVE  /\ history[n] # <<>>
                      /\ Latest(n).life = life[n]
                      /\ now - Latest(n).time <= Bound
    BY DEF Fresh
  <2> USE PeriodType, SinceTypes, ScraperAssumption DEF Inductive
  <2>1. now - Bound <= began - failures * Period - IF Pending(n) THEN Period ELSE 0
    <3>1. CASE Pending(n)
      BY <3>1 DEF Pending, Paced, Bound
    <3>2. CASE ~Pending(n)
      BY <3>2 DEF Paced, Bound
    <3> QED
      BY <3>1, <3>2
  <2>2. Since(n, began - failures * Period - IF Pending(n) THEN Period ELSE 0)
    BY DEF Attended
  <2>3. Bound \in Int
    BY DEF Bound
  <2>4. Since(n, now - Bound)
    BY <2>1, <2>2, <2>3, SinceWeaker
  <2>5. history[n] # <<>> => Latest(n).time \in Int
    BY Sampled DEF Latest
  <2> QED
    BY <2>3, <2>4, <2>5 DEF Since
<1> QED
  BY <1>1, Invariance, PTL

(* With a time-out within the interval, no tick waits.                       *)
THEOREM TicksOnTime == Spec => []OnTime
<1>1. Inductive => OnTime
  BY DEF Inductive, Punctual, OnTime
<1> QED
  BY <1>1, Invariance, PTL

(* ------------------------------- the chart ------------------------------- *)
(* The rates of a tab, for any period of scrapes and snapshots, any gap, any *)
(* length of history, answers that take any time, and behaviours of any      *)
(* length.                                                                   *)
Scraped == [kind : {"sample"}, up : BOOLEAN, at : Nat, bytes : Nat, sum : Nat]
Views == {Chart!None, [kind |-> "gone"]} \cup Scraped
Answers == [kind : {"answer"}, view : Views, asked : Nat]
Rate == [kind : {"rate"}, ts : Nat, bytes : Nat]
Points == [drawn : Nat, bytes : Nat, at : Nat, sum : Nat]

Charted ==
    /\ clock \in Nat /\ counter \in Nat /\ total \in Nat
    /\ sample \in {Chart!None} \cup Scraped
    /\ answer \in {Chart!None} \cup Answers
    /\ rateCache \in {Chart!None} \cup Rate
    /\ hist \in Seq(Points)

(* What has been read of the counter and is still about: by the scraper, in  *)
(* an answer, in the chart; and what would be read of it now.                *)
Present == [at |-> clock, bytes |-> counter, sum |-> total]
SampleOf(v) == {w \in {v} : w.kind = "sample"}
UnderWay == IF answer.kind = "answer" THEN SampleOf(answer.view) ELSE {}
Readings == {Present} \cup SampleOf(sample) \cup UnderWay \cup {hist[i] : i \in DOMAIN hist}

(* From an earlier reading to a later one, the total grows, and so does what *)
(* it was when the daemon last started.                                      *)
Fits(x, y) == x.at <= y.at => x.sum <= y.sum /\ x.sum - x.bytes <= y.sum - y.bytes
Consistent == /\ \A x \in Readings : x.at <= clock
              /\ \A x, y \in Readings : Fits(x, y)

(* What the next rate is computed from is what the chart ends with.          *)
Continued == rateCache # Chart!None /\ hist # <<>> => hist[Len(hist)].bytes = rateCache.bytes

NoneOverstated == \A i \in 2 .. Len(hist) : hist[i - 1].at <= hist[i].at =>
                      hist[i].drawn <= hist[i].sum - hist[i - 1].sum

ChartInv == Charted /\ Consistent /\ Continued /\ NoneOverstated

LEMMA ChartStarts == Chart!Init => ChartInv
<1> SUFFICES ASSUME Chart!Init PROVE ChartInv
  OBVIOUS
<1> USE DEF Chart!Init, Chart!None
<1>1. Charted
  BY DEF Charted
<1>2. Readings = {[at |-> 0, bytes |-> 0, sum |-> 0]}
  BY DEF Readings, Present, SampleOf, UnderWay
<1>3. Consistent
  BY <1>2 DEF Consistent, Fits
<1>4. Continued /\ NoneOverstated
  BY DEF Continued, NoneOverstated
<1> QED
  BY <1>1, <1>3, <1>4 DEF ChartInv

LEMMA ReadingTyped ==
    ASSUME Charted, NEW x \in Readings
    PROVE  x.at \in Nat /\ x.bytes \in Nat /\ x.sum \in Nat
<1>1. CASE x = Present
  BY <1>1 DEF Present, Charted
<1>2. CASE x \in SampleOf(sample)
  BY <1>2 DEF SampleOf, Charted, Scraped, Chart!None
<1>3. CASE x \in UnderWay
  BY <1>3 DEF SampleOf, UnderWay, Charted, Scraped, Views, Answers, Chart!None
<1>4. CASE x \in {hist[i] : i \in DOMAIN hist}
  <2>1. PICK i \in DOMAIN hist : x = hist[i]
    BY <1>4
  <2>2. hist[i] \in Points
    BY DEF Charted
  <2> QED
    BY <2>1, <2>2 DEF Points
<1> QED
  BY <1>1, <1>2, <1>3, <1>4 DEF Readings

(* Readings that repeat others, or the present one, fit as those do.         *)
Same(x, y) == x.at = y.at /\ x.bytes = y.bytes /\ x.sum = y.sum

LEMMA Repeated ==
    ASSUME Consistent, clock' = clock,
           \A x \in Readings' : \E y \in Readings : Same(x, y)
    PROVE  Consistent'
BY DEF Consistent, Fits, Same

(* What is added to a chart is the difference of two readings.               *)
LEMMA DrawnFits ==
    ASSUME ChartInv, NEW m \in Scraped, m \in Readings
    PROVE  /\ Chart!Point(m) \in Points
           /\ Same(Chart!Point(m), m)
           /\ hist # <<>> =>
                  LET l == hist[Len(hist)]
                  IN  l.at <= m.at => Chart!Point(m).drawn <= m.sum - l.sum
<1> DEFINE b == Chart!Bytes(m)
<1>1. b = 0 \/ (rateCache # Chart!None /\ b = m.bytes - rateCache.bytes /\ b > 0)
  BY DEF Chart!Bytes
<1>2. m.bytes \in Nat /\ m.at \in Nat /\ m.sum \in Nat
  BY DEF Scraped
<1>3. b \in Nat
  <2>1. CASE b = 0
    BY <2>1
  <2>2. CASE rateCache # Chart!None /\ b = m.bytes - rateCache.bytes /\ b > 0
    <3>1. rateCache.bytes \in Nat
      BY <2>2 DEF ChartInv, Charted, Rate
    <3> QED
      BY <2>2, <3>1, <1>2
  <2> QED
    BY <1>1, <2>1, <2>2
<1>4. ASSUME hist # <<>>, hist[Len(hist)].at <= m.at
      PROVE  b <= m.sum - hist[Len(hist)].sum
  <2> DEFINE l == hist[Len(hist)]
  <2>1. Len(hist) \in DOMAIN hist
    BY <1>4 DEF ChartInv, Charted
  <2>2. l \in Readings
    BY <2>1 DEF Readings
  <2>3. l.bytes \in Nat /\ l.sum \in Nat
    BY <2>2, ReadingTyped DEF ChartInv
  <2>4. l.sum <= m.sum /\ l.sum - l.bytes <= m.sum - m.bytes
    BY <2>2, <1>4 DEF ChartInv, Consistent, Fits
  <2>5. CASE b = 0
    BY <2>3, <2>4, <2>5, <1>2
  <2>6. CASE rateCache # Chart!None /\ b = m.bytes - rateCache.bytes
    <3>1. l.bytes = rateCache.bytes
      BY <2>6, <1>4 DEF ChartInv, Continued
    <3> QED
      BY <2>6, <3>1, <2>3, <2>4, <1>2
  <2> QED
    BY <1>1, <2>5, <2>6
<1>5. Chart!Point(m) = [drawn |-> b, bytes |-> m.bytes, at |-> m.at, sum |-> m.sum]
  BY DEF Chart!Point
<1> HIDE DEF b
<1> QED
  BY <1>2, <1>3, <1>4, <1>5 DEF Points, Same

(* A point appended, and the first one dropped or not.                       *)
LEMMA TrimmedPoints ==
    ASSUME NEW h \in Seq(Points), NEW p \in Points, NEW t,
           t \in {Append(h, p), Tail(Append(h, p))}
    PROVE  /\ t \in Seq(Points)
           /\ t # <<>> => t[Len(t)] = p
           /\ \E d \in {0, 1} :
                /\ Len(t) = Len(h) + 1 - d
                /\ \A i \in 1 .. Len(t) : t[i] = Append(h, p)[i + d]
<1>1. /\ Append(h, p) \in Seq(Points) /\ Len(Append(h, p)) = Len(h) + 1
      /\ Append(h, p)[Len(h) + 1] = p
  OBVIOUS
<1>2. CASE t = Append(h, p)
  BY <1>1, <1>2
<1>3. CASE t = Tail(Append(h, p))
  BY <1>1, <1>3
<1> QED
  BY <1>2, <1>3

LEMMA DrawnKeeps ==
    ASSUME ChartInv, NEW m \in Scraped, m \in Readings, Chart!Drawn(m)
    PROVE  /\ rateCache' \in Rate /\ hist' \in Seq(Points)
           /\ Continued' /\ NoneOverstated'
           /\ \A i \in DOMAIN hist' : \E y \in Readings : Same(hist'[i], y)
<1>1. PICK h \in Seq(Points) : h = hist
  BY DEF ChartInv, Charted
<1>2. PICK p \in Points : p = Chart!Point(m)
  BY DrawnFits
<1>3. /\ Same(p, m)
      /\ h # <<>> => (h[Len(h)].at <= p.at => p.drawn <= p.sum - h[Len(h)].sum)
  BY <1>1, <1>2, DrawnFits DEF Same
<1>4. hist' \in {Append(h, p), Tail(Append(h, p))}
  BY <1>1, <1>2 DEF Chart!Drawn, Chart!Trimmed
<1>5. PICK t : t = hist'
  OBVIOUS
<1>6. t \in {Append(h, p), Tail(Append(h, p))}
  BY <1>4, <1>5
<1>7. /\ t \in Seq(Points)
      /\ t # <<>> => t[Len(t)] = p
  BY <1>6, TrimmedPoints
<1>8. PICK d \in {0, 1} :
          /\ Len(t) = Len(h) + 1 - d
          /\ \A i \in 1 .. Len(t) : t[i] = Append(h, p)[i + d]
  BY <1>6, TrimmedPoints
<1>9. rateCache' \in Rate /\ rateCache'.bytes = m.bytes
  BY DEF Chart!Drawn, Rate, Scraped, ChartInv, Charted
<1>10. Continued'
  BY <1>5, <1>7, <1>9, <1>3 DEF Continued, Same
<1>11. NoneOverstated'
  <2> SUFFICES ASSUME NEW i \in 2 .. Len(t), t[i - 1].at <= t[i].at
               PROVE  t[i].drawn <= t[i].sum - t[i - 1].sum
    BY <1>5 DEF NoneOverstated
  <2>1. t[i] = Append(h, p)[i + d] /\ t[i - 1] = Append(h, p)[i - 1 + d]
        /\ i + d \in 2 .. Len(h) + 1
    BY <1>7, <1>8
  <2>2. CASE i + d = Len(h) + 1
    <3>1. t[i] = p /\ h # <<>> /\ t[i - 1] = h[Len(h)]
      BY <2>1, <2>2
    <3> QED
      BY <3>1, <1>3
  <2>3. CASE i + d \in 2 .. Len(h)
    <3>1. t[i] = h[i + d] /\ t[i - 1] = h[i - 1 + d] /\ i - 1 + d = (i + d) - 1
      BY <2>1, <2>3
    <3> QED
      BY <3>1, <2>3, <1>1 DEF ChartInv, NoneOverstated
  <2> QED
    BY <2>1, <2>2, <2>3
<1>12. ASSUME NEW i \in DOMAIN t PROVE \E y \in Readings : Same(t[i], y)
  <2>1. t[i] = Append(h, p)[i + d] /\ i + d \in 1 .. Len(h) + 1
    BY <1>7, <1>8
  <2>2. CASE i + d = Len(h) + 1
    BY <2>1, <2>2, <1>3
  <2>3. CASE i + d \in 1 .. Len(h)
    <3>1. t[i] = hist[i + d] /\ i + d \in DOMAIN hist
      BY <2>1, <2>3, <1>1
    <3> QED
      BY <3>1 DEF Readings, Same
  <2> QED
    BY <2>1, <2>2, <2>3
<1> QED
  BY <1>5, <1>7, <1>9, <1>10, <1>11, <1>12

(* A snapshot, or an answer, that says what has been read.                   *)
LEMMA IngestKeeps ==
    ASSUME ChartInv, NEW v \in Views, v \in Scraped => v \in Readings, Chart!Ingest(v),
           UNCHANGED <<clock, counter, total, sample>>,
           answer' \in {Chart!None} \cup Answers, UnderWay' \subseteq UnderWay
    PROVE  ChartInv'
<1> USE DEF ChartInv
<1>1. /\ rateCache' \in {Chart!None} \cup Rate /\ hist' \in Seq(Points)
      /\ Continued' /\ NoneOverstated'
      /\ \A i \in DOMAIN hist' : \E y \in Readings : Same(hist'[i], y)
  <2>1. CASE rateCache' = Chart!None /\ hist' = <<>>
    BY <2>1 DEF Continued, NoneOverstated
  <2>2. CASE UNCHANGED <<rateCache, hist>>
    <3>1. Continued' /\ NoneOverstated'
      BY <2>2 DEF Continued, NoneOverstated
    <3>2. \A i \in DOMAIN hist' : \E y \in Readings : Same(hist'[i], y)
      BY <2>2 DEF Readings, Same
    <3> QED
      BY <2>2, <3>1, <3>2 DEF Charted
  <2>3. CASE v.kind = "sample" /\ Chart!Drawn(v)
    <3>1. v \in Scraped
      BY <2>3 DEF Views, Chart!None
    <3> QED
      BY <2>3, <3>1, DrawnKeeps
  <2> QED
    BY <2>1, <2>2, <2>3 DEF Chart!Ingest, Chart!tab
<1>2. Charted'
  BY <1>1 DEF Charted
<1>3. \A x \in Readings' : \E y \in Readings : Same(x, y)
  BY <1>1 DEF Readings, Present, SampleOf, Same
<1>4. Consistent'
  BY <1>3, Repeated
<1> QED
  BY <1>1, <1>2, <1>4

(* What the panel says of the tunnel.                                        *)
LEMMA ViewRead ==
    ASSUME ChartInv
    PROVE  Chart!View \in Views /\ (Chart!View \in Scraped => Chart!View \in Readings)
<1>1. CASE Chart!View = sample
  BY <1>1 DEF Readings, SampleOf, Scraped, Views, ChartInv, Charted
<1>2. CASE Chart!View = [kind |-> "gone"]
  BY <1>2 DEF Views, Scraped
<1> QED
  BY <1>1, <1>2 DEF Chart!View

LEMMA SnapshotKeeps == ChartInv /\ Chart!Snapshot => ChartInv'
<1> SUFFICES ASSUME ChartInv, Chart!Snapshot PROVE ChartInv'
  OBVIOUS
<1>1. PICK v \in Views : v = Chart!View
  BY ViewRead
<1>2. v \in Scraped => v \in Readings
  BY <1>1, ViewRead
<1>3. Chart!Ingest(v) /\ UNCHANGED <<clock, counter, total, sample, answer>>
  BY <1>1 DEF Chart!Snapshot, Chart!server
<1>4. answer' \in {Chart!None} \cup Answers /\ UnderWay' \subseteq UnderWay
  BY <1>3 DEF UnderWay, SampleOf, ChartInv, Charted
<1> QED
  BY <1>2, <1>3, <1>4, IngestKeeps

LEMMA LandKeeps == ChartInv /\ Chart!Land => ChartInv'
<1> SUFFICES ASSUME ChartInv, Chart!Land PROVE ChartInv'
  OBVIOUS
<1>1. answer \in Answers
  BY DEF ChartInv, Charted, Chart!Land
<1>2. PICK v \in Views : v = answer.view
  BY <1>1 DEF Answers
<1>3. v \in Scraped => v \in Readings
  BY <1>1, <1>2 DEF Readings, UnderWay, SampleOf, Scraped, Answers
<1>4. Chart!Ingest(v) /\ UNCHANGED <<clock, counter, total, sample>> /\ answer' = Chart!None
  BY <1>2 DEF Chart!Land, Chart!server
<1>5. answer' \in {Chart!None} \cup Answers /\ UnderWay' \subseteq UnderWay
  BY <1>4 DEF UnderWay, Chart!None
<1> QED
  BY <1>3, <1>4, <1>5, IngestKeeps

(* Steps that read nothing and draw nothing.                                 *)
LEMMA AskKeeps == ChartInv /\ Chart!Ask => ChartInv'
<1> SUFFICES ASSUME ChartInv, Chart!Ask PROVE ChartInv'
  OBVIOUS
<1> USE DEF ChartInv
<1>1. PICK v \in Views : v = Chart!View
  BY ViewRead
<1>2. v \in Scraped => v \in Readings
  BY <1>1, ViewRead
<1>3. /\ answer' = [kind |-> "answer", view |-> v, asked |-> clock]
      /\ UNCHANGED <<clock, counter, total, sample, rateCache, hist>>
  BY <1>1 DEF Chart!Ask, Chart!server, Chart!tab
<1>4. answer' \in Answers
  BY <1>3 DEF Answers, Charted
<1>5. Charted'
  BY <1>3, <1>4 DEF Charted
<1>6. UnderWay' \subseteq Readings
  <2>1. v.kind = "sample" => v \in Readings
    BY <1>2 DEF Views, Chart!None
  <2> QED
    BY <1>3, <2>1 DEF UnderWay, SampleOf
<1>7. \A x \in Readings' : \E y \in Readings : Same(x, y)
  BY <1>3, <1>6 DEF Readings, Present, SampleOf, Same
<1>8. Consistent'
  BY <1>3, <1>7, Repeated
<1>9. Continued' /\ NoneOverstated'
  BY <1>3 DEF Continued, NoneOverstated
<1> QED
  BY <1>5, <1>8, <1>9

LEMMA IdleKeeps ==
    ASSUME ChartInv, UNCHANGED <<clock, counter, total, sample, answer, rateCache, hist>>
    PROVE  ChartInv'
<1> USE DEF ChartInv
<1>1. Charted'
  BY DEF Charted
<1>2. Readings' = Readings
  BY DEF Readings, Present, SampleOf, UnderWay
<1>3. Consistent'
  BY <1>2 DEF Consistent
<1> QED
  BY <1>1, <1>3 DEF Continued, NoneOverstated

(* Bytes flow, the daemon starts anew, the counter is read.                  *)
LEMMA TickKeeps == ChartInv /\ Chart!Tick => ChartInv'
<1> SUFFICES ASSUME ChartInv, Chart!Tick PROVE ChartInv'
  OBVIOUS
<1> USE DEF ChartInv
<1>1. PICK sent \in 0 .. 1, restart, up \in BOOLEAN :
         /\ counter' = (IF restart THEN 0 ELSE counter) + sent
         /\ total' = total + sent
         /\ sample' \in {Chart!Sample(up)', sample}
  BY DEF Chart!Tick
<1>2. clock' = clock + 1 /\ UNCHANGED <<answer, rateCache, hist>>
  BY DEF Chart!Tick, Chart!tab
<1>3. PICK t \in Nat, c \in Nat, s \in Nat : t = clock /\ c = counter /\ s = total
  BY DEF Charted
<1>4. PICK c2 \in Nat, s2 \in Nat :
         c2 = counter' /\ s2 = total' /\ s <= s2 /\ s - c <= s2 - c2
  <2>1. CASE restart
    BY <1>1, <1>3, <2>1
  <2>2. CASE ~restart
    BY <1>1, <1>3, <2>2
  <2> QED
    BY <2>1, <2>2
<1>5. Chart!Sample(up)' = [kind |-> "sample", up |-> up, at |-> t + 1, bytes |-> c2, sum |-> s2]
  BY <1>2, <1>3, <1>4 DEF Chart!Sample
<1>6. Charted'
  <2>1. Chart!Sample(up)' \in Scraped
    BY <1>5 DEF Scraped
  <2> QED
    BY <1>1, <1>2, <1>3, <1>4, <2>1 DEF Charted
<1>7. ASSUME NEW x \in Readings'
      PROVE  x \in Readings \/ (x.at = t + 1 /\ x.bytes = c2 /\ x.sum = s2)
  <2>1. CASE x = Present'
    BY <2>1, <1>2, <1>3, <1>4 DEF Present
  <2>2. CASE x \in SampleOf(sample)'
    BY <2>2, <1>1, <1>5 DEF SampleOf, Readings
  <2>3. CASE x \in UnderWay' \/ x \in {hist'[i] : i \in DOMAIN hist'}
    BY <2>3, <1>2 DEF UnderWay, SampleOf, Readings
  <2> QED
    BY <2>1, <2>2, <2>3 DEF Readings
<1>8. ASSUME NEW x \in Readings
      PROVE  /\ x.at \in Nat /\ x.bytes \in Nat /\ x.sum \in Nat
             /\ x.at <= t /\ x.sum <= s2 /\ x.sum - x.bytes <= s2 - c2
  <2>1. x.at \in Nat /\ x.bytes \in Nat /\ x.sum \in Nat
    BY ReadingTyped
  <2>2. x.at <= t /\ x.sum <= s /\ x.sum - x.bytes <= s - c
    <3>1. Present \in Readings
      BY DEF Readings
    <3>2. x.at <= clock /\ Fits(x, Present)
      BY <3>1 DEF Consistent
    <3> QED
      BY <3>2, <1>3 DEF Fits, Present
  <2>3. PICK xs \in Nat, xb \in Nat : xs = x.sum /\ xb = x.bytes
    BY <2>1
  <2>4. xs <= s /\ xs - xb <= s - c /\ s <= s2 /\ s - c <= s2 - c2
    BY <2>2, <2>3, <1>4
  <2>5. xs <= s2 /\ xs - xb <= s2 - c2
    BY ONLY <2>4, s \in Nat, c \in Nat, s2 \in Nat, c2 \in Nat, xs \in Nat, xb \in Nat
  <2> QED
    BY <2>1, <2>2, <2>3, <2>5, <1>3
<1>9. Consistent'
  <2>1. ASSUME NEW x \in Readings' PROVE x.at <= t + 1
    BY <1>7, <1>8
  <2>2. ASSUME NEW x \in Readings', NEW y \in Readings' PROVE Fits(x, y)
    <3>1. CASE x \in Readings /\ y \in Readings
      BY <3>1 DEF Consistent
    <3>2. CASE x \in Readings /\ (y.at = t + 1 /\ y.bytes = c2 /\ y.sum = s2)
      BY <3>2, <1>8 DEF Fits
    <3>3. CASE x.at = t + 1 /\ y \in Readings
      BY <3>3, <1>8 DEF Fits
    <3>4. CASE x.at = t + 1 /\ x.bytes = c2 /\ x.sum = s2 /\ y.at = t + 1 /\ y.bytes = c2 /\ y.sum = s2
      BY <3>4 DEF Fits
    <3> QED
      BY <1>7, <3>1, <3>2, <3>3, <3>4
  <2> QED
    BY <2>1, <2>2, <1>2, <1>3 DEF Consistent
<1>10. Continued' /\ NoneOverstated'
  BY <1>2 DEF Continued, NoneOverstated
<1> QED
  BY <1>6, <1>9, <1>10

(* Charts never overstate: the traffic between two readings is at least the  *)
(* difference of the counter, whatever the daemon, the scrapes, the stream   *)
(* and the requests do in between, because a restart only loses counts.      *)
THEOREM ChartsNeverOverstate == Chart!Spec => []NeverOverstated
<1>1. ChartInv /\ [Chart!Next]_Chart!vars => ChartInv'
  <2> SUFFICES ASSUME ChartInv, [Chart!Next]_Chart!vars PROVE ChartInv'
    OBVIOUS
  <2>1. CASE Chart!Tick
    BY <2>1, TickKeeps
  <2>2. CASE Chart!Toggle
    BY <2>2, IdleKeeps DEF Chart!Toggle, Chart!tab
  <2>3. CASE Chart!Snapshot
    BY <2>3, SnapshotKeeps
  <2>4. CASE Chart!Miss
    BY <2>4, IdleKeeps DEF Chart!Miss, Chart!tab, Chart!server
  <2>5. CASE Chart!Ask
    BY <2>5, AskKeeps
  <2>6. CASE Chart!Land
    BY <2>6, LandKeeps
  <2>7. CASE UNCHANGED Chart!vars
    BY <2>7, IdleKeeps DEF Chart!vars, Chart!tab, Chart!server
  <2> QED
    BY <2>1, <2>2, <2>3, <2>4, <2>5, <2>6, <2>7 DEF Chart!Next
<1>2. ChartInv => NeverOverstated
  BY DEF ChartInv, NoneOverstated, NeverOverstated, Chart!NeverOverstated, Chart!Steps
<1> QED
  BY <1>1, <1>2, ChartStarts, PTL DEF Chart!Spec
=============================================================================
