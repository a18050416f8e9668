---------------------------- MODULE StreamProofs ----------------------------
(* What reaches a tab of the events the panel records, for any channel, any  *)
(* snapshot size and any breaks and failures.                                *)
EXTENDS Stream, TLAPS

(* ---------------------------- the invariant ------------------------------ *)

(* The snapshot of the events when v were recorded.                          *)
RecentAt(v) == [i \in 1 .. Lesser(Recents, v) |-> v + 1 - i]

Snapshot == [kind : {"state", "empty"}, tunnels : Nat, events : Seq(Nat)]
Message == Snapshot \cup [kind : {"open", "error"}, tunnels : Nat, events : Seq(Nat)]
              \cup [kind : {"log"}, tunnels : Nat, events : {s \in Seq(Nat) : Len(s) = 1}]

Typed ==
    /\ world \in Nat /\ pushed \in Nat
    /\ stage \in [Tabs -> {"closed", "open", "listed", "drawn", "stream"}]
    /\ chan \in [Tabs -> Seq(Nat)] /\ wire \in [Tabs -> Seq(Message)]
    /\ draft \in [Tabs -> Snapshot]
    /\ sent \in [Tabs -> {"nothing", "errors", "snapshot"}]
    /\ dropped \in [Tabs -> SUBSET Nat] /\ events \in [Tabs -> Seq(Nat)]

(* What is on a wire w; with the channel c behind it, what is still to come  *)
(* one by one.                                                               *)
LogsIn(w) == {i \in DOMAIN w : w[i].kind = "log"}
StatesIn(w) == {i \in DOMAIN w : w[i].kind = "state"}
Logged(w) == {w[i].events[1] : i \in LogsIn(w)}
LoggedBefore(w, n) == {w[i].events[1] : i \in {j \in LogsIn(w) : j < n}}
Coming(c, w) == ToSet(c) \cup Logged(w)

(* It comes in the order of the recording, and without a gap but for what    *)
(* was dropped.                                                              *)
Ordered(c, w) ==
    /\ \A i, j \in DOMAIN c : i < j => c[i] < c[j]
    /\ \A i, j \in LogsIn(w) : i < j => w[i].events[1] < w[j].events[1]
    /\ \A x \in Logged(w), y \in ToSet(c) : x < y
Gapless(p, coming, lost) ==
    /\ coming \subseteq 1 .. p
    /\ \A x \in coming : x + 1 .. p \subseteq coming \cup lost

(* A snapshot has the last events up to some v; what is recorded after it    *)
(* will come or was dropped, and what was sent before it is no later.        *)
Taken(p, evs, coming, before) ==
    \E v \in 0 .. p : /\ evs = RecentAt(v) /\ v + 1 .. p \subseteq coming
                      /\ \A x \in before : x <= v

(* A tab's list falls twice: through what came one by one, and through the   *)
(* snapshot below.                                                           *)
Falls(s, a, b) == \A i, j \in a .. b : i <= j => s[i] >= s[j] + (j - i)
TwoRuns(s, coming) ==
    \E k \in 0 .. Len(s) :
        /\ Falls(s, 1, k) /\ Falls(s, k + 1, Len(s))
        /\ k > 0 => \A x \in coming : x > s[1]

(* A recent event that will not come is in the list, below none but later    *)
(* ones.                                                                     *)
Lists(s, e) == \E i \in DOMAIN s : s[i] = e /\ \A j \in 1 .. i - 1 : s[j] > e
Complete(p, s, coming) ==
    \A e \in 1 .. p : e > p - Recents /\ e \notin coming => Lists(s, e)

(* A connection's channel c and wire w, what it lost and the tab's list s.   *)
Streaming(p, c, w, lost, s) ==
    /\ Ordered(c, w) /\ Gapless(p, Coming(c, w), lost)
    /\ \A i \in StatesIn(w) :
           Taken(p, w[i].events, Coming(c, w) \cup lost, LoggedBefore(w, i))
    /\ ToSet(s) \subseteq 1 .. p /\ TwoRuns(s, Coming(c, w))

Follows(t) ==
    /\ Streaming(pushed, chan[t], wire[t], dropped[t], events[t])
    /\ stage[t] = "closed" => chan[t] = <<>> /\ wire[t] = <<>> /\ sent[t] = "nothing"
    /\ stage[t] = "drawn" =>
           Taken(pushed, draft[t].events, Coming(chan[t], wire[t]) \cup dropped[t],
                 Logged(wire[t]))
    /\ sent[t] = "snapshot" /\ StatesIn(wire[t]) = {} =>
           Complete(pushed, events[t], Coming(chan[t], wire[t]) \cup dropped[t])
Inductive == Typed /\ \A t \in Tabs : Follows(t)

(* ------------------------------- sequences ------------------------------- *)

LEMMA Headed ==
    ASSUME NEW T, NEW s \in Seq(T), s # <<>>
    PROVE  /\ Head(s) = s[1] /\ Head(s) \in T /\ 1 \in DOMAIN s
           /\ Tail(s) \in Seq(T) /\ Len(Tail(s)) = Len(s) - 1
           /\ \A i \in DOMAIN Tail(s) : i + 1 \in DOMAIN s /\ Tail(s)[i] = s[i + 1]
           /\ \A i \in DOMAIN s : i \in Nat /\ (i # 1 => i - 1 \in DOMAIN Tail(s))
OBVIOUS

LEMMA Single == ASSUME NEW s \in Seq(Nat), Len(s) = 1 PROVE s[1] \in Nat
<1>1. 1 \in 1 .. Len(s)
      OBVIOUS
<1>2. \A i \in DOMAIN s : s[i] \in Nat
      BY ONLY s \in Seq(Nat)
<1>3. DOMAIN s = 1 .. Len(s)
      BY ONLY s \in Seq(Nat)
<1> QED BY <1>1, <1>2, <1>3

LEMMA Appended ==
    ASSUME NEW T, NEW s \in Seq(T), NEW e \in T
    PROVE  /\ Append(s, e) \in Seq(T) /\ Len(s) \in Nat
           /\ DOMAIN Append(s, e) = DOMAIN s \cup {Len(s) + 1}
           /\ \A i \in DOMAIN s : i \in Nat /\ i <= Len(s) /\ Append(s, e)[i] = s[i]
           /\ Append(s, e)[Len(s) + 1] = e
OBVIOUS

LEMMA Empty == /\ ToSet(<<>>) = {} /\ LogsIn(<<>>) = {} /\ StatesIn(<<>>) = {}
               /\ Logged(<<>>) = {} /\ Coming(<<>>, <<>>) = {}
BY DEF ToSet, LogsIn, StatesIn, Logged, Coming

(* A message put on the wire behind the others.                              *)
LEMMA Written ==
    ASSUME NEW w \in Seq(Message), NEW m \in Message
    PROVE  /\ Append(w, m) \in Seq(Message)
           /\ LogsIn(Append(w, m)) = IF m.kind = "log" THEN LogsIn(w) \cup {Len(w) + 1}
                                     ELSE LogsIn(w)
           /\ StatesIn(Append(w, m)) = IF m.kind = "state" THEN StatesIn(w) \cup {Len(w) + 1}
                                       ELSE StatesIn(w)
           /\ Logged(Append(w, m)) = IF m.kind = "log" THEN Logged(w) \cup {m.events[1]}
                                     ELSE Logged(w)
           /\ \A i \in LogsIn(w) : Append(w, m)[i] = w[i] /\ i < Len(w) + 1 /\ i \in Nat
           /\ \A i \in StatesIn(w) : /\ Append(w, m)[i] = w[i] /\ i < Len(w) + 1 /\ i \in Nat
                                     /\ LoggedBefore(Append(w, m), i) = LoggedBefore(w, i)
           /\ Append(w, m)[Len(w) + 1] = m
           /\ LoggedBefore(Append(w, m), Len(w) + 1) = Logged(w)
<1> DEFINE v == Append(w, m)
<1>1. /\ v \in Seq(Message) /\ Len(w) \in Nat /\ DOMAIN v = DOMAIN w \cup {Len(w) + 1}
      /\ \A i \in DOMAIN w : i \in Nat /\ i <= Len(w) /\ v[i] = w[i]
      /\ v[Len(w) + 1] = m
      BY Appended
<1> HIDE DEF v
<1>2. /\ LogsIn(v) = IF m.kind = "log" THEN LogsIn(w) \cup {Len(w) + 1} ELSE LogsIn(w)
      /\ StatesIn(v) = IF m.kind = "state" THEN StatesIn(w) \cup {Len(w) + 1} ELSE StatesIn(w)
      BY <1>1 DEF LogsIn, StatesIn
<1>3. \A i \in LogsIn(w) \cup StatesIn(w) : v[i] = w[i] /\ i < Len(w) + 1 /\ i \in Nat
      BY <1>1 DEF LogsIn, StatesIn
<1>4. Logged(v) = IF m.kind = "log" THEN Logged(w) \cup {m.events[1]} ELSE Logged(w)
      BY <1>1, <1>2, <1>3 DEF Logged
<1>5. ASSUME NEW i \in StatesIn(w) PROVE LoggedBefore(v, i) = LoggedBefore(w, i)
  <2>1. {j \in LogsIn(v) : j < i} = {j \in LogsIn(w) : j < i}
        BY <1>1, <1>2, <1>3
  <2> QED BY <1>3, <2>1 DEF LoggedBefore
<1>6. LoggedBefore(v, Len(w) + 1) = Logged(w)
  <2>1. {j \in LogsIn(v) : j < Len(w) + 1} = LogsIn(w)
        BY <1>1, <1>2, <1>3
  <2> QED BY <1>3, <2>1 DEF LoggedBefore, Logged
<1> QED BY <1>1, <1>2, <1>3, <1>4, <1>5, <1>6 DEF v

(* The first message taken off the wire.                                     *)
LEMMA Read ==
    ASSUME NEW w \in Seq(Message), w # <<>>
    PROVE  /\ Head(w) = w[1] /\ Head(w) \in Message /\ Tail(w) \in Seq(Message)
           /\ \A i \in LogsIn(Tail(w)) : i + 1 \in LogsIn(w) /\ Tail(w)[i] = w[i + 1] /\ i \in Nat
           /\ \A i \in StatesIn(Tail(w)) :
                  /\ i + 1 \in StatesIn(w) /\ Tail(w)[i] = w[i + 1]
                  /\ LoggedBefore(Tail(w), i) \subseteq LoggedBefore(w, i + 1)
           /\ Logged(w) = Logged(Tail(w))
                             \cup (IF Head(w).kind = "log" THEN {Head(w).events[1]} ELSE {})
           /\ Head(w).kind = "log" =>
                  /\ 1 \in LogsIn(w) /\ \A i \in LogsIn(w) : i # 1 => i > 1
                  /\ \A i \in StatesIn(w) : Head(w).events[1] \in LoggedBefore(w, i)
           /\ Head(w).kind = "state" <=> 1 \in StatesIn(w)
           /\ Head(w).kind # "state" /\ StatesIn(Tail(w)) = {} => StatesIn(w) = {}
           /\ LoggedBefore(w, 1) = {}
<1> DEFINE v == Tail(w)
<1>1. /\ Head(w) = w[1] /\ Head(w) \in Message /\ 1 \in DOMAIN w
      /\ v \in Seq(Message)
      /\ \A i \in DOMAIN v : i + 1 \in DOMAIN w /\ v[i] = w[i + 1] /\ i \in Nat /\ i >= 1
      /\ \A i \in DOMAIN w : i \in Nat /\ i >= 1 /\ (i # 1 => i - 1 \in DOMAIN v)
      BY Headed
<1> HIDE DEF v
<1>2. \A i \in LogsIn(v) : i + 1 \in LogsIn(w) /\ v[i] = w[i + 1] /\ i \in Nat /\ i >= 1
      BY <1>1 DEF LogsIn
<1>3. \A i \in LogsIn(w) : i \in Nat /\ i >= 1 /\ (i # 1 => i - 1 \in LogsIn(v) /\ v[i - 1] = w[i])
  <2> SUFFICES ASSUME NEW i \in LogsIn(w)
               PROVE  i \in Nat /\ i >= 1 /\ (i # 1 => i - 1 \in LogsIn(v) /\ v[i - 1] = w[i])
      OBVIOUS
  <2>1. i \in DOMAIN w /\ i \in Nat /\ i >= 1
        BY <1>1 DEF LogsIn
  <2>2. ASSUME i # 1 PROVE i - 1 \in DOMAIN v /\ v[i - 1] = w[i]
        BY <1>1, <2>1, <2>2
  <2> QED BY <2>1, <2>2 DEF LogsIn
<1>4. \A i \in StatesIn(v) : i + 1 \in StatesIn(w) /\ v[i] = w[i + 1]
      BY <1>1 DEF StatesIn
<1>5. ASSUME NEW i \in StatesIn(v) PROVE LoggedBefore(v, i) \subseteq LoggedBefore(w, i + 1)
  <2>1. i \in Nat
        BY <1>1 DEF StatesIn
  <2>2. \A j \in LogsIn(v) : j < i => j + 1 \in LogsIn(w) /\ j + 1 < i + 1 /\ v[j] = w[j + 1]
        BY <1>2, <2>1
  <2> QED BY <2>2 DEF LoggedBefore
<1>6. w[1].kind = "log" <=> 1 \in LogsIn(w)
      BY <1>1 DEF LogsIn
<1>7. Logged(w) = Logged(v) \cup (IF Head(w).kind = "log" THEN {Head(w).events[1]} ELSE {})
      BY <1>1, <1>2, <1>3, <1>6 DEF Logged
<1>8. ASSUME NEW i \in StatesIn(w), Head(w).kind = "log"
      PROVE  Head(w).events[1] \in LoggedBefore(w, i)
  <2>1. i \in Nat /\ i > 1
        BY <1>1, <1>8 DEF StatesIn
  <2> QED BY <1>1, <1>6, <1>8, <2>1 DEF LoggedBefore
<1>9. Head(w).kind = "state" <=> 1 \in StatesIn(w)
      BY <1>1 DEF StatesIn
<1>10. ASSUME NEW i \in StatesIn(w), i # 1 PROVE i - 1 \in StatesIn(v)
  <2>1. i - 1 \in DOMAIN v /\ v[i - 1] = w[i]
        BY <1>1, <1>10 DEF StatesIn
  <2> QED BY <2>1 DEF StatesIn
<1>11. LoggedBefore(w, 1) = {}
       BY <1>3 DEF LoggedBefore
<1>12. Head(w).kind # "state" /\ StatesIn(v) = {} => StatesIn(w) = {}
       BY <1>9, <1>10
<1>13. Head(w).kind = "log" =>
           /\ 1 \in LogsIn(w) /\ \A i \in LogsIn(w) : i # 1 => i > 1
           /\ \A i \in StatesIn(w) : Head(w).events[1] \in LoggedBefore(w, i)
       BY <1>1, <1>3, <1>6, <1>8
<1> QED BY <1>1, <1>2, <1>4, <1>5, <1>7, <1>9, <1>11, <1>12, <1>13 DEF v

(* -------------------------------- the list ------------------------------- *)

LEMMA RecentIs ==
    ASSUME StreamAssumption, NEW v \in Nat
    PROVE  /\ RecentAt(v) \in Seq(Nat) /\ Len(RecentAt(v)) = Lesser(Recents, v)
           /\ ToSet(RecentAt(v)) = {e \in 1 .. v : e > v - Recents}
           /\ \A i \in 1 .. Lesser(Recents, v) : RecentAt(v)[i] = v + 1 - i
           /\ \A e \in 1 .. v : e > v - Recents => Lists(RecentAt(v), e)
<1>1. Lesser(Recents, v) \in Nat /\ Lesser(Recents, v) <= v /\ Lesser(Recents, v) <= Recents
      /\ \A n \in Nat : n <= v /\ n <= Recents => n <= Lesser(Recents, v)
      BY DEF StreamAssumption, Lesser
<1> DEFINE n == Lesser(Recents, v)
<1> HIDE DEF n
<1>2. /\ RecentAt(v) \in [1 .. n -> Nat] /\ n \in Nat
      /\ \A i \in 1 .. n : RecentAt(v)[i] = v + 1 - i
      BY <1>1 DEF RecentAt, n
<1>3. RecentAt(v) \in Seq(Nat) /\ Len(RecentAt(v)) = n /\ DOMAIN RecentAt(v) = 1 .. n
      BY <1>2
<1>4. ASSUME NEW e \in 1 .. v, e > v - Recents
      PROVE  v + 1 - e \in 1 .. n /\ RecentAt(v)[v + 1 - e] = e
             /\ \A j \in 1 .. (v + 1 - e) - 1 : j \in 1 .. n /\ RecentAt(v)[j] > e
  <2>1. v + 1 - e \in 1 .. n
        BY <1>1, <1>4 DEF n, StreamAssumption
  <2> QED BY <1>2, <2>1
<1>5. ASSUME NEW i \in 1 .. n
      PROVE  RecentAt(v)[i] \in 1 .. v /\ RecentAt(v)[i] > v - Recents
      BY <1>1, <1>2 DEF n, StreamAssumption
<1>6. ToSet(RecentAt(v)) = {e \in 1 .. v : e > v - Recents}
      BY <1>3, <1>4, <1>5 DEF ToSet
<1>7. \A e \in 1 .. v : e > v - Recents => Lists(RecentAt(v), e)
      BY <1>3, <1>4 DEF Lists
<1> QED BY <1>2, <1>3, <1>6, <1>7 DEF n

(* An event that is listed below later ones only is near the top, a recent   *)
(* one above what slice(0, 50) cuts off.                                     *)
LEMMA Position ==
    ASSUME NEW p \in Nat, NEW s \in Seq(Nat), ToSet(s) \subseteq 1 .. p,
           NEW k \in 0 .. Len(s), Falls(s, 1, k), Falls(s, k + 1, Len(s)),
           NEW i \in DOMAIN s, \A j \in 1 .. i - 1 : s[j] > s[i]
    PROVE  i <= 2 * (p - s[i]) + 1
<1>1. DOMAIN s = 1 .. Len(s) /\ Len(s) \in Nat /\ \A j \in 1 .. Len(s) : s[j] \in 1 .. p
      BY DEF ToSet
<1>2. CASE i <= k \/ k = 0
  <2>1. s[1] >= s[i] + (i - 1) /\ s[1] \in 1 .. p /\ s[i] \in 1 .. p
        BY <1>1, <1>2 DEF Falls
  <2> QED BY <1>1, <2>1
<1>3. CASE i > k /\ k > 0
  <2>1. s[1] >= s[k] + (k - 1) /\ s[1] \in 1 .. p /\ s[k] \in 1 .. p
        BY <1>1, <1>3 DEF Falls
  <2>2. s[k + 1] >= s[i] + (i - (k + 1)) /\ s[k + 1] \in 1 .. p /\ s[i] \in 1 .. p
        BY <1>1, <1>3 DEF Falls
  <2>3. s[k] > s[i]
        BY <1>1, <1>3
  <2>4. PICK a, b, c, e : a = s[1] /\ b = s[k] /\ c = s[k + 1] /\ e = s[i]
        OBVIOUS
  <2>5. a \in Nat /\ b \in Nat /\ c \in Nat /\ e \in Nat /\ i \in Nat /\ k \in Nat
    <3>1. i \in Nat /\ k \in Nat
          BY <1>1
    <3>2. a \in 1 .. p /\ b \in 1 .. p /\ c \in 1 .. p /\ e \in 1 .. p
          BY ONLY <2>1, <2>2, <2>4
    <3> QED BY <3>1, <3>2
  <2>6. a >= b + (k - 1) /\ a <= p /\ c >= e + (i - (k + 1)) /\ c <= p /\ b > e
        BY <1>1, <2>1, <2>2, <2>3, <2>4
  <2>7. i <= 2 * (p - e) + 1
        BY ONLY <2>5, <2>6, p \in Nat
  <2> QED BY <2>4, <2>7
<1> QED BY <1>1, <1>2, <1>3

LEMMA PrependedIs ==
    ASSUME StreamAssumption, NEW new \in Seq(Nat), Len(new) = 1, NEW s \in Seq(Nat)
    PROVE  /\ Prepended(new, s) \in Seq(Nat)
           /\ Len(Prepended(new, s)) = Lesser(Shown, Len(s) + 1)
           /\ 1 \in DOMAIN Prepended(new, s) /\ Prepended(new, s)[1] = new[1]
           /\ \A i \in 2 .. Len(Prepended(new, s)) : Prepended(new, s)[i] = s[i - 1]
<1>1. /\ new \in Seq(Nat) /\ Len(new) = 1 /\ Len(s) \in Nat
      /\ new \o s \in Seq(Nat) /\ Len(new \o s) = Len(s) + 1
  <2>1. new \o s \in Seq(Nat) /\ Len(new \o s) = Len(new) + Len(s) /\ Len(s) \in Nat
        BY ONLY new \in Seq(Nat), s \in Seq(Nat)
  <2> QED BY <2>1
<1>2. (new \o s)[1] = new[1] /\ \A i \in 2 .. Len(s) + 1 : (new \o s)[i] = s[i - 1]
      BY <1>1
<1> DEFINE f == new \o s
           n == Lesser(Shown, Len(s) + 1)
<1>3. n \in 1 .. Len(f)
      BY <1>1 DEF StreamAssumption, Lesser
<1> HIDE DEF f, n
<1>4. f \in Seq(Nat)
      BY <1>1 DEF f
<1>5. SubSeq(f, 1, n) \in Seq(Nat) /\ Len(SubSeq(f, 1, n)) = n
      /\ \A i \in 1 .. n : SubSeq(f, 1, n)[i] = f[i]
      BY <1>3, <1>4
<1>6. Prepended(new, s) = SubSeq(f, 1, n)
      BY <1>1 DEF Prepended, f, n
<1>7. \A i \in 2 .. n : i \in 1 .. n /\ i \in 2 .. Len(s) + 1
      BY <1>1, <1>3 DEF f
<1>8. \A i \in 2 .. n : SubSeq(f, 1, n)[i] = s[i - 1]
      BY <1>2, <1>5, <1>7 DEF f
<1>9. 1 \in 1 .. n /\ SubSeq(f, 1, n)[1] = new[1] /\ DOMAIN SubSeq(f, 1, n) = 1 .. n
      BY <1>2, <1>3, <1>5 DEF f
<1> QED BY <1>5, <1>6, <1>8, <1>9 DEF n

LEMMA PrependedRuns ==
    ASSUME StreamAssumption, NEW new \in Seq(Nat), Len(new) = 1, NEW s \in Seq(Nat),
           NEW coming, NEW later \in SUBSET Nat,
           TwoRuns(s, coming), new[1] \in coming, \A y \in later : y > new[1]
    PROVE  TwoRuns(Prepended(new, s), later)
<1> DEFINE r == Prepended(new, s)
<1>1. /\ r \in Seq(Nat) /\ Len(r) \in Nat /\ Len(r) >= 1 /\ Len(r) <= Len(s) + 1
      /\ r[1] = new[1] /\ \A i \in 2 .. Len(r) : r[i] = s[i - 1]
      BY PrependedIs DEF Lesser, StreamAssumption
<1> HIDE DEF r
<1>n. new[1] \in Nat /\ Len(s) \in Nat /\ DOMAIN s = 1 .. Len(s)
  <2>1. Len(s) \in Nat /\ DOMAIN s = 1 .. Len(s)
        BY ONLY s \in Seq(Nat)
  <2> QED BY <2>1, Single
<1>2. PICK k \in 0 .. Len(s) : /\ Falls(s, 1, k) /\ Falls(s, k + 1, Len(s))
                               /\ k > 0 => new[1] > s[1]
      BY DEF TwoRuns
<1>3. \A i \in 1 .. Len(s) : s[i] \in Nat
      OBVIOUS
<1>4. PICK n \in 1 .. Len(r) : n <= k + 1 /\ (n = k + 1 \/ n = Len(r))
  <2>1. CASE k + 1 <= Len(r)
        BY <1>1, <2>1
  <2>2. CASE ~(k + 1 <= Len(r))
        BY <1>1, <2>2
  <2> QED BY <2>1, <2>2
<1>5. Falls(r, 1, n)
  <2> SUFFICES ASSUME NEW i \in 1 .. n, NEW j \in 1 .. n, i <= j PROVE r[i] >= r[j] + (j - i)
      BY DEF Falls
  <2>1. CASE j = 1
        BY <1>1, <2>1
  <2>2. CASE i = 1 /\ j > 1
    <3>0. k > 0 /\ 1 \in 1 .. k /\ j - 1 \in 1 .. k /\ j \in 2 .. Len(r) /\ k <= Len(s)
          BY <1>1, <1>4, <2>2
    <3>1. s[1] >= s[j - 1] + ((j - 1) - 1) /\ new[1] > s[1] /\ r[j] = s[j - 1]
          BY <1>1, <1>2, <3>0 DEF Falls
    <3>2. s[1] \in Nat /\ s[j - 1] \in Nat /\ new[1] \in Nat /\ j \in Nat
          BY <1>3, <1>n, <3>0
    <3>3. PICK a, b, x : a = s[1] /\ b = s[j - 1] /\ x = new[1]
          OBVIOUS
    <3>4. x >= b + (j - 1)
      <4>1. PICK c : c = s[1]
            OBVIOUS
      <4>2. c >= b + ((j - 1) - 1) /\ x > c /\ c \in Nat /\ b \in Nat /\ x \in Nat /\ j \in Nat
            BY ONLY <3>1, <3>2, <3>3, <4>1
      <4> QED BY ONLY <4>2
    <3> QED BY <1>1, <2>2, <3>1, <3>3, <3>4
  <2>3. CASE i > 1
    <3>1. s[i - 1] >= s[j - 1] + ((j - 1) - (i - 1)) /\ r[i] = s[i - 1] /\ r[j] = s[j - 1]
      <4>1. i - 1 \in 1 .. k /\ j - 1 \in 1 .. k /\ i - 1 <= j - 1
            /\ i \in 2 .. Len(r) /\ j \in 2 .. Len(r)
        <5>1. i \in Nat /\ j \in Nat /\ k \in Nat /\ n \in Nat /\ Len(r) \in Nat
              BY <1>1, <1>n
        <5>2. 1 < i /\ i <= j /\ j <= n /\ n <= k + 1 /\ n <= Len(r)
              BY <1>1, <1>4, <2>3
        <5> QED BY ONLY <5>1, <5>2
      <4> QED BY <1>1, <1>2, <4>1 DEF Falls
    <3>2. (j - 1) - (i - 1) = j - i
          OBVIOUS
    <3> QED BY <3>1, <3>2
  <2> QED BY <2>1, <2>2, <2>3
<1>6. Falls(r, n + 1, Len(r))
  <2> SUFFICES ASSUME NEW i \in n + 1 .. Len(r), NEW j \in n + 1 .. Len(r), i <= j
               PROVE  r[i] >= r[j] + (j - i)
      BY DEF Falls
  <2>1. n = k + 1
        BY <1>1, <1>4
  <2>2. s[i - 1] >= s[j - 1] + ((j - 1) - (i - 1)) /\ r[i] = s[i - 1] /\ r[j] = s[j - 1]
    <3>1. i - 1 \in k + 1 .. Len(s) /\ j - 1 \in k + 1 .. Len(s) /\ i - 1 <= j - 1
          /\ i \in 2 .. Len(r) /\ j \in 2 .. Len(r)
      <4>1. i \in Nat /\ j \in Nat /\ k \in Nat /\ Len(r) \in Nat /\ Len(s) \in Nat
            BY <1>1, <1>n, <2>1
      <4>2. n + 1 <= i /\ i <= j /\ j <= Len(r) /\ Len(r) <= Len(s) + 1 /\ n = k + 1
            BY <1>1, <2>1
      <4> QED BY ONLY <4>1, <4>2
    <3> QED BY <1>1, <1>2, <3>1 DEF Falls
  <2>3. (j - 1) - (i - 1) = j - i
        OBVIOUS
  <2> QED BY <2>2, <2>3
<1>7. \A x \in later : x > r[1]
      BY <1>1
<1> QED BY <1>1, <1>4, <1>5, <1>6, <1>7 DEF TwoRuns, r

LEMMA PrependedComplete ==
    ASSUME StreamAssumption, NEW p \in Nat, NEW new \in Seq(Nat), Len(new) = 1, NEW s \in Seq(Nat),
           ToSet(s) \subseteq 1 .. p, NEW any, TwoRuns(s, any),
           NEW coming, NEW later, coming \subseteq later \cup {new[1]},
           new[1] + 1 .. p \subseteq coming, Complete(p, s, coming)
    PROVE  Complete(p, Prepended(new, s), later)
<1> DEFINE r == Prepended(new, s)
<1>1. /\ r \in Seq(Nat) /\ Len(r) = Lesser(Shown, Len(s) + 1) /\ DOMAIN r = 1 .. Len(r)
      /\ 1 \in DOMAIN r /\ r[1] = new[1] /\ \A i \in 2 .. Len(r) : r[i] = s[i - 1]
      BY PrependedIs
<1> HIDE DEF r
<1>n. new[1] \in Nat /\ Len(s) \in Nat /\ DOMAIN s = 1 .. Len(s)
  <2>1. Len(s) \in Nat /\ DOMAIN s = 1 .. Len(s)
        BY ONLY s \in Seq(Nat)
  <2> QED BY <2>1, Single
<1> SUFFICES ASSUME NEW e \in 1 .. p, e > p - Recents, e \notin later PROVE Lists(r, e)
    BY DEF Complete, r
<1>2. CASE e = new[1]
  <2>1. 1 .. 1 - 1 = {}
        OBVIOUS
  <2> QED BY <1>1, <1>2, <2>1 DEF Lists
<1>3. CASE e # new[1]
  <2>1. e \notin coming /\ e < new[1]
    <3>1. e \notin coming
          BY <1>3
    <3>2. ~(e > new[1])
          BY <1>n, <3>1
    <3> QED BY <1>3, <1>n, <3>1, <3>2
  <2>2. PICK i \in DOMAIN s : s[i] = e /\ \A j \in 1 .. i - 1 : s[j] > e
        BY <2>1 DEF Complete, Lists
  <2>3. i <= 2 * (p - e) + 1
        BY <2>2, Position DEF TwoRuns
  <2>4. i \in 1 .. Len(s) /\ Len(s) \in Nat
        OBVIOUS
  <2>5. i + 1 \in 2 .. Len(r)
    <3>1. 2 * (p - e) + 2 <= Shown /\ Shown \in Nat
      <4>1. Recents \in Nat /\ Shown \in Nat /\ Shown >= 2 * Recents
            BY DEF StreamAssumption
      <4> QED BY <4>1
    <3>2. i + 1 <= Shown /\ i + 1 <= Len(s) + 1 /\ i \in Nat /\ i >= 1
          BY <2>3, <2>4, <3>1
    <3>3. i + 1 <= Len(r)
          BY <1>1, <3>2 DEF Lesser
    <3> QED BY <1>1, <3>2, <3>3
  <2>6. r[i + 1] = e /\ \A j \in 1 .. (i + 1) - 1 : r[j] > e
    <3>1. r[i + 1] = e
          BY <1>1, <2>2, <2>4, <2>5
    <3>2. ASSUME NEW j \in 1 .. i PROVE r[j] > e
      <4>1. CASE j = 1
            BY <1>1, <2>1, <4>1
      <4>2. CASE j > 1
        <5>1. r[j] = s[j - 1] /\ j - 1 \in 1 .. i - 1
          <6>1. j \in 2 .. Len(r)
                BY <2>4, <2>5, <4>2
          <6>2. i \in Nat /\ j \in Nat
                BY <2>4
          <6>3. j - 1 \in 1 .. i - 1
                BY ONLY <4>2, <6>2, j \in 1 .. i
          <6> QED BY <1>1, <6>1, <6>3
        <5> QED BY <2>2, <5>1
      <4> QED BY <4>1, <4>2
    <3>3. (i + 1) - 1 = i
          BY ONLY <2>4
    <3> QED BY <3>1, <3>2, <3>3
  <2>7. i + 1 \in DOMAIN r
    <3>1. 2 .. Len(r) \subseteq 1 .. Len(r)
          BY <1>1
    <3> QED BY ONLY <1>1, <2>5, <3>1
  <2> QED BY ONLY <2>6, <2>7 DEF Lists
<1> QED BY <1>2, <1>3

(* --------------------------- one connection ------------------------------ *)

(* An event is recorded: it goes into the channel or is dropped.             *)
LEMMA TakenGrows ==
    ASSUME NEW p \in Nat, NEW evs, NEW coming, NEW before, Taken(p, evs, coming, before)
    PROVE  Taken(p + 1, evs, coming \cup {p + 1}, before)
<1>1. PICK v \in 0 .. p : /\ evs = RecentAt(v) /\ v + 1 .. p \subseteq coming
                          /\ \A x \in before : x <= v
      BY DEF Taken
<1>2. v \in 0 .. p + 1 /\ v + 1 .. p + 1 \subseteq coming \cup {p + 1}
      BY <1>1
<1> QED BY <1>1, <1>2 DEF Taken

LEMMA CompleteGrows ==
    ASSUME NEW p \in Nat, NEW s, NEW coming, Recents \in Nat, Complete(p, s, coming)
    PROVE  Complete(p + 1, s, coming \cup {p + 1})
<1> SUFFICES ASSUME NEW e \in 1 .. p + 1, e > (p + 1) - Recents, e \notin coming \cup {p + 1}
             PROVE  Lists(s, e)
    BY DEF Complete
<1>1. e \in 1 .. p /\ e > p - Recents
      OBVIOUS
<1> QED BY <1>1 DEF Complete

LEMMA Recorded ==
    ASSUME NEW p \in Nat, NEW c \in Seq(Nat), NEW w \in Seq(Message), NEW lost, NEW s \in Seq(Nat),
           NEW d \in Seq(Nat), NEW gone, Streaming(p, c, w, lost, s),
           \/ d = Append(c, p + 1) /\ gone = lost
           \/ d = c /\ gone = lost \cup {p + 1}
    PROVE  /\ Streaming(p + 1, d, w, gone, s)
           /\ Coming(d, w) \cup gone = Coming(c, w) \cup lost \cup {p + 1}
<1>1. \/ ToSet(d) = ToSet(c) \cup {p + 1} /\ gone = lost
      \/ ToSet(d) = ToSet(c) /\ gone = lost \cup {p + 1}
  <2>1. CASE d = c /\ gone = lost \cup {p + 1}
        BY <2>1
  <2>2. CASE d = Append(c, p + 1) /\ gone = lost
    <3>1. /\ DOMAIN d = DOMAIN c \cup {Len(c) + 1}
          /\ \A i \in DOMAIN c : d[i] = c[i]
          /\ d[Len(c) + 1] = p + 1
          BY <2>2, Appended
    <3> QED BY ONLY <2>2, <3>1 DEF ToSet
  <2> QED BY <2>1, <2>2
<1>2. /\ Coming(c, w) \subseteq Coming(d, w) /\ Coming(d, w) \subseteq Coming(c, w) \cup {p + 1}
      /\ Coming(d, w) \cup gone = Coming(c, w) \cup lost \cup {p + 1}
      BY <1>1 DEF Coming
<1>3. Coming(c, w) \subseteq 1 .. p
      BY DEF Streaming, Gapless
<1>4. Ordered(d, w)
  <2>1. \A x \in Logged(w) : x < p + 1
        BY <1>3 DEF Coming
  <2>2. \A x \in Logged(w), y \in ToSet(d) : x < y
        BY <1>1, <2>1 DEF Streaming, Ordered
  <2>3. \A i, j \in DOMAIN d : i < j => d[i] < d[j]
    <3>1. CASE d = c
          BY <3>1 DEF Streaming, Ordered
    <3>2. CASE d = Append(c, p + 1)
      <4>1. /\ DOMAIN d = DOMAIN c \cup {Len(c) + 1} /\ Len(c) \in Nat
            /\ \A i \in DOMAIN c : i \in Nat /\ i <= Len(c) /\ d[i] = c[i]
            /\ d[Len(c) + 1] = p + 1
            BY <3>2, Appended
      <4>2. \A i \in DOMAIN c : c[i] < p + 1
        <5>1. \A i \in DOMAIN c : c[i] \in 1 .. p
              BY <1>3 DEF Coming, ToSet
        <5> QED BY <5>1
      <4>3. \A i, j \in DOMAIN c : i < j => c[i] < c[j]
            BY DEF Streaming, Ordered
      <4> QED BY ONLY <4>1, <4>2, <4>3
    <3> QED BY <3>1, <3>2
  <2> QED BY <2>2, <2>3 DEF Streaming, Ordered
<1>5. Gapless(p + 1, Coming(d, w), gone)
  <2>1. Coming(d, w) \subseteq 1 .. p + 1
        BY <1>2, <1>3
  <2>2. ASSUME NEW x \in Coming(d, w), NEW y \in x + 1 .. p + 1
        PROVE  y \in Coming(d, w) \cup gone
    <3>1. x \in Nat
          BY <2>1
    <3>2. CASE y = p + 1
          BY <1>2, <3>2
    <3>3. CASE y # p + 1
      <4>1. x # p + 1 /\ y \in x + 1 .. p
            BY <3>1, <3>3
      <4>2. y \in Coming(c, w) \cup lost
            BY <1>2, <4>1 DEF Streaming, Gapless
      <4> QED BY <1>2, <4>2
    <3> QED BY <3>2, <3>3
  <2> QED BY <2>1, <2>2 DEF Gapless
<1>6. ASSUME NEW i \in StatesIn(w)
      PROVE  Taken(p + 1, w[i].events, Coming(d, w) \cup gone, LoggedBefore(w, i))
  <2>1. Taken(p, w[i].events, Coming(c, w) \cup lost, LoggedBefore(w, i))
        BY DEF Streaming
  <2> QED BY <1>2, <2>1, TakenGrows
<1>7. ToSet(s) \subseteq 1 .. p + 1 /\ TwoRuns(s, Coming(d, w))
  <2>1. ToSet(s) \subseteq 1 .. p
        BY DEF Streaming
  <2>2. ToSet(s) \subseteq 1 .. p + 1
        BY <2>1
  <2>3. PICK k \in 0 .. Len(s) : /\ Falls(s, 1, k) /\ Falls(s, k + 1, Len(s))
                                 /\ k > 0 => \A x \in Coming(c, w) : x > s[1]
        BY DEF Streaming, TwoRuns
  <2>4. k > 0 => s[1] \in 1 .. p
    <3>1. k > 0 => 1 \in DOMAIN s
          OBVIOUS
    <3> QED BY <2>1, <3>1 DEF ToSet
  <2>5. k > 0 => \A x \in Coming(d, w) : x > s[1]
        BY <1>2, <2>3, <2>4
  <2> QED BY <2>2, <2>3, <2>5 DEF TwoRuns
<1> QED BY <1>2, <1>4, <1>5, <1>6, <1>7 DEF Streaming

(* A message that is no log event is written.                                *)
LEMMA SameComing ==
    ASSUME NEW c, NEW w \in Seq(Message), NEW m \in Message, m.kind # "log"
    PROVE  Coming(c, Append(w, m)) = Coming(c, w) /\ Logged(Append(w, m)) = Logged(w)
BY Written DEF Coming

LEMMA StateSent ==
    ASSUME NEW p, NEW c, NEW w \in Seq(Message), NEW lost, NEW s, NEW m \in Message,
           Streaming(p, c, w, lost, s), m.kind = "state",
           Taken(p, m.events, Coming(c, w) \cup lost, Logged(w))
    PROVE  /\ Streaming(p, c, Append(w, m), lost, s) /\ Append(w, m) \in Seq(Message)
           /\ StatesIn(Append(w, m)) # {}
<1> DEFINE v == Append(w, m)
<1>1. /\ v \in Seq(Message) /\ LogsIn(v) = LogsIn(w) /\ Logged(v) = Logged(w)
      /\ StatesIn(v) = StatesIn(w) \cup {Len(w) + 1}
      /\ \A i \in LogsIn(w) : v[i] = w[i]
      /\ \A i \in StatesIn(w) : v[i] = w[i] /\ LoggedBefore(v, i) = LoggedBefore(w, i)
      /\ v[Len(w) + 1] = m /\ LoggedBefore(v, Len(w) + 1) = Logged(w)
      BY Written
<1> HIDE DEF v
<1>2. Coming(c, v) = Coming(c, w)
      BY <1>1 DEF Coming
<1>3. Ordered(c, v)
      BY <1>1 DEF Streaming, Ordered
<1>4. \A i \in StatesIn(v) : Taken(p, v[i].events, Coming(c, v) \cup lost, LoggedBefore(v, i))
      BY <1>1, <1>2 DEF Streaming
<1>5. Streaming(p, c, v, lost, s)
      BY <1>2, <1>3, <1>4 DEF Streaming
<1> QED BY <1>1, <1>5 DEF v

LEMMA NoticeSent ==
    ASSUME NEW p, NEW c, NEW w \in Seq(Message), NEW lost, NEW s, NEW m \in Message,
           Streaming(p, c, w, lost, s), m.kind # "log", m.kind # "state"
    PROVE  /\ Streaming(p, c, Append(w, m), lost, s) /\ Append(w, m) \in Seq(Message)
           /\ StatesIn(Append(w, m)) = StatesIn(w)
<1> DEFINE v == Append(w, m)
<1>1. /\ v \in Seq(Message) /\ LogsIn(v) = LogsIn(w) /\ Logged(v) = Logged(w)
      /\ StatesIn(v) = StatesIn(w)
      /\ \A i \in LogsIn(w) : v[i] = w[i]
      /\ \A i \in StatesIn(w) : v[i] = w[i] /\ LoggedBefore(v, i) = LoggedBefore(w, i)
      BY Written
<1> HIDE DEF v
<1>2. Coming(c, v) = Coming(c, w)
      BY <1>1 DEF Coming
<1>3. Ordered(c, v)
      BY <1>1 DEF Streaming, Ordered
<1>4. \A i \in StatesIn(v) : Taken(p, v[i].events, Coming(c, v) \cup lost, LoggedBefore(v, i))
      BY <1>1, <1>2 DEF Streaming
<1>5. Streaming(p, c, v, lost, s)
      BY <1>2, <1>3, <1>4 DEF Streaming
<1> QED BY <1>1, <1>5 DEF v

(* The first event of the channel is written.                                *)
LEMMA Forwarded ==
    ASSUME NEW p, NEW c \in Seq(Nat), NEW w \in Seq(Message), NEW lost, NEW s, c # <<>>,
           NEW m \in Message, m.kind = "log", m.events[1] = Head(c),
           Streaming(p, c, w, lost, s)
    PROVE  /\ Streaming(p, Tail(c), Append(w, m), lost, s) /\ Append(w, m) \in Seq(Message)
           /\ Coming(Tail(c), Append(w, m)) = Coming(c, w)
           /\ StatesIn(Append(w, m)) = StatesIn(w)
<1> DEFINE v == Append(w, m)
           d == Tail(c)
           x == Head(c)
<1>1. /\ v \in Seq(Message) /\ LogsIn(v) = LogsIn(w) \cup {Len(w) + 1}
      /\ Logged(v) = Logged(w) \cup {x} /\ StatesIn(v) = StatesIn(w)
      /\ \A i \in LogsIn(w) : v[i] = w[i] /\ i < Len(w) + 1
      /\ \A i \in StatesIn(w) : v[i] = w[i] /\ LoggedBefore(v, i) = LoggedBefore(w, i)
      /\ v[Len(w) + 1] = m
  <2>1. /\ LogsIn(v) = LogsIn(w) \cup {Len(w) + 1} /\ Logged(v) = Logged(w) \cup {m.events[1]}
        /\ StatesIn(v) = StatesIn(w)
        BY Written
  <2> QED BY <2>1, Written
<1>2. /\ x = c[1] /\ 1 \in DOMAIN c /\ d \in Seq(Nat)
      /\ \A i \in DOMAIN d : i + 1 \in DOMAIN c /\ d[i] = c[i + 1]
      /\ \A i \in DOMAIN c : i \in Nat /\ (i # 1 => i - 1 \in DOMAIN d)
      BY Headed
<1>3. \A i \in DOMAIN d : i \in Nat /\ i >= 1
      BY <1>2
<1>4. Len(w) \in Nat /\ \A i \in LogsIn(w) : i \in Nat
      BY DEF LogsIn
<1> HIDE DEF v, d, x
<1>5. ToSet(c) = ToSet(d) \cup {x}
  <2>1. \A i \in DOMAIN c : i # 1 => i - 1 \in DOMAIN d /\ c[i] = d[i - 1]
        BY <1>2
  <2>2. ToSet(c) \subseteq ToSet(d) \cup {x}
        BY ONLY <1>2, <2>1 DEF ToSet
  <2>3. ToSet(d) \cup {x} \subseteq ToSet(c)
        BY ONLY <1>2 DEF ToSet
  <2> QED BY <2>2, <2>3
<1>6. Coming(d, v) = Coming(c, w)
      BY <1>1, <1>5 DEF Coming
<1>7. Ordered(d, v)
  <2>1. \A i, j \in DOMAIN d : i < j => d[i] < d[j]
        BY <1>2, <1>3 DEF Streaming, Ordered
  <2>2. \A y \in ToSet(d) : x < y
    <3>1. \A i \in DOMAIN d : c[1] < c[i + 1]
          BY <1>2, <1>3 DEF Streaming, Ordered
    <3> QED BY <1>2, <3>1 DEF ToSet
  <2>3. \A y \in Logged(w) : y < x
        BY <1>5 DEF Streaming, Ordered
  <2>4. \A i \in LogsIn(w) : w[i].events[1] < x
        BY <2>3 DEF Logged
  <2>5. \A i, j \in LogsIn(v) : i < j => v[i].events[1] < v[j].events[1]
    <3>1. \A i, j \in LogsIn(w) : i < j => w[i].events[1] < w[j].events[1]
          BY DEF Streaming, Ordered
    <3>2. m.events[1] = x
          BY DEF x
    <3> QED BY ONLY <1>1, <1>4, <2>4, <3>1, <3>2
  <2>6. \A y \in Logged(v), z \in ToSet(d) : y < z
        BY <1>1, <1>5, <2>2 DEF Streaming, Ordered
  <2> QED BY <2>1, <2>5, <2>6 DEF Ordered
<1>8. \A i \in StatesIn(v) : Taken(p, v[i].events, Coming(d, v) \cup lost, LoggedBefore(v, i))
      BY <1>1, <1>6 DEF Streaming
<1>9. Streaming(p, d, v, lost, s)
      BY <1>6, <1>7, <1>8 DEF Streaming
<1> QED BY <1>1, <1>6, <1>9 DEF v, d

(* The connection ends.                                                      *)
LEMMA Ended ==
    ASSUME NEW p, NEW c, NEW w, NEW lost, NEW s, Streaming(p, c, w, lost, s)
    PROVE  Streaming(p, <<>>, <<>>, {}, s)
<1>1. Ordered(<<>>, <<>>) /\ Gapless(p, Coming(<<>>, <<>>), {})
      BY Empty DEF Ordered, Gapless
<1>2. TwoRuns(s, {})
      BY DEF Streaming, TwoRuns
<1> QED BY <1>1, <1>2, Empty DEF Streaming

(* ------------------------- the tab reads a message ----------------------- *)

LEMMA TakenShrinks ==
    ASSUME NEW p \in Nat, NEW evs, NEW coming, NEW later, NEW before, NEW less,
           Taken(p, evs, coming, before), less \subseteq before,
           NEW x \in Nat, x \in before, coming \subseteq later \cup {x}
    PROVE  Taken(p, evs, later, less)
<1>1. PICK v \in 0 .. p : /\ evs = RecentAt(v) /\ v + 1 .. p \subseteq coming
                          /\ \A y \in before : y <= v
      BY DEF Taken
<1>2. \A y \in v + 1 .. p : y # x
      BY <1>1
<1>3. v + 1 .. p \subseteq later
      BY <1>1, <1>2
<1> QED BY <1>1, <1>3 DEF Taken

LEMMA OrderedRead ==
    ASSUME NEW c, NEW w \in Seq(Message), w # <<>>, Ordered(c, w)
    PROVE  Ordered(c, Tail(w))
<1>1. \A i \in LogsIn(Tail(w)) : i + 1 \in LogsIn(w) /\ Tail(w)[i] = w[i + 1] /\ i \in Nat
      BY Read
<1>2. Logged(Tail(w)) \subseteq Logged(w)
      BY Read
<1>3. \A i, j \in LogsIn(Tail(w)) : i < j => Tail(w)[i].events[1] < Tail(w)[j].events[1]
  <2> SUFFICES ASSUME NEW i \in LogsIn(Tail(w)), NEW j \in LogsIn(Tail(w)), i < j
               PROVE  Tail(w)[i].events[1] < Tail(w)[j].events[1]
      OBVIOUS
  <2>1. i + 1 < j + 1
        BY <1>1
  <2> QED BY <1>1, <2>1 DEF Ordered
<1> QED BY <1>2, <1>3 DEF Ordered

LEMMA LogRead ==
    ASSUME StreamAssumption, NEW p \in Nat, NEW c, NEW w \in Seq(Message), NEW lost,
           NEW s \in Seq(Nat), w # <<>>, Head(w).kind = "log", Streaming(p, c, w, lost, s)
    PROVE  /\ Prepended(Head(w).events, s) \in Seq(Nat)
           /\ Streaming(p, c, Tail(w), lost, Prepended(Head(w).events, s))
           /\ \A evs : Taken(p, evs, Coming(c, w) \cup lost, Logged(w))
                         => Taken(p, evs, Coming(c, Tail(w)) \cup lost, Logged(Tail(w)))
           /\ StatesIn(Tail(w)) = {} => StatesIn(w) = {}
           /\ Complete(p, s, Coming(c, w) \cup lost)
                  => Complete(p, Prepended(Head(w).events, s), Coming(c, Tail(w)) \cup lost)
<1> DEFINE v == Tail(w)
           new == Head(w).events
           x == new[1]
           r == Prepended(new, s)
<1>1. new \in Seq(Nat) /\ Len(new) = 1
  <2>1. Head(w) \in Message
        BY Read
  <2> QED BY <2>1 DEF Message, Snapshot
<1>2. /\ Logged(w) = Logged(v) \cup {x} /\ v \in Seq(Message)
      /\ 1 \in LogsIn(w) /\ \A i \in LogsIn(w) : i # 1 => i > 1
      /\ \A i \in StatesIn(w) : x \in LoggedBefore(w, i)
      /\ StatesIn(v) = {} => StatesIn(w) = {}
      BY Read
<1>a. \A i \in LogsIn(v) : i + 1 \in LogsIn(w) /\ v[i] = w[i + 1] /\ i + 1 # 1
  <2>1. \A i \in LogsIn(v) : i \in DOMAIN v
        BY DEF LogsIn
  <2>2. \A i \in DOMAIN v : i + 1 # 1
        BY <1>2
  <2> QED BY <2>1, <2>2, Read
<1>b. \A i \in StatesIn(v) : i + 1 \in StatesIn(w) /\ v[i] = w[i + 1]
                             /\ LoggedBefore(v, i) \subseteq LoggedBefore(w, i + 1)
      BY Read
<1>c. w[1].events[1] = x
      BY Read
<1> HIDE DEF v, x
<1>p. Coming(c, w) \subseteq 1 .. p
      BY DEF Streaming, Gapless
<1>3. x \in Nat /\ x \in Coming(c, w) /\ x \in 1 .. p
  <2>1. x \in Coming(c, w)
        BY <1>2 DEF Coming
  <2> QED BY <1>p, <2>1
<1>4. Coming(c, w) = Coming(c, v) \cup {x}
      BY <1>2 DEF Coming
<1>5. \A y \in Coming(c, v) : y > x
  <2>1. ASSUME NEW i \in LogsIn(v) PROVE v[i].events[1] > x
    <3>1. i + 1 \in LogsIn(w) /\ i + 1 > 1 /\ v[i] = w[i + 1]
          BY <1>2, <1>a
    <3>2. w[1].events[1] < w[i + 1].events[1]
          BY <1>2, <3>1 DEF Streaming, Ordered
    <3>3. w[i + 1].events[1] \in Nat
      <4>1. w[i + 1].events[1] \in Coming(c, w)
            BY <3>1 DEF Coming, Logged
      <4> QED BY <1>p, <4>1
    <3> QED BY <1>3, <1>c, <3>1, <3>2, <3>3
  <2>2. \A y \in ToSet(c) : y > x
    <3>1. \A y \in ToSet(c) : x < y /\ y \in Nat
      <4>1. ToSet(c) \subseteq 1 .. p
            BY <1>p DEF Coming
      <4>2. \A y \in ToSet(c) : y \in Nat
            BY <4>1
      <4>3. x \in Logged(w)
            BY <1>2
      <4>4. \A y \in ToSet(c) : x < y
            BY <4>3 DEF Streaming, Ordered
      <4> QED BY <4>2, <4>4
    <3> QED BY <1>3, <3>1
  <2> QED BY <2>1, <2>2 DEF Coming, Logged
<1>6. Ordered(c, v)
      BY OrderedRead DEF Streaming, v
<1>7. Gapless(p, Coming(c, v), lost)
  <2>1. Coming(c, v) \subseteq 1 .. p
        BY <1>4 DEF Streaming, Gapless
  <2>2. ASSUME NEW y \in Coming(c, v), NEW z \in y + 1 .. p PROVE z \in Coming(c, v) \cup lost
    <3>1. z \in Coming(c, w) \cup lost
          BY <1>4 DEF Streaming, Gapless
    <3>2. z # x
      <4>1. y > x /\ y \in Nat
            BY <1>5, <2>1
      <4> QED BY <1>3, <4>1
    <3> QED BY <1>4, <3>1, <3>2
  <2> QED BY <2>1, <2>2 DEF Gapless
<1>8. ASSUME NEW i \in StatesIn(v)
      PROVE  Taken(p, v[i].events, Coming(c, v) \cup lost, LoggedBefore(v, i))
  <2>1. Taken(p, v[i].events, Coming(c, w) \cup lost, LoggedBefore(w, i + 1))
        BY <1>b DEF Streaming
  <2>2. x \in LoggedBefore(w, i + 1) /\ LoggedBefore(v, i) \subseteq LoggedBefore(w, i + 1)
        BY <1>2, <1>b
  <2>3. Coming(c, w) \cup lost \subseteq (Coming(c, v) \cup lost) \cup {x}
        BY <1>4
  <2> QED BY <1>3, <2>1, <2>2, <2>3, TakenShrinks
<1>9. ASSUME NEW evs, Taken(p, evs, Coming(c, w) \cup lost, Logged(w))
      PROVE  Taken(p, evs, Coming(c, v) \cup lost, Logged(v))
  <2>1. x \in Logged(w) /\ Logged(v) \subseteq Logged(w)
        BY <1>2
  <2>2. Coming(c, w) \cup lost \subseteq (Coming(c, v) \cup lost) \cup {x}
        BY <1>4
  <2> QED BY <1>3, <1>9, <2>1, <2>2, TakenShrinks
<1> HIDE DEF new, r
<1>10. r \in Seq(Nat) /\ ToSet(r) \subseteq 1 .. p
  <2>1. /\ r \in Seq(Nat) /\ Len(r) <= Len(s) + 1 /\ 1 \in DOMAIN r /\ r[1] = x
        /\ \A i \in 2 .. Len(r) : r[i] = s[i - 1]
    <3>1. Lesser(Shown, Len(s) + 1) <= Len(s) + 1
          BY DEF Lesser, StreamAssumption
    <3> QED BY <1>1, <3>1, PrependedIs DEF r, x
  <2>2. \A i \in 1 .. Len(s) : s[i] \in 1 .. p
        BY DEF Streaming, ToSet
  <2>3. ASSUME NEW i \in DOMAIN r PROVE r[i] \in 1 .. p
    <3>1. CASE i = 1
          BY <1>3, <2>1, <3>1
    <3>2. CASE i # 1
      <4>1. i \in 2 .. Len(r) /\ i - 1 \in 1 .. Len(s)
            BY <2>1, <3>2
      <4> QED BY <2>1, <2>2, <4>1
    <3> QED BY <3>1, <3>2
  <2> QED BY <2>1, <2>3 DEF ToSet
<1>11. TwoRuns(r, Coming(c, v))
  <2>1. Coming(c, v) \in SUBSET Nat
        BY <1>7 DEF Gapless
  <2>2. TwoRuns(s, Coming(c, w))
        BY DEF Streaming
  <2>3. x \in Coming(c, w) /\ \A y \in Coming(c, v) : y > x
        BY <1>3, <1>5
  <2> QED BY <1>1, <2>1, <2>2, <2>3, PrependedRuns DEF r, x
<1>12. ASSUME Complete(p, s, Coming(c, w) \cup lost)
       PROVE  Complete(p, r, Coming(c, v) \cup lost)
  <2>1. ToSet(s) \subseteq 1 .. p /\ TwoRuns(s, Coming(c, w))
        BY DEF Streaming
  <2>2. x + 1 .. p \subseteq Coming(c, w) \cup lost
        BY <1>3 DEF Streaming, Gapless
  <2>3. Coming(c, w) \cup lost \subseteq (Coming(c, v) \cup lost) \cup {x}
        BY <1>4
  <2> QED BY <1>1, <1>12, <2>1, <2>2, <2>3, PrependedComplete DEF r, x
<1>13. Streaming(p, c, v, lost, r)
       BY <1>6, <1>7, <1>8, <1>10, <1>11 DEF Streaming
<1> QED BY <1>2, <1>9, <1>10, <1>12, <1>13 DEF v, r, new

LEMMA StateRead ==
    ASSUME StreamAssumption, NEW p \in Nat, NEW c, NEW w \in Seq(Message), NEW lost, NEW s,
           w # <<>>, Head(w).kind = "state", Streaming(p, c, w, lost, s)
    PROVE  /\ Head(w).events \in Seq(Nat)
           /\ Streaming(p, c, Tail(w), lost, Head(w).events)
           /\ Coming(c, Tail(w)) = Coming(c, w) /\ Logged(Tail(w)) = Logged(w)
           /\ Complete(p, Head(w).events, Coming(c, Tail(w)) \cup lost)
<1> DEFINE v == Tail(w)
<1>1. /\ Logged(w) = Logged(v) /\ v \in Seq(Message)
      /\ 1 \in StatesIn(w) /\ Head(w) = w[1]
      BY Read
<1>b. \A i \in StatesIn(v) : i + 1 \in StatesIn(w) /\ v[i] = w[i + 1]
                             /\ LoggedBefore(v, i) \subseteq LoggedBefore(w, i + 1)
      BY Read
<1>6. Ordered(c, v)
      BY OrderedRead DEF Streaming
<1> HIDE DEF v
<1>2. Coming(c, v) = Coming(c, w)
      BY <1>1 DEF Coming
<1>3. PICK n \in 0 .. p : w[1].events = RecentAt(n) /\ n + 1 .. p \subseteq Coming(c, w) \cup lost
      BY <1>1 DEF Streaming, Taken
<1> DEFINE r == RecentAt(n)
<1>4. /\ r \in Seq(Nat) /\ ToSet(r) = {e \in 1 .. n : e > n - Recents}
      /\ Len(r) \in Nat /\ \A i \in 1 .. Len(r) : r[i] = n + 1 - i
      /\ \A e \in 1 .. n : e > n - Recents => Lists(r, e)
  <2>1. n \in Nat /\ Lesser(Recents, n) \in Nat
        BY DEF Lesser, StreamAssumption
  <2> QED BY <2>1, RecentIs
<1> HIDE DEF r
<1>5. TwoRuns(r, Coming(c, v))
  <2>1. Falls(r, 1, 0) /\ Falls(r, 0 + 1, Len(r))
        BY <1>4 DEF Falls
  <2>2. 0 \in 0 .. Len(r) /\ ~(0 > 0)
        BY <1>4
  <2> QED BY ONLY <2>1, <2>2 DEF TwoRuns
<1>7. ToSet(r) \subseteq 1 .. p
      BY <1>4
<1>8. ASSUME NEW i \in StatesIn(v)
      PROVE  Taken(p, v[i].events, Coming(c, v) \cup lost, LoggedBefore(v, i))
  <2>1. Taken(p, v[i].events, Coming(c, w) \cup lost, LoggedBefore(w, i + 1))
        BY <1>b DEF Streaming
  <2> QED BY <1>2, <1>b, <2>1 DEF Taken
<1>9. Streaming(p, c, v, lost, r)
      BY <1>2, <1>5, <1>6, <1>7, <1>8 DEF Streaming
<1>10. Complete(p, r, Coming(c, v) \cup lost)
  <2> SUFFICES ASSUME NEW e \in 1 .. p, e > p - Recents, e \notin Coming(c, v) \cup lost
               PROVE  Lists(r, e)
      BY DEF Complete
  <2>1. e \in 1 .. n
        BY <1>2, <1>3
  <2>2. e > n - Recents
        BY <2>1 DEF StreamAssumption
  <2> QED BY <1>4, <2>1, <2>2
<1> QED BY <1>1, <1>2, <1>3, <1>4, <1>9, <1>10 DEF v, r

LEMMA OtherRead ==
    ASSUME NEW p, NEW c, NEW w \in Seq(Message), NEW lost, NEW s,
           w # <<>>, Head(w).kind \notin {"log", "state"}, Streaming(p, c, w, lost, s)
    PROVE  /\ Streaming(p, c, Tail(w), lost, s)
           /\ Coming(c, Tail(w)) = Coming(c, w) /\ Logged(Tail(w)) = Logged(w)
           /\ StatesIn(Tail(w)) = {} => StatesIn(w) = {}
<1> DEFINE v == Tail(w)
<1>1. Logged(w) = Logged(v) /\ (StatesIn(v) = {} => StatesIn(w) = {})
      BY Read
<1>2. \A i \in StatesIn(v) : i + 1 \in StatesIn(w) /\ v[i] = w[i + 1]
                             /\ LoggedBefore(v, i) \subseteq LoggedBefore(w, i + 1)
      BY Read
<1>3. Ordered(c, v)
      BY OrderedRead DEF Streaming
<1> HIDE DEF v
<1>4. Coming(c, v) = Coming(c, w)
      BY <1>1 DEF Coming
<1>5. ASSUME NEW i \in StatesIn(v)
      PROVE  Taken(p, v[i].events, Coming(c, v) \cup lost, LoggedBefore(v, i))
  <2>1. Taken(p, v[i].events, Coming(c, w) \cup lost, LoggedBefore(w, i + 1))
        BY <1>2 DEF Streaming
  <2> QED BY <1>2, <1>4, <2>1 DEF Taken
<1> QED BY <1>1, <1>3, <1>4, <1>5 DEF Streaming, v

(* ------------------------------- the steps ------------------------------- *)

USE StreamAssumption

(* What leaves a connection and its tab's list alone keeps what is said of   *)
(* them.                                                                     *)
LEMMA Elsewhere ==
    ASSUME NEW u \in Tabs, Follows(u), pushed' = pushed,
           UNCHANGED <<stage[u], chan[u], wire[u], draft[u], sent[u], dropped[u], events[u]>>
    PROVE  Follows(u)'
BY DEF Follows

LEMMA InitHolds == Init => Inductive
<1> SUFFICES ASSUME Init PROVE Inductive
    OBVIOUS
<1>1. Typed
  <2>1. Msg("state", 0, <<>>) \in Snapshot
        BY DEF Msg, Snapshot
  <2>2. draft \in [Tabs -> Snapshot]
        BY <2>1 DEF Init
  <2>3. /\ chan \in [Tabs -> Seq(Nat)] /\ wire \in [Tabs -> Seq(Message)]
        /\ dropped \in [Tabs -> SUBSET Nat] /\ events \in [Tabs -> Seq(Nat)]
        BY DEF Init
  <2> QED BY <2>2, <2>3 DEF Init, Typed
<1>2. ASSUME NEW t \in Tabs PROVE Follows(t)
  <2>1. chan[t] = <<>> /\ wire[t] = <<>> /\ dropped[t] = {} /\ events[t] = <<>>
        /\ stage[t] = "closed" /\ sent[t] = "nothing"
        BY DEF Init
  <2>2. Ordered(<<>>, <<>>) /\ Gapless(pushed, Coming(<<>>, <<>>), {})
        BY Empty DEF Ordered, Gapless
  <2>3. TwoRuns(<<>>, {})
    <3>1. Falls(<<>>, 1, 0) /\ Falls(<<>>, 0 + 1, Len(<<>>)) /\ 0 \in 0 .. Len(<<>>) /\ ~(0 > 0)
          BY DEF Falls
    <3> QED BY ONLY <3>1 DEF TwoRuns
  <2>4. Streaming(pushed, <<>>, <<>>, {}, <<>>)
        BY <2>2, <2>3, Empty DEF Streaming
  <2> QED BY <2>1, <2>4 DEF Follows
<1> QED BY <1>1, <1>2 DEF Inductive

LEMMA PushHolds == ASSUME Inductive, Push PROVE Inductive'
<1>1. /\ pushed \in Nat /\ chan \in [Tabs -> Seq(Nat)] /\ dropped \in [Tabs -> SUBSET Nat]
      /\ wire \in [Tabs -> Seq(Message)] /\ events \in [Tabs -> Seq(Nat)]
      BY DEF Inductive, Typed
<1>2. pushed' = pushed + 1 /\ UNCHANGED <<world, stage, wire, draft, sent, events>>
      BY DEF Push, tab
<1>3. ASSUME NEW t \in Tabs
      PROVE  /\ chan'[t] \in Seq(Nat) /\ dropped'[t] \in SUBSET Nat
             /\ stage[t] = "closed" => chan'[t] = chan[t] /\ dropped'[t] = dropped[t]
             /\ stage[t] # "closed" =>
                   \/ chan'[t] = Append(chan[t], pushed + 1) /\ dropped'[t] = dropped[t]
                   \/ chan'[t] = chan[t] /\ dropped'[t] = dropped[t] \cup {pushed + 1}
  <2>1. /\ chan'[t] = IF stage[t] # "closed" /\ Len(chan[t]) < Capacity
                      THEN Append(chan[t], pushed + 1) ELSE chan[t]
        /\ dropped'[t] = IF stage[t] # "closed" /\ ~(stage[t] # "closed" /\ Len(chan[t]) < Capacity)
                         THEN dropped[t] \cup {pushed + 1} ELSE dropped[t]
        BY DEF Push
  <2>2. Append(chan[t], pushed + 1) \in Seq(Nat) /\ dropped[t] \cup {pushed + 1} \in SUBSET Nat
        BY <1>1, Appended
  <2> QED BY <1>1, <2>1, <2>2
<1>4. Typed'
  <2>1. chan' = [t \in Tabs |-> chan'[t]] /\ dropped' = [t \in Tabs |-> dropped'[t]]
        BY DEF Push
  <2>2. chan' \in [Tabs -> Seq(Nat)] /\ dropped' \in [Tabs -> SUBSET Nat]
        BY <1>3, <2>1
  <2> QED BY <1>1, <1>2, <2>2 DEF Inductive, Typed
<1>5. ASSUME NEW t \in Tabs PROVE Follows(t)'
  <2>1. Follows(t)
        BY DEF Inductive
  <2>2. PICK p, c, w, lost, s, d, gone :
            /\ p = pushed /\ c = chan[t] /\ w = wire[t] /\ lost = dropped[t] /\ s = events[t]
            /\ d = chan'[t] /\ gone = dropped'[t]
        OBVIOUS
  <2>3. /\ p \in Nat /\ c \in Seq(Nat) /\ w \in Seq(Message) /\ s \in Seq(Nat) /\ d \in Seq(Nat)
        /\ Streaming(p, c, w, lost, s)
        BY <1>1, <1>3, <2>1, <2>2 DEF Follows
  <2>4. CASE stage[t] = "closed"
    <3>1. c = <<>> /\ w = <<>> /\ d = c /\ gone = lost
          BY <1>3, <2>1, <2>2, <2>4 DEF Follows
    <3>2. Streaming(p + 1, <<>>, <<>>, lost, s)
      <4>1. Ordered(<<>>, <<>>) /\ Gapless(p + 1, Coming(<<>>, <<>>), lost)
            BY Empty DEF Ordered, Gapless
      <4>2. ToSet(s) \subseteq 1 .. p + 1
        <5>1. ToSet(s) \subseteq 1 .. p
              BY <2>3 DEF Streaming
        <5> QED BY <2>3, <5>1
      <4>3. TwoRuns(s, Coming(<<>>, <<>>))
            BY <2>3, <3>1 DEF Streaming
      <4> QED BY <4>1, <4>2, <4>3, Empty DEF Streaming
    <3> QED BY <1>2, <2>1, <2>2, <2>4, <3>1, <3>2 DEF Follows
  <2>5. CASE stage[t] # "closed"
    <3>1. /\ Streaming(p + 1, d, w, gone, s)
          /\ Coming(d, w) \cup gone = Coming(c, w) \cup lost \cup {p + 1}
      <4>1. \/ chan'[t] = Append(chan[t], pushed + 1) /\ dropped'[t] = dropped[t]
            \/ chan'[t] = chan[t] /\ dropped'[t] = dropped[t] \cup {pushed + 1}
            BY <1>3, <2>5
      <4>2. \/ d = Append(c, p + 1) /\ gone = lost
            \/ d = c /\ gone = lost \cup {p + 1}
            BY ONLY <2>2, <4>1
      <4> QED BY ONLY <2>3, <4>2, Recorded
    <3>2. ASSUME stage[t] = "drawn"
          PROVE  Taken(p + 1, draft[t].events, Coming(d, w) \cup gone, Logged(w))
      <4>1. Taken(p, draft[t].events, Coming(c, w) \cup lost, Logged(w))
            BY <2>1, <2>2, <3>2 DEF Follows
      <4> QED BY <2>3, <3>1, <4>1, TakenGrows
    <3>3. ASSUME sent[t] = "snapshot", StatesIn(w) = {}
          PROVE  Complete(p + 1, s, Coming(d, w) \cup gone)
      <4>1. Complete(p, s, Coming(c, w) \cup lost)
            BY <2>1, <2>2, <3>3 DEF Follows
      <4>2. Recents \in Nat
            BY DEF StreamAssumption
      <4> QED BY <2>3, <3>1, <4>1, <4>2, CompleteGrows
    <3> QED BY <1>2, <2>2, <2>5, <3>1, <3>2, <3>3 DEF Follows
  <2> QED BY <2>4, <2>5
<1> QED BY <1>4, <1>5 DEF Inductive

(* Subscribe and ReadTunnels only move the handler on.                       *)
LEMMA MovedOn ==
    ASSUME Inductive, NEW t \in Tabs, NEW to \in {"open", "listed"}, stage[t] \in {"open", "stream", "closed"},
           stage' = [stage EXCEPT ![t] = to], draft' \in [Tabs -> Snapshot],
           \A u \in Tabs \ {t} : draft'[u] = draft[u],
           UNCHANGED <<server, chan, wire, sent, dropped, events>>
    PROVE  Inductive'
<1> USE DEF server
<1>1. Typed'
      BY DEF Inductive, Typed
<1>2. Follows(t)'
  <2>1. Follows(t) /\ stage'[t] \notin {"closed", "drawn"}
        BY DEF Inductive, Typed
  <2> QED BY <2>1 DEF Follows
<1>3. \A u \in Tabs \ {t} : Follows(u)'
      BY Elsewhere DEF Inductive, Typed
<1> QED BY <1>1, <1>2, <1>3 DEF Inductive

LEMMA ReadEventsHolds == ASSUME Inductive, NEW t \in Tabs, ReadEvents(t) PROVE Inductive'
<1> USE DEF ReadEvents, server, tab
<1>1. /\ pushed \in Nat /\ draft \in [Tabs -> Snapshot]
      /\ stage \in [Tabs -> {"closed", "open", "listed", "drawn", "stream"}]
      BY DEF Inductive, Typed
<1>2. RecentAt(pushed) \in Seq(Nat) /\ Recent = RecentAt(pushed)
      BY <1>1, RecentIs DEF Recent, RecentAt
<1>3. draft' \in [Tabs -> Snapshot] /\ draft'[t].events = RecentAt(pushed)
      BY <1>1, <1>2 DEF Snapshot
<1>4. Typed'
      BY <1>1, <1>3 DEF Inductive, Typed
<1>5. Follows(t)'
  <2>1. Follows(t) /\ stage'[t] = "drawn"
        BY <1>1 DEF Inductive
  <2>2. Logged(wire[t]) \subseteq 1 .. pushed
        BY <2>1 DEF Follows, Streaming, Gapless, Coming
  <2>3. Taken(pushed, RecentAt(pushed), Coming(chan[t], wire[t]) \cup dropped[t], Logged(wire[t]))
    <3>1. pushed \in 0 .. pushed /\ pushed + 1 .. pushed = {}
          BY <1>1
    <3>2. \A x \in Logged(wire[t]) : x <= pushed
          BY <1>1, <2>2
    <3> QED BY <3>1, <3>2 DEF Taken
  <2> QED BY <1>3, <2>1, <2>3 DEF Follows
<1>6. \A u \in Tabs \ {t} : Follows(u)'
      BY <1>1, Elsewhere DEF Inductive
<1> QED BY <1>4, <1>5, <1>6 DEF Inductive

(* The wire before the message that is sent on it: the headers have gone     *)
(* ahead of the first.                                                       *)
LEMMA BeforeSend ==
    ASSUME Inductive, NEW t \in Tabs, NEW m \in Message, Send(t, m)
    PROVE  \E w \in Seq(Message) :
               /\ wire' = [wire EXCEPT ![t] = Append(w, m)]
               /\ Streaming(pushed, chan[t], w, dropped[t], events[t])
               /\ Coming(chan[t], w) = Coming(chan[t], wire[t]) /\ Logged(w) = Logged(wire[t])
               /\ StatesIn(w) = {} => StatesIn(wire[t]) = {}
<1>1. wire[t] \in Seq(Message) /\ Streaming(pushed, chan[t], wire[t], dropped[t], events[t])
      BY DEF Inductive, Typed, Follows
<1> DEFINE open == Msg("open", 0, <<>>)
<1>2. open \in Message /\ open.kind = "open"
      BY DEF Msg, Message
<1>3. \A w \in Seq(Message), a \in Message : w \o <<a>> = Append(w, a) /\ w \o <<>> = w
      OBVIOUS
<1>4. CASE sent[t] = "nothing"
  <2>1. wire' = [wire EXCEPT ![t] = (wire[t] \o <<open>>) \o <<m>>]
        BY <1>4 DEF Send
  <2> HIDE DEF open
  <2>2. /\ Append(wire[t], open) \in Seq(Message)
        /\ Streaming(pushed, chan[t], Append(wire[t], open), dropped[t], events[t])
        /\ Coming(chan[t], Append(wire[t], open)) = Coming(chan[t], wire[t])
        /\ Logged(Append(wire[t], open)) = Logged(wire[t])
        /\ StatesIn(Append(wire[t], open)) = {} => StatesIn(wire[t]) = {}
    <3>1. PICK a \in Message, w \in Seq(Message) : a = open /\ a.kind = "open" /\ w = wire[t]
          BY <1>1, <1>2
    <3>2. /\ Append(w, a) \in Seq(Message)
          /\ Streaming(pushed, chan[t], Append(w, a), dropped[t], events[t])
          /\ StatesIn(Append(w, a)) = StatesIn(w)
      <4>1. /\ a.kind # "log" /\ a.kind # "state"
            /\ Streaming(pushed, chan[t], w, dropped[t], events[t])
            BY <1>1, <3>1
      <4> QED BY ONLY <4>1, NoticeSent, a \in Message, w \in Seq(Message)
    <3>3. /\ Coming(chan[t], Append(w, a)) = Coming(chan[t], w)
          /\ Logged(Append(w, a)) = Logged(w)
          BY <3>1, SameComing
    <3> QED BY <3>1, <3>2, <3>3
  <2>3. wire' = [wire EXCEPT ![t] = Append(Append(wire[t], open), m)]
        BY <1>1, <1>2, <1>3, <2>1, <2>2
  <2> QED BY <2>2, <2>3
<1>5. CASE sent[t] # "nothing"
  <2>1. wire' = [wire EXCEPT ![t] = (wire[t] \o <<>>) \o <<m>>]
        BY <1>5 DEF Send
  <2>2. wire' = [wire EXCEPT ![t] = Append(wire[t], m)]
        BY <1>1, <1>3, <2>1
  <2> QED BY <1>1, <2>2
<1> QED BY <1>4, <1>5

(* A message that is neither an event nor a snapshot.                        *)
LEMMA NoticeHolds ==
    ASSUME Inductive, NEW t \in Tabs, NEW m \in Message, m.kind # "log", m.kind # "state",
           stage[t] # "closed", Send(t, m), stage' = [stage EXCEPT ![t] = "stream"],
           sent' = [sent EXCEPT ![t] = IF @ = "snapshot" THEN @ ELSE "errors"],
           UNCHANGED <<world, pushed, chan, draft, dropped, events>>
    PROVE  Inductive'
<1>1. /\ wire \in [Tabs -> Seq(Message)]
      /\ stage \in [Tabs -> {"closed", "open", "listed", "drawn", "stream"}]
      /\ sent \in [Tabs -> {"nothing", "errors", "snapshot"}]
      BY DEF Inductive, Typed
<1>3. PICK w \in Seq(Message) :
          /\ wire' = [wire EXCEPT ![t] = Append(w, m)]
          /\ Streaming(pushed, chan[t], w, dropped[t], events[t])
          /\ Coming(chan[t], w) = Coming(chan[t], wire[t])
          /\ StatesIn(w) = {} => StatesIn(wire[t]) = {}
      BY BeforeSend
<1>4. /\ Streaming(pushed, chan[t], Append(w, m), dropped[t], events[t])
      /\ Append(w, m) \in Seq(Message)
      /\ Coming(chan[t], Append(w, m)) = Coming(chan[t], w)
      /\ StatesIn(Append(w, m)) = {} => StatesIn(w) = {}
  <2>1. m.kind # "log" /\ m.kind # "state" /\ m \in Message /\ w \in Seq(Message)
        OBVIOUS
  <2>2. /\ Streaming(pushed, chan[t], Append(w, m), dropped[t], events[t])
        /\ Append(w, m) \in Seq(Message) /\ StatesIn(Append(w, m)) = StatesIn(w)
        BY ONLY <1>3, <2>1, NoticeSent
  <2>3. Coming(chan[t], Append(w, m)) = Coming(chan[t], w)
        BY ONLY <2>1, SameComing
  <2> QED BY <2>2, <2>3
<1>5. Typed'
      BY <1>1, <1>3, <1>4 DEF Inductive, Typed
<1>6. Follows(t)'
  <2>1. stage'[t] = "stream" /\ wire'[t] = Append(w, m)
        /\ (sent'[t] = "snapshot" => sent[t] = "snapshot")
        BY <1>1, <1>3
  <2> QED BY <1>3, <1>4, <2>1 DEF Inductive, Follows
<1>7. \A u \in Tabs \ {t} : Follows(u)'
      BY <1>1, <1>3, Elsewhere DEF Inductive
<1> QED BY <1>5, <1>6, <1>7 DEF Inductive

LEMMA SnapshotHolds ==
    ASSUME Inductive, NEW t \in Tabs, SendSnapshot(t), draft[t].kind = "state"
    PROVE  Inductive'
<1>1. /\ wire \in [Tabs -> Seq(Message)] /\ draft[t] \in Snapshot /\ pushed \in Nat
      /\ stage \in [Tabs -> {"closed", "open", "listed", "drawn", "stream"}]
      /\ sent \in [Tabs -> {"nothing", "errors", "snapshot"}]
      BY DEF Inductive, Typed
<1>2. draft[t] \in Message /\ draft[t].kind = "state"
      BY <1>1 DEF Message, Snapshot
<1>u. /\ stage[t] = "drawn" /\ Send(t, draft[t])
      /\ sent' = [sent EXCEPT ![t] = "snapshot"] /\ stage' = [stage EXCEPT ![t] = "stream"]
      /\ UNCHANGED <<world, pushed, chan, draft, dropped, events>>
      BY <1>2 DEF SendSnapshot, server, tab
<1>3. PICK w \in Seq(Message) :
          /\ wire' = [wire EXCEPT ![t] = Append(w, draft[t])]
          /\ Streaming(pushed, chan[t], w, dropped[t], events[t])
          /\ Coming(chan[t], w) = Coming(chan[t], wire[t]) /\ Logged(w) = Logged(wire[t])
      BY <1>2, <1>u, BeforeSend
<1>4. Taken(pushed, draft[t].events, Coming(chan[t], w) \cup dropped[t], Logged(w))
      BY <1>3, <1>u DEF Inductive, Follows
<1>5. /\ Streaming(pushed, chan[t], Append(w, draft[t]), dropped[t], events[t])
      /\ Append(w, draft[t]) \in Seq(Message) /\ StatesIn(Append(w, draft[t])) # {}
  <2>1. draft[t].kind # "log"
        BY <1>2
  <2>2. w \in Seq(Message)
        OBVIOUS
  <2>3. PICK m \in Message : m = draft[t]
        BY <1>2
  <2>4. m.kind = "state" /\ m.kind # "log" /\ m \in Message
        /\ Taken(pushed, m.events, Coming(chan[t], w) \cup dropped[t], Logged(w))
        BY ONLY <1>2, <1>4, <2>1, <2>3, m \in Message
  <2>5. /\ Streaming(pushed, chan[t], Append(w, m), dropped[t], events[t])
        /\ Append(w, m) \in Seq(Message) /\ StatesIn(Append(w, m)) # {}
        BY ONLY <1>3, <2>2, <2>4, StateSent
  <2> QED BY <2>3, <2>5
<1>6. Typed'
      BY <1>1, <1>3, <1>5, <1>u DEF Inductive, Typed
<1>7. Follows(t)'
  <2>1. stage'[t] = "stream" /\ wire'[t] = Append(w, draft[t])
        BY <1>1, <1>3, <1>u
  <2> QED BY <1>5, <1>u, <2>1 DEF Follows
<1>8. \A u \in Tabs \ {t} : Follows(u)'
      BY <1>1, <1>3, <1>u, Elsewhere DEF Inductive
<1> QED BY <1>6, <1>7, <1>8 DEF Inductive

(* An empty snapshot is a notice like an error.                              *)
LEMMA SendSnapshotHolds == ASSUME Inductive, NEW t \in Tabs, SendSnapshot(t) PROVE Inductive'
<1>1. draft[t] \in Snapshot
      BY DEF Inductive, Typed
<1>2. draft[t] \in Message /\ draft[t].kind \in {"state", "empty"}
      BY <1>1 DEF Message, Snapshot
<1>3. CASE draft[t].kind = "state"
      BY <1>3, SnapshotHolds
<1>4. CASE draft[t].kind = "empty"
  <2>1. PICK m \in Message : m = draft[t]
        BY <1>2
  <2>2. /\ m.kind # "log" /\ m.kind # "state" /\ stage[t] # "closed" /\ Send(t, m)
        /\ stage' = [stage EXCEPT ![t] = "stream"]
        /\ sent' = [sent EXCEPT ![t] = IF @ = "snapshot" THEN @ ELSE "errors"]
        /\ UNCHANGED <<world, pushed, chan, draft, dropped, events>>
        BY <1>4, <2>1 DEF SendSnapshot, server, tab
  <2> QED BY <2>2, NoticeHolds
<1> QED BY <1>2, <1>3, <1>4

LEMMA SendErrorHolds == ASSUME Inductive, NEW t \in Tabs, SendError(t) PROVE Inductive'
<1>1. Msg("error", 0, <<>>) \in Message /\ Msg("error", 0, <<>>).kind = "error"
      BY DEF Message, Msg
<1>2. PICK m \in Message : m = Msg("error", 0, <<>>) /\ m.kind = "error"
      BY <1>1
<1> QED BY <1>2, NoticeHolds DEF SendError, server, tab

LEMMA ForwardHolds == ASSUME Inductive, NEW t \in Tabs, Forward(t) PROVE Inductive'
<1>1. /\ wire \in [Tabs -> Seq(Message)] /\ chan \in [Tabs -> Seq(Nat)] /\ pushed \in Nat
      BY DEF Inductive, Typed
<1>u. /\ stage[t] = "stream" /\ chan[t] # <<>> /\ Send(t, Msg("log", 0, <<Head(chan[t])>>))
      /\ chan' = [chan EXCEPT ![t] = Tail(@)]
      /\ UNCHANGED <<world, pushed, stage, draft, sent, dropped, events>>
      BY DEF Forward, server, tab
<1>2. PICK m \in Message : /\ m = Msg("log", 0, <<Head(chan[t])>>)
                           /\ m.kind = "log" /\ m.events[1] = Head(chan[t])
  <2>1. Head(chan[t]) \in Nat /\ Tail(chan[t]) \in Seq(Nat)
        BY <1>1, <1>u, Headed
  <2>2. <<Head(chan[t])>> \in Seq(Nat) /\ Len(<<Head(chan[t])>>) = 1
        BY <2>1
  <2>3. PICK one : one = <<Head(chan[t])>>
        OBVIOUS
  <2>4. one \in {s \in Seq(Nat) : Len(s) = 1} /\ one[1] = Head(chan[t])
        BY <2>2, <2>3
  <2>5. /\ Msg("log", 0, one) \in Message
        /\ Msg("log", 0, one).kind = "log" /\ Msg("log", 0, one).events = one
        BY <2>4 DEF Message, Msg
  <2> QED BY <2>3, <2>4, <2>5
<1>3. PICK w \in Seq(Message) :
          /\ wire' = [wire EXCEPT ![t] = Append(w, m)]
          /\ Streaming(pushed, chan[t], w, dropped[t], events[t])
          /\ Coming(chan[t], w) = Coming(chan[t], wire[t])
          /\ StatesIn(w) = {} => StatesIn(wire[t]) = {}
      BY <1>2, <1>u, BeforeSend
<1>4. /\ Streaming(pushed, Tail(chan[t]), Append(w, m), dropped[t], events[t])
      /\ Append(w, m) \in Seq(Message)
      /\ Coming(Tail(chan[t]), Append(w, m)) = Coming(chan[t], w)
      /\ StatesIn(Append(w, m)) = StatesIn(w)
      BY <1>1, <1>2, <1>3, <1>u, Forwarded
<1>5. Typed'
  <2>1. Tail(chan[t]) \in Seq(Nat)
        BY <1>1, <1>u, Headed
  <2> QED BY <1>1, <1>3, <1>4, <1>u, <2>1 DEF Inductive, Typed
<1>6. Follows(t)'
  <2>1. wire'[t] = Append(w, m) /\ chan'[t] = Tail(chan[t])
        BY <1>1, <1>3, <1>u
  <2> QED BY <1>3, <1>4, <1>u, <2>1 DEF Inductive, Follows
<1>7. \A u \in Tabs \ {t} : Follows(u)'
      BY <1>1, <1>3, <1>u, Elsewhere DEF Inductive
<1> QED BY <1>5, <1>6, <1>7 DEF Inductive

LEMMA ClosedHolds ==
    ASSUME Inductive, NEW t \in Tabs, Closed(t), UNCHANGED <<server, events>>
    PROVE  Inductive'
<1> USE DEF Closed, server
<1>1. Msg("state", 0, <<>>) \in Snapshot
      BY DEF Msg, Snapshot
<1>2. Typed'
  <2>1. chan' \in [Tabs -> Seq(Nat)] /\ wire' \in [Tabs -> Seq(Message)]
        /\ dropped' \in [Tabs -> SUBSET Nat]
        BY DEF Inductive, Typed
  <2>2. draft' \in [Tabs -> Snapshot]
        BY <1>1 DEF Inductive, Typed
  <2> QED BY <2>1, <2>2 DEF Inductive, Typed
<1>3. Follows(t)'
  <2>1. Streaming(pushed, <<>>, <<>>, {}, events[t])
        BY Ended DEF Inductive, Follows
  <2>2. /\ stage'[t] = "closed" /\ chan'[t] = <<>> /\ wire'[t] = <<>> /\ dropped'[t] = {}
        /\ sent'[t] = "nothing"
        BY DEF Inductive, Typed
  <2> QED BY <2>1, <2>2 DEF Follows
<1>4. \A u \in Tabs \ {t} : Follows(u)'
      BY Elsewhere DEF Inductive, Typed
<1> QED BY <1>2, <1>3, <1>4 DEF Inductive

(* A delivery changes the tab's list as the message's kind says.             *)
LEMMA DeliverHolds == ASSUME Inductive, NEW t \in Tabs, Deliver(t) PROVE Inductive'
<1>1. /\ wire \in [Tabs -> Seq(Message)] /\ events \in [Tabs -> Seq(Nat)] /\ pushed \in Nat
      /\ wire[t] \in Seq(Message) /\ events[t] \in Seq(Nat)
      /\ chan[t] \in Seq(Nat) /\ dropped[t] \in SUBSET Nat
      BY DEF Inductive, Typed
<1>u. /\ wire[t] # <<>> /\ wire' = [wire EXCEPT ![t] = Tail(@)] /\ Take(t, Head(wire[t]))
      /\ UNCHANGED <<world, pushed, stage, chan, draft, sent, dropped>>
      BY DEF Deliver, server
<1>2. PICK p \in Nat, c \in Seq(Nat), w \in Seq(Message), lost \in SUBSET Nat, s \in Seq(Nat) :
          p = pushed /\ c = chan[t] /\ w = wire[t] /\ lost = dropped[t] /\ s = events[t]
      BY <1>1
<1>3. w # <<>> /\ Streaming(p, c, w, lost, s)
      BY <1>2, <1>u DEF Inductive, Follows
<1>4. \E r \in Seq(Nat) :
          /\ events' = [events EXCEPT ![t] = r] /\ Streaming(p, c, Tail(w), lost, r)
          /\ \A evs : Taken(p, evs, Coming(c, w) \cup lost, Logged(w))
                         => Taken(p, evs, Coming(c, Tail(w)) \cup lost, Logged(Tail(w)))
          /\ StatesIn(Tail(w)) = {} /\ (StatesIn(w) = {} => Complete(p, s, Coming(c, w) \cup lost))
                 => Complete(p, r, Coming(c, Tail(w)) \cup lost)
  <2>1. CASE Head(w).kind = "log"
    <3>1. events' = [events EXCEPT ![t] = Prepended(Head(w).events, s)]
      <4>1. events' = [events EXCEPT ![t] = Prepended(Head(wire[t]).events, @)]
            BY <1>2, <1>u, <2>1 DEF Take
      <4> QED BY <1>2, <4>1
    <3>2. /\ Prepended(Head(w).events, s) \in Seq(Nat)
          /\ Streaming(p, c, Tail(w), lost, Prepended(Head(w).events, s))
          /\ \A evs : Taken(p, evs, Coming(c, w) \cup lost, Logged(w))
                         => Taken(p, evs, Coming(c, Tail(w)) \cup lost, Logged(Tail(w)))
          /\ StatesIn(Tail(w)) = {} => StatesIn(w) = {}
          /\ Complete(p, s, Coming(c, w) \cup lost)
                  => Complete(p, Prepended(Head(w).events, s), Coming(c, Tail(w)) \cup lost)
          BY <1>3, <2>1, LogRead
    <3> QED BY <3>1, <3>2
  <2>2. CASE Head(w).kind = "state"
    <3>1. events' = [events EXCEPT ![t] = Head(w).events]
          BY <1>2, <1>u, <2>2 DEF Take
    <3>2. /\ Head(w).events \in Seq(Nat)
          /\ Streaming(p, c, Tail(w), lost, Head(w).events)
          /\ Coming(c, Tail(w)) = Coming(c, w) /\ Logged(Tail(w)) = Logged(w)
          /\ Complete(p, Head(w).events, Coming(c, Tail(w)) \cup lost)
          BY <1>3, <2>2, StateRead
    <3> QED BY <3>1, <3>2
  <2>3. CASE Head(w).kind \notin {"log", "state"}
    <3>1. events' = [events EXCEPT ![t] = s]
      <4>1. events' = events
            BY <1>2, <1>u, <2>3 DEF Take, tab
      <4> QED BY <1>1, <1>2, <4>1
    <3>2. /\ Streaming(p, c, Tail(w), lost, s)
          /\ Coming(c, Tail(w)) = Coming(c, w) /\ Logged(Tail(w)) = Logged(w)
          /\ StatesIn(Tail(w)) = {} => StatesIn(w) = {}
          BY <1>3, <2>3, OtherRead
    <3> QED BY <3>1, <3>2
  <2> QED BY <2>1, <2>2, <2>3
<1>5. PICK r \in Seq(Nat) :
          /\ events' = [events EXCEPT ![t] = r] /\ Streaming(p, c, Tail(w), lost, r)
          /\ \A evs : Taken(p, evs, Coming(c, w) \cup lost, Logged(w))
                         => Taken(p, evs, Coming(c, Tail(w)) \cup lost, Logged(Tail(w)))
          /\ StatesIn(Tail(w)) = {} /\ (StatesIn(w) = {} => Complete(p, s, Coming(c, w) \cup lost))
                 => Complete(p, r, Coming(c, Tail(w)) \cup lost)
      BY <1>4
<1>6. wire'[t] = Tail(w) /\ events'[t] = r /\ Tail(w) \in Seq(Message)
      BY <1>1, <1>2, <1>3, <1>5, <1>u, Headed
<1>7. Typed'
  <2>1. wire' = [wire EXCEPT ![t] = Tail(w)]
        BY <1>2, <1>u
  <2>2. wire' \in [Tabs -> Seq(Message)] /\ events' \in [Tabs -> Seq(Nat)]
        BY <1>1, <1>5, <1>6, <2>1
  <2> QED BY <1>u, <2>2 DEF Inductive, Typed
<1>8. Follows(t)'
  <2>1. Follows(t)
        BY DEF Inductive
  <2>2. stage[t] # "closed"
        BY <1>2, <1>3, <2>1 DEF Follows
  <2>3. stage[t] = "drawn" => Taken(p, draft[t].events, Coming(c, Tail(w)) \cup lost, Logged(Tail(w)))
        BY <1>2, <1>5, <2>1 DEF Follows
  <2>4. sent[t] = "snapshot" /\ StatesIn(Tail(w)) = {} => Complete(p, r, Coming(c, Tail(w)) \cup lost)
        BY <1>2, <1>5, <2>1 DEF Follows
  <2> QED BY <1>2, <1>5, <1>6, <1>u, <2>2, <2>3, <2>4 DEF Follows
<1>9. \A u \in Tabs \ {t} : Follows(u)'
      BY <1>1, <1>5, <1>u, Elsewhere DEF Inductive
<1> QED BY <1>7, <1>8, <1>9 DEF Inductive

(* What concerns neither the events nor the connection.                      *)
LEMMA AsideHolds ==
    ASSUME Inductive, world' \in Nat, UNCHANGED <<pushed, connection, events>>
    PROVE  Inductive'
<1> USE DEF connection
<1>1. Typed'
      BY DEF Inductive, Typed
<1>2. \A u \in Tabs : Follows(u)'
      BY Elsewhere DEF Inductive
<1> QED BY <1>1, <1>2 DEF Inductive

LEMMA NextHolds == ASSUME Inductive, [Next]_vars PROVE Inductive'
<1>1. world \in Nat /\ draft \in [Tabs -> Snapshot]
      BY DEF Inductive, Typed
<1>2. CASE UNCHANGED vars
      BY <1>1, <1>2, AsideHolds DEF vars, server, tab
<1>3. CASE Change \/ Spoil \/ Mend
      BY <1>1, <1>3, AsideHolds DEF Change, Spoil, Mend, tab
<1>4. CASE Push
      BY <1>4, PushHolds
<1>5. ASSUME NEW t \in Tabs, Serve(t) PROVE Inductive'
  <2>1. CASE ReadTunnels(t)
    <3>1. draft' \in [Tabs -> Snapshot] /\ \A u \in Tabs \ {t} : draft'[u] = draft[u]
          BY <1>1, <2>1 DEF ReadTunnels, Form, Snapshot
    <3> QED BY <2>1, <3>1, MovedOn DEF ReadTunnels, tab
  <2>2. CASE ReadEvents(t) \/ SendSnapshot(t) \/ Forward(t)
        BY <2>2, ReadEventsHolds, SendSnapshotHolds, ForwardHolds
  <2> QED BY <1>5, <2>1, <2>2 DEF Serve
<1>6. ASSUME NEW t \in Tabs, Browse(t) PROVE Inductive'
  <2>1. CASE Subscribe(t)
        BY <1>1, <2>1, MovedOn DEF Subscribe, tab
  <2>2. CASE Deliver(t)
        BY <2>2, DeliverHolds
  <2>3. CASE AnswerList(t) \/ TakeList(t)
        BY <1>1, <2>3, AsideHolds DEF AnswerList, TakeList, server, tab
  <2> QED BY <1>6, <2>1, <2>2, <2>3 DEF Browse
<1>7. ASSUME NEW t \in Tabs, Break(t) \/ Hide(t) PROVE Inductive'
      BY <1>7, ClosedHolds DEF Break, Hide, tab
<1>8. ASSUME NEW t \in Tabs, Show(t) \/ Ask(t) PROVE Inductive'
      BY <1>1, <1>8, AsideHolds DEF Show, Ask, server, tab
<1> QED BY <1>2, <1>3, <1>4, <1>5, <1>6, <1>7, <1>8, SendErrorHolds DEF Next

LEMMA Invariance == Spec => []Inductive
<1>1. Inductive /\ [Next]_vars => Inductive'
      BY NextHolds
<1> QED BY <1>1, InitHolds, PTL DEF Spec

(* ------------------------------- theorems -------------------------------- *)

(* Of the last events recorded, none falls through between the snapshot and  *)
(* the stream: each is in the tab's list, in a message under way, in the     *)
(* channel, or was dropped because the channel was full (handleStreamState   *)
(* subscribes before the first snapshot, and a slow tab loses events, 650).  *)
THEOREM NoEventFallsThrough == Spec => []NoGap
<1>1. Inductive => NoGap
  <2> SUFFICES ASSUME Inductive, NEW t \in Tabs, sent[t] = "snapshot",
                      NEW e \in ToSet(Recent)
               PROVE  e \in Carried(t) \cup dropped[t]
      BY DEF NoGap
  <2>1. pushed \in Nat /\ wire[t] \in Seq(Message) /\ Follows(t)
        BY DEF Inductive, Typed
  <2>2. e \in 1 .. pushed /\ e > pushed - Recents
    <3>1. Recent = RecentAt(pushed)
          BY DEF Recent, RecentAt
    <3> QED BY <2>1, <3>1, RecentIs
  <2>3. \A i \in DOMAIN wire[t] : wire[t][i] \in ToSet(wire[t])
        BY DEF ToSet
  <2>4. Coming(chan[t], wire[t]) \subseteq Carried(t)
    <3>1. ASSUME NEW i \in LogsIn(wire[t])
          PROVE  wire[t][i].events[1] \in ToSet(wire[t][i].events) /\ wire[t][i] \in ToSet(wire[t])
      <4>1. i \in DOMAIN wire[t] /\ wire[t][i] \in Message /\ wire[t][i].kind = "log"
            BY <2>1 DEF LogsIn
      <4>2. wire[t][i].events \in Seq(Nat) /\ Len(wire[t][i].events) = 1
            BY <4>1 DEF Message, Snapshot
      <4>3. 1 \in DOMAIN wire[t][i].events
            BY <4>2
      <4> QED BY <2>3, <4>1, <4>3 DEF ToSet
    <3> QED BY <3>1 DEF Coming, Logged, Carried
  <2>5. CASE StatesIn(wire[t]) = {}
    <3>1. \/ e \in Coming(chan[t], wire[t]) \cup dropped[t]
          \/ Lists(events[t], e)
          BY <2>1, <2>2, <2>5 DEF Follows, Complete
    <3>2. Lists(events[t], e) => e \in ToSet(events[t])
          BY DEF Lists, ToSet
    <3> QED BY <2>4, <3>1, <3>2 DEF Carried
  <2>6. CASE StatesIn(wire[t]) # {}
    <3>1. PICK i \in StatesIn(wire[t]), v \in 0 .. pushed :
              /\ wire[t][i].events = RecentAt(v)
              /\ v + 1 .. pushed \subseteq Coming(chan[t], wire[t]) \cup dropped[t]
          BY <2>1, <2>6 DEF Follows, Streaming, Taken
    <3>2. CASE e > v
          BY <2>2, <2>4, <3>1, <3>2
    <3>3. CASE ~(e > v)
      <4>1. v \in Nat /\ e \in 1 .. v /\ e > v - Recents
            BY <2>1, <2>2, <3>3 DEF StreamAssumption
      <4>2. e \in ToSet(wire[t][i].events)
            BY <3>1, <4>1, RecentIs
      <4>3. wire[t][i] \in ToSet(wire[t])
            BY <2>3 DEF StatesIn
      <4> QED BY <4>2, <4>3 DEF Carried
    <3> QED BY <3>2, <3>3
  <2> QED BY <2>5, <2>6
<1> QED BY <1>1, Invariance, PTL

(* A tab lists an event at most twice: once from a snapshot and once more    *)
(* from the channel the snapshot did not wait for (index.html, 1345-1358).       *)
THEOREM ListedAtMostTwice == Spec => []AtMostTwice
<1>1. Inductive => AtMostTwice
  <2> SUFFICES ASSUME Inductive, NEW t \in Tabs,
                      NEW i \in DOMAIN events[t], NEW j \in DOMAIN events[t],
                      NEW k \in DOMAIN events[t], i < j, j < k,
                      events[t][i] = events[t][j], events[t][j] = events[t][k]
               PROVE  FALSE
      BY DEF AtMostTwice
  <2>1. PICK s \in Seq(Nat) : s = events[t]
        BY DEF Inductive, Typed
  <2>2. TwoRuns(s, Coming(chan[t], wire[t]))
        BY <2>1 DEF Inductive, Follows, Streaming
  <2>3. PICK n \in 0 .. Len(s) : Falls(s, 1, n) /\ Falls(s, n + 1, Len(s))
        BY <2>2 DEF TwoRuns
  <2>4. /\ i \in 1 .. Len(s) /\ j \in 1 .. Len(s) /\ k \in 1 .. Len(s) /\ Len(s) \in Nat
        /\ s[i] \in Nat /\ s[i] = s[j] /\ s[j] = s[k]
        BY <2>1
  <2>5. CASE j <= n
    <3>1. i \in 1 .. n /\ j \in 1 .. n /\ i <= j
          BY <2>3, <2>4, <2>5
    <3>2. s[i] >= s[j] + (j - i)
          BY ONLY <2>3, <3>1 DEF Falls
    <3> QED BY <2>4, <3>2
  <2>6. CASE ~(j <= n)
    <3>1. j \in n + 1 .. Len(s) /\ k \in n + 1 .. Len(s) /\ j <= k
          BY <2>3, <2>4, <2>6
    <3>2. s[j] >= s[k] + (k - j)
          BY ONLY <2>3, <3>1 DEF Falls
    <3> QED BY <2>4, <3>2
  <2> QED BY <2>5, <2>6
<1> QED BY <1>1, Invariance, PTL
=============================================================================
