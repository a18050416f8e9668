--------------------------- MODULE EventLogProofs ---------------------------
(* The safety of EventLog, for any number of pushers and connections, any    *)
(* ring and any channels.                                                    *)
EXTENDS EventLog, FiniteSetTheorems, WellFoundedInduction, TLAPS

USE EventLogAssumption

(* The inductive invariant: the ring, the stamps, the lists of channels, and *)
(* where the events of each connection are.                                  *)
Ring ==
    \A i \in 1 .. Size :
        Newest[i] = IF i <= Len(recorded) THEN recorded[Len(recorded) + 1 - i] ELSE 0
Stamps ==
    /\ \A p \in Pushers : ev[p] <= clock /\ (ev[p] = 0 <=> pc[p] = "idle")
    /\ \A p, q \in Pushers : ev[p] = ev[q] /\ ev[p] # 0 => p = q
    /\ \A i \in DOMAIN recorded : recorded[i] <= clock
    /\ IsInjective(recorded)
    /\ \A p \in Pushers : pc[p] = "stamped" => ev[p] \notin ToSet(recorded)
Lists ==
    /\ IsInjective(listeners) /\ \A p \in Pushers : IsInjective(todo[p])
    /\ \A p \in Pushers : pc[p] = "sending" => todo[p] # <<>>
    /\ \A c \in Connections : since[c] <= Len(recorded)
    /\ \A c \in Connections : stage[c] = "open" => c \in ToSet(listeners)
    /\ \A c \in Connections : stage[c] = "new" =>
           /\ queue[c] = <<>> /\ received[c] = {} /\ dropped[c] = {}
           /\ c \notin ToSet(listeners) /\ \A p \in Pushers : c \notin ToSet(todo[p])

Had(c) == received[c] \cup dropped[c] \cup ToSet(queue[c])
Sending(p, c) == pc[p] = "sending" /\ c \in ToSet(todo[p])
Later(c, e) == \E i \in DOMAIN recorded : i > since[c] /\ recorded[i] = e
Delivery(c) ==
    /\ IsInjective(queue[c]) /\ received[c] \cap dropped[c] = {}
    /\ (received[c] \cup dropped[c]) \cap ToSet(queue[c]) = {}
    /\ \A e \in Had(c) : Later(c, e)
    /\ \A p \in Pushers : Sending(p, c) => ev[p] \notin Had(c) /\ Later(c, ev[p])
    /\ \A e \in ToSet(recorded) :
           Later(c, e) => e \in Had(c) \/ \E p \in Pushers : Sending(p, c) /\ ev[p] = e
Delivering == \A c \in Connections : stage[c] = "open" => Delivery(c)
Inductive == TypeOK /\ Ring /\ Stamps /\ Lists /\ Delivering

(* ------------------------------- sequences ------------------------------- *)

(* A sequence with one more element.                                         *)
LEMMA Appended ==
    ASSUME NEW T, NEW s \in Seq(T), NEW e \in T
    PROVE  /\ Append(s, e) \in Seq(T) /\ ToSet(Append(s, e)) = ToSet(s) \cup {e}
           /\ IsInjective(s) /\ e \notin ToSet(s) => IsInjective(Append(s, e))
<1>1. Append(s, e) \in Seq(T) OBVIOUS
<1>2. DOMAIN Append(s, e) = DOMAIN s \cup {Len(s) + 1}
  OBVIOUS
<1>3. \A i \in DOMAIN s : Append(s, e)[i] = s[i]
  OBVIOUS
<1>4. Append(s, e)[Len(s) + 1] = e
  OBVIOUS
<1>5. ToSet(Append(s, e)) = ToSet(s) \cup {e}
  BY ONLY <1>2, <1>3, <1>4 DEF ToSet
<1>6. ASSUME IsInjective(s), e \notin ToSet(s) PROVE IsInjective(Append(s, e))
  BY ONLY <1>2, <1>3, <1>4, <1>6 DEF ToSet, IsInjective
<1> QED BY <1>1, <1>5, <1>6

(* A sequence without its first element.                                     *)
LEMMA Taken ==
    ASSUME NEW T, NEW s \in Seq(T), s # <<>>
    PROVE  /\ Head(s) \in T /\ Head(s) \in ToSet(s)
           /\ Tail(s) \in Seq(T) /\ ToSet(s) = ToSet(Tail(s)) \cup {Head(s)}
           /\ IsInjective(s) => IsInjective(Tail(s)) /\ Head(s) \notin ToSet(Tail(s))
           /\ Len(s) = 1 => ToSet(Tail(s)) = {}
           /\ Len(s) # 1 => Tail(s) # <<>>
<1>1. Tail(s) \in Seq(T) /\ Head(s) \in T /\ Head(s) = s[1] /\ 1 \in DOMAIN s OBVIOUS
<1>2. \A i \in DOMAIN Tail(s) : i + 1 \in DOMAIN s /\ i \in Nat /\ i # 0 /\ Tail(s)[i] = s[i + 1] OBVIOUS
<1>3. \A i \in DOMAIN s : i \in Nat /\ (i # 1 => i - 1 \in DOMAIN Tail(s)) OBVIOUS
<1>4. \A i \in DOMAIN s : i # 1 => s[i] = Tail(s)[i - 1] BY <1>2, <1>3
<1>5. ToSet(s) = ToSet(Tail(s)) \cup {Head(s)}
  BY ONLY <1>1, <1>2, <1>3, <1>4 DEF ToSet
<1>6. ASSUME IsInjective(s) PROVE IsInjective(Tail(s)) /\ Head(s) \notin ToSet(Tail(s))
  BY ONLY <1>1, <1>2, <1>6 DEF ToSet, IsInjective
<1>7. Len(Tail(s)) = Len(s) - 1 /\ Len(s) \in Nat OBVIOUS
<1>8. (Len(s) = 1 => Tail(s) = <<>>) /\ (Len(s) # 1 => Tail(s) # <<>>)
  <2>1. ASSUME NEW t \in Seq(T) PROVE t = <<>> <=> Len(t) = 0 OBVIOUS
  <2>2. Tail(s) = <<>> <=> Len(Tail(s)) = 0 BY <1>1, <2>1
  <2> QED BY <1>7, <2>2
<1>9. ToSet(<<>>) = {} BY DEF ToSet
<1> QED BY <1>1, <1>5, <1>6, <1>8, <1>9 DEF ToSet

(* Two sequences, one behind the other.                                      *)
LEMMA Joined ==
    ASSUME NEW T, NEW s \in Seq(T), NEW t \in Seq(T)
    PROVE  /\ s \o t \in Seq(T) /\ Len(s \o t) = Len(s) + Len(t)
           /\ \A j \in 1 .. Len(s) : (s \o t)[j] = s[j]
           /\ \A j \in 1 .. Len(t) : (s \o t)[Len(s) + j] = t[j]
OBVIOUS

(* A sequence without one of its elements.                                   *)
LEMMA Removed ==
    ASSUME NEW T, NEW s \in Seq(T), NEW i \in DOMAIN s
    PROVE  /\ RemoveAt(s, i) \in Seq(T)
           /\ IsInjective(s) => IsInjective(RemoveAt(s, i)) /\ ToSet(RemoveAt(s, i)) = ToSet(s) \ {s[i]}
<1> DEFINE a == SubSeq(s, 1, i - 1)
           b == SubSeq(s, i + 1, Len(s))
           r == RemoveAt(s, i)
<1>1. i \in 1 .. Len(s) /\ Len(s) \in Nat OBVIOUS
<1>2. a \in Seq(T) /\ Len(a) = i - 1 /\ \A j \in 1 .. i - 1 : a[j] = s[j]
      BY <1>1
<1>3. b \in Seq(T) /\ Len(b) = Len(s) - i /\ \A j \in 1 .. Len(s) - i : b[j] = s[j + i]
      BY <1>1
<1>4. r = a \o b BY DEF RemoveAt
<1> HIDE DEF a, b, r
<1>5. /\ r \in Seq(T) /\ Len(r) = Len(a) + Len(b)
      /\ \A j \in 1 .. Len(a) : r[j] = a[j]
      /\ \A j \in 1 .. Len(b) : r[Len(a) + j] = b[j]
  <2>1. a \in Seq(T) /\ b \in Seq(T) BY <1>2, <1>3
  <2>2. /\ a \o b \in Seq(T) /\ Len(a \o b) = Len(a) + Len(b)
        /\ \A j \in 1 .. Len(a) : (a \o b)[j] = a[j]
        /\ \A j \in 1 .. Len(b) : (a \o b)[Len(a) + j] = b[j]
        BY <2>1, Joined
  <2> QED BY ONLY <2>2, <1>4
<1>6. r \in Seq(T) /\ Len(r) = Len(s) - 1 BY <1>1, <1>2, <1>3, <1>5
<1>7. \A j \in 1 .. i - 1 : r[j] = s[j] BY <1>2, <1>5
<1>8. \A j \in i .. Len(s) - 1 : r[j] = s[j + 1]
  <2> TAKE j \in i .. Len(s) - 1
  <2>1. PICK k \in 1 .. Len(s) - i : j = (i - 1) + k /\ j + 1 = k + i
    <3>1. j - (i - 1) \in 1 .. Len(s) - i /\ j = (i - 1) + (j - (i - 1)) /\ j + 1 = (j - (i - 1)) + i
          BY ONLY <1>1
    <3> QED BY ONLY <3>1
  <2>2. r[(i - 1) + k] = b[k] /\ b[k] = s[k + i] BY <1>2, <1>3, <1>5
  <2> QED BY ONLY <2>1, <2>2
<1>9. DOMAIN r = 1 .. Len(s) - 1 /\ DOMAIN s = 1 .. Len(s) BY <1>6
<1>10. ASSUME IsInjective(s) PROVE IsInjective(r)
  BY ONLY <1>1, <1>9, <1>7, <1>8, <1>10 DEF IsInjective
<1>11. ASSUME IsInjective(s) PROVE ToSet(r) = ToSet(s) \ {s[i]}
  <2>1. \A j \in DOMAIN r : r[j] \in ToSet(s) /\ r[j] # s[i]
    BY ONLY <1>1, <1>9, <1>7, <1>8, <1>11 DEF IsInjective, ToSet
  <2>2. \A j \in DOMAIN s \ {i} : s[j] \in ToSet(r)
    <3> TAKE j \in DOMAIN s \ {i}
    <3>1. CASE j < i BY ONLY <3>1, <1>1, <1>9, <1>7 DEF ToSet
    <3>2. CASE j > i
      <4>1. j - 1 \in DOMAIN r /\ r[j - 1] = s[j] BY ONLY <3>2, <1>1, <1>9, <1>8
      <4> QED BY ONLY <4>1 DEF ToSet
    <3> QED BY <3>1, <3>2, <1>9
  <2> QED BY ONLY <2>1, <2>2 DEF ToSet
<1> QED BY <1>6, <1>10, <1>11 DEF r

(* -------------------------------- the ring ------------------------------- *)

(* Where the i-th slot behind the head is, and the next head.                *)
Slot(h, i) == IF i <= h THEN h - i ELSE h + Size - i
Above(h) == IF h + 1 = Size THEN 0 ELSE h + 1

LEMMA Slots ==
    ASSUME NEW h \in 0 .. Size - 1, NEW i \in 1 .. Size
    PROVE  (h + Size - i) % Size = Slot(h, i) /\ (h + 1) % Size = Above(h)
<1> USE DEF Slot, Above
<1>1. ASSUME NEW x \in Nat PROVE /\ x < Size => x % Size = x
                                 /\ x >= Size /\ x < 2 * Size => x % Size = x - Size
      OBVIOUS
<1>2. CASE i <= h
  <2>1. h + Size - i \in Nat /\ h + Size - i >= Size /\ h + Size - i < 2 * Size
        BY <1>2
  <2>2. (h + Size - i) % Size = h + Size - i - Size BY <1>1, <2>1
  <2> QED BY <1>1, <1>2, <2>2
<1>3. CASE ~(i <= h)
  <2>1. h + Size - i \in Nat /\ h + Size - i < Size
        BY <1>3
  <2>2. (h + Size - i) % Size = h + Size - i BY <1>1, <2>1
  <2> QED BY <1>1, <1>3, <2>2
<1> QED BY <1>2, <1>3

(* An event recorded is the newest of the ring, and the others move up.      *)
LEMMA RecordKeepsRing ==
    ASSUME Inductive, NEW p \in Pushers, Record(p)
    PROVE  Ring'
<1> USE DEF Inductive, TypeOK
<1>1. head' = Above(head) /\ head \in 0 .. Size - 1 /\ head' \in 0 .. Size - 1
  <2>1. 1 \in 1 .. Size /\ head \in 0 .. Size - 1 /\ head' = (head + 1) % Size
        BY DEF Record
  <2>2. (head + 1) % Size = Above(head) BY <2>1, Slots
  <2> QED BY <2>1, <2>2 DEF Above
<1>2. buf' = [buf EXCEPT ![head] = ev[p]] /\ recorded' = Append(recorded, ev[p])
      BY DEF Record
<1>3. recorded \in Seq(Event) /\ Len(recorded) \in Nat
      OBVIOUS
<1>4. /\ Len(recorded') = Len(recorded) + 1 /\ recorded'[Len(recorded) + 1] = ev[p]
      /\ \A j \in 1 .. Len(recorded) : recorded'[j] = recorded[j]
      BY <1>2, <1>3
<1>5. ASSUME NEW i \in 1 .. Size
      PROVE  buf'[(head' + Size - i) % Size] =
                 IF i <= Len(recorded') THEN recorded'[Len(recorded') + 1 - i] ELSE 0
  <2>1. CASE i = 1
    <3>1. (head' + Size - i) % Size = Slot(head', i) BY <1>1, Slots
    <3>2. Slot(head', i) = head BY <1>1, <2>1 DEF Slot, Above
    <3>3. buf'[head] = ev[p] BY <1>1, <1>2
    <3> QED BY <1>3, <1>4, <2>1, <3>1, <3>2, <3>3
  <2>2. CASE i # 1
    <3> DEFINE k == i - 1
    <3>1. k \in 1 .. Size /\ k # Size BY <2>2
    <3>2. (head + Size - k) % Size = Slot(head, k)
          BY <1>1, <3>1, Slots
    <3>3. (head' + Size - i) % Size = Slot(head', i)
          BY <1>1, Slots
    <3>4. Slot(head', i) = Slot(head, k)
          BY <1>1, <2>2 DEF Slot, Above
    <3>5. Slot(head, k) \in 0 .. Size - 1 /\ Slot(head, k) # head
          BY <1>1, <3>1 DEF Slot
    <3>6. buf[(head + Size - k) % Size] =
              IF k <= Len(recorded) THEN recorded[Len(recorded) + 1 - k] ELSE 0
          BY <3>1 DEF Ring, Newest
    <3>7. buf'[(head' + Size - i) % Size] = buf[(head + Size - k) % Size]
          BY <1>2, <3>2, <3>3, <3>4, <3>5
    <3>8. (i <= Len(recorded') <=> k <= Len(recorded))
          /\ Len(recorded') + 1 - i = Len(recorded) + 1 - k
          BY <1>3, <1>4
    <3>9. k <= Len(recorded) => recorded'[Len(recorded) + 1 - k] = recorded[Len(recorded) + 1 - k]
      <4>1. k \in Nat /\ k >= 1 BY <3>1
      <4> HIDE DEF k
      <4>2. k <= Len(recorded) => Len(recorded) + 1 - k \in 1 .. Len(recorded)
            BY ONLY <1>3, <4>1
      <4> QED BY <1>4, <4>2
    <3> HIDE DEF k
    <3> QED BY <3>6, <3>7, <3>8, <3>9
  <2> QED BY <2>1, <2>2
<1> QED BY <1>5 DEF Ring, Newest

LEMMA RingUnchanged == Ring /\ UNCHANGED <<buf, head, recorded>> => Ring'
BY DEF Ring, Newest

(* ------------------------------- the steps ------------------------------- *)

(* At first there is nothing, anywhere.                                      *)
LEMMA InitHolds == Init => Inductive
<1> SUFFICES ASSUME Init PROVE Inductive
    OBVIOUS
<1> USE DEF Init
<1>1. TypeOK BY DEF TypeOK
<1>2. Ring
  <2>1. \A i \in 1 .. Size : (0 + Size - i) % Size \in 0 .. Size - 1
    <3> TAKE i \in 1 .. Size
    <3>1. 0 \in 0 .. Size - 1 OBVIOUS
    <3>2. (0 + Size - i) % Size = Slot(0, i) BY <3>1, Slots
    <3> QED BY <3>2 DEF Slot
  <2> QED BY <2>1 DEF Ring, Newest
<1>3. Stamps BY DEF Stamps, IsInjective, ToSet
<1>4. Lists BY DEF Lists, IsInjective, ToSet
<1> QED BY <1>1, <1>2, <1>3, <1>4 DEF Inductive, Delivering

(* Stamp: the new event is later than all there are, and not yet recorded.   *)
LEMMA StampKeeps ==
    ASSUME Inductive, NEW p \in Pushers, Stamp(p)
    PROVE  Inductive'
<1>1. TypeOK /\ TypeOK'
  <2>1. TypeOK BY DEF Inductive
  <2>2. clock' \in Event /\ clock' \in 0 .. MaxEvents BY <2>1 DEF TypeOK, Stamp, Event
  <2>3. ev' \in [Pushers -> Event \cup {0}] BY <2>1, <2>2 DEF TypeOK, Stamp
  <2>4. pc' \in [Pushers -> {"idle", "stamped", "sending"}] BY <2>1 DEF TypeOK, Stamp
  <2> QED BY <2>1, <2>2, <2>3, <2>4 DEF TypeOK, Stamp, ring, history
<1>2. /\ UNCHANGED <<buf, head, recorded, listeners, queue, todo, stage, since, received, dropped>>
      /\ pc[p] = "idle" /\ ev' = [ev EXCEPT ![p] = clock'] /\ pc' = [pc EXCEPT ![p] = "stamped"]
      /\ clock' = clock + 1
      BY DEF Stamp, ring, history
<1>3. Ring' BY <1>2, RingUnchanged DEF Inductive
<1>4. Stamps'
  <2>1. Stamps /\ clock \in Nat BY <1>1 DEF Inductive, TypeOK
  <2>2. \A i \in DOMAIN recorded : recorded[i] \in Nat BY <1>1 DEF TypeOK, Event
  <2>3. clock' \notin ToSet(recorded) BY <1>2, <2>1, <2>2 DEF Stamps, ToSet
  <2>4. \A q \in Pushers : ev[q] \in Nat BY <1>1 DEF TypeOK, Event
  <2>5. /\ \A q \in Pushers : ev'[q] = IF q = p THEN clock' ELSE ev[q]
        /\ \A q \in Pushers : pc'[q] = IF q = p THEN "stamped" ELSE pc[q]
        BY <1>1, <1>2 DEF TypeOK
  <2> QED BY <1>2, <2>1, <2>2, <2>3, <2>4, <2>5 DEF Stamps
<1>5. Lists'
  <2>1. \A q \in Pushers : pc'[q] = IF q = p THEN "stamped" ELSE pc[q]
        BY <1>1, <1>2 DEF TypeOK
  <2> QED BY <1>2, <2>1 DEF Inductive, Lists
<1>6. Delivering'
  <2>1. \A q \in Pushers, c \in Connections :
            (Sending(q, c)' <=> Sending(q, c)) /\ (Sending(q, c) => ev'[q] = ev[q])
        BY <1>1, <1>2 DEF TypeOK, Sending
  <2> QED BY <1>2, <2>1 DEF Inductive, Delivering, Delivery, Had, Later
<1> QED BY <1>1, <1>3, <1>4, <1>5, <1>6 DEF Inductive

(* Record: the listeners of the moment are the channels still to be sent to. *)
LEMMA RecordKeeps ==
    ASSUME Inductive, NEW p \in Pushers, Record(p)
    PROVE  Inductive'
<1>1. TypeOK BY DEF Inductive
<1>2. /\ UNCHANGED <<clock, listeners, queue, stage, since, received, dropped>>
      /\ pc[p] = "stamped" /\ recorded' = Append(recorded, ev[p])
      /\ todo' = [todo EXCEPT ![p] = listeners]
      BY DEF Record, history
<1>3. ev[p] \in Event /\ ev[p] # 0 /\ ev[p] \notin ToSet(recorded) /\ ev[p] <= clock
      BY <1>1, <1>2 DEF Inductive, Stamps, TypeOK
<1>4. /\ listeners = <<>> => pc' = [pc EXCEPT ![p] = "idle"] /\ ev' = [ev EXCEPT ![p] = 0]
      /\ listeners # <<>> => pc' = [pc EXCEPT ![p] = "sending"] /\ ev' = ev
      BY DEF Record, Leave
<1>5. \A q \in Pushers \ {p} : pc'[q] = pc[q] /\ ev'[q] = ev[q] /\ todo'[q] = todo[q]
      BY <1>1, <1>2, <1>4 DEF TypeOK
<1>6. /\ todo'[p] = listeners
      /\ listeners = <<>> => pc'[p] = "idle" /\ ev'[p] = 0
      /\ listeners # <<>> => pc'[p] = "sending" /\ ev'[p] = ev[p]
      BY <1>1, <1>2, <1>4 DEF TypeOK
<1>7. /\ recorded' \in Seq(Event) /\ ToSet(recorded') = ToSet(recorded) \cup {ev[p]}
      /\ IsInjective(recorded')
  <2>1. recorded \in Seq(Event) /\ IsInjective(recorded)
        BY <1>1 DEF TypeOK, Inductive, Stamps
  <2> QED BY <1>2, <1>3, <2>1, Appended
<1>8. /\ Len(recorded') = Len(recorded) + 1 /\ recorded'[Len(recorded) + 1] = ev[p]
      /\ DOMAIN recorded' = DOMAIN recorded \cup {Len(recorded) + 1}
      /\ \A j \in DOMAIN recorded : recorded'[j] = recorded[j]
      /\ Len(recorded) \in Nat /\ DOMAIN recorded = 1 .. Len(recorded)
  <2>1. recorded \in Seq(Event) BY <1>1 DEF TypeOK
  <2> QED BY <1>2, <1>3, <2>1
<1>9. TypeOK'
  <2>1. head' \in 0 .. Size - 1 /\ buf' \in [0 .. Size - 1 -> Event \cup {0}]
    <3>1. head \in 0 .. Size - 1 /\ 1 \in 1 .. Size BY <1>1 DEF TypeOK
    <3>2. head' = Above(head) BY <3>1, Slots DEF Record
    <3> QED BY <1>1, <1>3, <3>1, <3>2 DEF TypeOK, Above, Record
  <2>2. /\ ev' \in [Pushers -> Event \cup {0}]
        /\ pc' \in [Pushers -> {"idle", "stamped", "sending"}]
        BY <1>1, <1>4 DEF TypeOK
  <2>3. todo' \in [Pushers -> Seq(Connections)] BY <1>1, <1>2 DEF TypeOK
  <2> QED BY <1>1, <1>2, <1>7, <2>1, <2>2, <2>3 DEF TypeOK
<1>10. Ring' BY RecordKeepsRing
<1>11. Stamps'
  <2>1. Stamps /\ (\A q \in Pushers : ev[q] \in Nat) BY <1>1 DEF Inductive, TypeOK, Event
  <2>2. \A i \in DOMAIN recorded' : recorded'[i] <= clock' BY <1>2, <1>3, <1>8, <2>1 DEF Stamps
  <2>3. \A q \in Pushers : ev'[q] <= clock' /\ (ev'[q] = 0 <=> pc'[q] = "idle")
    <3>1. clock \in Nat BY <1>1 DEF TypeOK
    <3> TAKE q \in Pushers
    <3>2. CASE q = p BY <1>2, <1>3, <1>6, <3>1, <3>2
    <3>3. CASE q # p BY <1>2, <1>5, <2>1, <3>3 DEF Stamps
    <3> QED BY <3>2, <3>3
  <2>4. \A q, r \in Pushers : ev'[q] = ev'[r] /\ ev'[q] # 0 => q = r
        BY <1>5, <1>6, <2>1 DEF Stamps
  <2>5. \A q \in Pushers : pc'[q] = "stamped" => ev'[q] \notin ToSet(recorded')
    <3> TAKE q \in Pushers
    <3>1. CASE q = p BY <1>6, <3>1
    <3>2. CASE q # p
      <4>1. ev[q] # ev[p] BY <1>3, <2>1, <3>2 DEF Stamps
      <4> QED BY <1>5, <1>7, <2>1, <3>2, <4>1 DEF Stamps
    <3> QED BY <3>1, <3>2
  <2> QED BY <1>7, <2>2, <2>3, <2>4, <2>5 DEF Stamps
<1>12. Lists'
  <2>1. Lists /\ since \in [Connections -> Nat] BY <1>1 DEF Inductive, TypeOK
  <2>2. \A c \in Connections : since'[c] <= Len(recorded')
        BY <1>2, <1>8, <2>1 DEF Lists
  <2>3. \A q \in Pushers : IsInjective(todo'[q]) /\ (pc'[q] = "sending" => todo'[q] # <<>>)
        BY <1>5, <1>6, <2>1 DEF Lists
  <2>4. \A c \in Connections : stage[c] = "new" => \A q \in Pushers : c \notin ToSet(todo'[q])
        BY <1>5, <1>6, <2>1 DEF Lists
  <2> QED BY <1>2, <2>1, <2>2, <2>3, <2>4 DEF Lists
<1>13. Delivering'
  <2> SUFFICES ASSUME NEW c \in Connections, stage[c] = "open" PROVE Delivery(c)'
      BY <1>2 DEF Delivering
  <2>1. Delivery(c) /\ c \in ToSet(listeners) /\ listeners # <<>>
    <3>1. Delivery(c) /\ c \in ToSet(listeners) BY DEF Inductive, Delivering, Lists
    <3> QED BY <3>1 DEF ToSet
  <2>2. since[c] \in Nat /\ since[c] < Len(recorded) + 1
        BY <1>1, <1>8 DEF TypeOK, Inductive, Lists
  <2>3. /\ \A q \in Pushers \ {p} : (Sending(q, c)' <=> Sending(q, c)) /\ ev'[q] = ev[q]
        /\ ~Sending(p, c) /\ Sending(p, c)' /\ ev'[p] = ev[p]
        BY <1>2, <1>5, <1>6, <2>1 DEF Sending
  <2>4. \A x \in Event : Later(c, x)' <=> Later(c, x) \/ x = ev[p]
        BY <1>2, <1>8, <2>2 DEF Later
  <2>5. Had(c)' = Had(c) /\ Had(c) \subseteq Event BY <1>1, <1>2 DEF Had, TypeOK, ToSet
  <2>6. ev[p] \notin Had(c)
    <3>1. \A x : Later(c, x) => x \in ToSet(recorded) BY DEF Later, ToSet
    <3> QED BY <1>3, <2>1, <3>1 DEF Delivery
  <2>7. \A q \in Pushers : Sending(q, c) => ev[q] \in Event
        BY <1>1 DEF TypeOK, Sending, Inductive, Stamps
  <2>8. \A q \in Pushers : Sending(q, c)' => ev'[q] \notin Had(c)' /\ Later(c, ev[q])'
        BY <1>3, <2>1, <2>3, <2>4, <2>5, <2>6, <2>7 DEF Delivery
  <2>9. \A x \in ToSet(recorded') :
            Later(c, x)' => x \in Had(c)' \/ \E q \in Pushers : Sending(q, c)' /\ ev'[q] = x
    <3> TAKE x \in ToSet(recorded')
    <3>1. CASE x = ev[p] BY <2>3, <3>1
    <3>2. CASE x # ev[p]
      <4>1. x \in ToSet(recorded) BY <1>7, <3>2
      <4>2. recorded \in Seq(Event) BY <1>1 DEF TypeOK
      <4>3. x \in Event BY <4>1, <4>2 DEF ToSet
      <4> QED BY <2>1, <2>3, <2>4, <2>5, <3>2, <4>1, <4>3 DEF Delivery
    <3> QED BY <3>1, <3>2
  <2> QED BY <1>2, <2>1, <2>3, <2>4, <2>5, <2>8, <2>9 DEF Delivery
<1> QED BY <1>9, <1>10, <1>11, <1>12, <1>13 DEF Inductive

(* Send: the event is in the channel or dropped, and on its way no more.     *)
LEMMA SendKeeps ==
    ASSUME Inductive, NEW p \in Pushers, Send(p)
    PROVE  Inductive'
<1>1. TypeOK BY DEF Inductive
<1>2. todo[p] \in Seq(Connections) /\ todo[p] # <<>> /\ IsInjective(todo[p])
      BY <1>1 DEF TypeOK, Inductive, Lists, Send
<1>3. PICK d \in Connections : d = Head(todo[p])
      BY <1>2, Taken
<1>4. /\ UNCHANGED <<clock, buf, head, recorded, listeners, stage, since, received>>
      /\ pc[p] = "sending" /\ todo' = [todo EXCEPT ![p] = Tail(@)]
      /\ \/ queue' = [queue EXCEPT ![d] = Append(@, ev[p])] /\ UNCHANGED dropped
         \/ dropped' = [dropped EXCEPT ![d] = @ \cup {ev[p]}] /\ UNCHANGED queue
      /\ \/ Len(todo[p]) = 1 /\ pc' = [pc EXCEPT ![p] = "idle"] /\ ev' = [ev EXCEPT ![p] = 0]
         \/ Len(todo[p]) # 1 /\ UNCHANGED <<pc, ev>>
      BY <1>3 DEF Send, Leave, ring
<1>5. /\ d \in ToSet(todo[p]) /\ Tail(todo[p]) \in Seq(Connections)
      /\ ToSet(todo[p]) = ToSet(Tail(todo[p])) \cup {d}
      /\ IsInjective(Tail(todo[p])) /\ d \notin ToSet(Tail(todo[p]))
      BY <1>3, <1>2, Taken
<1>6. (Len(todo[p]) = 1 => ToSet(Tail(todo[p])) = {}) /\ (Len(todo[p]) # 1 => Tail(todo[p]) # <<>>)
      BY <1>2, Taken
<1>7. ev[p] \in Event /\ ev[p] # 0
      BY <1>1, <1>4 DEF Inductive, Stamps, TypeOK
<1>8. \A q \in Pushers \ {p} : pc'[q] = pc[q] /\ ev'[q] = ev[q] /\ todo'[q] = todo[q]
      BY <1>1, <1>4 DEF TypeOK
<1>9. /\ todo'[p] = Tail(todo[p])
      /\ \/ pc'[p] = "idle" /\ ev'[p] = 0 /\ ToSet(todo'[p]) = {}
         \/ pc'[p] = "sending" /\ ev'[p] = ev[p] /\ todo'[p] # <<>>
      BY <1>1, <1>4, <1>6 DEF TypeOK
<1>10. queue[d] \in Seq(Event) /\ dropped[d] \in SUBSET Event
      BY <1>1, <1>5 DEF TypeOK
<1>11. /\ Append(queue[d], ev[p]) \in Seq(Event)
       /\ ToSet(Append(queue[d], ev[p])) = ToSet(queue[d]) \cup {ev[p]}
       /\ IsInjective(queue[d]) /\ ev[p] \notin ToSet(queue[d])
              => IsInjective(Append(queue[d], ev[p]))
       BY <1>7, <1>10, Appended
<1>12. /\ \A c \in Connections \ {d} : queue'[c] = queue[c] /\ dropped'[c] = dropped[c]
       /\ \/ queue'[d] = Append(queue[d], ev[p]) /\ dropped'[d] = dropped[d]
          \/ queue'[d] = queue[d] /\ dropped'[d] = dropped[d] \cup {ev[p]}
       BY <1>1, <1>4, <1>5 DEF TypeOK
<1>13. TypeOK'
  <2>1. queue' \in [Connections -> Seq(Event)] BY <1>1, <1>4, <1>11 DEF TypeOK
  <2>2. dropped' \in [Connections -> SUBSET Event]
    <3>1. dropped[d] \cup {ev[p]} \in SUBSET Event BY <1>7, <1>10
    <3> QED BY <1>1, <1>4, <3>1 DEF TypeOK
  <2>3. /\ ev' \in [Pushers -> Event \cup {0}]
        /\ pc' \in [Pushers -> {"idle", "stamped", "sending"}]
        BY <1>1, <1>4 DEF TypeOK
  <2>4. todo' \in [Pushers -> Seq(Connections)] BY <1>1, <1>4, <1>5 DEF TypeOK
  <2> QED BY <1>1, <1>4, <2>1, <2>2, <2>3, <2>4 DEF TypeOK
<1>14. Ring' BY <1>4, RingUnchanged DEF Inductive
<1>15. Stamps'
  <2>1. Stamps BY DEF Inductive
  <2>2. clock \in Nat BY <1>1 DEF TypeOK
  <2>3. \A q \in Pushers : ev'[q] <= clock' /\ (ev'[q] = 0 <=> pc'[q] = "idle")
        BY <1>4, <1>7, <1>8, <1>9, <2>1, <2>2 DEF Stamps
  <2>4. \A q, r \in Pushers : ev'[q] = ev'[r] /\ ev'[q] # 0 => q = r
        BY <1>8, <1>9, <2>1 DEF Stamps
  <2>5. \A q \in Pushers : pc'[q] = "stamped" => ev'[q] \notin ToSet(recorded')
        BY <1>4, <1>8, <1>9, <2>1 DEF Stamps
  <2> QED BY <1>4, <2>1, <2>3, <2>4, <2>5 DEF Stamps
<1>16. Lists'
  <2>1. Lists BY DEF Inductive
  <2>2. \A q \in Pushers : IsInjective(todo'[q]) /\ (pc'[q] = "sending" => todo'[q] # <<>>)
        BY <1>5, <1>8, <1>9, <2>1 DEF Lists
  <2>3. \A c \in Connections : stage[c] = "new" =>
            c # d /\ \A q \in Pushers : c \notin ToSet(todo'[q])
        BY <1>5, <1>8, <1>9, <2>1 DEF Lists
  <2> QED BY <1>4, <1>12, <2>1, <2>2, <2>3 DEF Lists
<1>17. \A q \in Pushers, c \in Connections :
           /\ Sending(q, c)' <=> Sending(q, c) /\ ~(q = p /\ c = d)
           /\ Sending(q, c)' => ev'[q] = ev[q]
       BY <1>4, <1>5, <1>8, <1>9 DEF Sending
<1>18. \A c, x : Later(c, x)' <=> Later(c, x)
       BY <1>4 DEF Later
<1>19. ASSUME Delivery(d) PROVE Delivery(d)'
  <2>1. Sending(p, d) BY <1>4, <1>5 DEF Sending
  <2>2. ev[p] \notin Had(d) /\ Later(d, ev[p]) BY <1>19, <2>1 DEF Delivery
  <2>3. Had(d)' = Had(d) \cup {ev[p]} BY <1>4, <1>11, <1>12 DEF Had
  <2>4. \A q \in Pushers : Sending(q, d)' => ev'[q] # ev[p] /\ ev'[q] = ev[q] /\ Sending(q, d)
        BY <1>5, <1>7, <1>17 DEF Inductive, Stamps
  <2>5. /\ IsInjective(queue'[d]) /\ received'[d] \cap dropped'[d] = {}
        /\ (received'[d] \cup dropped'[d]) \cap ToSet(queue'[d]) = {}
    <3>1. /\ IsInjective(queue[d]) /\ received[d] \cap dropped[d] = {}
          /\ (received[d] \cup dropped[d]) \cap ToSet(queue[d]) = {}
          BY <1>19 DEF Delivery
    <3>2. ev[p] \notin received[d] /\ ev[p] \notin dropped[d] /\ ev[p] \notin ToSet(queue[d])
          BY <2>2 DEF Had
    <3>3. received'[d] = received[d] BY <1>4
    <3> QED BY <1>11, <1>12, <3>1, <3>2, <3>3
  <2>6. \A q \in Pushers : Sending(q, d)' => ev'[q] \notin Had(d)' /\ Later(d, ev[q])'
        BY <1>18, <1>19, <2>3, <2>4 DEF Delivery
  <2>7. \A x \in ToSet(recorded') :
            Later(d, x)' => x \in Had(d)' \/ \E q \in Pushers : Sending(q, d)' /\ ev'[q] = x
    <3> SUFFICES ASSUME NEW x \in ToSet(recorded), Later(d, x), x \notin Had(d)'
                 PROVE  \E q \in Pushers : Sending(q, d)' /\ ev'[q] = x
        BY <1>4, <1>18
    <3>1. PICK q \in Pushers : Sending(q, d) /\ ev[q] = x
          BY <1>19, <2>3 DEF Delivery
    <3>2. q # p BY <2>3, <3>1
    <3> QED BY <1>5, <1>17, <3>1, <3>2
  <2>8. \A x \in Had(d)' : Later(d, x)'
        BY <1>18, <1>19, <2>2, <2>3 DEF Delivery
  <2> QED BY <2>5, <2>6, <2>7, <2>8 DEF Delivery
<1>20. ASSUME NEW c \in Connections, c # d, Delivery(c) PROVE Delivery(c)'
  <2>1. /\ Had(c)' = Had(c) /\ queue'[c] = queue[c]
        /\ received'[c] = received[c] /\ dropped'[c] = dropped[c]
        BY <1>4, <1>12, <1>20 DEF Had
  <2>2. \A q \in Pushers : (Sending(q, c)' <=> Sending(q, c)) /\ (Sending(q, c)' => ev'[q] = ev[q])
        BY <1>17, <1>20
  <2> QED BY <1>4, <1>18, <1>20, <2>1, <2>2 DEF Delivery
<1>21. Delivering'
       BY <1>4, <1>5, <1>19, <1>20 DEF Inductive, Delivering
<1> QED BY <1>13, <1>14, <1>15, <1>16, <1>21 DEF Inductive

(* Subscribe: nothing is owed to a new connection, nothing on its way to it. *)
LEMMA SubscribeKeeps ==
    ASSUME Inductive, NEW c \in Connections, Subscribe(c)
    PROVE  Inductive'
<1>1. TypeOK BY DEF Inductive
<1>2. /\ UNCHANGED <<clock, buf, head, recorded, ev, todo, pc, queue, received, dropped>>
      /\ stage[c] = "new" /\ stage' = [stage EXCEPT ![c] = "open"]
      /\ listeners' = Append(listeners, c)
      /\ since' = [since EXCEPT ![c] = Len(recorded)]
      BY DEF Subscribe, pushing, ring, history
<1>3. /\ queue[c] = <<>> /\ received[c] = {} /\ dropped[c] = {}
      /\ c \notin ToSet(listeners) /\ \A p \in Pushers : c \notin ToSet(todo[p])
      BY <1>2 DEF Inductive, Lists
<1>4. /\ listeners' \in Seq(Connections) /\ IsInjective(listeners')
      /\ ToSet(listeners') = ToSet(listeners) \cup {c}
  <2>1. listeners \in Seq(Connections) /\ IsInjective(listeners)
        BY <1>1 DEF TypeOK, Inductive, Lists
  <2> QED BY <1>2, <1>3, <2>1, Appended
<1>5. recorded \in Seq(Event) /\ Len(recorded) \in Nat BY <1>1 DEF TypeOK
<1>6. \A e \in Connections : /\ stage'[e] = IF e = c THEN "open" ELSE stage[e]
                             /\ since'[e] = IF e = c THEN Len(recorded) ELSE since[e]
      BY <1>1, <1>2 DEF TypeOK
<1>7. TypeOK'
  <2>1. stage' \in [Connections -> {"new", "open", "closed"}] BY <1>1, <1>2 DEF TypeOK
  <2>2. since' \in [Connections -> Nat] BY <1>1, <1>2, <1>5 DEF TypeOK
  <2> QED BY <1>1, <1>2, <1>4, <2>1, <2>2 DEF TypeOK
<1>8. Ring' BY <1>2, RingUnchanged DEF Inductive
<1>9. Stamps' BY <1>2 DEF Inductive, Stamps
<1>10. Lists'
  <2>1. Lists BY DEF Inductive
  <2>2. \A e \in Connections : since'[e] <= Len(recorded') BY <1>2, <1>5, <1>6, <2>1 DEF Lists
  <2>3. \A e \in Connections : stage'[e] = "open" => e \in ToSet(listeners')
        BY <1>4, <1>6, <2>1 DEF Lists
  <2>4. \A e \in Connections : stage'[e] = "new" => stage[e] = "new" /\ e # c
        BY <1>6
  <2> QED BY <1>2, <1>4, <2>1, <2>2, <2>3, <2>4 DEF Lists
<1>11. \A p \in Pushers, e \in Connections : Sending(p, e)' <=> Sending(p, e)
       BY <1>2 DEF Sending
<1>12. Delivery(c)'
  <2>1. Had(c)' = {} /\ ToSet(queue'[c]) = {} /\ IsInjective(queue'[c])
        BY <1>2, <1>3 DEF Had, ToSet, IsInjective
  <2>2. \A p \in Pushers : ~Sending(p, c)' BY <1>3, <1>11 DEF Sending
  <2>3. \A x : ~Later(c, x)' BY <1>2, <1>5, <1>6 DEF Later
  <2> QED BY <1>2, <1>3, <2>1, <2>2, <2>3 DEF Delivery
<1>13. ASSUME NEW e \in Connections, e # c, Delivery(e) PROVE Delivery(e)'
  <2>1. Had(e)' = Had(e) BY <1>2 DEF Had
  <2>2. \A x : Later(e, x)' <=> Later(e, x) BY <1>2, <1>6, <1>13 DEF Later
  <2> QED BY <1>2, <1>11, <1>13, <2>1, <2>2 DEF Delivery
<1>14. Delivering' BY <1>6, <1>12, <1>13 DEF Inductive, Delivering
<1> QED BY <1>7, <1>8, <1>9, <1>10, <1>14 DEF Inductive

(* Receive: an event passes from the channel to the connection.              *)
LEMMA ReceiveKeeps ==
    ASSUME Inductive, NEW c \in Connections, Receive(c)
    PROVE  Inductive'
<1>1. TypeOK BY DEF Inductive
<1>2. /\ UNCHANGED <<clock, buf, head, recorded, ev, todo, pc, listeners, stage, since, dropped>>
      /\ stage[c] = "open" /\ queue[c] # <<>>
      /\ queue' = [queue EXCEPT ![c] = Tail(@)]
      /\ received' = [received EXCEPT ![c] = @ \cup {Head(queue[c])}]
      BY DEF Receive, pushing, ring
<1>3. queue[c] \in Seq(Event) /\ IsInjective(queue[c]) /\ Delivery(c)
  <2>1. Delivery(c) BY <1>2 DEF Inductive, Delivering
  <2> QED BY <1>1, <2>1 DEF TypeOK, Delivery
<1>4. PICK x \in Event : x = Head(queue[c])
      BY <1>2, <1>3, Taken
<1>5. /\ Tail(queue[c]) \in Seq(Event) /\ IsInjective(Tail(queue[c]))
      /\ ToSet(queue[c]) = ToSet(Tail(queue[c])) \cup {x} /\ x \notin ToSet(Tail(queue[c]))
      BY <1>2, <1>3, <1>4, Taken
<1>6. /\ queue'[c] = Tail(queue[c]) /\ received'[c] = received[c] \cup {x}
      /\ \A e \in Connections \ {c} : queue'[e] = queue[e] /\ received'[e] = received[e]
      BY <1>1, <1>2, <1>4 DEF TypeOK
<1>7. TypeOK'
  <2>1. queue' \in [Connections -> Seq(Event)] BY <1>1, <1>2, <1>5 DEF TypeOK
  <2>2. received[c] \cup {x} \in SUBSET Event BY <1>1 DEF TypeOK
  <2>3. received' \in [Connections -> SUBSET Event] BY <1>1, <1>2, <1>4, <2>2 DEF TypeOK
  <2> QED BY <1>1, <1>2, <2>1, <2>3 DEF TypeOK
<1>8. Ring' BY <1>2, RingUnchanged DEF Inductive
<1>9. Stamps' BY <1>2 DEF Inductive, Stamps
<1>10. Lists' BY <1>2, <1>6 DEF Inductive, Lists
<1>11. /\ \A p \in Pushers, e \in Connections : Sending(p, e)' <=> Sending(p, e)
       /\ \A e, y : Later(e, y)' <=> Later(e, y)
       BY <1>2 DEF Sending, Later
<1>12. \A e \in Connections : Had(e)' = Had(e)
  <2> TAKE e \in Connections
  <2>1. CASE e = c
    <3>1. dropped'[e] = dropped[e] BY <1>2
    <3> QED BY <1>5, <1>6, <2>1, <3>1 DEF Had
  <2>2. CASE e # c BY <1>2, <1>6, <2>2 DEF Had
  <2> QED BY <2>1, <2>2
<1>13. Delivery(c)'
  <2>1. /\ IsInjective(queue'[c]) /\ received'[c] \cap dropped'[c] = {}
        /\ (received'[c] \cup dropped'[c]) \cap ToSet(queue'[c]) = {}
        BY <1>2, <1>3, <1>5, <1>6 DEF Delivery
  <2> QED BY <1>2, <1>3, <1>11, <1>12, <2>1 DEF Delivery
<1>14. ASSUME NEW e \in Connections, e # c, Delivery(e) PROVE Delivery(e)'
       BY <1>2, <1>6, <1>11, <1>12, <1>14 DEF Delivery
<1>15. Delivering' BY <1>2, <1>13, <1>14 DEF Inductive, Delivering
<1> QED BY <1>7, <1>8, <1>9, <1>10, <1>15 DEF Inductive

(* Unsubscribe: one channel leaves the list, the others stay.                *)
LEMMA UnsubscribeKeeps ==
    ASSUME Inductive, NEW c \in Connections, Unsubscribe(c)
    PROVE  Inductive'
<1>1. TypeOK BY DEF Inductive
<1>2. /\ UNCHANGED <<clock, buf, head, recorded, ev, todo, pc, queue>>
      /\ stage' = [stage EXCEPT ![c] = "closed"]
      /\ received' = [received EXCEPT ![c] = {}] /\ dropped' = [dropped EXCEPT ![c] = {}]
      /\ since' = [since EXCEPT ![c] = 0]
      BY DEF Unsubscribe, pushing, ring
<1>3. PICK i \in DOMAIN listeners : listeners[i] = c /\ listeners' = RemoveAt(listeners, i)
      BY DEF Unsubscribe
<1>4. /\ listeners' \in Seq(Connections) /\ IsInjective(listeners')
      /\ ToSet(listeners') = ToSet(listeners) \ {c}
  <2>1. listeners \in Seq(Connections) /\ IsInjective(listeners)
        BY <1>1 DEF TypeOK, Inductive, Lists
  <2> QED BY <1>3, <2>1, Removed
<1>5. \A e \in Connections :
          IF e = c THEN stage'[e] = "closed" /\ since'[e] = 0
          ELSE /\ stage'[e] = stage[e] /\ since'[e] = since[e]
               /\ received'[e] = received[e] /\ dropped'[e] = dropped[e]
      BY <1>1, <1>2 DEF TypeOK
<1>6. TypeOK' BY <1>1, <1>2, <1>4 DEF TypeOK
<1>7. Ring' BY <1>2, RingUnchanged DEF Inductive
<1>8. Stamps' BY <1>2 DEF Inductive, Stamps
<1>9. Lists'
  <2>1. Lists BY DEF Inductive
  <2>2. Len(recorded) \in Nat BY <1>1 DEF TypeOK
  <2>3. \A e \in Connections : since'[e] <= Len(recorded') BY <1>2, <1>5, <2>1, <2>2 DEF Lists
  <2>4. \A e \in Connections : stage'[e] = "open" => e \in ToSet(listeners')
        BY <1>4, <1>5, <2>1 DEF Lists
  <2>5. \A e \in Connections : stage'[e] = "new" => e # c BY <1>5
  <2> QED BY <1>2, <1>4, <1>5, <2>1, <2>3, <2>4, <2>5 DEF Lists
<1>10. ASSUME NEW e \in Connections, e # c, Delivery(e) PROVE Delivery(e)'
  <2>1. /\ Had(e)' = Had(e) /\ (\A x : Later(e, x)' <=> Later(e, x))
        /\ \A p \in Pushers : Sending(p, e)' <=> Sending(p, e)
        BY <1>2, <1>5, <1>10 DEF Had, Later, Sending
  <2> QED BY <1>2, <1>5, <1>10, <2>1 DEF Delivery
<1>11. Delivering' BY <1>5, <1>10 DEF Inductive, Delivering
<1> QED BY <1>6, <1>7, <1>8, <1>9, <1>11 DEF Inductive

LEMMA NextHolds == Inductive /\ [Next]_vars => Inductive'
<1> SUFFICES ASSUME Inductive, [Next]_vars PROVE Inductive'
    OBVIOUS
<1>1. ASSUME NEW p \in Pushers, Stamp(p) \/ Record(p) \/ Send(p) PROVE Inductive'
      BY <1>1, StampKeeps, RecordKeeps, SendKeeps
<1>2. ASSUME NEW c \in Connections, Subscribe(c) \/ Receive(c) \/ Unsubscribe(c)
      PROVE  Inductive'
      BY <1>2, SubscribeKeeps, ReceiveKeeps, UnsubscribeKeeps
<1>3. CASE UNCHANGED vars
  <2>1. TypeOK' /\ Stamps' BY <1>3 DEF vars, Inductive, TypeOK, Stamps
  <2>2. Ring' BY <1>3, RingUnchanged DEF vars, Inductive
  <2>3. Lists' BY <1>3 DEF vars, Inductive, Lists
  <2>4. ASSUME NEW c \in Connections, Delivery(c) PROVE Delivery(c)'
    <3>1. /\ Had(c)' = Had(c) /\ \A x : Later(c, x)' <=> Later(c, x)
          /\ \A p \in Pushers : Sending(p, c)' <=> Sending(p, c)
          BY <1>3 DEF vars, Had, Later, Sending
    <3> QED BY <1>3, <2>4, <3>1 DEF vars, Delivery
  <2>5. Delivering' BY <1>3, <2>4 DEF vars, Inductive, Delivering
  <2> QED BY <2>1, <2>2, <2>3, <2>5 DEF Inductive
<1> QED BY <1>1, <1>2, <1>3 DEF Next

(* ------------------------------ the theorems ----------------------------- *)

(* The strengthened invariant holds in every reachable state.                *)
THEOREM Invariance == Spec => []Inductive
<1> QED BY InitHolds, NextHolds, PTL DEF Spec

(* Every variable has its type.                                              *)
THEOREM TypeCorrect == Spec => []TypeOK
<1>1. Inductive => TypeOK BY DEF Inductive
<1> QED BY <1>1, Invariance, PTL

(* Read back from the head, the ring holds the last events recorded, latest  *)
(* first, and zeroes where there have been fewer (83-98).                    *)
THEOREM RingHoldsLatest == Spec => []Ring
<1>1. Inductive => Ring BY DEF Inductive
<1> QED BY <1>1, Invariance, PTL

(* Induction over the numbers, for a set instead of a predicate.             *)
LEMMA LeastOf ==
    ASSUME NEW T \in SUBSET Nat, T # {}
    PROVE  \E x \in T : \A y \in T : x <= y
<1>1. PICK x \in T : \A y \in T : <<y, x>> \notin OpToRel(<, Nat)
      BY NatLessThanWellFounded, WFMin
<1>2. \A y \in T : ~(y < x)
      BY <1>1 DEF OpToRel
<1> QED BY <1>2

(* What the loop of Recent has collected after i rounds: the last k events,  *)
(* where k is the least of i, n and what there is.                           *)
Latest(k) == [j \in 1 .. k |-> recorded[Len(recorded) + 1 - j]]
Lower(a, b) == IF a < b THEN a ELSE b
Collected(i, n) == Latest(Lower(i, Lower(n, Len(recorded))))
Round(out, i, n) ==
    IF i = 0 THEN <<>>
    ELSE IF Len(out[i - 1]) < n /\ Newest[i] # 0 THEN Append(out[i - 1], Newest[i])
    ELSE out[i - 1]

LEMMA NextRound ==
    ASSUME TypeOK, Ring, NEW n \in Nat, NEW i \in 1 .. Size, NEW out,
           out[i - 1] = Collected(i - 1, n)
    PROVE  Round(out, i, n) = Collected(i, n)
<1> DEFINE L == Len(recorded)
           k == Lower(i - 1, Lower(n, L))
<1>1. recorded \in Seq(Event) /\ L \in Nat /\ k \in 0 .. L /\ i \in Nat /\ i >= 1
      BY DEF TypeOK, Lower
<1>2. Latest(k) \in Seq(Event) /\ Len(Latest(k)) = k
      BY <1>1 DEF Latest
<1>3. Newest[i] = IF i <= L THEN recorded[L + 1 - i] ELSE 0
      BY DEF Ring
<1>4. i <= L => Newest[i] # 0
      BY <1>1, <1>3 DEF Event
<1>5. Round(out, i, n) = IF k < n /\ Newest[i] # 0 THEN Append(Latest(k), Newest[i])
                         ELSE Latest(k)
      BY <1>1, <1>2 DEF Round, Collected
<1>6. CASE i <= n /\ i <= L
  <2>1. k = i - 1 /\ k < n /\ Lower(i, Lower(n, L)) = i
        BY <1>1, <1>6 DEF Lower
  <2>2. Append(Latest(i - 1), recorded[L + 1 - i]) = Latest(i)
        BY <1>1, <1>6 DEF Latest
  <2> QED BY <1>3, <1>4, <1>5, <1>6, <2>1, <2>2 DEF Collected
<1>7. CASE ~(i <= n /\ i <= L)
  <2>1. Lower(i, Lower(n, L)) = k /\ ~(k < n /\ i <= L)
        BY <1>1, <1>7 DEF Lower
  <2> QED BY <1>3, <1>5, <2>1 DEF Collected
<1> QED BY <1>6, <1>7

LEMMA LoopCollects ==
    ASSUME TypeOK, Ring, NEW n \in Nat, NEW out,
           out = [i \in 0 .. Size |-> Round(out, i, n)]
    PROVE  \A i \in 0 .. Size : out[i] = Collected(i, n)
<1> DEFINE Wrong == {i \in 0 .. Size : out[i] # Collected(i, n)}
<1> SUFFICES ASSUME Wrong # {} PROVE FALSE
    OBVIOUS
<1>1. PICK i \in Wrong : \A j \in Wrong : i <= j
  <2>1. Wrong \in SUBSET Nat
        OBVIOUS
  <2> HIDE DEF Wrong
  <2> QED BY <2>1, LeastOf
<1>2. i # 0
  <2>1. Len(recorded) \in Nat
        BY DEF TypeOK
  <2>2. Collected(0, n) = <<>>
        BY <2>1 DEF Collected, Latest, Lower
  <2>3. out[0] = <<>>
        BY DEF Round
  <2> QED BY <2>2, <2>3
<1>3. i \in 1 .. Size /\ i - 1 \in 0 .. Size /\ i - 1 \notin Wrong
      BY <1>1, <1>2
<1>4. out[i] = Round(out, i, n) /\ out[i - 1] = Collected(i - 1, n)
      BY <1>3
<1>5. out[i] = Collected(i, n)
      BY <1>3, <1>4, NextRound
<1> QED BY <1>5

LEMMA RecentIs ==
    ASSUME TypeOK, Ring, NEW n \in Nat
    PROVE  Recent(n) = Collected(Size, n)
<1> DEFINE f == [i \in 0 .. Size |-> Collected(i, n)]
           out == CHOOSE g : g = [i \in 0 .. Size |-> Round(g, i, n)]
<1>1. \A i \in 0 .. Size : Round(f, i, n) = Collected(i, n)
  <2>1. Round(f, 0, n) = Collected(0, n)
    <3>1. Len(recorded) \in Nat
          BY DEF TypeOK
    <3> QED BY <3>1 DEF Round, Collected, Latest, Lower
  <2>2. ASSUME NEW i \in 1 .. Size PROVE Round(f, i, n) = Collected(i, n)
    <3>1. f[i - 1] = Collected(i - 1, n)
          OBVIOUS
    <3> HIDE DEF f
    <3> QED BY <3>1, NextRound
  <2> QED BY <2>1, <2>2
<1>2. f = [i \in 0 .. Size |-> Round(f, i, n)]
      BY <1>1
<1>3. out = [i \in 0 .. Size |-> Round(out, i, n)]
      BY <1>2
<1>4. out[Size] = Collected(Size, n)
  <2> HIDE DEF out
  <2> QED BY <1>3, LoopCollects
<1>5. Recent(n) = out[Size]
      BY DEF Recent, Round
<1> QED BY <1>4, <1>5

(* Recent returns the last events, the newest first, none skipped and none   *)
(* twice, before and after the ring wraps (83-98): the loop meets the empty  *)
(* slots last, and they alone are left out.                                  *)
THEOREM RecentReturnsLatest == Spec => []RecentIsLatest
<1>1. Inductive => RecentIsLatest
  <2> SUFFICES ASSUME Inductive, NEW n \in 1 .. Size
               PROVE  Recent(n) = Latest(Lower(n, Len(recorded)))
      BY DEF RecentIsLatest, Latest, Lower
  <2>1. TypeOK /\ Ring /\ n \in Nat /\ Len(recorded) \in Nat
        BY DEF Inductive, TypeOK
  <2>2. Lower(Size, Lower(n, Len(recorded))) = Lower(n, Len(recorded))
        BY <2>1 DEF Lower
  <2> QED BY <2>1, <2>2, RecentIs DEF Collected
<1> QED BY <1>1, Invariance, PTL

(* An open connection gets each event recorded since its Subscribe in one    *)
(* way, once, and none recorded before.                                      *)
LEMMA OnceEach == Inductive => DeliveredOnce
<1> SUFFICES ASSUME Inductive, NEW c \in Connections, stage[c] = "open",
                    NEW i \in 1 .. Len(recorded)
             PROVE  Ways(c, recorded[i]) = IF i > since[c] THEN 1 ELSE 0
    BY DEF DeliveredOnce
<1>1. TypeOK /\ Delivery(c) /\ IsInjective(recorded) BY DEF Inductive, Delivering, Stamps
<1>2. recorded \in Seq(Event) /\ since[c] \in Nat BY <1>1 DEF TypeOK
<1>3. PICK e \in Event : e = recorded[i] BY <1>2
<1>4. i \in DOMAIN recorded /\ e \in ToSet(recorded) BY <1>2, <1>3 DEF ToSet
<1>5. Later(c, e) <=> i > since[c] BY <1>1, <1>3, <1>4 DEF Later, IsInjective
<1> DEFINE P == {p \in Pushers : pc[p] = "sending" /\ ev[p] = e /\ c \in ToSet(todo[p])}
           Q == {j \in DOMAIN queue[c] : queue[c][j] = e}
<1>6. Cardinality({}) = 0 /\ \A x : Cardinality({x}) = 1
      BY FS_EmptySet, FS_Singleton
<1>7. /\ e \in ToSet(queue[c]) => Cardinality(Q) = 1
      /\ e \notin ToSet(queue[c]) => Cardinality(Q) = 0
  <2>1. ASSUME e \in ToSet(queue[c]) PROVE \E j : Q = {j}
    <3>1. PICK j \in DOMAIN queue[c] : queue[c][j] = e BY <2>1 DEF ToSet
    <3>2. \A k \in DOMAIN queue[c] : queue[c][k] = e => k = j
          BY <1>1, <3>1 DEF Delivery, IsInjective
    <3> QED BY <3>1, <3>2
  <2>2. e \notin ToSet(queue[c]) => Q = {} BY DEF ToSet
  <2> QED BY <1>6, <2>1, <2>2
<1>8. /\ (\E p \in Pushers : Sending(p, c) /\ ev[p] = e) => Cardinality(P) = 1
      /\ ~(\E p \in Pushers : Sending(p, c) /\ ev[p] = e) => Cardinality(P) = 0
  <2>1. ASSUME NEW p \in Pushers, Sending(p, c), ev[p] = e PROVE P = {p}
    <3>1. e # 0 BY <1>3 DEF Event
    <3>2. \A q \in Pushers : ev[q] = e => q = p BY <2>1, <3>1 DEF Inductive, Stamps
    <3> QED BY <2>1, <3>2 DEF Sending
  <2>2. ~(\E p \in Pushers : Sending(p, c) /\ ev[p] = e) => P = {} BY DEF Sending
  <2> QED BY <1>6, <2>1, <2>2
<1>9. Ways(c, e) = Cardinality(P) + Cardinality(Q) + (IF e \in received[c] THEN 1 ELSE 0)
                       + (IF e \in dropped[c] THEN 1 ELSE 0)
      BY DEF Ways
<1> HIDE DEF P, Q
<1>10. CASE i > since[c]
  <2>1. CASE e \in Had(c)
    <3>1. Cardinality(P) = 0 BY <1>1, <1>8, <2>1 DEF Delivery
    <3> QED BY <1>1, <1>3, <1>7, <1>9, <1>10, <2>1, <3>1 DEF Delivery, Had
  <2>2. CASE e \notin Had(c)
    <3>1. Cardinality(P) = 1 BY <1>1, <1>4, <1>5, <1>8, <1>10, <2>2 DEF Delivery
    <3> QED BY <1>3, <1>7, <1>9, <1>10, <2>2, <3>1 DEF Had
  <2> QED BY <2>1, <2>2
<1>11. CASE ~(i > since[c])
  <2>1. e \notin Had(c) BY <1>1, <1>5, <1>11 DEF Delivery
  <2>2. Cardinality(P) = 0 BY <1>1, <1>5, <1>8, <1>11 DEF Delivery
  <2> QED BY <1>3, <1>7, <1>9, <1>11, <2>1, <2>2 DEF Had
<1> QED BY <1>10, <1>11

(* Every event recorded after a Subscribe is on its way to the connection,   *)
(* in its channel, received or dropped, and is so in one way only.           *)
THEOREM EventsDeliveredOnce == Spec => []DeliveredOnce
<1> QED BY OnceEach, Invariance, PTL

(* --------------------- pushes that do not overlap ------------------------ *)
(* What Stream takes for granted of the log: while no two pushes overlap, an *)
(* event is its place in the log, and a channel hands the events on in that  *)
(* order.  (Two that overlap may record in one order and send in another.)   *)
Apart == \A p, q \in Pushers : pc[p] # "idle" /\ pc[q] # "idle" => p = q

Sorted(s) == \A i, j \in DOMAIN s : i < j => s[i] < s[j]
InOrder ==
    /\ \A i \in DOMAIN recorded : recorded[i] = i
    /\ \A c \in Connections :
           /\ Sorted(queue[c])
           /\ \A e \in received[c], f \in ToSet(queue[c]) : e < f

(* The push at work is about the last event of the log, or the next one; the *)
(* channels it has not come to yet have only earlier ones.                   *)
Taking(c) == received[c] \cup ToSet(queue[c])
AtWork ==
    /\ (\A p \in Pushers : pc[p] # "stamped") => clock = Len(recorded)
    /\ \A p \in Pushers :
           /\ pc[p] = "stamped" => ev[p] = Len(recorded) + 1 /\ clock = Len(recorded) + 1
           /\ pc[p] = "sending" => ev[p] = Len(recorded)
    /\ \A c \in Connections : \A e \in Taking(c) : e <= Len(recorded)
    /\ \A p \in Pushers, c \in Connections : Sending(p, c) =>
           \A e \in Taking(c) : e < Len(recorded)

Lone == Inductive /\ InOrder /\ AtWork

LEMMA SortedAppended ==
    ASSUME NEW s \in Seq(Event), NEW e \in Event, Sorted(s), \A f \in ToSet(s) : f < e
    PROVE  Sorted(Append(s, e))
<1>1. \A i \in DOMAIN s : s[i] < e BY DEF ToSet
<1>2. \A i, j \in DOMAIN s : i < j => s[i] < s[j] BY DEF Sorted
<1> QED BY <1>1, <1>2 DEF Sorted

LEMMA SortedTaken ==
    ASSUME NEW s \in Seq(Event), s # <<>>, Sorted(s)
    PROVE  Sorted(Tail(s)) /\ \A f \in ToSet(Tail(s)) : Head(s) < f
<1>1. \A i \in DOMAIN Tail(s) : Tail(s)[i] = s[i + 1] /\ i + 1 \in DOMAIN s /\ i \in Nat /\ 1 < i + 1
  OBVIOUS
<1>2. Head(s) = s[1] /\ 1 \in DOMAIN s OBVIOUS
<1>3. \A i, j \in DOMAIN s : i < j => s[i] < s[j] BY DEF Sorted
<1> HIDE DEF Sorted
<1>4. \A i, j \in DOMAIN Tail(s) : i < j => Tail(s)[i] < Tail(s)[j]
  BY ONLY <1>1, <1>3
<1>5. \A i \in DOMAIN Tail(s) : Head(s) < Tail(s)[i]
  BY ONLY <1>1, <1>2, <1>3
<1> QED BY <1>4, <1>5 DEF Sorted, ToSet

LEMMA LoneStarts == Init => Lone
<1> SUFFICES ASSUME Init PROVE Lone
    OBVIOUS
<1>1. Inductive BY InitHolds
<1>2. InOrder BY DEF Init, InOrder, Sorted, ToSet
<1>3. AtWork BY DEF Init, AtWork, Taking, Sending, ToSet
<1> QED BY <1>1, <1>2, <1>3 DEF Lone

LEMMA LoneStamp ==
    ASSUME Lone, Apart', NEW p \in Pushers, Stamp(p)
    PROVE  Lone'
<1>1. TypeOK /\ Inductive' BY StampKeeps DEF Lone, Inductive
<1>2. /\ UNCHANGED <<recorded, queue, received, todo>>
      /\ pc[p] = "idle" /\ ev' = [ev EXCEPT ![p] = clock'] /\ pc' = [pc EXCEPT ![p] = "stamped"]
      /\ clock' = clock + 1
      BY DEF Stamp, ring, history
<1>3. \A q \in Pushers : /\ pc'[q] = IF q = p THEN "stamped" ELSE pc[q]
                         /\ ev'[q] = IF q = p THEN clock + 1 ELSE ev[q]
      BY <1>1, <1>2 DEF TypeOK
<1>4. \A q \in Pushers : q # p => pc[q] = "idle"
      BY <1>3 DEF Apart
<1>5. clock = Len(recorded)
      BY <1>2, <1>4 DEF Lone, AtWork
<1>6. \A q \in Pushers, c \in Connections : ~Sending(q, c)'
      BY <1>3, <1>4 DEF Sending
<1>7. AtWork'
      BY <1>2, <1>3, <1>4, <1>5, <1>6 DEF Lone, AtWork, Taking
<1>8. InOrder' BY <1>2 DEF Lone, InOrder
<1> QED BY <1>1, <1>7, <1>8 DEF Lone

LEMMA LoneRecord ==
    ASSUME Lone, Apart, NEW p \in Pushers, Record(p)
    PROVE  Lone'
<1>1. TypeOK /\ Inductive' BY RecordKeeps DEF Lone, Inductive
<1>2. /\ UNCHANGED <<clock, queue, received>>
      /\ pc[p] = "stamped" /\ recorded' = Append(recorded, ev[p])
      BY DEF Record, history
<1>3. PICK n \in Nat : n = Len(recorded)
      BY <1>1 DEF TypeOK
<1>4. ev[p] = n + 1 /\ ev[p] \in Event
      BY <1>1, <1>2, <1>3 DEF Lone, AtWork, TypeOK, Inductive, Stamps
<1>5. /\ Len(recorded') = n + 1
      /\ \A i \in DOMAIN recorded' : recorded'[i] = i
  <2>1. recorded \in Seq(Event) /\ \A i \in DOMAIN recorded : recorded[i] = i
        BY <1>1 DEF TypeOK, Lone, InOrder
  <2> QED BY <1>2, <1>3, <1>4, <2>1
<1>6. \A q \in Pushers : /\ q # p => pc'[q] = "idle"
                         /\ pc'[q] # "stamped" /\ (pc'[q] = "sending" => ev'[q] = n + 1)
  <2>1. \A q \in Pushers : q # p => pc[q] = "idle" BY <1>2 DEF Apart
  <2>2. \/ pc' = [pc EXCEPT ![p] = "idle"]
        \/ pc' = [pc EXCEPT ![p] = "sending"] /\ UNCHANGED ev
        BY DEF Record, Leave
  <2> QED BY <1>1, <1>4, <2>1, <2>2 DEF TypeOK
<1>7. clock = n + 1
      BY <1>2, <1>3 DEF Lone, AtWork
<1>8. \A c \in Connections : \A e \in Taking(c) : e \in Nat /\ e <= n
      BY <1>1, <1>3 DEF Lone, AtWork, TypeOK, Taking, ToSet, Event
<1>9. \A c \in Connections : \A e \in Taking(c)' : e <= n + 1 /\ e < n + 1
      BY <1>2, <1>8 DEF Taking
<1>10. AtWork'
      BY <1>2, <1>5, <1>6, <1>7, <1>9 DEF AtWork
<1>11. InOrder' BY <1>2, <1>5 DEF Lone, InOrder
<1> QED BY <1>1, <1>10, <1>11 DEF Lone

LEMMA LoneSend ==
    ASSUME Lone, Apart, NEW p \in Pushers, Send(p)
    PROVE  Lone'
<1>1. TypeOK /\ Inductive' BY SendKeeps DEF Lone, Inductive
<1>2. todo[p] \in Seq(Connections) /\ todo[p] # <<>> /\ IsInjective(todo[p])
      BY <1>1 DEF TypeOK, Lone, Inductive, Lists, Send
<1>3. PICK d \in Connections : d = Head(todo[p])
      BY <1>2, Taken
<1>4. /\ UNCHANGED <<clock, recorded, received>>
      /\ pc[p] = "sending" /\ todo' = [todo EXCEPT ![p] = Tail(@)]
      /\ \/ queue' = [queue EXCEPT ![d] = Append(@, ev[p])]
         \/ UNCHANGED queue
      /\ \/ pc' = [pc EXCEPT ![p] = "idle"]
         \/ UNCHANGED <<pc, ev>>
      BY <1>3 DEF Send, Leave, ring
<1>5. d \in ToSet(todo[p]) /\ ToSet(todo[p]) = ToSet(Tail(todo[p])) \cup {d} /\ d \notin ToSet(Tail(todo[p]))
      BY <1>3, <1>2, Taken
<1>6. PICK n \in Nat : n = Len(recorded)
      BY <1>1 DEF TypeOK
<1>7. ev[p] = n /\ n \in Event
      BY <1>1, <1>4, <1>6 DEF Lone, AtWork, TypeOK, Inductive, Stamps
<1>8. \A q \in Pushers : /\ q # p => pc'[q] = "idle"
                         /\ pc'[q] # "stamped" /\ (pc'[q] = "sending" => ev'[q] = n)
  <2>1. \A q \in Pushers : q # p => pc[q] = "idle" BY <1>4 DEF Apart
  <2> QED BY <1>1, <1>4, <1>7, <2>1 DEF TypeOK
<1>9. clock = n
  <2>1. \A q \in Pushers : pc[q] # "stamped" BY <1>4 DEF Apart
  <2> QED BY <1>6, <2>1 DEF Lone, AtWork
<1>10. Sending(p, d) BY <1>4, <1>5 DEF Sending
<1>11. \A e \in Taking(d) : e < n BY <1>6, <1>10 DEF Lone, AtWork
<1>12. /\ \A c \in Connections \ {d} : queue'[c] = queue[c]
       /\ queue'[d] = queue[d] \/ queue'[d] = Append(queue[d], n)
       BY <1>1, <1>4, <1>7 DEF TypeOK
<1>13. /\ Sorted(queue'[d])
       /\ \A e \in received[d], f \in ToSet(queue'[d]) : e < f
       /\ \A e \in ToSet(queue'[d]) : e \in Taking(d) \/ e = n
  <2>1. /\ queue[d] \in Seq(Event) /\ Sorted(queue[d])
        /\ \A e \in received[d], f \in ToSet(queue[d]) : e < f
        BY <1>1 DEF TypeOK, Lone, InOrder
  <2>2. CASE queue'[d] = queue[d] BY <2>1, <2>2 DEF Taking
  <2>3. CASE queue'[d] = Append(queue[d], n)
    <3>1. ToSet(queue'[d]) = ToSet(queue[d]) \cup {n} BY <1>7, <2>1, <2>3, Appended
    <3>2. Sorted(queue'[d]) BY <1>7, <1>11, <2>1, <2>3, SortedAppended DEF Taking
    <3> QED BY <1>11, <2>1, <3>1, <3>2 DEF Taking
  <2> QED BY <1>12, <2>2, <2>3
<1>14. InOrder' BY <1>4, <1>12, <1>13 DEF Lone, InOrder
<1>15. \A q \in Pushers, c \in Connections : Sending(q, c)' => q = p /\ c # d /\ Sending(p, c)
       BY <1>1, <1>4, <1>5, <1>8 DEF Sending, TypeOK
<1>16. \A c \in Connections : \A e \in Taking(c)' : e <= n
  <2>1. \A c \in Connections : \A e \in Taking(c) : e <= n BY <1>6 DEF Lone, AtWork
  <2>2. \A c \in Connections : c # d => Taking(c)' = Taking(c) BY <1>4, <1>12 DEF Taking
  <2>3. \A e \in Taking(d)' : e \in Taking(d) \/ e = n BY <1>4, <1>13 DEF Taking
  <2> QED BY <2>1, <2>2, <2>3
<1>17. \A c \in Connections : c # d => Taking(c)' = Taking(c) BY <1>4, <1>12 DEF Taking
<1>18. \A q \in Pushers, c \in Connections : Sending(q, c)' => \A e \in Taking(c)' : e < n
       BY <1>6, <1>15, <1>17 DEF Lone, AtWork
<1>19. AtWork'
       BY <1>4, <1>6, <1>8, <1>9, <1>16, <1>18 DEF AtWork
<1> QED BY <1>1, <1>14, <1>19 DEF Lone

LEMMA LoneConnection ==
    ASSUME Lone, NEW c \in Connections, Subscribe(c) \/ Receive(c) \/ Unsubscribe(c)
    PROVE  Lone'
<1>1. TypeOK /\ Inductive' BY SubscribeKeeps, ReceiveKeeps, UnsubscribeKeeps DEF Lone, Inductive
<1>2. UNCHANGED <<clock, recorded, ev, todo, pc>>
      BY DEF Subscribe, Receive, Unsubscribe, pushing, ring
<1>3. \A d \in Connections :
          /\ Sorted(queue'[d]) /\ Taking(d)' \subseteq Taking(d)
          /\ \A e \in received'[d], f \in ToSet(queue'[d]) : e < f
  <2> TAKE d \in Connections
  <2>1. /\ queue[d] \in Seq(Event) /\ Sorted(queue[d])
        /\ \A e \in received[d], f \in ToSet(queue[d]) : e < f
        BY <1>1 DEF TypeOK, Lone, InOrder
  <2>2. CASE queue'[d] = queue[d] /\ received'[d] \subseteq received[d]
    BY <2>1, <2>2 DEF Taking
  <2>3. CASE d = c /\ Receive(c)
    <3>1. queue[c] # <<>> /\ queue'[c] = Tail(queue[c]) /\ received'[c] = received[c] \cup {Head(queue[c])}
          BY <1>1, <2>3 DEF Receive, TypeOK
    <3>2. Sorted(Tail(queue[c])) /\ \A f \in ToSet(Tail(queue[c])) : Head(queue[c]) < f
          BY <2>1, <2>3, <3>1, SortedTaken
    <3>3. ToSet(queue[c]) = ToSet(Tail(queue[c])) \cup {Head(queue[c])}
          BY <2>1, <2>3, <3>1, Taken
    <3> QED BY <2>1, <2>3, <3>1, <3>2, <3>3 DEF Taking
  <2>4. CASE d # c \/ ~Receive(c)
    <3>1. queue'[d] = queue[d] BY <1>1, <2>4 DEF Subscribe, Receive, Unsubscribe, TypeOK, ring
    <3>2. received'[d] \subseteq received[d]
          BY <1>1, <2>4 DEF Subscribe, Receive, Unsubscribe, TypeOK, history
    <3> QED BY <2>2, <3>1, <3>2
  <2> QED BY <2>3, <2>4
<1>4. InOrder' BY <1>2, <1>3 DEF Lone, InOrder
<1>5. \A p \in Pushers, d \in Connections : Sending(p, d)' <=> Sending(p, d)
      BY <1>2 DEF Sending
<1>6. AtWork' BY <1>2, <1>3, <1>5 DEF Lone, AtWork
<1> QED BY <1>1, <1>4, <1>6 DEF Lone

(* While no two pushes overlap, the log and every channel are in the order   *)
(* of the events, with nothing out of turn behind what was received.         *)
THEOREM ChannelsInOrder == Spec /\ []Apart => []InOrder
<1>1. Lone /\ Apart /\ Apart' /\ [Next]_vars => Lone'
  <2> SUFFICES ASSUME Lone, Apart, Apart', [Next]_vars PROVE Lone'
      OBVIOUS
  <2>1. ASSUME NEW p \in Pushers, Stamp(p) \/ Record(p) \/ Send(p) PROVE Lone'
        BY <2>1, LoneStamp, LoneRecord, LoneSend
  <2>2. ASSUME NEW c \in Connections, Subscribe(c) \/ Receive(c) \/ Unsubscribe(c)
        PROVE  Lone'
        BY <2>2, LoneConnection
  <2>3. CASE UNCHANGED vars
    <3>1. Inductive' BY <2>3, NextHolds DEF Lone
    <3>2. InOrder' BY <2>3 DEF vars, Lone, InOrder
    <3>3. /\ \A c \in Connections : Taking(c)' = Taking(c)
          /\ \A p \in Pushers, c \in Connections : Sending(p, c)' <=> Sending(p, c)
          BY <2>3 DEF vars, Taking, Sending
    <3>4. AtWork' BY <2>3, <3>3 DEF vars, Lone, AtWork
    <3> QED BY <3>1, <3>2, <3>4 DEF Lone
  <2> QED BY <2>1, <2>2, <2>3 DEF Next
<1>2. Lone => InOrder BY DEF Lone
<1> QED BY <1>1, <1>2, LoneStarts, PTL DEF Spec
=============================================================================
