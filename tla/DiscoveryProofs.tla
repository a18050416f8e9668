-------------------------- MODULE DiscoveryProofs ---------------------------
(* What a scan finds, what an import answers and what becomes of the source  *)
(* of a deleted tunnel, for any files, listings, links and spellings.        *)
EXTENDS Discovery, FiniteSetTheorems, WellFoundedInduction, TLAPS

(* ------------------------------- sequences ------------------------------- *)

(* Induction over the numbers, for a set instead of a predicate.             *)
LEMMA LeastOf ==
    ASSUME NEW T \in SUBSET Nat, T # {}
    PROVE  \E x \in T : \A y \in T : x <= y
<1>1. PICK x \in T : \A y \in T : <<y, x>> \notin OpToRel(<, Nat)
      BY NatLessThanWellFounded, WFMin
<1>2. \A y \in T : ~(y < x)
      BY <1>1 DEF OpToRel
<1> QED BY <1>2

LEMMA Counting ==
    ASSUME NEW S, 0 \in S, \A n \in Nat : n \in S => n + 1 \in S
    PROVE  Nat \subseteq S
<1> SUFFICES ASSUME Nat \ S # {} PROVE FALSE
    OBVIOUS
<1>1. PICK x \in Nat \ S : \A y \in Nat \ S : x <= y
      BY LeastOf
<1>2. x # 0 /\ x - 1 \in Nat /\ x - 1 \in S
      BY <1>1
<1> QED BY <1>1, <1>2

(* A definition by recursion over the numbers up to N has a solution.        *)
Solves(f, b, h, N) == f[0] = b /\ \A i \in 1 .. N : f[i] = h[i][f[i - 1]]

LEMMA Recursion ==
    ASSUME NEW D, NEW b \in D, NEW h \in [Nat -> [D -> D]], NEW N \in Nat
    PROVE  \E f \in [0 .. N -> D] : Solves(f, b, h, N)
<1> DEFINE S == {m \in Nat : \E f \in [0 .. m -> D] : Solves(f, b, h, m)}
<1>1. 0 \in S
  <2>1. [i \in 0 .. 0 |-> b] \in [0 .. 0 -> D] /\ Solves([i \in 0 .. 0 |-> b], b, h, 0)
        BY DEF Solves
  <2> QED BY ONLY <2>1, 0 \in Nat
<1>2. ASSUME NEW m \in Nat, m \in S PROVE m + 1 \in S
  <2>1. PICK f \in [0 .. m -> D] : Solves(f, b, h, m)
        BY <1>2
  <2>2. h[m + 1][f[m]] \in D
        OBVIOUS
  <2> DEFINE g == [i \in 0 .. (m + 1) |-> IF i <= m THEN f[i] ELSE h[m + 1][f[m]]]
  <2>3. g \in [0 .. (m + 1) -> D] /\ g[0] = b
        BY <2>1, <2>2 DEF Solves
  <2>4. ASSUME NEW i \in 1 .. m + 1 PROVE g[i] = h[i][g[i - 1]]
    <3>1. CASE i <= m
          BY <2>1, <3>1 DEF Solves
    <3>2. CASE i = m + 1
          BY <3>2
    <3> QED BY <3>1, <3>2
  <2> HIDE DEF g
  <2>5. m + 1 \in Nat /\ Solves(g, b, h, m + 1)
        BY <2>3, <2>4 DEF Solves
  <2> QED BY <2>3, <2>5
<1> HIDE DEF S
<1>3. N \in S
      BY <1>1, <1>2, Counting
<1> QED BY <1>3 DEF S

LEMMA Appended ==
    ASSUME NEW T, NEW s \in Seq(T), NEW e \in T
    PROVE  /\ Append(s, e) \in Seq(T) /\ Len(Append(s, e)) = Len(s) + 1
           /\ DOMAIN Append(s, e) = DOMAIN s \cup {Len(s) + 1}
           /\ \A i \in DOMAIN s : Append(s, e)[i] = s[i]
           /\ Append(s, e)[Len(s) + 1] = e
           /\ ToSet(Append(s, e)) = ToSet(s) \cup {e}
<1>1. /\ Append(s, e) \in Seq(T) /\ Len(Append(s, e)) = Len(s) + 1
      /\ DOMAIN Append(s, e) = DOMAIN s \cup {Len(s) + 1}
      /\ \A i \in DOMAIN s : Append(s, e)[i] = s[i]
      /\ Append(s, e)[Len(s) + 1] = e
      OBVIOUS
<1>2. ToSet(Append(s, e)) = ToSet(s) \cup {e}
      BY ONLY <1>1 DEF ToSet
<1> QED BY <1>1, <1>2

LEMMA Taken ==
    ASSUME NEW T, NEW s \in Seq(T), s # <<>>
    PROVE  /\ Head(s) \in T /\ Tail(s) \in Seq(T) /\ Len(Tail(s)) = Len(s) - 1
           /\ ToSet(s) = ToSet(Tail(s)) \cup {Head(s)}
           /\ IsInjective(s) => IsInjective(Tail(s)) /\ Head(s) \notin ToSet(Tail(s))
<1>1. /\ Tail(s) \in Seq(T) /\ Head(s) \in T /\ Head(s) = s[1] /\ 1 \in DOMAIN s
      /\ Len(Tail(s)) = Len(s) - 1
      OBVIOUS
<1>2. \A i \in DOMAIN Tail(s) :
          i + 1 \in DOMAIN s /\ i \in Nat /\ i # 0 /\ Tail(s)[i] = s[i + 1]
      OBVIOUS
<1>3. \A i \in DOMAIN s : i \in Nat /\ (i # 1 => i - 1 \in DOMAIN Tail(s))
      OBVIOUS
<1>4. \A i \in DOMAIN s : i # 1 => s[i] = Tail(s)[i - 1]
      BY <1>2, <1>3
<1>5. ToSet(s) = ToSet(Tail(s)) \cup {Head(s)}
      BY ONLY <1>1, <1>2, <1>3, <1>4 DEF ToSet
<1>6. ASSUME IsInjective(s) PROVE IsInjective(Tail(s)) /\ Head(s) \notin ToSet(Tail(s))
      BY ONLY <1>1, <1>2, <1>6 DEF ToSet, IsInjective
<1> QED BY <1>1, <1>5, <1>6

(* What visit keeps of a listing.                                            *)
LEMMA KeptIs ==
    ASSUME NEW T, NEW s \in Seq(T), NEW ok
    PROVE  Kept(s, ok) \in Seq(T) /\ ToSet(Kept(s, ok)) = ToSet(s) \cap ok
<1> DEFINE Round(out, i) == IF i = 0 THEN <<>>
                            ELSE IF s[i] \in ok THEN Append(out[i - 1], s[i])
                            ELSE out[i - 1]
           out == CHOOSE f : f = [i \in 0 .. Len(s) |-> Round(f, i)]
<1>1. \E f : f = [i \in 0 .. Len(s) |-> Round(f, i)]
  <2> DEFINE h == [i \in Nat |-> [q \in Seq(T) |->
                      IF i \in DOMAIN s /\ s[i] \in ok THEN Append(q, s[i]) ELSE q]]
  <2>1. h \in [Nat -> [Seq(T) -> Seq(T)]]
        BY Appended
  <2>2. <<>> \in Seq(T) /\ Len(s) \in Nat
        OBVIOUS
  <2>3. \A i \in 1 .. Len(s), q \in Seq(T) :
            h[i][q] = IF s[i] \in ok THEN Append(q, s[i]) ELSE q
        OBVIOUS
  <2> DEFINE D == Seq(T)
             N == Len(s)
  <2> HIDE DEF h
  <2>4. \E f \in [0 .. N -> D] : Solves(f, <<>>, h, N)
    <3>1. h \in [Nat -> [D -> D]] /\ <<>> \in D /\ N \in Nat
          BY <2>1, <2>2
    <3> HIDE DEF D, N
    <3> QED BY <3>1, Recursion
  <2>5. PICK f \in [0 .. N -> D] : f[0] = <<>> /\ \A i \in 1 .. N : f[i] = h[i][f[i - 1]]
        BY <2>4 DEF Solves
  <2>6. ASSUME NEW i \in 0 .. N PROVE f[i] = Round(f, i)
    <3>1. CASE i = 0
          BY <2>5, <3>1
    <3>2. CASE i # 0
      <4>1. i \in 1 .. N /\ i - 1 \in 0 .. N
            BY <2>2, <3>2
      <4>2. f[i] = h[i][f[i - 1]] /\ f[i - 1] \in Seq(T)
            BY <2>5, <4>1
      <4> QED BY <2>3, <3>2, <4>1, <4>2
    <3> QED BY <3>1, <3>2
  <2>7. f = [i \in 0 .. N |-> f[i]]
        OBVIOUS
  <2> QED BY <2>6, <2>7
<1>2. out = [i \in 0 .. Len(s) |-> Round(out, i)]
      BY <1>1
<1>3. Kept(s, ok) = out[Len(s)]
      BY DEF Kept
<1> HIDE DEF out
<1>4. \A i \in 0 .. Len(s) : out[i] = Round(out, i)
      BY <1>2
<1> DEFINE Right(i) == out[i] \in Seq(T) /\ ToSet(out[i]) = {s[j] : j \in 1 .. i} \cap ok
           S == {i \in Nat : i <= Len(s) => Right(i)}
<1>5. 0 \in S
  <2>1. out[0] = <<>>
        BY <1>4
  <2>2. ToSet(<<>>) = {} /\ <<>> \in Seq(T)
        BY DEF ToSet
  <2>3. {s[j] : j \in 1 .. 0} = {}
        OBVIOUS
  <2> QED BY <2>1, <2>2, <2>3
<1>6. ASSUME NEW i \in Nat, i \in S PROVE i + 1 \in S
  <2> SUFFICES ASSUME i + 1 <= Len(s) PROVE Right(i + 1)
      OBVIOUS
  <2>1. i + 1 \in 1 .. Len(s) /\ Right(i) /\ s[i + 1] \in T
        BY <1>6
  <2>2. out[i + 1] = IF s[i + 1] \in ok THEN Append(out[i], s[i + 1]) ELSE out[i]
        BY <1>4, <2>1
  <2>3. {s[j] : j \in 1 .. i + 1} = {s[j] : j \in 1 .. i} \cup {s[i + 1]}
    <3>1. 1 .. i + 1 = (1 .. i) \cup {i + 1}
          OBVIOUS
    <3> QED BY ONLY <3>1
  <2>4. Append(out[i], s[i + 1]) \in Seq(T)
        /\ ToSet(Append(out[i], s[i + 1])) = ToSet(out[i]) \cup {s[i + 1]}
        BY <2>1, Appended
  <2> QED BY <2>1, <2>2, <2>3, <2>4
<1> HIDE DEF S
<1>7. Len(s) \in S
  <2>1. Nat \subseteq S
        BY <1>5, <1>6, Counting
  <2> QED BY <2>1
<1>8. Right(Len(s)) /\ ToSet(s) = {s[j] : j \in 1 .. Len(s)}
      BY <1>7 DEF S, ToSet
<1> QED BY <1>3, <1>8

(* ---------------------------- the invariant ------------------------------ *)

USE DiscoveryAssumption

Hit == [path : Paths, source : {"process", "systemd", "filesystem"}]
FilesTyped ==
    /\ files \in [Paths -> Contents \cup {"link"}]
    /\ store \in [Names -> Paths \cup {Absent, Panel}]
    /\ source \in Paths \cup {Panel} /\ gone \cup since \subseteq Paths
    /\ names \in [Paths -> Names]
ScanTyped ==
    /\ stage \in 0 .. 3 /\ queue \in Seq(Texts) /\ (stage = 0 => queue = <<>>)
    /\ hits \in Seq(Hit) /\ IsFiniteSet(Found(hits))
    /\ shown \subseteq Paths /\ IsFiniteSet(shown)
ImportTyped == todo \in Seq(Paths) /\ imported \in Seq(Names)

(* A path of the import is answered or still to do, never both.              *)
Answering ==
    /\ IsInjective(todo) /\ failed \cap ToSet(todo) = {} /\ IsFiniteSet(failed)
    /\ EveryPathAnswered

(* The source of a deleted tunnel is no file any more, unless its delete is  *)
(* still at it.                                                              *)
Vanished ==
    /\ \A p \in gone : files[p] = "none" \/ (victim # None /\ source = p)
    /\ \A p \in since : files[p] = "none" /\ p \notin Found(hits)

(* Of a scan that nothing has disturbed: what the strategies so far must     *)
(* have found, and what they may have.                                       *)
Process == Spelled(Processes)
Systemd == Spelled(Units)
Between(low, high) == Usable(low) \subseteq Found(hits) /\ Found(hits) \subseteq Usable(high)
Sourced ==
    \A h \in ToSet(hits) : /\ h.source = "process" <=> h.path \in Process
                           /\ h.source = "systemd" <=> h.path \in Systemd \ Process
Once == \A i, j \in DOMAIN hits : hits[i].path = hits[j].path => i = j
Asked(sure, now, maybe) ==
    /\ Spelled(queue) \subseteq now \cup maybe
    /\ Between(sure \cup (now \ Spelled(queue)), sure \cup now \cup maybe)
Scanning ==
    /\ Once
    /\ quiet /\ stage # 0 =>
           /\ Sourced
           /\ stage = 1 => Asked({}, Process, {})
           /\ stage = 2 => Asked(Process, Systemd, {})
           /\ stage = 3 => Asked(Process \cup Systemd, Listed(Known), Listed(Tree))
Inductive == FilesTyped /\ ScanTyped /\ ImportTyped /\ Answering /\ Vanished /\ Scanning

LEMMA Empty == ToSet(<<>>) = {} /\ Spelled(<<>>) = {} /\ Found(<<>>) = {}
BY DEF ToSet, Spelled, Found

LEMMA Listings ==
    /\ Processes \in Seq(Texts) /\ Units \in Seq(Texts)
    /\ Known \in Seq(Paths) /\ Tree \in Seq(Paths)
OBVIOUS

LEMMA InitHolds == Init => Inductive
<1> SUFFICES ASSUME Init PROVE Inductive
    OBVIOUS
<1>0. IsFiniteSet({}) /\ Cardinality({}) = 0
      BY FS_EmptySet
<1>1. FilesTyped
  <2>1. files \in [Paths -> Contents \cup {"link"}]
        BY DEF Init
  <2>2. store \in [Names -> Paths \cup {Absent, Panel}]
        BY DEF Init
  <2> QED BY <2>1, <2>2 DEF Init, FilesTyped
<1>2. ScanTyped
  <2>1. Found(hits) = {} /\ hits \in Seq(Hit) /\ queue \in Seq(Texts)
        BY Empty DEF Init
  <2>2. IsFiniteSet(Found(hits)) /\ IsFiniteSet(shown) /\ shown \subseteq Paths
        BY <1>0, <2>1 DEF Init
  <2>3. stage = 0 /\ queue = <<>>
        BY DEF Init
  <2> QED BY <2>1, <2>2, <2>3 DEF ScanTyped
<1>3. ImportTyped
      BY DEF Init, ImportTyped
<1>4. IsInjective(<<>>)
      BY DEF IsInjective
<1>5. Answering
      BY <1>0, <1>4, Empty DEF Init, Answering, EveryPathAnswered
<1>6. Vanished
      BY DEF Init, Vanished
<1>7. Scanning
      BY DEF Init, Scanning, Once
<1> QED BY <1>1, <1>2, <1>3, <1>5, <1>6, <1>7 DEF Inductive

(* What the actions that leave a part alone have in common.                  *)
LEMMA ScanningStays ==
    ASSUME Scanning, UNCHANGED scan, ~quiet' \/ UNCHANGED <<files, quiet>>
    PROVE  Scanning'
<1> USE DEF scan
<1>1. Once'
      BY DEF Scanning, Once
<1>2. CASE ~quiet'
      BY <1>1, <1>2 DEF Scanning
<1>3. CASE UNCHANGED <<files, quiet>>
      BY <1>1, <1>3 DEF Scanning, Sourced, Asked, Between, Usable, Listed, HasMode, LooksLike,
                        Content
<1> QED BY <1>2, <1>3

LEMMA ScanTypedStays == ASSUME ScanTyped, UNCHANGED <<scan, shown>> PROVE ScanTyped'
BY DEF ScanTyped, scan, Found

LEMMA AnsweringStays ==
    ASSUME Answering, ImportTyped, UNCHANGED import
    PROVE  Answering' /\ ImportTyped'
BY DEF Answering, EveryPathAnswered, ImportTyped, import

LEMMA FilesStay ==
    ASSUME FilesTyped, UNCHANGED <<files, store, names, delete>>, since' \subseteq gone \cup since
    PROVE  FilesTyped'
BY DEF FilesTyped, delete

LEMMA VanishedStays ==
    ASSUME Vanished, UNCHANGED <<files, hits, delete, since>>
    PROVE  Vanished'
BY DEF Vanished, delete, Found

LEMMA FoundArePaths == ASSUME ScanTyped PROVE Found(hits) \subseteq Paths
<1>1. \A i \in DOMAIN hits : hits[i] \in Hit
      BY DEF ScanTyped
<1> QED BY <1>1 DEF Found, Hit

(* ------------------------------- the scan -------------------------------- *)

LEMMA ScanKeeps == ASSUME Inductive, Scan PROVE Inductive'
<1> USE DEF Scan
<1>1. FilesTyped' /\ Answering' /\ ImportTyped'
      BY FilesStay, AnsweringStays DEF Inductive, import
<1>2. ScanTyped'
  <2>1. IsFiniteSet(Found(hits)')
        BY FS_EmptySet, Empty
  <2>2. queue' \in Seq(Texts) /\ hits' \in Seq(Hit)
        BY Listings
  <2> QED BY <2>1, <2>2 DEF Inductive, ScanTyped
<1>3. Vanished'
      BY Empty DEF Inductive, Vanished, delete
<1>4. Scanning'
  <2>1. Once' /\ Sourced'
        BY Empty DEF Once, Sourced
  <2>2. Spelled(queue)' = Process
        BY DEF Process, Spelled
  <2>3. Found(hits)' = {}
        BY Empty
  <2>4. Asked({}, Process, {})'
        BY <2>2, <2>3 DEF Asked, Between, Usable, Process, Spelled
  <2> QED BY <2>1, <2>4 DEF Scanning
<1> QED BY <1>1, <1>2, <1>3, <1>4 DEF Inductive

LEMMA StrategyFailsKeeps == ASSUME Inductive, StrategyFails PROVE Inductive'
<1> USE DEF StrategyFails
<1>1. FilesTyped' /\ Answering' /\ ImportTyped' /\ Vanished'
      BY FilesStay, AnsweringStays, VanishedStays DEF Inductive, import
<1>2. ScanTyped'
      BY DEF Inductive, ScanTyped, Found
<1>3. Scanning'
      BY DEF Inductive, Scanning, Once
<1> QED BY <1>1, <1>2, <1>3 DEF Inductive

LEMMA UnreadableKeeps == ASSUME Inductive, Unreadable PROVE Inductive'
<1> USE DEF Unreadable
<1>1. FilesTyped' /\ Answering' /\ ImportTyped' /\ Vanished'
      BY FilesStay, AnsweringStays, VanishedStays DEF Inductive, import
<1>2. ScanTyped'
      BY DEF Inductive, ScanTyped, Found
<1>3. Scanning'
      BY DEF Inductive, Scanning, Once
<1> QED BY <1>1, <1>2, <1>3 DEF Inductive

LEMMA FinishKeeps == ASSUME Inductive, Finish PROVE Inductive'
<1> USE DEF Finish
<1>1. FilesTyped' /\ Answering' /\ ImportTyped' /\ Vanished'
      BY FilesStay, AnsweringStays, VanishedStays DEF Inductive, import
<1>2. ScanTyped'
  <2>1. Found(hits) \subseteq Paths
        BY FoundArePaths DEF Inductive
  <2>2. Found(hits)' = Found(hits)
        BY DEF Found
  <2> QED BY <2>1, <2>2 DEF Inductive, ScanTyped
<1>3. Scanning'
      BY DEF Inductive, Scanning, Once
<1> QED BY <1>1, <1>2, <1>3 DEF Inductive

(* What find and the known directories give the scan.                        *)
LEMMA VisitedIs ==
    ASSUME NEW q \in Visited
    PROVE  /\ q \in Seq(Texts)
           /\ Listed(Known) \subseteq Spelled(q)
           /\ Spelled(q) \subseteq Listed(Known) \cup Listed(Tree)
<1> DEFINE known == Kept(Known, Listed(Known))
           tree == Kept(Tree, {p \in Listed(Tree) : files[p] # "link"})
<1>1. known \in Seq(Paths) /\ ToSet(known) = Listed(Known)
  <2>1. known \in Seq(Paths) /\ ToSet(known) = ToSet(Known) \cap Listed(Known)
        BY Listings, KeptIs
  <2> QED BY <2>1 DEF Listed
<1>2. tree \in Seq(Paths) /\ ToSet(tree) \subseteq Listed(Tree)
  <2>1. tree \in Seq(Paths)
        /\ ToSet(tree) = ToSet(Tree) \cap {p \in Listed(Tree) : files[p] # "link"}
        BY Listings, KeptIs
  <2> HIDE DEF tree
  <2> QED BY <2>1
<1>0. Visited = IF Len(known) >= Plenty THEN {known}
                ELSE {known \o SubSeq(tree, 1, k) : k \in 0 .. Len(tree)}
      BY DEF Visited
<1> HIDE DEF known, tree
<1>3. q = known \/ \E k \in 0 .. Len(tree) : q = known \o SubSeq(tree, 1, k)
  <2>1. CASE Len(known) >= Plenty
        BY <1>0, <2>1
  <2>2. CASE ~(Len(known) >= Plenty)
    <3>1. q \in {known \o SubSeq(tree, 1, k) : k \in 0 .. Len(tree)}
          BY <1>0, <2>2
    <3> QED BY ONLY <3>1
  <2> QED BY <2>1, <2>2
<1>4. q \in Seq(Paths) /\ ToSet(known) \subseteq ToSet(q)
      /\ ToSet(q) \subseteq ToSet(known) \cup ToSet(tree)
  <2>1. CASE q = known
        BY <1>1, <2>1
  <2>2. ASSUME NEW k \in 0 .. Len(tree), q = known \o SubSeq(tree, 1, k)
        PROVE  q \in Seq(Paths) /\ ToSet(known) \subseteq ToSet(q)
               /\ ToSet(q) \subseteq ToSet(known) \cup ToSet(tree)
    <3>1. /\ SubSeq(tree, 1, k) \in Seq(Paths) /\ Len(SubSeq(tree, 1, k)) = k
          /\ \A i \in 1 .. k : i \in DOMAIN tree /\ SubSeq(tree, 1, k)[i] = tree[i]
          BY <1>2
    <3> DEFINE rest == SubSeq(tree, 1, k)
    <3>a. k \in Nat /\ known \in Seq(Paths) /\ rest \in Seq(Paths) /\ Len(rest) = k
          BY <1>1, <3>1
    <3>b. q = known \o rest
          BY <2>2
    <3> HIDE DEF rest
    <3>2. /\ q \in Seq(Paths) /\ Len(q) = Len(known) + k
          /\ \A i \in DOMAIN known : i \in DOMAIN q /\ q[i] = known[i]
          BY ONLY <3>a, <3>b
    <3>3. ASSUME NEW i \in DOMAIN q
          PROVE  \/ i \in DOMAIN known /\ q[i] = known[i]
                 \/ i - Len(known) \in 1 .. k /\ q[i] = rest[i - Len(known)]
          BY ONLY <3>a, <3>b, i \in DOMAIN q
    <3> QED BY ONLY <3>1, <3>2, <3>3 DEF ToSet, rest
  <2> QED BY <1>3, <2>1, <2>2
<1>5. Spelled(q) = ToSet(q)
  <2>1. ToSet(q) \subseteq Paths
        BY <1>4 DEF ToSet
  <2> QED BY <2>1 DEF Spelled
<1>6. q \in Seq(Texts)
  <2>1. \A i \in DOMAIN q : q[i] \in Texts
        BY <1>4
  <2> QED BY <1>4, <2>1
<1> QED BY <1>1, <1>2, <1>4, <1>5, <1>6

LEMMA NextStrategyKeeps == ASSUME Inductive, NextStrategy PROVE Inductive'
<1> USE DEF NextStrategy
<1>1. FilesTyped' /\ Answering' /\ ImportTyped' /\ Vanished'
      BY FilesStay, AnsweringStays, VanishedStays DEF Inductive, import
<1>2. ScanTyped'
  <2>1. queue' \in Seq(Texts)
        BY Listings, VisitedIs
  <2> QED BY <2>1 DEF Inductive, ScanTyped, Found
<1>3. Once' /\ Found(hits)' = Found(hits)
      BY DEF Inductive, Scanning, Once, Found
<1>4. Spelled(queue) = {}
      BY Empty
<1>5. ASSUME quiet' PROVE Sourced'
      BY <1>5 DEF Inductive, Scanning, Sourced
<1>6. ASSUME quiet', stage = 1 PROVE Asked(Process, Systemd, {})'
  <2>1. Between(Process, Process)
        BY <1>4, <1>6 DEF Inductive, Scanning, Asked, Between, Usable
  <2>2. Spelled(queue)' = Systemd
        BY <1>6 DEF Spelled, Systemd
  <2>3. UNCHANGED <<Process, Systemd>>
        BY DEF Process, Systemd, Spelled
  <2> QED BY <1>3, <2>1, <2>2, <2>3 DEF Asked, Between, Usable, HasMode, Content
<1>7. ASSUME quiet', stage = 2
      PROVE  Asked(Process \cup Systemd, Listed(Known), Listed(Tree))'
  <2>1. Between(Process \cup Systemd, Process \cup Systemd)
        BY <1>4, <1>7 DEF Inductive, Scanning, Asked, Between, Usable
  <2>2. /\ Listed(Known) \subseteq Spelled(queue')
        /\ Spelled(queue') \subseteq Listed(Known) \cup Listed(Tree)
        BY <1>7, VisitedIs
  <2>3. UNCHANGED <<Process, Systemd, Listed(Known), Listed(Tree)>>
        BY DEF Process, Systemd, Spelled, Listed, LooksLike, Content
  <2>4. Spelled(queue)' = Spelled(queue')
        BY DEF Spelled
  <2> QED BY <1>3, <2>1, <2>2, <2>3, <2>4 DEF Asked, Between, Usable, HasMode, Content
<1>8. Scanning'
      BY <1>3, <1>5, <1>6, <1>7 DEF Scanning
<1> QED BY <1>1, <1>2, <1>8 DEF Inductive


(* What addHit does to the result and to the candidates left.                *)
LEMMA Added ==
    ASSUME FilesTyped, ScanTyped, AddHit
    PROVE  /\ Abs[Head(queue)] \in Spelled(queue)
           /\ Spelled(queue) = Spelled(queue)' \cup {Abs[Head(queue)]}
           /\ Found(hits)' = Found(hits) \cup Usable({Abs[Head(queue)]})
           /\ ScanTyped' /\ stage \in 1 .. 3
           /\ \/ UNCHANGED hits
              \/ /\ Abs[Head(queue)] \in Usable({Abs[Head(queue)]}) \ Found(hits)
                 /\ hits' = Append(hits, [path |-> Abs[Head(queue)],
                                          source |-> Strategies[stage]])
                 /\ Abs[Head(queue)] \in Paths
                 /\ [path |-> Abs[Head(queue)], source |-> Strategies[stage]] \in Hit
<1> USE DEF AddHit
<1>1. /\ Head(queue) \in Texts /\ Tail(queue) \in Seq(Texts)
      /\ ToSet(queue) = ToSet(Tail(queue)) \cup {Head(queue)}
      BY Taken DEF ScanTyped
<1>2. PICK p : p = Abs[Head(queue)]
      OBVIOUS
<1>3. p \in Paths \cup Own
      BY <1>1, <1>2
<1>4. p \in Spelled(queue) /\ Spelled(queue) = Spelled(queue)' \cup {p}
      BY <1>1, <1>2 DEF Spelled
<1>5. stage \in 1 .. 3
      BY DEF ScanTyped
<1>6. PICK hit : hit = [path |-> p, source |-> Strategies[stage]]
      OBVIOUS
<1>7. hit.path = p /\ (p \in Paths => hit \in Hit)
  <2>1. Strategies[stage] \in {"process", "systemd", "filesystem"}
        BY <1>5 DEF Strategies
  <2> QED BY <1>6, <2>1 DEF Hit
<1>8. CASE p \in Own \/ p \in Found(hits) \/ ~HasMode(p)
  <2>1. hits' = hits
        BY <1>2, <1>8
  <2>2. Found(hits)' = Found(hits) /\ Usable({p}) \subseteq Found(hits)
        BY <1>8, <2>1 DEF Found, Usable
  <2>3. ScanTyped'
        BY <1>1, <1>5, <2>1, <2>2 DEF ScanTyped
  <2> QED BY <1>2, <1>4, <1>5, <2>1, <2>2, <2>3
<1>9. CASE ~(p \in Own \/ p \in Found(hits) \/ ~HasMode(p))
  <2>1. hits' = Append(hits, hit) /\ p \in Paths /\ Usable({p}) = {p} /\ p \notin Found(hits)
        BY <1>2, <1>3, <1>6, <1>9 DEF Usable
  <2>2. hits \in Seq(Hit) /\ hit \in Hit
        BY <1>7, <2>1 DEF ScanTyped
  <2>3. /\ hits' \in Seq(Hit) /\ DOMAIN hits' = DOMAIN hits \cup {Len(hits) + 1}
        /\ \A i \in DOMAIN hits : hits'[i] = hits[i]
        /\ hits'[Len(hits) + 1] = hit
        BY <2>1, <2>2, Appended
  <2>4. Found(hits)' = Found(hits) \cup {p}
        BY <1>7, <2>3 DEF Found
  <2>5. IsFiniteSet(Found(hits)')
    <3>1. IsFiniteSet(Found(hits))
          BY DEF ScanTyped
    <3>2. IsFiniteSet(Found(hits) \cup {p})
          BY <3>1, FS_AddElement
    <3> QED BY <2>4, <3>2
  <2>6. ScanTyped'
        BY <1>1, <1>5, <2>3, <2>5 DEF ScanTyped
  <2> QED BY <1>2, <1>4, <1>5, <1>6, <2>1, <2>2, <2>4, <2>6
<1> QED BY <1>8, <1>9

LEMMA AddHitKeeps == ASSUME Inductive, AddHit PROVE Inductive'
<1>u. UNCHANGED <<files, store, stage, import, delete, shown, bounds, quiet, since>>
      BY DEF AddHit
<1>1. FilesTyped' /\ Answering' /\ ImportTyped'
      BY <1>u, FilesStay, AnsweringStays DEF Inductive, import
<1>2. PICK p : p = Abs[Head(queue)]
      OBVIOUS
<1>3. /\ p \in Spelled(queue) /\ Spelled(queue) = Spelled(queue)' \cup {p}
      /\ Found(hits)' = Found(hits) \cup Usable({p})
      /\ ScanTyped' /\ stage \in 1 .. 3
      /\ \/ UNCHANGED hits
         \/ /\ p \in Usable({p}) \ Found(hits) /\ p \in Paths
            /\ hits' = Append(hits, [path |-> p, source |-> Strategies[stage]])
            /\ [path |-> p, source |-> Strategies[stage]] \in Hit
      BY <1>2, Added DEF Inductive
<1>4. Vanished'
  <2>1. \A q \in since : q \notin Usable({p})
        BY DEF Inductive, Vanished, Usable, HasMode, Content
  <2> QED BY <1>u, <1>3, <2>1 DEF Inductive, Vanished, delete
<1>5. Once'
  <2>1. Once /\ hits \in Seq(Hit)
        BY DEF Inductive, Scanning, ScanTyped
  <2>2. CASE UNCHANGED hits
        BY <2>1, <2>2 DEF Once
  <2>3. ASSUME NEW hit \in Hit, hit.path = p, p \notin Found(hits), hits' = Append(hits, hit)
        PROVE  Once'
    <3>1. /\ DOMAIN hits' = DOMAIN hits \cup {Len(hits) + 1}
          /\ \A i \in DOMAIN hits : hits'[i] = hits[i]
          /\ hits'[Len(hits) + 1] = hit
          BY <2>1, <2>3, Appended
    <3> QED BY <2>1, <2>3, <3>1 DEF Once, Found
  <2> QED BY <1>3, <2>2, <2>3
<1>6. /\ \A S, x : x \in Usable(S) <=> x \in S /\ x \notin Own /\ HasMode(x)
      BY <1>u DEF Usable, HasMode, Content
<1>l. PICK left, found : left = Spelled(queue)' /\ found = Found(hits)'
      OBVIOUS
<1>7. UNCHANGED <<Process, Systemd, Listed(Known), Listed(Tree)>>
      BY <1>u DEF Process, Systemd, Spelled, Listed, LooksLike, Content
<1>8. ASSUME NEW sure, NEW now, NEW maybe, Asked(sure, now, maybe)
      PROVE  /\ left \subseteq now \cup maybe
             /\ Usable(sure \cup (now \ left)) \subseteq found
             /\ found \subseteq Usable(sure \cup now \cup maybe)
             /\ p \in Usable({p}) \ Found(hits) => p \in (now \cup maybe) \ sure
  <2>1. /\ Spelled(queue) \subseteq now \cup maybe
        /\ Usable(sure \cup (now \ Spelled(queue))) \subseteq Found(hits)
        /\ Found(hits) \subseteq Usable(sure \cup now \cup maybe)
        BY <1>8 DEF Asked, Between
  <2>2. Spelled(queue) = left \cup {p} /\ found = Found(hits) \cup Usable({p})
        BY <1>3, <1>l
  <2>3. left \subseteq now \cup maybe /\ p \in now \cup maybe
        BY <2>1, <2>2
  <2>4. Usable(sure \cup (now \ left)) \subseteq found
        BY ONLY <1>6, <2>1, <2>2
  <2>5. found \subseteq Usable(sure \cup now \cup maybe)
        BY ONLY <1>6, <2>1, <2>2, <2>3
  <2>6. p \in Usable({p}) \ Found(hits) => p \notin sure
        BY ONLY <1>6, <2>1
  <2> QED BY <2>3, <2>4, <2>5, <2>6
<1>9. ASSUME quiet' PROVE Sourced'
  <2>1. quiet /\ stage # 0 /\ Sourced
        BY <1>u, <1>3, <1>9 DEF Inductive, Scanning
  <2>2. ASSUME p \in Usable({p}) \ Found(hits)
        PROVE  /\ stage = 1 => p \in Process
               /\ stage = 2 => p \in Systemd \ Process
               /\ stage = 3 => p \notin Process \cup Systemd
    <3>1. CASE stage = 1
          BY <1>8, <2>1, <2>2, <3>1 DEF Inductive, Scanning
    <3>2. CASE stage = 2
          BY <1>8, <2>1, <2>2, <3>2 DEF Inductive, Scanning
    <3>3. CASE stage = 3
          BY <1>8, <2>1, <2>2, <3>3 DEF Inductive, Scanning
    <3> QED BY <1>3, <3>1, <3>2, <3>3
  <2>3. CASE UNCHANGED hits
        BY <1>7, <2>1, <2>3 DEF Sourced
  <2>4. ASSUME NEW hit \in Hit, hit = [path |-> p, source |-> Strategies[stage]],
               p \in Usable({p}) \ Found(hits), hits' = Append(hits, hit)
        PROVE  Sourced'
    <3>1. ToSet(hits') = ToSet(hits) \cup {hit}
          BY <2>4, Appended DEF Inductive, ScanTyped
    <3>2. /\ hit.source = "process" <=> hit.path \in Process
          /\ hit.source = "systemd" <=> hit.path \in Systemd \ Process
          BY <1>3, <2>2, <2>4 DEF Strategies
    <3> QED BY <1>7, <2>1, <3>1, <3>2 DEF Sourced
  <2> QED BY <1>3, <2>3, <2>4
<1>10. Scanning'
  <2> SUFFICES ASSUME quiet', stage' # 0
               PROVE  /\ stage' = 1 => Asked({}, Process, {})'
                      /\ stage' = 2 => Asked(Process, Systemd, {})'
                      /\ stage' = 3 => Asked(Process \cup Systemd, Listed(Known), Listed(Tree))'
      BY <1>5, <1>9 DEF Scanning
  <2>0. quiet /\ stage # 0 /\ stage' = stage
        BY <1>u
  <2>1. CASE stage = 1
    <3>1. Asked({}, Process, {})
          BY <2>0, <2>1 DEF Inductive, Scanning
    <3>2. /\ left \subseteq Process \cup {}
          /\ Usable({} \cup (Process \ left)) \subseteq found
          /\ found \subseteq Usable({} \cup Process \cup {})
          BY <1>8, <3>1
    <3>3. files' = files
          BY <1>u
    <3> QED BY ONLY <1>7, <1>l, <2>0, <2>1, <3>2, <3>3
            DEF Asked, Between, Usable, HasMode, Content
  <2>2. CASE stage = 2
    <3>1. Asked(Process, Systemd, {})
          BY <2>0, <2>2 DEF Inductive, Scanning
    <3>2. /\ left \subseteq Systemd \cup {}
          /\ Usable(Process \cup (Systemd \ left)) \subseteq found
          /\ found \subseteq Usable(Process \cup Systemd \cup {})
          BY <1>8, <3>1
    <3>3. files' = files
          BY <1>u
    <3> QED BY ONLY <1>7, <1>l, <2>0, <2>2, <3>2, <3>3
            DEF Asked, Between, Usable, HasMode, Content
  <2>3. CASE stage = 3
    <3>1. Asked(Process \cup Systemd, Listed(Known), Listed(Tree))
          BY <2>0, <2>3 DEF Inductive, Scanning
    <3>0. PICK sure, now, maybe : /\ sure = Process \cup Systemd
                                  /\ now = Listed(Known) /\ maybe = Listed(Tree)
          OBVIOUS
    <3>a. Asked(sure, now, maybe)
          BY <3>0, <3>1
    <3>2. /\ left \subseteq now \cup maybe
          /\ Usable(sure \cup (now \ left)) \subseteq found
          /\ found \subseteq Usable(sure \cup now \cup maybe)
          BY ONLY <1>8, <3>a
    <3>3. files' = files
          BY <1>u
    <3> QED BY ONLY <1>7, <1>l, <2>0, <2>3, <3>0, <3>2, <3>3
            DEF Asked, Between, Usable, HasMode, Content
  <2> QED BY <1>3, <2>0, <2>1, <2>2, <2>3
<1> QED BY <1>1, <1>3, <1>4, <1>10 DEF Inductive

(* ---------------------- import, delete, operators ------------------------ *)

(* What the actions beside the scan keep of it.                              *)
LEMMA ScanGoesOn ==
    ASSUME Inductive, UNCHANGED <<scan, shown>>, ~quiet' \/ UNCHANGED <<files, quiet>>
    PROVE  ScanTyped' /\ Scanning'
BY ScanTypedStays, ScanningStays DEF Inductive

LEMMA ImportKeeps == ASSUME Inductive, Import PROVE Inductive'
<1> USE DEF Import
<1>1. ScanTyped' /\ Scanning' /\ Vanished'
      BY ScanGoesOn, VanishedStays DEF Inductive, scan
<1>2. FilesTyped'
      BY DEF Inductive, FilesTyped, delete
<1>3. PICK ps \in SUBSET shown : asked' = ps /\ todo' \in SetToSeqs(ps)
      OBVIOUS
<1>4. IsFiniteSet(ps) /\ Cardinality(ps) \in Nat /\ ps \subseteq Paths
  <2>1. shown \subseteq Paths /\ IsFiniteSet(shown)
        BY DEF Inductive, ScanTyped
  <2>2. IsFiniteSet(ps)
        BY <2>1, FS_Subset
  <2> QED BY <2>1, <2>2, FS_CardinalityType
<1>5. todo' \in [1 .. Cardinality(ps) -> ps] /\ IsInjective(todo')
      BY <1>3 DEF SetToSeqs, IsInjective
<1>6. todo' \in Seq(Paths) /\ Len(todo') = Cardinality(ps)
      BY <1>4, <1>5
<1>7. Answering' /\ ImportTyped'
  <2>1. IsFiniteSet({}) /\ Cardinality({}) = 0
        BY FS_EmptySet
  <2>2. IsInjective(todo)' /\ failed' = {} /\ imported' = <<>>
        BY <1>5
  <2> QED BY <1>3, <1>4, <1>6, <2>1, <2>2 DEF Answering, EveryPathAnswered, ImportTyped
<1> QED BY <1>1, <1>2, <1>7 DEF Inductive

LEMMA ImportOneKeeps == ASSUME Inductive, ImportOne PROVE Inductive'
<1>u. todo # <<>> /\ todo' = Tail(todo)
      /\ UNCHANGED <<files, scan, names, asked, delete, shown, bounds, quiet, since>>
      BY DEF ImportOne
<1>1. ScanTyped' /\ Scanning' /\ Vanished'
      BY <1>u, ScanGoesOn, VanishedStays DEF Inductive, scan
<1>2. PICK p : p = Head(todo)
      OBVIOUS
<1>3. /\ p \in Paths /\ todo' \in Seq(Paths) /\ Len(todo') = Len(todo) - 1 /\ Len(todo) \in Nat
      /\ ToSet(todo) = ToSet(todo') \cup {p}
      /\ IsInjective(todo') /\ p \notin ToSet(todo')
      BY <1>u, <1>2, Taken DEF Inductive, ImportTyped, Answering
<1>4. /\ p \notin failed /\ failed \cap ToSet(todo') = {}
      /\ IsFiniteSet(failed) /\ Cardinality(failed) \in Nat
      /\ imported \in Seq(Names) /\ Len(imported) \in Nat
      /\ Len(imported) + Cardinality(failed) + Len(todo) = Cardinality(asked)
      BY <1>3, FS_CardinalityType DEF Inductive, ImportTyped, Answering, EveryPathAnswered
<1>5. names[p] \in Names
      BY <1>3 DEF Inductive, FilesTyped
<1>6. CASE /\ store' = [store EXCEPT ![names[p]] = p]
           /\ imported' = Append(imported, names[p]) /\ UNCHANGED failed
  <2>1. FilesTyped'
        BY <1>u, <1>3, <1>6 DEF Inductive, FilesTyped, delete
  <2>2. imported' \in Seq(Names) /\ Len(imported') = Len(imported) + 1
        BY <1>4, <1>5, <1>6, Appended
  <2>3. EveryPathAnswered'
        BY <1>u, <1>3, <1>4, <1>6, <2>2 DEF EveryPathAnswered
  <2>4. failed' \cap ToSet(todo)' = {} /\ IsFiniteSet(failed)'
        BY <1>u, <1>3, <1>4, <1>6, <2>2
  <2>5. Answering' /\ ImportTyped'
        BY <1>u, <1>3, <1>4, <1>6, <2>2, <2>3, <2>4 DEF Answering, ImportTyped
  <2> QED BY <1>1, <2>1, <2>5 DEF Inductive
<1>7. CASE failed' = failed \cup {p} /\ UNCHANGED <<store, imported>>
  <2>1. FilesTyped'
        BY <1>u, <1>7 DEF Inductive, FilesTyped, delete
  <2>2. IsFiniteSet(failed') /\ Cardinality(failed') = Cardinality(failed) + 1
        BY <1>4, <1>7, FS_AddElement
  <2>3. EveryPathAnswered'
        BY <1>u, <1>3, <1>4, <1>7, <2>2 DEF EveryPathAnswered
  <2>4. failed' \cap ToSet(todo)' = {} /\ IsFiniteSet(failed)'
        BY <1>u, <1>3, <1>4, <1>7, <2>2
  <2>5. Answering' /\ ImportTyped'
        BY <1>u, <1>3, <1>4, <1>7, <2>2, <2>3, <2>4 DEF Answering, ImportTyped
  <2> QED BY <1>1, <2>1, <2>5 DEF Inductive
<1> QED BY <1>2, <1>6, <1>7 DEF ImportOne

LEMMA CreateKeeps == ASSUME Inductive, NEW n \in Names, Create(n) PROVE Inductive'
<1> USE DEF Create
<1>1. ScanTyped' /\ Scanning' /\ Vanished' /\ Answering' /\ ImportTyped'
      BY ScanGoesOn, VanishedStays, AnsweringStays DEF Inductive, scan
<1>2. FilesTyped'
      BY DEF Inductive, FilesTyped, delete, import
<1> QED BY <1>1, <1>2 DEF Inductive

LEMMA DeleteKeeps == ASSUME Inductive, NEW n \in Names, Delete(n) PROVE Inductive'
<1> USE DEF Delete
<1>1. ScanTyped' /\ Scanning' /\ Answering' /\ ImportTyped'
      BY ScanGoesOn, AnsweringStays DEF Inductive, scan
<1>2. store[n] \in Paths \cup {Panel} /\ n # None
      BY DEF Inductive, FilesTyped
<1>3. FilesTyped'
      BY <1>2 DEF Inductive, FilesTyped, import
<1>4. Vanished'
  <2>1. \A p \in gone : files[p] = "none"
        BY DEF Inductive, Vanished
  <2> QED BY <1>2, <2>1 DEF Inductive, Vanished, scan, Found
<1> QED BY <1>1, <1>3, <1>4 DEF Inductive

LEMMA DeleteSourceKeeps == ASSUME Inductive, DeleteSource PROVE Inductive'
<1> USE DEF DeleteSource
<1>1. Answering' /\ ImportTyped'
      BY AnsweringStays DEF Inductive
<1>2. ScanTyped' /\ Scanning'
      BY ScanGoesOn DEF scan
<1>3. files \in [Paths -> Contents \cup {"link"}] /\ source \in Paths \cup {Panel}
      BY DEF Inductive, FilesTyped
<1>4. files' \in [Paths -> Contents \cup {"link"}] /\ source' \in Paths \cup {Panel}
      BY <1>3 DEF Contents
<1>5. FilesTyped'
      BY <1>4 DEF Inductive, FilesTyped, import
<1>6. /\ \A p \in Paths : files[p] = "none" => files'[p] = "none"
      /\ \A p \in gone' : p \in gone /\ p # Panel
      /\ \A p \in gone' : source = p => files'[p] = "none"
      BY <1>3 DEF Inductive, FilesTyped
<1>7. Vanished'
  <2>1. since \subseteq gone \cup Paths
        BY DEF Inductive, FilesTyped
  <2> QED BY <1>3, <1>6, <2>1 DEF Inductive, FilesTyped, Vanished, scan, Found
<1> QED BY <1>1, <1>2, <1>5, <1>7 DEF Inductive

LEMMA OperateKeeps == ASSUME Inductive, NEW p \in Paths, Operate(p) PROVE Inductive'
<1> USE DEF Operate
<1>1. Answering' /\ ImportTyped'
      BY AnsweringStays DEF Inductive
<1>2. ScanTyped' /\ Scanning'
      BY ScanGoesOn DEF scan
<1>3. PICK c \in Contents : files' = [files EXCEPT ![p] = c]
      OBVIOUS
<1>4. FilesTyped'
      BY <1>3 DEF Inductive, FilesTyped, import
<1>5. \A q \in Paths \ {p} : files'[q] = files[q]
      BY <1>3 DEF Inductive, FilesTyped
<1>6. Vanished'
      BY <1>5 DEF Inductive, FilesTyped, Vanished, scan, Found
<1> QED BY <1>1, <1>2, <1>4, <1>6 DEF Inductive

LEMMA StutterKeeps == ASSUME Inductive, UNCHANGED vars PROVE Inductive'
<1> USE DEF vars
<1>1. Answering' /\ ImportTyped' /\ FilesTyped' /\ Vanished'
      BY AnsweringStays, FilesStay, VanishedStays DEF Inductive, import, scan
<1>2. ScanTyped' /\ Scanning'
      BY ScanGoesOn
<1> QED BY <1>1, <1>2 DEF Inductive

LEMMA NextKeeps == Inductive /\ [Next]_vars => Inductive'
BY ScanKeeps, NextStrategyKeeps, StrategyFailsKeeps, AddHitKeeps, UnreadableKeeps, FinishKeeps, ImportKeeps,
   ImportOneKeeps, CreateKeeps, DeleteKeeps, DeleteSourceKeeps, OperateKeeps, StutterKeeps
   DEF Next, Discover, Handle

LEMMA Always == Spec => []Inductive
BY InitHolds, NextKeeps, PTL DEF Spec

(* -------------------------------- theorems ------------------------------- *)

(* A scan begun after the delete of an imported tunnel does not find the     *)
(* source of the tunnel: addHit asks each file for its mode, and the delete  *)
(* has taken the file, or the link, away before it ended.                    *)
THEOREM SourceStaysGone == Spec => []GoneStaysGone
<1>1. Inductive => GoneStaysGone
      BY DEF Inductive, Vanished, GoneStaysGone
<1> QED BY <1>1, Always, PTL

(* handleDiscoverImport answers for each path it was asked for, once,        *)
(* whatever the gate, the parser or Create make of it.                       *)
THEOREM ImportAnswersAll == Spec => []EveryPathAnswered
<1>1. Inductive => EveryPathAnswered
      BY DEF Inductive, Answering
<1> QED BY <1>1, Always, PTL

(* An undisturbed Discover returns what its three strategies name and addHit *)
(* accepts: each once, under the first strategy that names it, whatever the  *)
(* listings repeat and however a path is spelled.                            *)
THEOREM ScanIsExact == Spec => []ScanExact
<1>1. Inductive => ScanExact
  <2> SUFFICES ASSUME Inductive, stage = 3, queue = <<>>, quiet
               PROVE  LET process == Spelled(Processes)
                          systemd == Spelled(Units) \ process
                          certain == process \cup systemd \cup Listed(Known)
                      IN  /\ Usable(certain) \subseteq Found(hits)
                          /\ Found(hits) \subseteq Usable(certain \cup Listed(Tree))
                          /\ IsInjective([i \in DOMAIN hits |-> hits[i].path])
                          /\ \A h \in ToSet(hits) :
                                 /\ h.source = "process" <=> h.path \in process
                                 /\ h.source = "systemd" <=> h.path \in systemd
      BY DEF ScanExact
  <2>1. Sourced /\ Once /\ Asked(Process \cup Systemd, Listed(Known), Listed(Tree))
        BY DEF Inductive, Scanning
  <2>2. /\ Usable(Process \cup Systemd \cup Listed(Known)) \subseteq Found(hits)
        /\ Found(hits) \subseteq Usable(Process \cup Systemd \cup Listed(Known) \cup Listed(Tree))
        BY <2>1, Empty DEF Asked, Between, Usable
  <2>3. IsInjective([i \in DOMAIN hits |-> hits[i].path])
        BY <2>1 DEF Once, IsInjective
  <2>4. Process \cup Systemd = Process \cup (Systemd \ Process)
        OBVIOUS
  <2> QED BY <2>1, <2>2, <2>3, <2>4 DEF Sourced, Process, Systemd
<1> QED BY <1>1, Always, PTL
=============================================================================
