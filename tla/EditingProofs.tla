--------------------------- MODULE EditingProofs ----------------------------
(* What becomes of the keys the panel does not know, for any number of tabs, *)
(* keys, peers and edits.                                                    *)
EXTENDS Editing, TLAPS

USE EditingAssumption

(* ------------------------------ documents -------------------------------- *)

LEMMA DecodedTyped ==
    ASSUME NEW d \in Document
    PROVE  Decoded(d) \in Document /\ Decoded(d).extra = d.extra
BY DEF Decoded, Document

LEMMA WithoutTyped ==
    ASSUME NEW d \in Document, NEW keys
    PROVE  Without(d, keys) \in Document /\ Without(d, keys).extra = d.extra \ keys
BY DEF Without, Document

LEMMA ViewTyped ==
    ASSUME disk \in Document
    PROVE  View \in Document /\ disk.extra \subseteq View.extra
<1>1. Decoded(disk) \in Document /\ Decoded(disk).extra = disk.extra
      BY DecodedTyped
<1> QED BY <1>1 DEF View, Document, Live

LEMMA StoredTyped ==
    ASSUME disk \in Document, NEW d \in Document
    PROVE  /\ Stored(d) \in Document
           /\ Stored(d).extra = IF d.extra = {} THEN disk.extra ELSE d.extra
<1>1. /\ Decoded(disk) \in Document /\ Decoded(disk).extra = disk.extra
      /\ Decoded(d) \in Document /\ Decoded(d).extra = d.extra
      BY DecodedTyped
<1> QED BY <1>1 DEF Stored, Document

LEMMA PeerAdded ==
    ASSUME NEW d \in Document, NEW p \in Peers
    PROVE  /\ [d EXCEPT !.peers = Append(@, p)] \in Document
           /\ [d EXCEPT !.peers = Append(@, p)].extra = d.extra
<1>1. d.peers \in Seq(Peers) BY DEF Document
<1>2. Append(d.peers, p) \in Seq(Peers) BY ONLY <1>1, p \in Peers
<1> QED BY <1>2 DEF Document

LEMMA RemoveAtTyped ==
    ASSUME NEW s \in Seq(Peers), NEW i \in 1 .. Len(s)
    PROVE  RemoveAt(s, i) \in Seq(Peers)
<1>1. SubSeq(s, 1, i - 1) \in Seq(Peers) OBVIOUS
<1>2. SubSeq(s, i + 1, Len(s)) \in Seq(Peers) OBVIOUS
<1> QED BY <1>1, <1>2 DEF RemoveAt

LEMMA PeerRemoved ==
    ASSUME NEW d \in Document, NEW i \in 1 .. Len(d.peers)
    PROVE  /\ [d EXCEPT !.peers = RemoveAt(@, i)] \in Document
           /\ [d EXCEPT !.peers = RemoveAt(@, i)].extra = d.extra
<1>1. RemoveAt(d.peers, i) \in Seq(Peers)
      BY RemoveAtTyped DEF Document
<1> QED BY <1>1 DEF Document

(* ---------------------------- the invariant ------------------------------ *)

(* The keys that are owed are in everything a save may be made from, and no  *)
(* such thing but the copy holds the state.                                  *)
Sound(d) == owed \subseteq d.extra /\ "state" \notin d.extra
Owing ==
    /\ Sound(disk)
    /\ \A t \in Tabs : /\ owed \subseteq copy[t].extra
                       /\ Sound(raw[t])
                       /\ saving[t] # "nothing" => Sound(body[t])
Inductive == TypeOK /\ Owing

LEMMA InitHolds == Init => Inductive
<1> SUFFICES ASSUME Init PROVE Inductive
    OBVIOUS
<1>1. disk \in Document /\ disk.extra \subseteq Unknown /\ Shown(disk.setting) \in Settings
      /\ disk.peers \in Seq(Peers)
      BY EditingAssumption DEF Init, Document, Shown
<1>2. View \in Document /\ disk.extra \subseteq View.extra
      BY <1>1, ViewTyped
<1>3. Without(View, Live) \in Document /\ Without(View, Live).extra = View.extra \ Live
      BY <1>2, WithoutTyped
<1>4. TypeOK
  <2>1. copy \in [Tabs -> Document] /\ raw \in [Tabs -> Document]
        BY <1>2, <1>3 DEF Init
  <2>2. form \in [Tabs -> Settings] /\ list \in [Tabs -> Seq(Peers)]
        BY <1>1 DEF Init
  <2>3. /\ rendered \in [Tabs -> BOOLEAN]
        /\ body \in [Tabs -> Document \cup {None}] /\ base \in [Tabs -> Document \cup {None}]
        /\ saving \in [Tabs -> {"nothing", "form", "raw", "peers"}]
        /\ \A t \in Tabs : saving[t] = "nothing"
        BY DEF Init
  <2>4. sampled \in BOOLEAN /\ owed \subseteq Unknown
        BY <1>1 DEF Init
  <2>5. edits = 0 /\ MaxEdits \in Nat
        BY DEF Init
  <2>6. edits \in 0 .. MaxEdits
        BY ONLY <2>5
  <2> QED BY ONLY <1>1, <2>1, <2>2, <2>3, <2>4, <2>6 DEF TypeOK
<1>5. Owing
      BY <1>1, <1>2, <1>3 DEF Init, Owing, Sound, Live
<1> QED BY <1>4, <1>5 DEF Inductive

(* A page rendered from a sound copy is sound.                               *)
LEMMA RenderHolds ==
    ASSUME Inductive, NEW t \in Tabs, NEW d \in Document, owed \subseteq d.extra,
           Render(t, d), copy' \in {copy, [copy EXCEPT ![t] = d]},
           rendered' \in [Tabs -> BOOLEAN],
           UNCHANGED <<disk, sampled, request, edits, owed>>
    PROVE  Inductive'
<1> USE DEF Render, request
<1>1. Without(d, Live) \in Document /\ Without(d, Live).extra = d.extra \ Live
      /\ Shown(d.setting) \in Settings /\ d.peers \in Seq(Peers)
      BY WithoutTyped, EditingAssumption DEF Document, Shown
<1>2. TypeOK'
  <2>1. copy' \in [Tabs -> Document] /\ raw' \in [Tabs -> Document]
    <3>1. copy \in [Tabs -> Document] /\ raw \in [Tabs -> Document]
          BY DEF Inductive, TypeOK
    <3>2. raw' \in [Tabs -> Document]
          BY ONLY <1>1, <3>1, Render(t, d) DEF Render
    <3>3. copy' \in [Tabs -> Document]
          BY ONLY <3>1, t \in Tabs, d \in Document, copy' \in {copy, [copy EXCEPT ![t] = d]}
    <3> QED BY <3>2, <3>3
  <2>2. form' \in [Tabs -> Settings] /\ list' \in [Tabs -> Seq(Peers)]
        BY <1>1 DEF Inductive, TypeOK
  <2>3. UNCHANGED <<disk, sampled, body, saving, base, edits, owed>>
        OBVIOUS
  <2>4. TypeOK
        BY DEF Inductive
  <2> QED BY ONLY <2>1, <2>2, <2>3, <2>4, rendered' \in [Tabs -> BOOLEAN] DEF TypeOK
<1>3. owed \cap Live = {} /\ "state" \in Live
      BY DEF Inductive, TypeOK, Live
<1>4. Sound(Without(d, Live))
      BY <1>1, <1>3 DEF Sound
<1>5. Owing'
      BY <1>1, <1>4 DEF Inductive, Owing, Sound, TypeOK
<1> QED BY <1>2, <1>5 DEF Inductive

(* A save of a sound document.                                               *)
LEMMA PutHolds ==
    ASSUME Inductive, NEW t \in Tabs, NEW d \in Document, Sound(d),
           NEW what \in {"form", "raw", "peers"}, Put(t, what, d)
    PROVE  Inductive'
<1> USE DEF Put, page
<1>1. edits' \in 0 .. MaxEdits
      BY DEF Inductive, TypeOK, Edit
<1>2. TypeOK'
  <2>1. copy[t] \in Document /\ d # None /\ copy[t] # None
        BY DEF Inductive, TypeOK
  <2>2. body' \in [Tabs -> Document \cup {None}] /\ base' \in [Tabs -> Document \cup {None}]
        BY <2>1 DEF Inductive, TypeOK
  <2>3. saving' \in [Tabs -> {"nothing", "form", "raw", "peers"}]
        BY DEF Inductive, TypeOK
  <2>4. \A s \in Tabs : saving'[s] # "nothing" => body'[s] # None /\ base'[s] # None
        BY <2>1 DEF Inductive, TypeOK
  <2> QED BY <1>1, <2>2, <2>3, <2>4 DEF Inductive, TypeOK
<1>3. Owing'
      BY DEF Inductive, Owing, Sound, TypeOK
<1> QED BY <1>2, <1>3 DEF Inductive

LEMMA TypedRawHolds == ASSUME Inductive, NEW t \in Tabs, TypeRaw(t) PROVE Inductive'
<1> USE DEF request
<1>1. PICK d \in Document :
          /\ raw' = [raw EXCEPT ![t] = d]
          /\ "state" \notin d.extra
          /\ \/ raw[t].extra \subseteq d.extra /\ owed' = owed
             \/ \E u \in Unknown : d.extra = raw[t].extra \ {u} /\ owed' = owed \ {u}
  <2>0. raw[t] \in Document /\ "state" \notin raw[t].extra /\ "state" \notin Unknown
        BY DEF Inductive, TypeOK, Owing, Sound, Live
  <2>1. ASSUME NEW v \in Settings, raw' = [raw EXCEPT ![t].setting = v], owed' = owed
        PROVE  [raw[t] EXCEPT !.setting = v] \in Document
               /\ [raw[t] EXCEPT !.setting = v].extra = raw[t].extra
        BY <2>0 DEF Document
  <2>2. ASSUME NEW u \in Unknown
        PROVE  /\ [raw[t] EXCEPT !.extra = @ \cup {u}] \in Document
               /\ [raw[t] EXCEPT !.extra = @ \cup {u}].extra = raw[t].extra \cup {u}
               /\ [raw[t] EXCEPT !.extra = @ \ {u}] \in Document
               /\ [raw[t] EXCEPT !.extra = @ \ {u}].extra = raw[t].extra \ {u}
        BY <2>0 DEF Document
  <2>3. /\ [raw[t] EXCEPT !.nested = TRUE] \in Document
        /\ [raw[t] EXCEPT !.nested = TRUE].extra = raw[t].extra
        BY <2>0 DEF Document
  <2>4. CASE \E v \in Settings : raw' = [raw EXCEPT ![t].setting = v] /\ owed' = owed
        BY <2>0, <2>1, <2>4
  <2>5. CASE \E u \in Unknown : raw' = [raw EXCEPT ![t].extra = @ \cup {u}] /\ owed' = owed
        BY <2>0, <2>2, <2>5
  <2>6. CASE \E u \in Unknown : raw' = [raw EXCEPT ![t].extra = @ \ {u}] /\ owed' = owed \ {u}
    <3>1. PICK u \in Unknown : raw' = [raw EXCEPT ![t].extra = @ \ {u}] /\ owed' = owed \ {u}
          BY <2>6
    <3> QED BY <2>0, <2>2, <3>1
  <2>7. CASE raw' = [raw EXCEPT ![t].nested = TRUE] /\ owed' = owed
        BY <2>0, <2>3, <2>7
  <2> QED BY <2>4, <2>5, <2>6, <2>7 DEF TypeRaw
<1>2. edits' \in 0 .. MaxEdits
      BY DEF Inductive, TypeOK, Edit, TypeRaw
<1>3. TypeOK'
      BY <1>1, <1>2 DEF Inductive, TypeOK, TypeRaw
<1>4. owed' \subseteq owed
      BY <1>1
<1>5. owed' \subseteq raw'[t].extra /\ "state" \notin raw'[t].extra
      BY <1>1 DEF Inductive, TypeOK, Owing, Sound
<1>6. ASSUME NEW s \in Tabs PROVE Sound(raw[s])'
      BY <1>1, <1>4, <1>5 DEF Inductive, TypeOK, Owing, Sound
<1>7. Owing'
      BY <1>4, <1>6 DEF Inductive, Owing, Sound, TypeRaw
<1> QED BY <1>3, <1>7 DEF Inductive

LEMMA AnsweredHolds ==
    ASSUME Inductive, NEW t \in Tabs, Answered(t), disk' \in Document, Sound(disk'),
           rendered' \in [Tabs -> BOOLEAN]
    PROVE  Inductive'
<1> USE DEF Answered, page
<1>1. TypeOK'
      BY DEF Inductive, TypeOK
<1>2. Owing'
      BY DEF Inductive, Owing, Sound, TypeOK
<1> QED BY <1>1, <1>2 DEF Inductive

LEMMA NextHolds == Inductive /\ [Next]_vars => Inductive'
<1> SUFFICES ASSUME Inductive, [Next]_vars PROVE Inductive'
    OBVIOUS
<1>t. TypeOK /\ Owing
      BY DEF Inductive
<1>v. View \in Document /\ owed \subseteq View.extra
      BY <1>t, ViewTyped DEF TypeOK, Owing, Sound
<1>o. owed \cap Live = {} /\ "state" \in Live
      BY <1>t DEF TypeOK, Live
<1>w. ASSUME NEW t \in Tabs, NEW keys \in {{"state"}, Live}
      PROVE  Without(copy[t], keys) \in Document /\ Sound(Without(copy[t], keys))
             /\ Without(copy[t], keys).peers = copy[t].peers
  <2>1. copy[t] \in Document /\ owed \subseteq copy[t].extra
        BY <1>t DEF TypeOK, Owing
  <2>2. Without(copy[t], keys).peers = copy[t].peers
        BY <2>1 DEF Without, Document
  <2> QED BY <1>o, <2>1, <2>2, WithoutTyped DEF Sound
<1>1. CASE Sample
  <2>1. TypeOK' BY <1>1, <1>t DEF Sample, TypeOK, page, request
  <2>2. Owing' BY <1>1, <1>t DEF Sample, Owing, Sound, page, request
  <2> QED BY <2>1, <2>2 DEF Inductive
<1>2. ASSUME NEW t \in Tabs, Refresh(t) PROVE Inductive'
  <2>1. rendered' \in [Tabs -> BOOLEAN]
        BY <1>2, <1>t DEF Refresh, TypeOK
  <2>2. CASE Render(t, View)
        BY <1>2, <1>v, <2>1, <2>2, RenderHolds DEF Refresh
  <2>3. CASE UNCHANGED page
    <3>1. TypeOK' BY <1>2, <1>t, <1>v, <2>1, <2>3 DEF Refresh, TypeOK, page, request
    <3>2. Owing' BY <1>2, <1>t, <1>v, <2>3 DEF Refresh, TypeOK, Owing, Sound, page, request
    <3> QED BY <3>1, <3>2 DEF Inductive
  <2> QED BY <1>2, <2>2, <2>3 DEF Refresh
<1>3. ASSUME NEW t \in Tabs, Return(t) PROVE Inductive'
  <2>1. rendered' \in [Tabs -> BOOLEAN] /\ copy[t] \in Document /\ owed \subseteq copy[t].extra
        BY <1>3, <1>t DEF Return, TypeOK, Owing
  <2> QED BY <1>3, <2>1, RenderHolds DEF Return
<1>4. ASSUME NEW t \in Tabs, TypeForm(t) PROVE Inductive'
  <2>1. edits' \in 0 .. MaxEdits
        BY <1>4, <1>t DEF TypeForm, TypeOK, Edit
  <2>2. TypeOK' BY <1>4, <1>t, <2>1 DEF TypeForm, TypeOK, request
  <2>3. Owing' BY <1>4, <1>t DEF TypeForm, Owing, Sound, request
  <2> QED BY <2>2, <2>3 DEF Inductive
<1>5. ASSUME NEW t \in Tabs, TypeRaw(t) PROVE Inductive'
      BY <1>5, TypedRawHolds
<1>6. ASSUME NEW t \in Tabs, SaveForm(t) PROVE Inductive'
  <2> DEFINE d == [Without(copy[t], {"state"}) EXCEPT !.setting = form[t], !.fieldless = FALSE]
  <2>1. Without(copy[t], {"state"}) \in Document /\ Sound(Without(copy[t], {"state"}))
        BY <1>w
  <2>2. form[t] \in Settings
        BY <1>t DEF TypeOK
  <2>3. d \in Document /\ d.extra = Without(copy[t], {"state"}).extra
        BY <2>1, <2>2 DEF Document
  <2>4. Sound(d)
        BY <2>1, <2>3 DEF Sound
  <2>5. Put(t, "form", d)
        BY <1>6 DEF SaveForm
  <2> QED BY <2>3, <2>4, <2>5, PutHolds
<1>7. ASSUME NEW t \in Tabs, SaveRaw(t) PROVE Inductive'
  <2>1. raw[t] \in Document /\ Sound(raw[t])
        BY <1>t DEF TypeOK, Owing
  <2> QED BY <1>7, <2>1, PutHolds DEF SaveRaw
<1>8. ASSUME NEW t \in Tabs, AddPeer(t) PROVE Inductive'
  <2> DEFINE w == Without(copy[t], Live)
  <2>1. PICK p \in Peers : Put(t, "peers", [w EXCEPT !.peers = Append(@, p)])
        BY <1>8 DEF AddPeer
  <2>2. w \in Document /\ Sound(w)
        BY <1>w
  <2> HIDE DEF w
  <2>3. Sound([w EXCEPT !.peers = Append(@, p)]) /\ [w EXCEPT !.peers = Append(@, p)] \in Document
        BY <2>2, PeerAdded DEF Sound
  <2> QED BY <2>1, <2>3, PutHolds
<1>9. ASSUME NEW t \in Tabs, RemovePeer(t) PROVE Inductive'
  <2> DEFINE w == Without(copy[t], Live)
  <2>1. PICK i \in DOMAIN list[t] :
            /\ i <= Len(copy[t].peers)
            /\ Put(t, "peers", [w EXCEPT !.peers = RemoveAt(@, i)])
        BY <1>9 DEF RemovePeer
  <2>2. w \in Document /\ Sound(w) /\ w.peers = copy[t].peers
        BY <1>w
  <2> HIDE DEF w
  <2>3. list[t] \in Seq(Peers) /\ w.peers \in Seq(Peers)
        BY <1>t, <2>2 DEF TypeOK, Document
  <2>4. i \in 1 .. Len(w.peers)
        BY <2>1, <2>2, <2>3
  <2>5. Sound([w EXCEPT !.peers = RemoveAt(@, i)]) /\ [w EXCEPT !.peers = RemoveAt(@, i)] \in Document
        BY <2>2, <2>4, PeerRemoved DEF Sound
  <2> QED BY <2>1, <2>5, PutHolds
<1>10. ASSUME NEW t \in Tabs, Update(t) PROVE Inductive'
  <2>1. disk \in Document /\ body[t] \in Document /\ Sound(disk) /\ Sound(body[t])
        BY <1>10, <1>t DEF Update, TypeOK, Owing
  <2>2. disk' \in Document /\ Sound(disk')
        BY <1>10, <2>1, StoredTyped DEF Update, Sound, Answered
  <2>3. rendered' \in [Tabs -> BOOLEAN]
        BY <1>10, <1>t DEF Update, TypeOK
  <2> QED BY <1>10, <2>2, <2>3, AnsweredHolds DEF Update
<1>11. ASSUME NEW t \in Tabs, Fail(t) PROVE Inductive'
  <2>1. disk' \in Document /\ Sound(disk') /\ rendered' \in [Tabs -> BOOLEAN]
        BY <1>11, <1>t DEF Fail, TypeOK, Owing, Sound
  <2> QED BY <1>11, <2>1, AnsweredHolds DEF Fail
<1>12. CASE UNCHANGED vars
  <2>1. TypeOK' BY <1>12, <1>t DEF vars, TypeOK, page, request
  <2>2. Owing' BY <1>12, <1>t DEF vars, Owing, Sound, page, request
  <2> QED BY <2>1, <2>2 DEF Inductive
<1> QED BY <1>1, <1>2, <1>3, <1>4, <1>5, <1>6, <1>7, <1>8, <1>9, <1>10, <1>11, <1>12 DEF Next, User

(* The strengthened invariant holds in every reachable state.                *)
THEOREM Invariance == Spec => []Inductive
<1> QED BY InitHolds, NextHolds, PTL DEF Spec

(* Every variable has its type.                                              *)
THEOREM TypeCorrect == Spec => []TypeOK
<1>1. Inductive => TypeOK BY DEF Inductive
<1> QED BY <1>1, Invariance, PTL

(* A top-level key the panel does not know stays in the file until a user    *)
(* deletes it in the editor, whatever saves the tabs make from whatever old  *)
(* copies.                                                                   *)
THEOREM UnknownKeysSurvive == Spec => []UnknownSurvive
<1>1. Inductive => UnknownSurvive BY DEF Inductive, Owing, Sound, UnknownSurvive
<1> QED BY <1>1, Invariance, PTL

(* The live state of a tunnel is never written to its file.                  *)
THEOREM StateIsNotStored == Spec => []StateStaysOut
<1>1. Inductive => StateStaysOut BY DEF Inductive, Owing, Sound, StateStaysOut
<1> QED BY <1>1, Invariance, PTL

(* --------------------------- saves are local ----------------------------- *)

(* Two documents are one when their fields are.                              *)
LEMMA SameDocument ==
    ASSUME NEW d \in Document, NEW e \in Document,
           d.setting = e.setting, d.fieldless = e.fieldless, d.nested = e.nested,
           d.peers = e.peers, d.extra = e.extra
    PROVE  d = e
BY DEF Document

(* What a save leaves alone, of a document.                                  *)
LEMMA RestIs ==
    ASSUME NEW d \in Document, NEW e \in Document
    PROVE  /\ Rest(d, "form") = Rest(e, "form")
                  <=> d.peers = e.peers /\ d.extra \ Live = e.extra \ Live
           /\ Rest(d, "peers") = Rest(e, "peers")
                  <=> /\ d.setting = e.setting /\ d.fieldless = e.fieldless
                      /\ d.extra \ Live = e.extra \ Live
<1> DEFINE W(x) == Without(Decoded(x), Live)
           V(x) == [W(x) EXCEPT !.peers = <<>>]
<1>1. ASSUME NEW x \in Document
      PROVE  /\ W(x) \in Document /\ W(x).setting = x.setting /\ W(x).fieldless = x.fieldless
             /\ W(x).nested = FALSE /\ W(x).peers = x.peers /\ W(x).extra = x.extra \ Live
             /\ V(x) \in Document /\ V(x).setting = x.setting /\ V(x).fieldless = x.fieldless
             /\ V(x).nested = FALSE /\ V(x).peers = <<>> /\ V(x).extra = x.extra \ Live
  <2>1. /\ Decoded(x) \in Document /\ Decoded(x).setting = x.setting
        /\ Decoded(x).fieldless = x.fieldless /\ Decoded(x).nested = FALSE
        /\ Decoded(x).peers = x.peers /\ Decoded(x).extra = x.extra
        BY DEF Decoded, Document
  <2>2. /\ W(x) \in Document /\ W(x).setting = x.setting /\ W(x).fieldless = x.fieldless
        /\ W(x).nested = FALSE /\ W(x).peers = x.peers /\ W(x).extra = x.extra \ Live
        BY <2>1 DEF Without, Document
  <2> HIDE DEF W
  <2>3. <<>> \in Seq(Peers)
        OBVIOUS
  <2> QED BY <2>2, <2>3 DEF Document
<1>2. /\ Rest(d, "form") = <<W(d).peers, W(d).extra>> /\ Rest(d, "peers") = V(d)
      /\ Rest(e, "form") = <<W(e).peers, W(e).extra>> /\ Rest(e, "peers") = V(e)
      BY DEF Rest
<1> HIDE DEF V, W
<1>3. ASSUME d.setting = e.setting, d.fieldless = e.fieldless, d.extra \ Live = e.extra \ Live
      PROVE  V(d) = V(e)
  <2>1. /\ V(d) \in Document /\ V(e) \in Document
        /\ V(d).setting = V(e).setting /\ V(d).fieldless = V(e).fieldless
        /\ V(d).nested = V(e).nested /\ V(d).peers = V(e).peers /\ V(d).extra = V(e).extra
        BY <1>1, <1>3
  <2>2. PICK x, y : x = V(d) /\ y = V(e)
        OBVIOUS
  <2>3. x = y
        BY ONLY <2>1, <2>2, SameDocument
  <2> QED BY <2>2, <2>3
<1>4. V(d) = V(e) => /\ d.setting = e.setting /\ d.fieldless = e.fieldless
                     /\ d.extra \ Live = e.extra \ Live
      BY <1>1
<1>5. <<W(d).peers, W(d).extra>> = <<W(e).peers, W(e).extra>>
          <=> d.peers = e.peers /\ d.extra \ Live = e.extra \ Live
      BY <1>1
<1> QED BY <1>2, <1>3, <1>4, <1>5

(* The store keeps it, even where an empty Extra has it keep the file's.     *)
LEMMA StoredRest ==
    ASSUME disk \in Document, NEW d \in Document, NEW what \in {"form", "peers"},
           Rest(d, what) = Rest(disk, what)
    PROVE  Rest(Stored(d), what) = Rest(disk, what)
<1>1. /\ Stored(d) \in Document /\ Stored(d).setting = d.setting
      /\ Stored(d).fieldless = d.fieldless /\ Stored(d).peers = d.peers
      /\ Stored(d).extra = IF d.extra = {} THEN disk.extra ELSE d.extra
  <2>1. /\ Decoded(d) \in Document /\ Decoded(d).setting = d.setting
        /\ Decoded(d).fieldless = d.fieldless /\ Decoded(d).peers = d.peers
        BY DEF Decoded, Document
  <2> QED BY <2>1, StoredTyped DEF Stored, Document
<1>2. CASE what = "form"
  <2>1. d.peers = disk.peers /\ d.extra \ Live = disk.extra \ Live
        BY <1>2, RestIs
  <2>2. Stored(d).peers = disk.peers /\ Stored(d).extra \ Live = disk.extra \ Live
        BY <1>1, <2>1
  <2> QED BY <1>1, <1>2, <2>2, RestIs
<1>3. CASE what = "peers"
  <2>1. /\ d.setting = disk.setting /\ d.fieldless = disk.fieldless
        /\ d.extra \ Live = disk.extra \ Live
        BY <1>3, RestIs
  <2>2. /\ Stored(d).setting = disk.setting /\ Stored(d).fieldless = disk.fieldless
        /\ Stored(d).extra \ Live = disk.extra \ Live
        BY <1>1, <2>1
  <2> QED BY <1>1, <1>3, <2>2, RestIs
<1> QED BY <1>2, <1>3

(* A save under way leaves alone what its kind leaves alone.                 *)
Local ==
    \A t \in Tabs : saving[t] \in {"form", "peers"} =>
        Rest(body[t], saving[t]) = Rest(base[t], saving[t])

LEMMA PutLocal ==
    ASSUME Inductive, Local, NEW t \in Tabs, NEW what \in {"form", "raw", "peers"}, NEW d,
           Put(t, what, d), what # "raw" => Rest(d, what) = Rest(copy[t], what)
    PROVE  Local'
<1>1. /\ body' = [body EXCEPT ![t] = d] /\ saving' = [saving EXCEPT ![t] = what]
      /\ base' = [base EXCEPT ![t] = copy[t]]
      BY DEF Put
<1>2. /\ body \in [Tabs -> Document \cup {None}] /\ base \in [Tabs -> Document \cup {None}]
      /\ saving \in [Tabs -> {"nothing", "form", "raw", "peers"}]
      BY DEF Inductive, TypeOK
<1>3. /\ body'[t] = d /\ saving'[t] = what /\ base'[t] = copy[t]
      /\ \A u \in Tabs \ {t} : body'[u] = body[u] /\ saving'[u] = saving[u] /\ base'[u] = base[u]
      BY <1>1, <1>2
<1> QED BY <1>3 DEF Local, Rest

LEMMA LocalHolds == Inductive /\ Local /\ [Next]_vars => Local'
<1> SUFFICES ASSUME Inductive, Local, [Next]_vars PROVE Local'
    OBVIOUS
<1>t. TypeOK
      BY DEF Inductive
<1>w. ASSUME NEW t \in Tabs, NEW keys \in {{"state"}, Live}
      PROVE  LET w == Without(copy[t], keys)
             IN  /\ copy[t] \in Document /\ w \in Document /\ w.setting = copy[t].setting
                 /\ w.fieldless = copy[t].fieldless /\ w.peers = copy[t].peers
                 /\ w.extra \ Live = copy[t].extra \ Live
  <2>1. copy[t] \in Document
        BY <1>t DEF TypeOK
  <2>2. {"state"} \subseteq Live
        BY DEF Live
  <2> QED BY <2>1, <2>2 DEF Without, Document
<1>1. ASSUME NEW t \in Tabs, SaveForm(t) PROVE Local'
  <2> DEFINE w == Without(copy[t], {"state"})
             d == [w EXCEPT !.setting = form[t], !.fieldless = FALSE]
  <2>1. /\ copy[t] \in Document /\ w \in Document /\ w.peers = copy[t].peers
        /\ w.extra \ Live = copy[t].extra \ Live
        BY <1>w
  <2>2. Put(t, "form", d)
        BY <1>1 DEF SaveForm
  <2> HIDE DEF w
  <2>3. d \in Document /\ d.peers = w.peers /\ d.extra = w.extra
        BY <1>t, <2>1 DEF TypeOK, Document
  <2> HIDE DEF d
  <2>4. Rest(d, "form") = Rest(copy[t], "form")
        BY <2>1, <2>3, RestIs
  <2> QED BY <2>2, <2>4, PutLocal
<1>2. ASSUME NEW t \in Tabs, SaveRaw(t) PROVE Local'
      BY <1>2, PutLocal DEF SaveRaw
<1>3. ASSUME NEW t \in Tabs, NEW s \in Seq(Peers),
             Put(t, "peers", [Without(copy[t], Live) EXCEPT !.peers = s])
      PROVE  Local'
  <2> DEFINE w == Without(copy[t], Live)
             d == [w EXCEPT !.peers = s]
  <2>1. /\ copy[t] \in Document /\ w \in Document /\ w.setting = copy[t].setting
        /\ w.fieldless = copy[t].fieldless /\ w.extra \ Live = copy[t].extra \ Live
        BY <1>w
  <2>2. Put(t, "peers", d)
        BY <1>3
  <2> HIDE DEF w
  <2>3. /\ d \in Document /\ d.setting = w.setting /\ d.fieldless = w.fieldless
        /\ d.extra = w.extra
        BY <2>1 DEF Document
  <2> HIDE DEF d
  <2>4. Rest(d, "peers") = Rest(copy[t], "peers")
        BY <2>1, <2>3, RestIs
  <2> QED BY <2>2, <2>4, PutLocal
<1>4. ASSUME NEW t \in Tabs, AddPeer(t) PROVE Local'
  <2> DEFINE w == Without(copy[t], Live)
  <2>1. PICK p \in Peers : Put(t, "peers", [w EXCEPT !.peers = Append(@, p)])
        BY <1>4 DEF AddPeer
  <2>2. w.peers \in Seq(Peers)
        BY <1>w DEF Document
  <2>3. Append(w.peers, p) \in Seq(Peers)
        BY ONLY <2>2, p \in Peers
  <2>4. Put(t, "peers", [w EXCEPT !.peers = Append(w.peers, p)])
        BY <2>1
  <2> QED BY <1>3, <2>3, <2>4
<1>5. ASSUME NEW t \in Tabs, RemovePeer(t) PROVE Local'
  <2> DEFINE w == Without(copy[t], Live)
  <2>1. PICK i \in DOMAIN list[t] :
            /\ i <= Len(copy[t].peers)
            /\ Put(t, "peers", [w EXCEPT !.peers = RemoveAt(@, i)])
        BY <1>5 DEF RemovePeer
  <2>2. w.peers \in Seq(Peers) /\ w.peers = copy[t].peers /\ list[t] \in Seq(Peers)
        BY <1>t, <1>w DEF TypeOK, Document
  <2>3. RemoveAt(w.peers, i) \in Seq(Peers)
    <3>1. i \in 1 .. Len(w.peers)
          BY <2>1, <2>2
    <3> QED BY <2>2, <3>1, RemoveAtTyped
  <2>4. Put(t, "peers", [w EXCEPT !.peers = RemoveAt(w.peers, i)])
        BY <2>1
  <2> QED BY <1>3, <2>3, <2>4
<1>6. ASSUME NEW t \in Tabs, Update(t) \/ Fail(t) PROVE Local'
  <2>1. Answered(t)
        BY <1>6 DEF Update, Fail
  <2>2. /\ saving'[t] = "nothing"
        /\ \A u \in Tabs \ {t} : body'[u] = body[u] /\ saving'[u] = saving[u] /\ base'[u] = base[u]
        BY <1>t, <2>1 DEF Answered, TypeOK
  <2> QED BY <2>2 DEF Local, Rest
<1>7. CASE UNCHANGED request
      BY <1>7 DEF request, Local, Rest
<1>8. CASE Sample \/ \E t \in Tabs : Refresh(t) \/ Return(t) \/ TypeForm(t) \/ TypeRaw(t)
      BY <1>7, <1>8 DEF Sample, Refresh, Return, TypeForm, TypeRaw
<1> QED BY <1>1, <1>2, <1>4, <1>5, <1>6, <1>7, <1>8 DEF Next, User, vars

(* A save from a copy that still matches the file undoes nothing: a peer     *)
(* edit changes the peers only, the form what it has fields for (but for the *)
(* fieldless keys of the blocks that saveConfig rebuilds).                   *)
THEOREM FreshSavesAreLocal == Spec => FreshSaveIsLocal
<1>1. Init => Local
      BY DEF Init, Local
<1>2. ASSUME Inductive, Local, [Next]_vars, NEW t \in Tabs,
             saving[t] \in {"form", "peers"}, saving'[t] = "nothing",
             Rest(base[t], saving[t]) = Rest(disk, saving[t])
      PROVE  Rest(disk', saving[t]) = Rest(disk, saving[t])
  <2>1. TypeOK /\ saving[t] # "nothing"
        BY <1>2 DEF Inductive
  <2>2. Update(t) \/ Fail(t)
    <3>1. ~UNCHANGED saving
          BY <1>2
    <3>2. PICK u \in Tabs : User(u) \/ Update(u) \/ Fail(u)
          BY <1>2, <3>1 DEF Next, Sample, Refresh, Return, request, vars
    <3>3. ~(TypeForm(u) \/ TypeRaw(u))
          BY <3>1 DEF TypeForm, TypeRaw, request
    <3>4. ASSUME NEW what, NEW d, what # "nothing", Put(u, what, d) PROVE FALSE
          BY <1>2, <2>1, <3>4 DEF Put, TypeOK
    <3>5. Update(u) \/ Fail(u)
          BY <3>2, <3>3, <3>4 DEF User, SaveForm, SaveRaw, AddPeer, RemovePeer
    <3>6. Answered(u)
          BY <3>5 DEF Update, Fail
    <3>7. u = t
          BY <1>2, <2>1, <3>6 DEF Answered, TypeOK
    <3> QED BY <3>5, <3>7
  <2>3. CASE Fail(t)
        BY <2>3 DEF Fail
  <2>4. CASE Update(t)
    <3>1. disk \in Document /\ body[t] \in Document
          BY <2>1 DEF TypeOK
    <3>2. Rest(body[t], saving[t]) = Rest(disk, saving[t])
          BY <1>2 DEF Local
    <3>3. disk' = Stored(body[t])
          BY <2>4 DEF Update
    <3> QED BY <1>2, <3>1, <3>2, <3>3, StoredRest
  <2> QED BY <2>2, <2>3, <2>4
<1>3. Inductive /\ Local /\ [Next]_vars =>
          [\A t \in Tabs :
              /\ saving[t] \in {"form", "peers"} /\ saving'[t] = "nothing"
              /\ Rest(base[t], saving[t]) = Rest(disk, saving[t])
              => Rest(disk', saving[t]) = Rest(disk, saving[t])]_vars
      BY <1>2
<1> QED BY <1>1, <1>3, Invariance, LocalHolds, PTL DEF Spec, FreshSaveIsLocal
=============================================================================
