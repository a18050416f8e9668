------------------------------- MODULE Editing ------------------------------
(* One tunnel's file edited from several browser tabs: the JSON codec and    *)
(* the merge of internal/store, the view handlers add live data to, and the  *)
(* config form, the peers list and the raw editor of                         *)
(* internal/webui/assets/index.html.                                         *)
(*                                                                           *)
(* Of a document the model keeps what the panel tells apart: a value the     *)
(* config form has a field for, whether a typed key the form has no field    *)
(* for is there (performance.buffer_size and its like), whether an unknown   *)
(* key inside a typed block is there, the peers, and which keys of the top   *)
(* level are unknown to the store; "state" and "scrape" are such keys.  The  *)
(* value may be unset, and the form then shows a default in its place.       *)
EXTENDS Integers, SequencesExt

CONSTANTS
    Tabs, Settings, Peers, Unknown,
    None,
    Default,  \* the setting that the form shows for one that is not set
    First,    \* bound: what the file may hold when the panel comes
    MaxPeers, \* bound: peers of a tunnel
    MaxEdits  \* bound: things typed and saves made

Live == {"state", "scrape"}
Unset == 0

Document == [setting : Settings, fieldless : BOOLEAN, nested : BOOLEAN,
             peers : Seq(Peers), extra : SUBSET (Unknown \cup Live)]

ASSUME EditingAssumption ==
    /\ Unknown \cap Live = {}
    /\ \A d \in First : d \in Document /\ d.extra \subseteq Unknown
    /\ None \notin Document
    /\ Default \in Settings /\ Unset \in Settings
    /\ MaxPeers \in Nat /\ MaxEdits \in Nat

VARIABLES
    disk,      \* the file
    sampled,   \* Latest has a sample of the tunnel
    copy,      \* each tab: the tunnel in state.tunnels
    rendered,  \* lastRenderedDetail is this tunnel: the static part stands
    form,      \* the config form's fields
    list,      \* the peers as listed on the page
    raw,       \* the raw editor's text
    body,      \* the PUT under way
    saving,    \* what it came from: nothing, form, raw, peers
    edits,
    base,      \* history: the copy it was made from
    owed       \* history: unknown keys of the first file no user has removed

page == <<form, list, raw>>
request == <<body, saving, base>>
vars == <<disk, sampled, copy, rendered, page, request, edits, owed>>

(* ------------------------- the store and the view ------------------------ *)

(* Mutant: what is not a field of Tunnel is ignored, as by default.          *)
DecodedPlainly(d) == [d EXCEPT !.nested = FALSE, !.extra = {}]

(* UnmarshalJSON and MarshalJSON: typed fields and Extra make the trip,      *)
(* unknown keys inside a typed block do not.                                 *)
Decoded(d) == [d EXCEPT !.nested = FALSE]

(* Update: an empty Extra is taken for one that was not passed.              *)
Stored(d) == IF Decoded(d).extra = {}
             THEN [Decoded(d) EXCEPT !.extra = Decoded(disk).extra]
             ELSE Decoded(d)

(* fullView: state is overlaid, and scrape when there is a sample.           *)
View == [Decoded(disk) EXCEPT !.extra =
            @ \cup {"state"} \cup (IF sampled THEN {"scrape"} ELSE {})]

Without(d, keys) == [d EXCEPT !.extra = @ \ keys]

(* What a field of the form shows (p.mtu||1400).                             *)
Shown(setting) == IF setting = Unset THEN Default ELSE setting

(* An operator wrote the file before the panel came; every tab is on the     *)
(* tunnel's page.                                                            *)
Init ==
    /\ disk \in First
    /\ sampled = FALSE
    /\ copy = [t \in Tabs |-> View]
    /\ rendered = [t \in Tabs |-> TRUE]
    /\ form = [t \in Tabs |-> Shown(disk.setting)]
    /\ list = [t \in Tabs |-> disk.peers]
    /\ raw = [t \in Tabs |-> Without(View, Live)]
    /\ body = [t \in Tabs |-> None] /\ saving = [t \in Tabs |-> "nothing"]
    /\ base = body
    /\ edits = 0
    /\ owed = disk.extra

(* A round of the scraper finds the tunnel's metrics, or no longer does.     *)
Sample ==
    /\ sampled' = ~sampled
    /\ UNCHANGED <<disk, copy, rendered, page, request, edits, owed>>

(* -------------------------------- the tab -------------------------------- *)

(* renderTunnelDetailStatic, for a page whose copy is d.                     *)
Render(t, d) ==
    /\ form' = [form EXCEPT ![t] = Shown(d.setting)]
    /\ list' = [list EXCEPT ![t] = d.peers]
    /\ raw' = [raw EXCEPT ![t] = Without(d, Live)]

(* A snapshot or the list after a save: only a page that is not rendered is  *)
(* rendered in full.                                                         *)
Refresh(t) ==
    /\ copy' = [copy EXCEPT ![t] = View]
    /\ \/ rendered[t] /\ UNCHANGED page
       \/ ~rendered[t] /\ Render(t, View)
    /\ rendered' = [rendered EXCEPT ![t] = TRUE]
    /\ UNCHANGED <<disk, sampled, request, edits, owed>>

(* Leaving the page and coming back to it.                                   *)
Return(t) ==
    /\ Render(t, copy[t])
    /\ rendered' = [rendered EXCEPT ![t] = TRUE]
    /\ UNCHANGED <<disk, sampled, copy, request, edits, owed>>

Edit == edits < MaxEdits /\ edits' = edits + 1

TypeForm(t) ==
    /\ Edit
    /\ \E v \in Settings \ {form[t]} : form' = [form EXCEPT ![t] = v]
    /\ UNCHANGED <<disk, sampled, copy, rendered, list, raw, request, owed>>

(* Nobody types state or scrape.                                             *)
TypeRaw(t) ==
    /\ Edit
    /\ \/ \E v \in Settings : raw' = [raw EXCEPT ![t].setting = v] /\ UNCHANGED owed
       \/ \E u \in Unknown : raw' = [raw EXCEPT ![t].extra = @ \cup {u}] /\ UNCHANGED owed
       \/ \E u \in Unknown : raw' = [raw EXCEPT ![t].extra = @ \ {u}] /\ owed' = owed \ {u}
       \/ raw' = [raw EXCEPT ![t].nested = TRUE] /\ UNCHANGED owed
    /\ UNCHANGED <<disk, sampled, copy, rendered, form, list, request>>

Put(t, what, d) ==
    /\ saving[t] = "nothing" /\ Edit
    /\ body' = [body EXCEPT ![t] = d] /\ saving' = [saving EXCEPT ![t] = what]
    /\ base' = [base EXCEPT ![t] = copy[t]]
    /\ UNCHANGED <<disk, sampled, copy, rendered, page, owed>>

(* Mutant: the state is left in the clone as well.                           *)
SaveFormWhole(t) ==
    /\ Put(t, "form", [copy[t] EXCEPT !.setting = form[t], !.fieldless = FALSE])

(* saveConfig: a clone of the copy, the form's blocks built anew from the    *)
(* fields, with the defaults they show (metrics and admin are switched on)   *)
(* and without the keys they have no field for (logging's file, the peer's   *)
(* key in server mode); the state is deleted from it, the scrape is not.     *)
SaveForm(t) ==
    /\ Put(t, "form", [Without(copy[t], {"state"}) EXCEPT
                           !.setting = form[t], !.fieldless = FALSE])

SaveRaw(t) == Put(t, "raw", raw[t])

(* Mutant: the tunnel is built anew from the form's fields.                  *)
AddPeerAnew(t) ==
    /\ Len(copy[t].peers) < MaxPeers
    /\ \E p \in Peers \ ToSet(copy[t].peers) :
           Put(t, "peers", [Without(copy[t], Live) EXCEPT
                                !.peers = Append(@, p), !.fieldless = FALSE])

AddPeer(t) ==
    /\ Len(copy[t].peers) < MaxPeers
    /\ \E p \in Peers \ ToSet(copy[t].peers) :
           Put(t, "peers", [Without(copy[t], Live) EXCEPT !.peers = Append(@, p)])

(* The button's index is of the list on the page, the splice of the copy.    *)
RemovePeer(t) ==
    /\ \E i \in DOMAIN list[t] :
           /\ i <= Len(copy[t].peers)
           /\ Put(t, "peers", [Without(copy[t], Live) EXCEPT !.peers = RemoveAt(@, i)])

(* Mutant: the page stays busy after an answer.                              *)
AnsweredBusy(t) ==
    /\ body' = [body EXCEPT ![t] = None] /\ UNCHANGED saving
    /\ base' = [base EXCEPT ![t] = None]
    /\ UNCHANGED <<sampled, copy, page, edits, owed>>

(* After a save from the editor or the peers list the page is rendered in    *)
(* full at the next refresh, after one from the form it is not.              *)
Answered(t) ==
    /\ body' = [body EXCEPT ![t] = None] /\ saving' = [saving EXCEPT ![t] = "nothing"]
    /\ base' = [base EXCEPT ![t] = None]
    /\ UNCHANGED <<sampled, copy, page, edits, owed>>

Update(t) ==
    /\ saving[t] # "nothing"
    /\ disk' = Stored(body[t])
    /\ rendered' = [rendered EXCEPT ![t] = @ /\ saving[t] = "form"]
    /\ Answered(t)

(* The store refuses the document, or the request is lost: a toast.          *)
Fail(t) ==
    /\ saving[t] # "nothing"
    /\ UNCHANGED <<disk, rendered>>
    /\ Answered(t)

User(t) == TypeForm(t) \/ TypeRaw(t) \/ SaveForm(t) \/ SaveRaw(t) \/ AddPeer(t) \/ RemovePeer(t)
Next == Sample \/ \E t \in Tabs : Refresh(t) \/ Return(t) \/ User(t) \/ Update(t) \/ Fail(t)
Spec == Init /\ [][Next]_vars

(* ------------------------------- properties ------------------------------ *)

(* Every variable has its type.                                              *)
TypeOK ==
    /\ disk \in Document /\ sampled \in BOOLEAN
    /\ copy \in [Tabs -> Document] /\ rendered \in [Tabs -> BOOLEAN]
    /\ form \in [Tabs -> Settings] /\ list \in [Tabs -> Seq(Peers)]
    /\ raw \in [Tabs -> Document] /\ body \in [Tabs -> Document \cup {None}]
    /\ base \in [Tabs -> Document \cup {None}]
    /\ saving \in [Tabs -> {"nothing", "form", "raw", "peers"}]
    /\ \A t \in Tabs : saving[t] # "nothing" => body[t] # None /\ base[t] # None
    /\ edits \in 0 .. MaxEdits /\ owed \subseteq Unknown

(* "users can keep custom keys in their configs without the panel stomping   *)
(* on them" (store.go 79-81): a key of the top level that the panel does not *)
(* know stays in the file through any saves of any tabs, from copies however *)
(* old, until a user deletes it in the editor.                               *)
UnknownSurvive == owed \subseteq disk.extra

(* The tunnel's state, which a PUT would have the store take for an unknown  *)
(* key and keep, is never written to the file.                               *)
StateStaysOut == "state" \notin disk.extra

(* There is no version on a file, so a save from an old copy may undo the    *)
(* save of another tab.  One from a copy that still matches the file undoes  *)
(* nothing: a peer edit changes the peers only, and the form what it has     *)
(* fields for, but for the keys of the blocks it rebuilds.                   *)
Rest(d, what) == LET e == Without(Decoded(d), Live)
                 IN  IF what = "peers" THEN [e EXCEPT !.peers = <<>>]
                     ELSE <<e.peers, e.extra>>
FreshSaveIsLocal ==
    [][\A t \in Tabs :
          /\ saving[t] \in {"form", "peers"} /\ saving'[t] = "nothing"
          /\ Rest(base[t], saving[t]) = Rest(disk, saving[t])
          => Rest(disk', saving[t]) = Rest(disk, saving[t])]_vars
=============================================================================
