------------------------------- MODULE Stream -------------------------------
(* The live view: the SSE handler handleStreamState of internal/api/         *)
(* handlers.go and the browser tab it feeds (connectSSE, the visibility      *)
(* handler and the list requests of internal/webui/assets/index.html).       *)
(*                                                                           *)
(* What List, stateFor and Latest return together is a version number, the   *)
(* event log a count: event e is the e-th recorded (EventLog has the ring).  *)
(* A sample's metrics are numbers that JSON may have no form for: ParseFloat *)
(* takes NaN and Inf, and the error of json.Marshal and Encode is discarded. *)
(* Between a handler and its tab lies a wire: TCP and the browser's queue, in *)
(* order, lost as a whole when the connection ends.                          *)
EXTENDS Integers, SequencesExt

CONSTANTS
    Tabs,
    Capacity,    \* of a subscriber's channel (32)
    Recents,     \* events in a snapshot (20)
    Shown,       \* events a tab keeps (50)
    Window,      \* bound: messages on a wire; a write beyond it waits
    MaxChanges,  \* bound: changes of the tunnels
    MaxEvents,   \* bound: events pushed
    MaxTrouble   \* bound: failed listings, broken connections, hidden tabs,
                 \* metrics that are no finite numbers

ASSUME StreamAssumption ==
    /\ Capacity \in Nat \ {0} /\ Window \in Nat \ {0}
    /\ Recents \in Nat \ {0} /\ Shown \in Nat /\ Shown >= 2 * Recents
    /\ MaxChanges \in Nat /\ MaxEvents \in Nat /\ MaxTrouble \in Nat

VARIABLES
    world, pushed,    \* the server: version of the tunnels, events recorded
    unfit,            \* a latest sample has a value that JSON cannot have
    stage,            \* each tab's connection: where the handler is
    chan, wire,       \* its subscription's channel, its messages under way
    draft,            \* the snapshot in the making
    visible,          \* each tab: ~document.hidden
    tunnels, events,  \* state.tunnels, state.events
    fetch,            \* a GET /api/tunnels: not made, asked, or its answer
    dropped,          \* history: events that found the channel full
    sent,             \* what the connection has flushed: nothing, errors or
                      \* empty snapshots only, a snapshot
    trouble           \* troubles so far

server == <<world, pushed, unfit>>
connection == <<stage, chan, wire, draft, sent, dropped>>
tab == <<tunnels, events>>
vars == <<server, connection, visible, tab, fetch, trouble>>

Lesser(a, b) == IF a < b THEN a ELSE b

(* Recent(20): the last events, newest first.                                *)
Recent == [i \in 1 .. Lesser(Recents, pushed) |-> pushed + 1 - i]

Msg(kind, version, evs) == [kind |-> kind, tunnels |-> version, events |-> evs]

(* init(): a list, then connectSSE.                                          *)
Init ==
    /\ world = 0 /\ pushed = 0 /\ unfit = FALSE
    /\ stage = [t \in Tabs |-> "closed"]
    /\ chan = [t \in Tabs |-> <<>>] /\ wire = [t \in Tabs |-> <<>>]
    /\ draft = [t \in Tabs |-> Msg("state", 0, <<>>)]
    /\ visible = [t \in Tabs |-> TRUE]
    /\ tunnels = [t \in Tabs |-> 0] /\ events = [t \in Tabs |-> <<>>]
    /\ fetch = [t \in Tabs |-> -1]
    /\ dropped = [t \in Tabs |-> {}] /\ sent = [t \in Tabs |-> "nothing"]
    /\ trouble = 0

(* ------------------------------ the server ------------------------------- *)

Change ==
    /\ world < MaxChanges /\ world' = world + 1
    /\ UNCHANGED <<pushed, unfit, connection, visible, tab, fetch, trouble>>

(* A daemon's metrics turn bad, and good again.                              *)
Spoil ==
    /\ ~unfit /\ trouble < MaxTrouble
    /\ unfit' = TRUE /\ trouble' = trouble + 1
    /\ UNCHANGED <<world, pushed, connection, visible, tab, fetch>>
Mend ==
    /\ unfit /\ unfit' = FALSE
    /\ UNCHANGED <<world, pushed, connection, visible, tab, fetch, trouble>>

(* Mutant: the handler subscribes after the first snapshot.                  *)
PushLate ==
    /\ pushed < MaxEvents /\ pushed' = pushed + 1
    /\ LET room(t) == sent[t] # "nothing" /\ Len(chan[t]) < Capacity
       IN  /\ chan' = [t \in Tabs |-> IF room(t) THEN Append(chan[t], pushed') ELSE chan[t]]
           /\ dropped' = [t \in Tabs |-> IF sent[t] # "nothing" /\ ~room(t)
                                         THEN dropped[t] \cup {pushed'} ELSE dropped[t]]
    /\ UNCHANGED <<world, unfit, stage, wire, draft, sent, visible, tab, fetch, trouble>>

(* Push, and the sends it makes: a full channel loses the event.  One at a   *)
(* time; pushes that overlap are in EventLog.                                *)
Push ==
    /\ pushed < MaxEvents /\ pushed' = pushed + 1
    /\ LET room(t) == stage[t] # "closed" /\ Len(chan[t]) < Capacity
       IN  /\ chan' = [t \in Tabs |-> IF room(t) THEN Append(chan[t], pushed') ELSE chan[t]]
           /\ dropped' = [t \in Tabs |-> IF stage[t] # "closed" /\ ~room(t)
                                         THEN dropped[t] \cup {pushed'} ELSE dropped[t]]
    /\ UNCHANGED <<world, unfit, stage, wire, draft, sent, visible, tab, fetch, trouble>>

(* A message is written and flushed; the first carries the response's        *)
(* headers with it, which the tab sees as 'open'.                            *)
Send(t, m) ==
    /\ Len(wire[t]) < Window
    /\ wire' = [wire EXCEPT ![t] =
           @ \o (IF sent[t] = "nothing" THEN <<Msg("open", 0, <<>>)>> ELSE <<>>) \o <<m>>]

(* A request of the tab's EventSource arrives.                               *)
Subscribe(t) ==
    /\ visible[t] /\ stage[t] = "closed"
    /\ stage' = [stage EXCEPT ![t] = "open"]
    /\ UNCHANGED <<server, chan, wire, draft, sent, dropped, visible, tab, fetch, trouble>>

(* What json.Marshal makes of a snapshot: with an unfit metric, nothing, and *)
(* the data of the message is empty.                                         *)
Form == IF unfit THEN "empty" ELSE "state"

(* Mutant: no ticker, only the first snapshot.                               *)
ReadTunnelsOnce(t) ==
    /\ stage[t] = "open"
    /\ draft' = [draft EXCEPT ![t].kind = Form, ![t].tunnels = world]
    /\ stage' = [stage EXCEPT ![t] = "listed"]
    /\ UNCHANGED <<server, chan, wire, sent, dropped, visible, tab, fetch, trouble>>

(* send(), at once and at every tick: the tunnels and their latest samples   *)
(* first, the events after.                                                  *)
ReadTunnels(t) ==
    /\ stage[t] \in {"open", "stream"}
    /\ draft' = [draft EXCEPT ![t].kind = Form, ![t].tunnels = world]
    /\ stage' = [stage EXCEPT ![t] = "listed"]
    /\ UNCHANGED <<server, chan, wire, sent, dropped, visible, tab, fetch, trouble>>

ReadEvents(t) ==
    /\ stage[t] = "listed"
    /\ draft' = [draft EXCEPT ![t].events = Recent]
    /\ stage' = [stage EXCEPT ![t] = "drawn"]
    /\ UNCHANGED <<server, chan, wire, sent, dropped, visible, tab, fetch, trouble>>

SendSnapshot(t) ==
    /\ stage[t] = "drawn"
    /\ Send(t, draft[t])
    /\ sent' = [sent EXCEPT ![t] =
           IF draft[t].kind = "state" \/ @ = "snapshot" THEN "snapshot" ELSE "errors"]
    /\ stage' = [stage EXCEPT ![t] = "stream"]
    /\ UNCHANGED <<server, chan, draft, dropped, visible, tab, fetch, trouble>>

(* List fails: a message named "error" takes the snapshot's place.           *)
SendError(t) ==
    /\ stage[t] \in {"open", "stream"} /\ trouble < MaxTrouble
    /\ Send(t, Msg("error", 0, <<>>))
    /\ sent' = [sent EXCEPT ![t] = IF @ = "snapshot" THEN @ ELSE "errors"]
    /\ stage' = [stage EXCEPT ![t] = "stream"]
    /\ trouble' = trouble + 1
    /\ UNCHANGED <<server, chan, draft, dropped, visible, tab, fetch>>

Forward(t) ==
    /\ stage[t] = "stream" /\ chan[t] # <<>>
    /\ Send(t, Msg("log", 0, <<Head(chan[t])>>))
    /\ chan' = [chan EXCEPT ![t] = Tail(@)]
    /\ UNCHANGED <<server, stage, draft, sent, dropped, visible, tab, fetch, trouble>>

(* The connection ends: the handler's deferred Unsubscribe, and whatever was *)
(* under way is lost.                                                        *)
Closed(t) ==
    /\ stage' = [stage EXCEPT ![t] = "closed"]
    /\ chan' = [chan EXCEPT ![t] = <<>>]
    /\ wire' = [wire EXCEPT ![t] = <<>>]
    /\ draft' = [draft EXCEPT ![t] = Msg("state", 0, <<>>)]
    /\ dropped' = [dropped EXCEPT ![t] = {}]
    /\ sent' = [sent EXCEPT ![t] = "nothing"]

(* ------------------------------- the tab --------------------------------- *)

(* A break of the connection; EventSource connects again by itself.          *)
Break(t) ==
    /\ stage[t] # "closed" /\ trouble < MaxTrouble
    /\ Closed(t)
    /\ trouble' = trouble + 1
    /\ UNCHANGED <<server, visible, tab, fetch>>

(* [event, ...state.events].slice(0, 50)                                     *)
Prepended(new, old) == SubSeq(new \o old, 1, Lesser(Shown, Len(new \o old)))

(* Mutant: a snapshot's events are added to those the tab has.               *)
TakeAdding(t, m) ==
    CASE m.kind = "state" ->
            /\ tunnels' = [tunnels EXCEPT ![t] = m.tunnels]
            /\ events' = [events EXCEPT ![t] = Prepended(m.events, @)]
      [] m.kind = "log" ->
            /\ events' = [events EXCEPT ![t] = Prepended(m.events, @)]
            /\ UNCHANGED tunnels
      [] OTHER -> UNCHANGED tab

(* The listeners of connectSSE.  What those of 'open' and 'error' keep only  *)
(* shows in the connection's pill; on empty data JSON.parse throws before    *)
(* anything is assigned.                                                     *)
Take(t, m) ==
    CASE m.kind = "state" ->
            /\ tunnels' = [tunnels EXCEPT ![t] = m.tunnels]
            /\ events' = [events EXCEPT ![t] = m.events]
      [] m.kind = "log" ->
            /\ events' = [events EXCEPT ![t] = Prepended(m.events, @)]
            /\ UNCHANGED tunnels
      [] OTHER -> UNCHANGED tab

Deliver(t) ==
    /\ wire[t] # <<>>
    /\ Take(t, Head(wire[t]))
    /\ wire' = [wire EXCEPT ![t] = Tail(@)]
    /\ UNCHANGED <<server, stage, chan, draft, sent, dropped, visible, fetch, trouble>>

Fetching(t) == fetch[t] # -1
Asked == MaxChanges + 1

(* visibilitychange.  On return the tab also asks for a list.                *)
Hide(t) ==
    /\ visible[t] /\ trouble < MaxTrouble
    /\ visible' = [visible EXCEPT ![t] = FALSE]
    /\ Closed(t)
    /\ trouble' = trouble + 1
    /\ UNCHANGED <<server, tab, fetch>>

Show(t) ==
    /\ ~visible[t] /\ ~Fetching(t)
    /\ visible' = [visible EXCEPT ![t] = TRUE]
    /\ fetch' = [fetch EXCEPT ![t] = Asked]
    /\ UNCHANGED <<server, connection, tab, trouble>>

(* The list that follows an action, an import, a save or a delete.           *)
Ask(t) ==
    /\ visible[t] /\ ~Fetching(t)
    /\ fetch' = [fetch EXCEPT ![t] = Asked]
    /\ UNCHANGED <<server, connection, visible, tab, trouble>>

(* listTunnels; its answer travels beside the stream, in no order with it.   *)
(* An empty one, with an unfit metric, is null to the tab: taking the        *)
(* tunnels of it throws.                                                     *)
AnswerList(t) ==
    /\ fetch[t] = Asked
    /\ fetch' = [fetch EXCEPT ![t] = IF unfit THEN -1 ELSE world]
    /\ UNCHANGED <<server, connection, visible, tab, trouble>>

TakeList(t) ==
    /\ fetch[t] \in 0 .. MaxChanges
    /\ tunnels' = [tunnels EXCEPT ![t] = fetch[t]]
    /\ fetch' = [fetch EXCEPT ![t] = -1]
    /\ UNCHANGED <<server, connection, visible, events, trouble>>

Serve(t) == ReadTunnels(t) \/ ReadEvents(t) \/ SendSnapshot(t) \/ Forward(t)
Browse(t) == Subscribe(t) \/ Deliver(t) \/ AnswerList(t) \/ TakeList(t)

Next == \/ Change \/ Spoil \/ Mend \/ Push
        \/ \E t \in Tabs : \/ Serve(t) \/ SendError(t) \/ Break(t)
                           \/ Browse(t) \/ Hide(t) \/ Show(t) \/ Ask(t)

(* The ticker ticks and select serves a channel that stays ready (chosen at  *)
(* random among the ready ones), a connection that is up delivers, a browser *)
(* connects again, a request is answered, and a user comes back to the tab.  *)
(* No metric is bound to become fit again.                                   *)
Fairness == \A t \in Tabs :
    /\ WF_vars(ReadTunnels(t)) /\ WF_vars(ReadEvents(t)) /\ WF_vars(SendSnapshot(t))
    /\ SF_vars(Forward(t)) /\ WF_vars(Subscribe(t)) /\ WF_vars(Deliver(t))
    /\ WF_vars(AnswerList(t)) /\ WF_vars(TakeList(t)) /\ WF_vars(Show(t))

Spec == Init /\ [][Next]_vars
FairSpec == Spec /\ Fairness

(* ------------------------------ properties ------------------------------- *)

(* Between the snapshot and the stream no event falls through: of the last   *)
(* events recorded, each is in the tab's list, in a message under way, in    *)
(* the channel, or was dropped because the channel was full (650, 676: the    *)
(* subscription precedes the first snapshot).                                *)
Carried(t) == ToSet(events[t]) \cup ToSet(chan[t])
                 \cup UNION {ToSet(m.events) : m \in ToSet(wire[t])}
NoGap ==
    \A t \in Tabs : sent[t] = "snapshot" =>
        ToSet(Recent) \subseteq Carried(t) \cup dropped[t]

(* A tab lists an event at most twice: once from a snapshot and once more    *)
(* from the channel the snapshot did not wait for (1345-1358).               *)
AtMostTwice ==
    \A t \in Tabs : \A i, j, k \in DOMAIN events[t] :
        i < j /\ j < k => ~(events[t][i] = events[t][j] /\ events[t][j] = events[t][k])

(* When the server has come to rest, the tab comes to show what it has: the  *)
(* tunnels in spite of list answers that overtake the stream or lag behind   *)
(* it, and the events in spite of drops and doubles, after any breaks.  The  *)
(* premise is needed: while one metric of one tunnel is not finite, no       *)
(* snapshot and no list reaches any tab (671, 773).                          *)
Converges ==
    <>[]~unfit =>
        \A t \in Tabs : <>[](visible[t] => tunnels[t] = world /\ events[t] = Recent)
=============================================================================
