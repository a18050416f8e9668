------------------------------ MODULE EventLog ------------------------------
(* internal/events/log.go, the ring buffer of lifecycle events.  Pushers are *)
(* the request handlers, the state detector and the start-up discovery; a    *)
(* connection is one run of the SSE handler (handleStreamState of            *)
(* internal/api/handlers.go), from its Subscribe to its Unsubscribe.         *)
(*                                                                           *)
(* An event is the moment it was stamped, a clock reading that no two share; *)
(* 0 is the zero time of a slot never written.  Push stamps its event before *)
(* it takes the lock, records it under the lock, and sends it to a copy of   *)
(* the listeners after the unlock, one channel after the other.              *)
EXTENDS Naturals, FiniteSets, SequencesExt

CONSTANTS
    Pushers, Connections,
    Size,       \* slots of the ring (New's capacity, main.go)
    Capacity,   \* of a subscriber's channel (32)
    MaxEvents   \* bound: events pushed in a run

ASSUME EventLogAssumption ==
    /\ Size \in Nat \ {0}
    /\ Capacity \in Nat \ {0}
    /\ MaxEvents \in Nat

VARIABLES
    clock,        \* time.Now
    buf, head,    \* the ring
    listeners,    \* l.listeners, a channel being named by its connection
    queue,        \* what each channel buffers
    ev, todo,     \* each pusher: the event at hand, the channels left to send to
    pc, stage,    \* each pusher, each connection: where it is
    recorded,     \* history: every event in the order the ring took them
    since,        \* history: how many were recorded when c subscribed
    received,     \* history: what c took from its channel
    dropped       \* history: what did not fit in c's channel

ring == <<buf, head, recorded>>
history == <<received, dropped>>
pushing == <<clock, ev, todo, pc>>
vars == <<clock, buf, head, listeners, queue, ev, todo, pc, stage,
          recorded, since, received, dropped>>

Init ==
    /\ clock = 0
    /\ buf = [i \in 0 .. Size - 1 |-> 0] /\ head = 0
    /\ listeners = <<>>
    /\ queue = [c \in Connections |-> <<>>]
    /\ ev = [p \in Pushers |-> 0] /\ todo = [p \in Pushers |-> <<>>]
    /\ pc = [p \in Pushers |-> "idle"]
    /\ stage = [c \in Connections |-> "new"]
    /\ recorded = <<>>
    /\ since = [c \in Connections |-> 0]
    /\ received = [c \in Connections |-> {}]
    /\ dropped = [c \in Connections |-> {}]

(* Mutant: off by one, starting from the slot the head points to.            *)
NewestFromHead == [i \in 1 .. Size |-> buf[(head + Size - i + 1) % Size]]

(* The ring from the newest slot to the oldest.                              *)
Newest == [i \in 1 .. Size |-> buf[(head + Size - i) % Size]]

(* Recent(n): what out holds after each round of the loop.                   *)
Recent(n) ==
    LET out[i \in 0 .. Size] ==
            IF i = 0 THEN <<>>
            ELSE IF Len(out[i - 1]) < n /\ Newest[i] # 0 THEN Append(out[i - 1], Newest[i])
            ELSE out[i - 1]
    IN  out[Size]

(* -------------------------------- Push ----------------------------------- *)

Stamp(p) ==
    /\ pc[p] = "idle" /\ clock < MaxEvents
    /\ clock' = clock + 1
    /\ ev' = [ev EXCEPT ![p] = clock']
    /\ pc' = [pc EXCEPT ![p] = "stamped"]
    /\ UNCHANGED <<ring, listeners, queue, todo, stage, since, history>>

(* Push returns, and with it go its locals.                                  *)
Leave(p) == pc' = [pc EXCEPT ![p] = "idle"] /\ ev' = [ev EXCEPT ![p] = 0]

(* Mutant: the head runs past the end of the ring.                           *)
RecordUnwrapped(p) ==
    /\ pc[p] = "stamped"
    /\ buf' = [buf EXCEPT ![head] = ev[p]]
    /\ head' = head + 1
    /\ recorded' = Append(recorded, ev[p])
    /\ todo' = [todo EXCEPT ![p] = listeners]
    /\ IF listeners = <<>> THEN Leave(p)
       ELSE pc' = [pc EXCEPT ![p] = "sending"] /\ UNCHANGED ev
    /\ UNCHANGED <<clock, listeners, queue, stage, since, history>>

(* Under the lock: the slot, the head, and a copy of the listeners.          *)
Record(p) ==
    /\ pc[p] = "stamped"
    /\ buf' = [buf EXCEPT ![head] = ev[p]]
    /\ head' = (head + 1) % Size
    /\ recorded' = Append(recorded, ev[p])
    /\ todo' = [todo EXCEPT ![p] = listeners]
    /\ IF listeners = <<>> THEN Leave(p)
       ELSE pc' = [pc EXCEPT ![p] = "sending"] /\ UNCHANGED ev
    /\ UNCHANGED <<clock, listeners, queue, stage, since, history>>

(* Mutant: a plain send, which waits for room.                               *)
SendBlocking(p) ==
    /\ pc[p] = "sending" /\ Len(queue[Head(todo[p])]) < Capacity
    /\ queue' = [queue EXCEPT ![Head(todo[p])] = Append(@, ev[p])]
    /\ todo' = [todo EXCEPT ![p] = Tail(@)]
    /\ IF Len(todo[p]) = 1 THEN Leave(p) ELSE UNCHANGED <<pc, ev>>
    /\ UNCHANGED <<clock, ring, listeners, stage, since, history>>

(* Mutant: a full channel ends the loop over the listeners.                  *)
SendOrQuit(p) ==
    /\ pc[p] = "sending"
    /\ LET c == Head(todo[p])
           full == Len(queue[c]) >= Capacity
       IN  /\ queue' = IF full THEN queue ELSE [queue EXCEPT ![c] = Append(@, ev[p])]
           /\ dropped' = IF full THEN [dropped EXCEPT ![c] = @ \cup {ev[p]}] ELSE dropped
           /\ todo' = [todo EXCEPT ![p] = IF full THEN <<>> ELSE Tail(@)]
           /\ IF full \/ Len(todo[p]) = 1 THEN Leave(p) ELSE UNCHANGED <<pc, ev>>
    /\ UNCHANGED <<clock, ring, listeners, stage, since, received>>

(* select with a default: the send of one event to one channel never waits.  *)
Send(p) ==
    /\ pc[p] = "sending"
    /\ LET c == Head(todo[p])
       IN  IF Len(queue[c]) < Capacity
           THEN /\ queue' = [queue EXCEPT ![c] = Append(@, ev[p])]
                /\ UNCHANGED dropped
           ELSE /\ dropped' = [dropped EXCEPT ![c] = @ \cup {ev[p]}]
                /\ UNCHANGED queue
    /\ todo' = [todo EXCEPT ![p] = Tail(@)]
    /\ IF Len(todo[p]) = 1 THEN Leave(p) ELSE UNCHANGED <<pc, ev>>
    /\ UNCHANGED <<clock, ring, listeners, stage, since, received>>

(* --------------------------- an SSE connection --------------------------- *)

Subscribe(c) ==
    /\ stage[c] = "new"
    /\ listeners' = Append(listeners, c)
    /\ since' = [since EXCEPT ![c] = Len(recorded)]
    /\ stage' = [stage EXCEPT ![c] = "open"]
    /\ UNCHANGED <<pushing, ring, queue, history>>

Receive(c) ==
    /\ stage[c] = "open" /\ queue[c] # <<>>
    /\ received' = [received EXCEPT ![c] = @ \cup {Head(queue[c])}]
    /\ queue' = [queue EXCEPT ![c] = Tail(@)]
    /\ UNCHANGED <<pushing, ring, listeners, stage, since, dropped>>

(* The client goes away; the deferred Unsubscribe.  The channel stays open:  *)
(* a pusher with an older copy of the listeners may still send to it.  What  *)
(* the histories say of a connection ends with it.                           *)
Unsubscribe(c) ==
    /\ stage[c] = "open"
    /\ \E i \in DOMAIN listeners :
           listeners[i] = c /\ listeners' = RemoveAt(listeners, i)
    /\ stage' = [stage EXCEPT ![c] = "closed"]
    /\ received' = [received EXCEPT ![c] = {}]
    /\ dropped' = [dropped EXCEPT ![c] = {}]
    /\ since' = [since EXCEPT ![c] = 0]
    /\ UNCHANGED <<pushing, ring, queue>>

Next == \/ \E p \in Pushers : Stamp(p) \/ Record(p) \/ Send(p)
        \/ \E c \in Connections : Subscribe(c) \/ Receive(c) \/ Unsubscribe(c)

(* Once in Push a goroutine runs on; nothing makes a client connect, read or *)
(* leave.                                                                    *)
Fairness == \A p \in Pushers : WF_vars(Record(p) \/ Send(p))

Spec == Init /\ [][Next]_vars
FairSpec == Spec /\ Fairness

(* ------------------------------ properties ------------------------------- *)

Event == 1 .. MaxEvents

(* Every variable has its type.                                              *)
TypeOK ==
    /\ clock \in 0 .. MaxEvents
    /\ buf \in [0 .. Size - 1 -> Event \cup {0}]
    /\ head \in 0 .. Size - 1
    /\ listeners \in Seq(Connections)
    /\ queue \in [Connections -> Seq(Event)]
    /\ ev \in [Pushers -> Event \cup {0}]
    /\ todo \in [Pushers -> Seq(Connections)]
    /\ pc \in [Pushers -> {"idle", "stamped", "sending"}]
    /\ stage \in [Connections -> {"new", "open", "closed"}]
    /\ recorded \in Seq(Event)
    /\ since \in [Connections -> Nat]
    /\ received \in [Connections -> SUBSET Event]
    /\ dropped \in [Connections -> SUBSET Event]

(* Recent returns the last events recorded, latest first, none skipped and   *)
(* none twice, before and after the ring wraps (83-98).                      *)
RecentIsLatest ==
    \A n \in 1 .. Size :
        LET k == IF n < Len(recorded) THEN n ELSE Len(recorded)
        IN  Recent(n) = [i \in 1 .. k |-> recorded[Len(recorded) + 1 - i]]

(* "Subscribe returns a channel that receives every event pushed after       *)
(* Subscribe was called" (100-103): each such event is on its way to an open *)
(* connection, in its channel, received or dropped because the channel was   *)
(* full, and is so in one way only, once.                                    *)
Ways(c, e) ==
    Cardinality({p \in Pushers : pc[p] = "sending" /\ ev[p] = e /\ c \in ToSet(todo[p])})
    + Cardinality({i \in DOMAIN queue[c] : queue[c][i] = e})
    + (IF e \in received[c] THEN 1 ELSE 0)
    + (IF e \in dropped[c] THEN 1 ELSE 0)
DeliveredOnce ==
    \A c \in Connections : stage[c] = "open" =>
        \A i \in 1 .. Len(recorded) :
            Ways(c, recorded[i]) = IF i > since[c] THEN 1 ELSE 0

(* A slow or departed client never holds up Push, and with it the request or *)
(* the detector that reports an event (72-78).                               *)
PushReturns == \A p \in Pushers : (pc[p] # "idle") ~> (pc[p] = "idle")
=============================================================================
