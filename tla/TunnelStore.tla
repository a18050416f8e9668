---------------------------- MODULE TunnelStore ----------------------------
(* What the tunnel store promises the panel's handlers, free of locks,       *)
(* caches and temporary files: each call takes effect at one instant between *)
(* the moment it is made and the moment it returns, a write that fails has   *)
(* no effect, and a crash loses the calls in progress but no file.  The one  *)
(* thing a crash may leave is the content of an interrupted write, which     *)
(* from then on List shows ("ghosts") and nothing else does.                 *)
(*                                                                           *)
(* Files may refuse to be read or looked at at any time.  A get or an update *)
(* then fails; a listing leaves them out, and stands until the next write;   *)
(* and a create that could not look at its name ("blind") replaces the file. *)
EXTENDS Tunnels

CONSTANTS Procs, Nothing

VARIABLES
    tunnels, ghosts,
    listing,        \* what List answers until the next write, or Nothing
    pending, reply, \* each caller's call and its answer
    blind           \* the creates that could not look at their name
vars == <<tunnels, ghosts, listing, pending, reply, blind>>

Init == /\ tunnels \in [Names -> File]
        /\ ghosts = {}
        /\ listing = Nothing
        /\ blind = {}
        /\ pending = [p \in Procs |-> Nothing]
        /\ reply = [p \in Procs |-> Nothing]

Invoke(p) == /\ pending[p] = Nothing
             /\ \E r \in Request : pending' = [pending EXCEPT ![p] = r]
             /\ UNCHANGED <<tunnels, ghosts, listing, reply, blind>>

Waiting(p, op) == pending[p] # Nothing /\ reply[p] = Nothing /\ pending[p].op = op
Answered(p, status, found) == reply' = [reply EXCEPT ![p] = Answer(status, found)]

(* What is at the requested name, and the tunnel an accepted write puts there. *)
At(p) == tunnels[pending[p].tunnel.name]
Written(p) == IF pending[p].op = "update" THEN Merged(pending[p].tunnel, At(p))
                                          ELSE pending[p].tunnel

(* The write of p would go through in the present state.                     *)
Due(p) == \/ Waiting(p, "create") /\ Accepted(pending[p])
             /\ (At(p) = Absent \/ p \in blind)
          \/ Waiting(p, "update") /\ Accepted(pending[p]) /\ At(p) \in Tunnel

(* A look at the name of a create fails on the file that has it.             *)
Blind(p) == /\ Waiting(p, "create") /\ Accepted(pending[p]) /\ At(p) # Absent
            /\ blind' = blind \cup {p}
            /\ UNCHANGED <<tunnels, ghosts, listing, pending, reply>>

Write(p) == /\ Due(p)
            /\ tunnels' = [tunnels EXCEPT ![pending[p].tunnel.name] = Written(p)]
            /\ Answered(p, "ok", {Written(p)})
            /\ listing' = Nothing
            /\ UNCHANGED <<ghosts, pending, blind>>

Delete(p) == /\ Waiting(p, "delete")
             /\ tunnels' = [tunnels EXCEPT ![pending[p].tunnel.name] = Absent]
             /\ Answered(p, "ok", {})
             /\ listing' = Nothing
             /\ UNCHANGED <<ghosts, pending, blind>>

Get(p) == /\ Waiting(p, "get")
          /\ \E answer \in Loads(At(p)) : reply' = [reply EXCEPT ![p] = answer]
          /\ UNCHANGED <<tunnels, ghosts, listing, pending, blind>>

(* The listing that stands, or a new one.                                    *)
List(p) == /\ Waiting(p, "list")
           /\ \/ listing # Nothing /\ listing' = listing
              \/ /\ listing = Nothing
                 /\ \E unread \in SUBSET (Names \cup ghosts) :
                        listing' = Answer("ok", Listing(tunnels, ghosts, unread))
           /\ reply' = [reply EXCEPT ![p] = listing']
           /\ UNCHANGED <<tunnels, ghosts, pending, blind>>

(* A call is refused for one of the reasons its error names, or fails on     *)
(* I/O, and either way changes nothing.                                      *)
Refuse(p) ==
    /\ \/ /\ pending[p] # Nothing /\ reply[p] = Nothing
          /\ ~Accepted(pending[p])
          /\ Answered(p, "invalid", {})
       \/ /\ Waiting(p, "create") /\ At(p) # Absent
          /\ Answered(p, "exists", {})
       \/ /\ Waiting(p, "update") /\ At(p) = Absent
          /\ Answered(p, "notfound", {})
       \/ /\ \E op \in Writes \cup {"list"} : Waiting(p, op)
          /\ Answered(p, "failed", {})
    /\ UNCHANGED <<tunnels, ghosts, listing, pending, blind>>

Return(p) == /\ reply[p] # Nothing
             /\ pending' = [pending EXCEPT ![p] = Nothing]
             /\ reply' = [reply EXCEPT ![p] = Nothing]
             /\ blind' = blind \ {p}
             /\ UNCHANGED <<tunnels, ghosts, listing>>

Crash == /\ \/ ghosts' = ghosts
            \/ \E p \in Procs : Due(p) /\ ghosts' = ghosts \cup {Written(p)}
         /\ pending' = [p \in Procs |-> Nothing]
         /\ reply' = [p \in Procs |-> Nothing]
         /\ listing' = Nothing
         /\ blind' = {}
         /\ UNCHANGED tunnels

Next == \/ \E p \in Procs : \/ Invoke(p) \/ Blind(p) \/ Write(p) \/ Delete(p) \/ Get(p)
                            \/ List(p) \/ Refuse(p) \/ Return(p)
        \/ Crash

Spec == Init /\ [][Next]_vars
=============================================================================
