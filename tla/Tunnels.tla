------------------------------ MODULE Tunnels ------------------------------
(* The data of internal/store that the store's concurrent operations move    *)
(* around: what a tunnel file holds, what a caller may ask for, and what     *)
(* comes back.  A configuration is an opaque value; all the store ever asks  *)
(* of it is whether validateTunnel accepts it.  Timestamps are left out.     *)
EXTENDS FiniteSets

CONSTANTS
    Names,        \* names that validName matches
    Configs,      \* typed part of a tunnel: mode, transport, server, peers...
    Unacceptable, \* the ones validateTunnel refuses (a bad mode, no server...)
    Extras,       \* values of the Extra map: keys the panel does not know
    NoExtra,      \* Extra == nil
    Absent,       \* no file of that name
    Malformed     \* a file that json.Unmarshal cannot parse

(* A tunnel as loadFile returns it.  Its name is the one embedded in the     *)
(* file, and for a file with none, the one derived from the file's name.     *)
Tunnel == [name : Names, config : Configs, extra : Extras \cup {NoExtra}]

ASSUME TunnelsAssumption ==
    /\ Unacceptable \subseteq Configs
    /\ NoExtra \notin Extras
    /\ Absent \notin Tunnel
    /\ Malformed \notin Tunnel
    /\ Absent # Malformed

(* What one directory entry can be.                                          *)
File == Tunnel \cup {Absent, Malformed}

(* The calls handlers make.  Import is a Create under the given name, so it  *)
(* is not a kind of its own.  list, get and delete carry a tunnel of which   *)
(* only the name is read (and by list, nothing).                             *)
Request == [op : {"create", "update", "delete", "get", "list"}, tunnel : Tunnel]
Writes == {"create", "update", "delete"}

Reply == [status : {"ok", "invalid", "exists", "notfound", "failed"},
          tunnels : SUBSET Tunnel]
Answer(status, tunnels) == [status |-> status, tunnels |-> tunnels]

(* The argument checks made before any lock is taken.                        *)
Accepted(r) == r.op \in {"create", "update"} => r.tunnel.config \notin Unacceptable

(* Mutant: the body a client sends replaces the file as it is.               *)
MergedBody(t, existing) == t

(* Update keeps the unknown fields on disk when the caller passes none.      *)
Merged(t, existing) ==
    [t EXCEPT !.extra = IF @ = NoExtra THEN existing.extra ELSE @]

(* What List finds: every file of the directory that it can read and parse,  *)
(* each under the name embedded in it, leftover temporary files among them.  *)
(* A file that cannot be read (unread) is passed over like a malformed one.  *)
Listing(files, leftovers, unread) ==
    ({files[n] : n \in Names \ unread} \cap Tunnel) \cup (leftovers \ unread)

(* Mutant: the error of json.Unmarshal is ignored.                           *)
LoadsUnparsed(f) == {Answer("failed", {}),
                     IF f = Absent THEN Answer("notfound", {}) ELSE Answer("ok", {f})}

(* What Get may return for the entry f: reading it can always fail.          *)
Loads(f) == {Answer("failed", {})}
            \cup (IF f = Absent THEN {Answer("notfound", {})} ELSE {})
            \cup {Answer("ok", {t}) : t \in {f} \cap Tunnel}
=============================================================================
