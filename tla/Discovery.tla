------------------------------ MODULE Discovery -----------------------------
(* Configurations outside the panel's directory: Discover of                 *)
(* internal/discover, the requests that scan and import (handleDiscover and  *)
(* handleDiscoverImport of internal/api), the scan at boot, and the removal  *)
(* of the source when an imported tunnel is deleted.                         *)
(*                                                                           *)
(* One scan, one import and one delete go on at a time, each beside the      *)
(* others and beside operators who create and remove files.                  *)
EXTENDS Integers, FiniteSets, SequencesExt

CONSTANTS
    Paths,      \* files outside the panel's directory
    Own,        \* files in it: what it manages already
    Texts,      \* paths as they are written on a command line or in a unit
    Abs,        \* filepath.Abs: [Texts -> Paths \cup Own]
    LinkTo,     \* where a path that is a symbolic link leads
    First,      \* bound: what the files may be at first
    Processes, Units, \* texts behind -c, in the order ps and systemctl give
    Known, Tree,      \* paths in the known directories (some listed twice), of find
    Plenty,     \* known ones that make find unnecessary (10)
    Names,
    Absent, Panel, \* no tunnel of that name, one created in the panel
    None,
    MaxScans,   \* bound: scans
    MaxCalls,   \* bound: imports and deletes
    MaxChanges  \* bound: files operators create or remove, failures of the
                \* scan and of the delete

(* A config has the markers and a mode; a bare one a mode but no markers in  *)
(* its first 4 KB; a broken one markers, but no mode or no valid JSON.       *)
Contents == {"none", "config", "bare", "broken"}

ASSUME DiscoveryAssumption ==
    /\ Abs \in [Texts -> Paths \cup Own] /\ Paths \cap Own = {}
    /\ Paths \subseteq Texts /\ \A p \in Paths : Abs[p] = p
    /\ {Processes, Units} \subseteq Seq(Texts) /\ {Known, Tree} \subseteq Seq(Paths)
    /\ LinkTo \in [Paths -> Paths] /\ First \subseteq [Paths -> Contents \cup {"link"}]
    /\ {Absent, Panel} \cap Paths = {} /\ Absent # Panel /\ None \notin Names
    /\ Plenty \in Nat /\ {MaxScans, MaxCalls, MaxChanges} \subseteq Nat

VARIABLES
    files,   \* what is in each file
    store,   \* each name: Absent, Panel, or the path it was imported from
    stage, queue, hits, \* the scan: strategy, candidates left, result
    todo, names, imported, failed, \* the import
    victim, source,  \* the delete: the name, the source read before it
    shown,   \* the paths of the last scan that ended
    scans, calls, changes,
    quiet,   \* history: nothing has disturbed the scan
    asked,   \* history: the paths of the import
    gone, since \* history: sources of deleted tunnels, at the start of the scan

scan == <<stage, queue, hits>>
import == <<todo, names, imported, failed, asked>>
delete == <<victim, source, gone>>
bounds == <<scans, calls, changes>>
vars == <<files, store, scan, import, delete, shown, bounds, quiet, since>>

Content(p) == IF files[p] = "link" THEN files[LinkTo[p]] ELSE files[p]
LooksLike(p) == Content(p) \in {"config", "broken"}
HasMode(p) == Content(p) \in {"config", "bare"}

Strategies == <<"process", "systemd", "filesystem">>
Found(h) == {h[i].path : i \in DOMAIN h}

Init ==
    /\ files \in First
    /\ store = [n \in Names |-> Absent]
    /\ stage = 0 /\ queue = <<>> /\ hits = <<>>
    /\ todo = <<>> /\ names \in [Paths -> Names] /\ imported = <<>> /\ failed = {} /\ asked = {}
    /\ victim = None /\ source = Panel
    /\ shown = {}
    /\ scans = 0 /\ calls = 0 /\ changes = 0
    /\ quiet = TRUE /\ gone = {} /\ since = {}

(* -------------------------------- Discover ------------------------------- *)

(* A request, or runStartupDiscovery.                                        *)
Scan ==
    /\ stage = 0 /\ scans < MaxScans
    /\ scans' = scans + 1
    /\ stage' = 1 /\ queue' = Processes /\ hits' = <<>>
    /\ quiet' = TRUE /\ since' = IF victim = None THEN gone ELSE {}
    /\ UNCHANGED <<files, store, import, delete, shown, calls, changes>>

(* visit, called for one path of a listing after the other: those it keeps.  *)
Listed(paths) == {p \in ToSet(paths) : LooksLike(p)}
Kept(paths, ok) ==
    LET out[i \in 0 .. Len(paths)] ==
            IF i = 0 THEN <<>>
            ELSE IF paths[i] \in ok THEN Append(out[i - 1], paths[i])
            ELSE out[i - 1]
    IN  out[Len(paths)]

(* The known directories first; find unless they were plenty, as far as the  *)
(* budget of 30 s takes it.                                                  *)
Visited == LET known == Kept(Known, Listed(Known))
               tree == Kept(Tree, {p \in Listed(Tree) : files[p] # "link"})
           IN  IF Len(known) >= Plenty THEN {known}
               ELSE {known \o SubSeq(tree, 1, k) : k \in 0 .. Len(tree)}

(* The candidates of a strategy have been added, the next one is asked.      *)
NextStrategy ==
    /\ stage \in {1, 2} /\ queue = <<>>
    /\ stage' = stage + 1
    /\ queue' \in IF stage = 1 THEN {Units} ELSE Visited
    /\ UNCHANGED <<files, store, hits, import, delete, shown, bounds, quiet, since>>

(* ps or systemctl fails or takes more than 5 s: no candidates.              *)
StrategyFails ==
    /\ stage \in {1, 2} /\ changes < MaxChanges
    /\ queue = (IF stage = 1 THEN Processes ELSE Units)
    /\ queue' = <<>>
    /\ changes' = changes + 1 /\ quiet' = FALSE
    /\ UNCHANGED <<files, store, stage, hits, import, delete, shown, scans, calls, since>>

(* Mutant: a path is compared as it is written.                              *)
AddHitAsWritten ==
    /\ queue # <<>>
    /\ queue' = Tail(queue)
    /\ LET p == Abs[Head(queue)]
       IN  hits' = IF p \in Own \/ Head(queue) \in Found(hits) \/ ~HasMode(p) THEN hits
                   ELSE Append(hits, [path |-> p, source |-> Strategies[stage]])
    /\ UNCHANGED <<files, store, stage, import, delete, shown, bounds, quiet, since>>

(* addHit: not what the panel has, not twice, and only with a mode.          *)
AddHit ==
    /\ queue # <<>>
    /\ queue' = Tail(queue)
    /\ LET p == Abs[Head(queue)]
       IN  hits' = IF p \in Own \/ p \in Found(hits) \/ ~HasMode(p) THEN hits
                   ELSE Append(hits, [path |-> p, source |-> Strategies[stage]])
    /\ UNCHANGED <<files, store, stage, import, delete, shown, bounds, quiet, since>>

(* fillMeta cannot read the file: no mode, so no hit.                        *)
Unreadable ==
    /\ queue # <<>> /\ changes < MaxChanges
    /\ queue' = Tail(queue)
    /\ changes' = changes + 1 /\ quiet' = FALSE
    /\ UNCHANGED <<files, store, stage, hits, import, delete, shown, scans, calls, since>>

(* The answer, or the event "found N unmanaged configs".                     *)
Finish ==
    /\ stage = 3 /\ queue = <<>>
    /\ stage' = 0
    /\ shown' = Found(hits)
    /\ UNCHANGED <<files, store, queue, hits, import, delete, bounds, quiet, since>>

(* ---------------------- import, delete, operators ------------------------ *)

(* Of the hits shown, some are chosen, each under a name.                    *)
Import ==
    /\ todo = <<>> /\ calls < MaxCalls /\ shown # {}
    /\ calls' = calls + 1
    /\ \E ps \in SUBSET shown \ {{}} :
           asked' = ps /\ todo' \in SetToSeqs(ps) /\ names' \in [Paths -> Names]
    /\ imported' = <<>> /\ failed' = {}
    /\ UNCHANGED <<files, store, scan, delete, shown, scans, changes, quiet, since>>

(* Mutant: a path that is refused is left out of the answer.                 *)
ImportOneSilent ==
    /\ todo # <<>>
    /\ LET p == Head(todo)
       IN  \/ /\ LooksLike(p) /\ HasMode(p) /\ store[names[p]] = Absent
              /\ store' = [store EXCEPT ![names[p]] = p]
              /\ imported' = Append(imported, names[p]) /\ UNCHANGED failed
           \/ /\ LooksLike(p)
              /\ failed' = failed \cup {p} /\ UNCHANGED <<store, imported>>
           \/ ~LooksLike(p) /\ UNCHANGED <<store, imported, failed>>
    /\ todo' = Tail(todo)
    /\ UNCHANGED <<files, scan, names, asked, delete, shown, bounds, quiet, since>>

(* The gate, ReadConfig, the parser and Create, for one path of the request. *)
(* Any of them may refuse it, a good one too (a type that Unmarshal does not *)
(* take, validateTunnel, a failed read or write), and the others go on.      *)
ImportOne ==
    /\ todo # <<>>
    /\ LET p == Head(todo)
       IN  \/ /\ LooksLike(p) /\ HasMode(p) /\ store[names[p]] = Absent
              /\ store' = [store EXCEPT ![names[p]] = p]
              /\ imported' = Append(imported, names[p]) /\ UNCHANGED failed
           \/ failed' = failed \cup {p} /\ UNCHANGED <<store, imported>>
    /\ todo' = Tail(todo)
    /\ UNCHANGED <<files, scan, names, asked, delete, shown, bounds, quiet, since>>

Create(n) ==
    /\ calls < MaxCalls /\ calls' = calls + 1
    /\ store[n] = Absent /\ store' = [store EXCEPT ![n] = Panel]
    /\ UNCHANGED <<files, scan, import, delete, shown, scans, changes, quiet, since>>

(* Mutant: the source is looked up when the tunnel is gone.                  *)
DeleteLate(n) ==
    /\ victim = None /\ calls < MaxCalls /\ store[n] # Absent
    /\ calls' = calls + 1
    /\ victim' = n /\ source' = Panel
    /\ gone' = gone \cup ({store[n]} \ {Panel})
    /\ store' = [store EXCEPT ![n] = Absent]
    /\ UNCHANGED <<files, scan, import, shown, scans, changes, quiet, since>>

(* deleteTunnel: the source is read first, then the tunnel's file removed.   *)
(* When it cannot be read (lookupErr), the tunnel goes and the source stays. *)
Delete(n) ==
    /\ victim = None /\ calls < MaxCalls /\ store[n] # Absent
    /\ calls' = calls + 1
    /\ victim' = n
    /\ \/ /\ source' = store[n] /\ gone' = gone \cup ({store[n]} \ {Panel})
          /\ UNCHANGED changes
       \/ /\ changes < MaxChanges /\ changes' = changes + 1
          /\ source' = Panel /\ UNCHANGED gone
    /\ store' = [store EXCEPT ![n] = Absent]
    /\ UNCHANGED <<files, scan, import, shown, scans, quiet, since>>

(* os.Remove takes the path itself away: of a link, the link.  It may fail;  *)
(* no hit lies in the panel's directory, which the handler leaves alone.     *)
DeleteSource ==
    /\ victim # None
    /\ victim' = None /\ source' = Panel
    /\ \/ source = Panel /\ UNCHANGED <<files, gone, quiet, changes>>
       \/ /\ source # Panel
          /\ files' = [files EXCEPT ![source] = "none"] /\ quiet' = FALSE
          /\ UNCHANGED <<gone, changes>>
       \/ /\ source # Panel /\ changes < MaxChanges
          /\ changes' = changes + 1 /\ gone' = gone \ {source}
          /\ UNCHANGED <<files, quiet>>
    /\ UNCHANGED <<store, scan, import, shown, scans, calls, since>>

Operate(p) ==
    /\ changes < MaxChanges /\ changes' = changes + 1
    /\ \E c \in Contents \ {files[p]} : files' = [files EXCEPT ![p] = c]
    /\ quiet' = FALSE /\ gone' = gone \ {p} /\ since' = since \ {p}
    /\ UNCHANGED <<store, scan, import, victim, source, shown, scans, calls>>

Discover == Scan \/ NextStrategy \/ StrategyFails \/ AddHit \/ Unreadable \/ Finish
Handle == Import \/ ImportOne \/ DeleteSource \/ \E n \in Names : Create(n) \/ Delete(n)
Next == Discover \/ Handle \/ \E p \in Paths : Operate(p)
Spec == Init /\ [][Next]_vars

(* ------------------------------- properties ------------------------------ *)

(* "a deduplicated, ordered list of hits.  Process / systemd hits come first *)
(* because they prove a tunnel is actively in use" (83-86): a scan that      *)
(* nothing disturbs finds each path outside the panel's directory that some  *)
(* strategy names, in whatever spelling, and that has a mode, once and under *)
(* the first strategy that names it.  A link is a path of its own here: what *)
(* the comment of addHit says of links is OneFileOnce.                       *)
Spelled(texts) == {Abs[t] : t \in ToSet(texts)}
Usable(ps) == {p \in ps \ Own : HasMode(p)}
ScanExact ==
    stage = 3 /\ queue = <<>> /\ quiet =>
        LET process == Spelled(Processes)
            systemd == Spelled(Units) \ process
            certain == process \cup systemd \cup Listed(Known)
        IN  /\ Usable(certain) \subseteq Found(hits)
            /\ Found(hits) \subseteq Usable(certain \cup Listed(Tree))
            /\ IsInjective([i \in DOMAIN hits |-> hits[i].path])
            /\ \A h \in ToSet(hits) :
                   /\ h.source = "process" <=> h.path \in process
                   /\ h.source = "systemd" <=> h.path \in systemd

(* "they delete a tunnel, refresh discover, see it come right back"          *)
(* (handlers.go 249-252) does not happen: a scan begun after the delete of   *)
(* an imported tunnel does not find its source, unless the delete could not  *)
(* read where the tunnel came from (lookupErr, 507 and 524), the source      *)
(* could not be removed or someone puts it there again.                      *)
GoneStaysGone == stage # 0 => since \cap Found(hits) = {}

(* "Resolve symlinks so /etc/X and /etc/X/Y/../X show up as one" (96): no    *)
(* two hits of an undisturbed scan are the same file.  It fails:             *)
(* filepath.Abs (97) cleans a path and follows no link, so a link and the    *)
(* file it leads to are two hits.                                            *)
Target(p) == IF files[p] = "link" THEN LinkTo[p] ELSE p
OneFileOnce ==
    stage = 3 /\ quiet =>
        \A i, j \in DOMAIN hits : Target(hits[i].path) = Target(hits[j].path) => i = j

(* The answer to an import accounts for every path asked for, once: it is    *)
(* imported, or refused with a reason.                                       *)
EveryPathAnswered ==
    Len(imported) + Cardinality(failed) + Len(todo) = Cardinality(asked)
=============================================================================
