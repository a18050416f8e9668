------------------------------- MODULE Store -------------------------------
(* internal/store/store.go, type Store: one JSON file per tunnel, replaced   *)
(* through a temporary file and a rename, an RWMutex, and a cached listing.  *)
(* Any number of handlers and background loops (Procs) call it; the panel    *)
(* may be killed at any step and restarted.                                  *)
(*                                                                           *)
(* What runs under the read lock is one step: the files and the cache only   *)
(* change under the write lock.  What runs under the write lock is split at  *)
(* every system call of write, because a crash can fall between two of them. *)
EXTENDS Tunnels, Naturals

CONSTANTS
    Procs,
    Nothing,      \* no lock owner, no request, no reply, no cache
    Workload,     \* the requests callers make
    HandPlaced,   \* the files found at the panel's first start
    MaxLeftovers  \* bound: temporary files that crashes leave behind

ASSUME StoreAssumption ==
    /\ Workload \subseteq Request
    /\ HandPlaced \subseteq File
    /\ Nothing \notin Request \cup Reply \cup Procs \cup Tunnel
    /\ MaxLeftovers \in Nat

VARIABLES
    files,        \* <name>.json for each name
    leftovers,    \* complete .tmp-*.json files left by a crash
    tmp,          \* the temporary file of the write in progress
    cache,        \* s.cache: Nothing is nil, otherwise the answer List gives
    needReload,   \* s.cacheNeedReload
    owner,        \* who holds s.mu for writing
    pc, req, res, \* each caller: where it is, its request, its answer
    work,         \* the tunnel about to be written (local t of Create, Update)
    unread,       \* history: what the reload that filled the cache could not read
    blind         \* history: the creates whose os.Stat failed on a file

vars == <<files, leftovers, tmp, cache, needReload, unread, owner, pc, req, res, work, blind>>
disk == <<files, leftovers, tmp>>
memory == <<cache, needReload, unread>>

Init ==
    /\ files \in [Names -> HandPlaced \cup {Absent}]
    /\ leftovers = {}
    /\ tmp = Absent
    /\ cache = Nothing
    /\ needReload = TRUE
    /\ owner = Nothing
    /\ pc = [p \in Procs |-> "idle"]
    /\ req = [p \in Procs |-> Nothing]
    /\ res = [p \in Procs |-> Nothing]
    /\ work = [p \in Procs |-> Nothing]
    /\ unread = {}
    /\ blind = {}

(* ------------------------------ calls ------------------------------------ *)

Goto(p, label) == pc' = [pc EXCEPT ![p] = label]
Finish(p, answer) == Goto(p, "done") /\ res' = [res EXCEPT ![p] = answer]
Entry(p) == files[req[p].tunnel.name]
Fresh == ~needReload /\ cache # Nothing
Asks(p, ops) == pc[p] = "called" /\ Accepted(req[p]) /\ req[p].op \in ops

Invoke(p) ==
    /\ pc[p] = "idle"
    /\ \E r \in Workload : req' = [req EXCEPT ![p] = r]
    /\ Goto(p, "called")
    /\ UNCHANGED <<disk, memory, owner, res, work, blind>>

(* validName or validateTunnel says no, before any lock is taken.            *)
Reject(p) ==
    /\ pc[p] = "called" /\ ~Accepted(req[p])
    /\ Finish(p, Answer("invalid", {}))
    /\ UNCHANGED <<disk, memory, owner, req, work, blind>>

Get(p) ==
    /\ Asks(p, {"get"}) /\ owner = Nothing
    /\ \E answer \in Loads(Entry(p)) : Finish(p, answer)
    /\ UNCHANGED <<disk, memory, owner, req, work, blind>>

(* List under the read lock: the cached listing, or on to the write lock.    *)
ListCached(p) ==
    /\ Asks(p, {"list"}) /\ owner = Nothing
    /\ IF Fresh THEN Finish(p, cache)
                ELSE Goto(p, "reload") /\ UNCHANGED res
    /\ UNCHANGED <<disk, memory, owner, req, work, blind>>

Lock(p) ==
    /\ Asks(p, Writes) \/ pc[p] = "reload"
    /\ owner = Nothing
    /\ owner' = p
    /\ Goto(p, "locked")
    /\ UNCHANGED <<disk, memory, req, res, work, blind>>

(* The body of p's call starts, with the lock.                               *)
Begins(p, op) == pc[p] = "locked" /\ req[p].op = op

(* ------------------------------- list ------------------------------------ *)

ListRecheck(p) ==
    /\ Begins(p, "list") /\ Fresh
    /\ Finish(p, cache)
    /\ owner' = Nothing
    /\ UNCHANGED <<disk, memory, req, work, blind>>

(* Whatever loadFile cannot read is left out, and the listing is kept.       *)
ListReload(p) ==
    /\ Begins(p, "list") /\ ~Fresh
    /\ unread' \in SUBSET ({n \in Names : files[n] \in Tunnel} \cup leftovers)
    /\ cache' = Answer("ok", Listing(files, leftovers, unread'))
    /\ needReload' = FALSE
    /\ Finish(p, cache')
    /\ owner' = Nothing
    /\ UNCHANGED <<disk, req, work, blind>>

(* ReadDir fails: the error goes to the caller and the cache stays as it is. *)
ListFails(p) ==
    /\ Begins(p, "list") /\ ~Fresh
    /\ Finish(p, Answer("failed", {}))
    /\ owner' = Nothing
    /\ UNCHANGED <<disk, memory, req, work, blind>>

(* --------------------------- create, update ------------------------------ *)

Refuse(p, status) ==
    /\ Finish(p, Answer(status, {}))
    /\ owner' = Nothing
    /\ UNCHANGED <<disk, memory, req, work, blind>>

CreateTaken(p) == Begins(p, "create") /\ Entry(p) # Absent /\ Refuse(p, "exists")
UpdateMissing(p) == Begins(p, "update") /\ Entry(p) = Absent /\ Refuse(p, "notfound")
(* The file cannot be read or does not parse.                                *)
UpdateUnread(p) == Begins(p, "update") /\ Refuse(p, "failed")

Prepare(p, t) ==
    /\ work' = [work EXCEPT ![p] = t]
    /\ Goto(p, "temp")
    /\ UNCHANGED <<disk, memory, owner, req, res>>

(* Mutant: Create does not look whether the name is taken.                   *)
CreateUnchecked(p) ==
    Begins(p, "create") /\ Prepare(p, req[p].tunnel) /\ UNCHANGED blind
CreateChecked(p) ==
    /\ Begins(p, "create") /\ Entry(p) = Absent
    /\ Prepare(p, req[p].tunnel)
    /\ UNCHANGED blind

(* Any error of os.Stat says that the name is free, on a file it could not   *)
(* look at too.                                                              *)
CreateBlind(p) ==
    /\ Begins(p, "create") /\ Entry(p) # Absent
    /\ Prepare(p, req[p].tunnel)
    /\ blind' = blind \cup {p}

UpdateLoaded(p) ==
    /\ Begins(p, "update") /\ Entry(p) \in Tunnel
    /\ Prepare(p, Merged(req[p].tunnel, Entry(p)))
    /\ UNCHANGED blind

(* Mutant: an unwritten temporary file goes on to the rename.                *)
CreateTempUnfilled(p) ==
    /\ pc[p] = "temp"
    /\ tmp' = Malformed
    /\ Goto(p, "rename")
    /\ UNCHANGED <<files, leftovers, memory, owner, req, res, work, blind>>

(* write: CreateTemp; Write, Chmod and Close; Rename.                        *)
CreateTemp(p) ==
    /\ pc[p] = "temp"
    /\ tmp' = Malformed
    /\ Goto(p, "fill")
    /\ UNCHANGED <<files, leftovers, memory, owner, req, res, work, blind>>

Fill(p) ==
    /\ pc[p] = "fill"
    /\ tmp' = work[p]
    /\ Goto(p, "rename")
    /\ UNCHANGED <<files, leftovers, memory, owner, req, res, work, blind>>

Rename(p) ==
    /\ pc[p] = "rename"
    /\ files' = [files EXCEPT ![work[p].name] = tmp]
    /\ tmp' = Absent
    /\ res' = [res EXCEPT ![p] = Answer("ok", {work[p]})]
    /\ Goto(p, "changed")
    /\ UNCHANGED <<leftovers, memory, owner, req, work, blind>>

(* Mutant: the error path returns without the unlock.                        *)
WriteFailsLocked(p) ==
    /\ pc[p] \in {"temp", "fill", "rename"}
    /\ tmp' = Absent
    /\ Finish(p, Answer("failed", {}))
    /\ work' = [work EXCEPT ![p] = Nothing]
    /\ UNCHANGED <<files, leftovers, memory, owner, req, blind>>

(* Any call of write fails: the deferred Remove and Unlock run, the cache is *)
(* not invalidated.                                                          *)
WriteFails(p) ==
    /\ pc[p] \in {"temp", "fill", "rename"}
    /\ tmp' = Absent
    /\ Finish(p, Answer("failed", {}))
    /\ owner' = Nothing
    /\ work' = [work EXCEPT ![p] = Nothing]
    /\ UNCHANGED <<files, leftovers, memory, req, blind>>

(* ------------------------------ delete ----------------------------------- *)

(* A missing file is a success.                                              *)
Remove(p) ==
    /\ Begins(p, "delete")
    /\ files' = [files EXCEPT ![req[p].tunnel.name] = Absent]
    /\ res' = [res EXCEPT ![p] = Answer("ok", {})]
    /\ Goto(p, "changed")
    /\ UNCHANGED <<leftovers, tmp, memory, owner, req, work, blind>>

RemoveFails(p) == Begins(p, "delete") /\ Entry(p) # Absent /\ Refuse(p, "failed")

(* --------------------------- every writer -------------------------------- *)

(* Mutant: the unlock without the invalidation.                              *)
InvalidateNot(p) ==
    /\ pc[p] = "changed"
    /\ owner' = Nothing
    /\ Goto(p, "done")
    /\ work' = [work EXCEPT ![p] = Nothing]
    /\ UNCHANGED <<disk, memory, req, res, blind>>

(* invalidateCache, then the deferred Unlock.  The next List reads anew.     *)
Invalidate(p) ==
    /\ pc[p] = "changed"
    /\ needReload' = TRUE
    /\ unread' = {}
    /\ owner' = Nothing
    /\ Goto(p, "done")
    /\ work' = [work EXCEPT ![p] = Nothing]
    /\ UNCHANGED <<disk, cache, req, res, blind>>

Return(p) ==
    /\ pc[p] = "done"
    /\ Goto(p, "idle")
    /\ req' = [req EXCEPT ![p] = Nothing]
    /\ res' = [res EXCEPT ![p] = Nothing]
    /\ blind' = blind \ {p}
    /\ UNCHANGED <<disk, memory, owner, work>>

(* The process dies and a new one opens the directory (New).  No deferred    *)
(* call runs, so a temporary file stays, and stays readable once it is full. *)
Crash ==
    /\ leftovers' = leftovers \cup ({tmp} \cap Tunnel)
    /\ Cardinality(leftovers') <= MaxLeftovers
    /\ tmp' = Absent
    /\ cache' = Nothing
    /\ needReload' = TRUE
    /\ owner' = Nothing
    /\ pc' = [p \in Procs |-> "idle"]
    /\ req' = [p \in Procs |-> Nothing]
    /\ res' = [p \in Procs |-> Nothing]
    /\ work' = [p \in Procs |-> Nothing]
    /\ unread' = {}
    /\ blind' = {}
    /\ UNCHANGED files

(* What p does on its own, and what it does once the mutex lets it in.       *)
Enter(p) == Get(p) \/ ListCached(p) \/ Lock(p)
Step(p) == \/ Reject(p) \/ ListRecheck(p) \/ ListReload(p) \/ ListFails(p)
           \/ CreateTaken(p) \/ UpdateMissing(p) \/ UpdateUnread(p)
           \/ CreateChecked(p) \/ CreateBlind(p) \/ UpdateLoaded(p)
           \/ CreateTemp(p) \/ Fill(p) \/ Rename(p) \/ WriteFails(p)
           \/ Remove(p) \/ RemoveFails(p) \/ Invalidate(p) \/ Return(p)

Next == (\E p \in Procs : Invoke(p) \/ Enter(p) \/ Step(p)) \/ Crash

(* Goroutines are scheduled, and sync.RWMutex admits every waiter in the     *)
(* end: a blocked Lock shuts out new readers and Unlock lets waiting readers *)
(* in, hence strong fairness for Enter.                                      *)
Fairness == \A p \in Procs : WF_vars(Step(p)) /\ SF_vars(Enter(p))

Spec == Init /\ [][Next]_vars
FairSpec == Spec /\ Fairness

(* ---------------------------- properties --------------------------------- *)

WriteLabels == {"temp", "fill", "rename"}
LockLabels == WriteLabels \cup {"locked", "changed"}

(* Every variable has its type.                                              *)
TypeOK ==
    /\ files \in [Names -> File]
    /\ leftovers \subseteq Tunnel
    /\ tmp \in File
    /\ cache \in Reply \cup {Nothing}
    /\ needReload \in BOOLEAN
    /\ owner \in Procs \cup {Nothing}
    /\ pc \in [Procs -> LockLabels \cup {"idle", "called", "reload", "done"}]
    /\ req \in [Procs -> Request \cup {Nothing}]
    /\ res \in [Procs -> Reply \cup {Nothing}]
    /\ work \in [Procs -> Tunnel \cup {Nothing}]
    /\ unread \subseteq Names \cup Tunnel
    /\ blind \subseteq Procs

(* Whenever the mutex is free, a listing that List would serve from memory   *)
(* is that of the present directory, but for the files which its own reload  *)
(* could not read (326-329): no write, failed write or delete slips past     *)
(* cacheNeedReload (store.go:295-303).                                       *)
CacheCoherent ==
    owner = Nothing /\ Fresh => cache = Answer("ok", Listing(files, leftovers, unread))

(* A reader of <name>.json never sees half a file: an entry that does not    *)
(* parse is one that the panel found, whatever the crashes (write, 454-477). *)
AtomicReplace ==
    [][\A n \in Names : files'[n] = Malformed => files[n] = Malformed]_vars

(* A field the panel does not know is never dropped by a save: as long as    *)
(* the file is there it has unknown fields, once it has had some             *)
(* (UnmarshalJSON's comment, 195-198; Update, 381-384).  The exception is a  *)
(* create that could not see the file it replaces.                           *)
ExtraSurvives ==
    [][\A n \in Names : /\ files[n] \in Tunnel /\ files'[n] \in Tunnel
                        /\ files[n].extra # NoExtra
                        /\ \A p \in blind : pc[p] = "rename" => work[p].name # n
          => files'[n].extra # NoExtra]_vars

(* Every call of the store comes back, in spite of failures and crashes:     *)
(* no path leaves the mutex locked.                                          *)
CallsReturn == \A p \in Procs : (req[p] # Nothing) ~> (req[p] = Nothing)

(* README.md:351 promises "config CRUD with atomic writes": what List shows  *)
(* is what the files <name>.json hold.  It fails after a crash between the   *)
(* CreateTemp and the Rename of write (460-476): the temporary file has the  *)
(* extension .json, so List (323) serves it from then on as a tunnel.        *)
ListedIsStored ==
    owner = Nothing /\ Fresh => \A t \in cache.tunnels : files[t.name] = t

(* The comment of List (293-294) promises "every tunnel in the directory",   *)
(* re-read "only if a write has occurred since last call, since otherwise    *)
(* the cache is valid".  It fails: a file that loadFile could not read once  *)
(* (326-329, 439) is missing from the cache, which counts as valid until the *)
(* next write.                                                               *)
ListedInFull ==
    owner = Nothing /\ Fresh => {files[n] : n \in Names} \cap Tunnel \subseteq cache.tunnels

(* What List answers until the next write, or Nothing: a change of the files *)
(* puts an end to it at once, since its writer holds the mutex until the     *)
(* invalidation.                                                             *)
Standing == IF Fresh /\ \A p \in Procs : pc[p] # "changed" THEN cache ELSE Nothing

(* The store is the one TunnelStore describes: each call linearizable        *)
(* (at the Rename, the Remove or the read), each failure without effect.     *)
Abstract == INSTANCE TunnelStore WITH
    tunnels <- files, ghosts <- leftovers, listing <- Standing, pending <- req, reply <- res
Linearizable == Abstract!Spec
=============================================================================
