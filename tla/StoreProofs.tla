---------------------------- MODULE StoreProofs ----------------------------
(* Theorems about Store, for any number of callers, names and contents, any  *)
(* workload and any files found at the start.                                *)
EXTENDS Store, TLAPS

(* The inductive invariant.                                                   *)

(* A caller has a request from call to return, and an answer once its call   *)
(* has had its effect; past the checks, its arguments are acceptable.        *)
Calls ==
    \A p \in Procs :
        /\ pc[p] = "idle" <=> req[p] = Nothing
        /\ pc[p] \in {"changed", "done"} <=> res[p] # Nothing
        /\ pc[p] \in LockLabels \cup {"reload"} => Accepted(req[p])
        /\ pc[p] = "reload" => req[p].op = "list"

(* The callers inside the critical section are the owner of the mutex.       *)
Mutex == \A p \in Procs : pc[p] \in LockLabels <=> owner = p

(* What a writer found when it took the lock is still so while it writes.    *)
Creating(p) == /\ req[p].op = "create" /\ (Entry(p) = Absent \/ p \in blind)
               /\ work[p] = req[p].tunnel
Updating(p) == /\ req[p].op = "update" /\ Entry(p) \in Tunnel
               /\ work[p] = Merged(req[p].tunnel, Entry(p))
Writing == \A p \in Procs : pc[p] \in WriteLabels => Creating(p) \/ Updating(p)

(* A complete temporary file is that of a write about to be renamed.         *)
TempFile == /\ \A p \in Procs : pc[p] = "rename" => tmp = work[p]
            /\ tmp \in Tunnel => \E p \in Procs : pc[p] = "rename"

(* The cache is right but between a change of the files and its invalidation. *)
CacheOrChange == \/ Fresh => cache = Answer("ok", Listing(files, leftovers, unread))
                 \/ \E p \in Procs : pc[p] = "changed"

Inductive == TypeOK /\ Calls /\ Mutex /\ Writing /\ TempFile /\ CacheOrChange

(* ----------------------------- the data ---------------------------------- *)

(* Merging is a tunnel of the same name, which has unknown fields if the one *)
(* it replaces had any.                                                      *)
LEMMA MergedType ==
    ASSUME NEW t \in Tunnel, NEW e \in Tunnel
    PROVE  /\ Merged(t, e) \in Tunnel
           /\ Merged(t, e).name = t.name
           /\ e.extra # NoExtra => Merged(t, e).extra # NoExtra
  BY SMT DEF Merged, Tunnel

(* Every answer the store builds is a reply.                                 *)
LEMMA AnswerType ==
    ASSUME NEW s \in {"ok", "invalid", "exists", "notfound", "failed"},
           NEW ts \in SUBSET Tunnel
    PROVE  Answer(s, ts) \in Reply
  BY DEF Answer, Reply

LEMMA LoadsType == ASSUME NEW f, NEW answer \in Loads(f) PROVE answer \in Reply
  BY AnswerType DEF Loads

LEMMA ListingType ==
    ASSUME NEW fs, NEW ls \in SUBSET Tunnel, NEW us
    PROVE  Listing(fs, ls, us) \in SUBSET Tunnel
  BY DEF Listing

(* ------------------------- type correctness ------------------------------ *)

(* Refuse ends a call; its answer is a reply.                                *)
LEMMA RefuseType ==
    ASSUME TypeOK, NEW p \in Procs,
           NEW s \in {"ok", "invalid", "exists", "notfound", "failed"}, Refuse(p, s)
    PROVE  TypeOK'
  BY AnswerType DEF TypeOK, Refuse, Finish, Goto, disk, memory

LEMMA PrepareType ==
    ASSUME TypeOK, NEW p \in Procs, NEW t \in Tunnel, Prepare(p, t),
           blind' \subseteq blind \cup {p}
    PROVE  TypeOK'
  BY DEF TypeOK, Prepare, Goto, disk, memory, LockLabels, WriteLabels

LEMMA TypeInit == Init => TypeOK
  BY StoreAssumption DEF Init, TypeOK, File

(* A caller in a call has a request, and a writer the tunnel it writes.      *)
LEMMA RequestType ==
    ASSUME TypeOK, Calls, NEW p \in Procs, pc[p] # "idle"
    PROVE  /\ req[p] \in Request /\ req[p].tunnel \in Tunnel
           /\ req[p].tunnel.name \in Names /\ Entry(p) \in File
  BY DEF Calls, TypeOK, Request, Tunnel, Entry

LEMMA WorkType ==
    ASSUME TypeOK, Calls, Writing, NEW p \in Procs, pc[p] \in WriteLabels
    PROVE  work[p] \in Tunnel /\ work[p].name = req[p].tunnel.name
  BY RequestType, MergedType DEF Writing, Creating, Updating, WriteLabels

LEMMA TypeStep == TypeOK /\ Calls /\ Writing /\ [Next]_vars => TypeOK'
  <1> SUFFICES ASSUME TypeOK, Calls, Writing, [Next]_vars PROVE TypeOK'
    OBVIOUS
  <1> USE DEF LockLabels, WriteLabels, Goto, disk, memory
  <1>1. ASSUME NEW p \in Procs, Invoke(p) PROVE TypeOK'
    BY <1>1, StoreAssumption DEF TypeOK, Invoke
  <1>2. ASSUME NEW p \in Procs, Reject(p) PROVE TypeOK'
    BY <1>2, AnswerType DEF TypeOK, Reject, Finish
  <1>3. ASSUME NEW p \in Procs, Get(p) PROVE TypeOK'
    BY <1>3, LoadsType DEF TypeOK, Get, Finish
  <1>4. ASSUME NEW p \in Procs, ListCached(p) PROVE TypeOK'
    BY <1>4 DEF TypeOK, ListCached, Finish, Fresh
  <1>5. ASSUME NEW p \in Procs, Lock(p) PROVE TypeOK'
    BY <1>5 DEF TypeOK, Lock
  <1>6. ASSUME NEW p \in Procs, ListRecheck(p) PROVE TypeOK'
    BY <1>6 DEF TypeOK, ListRecheck, Finish, Fresh
  <1>7. ASSUME NEW p \in Procs, ListReload(p) PROVE TypeOK'
    <2>1. Answer("ok", Listing(files, leftovers, unread')) \in Reply
      BY ListingType, AnswerType DEF TypeOK
    <2> QED BY <1>7, <2>1 DEF TypeOK, ListReload, Finish
  <1>8. ASSUME NEW p \in Procs, ListFails(p) PROVE TypeOK'
    BY <1>8, AnswerType DEF TypeOK, ListFails, Finish
  <1>9. ASSUME NEW p \in Procs, CreateTaken(p) \/ UpdateMissing(p) \/ UpdateUnread(p)
                                  \/ RemoveFails(p) PROVE TypeOK'
    BY <1>9, RefuseType DEF CreateTaken, UpdateMissing, UpdateUnread, RemoveFails
  <1>10. ASSUME NEW p \in Procs, CreateChecked(p) \/ CreateBlind(p) PROVE TypeOK'
    BY <1>10, RequestType, PrepareType DEF CreateChecked, CreateBlind, Begins
  <1>11. ASSUME NEW p \in Procs, UpdateLoaded(p) PROVE TypeOK'
    BY <1>11, RequestType, PrepareType, MergedType DEF UpdateLoaded, Begins
  <1>12. ASSUME NEW p \in Procs, CreateTemp(p) PROVE TypeOK'
    BY <1>12 DEF TypeOK, CreateTemp, File
  <1>13. ASSUME NEW p \in Procs, Fill(p) PROVE TypeOK'
    BY <1>13, WorkType DEF TypeOK, Fill, File
  <1>14. ASSUME NEW p \in Procs, Rename(p) PROVE TypeOK'
    <2>1. work[p] \in Tunnel /\ work[p].name \in Names
      BY <1>14, WorkType DEF Rename, Tunnel
    <2>2. Answer("ok", {work[p]}) \in Reply
      BY <2>1, AnswerType
    <2> QED BY <1>14, <2>1, <2>2 DEF TypeOK, Rename, File
  <1>15. ASSUME NEW p \in Procs, WriteFails(p) PROVE TypeOK'
    BY <1>15, AnswerType DEF TypeOK, WriteFails, Finish, File
  <1>16. ASSUME NEW p \in Procs, Remove(p) PROVE TypeOK'
    BY <1>16, RequestType, AnswerType DEF TypeOK, Remove, Begins, File
  <1>17. ASSUME NEW p \in Procs, Invalidate(p) PROVE TypeOK'
    BY <1>17 DEF TypeOK, Invalidate
  <1>18. ASSUME NEW p \in Procs, Return(p) PROVE TypeOK'
    BY <1>18 DEF TypeOK, Return
  <1>19. CASE Crash
    BY <1>19 DEF TypeOK, Crash, File
  <1>20. CASE UNCHANGED vars
    BY <1>20 DEF TypeOK, vars
  <1> QED
    BY <1>1, <1>2, <1>3, <1>4, <1>5, <1>6, <1>7, <1>8, <1>9, <1>10, <1>11, <1>12, <1>13,
       <1>14, <1>15, <1>16, <1>17, <1>18, <1>19, <1>20 DEF Next, Enter, Step

(* ------------------------- calls and the mutex --------------------------- *)

(* A reply is not Nothing, so a caller that has one shows it.                *)
LEMMA ReplyIsSome == ASSUME NEW r \in Reply PROVE r # Nothing
  BY StoreAssumption

LEMMA RefuseCalls ==
    ASSUME TypeOK, Calls, NEW p \in Procs, pc[p] = "locked",
           NEW s \in {"ok", "invalid", "exists", "notfound", "failed"}, Refuse(p, s)
    PROVE  Calls'
  <1>1. Answer(s, {}) # Nothing
    BY AnswerType, ReplyIsSome
  <1> QED BY <1>1 DEF TypeOK, Calls, Refuse, Finish, Goto, LockLabels, WriteLabels, Accepted

LEMMA CallsStep == TypeOK /\ Calls /\ Writing /\ [Next]_vars => Calls'
  <1> SUFFICES ASSUME TypeOK, Calls, Writing, [Next]_vars PROVE Calls'
    OBVIOUS
  <1> USE DEF LockLabels, WriteLabels, Goto, Accepted
  <1>a. /\ Answer("invalid", {}) # Nothing /\ Answer("failed", {}) # Nothing
        /\ Answer("ok", {}) # Nothing
        /\ \A us : Answer("ok", Listing(files, leftovers, us)) # Nothing
    BY AnswerType, ReplyIsSome, ListingType DEF TypeOK
  <1>1. ASSUME NEW p \in Procs, Invoke(p) PROVE Calls'
    BY <1>1, StoreAssumption DEF TypeOK, Calls, Invoke
  <1>2. ASSUME NEW p \in Procs, Reject(p) PROVE Calls'
    BY <1>2, <1>a DEF TypeOK, Calls, Reject, Finish
  <1>3. ASSUME NEW p \in Procs, Get(p) PROVE Calls'
    <2>1. \A answer \in Loads(Entry(p)) : answer # Nothing
      BY LoadsType, ReplyIsSome
    <2> QED BY <1>3, <2>1 DEF TypeOK, Calls, Get, Asks, Finish
  <1>4. ASSUME NEW p \in Procs, ListCached(p) PROVE Calls'
    BY <1>4 DEF TypeOK, Calls, ListCached, Asks, Finish, Fresh
  <1>5. ASSUME NEW p \in Procs, Lock(p) PROVE Calls'
    BY <1>5 DEF TypeOK, Calls, Lock, Asks
  <1>6. ASSUME NEW p \in Procs, ListRecheck(p) PROVE Calls'
    BY <1>6 DEF TypeOK, Calls, ListRecheck, Begins, Finish, Fresh
  <1>7. ASSUME NEW p \in Procs, ListReload(p) \/ ListFails(p) PROVE Calls'
    BY <1>7, <1>a DEF TypeOK, Calls, ListReload, ListFails, Begins, Finish
  <1>8. ASSUME NEW p \in Procs, CreateTaken(p) \/ UpdateMissing(p) \/ UpdateUnread(p)
                                  \/ RemoveFails(p) PROVE Calls'
    BY <1>8, RefuseCalls DEF CreateTaken, UpdateMissing, UpdateUnread, RemoveFails, Begins
  <1>9. ASSUME NEW p \in Procs, CreateChecked(p) \/ CreateBlind(p) \/ UpdateLoaded(p) PROVE Calls'
    BY <1>9 DEF TypeOK, Calls, CreateChecked, CreateBlind, UpdateLoaded, Begins, Prepare
  <1>10. ASSUME NEW p \in Procs, CreateTemp(p) \/ Fill(p) PROVE Calls'
    BY <1>10 DEF TypeOK, Calls, CreateTemp, Fill
  <1>11. ASSUME NEW p \in Procs, Rename(p) PROVE Calls'
    <2>1. Answer("ok", {work[p]}) # Nothing
      BY <1>11, WorkType, AnswerType, ReplyIsSome DEF Rename
    <2> QED BY <1>11, <2>1 DEF TypeOK, Calls, Rename
  <1>12. ASSUME NEW p \in Procs, WriteFails(p) PROVE Calls'
    BY <1>12, <1>a DEF TypeOK, Calls, WriteFails, Finish
  <1>13. ASSUME NEW p \in Procs, Remove(p) PROVE Calls'
    BY <1>13, <1>a DEF TypeOK, Calls, Remove, Begins
  <1>14. ASSUME NEW p \in Procs, Invalidate(p) PROVE Calls'
    BY <1>14 DEF TypeOK, Calls, Invalidate
  <1>15. ASSUME NEW p \in Procs, Return(p) PROVE Calls'
    BY <1>15 DEF TypeOK, Calls, Return
  <1>16. CASE Crash
    BY <1>16 DEF Calls, Crash
  <1>17. CASE UNCHANGED vars
    BY <1>17 DEF Calls, vars
  <1> QED
    BY <1>1, <1>2, <1>3, <1>4, <1>5, <1>6, <1>7, <1>8, <1>9, <1>10, <1>11, <1>12, <1>13,
       <1>14, <1>15, <1>16, <1>17 DEF Next, Enter, Step

(* What a step of p does to the place and the lock: outside the critical     *)
(* section nothing, or it takes a free lock; inside it stays, or it leaves   *)
(* and frees the lock.                                                       *)
LEMMA MutexStep == TypeOK /\ Mutex /\ [Next]_vars => Mutex'
  <1> SUFFICES ASSUME TypeOK, Mutex, [Next]_vars PROVE Mutex'
    OBVIOUS
  <1> USE DEF LockLabels, WriteLabels, Goto
  <1>1. ASSUME NEW p \in Procs, Invoke(p) \/ Reject(p) \/ Get(p) \/ ListCached(p) \/ Return(p)
        PROVE Mutex'
    BY <1>1 DEF TypeOK, Mutex, Invoke, Reject, Get, ListCached, Return, Asks, Finish
  <1>2. ASSUME NEW p \in Procs, Lock(p) PROVE Mutex'
    BY <1>2, StoreAssumption DEF TypeOK, Mutex, Lock
  <1>3. ASSUME NEW p \in Procs, ListRecheck(p) \/ ListReload(p) \/ ListFails(p) PROVE Mutex'
    BY <1>3, StoreAssumption
    DEF TypeOK, Mutex, ListRecheck, ListReload, ListFails, Begins, Finish
  <1>4. ASSUME NEW p \in Procs, CreateTaken(p) \/ UpdateMissing(p) \/ UpdateUnread(p)
                                  \/ RemoveFails(p) PROVE Mutex'
    BY <1>4, StoreAssumption DEF TypeOK, Mutex, CreateTaken, UpdateMissing, UpdateUnread,
       RemoveFails, Begins, Refuse, Finish
  <1>5. ASSUME NEW p \in Procs, CreateChecked(p) \/ CreateBlind(p) \/ UpdateLoaded(p) PROVE Mutex'
    BY <1>5 DEF TypeOK, Mutex, CreateChecked, CreateBlind, UpdateLoaded, Begins, Prepare
  <1>6. ASSUME NEW p \in Procs, CreateTemp(p) \/ Fill(p) \/ Rename(p) \/ Remove(p) PROVE Mutex'
    BY <1>6 DEF TypeOK, Mutex, CreateTemp, Fill, Rename, Remove, Begins
  <1>7. ASSUME NEW p \in Procs, WriteFails(p) \/ Invalidate(p) PROVE Mutex'
    BY <1>7, StoreAssumption DEF TypeOK, Mutex, WriteFails, Invalidate, Finish
  <1>8. CASE Crash
    BY <1>8, StoreAssumption DEF Mutex, Crash
  <1>9. CASE UNCHANGED vars
    BY <1>9 DEF Mutex, vars
  <1> QED
    BY <1>1, <1>2, <1>3, <1>4, <1>5, <1>6, <1>7, <1>8, <1>9 DEF Next, Enter, Step

(* ---------------------------- the writer --------------------------------- *)

(* While p writes, a step of another caller leaves what p found alone.       *)
LEMMA WritingStep == TypeOK /\ Calls /\ Mutex /\ Writing /\ [Next]_vars => Writing'
  <1> SUFFICES ASSUME TypeOK, Calls, Mutex, Writing, [Next]_vars,
                      NEW q \in Procs, pc'[q] \in WriteLabels
               PROVE  (Creating(q) \/ Updating(q))'
    BY DEF Writing
  <1> USE DEF Creating, Updating, Entry, Goto
  <1>1. ASSUME pc[q] \in WriteLabels, UNCHANGED <<files, req[q], work[q]>>,
               q \in blind => q \in blind'
        PROVE  (Creating(q) \/ Updating(q))'
    BY <1>1 DEF Writing
  <1>2. ASSUME NEW p \in Procs, Invoke(p) \/ Reject(p) \/ Get(p) \/ ListCached(p) \/ Lock(p)
                 \/ ListRecheck(p) \/ ListReload(p) \/ ListFails(p) \/ CreateTemp(p) \/ Fill(p)
                 \/ WriteFails(p) \/ Invalidate(p) \/ Return(p)
        PROVE  (Creating(q) \/ Updating(q))'
    BY <1>2, <1>1 DEF TypeOK, WriteLabels, Invoke, Reject, Get, ListCached, Lock, ListRecheck,
       ListReload, ListFails, CreateTemp, Fill, WriteFails, Invalidate, Return,
       Asks, Begins, Finish, disk
  <1>3. ASSUME NEW p \in Procs, CreateTaken(p) \/ UpdateMissing(p) \/ UpdateUnread(p)
                                  \/ RemoveFails(p)
        PROVE  (Creating(q) \/ Updating(q))'
    BY <1>3, <1>1 DEF TypeOK, WriteLabels, CreateTaken, UpdateMissing, UpdateUnread,
       RemoveFails, Begins, Refuse, Finish, disk
  <1>4. ASSUME NEW p \in Procs, CreateChecked(p) \/ CreateBlind(p) \/ UpdateLoaded(p)
        PROVE  (Creating(q) \/ Updating(q))'
    <2>1. CASE p = q
      BY <1>4, <2>1 DEF TypeOK, CreateChecked, CreateBlind, UpdateLoaded, Begins, Prepare, disk
    <2>2. CASE p # q
      BY <1>4, <2>2, <1>1 DEF TypeOK, CreateChecked, CreateBlind, UpdateLoaded, Begins, Prepare, disk
    <2> QED BY <2>1, <2>2
  <1>5. ASSUME NEW p \in Procs, Rename(p) \/ Remove(p) PROVE FALSE
    BY <1>5 DEF TypeOK, Mutex, Rename, Remove, Begins, LockLabels, WriteLabels
  <1>6. CASE Crash
    BY <1>6 DEF Crash, WriteLabels
  <1>7. CASE UNCHANGED vars
    BY <1>7, <1>1 DEF vars
  <1> QED BY <1>2, <1>3, <1>4, <1>5, <1>6, <1>7 DEF Next, Enter, Step

LEMMA TempFileStep == TypeOK /\ Calls /\ Mutex /\ Writing /\ TempFile /\ [Next]_vars => TempFile'
  <1> SUFFICES ASSUME TypeOK, Calls, Mutex, Writing, TempFile, [Next]_vars PROVE TempFile'
    OBVIOUS
  <1> USE DEF Goto, LockLabels, WriteLabels
  <1>1. ASSUME NEW p \in Procs, Invoke(p) \/ Reject(p) \/ Get(p) \/ ListCached(p) \/ Lock(p)
                 \/ ListRecheck(p) \/ ListReload(p) \/ ListFails(p)
                 \/ Return(p) \/ Remove(p)
        PROVE  TempFile'
    BY <1>1 DEF TypeOK, TempFile, Invoke, Reject, Get, ListCached, Lock, ListRecheck,
       ListReload, ListFails, Return, Remove, Asks, Begins, Finish, disk
  <1>2. ASSUME NEW p \in Procs, CreateTaken(p) \/ UpdateMissing(p) \/ UpdateUnread(p)
                                  \/ RemoveFails(p)
        PROVE  TempFile'
    BY <1>2 DEF TypeOK, TempFile, CreateTaken, UpdateMissing, UpdateUnread,
       RemoveFails, Begins, Refuse, Finish, disk
  <1>3. ASSUME NEW p \in Procs, CreateChecked(p) \/ CreateBlind(p) \/ UpdateLoaded(p) PROVE TempFile'
    BY <1>3 DEF TypeOK, TempFile, Mutex, CreateChecked, CreateBlind, UpdateLoaded, Begins, Prepare, disk
  <1>4. ASSUME NEW p \in Procs, CreateTemp(p) PROVE TempFile'
    BY <1>4, TunnelsAssumption DEF TypeOK, TempFile, Mutex, CreateTemp
  <1>5. ASSUME NEW p \in Procs, Fill(p) PROVE TempFile'
    BY <1>5 DEF TypeOK, TempFile, Mutex, Fill
  <1>6. ASSUME NEW p \in Procs, Rename(p) \/ WriteFails(p) PROVE TempFile'
    BY <1>6, TunnelsAssumption DEF TypeOK, TempFile, Mutex, Rename, WriteFails, Finish
  <1>7. ASSUME NEW p \in Procs, Invalidate(p) PROVE TempFile'
    BY <1>7 DEF TypeOK, TempFile, Mutex, Invalidate, disk
  <1>8. CASE Crash
    BY <1>8, TunnelsAssumption DEF TempFile, Crash
  <1>9. CASE UNCHANGED vars
    BY <1>9 DEF TempFile, vars
  <1> QED
    BY <1>1, <1>2, <1>3, <1>4, <1>5, <1>6, <1>7, <1>8, <1>9 DEF Next, Enter, Step

(* ----------------------------- the cache --------------------------------- *)

(* Only a reload fills the cache, from the files as they are; a change of    *)
(* the files is followed, under the same lock, by an invalidation.           *)
LEMMA CacheStep == TypeOK /\ CacheOrChange /\ [Next]_vars => CacheOrChange'
  <1> SUFFICES ASSUME TypeOK, CacheOrChange, [Next]_vars PROVE CacheOrChange'
    OBVIOUS
  <1> USE DEF Goto
  <1>1. ASSUME NEW p \in Procs, Invoke(p) \/ Reject(p) \/ Get(p) \/ ListCached(p) \/ Lock(p)
                 \/ ListRecheck(p) \/ ListFails(p) \/ CreateTemp(p) \/ Fill(p)
                 \/ WriteFails(p) \/ Return(p)
        PROVE  CacheOrChange'
    BY <1>1 DEF TypeOK, CacheOrChange, Fresh, Invoke, Reject, Get, ListCached, Lock, ListRecheck,
       ListFails, CreateTemp, Fill, WriteFails, Return,
       Asks, Begins, Finish, disk, memory, WriteLabels, LockLabels
  <1>2. ASSUME NEW p \in Procs, CreateTaken(p) \/ UpdateMissing(p) \/ UpdateUnread(p)
                                  \/ RemoveFails(p)
        PROVE  CacheOrChange'
    BY <1>2 DEF TypeOK, CacheOrChange, Fresh, CreateTaken, UpdateMissing, UpdateUnread,
       RemoveFails, Begins, Refuse, Finish, disk, memory
  <1>3. ASSUME NEW p \in Procs, CreateChecked(p) \/ CreateBlind(p) \/ UpdateLoaded(p) PROVE CacheOrChange'
    BY <1>3 DEF TypeOK, CacheOrChange, Fresh, CreateChecked, CreateBlind, UpdateLoaded, Begins, Prepare,
       disk, memory
  <1>4. ASSUME NEW p \in Procs, ListReload(p) PROVE CacheOrChange'
    BY <1>4 DEF CacheOrChange, ListReload, disk
  <1>5. ASSUME NEW p \in Procs, Rename(p) \/ Remove(p) PROVE CacheOrChange'
    BY <1>5 DEF TypeOK, CacheOrChange, Rename, Remove
  <1>6. ASSUME NEW p \in Procs, Invalidate(p) PROVE CacheOrChange'
    BY <1>6 DEF CacheOrChange, Fresh, Invalidate
  <1>7. CASE Crash
    BY <1>7 DEF CacheOrChange, Fresh, Crash
  <1>8. CASE UNCHANGED vars
    BY <1>8 DEF CacheOrChange, Fresh, vars
  <1> QED
    BY <1>1, <1>2, <1>3, <1>4, <1>5, <1>6, <1>7, <1>8 DEF Next, Enter, Step

(* ----------------------- the inductive invariant ------------------------- *)

LEMMA InductiveInit == Init => Inductive
  <1> SUFFICES ASSUME Init PROVE Inductive
    OBVIOUS
  <1>1. TypeOK
    BY TypeInit
  <1>2. Calls /\ Mutex /\ Writing /\ TempFile /\ CacheOrChange
    BY StoreAssumption, TunnelsAssumption
    DEF Init, Calls, Mutex, Writing, TempFile, CacheOrChange, Fresh, LockLabels, WriteLabels
  <1> QED BY <1>1, <1>2 DEF Inductive

LEMMA InductiveStep == Inductive /\ [Next]_vars => Inductive'
  BY TypeStep, CallsStep, MutexStep, WritingStep, TempFileStep, CacheStep DEF Inductive

THEOREM InductiveInvariant == Spec => []Inductive
  BY InductiveInit, InductiveStep, PTL DEF Spec

(* The store's state is always well formed (store.go, type Store).           *)
THEOREM TypeCorrect == Spec => []TypeOK
  <1>1. Inductive => TypeOK
    BY DEF Inductive
  <1> QED BY <1>1, InductiveInvariant, PTL

(* List never serves a listing that a reload would contradict (295-336): a   *)
(* change that has not been invalidated yet is one whose writer still holds  *)
(* the mutex.                                                                *)
THEOREM CacheIsCoherent == Spec => []CacheCoherent
  <1>1. Inductive => CacheCoherent
    BY StoreAssumption
    DEF Inductive, CacheOrChange, Mutex, CacheCoherent, LockLabels
  <1> QED BY <1>1, InductiveInvariant, PTL

(* --------------------------- the files ----------------------------------- *)

(* The file n is there, and no create is about to replace it unseen.         *)
Seen(n) == /\ files[n] \in Tunnel
           /\ \A p \in blind : pc[p] = "rename" => work[p].name # n

(* How the directory changes: not at all, by a removal, or by the rename of  *)
(* a complete file that carries the unknown fields of the one it replaces.   *)
LEMMA FilesStep ==
    ASSUME Inductive, [Next]_vars
    PROVE  \/ files' = files
           \/ \E n \in Names : files' = [files EXCEPT ![n] = Absent]
           \/ \E n \in Names, t \in Tunnel :
                /\ files' = [files EXCEPT ![n] = t]
                /\ Seen(n) /\ files[n].extra # NoExtra => t.extra # NoExtra
  <1>1. ASSUME NEW p \in Procs, Rename(p)
        PROVE  \E n \in Names, t \in Tunnel :
                /\ files' = [files EXCEPT ![n] = t]
                /\ Seen(n) /\ files[n].extra # NoExtra => t.extra # NoExtra
    <2>1. /\ work[p] \in Tunnel /\ work[p].name \in Names /\ tmp = work[p]
          /\ work[p].name = req[p].tunnel.name /\ req[p].tunnel \in Tunnel
      BY <1>1, WorkType, RequestType DEF Inductive, Rename, TempFile, WriteLabels, Tunnel
    <2>2. \/ Entry(p) = Absent \/ p \in blind
          \/ Entry(p) \in Tunnel /\ work[p] = Merged(req[p].tunnel, Entry(p))
      BY <1>1 DEF Inductive, Writing, Rename, WriteLabels, Creating, Updating
    <2>3. Seen(work[p].name) /\ Entry(p).extra # NoExtra => work[p].extra # NoExtra
      BY <1>1, <2>1, <2>2, MergedType, TunnelsAssumption DEF Seen, Entry, Rename
    <2> QED BY <1>1, <2>1, <2>3 DEF Rename, Entry
  <1>2. ASSUME NEW p \in Procs, Remove(p)
        PROVE  \E n \in Names : files' = [files EXCEPT ![n] = Absent]
    BY <1>2, RequestType DEF Inductive, Remove, Begins
  <1>3. ASSUME ~ \E p \in Procs : Rename(p) \/ Remove(p) PROVE files' = files
    BY <1>3 DEF Next, Enter, Step, vars, disk, Invoke, Reject, Get, ListCached, Lock, ListRecheck,
       ListReload, ListFails, CreateTaken, UpdateMissing, UpdateUnread, RemoveFails, Refuse,
       CreateChecked, CreateBlind, UpdateLoaded, Prepare, CreateTemp, Fill, WriteFails, Invalidate, Return, Crash
  <1> QED BY <1>1, <1>2, <1>3

(* No call and no crash ever leaves a file that does not parse (454-477).    *)
THEOREM ReplaceIsAtomic == Spec => AtomicReplace
  <1>1. Inductive /\ [Next]_vars
          => [\A n \in Names : files'[n] = Malformed => files[n] = Malformed]_vars
    BY FilesStep, TunnelsAssumption DEF Inductive, TypeOK
  <1> QED BY <1>1, InductiveInvariant, PTL DEF Spec, AtomicReplace

(* No save drops all the unknown fields of a file (195-198, 381-384).        *)
THEOREM ExtraIsKept == Spec => ExtraSurvives
  <1>1. Inductive /\ [Next]_vars
          => [\A n \in Names : /\ files[n] \in Tunnel /\ files'[n] \in Tunnel
                               /\ files[n].extra # NoExtra
                               /\ \A p \in blind : pc[p] = "rename" => work[p].name # n
                => files'[n].extra # NoExtra]_vars
    BY FilesStep, TunnelsAssumption DEF Inductive, TypeOK, Seen
  <1> QED BY <1>1, InductiveInvariant, PTL DEF Spec, ExtraSurvives

(* -------------------- Store implements TunnelStore ----------------------- *)

(* TunnelStore speaks of the same data.                                      *)
LEMMA SameData ==
    /\ Abstract!Tunnel = Tunnel /\ Abstract!File = File /\ Abstract!Request = Request
    /\ Abstract!Writes = Writes
    /\ \A s, ts : Abstract!Answer(s, ts) = Answer(s, ts)
    /\ \A r : Abstract!Accepted(r) = Accepted(r)
    /\ \A t, e : Abstract!Merged(t, e) = Merged(t, e)
    /\ \A fs, ls, us : Abstract!Listing(fs, ls, us) = Listing(fs, ls, us)
    /\ \A f : Abstract!Loads(f) = Loads(f)
  <1> USE DEF Tunnel, Abstract!Tunnel
  <1>1. Abstract!File = File /\ Abstract!Request = Request /\ Abstract!Writes = Writes
    BY DEF File, Abstract!File, Request, Abstract!Request, Writes, Abstract!Writes
  <1>2. \A s, ts : Abstract!Answer(s, ts) = Answer(s, ts)
    BY DEF Answer, Abstract!Answer
  <1>3. \A r : Abstract!Accepted(r) = Accepted(r)
    BY DEF Accepted, Abstract!Accepted
  <1>4. \A t, e : Abstract!Merged(t, e) = Merged(t, e)
    BY DEF Merged, Abstract!Merged
  <1>5. \A fs, ls, us : Abstract!Listing(fs, ls, us) = Listing(fs, ls, us)
    BY DEF Listing, Abstract!Listing
  <1>6. \A f : Abstract!Loads(f) = Loads(f)
    BY DEF Loads, Abstract!Loads, Answer, Abstract!Answer
  <1> QED BY <1>1, <1>2, <1>3, <1>4, <1>5, <1>6

LEMMA AbstractInit == Init => Abstract!Init
  BY StoreAssumption, SameData DEF Init, Abstract!Init, File, Standing, Fresh

(* A step outside the change of the files keeps the listing that stands.     *)
LEMMA StandingKept ==
    ASSUME TypeOK, NEW p \in Procs, NEW label, UNCHANGED memory,
           pc' = [pc EXCEPT ![p] = label], pc[p] # "changed", label # "changed"
    PROVE  Standing' = Standing
  BY DEF TypeOK, Standing, Fresh, memory

(* A write that p is in the middle of is due, with the tunnel p prepared.    *)
LEMMA WriteIsDue ==
    ASSUME Inductive, NEW p \in Procs, pc[p] \in WriteLabels
    PROVE  Abstract!Due(p) /\ work[p] = Abstract!Written(p)
  BY StoreAssumption, SameData
  DEF Inductive, Calls, Writing, Creating, Updating, Entry, LockLabels, WriteLabels,
      Abstract!Due, Abstract!Waiting, Abstract!At, Abstract!Written

(* A refused call is refused in TunnelStore.                                 *)
LEMMA RefuseMaps ==
    ASSUME Inductive, NEW p \in Procs, pc[p] = "locked",
           NEW s \in {"exists", "notfound", "failed"}, Refuse(p, s),
           \/ s = "exists" /\ req[p].op = "create" /\ Entry(p) # Absent
           \/ s = "notfound" /\ req[p].op = "update" /\ Entry(p) = Absent
           \/ s = "failed" /\ req[p].op \in Writes
    PROVE  Abstract!Refuse(p)
  <1>1. Standing' = Standing
    BY StandingKept DEF Inductive, Refuse, Finish, Goto
  <1> QED BY <1>1, SameData DEF Inductive, Calls, Refuse, Finish, disk, Entry, Writes,
         Abstract!Refuse, Abstract!Waiting, Abstract!At, Abstract!Answered

LEMMA AbstractStep ==
    ASSUME Inductive, Inductive', [Next]_vars
    PROVE  [Abstract!Next]_Abstract!vars
  <1> DEFINE Stutter == UNCHANGED <<files, leftovers, Standing, req, res, blind>>
  <1>s. Stutter => UNCHANGED Abstract!vars
    BY DEF Abstract!vars
  <1>0. ASSUME NEW p \in Procs,
               \/ Invoke(p) \/ Reject(p) \/ Get(p) \/ ListCached(p) \/ Lock(p) \/ ListRecheck(p)
               \/ ListFails(p) \/ CreateTaken(p) \/ UpdateMissing(p) \/ UpdateUnread(p)
               \/ RemoveFails(p) \/ CreateChecked(p) \/ CreateBlind(p) \/ UpdateLoaded(p)
               \/ CreateTemp(p) \/ Fill(p) \/ WriteFails(p) \/ Return(p)
        PROVE  Standing' = Standing
    <2>1. /\ UNCHANGED memory /\ pc[p] # "changed"
          /\ \E label : label # "changed" /\ pc' = [pc EXCEPT ![p] = label]
      BY <1>0 DEF Invoke, Reject, Get, ListCached, Lock, ListRecheck, ListFails, CreateTaken,
         UpdateMissing, UpdateUnread, RemoveFails, Refuse, CreateChecked, CreateBlind,
         UpdateLoaded, Prepare, CreateTemp, Fill, WriteFails, Return, Asks, Begins, Finish, Goto
    <2> QED BY <2>1, StandingKept DEF Inductive
  <1>1. ASSUME NEW p \in Procs, Invoke(p) PROVE Abstract!Invoke(p)
    BY <1>1, <1>0, StoreAssumption, SameData DEF Inductive, Calls, Invoke, Abstract!Invoke, disk
  <1>2. ASSUME NEW p \in Procs, Reject(p) PROVE Abstract!Refuse(p)
    BY <1>2, <1>0, SameData DEF Inductive, Calls, Reject, Finish, disk, Abstract!Refuse,
       Abstract!Answered
  <1>3. ASSUME NEW p \in Procs, Get(p) PROVE Abstract!Get(p)
    BY <1>3, <1>0, SameData DEF Inductive, Calls, Get, Asks, Finish, disk, Entry,
       Abstract!Get, Abstract!Waiting, Abstract!At
  <1>4. ASSUME NEW p \in Procs, Fresh, owner = Nothing \/ owner = p,
               pc[p] \in {"called", "locked"}, req[p].op = "list",
               Finish(p, cache), UNCHANGED <<disk, memory, req, blind>>
        PROVE  Abstract!List(p)
    <2>1. \A q \in Procs : pc[q] # "changed"
      BY <1>4, StoreAssumption DEF Inductive, Mutex, LockLabels, TypeOK
    <2>2. Standing = cache /\ Standing' = cache
      BY <1>4, <2>1, StandingKept DEF Inductive, Finish, Goto, Standing
    <2> QED BY <1>4, <2>2, SameData DEF Inductive, Calls, Finish, disk,
               Fresh, Abstract!List, Abstract!Waiting
  <1>5. ASSUME NEW p \in Procs, ListCached(p) PROVE Stutter \/ Abstract!List(p)
    BY <1>5, <1>4, <1>0 DEF ListCached, Asks, disk
  <1>6. ASSUME NEW p \in Procs, ListRecheck(p) PROVE Abstract!List(p)
    BY <1>6, <1>4 DEF Inductive, Mutex, ListRecheck, Begins, LockLabels
  <1>7. ASSUME NEW p \in Procs, ListReload(p) PROVE Abstract!List(p)
    <2>1. Standing = Nothing
      BY <1>7 DEF ListReload, Standing
    <2>2. \A q \in Procs : pc'[q] # "changed"
      BY <1>7 DEF Inductive, TypeOK, Mutex, LockLabels, ListReload, Begins, Finish, Goto
    <2>3. cache' \in Reply
      BY <1>7, ListingType, AnswerType DEF ListReload, Inductive, TypeOK
    <2>4. Standing' = cache'
      BY <1>7, <2>2, <2>3, ReplyIsSome DEF ListReload, Standing, Fresh
    <2>5. \E us \in SUBSET (Names \cup leftovers) :
              cache' = Answer("ok", Listing(files, leftovers, us))
      BY <1>7 DEF ListReload
    <2> QED BY <1>7, <2>1, <2>4, <2>5, SameData DEF Inductive, Calls, ListReload, Begins, Finish,
               disk, Abstract!List, Abstract!Waiting
  <1>8. ASSUME NEW p \in Procs, ListFails(p) PROVE Abstract!Refuse(p)
    BY <1>8, <1>0, SameData DEF Inductive, Calls, ListFails, Begins, Finish, disk,
       Abstract!Refuse, Abstract!Waiting, Abstract!Answered
  <1>9. ASSUME NEW p \in Procs, CreateTaken(p) \/ UpdateMissing(p) \/ UpdateUnread(p)
                                  \/ RemoveFails(p)
        PROVE  Abstract!Refuse(p)
    BY <1>9, RefuseMaps DEF CreateTaken, UpdateMissing, UpdateUnread, RemoveFails, Begins, Writes
  <1>10. ASSUME NEW p \in Procs, Lock(p) \/ CreateChecked(p) \/ UpdateLoaded(p)
                  \/ CreateTemp(p) \/ Fill(p)
         PROVE  Stutter
    BY <1>10, <1>0 DEF Lock, CreateChecked, UpdateLoaded, Prepare, CreateTemp, Fill, disk
  <1>17. ASSUME NEW p \in Procs, CreateBlind(p) PROVE Abstract!Blind(p)
    BY <1>17, <1>0, SameData DEF Inductive, Calls, LockLabels, CreateBlind, Prepare, Begins, Entry,
       disk, Abstract!Blind, Abstract!Waiting, Abstract!At
  <1>18. ASSUME NEW p \in Procs, Invalidate(p) PROVE Stutter
    <2>1. Standing = Nothing /\ Standing' = Nothing
      BY <1>18 DEF Invalidate, Standing, Fresh
    <2> QED BY <1>18, <2>1 DEF Invalidate, disk
  <1>11. ASSUME NEW p \in Procs, Rename(p) PROVE Abstract!Write(p)
    <2>1. /\ Abstract!Due(p) /\ work[p] = Abstract!Written(p)
          /\ work[p].name = req[p].tunnel.name /\ tmp = work[p]
      BY <1>11, WriteIsDue, WorkType DEF Inductive, TempFile, Rename, WriteLabels
    <2>2. Standing' = Nothing
      BY <1>11 DEF Inductive, TypeOK, Rename, Goto, Standing
    <2> QED BY <1>11, <2>1, <2>2, SameData DEF Rename, Abstract!Write, Abstract!Answered
  <1>12. ASSUME NEW p \in Procs, WriteFails(p) PROVE Abstract!Refuse(p)
    <2>1. req[p].op \in Writes
      BY <1>12 DEF Inductive, Writing, WriteFails, WriteLabels, Creating, Updating, Writes
    <2> QED BY <1>12, <1>0, <2>1, SameData DEF Inductive, Calls, WriteFails, Finish,
               Abstract!Refuse, Abstract!Waiting, Abstract!Answered
  <1>13. ASSUME NEW p \in Procs, Remove(p) PROVE Abstract!Delete(p)
    <2>1. Standing' = Nothing
      BY <1>13 DEF Inductive, TypeOK, Remove, Goto, Standing
    <2> QED BY <1>13, <2>1, SameData DEF Inductive, Calls, Remove, Begins,
       Abstract!Delete, Abstract!Waiting, Abstract!Answered
  <1>14. ASSUME NEW p \in Procs, Return(p) PROVE Abstract!Return(p)
    BY <1>14, <1>0 DEF Inductive, Calls, Return, disk, Abstract!Return
  <1>15. CASE Crash
    <2>0. Standing' = Nothing
      BY <1>15 DEF Crash, Standing, Fresh
    <2>1. CASE tmp \in Tunnel
      <3>1. PICK p \in Procs : pc[p] = "rename"
        BY <2>1 DEF Inductive, TempFile
      <3>2. Abstract!Due(p) /\ tmp = Abstract!Written(p)
        BY <3>1, WriteIsDue DEF Inductive, TempFile, WriteLabels
      <3> QED BY <1>15, <2>0, <2>1, <3>2 DEF Crash, Abstract!Crash, Abstract!Next
    <2>2. CASE tmp \notin Tunnel
      <3>1. leftovers' = leftovers
        BY <1>15, <2>2 DEF Crash
      <3> QED BY <1>15, <2>0, <3>1 DEF Crash, Abstract!Crash, Abstract!Next
    <2> QED BY <2>1, <2>2
  <1>16. CASE UNCHANGED vars
    BY <1>16, <1>s DEF vars, Standing, Fresh
  <1> QED
    BY <1>s, <1>17, <1>18, <1>1, <1>2, <1>3, <1>5, <1>6, <1>7, <1>8, <1>9, <1>10, <1>11, <1>12, <1>13,
       <1>14, <1>15, <1>16 DEF Next, Enter, Step, Abstract!Next

(* Every call of the store takes effect at one instant, or not at all: the   *)
(* mutex, the cache and the temporary files are an implementation of the     *)
(* atomic TunnelStore, crashes included.                                     *)
THEOREM Implements == Spec => Linearizable
  <1>1. Inductive /\ Inductive' /\ [Next]_vars => [Abstract!Next]_Abstract!vars
    BY AbstractStep
  <1> QED BY <1>1, AbstractInit, InductiveInvariant, PTL
          DEF Spec, Linearizable, Abstract!Spec
=============================================================================
