---------------------------- MODULE WTFThreading ----------------------------
(***************************************************************************)
(* The thread registry of ThreadingPthreads.cpp and the EAWebKit shutdown *)
(* flag built on it, with pageSize() of PageBlock.cpp called from the     *)
(* threads.                                                                *)
(*                                                                         *)
(* threadMap gives every WTF thread an identifier.  The creator registers *)
(* the new pthread (createThreadInternal), the new thread looks its own   *)
(* identifier up (initializeCurrentThreadInternal), and the thread-       *)
(* specific destructor run at thread exit removes it                      *)
(* (clearPthreadHandleForIdentifier).  gNoWorkerThreadsRunning is kept    *)
(* from the map's size under the map mutex and polled without it by       *)
(* waitForAllThreadsCompletion before the library is shut down.          *)
(*                                                                         *)
(* Every function that takes threadMapMutex is one atomic step: the map    *)
(* is only touched under that mutex, and the only state read outside it,  *)
(* the flag, is written once per critical section.  A pthread handle is   *)
(* the thread itself; no worker is created twice, so handles are never    *)
(* reused.                                                                 *)
(*                                                                         *)
(* Two facts about callers outside this file are assumed.  Main calls     *)
(* currentThread() (initializeMainThread) before it creates a thread, as  *)
(* the comment at lines 80-81 relies on.  A new thread runs its body only *)
(* once its creator has registered it: createThread (Threading.cpp) holds *)
(* the thread's creation mutex around createThreadInternal and the entry  *)
(* point takes it first.                                                   *)
(***************************************************************************)
EXTENDS Naturals, FiniteSets

CONSTANTS Main,            \* the embedding application's thread
          Workers,         \* threads created through createThread
          NoThread,        \* the null pthread_t
          SystemPageSize   \* what systemPageSize() returns

ASSUME Main \notin Workers /\ NoThread \notin Workers \cup {Main}
ASSUME SystemPageSize \in Nat \ {0}

Threads == {Main} \cup Workers

(* Identifiers handed out: 1 for Main, then one per worker.               *)
MaxIdentifier == 1 + Cardinality(Workers)

VARIABLES
  threadMap,               \* ThreadMap: identifier -> pthread handle
  identifierCount,         \* static in establishIdentifierForPthreadHandle
  gNoWorkerThreadsRunning,
  tid,                     \* ThreadIdentifierData of each thread, 0 if none
  known,                   \* the identifier createThread returned for a worker
  st,                      \* where each worker is in its life
  mainPc,
  target,                  \* the worker Main is creating, or the handle it joins
  joined,                  \* workers passed to waitForThreadCompletion
  detached,                \* workers passed to detachThread
  s_pageSize,              \* PageBlock.cpp
  psPc,                    \* where each thread is in pageSize()
  pageResult               \* what pageSize() returned to each thread, 0 if not yet

vars == <<threadMap, identifierCount, gNoWorkerThreadsRunning, tid, known, st,
          mainPc, target, joined, detached, s_pageSize, psPc, pageResult>>

WorkerStates == {"none", "blocked", "init", "running", "leaving", "terminated", "failed"}
MainStates == {"start", "run", "creating", "joining", "waitAll", "unloaded"}

----------------------------------------------------------------------------
(* The registry operations, each under threadMapMutex.                     *)

Registered(h) == {id \in DOMAIN threadMap : threadMap[id] = h}

(* identifierByPthreadHandle: the identifier mapped to the handle, or 0.   *)
IdentifierByPthreadHandle(h) ==
  IF Registered(h) = {} THEN 0 ELSE CHOOSE id \in Registered(h) : TRUE

(* pthreadHandleForIdentifier: HashMap::get, the null handle if absent.    *)
PthreadHandleForIdentifier(id) ==
  IF id \in DOMAIN threadMap THEN threadMap[id] ELSE NoThread

(* establishIdentifierForPthreadHandle; HashMap::add keeps an existing     *)
(* entry.  The identifier returned is identifierCount.                     *)
EstablishIdentifierForPthreadHandle(h) ==
  /\ threadMap' = IF identifierCount \in DOMAIN threadMap THEN threadMap
                  ELSE [id \in DOMAIN threadMap \cup {identifierCount} |->
                          IF id = identifierCount THEN h ELSE threadMap[id]]
  /\ gNoWorkerThreadsRunning' =
        IF Cardinality(DOMAIN threadMap') > 1 THEN FALSE ELSE gNoWorkerThreadsRunning
  /\ identifierCount' = identifierCount + 1

(* Mutant: the flag set only once the map is empty, which it never is.   *)
ClearPthreadHandleForIdentifierNeverEmpty(id) ==
  /\ threadMap' = [i \in DOMAIN threadMap \ {id} |-> threadMap[i]]
  /\ gNoWorkerThreadsRunning' =
        IF Cardinality(DOMAIN threadMap') < 1 THEN TRUE ELSE gNoWorkerThreadsRunning

ClearPthreadHandleForIdentifier(id) ==
  /\ threadMap' = [i \in DOMAIN threadMap \ {id} |-> threadMap[i]]
  /\ gNoWorkerThreadsRunning' =
        IF Cardinality(DOMAIN threadMap') <= 1 THEN TRUE ELSE gNoWorkerThreadsRunning

----------------------------------------------------------------------------
Init ==
  /\ threadMap = [id \in {} |-> NoThread]
  /\ identifierCount = 1
  /\ gNoWorkerThreadsRunning = TRUE
  /\ tid = [t \in Threads |-> 0]
  /\ known = [w \in Workers |-> 0]
  /\ st = [w \in Workers |-> "none"]
  /\ mainPc = "start"
  /\ target = NoThread
  /\ joined = {}
  /\ detached = {}
  /\ s_pageSize = 0
  /\ psPc = [t \in Threads |-> "idle"]
  /\ pageResult = [t \in Threads |-> 0]

PageVars == <<s_pageSize, psPc, pageResult>>

(* Main's currentThread(): no identifier yet, so it establishes one.       *)
CurrentThread ==
  /\ mainPc = "start" /\ tid[Main] = 0
  /\ EstablishIdentifierForPthreadHandle(Main)
  /\ tid' = [tid EXCEPT ![Main] = identifierCount]
  /\ mainPc' = "run"
  /\ UNCHANGED <<known, st, target, joined, detached, PageVars>>

(* Mutant: the new thread runs without waiting for its creator.          *)
CreateThreadUnblocked(w) ==
  /\ mainPc = "run" /\ st[w] = "none"
  /\ st' = [st EXCEPT ![w] = "init"]
  /\ mainPc' = "creating" /\ target' = w
  /\ UNCHANGED <<threadMap, identifierCount, gNoWorkerThreadsRunning, tid, known,
                 joined, detached, PageVars>>

(* createThreadInternal: pthread_create succeeds and the thread starts,    *)
(* blocked on its creation mutex.                                          *)
CreateThread(w) ==
  /\ mainPc = "run" /\ st[w] = "none"
  /\ st' = [st EXCEPT ![w] = "blocked"]
  /\ mainPc' = "creating" /\ target' = w
  /\ UNCHANGED <<threadMap, identifierCount, gNoWorkerThreadsRunning, tid, known,
                 joined, detached, PageVars>>

(* pthread_create fails: createThreadInternal returns 0.                   *)
CreateThreadFails(w) ==
  /\ mainPc = "run" /\ st[w] = "none"
  /\ st' = [st EXCEPT ![w] = "failed"]
  /\ UNCHANGED <<threadMap, identifierCount, gNoWorkerThreadsRunning, tid, known,
                 mainPc, target, joined, detached, PageVars>>

(* Mutant: the caller is given the incremented counter (++identifierCount).*)
EstablishCreatedPreIncrement ==
  /\ mainPc = "creating"
  /\ EstablishIdentifierForPthreadHandle(target)
  /\ known' = [known EXCEPT ![target] = identifierCount + 1]
  /\ st' = [st EXCEPT ![target] = "init"]
  /\ mainPc' = "run" /\ target' = NoThread
  /\ UNCHANGED <<tid, joined, detached, PageVars>>

(* createThreadInternal registers the handle and returns its identifier;   *)
(* createThread then releases the creation mutex.                          *)
EstablishCreated ==
  /\ mainPc = "creating"
  /\ EstablishIdentifierForPthreadHandle(target)
  /\ known' = [known EXCEPT ![target] = identifierCount]
  /\ st' = [st EXCEPT ![target] = "init"]
  /\ mainPc' = "run" /\ target' = NoThread
  /\ UNCHANGED <<tid, joined, detached, PageVars>>

(* initializeCurrentThreadInternal: the thread's own identifier.           *)
InitializeCurrentThread(w) ==
  /\ st[w] = "init"
  /\ tid' = [tid EXCEPT ![w] = IdentifierByPthreadHandle(w)]
  /\ st' = [st EXCEPT ![w] = "running"]
  /\ UNCHANGED <<threadMap, identifierCount, gNoWorkerThreadsRunning, known,
                 mainPc, target, joined, detached, PageVars>>

(* pageSize(), by a thread running library code: the lazy initialisation  *)
(* of s_pageSize is unsynchronised.                                        *)
CallsPageSize(t) == IF t = Main THEN mainPc = "run" ELSE st[t] = "running"

PageSizeTest(t) ==
  /\ CallsPageSize(t) /\ psPc[t] = "idle"
  /\ psPc' = [psPc EXCEPT ![t] = IF s_pageSize = 0 THEN "write" ELSE "ret"]
  /\ UNCHANGED <<s_pageSize, pageResult>>

PageSizeWrite(t) ==
  /\ psPc[t] = "write"
  /\ s_pageSize' = SystemPageSize
  /\ psPc' = [psPc EXCEPT ![t] = "ret"]
  /\ UNCHANGED pageResult

PageSizeReturn(t) ==
  /\ psPc[t] = "ret"
  /\ pageResult' = [pageResult EXCEPT ![t] = s_pageSize]
  /\ psPc' = [psPc EXCEPT ![t] = "done"]
  /\ UNCHANGED s_pageSize

PageSize(t) ==
  /\ PageSizeTest(t) \/ PageSizeWrite(t) \/ PageSizeReturn(t)
  /\ UNCHANGED <<threadMap, identifierCount, gNoWorkerThreadsRunning, tid, known,
                 st, mainPc, target, joined, detached>>

(* The worker's entry point returns; the thread-specific destructor of its *)
(* ThreadIdentifierData calls clearPthreadHandleForIdentifier.             *)
ThreadExit(w) ==
  /\ st[w] = "running" /\ psPc[w] \in {"idle", "done"}
  /\ ClearPthreadHandleForIdentifier(tid[w])
  /\ st' = [st EXCEPT ![w] = "leaving"]
  /\ UNCHANGED <<identifierCount, tid, known, mainPc, target, joined, detached,
                 PageVars>>

(* The destructor unlocks the map mutex and returns; the pthread ends.     *)
ThreadTerminate(w) ==
  /\ st[w] = "leaving"
  /\ st' = [st EXCEPT ![w] = "terminated"]
  /\ UNCHANGED <<threadMap, identifierCount, gNoWorkerThreadsRunning, tid, known,
                 mainPc, target, joined, detached, PageVars>>

(* Mutant: the null-handle early return of line 221 dropped.             *)
WaitForThreadCompletionUnchecked(w) ==
  /\ mainPc = "run" /\ known[w] # 0 /\ w \notin joined \cup detached
  /\ joined' = joined \cup {w}
  /\ mainPc' = "joining" /\ target' = PthreadHandleForIdentifier(known[w])
  /\ UNCHANGED <<threadMap, identifierCount, gNoWorkerThreadsRunning, tid, known,
                 st, detached, PageVars>>

(* waitForThreadCompletion on an identifier createThread returned, once    *)
(* per worker: no handle means it returns 0 at once; otherwise pthread_join.*)
WaitForThreadCompletion(w) ==
  /\ mainPc = "run" /\ known[w] # 0 /\ w \notin joined \cup detached
  /\ joined' = joined \cup {w}
  /\ IF PthreadHandleForIdentifier(known[w]) = NoThread
       THEN UNCHANGED <<mainPc, target>>
       ELSE mainPc' = "joining" /\ target' = PthreadHandleForIdentifier(known[w])
  /\ UNCHANGED <<threadMap, identifierCount, gNoWorkerThreadsRunning, tid, known,
                 st, detached, PageVars>>

(* pthread_join returns once the joined thread has ended.                  *)
JoinReturns ==
  /\ mainPc = "joining" /\ st[target] = "terminated"
  /\ mainPc' = "run" /\ target' = NoThread
  /\ UNCHANGED <<threadMap, identifierCount, gNoWorkerThreadsRunning, tid, known,
                 st, joined, detached, PageVars>>

(* detachThread: pthread_detach if the identifier still has a handle.      *)
DetachThread(w) ==
  /\ mainPc = "run" /\ known[w] # 0 /\ w \notin joined \cup detached
  /\ detached' = detached \cup {w}
  /\ UNCHANGED <<threadMap, identifierCount, gNoWorkerThreadsRunning, tid, known,
                 st, mainPc, target, joined, PageVars>>

(* EA::WebKit shutdown calls waitForAllThreadsCompletion.  Each round of  *)
(* its loop reads gNoWorkerThreadsRunning and sleeps 1 ms while it is      *)
(* false; once it reads true it returns and the library is gone.           *)
WaitForAllThreadsCompletion ==
  /\ mainPc = "run" /\ psPc[Main] \in {"idle", "done"}
  /\ mainPc' = "waitAll"
  /\ UNCHANGED <<threadMap, identifierCount, gNoWorkerThreadsRunning, tid, known,
                 st, target, joined, detached, PageVars>>

WaitAllReturns ==
  /\ mainPc = "waitAll"
  /\ mainPc' = IF gNoWorkerThreadsRunning THEN "unloaded" ELSE "waitAll"
  /\ UNCHANGED <<threadMap, identifierCount, gNoWorkerThreadsRunning, tid, known,
                 st, target, joined, detached, PageVars>>

(* The library is unloaded and every worker has ended: nothing is left.   *)
Finished ==
  /\ mainPc = "unloaded"
  /\ \A w \in Workers : st[w] \in {"none", "failed", "terminated"}
  /\ UNCHANGED vars

MainStep ==
  \/ CurrentThread \/ EstablishCreated \/ JoinReturns
  \/ WaitForAllThreadsCompletion \/ WaitAllReturns
  \/ \E w \in Workers : \/ CreateThread(w) \/ CreateThreadFails(w)
                        \/ WaitForThreadCompletion(w) \/ DetachThread(w)

WorkerStep(w) ==
  InitializeCurrentThread(w) \/ PageSize(w) \/ ThreadExit(w) \/ ThreadTerminate(w)

Next == MainStep \/ PageSize(Main) \/ (\E w \in Workers : WorkerStep(w)) \/ Finished

(* Threads do not stop for good: every worker body returns, Main's calls   *)
(* that wait return once what they wait for happens.                       *)
Fairness ==
  /\ \A w \in Workers : WF_vars(WorkerStep(w))
  /\ WF_vars(PageSize(Main))
  /\ WF_vars(EstablishCreated) /\ WF_vars(JoinReturns) /\ WF_vars(WaitAllReturns)

Spec == Init /\ [][Next]_vars /\ Fairness

----------------------------------------------------------------------------
TypeOK ==
  /\ DOMAIN threadMap \subseteq 1 .. MaxIdentifier
  /\ \A id \in DOMAIN threadMap : threadMap[id] \in Threads
  /\ identifierCount \in 1 .. MaxIdentifier + 1
  /\ gNoWorkerThreadsRunning \in BOOLEAN
  /\ tid \in [Threads -> 0 .. MaxIdentifier]
  /\ known \in [Workers -> 0 .. MaxIdentifier]
  /\ st \in [Workers -> WorkerStates]
  /\ mainPc \in MainStates
  /\ (mainPc \in {"creating", "joining"}) = (target \in Workers)
  /\ joined \cup detached \subseteq Workers
  /\ s_pageSize \in {0, SystemPageSize}
  /\ psPc \in [Threads -> {"idle", "write", "ret", "done"}]
  /\ pageResult \in [Threads -> Nat]

(* The intent stated at lines 75-78: the library is not left (the return *)
(* of waitForAllThreadsCompletion, lines 244-250) until every worker      *)
(* thread has exited.  A worker that has cleared its entry but not yet    *)
(* unlocked threadMapMutex and returned (lines 182-184) is still running  *)
(* library code.                                                           *)
NoWorkerRunningAtUnload ==
  mainPc = "unloaded" =>
    \A w \in Workers : st[w] \in {"none", "failed", "terminated"}

(* waitForThreadCompletion (lines 216-229) returns only when the worker   *)
(* is past its registration: either pthread_join saw it end, or its        *)
(* identifier no longer had a handle because it had already cleared it.    *)
WaitReturnsAfterExit ==
  \A w \in joined :
     (mainPc = "joining" /\ target = w) \/ st[w] \in {"leaving", "terminated"}

(* A worker that has initialised itself (initializeCurrentThreadInternal,  *)
(* lines 209-211) holds the identifier createThreadInternal returned to   *)
(* its creator (line 195), never 0: its own lookup by pthread_self() runs  *)
(* only after establishIdentifierForPthreadHandle has registered it.       *)
WorkerIdentifierAgreed ==
  \A w \in Workers :
     st[w] \in {"running", "leaving", "terminated"} => tid[w] = known[w] /\ tid[w] # 0

(* Once EA::WebKit shutdown is in waitForAllThreadsCompletion, it returns: *)
(* the last worker's clearPthreadHandleForIdentifier sets the flag.        *)
WaitForAllThreadsCompletionReturns ==
  mainPc = "waitAll" ~> mainPc = "unloaded"
=============================================================================
