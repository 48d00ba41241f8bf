----------------------------- MODULE HotReload -----------------------------
(***************************************************************************)
(* policies/hot_reload.py: users start, stop and ask the reloader, watcher *)
(* threads poll the file, and an editor writes it meanwhile.  One lock,    *)
(* not reentrant, is held while the file is read and the callbacks run.    *)
(***************************************************************************)
EXTENDS Naturals, FiniteSets

CONSTANTS
  Users,          \* threads of the embedder
  Watchers,       \* bound: watcher threads ever started
  Policies,       \* contents that parse, the empty file's among them
  MtimeBound,     \* bound: st_mtime of the file
  CallbackBound,  \* bound: callbacks registered
  Nobody          \* no thread; no policy

ASSUME ReloadAssumption ==
  /\ MtimeBound \in Nat \ {0}
  /\ CallbackBound \in Nat
  /\ Nobody \notin Users \cup Watchers \cup Policies
  /\ Users \cap Watchers = {}

VARIABLES
  content,      \* of the file: a policy, "invalid" or "missing"
  mtime,        \* st_mtime of the file
  policy,       \* _policy
  lastMtime,    \* _last_mtime
  running,      \* _running
  watcher,      \* _watcher_thread
  callbacks,    \* number of _callbacks
  lockOwner,    \* who holds _lock
  reloadPc,     \* where each thread stands
  joining,      \* joining[u]: the thread that u's stop waits for
  seen,         \* the mtime that the lock's owner has read
  left,         \* callbacks that the lock's owner has still to call
  starting,     \* the lock's owner reloads within start
  timedOut,     \* observed: watchers that a stop has given up waiting for
  rewritten     \* observed: mtimes that more than one write has had

fileVars == <<content, mtime, rewritten>>
reloadVars == <<content, mtime, policy, lastMtime, running, watcher, callbacks,
                lockOwner, reloadPc, joining, seen, left, starting, timedOut,
                rewritten>>

ReloadThreads == Users \cup Watchers
Contents == Policies \cup {"invalid", "missing"}
Alive == {w \in Watchers : reloadPc[w] \notin {"unborn", "dead"}}
LockFree == lockOwner = Nobody

-----------------------------------------------------------------------------
(* An editor writes or removes the file.  Two writes may fall into one tick  *)
(* of the file system's clock: also the two halves of one save.              *)
WriteFile ==
  \E c \in Contents, m \in {mtime, mtime + 1} :
    /\ m <= MtimeBound
    /\ c # content
    /\ content' = c
    /\ mtime' = m
    /\ rewritten' = IF m = mtime THEN rewritten \cup {m} ELSE rewritten
    /\ UNCHANGED <<policy, lastMtime, running, watcher, callbacks, lockOwner,
                   reloadPc, joining, seen, left, starting, timedOut>>

(* Mutant: start does not look whether it has been called before.            *)
StartedNever == FALSE

Started == running

(* start up to the reload; the call that finds it running changes nothing.   *)
Start(u) ==
  /\ reloadPc[u] = "idle" /\ LockFree
  /\ ~Started
  /\ \E w \in Watchers : reloadPc[w] = "unborn"
  /\ running' = TRUE
  /\ lockOwner' = u
  /\ starting' = TRUE
  /\ reloadPc' = [reloadPc EXCEPT ![u] = "stat"]
  /\ UNCHANGED <<fileVars, policy, lastMtime, watcher, callbacks, joining, seen,
                 left, timedOut>>

(* reload_now, by a user or by a watcher after its sleep.                    *)
ReloadNow(t) ==
  /\ reloadPc[t] = (IF t \in Users THEN "idle" ELSE "reload")
  /\ LockFree
  /\ lockOwner' = t
  /\ starting' = FALSE
  /\ reloadPc' = [reloadPc EXCEPT ![t] = "stat"]
  /\ UNCHANGED <<fileVars, policy, lastMtime, running, watcher, callbacks, joining,
                 seen, left, timedOut>>

(* _reload_if_changed asks for the mtime.                                    *)
Stat(t) ==
  /\ reloadPc[t] = "stat"
  /\ seen' = mtime
  /\ reloadPc' = [reloadPc EXCEPT ![t] =
                    IF content = "missing" \/ (lastMtime # 0 /\ mtime = lastMtime)
                      THEN "done" ELSE "read"]
  /\ UNCHANGED <<fileVars, policy, lastMtime, running, watcher, callbacks, lockOwner,
                 joining, left, starting, timedOut>>

(* Mutant: a file that does not parse counts as seen.                        *)
MtimeSeen == seen

(* _last_mtime after from_file.                                              *)
MtimeLoaded == IF content \in Policies THEN seen ELSE lastMtime

(* from_file, which reads the file as it is by now, and the assignments.     *)
ReadFile(t) ==
  /\ reloadPc[t] = "read"
  /\ policy' = IF content \in Policies THEN content ELSE policy
  /\ lastMtime' = MtimeLoaded
  /\ left' = IF content \in Policies THEN callbacks ELSE 0
  /\ reloadPc' = [reloadPc EXCEPT ![t] = IF content \in Policies THEN "notify" ELSE "done"]
  /\ UNCHANGED <<fileVars, running, watcher, callbacks, lockOwner, joining, seen,
                 starting, timedOut>>

CallbackReturns(t) ==
  /\ reloadPc[t] = "notify"
  /\ left' = IF left = 0 THEN 0 ELSE left - 1
  /\ reloadPc' = [reloadPc EXCEPT ![t] = IF left <= 1 THEN "done" ELSE "notify"]
  /\ UNCHANGED <<fileVars, policy, lastMtime, running, watcher, callbacks, lockOwner,
                 joining, seen, starting, timedOut>>

(* Mutant: the lock is not released by an exception.                         *)
OwnerKept == lockOwner

OwnerAfterRaise == Nobody

(* A callback raises: out of start or reload_now, or out of the watcher.     *)
CallbackRaises(t) ==
  /\ reloadPc[t] = "notify" /\ left > 0
  /\ lockOwner' = OwnerAfterRaise
  /\ seen' = 0 /\ left' = 0 /\ starting' = FALSE
  /\ reloadPc' = [reloadPc EXCEPT ![t] = IF t \in Users THEN "idle" ELSE "dead"]
  /\ UNCHANGED <<fileVars, policy, lastMtime, running, watcher, callbacks, joining,
                 timedOut>>

(* A callback calls the reloader and waits for the lock of its own thread.   *)
CallbackReenters(t) ==
  /\ reloadPc[t] = "notify" /\ left > 0
  /\ reloadPc' = [reloadPc EXCEPT ![t] = "stuck"]
  /\ UNCHANGED <<fileVars, policy, lastMtime, running, watcher, callbacks, lockOwner,
                 joining, seen, left, starting, timedOut>>

(* The end of reload_now, or of start: the thread is created in the lock.    *)
EndReload(t) ==
  /\ reloadPc[t] = "done"
  /\ lockOwner' = Nobody
  /\ seen' = 0 /\ left' = 0 /\ starting' = FALSE
  /\ \/ /\ starting
        /\ \E w \in Watchers :
             /\ reloadPc[w] = "unborn"
             /\ watcher' = w
             /\ reloadPc' = [reloadPc EXCEPT ![t] = "idle", ![w] = "check"]
     \/ /\ ~starting
        /\ reloadPc' = [reloadPc EXCEPT ![t] = IF t \in Users THEN "idle" ELSE "check"]
        /\ UNCHANGED watcher
  /\ UNCHANGED <<fileVars, policy, lastMtime, running, callbacks, joining, timedOut>>

(* stop up to the join.                                                      *)
Stop(u) ==
  /\ reloadPc[u] = "idle" /\ LockFree
  /\ running' = FALSE
  /\ IF watcher \in Alive
       THEN /\ joining' = [joining EXCEPT ![u] = watcher]
            /\ reloadPc' = [reloadPc EXCEPT ![u] = "join"]
       ELSE UNCHANGED <<joining, reloadPc>>
  /\ UNCHANGED <<fileVars, policy, lastMtime, watcher, callbacks, lockOwner, seen,
                 left, starting, timedOut>>

JoinReturns(u) ==
  /\ reloadPc[u] = "join" /\ joining[u] \notin Alive
  /\ joining' = [joining EXCEPT ![u] = Nobody]
  /\ reloadPc' = [reloadPc EXCEPT ![u] = "idle"]
  /\ UNCHANGED <<fileVars, policy, lastMtime, running, watcher, callbacks, lockOwner,
                 seen, left, starting, timedOut>>

(* The timeout is longer than a sleep: it passes only while the watcher is   *)
(* at work or waits for the lock, or has been given new work by a start.     *)
JoinTimesOut(u) ==
  /\ reloadPc[u] = "join" /\ joining[u] \in Alive
  /\ running \/ reloadPc[joining[u]] # "sleep"
  /\ timedOut' = timedOut \cup {joining[u]}
  /\ joining' = [joining EXCEPT ![u] = Nobody]
  /\ reloadPc' = [reloadPc EXCEPT ![u] = "idle"]
  /\ UNCHANGED <<fileVars, policy, lastMtime, running, watcher, callbacks, lockOwner,
                 seen, left, starting>>

OnReload(u) ==
  /\ reloadPc[u] = "idle" /\ LockFree
  /\ callbacks < CallbackBound
  /\ callbacks' = callbacks + 1
  /\ UNCHANGED <<fileVars, policy, lastMtime, running, watcher, lockOwner, reloadPc,
                 joining, seen, left, starting, timedOut>>

(* _watch_loop: at "check" and "recheck" it looks at _running in the lock.   *)
CheckRunning(w) ==
  /\ reloadPc[w] \in {"check", "recheck"} /\ LockFree
  /\ reloadPc' = [reloadPc EXCEPT ![w] =
                    IF ~running THEN "dead"
                    ELSE IF reloadPc[w] = "check" THEN "sleep" ELSE "reload"]
  /\ UNCHANGED <<fileVars, policy, lastMtime, running, watcher, callbacks, lockOwner,
                 joining, seen, left, starting, timedOut>>

Wake(w) ==
  /\ reloadPc[w] = "sleep"
  /\ reloadPc' = [reloadPc EXCEPT ![w] = "recheck"]
  /\ UNCHANGED <<fileVars, policy, lastMtime, running, watcher, callbacks, lockOwner,
                 joining, seen, left, starting, timedOut>>

ReloadInit ==
  /\ content \in Contents
  /\ mtime = 1
  /\ policy = Nobody
  /\ lastMtime = 0
  /\ running = FALSE
  /\ watcher = Nobody
  /\ callbacks = 0
  /\ lockOwner = Nobody
  /\ reloadPc = [t \in ReloadThreads |-> IF t \in Users THEN "idle" ELSE "unborn"]
  /\ joining = [u \in Users |-> Nobody]
  /\ seen = 0
  /\ left = 0
  /\ starting = FALSE
  /\ timedOut = {}
  /\ rewritten = {}

(* What a thread in the lock does.                                           *)
InLock(t) ==
  Stat(t) \/ ReadFile(t) \/ CallbackReturns(t) \/ CallbackRaises(t)
  \/ CallbackReenters(t) \/ EndReload(t)

(* What a watcher does of its own.                                           *)
Watch(w) == CheckRunning(w) \/ Wake(w) \/ ReloadNow(w)

ReloadNext ==
  \/ WriteFile
  \/ \E t \in ReloadThreads : InLock(t)
  \/ \E w \in Watchers : Watch(w)
  \/ \E u \in Users : Start(u) \/ ReloadNow(u) \/ Stop(u) \/ JoinReturns(u)
                      \/ JoinTimesOut(u) \/ OnReload(u)

(* Threads in the lock run on; a watcher that waits for the lock gets it if  *)
(* it is free again and again.                                               *)
ReloadFair ==
  /\ \A t \in ReloadThreads : WF_reloadVars(InLock(t))
  /\ \A w \in Watchers : SF_reloadVars(Watch(w))

ReloadSpec == ReloadInit /\ [][ReloadNext]_reloadVars /\ ReloadFair

-----------------------------------------------------------------------------
ReloadPcs == {"idle", "stat", "read", "notify", "done", "stuck", "join", "unborn",
              "check", "sleep", "recheck", "reload", "dead"}

ReloadTypeOK ==
  /\ content \in Contents /\ mtime \in Nat
  /\ policy \in Policies \cup {Nobody} /\ lastMtime \in Nat
  /\ running \in BOOLEAN /\ watcher \in Watchers \cup {Nobody}
  /\ callbacks \in Nat /\ lockOwner \in ReloadThreads \cup {Nobody}
  /\ reloadPc \in [ReloadThreads -> ReloadPcs]
  /\ joining \in [Users -> Watchers \cup {Nobody}]
  /\ seen \in Nat /\ left \in Nat /\ starting \in BOOLEAN
  /\ timedOut \subseteq Watchers /\ rewritten \subseteq Nat

(* Watchers that a stop is waiting for, or has given up.                     *)
Abandoned == timedOut \cup {joining[u] : u \in Users}

(* At most one watcher lives besides those whose stop has not seen them end, *)
(* and none when stopped: two watchers need a start during a stop or after   *)
(* one that timed out.  (start, stop, _watch_loop.)                          *)
OneWatcher == Alive \ Abandoned \subseteq (IF running THEN {watcher} ELSE {})

(* A policy older than a file that was seen is due to two writes within one  *)
(* tick of the clock, and to nothing else: no order of reading and writing   *)
(* loses a change.  (_reload_if_changed.)                                    *)
StaleWithinTick ==
  LockFree /\ lastMtime = mtime /\ content # "missing" =>
    policy = content \/ mtime \in rewritten

(* A change of the file is noticed while a watcher runs, whatever a callback *)
(* raises in a user's call, unless one blocks the lock for ever by asking    *)
(* for it again.  (_watch_loop, with self._lock.)                            *)
Watched == running /\ Alive # {} /\ \A t \in ReloadThreads : reloadPc[t] # "stuck"

ChangeNoticed ==
  (Watched /\ content \in Policies /\ mtime # lastMtime)
    ~> (mtime = lastMtime \/ content \notin Policies \/ ~Watched)
=============================================================================
