-------------------------- MODULE PoliciesProofs ----------------------------
(***************************************************************************)
(* Theorems about HotReload, for any users, watcher threads, policies and  *)
(* numbers of writes, and about PolicyDecisions, for any files, requests,  *)
(* tools and whatever it means that a when block applies.                  *)
(***************************************************************************)
EXTENDS HotReload, PolicyDecisions, OrderLemmas, SequenceTheorems, TLAPS

(* Mtimes that were read are not in the future.                              *)
TimesTypeOK ==
  /\ mtime \in Nat \ {0} /\ lastMtime \in Nat /\ seen \in Nat
  /\ lastMtime <= mtime /\ seen <= mtime

FileInv ==
  /\ TimesTypeOK
  /\ lastMtime = mtime /\ content # "missing" => policy = content \/ mtime \in rewritten

LEMMA FileStep == FileInv /\ [ReloadNext]_reloadVars => FileInv'
  <1> SUFFICES ASSUME FileInv, [ReloadNext]_reloadVars PROVE FileInv'
    OBVIOUS
  <1> USE DEF FileInv, TimesTypeOK
  <1>1. ASSUME WriteFile PROVE FileInv'
    BY <1>1 DEF WriteFile
  <1>2. ASSUME NEW t \in ReloadThreads, Stat(t) PROVE FileInv'
    BY <1>2 DEF Stat, fileVars
  <1>3. ASSUME NEW t \in ReloadThreads, ReadFile(t) PROVE FileInv'
    BY <1>3 DEF ReadFile, MtimeLoaded, fileVars
  <1>4. ASSUME NEW t \in ReloadThreads,
               \/ Start(t) \/ ReloadNow(t) \/ CallbackReturns(t) \/ CallbackRaises(t)
               \/ CallbackReenters(t) \/ EndReload(t)
        PROVE  FileInv'
    BY <1>4 DEF Start, ReloadNow, CallbackReturns, CallbackRaises, CallbackReenters, EndReload,
                fileVars
  <1>5. ASSUME NEW t \in ReloadThreads,
               \/ Stop(t) \/ JoinReturns(t) \/ JoinTimesOut(t) \/ OnReload(t)
               \/ CheckRunning(t) \/ Wake(t)
        PROVE  FileInv'
    BY <1>5 DEF Stop, JoinReturns, JoinTimesOut, OnReload, CheckRunning, Wake, fileVars
  <1>6. CASE UNCHANGED reloadVars
    BY <1>6 DEF reloadVars
  <1> QED
    BY <1>1, <1>2, <1>3, <1>4, <1>5, <1>6 DEF ReloadNext, InLock, Watch, ReloadThreads

(* A policy older than a file that was seen is due to two writes within one  *)
(* tick, whatever the order of reading, writing, starting and stopping.      *)
THEOREM StaleWithinTickHolds == ReloadSpec => []StaleWithinTick
  <1>1. ReloadInit => FileInv
    BY DEF ReloadInit, FileInv, TimesTypeOK
  <1>2. FileInv => StaleWithinTick
    BY DEF FileInv, StaleWithinTick
  <1> QED
    BY <1>1, <1>2, FileStep, PTL DEF ReloadSpec

-----------------------------------------------------------------------------
(* Only a stop that waits has a thread to wait for.                          *)
ThreadsTypeOK ==
  /\ reloadPc \in [ReloadThreads -> ReloadPcs]
  /\ joining \in [Users -> Watchers \cup {Nobody}]
  /\ watcher \in Watchers \cup {Nobody}
  /\ running \in BOOLEAN /\ starting \in BOOLEAN
  /\ \A u \in Users : joining[u] # Nobody => reloadPc[u] = "join"

(* A start finds no watcher but those whose stop has not seen them end, and  *)
(* until it has made its own nobody stops it.                                *)
StartAlone == starting => running /\ lockOwner # Nobody /\ Alive \subseteq Abandoned

WatcherInv == ThreadsTypeOK /\ StartAlone /\ OneWatcher

(* A step that lets no thread live again and gives up no claim on one.       *)
LEMMA FewerAlive ==
  ASSUME WatcherInv, Alive' \subseteq Alive, Alive' \cap Abandoned \subseteq Abandoned',
         watcher' = watcher, running' = running,
         starting' => starting /\ lockOwner' # Nobody
  PROVE  StartAlone' /\ OneWatcher'
  <1>1. StartAlone'
    BY DEF WatcherInv, StartAlone
  <1>2. OneWatcher'
    BY DEF WatcherInv, OneWatcher
  <1> QED
    BY <1>1, <1>2

LEMMA WatcherStep == WatcherInv /\ [ReloadNext]_reloadVars => WatcherInv'
  <1> SUFFICES ASSUME WatcherInv, [ReloadNext]_reloadVars PROVE WatcherInv'
    OBVIOUS
  <1> USE ReloadAssumption DEF WatcherInv, ThreadsTypeOK, ReloadPcs, ReloadThreads
  <1>1. ASSUME WriteFile PROVE WatcherInv'
    BY <1>1 DEF WriteFile, StartAlone, OneWatcher, Alive, Abandoned
  <1>2. ASSUME NEW u \in Users, Start(u) PROVE WatcherInv'
    <2>1. ThreadsTypeOK'
      BY <1>2 DEF Start, Started
    <2>2. Alive' = Alive /\ Abandoned' = Abandoned
      BY <1>2 DEF Start, Alive, Abandoned
    <2>3. Alive \subseteq Abandoned
      BY <1>2 DEF Start, Started, OneWatcher
    <2> QED
      BY <1>2, <2>1, <2>2, <2>3 DEF Start, StartAlone, OneWatcher
  <1>3. ASSUME NEW t \in ReloadThreads,
               ReloadNow(t) \/ Stat(t) \/ ReadFile(t) \/ CallbackReturns(t) \/ CallbackReenters(t)
        PROVE  WatcherInv'
    <2>1. ThreadsTypeOK'
      BY <1>3 DEF ReloadNow, Stat, ReadFile, CallbackReturns, CallbackReenters
    <2>2. Alive' = Alive /\ Abandoned' = Abandoned
      BY <1>3 DEF ReloadNow, Stat, ReadFile, CallbackReturns, CallbackReenters, Alive, Abandoned
    <2>3. /\ watcher' = watcher /\ running' = running
          /\ starting' => starting /\ lockOwner' # Nobody
      BY <1>3 DEF ReloadNow, Stat, ReadFile, CallbackReturns, CallbackReenters, StartAlone
    <2> QED
      BY <2>1, <2>2, <2>3, FewerAlive
  <1>4. ASSUME NEW t \in ReloadThreads, CallbackRaises(t) PROVE WatcherInv'
    <2>1. ThreadsTypeOK'
      BY <1>4 DEF CallbackRaises
    <2>2. Alive' \subseteq Alive /\ Abandoned' = Abandoned
      BY <1>4 DEF CallbackRaises, Alive, Abandoned
    <2>3. watcher' = watcher /\ running' = running /\ starting' = FALSE
      BY <1>4 DEF CallbackRaises
    <2> QED
      BY <2>1, <2>2, <2>3, FewerAlive
  <1>5. ASSUME NEW t \in ReloadThreads, EndReload(t) PROVE WatcherInv'
    <2>1. ThreadsTypeOK'
      BY <1>5 DEF EndReload
    <2>2. Abandoned' = Abandoned /\ running' = running /\ starting' = FALSE
      BY <1>5 DEF EndReload, Abandoned
    <2>3. CASE starting
      <3>1. PICK w \in Watchers : /\ reloadPc[w] = "unborn" /\ watcher' = w
                                  /\ reloadPc' = [reloadPc EXCEPT ![t] = "idle", ![w] = "check"]
        BY <1>5, <2>3 DEF EndReload
      <3>2. Alive' \subseteq Alive \cup {w}
        BY <1>5, <3>1 DEF EndReload, Alive
      <3> QED
        BY <2>1, <2>2, <2>3, <3>1, <3>2 DEF StartAlone, OneWatcher
    <2>4. CASE ~starting
      <3>1. Alive' = Alive /\ watcher' = watcher
        BY <1>5, <2>4 DEF EndReload, Alive
      <3> QED
        BY <2>1, <2>2, <3>1, FewerAlive
    <2> QED
      BY <2>3, <2>4
  <1>6. ASSUME NEW u \in Users, Stop(u) PROVE WatcherInv'
    <2>1. ThreadsTypeOK'
      <3>1. CASE watcher \in Alive
        <4>1. /\ joining' = [joining EXCEPT ![u] = watcher]
              /\ reloadPc' = [reloadPc EXCEPT ![u] = "join"]
          BY <1>6, <3>1 DEF Stop
        <4>2. joining' \in [Users -> Watchers \cup {Nobody}]
          BY <4>1
        <4>3. reloadPc' \in [ReloadThreads -> ReloadPcs]
          BY <4>1
        <4>4. \A v \in Users : joining'[v] # Nobody => reloadPc'[v] = "join"
          BY <4>1
        <4> QED
          BY <1>6, <4>2, <4>3, <4>4 DEF Stop
      <3>2. CASE watcher \notin Alive
        BY <1>6, <3>2 DEF Stop
      <3> QED
        BY <3>1, <3>2
    <2>2. Alive' = Alive /\ running' = FALSE /\ ~starting'
      BY <1>6 DEF Stop, Alive, StartAlone, LockFree
    <2>3. joining[u] = Nobody
      BY <1>6 DEF Stop
    <2>4. Abandoned \ {Nobody} \subseteq Abandoned'
      BY <1>6, <2>3 DEF Stop, Abandoned
    <2>5. watcher \in Alive => watcher \in Abandoned'
      BY <1>6 DEF Stop, Abandoned
    <2>6. Nobody \notin Alive
      BY DEF Alive
    <2> QED
      BY <2>1, <2>2, <2>4, <2>5, <2>6 DEF StartAlone, OneWatcher
  <1>7. ASSUME NEW u \in Users, JoinReturns(u) \/ JoinTimesOut(u) PROVE WatcherInv'
    <2>1. ThreadsTypeOK'
      BY <1>7 DEF JoinReturns, JoinTimesOut
    <2>2. Alive' = Alive
      BY <1>7 DEF JoinReturns, JoinTimesOut, Alive
    <2>3. Alive \cap Abandoned \subseteq Abandoned'
      BY <1>7 DEF JoinReturns, JoinTimesOut, Abandoned
    <2>4. UNCHANGED <<watcher, running, starting, lockOwner>>
      BY <1>7 DEF JoinReturns, JoinTimesOut
    <2> QED
      BY <2>1, <2>2, <2>3, <2>4, FewerAlive DEF StartAlone
  <1>8. ASSUME NEW u \in Users, OnReload(u) PROVE WatcherInv'
    BY <1>8 DEF OnReload, StartAlone, OneWatcher, Alive, Abandoned
  <1>9. ASSUME NEW w \in Watchers, CheckRunning(w) \/ Wake(w) PROVE WatcherInv'
    <2>1. ThreadsTypeOK'
      BY <1>9 DEF CheckRunning, Wake
    <2>2. Alive' \subseteq Alive /\ Abandoned' = Abandoned
      BY <1>9 DEF CheckRunning, Wake, Alive, Abandoned
    <2>3. UNCHANGED <<watcher, running, starting, lockOwner>>
      BY <1>9 DEF CheckRunning, Wake
    <2> QED
      BY <2>1, <2>2, <2>3, FewerAlive DEF StartAlone
  <1>10. CASE UNCHANGED reloadVars
    BY <1>10 DEF reloadVars, StartAlone, OneWatcher, Alive, Abandoned
  <1> QED
    BY <1>1, <1>2, <1>3, <1>4, <1>5, <1>6, <1>7, <1>8, <1>9, <1>10 DEF ReloadNext, InLock, Watch

(* At most one watcher lives besides those whose stop has not seen them end, *)
(* for any number of users that start and stop.                              *)
THEOREM OneWatcherHolds == ReloadSpec => []OneWatcher
  <1>1. ReloadInit => WatcherInv
    BY ReloadAssumption
    DEF ReloadInit, WatcherInv, ThreadsTypeOK, ReloadPcs, ReloadThreads, StartAlone, OneWatcher,
        Alive, Abandoned
  <1>2. WatcherInv => OneWatcher
    BY DEF WatcherInv
  <1> QED
    BY <1>1, <1>2, WatcherStep, PTL DEF ReloadSpec

-----------------------------------------------------------------------------
Precedes(parsed, i, j) ==
  /\ i # j
  /\ \/ parsed[i].priority > parsed[j].priority
     \/ parsed[i].priority = parsed[j].priority /\ i < j

Comparable(parsed) ==
  \E n \in Nat : DOMAIN parsed = 1..n /\ (n > 1 => \A i \in 1..n : parsed[i].priority \in Int)

(* at[m] is the place in the file of the rule that sorting puts at m.        *)
Ordered(parsed, at) ==
  /\ at \in [DOMAIN parsed -> DOMAIN parsed]
  /\ \A i \in DOMAIN parsed : \E m \in DOMAIN parsed : at[m] = i
  /\ \A k, m \in DOMAIN parsed : k < m => Precedes(parsed, at[k], at[m])
  /\ ByPriority(parsed) = [m \in DOMAIN parsed |-> parsed[at[m]]]

(* ByPriority orders the rules by priority and keeps the order of equals.    *)
LEMMA RulesSorted ==
  ASSUME NEW parsed, Comparable(parsed)
  PROVE  \E at : Ordered(parsed, at)
<1>1. PICK n \in Nat : DOMAIN parsed = 1..n /\ (n > 1 => \A i \in 1..n : parsed[i].priority \in Int)
  BY DEF Comparable
<1>2. PICK at : Cardinality(1..n) = n /\ Placed(parsed, 1..n, Preferred(parsed), at)
  BY <1>1, SortedByPriority
<1>3. /\ at \in [1..n -> 1..n]
      /\ \A i \in 1..n : \E m \in 1..n : at[m] = i
      /\ \A k, m \in 1..n : k < m => <<at[k], at[m]>> \in Preferred(parsed)
      /\ Arranged(parsed, 1..n, Preferred(parsed)) = [m \in 1..n |-> parsed[at[m]]]
  BY <1>2 DEF Placed
<1>4. \A i, j : <<i, j>> \in Preferred(parsed) => Precedes(parsed, i, j)
  BY DEF Preferred, Precedes
<1>5. ByPriority(parsed) = Arranged(parsed, 1..n, Preferred(parsed))
  BY <1>1 DEF ByPriority, HighestFirst
<1>6. \A k, m \in 1..n : k < m => Precedes(parsed, at[k], at[m])
  BY <1>3, <1>4
<1>7. PICK D : D = DOMAIN parsed /\ D = 1..n
  BY <1>1
<1>8. Ordered(parsed, at)
  BY <1>3, <1>5, <1>6, <1>7, Zenon DEF Ordered
<1> QED
  BY <1>8

-----------------------------------------------------------------------------
(* The rules are the file's in the order of their priorities, and a decision *)
(* is the one they and the metadata give now.                                *)
PolicyInv ==
  /\ Comparable(Parsed(file)) /\ rules = ByPriority(Parsed(file))
  /\ decided # Undecided /\ members = <<"yaml">> =>
       decided.evaluated = YamlEvaluate(Asked(decided.query), MetaOf(decided.query.tool))

LEMMA LoadedComparable ==
  ASSUME NEW contents \in Files, Loads(Raws(contents))
  PROVE  Comparable(Parsed(contents))
<1>1. PICK raws : raws = Raws(contents)
  OBVIOUS
<1>2. /\ raws \in Seq({raws[i] : i \in DOMAIN raws})
      /\ \A i \in DOMAIN raws : Get(raws[i], "priority", 0) \in Int \union {Malformed}
  BY <1>1, PolicyAssumption DEF Loads
<1>3. PICK n \in Nat : n = Len(raws) /\ DOMAIN raws = 1..n
  BY <1>2, LenProperties
<1>4. n > 1 => \A i \in 1..n : Get(raws[i], "priority", 0) \in Int
  BY <1>1, <1>2, <1>3 DEF Loads
<1>5. DOMAIN Parsed(contents) = 1..n
      /\ \A i \in 1..n : Parsed(contents)[i].priority = Get(raws[i], "priority", 0)
  BY <1>1, <1>3 DEF Parsed, ParseRule
<1> QED
  BY <1>3, <1>4, <1>5 DEF Comparable

(* No rules are in order.                                                    *)
LEMMA NoRulesSorted ==
  ASSUME NEW contents, contents = [rules |-> <<>>]
  PROVE  Comparable(Parsed(contents)) /\ <<>> = ByPriority(Parsed(contents))
<1>1. Raws(contents) = <<>>
  BY DEF Raws, Get
<1>2. DOMAIN Raws(contents) = {}
  BY <1>1
<1>3. DOMAIN Parsed(contents) = {}
  BY <1>2 DEF Parsed
<1>4. 1..0 = {} /\ 0 \in Nat
  OBVIOUS
<1>5. Comparable(Parsed(contents))
  BY <1>3, <1>4 DEF Comparable
<1>6. ByPriority(Parsed(contents)) = [i \in {} |-> Parsed(contents)[i]]
  <2>1. PICK at : Ordered(Parsed(contents), at)
    BY <1>5, RulesSorted
  <2> QED
    BY <1>3, <2>1 DEF Ordered
<1>7. <<>> = [i \in {} |-> Parsed(contents)[i]]
  OBVIOUS
<1> QED
  BY <1>5, <1>6, <1>7

(* PolicyInv is an invariant.                                                *)
LEMMA PolicyInductive == PolicySpec => []PolicyInv
<1>1. PolicyInit => PolicyInv
  BY NoRulesSorted DEF PolicyInit, PolicyInv
<1>2. PolicyInv /\ [PolicyNext]_policyVars => PolicyInv'
  <2> SUFFICES ASSUME PolicyInv, [PolicyNext]_policyVars PROVE PolicyInv'
    OBVIOUS
  <2>1. CASE LoadPolicy
    <3>1. PICK contents \in Files :
            IF Loads(Raws(contents))
              THEN file' = contents /\ rules' = ByPriority(Parsed(contents)) /\ decided' = Undecided
              ELSE decided' = Undecided /\ UNCHANGED <<file, rules>>
      BY <2>1 DEF LoadPolicy
    <3> QED
      BY <3>1, LoadedComparable DEF PolicyInv, Undecided
  <2>2. CASE RegisterTool
    BY <2>2 DEF RegisterTool, PolicyInv, Undecided
  <2>3. CASE Decide
    <3>1. PICK query \in Queries, hasStore \in Stores :
            decided' = [query |-> query, evaluated |-> Evaluate(Asked(query)),
                        decision |-> Resolve(Evaluate(Asked(query)), hasStore)]
      BY <2>3 DEF Decide
    <3>2. UNCHANGED <<file, rules, metadata, members>>
      BY <2>3 DEF Decide
    <3>3. ASSUME members = <<"yaml">>
          PROVE  Evaluate(Asked(query)) = YamlEvaluate(Asked(query), MetaOf(query.tool))
      BY <3>3 DEF Evaluate, MemberEvaluate, Asked
    <3>4. decided'.evaluated = Evaluate(Asked(query)) /\ decided'.query = query
      BY <3>1
    <3>5. YamlEvaluate(Asked(query), MetaOf(query.tool))' = YamlEvaluate(Asked(query), MetaOf(query.tool))
      BY <3>2 DEF YamlEvaluate, MetaOf
    <3> QED
      BY <3>2, <3>3, <3>4, <3>5 DEF PolicyInv
  <2>4. CASE RunTestCase
    <3>1. PICK case \in Cases :
            /\ decided'.query = case.query
            /\ decided'.evaluated = YamlEvaluate(Asked(case.query), Get(metadata', case.query.tool, EmptyDict))
      BY <2>4 DEF RunTestCase
    <3>2. UNCHANGED <<file, rules, members>>
      BY <2>4 DEF RunTestCase
    <3>3. YamlEvaluate(Asked(case.query), MetaOf(case.query.tool))'
            = YamlEvaluate(Asked(case.query), Get(metadata', case.query.tool, EmptyDict))
      BY <3>2 DEF YamlEvaluate, MetaOf
    <3> QED
      BY <3>1, <3>2, <3>3 DEF PolicyInv
  <2>5. CASE UNCHANGED policyVars
    BY <2>5 DEF policyVars, PolicyInv, Undecided, YamlEvaluate, MetaOf
  <2> QED
    BY <2>1, <2>2, <2>3, <2>4, <2>5 DEF PolicyNext
<1> QED
  BY <1>1, <1>2, PTL DEF PolicySpec

(* Among the rules of the file that match, the highest priority decides and  *)
(* of equals the one that comes first, for any files, requests and tools and *)
(* whatever the blocks of the rules mean.                                    *)
THEOREM PriorityDecidesHolds == PolicySpec => []PriorityDecides
<1>1. PolicyInv => PriorityDecides
  <2> SUFFICES ASSUME PolicyInv, decided # Undecided, members = <<"yaml">>,
                      NEW i \in DOMAIN Parsed(file),
                      Applies(Parsed(file)[i].when, Asked(decided.query), MetaOf(Asked(decided.query).tool)),
                      ~\E j \in DOMAIN Parsed(file) \ {i} :
                         /\ Applies(Parsed(file)[j].when, Asked(decided.query),
                                    MetaOf(Asked(decided.query).tool))
                         /\ \/ Parsed(file)[j].priority > Parsed(file)[i].priority
                            \/ Parsed(file)[j].priority = Parsed(file)[i].priority /\ j < i
               PROVE  /\ decided.evaluated.effect = Parsed(file)[i].effect
                      /\ decided.evaluated.allowed = Parsed(file)[i].allowed
                      /\ decided.evaluated.mask = Parsed(file)[i].mask
    BY DEF PriorityDecides
  <2>1. PICK parsed, q, meta : parsed = Parsed(file) /\ q = Asked(decided.query) /\ meta = MetaOf(q.tool)
    OBVIOUS
  <2>2. PICK n \in Nat : DOMAIN parsed = 1..n
    BY <2>1 DEF PolicyInv, Comparable
  <2>3. PICK at : Ordered(parsed, at)
    BY <2>1, RulesSorted DEF PolicyInv
  <2>4. /\ rules = [m \in 1..n |-> parsed[at[m]]]
        /\ \A m \in 1..n : at[m] \in 1..n
        /\ \A k, m \in 1..n : k < m => Precedes(parsed, at[k], at[m])
    BY <2>1, <2>2, <2>3 DEF Ordered, PolicyInv
  <2>5. PICK m \in 1..n : at[m] = i
    BY <2>1, <2>2, <2>3 DEF Ordered
  <2>6. PICK matching : matching = {k \in DOMAIN rules : Applies(rules[k].when, q, meta)}
    OBVIOUS
  <2>7. m \in matching /\ rules[m] = parsed[i]
    BY <2>1, <2>4, <2>5, <2>6
  <2>8. matching \in SUBSET Nat /\ matching # {}
    <3>1. DOMAIN rules = 1..n
      BY <2>4
    <3>2. \A k \in matching : k \in 1..n
      BY <2>6, <3>1, Zenon
    <3> QED
      BY <2>7, <3>2
  <2>9. Min(matching) \in matching /\ Min(matching) <= m
    BY <2>7, <2>8, LeastIsOne
  <2>10. PICK w \in 1..n : w = Min(matching) /\ w <= m /\ Applies(parsed[at[w]].when, q, meta)
    BY <2>4, <2>6, <2>9
  <2>11. w = m
    <3>1. SUFFICES ASSUME w < m PROVE FALSE
      BY <2>10
    <3>2. at[w] \in 1..n /\ Precedes(parsed, at[w], i)
      BY <2>4, <2>5, <3>1
    <3> QED
      BY <2>1, <2>2, <2>10, <3>2 DEF Precedes
  <2>12. decided.evaluated = YamlEvaluate(q, meta)
    BY <2>1 DEF PolicyInv, Asked
  <2>13. YamlEvaluate(q, meta)
           = [effect |-> rules[m].effect, allowed |-> rules[m].allowed, mask |-> rules[m].mask]
    BY <2>6, <2>8, <2>10, <2>11 DEF YamlEvaluate
  <2> QED
    BY <2>1, <2>7, <2>12, <2>13
<1> QED
  BY <1>1, PolicyInductive, PTL

(* A file the validator has nothing to say against fails to load only over a *)
(* list field, for any files.                                                *)
THEOREM ValidFilesLoadHolds == PolicySpec => []ValidFilesLoad
<1> DEFINE Refusal == refused = EmptyDict \/ ~Loads(Raws(refused))
<1>1. PolicyInit => Refusal
  BY DEF PolicyInit
<1>2. Refusal /\ [PolicyNext]_policyVars => Refusal'
  BY DEF PolicyNext, LoadPolicy, RegisterTool, Decide, RunTestCase, policyVars
<1>3. Refusal => ValidFilesLoad
  <2>1. ~Valid(EmptyDict)
    BY DEF Valid, EmptyDict
  <2>2. ASSUME NEW contents, Valid(contents),
               \A i \in DOMAIN contents.rules : ListsConvert(contents.rules[i])
        PROVE  Loads(Raws(contents))
    BY <2>2 DEF Valid, RuleValid, Loads, Raws, EffectOf, Get
  <2> QED
    BY <2>1, <2>2 DEF ValidFilesLoad
<1> QED
  BY <1>1, <1>2, <1>3, PTL DEF PolicySpec

-----------------------------------------------------------------------------
(* Where a thread stands while it holds the lock, a callback that asks for   *)
(* it again included.                                                        *)
LockedPcs == {"stat", "read", "notify", "done", "stuck"}

LockHeldByOne == \A t \in ReloadThreads : reloadPc[t] \in LockedPcs <=> lockOwner = t

LockInv == ReloadTypeOK /\ LockHeldByOne

LEMMA NobodyIsNoThread == Nobody \notin ReloadThreads
  BY ReloadAssumption DEF ReloadThreads

(* A thread that takes the lock, one that goes on in it and one that leaves  *)
(* it; whoever else moves stays outside.                                     *)
LEMMA LockTaken ==
  ASSUME LockInv, LockFree, NEW t \in ReloadThreads, lockOwner' = t,
         NEW p \in LockedPcs, reloadPc' = [reloadPc EXCEPT ![t] = p]
  PROVE  LockHeldByOne'
  BY NobodyIsNoThread DEF LockInv, LockHeldByOne, ReloadTypeOK, LockFree

LEMMA LockKept ==
  ASSUME LockInv, NEW t \in ReloadThreads, reloadPc[t] \in LockedPcs,
         UNCHANGED lockOwner,
         NEW p \in LockedPcs, reloadPc' = [reloadPc EXCEPT ![t] = p]
  PROVE  LockHeldByOne'
  BY DEF LockInv, LockHeldByOne, ReloadTypeOK

LEMMA LockLeft ==
  ASSUME LockInv, NEW t \in ReloadThreads, reloadPc[t] \in LockedPcs,
         lockOwner' = Nobody, reloadPc' \in [ReloadThreads -> ReloadPcs],
         reloadPc'[t] \notin LockedPcs,
         \A s \in ReloadThreads \ {t} :
           reloadPc'[s] = reloadPc[s] \/ reloadPc'[s] \notin LockedPcs
  PROVE  LockHeldByOne'
  <1>1. lockOwner = t
    BY DEF LockInv, LockHeldByOne
  <1>2. ASSUME NEW s \in ReloadThreads PROVE reloadPc'[s] \notin LockedPcs
    BY <1>1 DEF LockInv, LockHeldByOne
  <1> QED
    BY <1>2, NobodyIsNoThread DEF LockHeldByOne

LEMMA LockOutside ==
  ASSUME LockInv, NEW t \in ReloadThreads, reloadPc[t] \notin LockedPcs,
         UNCHANGED lockOwner,
         NEW p, p \notin LockedPcs, reloadPc' = [reloadPc EXCEPT ![t] = p]
  PROVE  LockHeldByOne'
  BY DEF LockInv, LockHeldByOne, ReloadTypeOK

LEMMA LockStart == ReloadInit => LockInv
  <1> SUFFICES ASSUME ReloadInit PROVE LockInv
    OBVIOUS
  <1>1. /\ reloadPc \in [ReloadThreads -> ReloadPcs]
        /\ \A t \in ReloadThreads : reloadPc[t] \notin LockedPcs
    BY DEF ReloadInit, ReloadPcs, LockedPcs
  <1>2. ReloadTypeOK
    BY <1>1 DEF ReloadInit, ReloadTypeOK
  <1> QED
    BY <1>1, <1>2, NobodyIsNoThread DEF ReloadInit, LockInv, LockHeldByOne

LEMMA LockStep == LockInv /\ [ReloadNext]_reloadVars => LockInv'
  <1> SUFFICES ASSUME LockInv, [ReloadNext]_reloadVars PROVE LockInv'
    OBVIOUS
  <1>t. /\ content \in Contents /\ mtime \in Nat
        /\ policy \in Policies \cup {Nobody} /\ lastMtime \in Nat
        /\ running \in BOOLEAN /\ watcher \in Watchers \cup {Nobody}
        /\ callbacks \in Nat /\ lockOwner \in ReloadThreads \cup {Nobody}
        /\ reloadPc \in [ReloadThreads -> ReloadPcs]
        /\ joining \in [Users -> Watchers \cup {Nobody}]
        /\ seen \in Nat /\ left \in Nat /\ starting \in BOOLEAN
        /\ timedOut \subseteq Watchers /\ rewritten \subseteq Nat
    BY DEF LockInv, ReloadTypeOK
  <1>u. Users \subseteq ReloadThreads /\ Watchers \subseteq ReloadThreads
    BY DEF ReloadThreads
  <1>l. /\ LockedPcs \subseteq ReloadPcs
        /\ {"idle", "join", "unborn", "check", "sleep", "recheck", "reload", "dead"}
             \subseteq ReloadPcs \ LockedPcs
    BY DEF LockedPcs, ReloadPcs
  <1>1. CASE WriteFile
    <2>1. UNCHANGED <<policy, lastMtime, running, watcher, callbacks, lockOwner,
                      reloadPc, joining, seen, left, starting, timedOut>>
      BY <1>1 DEF WriteFile
    <2>2. content' \in Contents /\ mtime' \in Nat /\ rewritten' \subseteq Nat
      BY <1>1, <1>t DEF WriteFile
    <2> QED
      BY <1>t, <2>1, <2>2 DEF LockInv, ReloadTypeOK, LockHeldByOne
  <1>2. ASSUME NEW u \in Users, Start(u) PROVE LockInv'
    <2>1. ReloadTypeOK'
      BY <1>2, <1>t, <1>u, <1>l DEF Start, ReloadTypeOK, fileVars, LockedPcs
    <2>2. LockHeldByOne'
      BY <1>2, <1>u, LockTaken DEF Start, LockedPcs
    <2> QED
      BY <2>1, <2>2 DEF LockInv
  <1>3. ASSUME NEW t \in ReloadThreads, ReloadNow(t) PROVE LockInv'
    <2>1. ReloadTypeOK'
      BY <1>3, <1>t, <1>l DEF ReloadNow, ReloadTypeOK, fileVars, LockedPcs
    <2>2. LockHeldByOne'
      BY <1>3, LockTaken DEF ReloadNow, LockedPcs
    <2> QED
      BY <2>1, <2>2 DEF LockInv
  <1>4. ASSUME NEW t \in ReloadThreads, Stat(t) PROVE LockInv'
    <2>1. PICK p \in {"done", "read"} : reloadPc' = [reloadPc EXCEPT ![t] = p]
      BY <1>4 DEF Stat
    <2>2. ReloadTypeOK'
      BY <1>4, <1>t, <1>l, <2>1 DEF Stat, ReloadTypeOK, fileVars, LockedPcs
    <2>3. LockHeldByOne'
      BY <1>4, <2>1, LockKept DEF Stat, LockedPcs
    <2> QED
      BY <2>2, <2>3 DEF LockInv
  <1>5. ASSUME NEW t \in ReloadThreads, ReadFile(t) PROVE LockInv'
    <2>1. PICK p \in {"done", "notify"} : reloadPc' = [reloadPc EXCEPT ![t] = p]
      BY <1>5 DEF ReadFile
    <2>2. policy' \in Policies \cup {Nobody} /\ lastMtime' \in Nat /\ left' \in Nat
      BY <1>5, <1>t DEF ReadFile, MtimeLoaded
    <2>3. ReloadTypeOK'
      BY <1>5, <1>t, <1>l, <2>1, <2>2 DEF ReadFile, ReloadTypeOK, fileVars, LockedPcs
    <2>4. LockHeldByOne'
      BY <1>5, <2>1, LockKept DEF ReadFile, LockedPcs
    <2> QED
      BY <2>3, <2>4 DEF LockInv
  <1>6. ASSUME NEW t \in ReloadThreads, CallbackReturns(t) PROVE LockInv'
    <2>1. PICK p \in {"done", "notify"} : reloadPc' = [reloadPc EXCEPT ![t] = p]
      BY <1>6 DEF CallbackReturns
    <2>2. left' \in Nat
      BY <1>6, <1>t DEF CallbackReturns
    <2>3. ReloadTypeOK'
      BY <1>6, <1>t, <1>l, <2>1, <2>2 DEF CallbackReturns, ReloadTypeOK, fileVars, LockedPcs
    <2>4. LockHeldByOne'
      BY <1>6, <2>1, LockKept DEF CallbackReturns, LockedPcs
    <2> QED
      BY <2>3, <2>4 DEF LockInv
  <1>7. ASSUME NEW t \in ReloadThreads, CallbackRaises(t) PROVE LockInv'
    <2>1. PICK p \in {"idle", "dead"} : reloadPc' = [reloadPc EXCEPT ![t] = p]
      BY <1>7 DEF CallbackRaises
    <2>2. ReloadTypeOK'
      BY <1>7, <1>t, <1>l, <2>1 DEF CallbackRaises, OwnerAfterRaise, ReloadTypeOK, fileVars
    <2>3. LockHeldByOne'
      BY <1>7, <1>t, <1>l, <2>1, <2>2, LockLeft
      DEF CallbackRaises, OwnerAfterRaise, LockedPcs, ReloadTypeOK
    <2> QED
      BY <2>2, <2>3 DEF LockInv
  <1>8. ASSUME NEW t \in ReloadThreads, CallbackReenters(t) PROVE LockInv'
    <2>1. ReloadTypeOK'
      BY <1>8, <1>t, <1>l DEF CallbackReenters, ReloadTypeOK, fileVars, LockedPcs
    <2>2. LockHeldByOne'
      BY <1>8, LockKept DEF CallbackReenters, LockedPcs
    <2> QED
      BY <2>1, <2>2 DEF LockInv
  <1>9. ASSUME NEW t \in ReloadThreads, EndReload(t) PROVE LockInv'
    <2>1. reloadPc[t] = "done" /\ lockOwner' = Nobody
      BY <1>9 DEF EndReload
    <2>2. CASE ~starting
      <3>1. PICK p \in {"idle", "check"} : reloadPc' = [reloadPc EXCEPT ![t] = p]
        BY <1>9, <2>2 DEF EndReload
      <3>2. ReloadTypeOK'
        BY <1>9, <1>t, <1>l, <2>2, <3>1 DEF EndReload, ReloadTypeOK, fileVars
      <3>3. LockHeldByOne'
        BY <1>t, <1>l, <2>1, <3>1, <3>2, LockLeft DEF LockedPcs, ReloadTypeOK
      <3> QED
        BY <3>2, <3>3 DEF LockInv
    <2>3. CASE starting
      <3>1. PICK w \in Watchers :
              /\ reloadPc[w] = "unborn" /\ watcher' = w
              /\ reloadPc' = [reloadPc EXCEPT ![t] = "idle", ![w] = "check"]
        BY <1>9, <2>3 DEF EndReload
      <3>2. ReloadTypeOK'
        BY <1>9, <1>t, <1>u, <1>l, <3>1 DEF EndReload, ReloadTypeOK, fileVars
      <3>3. /\ t # w
            /\ \A s \in ReloadThreads : reloadPc'[s] =
                 IF s = t THEN "idle" ELSE IF s = w THEN "check" ELSE reloadPc[s]
        BY <1>t, <1>u, <2>1, <3>1
      <3>4. LockHeldByOne'
        BY <1>l, <2>1, <3>2, <3>3, LockLeft DEF LockedPcs, ReloadTypeOK
      <3> QED
        BY <3>2, <3>4 DEF LockInv
    <2> QED
      BY <1>t, <2>2, <2>3
  <1>10. ASSUME NEW u \in Users, Stop(u) PROVE LockInv'
    <2>1. CASE watcher \in Alive
      <3>1. ReloadTypeOK'
        BY <1>10, <1>t, <1>u, <1>l, <2>1 DEF Stop, ReloadTypeOK, fileVars
      <3>2. LockHeldByOne'
        BY <1>10, <1>u, <1>l, <2>1, LockOutside DEF Stop, LockedPcs
      <3> QED
        BY <3>1, <3>2 DEF LockInv
    <2>2. CASE watcher \notin Alive
      BY <1>10, <1>t, <2>2 DEF Stop, LockInv, ReloadTypeOK, LockHeldByOne, fileVars
    <2> QED
      BY <2>1, <2>2
  <1>11. ASSUME NEW u \in Users, JoinReturns(u) \/ JoinTimesOut(u) PROVE LockInv'
    <2>0. joining[u] \in Watchers \cup {Nobody}
      BY <1>t
    <2>1. timedOut' \subseteq Watchers
      BY <1>11, <1>t, <2>0 DEF JoinReturns, JoinTimesOut, Alive
    <2>2. /\ reloadPc[u] = "join" /\ reloadPc' = [reloadPc EXCEPT ![u] = "idle"]
          /\ joining' = [joining EXCEPT ![u] = Nobody]
          /\ UNCHANGED <<fileVars, policy, lastMtime, running, watcher, callbacks,
                         lockOwner, seen, left, starting>>
      BY <1>11 DEF JoinReturns, JoinTimesOut
    <2>3. ReloadTypeOK'
      BY <1>t, <1>l, <2>1, <2>2 DEF ReloadTypeOK, fileVars
    <2>4. LockHeldByOne'
      BY <1>u, <1>l, <2>2, LockOutside DEF LockedPcs
    <2> QED
      BY <2>3, <2>4 DEF LockInv
  <1>12. ASSUME NEW u \in Users, OnReload(u) PROVE LockInv'
    BY <1>12, <1>t DEF OnReload, LockInv, ReloadTypeOK, LockHeldByOne, fileVars
  <1>13. ASSUME NEW w \in Watchers, CheckRunning(w) \/ Wake(w) PROVE LockInv'
    <2>1. PICK p \in {"dead", "sleep", "reload", "recheck"} :
            reloadPc' = [reloadPc EXCEPT ![w] = p]
      BY <1>13 DEF CheckRunning, Wake
    <2>2. /\ reloadPc[w] \in {"check", "recheck", "sleep"}
          /\ UNCHANGED <<fileVars, policy, lastMtime, running, watcher, callbacks,
                         lockOwner, joining, seen, left, starting, timedOut>>
      BY <1>13 DEF CheckRunning, Wake
    <2>3. ReloadTypeOK'
      BY <1>t, <1>l, <2>1, <2>2 DEF ReloadTypeOK, fileVars
    <2>4. LockHeldByOne'
      BY <1>u, <1>l, <2>1, <2>2, LockOutside DEF LockedPcs
    <2> QED
      BY <2>3, <2>4 DEF LockInv
  <1>14. CASE UNCHANGED reloadVars
    BY <1>14 DEF reloadVars, LockInv, ReloadTypeOK, LockHeldByOne
  <1> QED
    BY <1>1, <1>2, <1>3, <1>4, <1>5, <1>6, <1>7, <1>8, <1>9, <1>10, <1>11, <1>12,
       <1>13, <1>14, <1>u
    DEF ReloadNext, InLock, Watch

(* Every reachable state of the reloader is well typed.                      *)
THEOREM ReloadTypeCorrect == ReloadSpec => []ReloadTypeOK
  <1>1. LockInv => ReloadTypeOK
    BY DEF LockInv
  <1> QED
    BY LockStart, LockStep, <1>1, PTL DEF ReloadSpec

(* One thread at a time is between the question for the mtime and the last   *)
(* callback, and it is the owner of the lock, whatever callbacks raise and   *)
(* whoever starts, stops or reloads meanwhile; a callback that asks for the  *)
(* lock again keeps it.  (with self._lock in start, reload_now and           *)
(* _watch_loop.)                                                             *)
THEOREM ReloadsExclude == ReloadSpec => []LockHeldByOne
  <1>1. LockInv => LockHeldByOne
    BY DEF LockInv
  <1> QED
    BY LockStart, LockStep, <1>1, PTL DEF ReloadSpec

=============================================================================
