------------------------------ MODULE EventLog ------------------------------
(***************************************************************************)
(* core/events.py and core/event_store.py: threads emit into the log under *)
(* its lock and, outside it, into a JSON-lines file under the store's; the *)
(* process may die in the middle of a line and start again on the file.    *)
(* The sessions of an agent have a log each and share the file.            *)
(*                                                                         *)
(* An event is its number in the order of the logs.  The file is the       *)
(* sequence of what was written: a piece of an event, the whole of it or   *)
(* not, with the newline or without.                                       *)
(***************************************************************************)
EXTENDS Naturals, Sequences, FiniteSets

CONSTANTS
  Emitters,    \* threads
  EventBound,  \* bound: events emitted
  TornBound    \* bound: writes cut short

ASSUME EventAssumption == EventBound \in Nat /\ TornBound \in Nat

VARIABLES
  emitPc,      \* emitPc[t]: "idle", at the "store" or at the "sinks"
  emitting,    \* emitting[t]: the event t has logged, 0 when idle
  logged,      \* number of events logged so far, by any process
  events,      \* _events of the process that runs
  told,        \* told[t]: t's copy of _sinks has a sink
  sinks,       \* _sinks has a sink
  errorCount,  \* _sink_error_count
  file,        \* the file
  returned,    \* observed: events whose emit has returned
  earlier,     \* observed: earlier[e] is returned as it was when e was logged
  torn         \* observed: number of writes cut short

eventVars == <<emitPc, emitting, logged, events, told, sinks, errorCount, file,
               returned, earlier, torn>>

Pieces == [event : 1 .. EventBound, whole : BOOLEAN, newline : BOOLEAN]

-----------------------------------------------------------------------------
(* emit, in its lock.                                                        *)
LogEvent(t) ==
  /\ emitPc[t] = "idle"
  /\ logged < EventBound
  /\ logged' = logged + 1
  /\ emitting' = [emitting EXCEPT ![t] = logged + 1]
  /\ events' = events \cup {logged + 1}
  /\ told' = [told EXCEPT ![t] = sinks]
  /\ earlier' = [earlier EXCEPT ![logged + 1] = returned]
  /\ emitPc' = [emitPc EXCEPT ![t] = "store"]
  /\ UNCHANGED <<sinks, errorCount, file, returned, torn>>

(* Mutant: the newest event is written first.                                *)
WrittenFirst(piece) == <<piece>> \o file

(* What the file is after a write in mode "a".                               *)
Written(piece) == Append(file, piece)

(* JsonEventStore.append, in its lock.                                       *)
StoreEvent(t) ==
  /\ emitPc[t] = "store"
  /\ file' = Written([event |-> emitting[t], whole |-> TRUE, newline |-> TRUE])
  /\ emitPc' = [emitPc EXCEPT ![t] = "sinks"]
  /\ UNCHANGED <<emitting, logged, events, told, sinks, errorCount, returned, earlier, torn>>

(* Mutant: a failure of the store is swallowed.                              *)
CountSwallowed == errorCount

CountFailure == errorCount + 1

(* append raises: the event is not serialisable or the file does not open.   *)
StoreRaises(t) ==
  /\ emitPc[t] = "store"
  /\ errorCount' = CountFailure
  /\ emitPc' = [emitPc EXCEPT ![t] = "sinks"]
  /\ UNCHANGED <<emitting, logged, events, told, sinks, file, returned, earlier, torn>>

(* What is left of a write cut short: a part of the event, or all but the    *)
(* newline.                                                                  *)
TornPiece(t, all) == [event |-> emitting[t], whole |-> all, newline |-> FALSE]

(* append raises within the write: the disk is full.                         *)
StoreTears(t) ==
  /\ emitPc[t] = "store"
  /\ torn < TornBound
  /\ \E all \in BOOLEAN : file' = Written(TornPiece(t, all))
  /\ torn' = torn + 1
  /\ errorCount' = CountFailure
  /\ emitPc' = [emitPc EXCEPT ![t] = "sinks"]
  /\ UNCHANGED <<emitting, logged, events, told, sinks, returned, earlier>>

(* The sinks are called and emit returns.                                    *)
CallSinks(t) ==
  /\ emitPc[t] = "sinks"
  /\ \/ UNCHANGED errorCount
     \/ told[t] /\ errorCount' = CountFailure
  /\ returned' = returned \cup {emitting[t]}
  /\ emitPc' = [emitPc EXCEPT ![t] = "idle"]
  /\ emitting' = [emitting EXCEPT ![t] = 0]
  /\ told' = [told EXCEPT ![t] = FALSE]
  /\ UNCHANGED <<logged, events, sinks, file, earlier, torn>>

Subscribe ==
  /\ ~sinks
  /\ sinks' = TRUE
  /\ UNCHANGED <<emitPc, emitting, logged, events, told, errorCount, file,
                 returned, earlier, torn>>

ClearEvents ==
  /\ events' = {}
  /\ UNCHANGED <<emitPc, emitting, logged, told, sinks, errorCount, file,
                 returned, earlier, torn>>

(* The process dies, maybe within a write, and another one starts.           *)
CrashEmitters ==
  /\ \/ UNCHANGED <<file, torn>>
     \/ /\ torn < TornBound
        /\ \E t \in Emitters, all \in BOOLEAN :
             emitPc[t] = "store" /\ file' = Written(TornPiece(t, all))
        /\ torn' = torn + 1
  /\ emitPc' = [t \in Emitters |-> "idle"]
  /\ events' = {}
  /\ sinks' = FALSE
  /\ errorCount' = 0
  /\ emitting' = [t \in Emitters |-> 0]
  /\ told' = [t \in Emitters |-> FALSE]
  /\ UNCHANGED <<logged, returned, earlier>>

EventInit ==
  /\ emitPc = [t \in Emitters |-> "idle"]
  /\ emitting = [t \in Emitters |-> 0]
  /\ logged = 0
  /\ events = {}
  /\ told = [t \in Emitters |-> FALSE]
  /\ sinks = FALSE
  /\ errorCount = 0
  /\ file = <<>>
  /\ returned = {}
  /\ earlier = [e \in 1 .. EventBound |-> {}]
  /\ torn = 0

EventNext ==
  \/ \E t \in Emitters : LogEvent(t) \/ StoreEvent(t) \/ StoreRaises(t)
                         \/ StoreTears(t) \/ CallSinks(t)
  \/ Subscribe \/ ClearEvents \/ CrashEmitters

EventSpec == EventInit /\ [][EventNext]_eventVars

-----------------------------------------------------------------------------
EventTypeOK ==
  /\ emitPc \in [Emitters -> {"idle", "store", "sinks"}]
  /\ emitting \in [Emitters -> 0 .. EventBound]
  /\ logged \in 0 .. EventBound
  /\ events \subseteq 1 .. EventBound
  /\ told \in [Emitters -> BOOLEAN]
  /\ sinks \in BOOLEAN
  /\ errorCount \in Nat
  /\ file \in Seq(Pieces)
  /\ returned \subseteq 1 .. EventBound
  /\ earlier \in [1 .. EventBound -> SUBSET (1 .. EventBound)]
  /\ torn \in Nat

(* json.loads takes the line a piece stands on: the whole of one event and  *)
(* nothing else.                                                             *)
Parses(i) ==
  /\ file[i].whole
  /\ i = 1 \/ file[i - 1].newline
  /\ i = Len(file) \/ file[i].newline

(* get_all returns; one line that does not parse, and it raises instead.     *)
Readable == \A i \in DOMAIN file : Parses(i)

(* The events that get_all returns.                                          *)
Stored == {file[i].event : i \in DOMAIN file}

(* No loss is silent.  Events of the log whose emit returned and that        *)
(* get_all does not return are as many as errors were counted at most, or    *)
(* get_all raises, which only a write cut short can make it do, by this      *)
(* process or by one that died.  (emit, append, get_all.)                    *)
LossVisible ==
  IF Readable THEN Cardinality((events \cap returned) \ Stored) <= errorCount
  ELSE torn > 0

(* The file keeps the order of emits that did not overlap, although it is    *)
(* written outside the lock that orders the log.  (emit, events.py:74-85.)   *)
FileOrder ==
  \A i, j \in DOMAIN file : i < j => file[j].event \notin earlier[file[i].event]
=============================================================================
