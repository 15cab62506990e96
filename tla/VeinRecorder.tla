----------------------------- MODULE VeinRecorder -----------------------------
(***************************************************************************)
(* StorageRecorder and StorageRecorderInterpolation on the storage of      *)
(* VeinStorage.  The recorder gets the objects of its trigger and of the   *)
(* recorded components when it is constructed, whether vein knows the      *)
(* components by then or not, and keeps them: it records what these        *)
(* objects hold whenever the trigger object changes to the trigger value.  *)
(* Others hold objects of the storage too, and write them directly.  The   *)
(* interpolation averages the records of the recorder, told only their     *)
(* number.                                                                 *)
(***************************************************************************)
EXTENDS VeinStorage, Sequences, SequencesExt

CONSTANTS
  Writers,     \* the consumers that are not pointers of the recorder
  Trigger,     \* the pointer to the trigger; the others are to what is recorded
  TriggerVal,  \* m_triggerVal
  Factor,      \* m_factor of the interpolation
  MaxRecords,  \* bound: records the recorder holds at once
  MaxTime      \* bound: ticks of the clock

Pointers == Consumers \ Writers

ASSUME RecorderAssumption ==
  /\ Writers \subseteq Consumers /\ Trigger \in Pointers
  /\ TriggerVal \in Values /\ Values \subseteq Nat
  /\ Factor \in Nat \ {0} /\ MaxRecords \in Nat /\ MaxTime \in Nat

VARIABLES
  logging,   \* onTrigger is connected
  first,     \* m_timeOfFirstRecord, meaningful if there is a record
  records,   \* m_recordedData: time since the first record and values
  attached,  \* the interpolation exists
  count,     \* its m_count
  averages,  \* its records: the records averaged and the average of their times
  now,       \* TimerFactoryQt::getCurrentTime
  removed    \* history: keys removed since the recorder was constructed

recVars == <<logging, first, records>>
avgVars == <<attached, count, averages>>
allVars == <<vars, recVars, avgVars, now, removed>>

Recorded == Pointers \ {Trigger}

\* A storage without a recorder.
RecorderInit ==
  /\ Init
  /\ logging = FALSE /\ first = 0 /\ records = <<>>
  /\ attached = FALSE /\ count = 0 /\ averages = <<>>
  /\ now = 0 /\ removed = {}

-----------------------------------------------------------------------------
(* StorageRecorderInterpolation                                            *)

\* The sums of the first numbers of an int list.
addedVals(times) ==
  LET added[i \in 0..Len(times)] == IF i = 0 THEN 0 ELSE added[i - 1] + times[i] IN added

\* The average of an int list, which is divided by the factor and not by the
\* length of the list.
calculateTimeDiffAverage(times) == addedVals(times)[Len(times)] \div Factor

\* The window [from, to) of records, whose values are averaged one by one.
calculateJsonAverage(recs, from, to) ==
  [from |-> from, to |-> to,
   time |-> calculateTimeDiffAverage([i \in 1..to - from |-> recs[from + i].time])]

\* Fault: the next window starts with the record the last one ended with.
onNewValueRecordedOverlaps(recs) ==
  LET n == Len(recs) IN
  IF ~attached THEN UNCHANGED <<count, averages>>
  ELSE IF n = 0 THEN count' = 0 /\ averages' = <<>>
  ELSE IF n % Factor = 0 /\ n > count
    THEN /\ averages' = Append(averages, calculateJsonAverage(recs, count, n))
         /\ count' = n - 1
  ELSE UNCHANGED <<count, averages>>

\* sigRecordCountChanged of the recorder with its records by now.
onNewValueRecorded(recs) ==
  LET n == Len(recs) IN
  IF ~attached THEN UNCHANGED <<count, averages>>
  ELSE IF n = 0 THEN count' = 0 /\ averages' = <<>>
  ELSE IF n % Factor = 0 /\ n > count
    THEN /\ averages' = Append(averages, calculateJsonAverage(recs, count, n))
         /\ count' = n
  ELSE UNCHANGED <<count, averages>>

-----------------------------------------------------------------------------
(* StorageRecorder                                                         *)

Constructed == \A h \in Pointers : held[h] # Null
Constructing == ~Constructed /\ \E h \in Pointers : held[h] # Null

\* The constructor takes one component after the other, stored or future;
\* nothing else runs meanwhile.
setupVeinLoggedComponents(h) ==
  /\ held[h] = Null
  /\ getFutureComponent(h)
  /\ UNCHANGED <<recVars, avgVars, now, removed>>

\* QVariant::toFloat
ToFloat(v) == IF v = Invalid THEN 0 ELSE v

\* The values of the held objects at the time of the signal.
createRecordEntry(start) ==
  [time |-> now - start, values |-> [h \in Recorded |-> ToFloat(value'[held[h]])]]

\* Part of every step of the storage: sigValueChange of the trigger object.
onTrigger ==
  LET v == value'[held[Trigger]]
      start == IF records = <<>> THEN now ELSE first
  IN /\ IF logging /\ v # value[held[Trigger]] /\ v = TriggerVal
          THEN /\ Len(records) < MaxRecords
               /\ first' = start
               /\ records' = Append(records, createRecordEntry(start))
               /\ onNewValueRecorded(records')
          ELSE UNCHANGED <<first, records, count, averages>>
     /\ UNCHANGED <<logging, attached, now>>

\* The records of an earlier recording are dropped.
startLogging ==
  /\ Constructed
  /\ logging' = TRUE
  /\ records' = <<>> /\ first' = 0
  /\ IF records = <<>> THEN UNCHANGED <<count, averages>> ELSE onNewValueRecorded(<<>>)
  /\ UNCHANGED <<vars, attached, now, removed>>

stopLogging ==
  /\ logging
  /\ logging' = FALSE
  /\ UNCHANGED <<vars, first, records, avgVars, now, removed>>

\* An interpolation may join a recording that is under way.
StorageRecorderInterpolation ==
  /\ Constructed /\ ~attached
  /\ attached' = TRUE
  /\ UNCHANGED <<vars, recVars, count, averages, now, removed>>

Tick ==
  /\ now < MaxTime /\ ~Constructing
  /\ now' = now + 1
  /\ UNCHANGED <<vars, recVars, avgVars, removed>>

-----------------------------------------------------------------------------
\* The commands of vein, and what others do with the objects they hold.
StorageStep ==
  /\ ~Constructing
  /\ \/ \E e \in Entities, o \in Origins : EntityAdd(e, o)
     \/ \E e \in Entities, o \in Origins : EntityRemove(e, o)
     \/ \E k \in Keys, v \in Val : ComponentAdd(k, v)
     \/ \E k \in Keys : ComponentRemove(k)
     \/ \E k \in Keys, v \in Val : ComponentSet(k, v)
     \/ \E w \in Writers : getFutureComponent(w)
     \/ \E w \in Writers : findComponent(w)
     \/ \E w \in Writers, v \in Val : DirectWrite(w, v)
     \/ \E w \in Writers : Release(w)
  /\ onTrigger
  /\ removed' = removed \cup {k \in Keys : Constructed /\ db[k] # Null /\ db'[k] = Null}

RecorderNext ==
  \/ \E h \in Pointers : setupVeinLoggedComponents(h)
  \/ StorageStep
  \/ startLogging
  \/ stopLogging
  \/ StorageRecorderInterpolation
  \/ Tick

RecorderSpec == RecorderInit /\ [][RecorderNext]_allVars

-----------------------------------------------------------------------------
(* Properties                                                              *)

\* The value of a component: of the stored one, or else of the future one.
Current(k) == ValueAt(IF db[k] # Null THEN db[k] ELSE future[k])

\* The trigger component has just changed to the trigger value.
Triggers ==
  Current(Watches[Trigger])' = TriggerVal /\ Current(Watches[Trigger]) # TriggerVal

\* The recorder follows the components by their keys and not just its own
\* pointers: while it logs, every change of the trigger component to the
\* trigger value, by SET, ADD or a direct write, adds one record with the
\* values all components have then, and nothing else adds one.  Components may
\* have existed before the recorder or have been added since; only those that
\* were removed since are lost to it.
RecordsVein ==
  [][Watches[Trigger] \notin removed =>
       /\ Len(records') > Len(records) => logging /\ Triggers
       /\ logging /\ Triggers =>
            /\ Len(records') = Len(records) + 1
            /\ \A h \in Recorded :
                 Watches[h] \notin removed =>
                   Last(records').values[h] = ToFloat(Current(Watches[h])')]_allVars

\* Averages split the records: windows follow each other from the first record
\* on, each but the first has Factor records, and none is missing.
WindowsFollow ==
  /\ count = (IF averages = <<>> THEN 0 ELSE Last(averages).to)
  /\ count <= Len(records)
  /\ averages # <<>> => Len(records) - count < Factor
  /\ \A i \in DOMAIN averages :
       LET w == averages[i] IN
       /\ w.from = (IF i = 1 THEN 0 ELSE averages[i - 1].to)
       /\ i > 1 => w.to - w.from = Factor

\* The interpolation tells windows by the number of records alone and divides
\* times by its factor: still the windows follow each other without gap or
\* overlap, and an average over Factor records has a time within its window.
AveragesSplitRecords ==
  /\ WindowsFollow
  /\ \A i \in DOMAIN averages :
       LET w == averages[i] IN
       w.to - w.from = Factor => w.time \in records[w.from + 1].time..records[w.to].time
=============================================================================
