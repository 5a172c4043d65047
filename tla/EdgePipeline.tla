---------------------------- MODULE EdgePipeline ----------------------------
(***************************************************************************)
(* What happens to a reading before it is in the edge buffer:              *)
(* EdgeGateway.ingest of reamp/edge/gateway.py over ValidationEngine and   *)
(* AggregationEngine of reamp/edge/pipeline.py.  The buffer itself is the  *)
(* subject of EdgeBuffer; here it is the rows SQLiteEdgeBuffer.insert took.*)
(*                                                                         *)
(* ingest runs to its end before the next call, so each of its outcomes is *)
(* one action.  What makes it hard is the state it leaves between readings:*)
(* one window per sensor, one burst mode for all of them, and a clock that *)
(* has moved by the time the next reading comes.  A reading is known by    *)
(* its number in order of ingestion.                                       *)
(*                                                                         *)
(* A sensor stands for a tenant, a sensor id and a metric: what the        *)
(* history of the flatline check is kept by.  A feed is an asset's reading *)
(* of one: what a window is kept by.  No sensor id is used by two tenants  *)
(* or for two metrics, so a configuration, kept by the id, is a sensor's.  *)
(***************************************************************************)
EXTENDS Integers, Sequences, FiniteSets

CONSTANTS
  Assets, Sensors,
  Values,          (* finite values of a reading                            *)
  NaN,             (* the value every comparison with is false              *)
  Configs,         (* [min, max, critical] a SensorConfig may carry         *)
  NoConfig,
  FlatlineCount,   (* identical readings that make a flatline; 4            *)
  Window,          (* window_sec                                            *)
  Cooldown,        (* burst_cooldown_sec                                    *)
  MaxReadings,     (* bound: readings ever ingested                         *)
  MaxTime          (* bound: ticks of the clock                             *)

ASSUME PipelineAssumption ==
  /\ Values \subseteq Int /\ NaN \notin Int
  /\ Configs \subseteq [min : Int, max : Int, critical : Int]
  /\ NoConfig \notin Configs
  /\ FlatlineCount \in Nat \ {0, 1}
  /\ Window \in Nat \ {0} /\ Cooldown \in Nat
  /\ MaxReadings \in Nat /\ MaxTime \in Nat

Never == -1        \* a time not set yet, None in the code

Feeds     == [asset : Assets, sensor : Sensors]
Times     == 0..MaxTime
Qualities == {"VALID", "STALE", "INVALID"}

VARIABLES
  now,         (* the wall clock                                            *)
  config,      (* ValidationEngine.sensor_configs                           *)
  streak,      (* ValidationEngine.history as what is asked of it: the last *)
               (* value and how often in a row, up to FlatlineCount         *)
  window,      (* AggregationEngine.windows: numbers of the readings held   *)
  opened,      (* AggregationEngine.window_start_times                      *)
  burst,       (* burst_activated_at, Never unless burst_mode_active        *)
  booted,      (* history variable: readings before the process started     *)
  read,        (* history variable: the readings, in order                  *)
  raw,         (* history variable: numbers of the readings stored as such  *)
  averages     (* history variable: the aggregates handed to the buffer     *)

screen  == <<config, streak>>
windows == <<window, opened>>
vars    == <<now, screen, windows, burst, booted, read, raw, averages>>

Reading == [feed : Feeds, value : Values \cup {NaN}, quality : Qualities,
            alarm : BOOLEAN, at : Times]
Numbers == 1..MaxReadings
Average == [over : SUBSET Numbers,     (* the readings its window held      *)
            valued : SUBSET Numbers,   (* those it is the average of        *)
            last : Numbers,            (* the one that closed the window    *)
            stored : BOOLEAN]          (* insert took the row               *)

Process ==      \* what a new EdgeGateway starts with
  [config |-> [s \in Sensors |-> NoConfig],
   streak |-> [s \in Sensors |-> [value |-> 0, len |-> 0]],
   window |-> [f \in Feeds |-> {}],
   opened |-> [f \in Feeds |-> Never]]

Init ==
  /\ now = 0
  /\ config = Process.config /\ streak = Process.streak
  /\ window = Process.window /\ opened = Process.opened
  /\ burst = Never
  /\ booted = 0 /\ read = <<>>
  /\ raw = {} /\ averages = {}

-----------------------------------------------------------------------------
(* ValidationEngine.validate.  "dated": the timestamp parses and is not     *)
(* more than 5 seconds ahead.                                               *)

OutOfRange(s, v) ==
  /\ config[s] # NoConfig /\ v # NaN
  /\ v < config[s].min \/ v > config[s].max

Rejected(s, v, dated) == ~ dated \/ OutOfRange(s, v)

Critical(s, v) == config[s] # NoConfig /\ v # NaN /\ v >= config[s].critical

(* Mutant of Lengthened: the history is never cut.                          *)
LengthenedForEver(s, v) ==
  IF streak[s].len > 0 /\ streak[s].value = v /\ v # NaN
  THEN [streak[s] EXCEPT !.len = @ + 1]
  ELSE [value |-> v, len |-> 1]

Lengthened(s, v) ==
  IF streak[s].len > 0 /\ streak[s].value = v /\ v # NaN
  THEN [streak[s] EXCEPT !.len = IF @ < FlatlineCount THEN @ + 1 ELSE @]
  ELSE [value |-> v, len |-> 1]

(* Mutant of Flat: a sensor that rests at 0 is frozen too.                  *)
FlatAtZero(s, v) == Lengthened(s, v).len >= FlatlineCount

Flat(s, v) == Lengthened(s, v).len >= FlatlineCount /\ v # 0

(* The reading as validate leaves it, and the readings with it.             *)
Judged(f, v, dated) ==
  [feed    |-> f, value |-> v, at |-> now,
   quality |-> IF Rejected(f.sensor, v, dated) THEN "INVALID"
               ELSE IF Flat(f.sensor, v) THEN "STALE" ELSE "VALID",
   alarm   |-> ~ Rejected(f.sensor, v, dated) /\ Critical(f.sensor, v)]

Validate(f, v, dated) ==
  /\ Len(read) < MaxReadings
  /\ read'   = Append(read, Judged(f, v, dated))
  /\ streak' = IF Rejected(f.sensor, v, dated) THEN streak
               ELSE [streak EXCEPT ![f.sensor] = Lengthened(f.sensor, v)]
  /\ UNCHANGED <<now, config, booted>>

This == Len(read) + 1

-----------------------------------------------------------------------------
(* AggregationEngine.process_observation, and the insertion of what it      *)
(* emits.  The table refuses a NaN (it is stored as NULL): insert raises    *)
(* and ingest with it, when everything else has already changed.            *)

(* Mutant of BurstNow: an alarm during a burst does not extend it.          *)
BurstOnce(alarm) ==
  IF burst # Never THEN IF now - burst > Cooldown THEN Never ELSE burst
  ELSE IF alarm THEN now ELSE Never

(* Burst mode as it is when the reading is processed: an alarm starts it    *)
(* anew, and it is over when the cooldown has passed.                       *)
BurstNow(alarm) ==
  IF alarm THEN now
  ELSE IF burst # Never /\ now - burst > Cooldown THEN Never ELSE burst

Opening(f) == IF opened[f] = Never THEN now ELSE opened[f]
Elapsed(f) == now - Opening(f) >= Window

(* Mutant of InBurst: the reading that raises the alarm is processed before *)
(* burst mode starts.                                                       *)
InBurstBefore(f, v, dated) == BurstNow(FALSE) # Never

InBurst(f, v, dated) == BurstNow(Judged(f, v, dated).alarm) # Never

StoreRaw(v) == raw' = IF v = NaN THEN raw ELSE raw \cup {This}

(* Burst mode: the reading itself is emitted; windows stay as they are.     *)
IngestInBurst(f, v, dated) ==
  /\ Validate(f, v, dated)
  /\ InBurst(f, v, dated)
  /\ burst' = BurstNow(Judged(f, v, dated).alarm)
  /\ StoreRaw(v)
  /\ UNCHANGED <<windows, averages>>

(* The window stays open: the reading waits in it, and is stored "as        *)
(* insurance".                                                              *)
IngestIntoWindow(f, v, dated) ==
  /\ Validate(f, v, dated)
  /\ ~ InBurst(f, v, dated) /\ ~ Elapsed(f)
  /\ burst'  = Never
  /\ window' = [window EXCEPT ![f] = @ \cup {This}]
  /\ opened' = [opened EXCEPT ![f] = Opening(f)]
  /\ StoreRaw(v)
  /\ UNCHANGED averages

(* Mutant of Averaged: the reading that closes the window is left out.      *)
AveragedWithoutLast(R) ==
  LET good == {n \in R \ {This} : read'[n].quality = "VALID"}
  IN  IF good # {} THEN good ELSE {This}

(* _compute_aggregate: the valid readings or, when there are none, the      *)
(* latest one whatever it is.                                               *)
Averaged(R) ==
  LET good == {n \in R : read'[n].quality = "VALID"}
  IN  IF good # {} THEN good ELSE {This}

Aggregate(R) ==
  [over |-> R, valued |-> Averaged(R), last |-> This,
   stored |-> \A n \in Averaged(R) : read'[n].value # NaN]

(* Mutant of Reopened: the start of the window is not moved on.             *)
NotReopened(f) == opened

Reopened(f) == [opened EXCEPT ![f] = now]

(* The window is over: its average is emitted instead of the reading.       *)
IngestClosingWindow(f, v, dated) ==
  /\ Validate(f, v, dated)
  /\ ~ InBurst(f, v, dated) /\ Elapsed(f)
  /\ burst'    = Never
  /\ averages' = averages \cup {Aggregate(window[f] \cup {This})}
  /\ window'   = [window EXCEPT ![f] = {}]
  /\ opened'   = Reopened(f)
  /\ UNCHANGED raw

-----------------------------------------------------------------------------

RegisterSensor(s, c) ==
  /\ config' = [config EXCEPT ![s] = c]
  /\ UNCHANGED <<now, streak, windows, burst, booted, read, raw, averages>>

Tick ==
  /\ now < MaxTime
  /\ now' = now + 1
  /\ UNCHANGED <<screen, windows, burst, booted, read, raw, averages>>

(* The process dies and a new gateway starts: what is not in the buffer is  *)
(* forgotten, open windows and burst mode included.                         *)
Restart ==
  /\ config' = Process.config /\ streak' = Process.streak
  /\ window' = Process.window /\ opened' = Process.opened
  /\ burst'  = Never
  /\ booted' = Len(read)
  /\ UNCHANGED <<now, read, raw, averages>>

Next ==
  \/ \E f \in Feeds, v \in Values \cup {NaN}, dated \in BOOLEAN :
       \/ IngestInBurst(f, v, dated)
       \/ IngestIntoWindow(f, v, dated)
       \/ IngestClosingWindow(f, v, dated)
  \/ \E s \in Sensors, c \in Configs : RegisterSensor(s, c)
  \/ Tick
  \/ Restart

Spec == Init /\ [][Next]_vars

-----------------------------------------------------------------------------

TypeOK ==
  /\ now \in Times
  /\ config \in [Sensors -> Configs \cup {NoConfig}]
  /\ streak \in [Sensors -> [value : Values \cup {NaN, 0}, len : 0..FlatlineCount]]
  /\ window \in [Feeds -> SUBSET Numbers]
  /\ opened \in [Feeds -> Times \cup {Never}]
  /\ burst \in Times \cup {Never}
  /\ booted \in 0..Len(read) /\ Len(read) <= MaxReadings
  /\ read \in Seq(Reading)
  /\ raw \subseteq DOMAIN read
  /\ averages \subseteq Average

Current == booted + 1 .. Len(read)       \* readings this process has seen

(* The alarm that started a burst, and every reading of any sensor for the  *)
(* whole of burst_cooldown_sec after it, is stored as it was read: an       *)
(* average never smooths over an incident.  Alarms of one sensor and        *)
(* readings of another share the one mode, and each alarm extends it.       *)
BurstCoversCooldown ==
  \A m, n \in Current :
    m <= n /\ read[m].alarm /\ read[n].at - read[m].at <= Cooldown
      => read[n].value = NaN \/ n \in raw

(* Every reading judged valid leaves the gateway, as it is or in an average,*)
(* also when the process died while it waited in a window: that is what     *)
(* storing it "as insurance" is for.  What may be lost is a reading the     *)
(* table cannot hold and one that closes a window with such a reading in it.*)
ValidKept ==
  \A n \in DOMAIN read :
    read[n].quality = "VALID" /\ read[n].value # NaN =>
      \/ n \in raw
      \/ \E a \in averages :
           n \in a.valued /\ (a.stored \/ \E m \in a.valued : read[m].value = NaN)

(* A reading is averaged at most once, with readings of its own feed only,  *)
(* none of which raised an alarm, and by the reading that ended the window. *)
AveragedOnce ==
  /\ \A a, b \in averages : a.over \cap b.over # {} => a = b
  /\ \A a \in averages, f \in Feeds : a.over \cap window[f] = {}
  /\ \A a \in averages : \A n \in a.over :
       read[n].feed = read[a.last].feed /\ n <= a.last /\ ~ read[n].alarm

(* The uplink is spared: two averages of one feed are at least a window     *)
(* apart, whatever bursts and registrations lie between them.               *)
RollupRate ==
  \A a, b \in averages :
    /\ a.last < b.last /\ {a.last, b.last} \subseteq Current
    /\ read[a.last].feed = read[b.last].feed
    => read[b.last].at - read[a.last].at >= Window

(* The readings of n's sensor, whichever asset they are attributed to, that *)
(* came to the flatline check, up to n.                                     *)
Screened(n) ==
  {m \in Current : m <= n /\ read[m].feed.sensor = read[n].feed.sensor /\ read[m].quality # "INVALID"}

LastFew(n) == {m \in Screened(n) : Cardinality({k \in Screened(n) : k > m}) < FlatlineCount}

(* A reading is called stale exactly when it is the last of FlatlineCount   *)
(* equal ones that are not 0: other sensors, rejected readings in between   *)
(* and windows closing do not confuse the count, while assets that share a  *)
(* sensor share it.                                                         *)
FlatlineExact ==
  \A n \in Current :
    read[n].quality = "STALE" <=>
      /\ n \in Screened(n) /\ Cardinality(LastFew(n)) = FlatlineCount
      /\ read[n].value \notin {0, NaN}
      /\ \A m \in LastFew(n) : read[m].value = read[n].value
=============================================================================
