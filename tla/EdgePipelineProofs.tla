-------------------------- MODULE EdgePipelineProofs --------------------------
(***************************************************************************)
(* What the gateway owes a reading between its arrival and the buffer, for *)
(* any sensors, values and configurations, any flatline count, window and  *)
(* cooldown, and however alarms, registrations and restarts fall between.  *)
(*                                                                         *)
(* The handlers keep two counters instead of what they stand for: the time *)
(* of the last alarm for all the alarms still cooling down, and the length *)
(* of a streak for the readings it was counted from.  Inv says what each   *)
(* of them knows about the readings.                                       *)
(***************************************************************************)
EXTENDS EdgePipeline, FiniteSetTheorems, TLAPS

(* Numbers refer to readings there are.                                     *)
Numbered ==
  /\ \A f \in Feeds : window[f] \subseteq DOMAIN read
  /\ \A a \in averages : a.over \subseteq DOMAIN read /\ a.valued \subseteq a.over
                         /\ a.last \in DOMAIN read

Dated == \A n \in DOMAIN read : read[n].at <= now

(* A recent alarm has left burst mode on, counted from it or from later.    *)
BurstArmed ==
  \A m \in Current :
    read[m].alarm /\ now - read[m].at <= Cooldown => burst # Never /\ burst >= read[m].at

(* A window holds readings of its sensor, and none that raised an alarm.    *)
WindowOwn ==
  \A f \in Feeds : \A n \in window[f] : read[n].feed = f /\ ~ read[n].alarm

(* A window starts no earlier than the reading that closed the one before.  *)
WindowFollows ==
  \A a \in averages :
    a.last \in Current =>
      LET f == read[a.last].feed IN opened[f] # Never /\ read[a.last].at <= opened[f]

(* The readings of a sensor that came to the flatline check.                *)
Own(s) == {m \in Current : read[m].feed.sensor = s /\ read[m].quality # "INVALID"}

After(S, j)  == {k \in S : k > j}
Latest(S, k) == {m \in S : Cardinality(After(S, m)) < k}

(* The last k of them are there and are all the value of the streak.        *)
RunOf(s, k) ==
  /\ Cardinality(Latest(Own(s), k)) = k
  /\ \A m \in Latest(Own(s), k) : read[m].value = streak[s].value
  /\ k >= 2 => streak[s].value # NaN

(* The streak is what counting the readings one by one would find.          *)
RunKnown ==
  \A s \in Sensors :
    /\ Own(s) # {} => streak[s].len >= 1
    /\ streak[s].len >= 1 => \E j \in Own(s) : /\ \A i \in Own(s) : i <= j
                                                /\ read[j].value = streak[s].value
    /\ \A k \in 1..FlatlineCount : streak[s].len >= k <=> RunOf(s, k)

Inv ==
  /\ TypeOK
  /\ Numbered /\ Dated /\ BurstArmed /\ WindowOwn /\ WindowFollows /\ RunKnown
  /\ BurstCoversCooldown /\ ValidKept /\ AveragedOnce /\ RollupRate /\ FlatlineExact

Reads(f, s) == f.sensor = s

Ingest(f, v, dated) ==
  \/ IngestInBurst(f, v, dated)
  \/ IngestIntoWindow(f, v, dated)
  \/ IngestClosingWindow(f, v, dated)

-----------------------------------------------------------------------------
(* Every way to ingest a reading.                                           *)

(* The new reading is the last, and those before it stay as they are.       *)
LEMMA ReadGrows ==
  ASSUME PipelineAssumption, TypeOK,
         NEW f \in Feeds, NEW v \in Values \cup {NaN}, NEW dated \in BOOLEAN,
         Validate(f, v, dated)
  PROVE  /\ This \in Numbers /\ This = Len(read) + 1 /\ Len(read) \in Nat
         /\ booted' = booted /\ booted \in 0..Len(read) /\ now' = now
         /\ Judged(f, v, dated) \in Reading
         /\ read' \in Seq(Reading) /\ Len(read') = This
         /\ DOMAIN read = 1..Len(read) /\ DOMAIN read' = 1..This
         /\ read'[This] = Judged(f, v, dated)
         /\ \A n \in DOMAIN read : read'[n] = read[n]
         /\ Current \subseteq DOMAIN read /\ Current' = Current \cup {This}
<1>1. Len(read) \in Nat /\ Len(read) < MaxReadings /\ MaxReadings \in Nat /\ read \in Seq(Reading)
  BY DEF TypeOK, Validate, PipelineAssumption
<1>2. Judged(f, v, dated) \in Reading
  <2>1. now \in Times
    BY DEF TypeOK
  <2> QED BY <2>1 DEF Judged, Reading, Qualities, Rejected, Critical
<1>3. read' = Append(read, Judged(f, v, dated)) /\ booted' = booted /\ now' = now
  BY DEF Validate
<1>4. booted \in 0..Len(read)
  BY DEF TypeOK
<1>5. DOMAIN read = 1..Len(read)
  BY <1>1
<1>6. /\ read' \in Seq(Reading) /\ Len(read') = Len(read) + 1 /\ DOMAIN read' = 1..Len(read) + 1
      /\ read'[Len(read) + 1] = Judged(f, v, dated)
      /\ \A n \in 1..Len(read) : read'[n] = read[n]
  <2> HIDE DEF Judged
  <2> QED BY <1>1, <1>2, <1>3
<1>7. Current \subseteq DOMAIN read /\ Current' = Current \cup {Len(read) + 1}
  BY <1>1, <1>3, <1>4, <1>5, <1>6 DEF Current
<1> QED BY <1>1, <1>2, <1>3, <1>4, <1>5, <1>6, <1>7 DEF This, Numbers

(* Types.                                                                   *)
LEMMA IngestType ==
  ASSUME PipelineAssumption, Inv,
         NEW f \in Feeds, NEW v \in Values \cup {NaN}, NEW dated \in BOOLEAN,
         Ingest(f, v, dated)
  PROVE  TypeOK'
<1>1. Validate(f, v, dated)
  BY DEF Ingest, IngestInBurst, IngestIntoWindow, IngestClosingWindow
<1>2. TypeOK
  BY DEF Inv
<1>3. /\ This \in Numbers /\ read' \in Seq(Reading) /\ Len(read') = This /\ Len(read) \in Nat
      /\ booted' = booted /\ booted \in 0..Len(read) /\ now' = now /\ now \in Times
      /\ This = Len(read) + 1 /\ DOMAIN read = 1..Len(read) /\ DOMAIN read' = 1..This
      /\ \A n \in DOMAIN read : read'[n] = read[n]
      /\ read'[This] = Judged(f, v, dated)
  BY <1>1, <1>2, ReadGrows DEF TypeOK
<1>4. config' \in [Sensors -> Configs \cup {NoConfig}]
  BY <1>1, <1>2 DEF Validate, TypeOK
<1>5. streak' \in [Sensors -> [value : Values \cup {NaN, 0}, len : 0..FlatlineCount]]
  <2> f.sensor \in Sensors
    BY DEF Feeds
  <2>1. streak[f.sensor] \in [value : Values \cup {NaN, 0}, len : 0..FlatlineCount]
    BY <1>2 DEF TypeOK
  <2>2. Lengthened(f.sensor, v) \in [value : Values \cup {NaN, 0}, len : 0..FlatlineCount]
    <3>1. FlatlineCount \in Nat /\ FlatlineCount >= 1
      BY DEF PipelineAssumption
    <3> QED BY <2>1, <3>1 DEF Lengthened
  <2>3. streak' = streak \/ streak' = [streak EXCEPT ![f.sensor] = Lengthened(f.sensor, v)]
    BY <1>1 DEF Validate
  <2> HIDE DEF Lengthened
  <2> QED BY <1>2, <2>2, <2>3 DEF TypeOK
<1>6. window' \in [Feeds -> SUBSET Numbers]
  <2>1. \/ window' = window
        \/ window' = [window EXCEPT ![f] = @ \cup {This}]
        \/ window' = [window EXCEPT ![f] = {}]
    BY DEF Ingest, IngestInBurst, IngestIntoWindow, IngestClosingWindow, windows
  <2>2. window \in [Feeds -> SUBSET Numbers] /\ window[f] \cup {This} \subseteq Numbers
    BY <1>2, <1>3 DEF TypeOK
  <2> QED BY <2>1, <2>2
<1>7. opened' \in [Feeds -> Times \cup {Never}]
  BY <1>2, <1>3 DEF Ingest, IngestInBurst, IngestIntoWindow, IngestClosingWindow, windows, TypeOK,
                    Reopened, Opening
<1>8. burst' \in Times \cup {Never}
  BY <1>2, <1>3 DEF Ingest, IngestInBurst, IngestIntoWindow, IngestClosingWindow, TypeOK, BurstNow
<1>9. raw' \subseteq DOMAIN read'
  <2>1. raw' \subseteq raw \cup {This}
    BY DEF Ingest, IngestInBurst, IngestIntoWindow, IngestClosingWindow, StoreRaw
  <2> QED BY <1>2, <1>3, <2>1 DEF TypeOK
<1>10. averages' \subseteq Average
  <2>1. CASE averages' = averages
    BY <1>2, <2>1 DEF TypeOK
  <2>2. CASE averages' = averages \cup {Aggregate(window[f] \cup {This})}
    <3>1. window[f] \cup {This} \subseteq Numbers
      BY <1>2, <1>3 DEF TypeOK
    <3>2. Averaged(window[f] \cup {This}) \subseteq Numbers
      BY <3>1 DEF Averaged
    <3>3. Aggregate(window[f] \cup {This}) \in Average
      <4> HIDE DEF Averaged, This
      <4> QED BY <1>3, <3>1, <3>2 DEF Aggregate, Average
    <3> QED BY <1>2, <2>2, <3>3 DEF TypeOK
  <2> QED BY <2>1, <2>2 DEF Ingest, IngestInBurst, IngestIntoWindow, IngestClosingWindow
<1>11. booted' \in 0..Len(read') /\ Len(read') <= MaxReadings /\ now' \in Times
  BY <1>3 DEF Numbers, PipelineAssumption
<1> QED BY <1>3, <1>4, <1>5, <1>6, <1>7, <1>8, <1>9, <1>10, <1>11 DEF TypeOK

(* What is kept of a reading.                                               *)
LEMMA ReadingFields ==
  ASSUME PipelineAssumption, TypeOK, NEW n \in DOMAIN read
  PROVE  /\ read[n].at \in Nat /\ read[n].alarm \in BOOLEAN /\ read[n].feed \in Feeds
         /\ read[n].value \in Values \cup {NaN} /\ read[n].quality \in Qualities
<1>1. read[n] \in Reading
  BY DEF TypeOK
<1> QED BY <1>1 DEF Reading, Times, PipelineAssumption

(* Alarms: burst mode is what the alarm and the clock make of it in all     *)
(* three outcomes, and in burst mode the reading is stored.                 *)
LEMMA IngestBurst ==
  ASSUME PipelineAssumption, Inv,
         NEW f \in Feeds, NEW v \in Values \cup {NaN}, NEW dated \in BOOLEAN,
         Ingest(f, v, dated)
  PROVE  Dated' /\ BurstArmed' /\ BurstCoversCooldown'
<1> DEFINE p == Judged(f, v, dated)
<1>1. /\ This = Len(read) + 1 /\ Len(read) \in Nat /\ now' = now /\ now \in Nat
      /\ DOMAIN read = 1..Len(read) /\ DOMAIN read' = 1..This
      /\ \A n \in DOMAIN read : read'[n] = read[n]
      /\ read'[This] = p /\ p.at = now /\ p.value = v /\ p.alarm \in BOOLEAN
      /\ Current \subseteq DOMAIN read /\ Current' = Current \cup {This}
  <2>1. Validate(f, v, dated)
    BY DEF Ingest, IngestInBurst, IngestIntoWindow, IngestClosingWindow
  <2>2. now \in Nat
    BY DEF Inv, TypeOK, Times, PipelineAssumption
  <2>3. p.at = now /\ p.value = v /\ p.alarm \in BOOLEAN
    BY DEF Judged, Rejected, Critical
  <2> HIDE DEF p
  <2> QED BY <2>1, <2>2, <2>3, ReadGrows DEF Inv, p
<1>2. burst' = BurstNow(p.alarm)
  BY DEF Ingest, IngestInBurst, IngestIntoWindow, IngestClosingWindow, InBurst
<1>3. raw \subseteq raw' /\ (BurstNow(p.alarm) # Never => v = NaN \/ This \in raw')
  BY DEF Ingest, IngestInBurst, IngestIntoWindow, IngestClosingWindow, InBurst, StoreRaw
<1>4. burst \in Nat \cup {Never} /\ Cooldown \in Nat
  BY DEF Inv, TypeOK, Times, PipelineAssumption
<1>5. \A n \in DOMAIN read : read[n].at \in Nat /\ read[n].at <= now /\ read[n].alarm \in BOOLEAN
  BY ReadingFields DEF Inv, Dated
<1>6. \A m \in Current : read[m].alarm /\ now - read[m].at <= Cooldown
                          => burst # Never /\ burst >= read[m].at
  BY DEF Inv, BurstArmed
<1> HIDE DEF p
<1>7. Dated'
  BY <1>1, <1>5 DEF Dated
<1>8. \A m \in Current' : read'[m].alarm /\ now - read'[m].at <= Cooldown
                           => burst' # Never /\ burst' >= read'[m].at
  <2>1. ASSUME NEW m \in Current, read[m].alarm, now - read[m].at <= Cooldown
        PROVE  burst' # Never /\ burst' >= read[m].at
    BY <2>1, <1>1, <1>2, <1>4, <1>5, <1>6 DEF BurstNow, Never
  <2>2. p.alarm => burst' = now
    BY <1>2 DEF BurstNow
  <2> QED BY <1>1, <2>1, <2>2 DEF Never
<1>9. BurstArmed'
  BY <1>1, <1>8 DEF BurstArmed
<1>10. BurstCoversCooldown'
  <2> SUFFICES ASSUME NEW m \in Current', NEW n \in Current', m <= n,
                      read'[m].alarm, read'[n].at - read'[m].at <= Cooldown
               PROVE  read'[n].value = NaN \/ n \in raw'
    BY DEF BurstCoversCooldown
  <2>1. CASE n = This
    BY <1>1, <1>2, <1>3, <1>8, <2>1
  <2>2. CASE n # This
    <3>1. m \in Current /\ n \in Current
      BY <1>1, <2>2
    <3> QED BY <1>1, <1>3, <3>1 DEF Inv, BurstCoversCooldown
  <2> QED BY <2>1, <2>2
<1> QED BY <1>7, <1>9, <1>10

(* Windows and averages: a reading waits in at most one window or average.  *)
LEMMA IngestWindows ==
  ASSUME PipelineAssumption, Inv,
         NEW f \in Feeds, NEW v \in Values \cup {NaN}, NEW dated \in BOOLEAN,
         Ingest(f, v, dated)
  PROVE  Numbered' /\ WindowOwn' /\ WindowFollows' /\ AveragedOnce' /\ RollupRate' /\ ValidKept'
<1> DEFINE p == Judged(f, v, dated)
           N == This
           R == window[f] \cup {N}
<1>1. /\ N = Len(read) + 1 /\ Len(read) \in Nat /\ now \in Nat
      /\ DOMAIN read = 1..Len(read) /\ DOMAIN read' = 1..N /\ N \notin DOMAIN read
      /\ \A n \in DOMAIN read : read'[n] = read[n]
      /\ read'[N] = p /\ p.at = now /\ p.value = v /\ p.feed = f /\ p.alarm \in BOOLEAN
      /\ Current \subseteq DOMAIN read /\ Current' = Current \cup {N}
  <2>1. Validate(f, v, dated)
    BY DEF Ingest, IngestInBurst, IngestIntoWindow, IngestClosingWindow
  <2>2. now \in Nat
    BY DEF Inv, TypeOK, Times, PipelineAssumption
  <2>3. p.at = now /\ p.value = v /\ p.feed = f /\ p.alarm \in BOOLEAN
    BY DEF Judged, Rejected, Critical
  <2>4. TypeOK
    BY DEF Inv
  <2>5. /\ N = Len(read) + 1 /\ Len(read) \in Nat
        /\ DOMAIN read = 1..Len(read) /\ DOMAIN read' = 1..N
        /\ \A n \in DOMAIN read : read'[n] = read[n]
        /\ read'[N] = p /\ Current \subseteq DOMAIN read /\ Current' = Current \cup {N}
    <3> HIDE DEF Judged
    <3> QED BY <2>1, <2>4, ReadGrows
  <2> HIDE DEF p, N
  <2> QED BY <2>2, <2>3, <2>5
<1>2. /\ window \in [Feeds -> SUBSET Numbers] /\ opened \in [Feeds -> Nat \cup {Never}]
      /\ Window \in Nat
  BY DEF Inv, TypeOK, Times, PipelineAssumption
<1>3. /\ \A q \in Feeds : window[q] \subseteq DOMAIN read
      /\ \A a \in averages : a.over \subseteq DOMAIN read /\ a.valued \subseteq a.over
                             /\ a.last \in DOMAIN read
  BY DEF Inv, Numbered
<1>4. \A n \in DOMAIN read : /\ read[n].at \in Nat /\ read[n].at <= now
                             /\ read[n].alarm \in BOOLEAN /\ read[n].feed \in Feeds
  BY ReadingFields DEF Inv, Dated
<1>5. \A q \in Feeds : \A n \in window[q] : read[n].feed = q /\ ~ read[n].alarm
  BY DEF Inv, WindowOwn
<1>6. \A a \in averages : a.last \in Current =>
        opened[read[a.last].feed] # Never /\ read[a.last].at <= opened[read[a.last].feed]
  BY DEF Inv, WindowFollows
<1>7. /\ \A a, b \in averages : a.over \cap b.over # {} => a = b
      /\ \A a \in averages, q \in Feeds : a.over \cap window[q] = {}
      /\ \A a \in averages : \A n \in a.over :
           read[n].feed = read[a.last].feed /\ n <= a.last /\ ~ read[n].alarm
  BY DEF Inv, AveragedOnce
<1>8. CASE IngestInBurst(f, v, dated)
  <2>1. /\ window' = window /\ opened' = opened /\ averages' = averages
        /\ raw' = IF v = NaN THEN raw ELSE raw \cup {N}
    BY <1>8 DEF IngestInBurst, windows, StoreRaw
  <2> HIDE DEF p, N
  <2>2. Numbered' /\ WindowOwn'
    BY <1>1, <1>2, <1>3, <1>5, <2>1 DEF Numbered, WindowOwn
  <2>3. WindowFollows'
    BY <1>1, <1>3, <1>6, <2>1 DEF WindowFollows
  <2>4. AveragedOnce'
    BY <1>1, <1>3, <1>7, <2>1 DEF AveragedOnce
  <2>5. RollupRate'
    BY <1>1, <1>3, <2>1 DEF Inv, RollupRate
  <2>6. ValidKept'
    BY <1>1, <1>3, <2>1 DEF Inv, ValidKept
  <2> QED BY <2>2, <2>3, <2>4, <2>5, <2>6
<1>9. CASE IngestIntoWindow(f, v, dated)
  <2>1. /\ window' = [window EXCEPT ![f] = R] /\ averages' = averages
        /\ opened' = [opened EXCEPT ![f] = IF opened[f] = Never THEN now ELSE opened[f]]
        /\ raw' = IF v = NaN THEN raw ELSE raw \cup {N}
        /\ ~ p.alarm
    <3>1. ~ InBurst(f, v, dated)
      BY <1>9 DEF IngestIntoWindow
    <3>2. ~ p.alarm
      BY <3>1, <1>1 DEF InBurst, BurstNow, Never
    <3> HIDE DEF p
    <3> QED BY <1>9, <3>2 DEF IngestIntoWindow, StoreRaw, Opening
  <2> HIDE DEF p, N
  <2>2. \A q \in Feeds : window'[q] = IF q = f THEN R ELSE window[q]
    BY <1>2, <2>1
  <2>3. Numbered' /\ WindowOwn'
    BY <1>1, <1>3, <1>5, <2>1, <2>2 DEF Numbered, WindowOwn
  <2>4. WindowFollows'
    BY <1>1, <1>2, <1>3, <1>4, <1>6, <2>1 DEF WindowFollows
  <2>5. AveragedOnce'
    BY <1>1, <1>3, <1>7, <2>1, <2>2 DEF AveragedOnce
  <2>6. RollupRate'
    BY <1>1, <1>3, <2>1 DEF Inv, RollupRate
  <2>7. ValidKept'
    BY <1>1, <1>3, <2>1 DEF Inv, ValidKept
  <2> QED BY <2>3, <2>4, <2>5, <2>6, <2>7
<1>10. CASE IngestClosingWindow(f, v, dated)
  <2> DEFINE c == Aggregate(R)
  <2>1. /\ window' = [window EXCEPT ![f] = {}]
        /\ averages' = averages \cup {c}
        /\ opened' = [opened EXCEPT ![f] = now]
        /\ raw' = raw
        /\ c.over = R /\ c.last = N /\ c.valued \subseteq R
        /\ p.quality = "VALID" => N \in c.valued
        /\ \A n \in R : read'[n].quality = "VALID" => n \in c.valued \/ n \notin R
        /\ c.stored <=> \A n \in c.valued : read'[n].value # NaN
    BY <1>1, <1>10 DEF IngestClosingWindow, Reopened, Aggregate, Averaged
  <2>2. ~ p.alarm
    <3>1. ~ InBurst(f, v, dated)
      BY <1>10 DEF IngestClosingWindow
    <3> QED BY <3>1, <1>1 DEF InBurst, BurstNow, Never
  <2>3. opened[f] # Never => now - opened[f] >= Window
    BY <1>10 DEF IngestClosingWindow, Elapsed, Opening
  <2> HIDE DEF p, N, c
  <2>4. \A q \in Feeds : window'[q] = IF q = f THEN {} ELSE window[q]
    BY <1>2, <2>1
  <2>5. \A q \in Feeds : opened'[q] = IF q = f THEN now ELSE opened[q]
    BY <1>2, <2>1
  <2>6. Numbered' /\ WindowOwn'
    BY <1>1, <1>3, <1>5, <2>1, <2>4 DEF Numbered, WindowOwn
  <2>7. WindowFollows'
    BY <1>1, <1>2, <1>3, <1>4, <1>6, <2>1, <2>5 DEF WindowFollows, Never
  <2>8. AveragedOnce'
    <3>1. \A a \in averages : a.over \cap c.over = {}
      BY <1>1, <1>3, <1>7, <2>1
    <3>2. \A n \in R : read'[n].feed = f /\ n <= N /\ ~ read'[n].alarm
      BY <1>1, <1>3, <1>5, <2>2
    <3>3. \A q \in Feeds : R \cap window'[q] = {}
      BY <1>1, <1>3, <1>5, <2>4
    <3>4. \A a, b \in averages' : a.over \cap b.over # {} => a = b
      BY <1>7, <2>1, <3>1
    <3>5. \A a \in averages', q \in Feeds : a.over \cap window'[q] = {}
      BY <1>7, <2>1, <2>4, <3>3
    <3>6. \A a \in averages' : \A n \in a.over :
             read'[n].feed = read'[a.last].feed /\ n <= a.last /\ ~ read'[n].alarm
      BY <1>1, <1>3, <1>7, <2>1, <3>2
    <3> QED BY <3>4, <3>5, <3>6 DEF AveragedOnce
  <2>9. RollupRate'
    <3> SUFFICES ASSUME NEW a \in averages', NEW b \in averages',
                        a.last < b.last, {a.last, b.last} \subseteq Current',
                        read'[a.last].feed = read'[b.last].feed
                 PROVE  read'[b.last].at - read'[a.last].at >= Window
      BY DEF RollupRate
    <3>1. CASE b = c
      <4>1. a \in averages /\ a.last \in DOMAIN read /\ a.last \in Current
        BY <1>1, <1>3, <2>1, <3>1
      <4>2. read[a.last].feed = f /\ read'[b.last].at = now
        BY <1>1, <2>1, <3>1, <4>1
      <4> QED BY <1>1, <1>2, <1>4, <1>6, <2>3, <4>1, <4>2 DEF Never
    <3>2. CASE b # c
      <4>1. a \in averages /\ b \in averages
        BY <1>1, <1>3, <2>1, <3>2
      <4> QED BY <1>1, <1>3, <4>1 DEF Inv, RollupRate
    <3> QED BY <3>1, <3>2
  <2>10. ValidKept'
    <3> SUFFICES ASSUME NEW n \in DOMAIN read', read'[n].quality = "VALID", read'[n].value # NaN
                 PROVE  \/ n \in raw'
                        \/ \E a \in averages' :
                             n \in a.valued /\ (a.stored \/ \E m \in a.valued : read'[m].value = NaN)
      BY DEF ValidKept
    <3>1. CASE n = N
      <4>1. c \in averages' /\ n \in c.valued
        BY <1>1, <2>1, <3>1
      <4>2. c.stored \/ \E m \in c.valued : read'[m].value = NaN
        BY <2>1
      <4> QED BY <4>1, <4>2
    <3>2. CASE n # N
      <4>1. n \in DOMAIN read /\ read[n].quality = "VALID" /\ read[n].value # NaN
        BY <1>1, <3>2
      <4>2. CASE n \in raw
        BY <2>1, <4>2
      <4>3. ASSUME NEW a \in averages, n \in a.valued,
                   a.stored \/ \E m \in a.valued : read[m].value = NaN
            PROVE  \E b \in averages' :
                     n \in b.valued /\ (b.stored \/ \E m \in b.valued : read'[m].value = NaN)
        BY <1>1, <1>3, <2>1, <4>3
      <4> QED BY <4>1, <4>2, <4>3 DEF Inv, ValidKept
    <3> QED BY <3>1, <3>2
  <2> QED BY <2>6, <2>7, <2>8, <2>9, <2>10
<1> QED BY <1>8, <1>9, <1>10 DEF Ingest

-----------------------------------------------------------------------------
(* Streaks.                                                                 *)

(* What the last k of a set are when a larger number joins it: the last     *)
(* k - 1 of before, and the newcomer.                                       *)
LEMMA LatestGrows ==
  ASSUME NEW S, S \subseteq Nat, IsFiniteSet(S), NEW x \in Nat, \A j \in S : j < x,
         NEW k \in Nat, k >= 1
  PROVE  /\ Latest(S \cup {x}, k) = Latest(S, k - 1) \cup {x}
         /\ x \notin Latest(S, k - 1)
         /\ IsFiniteSet(Latest(S, k - 1))
         /\ Cardinality(Latest(S, k - 1)) \in Nat
         /\ Cardinality(Latest(S \cup {x}, k)) = Cardinality(Latest(S, k - 1)) + 1
<1>1. After(S \cup {x}, x) = {}
  <2>1. \A j \in S \cup {x} : j \in Nat /\ j <= x
    OBVIOUS
  <2>2. \A j \in S \cup {x} : ~ (j > x)
    BY <2>1
  <2> QED BY <2>2 DEF After
<1>2. ASSUME NEW j \in S
      PROVE  /\ IsFiniteSet(After(S, j)) /\ Cardinality(After(S, j)) \in Nat
             /\ Cardinality(After(S \cup {x}, j)) = Cardinality(After(S, j)) + 1
  <2>1. IsFiniteSet(After(S, j)) /\ x \notin After(S, j)
    <3>1. After(S, j) \in SUBSET S
      BY DEF After
    <3>2. IsFiniteSet(After(S, j))
      BY <3>1, FS_Subset
    <3> QED BY <3>1, <3>2
  <2>2. After(S \cup {x}, j) = After(S, j) \cup {x}
    BY DEF After
  <2> QED BY <2>1, <2>2, FS_AddElement, FS_CardinalityType
<1>3. Latest(S \cup {x}, k) = Latest(S, k - 1) \cup {x}
  <2>1. x \in Latest(S \cup {x}, k)
    BY <1>1, FS_EmptySet DEF Latest
  <2>2. ASSUME NEW j \in S PROVE j \in Latest(S \cup {x}, k) <=> j \in Latest(S, k - 1)
    BY <1>2 DEF Latest
  <2>3. Latest(S \cup {x}, k) \subseteq S \cup {x} /\ Latest(S, k - 1) \subseteq S
    BY DEF Latest
  <2> QED BY <2>1, <2>2, <2>3
<1>4. x \notin Latest(S, k - 1) /\ IsFiniteSet(Latest(S, k - 1))
  <2>1. Latest(S, k - 1) \in SUBSET S
    BY DEF Latest
  <2>2. IsFiniteSet(Latest(S, k - 1))
    BY <2>1, FS_Subset
  <2> QED BY <2>1, <2>2
<1> QED BY <1>3, <1>4, FS_AddElement, FS_CardinalityType

(* The last none are none; the last of a set is among the last k of it.     *)
LEMMA LatestNone ==
  ASSUME NEW S, S \subseteq Nat, IsFiniteSet(S)
  PROVE  Latest(S, 0) = {}
<1>1. ASSUME NEW j \in S PROVE ~ Cardinality(After(S, j)) < 0
  <2>1. After(S, j) \in SUBSET S
    BY DEF After
  <2>2. IsFiniteSet(After(S, j))
    BY <2>1, FS_Subset
  <2> QED BY <2>2, FS_CardinalityType
<1> QED BY <1>1 DEF Latest

(* The last reading is among the latest, however many are asked for.        *)
LEMMA LatestHasLast ==
  ASSUME NEW S, S \subseteq Nat, NEW j \in S, \A i \in S : i <= j, NEW k \in Nat, k >= 1
  PROVE  j \in Latest(S, k)
<1>1. After(S, j) = {}
  <2>1. \A i \in S : ~ (i > j)
    OBVIOUS
  <2> QED BY <2>1 DEF After
<1> QED BY <1>1, FS_EmptySet DEF Latest

(* A sensor has a finite number of readings, and they are numbered.         *)
LEMMA OwnFinite ==
  ASSUME TypeOK, NEW s \in Sensors
  PROVE  Own(s) \subseteq Nat /\ Own(s) \subseteq DOMAIN read /\ IsFiniteSet(Own(s))
<1>1. Len(read) \in Nat /\ booted \in Nat /\ DOMAIN read = 1..Len(read)
  BY DEF TypeOK
<1>2. Own(s) \in SUBSET (1..Len(read)) /\ Own(s) \subseteq Nat
  BY <1>1 DEF Own, Current
<1>3. IsFiniteSet(1..Len(read))
  BY <1>1, FS_Interval
<1>4. IsFiniteSet(Own(s))
  BY <1>2, <1>3, FS_Subset
<1> QED BY <1>1, <1>2, <1>4

(* A reading that is not rejected lengthens the streak as the readings say. *)
LEMMA ScreenedRun ==
  ASSUME PipelineAssumption, Inv,
         NEW f \in Feeds, NEW s \in Sensors, Reads(f, s),
         NEW v \in Values \cup {NaN}, NEW dated \in BOOLEAN,
         Ingest(f, v, dated), ~ Rejected(s, v, dated)
  PROVE  /\ Own(s)' = Own(s) \cup {This}
         /\ streak'[s].value = v /\ streak'[s].len >= 1
         /\ streak'[s] = Lengthened(s, v)
         /\ \A k \in 1..FlatlineCount : streak'[s].len >= k <=> RunOf(s, k)'
<1> DEFINE p == Judged(f, v, dated)
           N == This
           F == FlatlineCount
<1>1. /\ Validate(f, v, dated) /\ TypeOK
  BY DEF Inv, Ingest, IngestInBurst, IngestIntoWindow, IngestClosingWindow
<1>2. /\ N = Len(read) + 1 /\ Len(read) \in Nat
      /\ DOMAIN read = 1..Len(read) /\ DOMAIN read' = 1..N
      /\ \A n \in DOMAIN read : read'[n] = read[n]
      /\ read'[N] = p /\ Current \subseteq DOMAIN read /\ Current' = Current \cup {N}
  <2> HIDE DEF Judged
  <2> QED BY <1>1, ReadGrows
<1>3. p.feed.sensor = s /\ p.value = v /\ p.quality # "INVALID"
  BY DEF Judged, Reads
<1>4. F \in Nat /\ F >= 2 /\ NaN \notin Int /\ Values \subseteq Int
  BY DEF PipelineAssumption
<1>5. /\ streak[s].len \in 0..F /\ streak'[s] = Lengthened(s, v)
      /\ streak[s] \in [value : Values \cup {NaN, 0}, len : 0..F]
  BY <1>1 DEF TypeOK, Validate, Reads
<1>6. Own(s)' = Own(s) \cup {N}
  <2> HIDE DEF p, N
  <2> QED BY <1>2, <1>3 DEF Own
<1>7. /\ Own(s) \subseteq Nat /\ Own(s) \subseteq DOMAIN read /\ IsFiniteSet(Own(s))
      /\ \A j \in Own(s) : j < N
  <2>1. Own(s) \subseteq Nat /\ Own(s) \subseteq DOMAIN read /\ IsFiniteSet(Own(s))
    BY <1>1, OwnFinite
  <2> QED BY <1>2, <2>1
<1>8. streak'[s].value = v /\ streak'[s].len >= 1
  BY <1>4, <1>5 DEF Lengthened
<1>9. ASSUME NEW k \in 1..F
      PROVE  streak'[s].len >= k <=> RunOf(s, k)'
  <2> DEFINE L == Latest(Own(s), k - 1)
  <2>1. k \in Nat /\ k >= 1 /\ k - 1 \in Nat /\ k <= F
    BY <1>4
  <2>2. /\ Latest(Own(s), k)' = L \cup {N} /\ N \notin L /\ Cardinality(L) \in Nat
        /\ Cardinality(Latest(Own(s), k)') = Cardinality(L) + 1
    <3>1. Latest(Own(s), k)' = Latest(Own(s) \cup {N}, k)
      BY <1>6 DEF Latest, After
    <3>2. N \in Nat
      BY <1>2
    <3> HIDE DEF N
    <3>3. /\ Latest(Own(s) \cup {N}, k) = L \cup {N} /\ N \notin L /\ Cardinality(L) \in Nat
          /\ Cardinality(Latest(Own(s) \cup {N}, k)) = Cardinality(L) + 1
      BY <1>7, <2>1, <3>2, LatestGrows
    <3> HIDE DEF L
    <3> QED BY <3>1, <3>3
  <2>3. L \subseteq Own(s) /\ \A m \in L : read'[m] = read[m]
    BY <1>2, <1>7 DEF Latest
  <2>4. RunOf(s, k)' <=> /\ Cardinality(L) = k - 1
                         /\ \A m \in L : read[m].value = v
                         /\ k >= 2 => v # NaN
    <3> HIDE DEF p, N, L
    <3> QED BY <1>2, <1>3, <1>8, <2>1, <2>2, <2>3 DEF RunOf
  <2>5. CASE k = 1
    <3>1. L = {}
      BY <1>7, <2>5, LatestNone
    <3> HIDE DEF L
    <3> QED BY <1>8, <2>4, <2>5, <3>1, FS_EmptySet
  <2>6. CASE k # 1
    <3>1. k - 1 \in 1..F /\ k >= 2
      BY <1>4, <2>1, <2>6
    <3>2. /\ streak[s].len >= k - 1 <=> RunOf(s, k - 1)
          /\ streak[s].len >= 1 => \E j \in Own(s) : /\ \A i \in Own(s) : i <= j
                                                      /\ read[j].value = streak[s].value
          /\ Own(s) # {} => streak[s].len >= 1
      BY <3>1 DEF Inv, RunKnown
    <3>3. RunOf(s, k - 1) <=> /\ Cardinality(L) = k - 1
                              /\ \A m \in L : read[m].value = streak[s].value
                              /\ k - 1 >= 2 => streak[s].value # NaN
      BY DEF RunOf
    <3>4. streak'[s].len >= k <=> /\ streak[s].len >= k - 1
                                  /\ streak[s].value = v /\ v # NaN
      BY <1>4, <1>5, <2>1, <3>1 DEF Lengthened
    <3>5. ASSUME Cardinality(L) = k - 1, \A m \in L : read[m].value = v
          PROVE  streak[s].value = v
      <4>1. L # {}
        <5>1. k - 1 # 0
          BY <2>1, <3>1
        <5>2. L = {} => Cardinality(L) = 0
          BY FS_EmptySet
        <5> HIDE DEF L
        <5> QED BY <3>5, <5>1, <5>2
      <4>2. PICK j \in Own(s) : (\A i \in Own(s) : i <= j) /\ read[j].value = streak[s].value
        BY <2>3, <3>2, <4>1
      <4>3. j \in L
        BY <1>7, <2>1, <3>1, <4>2, LatestHasLast
      <4> QED BY <3>5, <4>2, <4>3
    <3> HIDE DEF L
    <3> QED BY <2>4, <3>1, <3>2, <3>3, <3>4, <3>5
  <2> QED BY <2>5, <2>6
<1> QED BY <1>5, <1>6, <1>8, <1>9

(* Own readings of the other sensors, and of this one when it is rejected.  *)
LEMMA RunUntouched ==
  ASSUME PipelineAssumption, Inv,
         NEW f \in Feeds, NEW s \in Sensors, Reads(f, s),
         NEW v \in Values \cup {NaN}, NEW dated \in BOOLEAN,
         Ingest(f, v, dated),
         NEW q \in Sensors, q # s \/ Rejected(s, v, dated)
  PROVE  /\ Own(q)' = Own(q) /\ streak'[q] = streak[q]
         /\ \A n \in Own(q) : read'[n] = read[n]
         /\ \A k \in 1..FlatlineCount : RunOf(q, k)' <=> RunOf(q, k)
<1>1. Validate(f, v, dated) /\ TypeOK
  BY DEF Inv, Ingest, IngestInBurst, IngestIntoWindow, IngestClosingWindow
<1>2. /\ \A n \in DOMAIN read : read'[n] = read[n]
      /\ read'[This] = Judged(f, v, dated) /\ Current \subseteq DOMAIN read
      /\ Current' = Current \cup {This}
  <2> HIDE DEF Judged
  <2> QED BY <1>1, ReadGrows
<1>3. /\ Judged(f, v, dated).feed.sensor = s
      /\ Rejected(s, v, dated) => Judged(f, v, dated).quality = "INVALID"
  BY DEF Judged, Reads
<1>4. Own(q)' = Own(q)
  <2> HIDE DEF Judged, This
  <2> QED BY <1>2, <1>3 DEF Own
<1>5. streak'[q] = streak[q]
  BY <1>1 DEF Validate, TypeOK, Reads
<1>6. \A n \in Own(q) : read'[n] = read[n]
  BY <1>2 DEF Own
<1>7. ASSUME NEW k \in 1..FlatlineCount PROVE RunOf(q, k)' <=> RunOf(q, k)
  <2>1. Latest(Own(q), k)' = Latest(Own(q), k) /\ Latest(Own(q), k) \subseteq Own(q)
    BY <1>4 DEF Latest, After
  <2> QED BY <1>5, <1>6, <2>1 DEF RunOf
<1> QED BY <1>4, <1>5, <1>6, <1>7

(* Flatlines.                                                               *)
LEMMA IngestRun ==
  ASSUME PipelineAssumption, Inv,
         NEW f \in Feeds, NEW s \in Sensors, Reads(f, s),
         NEW v \in Values \cup {NaN}, NEW dated \in BOOLEAN,
         Ingest(f, v, dated)
  PROVE  RunKnown'
<1> SUFFICES ASSUME NEW q \in Sensors
             PROVE  /\ Own(q)' # {} => streak'[q].len >= 1
                    /\ streak'[q].len >= 1 => \E j \in Own(q)' :
                          /\ \A i \in Own(q)' : i <= j
                          /\ read'[j].value = streak'[q].value
                    /\ \A k \in 1..FlatlineCount : streak'[q].len >= k <=> RunOf(q, k)'
  BY DEF RunKnown
<1>1. CASE q = s /\ ~ Rejected(s, v, dated)
  <2>1. /\ Own(q)' = Own(q) \cup {This} /\ streak'[q].value = v /\ streak'[q].len >= 1
        /\ \A k \in 1..FlatlineCount : streak'[q].len >= k <=> RunOf(q, k)'
    BY <1>1, ScreenedRun
  <2>2. /\ Validate(f, v, dated) /\ TypeOK
    BY DEF Inv, Ingest, IngestInBurst, IngestIntoWindow, IngestClosingWindow
  <2>3. /\ This = Len(read) + 1 /\ Len(read) \in Nat /\ DOMAIN read = 1..Len(read)
        /\ read'[This] = Judged(f, v, dated)
    <3> HIDE DEF Judged
    <3> QED BY <2>2, ReadGrows
  <2>4. read'[This].value = v
    BY <2>3 DEF Judged
  <2>5. \A i \in Own(q) \cup {This} : i <= This
    BY <2>2, <2>3, OwnFinite
  <2> HIDE DEF This
  <2> QED BY <2>1, <2>4, <2>5
<1>2. CASE ~ (q = s /\ ~ Rejected(s, v, dated))
  <2>1. /\ Own(q)' = Own(q) /\ streak'[q] = streak[q]
        /\ \A n \in Own(q) : read'[n] = read[n]
        /\ \A k \in 1..FlatlineCount : RunOf(q, k)' <=> RunOf(q, k)
    BY <1>2, RunUntouched
  <2>2. /\ Own(q) # {} => streak[q].len >= 1
        /\ streak[q].len >= 1 => \E j \in Own(q) : /\ \A i \in Own(q) : i <= j
                                                    /\ read[j].value = streak[q].value
        /\ \A k \in 1..FlatlineCount : streak[q].len >= k <=> RunOf(q, k)
    BY DEF Inv, RunKnown
  <2> QED BY <2>1, <2>2
<1> QED BY <1>1, <1>2

(* A new reading is flagged stale exactly if its sensor's run of equal      *)
(* values says so.                                                          *)
LEMMA IngestFlat ==
  ASSUME PipelineAssumption, Inv,
         NEW f \in Feeds, NEW s \in Sensors, Reads(f, s),
         NEW v \in Values \cup {NaN}, NEW dated \in BOOLEAN,
         Ingest(f, v, dated)
  PROVE  FlatlineExact'
<1> DEFINE N == This
           p == Judged(f, v, dated)
<1>1. Validate(f, v, dated) /\ TypeOK
  BY DEF Inv, Ingest, IngestInBurst, IngestIntoWindow, IngestClosingWindow
<1>2. /\ N = Len(read) + 1 /\ Len(read) \in Nat /\ DOMAIN read = 1..Len(read)
      /\ \A n \in DOMAIN read : read'[n] = read[n]
      /\ read'[N] = p /\ Current \subseteq DOMAIN read /\ Current' = Current \cup {N}
  <2> HIDE DEF Judged
  <2> QED BY <1>1, ReadGrows
<1>3. /\ p.feed.sensor = s /\ p.value = v
      /\ p.quality = IF Rejected(s, v, dated) THEN "INVALID"
                     ELSE IF Flat(s, v) THEN "STALE" ELSE "VALID"
  BY DEF Judged, Reads
<1>4. FlatlineCount \in Nat /\ FlatlineCount >= 2
  BY DEF PipelineAssumption
<1> HIDE DEF N, p
<1>5. \A n \in Current : read'[n] = read[n] /\ n < N /\ n \in Nat
  BY <1>2
<1> SUFFICES ASSUME NEW n \in Current'
             PROVE  read'[n].quality = "STALE" <=>
                      /\ n \in Screened(n)' /\ Cardinality(LastFew(n)') = FlatlineCount
                      /\ read'[n].value \notin {0, NaN}
                      /\ \A m \in LastFew(n)' : read'[m].value = read'[n].value
  BY DEF FlatlineExact
<1>6. CASE n # N
  <2>1. n \in Current
    BY <1>2, <1>6
  <2>2. Screened(n)' = Screened(n)
    BY <1>2, <1>5, <2>1 DEF Screened
  <2>3. LastFew(n)' = LastFew(n) /\ LastFew(n) \subseteq Current
    BY <2>2 DEF LastFew, Screened
  <2>4. read[n].quality = "STALE" <=>
          /\ n \in Screened(n) /\ Cardinality(LastFew(n)) = FlatlineCount
          /\ read[n].value \notin {0, NaN}
          /\ \A m \in LastFew(n) : read[m].value = read[n].value
    BY <2>1 DEF Inv, FlatlineExact
  <2> QED BY <1>5, <2>1, <2>2, <2>3, <2>4
<1>7. CASE n = N /\ Rejected(s, v, dated)
  <2>1. read'[n].quality = "INVALID"
    BY <1>2, <1>3, <1>7
  <2>2. n \notin Screened(n)'
    BY <2>1 DEF Screened
  <2> QED BY <2>1, <2>2
<1>8. CASE n = N /\ ~ Rejected(s, v, dated)
  <2>1. /\ Own(s)' = Own(s) \cup {N} /\ streak'[s].value = v
        /\ streak'[s] = Lengthened(s, v)
        /\ streak'[s].len >= FlatlineCount <=> RunOf(s, FlatlineCount)'
    BY <1>4, <1>8, ScreenedRun DEF N
  <2>2. Screened(n)' = Own(s)'
    <3>1. \A m \in Current' : m <= n
      BY <1>2, <1>5, <1>8
    <3> QED BY <1>2, <1>3, <1>8, <3>1 DEF Screened, Own
  <2>3. LastFew(n)' = Latest(Own(s), FlatlineCount)'
    BY <2>2 DEF LastFew, Latest, After
  <2>4. read'[n].quality = "STALE" <=> streak'[s].len >= FlatlineCount /\ v # 0
    BY <1>2, <1>3, <1>8, <2>1 DEF Flat
  <2>5. RunOf(s, FlatlineCount)' <=>
          /\ Cardinality(LastFew(n)') = FlatlineCount
          /\ \A m \in LastFew(n)' : read'[m].value = v
          /\ v # NaN
    BY <1>4, <2>1, <2>3 DEF RunOf
  <2>6. n \in Screened(n)' /\ read'[n].value = v
    BY <1>2, <1>3, <1>8, <2>1, <2>2
  <2> QED BY <2>1, <2>4, <2>5, <2>6
<1> QED BY <1>6, <1>7, <1>8

-----------------------------------------------------------------------------

(* The clock and registrations: nothing that was read or stored changes.    *)
LEMMA QuietStep ==
  ASSUME PipelineAssumption, Inv, TypeOK', now' >= now,
         UNCHANGED <<streak, windows, burst, booted, read, raw, averages>>
  PROVE  Inv'
<1>1. /\ streak' = streak /\ window' = window /\ opened' = opened /\ burst' = burst
      /\ booted' = booted /\ read' = read /\ raw' = raw /\ averages' = averages
  BY DEF windows
<1>2. Current' = Current /\ Current \subseteq DOMAIN read
  BY <1>1 DEF Current, Inv, TypeOK
<1>3. now \in Nat /\ now' \in Nat /\ Cooldown \in Nat
  BY DEF Inv, TypeOK, Times, PipelineAssumption
<1>4. \A n \in DOMAIN read : read[n].at \in Nat
  BY ReadingFields DEF Inv
<1>5. Dated' /\ BurstArmed'
  BY <1>1, <1>2, <1>3, <1>4 DEF Inv, Dated, BurstArmed
<1>6. Numbered' /\ WindowOwn' /\ WindowFollows'
  BY <1>1, <1>2 DEF Inv, Numbered, WindowOwn, WindowFollows
<1>7. RunKnown'
  <2>1. \A s \in Sensors : Own(s)' = Own(s)
    BY <1>1, <1>2 DEF Own
  <2>2. \A s \in Sensors, k \in 1..FlatlineCount : Latest(Own(s), k)' = Latest(Own(s), k)
    BY <2>1 DEF Latest, After
  <2>3. \A s \in Sensors, k \in 1..FlatlineCount : RunOf(s, k)' <=> RunOf(s, k)
    BY <1>1, <2>2 DEF RunOf
  <2> QED BY <1>1, <2>1, <2>3 DEF Inv, RunKnown
<1>8. BurstCoversCooldown' /\ ValidKept' /\ AveragedOnce' /\ RollupRate'
  BY <1>1, <1>2 DEF Inv, BurstCoversCooldown, ValidKept, AveragedOnce, RollupRate
<1>9. FlatlineExact'
  <2>1. \A n \in Current : Screened(n)' = Screened(n)
    BY <1>1, <1>2 DEF Screened
  <2>2. \A n \in Current : LastFew(n)' = LastFew(n)
    BY <2>1 DEF LastFew
  <2> QED BY <1>1, <1>2, <2>1, <2>2 DEF Inv, FlatlineExact
<1> QED BY <1>5, <1>6, <1>7, <1>8, <1>9 DEF Inv

(* A process that starts has seen nothing yet, and remembers nothing.       *)
LEMMA RestartStep == ASSUME PipelineAssumption, Inv, Restart PROVE Inv'
<1>1. /\ config' = Process.config /\ streak' = Process.streak /\ window' = Process.window
      /\ opened' = Process.opened /\ burst' = Never /\ booted' = Len(read)
      /\ now' = now /\ read' = read /\ raw' = raw /\ averages' = averages
  BY DEF Restart
<1>2. Len(read) \in Nat /\ FlatlineCount \in Nat
  BY DEF Inv, TypeOK, PipelineAssumption
<1>3. TypeOK'
  BY <1>1, <1>2 DEF Inv, TypeOK, Process
<1>4. Current' = {}
  BY <1>1, <1>2 DEF Current
<1>5. RunKnown'
  <2>1. \A s \in Sensors : Own(s)' = {} /\ streak'[s].len = 0
    BY <1>1, <1>4 DEF Own, Process
  <2>2. ASSUME NEW s \in Sensors, NEW k \in 1..FlatlineCount
        PROVE  ~ RunOf(s, k)' /\ ~ (0 >= k)
    <3>1. Latest(Own(s), k)' = {}
      BY <2>1 DEF Latest
    <3>2. k # 0 /\ ~ (0 >= k)
      BY <1>2
    <3> QED BY <3>1, <3>2, FS_EmptySet DEF RunOf
  <2> QED BY <2>1, <2>2 DEF RunKnown
<1>6. BurstArmed' /\ WindowFollows' /\ BurstCoversCooldown' /\ RollupRate' /\ FlatlineExact'
  BY <1>4 DEF BurstArmed, WindowFollows, BurstCoversCooldown, RollupRate, FlatlineExact
<1>7. Numbered' /\ Dated' /\ WindowOwn' /\ ValidKept' /\ AveragedOnce'
  BY <1>1 DEF Inv, Numbered, Dated, WindowOwn, ValidKept, AveragedOnce, Process
<1> QED BY <1>3, <1>5, <1>6, <1>7 DEF Inv

(* A gateway that was just installed owes nothing.                          *)
LEMMA InvInit == ASSUME PipelineAssumption, Init PROVE Inv
<1>1. /\ now = 0 /\ config = Process.config /\ streak = Process.streak
      /\ window = Process.window /\ opened = Process.opened /\ burst = Never
      /\ booted = 0 /\ read = <<>> /\ raw = {} /\ averages = {}
  BY DEF Init
<1>2. MaxReadings \in Nat /\ MaxTime \in Nat /\ FlatlineCount \in Nat
  BY DEF PipelineAssumption
<1>3. TypeOK
  BY <1>1, <1>2 DEF TypeOK, Process, Times
<1>4. Current = {}
  BY <1>1 DEF Current
<1>5. RunKnown
  <2>1. \A s \in Sensors : Own(s) = {} /\ streak[s].len = 0
    BY <1>1, <1>4 DEF Own, Process
  <2>2. ASSUME NEW s \in Sensors, NEW k \in 1..FlatlineCount
        PROVE  ~ RunOf(s, k) /\ ~ (0 >= k)
    <3>1. Latest(Own(s), k) = {}
      BY <2>1 DEF Latest
    <3>2. k # 0 /\ ~ (0 >= k)
      BY <1>2
    <3> QED BY <3>1, <3>2, FS_EmptySet DEF RunOf
  <2> QED BY <2>1, <2>2 DEF RunKnown
<1>6. BurstArmed /\ WindowFollows /\ BurstCoversCooldown /\ RollupRate /\ FlatlineExact
  BY <1>4 DEF BurstArmed, WindowFollows, BurstCoversCooldown, RollupRate, FlatlineExact
<1>7. Numbered /\ Dated /\ WindowOwn /\ ValidKept /\ AveragedOnce
  BY <1>1 DEF Numbered, Dated, WindowOwn, ValidKept, AveragedOnce, Process
<1> QED BY <1>3, <1>5, <1>6, <1>7 DEF Inv

(* Whatever the gateway does next, its counters keep standing for the       *)
(* readings.                                                                *)
LEMMA InvStep == ASSUME PipelineAssumption, Inv, [Next]_vars PROVE Inv'
<1>1. ASSUME NEW f \in Feeds, NEW v \in Values \cup {NaN}, NEW dated \in BOOLEAN,
             Ingest(f, v, dated)
      PROVE  Inv'
  <2>1. f.sensor \in Sensors
    BY DEF Feeds
  <2>2. Reads(f, f.sensor)
    BY DEF Reads
  <2> QED BY <1>1, <2>1, <2>2, IngestType, IngestBurst, IngestWindows, IngestRun, IngestFlat DEF Inv
<1>2. ASSUME NEW s \in Sensors, NEW c \in Configs, RegisterSensor(s, c) PROVE Inv'
  <2>1. TypeOK'
    BY <1>2 DEF RegisterSensor, windows, Inv, TypeOK
  <2>2. now' >= now
    BY <1>2 DEF RegisterSensor, Inv, TypeOK, Times, PipelineAssumption
  <2> QED BY <1>2, <2>1, <2>2, QuietStep DEF RegisterSensor
<1>3. CASE Tick
  <2>1. TypeOK'
    BY <1>3 DEF Tick, screen, windows, Inv, TypeOK, Times, PipelineAssumption
  <2>2. now' >= now
    BY <1>3 DEF Tick, Inv, TypeOK, Times, PipelineAssumption
  <2> QED BY <1>3, <2>1, <2>2, QuietStep DEF Tick, screen
<1>4. CASE Restart
  BY <1>4, RestartStep
<1>5. CASE UNCHANGED vars
  <2>1. TypeOK'
    BY <1>5 DEF vars, screen, windows, Inv, TypeOK
  <2>2. now' >= now
    BY <1>5 DEF vars, Inv, TypeOK, Times, PipelineAssumption
  <2> QED BY <1>5, <2>1, <2>2, QuietStep DEF vars, screen
<1> QED BY <1>1, <1>2, <1>3, <1>4, <1>5 DEF Next, Ingest

(* The inductive invariant of the pipeline holds in every behaviour.        *)
THEOREM PipelineInvariant == Spec => []Inv
<1>1. Init => Inv
  BY InvInit, PipelineAssumption
<1>2. Inv /\ [Next]_vars => Inv'
  BY InvStep, PipelineAssumption
<1> QED BY <1>1, <1>2, PTL DEF Spec

(* An average never smooths over an incident: an alarm and the readings of  *)
(* the cooldown after it are stored as they were read (EdgeGateway.ingest). *)
THEOREM IncidentsStored == Spec => []BurstCoversCooldown
<1>1. Inv => BurstCoversCooldown
  BY DEF Inv
<1> QED BY <1>1, PipelineInvariant, PTL

(* Every valid reading leaves the gateway, as it is or in an average, or    *)
(* shares its window with a value the table cannot hold.                    *)
THEOREM ValidReadingsKept == Spec => []ValidKept
<1>1. Inv => ValidKept
  BY DEF Inv
<1> QED BY <1>1, PipelineInvariant, PTL

(* No reading is averaged twice, or with another sensor's, or after it      *)
(* raised an alarm (AggregationEngine.process_observation).                 *)
THEOREM AveragesDisjoint == Spec => []AveragedOnce
<1>1. Inv => AveragedOnce
  BY DEF Inv
<1> QED BY <1>1, PipelineInvariant, PTL

(* Within the life of a process two averages of a sensor are a window       *)
(* apart, through bursts and the readings of its neighbours.                *)
THEOREM RollupsSpaced == Spec => []RollupRate
<1>1. Inv => RollupRate
  BY DEF Inv
<1> QED BY <1>1, PipelineInvariant, PTL

(* The stale flag is exact: counting the readings themselves finds the same *)
(* flatlines as the history ValidationEngine cuts at its length.            *)
THEOREM FlatlinesExact == Spec => []FlatlineExact
<1>1. Inv => FlatlineExact
  BY DEF Inv
<1> QED BY <1>1, PipelineInvariant, PTL

(* Every variable keeps its type.                                           *)
THEOREM PipelineTyped == Spec => []TypeOK
<1>1. Inv => TypeOK
  BY DEF Inv
<1> QED BY <1>1, PipelineInvariant, PTL
=============================================================================
