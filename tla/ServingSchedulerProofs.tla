------------------------- MODULE ServingSchedulerProofs -------------------------
(***************************************************************************)
(* The serving lanes for any number of scheduler processes, meters, hours  *)
(* and windows: what a lane uses is sound although it was chosen and read  *)
(* in earlier transactions, evidence stands for rows that are there, and,  *)
(* with one process in the pmax lane, a served forecast is final.          *)
(***************************************************************************)
EXTENDS ServingScheduler, SequenceTheorems, WellFoundedInduction, TLAPS

(***************************************************************************)
(* Origins.                                                                *)
(***************************************************************************)

\* A bounded, nonempty set of integers has its maximum.
LEMMA MaxExists ==
    ASSUME NEW S, S \subseteq Int, S # {}, \E top \in Int : \A s \in S : s <= top
    PROVE  Max(S) \in S
<1>0. PICK b \in Int : \A s \in S : s <= b OBVIOUS
<1> DEFINE R == OpToRel(<, Nat)
           Rests == {b - t : t \in S}
<1>1. IsWellFoundedOn(R, Nat) BY NatLessThanWellFounded
<1> HIDE DEF R
<1>2. PICK s \in S : TRUE OBVIOUS
<1>3. Rests \subseteq Nat /\ b - s \in Rests BY <1>0
<1>4. PICK x \in Rests : \A y \in Rests : ~ (<<y, x>> \in R) BY <1>1, <1>3, WFMin
<1>5. \A y \in Rests : ~ (y < x) BY <1>3, <1>4 DEF R, OpToRel
<1>6. PICK t \in S : x = b - t OBVIOUS
<1>7. \A u \in S : t >= u
    <2> SUFFICES ASSUME NEW u \in S PROVE t >= u OBVIOUS
    <2>1. b - u \in Rests OBVIOUS
    <2>2. ~ (b - u < b - t) BY <1>5, <1>6, <2>1
    <2> QED BY <2>2
<1> QED BY <1>7 DEF Max

\* The bounds are numbers.
LEMMA Bounds ==
    /\ HourTicks \in Nat /\ HourTicks > 0 /\ K \in Nat /\ K > 0 /\ MaxConsecutive \in Nat /\ MaxConsecutive > 0
    /\ LastTick \in Nat /\ LastHour \in Nat /\ LastWindow \in Nat /\ RefEnd \in Nat /\ MaxFaults \in Nat
    /\ RefEnd <= LastWindow + 1 /\ Epoch \in Int /\ Epoch <= LastTick /\ Hours \subseteq 0..LastHour /\ Hours \subseteq Bases
BY SchedulerBoundsAssumption DEF Epoch, Hours, Bases

\* The watermark of the feature lane is an hour, or the epoch while there is no feature.
LEMMA ExistingHour ==
    ASSUME TablesTypeOK
    PROVE  MaxExisting \in Hours \cup {Epoch} /\ (feature # {} => MaxExisting \in Hours)
<1> DEFINE S == {r[1] : r \in feature}
<1>1. S \subseteq Hours BY DEF TablesTypeOK
<1>3. S = {} => feature = {} OBVIOUS
<1> HIDE DEF S
<1>a. S \subseteq 0..LastHour BY <1>1, Bounds
<1>b. \A s \in S : s \in Int /\ s <= LastHour BY <1>a, Bounds
<1>2. S \subseteq Int /\ (\E top \in Int : \A s \in S : s <= top) BY <1>b, Bounds
<1>4. S # {} => Max(S) \in S BY <1>2, MaxExists
<1>5. MaxExisting = IF S = {} THEN Epoch ELSE Max(S) BY DEF MaxExisting, MaxOr, S
<1> QED BY <1>1, <1>3, <1>4, <1>5

\* The cap of a feature pass is closed on the replay clock.
LEMMA CapIsClosed ==
    ASSUME TablesTypeOK
    PROVE  CappedEnd \in Epoch..LastTick /\ CappedEnd + HourTicks <= now
<1> DEFINE S == {h \in Hours : \E m \in Meters : Sufficient(m, h)}
<1>1. S \subseteq 0..LastHour BY Bounds
<1> HIDE DEF S
<1>a. S \subseteq Int /\ (\E top \in Int : \A s \in S : s <= top) BY <1>1, Bounds
<1>2. S # {} => Max(S) \in S BY <1>a, MaxExists
<1>3. MaxPossible = IF S = {} THEN Epoch ELSE Max(S) BY DEF MaxPossible, MaxOr, S
<1>4. MaxPossible \in Int /\ MaxPossible >= Epoch BY <1>1, <1>2, <1>3, Bounds DEF Epoch
<1>5. now \in Int /\ 0 <= now /\ now <= LastTick BY Bounds DEF TablesTypeOK, Ticks
<1> QED BY <1>4, <1>5, Bounds DEF CappedEnd, Epoch

\* The only base a pass can choose is the one after the newest window, and it is not yet served.
LEMMA PmaxBase ==
    ASSUME TablesTypeOK
    PROVE  select_pmax_base_ts = NoBase \/ (select_pmax_base_ts \in Bases /\ ~PmaxServed(select_pmax_base_ts))
<1> DEFINE W == (UNION {peak[m] : m \in PMeters}) \cup {RefEnd - 1}
<1>a. \A m \in PMeters : peak[m] \subseteq RefEnd..LastWindow BY DEF TablesTypeOK
<1>b. \A w \in W : w = RefEnd - 1 \/ w \in RefEnd..LastWindow BY <1>a
<1>1. W \subseteq (RefEnd - 1)..LastWindow /\ RefEnd - 1 \in W
    <2>1. RefEnd - 1 \in W OBVIOUS
    <2> HIDE DEF W
    <2> QED BY <1>b, <2>1, Bounds
<1>2. LatestWindow \in W
    <2> HIDE DEF W
    <2>a. W \subseteq Int /\ \A w \in W : w <= LastWindow BY <1>1, Bounds
    <2>b. W # {} BY <1>1
    <2>c. LastWindow \in Int BY Bounds
    <2>0. \E top \in Int : \A w \in W : w <= top BY <2>a, <2>c
    <2>1. Max(W) \in W BY <2>0, <2>a, <2>b, MaxExists
    <2> QED BY <2>1 DEF LatestWindow, W
<1> HIDE DEF W
<1> DEFINE loaded == (LatestWindow - K + 1)..LatestWindow
           ready(b, ms) == \A w \in (b - K)..(b - 1) : w \in loaded /\ \A m \in ms : HasWindow(m, w)
           unserved == {b \in {w + 1 : w \in loaded} : ~PmaxServed(b)}
           full == {b \in unserved : ready(b, PMeters)}
           partial == {b \in unserved : \E m \in PMeters : ready(b, {m})}
<1>3. LatestWindow \in Int /\ LatestWindow + 1 \in Bases BY <1>1, <1>2, Bounds DEF Bases
<1>4. ASSUME NEW b \in unserved, NEW ms, ready(b, ms) PROVE b = LatestWindow + 1
    <2>1. b \in Int /\ b <= LatestWindow + 1 BY <1>3
    <2>2. b - K \in (b - K)..(b - 1) BY <2>1, Bounds
    <2>3. b - K \in loaded BY <1>4, <2>2
    <2> QED BY <1>3, <2>1, <2>3, Bounds
<1>8. select_pmax_base_ts = MaxOr(full, MaxOr(partial, NoBase)) BY DEF select_pmax_base_ts
<1>5. \A b \in unserved : ~PmaxServed(b) OBVIOUS
<1>6. full \subseteq unserved /\ partial \subseteq unserved OBVIOUS
<1> HIDE DEF ready, unserved
<1>7. full \subseteq {LatestWindow + 1} /\ partial \subseteq {LatestWindow + 1} BY <1>4
<1> HIDE DEF full, partial, unserved
<1>9. ASSUME NEW S \in SUBSET {LatestWindow + 1}, S # {} PROVE Max(S) \in S
    <2>1. S \subseteq Int /\ (\E top \in Int : \A s \in S : s <= top) BY <1>3
    <2> QED BY <1>9, <2>1, MaxExists
<1>10. select_pmax_base_ts = NoBase \/ select_pmax_base_ts \in full \/ select_pmax_base_ts \in partial
    BY <1>7, <1>8, <1>9 DEF MaxOr
<1> QED BY <1>3, <1>5, <1>6, <1>7, <1>10

\* The base of the anomaly lane is a featured hour.
LEMMA AnomalyBase ==
    ASSUME TablesTypeOK
    PROVE  select_anomaly_base_ts \in Bases \cup {NoBase}
BY ExistingHour, Bounds DEF select_anomaly_base_ts

(***************************************************************************)
(* Runs.                                                                   *)
(***************************************************************************)

WriteOrders == {<<"forecast", "warning", "evidence">>, <<"forecast", "evidence">>,
                <<"warning", "evidence">>, <<"evidence">>}

NoWarningLeft(left) == left \in {<<"forecast", "evidence">>, <<"evidence">>}

Warned(b) == {r[1] : r \in warning[b]}

\* A run that has left a table behind it has its rows in it, and the evidence comes last.
WritesInOrder(p) ==
    step[p] = "write" =>
        /\ job[p].left \in WriteOrders
        /\ job[p].left[1] # "forecast" => job[p].fore \subseteq forecast[job[p].base]
        /\ NoWarningLeft(job[p].left) => {r[1] : r \in job[p].warn} \subseteq Warned(job[p].base)
        /\ todo[p][1] # "pmax" => job[p].fore = {}

\* The inductive invariant.
IInv == ServingInv /\ EvidenceBacked /\ \A p \in Procs : WritesInOrder(p)

\* What a step may do to the tables: the clock and the rows a run relies on never go back.
Grows ==
    /\ now <= now'
    /\ \A m \in PMeters : peak[m] \subseteq peak'[m]
    /\ \A b \in Bases : forecast[b] \subseteq forecast'[b] /\ Warned(b) \subseteq Warned(b)'

\* Process p does not move.
Still(p) == step'[p] = step[p] /\ todo'[p] = todo[p] /\ job'[p] = job[p]

\* Process p is in a lane no longer, or not yet.
Outside(p) ==
    /\ step'[p] \in {"down", "sleep", "pass"} /\ todo'[p] \in Seq(LanesOf[p])
    /\ step'[p] = "pass" => todo'[p] # <<>>

\* No table changes.
TablesStay == UNCHANGED <<hourly, peak, feature, forecast, warning, evidence>>

\* A complete history stays complete.
LEMMA HistoryStays ==
    ASSUME Grows, NEW m \in PMeters, NEW b, FullHistory(m, b)
    PROVE  FullHistory(m, b)'
BY DEF Grows, FullHistory, HasWindow

\* A process that does not move keeps its part of the invariant.
LEMMA StillSound ==
    ASSUME SchedulerTypeOK, Grows, now' \in Int, NEW p \in Procs, Still(p), LaneSound(p), WritesInOrder(p)
    PROVE  LaneSound(p)' /\ WritesInOrder(p)'
<1>0. job[p] \in Jobs BY DEF SchedulerTypeOK, LoopsTypeOK
<1>1. job[p].fore \subseteq PMeters BY <1>0 DEF Jobs
<1>2. now \in Int BY Bounds DEF SchedulerTypeOK, TablesTypeOK, Ticks
<1>3. step[p] = "write" => \A m \in job[p].fore : FullHistory(m, job[p].base)'
    BY <1>1, HistoryStays DEF LaneSound, Still
<1>4. LaneSound(p)'
    <2>1. todo'[p] \in Seq(LanesOf[p]) /\ (step'[p] \in {"pass", "insert", "infer", "write"} => todo'[p] # <<>>)
        BY DEF LaneSound, Still
    <2>2. step'[p] = "insert" => job'[p].upto \in Int /\ job'[p].upto + HourTicks <= now'
        BY <1>2, Bounds DEF LaneSound, Still, Grows
    <2>3. step'[p] \in {"infer", "write"} => job'[p].base \in Bases BY DEF LaneSound, Still
    <2>4. step'[p] = "write" => job'[p].left # <<>> BY DEF LaneSound, Still
    <2>5. step'[p] = "write" => \A m \in job'[p].fore : FullHistory(m, job[p].base)' BY <1>3 DEF Still
    <2> QED BY <2>1, <2>2, <2>3, <2>4, <2>5 DEF LaneSound
<1>5. WritesInOrder(p)'
    <2>1. CASE step'[p] # "write" BY <2>1 DEF WritesInOrder
    <2>2. CASE step'[p] = "write"
        <3>1. step[p] = "write" /\ job[p].base \in Bases BY <2>2 DEF Still, LaneSound
        <3>2. forecast[job[p].base] \subseteq forecast'[job[p].base] /\ Warned(job[p].base) \subseteq {r[1] : r \in warning'[job[p].base]}
            BY <3>1 DEF Grows, Warned
        <3>3. {r[1] : r \in warning'[job[p].base]} = Warned(job[p].base)' BY DEF Still, Warned
        <3> QED BY <3>1, <3>2, <3>3 DEF WritesInOrder, Still
    <2> QED BY <2>1, <2>2
<1> QED BY <1>4, <1>5

\* A process outside its lanes has nothing to keep but its list.
LEMMA OutsideSound ==
    ASSUME NEW p \in Procs, Outside(p)
    PROVE  LaneSound(p)' /\ WritesInOrder(p)'
BY DEF Outside, LaneSound, WritesInOrder

\* The end of a pass and the return of a lane leave the process outside.
LEMMA PassEnds ==
    ASSUME LoopsTypeOK, NEW p \in Procs, NEW c \in 0..MaxConsecutive, AfterPass(p, c)
    PROVE  /\ step' \in [Procs -> Steps] /\ fails' \in [Procs -> 0..(MaxConsecutive - 1)] /\ bad' \in [Procs -> BOOLEAN]
           /\ step'[p] \in {"down", "sleep"} /\ \A q \in Procs \ {p} : step'[q] = step[q]
BY Bounds DEF LoopsTypeOK, AfterPass, Goto, Steps

\* No job is a job.
LEMMA NoJobIsJob == NoJob \in Jobs
BY DEF NoJob, Jobs

\* A lane's return.
LEMMA LaneEnds ==
    ASSUME SchedulerTypeOK, NEW p \in Procs, NEW ok \in BOOLEAN, LaneSound(p), todo[p] # <<>>, LaneReturns(p, ok)
    PROVE  LoopsTypeOK' /\ Outside(p) /\ \A q \in Procs \ {p} : Still(q)
<1> USE DEF SchedulerTypeOK
<1>1. todo \in [Procs -> Seq(Lanes)] /\ todo[p] \in Seq(LanesOf[p]) /\ todo[p] \in Seq(Lanes) BY DEF LoopsTypeOK, LaneSound
<1>2. Tail(todo[p]) \in Seq(LanesOf[p]) /\ Tail(todo[p]) \in Seq(Lanes) BY <1>1
<1>3. todo' = [todo EXCEPT ![p] = Tail(todo[p])] /\ job' = [job EXCEPT ![p] = NoJob] BY DEF LaneReturns
<1>4. todo' \in [Procs -> Seq(Lanes)] /\ todo'[p] = Tail(todo[p]) /\ \A q \in Procs \ {p} : todo'[q] = todo[q]
    BY <1>1, <1>2, <1>3
<1>5. job' \in [Procs -> Jobs] /\ \A q \in Procs \ {p} : job'[q] = job[q] BY <1>3, NoJobIsJob DEF LoopsTypeOK
<1>6. CASE Tail(todo[p]) = <<>>
    <2>1. PICK c \in 0..MaxConsecutive : AfterPass(p, c)
        <3>1. (IF bad[p] \/ ~ok THEN fails[p] + 1 ELSE 0) \in 0..MaxConsecutive BY Bounds DEF LoopsTypeOK
        <3> QED BY <1>6, <3>1 DEF LaneReturns
    <2>2. /\ step' \in [Procs -> Steps] /\ fails' \in [Procs -> 0..(MaxConsecutive - 1)] /\ bad' \in [Procs -> BOOLEAN]
          /\ step'[p] \in {"down", "sleep"} /\ \A q \in Procs \ {p} : step'[q] = step[q]
        BY <2>1, PassEnds
    <2> QED BY <1>2, <1>4, <1>5, <2>2 DEF LoopsTypeOK, Outside, Still
<1>7. CASE Tail(todo[p]) # <<>>
    <2>1. step' = [step EXCEPT ![p] = "pass"] /\ bad' = [bad EXCEPT ![p] = @ \/ ~ok] /\ fails' = fails
        BY <1>7 DEF LaneReturns, Goto
    <2>2. step' \in [Procs -> Steps] /\ step'[p] = "pass" /\ \A q \in Procs \ {p} : step'[q] = step[q]
        BY <2>1 DEF LoopsTypeOK, Steps
    <2>3. bad' \in [Procs -> BOOLEAN] BY <2>1, Zenon DEF LoopsTypeOK
    <2> QED BY <1>2, <1>4, <1>5, <1>7, <2>1, <2>2, <2>3 DEF LoopsTypeOK, Outside, Still
<1> QED BY <1>6, <1>7

\* A step of process p that keeps the tables sound and p's own part of the invariant.
LEMMA ProcKeeps ==
    ASSUME IInv, NEW p \in Procs, TablesTypeOK', LoopsTypeOK', Grows, \A q \in Procs \ {p} : Still(q),
           LaneSound(p)', WritesInOrder(p)', ForecastFromFullHistory', FeaturesOfClosedHours', EvidenceBacked'
    PROVE  IInv'
<1>1. now' \in Int BY Bounds DEF TablesTypeOK, Ticks
<1>2. \A q \in Procs : LaneSound(q)' /\ WritesInOrder(q)'
    <2> SUFFICES ASSUME NEW q \in Procs, q # p PROVE LaneSound(q)' /\ WritesInOrder(q)' OBVIOUS
    <2>1. Still(q) /\ LaneSound(q) /\ WritesInOrder(q) /\ SchedulerTypeOK BY DEF IInv, ServingInv
    <2> QED BY <1>1, <2>1, StillSound
<1> QED BY <1>2 DEF IInv, ServingInv, SchedulerTypeOK

\* The same when the tables stay as they are.
LEMMA ProcKeepsTables ==
    ASSUME IInv, NEW p \in Procs, TablesStay, now' = now, faults' \in 0..MaxFaults, LoopsTypeOK',
           \A q \in Procs \ {p} : Still(q), LaneSound(p)', WritesInOrder(p)'
    PROVE  IInv'
<1>1. TablesTypeOK' BY DEF IInv, ServingInv, SchedulerTypeOK, TablesTypeOK, TablesStay
<1>2. Grows
    <2>1. now \in Int BY Bounds DEF IInv, ServingInv, SchedulerTypeOK, TablesTypeOK, Ticks
    <2> QED BY <2>1 DEF Grows, TablesStay, Warned
<1>3. ForecastFromFullHistory' /\ FeaturesOfClosedHours'
    BY DEF IInv, ServingInv, ForecastFromFullHistory, FullHistory, HasWindow, FeaturesOfClosedHours, TablesStay
<1>4. EvidenceBacked' BY DEF IInv, EvidenceBacked, TablesStay
<1> QED BY <1>1, <1>2, <1>3, <1>4, ProcKeeps

\* A sequence of one member.
LEMMA OneMember ==
    ASSUME NEW S, NEW x \in S
    PROVE  <<x>> \in Seq(S)
OBVIOUS

\* Short sequences put together.
LEMMA PairOf ==
    ASSUME NEW x, NEW y
    PROVE  <<x>> \o <<y>> = <<x, y>>
<1> DEFINE a == <<x>> \o <<y>>
           b == <<x, y>>
<1>1. a \in Seq({x, y}) /\ Len(a) = 2 /\ a[1] = x /\ a[2] = y OBVIOUS
<1>2. b \in Seq({x, y}) /\ Len(b) = 2 /\ b[1] = x /\ b[2] = y OBVIOUS
<1> HIDE DEF a, b
<1>3. \A i \in 1..Len(a) : a[i] = b[i] BY <1>1, <1>2
<1>4. a = b BY <1>1, <1>2, <1>3, SeqEqual
<1> QED BY <1>4 DEF a, b

\* Three members.
LEMMA TripleOf ==
    ASSUME NEW x, NEW y, NEW z
    PROVE  <<x, y>> \o <<z>> = <<x, y, z>>
<1> DEFINE a == <<x, y>> \o <<z>>
           b == <<x, y, z>>
<1>1. a \in Seq({x, y, z}) /\ Len(a) = 3 /\ a[1] = x /\ a[2] = y /\ a[3] = z OBVIOUS
<1>2. b \in Seq({x, y, z}) /\ Len(b) = 3 /\ b[1] = x /\ b[2] = y /\ b[3] = z OBVIOUS
<1> HIDE DEF a, b
<1>3. \A i \in 1..Len(a) : a[i] = b[i] BY <1>1, <1>2
<1>4. a = b BY <1>1, <1>2, <1>3, SeqEqual
<1> QED BY <1>4 DEF a, b

\* The tables a run writes, in their order.
LEMMA OrderOfTables ==
    ASSUME NEW fore, NEW warn
    PROVE  /\ TableOrder(fore, warn) \in WriteOrders
           /\ TableOrder(fore, warn)[1] # "forecast" => fore = {}
           /\ NoWarningLeft(TableOrder(fore, warn)) => warn = {}
<1>1. <<>> \o <<"warning">> = <<"warning">> /\ <<>> \o <<>> = <<>> /\ <<>> \o <<"evidence">> = <<"evidence">>
      /\ <<"forecast">> \o <<>> = <<"forecast">>
    OBVIOUS
<1>2. TableOrder(fore, warn) = IF fore = {} THEN IF warn = {} THEN <<"evidence">> ELSE <<"warning", "evidence">>
                               ELSE IF warn = {} THEN <<"forecast", "evidence">> ELSE <<"forecast", "warning", "evidence">>
    BY <1>1, PairOf, TripleOf DEF TableOrder, WriteIf
<1>3. <<"warning", "evidence">> # <<"evidence">> /\ <<"warning", "evidence">> # <<"forecast", "evidence">>
      /\ <<"forecast", "warning", "evidence">> # <<"evidence">>
      /\ <<"forecast", "warning", "evidence">> # <<"forecast", "evidence">>
    OBVIOUS
<1> QED BY <1>2, <1>3 DEF WriteOrders, NoWarningLeft

\* The lists of tables, and what is left of them after one.
LEMMA LeftOfTables ==
    ASSUME NEW left \in WriteOrders
    PROVE  /\ left \in Seq(Tables) /\ left # <<>> /\ Head(left) = left[1] /\ left[1] \in Tables
           /\ left[1] = "evidence" => left = <<"evidence">> /\ Len(left) = 1 /\ NoWarningLeft(left)
           /\ left[1] # "evidence" => /\ Len(left) # 1 /\ Tail(left) \in WriteOrders /\ Tail(left)[1] # "forecast"
                                      /\ Tail(left) \in Seq(Tables) /\ Tail(left) # <<>>
           /\ left[1] = "forecast" /\ NoWarningLeft(Tail(left)) => NoWarningLeft(left)
<1> USE DEF WriteOrders, Tables, NoWarningLeft
<1>1. CASE left = <<"forecast", "warning", "evidence">>
    <2>1. Tail(left) = <<"warning", "evidence">> BY <1>1
    <2> QED BY <1>1, <2>1
<1>2. CASE left = <<"forecast", "evidence">>
    <2>1. Tail(left) = <<"evidence">> BY <1>2
    <2> QED BY <1>2, <2>1
<1>3. CASE left = <<"warning", "evidence">>
    <2>1. Tail(left) = <<"evidence">> BY <1>3
    <2> QED BY <1>3, <2>1
<1>4. CASE left = <<"evidence">> BY <1>4
<1> QED BY <1>1, <1>2, <1>3, <1>4

\* The start.
LEMMA ServingInit == Init => IInv
<1> SUFFICES ASSUME Init PROVE IInv OBVIOUS
<1>1. TablesTypeOK BY Bounds DEF Init, TablesTypeOK, Ticks
<1>2. LoopsTypeOK BY Bounds, NoJobIsJob DEF Init, LoopsTypeOK, Steps
<1>3. ForecastFromFullHistory /\ FeaturesOfClosedHours /\ EvidenceBacked
    BY DEF Init, ForecastFromFullHistory, FeaturesOfClosedHours, EvidenceBacked
<1>4. \A p \in Procs : LaneSound(p) /\ WritesInOrder(p) BY DEF Init, LaneSound, WritesInOrder
<1> QED BY <1>1, <1>2, <1>3, <1>4 DEF IInv, ServingInv, SchedulerTypeOK

\* The clock and the rows that arrive.
LEMMA ArrivalKeeps ==
    ASSUME IInv, Arrival
    PROVE  IInv'
<1> USE DEF IInv, ServingInv, SchedulerTypeOK
<1>0. UNCHANGED <<procState, feature, forecast, warning, evidence, faults>>
    BY DEF Arrival, Tick, HourArrives, WindowArrives, data, procState
<1>1. now' \in Ticks /\ now <= now' /\ now \in Int
    BY Bounds DEF Arrival, Tick, HourArrives, WindowArrives, TablesTypeOK, Ticks
<1>2. hourly' \in [Meters -> SUBSET Hours]
    BY DEF Arrival, Tick, HourArrives, WindowArrives, TablesTypeOK, data
<1>3. peak' \in [PMeters -> SUBSET (RefEnd..LastWindow)] /\ \A m \in PMeters : peak[m] \subseteq peak'[m]
    BY DEF Arrival, Tick, HourArrives, WindowArrives, TablesTypeOK, data
<1>4. TablesTypeOK' BY <1>0, <1>1, <1>2, <1>3 DEF TablesTypeOK
<1>5. LoopsTypeOK' BY <1>0 DEF LoopsTypeOK, procState
<1>6. Grows BY <1>0, <1>1, <1>3 DEF Grows, Warned
<1>7. ForecastFromFullHistory'
    <2>1. \A b \in Bases : forecast[b] \subseteq PMeters BY DEF TablesTypeOK
    <2>2. \A b \in Bases : \A m \in forecast[b] : FullHistory(m, b)' BY <1>6, <2>1, HistoryStays DEF ForecastFromFullHistory
    <2> QED BY <1>0, <2>2 DEF ForecastFromFullHistory
<1>8. FeaturesOfClosedHours'
    <2>0. \A r \in feature : r[1] \in Hours BY DEF TablesTypeOK
    <2>a. \A h \in Hours : h \in Int BY Bounds
    <2>1. \A r \in feature : r[1] \in Int BY <2>0, <2>a
    <2>2. now' \in Int BY <1>1, Bounds DEF Ticks
    <2> QED BY <1>0, <1>1, <2>1, <2>2, Bounds DEF FeaturesOfClosedHours
<1>9. EvidenceBacked' BY <1>0 DEF EvidenceBacked
<1>10. \A q \in Procs : Still(q) BY <1>0 DEF Still, procState
<1>11. now' \in Int BY <1>1, Bounds DEF Ticks
<1>12. \A q \in Procs : LaneSound(q)' /\ WritesInOrder(q)' BY <1>6, <1>10, <1>11, StillSound
<1> QED BY <1>4, <1>5, <1>7, <1>8, <1>9, <1>12

\* A lane's return without a write.
LEMMA ReturnKeeps ==
    ASSUME IInv, NEW p \in Procs, NEW ok \in BOOLEAN, todo[p] # <<>>, LaneReturns(p, ok), TablesStay, now' = now,
           faults' \in 0..MaxFaults
    PROVE  IInv'
<1>1. SchedulerTypeOK /\ LaneSound(p) BY DEF IInv, ServingInv
<1>2. LoopsTypeOK' /\ Outside(p) /\ \A q \in Procs \ {p} : Still(q) BY <1>1, LaneEnds
<1> QED BY <1>2, OutsideSound, ProcKeepsTables

\* The steps of a process that write no table.
LEMMA LoopKeeps ==
    ASSUME IInv, NEW p \in Procs,
           \/ StartProc(p) \/ StartPass(p, TRUE) \/ StartPass(p, FALSE)
           \/ RunFails(p) \/ PassRaises(p) \/ Crash(p)
    PROVE  IInv'
<1>t. LoopsTypeOK /\ SchedulerTypeOK /\ LaneSound(p) /\ faults \in 0..MaxFaults
    BY DEF IInv, ServingInv, SchedulerTypeOK, TablesTypeOK
<1>e. <<>> \in Seq(LanesOf[p]) /\ <<>> \in Seq(Lanes) OBVIOUS
<1>1. CASE StartProc(p)
    <2>1. TablesStay /\ now' = now /\ faults' \in 0..MaxFaults BY <1>1, <1>t DEF StartProc, TablesStay, data
    <2>2. LoopsTypeOK' BY <1>1, <1>t DEF StartProc, Goto, LoopsTypeOK, Steps
    <2>3. Outside(p) /\ \A q \in Procs \ {p} : Still(q)
        BY <1>1, <1>t DEF StartProc, Goto, LoopsTypeOK, Outside, Still, LaneSound
    <2> QED BY <2>1, <2>2, <2>3, OutsideSound, ProcKeepsTables
<1>2. ASSUME NEW elapsed \in BOOLEAN, StartPass(p, elapsed) PROVE IInv'
    <2>1. TablesStay /\ now' = now /\ faults' \in 0..MaxFaults BY <1>2, <1>t DEF StartPass, TablesStay, data
    <2> DEFINE list == RunIf(p, "feature", TRUE) \o RunIf(p, "pmax", elapsed) \o RunIf(p, "anomaly", TRUE)
    <2>2. list \in Seq(LanesOf[p])
        <3>1. ASSUME NEW l, NEW due \in BOOLEAN PROVE RunIf(p, l, due) \in Seq(LanesOf[p])
            <4>1. (l \in LanesOf[p] /\ RunIf(p, l, due) = <<l>>) \/ RunIf(p, l, due) = <<>> BY Zenon DEF RunIf
            <4>2. l \in LanesOf[p] => <<l>> \in Seq(LanesOf[p]) BY OneMember
            <4>3. <<>> \in Seq(LanesOf[p]) OBVIOUS
            <4> QED BY <4>1, <4>2, <4>3, Zenon
        <3> DEFINE f == RunIf(p, "feature", TRUE)
                   g == RunIf(p, "pmax", elapsed)
                   h == RunIf(p, "anomaly", TRUE)
        <3>2. f \in Seq(LanesOf[p]) /\ g \in Seq(LanesOf[p]) /\ h \in Seq(LanesOf[p]) BY <3>1
        <3> HIDE DEF f, g, h
        <3>3. f \o g \o h \in Seq(LanesOf[p]) BY <3>2
        <3> QED BY <3>3 DEF f, g, h
    <2>3. list \in Seq(Lanes)
        <3>1. LanesOf[p] \subseteq Lanes BY SchedulerSetsAssumption
        <3> HIDE DEF list
        <3> QED BY <2>2, <3>1
    <2> HIDE DEF list
    <2>4. todo' = [todo EXCEPT ![p] = list] /\ job' = job BY <1>2 DEF StartPass, list
    <2>5. todo' \in [Procs -> Seq(Lanes)] /\ todo'[p] = list /\ \A q \in Procs \ {p} : todo'[q] = todo[q]
        BY <1>t, <2>3, <2>4 DEF LoopsTypeOK
    <2>6. CASE list = <<>>
        <3>1. AfterPass(p, 0) /\ 0 \in 0..MaxConsecutive BY <1>2, <2>5, <2>6, Bounds DEF StartPass
        <3>2. /\ step' \in [Procs -> Steps] /\ fails' \in [Procs -> 0..(MaxConsecutive - 1)] /\ bad' \in [Procs -> BOOLEAN]
              /\ step'[p] \in {"down", "sleep"} /\ \A q \in Procs \ {p} : step'[q] = step[q]
            BY <1>t, <3>1, PassEnds
        <3>3. LoopsTypeOK' BY <1>t, <2>4, <2>5, <3>2 DEF LoopsTypeOK
        <3>4. Outside(p) /\ \A q \in Procs \ {p} : Still(q) BY <2>2, <2>4, <2>5, <3>2 DEF Outside, Still
        <3> QED BY <2>1, <3>3, <3>4, OutsideSound, ProcKeepsTables
    <2>7. CASE list # <<>>
        <3>1. step' = [step EXCEPT ![p] = "pass"] /\ UNCHANGED <<bad, fails>> BY <1>2, <2>5, <2>7 DEF StartPass, Goto
        <3>2. LoopsTypeOK' BY <1>t, <2>4, <2>5, <3>1 DEF LoopsTypeOK, Steps
        <3>3. Outside(p) /\ \A q \in Procs \ {p} : Still(q)
            BY <1>t, <2>2, <2>4, <2>5, <2>7, <3>1 DEF Outside, Still, LoopsTypeOK
        <3> QED BY <2>1, <3>2, <3>3, OutsideSound, ProcKeepsTables
    <2> QED BY <2>6, <2>7
<1>3. CASE RunFails(p)
    <2>1. TablesStay /\ now' = now /\ faults' \in 0..MaxFaults BY <1>3, <1>t, Bounds DEF RunFails, TablesStay, data
    <2>2. todo[p] # <<>> /\ LaneReturns(p, FALSE) BY <1>3, <1>t DEF RunFails, LaneSound
    <2> QED BY <2>1, <2>2, ReturnKeeps
<1>4. CASE PassRaises(p)
    <2>1. TablesStay /\ now' = now /\ faults' \in 0..MaxFaults BY <1>4, <1>t, Bounds DEF PassRaises, TablesStay, data
    <2>2. AfterPass(p, fails[p] + 1) /\ fails[p] + 1 \in 0..MaxConsecutive BY <1>4, <1>t, Bounds DEF PassRaises, LoopsTypeOK
    <2>3. todo' = [todo EXCEPT ![p] = <<>>] /\ job' = [job EXCEPT ![p] = NoJob] BY <1>4 DEF PassRaises
    <2>4. /\ step' \in [Procs -> Steps] /\ fails' \in [Procs -> 0..(MaxConsecutive - 1)] /\ bad' \in [Procs -> BOOLEAN]
          /\ step'[p] \in {"down", "sleep"} /\ \A q \in Procs \ {p} : step'[q] = step[q]
        BY <1>t, <2>2, PassEnds
    <2>5. LoopsTypeOK' BY <1>t, <1>e, <2>3, <2>4, NoJobIsJob DEF LoopsTypeOK
    <2>6. Outside(p) /\ \A q \in Procs \ {p} : Still(q) BY <1>t, <1>e, <2>3, <2>4 DEF Outside, Still, LoopsTypeOK
    <2> QED BY <2>1, <2>5, <2>6, OutsideSound, ProcKeepsTables
<1>5. CASE Crash(p)
    <2>1. TablesStay /\ now' = now /\ faults' \in 0..MaxFaults BY <1>5, <1>t, Bounds DEF Crash, TablesStay, data
    <2>2. /\ step' = [step EXCEPT ![p] = "down"] /\ todo' = [todo EXCEPT ![p] = <<>>] /\ job' = [job EXCEPT ![p] = NoJob]
          /\ bad' = [bad EXCEPT ![p] = FALSE] /\ fails' = [fails EXCEPT ![p] = 0]
        BY <1>5 DEF Crash, Goto
    <2>3. LoopsTypeOK' BY <1>t, <1>e, <2>2, NoJobIsJob, Bounds DEF LoopsTypeOK, Steps
    <2>4. Outside(p) /\ \A q \in Procs \ {p} : Still(q) BY <1>t, <1>e, <2>2 DEF Outside, Still, LoopsTypeOK
    <2> QED BY <2>1, <2>3, <2>4, OutsideSound, ProcKeepsTables
<1> QED BY <1>1, <1>2, <1>3, <1>4, <1>5

\* A process that enters a lane, or goes on in it, with a sound job.
LEMMA EnterKeeps ==
    ASSUME IInv, NEW p \in Procs, NEW s \in Steps, NEW new \in Jobs,
           step' = [step EXCEPT ![p] = s], job' = [job EXCEPT ![p] = new],
           UNCHANGED <<todo, bad, fails, now, data, faults>>, LaneSound(p)', WritesInOrder(p)'
    PROVE  IInv'
<1>1. TablesStay /\ now' = now /\ faults' \in 0..MaxFaults
    BY DEF TablesStay, data, IInv, ServingInv, SchedulerTypeOK, TablesTypeOK
<1>2. LoopsTypeOK' /\ \A q \in Procs \ {p} : Still(q)
    BY DEF IInv, ServingInv, SchedulerTypeOK, LoopsTypeOK, Still
<1> QED BY <1>1, <1>2, ProcKeepsTables

\* The first transaction of a lane chooses what the later ones work on.
LEMMA ChooseKeeps ==
    ASSUME IInv, NEW p \in Procs, run_anomaly_feature(p) \/ run_pmax_serving(p) \/ run_anomaly_serving(p)
    PROVE  IInv'
<1>t. TablesTypeOK /\ LoopsTypeOK /\ SchedulerTypeOK /\ LaneSound(p) /\ faults \in 0..MaxFaults
    BY DEF IInv, ServingInv, SchedulerTypeOK, TablesTypeOK
<1>0. step[p] = "pass" /\ todo[p] # <<>> /\ todo[p] \in Seq(LanesOf[p])
    BY <1>t DEF run_anomaly_feature, run_pmax_serving, run_anomaly_serving, Select, AtLane, LaneSound
<1>1. CASE run_anomaly_feature(p)
    <2>1. CASE CappedEnd < MaxExisting
        <3>1. LaneReturns(p, TRUE) /\ TablesStay /\ now' = now /\ faults' \in 0..MaxFaults
            BY <1>1, <1>t, <2>1 DEF run_anomaly_feature, TablesStay, data
        <3> QED BY <1>0, <3>1, ReturnKeeps
    <2>2. CASE ~(CappedEnd < MaxExisting)
        <3> DEFINE new == [NoJob EXCEPT !.base = MaxExisting, !.upto = CappedEnd]
        <3>1. step' = [step EXCEPT ![p] = "insert"] /\ job' = [job EXCEPT ![p] = new]
              /\ UNCHANGED <<todo, bad, fails, now, data, faults>>
            BY <1>1, <2>2 DEF run_anomaly_feature, Goto
        <3>2. MaxExisting \in Bases \cup {NoBase, Epoch} BY <1>t, ExistingHour, Bounds
        <3>3. CappedEnd \in Epoch..LastTick /\ CappedEnd + HourTicks <= now BY <1>t, CapIsClosed
        <3>4. new \in Jobs /\ new.upto = CappedEnd BY <3>2, <3>3, NoJobIsJob DEF NoJob, Jobs
        <3> HIDE DEF new
        <3>5. step'[p] = "insert" /\ job'[p] = new /\ todo'[p] = todo[p] BY <1>t, <3>1 DEF LoopsTypeOK
        <3>6. CappedEnd \in Int BY <3>3, Bounds
        <3>7. LaneSound(p)' /\ WritesInOrder(p)' BY <1>0, <3>1, <3>3, <3>4, <3>5, <3>6 DEF LaneSound, WritesInOrder
        <3> QED BY <3>1, <3>4, <3>7, EnterKeeps DEF Steps
    <2> QED BY <2>1, <2>2
<1>2. ASSUME NEW l, NEW base \in Bases \cup {NoBase}, Select(p, l, base) PROVE IInv'
    <2>1. CASE base = NoBase
        <3>1. LaneReturns(p, TRUE) /\ TablesStay /\ now' = now /\ faults' \in 0..MaxFaults
            BY <1>2, <1>t, <2>1 DEF Select, TablesStay, data
        <3> QED BY <1>0, <3>1, ReturnKeeps
    <2>2. CASE base # NoBase
        <3> DEFINE new == [job[p] EXCEPT !.base = base]
        <3>1. step' = [step EXCEPT ![p] = "infer"] /\ job' = [job EXCEPT ![p] = new]
              /\ UNCHANGED <<todo, bad, fails, now, data, faults>>
            BY <1>2, <2>2 DEF Select, Goto
        <3>2. new \in Jobs /\ new.base = base BY <1>t DEF LoopsTypeOK, Jobs
        <3> HIDE DEF new
        <3>3. step'[p] = "infer" /\ job'[p] = new /\ todo'[p] = todo[p] BY <1>t, <3>1 DEF LoopsTypeOK
        <3>4. LaneSound(p)' /\ WritesInOrder(p)' BY <1>0, <1>2, <2>2, <3>2, <3>3 DEF LaneSound, WritesInOrder
        <3> QED BY <3>1, <3>2, <3>4, EnterKeeps DEF Steps
    <2> QED BY <2>1, <2>2
<1>3. select_pmax_base_ts \in Bases \cup {NoBase} /\ select_anomaly_base_ts \in Bases \cup {NoBase}
    BY <1>t, PmaxBase, AnomalyBase
<1> QED BY <1>1, <1>2, <1>3 DEF run_pmax_serving, run_anomaly_serving

\* The inputs are read.
LEMMA InferKeeps ==
    ASSUME IInv, NEW p \in Procs, Infer(p)
    PROVE  IInv'
<1>t. TablesTypeOK /\ LoopsTypeOK /\ SchedulerTypeOK /\ LaneSound(p) /\ faults \in 0..MaxFaults
    BY DEF IInv, ServingInv, SchedulerTypeOK, TablesTypeOK
<1>0. step[p] = "infer" /\ todo[p] # <<>> /\ todo[p] \in Seq(LanesOf[p]) /\ job[p].base \in Bases
    BY <1>t DEF Infer, LaneSound
<1> DEFINE b == job[p].base
           pmax == Head(todo[p]) = "pmax"
           fore == IF pmax THEN build_pmax_feature_vectors(b) ELSE {}
           warn == IF pmax THEN ReferenceWarnings(b) ELSE LiveWarnings(b)
           new == [job[p] EXCEPT !.fore = fore, !.warn = warn, !.left = TableOrder(fore, warn)]
<1>1. CASE (IF pmax THEN fore ELSE warn) = {}
    <2>1. LaneReturns(p, FALSE) /\ TablesStay /\ now' = now /\ faults' \in 0..MaxFaults
        BY <1>1, <1>t DEF Infer, TablesStay, data
    <2> QED BY <1>0, <2>1, ReturnKeeps
<1>2. CASE (IF pmax THEN fore ELSE warn) # {}
    <2>1. step' = [step EXCEPT ![p] = "write"] /\ job' = [job EXCEPT ![p] = new]
          /\ UNCHANGED <<todo, bad, fails, now, data, faults>>
        BY <1>2 DEF Infer, Goto
    <2>2. fore \subseteq PMeters /\ \A m \in fore : FullHistory(m, b) BY DEF build_pmax_feature_vectors
    <2>3. warn \subseteq Meters \X {"live", "reference"}
        BY SchedulerSetsAssumption DEF ReferenceWarnings, LiveWarnings
    <2>4. todo[p][1] # "pmax" => fore = {} BY <1>0
    <2> HIDE DEF fore, warn
    <2>5. /\ TableOrder(fore, warn) \in WriteOrders
          /\ TableOrder(fore, warn)[1] # "forecast" => fore = {}
          /\ NoWarningLeft(TableOrder(fore, warn)) => warn = {}
        BY OrderOfTables
    <2> DEFINE left == TableOrder(fore, warn)
    <2>6. left \in Seq(Tables) /\ left # <<>> BY <2>5, LeftOfTables
    <2> HIDE DEF left
    <2>7. new \in Jobs /\ new.base = b /\ new.fore = fore /\ new.warn = warn /\ new.left = left
        BY <1>t, <2>2, <2>3, <2>6 DEF LoopsTypeOK, Jobs, left
    <2> HIDE DEF new, b
    <2>8. step'[p] = "write" /\ job'[p] = new /\ todo'[p] = todo[p] BY <1>t, <2>1 DEF LoopsTypeOK
    <2>a. b \in Bases BY <1>0 DEF b
    <2>10. LaneSound(p)'
        <3>1. \A m \in job'[p].fore : FullHistory(m, job[p].base)' BY <2>1, <2>2, <2>7, <2>8 DEF FullHistory, HasWindow, data
        <3> QED BY <1>0, <2>a, <2>6, <2>7, <2>8, <3>1 DEF LaneSound
    <2>11. WritesInOrder(p)'
        <3>1. warn = {} => {r[1] : r \in warn} = {} OBVIOUS
        <3> QED BY <2>4, <2>5, <2>7, <2>8, <3>1 DEF WritesInOrder, left
    <2> QED BY <2>1, <2>7, <2>10, <2>11, EnterKeeps DEF Steps
<1> QED BY <1>1, <1>2

\* The feature rows of a pass.
LEMMA FeatureKeeps ==
    ASSUME IInv, NEW p \in Procs, execute_anomaly_feature_materialization(p)
    PROVE  IInv'
<1>t. TablesTypeOK /\ LoopsTypeOK /\ SchedulerTypeOK /\ LaneSound(p) /\ FeaturesOfClosedHours
    BY DEF IInv, ServingInv, SchedulerTypeOK
<1>0. /\ todo[p] # <<>> /\ job[p].upto \in Int /\ job[p].upto + HourTicks <= now
      /\ LaneReturns(p, TRUE) /\ UNCHANGED <<now, hourly, peak, forecast, warning, evidence, faults>>
    BY <1>t DEF execute_anomaly_feature_materialization, LaneSound
<1>1. \A r \in feature' : r \in feature \/ (r \in Hours \X Meters /\ r[1] <= job[p].upto)
    BY DEF execute_anomaly_feature_materialization, Candidates
<1>2. TablesTypeOK' BY <1>t, <1>0, <1>1 DEF TablesTypeOK
<1>3. LoopsTypeOK' /\ Outside(p) /\ \A q \in Procs \ {p} : Still(q) BY <1>t, <1>0, LaneEnds
<1>4. now \in Int BY <1>t, Bounds DEF TablesTypeOK, Ticks
<1>5. Grows BY <1>0, <1>4 DEF Grows, Warned
<1>6. FeaturesOfClosedHours'
    <2> SUFFICES ASSUME NEW r \in feature', r \notin feature PROVE r[1] + HourTicks <= now
        BY <1>t, <1>0 DEF FeaturesOfClosedHours
    <2>1. r[1] \in Hours /\ r[1] <= job[p].upto BY <1>1
    <2>2. r[1] \in Int BY <2>1, Bounds
    <2> QED BY <1>0, <1>4, <2>1, <2>2, Bounds
<1>7. ForecastFromFullHistory' /\ EvidenceBacked'
    BY <1>0 DEF IInv, ServingInv, ForecastFromFullHistory, FullHistory, HasWindow, EvidenceBacked
<1>8. LaneSound(p)' /\ WritesInOrder(p)' BY <1>3, OutsideSound
<1> QED BY <1>2, <1>3, <1>5, <1>6, <1>7, <1>8, ProcKeeps

\* One table of a run.
LEMMA WriteKeeps ==
    ASSUME IInv, NEW p \in Procs, WriteTable(p)
    PROVE  IInv'
<1> DEFINE base == job[p].base
           fore == job[p].fore
           warn == job[p].warn
           left == job[p].left
           table == Head(left)
           meters == {r[1] : r \in warn}
           packet == [lane |-> Head(todo[p]), base |-> base, pmax |-> fore, anomaly |-> meters]
<1>t. TablesTypeOK /\ LoopsTypeOK /\ SchedulerTypeOK /\ LaneSound(p) /\ WritesInOrder(p)
    BY DEF IInv, ServingInv, SchedulerTypeOK
<1>j. fore \subseteq PMeters /\ warn \subseteq Meters \X {"live", "reference"} BY <1>t DEF LoopsTypeOK, Jobs
<1>0. /\ step[p] = "write" /\ todo[p] # <<>> /\ todo[p] \in Seq(Lanes) /\ base \in Bases
      /\ \A m \in fore : FullHistory(m, base)
      /\ UNCHANGED <<now, hourly, peak, feature, faults>>
    BY <1>t DEF WriteTable, LaneSound, LoopsTypeOK
<1>1. /\ left \in WriteOrders
      /\ left[1] # "forecast" => fore \subseteq forecast[base]
      /\ NoWarningLeft(left) => meters \subseteq Warned(base)
    BY <1>t, <1>0 DEF WritesInOrder
<1>2. /\ left # <<>> /\ table = left[1] /\ table \in Tables
      /\ table = "evidence" => Len(left) = 1 /\ NoWarningLeft(left)
      /\ table # "evidence" => /\ Len(left) # 1 /\ Tail(left) \in WriteOrders /\ Tail(left)[1] # "forecast"
                               /\ Tail(left) \in Seq(Tables) /\ Tail(left) # <<>>
      /\ table = "forecast" /\ NoWarningLeft(Tail(left)) => NoWarningLeft(left)
    <2> HIDE DEF left
    <2> QED BY <1>1, LeftOfTables
<1>3. forecast' = IF table = "forecast" THEN [forecast EXCEPT ![base] = forecast[base] \cup fore] ELSE forecast
    BY DEF WriteTable
<1>4. warning' = IF table = "warning"
                 THEN [warning EXCEPT ![base] = {r \in warning[base] : r[1] \notin meters} \cup warn] ELSE warning
    BY DEF WriteTable
<1>5. evidence' = IF table = "evidence"
                  THEN {e \in evidence : <<e.lane, e.base>> # <<packet.lane, packet.base>>} \cup {packet}
                  ELSE evidence
    BY DEF WriteTable
<1>6. IF Len(left) = 1 THEN LaneReturns(p, TRUE)
      ELSE job' = [job EXCEPT ![p].left = Tail(left)] /\ UNCHANGED <<step, todo, bad, fails>>
    BY DEF WriteTable
<1>7. packet \in Packets /\ packet.base = base /\ packet.pmax = fore /\ packet.anomaly = meters
    <2>1. Head(todo[p]) \in Lanes BY <1>0
    <2>2. meters \subseteq Meters BY <1>j
    <2> HIDE DEF meters, fore, base
    <2> QED BY <1>0, <1>j, <2>1, <2>2 DEF Packets
<1>w. {r[1] : r \in warn} = meters OBVIOUS
<1> HIDE DEF packet, table, left, warn, fore, base
<1>8. TablesTypeOK'
    <2>1. forecast' \in [Bases -> SUBSET PMeters] BY <1>t, <1>j, <1>0, <1>3 DEF TablesTypeOK
    <2>2. warning' \in [Bases -> SUBSET (Meters \X {"live", "reference"})]
        BY <1>t, <1>j, <1>0, <1>4 DEF TablesTypeOK
    <2>3. evidence' \subseteq Packets BY <1>t, <1>5, <1>7 DEF TablesTypeOK
    <2> QED BY <1>t, <1>0, <2>1, <2>2, <2>3 DEF TablesTypeOK
<1>9. /\ \A b \in Bases : forecast[b] \subseteq forecast'[b] /\ (b # base => forecast'[b] = forecast[b])
      /\ forecast'[base] \subseteq forecast[base] \cup fore
      /\ table = "forecast" => fore \subseteq forecast'[base]
    BY <1>t, <1>0, <1>3 DEF TablesTypeOK
<1>10. \A b \in Bases : Warned(b) \subseteq Warned(b)'
    <2>1. CASE table # "warning" BY <1>4, <2>1 DEF Warned
    <2>2. CASE table = "warning"
        <3> SUFFICES ASSUME NEW b \in Bases, NEW r \in warning[b]
                     PROVE  \E s \in warning'[b] : s[1] = r[1]
            BY DEF Warned
        <3>1. warning'[b] = IF b = base THEN {x \in warning[base] : x[1] \notin meters} \cup warn ELSE warning[b]
            BY <1>t, <1>0, <1>4, <2>2 DEF TablesTypeOK
        <3>2. CASE b # base BY <3>1, <3>2
        <3>3. CASE b = base /\ r[1] \notin meters BY <3>1, <3>3
        <3>4. CASE b = base /\ r[1] \in meters
            <4>1. PICK s \in warn : s[1] = r[1] BY <3>4
            <4> QED BY <3>1, <3>4, <4>1
        <3> QED BY <3>2, <3>3, <3>4
    <2> QED BY <2>1, <2>2
<1>11. table = "warning" => \A m \in meters : \E s \in warning'[base] : s[1] = m
    <2>1. table = "warning" => warn \subseteq warning'[base] BY <1>t, <1>0, <1>4 DEF TablesTypeOK
    <2> QED BY <2>1
<1>12. now \in Int BY <1>t, Bounds DEF TablesTypeOK, Ticks
<1>13. Grows BY <1>0, <1>9, <1>10, <1>12 DEF Grows
<1>14. \A m, b : FullHistory(m, b) => FullHistory(m, b)' BY <1>0 DEF FullHistory, HasWindow
<1>15. ForecastFromFullHistory'
    <2> SUFFICES ASSUME NEW b \in Bases, NEW m \in forecast'[b] PROVE FullHistory(m, b)
        BY <1>14 DEF ForecastFromFullHistory
    <2>1. m \in forecast[b] \/ (b = base /\ m \in fore) BY <1>9
    <2> QED BY <1>0, <2>1 DEF IInv, ServingInv, ForecastFromFullHistory
<1>16. FeaturesOfClosedHours' BY <1>0 DEF IInv, ServingInv, FeaturesOfClosedHours
<1>17. EvidenceBacked'
    <2> SUFFICES ASSUME NEW e \in evidence'
                 PROVE  e.pmax \subseteq forecast'[e.base] /\ \A m \in e.anomaly : \E s \in warning'[e.base] : s[1] = m
        BY DEF EvidenceBacked
    <2>1. CASE e \in evidence
        <3>1. e.base \in Bases BY <1>t, <2>1 DEF TablesTypeOK, Packets
        <3>2. e.pmax \subseteq forecast[e.base] /\ e.anomaly \subseteq Warned(e.base)
            BY <2>1 DEF IInv, EvidenceBacked, Warned
        <3>3. Warned(e.base) \subseteq {r[1] : r \in warning'[e.base]} BY <1>10, <3>1 DEF Warned
        <3> QED BY <1>9, <3>1, <3>2, <3>3
    <2>2. CASE e \notin evidence
        <3>1. e = packet /\ table = "evidence" BY <1>5, <2>2
        <3>2. warning' = warning /\ forecast' = forecast BY <1>3, <1>4, <3>1
        <3>3. fore \subseteq forecast[base] /\ meters \subseteq Warned(base) BY <1>1, <1>2, <3>1
        <3> QED BY <1>7, <3>1, <3>2, <3>3 DEF Warned
    <2> QED BY <2>1, <2>2
<1>18. CASE Len(left) = 1
    <2>1. LoopsTypeOK' /\ Outside(p) /\ \A q \in Procs \ {p} : Still(q) BY <1>t, <1>0, <1>6, <1>18, LaneEnds
    <2> QED BY <1>8, <1>13, <1>15, <1>16, <1>17, <2>1, OutsideSound, ProcKeeps
<1>19. CASE Len(left) # 1
    <2>0. table # "evidence" BY <1>2, <1>19
    <2> DEFINE new == [job[p] EXCEPT !.left = Tail(left)]
    <2>1. job' = [job EXCEPT ![p] = new] /\ UNCHANGED <<step, todo, bad, fails>> BY <1>6, <1>19
    <2>2. new \in Jobs /\ new.base = base /\ new.fore = fore /\ new.warn = warn /\ new.left = Tail(left)
        BY <1>t, <1>2, <2>0 DEF LoopsTypeOK, Jobs, base, fore, warn
    <2> HIDE DEF new
    <2>3. LoopsTypeOK' /\ job'[p] = new /\ \A q \in Procs \ {p} : Still(q)
        BY <1>t, <2>1, <2>2 DEF LoopsTypeOK, Still
    <2>4. LaneSound(p)'
        <3>2. \A m \in job'[p].fore : FullHistory(m, job[p].base)'
            BY <1>0, <2>2, <2>3 DEF FullHistory, HasWindow
        <3> QED BY <1>t, <1>0, <1>2, <2>0, <2>1, <2>2, <2>3, <3>2 DEF LaneSound
    <2>5. WritesInOrder(p)'
        <3>1. fore \subseteq forecast'[base] BY <1>0, <1>1, <1>2, <1>9
        <3>2. NoWarningLeft(Tail(left)) => \A m \in meters : \E s \in warning'[base] : s[1] = m
            <4>1. CASE table = "warning" BY <1>11, <4>1
            <4>2. CASE table = "forecast"
                <5>1. warning' = warning BY <1>4, <4>2
                <5> QED BY <1>1, <1>2, <4>2, <5>1 DEF Warned
            <4> QED BY <1>2, <2>0, <4>1, <4>2 DEF Tables
        <3>3. \A m : m \in Warned(job[p].base)' <=> \E s \in warning'[base] : s[1] = m BY <2>2, <2>3 DEF Warned
        <3>4. todo'[p][1] # "pmax" => fore = {} BY <1>t, <1>0, <2>1 DEF WritesInOrder, fore
        <3>5. {r[1] : r \in job'[p].warn} = meters BY <1>w, <2>2, <2>3
        <3>6. NoWarningLeft(Tail(left)) => {r[1] : r \in job'[p].warn} \subseteq Warned(job[p].base)' BY <3>2, <3>3, <3>5
        <3> QED BY <1>2, <2>0, <2>2, <2>3, <3>1, <3>4, <3>6 DEF WritesInOrder
    <2> QED BY <1>8, <1>13, <1>15, <1>16, <1>17, <2>3, <2>4, <2>5, ProcKeeps
<1> QED BY <1>18, <1>19

\* Every step keeps the invariant.
LEMMA ServingStep ==
    ASSUME IInv, [Next]_vars
    PROVE  IInv'
<1>1. ASSUME NEW p \in Procs, ProcStep(p) \/ StartPass(p, FALSE) \/ RunFails(p) \/ PassRaises(p) \/ Crash(p)
      PROVE  IInv'
    BY <1>1, LoopKeeps, ChooseKeeps, FeatureKeeps, InferKeeps, WriteKeeps DEF ProcStep
<1>2. CASE UNCHANGED vars
    BY <1>2 DEF vars, data, procState, IInv, ServingInv, SchedulerTypeOK, TablesTypeOK, LoopsTypeOK, EvidenceBacked,
        ForecastFromFullHistory, FeaturesOfClosedHours, FullHistory, HasWindow, LaneSound, WritesInOrder, Warned
<1> QED BY <1>1, <1>2, ArrivalKeeps DEF Next

\* Theorem: for any processes, lanes and meters, however runs fail, passes raise and containers
\* die between two transactions, a forecast was computed from the K windows before its base and a
\* feature row is of a closed hour (scripts/serving/operational_scheduler.py).
THEOREM LanesServeSoundly == Spec => []ServingInv
<1>1. IInv /\ [Next]_vars => IInv' BY ServingStep
<1>2. IInv => ServingInv BY DEF IInv
<1> QED BY <1>1, <1>2, ServingInit, PTL DEF Spec

\* Theorem: every row of qa.serving_evidence stands for rows that are in the marts, whatever stops
\* a run between two tables (data/model_serving_sink.py).
THEOREM EvidenceIsBacked == Spec => []EvidenceBacked
<1>1. IInv /\ [Next]_vars => IInv' BY ServingStep
<1>2. IInv => EvidenceBacked BY DEF IInv
<1> QED BY <1>1, <1>2, ServingInit, PTL DEF Spec

(***************************************************************************)
(* One process in the pmax lane.                                           *)
(***************************************************************************)

\* At most one container runs the pmax lane, as in stacks/model_serving/model_serving.yml.
OnePmaxProcess == \A p, q \in Procs : "pmax" \in LanesOf[p] /\ "pmax" \in LanesOf[q] => p = q

\* The base of a run under way has no evidence yet.
NotYetServed ==
    \A p \in Procs : step[p] \in {"infer", "write"} /\ todo[p][1] = "pmax" => ~PmaxServed(job[p].base)

\* A base that is served after a step was so before, or one process wrote its evidence and returned.
LEMMA ServedByWhom ==
    ASSUME IInv, [Next]_vars, NEW b, PmaxServed(b)'
    PROVE  PmaxServed(b) \/ \E p \in Procs : /\ WriteTable(p) /\ todo[p] # <<>> /\ todo[p][1] = "pmax"
                                             /\ LaneReturns(p, TRUE)
<1>1. CASE evidence' = evidence BY <1>1 DEF PmaxServed
<1>2. CASE evidence' # evidence
    <2>1. PICK p \in Procs : WriteTable(p)
        BY <1>2 DEF Next, vars, data, procState, Arrival, Tick, HourArrives, WindowArrives, ProcStep, StartProc, StartPass,
            run_anomaly_feature, execute_anomaly_feature_materialization, run_pmax_serving, run_anomaly_serving, Select,
            Infer, RunFails, PassRaises, Crash
    <2> DEFINE packet == [lane |-> Head(todo[p]), base |-> job[p].base, pmax |-> job[p].fore,
                          anomaly |-> {r[1] : r \in job[p].warn}]
    <2>2. /\ step[p] = "write" /\ Head(job[p].left) = "evidence"
          /\ evidence' = {e \in evidence : <<e.lane, e.base>> # <<packet.lane, packet.base>>} \cup {packet}
          /\ Len(job[p].left) = 1 => LaneReturns(p, TRUE)
        BY <1>2, <2>1 DEF WriteTable
    <2>3. todo[p] # <<>> /\ job[p].left \in WriteOrders /\ (todo[p][1] # "pmax" => job[p].fore = {})
        BY <2>2 DEF IInv, ServingInv, LaneSound, WritesInOrder
    <2>4. Len(job[p].left) = 1 BY <2>2, <2>3, LeftOfTables
    <2>5. packet.pmax = job[p].fore OBVIOUS
    <2> HIDE DEF packet
    <2>6. PICK e \in evidence' : e.base = b /\ e.pmax # {} BY DEF PmaxServed
    <2>7. CASE e \in evidence BY <2>6, <2>7 DEF PmaxServed
    <2>8. CASE e = packet BY <2>1, <2>2, <2>3, <2>4, <2>5, <2>6, <2>8
    <2> QED BY <2>2, <2>6, <2>7, <2>8
<1> QED BY <1>1, <1>2

\* A process that is in a run after a step was in it before, or has just chosen its base.
LEMMA InRunSince ==
    ASSUME IInv, [Next]_vars, NEW p \in Procs, step'[p] \in {"infer", "write"}, todo'[p][1] = "pmax"
    PROVE  /\ todo[p] # <<>> /\ todo[p][1] = "pmax"
           /\ \/ step[p] \in {"infer", "write"} /\ job'[p].base = job[p].base /\ ~\E ok \in BOOLEAN : LaneReturns(p, ok)
              \/ run_pmax_serving(p) /\ job'[p].base = select_pmax_base_ts /\ select_pmax_base_ts # NoBase
<1>t. LoopsTypeOK /\ LaneSound(p) BY DEF IInv, ServingInv, SchedulerTypeOK
<1>r. ASSUME NEW ok, LaneReturns(p, ok) PROVE FALSE
    <2>1. step'[p] \in {"pass", "sleep", "down"} BY <1>t, <1>r DEF LaneReturns, AfterPass, Goto, LoopsTypeOK
    <2> QED BY <2>1
<1>a. ASSUME NEW c, AfterPass(p, c) PROVE FALSE
    <2>1. step'[p] \in {"sleep", "down"} BY <1>t, <1>a DEF AfterPass, Goto, LoopsTypeOK
    <2> QED BY <2>1
<1>g. ASSUME NEW s, Goto(p, s) PROVE s \in {"infer", "write"} BY <1>t, <1>g DEF Goto, LoopsTypeOK
<1>h. ~Goto(p, "sleep") /\ ~Goto(p, "pass") /\ ~Goto(p, "insert") /\ ~Goto(p, "down")
    <2>1. Goto(p, "sleep") => "sleep" \in {"infer", "write"} BY <1>g
    <2>2. Goto(p, "pass") => "pass" \in {"infer", "write"} BY <1>g
    <2>3. Goto(p, "insert") => "insert" \in {"infer", "write"} BY <1>g
    <2>4. Goto(p, "down") => "down" \in {"infer", "write"} BY <1>g
    <2> QED BY <2>1, <2>2, <2>3, <2>4
<1>s. step[p] \in {"infer", "write"} => todo[p] # <<>> BY <1>t DEF LaneSound
<1>1. CASE Still(p) BY <1>1, <1>r, <1>s DEF Still
<1>2. ASSUME NEW q \in Procs, q # p, ProcStep(q) \/ StartPass(q, FALSE) \/ RunFails(q) \/ PassRaises(q) \/ Crash(q)
      PROVE  Still(p)
    <2>r. ASSUME NEW ok, LaneReturns(q, ok) PROVE Still(p)
        BY <1>t, <1>2, <2>r DEF LaneReturns, AfterPass, Goto, Still, LoopsTypeOK
    <2>1. CASE StartProc(q) \/ StartPass(q, TRUE) \/ StartPass(q, FALSE)
        BY <1>t, <1>2, <2>1 DEF StartProc, StartPass, AfterPass, Goto, Still, LoopsTypeOK
    <2>2. CASE run_anomaly_feature(q) \/ execute_anomaly_feature_materialization(q)
        BY <1>t, <1>2, <2>r, <2>2 DEF run_anomaly_feature, execute_anomaly_feature_materialization, Goto, Still, LoopsTypeOK
    <2>3. CASE run_pmax_serving(q) \/ run_anomaly_serving(q)
        BY <1>t, <1>2, <2>r, <2>3 DEF run_pmax_serving, run_anomaly_serving, Select, Goto, Still, LoopsTypeOK
    <2>4. CASE Infer(q)
        <3>1. (\E ok : LaneReturns(q, ok)) \/ (Goto(q, "write") /\ todo' = todo /\ \E new : job' = [job EXCEPT ![q] = new])
            BY <2>4 DEF Infer
        <3> QED BY <1>t, <1>2, <2>r, <3>1 DEF Goto, Still, LoopsTypeOK
    <2>5. CASE WriteTable(q)
        <3>1. (\E ok : LaneReturns(q, ok)) \/ (UNCHANGED <<step, todo>> /\ \E new : job' = [job EXCEPT ![q] = new])
            BY <2>5 DEF WriteTable
        <3> QED BY <1>t, <1>2, <2>r, <3>1 DEF Still, LoopsTypeOK
    <2>6. CASE RunFails(q) \/ PassRaises(q) \/ Crash(q)
        BY <1>t, <1>2, <2>r, <2>6 DEF RunFails, PassRaises, Crash, AfterPass, Goto, Still, LoopsTypeOK
    <2> QED BY <1>2, <2>1, <2>2, <2>3, <2>4, <2>5, <2>6 DEF ProcStep
<1>3. CASE Arrival \/ UNCHANGED vars
    <2>1. Still(p) BY <1>3 DEF Arrival, Tick, HourArrives, WindowArrives, vars, procState, Still
    <2> QED BY <1>1, <2>1
<1>4. CASE ProcStep(p) \/ StartPass(p, FALSE) \/ RunFails(p) \/ PassRaises(p) \/ Crash(p)
    <2>1. CASE StartProc(p) \/ StartPass(p, TRUE) \/ StartPass(p, FALSE)
        BY <1>a, <1>h, <2>1 DEF StartProc, StartPass
    <2>2. CASE run_anomaly_feature(p) \/ execute_anomaly_feature_materialization(p)
        BY <1>r, <1>h, <2>2 DEF run_anomaly_feature, execute_anomaly_feature_materialization
    <2>3. CASE run_pmax_serving(p)
        <3>1. /\ step[p] = "pass" /\ todo' = todo /\ select_pmax_base_ts # NoBase
              /\ job' = [job EXCEPT ![p].base = select_pmax_base_ts]
            BY <1>r, <2>3 DEF run_pmax_serving, Select, AtLane
        <3>2. todo[p] # <<>> BY <1>t, <3>1 DEF LaneSound
        <3>3. job'[p].base = select_pmax_base_ts BY <1>t, <3>1 DEF LoopsTypeOK, Jobs
        <3> QED BY <2>3, <3>1, <3>2, <3>3
    <2>4. CASE run_anomaly_serving(p)
        <3>1. step[p] = "pass" /\ todo' = todo /\ Head(todo[p]) = "anomaly"
            BY <1>r, <2>4 DEF run_anomaly_serving, Select, AtLane
        <3>2. todo[p] # <<>> /\ todo[p] \in Seq(LanesOf[p]) BY <1>t, <3>1 DEF LaneSound
        <3> QED BY <3>1, <3>2
    <2>5. CASE Infer(p)
        <3>1. step[p] = "infer" /\ todo' = todo BY <1>r, <2>5 DEF Infer
        <3> DEFINE pmax == Head(todo[p]) = "pmax"
                   fore == IF pmax THEN build_pmax_feature_vectors(job[p].base) ELSE {}
                   warn == IF pmax THEN ReferenceWarnings(job[p].base) ELSE LiveWarnings(job[p].base)
        <3>2. job' = [job EXCEPT ![p].fore = fore, ![p].warn = warn, ![p].left = TableOrder(fore, warn)]
            BY <1>r, <2>5 DEF Infer
        <3> HIDE DEF fore, warn
        <3>3. job'[p].base = job[p].base BY <1>t, <3>2 DEF LoopsTypeOK, Jobs
        <3> QED BY <1>r, <1>s, <3>1, <3>3
    <2>6. CASE WriteTable(p)
        <3>1. step[p] = "write" /\ todo' = todo /\ job' = [job EXCEPT ![p].left = Tail(@)] BY <1>r, <2>6 DEF WriteTable
        <3>2. job'[p].base = job[p].base BY <1>t, <3>1 DEF LoopsTypeOK, Jobs
        <3> QED BY <1>r, <1>s, <3>1, <3>2
    <2>7. CASE RunFails(p) \/ PassRaises(p) \/ Crash(p)
        BY <1>r, <1>a, <1>h, <2>7 DEF RunFails, PassRaises, Crash
    <2> QED BY <1>4, <2>1, <2>2, <2>3, <2>4, <2>5, <2>6, <2>7 DEF ProcStep
<1> QED BY <1>1, <1>2, <1>3, <1>4 DEF Next

\* While a run is under way nobody else serves its base.
LEMMA UnservedStep ==
    ASSUME OnePmaxProcess, IInv, NotYetServed, [Next]_vars
    PROVE  NotYetServed'
<1> SUFFICES ASSUME NEW p \in Procs, step'[p] \in {"infer", "write"}, todo'[p][1] = "pmax", NEW b, b = job'[p].base, PmaxServed(b)'
             PROVE  FALSE
    BY DEF NotYetServed, PmaxServed
<1>1. /\ todo[p] # <<>> /\ todo[p][1] = "pmax"
      /\ \/ step[p] \in {"infer", "write"} /\ b = job[p].base /\ ~\E ok \in BOOLEAN : LaneReturns(p, ok)
         \/ run_pmax_serving(p) /\ b = select_pmax_base_ts /\ select_pmax_base_ts # NoBase
    BY InRunSince
<1>t. TablesTypeOK /\ \A q \in Procs : LaneSound(q) BY DEF IInv, ServingInv, SchedulerTypeOK
<1>2. ~PmaxServed(b) BY <1>t, <1>1, PmaxBase DEF NotYetServed
<1>3. PICK q \in Procs : WriteTable(q) /\ todo[q] # <<>> /\ todo[q][1] = "pmax" /\ LaneReturns(q, TRUE) BY <1>2, ServedByWhom
<1>4. \A x \in Procs : todo[x] # <<>> /\ todo[x][1] = "pmax" => "pmax" \in LanesOf[x] BY <1>t DEF LaneSound
<1>5. q = p BY <1>1, <1>3, <1>4 DEF OnePmaxProcess
<1>6. step[p] = "write" BY <1>3, <1>5 DEF WriteTable
<1>7. ~run_pmax_serving(p) BY <1>6 DEF run_pmax_serving, Select, AtLane
<1> QED BY <1>1, <1>3, <1>5, <1>7

\* The rows of a served base do not change.
LEMMA ServedStays ==
    ASSUME IInv, NotYetServed, [Next]_vars, NEW b \in Bases, PmaxServed(b)
    PROVE  forecast'[b] = forecast[b]
<1>1. CASE forecast' = forecast BY <1>1
<1>2. CASE forecast' # forecast
    <2>1. PICK p \in Procs : WriteTable(p)
        BY <1>2 DEF Next, vars, data, procState, Arrival, Tick, HourArrives, WindowArrives, ProcStep, StartProc, StartPass,
            run_anomaly_feature, execute_anomaly_feature_materialization, run_pmax_serving, run_anomaly_serving, Select,
            Infer, RunFails, PassRaises, Crash
    <2>2. /\ step[p] = "write"
          /\ forecast' = [forecast EXCEPT ![job[p].base] = forecast[job[p].base] \cup job[p].fore]
        BY <1>2, <2>1 DEF WriteTable
    <2>3. todo[p][1] # "pmax" => job[p].fore = {} BY <2>2 DEF IInv, WritesInOrder
    <2>4. todo[p][1] = "pmax" => job[p].base # b BY <2>2 DEF NotYetServed
    <2>5. forecast \in [Bases -> SUBSET PMeters] BY DEF IInv, ServingInv, SchedulerTypeOK, TablesTypeOK
    <2> QED BY <2>2, <2>3, <2>4, <2>5
<1> QED BY <1>1, <1>2

\* Theorem: with one process in the pmax lane, once evidence says that a base was forecast its
\* rows are final, whatever late meters, retries and restarts follow; the lookup before the run
\* is enough although it and the writes are different transactions
\* (scripts/serving/operational_scheduler.py).
THEOREM ServedIsFinal ==
    ASSUME OnePmaxProcess
    PROVE  Spec => ServedForecastIsFinal
<1>1. Init => NotYetServed BY DEF Init, NotYetServed
<1>2. IInv /\ NotYetServed /\ [Next]_vars => IInv' /\ NotYetServed' BY ServingStep, UnservedStep
<1>3. IInv /\ NotYetServed /\ [Next]_vars => [\A b \in Bases : PmaxServed(b) => forecast'[b] = forecast[b]]_vars
    BY ServedStays
<1> QED BY <1>1, <1>2, <1>3, ServingInit, PTL DEF Spec, ServedForecastIsFinal
=================================================================================
