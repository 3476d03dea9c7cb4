------------------------------- MODULE EtaModel -------------------------------
(***************************************************************************)
(* The numbers of a status: statusLocked (monitor.go) with the rate, the   *)
(* physics estimate, and the estimate learned from finished cooks          *)
(* (history.go), as operators over the cook's readings, and the steps that *)
(* change what they are computed from.                                     *)
(*                                                                         *)
(* A reading is [at, tip, amb]; times and temperatures are integers in     *)
(* units the instance chooses, what is computed from them is exact.  -1    *)
(* is "unknown", as in the code.                                           *)
(***************************************************************************)
EXTENDS Rationals, Sequences, SequencesExt, FiniteSetsExt

CONSTANTS
    Degree,           \* one degree Celsius
    HistoryLimit,     \* historyLimit
    BarSteps,         \* the tenths of a percent of a full bar, 1000
    RateWindow, EtaRateWindow, AmbientWindow, \* lookbacks of the averages
    LiveStall,        \* the displayed rate at or below which a cook is stalled (1e-4)
    StallRate,        \* stallRatePerSec
    EtaMax,           \* etaMaxSeconds
    MinPoints, MinRise, \* what buildHistCook asks of a cook
    FinalSpan,        \* the stretch finalRise looks at
    ReachTol,         \* reachTargetTol
    BlendCap,         \* historyBlendCap
    PastCooks,        \* finished cooks: [id, meat, pts]
    MeatTypes,        \* normalised labels; NoMeat is none
    NoMeat,
    Temperatures,     \* what the probe may read: [tip, amb]
    Targets,
    MaxTime, MaxGap, MaxPast \* bounds on the cook, its gaps, the model

ASSUME UnitsPositive ==
    Degree \in Nat \ {0} /\ HistoryLimit \in Nat \ {0} /\ BarSteps \in Nat \ {0}
ASSUME WindowsPositive ==
    RateWindow \in Nat \ {0} /\ EtaRateWindow \in Nat \ {0} /\ AmbientWindow \in Nat
ASSUME NoMeatIsLabel == NoMeat \in MeatTypes
ASSUME RatesRational ==
    /\ IsRational(LiveStall) /\ IsRational(StallRate) /\ ~Negative(StallRate)
    /\ IsRational(BlendCap) /\ ~Negative(BlendCap) /\ Leq(BlendCap, Whole(1))
ASSUME ReadingsWhole == Temperatures \subseteq [tip : Int, amb : Int] /\ Targets \subseteq Int
ASSUME CooksRecorded ==
    /\ MinPoints \in Nat \ {0} /\ IsFiniteSet(PastCooks)
    /\ \A c \in PastCooks : c.id \in Int /\ c.pts \in Seq([at : Nat, tip : Int, amb : Int])
    /\ \A c, d \in PastCooks : c.id = d.id => c = d
ASSUME BoundsNatural == MaxTime \in Nat /\ MaxGap \in Nat /\ MaxPast \in Nat

VARIABLES
    running, connected, hasRead, \* the Monitor
    history, now,                \* the cook's readings; the clock, from its first
    target, meatType,
    histModel                    \* the cooks LoadHistory has learned from

monVars == <<running, connected, hasRead>>
vars == <<monVars, history, now, target, meatType, histModel>>

Unknown == Whole(-1)

MinQ(a, b) == IF Leq(a, b) THEN a ELSE b
MaxQ(a, b) == IF Leq(a, b) THEN b ELSE a

\* The elements of S from first to last by R, a strict total order on them.
Ordered(S, R) ==
    [k \in 1 .. Cardinality(S) |-> CHOOSE x \in S : Cardinality({y \in S : <<y, x>> \in R}) = k - 1]

clampF(v, lo, hi) == MaxQ(lo, MinQ(v, hi))

-----------------------------------------------------------------------------
(* Rates and averages over the readings of a window *)

InWindow(h, t, window) == {i \in 1 .. Len(h) : h[i].at >= t - window}

\* (Bug: the mean of x is left out.)
SlopeUncentered(h, t, window) ==
    LET W == InWindow(h, t, window)
    IN  Ratio(SumFunction([i \in W |-> (h[i].at - t) * h[i].tip]),
              SumFunction([i \in W |-> (h[i].at - t) * (h[i].at - t)]))

\* The denominator of the least-squares fit.
Spread(h, t, window) ==
    LET W == InWindow(h, t, window)
        sumX == SumFunction([i \in W |-> h[i].at - t])
    IN  Cardinality(W) * SumFunction([i \in W |-> (h[i].at - t) * (h[i].at - t)]) - sumX * sumX

HasRate(h, t, window) == Cardinality(InWindow(h, t, window)) >= 2 /\ Spread(h, t, window) # 0

Slope(h, t, window) ==
    LET W == InWindow(h, t, window)
        sumX == SumFunction([i \in W |-> h[i].at - t])
        sumY == SumFunction([i \in W |-> h[i].tip])
        sumXY == SumFunction([i \in W |-> (h[i].at - t) * h[i].tip])
    IN  Ratio(Cardinality(W) * sumXY - sumX * sumY, Spread(h, t, window))

\* The mean over the window, or the latest when the window is empty.
ambientAvg(h, t, window) ==
    LET W == InWindow(h, t, window)
    IN  IF W = {} THEN Whole(Last(h).amb)
        ELSE Ratio(SumFunction([i \in W |-> h[i].amb]), Cardinality(W))

-----------------------------------------------------------------------------
(* The physics estimate *)

\* math.Log above 1, from below: exact to the second order at 1.
Ln(x) == Div(Mul(Whole(2), Sub(x, Whole(1))), Add(x, Whole(1)))

\* (Bug: k from the gap at the target.)
etaSecondsWrongGap(tip, tgt, ambient, rate) ==
    LET gapNow == Sub(ambient, Whole(tip))
        gapTarget == Sub(ambient, Whole(tgt))
        eta == IF Leq(Whole(Degree), gapTarget)
               THEN Div(Mul(Ln(Div(gapNow, gapTarget)), gapTarget), rate)
               ELSE Div(Whole(tgt - tip), rate)
    IN  IF Lt(Whole(EtaMax), eta) THEN Unknown ELSE eta

\* Newton's law where the chamber is hotter than the target, else a line; unknown
\* beyond the cap.  The rate is positive and the target not reached.
etaSeconds(tip, tgt, ambient, rate) ==
    LET gapNow == Sub(ambient, Whole(tip))
        gapTarget == Sub(ambient, Whole(tgt))
        eta == IF Leq(Whole(Degree), gapTarget)
               THEN Div(Mul(Ln(Div(gapNow, gapTarget)), gapNow), rate)
               ELSE Div(Whole(tgt - tip), rate)
    IN  IF Lt(Whole(EtaMax), eta) THEN Unknown ELSE eta

-----------------------------------------------------------------------------
(* What a finished cook teaches *)

\* (Bug: a falling tip restarts the climb.)
RisesNotMax(pts) ==
    {i \in 1 .. Len(pts) : i = 1 \/ pts[i].tip > pts[i - 1].tip}

\* The readings that are warmer than all before them.
Rises(pts) == {i \in 1 .. Len(pts) : \A j \in 1 .. i - 1 : pts[j].tip < pts[i].tip}

\* Temperature -> elapsed time of its first reading, ascending.
ReachCurve(pts) ==
    LET idx == Ordered(Rises(pts), {p \in Rises(pts) \X Rises(pts) : p[1] < p[2]})
    IN  [k \in 1 .. Len(idx) |-> [temp |-> pts[idx[k]].tip,
                                  sec |-> pts[idx[k]].at - pts[1].at]]

Teaches(pts) ==
    /\ Len(pts) >= MinPoints
    /\ LET reach == ReachCurve(pts) IN Last(reach).temp - reach[1].temp >= MinRise

\* The rate over the last FinalSpan of the climb, or all of it; 0 when there is none.
finalRise(reach) ==
    LET hi == Last(reach)
        far == {k \in 1 .. Len(reach) - 1 : hi.temp - reach[k].temp >= FinalSpan}
        lo == reach[IF far = {} THEN 1 ELSE Max(far)]
    IN  IF hi.sec > lo.sec THEN Ratio(hi.temp - lo.temp, hi.sec - lo.sec) ELSE Whole(0)

buildHistCook(c) ==
    LET reach == ReachCurve(c.pts)
    IN  [id |-> c.id, meat |-> c.meat, reach |-> reach, maxReach |-> Last(reach).temp,
         finalRate |-> finalRise(reach),
         chamberAvg |-> Ratio(SumFunction([i \in DOMAIN c.pts |-> c.pts[i].amb]), Len(c.pts))]

\* Interpolated; 0 below the first temperature, unknown above the last.
reachTime(hc, temp) ==
    IF temp <= hc.reach[1].temp THEN Whole(0)
    ELSE IF temp > hc.maxReach THEN Unknown
    ELSE LET i == Min({k \in 2 .. Len(hc.reach) : hc.reach[k].temp >= temp})
             lo == hc.reach[i - 1]
             hi == hc.reach[i]
         IN  Add(Whole(lo.sec), Ratio((temp - lo.temp) * (hi.sec - lo.sec), hi.temp - lo.temp))

\* A cook pulled a little short of the target is extrapolated.
reachToTarget(hc, tgt) ==
    IF tgt <= hc.maxReach THEN reachTime(hc, tgt)
    ELSE IF tgt - hc.maxReach > ReachTol \/ ~Positive(hc.finalRate) THEN Unknown
    ELSE Add(Whole(Last(hc.reach).sec), Div(Whole(tgt - hc.maxReach), hc.finalRate))

\* What the cook had left at tip; comparable cooks only, so it is known and positive.
Remaining(hc, tip, tgt) == Sub(reachToTarget(hc, tgt), reachTime(hc, tip))

Comparable(hc, tip, tgt, want) ==
    /\ want # NoMeat => hc.meat = want
    /\ hc.maxReach >= tip /\ tgt - hc.maxReach <= ReachTol
    /\ reachToTarget(hc, tgt) # Unknown
    /\ Positive(Remaining(hc, tip, tgt))

\* Scaled for a chamber hotter or cooler than that of the past cook.
Scaled(hc, tip, chamber, tgt) ==
    LET gapNow == Sub(chamber, Whole(tip))
        gapHist == Sub(hc.chamberAvg, Whole(tip))
        least == Ratio(Degree, 2)
        factor == clampF(Div(gapHist, gapNow), Ratio(1, 2), Whole(2))
    IN  IF Lt(least, gapNow) /\ Lt(least, gapHist) THEN Mul(Remaining(hc, tip, tgt), factor)
        ELSE Remaining(hc, tip, tgt)

\* (Bug: not sorted.)
UsedUnsorted(hcs, tip, chamber, tgt, want) ==
    LET fit == {hc \in hcs : Comparable(hc, tip, tgt, want)}
        use == Ordered(fit, {p \in fit \X fit : p[1].id < p[2].id})
    IN  [k \in 1 .. Len(use) |-> Scaled(use[k], tip, chamber, tgt)]

\* The estimates of the comparable cooks, sorted.
Used(hcs, tip, chamber, tgt, want) ==
    LET rem(hc) == Scaled(hc, tip, chamber, tgt)
        fit == {hc \in hcs : Comparable(hc, tip, tgt, want)}
        use == Ordered(fit, {p \in fit \X fit : \/ Lt(rem(p[1]), rem(p[2]))
                                                \/ rem(p[1]) = rem(p[2]) /\ p[1].id < p[2].id})
    IN  [k \in 1 .. Len(use) |-> rem(use[k])]

medianSorted(s) ==
    LET n == Len(s)
    IN  IF n % 2 = 1 THEN s[n \div 2 + 1]
        ELSE Div(Add(s[n \div 2], s[n \div 2 + 1]), Whole(2))

\* Both estimates known, or one, or none; the range is that of the past cooks, tempered.
blendETA(phys, use) ==
    LET n == Len(use)
        w == Mul(clampF(Ratio(n, 3), Whole(0), Whole(1)), BlendCap)
        temper(v) == Add(Mul(w, v), Mul(Sub(Whole(1), w), phys))
    IN  IF n = 0 THEN [eta |-> phys, source |-> IF phys = Unknown THEN "" ELSE "physics",
                       low |-> Unknown, high |-> Unknown]
        ELSE IF phys = Unknown
        THEN [eta |-> medianSorted(use), source |-> "history", low |-> use[1], high |-> Last(use)]
        ELSE [eta |-> temper(medianSorted(use)), source |-> "blend",
              low |-> temper(use[1]), high |-> temper(Last(use))]

-----------------------------------------------------------------------------
(* The status *)

Tip == Last(history).tip

Chamber == ambientAvg(history, now, AmbientWindow)

\* The displayed rate is known and above the plateau.
Rated == HasRate(history, now, RateWindow) /\ Lt(LiveStall, Slope(history, now, RateWindow))

\* The physics estimate uses a rate smoothed over a longer window.
Physics ==
    IF HasRate(history, now, EtaRateWindow) /\ Lt(StallRate, Slope(history, now, EtaRateWindow))
    THEN etaSeconds(Tip, target, Chamber, Slope(history, now, EtaRateWindow))
    ELSE Unknown

Learned == Used(histModel, Tip, Chamber, target, meatType)

NoEta(state) == [state |-> state, eta |-> Unknown, source |-> "", low |-> Unknown,
                 high |-> Unknown, samples |-> 0]

\* A percentage, not negative, to the next tenth; half of one is rounded up.
round1(v) ==
    LET tenths == (2 * BarSteps * v[1] + 100 * v[2]) \div (200 * v[2])
    IN  Ratio(100 * tenths, BarSteps)

\* From the temperature of the oldest sample to the target.
progress ==
    LET start == history[1].tip
        climb == Ratio(100 * (Tip - start), target - start)
    IN  IF history = <<>> \/ target <= start THEN Unknown
        ELSE round1(clampF(climb, Whole(0), Whole(100)))

Status ==
    IF ~running THEN NoEta("idle")
    ELSE IF ~connected THEN NoEta("disconnected")
    ELSE IF ~hasRead THEN NoEta("waiting")
    ELSE IF Tip >= target THEN [NoEta("ready") EXCEPT !.eta = Whole(0)]
    ELSE IF ~Rated THEN NoEta("stalled")
    ELSE LET b == blendETA(Physics, Learned)
         IN  IF Negative(b.eta) THEN NoEta("stalled")
             ELSE [state |-> "cooking", eta |-> b.eta, source |-> b.source, low |-> b.low,
                   high |-> b.high, samples |-> Len(Learned)]

-----------------------------------------------------------------------------
(* The steps *)

\* What each of the finished cooks teaches.
Taught == [c \in {c \in PastCooks : Teaches(c.pts)} |-> buildHistCook(c)]

Init ==
    /\ running = FALSE /\ connected = FALSE /\ hasRead = FALSE
    /\ history = <<>> /\ now = 0
    /\ target \in Targets /\ meatType = NoMeat
    /\ histModel = {}

\* (Bug: the chart of the cook before stays.)
FreshCookKeepsChart == now' = 0 /\ hasRead' = FALSE /\ UNCHANGED history

FreshCook == history' = <<>> /\ now' = 0 /\ hasRead' = FALSE

Start ==
    /\ ~running /\ running' = TRUE
    /\ FreshCook
    /\ UNCHANGED <<connected, target, meatType, histModel>>

\* The chart stays.
Stop ==
    /\ running /\ running' = FALSE /\ connected' = FALSE /\ hasRead' = FALSE
    /\ UNCHANGED <<history, now, target, meatType, histModel>>

NewCook == FreshCook /\ UNCHANGED <<running, connected, target, meatType, histModel>>

SetConnected(b) ==
    /\ connected' = b /\ hasRead' = (b /\ hasRead)
    /\ UNCHANGED <<running, history, now, target, meatType, histModel>>

\* The newest historyLimit samples.
Retain(h) == IF Len(h) > HistoryLimit THEN SubSeq(h, Len(h) - HistoryLimit + 1, Len(h)) ELSE h

\* A reading; when it opens a cook, the chart begins with it.
Update(r) ==
    /\ hasRead' = TRUE /\ connected' = TRUE
    /\ \/ history' = Retain(Append(history, r)) /\ UNCHANGED now
       \/ history' = <<[r EXCEPT !.at = 0]>> /\ now' = 0
    /\ UNCHANGED <<running, target, meatType, histModel>>

Elapse ==
    /\ history # <<>> /\ now < MaxTime /\ now - Last(history).at < MaxGap
    /\ now' = now + 1
    /\ UNCHANGED <<monVars, history, target, meatType, histModel>>

SetTarget(t) == target' = t /\ UNCHANGED <<monVars, history, now, meatType, histModel>>

SetMeatType(mt) == meatType' = mt /\ UNCHANGED <<monVars, history, now, target, histModel>>

\* The model is replaced by what the finished cooks of the store teach.
LoadHistory ==
    /\ \E S \in SUBSET PastCooks :
          Cardinality(S) <= MaxPast /\ histModel' = {Taught[c] : c \in S \cap DOMAIN Taught}
    /\ UNCHANGED <<monVars, history, now, target, meatType>>

Readings == {[at |-> now, tip |-> x.tip, amb |-> x.amb] : x \in Temperatures}

Next ==
    \/ Start \/ Stop \/ NewCook \/ Elapse \/ LoadHistory
    \/ \E b \in BOOLEAN : SetConnected(b)
    \/ \E r \in Readings : Update(r)
    \/ \E t \in Targets : SetTarget(t)
    \/ \E mt \in MeatTypes : SetMeatType(mt)

Spec == Init /\ [][Next]_vars

-----------------------------------------------------------------------------
(* Properties *)

TypeOK ==
    /\ running \in BOOLEAN /\ connected \in BOOLEAN /\ hasRead \in BOOLEAN
    /\ Len(history) <= HistoryLimit
    /\ \A i \in DOMAIN history :
          history[i].at \in 0 .. now
          /\ [tip |-> history[i].tip, amb |-> history[i].amb] \in Temperatures
    /\ now \in Nat /\ target \in Targets /\ meatType \in MeatTypes
    /\ {hc.id : hc \in histModel} \subseteq {c.id : c \in PastCooks}

\* What is left of the climb is at most half a tenth of a percent of it.
AlmostThere == 2 * BarSteps * (target - Tip) <= target - history[1].tip

\* The figures of a status agree with each other and with the cook.
Coherent(s) ==
    /\ s.state = "cooking" <=> s.source # ""
    /\ s.state = "cooking" => ~Negative(s.eta)
    /\ s.state = "ready" => s.eta = Whole(0)
    /\ s.state \notin {"cooking", "ready"} => s.eta = Unknown
    /\ s.samples > 0 <=> s.source \in {"history", "blend"}
    /\ IF s.samples > 0
       THEN ~Negative(s.low) /\ Leq(s.low, s.eta) /\ Leq(s.eta, s.high)
       ELSE s.low = Unknown /\ s.high = Unknown
    /\ hasRead /\ connected /\ running /\ progress # Unknown =>
           /\ s.state = "ready" => progress = Whole(100)
           /\ progress = Whole(100) => AlmostThere

\* What the page shows hangs together (statusLocked): an estimate while cooking and
\* only then, zero when ready, the learned one within the range that comes with it,
\* the range there exactly when past cooks inform the estimate, and the bar full when
\* ready, and before that only within the rounding of the target.
StatusCoherent == Coherent(Status)

\* "The estimate is always longer than the linear one" (monitor.go:747): whatever
\* the readings, an estimate from physics never promises an earlier end than a
\* straight line at the smoothed rate.
NewtonIsLonger ==
    hasRead /\ Tip < target /\ Physics # Unknown =>
        Leq(Div(Whole(target - Tip), Slope(history, now, EtaRateWindow)), Physics)

\* The fit against its meaning: the slope over a window lies between the smallest
\* and the largest slope of two readings in it, whatever their spacing.
SlopeIsBetweenPairs ==
    HasRate(history, now, EtaRateWindow) =>
        LET W == InWindow(history, now, EtaRateWindow)
            slope(i, j) == Ratio(history[j].tip - history[i].tip, history[j].at - history[i].at)
            pairs == {slope(p[1], p[2]) :
                        p \in {p \in W \X W : history[p[1]].at < history[p[2]].at}}
            s == Slope(history, now, EtaRateWindow)
        IN  (\E p \in pairs : Leq(p, s)) /\ (\E p \in pairs : Leq(s, p))

\* The curve a cook would be remembered by, against its readings, dips and plateaus
\* and all: it ends at the warmest of them, the time it gives for a temperature lies
\* between the first reading at or above it and the warmest one before that, and the
\* way from any temperature to a higher one takes no negative time.
CurveFollowsReadings ==
    Teaches(history) =>
        LET hc == buildHistCook([id |-> 0, meat |-> NoMeat, pts |-> history])
            tip(i) == history[i].tip
            after(i) == Whole(history[i].at - history[1].at)
            warmest(S) == Min({i \in S : \A j \in S : tip(j) <= tip(i)})
            temps == tip(1) .. hc.maxReach
        IN  /\ hc.maxReach = tip(warmest(DOMAIN history))
            /\ \A t \in temps :
                  LET first == Min({i \in DOMAIN history : tip(i) >= t})
                  IN  /\ Leq(reachTime(hc, t), after(first))
                      /\ first > 1 => Leq(after(warmest(1 .. first - 1)), reachTime(hc, t))
            /\ \A t, u \in temps : t <= u => Leq(reachTime(hc, t), reachToTarget(hc, u))

\* "It carries the cook through the stall (where physics reads "unknown")"
\* (monitor.go:693-694, history.go:233-235): on the plateau, past cooks that compare give an estimate.
HistoryCarriesStall ==
    running /\ connected /\ hasRead /\ Tip < target
    /\ HasRate(history, now, RateWindow) /\ ~Negative(Slope(history, now, RateWindow))
    /\ Learned # <<>>
        => Status.eta # Unknown

=============================================================================
