------------------------------ MODULE Insights ------------------------------
(***************************************************************************)
(* Questions to the pure algorithms of the AI models: the demand swarm,    *)
(* the mood score, the features of a forecast and the counts of a photo;   *)
(* and to the formulas of the dashboard's Melt-Risk page.                  *)
(* None of them keeps state, so a question is put to each on its own, and  *)
(* its answer is compared with what the algorithm promises.                *)
(***************************************************************************)
EXTENDS Swarm, Mood, Features, Counting, Orchestrator

CONSTANTS
    Snapshots,      \* the carts at one moment, as sequences
    Crowds,         \* larger sequences of carts, for the demand zones
    Threshold,      \* the least amount that counts as a migration
    MoodEvents,     \* events; a question is about one or two of them
    Categories,     \* product categories, NoCategory among them
    MaxHistory,     \* bound: the longest sales history
    Readings,       \* temperatures of the weather, Missing among them
    Moods,          \* moods that a forecast is made in
    Photos          \* photos of a cart; a question is about up to three of them

\* A cart is a record; what it sells is not negative.
ASSUME CartsAssumption ==
    \A carts \in Snapshots \cup Crowds :
        /\ carts \in Seq(Range(carts))
        /\ \A c \in Range(carts) :
             /\ c = [zone |-> c.zone, cell |-> c.cell, velocity |-> c.velocity, demand |-> c.demand]
             /\ c.velocity \in Nat /\ c.demand \in Nat
ASSUME ThresholdAssumption == Threshold \in Nat \ {0}

\* No event is over before it begins.
ASSUME EventsAssumption ==
    \A e \in MoodEvents :
        /\ e.start \in Nat /\ e.end \in Nat \cup {Endless}
        /\ e.end # Endless => e.start <= e.end
        /\ e.distance \in Nat /\ e.radius \in Nat /\ e.impact \in Int

\* On the scores that are asked for tanh increases, within its bounds, through zero.
Scores ==
    {CompositeScore(events, now, category) :
        events \in BoundedSeq(MoodEvents, 2), now \in 0..MoodTimes, category \in Categories}
ASSUME BendAssumption ==
    /\ Bend(0) = 0
    /\ \A s \in Scores : Bend(s) \in -One..One
    /\ \A s, u \in Scores : s <= u => Bend(s) <= Bend(u)
ASSUME ReadingsAssumption == MaxHistory \in Nat /\ Readings \subseteq Int /\ Moods \subseteq Int
ASSUME PhotosAssumption ==
    \A photo \in Photos :
        /\ photo.readable \in BOOLEAN
        /\ IsFiniteSet(DOMAIN photo.shows)
        /\ photo.shows \in [DOMAIN photo.shows -> Nat \ {0}]

VARIABLE asked      \* the question

Nothing == [about |-> "nothing"]

InsightsInit == asked = Nothing

\* Two moments, and an order in which a set of their cells may be enumerated.
AskMigrations ==
    \E before, after \in Snapshots :
        \E order \in SetToSeqs({Cell(c) : c \in Range(before) \cup Range(after)}) :
            asked' = [about |-> "migrations", before |-> before, after |-> after,
                      order |-> order]

AskZones == \E carts \in Crowds : asked' = [about |-> "zones", carts |-> carts]

AskMood ==
    \E events \in BoundedSeq(MoodEvents, 2), category \in Categories :
        asked' = [about |-> "mood", events |-> events, category |-> category]

AskDate ==
    \E month \in 1..12, day \in 1..31 :
        asked' = [about |-> "date", date |-> Date(month, day)]

AskHistory == \E n \in 0..MaxHistory : asked' = [about |-> "history", hours |-> n]

AskForecast ==
    \E hours \in 0..1, rate \in 0..2, reading \in Readings, mood \in Moods :
        asked' = [about |-> "forecast", hours |-> hours, rate |-> rate,
                  reading |-> reading, mood |-> mood]

AskPhotos == \E photos \in BoundedSeq(Photos, 3) : asked' = [about |-> "photos", photos |-> photos]

\* Where the formulas of the page branch on the humidity, and its ends.
AskPage ==
    \E temp \in Temps, humidity \in {20, 50, 51, 100}, where \in Neighborhoods,
      telemetry \in Telemetries :
        asked' = [about |-> "page", temp |-> temp, humidity |-> humidity, where |-> where,
                  telemetry |-> telemetry]

Ask ==
    /\ asked = Nothing
    /\ \/ AskMigrations \/ AskZones \/ AskMood
       \/ AskDate \/ AskHistory \/ AskForecast \/ AskPhotos \/ AskPage

Done == asked # Nothing /\ asked' = Nothing

InsightsNext == Ask \/ Done

-----------------------------------------------------------------------------
(* The demand swarm.                                                       *)

Pairs(migrations) == {<<m.from, m.to>> : m \in migrations}

\* Neighbours of which one lost and the other gained at least the threshold.
Complementary(current, previous, cells) ==
    {p \in cells \X cells :
        /\ Adjacent(p[1], p[2])
        /\ Delta(current, previous, p[1]) <= -Threshold
        /\ Delta(current, previous, p[2]) >= Threshold}

\* What a cart takes with it when it alone moves to a cell next door.
MovedAlone(before, after, i) ==
    /\ Len(before) = Len(after)
    /\ i \in DOMAIN before /\ after[i] # before[i]
    /\ after[i] = [before[i] EXCEPT !.cell = after[i].cell]
    /\ \A j \in DOMAIN before \ {i} : after[j] = before[j]

\* Migrations are found only between neighbours of which one lost and the other
\* gained the threshold, and each is found in an order of the cells or in the
\* reverse.  When one cart moves next door, what either order finds is that it
\* moved, with all its velocity, and the cell that it left is not called rising
\* nor the one that it reached falling (detect_demand_migration).
MigrationsAgree ==
    asked.about = "migrations" =>
        LET previous == GenerateHeatmap(asked.before, <<>>)
            current == GenerateHeatmap(asked.after, Intensity(asked.before))
            Found(order) == DetectDemandMigration(current, previous, Threshold, order)
            found == Found(asked.order)
            reversed == Found(Reverse(asked.order))
        IN  /\ Pairs(found) \cup Pairs(reversed)
                 = Complementary(current, previous, Range(asked.order))
            /\ \A i \in DOMAIN asked.before :
                 MovedAlone(asked.before, asked.after, i) =>
                   LET a == Cell(asked.before[i])
                       b == Cell(asked.after[i])
                       v == asked.before[i].velocity
                   IN  /\ found \cup reversed =
                            IF v < Threshold THEN {}
                            ELSE {[from |-> a, to |-> b, amount |-> v, confidence |-> 1000]}
                       /\ a \in DOMAIN current => current[a].trend # "rising"
                       /\ current[b].trend # "falling"

\* What the code does not do: every pair of neighbours of which one lost and the
\* other gained the threshold is found, in whatever order a set enumerates the
\* cells ("Find adjacent cell pairs with complementary deltas", the docstring of
\* detect_demand_migration).
MigrationsComplete ==
    asked.about = "migrations" =>
        LET previous == GenerateHeatmap(asked.before, <<>>)
            current == GenerateHeatmap(asked.after, Intensity(asked.before))
        IN  Pairs(DetectDemandMigration(current, previous, Threshold, asked.order))
              = Complementary(current, previous, Range(asked.order))

\* Two carts share a demand zone exactly when their hashes share four characters
\* with enough carts; the zones are numbered without gaps and keep all demand of
\* the carts in them (cluster_demand_zones with its fallback).
ZonesAgree ==
    asked.about = "zones" =>
        LET carts == asked.carts
            labels == SimpleGeohashClustering(carts)
            clusters == ClusterDemandZones(carts, labels)
            Big(i) == Cardinality(InZone(carts, carts[i].zone)) >= MinSamples
        IN  /\ \A i, j \in DOMAIN carts :
                 (\E l \in DOMAIN clusters : {i, j} \subseteq clusters[l].carts)
                    <=> carts[i].zone = carts[j].zone /\ Big(i)
            /\ DOMAIN clusters = 0 .. Cardinality(DOMAIN clusters) - 1
            /\ SumFunction([l \in DOMAIN clusters |-> clusters[l].demand])
                 = SumFunctionOnSet(Demands(carts), {i \in DOMAIN carts : Big(i)})

\* What the demand swarm finds is there, in demand zones and migrations alike.
SwarmAgrees == MigrationsAgree /\ ZonesAgree

-----------------------------------------------------------------------------
(* The mood score.                                                         *)

InFirstHalfHour(e, t) == Started(e, t) /\ t < e.start + 2

Lifts(e) == ConfigOf(e).impact > 0
Depresses(e) == ConfigOf(e).impact < 0

\* Demand changes only for a reason: from one quarter of an hour to the next it
\* rises only when an event that lifts it is in its first half hour or one that
\* depresses it is over, and falls only in the opposite cases; a cart out of
\* reach of all events, or before them, has the multiplier one
\* (compute_mood_score, for any product category).
DemandMovesExplained ==
    asked.about = "mood" =>
        \A t \in 0..MoodTimes - 1 :
            LET Demand(now) == DemandMultiplier(asked.events, now, asked.category)
                near == {e \in Range(asked.events) : Spatial(e) > 0}
            IN  /\ Demand(t) \in 0..2 * One
                /\ Demand(t + 1) > Demand(t) =>
                     \E e \in near : \/ Lifts(e) /\ InFirstHalfHour(e, t)
                                     \/ Depresses(e) /\ Over(e, t + 1)
                /\ Demand(t + 1) < Demand(t) =>
                     \E e \in near : \/ Depresses(e) /\ InFirstHalfHour(e, t)
                                     \/ Lifts(e) /\ Over(e, t + 1)
                /\ (\A e \in near : ~Started(e, t)) => Demand(t) = One

\* The multiplier of a category departs from one only in a direction in which an
\* event that has begun, within reach, moves this category.
CategoryExplained ==
    asked.about = "mood" =>
        \A t \in 0..MoodTimes :
            LET multiplier == CategoryMultiplier(asked.events, t, asked.category)
                active == {e \in Range(asked.events) : Contributes(e, t)}
            IN  /\ multiplier > One => \E e \in active : Multiplier(e, asked.category) > 10
                /\ multiplier < One => \E e \in active : Multiplier(e, asked.category) < 10

\* What a cart is told about the mood around it can be explained by the events.
MoodExplained == DemandMovesExplained /\ CategoryExplained

-----------------------------------------------------------------------------
(* The features of a forecast.                                             *)

NotAfter(d, e) == d.month < e.month \/ (d.month = e.month /\ d.day <= e.day)

\* The days from the first to the last of a period, past the new year when the
\* last day comes first in the calendar.
InPeriod(date, p) ==
    IF NotAfter(p[1], p[2]) THEN NotAfter(p[1], date) /\ NotAfter(date, p[2])
    ELSE NotAfter(p[1], date) \/ NotAfter(date, p[2])

\* No day outside all vacations counts as one of a vacation, and each day of a
\* vacation that ends in the year in which it begins does (_is_school_vacation).
VacationsAgree ==
    asked.about = "date" =>
        LET date == asked.date
            vacation == TemporalFeatures(date).vacation
        IN  /\ vacation => \E p \in SchoolVacationPeriods : InPeriod(date, p)
            /\ \A p \in SchoolVacationPeriods :
                 NotAfter(p[1], p[2]) /\ InPeriod(date, p) => vacation

\* What the code does not do: each day of a vacation counts as one, the winter
\* break included ("Check if date falls in school vacation period", the docstring
\* of _is_school_vacation, and "Winter break" beside the period).
VacationsComplete ==
    asked.about = "date" =>
        \A p \in SchoolVacationPeriods :
            InPeriod(asked.date, p) => TemporalFeatures(asked.date).vacation

\* No feature reads beyond the history, and each older feature reads a sample at
\* least as old as the one before it in the list (engineer_historical_features).
\* This is not claimed where the code falls back to a more recent sample: with
\* less than a day of history for that of a day ago, which falls back to an hour
\* ago, and with a week of history to the hour for the same hour last week, which
\* falls back to a day ago although the lag of seven days does not.
HistoryInRange ==
    asked.about = "history" =>
        LET n == asked.hours
            read == HistoricalFeatures(n)
        IN  /\ \A name \in DOMAIN read : read[name] \in (IF n = 0 THEN 0 ELSE 1)..n
            /\ Window(n) \subseteq 1..n
            /\ read.sales_lag_1h <= read.sales_lag_1d
            /\ read.sales_lag_1d <= read.sales_lag_7d
            /\ n \notin 4..23 => read.sales_lag_4h <= read.sales_lag_1d
            /\ n # 168 => read.sales_lag_7d <= read.sales_same_hour_last_week

\* The formula that stands in for a model keeps its prediction inside its bounds,
\* and one degree or one unit of mood more never lowers it.  A cart without a
\* history sells nothing, as one whose last hour was without sales (predict).
StandInExplained ==
    asked.about = "forecast" =>
        LET Forecast(reading, mood) ==
                StandIn(IF LastHour(asked.hours) = 0 THEN 0 ELSE asked.rate,
                        WeatherFeatures(reading, Missing, Missing).temperature, mood)
            reading == Or(asked.reading, 30)
            f == Forecast(asked.reading, asked.mood)
        IN  /\ f = Forecast(reading, asked.mood)
            /\ 0 <= f.lower /\ f.lower <= f.predicted /\ f.predicted <= f.upper
            /\ f.predicted <= Forecast(reading + 1, asked.mood).predicted
            /\ f.predicted <= Forecast(reading, asked.mood + 1).predicted
            /\ f.predicted = 0 <=> asked.hours = 0 \/ asked.rate = 0 \/ asked.mood <= -2

-----------------------------------------------------------------------------
(* The counts of a photo.                                                  *)

\* What really left the cart and what came, from one photo to the next.
Left(photo, next) ==
    SumFunction([p \in DOMAIN photo.shows |->
                    Max({0, photo.shows[p] - CountOf(next.shows, p)})])
Came(photo, next) == Left(next, photo)

\* What the estimates for a cart's photos add up to is no more than what left the
\* cart, and no less than what left it between any two photos in succession that
\* can be decoded.  When all can be, it accounts for the change of the stock with
\* what came (analyze_photo, and what _get_previous_counts compares with).
SalesAccounted ==
    asked.about = "photos" =>
        LET photos == asked.photos
            results == Results(photos)
            Estimate(i) == SumFunction([n \in results[i].estimates |-> n])
            gaps == 2..Len(photos)
            Both(i) == photos[i - 1].readable /\ photos[i].readable
            sold == SumFunction([i \in DOMAIN photos |-> Estimate(i)])
        IN  /\ SumFunction([i \in {j \in gaps : Both(j)} |-> Left(photos[i - 1], photos[i])]) <= sold
            /\ sold <= SumFunction([i \in gaps |-> Left(photos[i - 1], photos[i])])
            /\ photos # <<>> /\ (\A i \in DOMAIN photos : photos[i].readable) =>
                 results[1].units - sold
                   + SumFunction([i \in gaps |-> Came(photos[i - 1], photos[i])])
                     = Last(results).units

-----------------------------------------------------------------------------
(* The Melt-Risk page of the dashboard.                                    *)

Worse(telemetry) ==
    CASE telemetry = "normal" -> "strain" [] OTHER -> "outage"

\* The page's formulas about the same stock agree: as long as stock is called
\* sellable, its forecast keeps 65 % of its score; no forecast improves with a
\* degree more, or with a worse freezer; and a melt risk above STABLE is answered
\* by an action of its own, except at 38 and 39 degrees with a normal freezer,
\* which count as ELEVATED but not yet as heat (updateOrchestratorState,
\* updateOrchestratorDecayChart, updateOrchestratorActions).
PageConsistent ==
    asked.about = "page" =>
        LET temp == asked.temp
            telemetry == asked.telemetry
            minutes == SellableMinutes(temp, asked.humidity, telemetry)
            score == Sellability(temp, telemetry)
            answers == Range(Offered(temp, asked.where, telemetry))
                         \ {"act-default-align", "act-stadium-refill"}
        IN  /\ \A h \in 1..12 : 60 * (h - 1) < minutes => score[h] >= 650
            /\ \A h \in 1..12 : /\ score[h] <= score[h - 1]
                                /\ Sellability(temp + 1, telemetry)[h] <= score[h]
                                /\ Sellability(temp, Worse(telemetry))[h] <= score[h]
            /\ SellableMinutes(temp + 1, asked.humidity, telemetry) <= minutes
            /\ SellableMinutes(temp, asked.humidity, Worse(telemetry)) <= minutes
            /\ YieldEfficiency(temp, asked.where, Worse(telemetry))
                 <= YieldEfficiency(temp, asked.where, telemetry)
            /\ answers = {} <=>
                 \/ MeltRisk(temp, telemetry) = "STABLE"
                 \/ MeltRisk(temp, telemetry) = "ELEVATED" /\ temp < 40

\* Dates, histories, readings of the weather, photos and the inputs of the page
\* are read as what is made of them promises, to the extent that the five parts say.
ReadingsAgree ==
    VacationsAgree /\ HistoryInRange /\ StandInExplained /\ SalesAccounted /\ PageConsistent
=============================================================================
