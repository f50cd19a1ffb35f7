---------------------------- MODULE Orchestrator ----------------------------
(***************************************************************************)
(* What the Melt-Risk Orchestrator page computes from its four inputs      *)
(* (frontend/app.js, updateOrchestratorState and the functions it calls):  *)
(* sellable minutes, melt status, yield, forecast and recovery actions.    *)
(*                                                                         *)
(* Temperatures of the forecast are hundredths of a degree, sellability    *)
(* and yield are tenths of a percent; the noise added for show is left     *)
(* out.  The page's inputs are a slider from 20 to 46 degrees, one from 20 *)
(* to 100 percent, and two selections.                                     *)
(***************************************************************************)
EXTENDS Integers, Sequences

Temps == 20..46
Humidities == 20..100
Neighborhoods == {"typical-suburban", "corporate-hotspot", "stadium-ipl", "rainy-evening"}
Telemetries == {"normal", "strain", "outage"}

Positive(n) == IF n > 0 THEN n ELSE 0
AtLeast(low, n) == IF n < low THEN low ELSE n

\* telemetryMult, in percent.
Remaining(telemetry) ==
    CASE telemetry = "normal" -> 100 [] telemetry = "strain" -> 45 [] telemetry = "outage" -> 12

\* 320 minutes less 10 for each degree above 30 and 1.5 for each percent above
\* 50, times the multiplier, rounded to the nearest (halves up), at least 12.
SellableMinutes(temp, humidity, telemetry) ==
    LET halves == 640 - 20 * Positive(temp - 30) - 3 * Positive(humidity - 50)
    IN  AtLeast(12, (halves * Remaining(telemetry) + 100) \div 200)

MeltRisk(temp, telemetry) ==
    CASE telemetry = "outage" -> "CRITICAL"
      [] telemetry = "strain" -> "HIGH RISK"
      [] telemetry = "normal" /\ temp >= 38 -> "ELEVATED"
      [] telemetry = "normal" /\ temp < 38 -> "STABLE"

YieldEfficiency(temp, neighborhood, telemetry) ==
    AtLeast(452,
        950 - (IF temp > 35 /\ neighborhood = "rainy-evening" THEN 225 ELSE 0)
            - (IF temp < 25 /\ neighborhood = "stadium-ipl" THEN 142 ELSE 0)
            - (IF telemetry = "strain" THEN 85 ELSE 0)
            - (IF telemetry = "outage" THEN 260 ELSE 0))

\* The freezer's temperature h hours from now.  In normal operation it stays
\* within half a degree of -21.5.  The code adds decimal fractions in floating
\* point: at a threshold of DecayRate it may fall on either side of these values.
FreezerTemp(temp, telemetry, h) ==
    CASE telemetry = "normal" -> -2150
      [] telemetry = "strain" -> -1200 + h * (80 + (temp - 30) * 5)
      [] telemetry = "outage" -> h * (160 + (temp - 30) * 12)

\* What an hour at a temperature costs.
DecayRate(t) ==
    CASE t > 0 -> 350
      [] t > -600 /\ t <= 0 -> 180
      [] t > -1200 /\ t <= -600 -> 80
      [] t > -1800 /\ t <= -1200 -> 30
      [] t <= -1800 -> 5

Sellability(temp, telemetry) ==
    LET after[h \in 0..12] ==
          IF h = 0 THEN 1000
          ELSE Positive(after[h - 1] - DecayRate(FreezerTemp(temp, telemetry, h)))
    IN  after

\* The recovery actions on offer, in the order of the feed.
Offered(temp, neighborhood, telemetry) ==
    LET Act(id, when) == IF when THEN <<id>> ELSE <<>>
    IN  Act("act-outage-reroute", telemetry = "outage")
        \o Act("act-strain-markdown", telemetry \in {"strain", "outage"})
        \o Act("act-stadium-refill", neighborhood = "stadium-ipl")
        \o Act("act-heat-alert", temp >= 40 /\ telemetry = "normal")
        \o Act("act-default-align", TRUE)
=============================================================================
