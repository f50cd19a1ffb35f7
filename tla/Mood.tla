-------------------------------- MODULE Mood --------------------------------
(***************************************************************************)
(* The mood score of a place (mood/scoring_engine.py): how events that are *)
(* about to come, under way or over move the demand for ice cream.         *)
(*                                                                         *)
(* Times are quarters of an hour.  Impacts are hundredths, multipliers     *)
(* tenths, decays twentieths, so a score is an integer.  exp and tanh are  *)
(* constants of which only what the score rests on is assumed.             *)
(***************************************************************************)
EXTENDS Integers, Sequences, SequencesExt, FiniteSetsExt

CONSTANTS
    MoodTimes,      \* bound: the times that are looked at
    Fade(_, _),     \* Fade(l, t): exp(-l t), in twentieths
    Bend(_)         \* Bend(s): tanh(s), in ten-thousandths

Full == 20          \* one, in twentieths
One == 10000

ASSUME MoodTimesAssumption == MoodTimes \in Nat
ASSUME FadeAssumption ==
    \A l \in {150, 1, 5}, t \in 0..MoodTimes :
        /\ Fade(l, t) \in 0..Full
        /\ Fade(l, 0) = Full
        /\ Fade(l, t + 1) <= Fade(l, t)

\* Types of events: base_impact, impact_radius_km, temporal_decay_lambda in
\* thousandths, and the categories with a multiplier of their own.
Config(impact, radius, lambda, multipliers) ==
    [impact |-> impact, radius |-> radius, lambda |-> lambda, multipliers |-> multipliers]

EventImpactConfigs ==
    [india_cricket_win |-> Config(85, 50, 150,
        [cone |-> 13, cup |-> 11, bar |-> 12, premium |-> 14, family_pack |-> 12]),
     ipl_match |-> Config(70, 30, 150,
        [cone |-> 12, cup |-> 12, bar |-> 11, premium |-> 13, family_pack |-> 11]),
     ipl_final |-> Config(90, 100, 150,
        [cone |-> 14, cup |-> 13, bar |-> 13, premium |-> 15, family_pack |-> 14]),
     school_result_day |-> Config(60, 10, 150,
        [cone |-> 12, cup |-> 13, family_pack |-> 15, premium |-> 13, bulk |-> 14]),
     local_festival |-> Config(75, 15, 150,
        [kulfi |-> 14, cone |-> 12, premium |-> 13, family_pack |-> 13, bulk |-> 15]),
     diwali |-> Config(85, 100, 150,
        [premium |-> 16, family_pack |-> 15, bulk |-> 17, kulfi |-> 13, cone |-> 11]),
     holi |-> Config(80, 100, 150,
        [kulfi |-> 15, cone |-> 14, bar |-> 13, cup |-> 13, premium |-> 12]),
     wedding_season |-> Config(50, 20, 1,
        [bulk |-> 16, premium |-> 15, family_pack |-> 14, kulfi |-> 13, cup |-> 11]),
     heat_wave |-> Config(90, 100, 150,
        [bar |-> 15, cone |-> 15, cup |-> 14, kulfi |-> 16, premium |-> 13]),
     rain_storm |-> Config(-60, 50, 150,
        [cone |-> 7, bar |-> 7, cup |-> 8, kulfi |-> 6, premium |-> 9]),
     exam_period |-> Config(-30, 10, 5, [cone |-> 9, cup |-> 9, bar |-> 9])]

Endless == -1       \* event_end is None
NoCategory == "none"

\* An event of a type without a configuration brings its own impact.
ConfigOf(event) ==
    IF event.type \in DOMAIN EventImpactConfigs THEN EventImpactConfigs[event.type]
    ELSE Config(event.impact, 50, 150, <<>>)

Started(event, now) == now >= event.start
Over(event, now) == event.end # Endless /\ now > event.end

TemporalUncapped(event, now) ==
    IF Over(event, now) THEN Fade(ConfigOf(event).lambda, now - event.end)
    ELSE (Full \div 2) * (now - event.start)

\* After its end an event fades; before, it takes half an hour to build up.
Temporal(event, now) ==
    IF Over(event, now) THEN Fade(ConfigOf(event).lambda, now - event.end)
    ELSE Min({Full, (Full \div 2) * (now - event.start)})

\* A radius of zero stands for that of the type.
Radius(event) == IF event.radius # 0 THEN event.radius ELSE ConfigOf(event).radius
Spatial(event) == Max({0, Full - (Full * event.distance) \div Radius(event)})

Multiplier(event, category) ==
    LET own == ConfigOf(event).multipliers
    IN  IF category \in DOMAIN own THEN own[category] ELSE 10

Contributes(event, now) == Started(event, now) /\ Spatial(event) > 0

\* The mood impact score of one event.
Impact(event, now, category) ==
    IF Contributes(event, now)
    THEN ConfigOf(event).impact * Temporal(event, now) * Spatial(event)
            * Multiplier(event, category)
    ELSE 0

CompositeScore(events, now, category) ==
    SumFunction([i \in DOMAIN events |-> Impact(events[i], now, category)])

DemandMultiplier(events, now, category) ==
    Max({0, Min({2 * One, One + Bend(CompositeScore(events, now, category))})})

\* round(n / d), in ten-thousandths.
Rounded(n, d) == (2 * n + d) \div (2 * d)

\* An event that contributes moves the multiplier of a category.
Adjusted(current, event, now, category) ==
    IF Contributes(event, now)
    THEN Rounded(current * (10 * Full * Full
                    + (Multiplier(event, category) - 10) * Spatial(event) * Temporal(event, now)),
                 10 * Full * Full)
    ELSE current

\* The multiplier of a category, which every event adjusts in turn.
CategoryMultiplier(events, now, category) ==
    FoldLeft(LAMBDA current, event : Adjusted(current, event, now, category), One, events)
=============================================================================
