------------------------------ MODULE Features ------------------------------
(***************************************************************************)
(* The features that a forecast reads from the calendar, the weather and   *)
(* the sales history, and the formula that stands in for a model that is   *)
(* not trained (forecasting/xgboost_model.py, FeatureEngineer, predict).   *)
(*                                                                         *)
(* A date is a month and a day.  Of the history only which samples are     *)
(* read matters: a sample is its age in hours, the most recent one is 1.   *)
(* Temperatures and humidities are integers, precipitation is in tenths of *)
(* a millimetre, the heat index in thousandths of a degree.                *)
(***************************************************************************)
EXTENDS Integers, FiniteSets

Date(month, day) == [month |-> month, day |-> day]

Holidays ==
    {Date(1, 26), Date(3, 14), Date(4, 14), Date(5, 1), Date(8, 15), Date(10, 2),
     Date(10, 12), Date(11, 1), Date(12, 25)}

\* First and last days of the summer, Dussehra and winter vacations.
SchoolVacationPeriods ==
    {<<Date(4, 15), Date(6, 15)>>, <<Date(10, 1), Date(10, 15)>>, <<Date(12, 20), Date(1, 5)>>}

IsSchoolVacation(date) ==
    \E p \in SchoolVacationPeriods :
        /\ date.month \in p[1].month .. p[2].month
        /\ ~(date.month = p[1].month /\ date.day < p[1].day)
        /\ ~(date.month = p[2].month /\ date.day > p[2].day)

TemporalFeatures(date) ==
    [holiday |-> date \in Holidays,
     vacation |-> IsSchoolVacation(date),
     sinceMonthStart |-> date.day - 1,
     quarter |-> (date.month - 1) \div 3 + 1]

\* The sample that each feature reads from a history of n hours, 0 for none; the
\* most recent one stands in for those of the day, and that for those of the week.
LastHour(n) == IF n > 0 THEN 1 ELSE 0
LastDay(n) == IF n > 23 THEN 24 ELSE LastHour(n)

HistoricalFeatures(n) ==
    [sales_lag_1h |-> LastHour(n),
     sales_lag_4h |-> IF n > 3 THEN 4 ELSE LastHour(n),
     sales_lag_1d |-> LastDay(n),
     sales_lag_7d |-> IF n > 167 THEN 168 ELSE LastDay(n),
     sales_same_hour_last_week |-> IF n > 168 THEN 169 ELSE LastDay(n)]

\* The samples of the rolling statistics.
Window(n) == 1 .. (IF n >= 24 THEN 24 ELSE n)

Missing == -1000    \* None, where a reading is expected
Or(reading, default) == IF reading = Missing THEN default ELSE reading

\* Missing readings are those of a warm and dry day.
WeatherFeatures(temperature, humidity, precipitation) ==
    LET temp == Or(temperature, 30)
    IN  [temperature |-> temp,
         heat_index |-> 1000 * temp + (61 * Or(humidity, 60)) \div 2,
         rain |-> Or(precipitation, 0) > 5,
         extremeHeat |-> temp > 42]

\* The forecast of a model that is not trained, in 600ths of a unit: the sales of
\* the last hour, by the temperature over thirty degrees, by a mood in units.
StandIn(lastHour, temperature, mood) ==
    LET factor == IF temperature < 15 THEN 15 ELSE IF temperature > 60 THEN 60 ELSE temperature
        sixtieths == lastHour * factor * (2 + mood)
        demand == IF sixtieths > 0 THEN sixtieths ELSE 0
    IN  [predicted |-> 10 * demand, lower |-> 7 * demand, upper |-> 13 * demand]
=============================================================================
