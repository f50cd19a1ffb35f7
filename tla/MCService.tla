----------------------------- MODULE MCService ------------------------------
(***************************************************************************)
(* An instance of Service for TLC, with the data its parts choose from.    *)
(***************************************************************************)
EXTENDS Service

Cart(zone, cell, velocity) ==
    [zone |-> zone, cell |-> cell, velocity |-> velocity, demand |-> velocity]

\* Two carts, of different velocities, anywhere in two zones of two cells, and
\* one of them gone.
MCSnapshots ==
    {<<Cart(z1, c1, 3), Cart(z2, c2, v)>> :
        z1 \in {"a", "b"}, c1 \in {1, 2}, z2 \in {"a", "b"}, c2 \in {1, 2}, v \in {1, 2}}
      \cup {<<Cart("a", 1, 3)>>, <<>>}

\* Five carts in three zones; MinSamples is two, so one zone may be empty or noise.
MCCrowds == {[i \in 1..5 |-> Cart(zs[i], i % 2, i)] : zs \in [1..5 -> {"a", "b", "c"}]}

Event(type, start, end, distance, radius) ==
    [type |-> type, start |-> start, end |-> end, distance |-> distance, radius |-> radius,
     impact |-> 40]

\* Events that lift and depress demand, short and long, without an end, without a
\* configuration, near, with the radius of the type, and out of reach.
MCMoodEvents ==
    {Event("ipl_match", 0, 4, 0, 30), Event("ipl_match", 3, 4, 10, 0),
     Event("heat_wave", 1, Endless, 25, 50), Event("rain_storm", 2, 5, 0, 50),
     Event("wedding_season", 0, 3, 5, 20), Event("exam_period", 1, 6, 4, 10),
     Event("parade", 2, 6, 10, 0), Event("diwali", 0, 4, 100, 100)}

\* A cold day, a mild one, a hot one, one beyond what counts, and no reading.
MCReadings == {5, 15, 29, 43, 60, 70, Missing}
MCMoods == -3..2

\* Up to two units of two products; photos that cannot be decoded show, but do
\* not tell, what is in the cart.
MCPhotos ==
    {[readable |-> r, shows |-> [p \in {q \in DOMAIN n : n[q] > 0} |-> n[p]]] :
        r \in BOOLEAN, n \in [{"cone", "kulfi"} -> 0..2]}

\* Stand-ins for exp and tanh: decreasing to zero, and increasing within bounds.
MCFade(l, t) == (Full * 1000) \div (1000 + l * t)
MCBend(s) == IF s >= 0 THEN (One * (s \div 100)) \div (2000 + s \div 100)
             ELSE -((One * ((-s) \div 100)) \div (2000 + (-s) \div 100))
=============================================================================
