------------------------------- MODULE Swarm -------------------------------
(***************************************************************************)
(* The demand swarm (forecasting/swarm_intelligence.py): demand zones, the *)
(* heatmap of demand per cell, and the migrations between two heatmaps.    *)
(*                                                                         *)
(* A cart has a geohash, of which the first four characters are its zone   *)
(* and the fifth is its cell in the zone; positions, radii and distances   *)
(* are left out.  Velocities are hundredths, which is what intensities are *)
(* rounded to.  Clusters, heatmaps and migrations are sets and functions:  *)
(* that the code sorts each by demand at its end concerns only display.    *)
(***************************************************************************)
EXTENDS Integers, Sequences, SequencesExt, FiniteSetsExt

CONSTANT MinSamples     \* min_samples

ASSUME SamplesAssumption == MinSamples \in Nat \ {0}

Cell(cart) == <<cart.zone, cart.cell>>
Zone(cell) == cell[1]

-----------------------------------------------------------------------------
(* Demand zones.                                                           *)

Noise == -1

InZone(carts, zone) == {i \in DOMAIN carts : carts[i].zone = zone}

Crowded(carts, zone) == Cardinality(InZone(carts, zone)) >= MinSamples

\* Zones in the order of their first carts.
Before(carts, zone, other) == Min(InZone(carts, zone)) < Min(InZone(carts, other))

ZonesOf(carts) == {carts[i].zone : i \in DOMAIN carts}

LabelsCountingAll(carts) ==
    [i \in DOMAIN carts |->
       IF Crowded(carts, carts[i].zone)
       THEN Cardinality({z \in ZonesOf(carts) : Before(carts, z, carts[i].zone)})
       ELSE Noise]

\* Without the clustering library a zone with enough carts is a cluster; clusters
\* are numbered in the order in which their zones are met.
SimpleGeohashClustering(carts) ==
    [i \in DOMAIN carts |->
       IF Crowded(carts, carts[i].zone)
       THEN Cardinality({z \in ZonesOf(carts) : /\ Crowded(carts, z)
                                                /\ Before(carts, z, carts[i].zone)})
       ELSE Noise]

Demands(carts) == [i \in DOMAIN carts |-> carts[i].demand]

Members(labels, label) == {i \in DOMAIN labels : labels[i] = label}

\* The clusters that labels, the library's or those above, make of the carts.
ClusterDemandZones(carts, labels) ==
    IF Len(carts) < MinSamples THEN <<>>
    ELSE [label \in {labels[i] : i \in DOMAIN labels} \ {Noise} |->
            [carts |-> Members(labels, label),
             demand |-> SumFunctionOnSet(Demands(carts), Members(labels, label)),
             cells |-> {Cell(carts[i]) : i \in Members(labels, label)}]]

-----------------------------------------------------------------------------
(* Heatmaps.                                                               *)

CartsIn(carts, cell) == {i \in DOMAIN carts : Cell(carts[i]) = cell}

Velocities(carts) == [i \in DOMAIN carts |-> carts[i].velocity]

\* The velocities of a cell's carts.
Intensity(carts) ==
    [cell \in {Cell(carts[i]) : i \in DOMAIN carts} |->
       SumFunctionOnSet(Velocities(carts), CartsIn(carts, cell))]

\* A fifth more, or less, than before; a cell without a past is stable.
Trend(cell, intensity, previous) ==
    CASE cell \notin DOMAIN previous -> "stable"
      [] cell \in DOMAIN previous /\ 5 * intensity > 6 * previous[cell] -> "rising"
      [] cell \in DOMAIN previous /\ 5 * intensity < 4 * previous[cell] -> "falling"
      [] OTHER -> "stable"

GenerateHeatmap(carts, previous) ==
    [cell \in DOMAIN Intensity(carts) |->
       [intensity |-> Intensity(carts)[cell],
        carts |-> Cardinality(CartsIn(carts, cell)),
        trend |-> Trend(cell, Intensity(carts)[cell], previous)]]

-----------------------------------------------------------------------------
(* Migrations.                                                             *)

In(heatmap, cell) == IF cell \in DOMAIN heatmap THEN heatmap[cell].intensity ELSE 0

Delta(current, previous, cell) == In(current, cell) - In(previous, cell)

\* Cells of a heatmap have hashes of one length: neighbours share all but the last.
Adjacent(cell, other) == Zone(cell) = Zone(other)

\* order lists all cells of both heatmaps as a Python set enumerates them, which
\* may differ from process to process.  A cell that lost demand is compared only
\* with the cells after it.
DetectDemandMigration(current, previous, threshold, order) ==
    LET Change(i) == Delta(current, previous, order[i])
        Amount(i, j) == Min({-Change(i), Change(j)})
        Moves == {p \in (DOMAIN order) \X (DOMAIN order) :
                    /\ p[1] < p[2]
                    /\ Change(p[1]) < 0 /\ Change(p[2]) > 0
                    /\ Adjacent(order[p[1]], order[p[2]])
                    /\ Amount(p[1], p[2]) >= threshold}
    IN  {[from |-> order[p[1]], to |-> order[p[2]], amount |-> Amount(p[1], p[2]),
          confidence |-> (1000 * Amount(p[1], p[2]))
                            \div Max({-Change(p[1]), Change(p[2])})] : p \in Moves}
=============================================================================
