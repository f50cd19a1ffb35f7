----------------------------- MODULE Ingestion -----------------------------
(***************************************************************************)
(* The dashboard's conversion of pasted operator data into carts, and what *)
(* the pages show of a cart (frontend/app.js, parseRawData,                *)
(* renderCartsData and the ingestion handler).                             *)
(*                                                                         *)
(* A text is abstracted to its form and to the rows below its first line.  *)
(* Of a cart only its identity as the storyboard's cart, its stock and its *)
(* freezer temperature matter; a value that a record lacks is Missing, and *)
(* every comparison with it is false, as with JavaScript's undefined.      *)
(***************************************************************************)
EXTENDS Integers, Sequences, FiniteSets

CONSTANT Missing    \* a field that a record does not have

Cart == [story : BOOLEAN, stock : Int \cup {Missing}, temp : Int \cup {Missing}]

\* A row of a table may have fewer columns than the header line.
Row == [full : BOOLEAN, cart : Cart]

\* "broken" begins like JSON and is not; "object" is one JSON object.
Forms == {"blank", "array", "object", "broken", "table"}
Text == {t \in [form : Forms, rows : Seq(Row)] : t.form = "object" => Len(t.rows) = 1}

\* What JSON that cannot be parsed becomes: its first line is taken for a
\* header, and no column of the lines below has a name that is looked for.
Nameless == [story |-> FALSE, stock |-> Missing, temp |-> Missing]

CartOf(row) == row.cart

\* A number that cannot be read in a column becomes zero.
Number(v) == IF v = Missing THEN 0 ELSE v
Read(row) == [row.cart EXCEPT !.stock = Number(@), !.temp = Number(@)]

Each(Op(_), s) == [i \in DOMAIN s |-> Op(s[i])]

EveryRow(rows) == Each(Read, rows)

\* SelectSeq, defined by the places of what is selected instead of by recursion.
Places(s, Ok(_)) == {i \in DOMAIN s : Ok(s[i])}
At(s, places) ==
    [k \in 1..Cardinality(places) |->
       s[CHOOSE i \in places : Cardinality({j \in places : j <= i}) = k]]
Select(s, Ok(_)) == At(s, Places(s, Ok))

\* Rows that are too short are skipped.
Full(row) == row.full
ReadTable(rows) == Each(Read, Select(rows, Full))

\* The carts that a text stands for; none for a text that is not understood.
ParseRawData(text) ==
    CASE text.form = "blank"  -> <<>>
      [] text.form \in {"array", "object"} -> Each(CartOf, text.rows)
      [] text.form = "broken" -> [i \in DOMAIN text.rows |-> Nameless]
      [] text.form = "table"  -> ReadTable(text.rows)

-----------------------------------------------------------------------------
\* A freezer above -12 degrees, a stock of at most 20, and none at all.
Warm(c) == c.temp # Missing /\ c.temp > -12
Low(c) == c.stock # Missing /\ c.stock <= 20
Empty(c) == c.stock # Missing /\ c.stock <= 0

Status(c) ==
    CASE Warm(c) \/ Empty(c) -> "offline"
      [] Low(c) /\ ~Warm(c) /\ ~Empty(c) -> "low-stock"
      [] OTHER -> "active"

HowMany(status, carts) == Cardinality({i \in DOMAIN carts : Status(carts[i]) = status})

\* The counters over the map.
Overlay(carts) == [s \in {"active", "low-stock", "offline"} |-> HowMany(s, carts)]

LowOnly(carts) == Select(carts, Low)

\* The carts that call for an action, and those that are queued for a refill.
CallsForAction(c) == Warm(c) \/ Low(c)
Warnings(carts) == Select(carts, CallsForAction)
Refills(carts) == Select(carts, Low)

Priority(c) ==
    CASE Empty(c) \/ Warm(c) -> "critical"
      [] ~Empty(c) /\ ~Warm(c) /\ c.stock <= 10 -> "high"
      [] OTHER -> "medium"

RefillQueue(carts) == Each(Priority, Refills(carts))
=============================================================================
