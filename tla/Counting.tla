------------------------------ MODULE Counting ------------------------------
(***************************************************************************)
(* What the analysis of a photo reports (yolo/inference.py): the counts of *)
(* its products and what was sold since the photo before.                  *)
(*                                                                         *)
(* A photo is readable or not, and shows the products that its detections  *)
(* name, whether they come from a model or are invented in its place: a    *)
(* function from products to counts that are not zero.  Confidences, boxes *)
(* and times are left out.                                                 *)
(***************************************************************************)
EXTENDS Integers, Sequences, FiniteSetsExt, Functions

NoProducts == [p \in {} |-> 0]

Total(counts) == SumFunction(counts)
CountOf(counts, p) == IF p \in DOMAIN counts THEN counts[p] ELSE 0

DeltaPerProduct(counts, previous) ==
    [p \in DOMAIN counts \cup DOMAIN previous |-> CountOf(counts, p) - CountOf(previous, p)]

EstimatedSoldNet(counts, previous) == Total(previous) - Total(counts)

\* What there is less of counts as sold.
EstimatedSold(counts, previous) ==
    LET delta == DeltaPerProduct(counts, previous)
    IN  SumFunction([p \in {q \in DOMAIN delta : delta[q] < 0} |-> -delta[p]])

\* A photo that cannot be decoded is compared with nothing.
EmptyResult == [counts |-> NoProducts, units |-> 0, estimates |-> {}]

\* previous holds the counts to compare with, if any; estimates what was sold.
AnalyzePhoto(photo, previous) ==
    IF ~photo.readable THEN EmptyResult
    ELSE [counts |-> photo.shows,
          units |-> Total(photo.shows),
          estimates |-> {EstimatedSold(photo.shows, p) : p \in previous}]

\* What the worker compares the next photo with: counts that are empty, of an
\* empty cart or of a photo that cannot be decoded, pass for none.
GetPreviousCounts(results) ==
    {results[i].counts : i \in {Len(results)} \cap {j \in DOMAIN results : results[j].counts # NoProducts}}

\* The results for the photos of a cart, taken and analysed one after another.
Results(photos) ==
    LET R[i \in 0..Len(photos)] ==
            IF i = 0 THEN <<>>
            ELSE Append(R[i - 1], AnalyzePhoto(photos[i], GetPreviousCounts(R[i - 1])))
    IN  R[Len(photos)]
=============================================================================
