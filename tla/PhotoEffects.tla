---------------------------- MODULE PhotoEffects ----------------------------
(***************************************************************************)
(* What the photo pipeline promises about the lasting effects of a cart    *)
(* photo, with no workers, offsets or crashes in sight: a photo is         *)
(* analysed at most once and its analysis never changes; at most one       *)
(* inventory event is published for it, after the analysis and with its    *)
(* counts; at most one automatic refill follows, only when those counts    *)
(* are low, and the inventory event never comes after the refill.          *)
(* PhotoPipeline implements this specification.                            *)
(***************************************************************************)
EXTENDS Naturals, Sequences

CONSTANTS
    Photos,       \* identifiers of photos
    Counts,       \* product counts an analysis can report
    LowCounts,    \* those whose total is at or below the refill threshold
    Unanalysed    \* the value of a photo that has no analysis

VARIABLES
    tracked,      \* the photos that have a row in cart_photos
    found,        \* found[p]: the counts saved for p, or Unanalysed
    announced,    \* announced[p]: the counts of p's inventory events, in order
    refilled      \* refilled[p]: the counts of p's refill requests, in order

vars == <<tracked, found, announced, refilled>>

Init ==
    /\ tracked \in SUBSET Photos
    /\ found = [p \in Photos |-> Unanalysed]
    /\ announced = [p \in Photos |-> <<>>]
    /\ refilled = [p \in Photos |-> <<>>]

Analyse(p) ==
    /\ p \in tracked
    /\ found[p] = Unanalysed
    /\ \E c \in Counts : found' = [found EXCEPT ![p] = c]
    /\ UNCHANGED <<tracked, announced, refilled>>

Announce(p) ==
    /\ p \in tracked
    /\ found[p] # Unanalysed
    /\ announced[p] = <<>>
    /\ refilled[p] = <<>>
    /\ announced' = [announced EXCEPT ![p] = Append(@, found[p])]
    /\ UNCHANGED <<tracked, found, refilled>>

Refill(p) ==
    /\ p \in tracked
    /\ found[p] \in LowCounts
    /\ refilled[p] = <<>>
    /\ refilled' = [refilled EXCEPT ![p] = Append(@, found[p])]
    /\ UNCHANGED <<tracked, found, announced>>

Next == \E p \in Photos : Analyse(p) \/ Announce(p) \/ Refill(p)

Spec == Init /\ [][Next]_vars
=============================================================================
