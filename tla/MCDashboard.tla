---------------------------- MODULE MCDashboard ----------------------------
(***************************************************************************)
(* An instance of Dashboard for TLC.                                       *)
(***************************************************************************)
EXTENDS Dashboard

C(story, stock, temp) == [story |-> story, stock |-> stock, temp |-> temp]
Complete(cart) == [full |-> TRUE, cart |-> cart]

\* One cart of each status, among them the storyboard's.
MCSeed == <<C(FALSE, 72, -21), C(TRUE, 4, -14), C(FALSE, 0, 0)>>

\* A table with a short row, a warm full cart, an empty cold one and a stock and
\* a temperature at their thresholds; an object without warnings;
\* JSON that cannot be parsed.
MCTexts ==
    {[form |-> "table",
      rows |-> <<Complete(C(FALSE, 21, -11)), Complete(C(FALSE, 20, -12)),
                 [full |-> FALSE, cart |-> C(TRUE, 4, -14)]>>],
     [form |-> "object", rows |-> <<Complete(C(TRUE, 72, Missing))>>],
     [form |-> "broken", rows |-> <<Complete(C(FALSE, 4, -14))>>]}

MCLimit ==
    [nav |-> 2, input |-> 1, click |-> 2, tour |-> 2, submit |-> 2, grow |-> 1, open |-> 1,
     any |-> 4]
=============================================================================
