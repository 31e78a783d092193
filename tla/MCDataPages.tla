---------------------------- MODULE MCDataPages ----------------------------
(***************************************************************************)
(* Checks the page walk of format_data_page over every cache of at most   *)
(* MaxVals values whose texts are Widths characters long, under both      *)
(* per-page budgets.  The input is chosen in Init and never changes.      *)
(***************************************************************************)
EXTENDS DataPages

CONSTANTS Widths, MaxVals

VARIABLES lens, budget
vars == <<lens, budget>>

Init ==
  /\ lens \in BoundedSeq(Widths, MaxVals)
  /\ budget \in {M_VALUES_MAX_CHARS, C_VALUES_MAX_CHARS}

Next == UNCHANGED vars

Spec == Init /\ [][Next]_vars

\* Every value of the cache is returned by one of the pages aD0! .. aD9!
\* (the pages the greedy layout needs always number at most 10 here): a
\* master that reads the pages in turn receives the whole measurement.
NoValueLost ==
  \A i \in 1..Len(lens) :
    \E p \in 0..(MAX_DATA_PAGES - 1) : Contains(FormatDataPage(lens, p, budget), i)

\* No page format_data_page produces carries more value text than the
\* budget of its measurement type (35 for M/V, 75 for C/R/HA).
PageWithinBudget ==
  \A p \in 0..1 : TextLen(lens, FormatDataPage(lens, p, budget)) <= budget
=============================================================================
