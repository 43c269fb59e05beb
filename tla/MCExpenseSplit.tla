--------------------------- MODULE MCExpenseSplit ---------------------------
(* Small instances of ExpenseSplit; the other bounds are in the .cfg files. *)
EXTENDS ExpenseSplit

CONSTANTS Totals, Modes, Typed, Excluded

\* Nothing is typed when the split is equal.
MCForms ==
    {[total |-> n, mode |-> "equal", excluded |-> S, typed |-> [i \in Members |-> 0]]
        : n \in Totals, S \in Excluded}
    \union
    {[total |-> n, mode |-> m, excluded |-> S, typed |-> t]
        : n \in Totals, m \in Modes \ {"equal"}, S \in Excluded, t \in [Members -> Typed]}

\* Later forms divide a total equally, among everyone or not.
MCLaterForms == {f \in MCForms : f.mode = "equal"}
NoLaterForms == {}
=============================================================================
