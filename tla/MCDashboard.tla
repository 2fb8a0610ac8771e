---------------------------- MODULE MCDashboard ----------------------------
(* Small instances of Dashboard: four transactions of two months and two   *)
(* categories, one of them uploaded later, on pages of two.                *)
EXTENDS Dashboard

MCRows == 1 .. 4
MCStored == {1, 2, 4}
MCMonthOf == [r \in Rows |-> IF r <= 2 THEN "June" ELSE "July"]
MCCategoryOf == [r \in Rows |-> IF r \in {1, 4} THEN "Food" ELSE "Rent"]
MCCategories == {"Food", "Rent"}
MCEditable == {2, 4}

=============================================================================
