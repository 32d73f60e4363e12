------------------------------ MODULE MCExpiry ------------------------------
(* The lengths of the minute and of the day and the widths of the fields,  *)
(* scaled down so that every one of them overflows.                        *)
EXTENDS Expiry

MCLifetimes == {-1, 0, 1, DAY_SEC, DAY_SEC + 1, 4 * DAY_SEC}

=============================================================================
