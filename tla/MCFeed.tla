------------------------------- MODULE MCFeed -------------------------------
(* One instrument over three weekdays and the day before backfill_start,     *)
(* which a trade is dated.  A series of fewer than two days is sparse, one   *)
(* missing day is already a gap, and a rate reaches one day.                 *)
EXTENDS Feed

=============================================================================
