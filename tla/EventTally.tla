----------------------------- MODULE EventTally -----------------------------
(***************************************************************************)
(* What the incremental aggregates promise: event_timeline_hourly,         *)
(* actor_daily_counts, sessions.event_count and the first-seen and         *)
(* identity-context caches all claim to be a function of the events, as if *)
(* they were recomputed from scratch.  So an event enters the aggregate at *)
(* most once, and what has entered stays.                                  *)
(***************************************************************************)
EXTENDS Naturals

CONSTANT Rows        (* event rows of the source tables *)

VARIABLE tally       (* how often each row was added to the aggregate *)

Init == tally = [r \in Rows |-> 0]

Add(S) == tally' = [r \in Rows |-> IF r \in S THEN 1 ELSE tally[r]]

Next == \E S \in SUBSET {r \in Rows : tally[r] = 0} : Add(S)

Spec == Init /\ [][Next]_tally
=============================================================================
