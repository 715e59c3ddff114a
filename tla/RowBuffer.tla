----------------------------- MODULE RowBuffer ------------------------------
(***************************************************************************)
(* What the rest of the backend may rely on when it hands an audit row to  *)
(* the bg writer: the row is held in memory until it is stored, or until   *)
(* a failed flush or the end of the process loses it.  No row is forgotten *)
(* in any other way, and none is stored that was not handed over.          *)
(***************************************************************************)
EXTENDS FiniteSets

CONSTANT Rows

VARIABLES
  held,     (* rows in memory: in the channel, a buffer or a flush *)
  stored,   (* rows of the table                                   *)
  lost      (* rows some copy of which was lost                    *)

vars == <<held, stored, lost>>

Init == held = {} /\ stored = {} /\ lost = {}

Accept(row) ==
  /\ held' = held \cup {row}
  /\ UNCHANGED <<stored, lost>>

(* S is stored and L is lost; a row that was handed over twice may have a  *)
(* second copy that stays in memory.                                       *)
Settle(S, L) ==
  /\ S \cup L \subseteq held
  /\ held' \subseteq held
  /\ held \ (S \cup L) \subseteq held'
  /\ stored' = stored \cup S
  /\ lost' = lost \cup L

Next == (\E row \in Rows : Accept(row)) \/ (\E S, L \in SUBSET Rows : Settle(S, L))

Spec == Init /\ [][Next]_vars
=============================================================================
