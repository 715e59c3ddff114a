---------------------------- MODULE WatermarkFold ----------------------------
(***************************************************************************)
(* The incremental aggregates of the backend.  A pass of a leader worker   *)
(* folds the event rows whose created_at lies in (watermark, boundary] into*)
(* an aggregate table and moves the watermark to the boundary.  A behaviour*)
(* is about one of them, its kind:                                         *)
(*                                                                         *)
(*   "timeline"    service/timeline.rs        maintain_blocking            *)
(*   "sessions"    service/siem/sessions.rs   derive                       *)
(*   "daily"       service/siem/anomalies.rs  daily_counts_step            *)
(*   "first_seen"  service/siem/anomalies.rs  first_seen_step              *)
(*   "identity"    service/siem/anomalies.rs  identity_context_step        *)
(*                                                                         *)
(* The hard part is that created_at is stamped by the writer before its    *)
(* transaction commits, on a clock of its own, so rows appear behind the   *)
(* newest created_at.  The fold leaves a margin for them.                  *)
(*                                                                         *)
(* A pass is two steps, because other transactions commit in between: it   *)
(* reads the watermark (and the clock, and for "sessions" the rows), then  *)
(* its transaction folds and advances.  In anomalies.rs both are in one    *)
(* transaction, which READ COMMITTED does not isolate.                     *)
(***************************************************************************)
EXTENDS Integers, FiniteSets

CONSTANTS
  Rows,            (* event rows                                           *)
  CloudtrailRows,  (* those of cloudtrail_events                           *)
  Passes,          (* workers that may run a pass; more than one when the  *)
                   (* workers of two leaders overlap                       *)
  Kinds,           (* the folds of an instance                             *)
  MARGIN,          (* *_SAFETY_MARGIN_MINS, *_WATERMARK_LAG_MINS           *)
  STEP,            (* MAX_*_STEP_HOURS                                     *)
  LIMIT,           (* HARVEST_STEP_ROWS                                    *)
  DELAY,           (* bound on the time from stamping a row to its commit  *)
  SKEW,            (* bound on the difference of a clock to the real time  *)
  MaxTime          (* bound on the clock                                   *)

Folds == {"timeline", "sessions", "daily", "first_seen", "identity"}

ASSUME KindsAssumption == Kinds \subseteq Folds
ASSUME RowsAssumption  == CloudtrailRows \subseteq Rows
ASSUME TimesAssumption == /\ MARGIN \in Nat \ {0}
                          /\ STEP \in Nat \ {0}
                          /\ LIMIT \in Nat \ {0}
                          /\ DELAY \in Nat
                          /\ SKEW \in Nat
                          /\ MaxTime \in Nat

VARIABLES
  kind,      (* the fold of this behaviour                                *)
  now,       (* real time                                                  *)
  rows,      (* "absent", "stamped" (in memory), "committed" or "lost"     *)
  created,   (* created_at of a row                                        *)
  due,       (* when a stamped row is committed at the latest              *)
  marked,    (* the row of ingest_watermarks exists                        *)
  wm,        (* its last_event_at                                          *)
  base,      (* ghost: where the fold started                              *)
  pass,      (* what each pass has read                                    *)
  tally      (* how often each row was added to the aggregate              *)

vars == <<kind, now, rows, created, due, marked, wm, base, pass, tally>>

(* First instant of the model: every clock and target is positive. *)
Start == MARGIN + 2 * SKEW + 1
End   == Start + MaxTime

(* Kinds whose first pass starts at its target instead of at the epoch. *)
StartsAtTarget == kind \in {"timeline", "sessions"}

(* Kinds whose target follows the newest row instead of the clock. *)
FollowsRows == kind \in {"first_seen", "identity"}

Idle == [busy |-> FALSE, w |-> 0, b |-> 0, seen |-> {}]

(* The newest clock that can be read, and the newest target of a pass. *)
Newest    == now + SKEW
NewestEnd == Newest - MARGIN

TypeOK ==
  /\ kind \in Kinds
  /\ now \in Start .. End
  /\ rows \in [Rows -> {"absent", "stamped", "committed", "lost"}]
  /\ created \in [Rows -> 0 .. Newest]
  /\ due \in [Rows -> 0 .. End + DELAY]
  /\ marked \in BOOLEAN
  /\ wm \in 0 .. NewestEnd
  /\ base \in 0 .. NewestEnd
  /\ pass \in [Passes -> [busy : BOOLEAN, w : 0 .. NewestEnd, b : 0 .. NewestEnd,
                          seen : SUBSET Rows]]
  /\ tally \in [Rows -> Nat]

Init ==
  /\ kind \in Kinds
  /\ now = Start
  /\ rows = [r \in Rows |-> "absent"]
  /\ created = [r \in Rows |-> 0]
  /\ due = [r \in Rows |-> 0]
  /\ marked = FALSE
  /\ wm = 0
  /\ base = 0
  /\ pass = [p \in Passes |-> Idle]
  /\ tally = [r \in Rows |-> 0]

-----------------------------------------------------------------------------
(* The writers of event rows.                                              *)

(* A writer builds a row: created_at is its clock now, not at the commit. *)
Stamp(r) ==
  /\ rows[r] = "absent"
  /\ \E c \in now - SKEW .. now + SKEW : created' = [created EXCEPT ![r] = c]
  /\ rows' = [rows EXCEPT ![r] = "stamped"]
  /\ due' = [due EXCEPT ![r] = now + DELAY]
  /\ UNCHANGED <<kind, now, marked, wm, base, pass, tally>>

CommitRow(r) ==
  /\ rows[r] = "stamped"
  /\ rows' = [rows EXCEPT ![r] = "committed"]
  /\ due' = [due EXCEPT ![r] = 0]
  /\ UNCHANGED <<kind, now, created, marked, wm, base, pass, tally>>

(* Its transaction fails or its process ends. *)
LoseRow(r) ==
  /\ rows[r] = "stamped"
  /\ rows' = [rows EXCEPT ![r] = "lost"]
  /\ due' = [due EXCEPT ![r] = 0]
  /\ created' = [created EXCEPT ![r] = 0]
  /\ UNCHANGED <<kind, now, marked, wm, base, pass, tally>>

-----------------------------------------------------------------------------
(* A pass.                                                                 *)

(* The rows the fold is over: two of them read cloudtrail_events only. *)
Source == IF kind \in {"sessions", "identity"} THEN CloudtrailRows ELSE Rows

Committed == {r \in Source : rows[r] = "committed"}

(* Wrong: the row at the watermark is read again. *)
Window_FromWatermark(w, b) == {r \in Committed : w <= created[r] /\ created[r] <= b}

(* Wrong: the row at the boundary is not read. *)
Window_BeforeBoundary(w, b) == {r \in Committed : w < created[r] /\ created[r] < b}

Window(w, b) == {r \in Committed : w < created[r] /\ created[r] <= b}

Least(a, b) == IF a <= b THEN a ELSE b

(* t is the target of a pass: the clock, or the newest row, less a margin. *)
IsTarget(t) ==
  IF FollowsRows
    THEN \E r \in Committed : /\ t = created[r] - MARGIN
                              /\ \A q \in Committed : created[q] <= created[r]
    ELSE \E c \in now - SKEW .. now + SKEW : t = c - MARGIN

Targets == {c - MARGIN : c \in (now - SKEW .. now + SKEW)
                               \cup {created[r] : r \in Rows}}

(* Wrong: without rows of cloudtrail_events the watermark stays. *)
IsRowLimit_NoCoalesce(l, w, t) ==
  LET cand  == Window(w, t) \cap CloudtrailRows
      first == {r \in cand : Cardinality({q \in cand : created[q] < created[r]}) < LIMIT}
  IN  \E r \in first : l = created[r] /\ \A q \in first : created[q] <= l

(* l is the newest of the first LIMIT rows of cloudtrail_events in (w, t], *)
(* or t when there is none: the last argument of LEAST in harvest_boundary.*)
IsRowLimit(l, w, t) ==
  LET cand  == Window(w, t) \cap CloudtrailRows
      first == {r \in cand : Cardinality({q \in cand : created[q] < created[r]}) < LIMIT}
  IN  IF first = {}
        THEN l = t
        ELSE \E r \in first : l = created[r] /\ \A q \in first : created[q] <= l

(* Wrong: the step is not cut at the target. *)
IsBoundary_NoTarget(b, w, t) == b = w + STEP

IsBoundary(b, w, t) ==
  IF StartsAtTarget
    THEN b = Least(t, w + STEP)
    ELSE \E l \in {t} \cup {created[r] : r \in Rows} :
           IsRowLimit(l, w, t) /\ b = Least(Least(t, w + STEP), l)

Boundaries(w, t) == {t, w + STEP} \cup {created[r] : r \in Rows}

(* Without a watermark the pass starts at its target or at the epoch. *)
From(t) == IF marked THEN wm ELSE IF StartsAtTarget THEN t ELSE 0

Begin(p) ==
  /\ ~pass[p].busy
  /\ \E t \in Targets :
       /\ IsTarget(t)
       /\ LET w == From(t)
          IN  \E b \in Boundaries(w, t) :
                /\ IsBoundary(b, w, t)
                (* "caught up": the harvests return early *)
                /\ StartsAtTarget \/ b > w
                /\ pass' = [pass EXCEPT ![p] =
                              [busy |-> TRUE, w |-> w, b |-> b,
                               seen |-> IF kind = "sessions" THEN Window(w, b)
                                                             ELSE {}]]
  /\ UNCHANGED <<kind, now, rows, created, due, marked, wm, base, tally>>

(* The transaction of a pass: it adds the rows to the aggregate and moves  *)
(* the watermark to the boundary, with GREATEST against what is there.     *)

AddEach(S) == tally' = [r \in Rows |-> IF r \in S THEN tally[r] + 1 ELSE tally[r]]

(* min and max do not change when a row is folded again *)
AddOnce(S) == tally' = [r \in Rows |-> IF r \in S THEN 1 ELSE tally[r]]

Advance(p) ==
  /\ wm' = IF marked THEN -Least(-wm, -pass[p].b) ELSE pass[p].b
  /\ base' = IF marked THEN base ELSE pass[p].w
  /\ marked' = TRUE
  /\ pass' = [pass EXCEPT ![p] = Idle]
  /\ UNCHANGED <<kind, now, rows, created, due>>

FoldTimeline(p) ==
  /\ kind = "timeline" /\ pass[p].busy
  /\ AddEach(Window(pass[p].w, pass[p].b))
  /\ Advance(p)

(* Wrong: rows aggregated at the start, boundary of the end.               *)
FoldSessions_Late(p) ==
  /\ kind = "sessions" /\ pass[p].busy
  /\ AddEach(pass[p].seen)
  /\ wm' = now
  /\ base' = IF marked THEN base ELSE pass[p].w
  /\ marked' = TRUE
  /\ pass' = [pass EXCEPT ![p] = Idle]
  /\ UNCHANGED <<kind, now, rows, created, due>>

(* The rows were aggregated before the transaction started. *)
FoldSessions(p) ==
  /\ kind = "sessions" /\ pass[p].busy
  /\ AddEach(pass[p].seen)
  /\ Advance(p)

FoldDaily(p) ==
  /\ kind = "daily" /\ pass[p].busy
  /\ AddEach(Window(pass[p].w, pass[p].b))
  /\ Advance(p)

FoldFirstSeen(p) ==
  /\ kind = "first_seen" /\ pass[p].busy
  /\ AddOnce(Window(pass[p].w, pass[p].b))
  /\ Advance(p)

FoldIdentity(p) ==
  /\ kind = "identity" /\ pass[p].busy
  /\ AddOnce(Window(pass[p].w, pass[p].b))
  /\ Advance(p)

Fold(p) == \/ FoldTimeline(p)
           \/ FoldSessions(p)
           \/ FoldDaily(p)
           \/ FoldFirstSeen(p)
           \/ FoldIdentity(p)

(* The pass fails, times out, or its process ends: nothing is committed. *)
Abort(p) ==
  /\ pass[p].busy
  /\ pass' = [pass EXCEPT ![p] = Idle]
  /\ UNCHANGED <<kind, now, rows, created, due, marked, wm, base, tally>>

Tick ==
  /\ now < End
  /\ \A r \in Rows : rows[r] = "stamped" => now < due[r]
  /\ now' = now + 1
  /\ UNCHANGED <<kind, rows, created, due, marked, wm, base, pass, tally>>

-----------------------------------------------------------------------------
Next ==
  \/ Tick
  \/ \E r \in Rows : Stamp(r) \/ CommitRow(r) \/ LoseRow(r)
  \/ \E p \in Passes : Begin(p) \/ Fold(p) \/ Abort(p)

Spec == Init /\ [][Next]_vars

(* Time passes, the transaction of a writer ends one way or the other, the *)
(* leader starts a pass on every interval, and a pass that keeps being     *)
(* started is not always aborted.                                          *)
Fairness ==
  /\ WF_vars(Tick)
  /\ \A r \in Rows : WF_vars(CommitRow(r) \/ LoseRow(r))
  /\ \A p \in Passes : WF_vars(Begin(p)) /\ SF_vars(Fold(p))

FairSpec == Spec /\ Fairness

-----------------------------------------------------------------------------
(* The margin covers what a row may be late by, on the worst clocks. *)
MarginCovers == DELAY + 2 * SKEW < MARGIN

(* The election keeps its word: the workers of two leaders never overlap. *)
SinglePass == \A p, q \in Passes : p = q

(* The aggregate is what a recomputation up to the watermark would give:   *)
(* every row between the start of the fold and the watermark was added     *)
(* exactly once, whatever order rows committed in, and no row beyond the   *)
(* watermark was added.                                                    *)
TallyExact ==
  \A r \in Source : rows[r] \in {"stamped", "committed"} =>
    tally[r] = IF marked /\ base < created[r] /\ created[r] <= wm THEN 1 ELSE 0

(* However passes overlap, the min / max caches miss no row. *)
NothingSkipped ==
  \A r \in Committed : marked /\ base < created[r] /\ created[r] <= wm
                         => tally[r] > 0

Tally == INSTANCE EventTally

(* The fold implements the recomputed aggregate. *)
ImplementsTally == Tally!Spec

(* The margin keeps a row from being folded: until the end of time, or     *)
(* until there is a newer row.                                             *)
HeldBack(r) ==
  IF FollowsRows THEN \A q \in Committed : created[q] < created[r] + MARGIN
                 ELSE created[r] > End - SKEW - MARGIN

(* A committed row that the margin does not hold back is folded, however   *)
(* steps are cut by hours and by rows, unless the fold started after it.   *)
EventuallyFolded ==
  \A r \in Rows :
    (r \in Committed /\ ~HeldBack(r) /\ (marked => base < created[r]))
      ~> (tally[r] > 0 \/ created[r] <= base)
-----------------------------------------------------------------------------
(* The inductive strengthening of TallyExact, for one pass at a time and a *)
(* margin that covers the delays.                                          *)

(* A row is committed soon after its created_at. *)
InFlight ==
  \A r \in Rows :
    /\ rows[r] = "stamped" =>
         due[r] >= now /\ created[r] >= due[r] - DELAY - SKEW
    /\ rows[r] \in {"stamped", "committed"} => created[r] >= Start - SKEW

(* Before the first fold nothing is counted; what is not committed never is.*)
Untouched ==
  /\ marked \/ (wm = 0 /\ base = 0)
  /\ \A r \in Rows : ~marked \/ rows[r] # "committed" => tally[r] = 0

(* What a pass has read still holds when its transaction starts. *)
PassCurrent ==
  \A p \in Passes : pass[p].busy =>
    /\ marked => pass[p].w = wm
    /\ ~marked => pass[p].w <= pass[p].b
    /\ kind = "sessions" => pass[p].seen = Window(pass[p].w, pass[p].b)

FoldInv == /\ TypeOK
           /\ InFlight
           /\ Untouched
           /\ base <= wm
           /\ PassCurrent
           /\ TallyExact
=============================================================================
