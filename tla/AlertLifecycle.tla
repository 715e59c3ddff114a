--------------------------- MODULE AlertLifecycle ---------------------------
(***************************************************************************)
(* The life of one alert, a row of the table alerts.  It is written by     *)
(*                                                                         *)
(*   the detection rules and the auto-resolve of a SIEM pass,              *)
(*     one transaction (backend/src/service/siem/alerts.rs, travel.rs);    *)
(*   the GuardDuty ingest, for findings (siem/guardduty.rs);               *)
(*   analysts, through the triage endpoints (api/controllers/alerts.rs);   *)
(*   the retention worker (service/retention.rs).                          *)
(*                                                                         *)
(* They share nothing but the row, and each knows only what the row says.  *)
(* Rows of different fingerprints do not meet, so one row is enough.       *)
(***************************************************************************)
EXTENDS Integers, FiniteSets

CONSTANTS
  Sources,     (* who may raise the alert: "rule", "guardduty"             *)
  Analysts,
  THRESHOLD,   (* events a rule needs, 1 for most of them                  *)
  WINDOW,      (* siem.window_days                                         *)
  AUTO,        (* auto-resolve after 24 hours                              *)
  DERIVED,     (* retention.derived_days                                   *)
  MaxTime,     (* bound on the clock                                       *)
  Absent       (* the table holds no row                                   *)

None == "none"

ASSUME SourceAssumption == Sources \subseteq {"rule", "guardduty"}
ASSUME PeopleAssumption == Analysts \cap {None, "auto", "guardduty"} = {}
ASSUME SpansAssumption ==
  /\ {THRESHOLD, WINDOW, AUTO, DERIVED} \subseteq Nat \ {0}
  /\ MaxTime \in Nat

Time   == 0 .. MaxTime
NoTime == -1
Status == {"open", "acked", "resolved"}
Row    == [status : Status, last_seen : Time, acked : BOOLEAN,
           resolved_by : Analysts \cup {None, "auto", "guardduty"},
           resolved_at : Time \cup {NoTime}]

ASSUME AbsentAssumption == Absent \notin Row

VARIABLES
  source,    (* the column source: who raises the alert of this behaviour  *)
  now,       (* the clock of the database                                  *)
  events,    (* event_time of the committed events the rule matches        *)
  alert,     (* the row                                                    *)
  buried,    (* ghost: resolved_at of the row retention deleted last       *)
  before     (* ghost: the status the last resolve found                   *)

vars == <<source, now, events, alert, buried, before>>

(* Types; a row that is resolved says when. *)
TypeOK ==
  /\ source \in Sources
  /\ now \in Time
  /\ events \in SUBSET Time
  /\ alert \in Row \cup {Absent}
  /\ alert # Absent /\ alert.status = "resolved" => alert.resolved_at # NoTime
  /\ buried \in Time \cup {NoTime}
  /\ before \in Status

Init ==
  /\ source \in Sources
  /\ now = 0
  /\ events = {}
  /\ alert = Absent
  /\ buried = NoTime
  /\ before = "open"

Tick ==
  /\ now < MaxTime
  /\ now' = now + 1
  /\ UNCHANGED <<source, events, alert, buried, before>>

(* An event is committed, soon or long after its event_time. *)
Ingest(t) ==
  /\ source = "rule"
  /\ t <= now
  /\ events' = events \cup {t}
  /\ UNCHANGED <<source, now, alert, buried, before>>

-----------------------------------------------------------------------------
(* evaluate: rules, then auto-resolve                                      *)

Matched == {t \in events : t >= now - WINDOW}

Later(a, b) == IF a >= b THEN a ELSE b

(* Wrong: only what a machine resolved is reopened. *)
Reopens_Auto(row, last) ==
  row.status = "resolved" /\ row.resolved_by = "auto" /\ last > row.resolved_at

(* COALESCE(resolved_at, last_seen): a resolved row has a resolved_at. *)
Reopens(row, last) == row.status = "resolved" /\ last > row.resolved_at

NewRow(last) == [status |-> "open", last_seen |-> last, acked |-> FALSE,
                 resolved_by |-> None, resolved_at |-> NoTime]

(* INSERT ... ON CONFLICT (fingerprint) DO UPDATE *)
Upsert(last) ==
  IF alert = Absent THEN NewRow(last)
  ELSE [alert EXCEPT !.last_seen = Later(@, last),
                     !.status = IF Reopens(alert, last) THEN "open" ELSE @]

Detected ==
  IF Cardinality(Matched) < THRESHOLD THEN {alert}
  ELSE {Upsert(last) : last \in {t \in Matched : \A u \in Matched : u <= t}}

(* Wrong: whatever is not resolved is resolved. *)
AutoResolve_Acked(row) ==
  IF row # Absent /\ row.status # "resolved" /\ row.last_seen < now - AUTO
    THEN [row EXCEPT !.status = "resolved", !.resolved_by = "auto",
                     !.resolved_at = now]
    ELSE row

(* Wrong: the time of the resolution is left out. *)
AutoResolve_Untimed(row) ==
  IF row # Absent /\ row.status = "open" /\ row.last_seen < now - AUTO
    THEN [row EXCEPT !.status = "resolved", !.resolved_by = "auto"]
    ELSE row

AutoResolve(row) ==
  IF row # Absent /\ row.status = "open" /\ row.last_seen < now - AUTO
    THEN [row EXCEPT !.status = "resolved", !.resolved_by = "auto",
                     !.resolved_at = now]
    ELSE row

Evaluate ==
  /\ source = "rule"
  /\ \E row \in Detected :
       /\ alert' = AutoResolve(row)
       /\ before' = IF alert' = row THEN before ELSE row.status
  /\ UNCHANGED <<source, now, events, buried>>

-----------------------------------------------------------------------------
(* sweep_detector: the upsert of a finding                                 *)

(* Wrong: any resolution gives way to an active finding. *)
ByMachine_Any(row) == row.status = "resolved"

ByMachine(row) == row.status = "resolved" /\ row.resolved_by \in {"auto", "guardduty"}

(* Wrong: the row is opened again, its resolution is left in it. *)
FindingActive_KeepsTrail(row) ==
  IF ByMachine(row) THEN [row EXCEPT !.status = "open"] ELSE row

FindingActive(row) ==
  IF ByMachine(row)
    THEN [row EXCEPT !.status = "open", !.resolved_by = None,
                     !.resolved_at = NoTime]
    ELSE row

(* COALESCE keeps who resolved the alert before, and when. *)
FindingArchived(row) ==
  [row EXCEPT !.status = "resolved",
              !.resolved_by = IF @ = None THEN "guardduty" ELSE @,
              !.resolved_at = IF @ = NoTime THEN now ELSE @]

UpsertFinding(archived, last) ==
  /\ source = "guardduty"
  /\ last <= now
  /\ LET row == IF alert = Absent THEN NewRow(last)
                ELSE [alert EXCEPT !.last_seen = Later(@, last)]
     IN  alert' = IF archived THEN FindingArchived(row) ELSE FindingActive(row)
  /\ before' = IF ~ archived THEN before
               ELSE IF alert = Absent THEN "open"
               ELSE IF alert.status = "resolved" THEN before ELSE alert.status
  /\ UNCHANGED <<source, now, events, buried>>

-----------------------------------------------------------------------------
(* Triage                                                                  *)

Ack ==
  /\ alert # Absent /\ alert.status # "resolved"
  /\ alert' = [alert EXCEPT !.status = "acked", !.acked = TRUE]
  /\ UNCHANGED <<source, now, events, buried, before>>

Resolve(who) ==
  /\ alert # Absent
  /\ alert' = [alert EXCEPT !.status = "resolved", !.resolved_by = who,
                            !.resolved_at = now]
  /\ before' = IF alert.status = "resolved" THEN before ELSE alert.status
  /\ UNCHANGED <<source, now, events, buried>>

Unack ==
  /\ alert # Absent /\ alert.status = "acked"
  /\ alert' = [alert EXCEPT !.status = "open", !.acked = FALSE]
  /\ UNCHANGED <<source, now, events, buried, before>>

(* Wrong: un-resolve opens the alert. *)
Unresolve_Open ==
  /\ alert # Absent /\ alert.status = "resolved"
  /\ alert' = [alert EXCEPT !.status = "open", !.acked = FALSE,
                            !.resolved_by = None, !.resolved_at = NoTime]
  /\ UNCHANGED <<source, now, events, buried, before>>

Unresolve ==
  /\ alert # Absent /\ alert.status = "resolved"
  /\ alert' = [alert EXCEPT !.status = IF alert.acked THEN "acked" ELSE "open",
                            !.resolved_by = None, !.resolved_at = NoTime]
  /\ UNCHANGED <<source, now, events, buried, before>>

Triage == Ack \/ (\E who \in Analysts : Resolve(who)) \/ Unack \/ Unresolve

-----------------------------------------------------------------------------
(* Retention                                                               *)

(* Wrong: the age of the alert counts, not that of its resolution. *)
Prune_LastSeen ==
  /\ alert # Absent /\ alert.status = "resolved"
  /\ alert.last_seen < now - DERIVED
  /\ alert' = Absent
  /\ buried' = alert.resolved_at
  /\ UNCHANGED <<source, now, events, before>>

Prune ==
  /\ alert # Absent /\ alert.status = "resolved"
  /\ alert.resolved_at < now - DERIVED
  /\ alert' = Absent
  /\ buried' = alert.resolved_at
  /\ UNCHANGED <<source, now, events, before>>

-----------------------------------------------------------------------------
Next ==
  \/ Tick
  \/ \E t \in Time : Ingest(t)
  \/ Evaluate
  \/ \E archived \in BOOLEAN, last \in Time : UpsertFinding(archived, last)
  \/ Triage
  \/ Prune

Spec == Init /\ [][Next]_vars

-----------------------------------------------------------------------------
(* Triage stands.  An alert an analyst has acknowledged leaves "acked"     *)
(* only by another triage or because GuardDuty archived the finding.  An   *)
(* alert an analyst has resolved stays resolved unless it is un-resolved,  *)
(* or the rule matches an event later than the resolution.  An alert that  *)
(* was acknowledged when it was resolved is so again after un-resolve,     *)
(* which takes the state from acked_at, whatever rules, findings and other *)
(* analysts did in between.  (The converse is false: an un-resolved alert  *)
(* may be "acked" although it was open when it was resolved.)              *)
AckStands ==
  alert # Absent /\ alert.status = "acked" =>
    \/ alert' # Absent /\ alert'.status = "acked"
    \/ Triage
    \/ \E last \in Time : UpsertFinding(TRUE, last)

ResolveStands ==
  alert # Absent /\ alert.status = "resolved" /\ alert.resolved_by \in Analysts
    /\ alert' # Absent /\ alert'.status # "resolved"
  => Unresolve \/ \E t \in Matched : t > alert.resolved_at

AckReturns == Unresolve /\ before = "acked" => alert'.status = "acked"

TriageStands == [][AckStands /\ ResolveStands /\ AckReturns]_vars

(* A resolved alert hides nothing: after a pass there is no match later    *)
(* than the resolution, although events come late and analysts resolve     *)
(* between passes.                                                         *)
NothingHidden ==
  [][Evaluate /\ Cardinality(Matched) >= THRESHOLD
       /\ alert' # Absent /\ alert'.status = "resolved"
     => \A t \in Matched : t <= alert'.resolved_at]_vars

(* Retention and rules: an alert that was resolved and pruned does not     *)
(* come back for the events it was raised for.                             *)
NoResurrection ==
  source = "rule" /\ buried # NoTime /\ alert # Absent => alert.last_seen > buried

(* The row of a finding carries a resolution exactly when it is resolved.  *)
TrailMatchesStatus ==
  source = "guardduty" /\ alert # Absent =>
    /\ alert.status = "resolved" <=> alert.resolved_at # NoTime
    /\ alert.status = "resolved" <=> alert.resolved_by # None
=============================================================================
