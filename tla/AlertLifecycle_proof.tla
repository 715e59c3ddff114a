------------------------ MODULE AlertLifecycle_proof ------------------------
(***************************************************************************)
(* Theorems about the life of an alert, for any analysts, spans and bound  *)
(* on the clock.                                                           *)
(***************************************************************************)
EXTENDS AlertLifecycle, FiniteSetTheorems, TLAPS

(* A row the rules or the findings write is a row. *)
LEMMA UpsertIsRow ==
  ASSUME TypeOK, NEW last \in Time
  PROVE  /\ Upsert(last) \in Row
         /\ Upsert(last).status = "resolved" => Upsert(last).resolved_at # NoTime
<1>1. CASE alert = Absent
  BY <1>1 DEF Upsert, NewRow, Row, Status, Time, NoTime
<1>2. CASE alert # Absent
  <2>1. alert \in Row
    BY <1>2 DEF TypeOK
  <2>2. Later(alert.last_seen, last) \in Time
    BY <2>1 DEF Later, Row
  <2> QED
    BY <1>2, <2>1, <2>2 DEF Upsert, TypeOK, Row, Status
<1> QED
  BY <1>1, <1>2

(* Auto-resolve keeps a row a row, and dates what it resolves. *)
LEMMA AutoResolveIsRow ==
  ASSUME now \in Time, NEW row \in Row,
         row.status = "resolved" => row.resolved_at # NoTime
  PROVE  /\ AutoResolve(row) \in Row
         /\ AutoResolve(row).last_seen = row.last_seen
         /\ AutoResolve(row).status = "resolved" => AutoResolve(row).resolved_at # NoTime
<1>1. now # NoTime
  BY SpansAssumption DEF Time, NoTime
<1> QED
  BY <1>1 DEF AutoResolve, Row, Status

(* What a pass makes of the row: nothing, or a row that is not older.  A   *)
(* row it inserts was seen within the window.                              *)
LEMMA EvaluateRow ==
  ASSUME TypeOK, Evaluate
  PROVE  /\ alert' \in Row \cup {Absent}
         /\ alert' # Absent /\ alert'.status = "resolved" => alert'.resolved_at # NoTime
         /\ alert # Absent => alert' # Absent /\ alert'.last_seen >= alert.last_seen
         /\ alert = Absent /\ alert' # Absent => alert'.last_seen >= now - WINDOW
<1>1. PICK row \in Detected : alert' = AutoResolve(row)
  BY DEF Evaluate
<1>2. CASE row = Absent
  <2>1. alert' = Absent
    BY <1>1, <1>2 DEF AutoResolve
  <2>2. alert = Absent
    <3>1. SUFFICES ASSUME NEW last \in Time, row = Upsert(last) PROVE FALSE
      BY <1>2, <3>1 DEF Detected, Matched, TypeOK
    <3> QED
      BY <1>2, <3>1, UpsertIsRow, AbsentAssumption
  <2> QED
    BY <2>1, <2>2
<1>3. CASE row # Absent /\ Cardinality(Matched) < THRESHOLD
  <2>1. row = alert
    BY <1>3 DEF Detected
  <2>2. row \in Row /\ (row.status = "resolved" => row.resolved_at # NoTime)
    BY <1>3, <2>1 DEF TypeOK
  <2>3. /\ alert' \in Row /\ alert'.last_seen = row.last_seen
        /\ alert'.status = "resolved" => alert'.resolved_at # NoTime
    BY <1>1, <2>2, AutoResolveIsRow DEF TypeOK
  <2>4. row.last_seen >= row.last_seen
    BY <2>2 DEF Row, Time
  <2> QED
    BY <1>3, <2>1, <2>3, <2>4, AbsentAssumption
<1>4. CASE ~ Cardinality(Matched) < THRESHOLD
  <2>1. PICK last \in Matched : row = Upsert(last)
    BY <1>4 DEF Detected
  <2>2. last \in Time /\ last >= now - WINDOW
    BY <2>1 DEF Matched, TypeOK
  <2>3. row \in Row /\ (row.status = "resolved" => row.resolved_at # NoTime)
    BY <2>1, <2>2, UpsertIsRow
  <2>4. /\ alert' \in Row /\ alert'.last_seen = row.last_seen
        /\ alert'.status = "resolved" => alert'.resolved_at # NoTime
    BY <1>1, <2>3, AutoResolveIsRow DEF TypeOK
  <2>5. alert # Absent => row.last_seen >= alert.last_seen
    <3>1. SUFFICES ASSUME alert # Absent PROVE row.last_seen >= alert.last_seen
      OBVIOUS
    <3>2. alert \in Row
      BY <3>1 DEF TypeOK
    <3>3. row.last_seen = Later(alert.last_seen, last)
      BY <2>1, <3>1, <3>2 DEF Upsert, Row
    <3> QED
      BY <2>2, <3>2, <3>3 DEF Later, Row, Time
  <2>6. alert = Absent => row.last_seen >= now - WINDOW
    BY <2>1, <2>2 DEF Upsert, NewRow
  <2> QED
    BY <2>4, <2>5, <2>6, AbsentAssumption
<1> QED
  BY <1>2, <1>3, <1>4

(* The same of the upsert of a finding. *)
LEMMA FindingRow ==
  ASSUME TypeOK, NEW archived \in BOOLEAN, NEW last \in Time,
         UpsertFinding(archived, last)
  PROVE  /\ alert' \in Row
         /\ alert'.status = "resolved" => alert'.resolved_at # NoTime
<1> DEFINE row == IF alert = Absent THEN NewRow(last)
                  ELSE [alert EXCEPT !.last_seen = Later(@, last)]
<1>1. /\ row \in Row
      /\ row.status = "resolved" => row.resolved_at # NoTime
  <2>1. CASE alert = Absent
    BY <2>1 DEF NewRow, Row, Status, Time, NoTime
  <2>2. CASE alert # Absent
    <3>1. alert \in Row
      BY <2>2 DEF TypeOK
    <3>2. Later(alert.last_seen, last) \in Time
      BY <3>1 DEF Later, Row
    <3> QED
      BY <2>2, <3>1, <3>2 DEF TypeOK, Row, Status
  <2> QED
    BY <2>1, <2>2
<1>2. now \in Time /\ now # NoTime
  BY SpansAssumption DEF TypeOK, Time, NoTime
<1>3. alert' = IF archived THEN FindingArchived(row) ELSE FindingActive(row)
  BY DEF UpsertFinding
<1> HIDE DEF row
<1> QED
  BY <1>1, <1>2, <1>3 DEF FindingArchived, FindingActive, ByMachine, Row, Status, NoTime

-----------------------------------------------------------------------------
(* Type correctness *)

LEMMA TypeInit == Init => TypeOK
BY SpansAssumption DEF Init, TypeOK, Time, Status, NoTime

LEMMA TypeStep == TypeOK /\ [Next]_vars => TypeOK'
<1> SUFFICES ASSUME TypeOK, [Next]_vars PROVE TypeOK'
  OBVIOUS
<1>1. CASE Tick
  BY <1>1, SpansAssumption DEF Tick, TypeOK, Time
<1>2. ASSUME NEW t \in Time, Ingest(t) PROVE TypeOK'
  BY <1>2 DEF Ingest, TypeOK
<1>3. CASE Evaluate
  <2>1. PICK row \in Detected : /\ alert' = AutoResolve(row)
                                /\ before' = IF alert' = row THEN before ELSE row.status
    BY <1>3 DEF Evaluate
  <2>2. before' \in Status
    <3>1. CASE alert' = row
      BY <2>1, <3>1 DEF TypeOK
    <3>2. CASE alert' # row
      BY <2>1, <3>2 DEF AutoResolve, Status
    <3> QED
      BY <3>1, <3>2
  <2> QED
    BY <1>3, <2>2, EvaluateRow DEF Evaluate, TypeOK
<1>4. ASSUME NEW archived \in BOOLEAN, NEW last \in Time, UpsertFinding(archived, last)
      PROVE  TypeOK'
  <2>1. before' \in Status
    BY <1>4 DEF UpsertFinding, TypeOK, Row, Status
  <2> QED
    BY <1>4, <2>1, FindingRow DEF UpsertFinding, TypeOK
<1>5. CASE Ack
  BY <1>5 DEF Ack, TypeOK, Row, Status
<1>6. ASSUME NEW who \in Analysts, Resolve(who) PROVE TypeOK'
  <2>1. now # NoTime
    BY SpansAssumption DEF TypeOK, Time, NoTime
  <2> QED
    BY <1>6, <2>1 DEF Resolve, TypeOK, Row, Status
<1>7. CASE Unack
  BY <1>7 DEF Unack, TypeOK, Row, Status
<1>8. CASE Unresolve
  BY <1>8 DEF Unresolve, TypeOK, Row, Status
<1>9. CASE Prune
  BY <1>9 DEF Prune, TypeOK, Row
<1>10. CASE UNCHANGED vars
  BY <1>10 DEF vars, TypeOK
<1> QED
  BY <1>1, <1>2, <1>3, <1>4, <1>5, <1>6, <1>7, <1>8, <1>9, <1>10 DEF Next, Triage

(* The row is well-formed and a resolved row is dated, whoever writes it:  *)
(* the rules, the findings, the analysts or retention.                     *)
THEOREM AlertTypeCorrect == Spec => []TypeOK
BY TypeInit, TypeStep, PTL DEF Spec

-----------------------------------------------------------------------------
(* Retention and rules *)

(* A pruned alert was resolved longer ago than retention keeps it, and so  *)
(* longer ago than the rules look back: what they see later is newer.      *)
BuriedInv ==
  /\ TypeOK
  /\ buried # NoTime => buried < now - DERIVED
  /\ NoResurrection

LEMMA BuriedStep ==
  ASSUME DERIVED >= WINDOW
  PROVE  BuriedInv /\ [Next]_vars => BuriedInv'
<1> SUFFICES ASSUME BuriedInv, [Next]_vars PROVE BuriedInv'
  OBVIOUS
<1> USE DEF BuriedInv
<1>1. TypeOK'
  BY TypeStep
<1>2. /\ now \in Int /\ now' \in Int /\ buried \in Int
      /\ DERIVED \in Int /\ WINDOW \in Int
  BY <1>1, SpansAssumption DEF TypeOK, Time, NoTime
<1>3. CASE Tick
  BY <1>1, <1>2, <1>3 DEF Tick, NoResurrection
<1>4. ASSUME NEW t \in Time, Ingest(t) PROVE BuriedInv'
  BY <1>1, <1>4 DEF Ingest, NoResurrection
<1>5. CASE Evaluate
  <2>1. source' = source /\ now' = now /\ buried' = buried
    BY <1>5 DEF Evaluate
  <2>2. ASSUME source = "rule", buried # NoTime, alert' # Absent
        PROVE  alert'.last_seen > buried
    <3>1. alert' \in Row
      BY <1>5, <2>2, EvaluateRow
    <3>2. alert'.last_seen \in Int
      BY <3>1 DEF Row, Time
    <3>3. CASE alert = Absent
      <4>1. alert'.last_seen >= now - WINDOW
        BY <1>5, <2>2, <3>3, EvaluateRow
      <4> QED
        BY <1>2, <2>2, <3>2, <4>1
    <3>4. CASE alert # Absent
      <4>1. alert.last_seen \in Int
        BY <3>4 DEF TypeOK, Row, Time
      <4>2. alert'.last_seen >= alert.last_seen
        BY <1>5, <3>4, EvaluateRow
      <4>3. alert.last_seen > buried
        BY <2>2, <3>4 DEF NoResurrection
      <4> QED
        BY <1>2, <3>2, <4>1, <4>2, <4>3
    <3> QED
      BY <3>3, <3>4
  <2> QED
    BY <1>1, <2>1, <2>2 DEF NoResurrection
<1>6. ASSUME NEW archived \in BOOLEAN, NEW last \in Time, UpsertFinding(archived, last)
      PROVE  BuriedInv'
  BY <1>1, <1>6 DEF UpsertFinding, NoResurrection
<1>7. CASE Triage
  <2>1. source' = source /\ now' = now /\ buried' = buried /\ alert # Absent
    BY <1>7 DEF Triage, Ack, Resolve, Unack, Unresolve
  <2>2. alert'.last_seen = alert.last_seen
    BY <1>7, <2>1 DEF Triage, Ack, Resolve, Unack, Unresolve, TypeOK, Row
  <2> QED
    BY <1>1, <2>1, <2>2 DEF NoResurrection
<1>8. CASE Prune
  BY <1>1, <1>2, <1>8 DEF Prune, NoResurrection
<1>9. CASE UNCHANGED vars
  BY <1>1, <1>9 DEF vars, NoResurrection
<1> QED
  BY <1>3, <1>4, <1>5, <1>6, <1>7, <1>8, <1>9 DEF Next

(* As long as retention keeps resolved alerts for at least the window of   *)
(* the rules, no rule raises a pruned alert again for events it was raised *)
(* for, whatever the analysts did to it before.                            *)
THEOREM PrunedStaysPruned ==
  ASSUME DERIVED >= WINDOW
  PROVE  Spec => []NoResurrection
<1>1. Init => BuriedInv
  BY TypeInit DEF Init, BuriedInv, NoResurrection
<1>2. BuriedInv /\ [Next]_vars => BuriedInv'
  BY BuriedStep
<1>3. BuriedInv => NoResurrection
  BY DEF BuriedInv
<1> QED
  BY <1>1, <1>2, <1>3, PTL DEF Spec

-----------------------------------------------------------------------------
(* Findings *)

LEMMA TrailStep ==
  TypeOK /\ TrailMatchesStatus /\ [Next]_vars => TrailMatchesStatus'
<1> SUFFICES ASSUME TypeOK, TrailMatchesStatus, [Next]_vars,
                    source' = "guardduty", alert' # Absent
             PROVE  /\ alert'.status = "resolved" <=> alert'.resolved_at # NoTime
                    /\ alert'.status = "resolved" <=> alert'.resolved_by # None
  BY DEF TrailMatchesStatus
<1>1. source = "guardduty"
  BY DEF Next, vars, Tick, Ingest, Evaluate, UpsertFinding, Triage, Ack, Resolve,
         Unack, Unresolve, Prune
<1>2. now # NoTime /\ NoTime \notin Time
  BY SpansAssumption DEF TypeOK, Time, NoTime
<1>3. ASSUME NEW archived \in BOOLEAN, NEW last \in Time, UpsertFinding(archived, last)
      PROVE  /\ alert'.status = "resolved" <=> alert'.resolved_at # NoTime
             /\ alert'.status = "resolved" <=> alert'.resolved_by # None
  <2> DEFINE row == IF alert = Absent THEN NewRow(last)
                    ELSE [alert EXCEPT !.last_seen = Later(@, last)]
  <2>1. alert' = IF archived THEN FindingArchived(row) ELSE FindingActive(row)
    BY <1>3 DEF UpsertFinding
  <2>2. /\ row = [status |-> row.status, last_seen |-> row.last_seen,
                  acked |-> row.acked, resolved_by |-> row.resolved_by,
                  resolved_at |-> row.resolved_at]
        /\ row.status = "resolved" <=> row.resolved_at # NoTime
        /\ row.status = "resolved" <=> row.resolved_by # None
    <3>1. CASE alert = Absent
      BY <3>1 DEF NewRow
    <3>2. CASE alert # Absent
      <4>1. alert \in Row
        BY <3>2 DEF TypeOK
      <4>2. row = [alert EXCEPT !.last_seen = Later(@, last)]
        BY <3>2
      <4> HIDE DEF row
      <4> QED BY <1>1, <3>2, <4>1, <4>2 DEF TrailMatchesStatus, Row
    <3> QED BY <3>1, <3>2
  <2> HIDE DEF row
  <2> QED BY <1>2, <2>1, <2>2 DEF FindingArchived, FindingActive, ByMachine, None
<1>4. CASE Triage
  <2>1. alert # Absent /\ alert \in Row
    BY <1>4 DEF Triage, Ack, Resolve, Unack, Unresolve, TypeOK
  <2> QED
    BY <1>1, <1>2, <1>4, <2>1, PeopleAssumption
    DEF Triage, Ack, Resolve, Unack, Unresolve, TrailMatchesStatus, Row
<1>5. CASE Prune
  BY <1>5 DEF Prune
<1>6. CASE Tick \/ (\E t \in Time : Ingest(t)) \/ UNCHANGED vars
  BY <1>1, <1>6 DEF Tick, Ingest, vars, TrailMatchesStatus
<1> QED
  BY <1>1, <1>3, <1>4, <1>5, <1>6 DEF Next, Evaluate

(* The row of a finding says who resolved it and when exactly as long as   *)
(* it is resolved, in whatever order it is archived, becomes active again  *)
(* and is triaged.                                                         *)
THEOREM FindingTrail == Spec => []TrailMatchesStatus
<1>1. Init => TrailMatchesStatus
  BY DEF Init, TrailMatchesStatus
<1> QED
  BY <1>1, TrailStep, AlertTypeCorrect, PTL DEF Spec

-----------------------------------------------------------------------------
(* Triage *)

LEMMA AckStandsStep == TypeOK /\ [Next]_vars => AckStands \/ UNCHANGED vars
<1> SUFFICES ASSUME TypeOK, Next, alert # Absent, alert.status = "acked"
             PROVE  AckStands
  BY DEF AckStands
<1>0. alert \in Row
  BY DEF TypeOK
<1>1. CASE Tick
  BY <1>1 DEF Tick, AckStands
<1>2. ASSUME NEW t \in Time, Ingest(t) PROVE AckStands
  BY <1>2 DEF Ingest, AckStands
<1>3. CASE Evaluate
  <2>1. PICK row \in Detected : alert' = AutoResolve(row)
    BY <1>3 DEF Evaluate
  <2>2. row # Absent /\ row.status = "acked"
    <3>1. CASE Cardinality(Matched) < THRESHOLD
      BY <2>1, <3>1 DEF Detected
    <3>2. CASE ~ Cardinality(Matched) < THRESHOLD
      <4>1. PICK last \in Matched : row = Upsert(last)
        BY <2>1, <3>2 DEF Detected
      <4>2. row \in Row
        BY <4>1, UpsertIsRow DEF Matched, TypeOK
      <4> QED
        BY <1>0, <4>1, <4>2, AbsentAssumption DEF Upsert, Reopens, Row
    <3> QED
      BY <3>1, <3>2
  <2>3. alert' = row
    BY <2>1, <2>2 DEF AutoResolve
  <2> QED
    BY <2>2, <2>3 DEF AckStands
<1>4. ASSUME NEW archived \in BOOLEAN, NEW last \in Time, UpsertFinding(archived, last)
      PROVE  AckStands
  <2>1. CASE archived
    BY <1>4, <2>1 DEF AckStands
  <2>2. CASE ~ archived
    <3>1. alert' = [alert EXCEPT !.last_seen = Later(@, last)]
      BY <1>0, <1>4, <2>2 DEF UpsertFinding, FindingActive, ByMachine, Row
    <3>2. alert' \in Row
      BY <1>4, FindingRow
    <3> QED
      BY <1>0, <3>1, <3>2, AbsentAssumption DEF AckStands, Row
  <2> QED
    BY <2>1, <2>2
<1>5. CASE Triage
  BY <1>5 DEF AckStands
<1>6. CASE Prune
  BY <1>6 DEF Prune
<1> QED
  BY <1>1, <1>2, <1>3, <1>4, <1>5, <1>6 DEF Next

LEMMA ResolveStandsStep == TypeOK /\ [Next]_vars => ResolveStands \/ UNCHANGED vars
<1> SUFFICES ASSUME TypeOK, Next, alert # Absent, alert.status = "resolved",
                    alert.resolved_by \in Analysts,
                    alert' # Absent, alert'.status # "resolved"
             PROVE  Unresolve \/ \E t \in Matched : t > alert.resolved_at
  BY DEF ResolveStands
<1>0. alert \in Row
  BY DEF TypeOK
<1>1. CASE Evaluate
  <2>1. PICK row \in Detected : alert' = AutoResolve(row)
    BY <1>1 DEF Evaluate
  <2>2. CASE Cardinality(Matched) < THRESHOLD
    BY <2>1, <2>2 DEF Detected, AutoResolve
  <2>3. CASE ~ Cardinality(Matched) < THRESHOLD
    <3>1. PICK last \in Matched : row = Upsert(last)
      BY <2>1, <2>3 DEF Detected
    <3>2. CASE Reopens(alert, last)
      BY <3>1, <3>2 DEF Reopens
    <3>3. CASE ~ Reopens(alert, last)
      <4>1. row.status = "resolved"
        BY <1>0, <3>1, <3>3 DEF Upsert, Row
      <4> QED
        BY <2>1, <4>1 DEF AutoResolve
    <3> QED
      BY <3>2, <3>3
  <2> QED
    BY <2>2, <2>3
<1>2. ASSUME NEW archived \in BOOLEAN, NEW last \in Time, UpsertFinding(archived, last)
      PROVE  FALSE
  <2> DEFINE row == [alert EXCEPT !.last_seen = Later(@, last)]
  <2>1. /\ row.status = "resolved" /\ row.resolved_by \in Analysts
    BY <1>0 DEF Row
  <2>2. alert' = IF archived THEN FindingArchived(row) ELSE FindingActive(row)
    BY <1>2 DEF UpsertFinding
  <2>3. CASE archived
    <3>1. FindingArchived(row).status = "resolved"
      BY <1>0 DEF FindingArchived, Row
    <3> QED
      BY <2>2, <2>3, <3>1
  <2>4. CASE ~ archived
    <3>1. FindingActive(row) = row
      BY <2>1, PeopleAssumption DEF FindingActive, ByMachine
    <3> QED
      BY <2>1, <2>2, <2>4, <3>1
  <2> QED
    BY <2>3, <2>4
<1>3. CASE Triage
  BY <1>0, <1>3 DEF Triage, Ack, Resolve, Unack, Row
<1>4. CASE Tick \/ (\E t \in Time : Ingest(t)) \/ Prune
  BY <1>4 DEF Tick, Ingest, Prune
<1> QED
  BY <1>1, <1>2, <1>3, <1>4 DEF Next

-----------------------------------------------------------------------------
(* Un-resolve *)

(* acked_at is set in a row that is acked, or was when it was resolved. *)
AckInv ==
  alert # Absent => /\ alert.status = "acked" => alert.acked = TRUE
                    /\ alert.status = "resolved" /\ before = "acked" => alert.acked = TRUE

LEMMA AckStep == TypeOK /\ AckInv /\ [Next]_vars => AckInv'
<1> SUFFICES ASSUME TypeOK, AckInv, [Next]_vars, alert' # Absent
             PROVE  /\ alert'.status = "acked" => alert'.acked = TRUE
                    /\ alert'.status = "resolved" /\ before' = "acked" => alert'.acked = TRUE
  BY DEF AckInv
<1>1. CASE Evaluate
  <2>1. PICK row \in Detected : /\ alert' = AutoResolve(row)
                                /\ before' = IF alert' = row THEN before ELSE row.status
    BY <1>1 DEF Evaluate
  <2>2. /\ row \in Row \/ row = Absent
        /\ row # Absent /\ row.status = "acked" => row.acked = TRUE
        /\ row # Absent /\ row.status = "resolved" /\ before = "acked" => row.acked = TRUE
    <3>1. CASE row = alert
      BY <3>1 DEF TypeOK, AckInv
    <3>2. CASE row # alert
      <4>1. PICK last \in Time : row = Upsert(last)
        BY <3>2 DEF Detected, Matched, TypeOK
      <4>2. CASE alert = Absent
        BY <4>1, <4>2 DEF Upsert, NewRow, Row, Status
      <4>3. CASE alert # Absent
        <5>1. alert \in Row
          BY <4>3 DEF TypeOK
        <5>2. /\ row.acked = alert.acked
              /\ row.status = (IF Reopens(alert, last) THEN "open" ELSE alert.status)
          BY <4>1, <4>3, <5>1 DEF Upsert, Row
        <5>3. row \in Row
          BY <4>1, <4>3, <5>1 DEF Upsert, Row, Status, Later
        <5> QED
          BY <4>3, <5>2, <5>3 DEF AckInv
      <4> QED
        BY <4>2, <4>3
    <3> QED
      BY <3>1, <3>2
  <2>3. CASE alert' = row
    BY <2>1, <2>2, <2>3
  <2>4. CASE alert' # row
    <3>1. row # Absent /\ row.status = "open" /\ before' = "open"
      BY <2>1, <2>4 DEF AutoResolve
    <3>2. alert'.status = "resolved"
      BY <2>1, <2>2, <2>4, <3>1 DEF AutoResolve, Row
    <3> QED
      BY <3>1, <3>2
  <2> QED
    BY <2>3, <2>4
<1>2. ASSUME NEW archived \in BOOLEAN, NEW last \in Time, UpsertFinding(archived, last)
      PROVE  /\ alert'.status = "acked" => alert'.acked = TRUE
             /\ alert'.status = "resolved" /\ before' = "acked" => alert'.acked = TRUE
  <2> DEFINE row == IF alert = Absent THEN NewRow(last)
                    ELSE [alert EXCEPT !.last_seen = Later(@, last)]
  <2>1. /\ alert' = IF archived THEN FindingArchived(row) ELSE FindingActive(row)
        /\ before' = IF ~ archived THEN before
                     ELSE IF alert = Absent THEN "open"
                     ELSE IF alert.status = "resolved" THEN before ELSE alert.status
    BY <1>2 DEF UpsertFinding
  <2>2. /\ row = [status |-> row.status, last_seen |-> row.last_seen,
                  acked |-> row.acked, resolved_by |-> row.resolved_by,
                  resolved_at |-> row.resolved_at]
        /\ alert = Absent => row.status = "open"
        /\ alert # Absent => row.status = alert.status /\ row.acked = alert.acked
    <3>1. CASE alert = Absent
      BY <3>1 DEF NewRow
    <3>2. CASE alert # Absent
      <4>1. alert \in Row
        BY <3>2 DEF TypeOK
      <4>2. row = [alert EXCEPT !.last_seen = Later(@, last)]
        BY <3>2
      <4> HIDE DEF row
      <4> QED BY <3>2, <4>1, <4>2 DEF Row
    <3> QED BY <3>1, <3>2
  <2> HIDE DEF row
  <2> QED BY <2>1, <2>2 DEF FindingArchived, FindingActive, ByMachine, AckInv
<1>3. CASE Triage
  <2>1. alert # Absent /\ alert \in Row
    BY <1>3 DEF Triage, Ack, Resolve, Unack, Unresolve, TypeOK
  <2>2. CASE Ack
    BY <2>1, <2>2 DEF Ack, Row
  <2>3. ASSUME NEW who \in Analysts, Resolve(who)
        PROVE  /\ alert'.status = "acked" => alert'.acked = TRUE
               /\ alert'.status = "resolved" /\ before' = "acked" => alert'.acked = TRUE
    <3>1. alert'.status = "resolved" /\ alert'.acked = alert.acked
      BY <2>1, <2>3 DEF Resolve, Row
    <3>2. before' = IF alert.status = "resolved" THEN before ELSE alert.status
      BY <2>3 DEF Resolve
    <3> QED
      BY <2>1, <3>1, <3>2 DEF AckInv
  <2>4. CASE Unack
    BY <2>1, <2>4 DEF Unack, Row
  <2>5. CASE Unresolve
    BY <2>1, <2>5 DEF Unresolve, Row
  <2> QED
    BY <1>3, <2>2, <2>3, <2>4, <2>5 DEF Triage
<1>4. CASE Prune
  BY <1>4 DEF Prune
<1>5. CASE Tick \/ (\E t \in Time : Ingest(t)) \/ UNCHANGED vars
  BY <1>5 DEF Tick, Ingest, vars, AckInv
<1> QED
  BY <1>1, <1>2, <1>3, <1>4, <1>5 DEF Next

(* No pass and no active finding undoes what an analyst decided, and       *)
(* un-resolve loses no acknowledgement: see TriageStands for what may.     *)
(* (evaluate, sweep_detector, unresolve)                                   *)
THEOREM TriageIsKept == Spec => TriageStands
<1>1. Init => AckInv
  BY DEF Init, AckInv
<1>2. TypeOK /\ AckInv /\ [Next]_vars => [AckReturns]_vars
  <2> SUFFICES ASSUME TypeOK, AckInv, Unresolve, before = "acked" PROVE alert'.status = "acked"
    BY DEF AckReturns
  <2> QED
    BY DEF TypeOK, AckInv, Unresolve, Row
<1>3. TypeOK /\ AckInv /\ [Next]_vars => [AckStands /\ ResolveStands /\ AckReturns]_vars
  BY <1>2, AckStandsStep, ResolveStandsStep
<1> QED
  BY <1>1, <1>3, AckStep, AlertTypeCorrect, PTL DEF Spec, TriageStands

-----------------------------------------------------------------------------
(* Late events *)

EventsPast == \A t \in events : t <= now

LEMMA EventsPastStep == TypeOK /\ EventsPast /\ [Next]_vars => EventsPast'
<1> SUFFICES ASSUME TypeOK, EventsPast, [Next]_vars PROVE EventsPast'
  OBVIOUS
<1>1. CASE Tick
  BY <1>1 DEF Tick, TypeOK, EventsPast, Time
<1>2. ASSUME NEW t \in Time, Ingest(t) PROVE EventsPast'
  BY <1>2 DEF Ingest, EventsPast
<1>3. CASE ~Tick /\ ~(\E t \in Time : Ingest(t))
  <2>1. UNCHANGED <<events, now>>
    BY <1>3 DEF Next, Evaluate, UpsertFinding, Triage, Ack, Resolve, Unack,
                Unresolve, Prune, vars
  <2> QED
    BY <2>1 DEF EventsPast
<1> QED
  BY <1>1, <1>2, <1>3

(* A row that a pass leaves resolved was resolved before and not reopened, *)
(* so the newest match is not later; or the pass resolves it now, and no   *)
(* event is later than now.                                                *)
LEMMA NothingHiddenStep ==
  ASSUME TypeOK, EventsPast, Evaluate, Cardinality(Matched) >= THRESHOLD,
         alert' # Absent, alert'.status = "resolved"
  PROVE  \A t \in Matched : t <= alert'.resolved_at
<1>1. PICK row \in Detected : alert' = AutoResolve(row)
  BY DEF Evaluate
<1>2. PICK last \in Matched : row = Upsert(last) /\ \A u \in Matched : u <= last
  <2>1. ~(Cardinality(Matched) < THRESHOLD)
    <3>1. Matched \in SUBSET (0 .. MaxTime)
      BY DEF Matched, TypeOK, Time
    <3>2. IsFiniteSet(0 .. MaxTime)
      BY SpansAssumption, FS_Interval
    <3>3. Cardinality(Matched) \in Nat
      BY <3>1, <3>2, FS_Subset, FS_CardinalityType
    <3> QED
      BY <3>3, SpansAssumption
  <2> QED
    BY <1>1, <2>1 DEF Detected
<1>3. last \in Time /\ row \in Row
  BY <1>2, UpsertIsRow DEF Matched, TypeOK
<1>4. CASE alert' # row
  <2>1. alert'.resolved_at = now
    BY <1>1, <1>3, <1>4 DEF AutoResolve, Row
  <2> QED
    BY <2>1 DEF EventsPast, Matched
<1>5. CASE alert' = row
  <2>1. alert # Absent /\ alert \in Row
    BY <1>2, <1>5 DEF Upsert, NewRow, TypeOK
  <2>2. /\ alert.status = "resolved" /\ ~Reopens(alert, last)
        /\ row.resolved_at = alert.resolved_at
    BY <1>2, <1>5, <2>1 DEF Upsert, Row
  <2>3. last <= alert.resolved_at /\ alert.resolved_at \in Int
    BY <1>3, <2>1, <2>2, SpansAssumption DEF Reopens, Row, Time, NoTime
  <2>4. \A t \in Matched : t \in Int
    BY DEF Matched, TypeOK, Time
  <2> QED
    BY <1>2, <1>3, <1>5, <2>2, <2>3, <2>4 DEF Time
<1> QED
  BY <1>4, <1>5

(* A resolved alert hides no match that came in late: after a pass with    *)
(* enough matches none is later than the resolution.  (evaluate)           *)
THEOREM ResolvedHidesNothing == Spec => NothingHidden
<1>1. Init => EventsPast
  BY DEF Init, EventsPast
<1>2. TypeOK /\ EventsPast /\ [Next]_vars =>
        [Evaluate /\ Cardinality(Matched) >= THRESHOLD
           /\ alert' # Absent /\ alert'.status = "resolved"
         => \A t \in Matched : t <= alert'.resolved_at]_vars
  BY NothingHiddenStep
<1> QED
  BY <1>1, <1>2, EventsPastStep, AlertTypeCorrect, PTL DEF Spec, NothingHidden
=============================================================================
