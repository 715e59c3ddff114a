------------------------- MODULE WatermarkFold_proof -------------------------
(***************************************************************************)
(* When one pass runs at a time and the margin covers the delay of the     *)
(* writers and the skew of the clocks, the fold is exact for every number  *)
(* of rows and every margin, step, limit, delay and skew, and implements   *)
(* EventTally.                                                             *)
(*                                                                         *)
(* The argument: a row that is not committed yet is younger than           *)
(* now - DELAY - SKEW, a target is older than now + SKEW - MARGIN, so no   *)
(* row can still appear below a target that some pass has read; and with   *)
(* one pass at a time the watermark a pass has read is the current one.    *)
(***************************************************************************)
EXTENDS WatermarkFold, TLAPS

LEMMA LeastFacts ==
  ASSUME NEW a \in Int, NEW b \in Int
  PROVE  /\ Least(a, b) \in Int
         /\ Least(a, b) <= a /\ Least(a, b) <= b
         /\ Least(a, b) = a \/ Least(a, b) = b
  BY DEF Least

LEMMA SourceRows == Source \subseteq Rows
  BY RowsAssumption DEF Source

(* Facts about the target and the boundary of a pass. *)
LEMMA TargetBound ==
  ASSUME TypeOK, InFlight, NEW t \in Targets, IsTarget(t)
  PROVE  t \in 0 .. NewestEnd
<1> USE TimesAssumption DEF TypeOK, InFlight, Newest, NewestEnd, Start, End
<1>0. Committed \subseteq Rows
  BY SourceRows DEF Committed
<1>1. CASE FollowsRows
  <2>1. PICK r \in Committed : t = created[r] - MARGIN
    BY <1>1 DEF IsTarget
  <2>2. r \in Rows /\ rows[r] = "committed"
    BY <1>0 DEF Committed
  <2> QED BY <2>1, <2>2
<1>2. CASE ~FollowsRows
  <2>1. PICK c \in now - SKEW .. now + SKEW : t = c - MARGIN
    BY <1>2 DEF IsTarget
  <2> QED BY <2>1
<1> QED BY <1>1, <1>2

LEMMA BoundaryBound ==
  ASSUME TypeOK, NEW t \in Int, NEW w \in Int, NEW b \in Boundaries(w, t),
         IsBoundary(b, w, t)
  PROVE  /\ b \in Int
         /\ b <= t
         /\ StartsAtTarget => b = Least(t, w + STEP)
<1> USE TimesAssumption DEF TypeOK, Newest, NewestEnd
<1>1. CASE StartsAtTarget
  BY <1>1 DEF IsBoundary, Least
<1>2. CASE ~StartsAtTarget
  <2>1. PICK l \in {t} \cup {created[r] : r \in Rows} :
          b = Least(Least(t, w + STEP), l)
    BY <1>2 DEF IsBoundary
  <2>2. l \in Int
    BY <2>1
  <2> QED BY <1>2, <2>1, <2>2 DEF Least
<1> QED BY <1>1, <1>2

-----------------------------------------------------------------------------
(* A pass starts between 0 and the newest target, at the watermark when     *)
(* there is one, and ends at its target at the latest.                      *)
LEMMA BeginPass ==
  ASSUME TypeOK, InFlight, NEW p \in Passes, Begin(p)
  PROVE  \E w, b \in 0 .. NewestEnd :
           /\ pass' = [pass EXCEPT ![p] =
                         [busy |-> TRUE, w |-> w, b |-> b,
                          seen |-> IF kind = "sessions" THEN Window(w, b) ELSE {}]]
           /\ marked => w = wm
           /\ ~marked => w <= b
           /\ ~marked /\ ~StartsAtTarget => w = 0
<1>1. PICK t \in Targets :
        /\ IsTarget(t)
        /\ \E b \in Boundaries(From(t), t) :
             /\ IsBoundary(b, From(t), t)
             /\ StartsAtTarget \/ b > From(t)
             /\ pass' = [pass EXCEPT ![p] =
                           [busy |-> TRUE, w |-> From(t), b |-> b,
                            seen |-> IF kind = "sessions" THEN Window(From(t), b)
                                                          ELSE {}]]
  BY DEF Begin
<1> DEFINE w == From(t)
<1>2. PICK b \in Boundaries(w, t) :
        /\ IsBoundary(b, w, t)
        /\ StartsAtTarget \/ b > w
        /\ pass' = [pass EXCEPT ![p] =
                      [busy |-> TRUE, w |-> w, b |-> b,
                       seen |-> IF kind = "sessions" THEN Window(w, b) ELSE {}]]
  BY <1>1
<1>3. t \in 0 .. NewestEnd
  BY <1>1, TargetBound
<1>4. NewestEnd \in Int
  BY TimesAssumption DEF TypeOK, Newest, NewestEnd, Start, End
<1>5. w \in 0 .. NewestEnd
  BY <1>3, <1>4 DEF From, TypeOK
<1>6. b \in Int /\ b <= t /\ (StartsAtTarget => b = Least(t, w + STEP))
  <2>1. t \in Int /\ w \in Int
    BY <1>3, <1>4, <1>5
  <2>2. b \in Boundaries(w, t) /\ IsBoundary(b, w, t)
    BY <1>2
  <2> HIDE DEF w
  <2> QED BY <2>1, <2>2, BoundaryBound
<1>7. StartsAtTarget /\ ~marked => w = t /\ b = t
  BY <1>3, <1>4, <1>5, <1>6, TimesAssumption DEF From, Least
<1>8. b \in 0 .. NewestEnd
  <2>1. CASE StartsAtTarget
    BY <1>3, <1>4, <1>5, <1>6, <2>1, TimesAssumption DEF Least
  <2>2. CASE ~StartsAtTarget
    BY <1>2, <1>3, <1>4, <1>5, <1>6, <2>2
  <2> QED BY <2>1, <2>2
<1>9. ~marked => w <= b
  BY <1>2, <1>3, <1>4, <1>5, <1>7, <1>8
<1>10. (marked => w = wm) /\ (~marked /\ ~StartsAtTarget => w = 0)
  BY DEF From
<1> QED BY <1>2, <1>5, <1>8, <1>9, <1>10

(* What a fold does to the watermark and the passes, whatever its kind.    *)
LEMMA FoldMoves ==
  ASSUME TypeOK, NEW p \in Passes, Fold(p)
  PROVE  /\ pass[p].busy
         /\ marked' = TRUE
         /\ base' = IF marked THEN base ELSE pass[p].w
         /\ wm' = IF marked /\ pass[p].b <= wm THEN wm ELSE pass[p].b
         /\ pass' = [pass EXCEPT ![p] = Idle]
         /\ UNCHANGED <<kind, now, rows, created, due>>
         /\ wm' \in 0 .. NewestEnd /\ base' \in 0 .. NewestEnd
         /\ tally' \in [Rows -> Nat]
<1>1. /\ pass[p].busy
      /\ \E S : AddEach(S) \/ AddOnce(S)
      /\ Advance(p)
  BY DEF Fold, FoldTimeline, FoldSessions, FoldDaily, FoldFirstSeen, FoldIdentity
<1>2. /\ pass[p].w \in 0 .. NewestEnd /\ pass[p].b \in 0 .. NewestEnd
      /\ wm \in 0 .. NewestEnd /\ base \in 0 .. NewestEnd
      /\ NewestEnd \in Int
  BY TimesAssumption DEF TypeOK, Newest, NewestEnd, Start, End
<1>3. wm' = IF marked /\ pass[p].b <= wm THEN wm ELSE pass[p].b
  BY <1>1, <1>2 DEF Advance, Least
<1>4. tally' \in [Rows -> Nat]
  BY <1>1 DEF AddEach, AddOnce, TypeOK
<1> QED BY <1>1, <1>2, <1>3, <1>4 DEF Advance

-----------------------------------------------------------------------------
(* The state, for any number of overlapping passes and any margin.         *)
State == TypeOK /\ InFlight

LEMMA IdleType ==
  ASSUME TypeOK
  PROVE  Idle \in [busy : BOOLEAN, w : 0 .. NewestEnd, b : 0 .. NewestEnd,
                   seen : SUBSET Rows]
BY TimesAssumption DEF Idle, TypeOK, Newest, NewestEnd, Start, End

LEMMA InitState == Init => State
<1> SUFFICES ASSUME Init PROVE State
  OBVIOUS
<1> USE TimesAssumption DEF Init, Start, End, Newest, NewestEnd, Idle
<1>1. TypeOK
  <2>1. /\ now \in Start .. End /\ 0 \in 0 .. NewestEnd
        /\ 0 \in 0 .. Newest /\ 0 \in 0 .. End + DELAY
    OBVIOUS
  <2>2. pass \in [Passes -> [busy : BOOLEAN, w : 0 .. NewestEnd,
                            b : 0 .. NewestEnd, seen : SUBSET Rows]]
    BY <2>1
  <2>3. /\ created \in [Rows -> 0 .. Newest]
        /\ due \in [Rows -> 0 .. End + DELAY]
    BY <2>1
  <2>4. /\ kind \in Kinds
        /\ rows \in [Rows -> {"absent", "stamped", "committed", "lost"}]
        /\ marked \in BOOLEAN
        /\ tally \in [Rows -> Nat]
    OBVIOUS
  <2>5. wm \in 0 .. NewestEnd /\ base \in 0 .. NewestEnd
    BY <2>1
  <2> HIDE DEF Init, Start, End, Newest, NewestEnd
  <2> QED BY <2>1, <2>2, <2>3, <2>4, <2>5 DEF TypeOK
<1> QED BY <1>1 DEF InFlight, State

LEMMA NextState == ASSUME State, [Next]_vars PROVE State'
<1> USE TimesAssumption DEF State
<1>1. CASE Tick
  <2> USE <1>1 DEF Tick, TypeOK, Newest, NewestEnd
  <2>1. TypeOK'
    BY DEF Start, End
  <2>2. InFlight'
    BY DEF InFlight
  <2> QED BY <2>1, <2>2
<1>2. ASSUME NEW r \in Rows, Stamp(r) PROVE State'
  <2> USE <1>2 DEF Stamp, TypeOK, Newest, NewestEnd
  <2>1. PICK c \in now - SKEW .. now + SKEW : created' = [created EXCEPT ![r] = c]
    OBVIOUS
  <2>2. TypeOK'
    BY <2>1 DEF Start, End
  <2>3. InFlight'
    BY <2>1 DEF InFlight, Start, End
  <2> QED BY <2>2, <2>3
<1>3. ASSUME NEW r \in Rows, CommitRow(r) \/ LoseRow(r) PROVE State'
  <2> USE <1>3 DEF CommitRow, LoseRow, TypeOK, Newest, NewestEnd
  <2>1. TypeOK'
    BY DEF Start, End
  <2>2. InFlight'
    BY DEF InFlight
  <2> QED BY <2>1, <2>2
<1>4. ASSUME NEW p \in Passes, Begin(p) PROVE State'
  <2>1. PICK w, b \in 0 .. NewestEnd :
          pass' = [pass EXCEPT ![p] =
                     [busy |-> TRUE, w |-> w, b |-> b,
                      seen |-> IF kind = "sessions" THEN Window(w, b) ELSE {}]]
    BY <1>4, BeginPass
  <2>2. Window(w, b) \subseteq Rows
    BY SourceRows DEF Window, Committed
  <2>3. UNCHANGED <<kind, now, rows, created, due, marked, wm, base, tally>>
    BY <1>4 DEF Begin
  <2>4. TypeOK'
    BY <2>1, <2>2, <2>3 DEF TypeOK, Newest, NewestEnd
  <2>5. InFlight'
    BY <2>3 DEF InFlight
  <2> QED BY <2>4, <2>5
<1>5. ASSUME NEW p \in Passes, Fold(p) PROVE State'
  <2>0. /\ marked' = TRUE
        /\ pass' = [pass EXCEPT ![p] = Idle]
        /\ UNCHANGED <<kind, now, rows, created, due>>
        /\ wm' \in 0 .. NewestEnd /\ base' \in 0 .. NewestEnd
        /\ tally' \in [Rows -> Nat]
    BY <1>5, FoldMoves
  <2>1. TypeOK'
    BY <2>0, IdleType DEF TypeOK, Newest, NewestEnd
  <2>2. InFlight'
    BY <2>0 DEF InFlight
  <2> QED BY <2>1, <2>2
<1>6. ASSUME NEW p \in Passes, Abort(p) PROVE State'
  <2>1. TypeOK'
    BY <1>6, IdleType DEF Abort, TypeOK, Newest, NewestEnd
  <2>2. InFlight'
    BY <1>6 DEF Abort, InFlight
  <2> QED BY <2>1, <2>2
<1>7. CASE UNCHANGED vars
  BY <1>7 DEF vars, TypeOK, Newest, NewestEnd, InFlight
<1> QED BY <1>1, <1>2, <1>3, <1>4, <1>5, <1>6, <1>7 DEF Next

(* Everything stamped or committed is above what any pass may read when    *)
(* the margin covers the delays.                                           *)
LEMMA LateRows ==
  ASSUME MarginCovers, State, NEW r \in Rows, rows[r] = "stamped"
  PROVE  created[r] > NewestEnd
BY TimesAssumption DEF MarginCovers, State, InFlight, TypeOK, Newest, NewestEnd,
                       Start, End

-----------------------------------------------------------------------------
(* One pass at a time: FoldInv.                                            *)

LEMMA InitFold == Init => FoldInv
<1> SUFFICES ASSUME Init PROVE FoldInv
  OBVIOUS
<1> QED BY InitState, RowsAssumption
        DEF Init, Idle, State, FoldInv, Untouched, PassCurrent, TallyExact, Source

LEMMA TickFold == ASSUME FoldInv, Tick PROVE FoldInv'
<1> USE DEF FoldInv, Tick
<1>1. State'
  BY NextState DEF State, Next
<1>2. Untouched'
  BY DEF Untouched
<1>3. PassCurrent'
  BY DEF PassCurrent, Window, Committed, Source
<1>4. TallyExact'
  BY DEF TallyExact, Source
<1> QED BY <1>1, <1>2, <1>3, <1>4 DEF State

LEMMA StampFold ==
  ASSUME MarginCovers, FoldInv, NEW r \in Rows, Stamp(r) PROVE FoldInv'
<1> USE DEF FoldInv, Stamp
<1>1. State'
  BY NextState DEF State, Next
<1>2. rows'[r] = "stamped" /\ \A q \in Rows \ {r} : /\ rows'[q] = rows[q]
                                                   /\ created'[q] = created[q]
  BY DEF TypeOK
<1>3. created'[r] > NewestEnd
  BY TimesAssumption DEF MarginCovers, TypeOK, Newest, NewestEnd, Start, End
<1>4. Untouched'
  BY DEF Untouched
<1>5. PassCurrent'
  BY <1>2 DEF PassCurrent, Window, Committed, Source
<1>6. TallyExact'
  BY <1>2, <1>3, TimesAssumption
     DEF TallyExact, Source, Untouched, TypeOK, Newest, NewestEnd, Start, End
<1> QED BY <1>1, <1>4, <1>5, <1>6 DEF State

(* A row is committed above everything a pass has read. *)
LEMMA CommitRowFold ==
  ASSUME MarginCovers, FoldInv, NEW r \in Rows, CommitRow(r) PROVE FoldInv'
<1> USE TimesAssumption DEF FoldInv, CommitRow
<1>1. State'
  BY NextState DEF State, Next
<1>2. created[r] > NewestEnd
  BY LateRows DEF State
<1>3. Untouched'
  BY DEF Untouched, TypeOK
<1>4. \A p \in Passes : Window(pass[p].w, pass[p].b)' = Window(pass[p].w, pass[p].b)
  BY <1>2 DEF Window, Committed, Source, TypeOK, Newest, NewestEnd, Start, End
<1>5. PassCurrent'
  BY <1>4 DEF PassCurrent
<1>6. TallyExact'
  BY DEF TallyExact, Source, TypeOK
<1> QED BY <1>1, <1>3, <1>5, <1>6 DEF State

LEMMA LoseRowFold ==
  ASSUME FoldInv, NEW r \in Rows, LoseRow(r) PROVE FoldInv'
<1> USE DEF FoldInv, LoseRow
<1>1. State'
  BY NextState DEF State, Next
<1>2. Untouched'
  BY DEF Untouched, TypeOK
<1>3. PassCurrent'
  BY DEF PassCurrent, Window, Committed, Source, TypeOK
<1>4. TallyExact'
  BY DEF TallyExact, Source, TypeOK
<1> QED BY <1>1, <1>2, <1>3, <1>4 DEF State

LEMMA BeginFold ==
  ASSUME FoldInv, NEW p \in Passes, Begin(p) PROVE FoldInv'
<1> USE DEF FoldInv
<1>1. State'
  BY NextState DEF State, Next
<1>2. UNCHANGED <<kind, now, rows, created, due, marked, wm, base, tally>>
  BY DEF Begin
<1>3. Untouched'
  BY <1>2 DEF Untouched
<1>4. PassCurrent'
  <2>1. PICK w, b \in 0 .. NewestEnd :
          /\ pass' = [pass EXCEPT ![p] =
                        [busy |-> TRUE, w |-> w, b |-> b,
                         seen |-> IF kind = "sessions" THEN Window(w, b) ELSE {}]]
          /\ marked => w = wm
          /\ ~marked => w <= b
    BY BeginPass
  <2> SUFFICES ASSUME NEW q \in Passes, pass'[q].busy
               PROVE  /\ marked => pass'[q].w = wm
                      /\ ~marked => pass'[q].w <= pass'[q].b
                      /\ kind = "sessions" =>
                           pass'[q].seen = Window(pass'[q].w, pass'[q].b)
    BY <1>2 DEF PassCurrent, Window, Committed, Source
  <2>2. CASE q = p
    <3>1. pass'[q] = [busy |-> TRUE, w |-> w, b |-> b,
                      seen |-> IF kind = "sessions" THEN Window(w, b) ELSE {}]
      BY <2>1, <2>2 DEF TypeOK
    <3> QED BY <2>1, <3>1
  <2>3. CASE q # p
    <3>1. pass'[q] = pass[q]
      BY <2>1, <2>3 DEF TypeOK
    <3> QED BY <3>1 DEF PassCurrent
  <2> QED BY <2>2, <2>3
<1>5. TallyExact'
  BY <1>2 DEF TallyExact, Source
<1> QED BY <1>1, <1>2, <1>3, <1>4, <1>5 DEF State

LEMMA AbortFold == ASSUME FoldInv, NEW p \in Passes, Abort(p) PROVE FoldInv'
<1> USE DEF FoldInv, Abort
<1>1. State'
  BY NextState DEF State, Next
<1>2. Untouched'
  BY DEF Untouched
<1>3. PassCurrent'
  BY DEF PassCurrent, Window, Committed, Source, Idle, TypeOK
<1>4. TallyExact'
  BY DEF TallyExact, Source
<1> QED BY <1>1, <1>2, <1>3, <1>4 DEF State

-----------------------------------------------------------------------------
(* The rows a transaction folds. *)
Folded(p) == IF kind = "sessions" THEN pass[p].seen
                                  ELSE Window(pass[p].w, pass[p].b)

(* They are committed rows above the watermark: none was counted before,   *)
(* and with them every row up to the new watermark is.                     *)
LEMMA FoldStep ==
  ASSUME SinglePass, MarginCovers, FoldInv, NEW p \in Passes, Fold(p)
  PROVE  /\ Folded(p) = Window(pass[p].w, pass[p].b)
         /\ \A r \in Folded(p) : tally[r] = 0
         /\ tally' = [r \in Rows |-> IF r \in Folded(p) THEN 1 ELSE tally[r]]
         /\ FoldInv'
<1> DEFINE w == pass[p].w
           b == pass[p].b
<1>0. TypeOK /\ State
  BY DEF FoldInv, State
<1>1. /\ pass[p].busy
      /\ marked' = TRUE
      /\ base' = IF marked THEN base ELSE w
      /\ wm' = IF marked /\ b <= wm THEN wm ELSE b
      /\ pass' = [pass EXCEPT ![p] = Idle]
      /\ UNCHANGED <<kind, now, rows, created, due>>
  BY <1>0, FoldMoves
<1>2. /\ w \in 0 .. NewestEnd /\ b \in 0 .. NewestEnd
      /\ wm \in 0 .. NewestEnd /\ base \in 0 .. NewestEnd
      /\ NewestEnd \in Int
      /\ \A r \in Rows : created[r] \in Int
  BY TimesAssumption DEF FoldInv, TypeOK, Newest, NewestEnd, Start, End
<1>3. /\ marked => w = wm
      /\ ~marked => w <= b
      /\ Folded(p) = Window(w, b)
  BY <1>1 DEF FoldInv, PassCurrent, Folded
<1>4. base' <= wm'
  BY <1>1, <1>2, <1>3 DEF FoldInv
<1>5. \A r \in Folded(p) : /\ r \in Source /\ r \in Rows
                           /\ rows[r] = "committed"
                           /\ w < created[r] /\ created[r] <= b
  BY <1>3, SourceRows DEF Window, Committed
<1>6. \A r \in Folded(p) : tally[r] = 0
  <2> TAKE r \in Folded(p)
  <2>1. CASE marked
    BY <1>2, <1>3, <1>5, <2>1 DEF FoldInv, TallyExact
  <2>2. CASE ~marked
    BY <1>5, <2>2 DEF FoldInv, Untouched
  <2> QED BY <2>1, <2>2
<1>7. tally' = [r \in Rows |-> IF r \in Folded(p) THEN 1 ELSE tally[r]]
  <2>1. AddEach(Folded(p)) \/ AddOnce(Folded(p))
    BY DEF Fold, FoldTimeline, FoldSessions, FoldDaily, FoldFirstSeen,
           FoldIdentity, Folded
  <2> QED BY <1>6, <2>1 DEF AddEach, AddOnce
<1>8. State'
  BY <1>0, NextState DEF Next
<1>9. Untouched'
  <2> SUFFICES ASSUME NEW r \in Rows, rows[r] # "committed" PROVE tally'[r] = 0
    BY <1>1 DEF Untouched
  <2>1. r \notin Folded(p)
    BY <1>5
  <2> QED BY <1>7, <2>1 DEF FoldInv, Untouched
<1>10. PassCurrent'
  <2> SUFFICES ASSUME NEW q \in Passes, pass'[q].busy PROVE FALSE
    BY DEF PassCurrent
  <2>1. q = p
    BY DEF SinglePass
  <2>2. pass'[q] = Idle
    BY <1>1, <2>1 DEF FoldInv, TypeOK
  <2> QED BY <2>2 DEF Idle
<1>11. TallyExact'
  <2> SUFFICES ASSUME NEW r \in Source, rows[r] \in {"stamped", "committed"}
               PROVE  tally'[r] = IF base' < created[r] /\ created[r] <= wm'
                                    THEN 1 ELSE 0
    BY <1>1 DEF TallyExact, Source
  <2>0. r \in Rows /\ created[r] \in Int
    BY SourceRows, <1>2
  <2>1. CASE rows[r] = "stamped"
    <3>1. created[r] > NewestEnd
      BY <1>0, <2>0, <2>1, LateRows
    <3>2. tally'[r] = 0
      BY <2>0, <1>5, <1>7, <2>1 DEF FoldInv, Untouched
    <3> QED BY <2>0, <1>1, <1>2, <3>1, <3>2
  <2>2. CASE rows[r] = "committed"
    <3>1. r \in Folded(p) <=> w < created[r] /\ created[r] <= b
      BY <2>0, <1>3, <2>2 DEF Window, Committed, Source
    <3>2. CASE marked
      <4>1. tally[r] = IF base < created[r] /\ created[r] <= wm THEN 1 ELSE 0
        BY <2>2, <3>2 DEF FoldInv, TallyExact
      <4>2. base' = base /\ base <= wm /\ w = wm
        BY <2>0, <1>1, <1>3, <3>2 DEF FoldInv
      <4>3. tally'[r] = IF wm < created[r] /\ created[r] <= b THEN 1 ELSE tally[r]
        BY <2>0, <1>7, <3>1, <4>2
      <4>4. wm' = IF b <= wm THEN wm ELSE b
        BY <1>1, <3>2
      <4> QED BY <2>0, <1>2, <4>1, <4>2, <4>3, <4>4
    <3>3. CASE ~marked
      <4>1. tally[r] = 0 /\ base' = w /\ wm' = b
        BY <2>0, <1>1, <3>3 DEF FoldInv, Untouched
      <4> QED BY <2>0, <1>7, <3>1, <4>1
    <3> QED BY <3>2, <3>3
  <2> QED BY <2>1, <2>2
<1>12. FoldInv'
  BY <1>4, <1>8, <1>9, <1>10, <1>11 DEF FoldInv, State
<1> QED BY <1>3, <1>6, <1>7, <1>12

-----------------------------------------------------------------------------
LEMMA NextFold ==
  ASSUME SinglePass, MarginCovers, FoldInv, [Next]_vars PROVE FoldInv'
<1>1. CASE Tick
  BY <1>1, TickFold
<1>2. ASSUME NEW r \in Rows, Stamp(r) PROVE FoldInv'
  BY <1>2, StampFold
<1>3. ASSUME NEW r \in Rows, CommitRow(r) PROVE FoldInv'
  BY <1>3, CommitRowFold
<1>4. ASSUME NEW r \in Rows, LoseRow(r) PROVE FoldInv'
  BY <1>4, LoseRowFold
<1>5. ASSUME NEW p \in Passes, Begin(p) PROVE FoldInv'
  BY <1>5, BeginFold
<1>6. ASSUME NEW p \in Passes, Fold(p) PROVE FoldInv'
  BY <1>6, FoldStep
<1>7. ASSUME NEW p \in Passes, Abort(p) PROVE FoldInv'
  BY <1>7, AbortFold
<1>8. CASE UNCHANGED vars
  BY <1>8 DEF vars, FoldInv, TypeOK, Newest, NewestEnd, InFlight, Untouched,
              PassCurrent, Window, Committed, Source, TallyExact
<1> QED BY <1>1, <1>2, <1>3, <1>4, <1>5, <1>6, <1>7, <1>8 DEF Next

(* FoldInv is inductive. *)
THEOREM FoldInvariant ==
  ASSUME SinglePass, MarginCovers PROVE Spec => []FoldInv
<1>1. Init => FoldInv
  BY InitFold
<1>2. FoldInv /\ [Next]_vars => FoldInv'
  BY NextFold
<1> QED BY <1>1, <1>2, PTL DEF Spec

(* The state is always a state of the program, however passes overlap and  *)
(* whatever the margin: watermark and boundaries stay behind the newest    *)
(* clock by the margin.                                                    *)
THEOREM FoldTypeCorrect == Spec => []TypeOK
<1>1. Init => State
  BY InitState
<1>2. State /\ [Next]_vars => State'
  BY NextState
<1>3. State => TypeOK
  BY DEF State
<1> QED BY <1>1, <1>2, <1>3, PTL DEF Spec

(* With one pass at a time and a margin that covers the delays, every row  *)
(* up to the watermark was added exactly once and none beyond it, for each *)
(* of the five folds: timeline.rs, sessions.rs and anomalies.rs.           *)
THEOREM FoldExact ==
  ASSUME SinglePass, MarginCovers PROVE Spec => []TallyExact
<1>1. FoldInv => TallyExact
  BY DEF FoldInv
<1> QED BY <1>1, FoldInvariant, PTL

(* The fold implements the aggregate of EventTally: a pass adds a set of   *)
(* rows that were not in it, and nothing else changes it.                  *)
THEOREM FoldImplementsTally ==
  ASSUME SinglePass, MarginCovers PROVE Spec => ImplementsTally
<1>1. Init => Tally!Init
  BY DEF Init, Tally!Init
<1>2. FoldInv /\ [Next]_vars => [Tally!Next]_tally
  <2> SUFFICES ASSUME FoldInv, [Next]_vars PROVE [Tally!Next]_tally
    OBVIOUS
  <2>1. ASSUME NEW p \in Passes, Fold(p) PROVE Tally!Next
    <3>1. Folded(p) \subseteq Rows
      BY <2>1, FoldStep, SourceRows DEF Window, Committed
    <3>2. Folded(p) \in SUBSET {r \in Rows : tally[r] = 0}
      BY <2>1, <3>1, FoldStep
    <3>3. Tally!Add(Folded(p))
      BY <2>1, FoldStep DEF Tally!Add
    <3> QED BY <3>2, <3>3 DEF Tally!Next
  <2>2. ASSUME NEW p \in Passes, Begin(p) \/ Abort(p) PROVE UNCHANGED tally
    BY <2>2 DEF Begin, Abort
  <2>3. ASSUME NEW r \in Rows, Stamp(r) \/ CommitRow(r) \/ LoseRow(r)
        PROVE  UNCHANGED tally
    BY <2>3 DEF Stamp, CommitRow, LoseRow
  <2>4. CASE Tick \/ UNCHANGED vars
    BY <2>4 DEF Tick, vars
  <2> QED BY <2>1, <2>2, <2>3, <2>4 DEF Next
<1> QED BY <1>1, <1>2, FoldInvariant, PTL DEF Spec, ImplementsTally, Tally!Spec

-----------------------------------------------------------------------------
(* Overlapping passes.  The folds that start at the epoch survive them: a  *)
(* pass starts at or below the watermark, wherever others have moved it    *)
(* since, so what it folds joins what was folded before without a gap.     *)
FromEpoch == Kinds \subseteq {"daily", "first_seen", "identity"}

SkipInv ==
  /\ State
  /\ base = 0
  /\ ~marked => wm = 0
  /\ \A p \in Passes : pass[p].busy => pass[p].w <= wm
  /\ NothingSkipped

LEMMA InitSkip == Init => SkipInv
BY InitState DEF Init, SkipInv, Idle, NothingSkipped

(* A fold adds every committed row between what the pass read and its      *)
(* boundary; the others up to the new watermark were at or below the old.  *)
LEMMA FoldSkip ==
  ASSUME FromEpoch, SkipInv, NEW p \in Passes, Fold(p) PROVE SkipInv'
<1> DEFINE w == pass[p].w
           b == pass[p].b
<1>0. TypeOK /\ State /\ State'
  BY NextState DEF SkipInv, State, Next
<1>1. /\ pass[p].busy
      /\ marked' = TRUE
      /\ base' = IF marked THEN base ELSE w
      /\ wm' = IF marked /\ b <= wm THEN wm ELSE b
      /\ pass' = [pass EXCEPT ![p] = Idle]
      /\ UNCHANGED <<kind, now, rows, created, due>>
  BY <1>0, FoldMoves
<1>2. /\ w \in Nat /\ b \in Nat /\ wm \in Nat
      /\ \A q \in Passes : pass[q].w \in Nat
      /\ \A r \in Rows : created[r] \in Int /\ tally[r] \in Nat
  BY <1>0, TimesAssumption DEF TypeOK, Newest, NewestEnd, Start, End
<1>3. w <= wm /\ base = 0 /\ (~marked => wm = 0)
  BY <1>1 DEF SkipInv
<1>4. base' = 0 /\ wm <= wm' /\ (wm' = wm \/ wm' = b)
  BY <1>1, <1>2, <1>3
<1>5. \A q \in Passes : pass'[q].busy => pass'[q].w <= wm'
  <2> SUFFICES ASSUME NEW q \in Passes, pass'[q].busy PROVE pass'[q].w <= wm'
    OBVIOUS
  <2>1. pass'[q] = pass[q]
    BY <1>0, <1>1 DEF TypeOK, Idle
  <2>2. pass[q].w <= wm
    BY <2>1 DEF SkipInv
  <2> QED BY <1>1, <1>2, <1>4, <2>1, <2>2
<1>6. NothingSkipped'
  <2> SUFFICES ASSUME NEW r \in Committed, 0 < created[r], created[r] <= wm'
               PROVE  tally'[r] > 0
    BY <1>1, <1>4 DEF NothingSkipped, Committed, Source
  <2>1. r \in Rows /\ created[r] \in Int /\ tally[r] \in Nat
    BY <1>2, SourceRows DEF Committed
  <2>2. AddEach(Window(w, b)) \/ AddOnce(Window(w, b))
    BY <1>0 DEF Fold, FoldTimeline, FoldSessions, FoldDaily, FoldFirstSeen,
                FoldIdentity, FromEpoch, TypeOK
  <2>3. CASE r \in Window(w, b)
    BY <2>1, <2>2, <2>3 DEF AddEach, AddOnce
  <2>4. CASE r \notin Window(w, b)
    <3>1. created[r] <= w \/ b < created[r]
      BY <1>2, <2>1, <2>4 DEF Window
    <3>2. created[r] <= wm
      BY <1>2, <1>3, <1>4, <2>1, <3>1
    <3>3. tally[r] > 0
      BY <1>2, <1>3, <2>1, <3>2 DEF SkipInv, NothingSkipped
    <3> QED BY <2>1, <2>2, <2>4, <3>3 DEF AddEach, AddOnce
  <2> QED BY <2>3, <2>4
<1> QED BY <1>0, <1>1, <1>4, <1>5, <1>6 DEF SkipInv

LEMMA NextSkip ==
  ASSUME FromEpoch, MarginCovers, SkipInv, [Next]_vars PROVE SkipInv'
<1>0. TypeOK /\ State /\ State'
  BY NextState DEF SkipInv, State
<1>1. CASE Tick \/ UNCHANGED vars
  <2>1. UNCHANGED <<kind, rows, created, marked, wm, base, pass, tally>>
    BY <1>1 DEF Tick, vars
  <2> QED BY <1>0, <2>1 DEF SkipInv, NothingSkipped, Committed, Source
<1>2. ASSUME NEW r \in Rows, Stamp(r) \/ CommitRow(r) \/ LoseRow(r) PROVE SkipInv'
  <2>1. /\ UNCHANGED <<kind, marked, wm, base, pass, tally>>
        /\ \A q \in Rows \ {r} : rows'[q] = rows[q] /\ created'[q] = created[q]
        /\ rows'[r] = "committed" => rows[r] = "stamped" /\ created'[r] = created[r]
    BY <1>0, <1>2 DEF Stamp, CommitRow, LoseRow, TypeOK
  <2>2. rows'[r] = "committed" => created'[r] > wm
    <3>1. wm <= NewestEnd /\ NewestEnd \in Int /\ wm \in Int /\ created[r] \in Int
      BY <1>0, TimesAssumption DEF TypeOK, Newest, NewestEnd, Start, End
    <3> QED BY <1>0, <2>1, <3>1, LateRows
  <2>3. wm \in Int /\ created[r] \in Int /\ created'[r] \in Int
    BY <1>0, TimesAssumption DEF State, TypeOK, Newest, NewestEnd, Start, End
  <2>4. NothingSkipped'
    BY <2>1, <2>2, <2>3, SourceRows DEF SkipInv, NothingSkipped, Committed, Source
  <2> QED BY <1>0, <2>1, <2>4 DEF SkipInv
<1>3. ASSUME NEW p \in Passes, Begin(p) \/ Abort(p) PROVE SkipInv'
  <2>1. UNCHANGED <<kind, rows, created, marked, wm, base, tally>>
    BY <1>3 DEF Begin, Abort
  <2>2. NothingSkipped'
    BY <2>1 DEF SkipInv, NothingSkipped, Committed, Source
  <2>3. \A q \in Passes : pass'[q].busy => pass'[q].w <= wm
    <3> SUFFICES ASSUME NEW q \in Passes, pass'[q].busy PROVE pass'[q].w <= wm
      OBVIOUS
    <3>1. CASE Abort(p)
      BY <1>0, <3>1 DEF Abort, Idle, SkipInv, TypeOK
    <3>2. CASE Begin(p)
      <4>1. PICK w, b \in 0 .. NewestEnd :
              /\ pass' = [pass EXCEPT ![p] =
                            [busy |-> TRUE, w |-> w, b |-> b,
                             seen |-> IF kind = "sessions" THEN Window(w, b) ELSE {}]]
              /\ marked => w = wm
              /\ ~marked /\ ~StartsAtTarget => w = 0
        BY <1>0, <3>2, BeginPass DEF State
      <4>2. ~StartsAtTarget
        BY <1>0 DEF FromEpoch, StartsAtTarget, TypeOK
      <4>3. w <= wm
        BY <1>0, <4>1, <4>2, TimesAssumption
           DEF SkipInv, TypeOK, Newest, NewestEnd, Start, End
      <4> QED BY <1>0, <4>1, <4>3 DEF SkipInv, TypeOK
    <3> QED BY <1>3, <3>1, <3>2
  <2> QED BY <1>0, <2>1, <2>2, <2>3 DEF SkipInv
<1>4. ASSUME NEW p \in Passes, Fold(p) PROVE SkipInv'
  BY <1>4, FoldSkip
<1> QED BY <1>1, <1>2, <1>3, <1>4 DEF Next

(* However many passes overlap, the folds of anomalies.rs leave no         *)
(* committed row below the watermark out: the GREATEST of the watermark    *)
(* and a margin that covers the delays are enough.                         *)
THEOREM OverlapSkipsNothing ==
  ASSUME FromEpoch, MarginCovers PROVE Spec => []NothingSkipped
<1>1. Init => SkipInv
  BY InitSkip
<1>2. SkipInv /\ [Next]_vars => SkipInv'
  BY NextSkip
<1>3. SkipInv => NothingSkipped
  BY DEF SkipInv
<1> QED BY <1>1, <1>2, <1>3, PTL DEF Spec
=============================================================================
