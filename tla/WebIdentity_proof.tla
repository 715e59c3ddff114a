------------------------- MODULE WebIdentity_proof -------------------------
(***************************************************************************)
(* Theorems about the naming of CloudTrail rows, for any rows and records, *)
(* any number of backfill tasks, batches and steps of any size, provided   *)
(* that the lag is longer than a row takes to be committed.                *)
(*                                                                         *)
(* NamedBehind is inductive with one thing more: the second pass never has *)
(* a resolved row in a batch it is about to write (Cands).  For            *)
(* MarkerMeansDone, a task that has nothing left to write has done its     *)
(* pass (Ending), and no step makes an old row one that a pass selects.    *)
(* HistoryAgrees follows from it and from what a row may be called at all  *)
(* (FromRecord).                                                           *)
(***************************************************************************)
EXTENDS WebIdentity, TLAPS, FiniteSetTheorems, WellFoundedInduction

-----------------------------------------------------------------------------
(* Names. *)

LEMMA NameType == ASSUME NEW rec \in Records PROVE PrincipalName(rec) \in PrincipalNames
<1>1. /\ rec.userName \in {"user", "", None} /\ rec.arn \in Tails \cup {"whole"}
      /\ rec.pid \in Tails \cup {None} /\ rec.issuer \in {"role", "AWSReservedSSO", None}
  BY DEF Records, Fields
<1>2. SessionName(rec) \in PrincipalNames
  BY <1>1 DEF SessionName, ArnTail, PidTail, OrElse, NonEmpty, PrincipalNames, Tails, None
<1>3. RoleSessionBase(rec) \in PrincipalNames
  BY DEF RoleSessionBase, PrincipalNames
<1>4. AssumedRoleName(rec) \in PrincipalNames
  BY <1>2, <1>3 DEF AssumedRoleName
<1> QED
  BY <1>1, <1>4 DEF PrincipalName, OrElse, NonEmpty, PrincipalNames, Tails, None

LEMMA SessionNameType == ASSUME NEW rec \in Records PROVE SessionName(rec) \in PrincipalNames
<1>1. /\ rec.arn \in Tails \cup {"whole"} /\ rec.pid \in Tails \cup {None}
  BY DEF Records, Fields
<1> QED
  BY <1>1 DEF SessionName, ArnTail, PidTail, OrElse, NonEmpty, PrincipalNames, Tails, None

(* The live mapping and the SQL of the second pass make the same of a role *)
(* session that is known by a token only, and it is not a token.  The SQL  *)
(* takes the session if its ARN is of the form it asks for.                *)
LEMMA RecordsAgree ==
  ASSUME NEW rec \in Records, rec.type = "AssumedRole", rec.hasUi, rec.hasArn,
         NonEmpty(rec.userName) = None, IsOpaque(SessionName(rec))
  PROVE  /\ PrincipalName(rec) = SqlBase(rec) /\ ~IsOpaque(SqlBase(rec))
         /\ rec.awsSession => SqlCandidate(rec, SessionName(rec))
<1>1. rec.arn \in Tails \cup {"whole"} /\ rec.pid \in Tails \cup {None}
  BY DEF Records, Fields
<1>2. rec.arn # "whole"
  BY <1>1 DEF SessionName, ArnTail, PidTail, NonEmpty, OrElse, IsOpaque, Tails, None
<1>3. AssumedRoleName(rec) = "base"
  BY <1>2 DEF AssumedRoleName, RoleSessionBase
<1>4. PrincipalName(rec) = "base"
  BY <1>3 DEF PrincipalName, OrElse, None
<1> QED
  BY <1>2, <1>4 DEF SqlBase, SqlCandidate, IsOpaque

-----------------------------------------------------------------------------
(* A bounded set of numbers has a maximum. *)

LEMMA MaxIn ==
  ASSUME NEW n \in Nat, NEW S, S \subseteq 0 .. n, S # {}
  PROVE  Max(S) \in S /\ \A y \in S : Max(S) >= y
<1> DEFINE Bounds == {k \in 0 .. n : \A x \in S : x <= k}
           T == {0 .. k : k \in Bounds}
           R == StrictSubsetOrdering(0 .. n)
<1>1. T \subseteq SUBSET (0 .. n)
  OBVIOUS
<1>2. 0 .. n \in T
  <2>1. n \in Bounds
    OBVIOUS
  <2> QED
    BY <2>1
<1>3. IsWellFoundedOn(R, SUBSET (0 .. n))
  <2>1. IsFiniteSet(0 .. n)
    BY FS_Interval
  <2> HIDE DEF R
  <2> QED
    BY <2>1, FS_StrictSubsetOrderingWellFounded, FS_FiniteSubsetsOfFinite DEF R
<1>4. PICK I \in T : \A J \in T : ~(<<J, I>> \in R)
  <2> HIDE DEF T, R
  <2> QED
    BY <1>1, <1>2, <1>3, WFMin
<1>5. PICK k \in Bounds : I = 0 .. k
  OBVIOUS
<1>6. k \in S
  <2> SUFFICES ASSUME k \notin S PROVE FALSE
    OBVIOUS
  <2>1. PICK x \in S : TRUE
    OBVIOUS
  <2>2. k - 1 \in Bounds
    BY <2>1
  <2>3. 0 .. (k - 1) \in T
    BY <2>2
  <2>4. <<0 .. (k - 1), 0 .. k>> \in R
    <3>1. k \in 0 .. k /\ k \notin 0 .. (k - 1) /\ 0 .. (k - 1) \subseteq 0 .. k
      BY <2>2
    <3>2. 0 .. (k - 1) \in SUBSET (0 .. n) /\ 0 .. k \in SUBSET (0 .. n)
      BY <2>2
    <3> QED
      BY <3>1, <3>2 DEF StrictSubsetOrdering
  <2> QED
    BY <1>4, <1>5, <2>3, <2>4
<1>7. \E x \in S : \A y \in S : x >= y
  BY <1>6
<1> QED
  BY <1>7 DEF Max

LEMMA MinIn ==
  ASSUME NEW n \in Nat, NEW S, S \subseteq 0 .. n, S # {}
  PROVE  \E x \in S : \A y \in S : x <= y
<1> DEFINE T == {n - x : x \in S}
<1>0. \A x \in S : x \in Nat /\ x <= n /\ n - x \in 0 .. n
  OBVIOUS
<1>1. T \subseteq 0 .. n /\ T # {}
  BY <1>0
<1>2. Max(T) \in T /\ \A y \in T : Max(T) >= y
  <2> HIDE DEF T
  <2> QED
    BY <1>1, MaxIn
<1>3. PICK x \in S : Max(T) = n - x
  BY <1>2
<1>4. ASSUME NEW y \in S PROVE x <= y
  <2>1. n - y \in T
    OBVIOUS
  <2>2. n - x >= n - y
    BY <1>2, <1>3, <2>1
  <2>3. x \in Nat /\ y \in Nat
    BY <1>0
  <2> QED
    BY <2>2, <2>3
<1> QED
  BY <1>4

-----------------------------------------------------------------------------
(* A step of the resolver stays the lag behind, and finds subjects. *)

LEMMA TimesInt ==
  TypeOK => /\ now \in Nat /\ wm \in Nat /\ LAG \in Nat /\ DELAY \in Nat /\ DELAY < LAG
            /\ MaxTime \in Nat /\ WINDOW \in Nat /\ Floor \in Int
            /\ \A r \in Rows : row[r].at \in Nat /\ row[r].at <= now
  BY TimesAssumption, LagAssumption DEF TypeOK, RowType, Floor

LEMMA BoundaryBehind ==
  ASSUME TypeOK, Committed # {}
  PROVE  Boundary \in Int /\ Boundary <= now - LAG
<1> DEFINE Ats == {row[r].at : r \in Committed}
           S   == {r \in Committed : wm < row[r].at /\ row[r].at <= Target}
           First == {r \in S : Cardinality({q \in S : row[q].at < row[r].at}) < LIMIT}
<1>1. /\ now \in 1 .. MaxTime /\ MaxTime \in Nat /\ LAG \in Nat /\ LIMIT \in Nat \ {0}
      /\ \A r \in Rows : row[r].at \in 0 .. MaxTime /\ row[r].at <= now
  BY TimesAssumption DEF TypeOK, RowType
<1>2. Ats \subseteq 0 .. MaxTime /\ Ats # {}
  BY <1>1 DEF Committed
<1>3. Max(Ats) \in Ats
  <2> HIDE DEF Ats
  <2> QED
    BY <1>1, <1>2, MaxIn
<1>4. Target \in Int /\ Target <= now - LAG
  BY <1>1, <1>3 DEF Target, Committed
<1>5. CASE S = {}
  BY <1>4, <1>5 DEF Boundary
<1>6. CASE S # {}
  <2> DEFINE A == {row[r].at : r \in S}
             F == {row[r].at : r \in First}
  <2>1. A \subseteq 0 .. MaxTime /\ A # {}
    BY <1>1, <1>6 DEF Committed
  <2>2. \E x \in A : \A y \in A : x <= y
    <3> HIDE DEF A
    <3> QED
      BY <1>1, <2>1, MinIn
  <2>3. PICK r \in S : \A q \in S : row[r].at <= row[q].at
    BY <2>2
  <2>4. {q \in S : row[q].at < row[r].at} = {}
    BY <1>1, <2>3 DEF Committed
  <2>5. r \in First
    <3>1. Cardinality({}) = 0 /\ 0 < LIMIT
      BY <1>1, FS_EmptySet
    <3>2. Cardinality({q \in S : row[q].at < row[r].at}) < LIMIT
      BY <2>4, <3>1
    <3> HIDE DEF S
    <3> QED
      BY <3>2
  <2>6. F \subseteq 0 .. MaxTime /\ F # {}
    BY <1>1, <2>5 DEF Committed
  <2>7. Max(F) \in F
    <3> HIDE DEF F
    <3> QED
      BY <1>1, <2>6, MaxIn
  <2>8. Boundary = Max(F)
    BY <1>6 DEF Boundary
  <2>9. PICK q \in First : Max(F) = row[q].at
    BY <2>7
  <2> QED
    BY <1>1, <1>4, <2>8, <2>9 DEF Committed
<1> QED
  BY <1>5, <1>6

LEMMA HarvestType ==
  ASSUME TypeOK, NEW b
  PROVE  /\ Harvest(b) \in [Sessions -> Subjects \cup {NoOne}]
         /\ Known(Harvest(b)) \in [Sessions -> Subjects \cup {NoOne}]
<1>1. NSubjects \in Nat /\ Subjects = 1 .. NSubjects /\ NoOne = 0
  BY RowsAssumption DEF Subjects, NoOne
<1>2. ASSUME NEW M, M \subseteq Rows, NEW s
      PROVE  Max({NoOne} \cup {row[m].subject : m \in {m \in M : SessionOf[m] = s}})
               \in Subjects \cup {NoOne}
  <2> DEFINE T == {NoOne} \cup {row[m].subject : m \in {m \in M : SessionOf[m] = s}}
  <2>1. T \subseteq 0 .. NSubjects /\ T # {}
    BY <1>1, <1>2 DEF TypeOK, RowType
  <2>2. Max(T) \in T
    <3> HIDE DEF T
    <3> QED
      BY <1>1, <2>1, MaxIn
  <2>3. Max(T) \in Subjects \cup {NoOne}
    <3> HIDE DEF T
    <3>1. 0 .. NSubjects \subseteq Subjects \cup {NoOne}
      BY <1>1
    <3> QED
      BY <2>1, <2>2, <3>1
  <2> QED
    BY <2>3
<1>3. {m \in Mints \cap Committed : row[m].at >= Floor /\ InStep(m, b)} \subseteq Rows
  BY DEF Committed
<1>4. Harvest(b) \in [Sessions -> Subjects \cup {NoOne}]
  BY <1>2, <1>3 DEF Harvest
<1> QED
  BY <1>4 DEF Known, TypeOK

-----------------------------------------------------------------------------
(* Types. *)

LEMMA MoveType ==
  ASSUME TypeOK, NEW R
  PROVE  /\ Move(R) \in [Tasks -> TaskType]
         /\ \A t \in Tasks : /\ Move(R)[t].pc = task[t].pc /\ Move(R)[t].pass = task[t].pass
                             /\ Move(R)[t].cand \subseteq task[t].cand
                             /\ ByCtid(t) => Move(R)[t].cand = task[t].cand \ R
                             /\ ~ByCtid(t) => Move(R)[t].cand = task[t].cand
  BY DEF Move, TypeOK, TaskType

LEMMA EmptiedType ==
  ASSUME NEW T, NEW R PROVE Emptied(T, R) \subseteq {"opaque", "caller"}
  BY DEF Emptied, ByCtid, Passes

LEMMA NextPassType ==
  ASSUME TypeOK, NEW t \in Tasks, task[t].pass # 0
  PROVE  /\ NextPass(t) \in TaskType
         /\ NextPass(t).pc \in {"check", "done"} /\ NextPass(t).cand = {}
         /\ NextPass(t).pc = "check" => NextPass(t).pass # 0
<1>1. task[t].pass \in 1 .. 3
  BY DEF TypeOK, TaskType
<1> QED
  BY <1>1 DEF NextPass, Idle, TaskType

LEMMA NamesTyped ==
  /\ \A name \in PrincipalNames : Derived(name) \in Names
  /\ \A s \in Subjects : Subject(s) \in Names
  /\ \A r \in Rows : LiveName(r) \in Names /\ OldName(r) \in Names
  /\ Derived(None) \in Names
  /\ \A rec : Derived(SqlBase(rec)) \in Names
<1>1. \A name \in PrincipalNames : Derived(name) \in Names
  BY DEF Derived, Names
<1>2. None \in PrincipalNames /\ \A rec : SqlBase(rec) \in PrincipalNames
  BY DEF PrincipalNames, SqlBase
<1>3. \A s \in Subjects : Subject(s) \in Names
  BY DEF Subject, Names
<1>4. ASSUME NEW r \in Rows PROVE LiveName(r) \in Names /\ OldName(r) \in Names
  <2>1. Raw[r] \in Records
    BY RowsAssumption
  <2> QED
    BY <1>1, <2>1, NameType, SessionNameType DEF LiveName, OldName
<1> QED
  BY <1>1, <1>2, <1>3, <1>4

LEMMA SourceTyped == ASSUME NEW r \in Rows PROVE HasSource(r) \in BOOLEAN /\ Raw[r].hasUi \in BOOLEAN
<1>1. Raw[r] \in Records
  BY RowsAssumption
<1> QED
  BY <1>1 DEF HasSource, Records, Fields

LEMMA FilledType ==
  ASSUME TypeOK, NEW t \in Tasks, task[t].pc = "write", NEW r \in Rows
  PROVE  /\ Filled(t, r) \in RowType
         /\ Filled(t, r).state = row[r].state /\ Filled(t, r).at = row[r].at
         /\ task[t].pass = 1 => /\ Filled(t, r).name = LiveName(r) /\ Filled(t, r).source = TRUE
                                /\ Filled(t, r).account = row[r].account
         /\ task[t].pass = 2 => /\ Filled(t, r).name = Derived(SqlBase(Raw[r]))
                                /\ Filled(t, r).source = row[r].source
                                /\ Filled(t, r).account = row[r].account
         /\ task[t].pass = 3 => /\ Filled(t, r).name = row[r].name /\ Filled(t, r).account = TRUE
                                /\ Filled(t, r).source = row[r].source
<1>1. row[r] \in RowType /\ task[t].pass \in 1 .. 3
  BY DEF TypeOK, TaskType
<1>2. LiveName(r) \in Names /\ Derived(SqlBase(Raw[r])) \in Names
  BY NamesTyped
<1>3. CASE task[t].pass = 1
  <2>1. Filled(t, r) = [row[r] EXCEPT !.name = LiveName(r), !.source = TRUE]
    BY <1>3 DEF Filled
  <2>2. Filled(t, r) \in RowType
    BY <1>1, <1>2, <2>1 DEF RowType
  <2>3. Filled(t, r).source = TRUE
    BY <1>1, <1>2, <2>1 DEF RowType
  <2>4. /\ Filled(t, r).state = row[r].state /\ Filled(t, r).at = row[r].at
        /\ Filled(t, r).name = LiveName(r)
    BY <1>1, <1>2, <2>1 DEF RowType
  <2>5. /\ Filled(t, r).account = row[r].account
    BY <1>1, <1>2, <2>1 DEF RowType
  <2> QED
    BY <1>3, <2>2, <2>3, <2>4, <2>5
<1>4. CASE task[t].pass = 2
  <2>1. Filled(t, r) = [row[r] EXCEPT !.name = Derived(SqlBase(Raw[r]))]
    BY <1>4 DEF Filled
  <2> QED
    BY <1>1, <1>2, <1>4, <2>1 DEF RowType
<1>5. CASE task[t].pass = 3
  <2>1. Filled(t, r) = [row[r] EXCEPT !.account = TRUE]
    BY <1>5 DEF Filled
  <2>2. Filled(t, r) \in RowType
    BY <1>1, <1>2, <2>1 DEF RowType
  <2>3. Filled(t, r).account = TRUE
    BY <1>1, <1>2, <2>1 DEF RowType
  <2>4. /\ Filled(t, r).state = row[r].state /\ Filled(t, r).at = row[r].at
        /\ Filled(t, r).name = row[r].name
    BY <1>1, <1>2, <2>1 DEF RowType
  <2>5. /\ Filled(t, r).source = row[r].source
    BY <1>1, <1>2, <2>1 DEF RowType
  <2> QED
    BY <1>5, <2>2, <2>3, <2>4, <2>5
<1>6. task[t].pass = 1 \/ task[t].pass = 2 \/ task[t].pass = 3
  BY <1>1
<1> QED
  BY <1>3, <1>4, <1>5, <1>6, Zenon

LEMMA TypeInit == Init => TypeOK
<1> SUFFICES ASSUME Init PROVE TypeOK
  OBVIOUS
<1>1. PICK era \in [Legacy -> Eras], subject \in [Legacy \cap Mints -> Subjects] :
        row = [r \in Rows |-> IF r \in Legacy
                              THEN OldRow(r, era[r], IF r \in Mints THEN subject[r] ELSE NoOne)
                              ELSE Absent]
  BY DEF Init
<1>2. MaxTime \in Nat \ {0} /\ 1 \in 0 .. MaxTime /\ 0 \in 0 .. MaxTime
  BY TimesAssumption
<1>3. Absent \in RowType
  BY <1>2, NamesTyped DEF Absent, RowType
<1>4. ASSUME NEW r \in Legacy
      PROVE  row[r] \in RowType /\ row[r].state = "committed" /\ row[r].at = 1
  <2>0. r \in Rows
    BY RowsAssumption
  <2>1. (IF r \in Mints THEN subject[r] ELSE NoOne) \in Subjects \cup {NoOne}
    BY <1>1
  <2>2. (IF era[r] = "callerless" THEN LiveName(r) ELSE OldName(r)) \in Names
    BY <2>0, NamesTyped
  <2>3. (era[r] # "sourceless" /\ HasSource(r)) \in BOOLEAN
    BY <2>0, SourceTyped
  <2>4. row[r] = OldRow(r, era[r], IF r \in Mints THEN subject[r] ELSE NoOne)
    BY <1>1, <2>0
  <2> QED
    BY <1>2, <2>1, <2>2, <2>3, <2>4 DEF OldRow, RowType
<1>5. \A r \in Rows \ Legacy : row[r] = Absent
  BY <1>1
<1>6. /\ row \in [Rows -> RowType]
      /\ \A r \in Rows : row[r].at <= 1 /\ row[r].state # "stamped"
  <2>1. \A r \in Rows : row[r] \in RowType
    BY <1>3, <1>4, <1>5
  <2>2. row = [r \in Rows |-> row[r]]
    BY <1>1
  <2>3. \A r \in Rows : row[r].at <= 1 /\ row[r].state # "stamped"
    BY <1>4, <1>5 DEF Absent
  <2> QED
    BY <2>1, <2>2, <2>3
<1> QED
  BY <1>2, <1>6, TimesAssumption DEF Init, TypeOK, Idle, TaskType

LEMMA TypeStep == TypeOK /\ [Next]_vars => TypeOK'
<1> SUFFICES ASSUME TypeOK, [Next]_vars PROVE TypeOK'
  OBVIOUS
<1>0. /\ now \in Nat /\ wm \in Nat /\ LAG \in Nat /\ DELAY \in Nat /\ DELAY < LAG
      /\ MaxTime \in Nat \ {0} /\ MaxFaults \in Nat /\ faults \in 0 .. MaxFaults
      /\ \A r \in Rows : row[r].at \in Nat /\ row[r].at <= now
  BY TimesInt, TimesAssumption DEF TypeOK
<1>1. ASSUME NEW r \in Rows, Stamp(r) PROVE TypeOK'
  <2>1. PICK subject \in Subjects \cup {NoOne} :
          row' = [row EXCEPT ![r] = [Absent EXCEPT !.state = "stamped", !.at = now,
                                                   !.subject = subject]]
    BY <1>1 DEF Stamp
  <2> DEFINE new == [Absent EXCEPT !.state = "stamped", !.at = now, !.subject = subject]
  <2>2. new \in RowType /\ new.at = now
    <3>1. Absent \in RowType
      BY <1>0, NamesTyped DEF Absent, RowType
    <3>2. now \in 0 .. MaxTime
      BY <1>0 DEF TypeOK
    <3> QED
      BY <3>1, <3>2 DEF RowType
  <2>3. row' = [row EXCEPT ![r] = new]
    BY <2>1
  <2>4. UNCHANGED <<now, cache, wm, markers, task, rewritten, cut, faults>>
    BY <1>1 DEF Stamp
  <2>5. wm < now
    BY <1>0 DEF TypeOK
  <2> HIDE DEF new
  <2>6. row' \in [Rows -> RowType]
    BY <2>2, <2>3 DEF TypeOK
  <2>7. \A q \in Rows : row'[q].at <= now
                        /\ (row'[q].state = "stamped" => now <= row'[q].at + DELAY /\ wm < row'[q].at)
    BY <1>0, <2>2, <2>3, <2>5 DEF TypeOK
  <2> QED
    BY <2>4, <2>6, <2>7 DEF TypeOK
<1>2. ASSUME NEW r \in Rows, CommitRow(r) PROVE TypeOK'
  <2> DEFINE new == [row[r] EXCEPT !.state = "committed", !.name = LiveName(r),
                                   !.source = HasSource(r), !.account = Raw[r].hasUi]
  <2>1. row' = [row EXCEPT ![r] = new]
    BY <1>2 DEF CommitRow, TypeOK
  <2>2. new \in RowType
    BY NamesTyped, SourceTyped DEF RowType, TypeOK
  <2>3. new.at = row[r].at /\ new.state = "committed"
    BY DEF RowType, TypeOK
  <2>4. UNCHANGED <<now, cache, wm, markers, task, rewritten, cut, faults>>
    BY <1>2 DEF CommitRow
  <2> HIDE DEF new
  <2>5. row' \in [Rows -> RowType]
    BY <2>1, <2>2 DEF TypeOK
  <2>6. \A q \in Rows : row'[q].at <= now
                        /\ (row'[q].state = "stamped" => now <= row'[q].at + DELAY /\ wm < row'[q].at)
    BY <2>1, <2>3 DEF TypeOK
  <2> QED
    BY <2>4, <2>5, <2>6 DEF TypeOK
<1>3. CASE Tick
  BY <1>0, <1>3 DEF Tick, TypeOK
<1>4. CASE ResolveStep
  <2> DEFINE b == Boundary
             h == Harvest(b)
             known == Known(h)
             rows == Renamed(b, NewMaps(h), known)
  <2>1. /\ Committed # {} /\ b > wm
        /\ row' = [r \in Rows |-> IF r \in rows
                                  THEN [row[r] EXCEPT !.name = Subject(known[SessionOf[r]])]
                                  ELSE row[r]]
        /\ cache' = [s \in Sessions |->
             IF s \in NewMaps(h) THEN [subject |-> h[s], at |-> now]
             ELSE IF cache[s].at < now - 2 * WINDOW THEN [subject |-> NoOne, at |-> 0]
             ELSE cache[s]]
        /\ wm' = b /\ task' = Move(rows) /\ cut' = cut \cup Emptied(Tasks, rows)
        /\ rewritten' = rewritten \ rows /\ UNCHANGED <<now, markers, faults>>
    BY <1>4 DEF ResolveStep
  <2>2. b \in Int /\ b <= now - LAG /\ b > wm
    BY <2>1, BoundaryBehind
  <2>3. /\ h \in [Sessions -> Subjects \cup {NoOne}]
        /\ known \in [Sessions -> Subjects \cup {NoOne}]
    BY HarvestType
  <2>4. \A r \in rows : known[SessionOf[r]] \in Subjects
    BY <2>3, RowsAssumption DEF Renamed, Downstream, Committed
  <2> HIDE DEF b, h, known, rows
  <2>5. cache' \in [Sessions -> [subject : Subjects \cup {NoOne}, at : 0 .. MaxTime]]
    BY <1>0, <2>1, <2>3 DEF TypeOK
  <2>6. ASSUME NEW r \in Rows
        PROVE  row'[r] \in RowType /\ row'[r].at = row[r].at /\ row'[r].state = row[r].state
    <3>1. row[r] \in RowType
      BY DEF TypeOK
    <3>2. CASE r \in rows
      <4>1. Subject(known[SessionOf[r]]) \in Names
        BY <2>4, <3>2, NamesTyped
      <4>2. row'[r] = [row[r] EXCEPT !.name = Subject(known[SessionOf[r]])]
        BY <2>1, <3>2
      <4> QED
        BY <3>1, <4>1, <4>2 DEF RowType
    <3>3. CASE r \notin rows
      BY <2>1, <3>1, <3>3
    <3> QED
      BY <3>2, <3>3
  <2>7. row' \in [Rows -> RowType]
    BY <2>1, <2>6
  <2>8. \A r \in Rows : row'[r].state = "stamped" => b < row'[r].at
    BY <1>0, <2>2, <2>6 DEF TypeOK
  <2>9. task' \in [Tasks -> TaskType]
        /\ \A t \in Tasks : task'[t].pc = task[t].pc /\ task'[t].pass = task[t].pass
    BY <2>1, MoveType
  <2>10. cut' \subseteq {"opaque", "caller"}
    BY <2>1, EmptiedType DEF TypeOK
  <2> QED
    BY <1>0, <2>1, <2>2, <2>5, <2>6, <2>7, <2>8, <2>9, <2>10 DEF TypeOK
<1>5. ASSUME NEW t \in Tasks, Write(t) PROVE TypeOK'
  <2>1. /\ task[t].pc = "write"
        /\ row' = [r \in Rows |-> IF r \in task[t].cand THEN Filled(t, r) ELSE row[r]]
        /\ task' = [[Move(task[t].cand) EXCEPT ![t] = task[t]] EXCEPT
                      ![t].pc = IF task[t].cand = {} THEN "mark" ELSE "batch",
                      ![t].cand = {}]
        /\ cut' = cut \cup Emptied(Tasks \ {t}, task[t].cand)
        /\ rewritten' \subseteq rewritten \cup task[t].cand
        /\ UNCHANGED <<now, cache, wm, markers, faults>>
    BY <1>5 DEF Write
  <2>2. ASSUME NEW r \in Rows
        PROVE  row'[r] \in RowType /\ row'[r].at = row[r].at /\ row'[r].state = row[r].state
    BY <2>1, FilledType DEF TypeOK
  <2>3. row' \in [Rows -> RowType]
    BY <2>1, <2>2
  <2>4. /\ task' \in [Tasks -> TaskType]
        /\ task'[t].pc \in {"mark", "batch"} /\ task'[t].pass = task[t].pass
        /\ \A u \in Tasks \ {t} : task'[u].pc = task[u].pc /\ task'[u].pass = task[u].pass
    BY <2>1, MoveType DEF TypeOK, TaskType
  <2>5. rewritten' \subseteq Rows /\ cut' \subseteq {"opaque", "caller"}
    BY <2>1, EmptiedType DEF TypeOK, TaskType
  <2>6. \A u \in Tasks : task'[u].pc \in {"check", "batch", "write", "mark"} => task'[u].pass # 0
    BY <2>1, <2>4 DEF TypeOK
  <2> QED
    BY <2>1, <2>2, <2>3, <2>4, <2>5, <2>6 DEF TypeOK
<1>6. ASSUME NEW t \in Tasks, Spawn(t) \/ Check(t) \/ Select(t) \/ Mark(t) \/ BatchFails(t) \/ Stop(t)
      PROVE  TypeOK'
  <2>1. UNCHANGED <<now, row, cache, wm, rewritten, cut>>
    BY <1>6 DEF Spawn, Check, Select, Mark, BatchFails, Stop
  <2>2. /\ task' \in [Tasks -> TaskType]
        /\ \A u \in Tasks : task'[u].pc \in {"check", "batch", "write", "mark"} => task'[u].pass # 0
    <3>1. CASE Spawn(t)
      BY <3>1 DEF Spawn, TypeOK, TaskType
    <3>2. CASE Check(t)
      BY <3>2, NextPassType DEF Check, TypeOK, TaskType
    <3>3. CASE Select(t)
      <4>1. PICK S \in SUBSET Committed :
              task' = [task EXCEPT ![t].pc = "write", ![t].cand = S]
        BY <3>3 DEF Select
      <4>2. task[t].pass # 0
        BY <3>3 DEF Select, TypeOK
      <4>3. S \subseteq Rows
        BY DEF Committed
      <4>4. [task[t] EXCEPT !.pc = "write", !.cand = S] \in TaskType
        BY <4>3 DEF TypeOK, TaskType
      <4>5. task' = [task EXCEPT ![t] = [task[t] EXCEPT !.pc = "write", !.cand = S]]
        BY <4>1 DEF TypeOK
      <4>6. task' \in [Tasks -> TaskType]
        BY <4>4, <4>5 DEF TypeOK
      <4>7. task'[t].pass = task[t].pass
        BY <4>5 DEF TypeOK, TaskType
      <4> QED
        BY <4>2, <4>5, <4>6, <4>7 DEF TypeOK
    <3>4. CASE Mark(t)
      BY <3>4, NextPassType DEF Mark, TypeOK
    <3>5. CASE BatchFails(t)
      BY <3>5, NextPassType DEF BatchFails, TypeOK
    <3>6. CASE Stop(t)
      BY <3>6 DEF Stop, Idle, TypeOK, TaskType
    <3> QED
      BY <1>6, <3>1, <3>2, <3>3, <3>4, <3>5, <3>6
  <2>3. markers' \subseteq {"identity", "opaque", "caller"}
    <3>1. CASE Mark(t)
      <4>1. task[t].pass \in 1 .. 3
        BY <3>1 DEF Mark, TypeOK, TaskType
      <4>2. Passes[task[t].pass] \in {"identity", "opaque", "caller"}
        BY <4>1 DEF Passes
      <4> QED
        BY <3>1, <4>2 DEF Mark, TypeOK
    <3>2. CASE ~Mark(t)
      BY <1>6, <3>2 DEF Spawn, Check, Select, BatchFails, Stop, TypeOK
    <3> QED
      BY <3>1, <3>2
  <2>4. faults' \in 0 .. MaxFaults
    BY <1>0, <1>6 DEF Spawn, Check, Select, Mark, BatchFails, Stop
  <2> QED
    BY <2>1, <2>2, <2>3, <2>4 DEF TypeOK
<1>7. CASE UNCHANGED vars
  BY <1>7 DEF vars, TypeOK
<1> QED
  BY <1>1, <1>2, <1>3, <1>4, <1>5, <1>6, <1>7 DEF Next, Backfill

(* Every state is of the declared types; and a row that is not committed   *)
(* yet has not been passed by the watermark, which stays the lag behind.   *)
(* (resolve_webidentity_step and WEBID_WATERMARK_LAG_MINS)                 *)
THEOREM TypeCorrect == Spec => []TypeOK
  BY TypeInit, TypeStep, PTL DEF Spec

-----------------------------------------------------------------------------
(* Rows behind the watermark. *)

(* The second pass never has a batch with a resolved row. *)
Cands ==
  \A t \in Tasks : task[t].pass = 2 /\ task[t].pc = "write"
                   => \A r \in task[t].cand : ~SubjectNamed(r)

LEMMA Apart ==
  /\ \A s : Subject(s)[1] = "subject"
  /\ \A name : Derived(name)[1] # "subject"
  /\ \A r : LiveName(r)[1] # "subject"
  BY DEF Subject, Derived, LiveName

(* What a step does to a task by ctid that goes on to write. *)
CandsKept ==
  \A t \in Tasks : task'[t].pass = 2 /\ task'[t].pc = "write"
                   => /\ task[t].pass = 2 /\ task[t].pc = "write"
                      /\ task'[t].cand \subseteq task[t].cand

LEMMA NamedStep == TypeOK /\ Cands /\ NamedBehind /\ [Next]_vars => Cands' /\ NamedBehind'
<1> SUFFICES ASSUME TypeOK, Cands, NamedBehind, [Next]_vars PROVE Cands' /\ NamedBehind'
  OBVIOUS
<1>0. /\ now \in Nat /\ wm \in Nat /\ WINDOW \in Nat
      /\ \A r \in Rows : row[r].at \in Nat
      /\ \A t \in Tasks : task[t].cand \subseteq Rows
  BY TimesInt DEF TypeOK, TaskType
<1>1. ASSUME NEW r \in Rows, Stamp(r) \/ CommitRow(r) PROVE Cands' /\ NamedBehind'
  <2>1. /\ UNCHANGED <<now, cache, wm, task, rewritten>>
        /\ \A q \in Rows \ {r} : row'[q] = row[q]
    BY <1>1 DEF Stamp, CommitRow, TypeOK
  <2>2. /\ row'[r].name[1] # "subject" /\ row'[r].at \in Nat
        /\ row'[r].state = "committed" => row'[r].at > wm
    <3>1. CASE Stamp(r)
      <4>1. PICK subject \in Subjects \cup {NoOne} :
              row' = [row EXCEPT ![r] = [Absent EXCEPT !.state = "stamped", !.at = now,
                                                       !.subject = subject]]
        BY <3>1 DEF Stamp
      <4>2. /\ row'[r].name = Derived(None) /\ row'[r].at = now
            /\ row'[r].state = "stamped"
        BY <4>1 DEF Absent, TypeOK
      <4> QED
        BY <1>0, <4>2, Apart
    <3>2. CASE CommitRow(r)
      <4>1. row'[r].name = LiveName(r) /\ row'[r].at = row[r].at
        BY <3>2 DEF CommitRow, TypeOK, RowType
      <4>2. row[r].at > wm
        BY <1>0, <3>2 DEF CommitRow, TypeOK
      <4> QED
        BY <1>0, <4>1, <4>2, Apart
    <3> QED
      BY <1>1, <3>1, <3>2
  <2>3. Cands'
    BY <1>0, <2>1, <2>2 DEF Cands, SubjectNamed
  <2>4. ASSUME NEW q \in Downstream' \ rewritten', row'[q].at <= wm', row'[q].at >= Floor',
               Cached(SessionOf[q])'
        PROVE  row'[q].name = Subject(cache'[SessionOf[q]].subject)
    <3>1. q \in Rows /\ row'[q].state = "committed"
      BY DEF Downstream, Committed
    <3>2. q # r
      BY <1>0, <2>1, <2>2, <2>4, <3>1
    <3> QED
      BY <2>1, <2>4, <3>1, <3>2 DEF NamedBehind, Downstream, Committed, Cached, Floor
  <2> QED
    BY <2>3, <2>4 DEF NamedBehind
<1>2. ASSUME UNCHANGED <<row, cache, wm, rewritten>>, now' \in Nat, now' >= now PROVE NamedBehind'
  BY <1>0, <1>2 DEF NamedBehind, Downstream, Committed, Cached, Floor
<1>3. ASSUME UNCHANGED row, CandsKept PROVE Cands'
  BY <1>3 DEF CandsKept, Cands, SubjectNamed
<1>4. CASE Tick
  BY <1>0, <1>2, <1>3, <1>4 DEF Tick, CandsKept
<1>5. CASE ResolveStep
  <2> DEFINE b == Boundary
             h == Harvest(b)
             known == Known(h)
             rows == Renamed(b, NewMaps(h), known)
  <2>1. /\ row' = [r \in Rows |-> IF r \in rows
                                  THEN [row[r] EXCEPT !.name = Subject(known[SessionOf[r]])]
                                  ELSE row[r]]
        /\ cache' = [s \in Sessions |->
             IF s \in NewMaps(h) THEN [subject |-> h[s], at |-> now]
             ELSE IF cache[s].at < now - 2 * WINDOW THEN [subject |-> NoOne, at |-> 0]
             ELSE cache[s]]
        /\ wm' = b /\ task' = Move(rows) /\ rewritten' = rewritten \ rows /\ now' = now
    BY <1>5 DEF ResolveStep
  <2>2. rows = {r \in Downstream :
                  /\ row[r].at >= Floor
                  /\ SessionOf[r] \in NewMaps(h) \/ (wm < row[r].at /\ row[r].at <= b)
                  /\ known[SessionOf[r]] # NoOne
                  /\ row[r].name # Subject(known[SessionOf[r]])}
    BY DEF Renamed, InStep
  <2>3. ASSUME NEW s \in Sessions
        PROVE  /\ known[s] = IF h[s] # NoOne THEN h[s] ELSE cache[s].subject
               /\ s \in NewMaps(h) <=> h[s] # NoOne /\ h[s] # cache[s].subject
    BY DEF Known, NewMaps
  <2>4. b \in Int
    BY <1>5, BoundaryBehind DEF ResolveStep
  <2> HIDE DEF b, h, known, rows
  <2>5. ASSUME NEW s \in Sessions, Cached(s)' PROVE known[s] = cache'[s].subject
    <3>1. CASE s \in NewMaps(h)
      BY <2>1, <2>3, <3>1
    <3>2. CASE s \notin NewMaps(h)
      <4>1. cache'[s] = cache[s]
        BY <2>1, <2>5, <3>2 DEF Cached
      <4> QED
        BY <2>3, <3>2, <4>1
    <3> QED
      BY <3>1, <3>2
  <2>6. ASSUME NEW r \in Rows
        PROVE  /\ row'[r].at = row[r].at /\ row'[r].state = row[r].state
               /\ r \in rows => row'[r].name = Subject(known[SessionOf[r]])
               /\ r \notin rows => row'[r].name = row[r].name
    <3>1. row[r] \in RowType
      BY DEF TypeOK
    <3> QED
      BY <2>1, <3>1 DEF RowType
  <2>7. ASSUME NEW r \in Downstream' \ rewritten', row'[r].at <= wm', row'[r].at >= Floor',
               Cached(SessionOf[r])'
        PROVE  row'[r].name = Subject(cache'[SessionOf[r]].subject)
    <3>1. r \in Rows /\ r \in Downstream /\ SessionOf[r] \in Sessions
      BY <2>6, RowsAssumption DEF Downstream, Committed
    <3>2. known[SessionOf[r]] = cache'[SessionOf[r]].subject /\ known[SessionOf[r]] # NoOne
      BY <2>5, <2>7, <3>1 DEF Cached
    <3>3. CASE r \in rows
      BY <2>6, <3>1, <3>2, <3>3
    <3>4. CASE r \notin rows
      <4>1. row[r].at >= Floor /\ row[r].at <= b
        BY <2>1, <2>6, <2>7, <3>1 DEF Floor
      <4>2. CASE row[r].name = Subject(known[SessionOf[r]])
        BY <2>6, <3>1, <3>2, <3>4, <4>2
      <4>3. CASE SessionOf[r] \notin NewMaps(h) /\ ~(wm < row[r].at)
        <5>1. row[r].at <= wm
          BY <1>0, <3>1, <4>3
        <5>2. cache'[SessionOf[r]] = cache[SessionOf[r]]
          BY <2>1, <2>7, <3>1, <4>3 DEF Cached
        <5>3. r \notin rewritten /\ Cached(SessionOf[r])
          BY <2>1, <2>7, <3>4, <5>2 DEF Cached
        <5>4. row[r].name = Subject(cache[SessionOf[r]].subject)
          BY <3>1, <4>1, <5>1, <5>3 DEF NamedBehind
        <5> QED
          BY <2>6, <3>1, <3>4, <5>2, <5>4
      <4> QED
        BY <2>2, <3>1, <3>2, <3>4, <4>1, <4>2, <4>3
    <3> QED
      BY <3>3, <3>4
  <2>8. ASSUME NEW t \in Tasks, task'[t].pass = 2, task'[t].pc = "write", NEW r \in task'[t].cand
        PROVE  ~SubjectNamed(r)'
    <3>1. /\ task[t].pass = 2 /\ task[t].pc = "write" /\ task'[t].cand = task[t].cand \ rows
      BY <2>1, <2>8, MoveType DEF ByCtid
    <3>2. r \in Rows /\ r \notin rows /\ ~SubjectNamed(r)
      BY <1>0, <2>8, <3>1 DEF Cands
    <3> QED
      BY <2>6, <3>2 DEF SubjectNamed
  <2> QED
    BY <2>7, <2>8 DEF NamedBehind, Cands
<1>6. ASSUME NEW t \in Tasks, Write(t) PROVE Cands' /\ NamedBehind'
  <2> DEFINE S == task[t].cand
  <2>1. /\ task[t].pc = "write"
        /\ row' = [r \in Rows |-> IF r \in S THEN Filled(t, r) ELSE row[r]]
        /\ task' = [[Move(S) EXCEPT ![t] = task[t]] EXCEPT
                      ![t].pc = IF S = {} THEN "mark" ELSE "batch", ![t].cand = {}]
        /\ rewritten' = IF task[t].pass = 1
                        THEN rewritten \cup {r \in S : SubjectNamed(r)} ELSE rewritten
        /\ UNCHANGED <<now, cache, wm>>
    BY <1>6 DEF Write
  <2>2. task[t].pass \in 1 .. 3
    BY <2>1 DEF TypeOK, TaskType
  <2>3. ASSUME NEW r \in Rows
        PROVE  /\ row'[r].at = row[r].at /\ row'[r].state = row[r].state
               /\ r \notin S \/ task[t].pass = 3 => row'[r].name = row[r].name
               /\ r \in S /\ task[t].pass # 3 => row'[r].name[1] # "subject"
    <3>1. CASE r \in S
      <4>1. row'[r] = Filled(t, r)
        BY <2>1, <3>1
      <4>2. Filled(t, r).at = row[r].at /\ Filled(t, r).state = row[r].state
        BY <2>1, FilledType
      <4>3. task[t].pass = 3 => Filled(t, r).name = row[r].name
        BY <2>1, FilledType
      <4>4. task[t].pass # 3 => Filled(t, r).name[1] # "subject"
        <5>1. CASE task[t].pass = 1
          <6>1. Filled(t, r).name = LiveName(r)
            BY <2>1, <5>1, FilledType
          <6> QED
            BY <6>1, Apart
        <5>2. CASE task[t].pass = 2
          <6>1. Filled(t, r).name = Derived(SqlBase(Raw[r]))
            BY <2>1, <5>2, FilledType
          <6> QED
            BY <6>1, Apart
        <5> QED
          BY <2>2, <5>1, <5>2
      <4> QED
        BY <3>1, <4>1, <4>2, <4>3, <4>4
    <3>2. CASE r \notin S
      BY <2>1, <3>2
    <3> QED
      BY <3>1, <3>2
  <2>4. \A r \in Rows : row'[r].name[1] = "subject" => SubjectNamed(r)
    BY <2>3 DEF SubjectNamed
  <2>5. Cands'
    <3>1. CandsKept
      BY <2>1, MoveType DEF CandsKept, TypeOK, TaskType
    <3> QED
      BY <1>0, <2>4, <3>1 DEF CandsKept, Cands, SubjectNamed
  <2>6. ASSUME NEW r \in Downstream' \ rewritten', row'[r].at <= wm', row'[r].at >= Floor',
               Cached(SessionOf[r])'
        PROVE  row'[r].name = Subject(cache'[SessionOf[r]].subject)
    <3>1. r \in Rows /\ r \in Downstream /\ r \notin rewritten
      BY <2>1, <2>3, <2>6 DEF Downstream, Committed
    <3>2. row[r].name = Subject(cache[SessionOf[r]].subject)
      BY <2>1, <2>3, <2>6, <3>1 DEF NamedBehind, Floor, Cached
    <3>3. SubjectNamed(r)
      BY <3>2, Apart DEF SubjectNamed
    <3>4. r \notin S \/ task[t].pass = 3
      BY <2>1, <2>2, <2>6, <3>1, <3>3 DEF Cands
    <3> QED
      BY <2>1, <2>3, <3>1, <3>2, <3>4
  <2> QED
    BY <2>5, <2>6 DEF NamedBehind
<1>7. ASSUME NEW t \in Tasks, Select(t) PROVE Cands'
  <2>1. PICK S \in SUBSET Committed :
          /\ \/ task[t].pass = 1
             \/ task[t].pass = 2 /\ S \in Batches(TokenNamed)
             \/ task[t].pass = 3
          /\ task' = [task EXCEPT ![t].pc = "write", ![t].cand = S]
    <3> HIDE DEF Batches, NewestIn, OldestIn
    <3> QED
      BY <1>7 DEF Select
  <2>2. task[t].pass = 2 => \A r \in S : ~SubjectNamed(r)
    BY <2>1 DEF Batches, TokenNamed
  <2>3. UNCHANGED row
    BY <1>7 DEF Select
  <2>4. /\ task'[t].pass = task[t].pass /\ task'[t].cand = S
        /\ \A u \in Tasks \ {t} : task'[u] = task[u]
    BY <2>1 DEF TypeOK, TaskType
  <2> QED
    BY <2>2, <2>3, <2>4 DEF Cands, SubjectNamed
<1>8. ASSUME NEW t \in Tasks, Spawn(t) \/ Check(t) \/ Mark(t) \/ BatchFails(t) \/ Stop(t)
      PROVE  Cands'
  <2>1. /\ UNCHANGED row
        /\ \A u \in Tasks \ {t} : task'[u] = task[u]
        /\ task'[t].pc # "write"
    <3>1. CASE Spawn(t)
      BY <3>1 DEF Spawn, TypeOK
    <3>2. CASE Check(t)
      <4>1. task[t].pass # 0 /\ [task[t] EXCEPT !.pc = "batch"].pc = "batch"
        BY <3>2 DEF Check, TypeOK, TaskType
      <4> QED
        BY <3>2, <4>1, NextPassType DEF Check, TypeOK
    <3>3. CASE Mark(t) \/ BatchFails(t)
      <4>1. task[t].pass # 0
        BY <3>3 DEF Mark, BatchFails, TypeOK
      <4> QED
        BY <3>3, <4>1, NextPassType DEF Mark, BatchFails, TypeOK
    <3>4. CASE Stop(t)
      BY <3>4 DEF Stop, Idle, TypeOK
    <3> QED
      BY <1>8, <3>1, <3>2, <3>3, <3>4
  <2> QED
    BY <1>3, <2>1 DEF CandsKept
<1>9. ASSUME NEW t \in Tasks,
             Spawn(t) \/ Check(t) \/ Select(t) \/ Mark(t) \/ BatchFails(t) \/ Stop(t)
      PROVE  NamedBehind'
  BY <1>0, <1>2, <1>9 DEF Spawn, Check, Select, Mark, BatchFails, Stop
<1>10. CASE UNCHANGED vars
  BY <1>0, <1>2, <1>3, <1>10 DEF vars, CandsKept
<1> QED
  BY <1>1, <1>4, <1>5, <1>6, <1>7, <1>8, <1>9, <1>10 DEF Next, Backfill

LEMMA NamedInit == Init => Cands /\ NamedBehind
<1> SUFFICES ASSUME Init PROVE Cands /\ NamedBehind
  OBVIOUS
<1>1. Cands
  BY DEF Init, Idle, Cands
<1>2. \A r \in Downstream : SessionOf[r] \in Sessions
  BY RowsAssumption DEF Downstream, Committed
<1>3. \A s \in Sessions : ~Cached(s)
  BY DEF Init, Cached
<1> QED
  BY <1>1, <1>2, <1>3 DEF NamedBehind

(* A row behind the watermark of a session in the cache has the cached     *)
(* subject, unless the identity pass wrote over it.                        *)
(* (resolve_webidentity_step against the three passes)                     *)
THEOREM RowsNamedBehind == Spec => []NamedBehind
<1>1. Init => TypeOK /\ Cands /\ NamedBehind
  BY TypeInit, NamedInit
<1>2. TypeOK /\ Cands /\ NamedBehind /\ [Next]_vars => (TypeOK /\ Cands /\ NamedBehind)'
  BY TypeStep, NamedStep
<1> QED
  BY <1>1, <1>2, PTL DEF Spec

-----------------------------------------------------------------------------
(* Marked passes. *)

(* Also with a user name in the record, which comes first. *)
LEMMA LiveNamesNoToken ==
  ASSUME NEW rec \in Records PROVE ~SqlCandidate(rec, PrincipalName(rec))
<1> SUFFICES ASSUME rec.hasUi, rec.type = "AssumedRole", rec.hasArn,
                    IsOpaque(PrincipalName(rec))
             PROVE  FALSE
  BY DEF SqlCandidate, Records
<1>1. /\ rec.userName \in {"user", "", None} /\ rec.issuer \in {"role", "AWSReservedSSO", None}
      /\ rec.arn \in Tails \cup {"whole"} /\ rec.pid \in Tails \cup {None}
  BY DEF Records, Fields
<1>2. CASE rec.userName = "user"
  BY <1>2 DEF PrincipalName, OrElse, NonEmpty, IsOpaque, None
<1>3. CASE rec.userName # "user"
  <2>1. PrincipalName(rec) = OrElse(AssumedRoleName(rec),
                                    OrElse(rec.issuer, OrElse(None, IF rec.arn = "whole"
                                                                    THEN "resource" ELSE rec.arn)))
    BY <1>1, <1>3 DEF PrincipalName, OrElse, NonEmpty, None
  <2>2. ~IsOpaque(AssumedRoleName(rec))
    BY DEF AssumedRoleName, RoleSessionBase, IsOpaque
  <2>3. AssumedRoleName(rec) = None => rec.arn = ""
    BY <1>1 DEF AssumedRoleName, RoleSessionBase, SessionName, ArnTail, PidTail, NonEmpty,
                OrElse, IsOpaque, Tails, None
  <2> QED
    BY <1>1, <2>1, <2>2, <2>3 DEF OrElse, IsOpaque, None
<1> QED
  BY <1>2, <1>3

LEMMA EmptyBatch ==
  ASSUME NEW C, C \subseteq Rows, {} \in Batches(C) PROVE C = {}
<1>1. IsFiniteSet(Rows)
  BY RowsAssumption, FS_Interval DEF Rows
<1>2. IsFiniteSet(C)
  BY <1>1, FS_Subset
<1>3. Cardinality(C) \in Nat /\ (Cardinality(C) = 0 <=> C = {}) /\ Cardinality({}) = 0
  BY <1>2, FS_EmptySet, FS_CardinalityType
<1>4. Min({BATCH, Cardinality(C)}) = 0
  BY <1>3 DEF Batches
<1>5. \E x \in {BATCH, Cardinality(C)} : \A y \in {BATCH, Cardinality(C)} : x <= y
  BY <1>3, TimesAssumption
<1>6. Min({BATCH, Cardinality(C)}) \in {BATCH, Cardinality(C)}
  BY <1>5 DEF Min
<1> QED
  BY <1>3, <1>4, <1>6, TimesAssumption

Kinds == {"identity", "opaque", "caller"}

LegacyIn == \A r \in Legacy : row[r].state = "committed"

(* A task that has nothing left to write has done its pass. *)
Ending ==
  \A t \in Tasks : task[t].pc = "mark" \/ (task[t].pc = "write" /\ task[t].cand = {})
                   => Done(Passes[task[t].pass])

(* A step leaves at most as much to do as there was. *)
NoMoreToDo ==
  /\ cut \subseteq cut'
  /\ \A r \in Legacy : /\ r \in Sourceless' => r \in Sourceless
                       /\ r \in TokenNamed' => r \in TokenNamed
                       /\ r \in Callerless' => r \in Callerless

LEMMA DoneKept == ASSUME NoMoreToDo, NEW p \in Kinds, Done(p) PROVE Done(p)'
  BY DEF NoMoreToDo, Kinds, Done

LEMMA PassKind == TypeOK => \A t \in Tasks : task[t].pass # 0 => Passes[task[t].pass] \in Kinds
<1> SUFFICES ASSUME TypeOK, NEW t \in Tasks, task[t].pass # 0 PROVE Passes[task[t].pass] \in Kinds
  OBVIOUS
<1>1. task[t].pass \in 1 .. 3
  BY DEF TypeOK, TaskType
<1> QED
  BY <1>1 DEF Passes, Kinds

LEMMA RowStep ==
  ASSUME TypeOK, LegacyIn, [Next]_vars PROVE LegacyIn' /\ NoMoreToDo
<1>0. Legacy \subseteq Rows
  BY RowsAssumption
<1>1. ASSUME UNCHANGED row, cut \subseteq cut' PROVE LegacyIn' /\ NoMoreToDo
  BY <1>1 DEF LegacyIn, NoMoreToDo, Sourceless, TokenNamed, Callerless, Committed, SubjectNamed
<1>2. ASSUME NEW r \in Rows, Stamp(r) \/ CommitRow(r) PROVE LegacyIn' /\ NoMoreToDo
  <2>1. r \notin Legacy
    BY <1>2 DEF Stamp, CommitRow, LegacyIn
  <2>2. (\A q \in Legacy : row'[q] = row[q]) /\ cut' = cut
    BY <1>0, <1>2, <2>1 DEF Stamp, CommitRow, TypeOK
  <2> QED
    BY <1>0, <2>2 DEF LegacyIn, NoMoreToDo, Sourceless, TokenNamed, Callerless, Committed,
                      SubjectNamed
<1>3. CASE ResolveStep
  <2> DEFINE known == Known(Harvest(Boundary))
             rows == Renamed(Boundary, NewMaps(Harvest(Boundary)), known)
  <2>1. /\ row' = [r \in Rows |-> IF r \in rows
                                  THEN [row[r] EXCEPT !.name = Subject(known[SessionOf[r]])]
                                  ELSE row[r]]
        /\ cut' = cut \cup Emptied(Tasks, rows)
    BY <1>3 DEF ResolveStep
  <2> HIDE DEF known, rows
  <2>2. ASSUME NEW r \in Rows
        PROVE  /\ row'[r].state = row[r].state /\ row'[r].source = row[r].source
               /\ row'[r].account = row[r].account
               /\ row'[r].name = row[r].name \/ row'[r].name[1] = "subject"
    <3>1. row[r] \in RowType
      BY DEF TypeOK
    <3> QED
      BY <2>1, <3>1, Apart DEF RowType
  <2> QED
    BY <1>0, <2>1, <2>2 DEF LegacyIn, NoMoreToDo, Sourceless, TokenNamed, Callerless, Committed,
                            SubjectNamed
<1>4. ASSUME NEW t \in Tasks, Write(t) PROVE LegacyIn' /\ NoMoreToDo
  <2>1. /\ task[t].pc = "write" /\ cut \subseteq cut'
        /\ row' = [r \in Rows |-> IF r \in task[t].cand THEN Filled(t, r) ELSE row[r]]
    BY <1>4 DEF Write
  <2>2. task[t].pass \in 1 .. 3
    BY <2>1 DEF TypeOK, TaskType
  <2>3. ASSUME NEW r \in Legacy
        PROVE  /\ row'[r].state = row[r].state
               /\ r \in Sourceless' => r \in Sourceless
               /\ r \in TokenNamed' => r \in TokenNamed
               /\ r \in Callerless' => r \in Callerless
    <3>0. r \in Rows /\ Raw[r] \in Records
      BY RowsAssumption
    <3>1. CASE r \notin task[t].cand
      <4>1. row'[r] = row[r]
        BY <2>1, <3>0, <3>1
      <4> QED
        BY <4>1 DEF Sourceless, TokenNamed, Callerless, Committed, SubjectNamed
    <3>2. CASE r \in task[t].cand
      <4>1. row'[r] = Filled(t, r)
        BY <2>1, <3>0, <3>2
      <4>2. row'[r].state = row[r].state
        BY <2>1, <3>0, <4>1, FilledType
      <4>3. CASE task[t].pass = 1
        <5>1. /\ row'[r].name = LiveName(r) /\ row'[r].source = TRUE
              /\ row'[r].account = row[r].account
          BY <2>1, <3>0, <4>1, <4>3, FilledType
        <5>2. row'[r].name[2] = PrincipalName(Raw[r])
          BY <5>1 DEF LiveName, Derived
        <5>3. ~SqlCandidate(Raw[r], row'[r].name[2])
          BY <3>0, <5>2, LiveNamesNoToken
        <5> QED
          BY <4>2, <5>1, <5>3 DEF Sourceless, TokenNamed, Callerless, Committed
      <4>4. CASE task[t].pass = 2
        <5>1. /\ row'[r].name = Derived(SqlBase(Raw[r])) /\ row'[r].source = row[r].source
              /\ row'[r].account = row[r].account
          BY <2>1, <3>0, <4>1, <4>4, FilledType
        <5>2. row'[r].name[2] = "base"
          BY <5>1 DEF Derived, SqlBase
        <5>3. ~SqlCandidate(Raw[r], row'[r].name[2])
          BY <5>2 DEF SqlCandidate, IsOpaque
        <5> QED
          BY <4>2, <5>1, <5>3 DEF Sourceless, TokenNamed, Callerless, Committed
      <4>5. CASE task[t].pass = 3
        <5>1. /\ row'[r].name = row[r].name /\ row'[r].source = row[r].source
              /\ row'[r].account = TRUE
          BY <2>1, <3>0, <4>1, <4>5, FilledType
        <5> QED
          BY <4>2, <5>1 DEF Sourceless, TokenNamed, Callerless, Committed, SubjectNamed
      <4> QED
        BY <2>2, <4>3, <4>4, <4>5
    <3> QED
      BY <3>1, <3>2
  <2> QED
    BY <2>1, <2>3 DEF LegacyIn, NoMoreToDo
<1>5. ASSUME NEW t \in Tasks, Spawn(t) \/ Check(t) \/ Select(t) \/ Mark(t) \/ BatchFails(t) \/ Stop(t)
      PROVE  LegacyIn' /\ NoMoreToDo
  BY <1>1, <1>5 DEF Spawn, Check, Select, Mark, BatchFails, Stop
<1>6. CASE Tick
  BY <1>1, <1>6 DEF Tick
<1>7. CASE UNCHANGED vars
  BY <1>1, <1>7 DEF vars
<1> QED
  BY <1>2, <1>3, <1>4, <1>5, <1>6, <1>7 DEF Next, Backfill

(* A task that goes on as it was, or lost rows of its batch to R. *)
LEMMA EndingKept ==
  ASSUME TypeOK, Ending, NoMoreToDo, NEW R, NEW t \in Tasks, NEW T, t \in T,
         Emptied(T, R) \subseteq cut',
         task'[t] = Move(R)[t],
         task'[t].pc = "mark" \/ (task'[t].pc = "write" /\ task'[t].cand = {})
  PROVE  Done(Passes[task[t].pass])'
<1>1. /\ task'[t].pc = task[t].pc /\ task'[t].pass = task[t].pass
      /\ ByCtid(t) => task'[t].cand = task[t].cand \ R
      /\ ~ByCtid(t) => task'[t].cand = task[t].cand
  BY MoveType
<1>2. PICK p \in Kinds : p = Passes[task[t].pass] /\ p = Passes[task'[t].pass]
  BY <1>1, PassKind DEF TypeOK
<1>3. CASE task[t].pc = "mark" \/ task[t].cand = {}
  <2>1. Done(p)
    BY <1>1, <1>2, <1>3 DEF Ending
  <2>2. Done(p)'
    BY <2>1, DoneKept
  <2> QED
    BY <1>2, <2>2
<1>4. CASE task[t].pc = "write" /\ task[t].cand # {}
  <2>1. ByCtid(t) /\ task[t].cand \subseteq R
    BY <1>1, <1>4
  <2>2. p \in Emptied(T, R)
    BY <1>2, <1>4, <2>1 DEF Emptied
  <2>3. p \in cut' /\ p \in {"opaque", "caller"}
    BY <2>2, EmptiedType
  <2>4. Done(p)'
    BY <2>3 DEF Done
  <2> QED
    BY <1>2, <2>4
<1> QED
  BY <1>1, <1>3, <1>4

LEMMA MarkStep ==
  TypeOK /\ LegacyIn /\ Ending /\ MarkerMeansDone /\ [Next]_vars
    => LegacyIn' /\ Ending' /\ MarkerMeansDone'
<1> SUFFICES ASSUME TypeOK, LegacyIn, Ending, MarkerMeansDone, [Next]_vars
             PROVE  LegacyIn' /\ Ending' /\ MarkerMeansDone'
  OBVIOUS
<1>0. LegacyIn' /\ NoMoreToDo
  BY RowStep
<1>1. ASSUME markers' = markers PROVE MarkerMeansDone'
  <2> SUFFICES ASSUME NEW p \in markers PROVE Done(p)'
    BY <1>1 DEF MarkerMeansDone
  <2>1. p \in Kinds /\ Done(p)
    BY DEF TypeOK, Kinds, MarkerMeansDone
  <2> QED
    BY <1>0, <2>1, DoneKept
<1>2. ASSUME NEW t \in Tasks, task'[t] = task[t],
             task[t].pc = "mark" \/ (task[t].pc = "write" /\ task[t].cand = {})
      PROVE  Done(Passes[task[t].pass])'
  <2>1. PICK p \in Kinds : p = Passes[task[t].pass] /\ p = Passes[task'[t].pass]
    BY <1>2, PassKind DEF TypeOK
  <2>2. Done(p)
    BY <1>2, <2>1 DEF Ending
  <2>3. Done(p)'
    BY <1>0, <2>2, DoneKept
  <2> QED
    BY <2>1, <2>3
<1>3. CASE ResolveStep
  <2>1. PICK R : task' = Move(R) /\ Emptied(Tasks, R) \subseteq cut' /\ markers' = markers
    BY <1>3 DEF ResolveStep
  <2>2. ASSUME NEW t \in Tasks,
               task'[t].pc = "mark" \/ (task'[t].pc = "write" /\ task'[t].cand = {})
        PROVE  Done(Passes[task[t].pass])'
    BY <1>0, <2>1, <2>2, EndingKept
  <2> QED
    BY <1>0, <1>1, <2>1, <2>2 DEF Ending
<1>4. ASSUME NEW t \in Tasks, Write(t) PROVE LegacyIn' /\ Ending' /\ MarkerMeansDone'
  <2> DEFINE S == task[t].cand
  <2>1. /\ task[t].pc = "write" /\ Emptied(Tasks \ {t}, S) \subseteq cut' /\ markers' = markers
        /\ task' = [[Move(S) EXCEPT ![t] = task[t]] EXCEPT
                      ![t].pc = IF S = {} THEN "mark" ELSE "batch", ![t].cand = {}]
    BY <1>4 DEF Write
  <2>2. ASSUME NEW u \in Tasks \ {t},
               task'[u].pc = "mark" \/ (task'[u].pc = "write" /\ task'[u].cand = {})
        PROVE  Done(Passes[task[u].pass])'
    <3>1. task'[u] = Move(S)[u]
      BY <2>1, MoveType
    <3> QED
      BY <1>0, <2>1, <2>2, <3>1, EndingKept
  <2>3. ASSUME task'[t].pc = "mark" \/ task'[t].pc = "write"
        PROVE  Done(Passes[task[t].pass])'
    <3>1. task'[t].pc = (IF S = {} THEN "mark" ELSE "batch") /\ task'[t].pass = task[t].pass
      BY <2>1, MoveType DEF TypeOK, TaskType
    <3>2. PICK p \in Kinds : p = Passes[task[t].pass] /\ p = Passes[task'[t].pass]
      BY <2>1, <3>1, PassKind DEF TypeOK
    <3>3. Done(p)
      BY <2>1, <2>3, <3>1, <3>2 DEF Ending
    <3>4. Done(p)'
      BY <1>0, <3>3, DoneKept
    <3> QED
      BY <3>2, <3>4
  <2> QED
    BY <1>0, <1>1, <2>1, <2>2, <2>3 DEF Ending
<1>5. ASSUME NEW t \in Tasks, Select(t) PROVE LegacyIn' /\ Ending' /\ MarkerMeansDone'
  <2>1. PICK S \in SUBSET Committed :
          /\ \/ task[t].pass = 1 /\ S \in Batches(Sourceless)
             \/ task[t].pass = 2 /\ S \in Batches(TokenNamed)
             \/ task[t].pass = 3 /\ S \in Batches(Callerless)
          /\ task' = [task EXCEPT ![t].pc = "write", ![t].cand = S]
    <3> HIDE DEF Batches, NewestIn, OldestIn
    <3> QED
      BY <1>5 DEF Select
  <2>2. /\ task'[t].pass = task[t].pass /\ task'[t].cand = S /\ task'[t].pc = "write"
        /\ \A u \in Tasks \ {t} : task'[u] = task[u]
        /\ markers' = markers
    BY <1>5, <2>1 DEF Select, TypeOK, TaskType
  <2>3. ASSUME S = {} PROVE Done(Passes[task[t].pass])'
    <3>1. Sourceless \subseteq Rows /\ TokenNamed \subseteq Rows /\ Callerless \subseteq Rows
      BY DEF Sourceless, TokenNamed, Callerless, Committed
    <3>2. PICK p \in Kinds : p = Passes[task[t].pass] /\ p = Passes[task'[t].pass]
      BY <1>5, <2>2, PassKind DEF Select, TypeOK
    <3>3. CASE task[t].pass = 1
      <4>1. Sourceless = {} /\ p = "identity"
        BY <2>1, <2>3, <3>1, <3>2, <3>3, EmptyBatch DEF Passes
      <4>2. Done(p)
        BY <4>1 DEF Done
      <4> QED
        BY <1>0, <3>2, <4>2, DoneKept
    <3>4. CASE task[t].pass = 2
      <4>1. TokenNamed = {} /\ p = "opaque"
        BY <2>1, <2>3, <3>1, <3>2, <3>4, EmptyBatch DEF Passes
      <4>2. Done(p)
        BY <4>1 DEF Done
      <4> QED
        BY <1>0, <3>2, <4>2, DoneKept
    <3>5. CASE task[t].pass = 3
      <4>1. Callerless = {} /\ p = "caller"
        BY <2>1, <2>3, <3>1, <3>2, <3>5, EmptyBatch DEF Passes
      <4>2. Done(p)
        BY <4>1 DEF Done
      <4> QED
        BY <1>0, <3>2, <4>2, DoneKept
    <3> QED
      BY <2>1, <3>3, <3>4, <3>5
  <2> QED
    BY <1>0, <1>1, <1>2, <2>2, <2>3 DEF Ending
<1>6. ASSUME NEW t \in Tasks, Mark(t) PROVE LegacyIn' /\ Ending' /\ MarkerMeansDone'
  <2>1. /\ task[t].pc = "mark" /\ markers' = markers \cup {Passes[task[t].pass]}
        /\ task' = [task EXCEPT ![t] = NextPass(t)]
    BY <1>6 DEF Mark
  <2>2. task[t].pass # 0 /\ Passes[task[t].pass] \in Kinds
    BY <2>1, PassKind DEF TypeOK
  <2>3. task'[t].pc \in {"check", "done"} /\ \A u \in Tasks \ {t} : task'[u] = task[u]
    BY <2>1, <2>2, NextPassType DEF TypeOK
  <2>4. ASSUME NEW p \in markers' PROVE Done(p)'
    <3>1. p \in Kinds /\ Done(p)
      BY <2>1, <2>2, <2>4 DEF MarkerMeansDone, Ending, TypeOK, Kinds
    <3> QED
      BY <1>0, <3>1, DoneKept
  <2>5. MarkerMeansDone'
    BY <2>4 DEF MarkerMeansDone
  <2> QED
    BY <1>0, <1>2, <2>3, <2>5 DEF Ending
<1>7. ASSUME NEW t \in Tasks, Spawn(t) \/ Check(t) \/ BatchFails(t) \/ Stop(t)
      PROVE  LegacyIn' /\ Ending' /\ MarkerMeansDone'
  <2>1. /\ markers' = markers /\ task'[t].pc \notin {"write", "mark"}
        /\ \A u \in Tasks \ {t} : task'[u] = task[u]
    <3>1. CASE Spawn(t)
      BY <3>1 DEF Spawn, TypeOK
    <3>2. CASE Check(t)
      <4>1. task[t].pass # 0 /\ [task[t] EXCEPT !.pc = "batch"].pc = "batch"
        BY <3>2 DEF Check, TypeOK, TaskType
      <4> QED
        BY <3>2, <4>1, NextPassType DEF Check, TypeOK
    <3>3. CASE BatchFails(t)
      <4>1. task[t].pass # 0
        BY <3>3 DEF BatchFails, TypeOK
      <4> QED
        BY <3>3, <4>1, NextPassType DEF BatchFails, TypeOK
    <3>4. CASE Stop(t)
      BY <3>4 DEF Stop, Idle, TypeOK
    <3> QED
      BY <1>7, <3>1, <3>2, <3>3, <3>4
  <2> QED
    BY <1>0, <1>1, <1>2, <2>1 DEF Ending
<1>8. CASE (\E r \in Rows : Stamp(r) \/ CommitRow(r)) \/ Tick \/ UNCHANGED vars
  <2>1. markers' = markers /\ task' = task
    BY <1>8 DEF Stamp, CommitRow, Tick, vars
  <2> QED
    BY <1>0, <1>1, <1>2, <2>1 DEF Ending
<1> QED
  BY <1>3, <1>4, <1>5, <1>6, <1>7, <1>8 DEF Next, Backfill

LEMMA MarkInit == Init => LegacyIn /\ Ending /\ MarkerMeansDone
<1> SUFFICES ASSUME Init PROVE LegacyIn /\ Ending /\ MarkerMeansDone
  OBVIOUS
<1>1. \A r \in Legacy : row[r].state = "committed"
  <2>1. PICK era \in [Legacy -> Eras], subject \in [Legacy \cap Mints -> Subjects] :
          row = [r \in Rows |-> IF r \in Legacy
                                THEN OldRow(r, era[r], IF r \in Mints THEN subject[r] ELSE NoOne)
                                ELSE Absent]
    BY DEF Init
  <2> QED
    BY <2>1, RowsAssumption DEF OldRow
<1> QED
  BY <1>1 DEF Init, LegacyIn, Ending, MarkerMeansDone, Idle

(* A marked pass has left no old row of its kind, unless it was by ctid    *)
(* and a batch of it lost all of its rows.                                 *)
(* (set_backfill_marker against the resolver, failures and leaders)        *)
THEOREM MarkedPassesDone == Spec => []MarkerMeansDone
<1>1. Init => TypeOK /\ LegacyIn /\ Ending /\ MarkerMeansDone
  BY TypeInit, MarkInit
<1>2. TypeOK /\ LegacyIn /\ Ending /\ MarkerMeansDone /\ [Next]_vars
        => (TypeOK /\ LegacyIn /\ Ending /\ MarkerMeansDone)'
  BY TypeStep, MarkStep
<1> QED
  BY <1>1, <1>2, PTL DEF Spec

-----------------------------------------------------------------------------
(* History and live mapping. *)

(* What the rows of token sessions may be called. *)
FromRecord ==
  \A r \in TokenRoles : \/ SubjectNamed(r)
                        \/ row[r].name = LiveName(r)
                        \/ r \in Legacy /\ row[r].name = OldName(r)

LEMMA TokenRoleNames ==
  ASSUME NEW r \in TokenRoles
  PROVE  /\ r \in Rows /\ row[r].state = "committed"
         /\ LiveName(r) = Derived(SqlBase(Raw[r])) /\ ~IsOpaque(LiveName(r)[2])
         /\ OldName(r) = Derived(SessionName(Raw[r]))
         /\ Raw[r].awsSession => SqlCandidate(Raw[r], OldName(r)[2])
<1>1. r \in Rows /\ row[r].state = "committed" /\ Raw[r] \in Records
  BY RowsAssumption DEF TokenRoles, Committed
<1>2. /\ PrincipalName(Raw[r]) = SqlBase(Raw[r]) /\ ~IsOpaque(SqlBase(Raw[r]))
      /\ Raw[r].awsSession => SqlCandidate(Raw[r], SessionName(Raw[r]))
  BY <1>1, RecordsAgree DEF TokenRoles
<1>3. OldName(r) = Derived(SessionName(Raw[r]))
  BY DEF OldName, TokenRoles
<1> QED
  BY <1>1, <1>2, <1>3 DEF LiveName, Derived

LEMMA FromInit == Init => FromRecord
<1> SUFFICES ASSUME Init, NEW r \in TokenRoles
             PROVE  r \in Legacy /\ (row[r].name = LiveName(r) \/ row[r].name = OldName(r))
  BY DEF FromRecord
<1>1. PICK era \in [Legacy -> Eras], subject \in [Legacy \cap Mints -> Subjects] :
        row = [q \in Rows |-> IF q \in Legacy
                              THEN OldRow(q, era[q], IF q \in Mints THEN subject[q] ELSE NoOne)
                              ELSE Absent]
  BY DEF Init
<1>2. r \in Rows /\ row[r].state = "committed"
  BY TokenRoleNames
<1>3. r \in Legacy
  BY <1>1, <1>2 DEF Absent
<1> QED
  BY <1>1, <1>2, <1>3 DEF OldRow

LEMMA FromStep == TypeOK /\ FromRecord /\ [Next]_vars => FromRecord'
<1> SUFFICES ASSUME TypeOK, FromRecord, [Next]_vars, NEW r \in TokenRoles'
             PROVE  \/ row'[r].name[1] = "subject"
                    \/ row'[r].name = LiveName(r)
                    \/ r \in Legacy /\ row'[r].name = OldName(r)
  BY DEF FromRecord, SubjectNamed, LiveName, OldName
<1>0. r \in Rows /\ row[r] \in RowType /\ row'[r].state = "committed"
  BY DEF TypeOK, TokenRoles, Committed
<1>1. ASSUME row'[r].state = row[r].state PROVE r \in TokenRoles
  BY <1>0, <1>1 DEF TokenRoles, Committed
<1>2. CASE row'[r].state = row[r].state /\ row'[r].name = row[r].name
  BY <1>1, <1>2 DEF FromRecord, SubjectNamed
<1>3. ASSUME NEW q \in Rows, Stamp(q) \/ CommitRow(q)
      PROVE  row'[r] = row[r] \/ row'[r].name = LiveName(r)
  <2>1. CASE q # r
    BY <1>0, <1>3, <2>1 DEF Stamp, CommitRow, TypeOK
  <2>2. CASE q = r /\ Stamp(r)
    <3>1. row'[r].state = "stamped"
      BY <1>0, <2>2 DEF Stamp, Absent, TypeOK
    <3> QED
      BY <1>0, <3>1
  <2>3. CASE q = r /\ CommitRow(r)
    BY <1>0, <2>3 DEF CommitRow, RowType, TypeOK
  <2> QED
    BY <1>3, <2>1, <2>2, <2>3
<1>4. CASE ResolveStep
  <2> DEFINE known == Known(Harvest(Boundary))
             rows == Renamed(Boundary, NewMaps(Harvest(Boundary)), known)
  <2>1. row' = [q \in Rows |-> IF q \in rows
                               THEN [row[q] EXCEPT !.name = Subject(known[SessionOf[q]])]
                               ELSE row[q]]
    BY <1>4 DEF ResolveStep
  <2> HIDE DEF known, rows
  <2>2. row'[r].state = row[r].state
        /\ (row'[r].name = row[r].name \/ row'[r].name[1] = "subject")
    BY <1>0, <2>1, Apart DEF RowType
  <2> QED
    BY <1>2, <2>2
<1>5. ASSUME NEW t \in Tasks, Write(t)
      PROVE  \/ row'[r].state = row[r].state /\ row'[r].name = row[r].name
             \/ row'[r].name = LiveName(r)
  <2>1. /\ task[t].pc = "write"
        /\ row' = [q \in Rows |-> IF q \in task[t].cand THEN Filled(t, q) ELSE row[q]]
    BY <1>5 DEF Write
  <2>2. task[t].pass \in 1 .. 3
    BY <2>1 DEF TypeOK, TaskType
  <2>3. CASE r \notin task[t].cand
    BY <1>0, <2>1, <2>3
  <2>4. CASE r \in task[t].cand
    <3>1. row'[r] = Filled(t, r)
      BY <1>0, <2>1, <2>4
    <3>2. row'[r].state = row[r].state
      BY <1>0, <2>1, <3>1, FilledType
    <3>3. r \in TokenRoles
      BY <1>1, <3>2
    <3>4. CASE task[t].pass = 1
      BY <1>0, <2>1, <3>1, <3>4, FilledType
    <3>5. CASE task[t].pass = 2
      <4>1. row'[r].name = Derived(SqlBase(Raw[r]))
        BY <1>0, <2>1, <3>1, <3>5, FilledType
      <4> QED
        BY <3>3, <4>1, TokenRoleNames
    <3>6. CASE task[t].pass = 3
      <4>1. row'[r].name = row[r].name
        BY <1>0, <2>1, <3>1, <3>6, FilledType
      <4> QED
        BY <3>2, <4>1
    <3> QED
      BY <2>2, <3>4, <3>5, <3>6
  <2> QED
    BY <2>3, <2>4
<1>6. ASSUME UNCHANGED row PROVE row'[r].state = row[r].state /\ row'[r].name = row[r].name
  BY <1>6
<1>7. ASSUME NEW t \in Tasks,
             Spawn(t) \/ Check(t) \/ Select(t) \/ Mark(t) \/ BatchFails(t) \/ Stop(t)
      PROVE  UNCHANGED row
  BY <1>7 DEF Spawn, Check, Select, Mark, BatchFails, Stop
<1>8. CASE Tick \/ UNCHANGED vars
  BY <1>2, <1>6, <1>8 DEF Tick, vars
<1> QED
  BY <1>2, <1>3, <1>4, <1>5, <1>6, <1>7, <1>8 DEF Next, Backfill

(* Rows of role sessions known by a token only are called as the live      *)
(* mapping calls them: new ones, of any partition, at all times, and old   *)
(* ones of partition aws once the second pass is marked.                   *)
(* (derive_identity, backfill_opaque_sessions_inner, and all that writes   *)
(* principal_name)                                                         *)
THEOREM NamesAgree == Spec => []HistoryAgrees
<1>1. Init => FromRecord
  BY FromInit
<1>2. TypeOK /\ FromRecord /\ [Next]_vars => FromRecord'
  BY FromStep
<1>3. FromRecord /\ MarkerMeansDone => HistoryAgrees
  <2> SUFFICES ASSUME FromRecord, MarkerMeansDone, NEW r \in TokenRoles, ~SubjectNamed(r),
                      r \notin Legacy \/ ("opaque" \in markers \ cut /\ Raw[r].awsSession)
               PROVE  row[r].name = LiveName(r)
    BY TokenRoleNames DEF HistoryAgrees
  <2>1. CASE r \in Legacy /\ row[r].name = OldName(r)
    <3>1. r \in Legacy \cap TokenNamed
      BY <2>1, TokenRoleNames DEF TokenNamed, TokenRoles
    <3>2. "opaque" \in markers /\ "opaque" \notin cut
      BY <2>1
    <3>3. Legacy \cap TokenNamed = {}
      BY <3>2 DEF MarkerMeansDone, Done
    <3> QED
      BY <3>1, <3>3
  <2> QED
    BY <2>1 DEF FromRecord
<1> QED
  BY <1>1, <1>2, <1>3, TypeCorrect, MarkedPassesDone, PTL DEF Spec
=============================================================================
