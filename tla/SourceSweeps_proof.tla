------------------------- MODULE SourceSweeps_proof --------------------------
(***************************************************************************)
(* What the pollers guarantee for any feed, pages, limits and clock, and   *)
(* any number of faults: a watermark passes nothing that is neither stored *)
(* nor lost in one of the ways that `excused` names.                       *)
(*                                                                         *)
(* A watermark moves to what a sweep has read, so the invariant says what  *)
(* a sweep owes: what it has read its way past is stored, or lost, or in   *)
(* its batch.  How far a sweep has read differs between the three: up to   *)
(* its place in the list (github), up to any object of its batch once that *)
(* was cut to size (github_s3), region by region and from the beginning of *)
(* the sweep on (guardduty).                                               *)
(***************************************************************************)
EXTENDS SourceSweeps, FiniteSetTheorems, WellFoundedInduction, TLAPS

(* Blanks hold nothing to store, but a finding is one in any case. *)
Due     == IF source = "guardduty" THEN Present ELSE Present \ Blank
Kept(i) == stored[i] = feed[i] \/ i \in excused
Held(i) == i \in sweep.batch /\ (source = "guardduty" => sweep.pc = "get")

(* The item is at or before the position. *)
Upto(i, p) == ~ Before(p, Pos(i))

GithubPassed(i) == Upto(i, sweep.pos)

S3Passed(i) == IF sweep.pc \in {"get", "flush"} THEN \E b \in sweep.batch : Upto(i, Pos(b))
                                                ELSE Upto(i, sweep.pos)

GuarddutyPassed(i) == \/ sweep.pc = "advance" \/ feed[i] < sweep.since
                      \/ Region(i) < sweep.region
                      \/ /\ Region(i) = sweep.region
                         /\ Upto(i, sweep.pos) \/ (sweep.pc = "get" /\ sweep.last)

Passed(i) == /\ source = "github"    => GithubPassed(i)
             /\ source = "github_s3" => S3Passed(i)
             /\ source = "guardduty" => GuarddutyPassed(i)

(* Nothing is left behind by the watermark, nor by a sweep under way. *)
NoneBehind == \A i \in Due : Before(Pos(i), Floor) => Kept(i)
NoneOwed   == Busy => \A i \in Due : Passed(i) => Kept(i) \/ Held(i)

(* The locals of a sweep: its list starts at `since`, its watermark is not *)
(* ahead of its list, and what it holds was listed.                        *)
Locals(s) ==
  /\ s.pages < FLUSH
  /\ s.pc \notin {"idle", "stopped"} => s.since <= s.pos[1]
  /\ source = "github" => s.max <= s.pos[1]
  /\ source = "github_s3" =>
       /\ s.pc = "flush" => s.batch # {}
       /\ \A b \in s.batch : b \in Present /\ Upto(b, s.pos)

(* The key of github_s3 is that of an object that was stored. *)
KeyRead == source = "github_s3" =>
             wm.key = Start(0) \/ \E b \in Present : wm.key = Pos(b) /\ stored[b] = feed[b]

SweepInv == TypeOK /\ Locals(sweep) /\ NoneBehind /\ NoneOwed /\ KeyRead

-----------------------------------------------------------------------------
(* Positions.                                                              *)

Places == Nat \X Nat
Dated  == feed \in [Items -> Nat]

LEMMA Numbers ==
  /\ N \in Nat /\ Regions \in Nat \ {0} /\ PAGE \in Nat \ {0} /\ FLUSH \in Nat \ {0}
  /\ MAXOBJ \in Nat \ {0} /\ DAY \in Nat \ {0} /\ WINDOW \in Nat /\ LATE \in Nat
  /\ MAXWAITS \in Nat /\ MaxTime \in Nat /\ MaxTime >= 1 /\ MaxFaults \in Nat
BY SizesAssumption

LEMMA ItemNumber == \A i \in Items : i \in Nat /\ i >= 1 /\ i <= N
BY Numbers DEF Items

LEMMA PosPlace ==
  ASSUME Dated, NEW i \in Items
  PROVE  Pos(i) \in Places /\ Pos(i)[1] = feed[i] /\ Pos(i)[2] = i
BY ItemNumber DEF Dated, Pos, Places

LEMMA StartPlace ==
  ASSUME NEW t \in Nat PROVE Start(t) \in Places /\ Start(t)[1] = t /\ Start(t)[2] = 0
BY DEF Start, Places

(* Before is a strict order, in which different items differ.              *)
LEMMA BeforeTrans ==
  ASSUME NEW p \in Places, NEW q \in Places, NEW r \in Places
  PROVE  /\ Before(p, q) /\ Before(q, r) => Before(p, r)
         /\ ~Before(q, p) /\ ~Before(r, q) => ~Before(r, p)
         /\ Before(p, q) => ~Before(q, p)
BY DEF Before, Places

LEMMA PosTotal ==
  ASSUME Dated, NEW i \in Items, NEW j \in Items, i # j
  PROVE  Before(Pos(i), Pos(j)) \/ Before(Pos(j), Pos(i))
BY PosPlace, ItemNumber DEF Before, Dated

(* An item is before a time iff it is older. *)
LEMMA BeforeStart ==
  ASSUME Dated, NEW i \in Items, NEW t \in Nat
  PROVE  Before(Pos(i), Start(t)) <=> feed[i] < t
BY PosPlace, StartPlace, ItemNumber DEF Before, Dated

LEMMA UptoStart ==
  ASSUME Dated, NEW i \in Items, NEW t \in Nat
  PROVE  Upto(i, Start(t)) <=> feed[i] < t
BY PosPlace, StartPlace, ItemNumber DEF Before, Dated, Upto

LEMMA UptoTime ==
  ASSUME Dated, NEW i \in Items, NEW p \in Places
  PROVE  /\ Upto(i, p) => feed[i] <= p[1]
         /\ feed[i] < p[1] => Upto(i, p)
BY PosPlace, ItemNumber DEF Before, Dated, Upto, Places

LEMMA UptoTrans ==
  ASSUME Dated, NEW i \in Items, NEW j \in Items, NEW p \in Places,
         Upto(i, Pos(j)), Upto(j, p)
  PROVE  Upto(i, p)
BY PosPlace, BeforeTrans DEF Upto

LEMMA UptoSelf == ASSUME Dated, NEW i \in Items PROVE Upto(i, Pos(i))
BY PosPlace, BeforeTrans DEF Upto

(* "i" is at or before "j": it is j or before it. *)
LEMMA UptoItem ==
  ASSUME Dated, NEW i \in Items, NEW j \in Items, Upto(i, Pos(j))
  PROVE  i = j \/ Before(Pos(i), Pos(j))
BY PosTotal DEF Upto

LEMMA ItemsFinite ==
  IsFiniteSet(Items) /\ \A S \in SUBSET Items : IsFiniteSet(S) /\ Cardinality(S) \in Nat
<1>1. IsFiniteSet(Items)
  BY Numbers, FS_Interval DEF Items
<1> QED
  BY <1>1, FS_Subset, FS_CardinalityType

(* The library's induction theorems take a predicate as an operator; a     *)
(* minimal set, of the items up to one, or from one on, does as well.      *)
Smaller(J, I) == J \subseteq I /\ J # I

LEMMA MinimalSet ==
  ASSUME NEW S \in SUBSET Items, NEW T \in SUBSET (SUBSET S), T # {}
  PROVE  \E I \in T : \A J \in T : ~Smaller(J, I)
<1> DEFINE R == StrictSubsetOrdering(S)
<1>1. IsWellFoundedOn(R, SUBSET S)
  <2>1. FiniteSubsetsOf(S) = SUBSET S
    BY ItemsFinite, FS_FiniteSubsetsOfFinite
  <2>2. IsWellFoundedOn(R, FiniteSubsetsOf(S))
    BY ItemsFinite, FS_StrictSubsetOrderingWellFounded
  <2> HIDE DEF R
  <2> QED
    BY <2>1, <2>2
<1>2. PICK I \in T : \A J \in T : <<J, I>> \notin R
  <2> HIDE DEF R
  <2> QED
    BY <1>1, WFMin
<1>3. \A J \in T : Smaller(J, I) => <<J, I>> \in R
  BY DEF StrictSubsetOrdering, Smaller
<1> HIDE DEF R
<1> QED
  BY <1>2, <1>3

LEMMA FirstItem ==
  ASSUME Dated, NEW S \in SUBSET Items, S # {}
  PROVE  \E x \in S : \A y \in S : Upto(x, Pos(y))
<1> DEFINE Front(x) == {y \in S : Upto(y, Pos(x))}
           T == {Front(x) : x \in S}
<1>1. PICK I \in T : \A J \in T : ~Smaller(J, I)
  <2>1. T \in SUBSET (SUBSET S) /\ T # {}
    OBVIOUS
  <2> HIDE DEF T
  <2> QED
    BY <2>1, MinimalSet
<1>2. PICK x \in S : I = Front(x)
  OBVIOUS
<1>3. ASSUME NEW y \in S PROVE Upto(x, Pos(y))
  <2> SUFFICES ASSUME Before(Pos(y), Pos(x)) PROVE FALSE
    BY DEF Upto
  <2>1. Upto(y, Pos(x)) /\ ~Upto(x, Pos(y))
    BY PosPlace, BeforeTrans DEF Upto
  <2>2. Front(y) \subseteq Front(x)
    BY <2>1, UptoTrans, PosPlace
  <2>3. x \in Front(x) /\ x \notin Front(y)
    BY <2>1, UptoSelf
  <2> QED
    BY <1>1, <1>2, <2>2, <2>3 DEF Smaller
<1> QED
  BY <1>3

LEMMA LastItem ==
  ASSUME Dated, NEW S \in SUBSET Items, S # {}
  PROVE  \E x \in S : \A y \in S : Upto(y, Pos(x))
<1> DEFINE Rear(x) == {y \in S : Upto(x, Pos(y))}
           T == {Rear(x) : x \in S}
<1>1. PICK I \in T : \A J \in T : ~Smaller(J, I)
  <2>1. T \in SUBSET (SUBSET S) /\ T # {}
    OBVIOUS
  <2> HIDE DEF T
  <2> QED
    BY <2>1, MinimalSet
<1>2. PICK x \in S : I = Rear(x)
  OBVIOUS
<1>3. ASSUME NEW y \in S PROVE Upto(y, Pos(x))
  <2> SUFFICES ASSUME Before(Pos(x), Pos(y)) PROVE FALSE
    BY DEF Upto
  <2>1. Upto(x, Pos(y)) /\ ~Upto(y, Pos(x))
    BY PosPlace, BeforeTrans DEF Upto
  <2>2. Rear(y) \subseteq Rear(x)
    BY <2>1, UptoTrans, PosPlace
  <2>3. x \in Rear(x) /\ x \notin Rear(y)
    BY <2>1, UptoSelf
  <2> QED
    BY <1>1, <1>2, <2>2, <2>3 DEF Smaller
<1> QED
  BY <1>3

LEMMA LastPosIs ==
  ASSUME Dated, NEW S \in SUBSET Items, S # {}
  PROVE  \E x \in S : LastPos(S) = Pos(x) /\ \A y \in S : Upto(y, Pos(x))
<1>1. PICK x \in S : \A y \in S : Upto(y, Pos(x))
  BY LastItem
<1>2. \A y \in S \ {x} : Before(Pos(y), Pos(x))
  BY <1>1, UptoItem
<1> DEFINE z == CHOOSE i \in S : \A j \in S \ {i} : Before(Pos(j), Pos(i))
<1>3. z \in S /\ \A j \in S \ {z} : Before(Pos(j), Pos(z))
  BY <1>2
<1>4. \A y \in S : Upto(y, Pos(z))
  BY <1>3, UptoSelf, PosPlace, BeforeTrans DEF Upto
<1> QED
  BY <1>3, <1>4 DEF LastPos

(* The first items of a set are a front of it. *)
LEMMA FirstOfFront ==
  ASSUME Dated, NEW S \in SUBSET Items, NEW k \in Nat
  PROVE  /\ FirstOf(S, k) \in SUBSET S
         /\ \A i \in FirstOf(S, k), j \in S : Upto(j, Pos(i)) => j \in FirstOf(S, k)
         /\ k # 0 /\ S # {} => FirstOf(S, k) # {}
<1> DEFINE Front(i) == {j \in S : Before(Pos(j), Pos(i))}
<1>1. ASSUME NEW i \in FirstOf(S, k), NEW j \in S, Upto(j, Pos(i))
      PROVE  j \in FirstOf(S, k)
  <2>1. i \in S /\ Cardinality(Front(i)) < k
    BY DEF FirstOf
  <2>2. CASE j = i
    BY <2>2
  <2>3. CASE Before(Pos(j), Pos(i))
    <3>1. Front(j) \in SUBSET Front(i)
      BY <2>1, <2>3, PosPlace, BeforeTrans
    <3>2. IsFiniteSet(Front(i)) /\ Cardinality(Front(i)) \in Nat /\ Cardinality(Front(j)) \in Nat
      BY ItemsFinite
    <3> HIDE DEF Front
    <3>3. Cardinality(Front(j)) <= Cardinality(Front(i))
      BY <3>1, <3>2, FS_Subset
    <3>4. Cardinality(Front(j)) < k
      BY <2>1, <3>2, <3>3
    <3> QED
      BY <3>4 DEF FirstOf, Front
  <2> QED
    BY <1>1, <2>1, <2>2, <2>3, UptoItem
<1>2. ASSUME k # 0, S # {} PROVE FirstOf(S, k) # {}
  <2>1. PICK x \in S : \A y \in S : Upto(x, Pos(y))
    BY <1>2, FirstItem
  <2>2. Front(x) = {}
    BY <2>1 DEF Upto
  <2>3. Cardinality(Front(x)) < k
    BY <1>2, <2>2, FS_EmptySet
  <2> QED
    BY <2>3 DEF FirstOf
<1> QED
  BY <1>1, <1>2 DEF FirstOf

(* The latest of a time and those of some items. *)
LEMMA MaxFeed ==
  ASSUME Dated, NEW S \in SUBSET Items, NEW t \in Nat,
         NEW m, m = Max({t} \cup {feed[i] : i \in S})
  PROVE  /\ m \in {t} \cup {feed[i] : i \in S} /\ m \in Nat
         /\ t <= m /\ \A i \in S : feed[i] <= m
<1> DEFINE X == {t} \cup {feed[i] : i \in S}
<1>1. X \subseteq Nat
  BY DEF Dated
<1>2. \E x \in X : \A y \in X : x >= y
  <2>1. CASE S = {}
    BY <2>1
  <2>2. CASE S # {}
    <3>1. PICK l \in S : \A y \in S : Upto(y, Pos(l))
      BY <2>2, LastItem
    <3>2. \A y \in S : feed[y] <= feed[l] /\ feed[y] \in Nat
      BY <3>1, PosPlace, UptoTime DEF Dated
    <3>3. feed[l] \in X /\ t \in X
      OBVIOUS
    <3>4. CASE t <= feed[l]
      BY <3>2, <3>3, <3>4
    <3>5. CASE feed[l] < t
      BY <3>2, <3>3, <3>5
    <3> QED
      BY <3>2, <3>4, <3>5
  <2> QED
    BY <2>1, <2>2
<1> HIDE DEF X
<1>3. Max(X) \in X /\ \A y \in X : Max(X) >= y
  BY <1>2 DEF Max
<1> QED
  BY <1>1, <1>3 DEF X

-----------------------------------------------------------------------------
(* Types.  A page is a front of the rest of the list.                      *)

Listed == (0 .. MaxTime) \X (0 .. N)

PCs == {"idle", "page", "wait", "retry", "get", "flush", "advance", "stopped"}

SweepType == [pc : PCs, since : 0 .. MaxTime, pos : Listed,
              region : 1 .. Regions, batch : SUBSET Items, max : 0 .. MaxTime,
              pages : 0 .. FLUSH, waits : 0 .. MAXWAITS, last : BOOLEAN]

StateOK == TypeOK /\ Locals(sweep)

LEMMA TypeFacts ==
  ASSUME TypeOK
  PROVE  /\ source \in Pollers /\ now \in 1 .. MaxTime
         /\ feed \in [Items -> 0 .. MaxTime] /\ stored \in [Items -> 0 .. MaxTime]
         /\ \A i \in Items : stored[i] <= feed[i] /\ feed[i] <= now
         /\ wm \in [at : 0 .. MaxTime, key : Listed] /\ wm.at \in 0 .. MaxTime
         /\ wm.key \in Listed /\ wm.at <= now
         /\ sweep \in SweepType /\ sweep.since <= now /\ sweep.max <= now
         /\ Dated
BY SourcesAssumption DEF TypeOK, SweepType, PCs, Listed, Dated

LEMMA SweepFacts ==
  ASSUME TypeOK
  PROVE  /\ sweep.pc \in PCs /\ sweep.since \in 0 .. MaxTime /\ sweep.pos \in Listed
         /\ sweep.region \in 1 .. Regions /\ sweep.batch \in SUBSET Items
         /\ sweep.max \in 0 .. MaxTime /\ sweep.pages \in 0 .. FLUSH
         /\ sweep.waits \in 0 .. MAXWAITS /\ sweep.last \in BOOLEAN
         /\ sweep.pos \in Places /\ sweep.pos[1] \in 0 .. MaxTime
BY TypeFacts DEF SweepType, Listed, Places

LEMMA ListedPlaces == ASSUME NEW p \in Listed PROVE p \in Places /\ p[1] \in 0 .. MaxTime
BY DEF Listed, Places

LEMMA PosListed ==
  ASSUME TypeOK, NEW i \in Items PROVE Pos(i) \in Listed
BY TypeFacts, ItemNumber, Numbers DEF Pos, Listed

LEMMA StartListed ==
  ASSUME NEW t \in 0 .. MaxTime PROVE Start(t) \in Listed /\ Start(t)[1] = t
BY Numbers DEF Start, Listed

LEMMA DayBound == ASSUME NEW t \in Nat PROVE Day(t) \in 0 .. t
<1>1. DAY \in Nat /\ DAY > 0
  BY Numbers
<1>2. t % DAY \in 0 .. DAY - 1
  BY <1>1
<1>3. t = DAY * (t \div DAY) + (t % DAY) /\ t \div DAY \in Int
  BY <1>1
<1>4. t \div DAY >= 0
  BY <1>1
<1>5. DAY * (t \div DAY) \in Nat
  BY <1>1, <1>3, <1>4
<1> QED
  BY <1>2, <1>3, <1>5 DEF Day

LEMMA IdleType == Idle \in SweepType /\ Idle.pages < FLUSH /\ Idle.max = 0 /\ Idle.batch = {}
BY Numbers, StartListed DEF Idle, SweepType, PCs

LEMMA SinceType ==
  ASSUME TypeOK PROVE Since \in 0 .. MaxTime /\ Since <= now /\ WindowFloor \in 0 .. now
<1>1. now \in 1 .. MaxTime /\ wm.at \in 0 .. MaxTime /\ wm.at <= now /\ source \in Pollers
  BY TypeFacts
<1>2. WindowFloor \in 0 .. now
  BY <1>1, Numbers DEF WindowFloor, Latest
<1>3. Latest(wm.at, WindowFloor) \in 0 .. now
  BY <1>1, <1>2 DEF Latest
<1>4. Day(Latest(wm.at, WindowFloor)) \in 0 .. now
  BY <1>1, <1>3, DayBound
<1> QED
  BY <1>1, <1>2, <1>4, Numbers DEF Since, Pollers

(* The page that comes next, and where the sweep is when it was read. *)
LEMMA PageIs ==
  ASSUME TypeOK, sweep.since <= sweep.pos[1]
  PROVE  /\ NextPage \subseteq Rest /\ Rest \subseteq Present /\ Rest \subseteq Items
         /\ NextPage = {} => Rest = {}
         /\ EndOf(NextPage) \in Listed /\ sweep.pos[1] <= EndOf(NextPage)[1]
         /\ \A i \in NextPage : Upto(i, EndOf(NextPage))
         /\ \A i \in Items : Upto(i, sweep.pos) => Upto(i, EndOf(NextPage))
         /\ \A i \in Present : /\ ~Upto(i, sweep.pos)
                               /\ source = "guardduty" => Region(i) = sweep.region
                               => i \in Rest
         /\ \A i \in Rest : Upto(i, EndOf(NextPage)) => i \in NextPage
<1>0. Dated /\ sweep.pos \in Places /\ sweep.pos[1] \in Nat /\ sweep.since \in Nat
  BY TypeFacts, SweepFacts
<1>1. Rest \subseteq Present /\ Rest \subseteq Items
  BY DEF Rest, Present
<1>2. /\ NextPage \in SUBSET Rest
      /\ \A i \in NextPage, j \in Rest : Upto(j, Pos(i)) => j \in NextPage
      /\ Rest # {} => NextPage # {}
  BY <1>0, <1>1, Numbers, FirstOfFront DEF NextPage
<1>3. \A i \in Present : /\ ~Upto(i, sweep.pos)
                         /\ source = "guardduty" => Region(i) = sweep.region
                         => i \in Rest
  <2> SUFFICES ASSUME NEW i \in Present, ~Upto(i, sweep.pos),
                      source = "guardduty" => Region(i) = sweep.region
               PROVE  i \in Rest
    OBVIOUS
  <2>1. i \in Items /\ feed[i] \in Nat
    BY <1>0 DEF Present, Dated
  <2>2. ~(feed[i] < sweep.pos[1])
    BY <1>0, <2>1, UptoTime
  <2> QED
    BY <1>0, <2>1, <2>2 DEF Rest, Upto
<1>4. CASE NextPage = {}
  <2>1. Rest = {} /\ EndOf(NextPage) = sweep.pos /\ sweep.pos \in Listed
    BY <1>2, <1>4, SweepFacts DEF EndOf
  <2> QED
    BY <1>0, <1>1, <1>2, <1>3, <1>4, <2>1
<1>5. CASE NextPage # {}
  <2>1. PICK x \in NextPage : LastPos(NextPage) = Pos(x) /\ \A y \in NextPage : Upto(y, Pos(x))
    BY <1>0, <1>1, <1>2, <1>5, LastPosIs
  <2>2. EndOf(NextPage) = Pos(x) /\ x \in Items /\ x \in Rest
    BY <1>1, <1>2, <1>5, <2>1 DEF EndOf
  <2>3. Before(sweep.pos, Pos(x)) /\ Pos(x) \in Places /\ Pos(x) \in Listed
    BY <1>0, <2>2, PosPlace, PosListed DEF Rest
  <2>4. sweep.pos[1] <= Pos(x)[1]
    BY <1>0, <2>3 DEF Before, Places
  <2>5. \A i \in Items : Upto(i, sweep.pos) => Upto(i, Pos(x))
    BY <1>0, <2>3, PosPlace, BeforeTrans DEF Upto
  <2> HIDE DEF EndOf
  <2> QED
    BY <1>1, <1>2, <1>3, <1>5, <2>1, <2>2, <2>3, <2>4, <2>5
<1> QED
  BY <1>4, <1>5

-----------------------------------------------------------------------------
(* Every step keeps the types and the locals.                              *)

(* A step of the worker, or a failure: the feed stays. *)
LEMMA WorkerMoves ==
  ASSUME StateOK, UNCHANGED <<source, now, feed>>,
         sweep' \in SweepType, Locals(sweep'), sweep'.since <= now, sweep'.max <= now,
         stored' \in [Items -> 0 .. MaxTime], \A i \in Items : stored'[i] <= feed[i],
         wm' \in [at : 0 .. MaxTime, key : Listed], wm'.at <= now,
         cancelled' \in BOOLEAN, excused' \subseteq Items, faults' \in 0 .. MaxFaults
  PROVE  StateOK'
<1>1. TypeOK'
  BY DEF StateOK, TypeOK, SweepType, PCs, Listed
<1>2. Present' = Present /\ \A i, p : Upto(i, p)' = Upto(i, p')
  BY DEF Present, Upto, Pos, Before
<1>3. Locals(sweep)'
  BY <1>2 DEF Locals, Upto, Pos
<1> QED
  BY <1>1, <1>3 DEF StateOK

LEMMA FaultType ==
  ASSUME TypeOK, (faults < MaxFaults /\ faults' = faults + 1) \/ UNCHANGED faults
  PROVE  faults' \in 0 .. MaxFaults
BY Numbers DEF TypeOK

LEMMA StillLostType ==
  ASSUME TypeOK PROVE StillLost \subseteq excused /\ StillLost \subseteq Items
BY DEF StillLost, TypeOK

LEMMA IdleLocals == ASSUME TypeOK PROVE Locals(Idle) /\ Idle.since = 0
<1>1. Idle.pc = "idle" /\ Idle.pages = 0 /\ Idle.max = 0 /\ Idle.pos = Start(0) /\ Idle.batch = {}
      /\ Idle.since = 0
  BY DEF Idle
<1>2. Start(0)[1] = 0
  BY DEF Start
<1> HIDE DEF Idle
<1> QED
  BY <1>1, <1>2, Numbers DEF Locals

(* The sweep is over. *)
LEMMA IdleMoves ==
  ASSUME StateOK, UNCHANGED <<source, now, feed>>, sweep' = Idle,
         stored' \in [Items -> 0 .. MaxTime], \A i \in Items : stored'[i] <= feed[i],
         wm' \in [at : 0 .. MaxTime, key : Listed], wm'.at <= now,
         cancelled' \in BOOLEAN, excused' \subseteq Items, faults' \in 0 .. MaxFaults
  PROVE  StateOK'
<1>1. TypeOK /\ now \in Nat
  BY TypeFacts, Numbers DEF StateOK
<1>2. sweep' \in SweepType /\ Locals(sweep') /\ sweep'.since <= now /\ sweep'.max <= now
  BY <1>1, IdleType, IdleLocals
<1> QED
  BY <1>2, WorkerMoves

LEMMA BatchStored ==
  ASSUME TypeOK,
         stored' = [i \in Items |-> IF i \in sweep.batch THEN feed[i] ELSE stored[i]]
  PROVE  /\ stored' \in [Items -> 0 .. MaxTime]
         /\ \A i \in Items : stored'[i] <= feed[i]
         /\ \A i \in Items : stored[i] = feed[i] => stored'[i] = feed[i]
         /\ \A i \in sweep.batch : stored'[i] = feed[i]
<1>1. feed \in [Items -> 0 .. MaxTime] /\ stored \in [Items -> 0 .. MaxTime]
      /\ sweep.batch \in SUBSET Items /\ \A i \in Items : stored[i] <= feed[i]
  BY TypeFacts, SweepFacts
<1> QED
  BY <1>1

(* What a step of the environment leaves of the types. *)
LEMMA PublishState ==
  ASSUME StateOK, NEW i \in Items, Publish(i)
  PROVE  StateOK'
<1>1. TypeOK /\ Locals(sweep) /\ now \in 1 .. MaxTime /\ MaxTime \in Nat
  BY TypeFacts, Numbers DEF StateOK
<1>2. PICK t \in Latest(1, now - LATE) .. now : feed' = [feed EXCEPT ![i] = t]
  BY DEF Publish
<1>3. t \in 1 .. now
  BY <1>1, <1>2, Numbers DEF Latest
<1>4. TypeOK'
  <2>1. feed' \in [Items -> 0 .. MaxTime] /\ feed[i] = 0 /\ stored[i] = 0
        /\ \A j \in Items : stored[j] <= feed'[j] /\ feed'[j] <= now
    BY <1>1, <1>2, <1>3, TypeFacts DEF Publish
  <2>2. excused' \subseteq Items
    BY <1>1 DEF Publish, TypeOK
  <2> QED
    BY <1>1, <2>1, <2>2 DEF Publish, TypeOK
<1>5. \A b \in Present : b \in Present' /\ feed'[b] = feed[b]
  BY <1>2, <1>3, TypeFacts DEF Present, Publish, StateOK
<1>6. Locals(sweep)'
  BY <1>1, <1>5 DEF Locals, Publish, Upto, Pos
<1> QED
  BY <1>4, <1>6 DEF StateOK

LEMMA UpdateState ==
  ASSUME StateOK, NEW i \in Items, Update(i)
  PROVE  StateOK'
<1>1. TypeOK /\ Locals(sweep) /\ now \in 1 .. MaxTime /\ MaxTime \in Nat
  BY TypeFacts, Numbers DEF StateOK
<1>2. TypeOK'
  <2>1. feed' \in [Items -> 0 .. MaxTime]
        /\ \A j \in Items : stored[j] <= feed'[j] /\ feed'[j] <= now
    BY <1>1, TypeFacts DEF Update
  <2>2. excused' \subseteq Items
    BY <1>1 DEF Update, TypeOK
  <2> QED
    BY <1>1, <2>1, <2>2 DEF Update, TypeOK
<1>3. Locals(sweep)'
  BY <1>1 DEF Locals, Update
<1> QED
  BY <1>2, <1>3 DEF StateOK

LEMMA TickState == ASSUME StateOK, Tick PROVE StateOK'
<1>1. TypeOK /\ now \in 1 .. MaxTime /\ MaxTime \in Nat /\ now' \in 1 .. MaxTime /\ now <= now'
  BY TypeFacts, Numbers DEF StateOK, Tick
<1>2. TypeOK'
  <2>1. \A i \in Items : stored[i] <= feed[i] /\ feed[i] <= now'
    BY <1>1, TypeFacts
  <2>2. wm.at <= now' /\ sweep.since <= now' /\ sweep.max <= now'
    BY <1>1, TypeFacts, SweepFacts
  <2> QED
    BY <1>1, <2>1, <2>2 DEF Tick, TypeOK
<1>3. Locals(sweep)'
  BY DEF StateOK, Locals, Tick, Present, Upto, Pos
<1> QED
  BY <1>2, <1>3 DEF StateOK

(* The worker's own steps, each with what it does to the sweep. *)

LEMMA BeginState ==
  ASSUME StateOK, Begin
  PROVE  /\ StateOK'
         /\ sweep'.pc = "page" /\ sweep'.since = Since /\ sweep'.region = 1
         /\ sweep'.pos = IF source = "github_s3" THEN wm.key ELSE Start(Since)
         /\ sweep'.batch = {}
<1> DEFINE place == IF source = "github_s3" THEN wm.key ELSE Start(Since)
           max == IF source = "guardduty" THEN wm.at ELSE 0
           n == [Idle EXCEPT !.pc = "page", !.since = Since, !.pos = place, !.max = max]
<1>1. TypeOK /\ sweep' = n
  BY DEF StateOK, Begin
<1>2. /\ Since \in 0 .. MaxTime /\ Since <= now /\ place \in Listed
      /\ max \in 0 .. MaxTime /\ max <= now
      /\ source \in Pollers /\ wm.key \in Listed /\ wm.key[1] \in Nat
      /\ Start(Since)[1] = Since
  BY <1>1, TypeFacts, SinceType, StartListed, ListedPlaces, Numbers
<1>3. source = "github_s3" => Since = 0
  BY DEF Since
<1> HIDE DEF place, max
<1>4. /\ n.pc = "page" /\ n.since = Since /\ n.region = 1 /\ n.pos = place
      /\ n.batch = {} /\ n.max = max /\ n.pages = 0
      /\ n \in SweepType
  <2>1. /\ Idle.region = 1 /\ Idle.batch = {} /\ Idle.pages = 0
        /\ Idle \in SweepType /\ "page" \in PCs
    BY IdleType DEF Idle, PCs
  <2> DEFINE since == Since
  <2>2. since \in 0 .. MaxTime
    BY <1>2
  <2> HIDE DEF since, PCs
  <2>3. /\ n \in SweepType /\ n.pc = "page" /\ n.since = since /\ n.region = Idle.region
        /\ n.pos = place /\ n.batch = Idle.batch /\ n.max = max /\ n.pages = Idle.pages
    BY <1>2, <2>1, <2>2 DEF SweepType, since
  <2> QED
    BY <2>1, <2>3 DEF since
<1> HIDE DEF n
<1>5. Locals(n)
  BY <1>2, <1>3, <1>4, Numbers DEF Locals, place, max
<1>6. excused' \subseteq Items /\ UNCHANGED <<source, now, feed, stored, wm, cancelled, faults>>
  BY <1>1 DEF Begin, OutsideWindow, Present, TypeOK
<1>7. StateOK'
  <2>1. sweep'.since <= now /\ sweep'.max <= now
    BY <1>1, <1>2, <1>4
  <2>2. /\ stored' \in [Items -> 0 .. MaxTime] /\ \A i \in Items : stored'[i] <= feed[i]
        /\ wm' \in [at : 0 .. MaxTime, key : Listed] /\ wm'.at <= now
        /\ cancelled' \in BOOLEAN /\ faults' \in 0 .. MaxFaults
    BY <1>1, <1>6, TypeFacts DEF TypeOK
  <2> QED
    BY <1>1, <1>4, <1>5, <1>6, <2>1, <2>2, WorkerMoves
<1> QED
  BY <1>1, <1>4, <1>7 DEF place

(* A step that only moves the sweep and may fail. *)
LEMMA SweepMoves ==
  ASSUME StateOK, UNCHANGED <<source, now, feed, stored, wm, cancelled>>,
         NEW n \in SweepType, sweep' = n, Locals(n), n.since = sweep.since, n.max <= now,
         excused' \subseteq Items,
         (faults < MaxFaults /\ faults' = faults + 1) \/ UNCHANGED faults
  PROVE  StateOK'
<1>1. /\ TypeOK /\ sweep.since <= now
      /\ stored' \in [Items -> 0 .. MaxTime] /\ \A i \in Items : stored'[i] <= feed[i]
      /\ wm' \in [at : 0 .. MaxTime, key : Listed] /\ wm'.at <= now
      /\ cancelled' \in BOOLEAN
  BY TypeFacts DEF StateOK, TypeOK
<1> QED
  BY <1>1, FaultType, WorkerMoves

(* Only the pc, and counters nobody else looks at.                         *)
LEMMA GotoState ==
  ASSUME StateOK, UNCHANGED <<source, now, feed, stored, wm, cancelled>>,
         NEW pc \in PCs, NEW waits \in 0 .. MAXWAITS, NEW last \in BOOLEAN,
         sweep' = [sweep EXCEPT !.pc = pc, !.waits = waits, !.last = last],
         pc # "stopped" /\ Busy,
         pc = "flush" => source # "github_s3",
         excused' \subseteq Items,
         (faults < MaxFaults /\ faults' = faults + 1) \/ UNCHANGED faults
  PROVE  /\ StateOK'
         /\ sweep'.pc = pc /\ sweep'.last = last
         /\ sweep'.since = sweep.since /\ sweep'.region = sweep.region
         /\ sweep'.pos = sweep.pos /\ sweep'.batch = sweep.batch /\ sweep'.max = sweep.max
<1> DEFINE n == [sweep EXCEPT !.pc = pc, !.waits = waits, !.last = last]
<1>1. TypeOK /\ Locals(sweep) /\ sweep \in SweepType
  BY TypeFacts DEF StateOK
<1>2. /\ n \in SweepType /\ n.pc = pc /\ n.last = last /\ n.pages = sweep.pages
      /\ n.since = sweep.since /\ n.region = sweep.region
      /\ n.pos = sweep.pos /\ n.batch = sweep.batch /\ n.max = sweep.max
  BY <1>1 DEF SweepType
<1>3. sweep' = n
  OBVIOUS
<1> HIDE DEF n
<1>4. Locals(n)
  BY <1>1, <1>2 DEF Locals, Busy
<1>5. n.max <= now
  BY <1>1, <1>2, TypeFacts
<1>6. StateOK'
  BY <1>2, <1>3, <1>4, <1>5, SweepMoves
<1> QED
  BY <1>2, <1>3, <1>6

LEMMA GithubPageState ==
  ASSUME StateOK, GithubPage
  PROVE  /\ StateOK'
         /\ sweep'.pc \in {"flush", "page"}
         /\ sweep'.since = sweep.since /\ sweep'.pos = EndOf(NextPage)
         /\ sweep'.batch = sweep.batch \cup MapEntries(NextPage)
<1> DEFINE page == NextPage
           rows == MapEntries(page)
           last == page = Rest
           full == sweep.pages + 1 = FLUSH
           pc == IF full \/ last THEN "flush" ELSE "page"
           place == EndOf(page)
           max == Max({sweep.max} \cup {feed[i] : i \in rows})
           pages == IF full THEN 0 ELSE sweep.pages + 1
           batch == sweep.batch \cup rows
           n == [sweep EXCEPT !.pc = pc, !.pos = place, !.batch = batch, !.max = max,
                              !.pages = pages, !.waits = 0, !.last = last]
<1>1. /\ TypeOK /\ Locals(sweep) /\ sweep \in SweepType /\ source = "github"
      /\ sweep.pc \in {"page", "retry"} /\ sweep.since <= sweep.pos[1]
  BY TypeFacts DEF StateOK, GithubPage, MayFetch, Locals
<1>2. sweep' = n /\ UNCHANGED <<source, now, feed, stored, wm, cancelled, excused, faults>>
  BY DEF GithubPage
<1>3. rows \in SUBSET Items /\ rows \subseteq page /\ place \in Listed /\ batch \in SUBSET Items
      /\ sweep.pos[1] <= place[1] /\ \A i \in rows : Upto(i, place)
  BY <1>1, PageIs, SweepFacts DEF MapEntries
<1>4. max \in Nat /\ max \in 0 .. MaxTime /\ max <= now /\ max <= place[1]
  <2>1. max \in {sweep.max} \cup {feed[i] : i \in rows} /\ max \in Nat
    <3>1. Dated /\ sweep.max \in Nat
      BY <1>1, SweepFacts, TypeFacts, Numbers
    <3> HIDE DEF rows
    <3> QED
      BY <1>3, <3>1, MaxFeed
  <2>2. \A i \in rows : feed[i] \in 0 .. MaxTime /\ feed[i] <= now /\ feed[i] <= place[1]
    BY <1>1, <1>3, TypeFacts, ListedPlaces, UptoTime
  <2>3. sweep.max \in 0 .. MaxTime /\ sweep.max <= now /\ sweep.max <= place[1]
    <3>1. sweep.max <= sweep.pos[1] /\ sweep.pos[1] \in Nat /\ place[1] \in Nat
      BY <1>1, <1>3, SweepFacts, ListedPlaces DEF Locals
    <3> QED
      BY <1>1, <1>3, <3>1, SweepFacts, TypeFacts
  <2> QED
    BY <2>1, <2>2, <2>3
<1>5. pages \in 0 .. FLUSH /\ pages < FLUSH
  BY <1>1, SweepFacts, Numbers DEF Locals
<1>6. pc \in {"flush", "page"} /\ last \in BOOLEAN
  OBVIOUS
<1> HIDE DEF page, rows, last, full, pc, place, max, pages, batch
<1>7. /\ n.pc = pc /\ n.pos = place /\ n.batch = batch /\ n.max = max /\ n.pages = pages
      /\ n.since = sweep.since
      /\ n \in SweepType
  <2> DEFINE zero == 0
  <2>1. zero \in 0 .. MAXWAITS /\ pc \in PCs
    BY <1>6, Numbers DEF PCs
  <2> HIDE DEF zero, PCs
  <2> QED
    BY <1>1, <1>3, <1>4, <1>5, <1>6, <2>1 DEF SweepType, zero
<1> HIDE DEF n
<1>8. Locals(n)
  <2>1. n.since <= n.pos[1]
    BY <1>1, <1>3, <1>7, SweepFacts, ListedPlaces
  <2> QED
    BY <1>1, <1>4, <1>5, <1>7, <2>1 DEF Locals
<1>9. excused' \subseteq Items
  BY <1>1, <1>2 DEF TypeOK
<1>10. StateOK'
  BY <1>2, <1>4, <1>7, <1>8, <1>9, SweepMoves
<1> QED
  BY <1>2, <1>6, <1>7, <1>10 DEF place, batch, page, rows

(* The watermark of github moves to what was read, or not at all. *)
LEMMA GithubFlushState ==
  ASSUME StateOK, GithubFlush
  PROVE  /\ StateOK'
         /\ sweep' = Idle \/ /\ sweep'.pc = "page" /\ sweep'.since = sweep.since
                             /\ sweep'.pos = sweep.pos /\ sweep'.batch = {}
         /\ wm'.at = wm.at \/ wm'.at = sweep.max
         /\ wm'.key = wm.key
<1>1. /\ TypeOK /\ Locals(sweep) /\ sweep \in SweepType /\ source = "github"
      /\ sweep.pc = "flush" /\ UNCHANGED <<source, now, feed, cancelled, faults>>
      /\ wm \in [at : 0 .. MaxTime, key : Listed]
  BY TypeFacts DEF StateOK, GithubFlush
<1>2. /\ wm'.at = wm.at \/ wm'.at = sweep.max
      /\ wm'.key = wm.key /\ wm' \in [at : 0 .. MaxTime, key : Listed] /\ wm'.at <= now
  <2>1. CASE sweep.batch = {}
    BY <1>1, <2>1, TypeFacts DEF GithubFlush
  <2>2. CASE sweep.batch # {}
    <3>1. wm' = [wm EXCEPT !.at = Latest(@, sweep.max)]
      BY <2>2 DEF GithubFlush
    <3>2. Latest(wm.at, sweep.max) \in {wm.at, sweep.max}
      BY DEF Latest
    <3> QED
      BY <1>1, <3>1, <3>2, TypeFacts, SweepFacts
  <2> QED
    BY <2>1, <2>2
<1>3. /\ stored' \in [Items -> 0 .. MaxTime] /\ \A i \in Items : stored'[i] <= feed[i]
  BY <1>1, BatchStored DEF GithubFlush
<1>4. excused' \subseteq Items /\ cancelled' \in BOOLEAN /\ faults' \in 0 .. MaxFaults
  BY <1>1, StillLostType DEF GithubFlush, TypeOK
<1>5. CASE sweep.last
  BY <1>1, <1>2, <1>3, <1>4, <1>5, IdleMoves DEF GithubFlush
<1>6. CASE ~ sweep.last
  <2> DEFINE n == [sweep EXCEPT !.pc = "page", !.batch = {}, !.max = 0]
  <2>1. sweep' = n
    BY <1>6 DEF GithubFlush
  <2>2. /\ n \in SweepType /\ n.pc = "page" /\ n.since = sweep.since /\ n.pos = sweep.pos
        /\ n.batch = {} /\ n.max = 0 /\ n.pages = sweep.pages
    <3> DEFINE zero == 0
               none == {}
    <3>1. zero \in 0 .. MaxTime /\ none \in SUBSET Items /\ "page" \in PCs
      BY Numbers DEF PCs
    <3> HIDE DEF zero, none, PCs
    <3> QED
      BY <1>1, <3>1 DEF SweepType, zero, none
  <2> HIDE DEF n
  <2>3. Locals(n)
    BY <1>1, <2>2, SweepFacts DEF Locals
  <2>4. n.since <= now /\ n.max <= now
    BY <1>1, <2>2, TypeFacts, Numbers
  <2>5. StateOK'
    BY <1>1, <1>2, <1>3, <1>4, <2>1, <2>2, <2>3, <2>4, WorkerMoves
  <2> QED
    BY <1>2, <2>1, <2>2, <2>5
<1> QED
  BY <1>5, <1>6

LEMMA S3PageState ==
  ASSUME StateOK, S3Page
  PROVE  /\ StateOK'
         /\ \/ sweep' = Idle
            \/ /\ sweep'.pc = sweep.pc /\ sweep'.pos = EndOf(NextPage)
               /\ sweep'.batch = sweep.batch \cup NextPage
            \/ /\ sweep'.pc = "get" /\ sweep'.pos = EndOf(NextPage)
               /\ sweep'.batch = FirstOf(DropMarkers(sweep.batch \cup NextPage), MAXOBJ)
<1> DEFINE page == NextPage
           place == EndOf(page)
           all == sweep.batch \cup page
           keys == FirstOf(DropMarkers(all), MAXOBJ)
           more == [sweep EXCEPT !.pos = place, !.batch = all]
           get == [sweep EXCEPT !.pc = "get", !.pos = place, !.batch = keys]
<1>1. /\ TypeOK /\ Locals(sweep) /\ sweep \in SweepType /\ source = "github_s3"
      /\ sweep.pc \in {"page", "retry"} /\ sweep.since <= sweep.pos[1]
      /\ UNCHANGED <<source, now, feed, stored, wm, cancelled, faults>>
  BY TypeFacts DEF StateOK, S3Page, MayFetch, Locals
<1>2. sweep' = more \/ sweep' = Idle \/ sweep' = get
  BY DEF S3Page
<1>3. /\ place \in Listed /\ all \in SUBSET Items /\ sweep.pos[1] <= place[1]
      /\ \A b \in all : b \in Present /\ Upto(b, place)
  BY <1>1, PageIs, SweepFacts DEF Locals
<1>4. keys \subseteq all
  <2>1. DropMarkers(all) \in SUBSET Items /\ DropMarkers(all) \subseteq all
    BY <1>3 DEF DropMarkers
  <2> HIDE DEF all
  <2> QED
    BY <1>1, <2>1, Numbers, TypeFacts, FirstOfFront
<1>5. keys \in SUBSET Items /\ \A b \in keys : b \in Present /\ Upto(b, place)
  BY <1>3, <1>4
<1>6. excused' \subseteq Items
  BY <1>1, StillLostType DEF S3Page, TypeOK
<1> HIDE DEF page, place, all, keys
<1>7. CASE sweep' = more
  <2>1. /\ more \in SweepType /\ more.pc = sweep.pc /\ more.pos = place /\ more.batch = all
        /\ more.since = sweep.since /\ more.max = sweep.max /\ more.pages = sweep.pages
    BY <1>1, <1>3 DEF SweepType
  <2> HIDE DEF more
  <2>2. more.since <= more.pos[1] /\ more.max <= now
    BY <1>1, <1>3, <2>1, SweepFacts, TypeFacts, ListedPlaces
  <2>3. Locals(more)
    BY <1>1, <1>3, <2>1, <2>2 DEF Locals
  <2>4. StateOK'
    BY <1>1, <1>6, <1>7, <2>1, <2>2, <2>3, SweepMoves
  <2> QED
    BY <1>7, <2>1, <2>4 DEF place, all, page
<1>8. CASE sweep' = get
  <2>1. /\ get \in SweepType /\ get.pc = "get" /\ get.pos = place /\ get.batch = keys
        /\ get.since = sweep.since /\ get.max = sweep.max /\ get.pages = sweep.pages
    <3>1. "get" \in PCs
      BY DEF PCs
    <3> HIDE DEF PCs
    <3> QED
      BY <1>1, <1>3, <1>5, <3>1 DEF SweepType
  <2> HIDE DEF get
  <2>2. get.since <= get.pos[1] /\ get.max <= now
    BY <1>1, <1>3, <2>1, SweepFacts, TypeFacts, ListedPlaces
  <2>3. Locals(get)
    BY <1>1, <1>5, <2>1, <2>2 DEF Locals
  <2>4. StateOK'
    BY <1>1, <1>6, <1>8, <2>1, <2>2, <2>3, SweepMoves
  <2> QED
    BY <1>8, <2>1, <2>4 DEF place, all, keys, page
<1>9. CASE sweep' = Idle
  <2>1. /\ stored' \in [Items -> 0 .. MaxTime] /\ \A i \in Items : stored'[i] <= feed[i]
        /\ wm' \in [at : 0 .. MaxTime, key : Listed] /\ wm'.at <= now
        /\ cancelled' \in BOOLEAN /\ faults' \in 0 .. MaxFaults
    BY <1>1, TypeFacts DEF TypeOK
  <2> QED
    BY <1>1, <1>6, <1>9, <2>1, IdleMoves
<1> QED
  BY <1>2, <1>7, <1>8, <1>9

LEMMA S3FetchState ==
  ASSUME StateOK, S3Fetch
  PROVE  /\ StateOK'
         /\ \/ sweep' = Idle
            \/ /\ sweep'.pc = "flush" /\ sweep'.pos = sweep.pos
               /\ \E k \in Nat : sweep'.batch = FirstOf(sweep.batch, k)
<1>1. /\ TypeOK /\ Locals(sweep) /\ sweep \in SweepType /\ source = "github_s3"
      /\ sweep.pc = "get" /\ sweep.since <= sweep.pos[1] /\ sweep.batch \in SUBSET Items
      /\ UNCHANGED <<source, now, feed, stored, wm, cancelled>>
  BY TypeFacts, SweepFacts DEF StateOK, S3Fetch, Locals
<1>2. PICK k \in 0 .. Cardinality(sweep.batch) :
        LET good == FirstOf(sweep.batch, k) IN
        /\ IF good = sweep.batch THEN UNCHANGED faults
           ELSE faults < MaxFaults /\ faults' = faults + 1
        /\ sweep' = IF good = {} THEN Idle
                    ELSE [sweep EXCEPT !.pc = "flush", !.batch = good]
  BY DEF S3Fetch
<1> DEFINE good == FirstOf(sweep.batch, k)
           n == [sweep EXCEPT !.pc = "flush", !.batch = good]
<1>3. k \in Nat
  BY <1>1, ItemsFinite
<1>4. good \in SUBSET sweep.batch /\ good \in SUBSET Items
  BY <1>1, <1>3, TypeFacts, FirstOfFront
<1>5. excused' \subseteq Items
  BY <1>1, StillLostType DEF S3Fetch, TypeOK
<1>6. (faults < MaxFaults /\ faults' = faults + 1) \/ UNCHANGED faults
  BY <1>2
<1>7. sweep' = Idle \/ (good # {} /\ sweep' = n)
  BY <1>2
<1> HIDE DEF good
<1>8. CASE sweep' = Idle
  <2>1. /\ stored' \in [Items -> 0 .. MaxTime] /\ \A i \in Items : stored'[i] <= feed[i]
        /\ wm' \in [at : 0 .. MaxTime, key : Listed] /\ wm'.at <= now
        /\ cancelled' \in BOOLEAN /\ faults' \in 0 .. MaxFaults
    BY <1>1, <1>6, TypeFacts, FaultType DEF TypeOK
  <2> QED
    BY <1>1, <1>5, <1>8, <2>1, IdleMoves
<1>9. CASE good # {} /\ sweep' = n
  <2>1. /\ n \in SweepType /\ n.pc = "flush" /\ n.pos = sweep.pos /\ n.batch = good
        /\ n.since = sweep.since /\ n.max = sweep.max /\ n.pages = sweep.pages
    <3>1. "flush" \in PCs
      BY DEF PCs
    <3> HIDE DEF PCs
    <3> QED
      BY <1>1, <1>4, <3>1 DEF SweepType
  <2> HIDE DEF n
  <2>2. n.max <= now
    BY <1>1, <2>1, TypeFacts
  <2>3. Locals(n)
    BY <1>1, <1>4, <1>9, <2>1 DEF Locals
  <2>4. StateOK'
    BY <1>1, <1>5, <1>6, <1>9, <2>1, <2>2, <2>3, SweepMoves
  <2> QED
    BY <1>3, <1>9, <2>1, <2>4 DEF good
<1> QED
  BY <1>7, <1>8, <1>9

(* The key of github_s3 moves to an object that was fetched, or not. *)
LEMMA S3CommitState ==
  ASSUME StateOK, S3Commit
  PROVE  /\ StateOK'
         /\ wm'.key = wm.key \/ \E b \in sweep.batch : wm'.key = Pos(b)
<1>1. /\ TypeOK /\ Locals(sweep) /\ source = "github_s3" /\ Dated
      /\ sweep.pc = "flush" /\ sweep.batch # {} /\ sweep.batch \in SUBSET Items
      /\ UNCHANGED <<source, now, feed, cancelled, faults>> /\ sweep' = Idle
      /\ wm \in [at : 0 .. MaxTime, key : Listed]
  BY TypeFacts, SweepFacts DEF StateOK, S3Commit, Locals
<1> DEFINE at == Max({wm.at} \cup {feed[i] : i \in sweep.batch})
           key == Later(wm.key, LastPos(sweep.batch))
<1>2. wm' = [at |-> at, key |-> key]
  BY DEF S3Commit
<1>3. at \in 0 .. MaxTime /\ at <= now
  <2>1. wm.at \in Nat
    BY <1>1, TypeFacts, Numbers
  <2> DEFINE before == wm.at
             batch == sweep.batch
  <2>2. at \in {before} \cup {feed[i] : i \in batch}
    <3>1. before \in Nat /\ batch \in SUBSET Items /\ at = Max({before} \cup {feed[i] : i \in batch})
      BY <1>1, <2>1
    <3> HIDE DEF before, batch, at
    <3> QED
      BY <1>1, <3>1, MaxFeed
  <2>3. \A i \in sweep.batch : feed[i] \in 0 .. MaxTime /\ feed[i] <= now
    BY <1>1, TypeFacts
  <2> HIDE DEF at
  <2> QED
    BY <1>1, <2>2, <2>3, TypeFacts
<1>4. /\ key \in Listed
      /\ key = wm.key \/ \E b \in sweep.batch : key = Pos(b)
  <2>1. PICK b \in sweep.batch : LastPos(sweep.batch) = Pos(b)
    BY <1>1, LastPosIs
  <2>2. key \in {wm.key, Pos(b)}
    BY <2>1 DEF Later
  <2> HIDE DEF key
  <2> QED
    BY <1>1, <2>1, <2>2, PosListed, TypeFacts
<1> HIDE DEF at, key
<1>5. /\ stored' \in [Items -> 0 .. MaxTime] /\ \A i \in Items : stored'[i] <= feed[i]
  BY <1>1, BatchStored DEF S3Commit
<1>6. excused' \subseteq Items /\ cancelled' \in BOOLEAN /\ faults' \in 0 .. MaxFaults
  BY <1>1, StillLostType DEF S3Commit, TypeOK
<1>7. wm' \in [at : 0 .. MaxTime, key : Listed] /\ wm'.at <= now /\ wm'.key = key
  BY <1>2, <1>3, <1>4
<1> QED
  BY <1>1, <1>4, <1>5, <1>6, <1>7, IdleMoves

(* guardduty has no locals to speak of.                                    *)
LEMMA GuarddutyMoves ==
  ASSUME StateOK, source = "guardduty", UNCHANGED <<source, now, feed, wm, cancelled, faults>>,
         NEW n \in SweepType, sweep' = n, n.since = sweep.since, n.since <= n.pos[1],
         n.pages = sweep.pages, n.max <= now, excused' \subseteq Items,
         stored' \in [Items -> 0 .. MaxTime], \A i \in Items : stored'[i] <= feed[i]
  PROVE  StateOK'
<1>1. TypeOK /\ Locals(sweep) /\ sweep.since <= now
  BY TypeFacts DEF StateOK
<1>2. Locals(n)
  BY <1>1 DEF Locals
<1>3. /\ wm' \in [at : 0 .. MaxTime, key : Listed] /\ wm'.at <= now
      /\ cancelled' \in BOOLEAN /\ faults' \in 0 .. MaxFaults
  BY <1>1, TypeFacts DEF TypeOK
<1> QED
  BY <1>1, <1>2, <1>3, WorkerMoves

LEMMA RegionDoneIs ==
  ASSUME TypeOK, sweep.since <= sweep.pos[1], NEW max \in 0 .. MaxTime,
         NEW n, n = RegionDone(max)
  PROVE  /\ n \in SweepType /\ n.max = max /\ n.since = sweep.since
         /\ n.pages = sweep.pages /\ n.since <= n.pos[1]
         /\ \/ /\ sweep.region = Regions /\ n.pc = "advance"
            \/ /\ n.pc = "page" /\ n.region = sweep.region + 1
               /\ n.pos = Start(sweep.since)
<1> DEFINE none == {}
<1>1. /\ sweep \in SweepType /\ sweep.since \in 0 .. MaxTime /\ none \in SUBSET Items
      /\ "advance" \in PCs /\ "page" \in PCs
      /\ Start(sweep.since) \in Listed /\ Start(sweep.since)[1] = sweep.since
  BY TypeFacts, SweepFacts, StartListed DEF PCs
<1> HIDE DEF none, PCs
<1>2. CASE sweep.region = Regions
  <2> DEFINE m == [sweep EXCEPT !.pc = "advance", !.batch = none, !.max = max]
  <2>1. n = m
    BY <1>2 DEF RegionDone, none
  <2>2. /\ m \in SweepType /\ m.max = max /\ m.since = sweep.since /\ m.pages = sweep.pages
        /\ m.pos = sweep.pos /\ m.pc = "advance"
    BY <1>1 DEF SweepType
  <2> HIDE DEF m
  <2> QED
    BY <1>2, <2>1, <2>2
<1>3. CASE sweep.region # Regions
  <2> DEFINE next == sweep.region + 1
             place == Start(sweep.since)
             m == [sweep EXCEPT !.pc = "page", !.region = next, !.pos = place,
                                !.batch = none, !.max = max, !.last = FALSE]
  <2>1. n = m
    BY <1>3 DEF RegionDone, none
  <2>2. next \in 1 .. Regions
    BY <1>3, SweepFacts, Numbers
  <2> HIDE DEF next, place
  <2>3. /\ m \in SweepType /\ m.max = max /\ m.since = sweep.since /\ m.pages = sweep.pages
        /\ m.pos = place /\ m.pc = "page" /\ m.region = next
    BY <1>1, <2>2 DEF SweepType, place
  <2> HIDE DEF m
  <2>4. n.since <= n.pos[1]
    BY <1>1, <2>1, <2>3, Numbers DEF place
  <2> QED
    BY <2>1, <2>3, <2>4 DEF next, place
<1> QED
  BY <1>2, <1>3

LEMMA GuarddutyListState ==
  ASSUME StateOK, GuarddutyList
  PROVE  /\ StateOK'
         /\ \/ NextPage = {} /\ sweep' = RegionDone(sweep.max)
            \/ /\ sweep'.pc = "get" /\ sweep'.pos = EndOf(NextPage)
               /\ sweep'.since = sweep.since /\ sweep'.region = sweep.region
               /\ sweep'.batch = NextPage /\ sweep'.last = (NextPage = Rest)
<1> DEFINE page == NextPage
           place == EndOf(page)
           last == page = Rest
           n == [sweep EXCEPT !.pc = "get", !.pos = place, !.batch = page, !.last = last]
<1>1. /\ TypeOK /\ Locals(sweep) /\ sweep \in SweepType /\ source = "guardduty"
      /\ sweep.pc \in {"page", "retry"} /\ sweep.since <= sweep.pos[1]
      /\ UNCHANGED <<source, now, feed, stored, wm, cancelled, excused, faults>>
  BY TypeFacts DEF StateOK, GuarddutyList, MayFetch, Locals
<1>2. /\ page \in SUBSET Items /\ place \in Listed /\ sweep.pos[1] <= place[1]
      /\ last \in BOOLEAN
  BY <1>1, PageIs
<1>3. excused' \subseteq Items /\ stored' \in [Items -> 0 .. MaxTime]
      /\ \A i \in Items : stored'[i] <= feed[i]
  BY <1>1, TypeFacts DEF TypeOK
<1>4. IF page = {} THEN sweep' = RegionDone(sweep.max) ELSE sweep' = n
  BY DEF GuarddutyList
<1> HIDE DEF page, place, last
<1>5. CASE page = {}
  <2>1. sweep' = RegionDone(sweep.max) /\ sweep.max \in 0 .. MaxTime /\ sweep.max <= now
    BY <1>1, <1>4, <1>5, SweepFacts, TypeFacts
  <2>2. StateOK'
    BY <1>1, <1>3, <2>1, RegionDoneIs, GuarddutyMoves
  <2> QED
    BY <1>5, <2>1, <2>2 DEF page
<1>6. CASE page # {}
  <2>1. /\ n \in SweepType /\ n.pc = "get" /\ n.pos = place /\ n.batch = page /\ n.last = last
        /\ n.since = sweep.since /\ n.region = sweep.region
        /\ n.max = sweep.max /\ n.pages = sweep.pages
    <3>1. "get" \in PCs
      BY DEF PCs
    <3> HIDE DEF PCs
    <3> QED
      BY <1>1, <1>2, <3>1 DEF SweepType
  <2> HIDE DEF n
  <2>2. n.since <= n.pos[1] /\ n.max <= now
    BY <1>1, <1>2, <2>1, SweepFacts, TypeFacts, ListedPlaces
  <2>3. sweep' = n
    BY <1>4, <1>6
  <2>4. StateOK'
    BY <1>1, <1>3, <2>1, <2>2, <2>3, GuarddutyMoves
  <2> QED
    BY <2>1, <2>3, <2>4 DEF page, place, last
<1> QED
  BY <1>5, <1>6

LEMMA GuarddutyStoreState ==
  ASSUME StateOK, GuarddutyStore
  PROVE  /\ StateOK'
         /\ \/ sweep.last /\ \E max \in 0 .. MaxTime : sweep' = RegionDone(max)
            \/ /\ ~sweep.last /\ sweep'.pc = "page" /\ sweep'.pos = sweep.pos
               /\ sweep'.since = sweep.since /\ sweep'.region = sweep.region
<1>1. /\ TypeOK /\ Locals(sweep) /\ sweep \in SweepType /\ source = "guardduty" /\ Dated
      /\ sweep.pc = "get" /\ sweep.since <= sweep.pos[1] /\ sweep.batch \in SUBSET Items
      /\ UNCHANGED <<source, now, feed, wm, cancelled, faults>>
  BY TypeFacts, SweepFacts DEF StateOK, GuarddutyStore, Locals
<1> DEFINE sofar == sweep.max
           batch == sweep.batch
           max == Max({sofar} \cup {feed[i] : i \in batch})
           n == [sweep EXCEPT !.pc = "page", !.batch = {}, !.max = max]
<1>2. max \in 0 .. MaxTime /\ max <= now
  <2>1. sofar \in 0 .. MaxTime /\ sofar \in Nat /\ sofar <= now /\ batch \in SUBSET Items
    BY <1>1, SweepFacts, TypeFacts, Numbers
  <2>2. max \in {sofar} \cup {feed[i] : i \in batch}
    <3> HIDE DEF sofar, batch
    <3>1. max = Max({sofar} \cup {feed[i] : i \in batch})
      OBVIOUS
    <3> HIDE DEF max
    <3> QED
      BY <1>1, <2>1, <3>1, MaxFeed
  <2>3. \A i \in batch : feed[i] \in 0 .. MaxTime /\ feed[i] <= now
    BY <1>1, TypeFacts
  <2> HIDE DEF max, sofar, batch
  <2> QED
    BY <2>1, <2>2, <2>3
<1>3. IF sweep.last THEN sweep' = RegionDone(max) ELSE sweep' = n
  BY DEF GuarddutyStore
<1>4. /\ excused' \subseteq Items /\ stored' \in [Items -> 0 .. MaxTime]
      /\ \A i \in Items : stored'[i] <= feed[i]
  BY <1>1, BatchStored DEF GuarddutyStore, TypeOK
<1> HIDE DEF max
<1>5. CASE sweep.last
  <2>1. sweep' = RegionDone(max)
    BY <1>3, <1>5
  <2>2. StateOK'
    BY <1>1, <1>2, <1>4, <2>1, RegionDoneIs, GuarddutyMoves
  <2> QED
    BY <1>2, <1>5, <2>1, <2>2
<1>6. CASE ~ sweep.last
  <2>1. /\ n \in SweepType /\ n.pc = "page" /\ n.pos = sweep.pos
        /\ n.since = sweep.since /\ n.region = sweep.region
        /\ n.max = max /\ n.pages = sweep.pages
    <3> DEFINE none == {}
    <3>1. "page" \in PCs /\ none \in SUBSET Items
      BY DEF PCs
    <3> HIDE DEF PCs, none
    <3> QED
      BY <1>1, <1>2, <3>1 DEF SweepType, none
  <2> HIDE DEF n
  <2>2. n.since <= n.pos[1] /\ n.max <= now /\ sweep' = n
    BY <1>1, <1>2, <1>3, <1>6, <2>1
  <2>3. StateOK'
    BY <1>1, <1>4, <2>1, <2>2, GuarddutyMoves
  <2> QED
    BY <1>6, <2>1, <2>2, <2>3
<1> QED
  BY <1>5, <1>6

LEMMA GuarddutyAdvanceState ==
  ASSUME StateOK, GuarddutyAdvance
  PROVE  StateOK' /\ wm'.at \in 0 .. MaxTime
<1>1. /\ TypeOK /\ UNCHANGED <<source, now, feed, stored, cancelled, faults>> /\ sweep' = Idle
      /\ wm \in [at : 0 .. MaxTime, key : Listed]
  BY TypeFacts DEF StateOK, GuarddutyAdvance
<1>2. wm' \in [at : 0 .. MaxTime, key : Listed] /\ wm'.at <= now
  <2>1. CASE sweep.max = wm.at
    BY <1>1, <2>1, TypeFacts DEF GuarddutyAdvance
  <2>2. CASE sweep.max # wm.at
    <3>1. wm' = [wm EXCEPT !.at = Latest(@, sweep.max)]
      BY <2>2 DEF GuarddutyAdvance
    <3>2. Latest(wm.at, sweep.max) \in {wm.at, sweep.max}
      BY DEF Latest
    <3> QED
      BY <1>1, <3>1, <3>2, TypeFacts, SweepFacts
  <2> QED
    BY <2>1, <2>2
<1>3. /\ stored' \in [Items -> 0 .. MaxTime] /\ \A i \in Items : stored'[i] <= feed[i]
      /\ excused' \subseteq Items /\ cancelled' \in BOOLEAN /\ faults' \in 0 .. MaxFaults
  BY <1>1, TypeFacts, StillLostType DEF GuarddutyAdvance, TypeOK
<1> QED
  BY <1>1, <1>2, <1>3, IdleMoves

LEMMA RateLimitedState ==
  ASSUME StateOK, RateLimited
  PROVE  /\ StateOK' /\ sweep'.pc = "wait" /\ sweep'.since = sweep.since
         /\ sweep'.pos = sweep.pos /\ sweep'.batch = sweep.batch
<1> DEFINE waits == sweep.waits + 1
           last == sweep.last
           pc == "wait"
<1>1. TypeOK /\ sweep \in SweepType /\ last \in BOOLEAN /\ excused' \subseteq Items /\ pc \in PCs
  BY TypeFacts, SweepFacts DEF StateOK, RateLimited, TypeOK, PCs
<1>2. waits \in 0 .. MAXWAITS
  BY <1>1, SweepFacts, Numbers DEF RateLimited
<1>3. sweep' = [sweep EXCEPT !.pc = pc, !.waits = waits]
  BY DEF RateLimited
<1> HIDE DEF waits
<1>4. [sweep EXCEPT !.pc = pc, !.waits = waits]
        = [sweep EXCEPT !.pc = pc, !.waits = waits, !.last = last]
  BY <1>1 DEF SweepType
<1>5. pc # "stopped" /\ pc # "flush" /\ Busy /\ pc = "wait"
  BY DEF RateLimited, MayFetch, Busy
<1> HIDE DEF last, pc
<1>6. /\ sweep' = [sweep EXCEPT !.pc = pc, !.waits = waits, !.last = last]
      /\ UNCHANGED <<source, now, feed, stored, wm, cancelled>>
      /\ (faults < MaxFaults /\ faults' = faults + 1) \/ UNCHANGED faults
  BY <1>3, <1>4 DEF RateLimited
<1> QED
  BY <1>1, <1>2, <1>3, <1>4, <1>5, <1>6, GotoState

LEMMA WaitOverState ==
  ASSUME StateOK, WaitOver
  PROVE  /\ StateOK' /\ sweep'.pc = "retry" /\ sweep'.since = sweep.since
         /\ sweep'.pos = sweep.pos /\ sweep'.batch = sweep.batch
         /\ sweep'.region = sweep.region
<1> DEFINE waits == sweep.waits
           last == sweep.last
           pc == "retry"
<1>1. /\ TypeOK /\ sweep \in SweepType /\ last \in BOOLEAN /\ excused' \subseteq Items
      /\ waits \in 0 .. MAXWAITS /\ pc \in PCs
  BY TypeFacts, SweepFacts DEF StateOK, WaitOver, TypeOK, PCs
<1>2. sweep' = [sweep EXCEPT !.pc = pc]
  BY DEF WaitOver
<1>3. [sweep EXCEPT !.pc = pc]
        = [sweep EXCEPT !.pc = pc, !.waits = waits, !.last = last]
  BY <1>1 DEF SweepType
<1>4. pc # "stopped" /\ pc # "flush" /\ Busy /\ pc = "retry"
  BY DEF WaitOver, Busy
<1> HIDE DEF waits, last, pc
<1> QED
  BY <1>1, <1>2, <1>3, <1>4, GotoState DEF WaitOver

LEMMA GithubCancelledState ==
  ASSUME StateOK, GithubCancelled
  PROVE  /\ StateOK' /\ sweep'.pc = "flush" /\ sweep'.since = sweep.since
         /\ sweep'.pos = sweep.pos /\ sweep'.batch = sweep.batch
<1> DEFINE waits == sweep.waits
           pc == "flush"
<1>0. PICK last \in BOOLEAN : last = TRUE
  OBVIOUS
<1>1. /\ TypeOK /\ sweep \in SweepType /\ excused' \subseteq Items
      /\ waits \in 0 .. MAXWAITS /\ pc \in PCs
  BY TypeFacts, SweepFacts DEF StateOK, GithubCancelled, TypeOK, PCs
<1>2. sweep' = [sweep EXCEPT !.pc = pc, !.last = last]
  BY <1>0 DEF GithubCancelled
<1>3. [sweep EXCEPT !.pc = pc, !.last = last]
        = [sweep EXCEPT !.pc = pc, !.waits = waits, !.last = last]
  BY <1>1 DEF SweepType
<1>4. pc # "stopped" /\ Busy /\ source # "github_s3" /\ pc = "flush"
  BY DEF GithubCancelled, Busy
<1> HIDE DEF waits, pc
<1>5. /\ sweep' = [sweep EXCEPT !.pc = pc, !.waits = waits, !.last = last]
      /\ UNCHANGED <<source, now, feed, stored, wm, cancelled>>
      /\ (faults < MaxFaults /\ faults' = faults + 1) \/ UNCHANGED faults
  BY <1>2, <1>3 DEF GithubCancelled
<1> QED
  BY <1>0, <1>1, <1>2, <1>3, <1>4, <1>5, GotoState

LEMMA GuarddutyCancelledState ==
  ASSUME StateOK, GuarddutyCancelled
  PROVE  StateOK' /\ sweep'.pc = "advance"
<1> DEFINE waits == sweep.waits
           pc == "advance"
<1>0. PICK last \in BOOLEAN : last = TRUE
  OBVIOUS
<1>1. /\ TypeOK /\ sweep \in SweepType /\ excused' \subseteq Items
      /\ waits \in 0 .. MAXWAITS /\ pc \in PCs
  BY TypeFacts, SweepFacts DEF StateOK, GuarddutyCancelled, TypeOK, PCs, Present
<1>2. sweep' = [sweep EXCEPT !.pc = pc, !.last = last]
  BY <1>0 DEF GuarddutyCancelled
<1>3. [sweep EXCEPT !.pc = pc, !.last = last]
        = [sweep EXCEPT !.pc = pc, !.waits = waits, !.last = last]
  BY <1>1 DEF SweepType
<1>4. pc # "stopped" /\ pc # "flush" /\ Busy /\ pc = "advance"
  BY DEF GuarddutyCancelled, Busy
<1> HIDE DEF waits, pc
<1>5. /\ sweep' = [sweep EXCEPT !.pc = pc, !.waits = waits, !.last = last]
      /\ UNCHANGED <<source, now, feed, stored, wm, cancelled>>
      /\ (faults < MaxFaults /\ faults' = faults + 1) \/ UNCHANGED faults
  BY <1>2, <1>3 DEF GuarddutyCancelled
<1> QED
  BY <1>0, <1>1, <1>2, <1>3, <1>4, <1>5, GotoState

LEMMA StopTaskState ==
  ASSUME StateOK, StopTask
  PROVE  StateOK' /\ sweep'.pc = "stopped"
<1> DEFINE n == [Idle EXCEPT !.pc = "stopped"]
<1>1. TypeOK /\ Locals(Idle)
  BY IdleLocals DEF StateOK
<1>2. /\ n.pc = "stopped" /\ n.pages = Idle.pages /\ n.max = 0 /\ n.pos = Idle.pos
      /\ n.batch = {} /\ n.since = 0 /\ n \in SweepType
  <2>1. Idle \in SweepType /\ "stopped" \in PCs /\ Idle.since = 0 /\ Idle.max = 0 /\ Idle.batch = {}
    BY <1>1, IdleType, IdleLocals DEF PCs
  <2> HIDE DEF PCs
  <2> QED
    BY <2>1 DEF SweepType
<1>3. sweep' = n /\ UNCHANGED <<source, now, feed, stored, wm, cancelled, excused, faults>>
  BY DEF StopTask
<1> HIDE DEF n
<1>4. Locals(n)
  BY <1>1, <1>2, IdleType, IdleLocals DEF Locals
<1>5. n.since <= now /\ n.max <= now
  BY <1>1, <1>2, TypeFacts
<1>6. /\ stored' \in [Items -> 0 .. MaxTime] /\ \A i \in Items : stored'[i] <= feed[i]
      /\ wm' \in [at : 0 .. MaxTime, key : Listed] /\ wm'.at <= now
      /\ cancelled' \in BOOLEAN /\ faults' \in 0 .. MaxFaults /\ excused' \subseteq Items
  BY <1>1, <1>3, TypeFacts DEF TypeOK
<1>7. StateOK'
  BY <1>2, <1>3, <1>4, <1>5, <1>6, WorkerMoves
<1> QED
  BY <1>2, <1>3, <1>7

(* Fail, Crash and Restart end in an idle worker, Cancel leaves the sweep. *)
LEMMA IdleState ==
  ASSUME StateOK, Fail \/ Crash \/ Restart
  PROVE  StateOK'
<1>1. TypeOK /\ sweep' = Idle /\ UNCHANGED <<source, now, feed, stored, wm>>
  BY DEF StateOK, Fail, Crash, Restart
<1>2. /\ stored' \in [Items -> 0 .. MaxTime] /\ \A i \in Items : stored'[i] <= feed[i]
      /\ wm' \in [at : 0 .. MaxTime, key : Listed] /\ wm'.at <= now
  BY <1>1, TypeFacts
<1>3. excused' \subseteq Items /\ cancelled' \in BOOLEAN /\ faults' \in 0 .. MaxFaults
  BY <1>1, StillLostType, FaultType DEF Fail, Crash, Restart, TypeOK
<1> QED
  BY <1>1, <1>2, <1>3, IdleMoves

LEMMA CancelState == ASSUME StateOK, Cancel PROVE StateOK'
<1>1. TypeOK' /\ Present' = Present
  BY FaultType DEF StateOK, Cancel, TypeOK, Present
<1>2. Locals(sweep)'
  BY <1>1 DEF StateOK, Cancel, Locals, Upto, Pos
<1> QED
  BY <1>1, <1>2 DEF StateOK

LEMMA StateStep == ASSUME StateOK, [Next]_vars PROVE StateOK'
<1>1. CASE UNCHANGED vars
  <2>1. TypeOK' /\ Present' = Present
    BY <1>1 DEF StateOK, TypeOK, vars, Present
  <2>2. Locals(sweep)'
    BY <1>1, <2>1 DEF StateOK, Locals, vars, Upto, Pos
  <2> QED
    BY <2>1, <2>2 DEF StateOK
<1>2. CASE Next
  <2>1. CASE Step
    BY <2>1, BeginState, WaitOverState, GithubPageState, GithubFlushState,
       GithubCancelledState, S3PageState, S3FetchState, S3CommitState,
       GuarddutyListState, GuarddutyStoreState, GuarddutyCancelledState,
       GuarddutyAdvanceState, StopTaskState, IdleState DEF Step
  <2>2. CASE \E i \in Items : Publish(i) \/ Update(i)
    BY <2>2, PublishState, UpdateState
  <2> QED
    BY <1>2, <2>1, <2>2, TickState, RateLimitedState, IdleState, CancelState DEF Next
<1> QED
  BY <1>1, <1>2

LEMMA StateInit == ASSUME Init PROVE StateOK
<1>1. TypeOK
  <2>1. 1 \in 1 .. MaxTime /\ 0 \in 0 .. MaxTime /\ 0 \in 0 .. MaxFaults
    BY Numbers
  <2>2. [at |-> 0, key |-> Start(0)] \in [at : 0 .. MaxTime, key : Listed]
    BY <2>1, StartListed
  <2>3. /\ feed \in [Items -> 0 .. MaxTime] /\ stored \in [Items -> 0 .. MaxTime]
        /\ \A i \in Items : stored[i] <= feed[i] /\ feed[i] <= now
    BY <2>1 DEF Init
  <2>4. sweep \in SweepType /\ sweep.since = 0 /\ sweep.max = 0
    BY IdleType DEF Init, Idle
  <2>5. wm.at = 0 /\ wm \in [at : 0 .. MaxTime, key : Listed]
    BY <2>2 DEF Init
  <2>6. source \in Sources /\ cancelled \in BOOLEAN /\ excused \subseteq Items
    BY DEF Init
  <2>7. now = 1 /\ faults = 0
    BY DEF Init
  <2>8. /\ now \in 1 .. MaxTime /\ faults \in 0 .. MaxFaults
        /\ wm.at <= now /\ sweep.since <= now /\ sweep.max <= now
    BY <2>1, <2>4, <2>5, <2>7
  <2> QED
    BY <2>3, <2>4, <2>5, <2>6, <2>8 DEF TypeOK, SweepType, PCs, Listed
<1>2. Locals(sweep)
  BY <1>1, IdleLocals DEF Init
<1> QED
  BY <1>1, <1>2 DEF StateOK

(* Whatever the sizes and limits: every variable keeps its type, nothing   *)
(* is stored as newer than it is, and no watermark and no sweep is ahead   *)
(* of the clock.                                                           *)
THEOREM SweepsTypeCorrect == Spec => []TypeOK
<1>1. Init => StateOK
  BY StateInit
<1>2. StateOK /\ [Next]_vars => StateOK'
  BY StateStep
<1>3. StateOK => TypeOK
  BY DEF StateOK
<1> QED
  BY <1>1, <1>2, <1>3, PTL DEF Spec

-----------------------------------------------------------------------------
(* Nothing is left behind.  Most steps leave the watermark where it is,    *)
(* store something more and forget no loss that still counts.              *)

StoredStays == \A i \in Items : stored[i] = feed[i] => stored'[i] = feed'[i]

KeptStays == \A i \in Items : Kept(i) /\ (Busy' \/ Before(Pos(i), Floor)') => Kept(i)'

SweepOK == StateOK /\ NoneBehind /\ NoneOwed /\ KeyRead

LEMMA DueItems == Present \subseteq Items /\ Due \subseteq Present
BY DEF Present, Due

LEMMA SameFeed ==
  ASSUME UNCHANGED <<source, feed>>
  PROVE  /\ Due' = Due /\ Present' = Present
         /\ \A i : Pos(i)' = Pos(i) /\ Region(i)' = Region(i)
         /\ \A i, p : Upto(i, p)' <=> Upto(i, p)
BY DEF Due, Present, Pos, Region, Upto, Before

LEMMA StaysStored ==
  ASSUME UNCHANGED <<feed, stored>> PROVE StoredStays
BY DEF StoredStays

LEMMA LostStays ==
  ASSUME UNCHANGED feed, StoredStays,
         excused \subseteq excused' \/ excused' = StillLost
  PROVE  KeptStays
<1> SUFFICES ASSUME NEW i \in Items, Kept(i), Busy' \/ Before(Pos(i), Floor)'
             PROVE  Kept(i)'
  BY DEF KeptStays
<1>1. CASE stored[i] = feed[i]
  BY <1>1 DEF StoredStays, Kept
<1>2. CASE i \in excused /\ excused \subseteq excused'
  BY <1>2 DEF Kept
<1>3. CASE i \in excused /\ excused' = StillLost
  <2>1. Before(Pos(i), Floor)' <=> Before(Pos(i), Floor')
    BY DEF Before, Pos
  <2>2. CASE stored'[i] = feed[i]
    BY <2>2 DEF Kept
  <2>3. CASE stored'[i] # feed[i]
    BY <1>3, <2>1, <2>3 DEF Kept, StillLost
  <2> QED
    BY <2>2, <2>3
<1> QED
  BY <1>1, <1>2, <1>3 DEF Kept

(* A step that moves no watermark. *)
LEMMA SameFloor ==
  ASSUME SweepOK, UNCHANGED <<source, feed, wm>>, StoredStays, KeptStays
  PROVE  NoneBehind' /\ KeyRead'
<1>1. NoneBehind /\ KeyRead
  BY DEF SweepOK
<1>2. Due' = Due /\ Present' = Present /\ \A i : Pos(i)' = Pos(i)
  BY SameFeed
<1>3. Floor' = Floor
  BY DEF Floor, Day, Start
<1>4. NoneBehind'
  <2> SUFFICES ASSUME NEW i \in Due, Before(Pos(i), Floor)' PROVE Kept(i)'
    BY <1>2 DEF NoneBehind
  <2>1. Before(Pos(i), Floor) /\ i \in Items
    BY <1>2, <1>3, DueItems DEF Before
  <2> QED
    BY <1>1, <2>1 DEF NoneBehind, KeptStays
<1>5. KeyRead'
  BY <1>1, <1>2, DueItems DEF KeyRead, StoredStays, Start, Pos
<1> QED
  BY <1>4, <1>5

(* A step that moves no watermark and ends the sweep. *)
LEMMA SweepOver ==
  ASSUME SweepOK, UNCHANGED <<source, feed, wm>>, StoredStays, KeptStays, ~Busy'
  PROVE  NoneBehind' /\ NoneOwed' /\ KeyRead'
BY SameFloor DEF NoneOwed

(* A step of the sweep: what it passes by now it had passed before, or has *)
(* in hand.                                                                *)
LEMMA StillOwed ==
  ASSUME SweepOK, UNCHANGED <<source, feed>>, KeptStays, Busy', Busy,
         \A i \in Due : Held(i) => Held(i)' \/ Kept(i)' \/ ~ Passed(i)',
         \A i \in Due : Passed(i)' => Passed(i) \/ Held(i)' \/ Held(i) \/ Kept(i)'
  PROVE  NoneOwed'
<1>1. Due' = Due /\ NoneOwed /\ Due \subseteq Items
  BY SameFeed, DueItems DEF SweepOK
<1> SUFFICES ASSUME NEW i \in Due, Passed(i)' PROVE Kept(i)' \/ Held(i)'
  BY <1>1 DEF NoneOwed
<1>2. Kept(i) => Kept(i)'
  BY <1>1 DEF KeptStays
<1> QED
  BY <1>1, <1>2 DEF NoneOwed

LEMMA IdleNotBusy == sweep' = Idle => ~ Busy'
BY DEF Busy, Idle

LEMMA OverSteps ==
  ASSUME SweepOK, Fail \/ Crash \/ Restart \/ StopTask
  PROVE  NoneBehind' /\ NoneOwed' /\ KeyRead'
<1>1. UNCHANGED <<source, feed, wm, stored>>
  BY DEF Fail, Crash, Restart, StopTask
<1>2. ~ Busy'
  <2>1. CASE StopTask
    BY <2>1, StopTaskState DEF Busy, SweepOK
  <2> QED
    BY <2>1, IdleNotBusy DEF Fail, Crash, Restart
<1>3. KeptStays /\ StoredStays
  BY <1>1, StaysStored, LostStays DEF Fail, Crash, Restart, StopTask
<1> QED
  BY <1>1, <1>2, <1>3, SweepOver

(* Steps that concern none of it. *)
LEMMA QuietSteps ==
  ASSUME SweepOK, Tick \/ Cancel \/ UNCHANGED vars
  PROVE  NoneBehind' /\ NoneOwed' /\ KeyRead'
<1>1. UNCHANGED <<source, feed, wm, stored, sweep, excused>>
  BY DEF Tick, Cancel, vars
<1>2. KeptStays /\ StoredStays
  BY <1>1, StaysStored, LostStays
<1>3. NoneOwed'
  <2>1. Due' = Due /\ (Busy' <=> Busy)
    BY <1>1, SameFeed DEF Busy
  <2>2. \A i : (Kept(i)' <=> Kept(i)) /\ (Held(i)' <=> Held(i))
    BY <1>1 DEF Kept, Held
  <2>3. \A i : Passed(i)' <=> Passed(i)
    BY <1>1 DEF Passed, GithubPassed, S3Passed, GuarddutyPassed, Upto, Before, Pos, Region
  <2> QED
    BY <2>1, <2>2, <2>3 DEF SweepOK, NoneOwed
<1> QED
  BY <1>1, <1>2, <1>3, SameFloor

(* The worker's steps.                                                     *)

LEMMA BeginNone ==
  ASSUME SweepOK, Begin
  PROVE  NoneBehind' /\ NoneOwed' /\ KeyRead'
<1>1. /\ TypeOK /\ Dated /\ source \in Pollers /\ UNCHANGED <<source, feed, wm, stored>>
      /\ NoneBehind /\ KeyRead /\ ~Busy
  BY TypeFacts DEF SweepOK, StateOK, Begin, Busy
<1>2. KeptStays /\ StoredStays
  BY <1>1, StaysStored, LostStays DEF Begin
<1>3. /\ sweep'.pc = "page" /\ sweep'.since = Since /\ sweep'.region = 1
      /\ sweep'.pos = IF source = "github_s3" THEN wm.key ELSE Start(Since)
  BY BeginState DEF SweepOK
<1>4. Since \in Nat /\ WindowFloor \in Nat /\ wm.at \in Nat
  BY <1>1, SinceType, TypeFacts, Numbers
<1>5. ASSUME NEW i \in Due, Passed(i)' PROVE Kept(i)'
  <2>1. i \in Items /\ i \in Present /\ feed[i] \in Nat
    BY <1>1, DueItems DEF Dated
  <2>2. Before(Pos(i), Floor) => Kept(i)'
    <3>1. Before(Pos(i), Floor) => Kept(i)
      BY <1>1, <1>5 DEF NoneBehind
    <3>2. Busy'
      BY <1>3 DEF Busy
    <3> QED
      BY <1>2, <2>1, <3>1, <3>2 DEF KeptStays
  <2>3. i \in OutsideWindow => Kept(i)'
    BY DEF Begin, Kept
  <2>4. Upto(i, Start(Since)) => feed[i] < Since
    BY <1>1, <1>4, <2>1, UptoStart
  <2>5. CASE source = "github"
    <3>1. Upto(i, sweep'.pos)
      BY <1>1, <1>5, <2>5, SameFeed DEF Passed, GithubPassed
    <3>2. feed[i] < Since
      BY <1>3, <2>4, <2>5, <3>1
    <3>3. CASE Since = Day(wm.at)
      <4>1. Before(Pos(i), Floor)
        BY <1>1, <1>4, <2>1, <2>5, <3>2, <3>3, BeforeStart DEF Floor
      <4> QED
        BY <2>2, <4>1
    <3>4. CASE Since = Day(WindowFloor)
      BY <2>1, <2>2, <2>3, <2>5, <3>2, <3>4 DEF OutsideWindow
    <3> QED
      BY <2>5, <3>3, <3>4 DEF Since, Latest
  <2>6. CASE source = "github_s3"
    <3>1. Upto(i, wm.key)
      BY <1>1, <1>3, <1>5, <2>6, SameFeed DEF Passed, S3Passed
    <3>2. CASE wm.key = Start(0)
      <4>1. feed[i] < 0
        BY <1>1, <2>1, <3>1, <3>2, UptoStart
      <4> QED
        BY <2>1, <4>1
    <3>3. ASSUME NEW b \in Present, wm.key = Pos(b), stored[b] = feed[b] PROVE Kept(i)'
      <4>1. i = b \/ Before(Pos(i), Pos(b))
        BY <1>1, <2>1, <3>1, <3>3, DueItems, UptoItem
      <4>2. i = b => Kept(i)'
        BY <1>1, <3>3 DEF Kept
      <4> QED
        BY <2>2, <2>6, <3>3, <4>1, <4>2 DEF Floor
    <3> QED
      BY <1>1, <2>6, <3>2, <3>3 DEF KeyRead
  <2>7. CASE source = "guardduty"
    <3>1. feed[i] < Since
      <4>1. /\ ~(Region(i) < 1)
        BY <2>1, ItemNumber, Numbers DEF Region
      <4>2. GuarddutyPassed(i)'
        BY <1>1, <1>5, <2>7 DEF Passed
      <4>3. feed[i] < Since \/ Upto(i, Start(Since))
        BY <1>1, <1>3, <2>7, <4>1, <4>2, SameFeed DEF GuarddutyPassed
      <4> QED
        BY <2>4, <4>3
    <3>2. CASE wm.at = 0
      BY <2>1, <2>3, <2>7, <3>1, <3>2 DEF OutsideWindow, Since
    <3>3. CASE wm.at # 0
      <4>1. Floor = Start(wm.at) /\ feed[i] < wm.at
        BY <2>7, <3>1, <3>3 DEF Floor, Since
      <4> QED
        BY <1>1, <1>4, <2>1, <2>2, <4>1, BeforeStart
    <3> QED
      BY <3>2, <3>3
  <2> QED
    BY <1>1, <2>5, <2>6, <2>7 DEF Pollers
<1>6. NoneOwed'
  BY <1>1, <1>5, SameFeed DEF NoneOwed
<1> QED
  BY <1>1, <1>2, <1>6, SameFloor

LEMMA WaitNone ==
  ASSUME SweepOK, WaitOver \/ RateLimited
  PROVE  NoneBehind' /\ NoneOwed' /\ KeyRead'
<1>1. /\ UNCHANGED <<source, feed, wm, stored, excused>> /\ TypeOK
      /\ sweep.pc \in {"wait", "page", "retry"}
      /\ source = "guardduty" => sweep.pc = "wait"
  BY DEF WaitOver, RateLimited, MayFetch, SweepOK, StateOK
<1>2. KeptStays /\ StoredStays
  BY <1>1, StaysStored, LostStays
<1>3. /\ sweep'.pc \in {"wait", "retry"} /\ sweep'.since = sweep.since
      /\ sweep'.pos = sweep.pos /\ sweep'.batch = sweep.batch
      /\ source = "guardduty" => sweep'.region = sweep.region
  BY WaitOverState, RateLimitedState DEF SweepOK, RateLimited
<1>4. Busy /\ Busy'
  BY <1>1, <1>3 DEF Busy
<1>5. \A i \in Due : Held(i) => Held(i)'
  BY <1>1, <1>3 DEF Held
<1>6. ASSUME NEW i \in Due, Passed(i)' PROVE Passed(i)
  <2>1. \A p : Upto(i, p)' <=> Upto(i, p)
    BY <1>1, SameFeed
  <2>2. Upto(i, sweep.pos)' <=> Upto(i, sweep.pos)
    BY <1>1, <1>3 DEF Upto, Pos, Before
  <2>3. CASE source = "github"
    BY <1>1, <1>6, <2>2, <2>3 DEF Passed, GithubPassed
  <2>4. CASE source = "github_s3"
    BY <1>1, <1>3, <1>6, <2>2, <2>4 DEF Passed, S3Passed
  <2>5. CASE source = "guardduty"
    BY <1>1, <1>3, <1>6, <2>2, <2>5 DEF Passed, GuarddutyPassed, Region
  <2> QED
    BY <1>1, <2>3, <2>4, <2>5, TypeFacts DEF Pollers
<1>7. NoneOwed'
  BY <1>1, <1>2, <1>4, <1>5, <1>6, StillOwed
<1> QED
  BY <1>1, <1>2, <1>7, SameFloor

LEMMA GithubPageNone ==
  ASSUME SweepOK, GithubPage
  PROVE  NoneBehind' /\ NoneOwed' /\ KeyRead'
<1>1. /\ UNCHANGED <<source, feed, wm, stored, excused>> /\ TypeOK /\ source = "github"
      /\ sweep.pc \in {"page", "retry"} /\ sweep.since <= sweep.pos[1]
  BY DEF GithubPage, MayFetch, SweepOK, StateOK, Locals
<1>2. KeptStays /\ StoredStays
  BY <1>1, StaysStored, LostStays
<1>3. /\ sweep'.pc \in {"flush", "page"} /\ sweep'.pos = EndOf(NextPage)
      /\ sweep'.batch = sweep.batch \cup (NextPage \ Blank)
  BY GithubPageState DEF SweepOK, MapEntries
<1>4. Busy /\ Busy'
  BY <1>1, <1>3 DEF Busy
<1>5. \A i \in Due : Held(i) => Held(i)'
  BY <1>1, <1>3 DEF Held
<1>6. ASSUME NEW i \in Due, Passed(i)' PROVE Passed(i) \/ Held(i)'
  <2>1. i \in Present /\ i \notin Blank
    BY <1>1 DEF Due
  <2>2. Upto(i, EndOf(NextPage))
    BY <1>1, <1>3, <1>6 DEF Passed, GithubPassed, Upto, Pos, Before
  <2>3. CASE Upto(i, sweep.pos)
    BY <1>1, <2>3 DEF Passed, GithubPassed
  <2>4. CASE ~Upto(i, sweep.pos)
    <3>1. i \in NextPage
      BY <1>1, <2>1, <2>2, <2>4, PageIs
    <3> QED
      BY <1>1, <1>3, <2>1, <3>1 DEF Held
  <2> QED
    BY <2>3, <2>4
<1>7. NoneOwed'
  BY <1>1, <1>2, <1>4, <1>5, <1>6, StillOwed
<1> QED
  BY <1>1, <1>2, <1>7, SameFloor

LEMMA GithubCancelledNone ==
  ASSUME SweepOK, GithubCancelled
  PROVE  NoneBehind' /\ NoneOwed' /\ KeyRead'
<1>1. /\ UNCHANGED <<source, feed, wm, stored, excused>> /\ source = "github"
      /\ sweep.pc = "page"
  BY DEF GithubCancelled
<1>2. KeptStays /\ StoredStays
  BY <1>1, StaysStored, LostStays
<1>3. sweep'.pc = "flush" /\ sweep'.pos = sweep.pos /\ sweep'.batch = sweep.batch
  BY GithubCancelledState DEF SweepOK
<1>4. Busy /\ Busy'
  BY <1>1, <1>3 DEF Busy
<1>5. \A i \in Due : Held(i) => Held(i)'
  BY <1>1, <1>3 DEF Held
<1>6. \A i \in Due : Passed(i)' => Passed(i)
  BY <1>1, <1>3 DEF Passed, GithubPassed, Upto, Pos, Before
<1>7. NoneOwed'
  BY <1>1, <1>2, <1>4, <1>5, <1>6, StillOwed
<1> QED
  BY <1>1, <1>2, <1>7, SameFloor

(* What a step stores was in hand, and is kept. *)
LEMMA BatchKept ==
  ASSUME SweepOK, UNCHANGED <<source, feed>>,
         stored' = [i \in Items |-> IF i \in sweep.batch THEN feed[i] ELSE stored[i]]
  PROVE  StoredStays /\ \A i \in sweep.batch : Kept(i)'
<1>1. TypeOK
  BY DEF SweepOK, StateOK
<1>2. /\ \A i \in Items : stored[i] = feed[i] => stored'[i] = feed[i]
      /\ \A i \in sweep.batch : stored'[i] = feed[i]
  BY <1>1, BatchStored
<1> QED
  BY <1>2 DEF StoredStays, Kept

(* What a sweep has passed is stored once the batch is, whether the sweep  *)
(* goes on or the watermark moves over it.                                 *)
LEMMA PassedKept ==
  ASSUME SweepOK, UNCHANGED <<source, feed>>, Busy, KeptStays,
         \A i \in sweep.batch : Kept(i)',
         NEW i \in Due, Passed(i), Busy' \/ Before(Pos(i), Floor)'
  PROVE  Kept(i)'
<1>1. i \in Items
  BY DueItems
<1>2. Kept(i) \/ i \in sweep.batch
  BY DEF SweepOK, NoneOwed, Held
<1> QED
  BY <1>1, <1>2 DEF KeptStays

LEMMA GithubFlushNone ==
  ASSUME SweepOK, GithubFlush
  PROVE  NoneBehind' /\ NoneOwed' /\ KeyRead'
<1>1. /\ UNCHANGED <<source, feed>> /\ TypeOK /\ Dated /\ source = "github"
      /\ sweep.pc = "flush" /\ Busy /\ excused' = StillLost
      /\ sweep.max <= sweep.pos[1] /\ NoneBehind
  BY TypeFacts DEF GithubFlush, SweepOK, StateOK, Locals, Busy
<1>2. StoredStays /\ \A i \in sweep.batch : Kept(i)'
  BY <1>1, BatchKept DEF GithubFlush
<1>3. KeptStays
  BY <1>1, <1>2, LostStays
<1>4. /\ wm'.at = wm.at \/ wm'.at = sweep.max
      /\ sweep' = Idle \/ (sweep'.pc = "page" /\ sweep'.pos = sweep.pos)
  BY GithubFlushState DEF SweepOK
<1>5. wm'.at \in Nat /\ sweep.max \in Nat /\ sweep.pos \in Places /\ sweep.pos[1] \in Nat
  BY <1>1, <1>4, TypeFacts, SweepFacts, Numbers
<1>6. NoneBehind'
  <2> SUFFICES ASSUME NEW i \in Due, Before(Pos(i), Floor)' PROVE Kept(i)'
    BY <1>1, SameFeed DEF NoneBehind
  <2>1. i \in Items /\ feed[i] \in Nat
    BY <1>1, DueItems DEF Dated
  <2>2. Day(wm'.at) \in 0 .. wm'.at /\ Day(wm'.at) \in Nat
    BY <1>5, DayBound
  <2>3. Before(Pos(i), Start(Day(wm'.at)))
    BY <1>1 DEF Floor, Before, Pos, Start, Day
  <2>4. feed[i] < Day(wm'.at)
    BY <1>1, <2>1, <2>2, <2>3, BeforeStart
  <2>5. CASE wm'.at = wm.at
    <3>1. Before(Pos(i), Floor)
      BY <1>1, <2>3, <2>5 DEF Floor
    <3> QED
      BY <1>1, <1>3, <2>1, <3>1 DEF NoneBehind, KeptStays
  <2>6. CASE wm'.at = sweep.max
    <3>1. feed[i] < sweep.pos[1]
      BY <1>1, <1>5, <2>1, <2>2, <2>4, <2>6
    <3>2. Passed(i)
      BY <1>1, <1>5, <2>1, <3>1, UptoTime DEF Passed, GithubPassed
    <3> QED
      BY <1>1, <1>2, <1>3, <3>2, PassedKept
  <2> QED
    BY <1>4, <2>5, <2>6
<1>7. NoneOwed'
  <2> SUFFICES ASSUME Busy', NEW i \in Due, Passed(i)' PROVE Kept(i)'
    BY <1>1, SameFeed DEF NoneOwed
  <2>1. sweep'.pos = sweep.pos
    BY <1>4, IdleNotBusy
  <2>2. Passed(i)
    BY <1>1, <2>1 DEF Passed, GithubPassed, Upto, Pos, Before
  <2> QED
    BY <1>1, <1>2, <1>3, <2>2, PassedKept
<1>8. KeyRead'
  BY <1>1 DEF KeyRead
<1> QED
  BY <1>6, <1>7, <1>8

LEMMA S3PageNone ==
  ASSUME SweepOK, S3Page
  PROVE  NoneBehind' /\ NoneOwed' /\ KeyRead'
<1>1. /\ UNCHANGED <<source, feed, wm, stored>> /\ TypeOK /\ Dated /\ source = "github_s3"
      /\ sweep.pc \in {"page", "retry"} /\ sweep.since <= sweep.pos[1] /\ Busy
      /\ sweep.batch \in SUBSET Items
  BY TypeFacts, SweepFacts DEF S3Page, MayFetch, SweepOK, StateOK, Locals, Busy
<1>2. KeptStays /\ StoredStays
  BY <1>1, StaysStored, LostStays DEF S3Page
<1>3. StateOK'
  BY S3PageState DEF SweepOK
<1> DEFINE all == sweep.batch \cup NextPage
           left == DropMarkers(all)
           keys == FirstOf(left, MAXOBJ)
<1>4. ASSUME NEW i \in Due, Upto(i, EndOf(NextPage)) PROVE Passed(i) \/ i \in left
  <2>1. i \in Present /\ i \notin Blank
    BY <1>1 DEF Due
  <2>2. CASE Upto(i, sweep.pos)
    BY <1>1, <2>2 DEF Passed, S3Passed
  <2>3. CASE ~Upto(i, sweep.pos)
    <3>1. i \in NextPage
      BY <1>1, <1>4, <2>1, <2>3, PageIs
    <3> QED
      BY <2>1, <3>1 DEF DropMarkers
  <2> QED
    BY <2>2, <2>3
<1>5. left \in SUBSET Items /\ MAXOBJ \in Nat
  BY <1>1, PageIs, Numbers DEF DropMarkers
<1>6. CASE sweep' = Idle
  BY <1>1, <1>2, <1>6, IdleNotBusy, SweepOver
<1>7. CASE /\ sweep'.pc = sweep.pc /\ sweep'.pos = EndOf(NextPage)
           /\ sweep'.batch = all
  <2>1. Busy' /\ \A i \in Due : Held(i) => Held(i)'
    BY <1>1, <1>7 DEF Busy, Held
  <2>2. ASSUME NEW i \in Due, Passed(i)' PROVE Passed(i) \/ Held(i)'
    <3>1. Upto(i, EndOf(NextPage))
      BY <1>1, <1>7, <2>2 DEF Passed, S3Passed, Upto, Pos, Before
    <3>2. i \in left => Held(i)'
      BY <1>1, <1>7 DEF DropMarkers, Held
    <3> QED
      BY <1>4, <3>1, <3>2
  <2>3. NoneOwed'
    BY <1>1, <1>2, <2>1, <2>2, StillOwed
  <2> QED
    BY <1>1, <1>2, <2>3, SameFloor
<1>8. CASE /\ sweep'.pc = "get" /\ sweep'.pos = EndOf(NextPage)
           /\ sweep'.batch = keys
  <2>1. Busy'
    BY <1>8 DEF Busy
  <2>2. ASSUME NEW i \in Due, Passed(i)' PROVE Upto(i, EndOf(NextPage)) /\ (i \in left => Held(i)')
    <3>1. PICK b \in keys : Upto(i, Pos(b))
      BY <1>1, <1>8, <2>2 DEF Passed, S3Passed, Upto, Pos, Before
    <3>2. keys \in SUBSET left /\ \A j \in left : Upto(j, Pos(b)) => j \in keys
      <4> HIDE DEF left
      <4> QED
        BY <1>1, <1>5, <3>1, FirstOfFront
    <3>3. Upto(b, EndOf(NextPage))
      <4>1. Upto(b, sweep.pos)'
        BY <1>1, <1>3, <1>8, <3>1 DEF StateOK, Locals
      <4> QED
        BY <1>1, <1>8, <4>1 DEF Upto, Pos, Before
    <3>4. Upto(i, EndOf(NextPage))
      <4>1. b \in Items /\ i \in Items /\ EndOf(NextPage) \in Places
        BY <1>1, <1>5, <3>1, <3>2, DueItems, PageIs, ListedPlaces
      <4> HIDE DEF keys, left
      <4> QED
        BY <1>1, <3>1, <3>3, <4>1, UptoTrans
    <3>5. i \in left => i \in keys
      BY <3>1, <3>2
    <3> QED
      BY <1>1, <1>8, <3>4, <3>5 DEF Held
  <2>3. \A i \in Due : Passed(i)' => Passed(i) \/ Held(i)'
    BY <1>4, <2>2
  <2>4. \A i \in Due : Held(i) => Held(i)' \/ ~ Passed(i)'
    <3>1. \A i \in Due : Held(i) => i \in left
      BY <1>1 DEF Held, Due, DropMarkers
    <3> QED
      BY <2>2, <3>1
  <2>5. NoneOwed'
    <3> HIDE DEF keys, left, all
    <3> QED
      BY <1>1, <1>2, <2>1, <2>3, <2>4, StillOwed
  <2> QED
    BY <1>1, <1>2, <2>5, SameFloor
<1> QED
  BY <1>6, <1>7, <1>8, S3PageState DEF SweepOK

LEMMA S3FetchNone ==
  ASSUME SweepOK, S3Fetch
  PROVE  NoneBehind' /\ NoneOwed' /\ KeyRead'
<1>1. /\ UNCHANGED <<source, feed, wm, stored>> /\ TypeOK /\ Dated /\ source = "github_s3"
      /\ sweep.pc = "get" /\ sweep.batch \in SUBSET Items /\ Busy
  BY TypeFacts, SweepFacts DEF S3Fetch, SweepOK, StateOK, Busy
<1>2. KeptStays /\ StoredStays
  BY <1>1, StaysStored, LostStays DEF S3Fetch
<1>3. CASE sweep' = Idle
  BY <1>1, <1>2, <1>3, IdleNotBusy, SweepOver
<1>4. ASSUME NEW k \in Nat, sweep'.pc = "flush", sweep'.batch = FirstOf(sweep.batch, k)
      PROVE  NoneBehind' /\ NoneOwed' /\ KeyRead'
  <2>1. Busy'
    BY <1>4 DEF Busy
  <2>2. ASSUME NEW i \in Due, Passed(i)' PROVE Passed(i) /\ (Held(i) => Held(i)')
    <3>1. PICK b \in sweep'.batch : Upto(i, Pos(b))
      BY <1>1, <1>4, <2>2 DEF Passed, S3Passed, Upto, Pos, Before
    <3>2. /\ sweep'.batch \in SUBSET sweep.batch
          /\ \A j \in sweep.batch : Upto(j, Pos(b)) => j \in sweep'.batch
      BY <1>1, <1>4, <3>1, FirstOfFront
    <3> QED
      BY <1>1, <3>1, <3>2 DEF Passed, S3Passed, Held
  <2>3. NoneOwed'
    BY <1>1, <1>2, <2>1, <2>2, StillOwed
  <2> QED
    BY <1>1, <1>2, <2>3, SameFloor
<1> QED
  BY <1>3, <1>4, S3FetchState DEF SweepOK

LEMMA S3CommitNone ==
  ASSUME SweepOK, S3Commit
  PROVE  NoneBehind' /\ NoneOwed' /\ KeyRead'
<1>1. /\ UNCHANGED <<source, feed>> /\ TypeOK /\ Dated /\ source = "github_s3"
      /\ sweep.pc = "flush" /\ sweep' = Idle /\ excused' = StillLost /\ Busy
      /\ sweep.batch \in SUBSET Items /\ sweep.batch \subseteq Present
      /\ NoneBehind /\ KeyRead
  BY TypeFacts, SweepFacts DEF S3Commit, SweepOK, StateOK, Locals, Busy
<1>2. StoredStays /\ \A i \in sweep.batch : Kept(i)'
  BY <1>1, BatchKept DEF S3Commit
<1>3. KeptStays
  BY <1>1, <1>2, LostStays
<1>4. wm'.key = wm.key \/ \E b \in sweep.batch : wm'.key = Pos(b)
  BY S3CommitState DEF SweepOK
<1>5. NoneBehind'
  <2> SUFFICES ASSUME NEW i \in Due, Before(Pos(i), Floor)' PROVE Kept(i)'
    BY <1>1, SameFeed DEF NoneBehind
  <2>1. i \in Items /\ Before(Pos(i), wm'.key)
    BY <1>1, DueItems DEF Floor, Before, Pos
  <2>2. CASE wm'.key = wm.key
    <3>1. Before(Pos(i), Floor)
      BY <1>1, <2>1, <2>2 DEF Floor
    <3> QED
      BY <1>1, <1>3, <2>1, <3>1 DEF NoneBehind, KeptStays
  <2>3. ASSUME NEW b \in sweep.batch, wm'.key = Pos(b) PROVE Kept(i)'
    <3>1. Upto(i, Pos(b))
      BY <1>1, <2>1, <2>3, PosPlace, BeforeTrans DEF Upto
    <3>2. Passed(i)
      BY <1>1, <3>1 DEF Passed, S3Passed
    <3> QED
      BY <1>1, <1>2, <1>3, <3>2, PassedKept
  <2> QED
    BY <1>4, <2>2, <2>3
<1>6. KeyRead'
  <2>1. Present' = Present /\ \A i : Pos(i)' = Pos(i)
    BY <1>1, SameFeed
  <2>2. \A i \in sweep.batch : stored'[i] = feed[i]
    BY <1>1, BatchStored DEF S3Commit
  <2>3. \A i \in Present : stored[i] = feed[i] => stored'[i] = feed'[i]
    BY <1>2, DueItems DEF StoredStays
  <2>4. CASE wm'.key = wm.key
    BY <1>1, <2>1, <2>3, <2>4 DEF KeyRead, Start
  <2>5. ASSUME NEW b \in sweep.batch, wm'.key = Pos(b) PROVE KeyRead'
    BY <1>1, <2>1, <2>2, <2>5 DEF KeyRead
  <2> QED
    BY <1>4, <2>4, <2>5
<1> QED
  BY <1>1, <1>5, <1>6, IdleNotBusy DEF NoneOwed

LEMMA RegionDoneNone ==
  ASSUME SweepOK, UNCHANGED <<source, feed>>, source = "guardduty",
         NEW max \in 0 .. MaxTime, sweep' = RegionDone(max),
         sweep.since <= sweep.pos[1],
         \A i \in Present : feed[i] < sweep.since \/ Region(i) <= sweep.region => Kept(i)'
  PROVE  NoneOwed'
<1>1. /\ TypeOK /\ Dated /\ sweep.since \in Nat /\ sweep.region \in 1 .. Regions
      /\ Regions \in Nat \ {0}
  BY TypeFacts, SweepFacts, Numbers DEF SweepOK, StateOK
<1>2. /\ sweep'.since = sweep.since
      /\ \/ sweep.region = Regions /\ sweep'.pc = "advance"
         \/ /\ sweep'.pc = "page" /\ sweep'.region = sweep.region + 1
            /\ sweep'.pos = Start(sweep.since)
  BY <1>1, RegionDoneIs
<1> SUFFICES ASSUME NEW i \in Present, Passed(i)' PROVE Kept(i)'
  BY SameFeed DEF NoneOwed, Due
<1>3. i \in Items /\ Region(i) \in 1 .. Regions
  BY <1>1, DueItems, ItemNumber DEF Region
<1>4. CASE sweep.region = Regions
  BY <1>1, <1>3, <1>4
<1>5. CASE /\ sweep'.pc = "page" /\ sweep'.region = sweep.region + 1
           /\ sweep'.pos = Start(sweep.since)
  <2>1. GuarddutyPassed(i)'
    BY DEF Passed
  <2>2. \/ feed[i] < sweep.since \/ Region(i) < sweep.region + 1
        \/ Upto(i, Start(sweep.since))
    BY <1>2, <1>5, <2>1, SameFeed DEF GuarddutyPassed
  <2>3. Upto(i, Start(sweep.since)) => feed[i] < sweep.since
    BY <1>1, <1>3, UptoStart
  <2> QED
    BY <1>1, <1>3, <2>2, <2>3
<1> QED
  BY <1>2, <1>4, <1>5

LEMMA GuarddutyListNone ==
  ASSUME SweepOK, GuarddutyList
  PROVE  NoneBehind' /\ NoneOwed' /\ KeyRead'
<1>1. /\ UNCHANGED <<source, feed, wm, stored, excused>> /\ TypeOK /\ Dated
      /\ source = "guardduty" /\ sweep.pc \in {"page", "retry"} /\ Busy
      /\ sweep.since <= sweep.pos[1] /\ NoneOwed
  BY TypeFacts DEF GuarddutyList, MayFetch, SweepOK, StateOK, Locals, Busy
<1>2. KeptStays /\ StoredStays
  BY <1>1, StaysStored, LostStays
<1>3. \A i \in Due : Passed(i) => Kept(i)
  BY <1>1 DEF NoneOwed, Held
<1>4. Due = Present /\ Present \subseteq Items
  BY <1>1, DueItems DEF Due
<1>5. \A i : Kept(i) => Kept(i)'
  BY <1>1 DEF Kept
<1>6. CASE NextPage = {} /\ sweep' = RegionDone(sweep.max)
  <2>1. ASSUME NEW i \in Present, feed[i] < sweep.since \/ Region(i) <= sweep.region
        PROVE  Kept(i)'
    <3>1. ~Upto(i, sweep.pos) /\ Region(i) = sweep.region => i \in Rest
      BY <1>1, PageIs
    <3>2. Rest = {}
      BY <1>1, <1>6, PageIs
    <3>3. Region(i) \in Nat /\ sweep.region \in Nat
      BY <1>1, <1>4, SweepFacts, ItemNumber, Numbers DEF Region
    <3>4. Passed(i)
      BY <1>1, <2>1, <3>1, <3>2, <3>3 DEF Passed, GuarddutyPassed
    <3> QED
      BY <1>3, <1>4, <1>5, <3>4
  <2>2. NoneOwed'
    BY <1>1, <1>6, <2>1, SweepFacts, RegionDoneNone
  <2> QED
    BY <1>1, <1>2, <2>2, SameFloor
<1>7. CASE /\ sweep'.pc = "get" /\ sweep'.pos = EndOf(NextPage)
           /\ sweep'.since = sweep.since /\ sweep'.region = sweep.region
           /\ sweep'.batch = NextPage /\ sweep'.last = (NextPage = Rest)
  <2>1. Busy'
    BY <1>7 DEF Busy
  <2>2. ASSUME NEW i \in Due, Passed(i)' PROVE Kept(i)' \/ Held(i)'
    <3>1. GuarddutyPassed(i)'
      BY <1>1, <2>2 DEF Passed
    <3>2. \/ feed[i] < sweep.since \/ Region(i) < sweep.region
          \/ /\ Region(i) = sweep.region
             /\ Upto(i, EndOf(NextPage)) \/ NextPage = Rest
      BY <1>1, <1>7, <3>1 DEF GuarddutyPassed, Upto, Pos, Before, Region
    <3>3. CASE Passed(i)
      BY <1>3, <1>5, <3>3
    <3>4. CASE ~Passed(i)
      <4>1. /\ Region(i) = sweep.region /\ ~Upto(i, sweep.pos)
            /\ Upto(i, EndOf(NextPage)) \/ NextPage = Rest
        BY <1>1, <3>2, <3>4 DEF Passed, GuarddutyPassed
      <4>2. i \in NextPage
        BY <1>1, <1>4, <4>1, PageIs
      <4> QED
        BY <1>7, <4>2 DEF Held
    <3> QED
      BY <3>3, <3>4
  <2>3. NoneOwed'
    BY <1>1, <2>2, SameFeed DEF NoneOwed
  <2> QED
    BY <1>1, <1>2, <2>3, SameFloor
<1> QED
  BY <1>6, <1>7, GuarddutyListState DEF SweepOK

LEMMA GuarddutyStoreNone ==
  ASSUME SweepOK, GuarddutyStore
  PROVE  NoneBehind' /\ NoneOwed' /\ KeyRead'
<1>1. /\ UNCHANGED <<source, feed, wm>> /\ TypeOK /\ Dated
      /\ source = "guardduty" /\ sweep.pc = "get" /\ Busy
      /\ sweep.since <= sweep.pos[1] /\ excused' = excused \ sweep.batch
  BY TypeFacts DEF GuarddutyStore, SweepOK, StateOK, Locals, Busy
<1>2. StoredStays /\ \A i \in sweep.batch : Kept(i)'
  BY <1>1, BatchKept DEF GuarddutyStore
<1>3. \A i \in Items : Kept(i) => Kept(i)'
  <2> SUFFICES ASSUME NEW i \in Items, Kept(i) PROVE Kept(i)'
    OBVIOUS
  <2>1. CASE i \in sweep.batch
    BY <1>2, <2>1
  <2>2. CASE i \notin sweep.batch
    BY <1>1, <1>2, <2>2 DEF Kept, StoredStays
  <2> QED
    BY <2>1, <2>2
<1>4. KeptStays
  BY <1>3 DEF KeptStays
<1>5. Due = Present /\ Present \subseteq Items
  BY <1>1, DueItems DEF Due
<1>6. ASSUME NEW i \in Due, Passed(i) PROVE Kept(i)'
  <2>1. Kept(i) \/ i \in sweep.batch
    BY <1>1, <1>6 DEF SweepOK, NoneOwed, Held
  <2> QED
    BY <1>2, <1>3, <1>5, <2>1
<1>7. NoneOwed'
  <2>1. ASSUME sweep.last, NEW max \in 0 .. MaxTime, sweep' = RegionDone(max)
        PROVE  NoneOwed'
    <3>1. ASSUME NEW i \in Present, feed[i] < sweep.since \/ Region(i) <= sweep.region
          PROVE  Kept(i)'
      <4>1. Region(i) \in Nat /\ sweep.region \in Nat
        BY <1>1, <1>5, SweepFacts, ItemNumber, Numbers DEF Region
      <4>2. Passed(i)
        BY <1>1, <2>1, <3>1, <4>1 DEF Passed, GuarddutyPassed
      <4> QED
        BY <1>5, <1>6, <4>2
    <3> QED
      BY <1>1, <2>1, <3>1, RegionDoneNone
  <2>2. CASE /\ ~sweep.last /\ sweep'.pc = "page" /\ sweep'.pos = sweep.pos
             /\ sweep'.since = sweep.since /\ sweep'.region = sweep.region
    <3> SUFFICES ASSUME NEW i \in Due, Passed(i)' PROVE Kept(i)'
      BY <1>1, SameFeed DEF NoneOwed
    <3>1. Passed(i)
      BY <1>1, <2>2 DEF Passed, GuarddutyPassed, Upto, Pos, Before, Region
    <3> QED
      BY <1>6, <3>1
  <2> QED
    BY <2>1, <2>2, GuarddutyStoreState DEF SweepOK
<1> QED
  BY <1>1, <1>2, <1>4, <1>7, SameFloor

LEMMA GuarddutyCancelledNone ==
  ASSUME SweepOK, GuarddutyCancelled
  PROVE  NoneBehind' /\ NoneOwed' /\ KeyRead'
<1>1. /\ UNCHANGED <<source, feed, wm, stored>> /\ TypeOK
      /\ source = "guardduty" /\ sweep.pc = "page" /\ Busy
      /\ excused' = excused \cup {i \in Present : /\ Region(i) >= sweep.region
                                                  /\ stored[i] # feed[i]}
  BY DEF GuarddutyCancelled, SweepOK, StateOK, Busy
<1>2. KeptStays /\ StoredStays
  BY <1>1, StaysStored, LostStays
<1>3. ASSUME NEW i \in Due PROVE Kept(i)'
  <2>1. i \in Present /\ i \in Items /\ Region(i) \in Nat /\ sweep.region \in Nat
    BY <1>1, SweepFacts, ItemNumber, Numbers DEF Region, Due, Present
  <2>2. CASE Region(i) >= sweep.region
    BY <1>1, <2>1, <2>2 DEF Kept
  <2>3. CASE Region(i) < sweep.region
    <3>1. Passed(i)
      BY <1>1, <2>3 DEF Passed, GuarddutyPassed
    <3>2. Kept(i)
      BY <1>1, <3>1 DEF SweepOK, NoneOwed, Held
    <3> QED
      BY <1>1, <3>2 DEF Kept
  <2> QED
    BY <2>1, <2>2, <2>3
<1>4. NoneOwed'
  BY <1>1, <1>3, SameFeed DEF NoneOwed
<1> QED
  BY <1>1, <1>2, <1>4, SameFloor

LEMMA GuarddutyAdvanceNone ==
  ASSUME SweepOK, GuarddutyAdvance
  PROVE  NoneBehind' /\ NoneOwed' /\ KeyRead'
<1>1. /\ UNCHANGED <<source, feed, stored>> /\ sweep.pc = "advance" /\ Busy
      /\ source = "guardduty" /\ sweep' = Idle /\ excused' = StillLost
  BY DEF GuarddutyAdvance, Busy
<1>2. KeptStays
  BY <1>1, StaysStored, LostStays
<1>3. \A i \in Due : Kept(i)
  BY <1>1 DEF SweepOK, NoneOwed, Held, Passed, GuarddutyPassed
<1>4. NoneBehind'
  <2>1. Due' = Due /\ Due \subseteq Items
    BY <1>1, SameFeed, DueItems
  <2> QED
    BY <1>2, <1>3, <2>1 DEF NoneBehind, KeptStays
<1> QED
  BY <1>1, <1>4, IdleNotBusy DEF NoneOwed, KeyRead

(* What the sources do.  An item that appears where a sweep or a watermark *)
(* has been is among the lost ones; the others stand where they stood.     *)

LEMMA PublishNone ==
  ASSUME SweepOK, NEW j \in Items, Publish(j)
  PROVE  NoneBehind' /\ NoneOwed' /\ KeyRead'
<1>1. /\ UNCHANGED <<source, stored, wm, sweep>> /\ TypeOK /\ Locals(sweep) /\ Dated
      /\ source \in {"github", "github_s3"} /\ source # "guardduty" /\ feed[j] = 0
      /\ sweep.pos \in Places /\ NoneBehind /\ NoneOwed /\ KeyRead
  BY TypeFacts, SweepFacts DEF Publish, SweepOK, StateOK
<1>2. PICK t \in Latest(1, now - LATE) .. now :
        /\ feed' = [feed EXCEPT ![j] = t]
        /\ excused' = IF AppearsBehind(<<t, j>>) THEN excused \cup {j} ELSE excused
  BY DEF Publish
<1>3. /\ Pos(j)' = <<t, j>> /\ j \notin Present
      /\ \A i \in Items \ {j} : feed'[i] = feed[i] /\ Pos(i)' = Pos(i)
      /\ \A i \in Due' : i # j => i \in Due
  BY <1>1, <1>2 DEF Pos, Present, Due, Dated
<1>4. AppearsBehind(<<t, j>>) => Kept(j)'
  BY <1>2 DEF Kept
<1>5. \A i \in Items \ {j} : Kept(i) => Kept(i)'
  BY <1>1, <1>2, <1>3 DEF Kept
<1>6. Due' \subseteq Items /\ Floor' = Floor /\ (Busy' <=> Busy)
  BY <1>1 DEF Due, Present, Floor, Day, Start, Busy
<1>7. NoneBehind'
  <2> SUFFICES ASSUME NEW i \in Due', Before(Pos(i), Floor)' PROVE Kept(i)'
    BY DEF NoneBehind
  <2>1. Before(Pos(i)', Floor)
    BY <1>6 DEF Before
  <2>2. CASE i = j
    BY <1>3, <1>4, <2>1, <2>2 DEF AppearsBehind
  <2>3. CASE i # j
    BY <1>1, <1>3, <1>5, <1>6, <2>1, <2>3 DEF NoneBehind
  <2> QED
    BY <2>2, <2>3
<1>8. NoneOwed'
  <2> SUFFICES ASSUME Busy, NEW i \in Due', Passed(i)' PROVE Kept(i)' \/ Held(i)'
    BY <1>6 DEF NoneOwed
  <2>1. \A b \in Items : Upto(b, sweep.pos)' <=> ~Before(sweep.pos, Pos(b)')
    BY <1>1 DEF Upto, Before
  <2>2. \/ Upto(i, sweep.pos)'
        \/ /\ source = "github_s3" /\ sweep.pc \in {"get", "flush"}
           /\ \E b \in sweep.batch : ~Before(Pos(b)', Pos(i)')
    BY <1>1 DEF Passed, GithubPassed, S3Passed, Upto, Before
  <2>3. source = "github_s3" => \A b \in sweep.batch :
          b \in Items /\ b # j /\ Upto(b, sweep.pos) /\ Pos(b)' = Pos(b) /\ Pos(b) \in Places
    BY <1>1, <1>3, DueItems, PosPlace DEF Locals
  <2>4. CASE i = j
    <3>1. Pos(j)' \in Places
      <4>1. t \in Nat
        BY <1>1, <1>2, Numbers, TypeFacts DEF Latest
      <4> QED
        BY <1>3, <4>1, ItemNumber DEF Places
    <3>2. ~Before(sweep.pos, Pos(j)')
      <4>1. CASE Upto(j, sweep.pos)'
        BY <2>1, <4>1
      <4>2. ASSUME source = "github_s3", NEW b \in sweep.batch, ~Before(Pos(b)', Pos(j)')
            PROVE  ~Before(sweep.pos, Pos(j)')
        BY <1>1, <2>3, <3>1, <4>2, BeforeTrans DEF Upto
      <4> QED
        BY <2>2, <2>4, <4>1, <4>2
    <3> QED
      BY <1>3, <1>4, <2>4, <3>2 DEF AppearsBehind
  <2>5. CASE i # j
    <3>1. i \in Due /\ i \in Items /\ Pos(i)' = Pos(i)
      BY <1>3, <1>6, <2>5
    <3>2. Passed(i)
      <4>1. CASE source = "github"
        BY <1>1, <2>1, <2>2, <3>1, <4>1 DEF Passed, GithubPassed, Upto
      <4>2. CASE source = "github_s3"
        <5>1. CASE sweep.pc \in {"get", "flush"}
          <6>1. PICK b \in sweep.batch : ~Before(Pos(b)', Pos(i)')
            BY <1>1, <4>2, <5>1 DEF Passed, S3Passed, Upto, Before
          <6> QED
            BY <2>3, <3>1, <4>2, <5>1, <6>1 DEF Passed, S3Passed, Upto
        <5>2. CASE sweep.pc \notin {"get", "flush"}
          BY <2>1, <2>2, <3>1, <4>2, <5>2 DEF Passed, S3Passed, Upto
        <5> QED
          BY <5>1, <5>2
      <4> QED
        BY <1>1, <4>1, <4>2
    <3>3. Kept(i) \/ Held(i)
      BY <1>1, <3>1, <3>2 DEF NoneOwed
    <3> QED
      BY <1>1, <1>5, <2>5, <3>1, <3>3 DEF Held
  <2> QED
    BY <2>4, <2>5
<1>9. KeyRead'
  <2>1. CASE wm.key = Start(0)
    BY <1>1, <2>1 DEF KeyRead, Start
  <2>2. ASSUME NEW b \in Present, wm.key = Pos(b), stored[b] = feed[b] PROVE KeyRead'
    <3>1. b \in Items /\ b # j
      BY <1>3, DueItems
    <3>2. b \in Present' /\ Pos(b)' = wm'.key /\ stored'[b] = feed'[b]
      BY <1>1, <1>3, <2>2, <3>1 DEF Present
    <3> QED
      BY <3>2 DEF KeyRead
  <2> QED
    BY <1>1, <2>1, <2>2 DEF KeyRead
<1> QED
  BY <1>7, <1>8, <1>9

LEMMA UpdateNone ==
  ASSUME SweepOK, NEW j \in Items, Update(j)
  PROVE  NoneBehind' /\ NoneOwed' /\ KeyRead'
<1>1. /\ UNCHANGED <<source, stored, wm, sweep>> /\ TypeOK /\ Dated
      /\ source = "guardduty" /\ NoneBehind /\ NoneOwed
      /\ wm.at \in Nat /\ wm.at <= now /\ sweep.since \in Nat /\ sweep.since <= now
      /\ now \in Nat /\ sweep.region \in Nat
  BY TypeFacts, SweepFacts, Numbers DEF Update, SweepOK, StateOK
<1>2. /\ Pos(j)' = <<now, j>> /\ feed'[j] = now
      /\ \A i \in Items \ {j} : feed'[i] = feed[i] /\ Pos(i)' = Pos(i)
      /\ \A i \in Due' : i # j => i \in Due
  BY <1>1 DEF Update, Pos, Present, Due, Dated
<1>3. \A i \in Items \ {j} : Kept(i) => Kept(i)'
  BY <1>1, <1>2 DEF Update, Kept
<1>4. Due' \subseteq Items /\ Floor' = Floor /\ (Busy' <=> Busy) /\ Floor = Start(wm.at)
  BY <1>1 DEF Due, Present, Floor, Day, Start, Busy
<1>5. NoneBehind'
  <2> SUFFICES ASSUME NEW i \in Due', Before(Pos(i), Floor)' PROVE Kept(i)'
    BY DEF NoneBehind
  <2>1. Before(Pos(i)', Floor)
    BY <1>4 DEF Before
  <2>2. CASE i = j
    <3>1. Before(<<now, j>>, Start(wm.at))
      BY <1>2, <1>4, <2>1, <2>2
    <3>2. FALSE
      BY <1>1, <3>1, ItemNumber DEF Before, Start
    <3> QED
      BY <3>2
  <2>3. CASE i # j
    BY <1>1, <1>2, <1>3, <1>4, <2>1, <2>3 DEF NoneBehind
  <2> QED
    BY <2>2, <2>3
<1>6. NoneOwed'
  <2> SUFFICES ASSUME Busy, NEW i \in Due', Passed(i)' PROVE Kept(i)' \/ Held(i)'
    BY <1>4 DEF NoneOwed
  <2>1. i \in Items /\ GuarddutyPassed(i)'
    BY <1>1, <1>4 DEF Passed
  <2>2. Upto(i, sweep.pos)' <=> ~Before(sweep.pos, Pos(i)')
    BY <1>1 DEF Upto, Before
  <2>3. CASE i = j
    <3>1. CASE TooLateFor(j)
      BY <2>3, <3>1 DEF Update, Kept
    <3>2. CASE ~TooLateFor(j)
      <4>1. /\ sweep.pc # "advance" /\ ~(Region(j) < sweep.region)
            /\ Region(j) = sweep.region =>
                 \/ sweep.pc = "get" /\ j \in sweep.batch
                 \/ ~sweep.last /\ Before(sweep.pos, <<now, j>>)
        BY <3>2 DEF TooLateFor
      <4>2. ~(feed'[j] < sweep.since)
        BY <1>1, <1>2
      <4>3. sweep.pc = "get" /\ j \in sweep.batch
        BY <1>1, <1>2, <2>1, <2>2, <2>3, <4>1, <4>2 DEF GuarddutyPassed, Region
      <4> QED
        BY <1>1, <2>3, <4>3 DEF Held
    <3> QED
      BY <3>1, <3>2
  <2>4. CASE i # j
    <3>1. i \in Due /\ Pos(i)' = Pos(i) /\ feed'[i] = feed[i]
      BY <1>2, <2>1, <2>4
    <3>2. Passed(i)
      BY <1>1, <2>1, <2>2, <3>1 DEF Passed, GuarddutyPassed, Region, Upto
    <3>3. Kept(i) \/ Held(i)
      BY <1>1, <3>1, <3>2 DEF NoneOwed
    <3> QED
      BY <1>1, <1>3, <2>1, <2>4, <3>3 DEF Held
  <2> QED
    BY <2>3, <2>4
<1> QED
  BY <1>1, <1>5, <1>6 DEF KeyRead

-----------------------------------------------------------------------------
(* The theorems.                                                           *)

LEMMA SweepInit == ASSUME Init PROVE SweepInv
<1>1. StateOK /\ Dated
  BY StateInit, TypeFacts DEF StateOK
<1>2. Present = {} /\ ~Busy /\ wm.key = Start(0)
  BY DEF Init, Present, Busy, Idle
<1> QED
  BY <1>1, <1>2, DueItems DEF SweepInv, StateOK, NoneBehind, NoneOwed, KeyRead

LEMMA SweepStep == ASSUME SweepInv, [Next]_vars PROVE SweepInv'
<1>1. SweepOK
  BY DEF SweepOK, SweepInv, StateOK
<1>2. StateOK'
  BY <1>1, StateStep DEF SweepOK
<1>3. NoneBehind' /\ NoneOwed' /\ KeyRead'
  <2>1. CASE Step
    BY <1>1, <2>1, BeginNone, WaitNone, GithubPageNone, GithubFlushNone, GithubCancelledNone,
       S3PageNone, S3FetchNone, S3CommitNone, GuarddutyListNone, GuarddutyStoreNone,
       GuarddutyCancelledNone, GuarddutyAdvanceNone, OverSteps DEF Step
  <2>2. CASE \E i \in Items : Publish(i) \/ Update(i)
    BY <1>1, <2>2, PublishNone, UpdateNone
  <2> QED
    BY <1>1, <2>1, <2>2, WaitNone, OverSteps, QuietSteps DEF Next
<1> QED
  BY <1>2, <1>3 DEF SweepInv, StateOK

LEMMA SweepInvariant == Spec => []SweepInv
BY SweepInit, SweepStep, PTL DEF Spec

(* The audit-log pollers, REST and bucket: whatever the pages, flushes and *)
(* caps, and whichever calls fail or leaders change, an event or object    *)
(* from before the place where the next sweep resumes is stored, unless it *)
(* was lost in one of the named ways.                                      *)
THEOREM SourcesLeaveNoGap == Spec => []NoGapBelowFloor
<1>1. SweepInv => NoGapBelowFloor
  BY DEF SweepInv, NoneBehind, NoGapBelowFloor, Due, Kept
<1> QED
  BY <1>1, SweepInvariant, PTL

(* GuardDuty: for any number of regions and pages, whichever calls fail,   *)
(* no finding older than the watermark is missing or out of date, unless   *)
(* it changed behind a sweep, or one was cancelled before it, or the first *)
(* sweep's window began later.                                             *)
THEOREM QuietFindingsAreKept == Spec => []QuietFindingsKept
<1>1. SweepInv => QuietFindingsKept
  <2> SUFFICES ASSUME SweepInv, source = "guardduty", NEW i \in Present, feed[i] < wm.at
               PROVE  Kept(i)
    BY DEF QuietFindingsKept, Kept
  <2>1. Dated /\ wm.at \in Nat /\ i \in Items
    BY TypeFacts, DueItems, Numbers DEF SweepInv
  <2>2. Before(Pos(i), Floor)
    BY <2>1, BeforeStart DEF Floor
  <2> QED
    BY <2>2 DEF SweepInv, NoneBehind, Due
<1> QED
  BY <1>1, SweepInvariant, PTL
=============================================================================
