------------------------ MODULE CloudtrailSweep_proof ------------------------
(***************************************************************************)
(* What CloudtrailSweep guarantees for every number of accounts, regions,  *)
(* days, keys and leaders, and all limits: the state is well typed, which  *)
(* includes that no sweep exceeds its budget or its cap, and no cursor is  *)
(* past an object whose rows are not committed.                            *)
(*                                                                         *)
(* The second needs to know why the keys a sweep still has to do may be    *)
(* done from the front: whatever lies before one of them is either among   *)
(* them or committed.                                                      *)
(***************************************************************************)
EXTENDS CloudtrailSweep, FiniteSetTheorems, WellFoundedInduction, TLAPS

(* Everything up to a cursor is committed, and a cursor is a key. *)
Covered(cur, B, D) ==
  \A p \in Prefixes : /\ cur[p] \in B[p] \cup {0}
                      /\ \A k \in B[p] : k <= cur[p] => k \in D[p]

(* What lies before a key of S is in S too, or committed. *)
NoGap(S, B, D) == /\ S \subseteq B
                  /\ \A x \in S, y \in B : y < x => y \in S \cup D

(* What a sweep has fetched and what it is about to stay within a limit. *)
Within(limit, n, K) == limit > 0 => n + Cardinality(K) <= limit

WithinLimits(s) == s.pc = "batch" => /\ Within(BUDGET, s.total, s.keys)
                                     /\ Within(CAP, s.account, s.keys)

SweepOK(s, B, D) ==
  /\ Covered(s.cur, B, D)
  /\ \A p \in Prefixes : NoGap(s.list[p], B[p], D[p])
  /\ NoGap(s.keys, B[s.at], D[s.at])
  /\ WithinLimits(s)

SweepInv ==
  /\ TypeOK
  /\ Covered(saved.cur, bucket, done)
  /\ \A w \in Sweepers : SweepOK(sweep[w], bucket, done)

-----------------------------------------------------------------------------
(* Sets of keys                                                            *)

(* Sets of keys are finite. *)
LEMMA KeysFinite ==
  ASSUME NEW K \in SUBSET Keys
  PROVE  IsFiniteSet(K) /\ Cardinality(K) \in Nat
<1>1. IsFiniteSet(Keys)
  BY SizesAssumption, FS_Interval DEF Keys
<1> QED
  BY <1>1, FS_Subset, FS_CardinalityType

(* truncate(n) leaves at most n keys, and nothing that was before them. *)
LEMMA FirstKeys ==
  ASSUME NEW K \in SUBSET Keys, NEW n \in Nat, NEW S \in First(n, K)
  PROVE  /\ S \in SUBSET K
         /\ Cardinality(S) <= n
         /\ \A x \in S, y \in K : y < x => y \in S
<1>1. S \in SUBSET K /\ \A x \in S, y \in K \ S : x < y
  BY DEF First, Segments
<1>2. \A x \in S, y \in K : y < x => y \in S
  BY <1>1 DEF Keys
<1>3. Cardinality(S) <= n
  BY KeysFinite, <1>1 DEF First
<1> QED
  BY <1>1, <1>2, <1>3

(* A part of keys without gap, taken from the front, has no gap. *)
LEMMA NoGapFront ==
  ASSUME NEW B, NEW D, NEW K, NEW S \in SUBSET K, NoGap(K, B, D),
         \A x \in S, y \in K : y < x => y \in S
  PROVE  NoGap(S, B, D)
BY DEF NoGap

(* Commits leave no gap. *)
LEMMA NoGapCommit ==
  ASSUME NEW B, NEW D, NEW E, NEW K, NoGap(K, B, D), D \subseteq E
  PROVE  NoGap(K, B, E)
BY DEF NoGap

LEMMA NoGapEmpty == ASSUME NEW B, NEW D PROVE NoGap({}, B, D)
BY DEF NoGap

(* Commits keep cursors sound. *)
LEMMA CoveredCommit ==
  ASSUME NEW B, NEW D, NEW E, NEW cur, Covered(cur, B, D),
         \A p \in Prefixes : D[p] \subseteq E[p]
  PROVE  Covered(cur, B, E)
BY DEF Covered

-----------------------------------------------------------------------------
(* One sweep moves on, to "n", and rows may have been committed.           *)

LEMMA UpdateSweep ==
  ASSUME SweepInv, NEW w \in Sweepers, NEW n \in SweepState, Set(w, n),
         UNCHANGED <<today, bucket>>,
         done' \in [Prefixes -> SUBSET Keys],
         \A p \in Prefixes : done[p] \subseteq done'[p],
         faults' \in 0 .. MaxFaults,
         saved' \in [cur : [Prefixes -> 0 .. NK], resume : 0 .. NA, events : Nat],
         Covered(saved'.cur, bucket, done'),
         SweepOK(n, bucket, done')
  PROVE  SweepInv'
<1>1. sweep' \in [Sweepers -> SweepState]
  BY DEF SweepInv, TypeOK, Set
<1>2. ASSUME NEW v \in Sweepers PROVE SweepOK(sweep'[v], bucket', done')
  <2>1. CASE v = w
    BY <2>1 DEF SweepInv, TypeOK, Set
  <2>2. CASE v # w
    <3>1. sweep'[v] = sweep[v] /\ SweepOK(sweep[v], bucket, done)
      BY <2>2 DEF SweepInv, TypeOK, Set
    <3>2. sweep[v].at \in Prefixes
      BY DEF SweepInv, TypeOK, SweepState
    <3> DEFINE u == sweep[v]
    <3> HIDE DEF u
    <3>3. Covered(u.cur, bucket, done')
      BY <3>1, CoveredCommit DEF u, SweepOK
    <3>4. \A p \in Prefixes : NoGap(u.list[p], bucket[p], done'[p])
      BY <3>1, NoGapCommit DEF u, SweepOK
    <3>5. NoGap(u.keys, bucket[u.at], done'[u.at])
      BY <3>1, <3>2, NoGapCommit DEF u, SweepOK
    <3> QED
      BY <3>1, <3>3, <3>4, <3>5 DEF u, SweepOK
  <2> QED
    BY <2>1, <2>2
<1> QED
  BY <1>1, <1>2 DEF SweepInv, TypeOK

(* The same when nothing is committed or saved. *)
LEMMA UpdateOnlySweep ==
  ASSUME SweepInv, NEW w \in Sweepers, NEW n \in SweepState, Set(w, n),
         UNCHANGED <<today, bucket, done, saved>>,
         faults' \in 0 .. MaxFaults,
         SweepOK(n, bucket, done)
  PROVE  SweepInv'
BY UpdateSweep DEF SweepInv, TypeOK

LEMMA FaultType == ASSUME SweepInv, Fault PROVE faults' \in 0 .. MaxFaults
BY LimitsAssumption DEF SweepInv, TypeOK, Fault

LEMMA NoSweepOK ==
  ASSUME SweepInv
  PROVE  NoSweep \in SweepState /\ SweepOK(NoSweep, bucket, done)
<1>1. NoSweep \in SweepState
  BY SizesAssumption, LimitsAssumption
     DEF NoSweep, SweepState, SweepPC, UpTo, NoResume, Prefixes, Accounts,
         Regions, Days
<1>2. Covered(NoSweep.cur, bucket, done)
  BY DEF SweepInv, TypeOK, Covered, NoSweep, Keys
<1>3. \A p \in Prefixes : NoGap(NoSweep.list[p], bucket[p], done[p])
  BY DEF NoSweep, NoGap
<1> QED
  BY <1>1, <1>2, <1>3 DEF SweepOK, NoSweep, NoGap, WithinLimits

-----------------------------------------------------------------------------
(* The actions                                                             *)

LEMMA InitHolds == Init => SweepInv
<1> SUFFICES ASSUME Init PROVE SweepInv
  OBVIOUS
<1>1. TypeOK
  <2>1. sweep \in [Sweepers -> SweepState]
    BY SizesAssumption, LimitsAssumption
       DEF Init, NoSweep, SweepState, SweepPC, UpTo, NoResume, Prefixes,
           Accounts, Regions, Days
  <2> QED
    BY <2>1, SizesAssumption, LimitsAssumption DEF Init, TypeOK, Days, NoResume
<1>2. Covered(saved.cur, bucket, done)
  BY DEF Init, Covered
<1>3. ASSUME NEW w \in Sweepers PROVE SweepOK(sweep[w], bucket, done)
  BY DEF Init, SweepOK, Covered, NoSweep, NoGap, WithinLimits
<1> QED
  BY <1>1, <1>2, <1>3 DEF SweepInv

(* A new object has the greatest name, so it is past every cursor. *)
LEMMA DeliverStep ==
  ASSUME SweepInv, NEW p \in Prefixes, NEW k \in Keys, Deliver(p, k)
  PROVE  SweepInv'
<1>1. bucket' \in [Prefixes -> SUBSET Keys]
  BY DEF SweepInv, TypeOK, Deliver
<1>2. \A q \in Prefixes : bucket'[q] = IF q = p THEN bucket[p] \cup {k} ELSE bucket[q]
  BY DEF SweepInv, TypeOK, Deliver
<1>3. \A x \in bucket[p] : x < k
  BY DEF Deliver
<1>4. ASSUME NEW cur, Covered(cur, bucket, done) PROVE Covered(cur, bucket', done)
  BY <1>2, <1>3, <1>4 DEF Covered, Keys, SweepInv, TypeOK
<1>5. ASSUME NEW K, NEW q \in Prefixes, NoGap(K, bucket[q], done[q])
      PROVE  NoGap(K, bucket'[q], done[q])
  BY <1>2, <1>3, <1>5 DEF NoGap, Keys, SweepInv, TypeOK
<1>6. ASSUME NEW w \in Sweepers PROVE SweepOK(sweep[w], bucket', done)
  <2> DEFINE s == sweep[w]
  <2>1. s.at \in Prefixes /\ SweepOK(s, bucket, done)
    BY DEF SweepInv, TypeOK, SweepState
  <2> HIDE DEF s
  <2>2. SweepOK(s, bucket', done)
    BY <2>1, <1>4, <1>5 DEF SweepOK
  <2> QED
    BY <2>2 DEF s
<1> QED
  BY <1>1, <1>4, <1>6 DEF SweepInv, TypeOK, Deliver

LEMMA NewDayStep == ASSUME SweepInv, NewDay PROVE SweepInv'
BY SizesAssumption DEF SweepInv, TypeOK, NewDay, Days

LEMMA StartStep ==
  ASSUME SweepInv, NEW w \in Sweepers, StartSweep(w)
  PROVE  SweepInv'
<1> DEFINE start == IF saved.resume = NoResume THEN 1 ELSE saved.resume
           n == [NoSweep EXCEPT
       !.pc = "accounts", !.today = today, !.cur = saved.cur,
       !.resume = saved.resume, !.start = start]
<1>0. /\ today \in Days
      /\ saved.cur \in [Prefixes -> 0 .. NK]
      /\ saved.resume \in 0 .. NA
      /\ start \in Accounts
  BY SizesAssumption DEF SweepInv, TypeOK, Accounts, NoResume
<1> HIDE DEF start
<1>1. n \in SweepState
  BY NoSweepOK, <1>0 DEF SweepState, SweepPC
<1>2. SweepOK(n, bucket, done)
  BY NoSweepOK, <1>1 DEF SweepInv, SweepOK, NoSweep, WithinLimits, SweepState
<1> QED
  BY <1>1, <1>2, UpdateOnlySweep DEF StartSweep, SweepInv, TypeOK, start

(* What is listed behind a cursor has no gap: the keys before it that are  *)
(* not listed are behind the cursor, hence committed.                      *)
LEMMA ListStep ==
  ASSUME SweepInv, NEW w \in Sweepers, ListAccount(w)
  PROVE  SweepInv'
<1> DEFINE s == sweep[w]
           here == {p \in Window(s) : p[1] = AccountAt(s)}
<1>1. s \in SweepState /\ SweepOK(s, bucket, done) /\ s.step < NA
  BY DEF SweepInv, TypeOK, ListAccount
<1> HIDE DEF here
<1>2. PICK failed \in SUBSET here :
        /\ (IF failed = {} THEN UNCHANGED faults ELSE Fault)
        /\ Set(w, [s EXCEPT
             !.pc = "prefixes", !.step = @ + 1, !.account = 0,
             !.list = [p \in Prefixes |-> IF p \in here \ failed
                                            THEN Behind(s.cur[p], bucket[p])
                                            ELSE {}]])
  BY DEF ListAccount, here
<1> DEFINE list == [p \in Prefixes |-> IF p \in here \ failed
                                         THEN Behind(s.cur[p], bucket[p])
                                         ELSE {}]
           n == [s EXCEPT !.pc = "prefixes", !.step = @ + 1, !.account = 0,
                          !.list = list]
<1>3. list \in [Prefixes -> SUBSET Keys]
  BY DEF Behind, SweepInv, TypeOK
<1>4. \A p \in Prefixes : NoGap(list[p], bucket[p], done[p])
  BY <1>1 DEF NoGap, Behind, SweepOK, Covered, SweepInv, TypeOK, Keys, SweepState
<1> HIDE DEF list
<1>5. n \in SweepState
  <2>1. s.step + 1 \in 0 .. NA /\ 0 \in UpTo(CAP)
    BY <1>1, SizesAssumption, LimitsAssumption DEF SweepState, UpTo
  <2> DEFINE i == s.step + 1
  <2> HIDE DEF i
  <2> QED
    BY <1>1, <1>3, <2>1 DEF SweepState, SweepPC, i
<1>6. SweepOK(n, bucket, done)
  BY <1>1, <1>4, <1>5 DEF SweepOK, WithinLimits, SweepState
<1>7. faults' \in 0 .. MaxFaults
  BY <1>2, FaultType DEF SweepInv, TypeOK
<1>8. Set(w, n)
  BY <1>2 DEF list
<1> HIDE DEF n
<1>9. UNCHANGED <<today, bucket, done, saved>>
  BY DEF ListAccount
<1> QED
  BY <1>5, <1>6, <1>7, <1>8, <1>9, UpdateOnlySweep

(* Only the pc changes, and not to a batch. *)
LEMMA GotoStep ==
  ASSUME SweepInv, NEW w \in Sweepers, NEW pc \in SweepPC \ {"batch"},
         Set(w, [sweep[w] EXCEPT !.pc = pc]),
         UNCHANGED <<today, bucket, done, saved>>,
         faults' \in 0 .. MaxFaults
  PROVE  SweepInv'
<1> DEFINE s == sweep[w]
           n == [s EXCEPT !.pc = pc]
<1>1. s \in SweepState /\ SweepOK(s, bucket, done)
  BY DEF SweepInv, TypeOK
<1>2. n \in SweepState
  BY <1>1 DEF SweepState
<1>3. SweepOK(n, bucket, done)
  BY <1>1 DEF SweepOK, WithinLimits, SweepState
<1> QED
  BY <1>2, <1>3, UpdateOnlySweep

(* Truncating the keys of a prefix to the budget and the cap leaves no gap *)
(* and stays within both.                                                  *)
LEMMA NextPrefixStep ==
  ASSUME SweepInv, NEW w \in Sweepers, NextPrefix(w)
  PROVE  SweepInv'
<1> DEFINE s == sweep[w]
           budget == BUDGET - s.total
           share == CAP - s.account
           none == [q \in Prefixes |-> {}]
<1>1. /\ s \in SweepState /\ SweepOK(s, bucket, done)
      /\ faults' \in 0 .. MaxFaults
      /\ UNCHANGED <<today, bucket, done, saved>>
  BY DEF SweepInv, TypeOK, NextPrefix
<1>2. PICK p \in ToDo(s) :
        IF BUDGET > 0 /\ budget <= 0
          THEN Set(w, [s EXCEPT !.pc = "finish", !.hit = TRUE, !.stop = p[1]])
        ELSE IF CAP > 0 /\ share <= 0
          THEN Set(w, [s EXCEPT !.pc = "accounts", !.list = none])
        ELSE \E K1 \in (IF BUDGET > 0 THEN First(budget, s.list[p]) ELSE {s.list[p]}) :
             \E K2 \in (IF CAP > 0 THEN First(share, K1) ELSE {K1}) :
               Set(w, [s EXCEPT !.pc = "batch", !.at = p, !.keys = K2,
                                !.list = [s.list EXCEPT ![p] = {}]])
  BY DEF NextPrefix
<1>3. p \in Prefixes
  BY DEF ToDo
<1>4. CASE BUDGET > 0 /\ budget <= 0
  <2> DEFINE n == [s EXCEPT !.pc = "finish", !.hit = TRUE, !.stop = p[1]]
  <2>1. p[1] \in 0 .. NA
    BY <1>3, SizesAssumption DEF Prefixes, Accounts
  <2> DEFINE a == p[1]
  <2> HIDE DEF a
  <2>2. n \in SweepState
    BY <1>1, <2>1 DEF SweepState, SweepPC, a
  <2>3. SweepOK(n, bucket, done)
    BY <1>1 DEF SweepOK, WithinLimits, SweepState
  <2> QED
    BY <1>1, <1>2, <1>4, <2>2, <2>3, UpdateOnlySweep
<1>5. CASE ~(BUDGET > 0 /\ budget <= 0) /\ CAP > 0 /\ share <= 0
  <2> DEFINE n == [s EXCEPT !.pc = "accounts", !.list = none]
  <2>1. n \in SweepState
    BY <1>1 DEF SweepState, SweepPC
  <2>2. SweepOK(n, bucket, done)
    BY <1>1, NoGapEmpty DEF SweepOK, WithinLimits, SweepState
  <2> QED
    BY <1>1, <1>2, <1>5, <2>1, <2>2, UpdateOnlySweep
<1>6. CASE ~(BUDGET > 0 /\ budget <= 0) /\ ~(CAP > 0 /\ share <= 0)
  <2>0. PICK K1 \in (IF BUDGET > 0 THEN First(budget, s.list[p]) ELSE {s.list[p]}) :
          \E K2 \in (IF CAP > 0 THEN First(share, K1) ELSE {K1}) :
            Set(w, [s EXCEPT !.pc = "batch", !.at = p, !.keys = K2,
                             !.list = [s.list EXCEPT ![p] = {}]])
    BY <1>2, <1>6
  <2>1. PICK K2 \in (IF CAP > 0 THEN First(share, K1) ELSE {K1}) :
          Set(w, [s EXCEPT !.pc = "batch", !.at = p, !.keys = K2,
                           !.list = [s.list EXCEPT ![p] = {}]])
    BY <2>0
  <2> DEFINE list == [s.list EXCEPT ![p] = {}]
             n == [s EXCEPT !.pc = "batch", !.at = p, !.keys = K2,
                            !.list = list]
  <2>2. /\ s.list[p] \in SUBSET Keys
        /\ s.total \in Nat /\ s.account \in Nat
        /\ BUDGET > 0 => budget \in Nat
        /\ CAP > 0 => share \in Nat
    BY <1>1, <1>3, <1>6, LimitsAssumption DEF SweepState, UpTo
  <2>3. /\ K1 \in SUBSET s.list[p]
        /\ BUDGET > 0 => Cardinality(K1) <= budget
        /\ \A x \in K1, y \in s.list[p] : y < x => y \in K1
    BY <2>2, FirstKeys
  <2>4. K1 \in SUBSET Keys
    BY <2>2, <2>3
  <2>5. /\ K2 \in SUBSET K1
        /\ CAP > 0 => Cardinality(K2) <= share
        /\ \A x \in K2, y \in K1 : y < x => y \in K2
    BY <2>2, <2>4, FirstKeys
  <2>6. NoGap(K2, bucket[p], done[p])
    <3>1. NoGap(s.list[p], bucket[p], done[p])
      BY <1>1, <1>3 DEF SweepOK
    <3>2. NoGap(K1, bucket[p], done[p])
      BY <3>1, <2>3, NoGapFront
    <3> QED
      BY <3>2, <2>5, NoGapFront
  <2>7. Within(BUDGET, s.total, K2) /\ Within(CAP, s.account, K2)
    <3>1. Cardinality(K2) <= Cardinality(K1)
      BY <2>4, <2>5, KeysFinite, FS_Subset
    <3>2. Cardinality(K1) \in Nat /\ Cardinality(K2) \in Nat
      BY <2>4, <2>5, KeysFinite
    <3> QED
      BY <3>1, <3>2, <2>2, <2>3, <2>5, LimitsAssumption DEF Within
  <2>8. list \in [Prefixes -> SUBSET Keys]
    BY <1>1 DEF SweepState
  <2>9. \A q \in Prefixes : NoGap(list[q], bucket[q], done[q])
    BY <1>1, <1>3, NoGapEmpty DEF SweepOK, SweepState
  <2>10. Set(w, n)
    BY <2>1
  <2> HIDE DEF list
  <2>11. n \in SweepState
    BY <1>1, <1>3, <2>4, <2>5, <2>8 DEF SweepState, SweepPC
  <2>12. SweepOK(n, bucket, done)
    BY <1>1, <2>6, <2>7, <2>9 DEF SweepOK, WithinLimits, SweepState
  <2> QED
    BY <1>1, <2>10, <2>11, <2>12, UpdateOnlySweep
<1> QED
  BY <1>4, <1>5, <1>6

(* The cursor goes to the end of a run that starts at the front of keys    *)
(* without gap, so everything up to it is committed.                       *)
LEMMA FetchStep ==
  ASSUME SweepInv, NEW w \in Sweepers, FetchBatch(w)
  PROVE  SweepInv'
<1> DEFINE s == sweep[w]
           B == bucket[s.at]
           D == done[s.at]
<1>1. /\ s \in SweepState /\ SweepOK(s, bucket, done)
      /\ s.pc = "batch"
      /\ UNCHANGED <<today, bucket>>
      /\ B \in SUBSET Keys /\ D \in SUBSET Keys
  BY DEF SweepInv, TypeOK, FetchBatch, SweepState
<1>2. PICK batch \in First(BATCH, s.keys) :
        \E good \in Fetched(batch) : \E run \in Runs(batch, good) :
        \E c \in Last(run, s.cur[s.at]) : AfterBatch(w, batch, good, run, c)
  BY DEF FetchBatch
<1>3. PICK good \in Fetched(batch) :
        \E run \in Runs(batch, good) :
        \E c \in Last(run, s.cur[s.at]) : AfterBatch(w, batch, good, run, c)
  BY <1>2
<1>3_run. PICK run \in Runs(batch, good) :
         \E c \in Last(run, s.cur[s.at]) : AfterBatch(w, batch, good, run, c)
  BY <1>3
<1>3_c. PICK c \in Last(run, s.cur[s.at]) : AfterBatch(w, batch, good, run, c)
  BY <1>3_run
<1> DEFINE total == s.total + Cardinality(run)
           account == s.account + Cardinality(run)
           events == s.events + Cardinality(run \ D)
           cur == [s.cur EXCEPT ![s.at] = c]
           keys == IF run = batch THEN s.keys \ batch ELSE {}
           n == [s EXCEPT !.total = total, !.account = account,
                          !.events = events, !.cur = cur, !.keys = keys]
<1>4. /\ IF good = batch THEN UNCHANGED faults ELSE Fault
      /\ done' = [done EXCEPT ![s.at] = @ \cup good]
      /\ Set(w, n)
      /\ \/ UNCHANGED saved
         \/ saved' = Heartbeat(n)
  BY <1>3_c DEF AfterBatch
<1>5. /\ s.keys \in SUBSET Keys /\ s.at \in Prefixes /\ BATCH \in Nat
      /\ s.cur \in [Prefixes -> 0 .. NK]
  BY <1>1, SizesAssumption DEF SweepState
<1>6. /\ batch \in SUBSET s.keys
      /\ \A x \in batch, y \in s.keys : y < x => y \in batch
  BY <1>5, FirstKeys
<1>7. /\ run \in SUBSET batch /\ run \subseteq good
      /\ \A x \in run, y \in batch \ run : x < y
  BY DEF Runs, Segments
<1>8. /\ NoGap(s.keys, B, D)
      /\ Covered(s.cur, bucket, done)
      /\ \A p \in Prefixes : NoGap(s.list[p], bucket[p], done[p])
      /\ Within(BUDGET, s.total, s.keys) /\ Within(CAP, s.account, s.keys)
  BY <1>1 DEF SweepOK, WithinLimits
<1>9. good \in SUBSET batch
  BY DEF Fetched
<1>10. /\ done' \in [Prefixes -> SUBSET Keys]
       /\ \A p \in Prefixes : done[p] \subseteq done'[p]
       /\ done'[s.at] = D \cup good
  BY <1>4, <1>5, <1>6, <1>9 DEF SweepInv, TypeOK
<1>11. c \in B \cup {0} /\ \A k \in B : k <= c => k \in D \cup good
  <2>1. CASE run = {}
    BY <2>1, <1>5, <1>8 DEF Last, Covered
  <2>2. CASE run # {}
    <3>1. c \in run
      BY <2>2 DEF Last
    <3>2. c \in B
      BY <3>1, <1>6, <1>7, <1>8 DEF NoGap
    <3>3. ASSUME NEW k \in B, k <= c PROVE k \in D \cup good
      <4>1. k \in Keys /\ c \in Keys /\ c \in good
        BY <1>1, <3>1, <3>2, <1>7
      <4>2. k = c \/ k < c
        BY <3>3, <4>1 DEF Keys
      <4>3. CASE k < c
        <5>1. k \in s.keys \cup D
          BY <4>3, <3>1, <1>6, <1>7, <1>8 DEF NoGap
        <5>2. k \in s.keys => k \in batch
          BY <4>3, <3>1, <1>6, <1>7
        <5>3. k \in batch => k \in run
          BY <4>1, <4>3, <3>1, <1>7 DEF Keys
        <5> QED
          BY <5>1, <5>2, <5>3, <1>7
      <4> QED
        BY <4>1, <4>2, <4>3
    <3> QED
      BY <3>2, <3>3
  <2> QED
    BY <2>1, <2>2
<1>12. Covered(cur, bucket, done')
  BY <1>1, <1>5, <1>8, <1>10, <1>11 DEF Covered
<1>13. \A p \in Prefixes : NoGap(s.list[p], bucket[p], done'[p])
  BY <1>8, <1>10, NoGapCommit
<1>14. NoGap(keys, B, D \cup good)
  <2>1. CASE run = batch
    BY <2>1, <1>6, <1>7, <1>8 DEF NoGap
  <2>2. CASE run # batch
    BY <2>2, NoGapEmpty
  <2> QED
    BY <2>1, <2>2
<1>15. /\ Cardinality(run) \in Nat /\ Cardinality(keys) \in Nat
       /\ Cardinality(run \ D) \in Nat
       /\ Cardinality(run) + Cardinality(keys) <= Cardinality(s.keys)
       /\ Cardinality(s.keys) \in Nat
  <2>1. run \in SUBSET Keys /\ keys \in SUBSET Keys /\ run \ D \in SUBSET Keys
    BY <1>5, <1>6, <1>7
  <2>2. run \cup keys \in SUBSET s.keys /\ run \cap keys = {}
    BY <1>6, <1>7
  <2>3. Cardinality(run \cup keys) = Cardinality(run) + Cardinality(keys)
    <3>1. IsFiniteSet(run) /\ IsFiniteSet(keys)
      BY <2>1, KeysFinite
    <3>2. Cardinality(run \cup keys)
            = Cardinality(run) + Cardinality(keys) - Cardinality(run \cap keys)
      BY <3>1, FS_Union
    <3>3. Cardinality(run \cap keys) = 0
      BY <2>2, FS_EmptySet
    <3>4. Cardinality(run) \in Nat /\ Cardinality(keys) \in Nat
      BY <2>1, KeysFinite
    <3> HIDE DEF keys
    <3> QED
      BY <3>2, <3>3, <3>4
  <2>4. Cardinality(run \cup keys) <= Cardinality(s.keys)
    BY <2>2, <1>5, KeysFinite, FS_Subset
  <2> HIDE DEF keys
  <2> QED
    BY <2>1, <2>3, <2>4, <1>5, KeysFinite
<1>16. Within(BUDGET, total, keys) /\ Within(CAP, account, keys)
  <2>1. s.total \in Nat /\ s.account \in Nat
    BY <1>1, LimitsAssumption DEF SweepState, UpTo
  <2> HIDE DEF keys
  <2> QED
    BY <1>8, <1>15, <2>1, LimitsAssumption DEF Within
<1>17. /\ total \in UpTo(BUDGET) /\ account \in UpTo(CAP) /\ events \in Nat
  <2>1. s.total \in Nat /\ s.account \in Nat /\ s.events \in Nat
    BY <1>1, LimitsAssumption DEF SweepState, UpTo
  <2> HIDE DEF keys
  <2>2. total \in Nat /\ account \in Nat /\ events \in Nat
    BY <1>15, <2>1
  <2> HIDE DEF total, account
  <2> QED
    BY <1>15, <1>16, <2>2, LimitsAssumption DEF Within, UpTo
<1>18. cur \in [Prefixes -> 0 .. NK] /\ keys \in SUBSET Keys
  <2>1. c \in 0 .. NK
    BY <1>11, <1>1, SizesAssumption DEF Keys
  <2> QED
    BY <2>1, <1>5
<1> HIDE DEF total, account, events, cur, keys
<1>19. n \in SweepState
  BY <1>1, <1>17, <1>18 DEF SweepState
<1>20. /\ n.cur = cur /\ n.list = s.list /\ n.keys = keys /\ n.at = s.at
       /\ n.total = total /\ n.account = account /\ n.resume = s.resume
  BY <1>1 DEF SweepState
<1>21. SweepOK(n, bucket, done')
  BY <1>12, <1>13, <1>14, <1>10, <1>16, <1>20 DEF SweepOK, WithinLimits
<1>22. /\ saved' \in [cur : [Prefixes -> 0 .. NK], resume : 0 .. NA, events : Nat]
       /\ Covered(saved'.cur, bucket, done')
  <2>1. CASE UNCHANGED saved
    BY <2>1, <1>10, CoveredCommit DEF SweepInv, TypeOK
  <2>2. CASE saved' = Heartbeat(n)
    <3>1. saved' = [saved EXCEPT !.cur = cur, !.resume = s.resume]
      BY <2>2, <1>20 DEF Heartbeat
    <3>2. s.resume \in 0 .. NA
      BY <1>1 DEF SweepState
    <3> QED
      BY <3>1, <3>2, <1>12, <1>18 DEF SweepInv, TypeOK
  <2> QED
    BY <1>4, <2>1, <2>2
<1>23. faults' \in 0 .. MaxFaults
  BY <1>4, FaultType DEF SweepInv, TypeOK
<1> HIDE DEF n
<1> QED
  BY <1>1, <1>4, <1>10, <1>19, <1>21, <1>22, <1>23, UpdateSweep

(* Pruning only forgets cursors. *)
LEMMA FinishStep ==
  ASSUME SweepInv, NEW w \in Sweepers, Finish(w)
  PROVE  SweepInv'
<1> DEFINE s == sweep[w]
           cur == Prune(s)
<1>1. /\ s \in SweepState /\ Covered(s.cur, bucket, done)
      /\ UNCHANGED <<today, bucket, done, faults>>
      /\ Set(w, NoSweep)
      /\ saved' = [cur |-> cur, resume |-> s.stop, events |-> saved.events + s.events]
  BY DEF SweepInv, TypeOK, Finish, SweepOK
<1>2. cur \in [Prefixes -> 0 .. NK]
  BY <1>1, SizesAssumption DEF Prune, SweepState
<1>3. Covered(cur, bucket, done)
  BY <1>1 DEF Covered, Prune, SweepInv, TypeOK, Keys
<1> HIDE DEF cur
<1>4. saved' \in [cur : [Prefixes -> 0 .. NK], resume : 0 .. NA, events : Nat]
  BY <1>1, <1>2 DEF SweepInv, TypeOK, SweepState
<1>5. Covered(saved'.cur, bucket, done')
  BY <1>1, <1>3
<1> QED
  BY <1>1, <1>4, <1>5, NoSweepOK, UpdateSweep DEF SweepInv, TypeOK

LEMMA FailStep ==
  ASSUME SweepInv, NEW w \in Sweepers, Fail(w)
  PROVE  SweepInv'
BY NoSweepOK, FaultType, UpdateOnlySweep DEF Fail

LEMMA NextStep == ASSUME SweepInv, Next PROVE SweepInv'
<1>1. CASE NewDay
  BY <1>1, NewDayStep
<1>2. ASSUME NEW p \in Prefixes, NEW k \in Keys, Deliver(p, k) PROVE SweepInv'
  BY <1>2, DeliverStep
<1>3. ASSUME NEW w \in Sweepers, Step(w) \/ Cancel(w) \/ Fail(w) PROVE SweepInv'
  <2>0. faults \in 0 .. MaxFaults
    BY DEF SweepInv, TypeOK
  <2>1. CASE StartSweep(w)
    BY <2>1, StartStep
  <2>2. CASE ListAccount(w)
    BY <2>2, ListStep
  <2>3. CASE EndAccounts(w)
    BY <2>3, <2>0, GotoStep DEF EndAccounts, SweepPC
  <2>4. CASE NextPrefix(w)
    BY <2>4, NextPrefixStep
  <2>5. CASE EndPrefixes(w)
    BY <2>5, <2>0, GotoStep DEF EndPrefixes, SweepPC
  <2>6. CASE FetchBatch(w)
    BY <2>6, FetchStep
  <2>7. CASE EndBatches(w)
    BY <2>7, <2>0, GotoStep DEF EndBatches, SweepPC
  <2>8. CASE Finish(w)
    BY <2>8, FinishStep
  <2>9. CASE Cancel(w)
    BY <2>9, FaultType, GotoStep DEF Cancel, SweepPC
  <2>10. CASE Fail(w)
    BY <2>10, FailStep
  <2> QED
    BY <1>3, <2>1, <2>2, <2>3, <2>4, <2>5, <2>6, <2>7, <2>8, <2>9, <2>10 DEF Step
<1> QED
  BY <1>1, <1>2, <1>3 DEF Next

LEMMA StutterStep == ASSUME SweepInv, UNCHANGED vars PROVE SweepInv'
BY DEF SweepInv, TypeOK, SweepOK, WithinLimits, vars

-----------------------------------------------------------------------------
(* Budget, cap, cursors and the keys still to do are right in every state. *)
THEOREM SweepInvariant == Spec => []SweepInv
<1>1. Init => SweepInv
  BY InitHolds
<1>2. SweepInv /\ [Next]_vars => SweepInv'
  BY NextStep, StutterStep
<1> QED
  BY <1>1, <1>2, PTL DEF Spec

(* The state is well typed; no sweep exceeds max_objects_per_run or the    *)
(* per-account cap (run_once).                                             *)
THEOREM SweepTypeCorrect == Spec => []TypeOK
<1>1. SweepInv => TypeOK
  BY DEF SweepInv
<1> QED
  BY <1>1, SweepInvariant, PTL

(* fetch_prefix: "we never advance past an object that failed to fetch",   *)
(* for any number of overlapping sweeps, failures and crashes.             *)
THEOREM CursorsSound == Spec => []CursorSound
<1>1. SweepInv => CursorSound
  BY DEF SweepInv, SweepOK, Covered, CursorSound, Below
<1> QED
  BY <1>1, SweepInvariant, PTL

-----------------------------------------------------------------------------
(* The rotation                                                            *)

(* The k-th account from account a on, around the end of the list, is a    *)
(* again only for k = 0.                                                   *)
LEMMA AroundAccounts ==
  ASSUME NEW a \in Accounts, NEW k \in 1 .. NA - 1
  PROVE  ((a - 1 + k) % NA) + 1 # a
<1>1. NA \in Nat \ {0}
  BY SizesAssumption
<1>2. CASE a - 1 + k < NA
  <2>1. (a - 1 + k) % NA = a - 1 + k
    BY <1>1, <1>2 DEF Accounts
  <2> QED
    BY <2>1 DEF Accounts
<1>3. CASE a - 1 + k >= NA
  <2>1. (a - 1 + k) % NA = a - 1 + k - NA
    BY <1>1, <1>3 DEF Accounts
  <2> QED
    BY <1>1, <2>1 DEF Accounts
<1> QED
  BY <1>1, <1>2, <1>3 DEF Accounts

(* No account may take a whole sweep: without a cap of its own it is an    *)
(* eighth of the budget, which is less than a budget of more than one.     *)
ShareOfBudget == BUDGET > 0 => CAP \in 1 .. BUDGET - 1

(* The account a sweep is at, after "step" of them. *)
Current(s) == ((s.start - 1 + (s.step - 1)) % NA) + 1

(* At its first account a sweep has fetched nothing for another one, so    *)
(* the cap keeps it below the budget there.                                *)
Rotates(s) ==
  /\ s.stop # NoResume => s.stop # s.start
  /\ s.pc \in {"prefixes", "batch"} =>
       /\ s.step > 0
       /\ \A p \in ToDo(s) : p[1] = Current(s)
       /\ s.step = 1 => s.total = s.account
  /\ s.pc = "accounts" => /\ s.step = 0 => s.total = 0
                          /\ s.step = 1 => s.total = s.account

Rotating == \A w \in Sweepers : Rotates(sweep[w])

LEMMA RotatingUpdate ==
  ASSUME SweepInv, Rotating, NEW w \in Sweepers, NEW n, Set(w, n), Rotates(n)
  PROVE  Rotating'
BY DEF SweepInv, TypeOK, Set, Rotating

(* Only the pc changes. *)
LEMMA RotatingGoto ==
  ASSUME NEW s \in SweepState, Rotates(s), NEW pc \in SweepPC,
         \/ pc = "finish"
         \/ s.pc = "prefixes" /\ pc = "accounts"
         \/ s.pc = "batch" /\ pc = "prefixes"
  PROVE  Rotates([s EXCEPT !.pc = pc])
BY DEF SweepState, Rotates, ToDo, Current

LEMMA RotatingList ==
  ASSUME SweepInv, Rotating, NEW w \in Sweepers, ListAccount(w)
  PROVE  Rotating'
<1> DEFINE s == sweep[w]
           here == {p \in Window(s) : p[1] = AccountAt(s)}
<1>1. s \in SweepState /\ Rotates(s) /\ s.pc = "accounts" /\ s.step \in Nat
  BY SizesAssumption DEF SweepInv, TypeOK, Rotating, ListAccount, SweepState
<1>2. PICK failed \in SUBSET here :
        Set(w, [s EXCEPT
             !.pc = "prefixes", !.step = @ + 1, !.account = 0,
             !.list = [p \in Prefixes |-> IF p \in here \ failed
                                            THEN Behind(s.cur[p], bucket[p])
                                            ELSE {}]])
  BY DEF ListAccount
<1> DEFINE n == [s EXCEPT
             !.pc = "prefixes", !.step = @ + 1, !.account = 0,
             !.list = [p \in Prefixes |-> IF p \in here \ failed
                                            THEN Behind(s.cur[p], bucket[p])
                                            ELSE {}]]
<1>3. /\ n.pc = "prefixes" /\ n.step = s.step + 1 /\ n.account = 0
      /\ n.total = s.total /\ n.stop = s.stop /\ n.start = s.start
      /\ ToDo(n) \subseteq here
  BY <1>1 DEF SweepState, ToDo
<1>4. Current(n) = AccountAt(s)
  <2> DEFINE i == n.step
  <2> HIDE DEF n
  <2>1. i - 1 = s.step
    BY <1>1, <1>3
  <2> HIDE DEF i
  <2>2. Current(n) = ((s.start - 1 + (i - 1)) % NA) + 1
    BY <1>3 DEF Current, i
  <2> QED
    BY <2>1, <2>2 DEF AccountAt
<1>5. Rotates(n)
  <2> HIDE DEF n
  <2> QED
    BY <1>1, <1>3, <1>4 DEF Rotates
<1> QED
  BY <1>2, <1>5, RotatingUpdate

(* The one that matters: a sweep out of budget is past its first account.  *)
LEMMA RotatingPrefix ==
  ASSUME ShareOfBudget, SweepInv, Rotating, NEW w \in Sweepers, NextPrefix(w)
  PROVE  Rotating'
<1> DEFINE s == sweep[w]
           budget == BUDGET - s.total
           share == CAP - s.account
           none == [q \in Prefixes |-> {}]
<1>1. /\ s \in SweepState /\ Rotates(s) /\ s.pc = "prefixes"
      /\ s.step \in 1 .. NA /\ s.start \in Accounts
      /\ s.total \in Nat /\ s.account \in Nat
      /\ CAP > 0 => s.account <= CAP
  <2>1. s \in SweepState /\ Rotates(s) /\ s.pc = "prefixes"
    BY DEF SweepInv, TypeOK, Rotating, NextPrefix
  <2>2. s.step > 0
    BY <2>1 DEF Rotates
  <2>3. s.step \in 0 .. NA /\ s.start \in Accounts /\ NA \in Nat
    BY <2>1, SizesAssumption DEF SweepState
  <2>4. s.total \in UpTo(BUDGET) /\ s.account \in UpTo(CAP)
    BY <2>1 DEF SweepState
  <2> QED
    BY <2>1, <2>2, <2>3, <2>4, LimitsAssumption DEF UpTo
<1>2. PICK p \in ToDo(s) :
        IF BUDGET > 0 /\ budget <= 0
          THEN Set(w, [s EXCEPT !.pc = "finish", !.hit = TRUE, !.stop = p[1]])
        ELSE IF CAP > 0 /\ share <= 0
          THEN Set(w, [s EXCEPT !.pc = "accounts", !.list = none])
        ELSE \E K1 \in (IF BUDGET > 0 THEN First(budget, s.list[p]) ELSE {s.list[p]}) :
             \E K2 \in (IF CAP > 0 THEN First(share, K1) ELSE {K1}) :
               Set(w, [s EXCEPT !.pc = "batch", !.at = p, !.keys = K2,
                                !.list = [s.list EXCEPT ![p] = {}]])
  BY DEF NextPrefix
<1>3. CASE BUDGET > 0 /\ budget <= 0
  <2> DEFINE n == [s EXCEPT !.pc = "finish", !.hit = TRUE, !.stop = p[1]]
  <2>1. s.step # 1
    BY <1>1, <1>3, LimitsAssumption DEF Rotates, ShareOfBudget
  <2>2. p[1] = Current(s)
    BY <1>1 DEF Rotates
  <2>3. p[1] # s.start
    <3> DEFINE k == s.step - 1
    <3>1. k \in 1 .. NA - 1
      BY <1>1, <2>1, SizesAssumption
    <3> HIDE DEF k
    <3>2. ((s.start - 1 + k) % NA) + 1 # s.start
      BY <1>1, <3>1, AroundAccounts
    <3> QED
      BY <2>2, <3>2 DEF Current, k
  <2>4. n.pc = "finish" /\ n.stop = p[1] /\ n.start = s.start
    BY <1>1 DEF SweepState
  <2>5. Rotates(n)
    <3> HIDE DEF n
    <3> QED
      BY <2>3, <2>4 DEF Rotates
  <2> QED
    BY <1>2, <1>3, <2>5, RotatingUpdate
<1>4. CASE ~(BUDGET > 0 /\ budget <= 0) /\ CAP > 0 /\ share <= 0
  <2> DEFINE n == [s EXCEPT !.pc = "accounts", !.list = none]
  <2>1. Rotates(n)
    BY <1>1 DEF SweepState, Rotates
  <2> QED
    BY <1>2, <1>4, <2>1, RotatingUpdate
<1>5. CASE ~(BUDGET > 0 /\ budget <= 0) /\ ~(CAP > 0 /\ share <= 0)
  <2>1. PICK K2 : Set(w, [s EXCEPT !.pc = "batch", !.at = p, !.keys = K2,
                                   !.list = [s.list EXCEPT ![p] = {}]])
    BY <1>2, <1>5
  <2> DEFINE n == [s EXCEPT !.pc = "batch", !.at = p, !.keys = K2,
                            !.list = [s.list EXCEPT ![p] = {}]]
  <2>2. /\ n.pc = "batch" /\ n.stop = s.stop /\ n.start = s.start
        /\ n.step = s.step /\ n.total = s.total /\ n.account = s.account
        /\ ToDo(n) \subseteq ToDo(s)
    BY <1>1 DEF SweepState, ToDo
  <2>3. Rotates(n)
    <3> HIDE DEF n
    <3> QED
      BY <1>1, <2>2 DEF Rotates, Current
  <2> QED
    BY <2>1, <2>3, RotatingUpdate
<1> QED
  BY <1>3, <1>4, <1>5

LEMMA RotatingFetch ==
  ASSUME SweepInv, Rotating, NEW w \in Sweepers, FetchBatch(w)
  PROVE  Rotating'
<1> DEFINE s == sweep[w]
<1>1. s \in SweepState /\ Rotates(s) /\ s.pc = "batch" /\ s.at \in Prefixes
  BY DEF SweepInv, TypeOK, Rotating, FetchBatch, SweepState
<1>2. PICK batch \in First(BATCH, s.keys) :
        \E good \in Fetched(batch) : \E run \in Runs(batch, good) :
        \E c \in Last(run, s.cur[s.at]) : AfterBatch(w, batch, good, run, c)
  BY DEF FetchBatch
<1>3. PICK run, keys, cur, events :
        Set(w, [s EXCEPT !.total = @ + Cardinality(run),
                         !.account = @ + Cardinality(run),
                         !.events = events, !.cur = cur, !.keys = keys])
  BY <1>2 DEF AfterBatch
<1> DEFINE n == [s EXCEPT !.total = @ + Cardinality(run),
                          !.account = @ + Cardinality(run),
                          !.events = events, !.cur = cur, !.keys = keys]
<1>4. /\ n.pc = s.pc /\ n.stop = s.stop /\ n.start = s.start /\ n.step = s.step
      /\ n.total = s.total + Cardinality(run)
      /\ n.account = s.account + Cardinality(run)
      /\ ToDo(n) = ToDo(s)
  BY <1>1 DEF SweepState, ToDo
<1>5. Rotates(n)
  <2> HIDE DEF n
  <2> QED
    BY <1>1, <1>4 DEF Rotates, Current
<1> QED
  BY <1>3, <1>5, RotatingUpdate

LEMMA RotatingStep ==
  ASSUME ShareOfBudget, SweepInv, Rotating, [Next]_vars PROVE Rotating'
<1>1. Rotates(NoSweep)
  BY DEF Rotates, NoSweep
<1>2. CASE NewDay \/ (\E p \in Prefixes, k \in Keys : Deliver(p, k)) \/ UNCHANGED vars
  BY <1>2 DEF NewDay, Deliver, vars, Rotating
<1>3. ASSUME NEW w \in Sweepers, Step(w) \/ Cancel(w) \/ Fail(w) PROVE Rotating'
  <2>0. sweep[w] \in SweepState /\ Rotates(sweep[w])
    BY DEF SweepInv, TypeOK, Rotating
  <2>1. CASE StartSweep(w)
    <3> DEFINE n == [NoSweep EXCEPT
           !.pc = "accounts", !.today = today, !.cur = saved.cur,
           !.resume = saved.resume,
           !.start = IF saved.resume = NoResume THEN 1 ELSE saved.resume]
    <3>1. Rotates(n)
      BY DEF Rotates, NoSweep
    <3> QED
      BY <2>1, <3>1, RotatingUpdate DEF StartSweep
  <2>2. CASE ListAccount(w)
    BY <2>2, RotatingList
  <2>3. CASE NextPrefix(w)
    BY <2>3, RotatingPrefix
  <2>4. CASE FetchBatch(w)
    BY <2>4, RotatingFetch
  <2>5. CASE EndAccounts(w) \/ Cancel(w)
    BY <2>0, <2>5, RotatingGoto, RotatingUpdate DEF EndAccounts, Cancel, SweepPC
  <2>6. CASE EndPrefixes(w)
    BY <2>0, <2>6, RotatingGoto, RotatingUpdate DEF EndPrefixes, SweepPC
  <2>7. CASE EndBatches(w)
    BY <2>0, <2>7, RotatingGoto, RotatingUpdate DEF EndBatches, SweepPC
  <2>8. CASE Finish(w) \/ Fail(w)
    BY <1>1, <2>8, RotatingUpdate DEF Finish, Fail
  <2> QED
    BY <1>3, <2>1, <2>2, <2>3, <2>4, <2>5, <2>6, <2>7, <2>8 DEF Step
<1> QED
  BY <1>2, <1>3 DEF Next

(* run_once: the budget "walks across all accounts": a sweep that runs out *)
(* of budget hands the next one another account than the one it started    *)
(* at, for any number of accounts, as long as no account may take it all.  *)
THEOREM RotationGoesOn == ASSUME ShareOfBudget PROVE Spec => []RotationMoves
<1>1. Init => Rotating
  BY DEF Init, Rotating, Rotates, NoSweep
<1>2. SweepInv /\ Rotating /\ [Next]_vars => Rotating'
  BY RotatingStep
<1>3. Rotating => RotationMoves
  BY DEF Rotating, Rotates, RotationMoves
<1> QED
  BY <1>1, <1>2, <1>3, SweepInvariant, PTL DEF Spec

-----------------------------------------------------------------------------
(* No grinding.  One leader at a time; while nothing has failed.           *)

OneSweeper == \A v, w \in Sweepers : v = w

(* What was done of the days that a sweep of this day, or a later one, may *)
(* still list is behind the cursors.                                       *)
Fresh(cur, day, D) ==
  \A p \in Prefixes : p[3] >= day - WINDOW => \A k \in D[p] : k <= cur[p]

(* So are the cursors a sweep works with, and once it is over those it has *)
(* saved: pruning forgets only what no later sweep looks at.  The sweep    *)
(* still has to do only what lies ahead of its cursors.                    *)
Ahead(s, D, cur, day) ==
  /\ s.today <= day
  /\ s.pc = "idle" => /\ Fresh(cur, day, D)
                      /\ \A p \in Prefixes : s.list[p] = {}
  /\ s.pc # "idle" => Fresh(s.cur, s.today, D)
  /\ \A p \in Prefixes : /\ s.list[p] # {} => p[3] > s.today - WINDOW
                         /\ \A k \in s.list[p] : k > s.cur[p]
  /\ s.pc = "batch" => /\ s.list[s.at] = {}
                       /\ \A k \in s.keys : k > s.cur[s.at]

GrindInv == faults = 0 => \A w \in Sweepers : Ahead(sweep[w], done, saved.cur, today)

(* A set of keys has a least one. *)
LEMMA LeastKey ==
  ASSUME NEW X \in SUBSET Keys, X # {}
  PROVE  \E x \in X : \A y \in X : x <= y
<1> DEFINE Front(x) == {y \in X : y <= x}
           T == {Front(x) : x \in X}
           R == StrictSubsetOrdering(X)
<1>1. T \subseteq SUBSET X /\ T # {}
  OBVIOUS
<1>2. IsWellFoundedOn(R, SUBSET X)
  <2>1. IsFiniteSet(X)
    BY KeysFinite
  <2>2. FiniteSubsetsOf(X) = SUBSET X
    BY <2>1, FS_FiniteSubsetsOfFinite
  <2>3. IsWellFoundedOn(R, FiniteSubsetsOf(X))
    BY FS_StrictSubsetOrderingWellFounded
  <2> HIDE DEF R
  <2> QED
    BY <2>2, <2>3
<1>3. PICK I \in T : \A J \in T : <<J, I>> \notin R
  <2> HIDE DEF T, R
  <2> QED
    BY <1>1, <1>2, WFMin
<1>4. PICK x \in X : I = Front(x)
  OBVIOUS
<1>5. ASSUME NEW y \in X PROVE x <= y
  <2>0. \A z \in X : z \in Int
    BY DEF Keys
  <2> SUFFICES ASSUME y < x PROVE FALSE
    BY <2>0
  <2>1. Front(y) \subseteq Front(x) /\ x \in Front(x) /\ x \notin Front(y)
    BY <2>0
  <2>2. Front(y) \in SUBSET X /\ Front(x) \in SUBSET X /\ Front(y) \in T
    OBVIOUS
  <2>3. <<Front(y), Front(x)>> \in R
    BY <2>1, <2>2 DEF StrictSubsetOrdering
  <2> QED
    BY <1>3, <1>4, <2>2, <2>3
<1> QED
  BY <1>5

(* A run of successes where everything succeeded is all of the batch. *)
LEMMA AllGood ==
  ASSUME NEW batch \in SUBSET Keys, NEW run \in Runs(batch, batch)
  PROVE  run = batch
<1>1. run \in SUBSET batch
  BY DEF Runs, Segments
<1>2. \A x \in batch \ run : ~(\A y \in batch \ run : x <= y)
  BY DEF Runs
<1>3. batch \ run # {} => \E x \in batch \ run : \A y \in batch \ run : x <= y
  BY LeastKey
<1> QED
  BY <1>1, <1>2, <1>3

LEMMA AheadUpdate ==
  ASSUME OneSweeper, SweepInv, NEW w \in Sweepers, NEW n, Set(w, n),
         faults' = 0 => Ahead(n, done', saved'.cur, today')
  PROVE  GrindInv'
<1>1. sweep'[w] = n
  BY DEF SweepInv, TypeOK, Set
<1> QED
  BY <1>1 DEF OneSweeper, GrindInv

(* Only the pc changes. *)
LEMMA AheadGoto ==
  ASSUME NEW s \in SweepState, NEW D, NEW cur, NEW day, Ahead(s, D, cur, day),
         s.pc # "idle", NEW pc \in {"accounts", "prefixes", "finish"}
  PROVE  Ahead([s EXCEPT !.pc = pc], D, cur, day)
<1> DEFINE n == [s EXCEPT !.pc = pc]
<1>1. /\ n.pc = pc /\ n.today = s.today /\ n.list = s.list /\ n.cur = s.cur
  BY DEF SweepState
<1> HIDE DEF n
<1>2. Ahead(n, D, cur, day)
  BY <1>1 DEF Ahead
<1> QED
  BY <1>2 DEF n

LEMMA AheadFetch ==
  ASSUME OneSweeper, SweepInv, GrindInv, NEW w \in Sweepers, FetchBatch(w)
  PROVE  GrindInv'
<1> DEFINE s == sweep[w]
<1>1. /\ s \in SweepState /\ s.pc = "batch" /\ UNCHANGED <<today, bucket>>
      /\ s.at \in Prefixes /\ s.keys \in SUBSET Keys
      /\ s.cur \in [Prefixes -> 0 .. NK]
      /\ done[s.at] \in SUBSET Keys /\ done \in [Prefixes -> SUBSET Keys]
  BY DEF SweepInv, TypeOK, FetchBatch, SweepState
<1>2. PICK batch \in First(BATCH, s.keys) :
        \E good \in Fetched(batch) : \E run \in Runs(batch, good) :
        \E c \in Last(run, s.cur[s.at]) : AfterBatch(w, batch, good, run, c)
  BY DEF FetchBatch
<1>2_good. PICK good \in Fetched(batch) :
        \E run \in Runs(batch, good) :
        \E c \in Last(run, s.cur[s.at]) : AfterBatch(w, batch, good, run, c)
  BY <1>2
<1>2_run. PICK run \in Runs(batch, good) :
        \E c \in Last(run, s.cur[s.at]) : AfterBatch(w, batch, good, run, c)
  BY <1>2_good
<1>2_c. PICK c \in Last(run, s.cur[s.at]) : AfterBatch(w, batch, good, run, c)
  BY <1>2_run
<1>3. /\ batch \in SUBSET s.keys
      /\ \A x \in batch, y \in s.keys : y < x => y \in batch
  BY <1>1, SizesAssumption, FirstKeys
<1> DEFINE total == s.total + Cardinality(run)
           account == s.account + Cardinality(run)
           events == s.events + Cardinality(run \ done[s.at])
           cur == [s.cur EXCEPT ![s.at] = c]
           keys == IF run = batch THEN s.keys \ batch ELSE {}
           n == [s EXCEPT !.total = total, !.account = account,
                          !.events = events, !.cur = cur, !.keys = keys]
<1>4. Set(w, n) /\ (IF good = batch THEN UNCHANGED faults ELSE Fault)
      /\ done' = [done EXCEPT ![s.at] = @ \cup good]
  BY <1>2_c DEF AfterBatch
<1> HIDE DEF total, account, events
<1>5. /\ n.pc = s.pc /\ n.at = s.at /\ n.list = s.list /\ n.today = s.today
      /\ n.cur = cur /\ n.keys = keys
  BY <1>1 DEF SweepState
<1> HIDE DEF n
<1>6. ASSUME faults' = 0 PROVE Ahead(n, done', saved'.cur, today')
  <2>1. good = batch /\ faults = 0
    BY <1>4, <1>6, LimitsAssumption DEF SweepInv, TypeOK, Fault
  <2>2. run = batch
    BY <1>1, <1>3, <2>1, AllGood
  <2>3. Ahead(s, done, saved.cur, today)
    BY <2>1 DEF GrindInv
  <2>4. /\ c \in 0 .. NK /\ s.cur[s.at] <= c
        /\ \A k \in batch : k <= c
        /\ \A k \in s.keys \ batch : k > c
    <3>1. CASE run = {}
      BY <1>1, <2>2, <2>3, <3>1 DEF Last, Ahead, Keys
    <3>2. CASE run # {}
      <4>1. c \in batch /\ \A k \in batch : k <= c
        BY <2>2, <3>2 DEF Last
      <4>2. c > s.cur[s.at]
        BY <1>1, <1>3, <2>3, <4>1 DEF Ahead
      <4>3. \A k \in s.keys \ batch : k > c
        BY <1>1, <1>3, <4>1 DEF Keys
      <4> QED
        BY <1>1, <1>3, <4>1, <4>2, <4>3 DEF Keys
    <3> QED
      BY <3>1, <3>2
  <2>5. Fresh(cur, s.today, done')
    <3> SUFFICES ASSUME NEW p \in Prefixes, p[3] >= s.today - WINDOW,
                        NEW k \in done'[p]
                 PROVE  k <= cur[p]
      BY DEF Fresh
    <3>1. \A x \in done[p] : x <= s.cur[p]
      BY <1>1, <2>3 DEF Ahead, Fresh
    <3>2. CASE p = s.at
      <4>1. k \in done[p] \cup batch /\ cur[p] = c /\ k \in Keys
        BY <1>1, <1>3, <1>4, <2>1, <3>2
      <4> QED
        BY <1>1, <2>4, <3>1, <3>2, <4>1 DEF Keys
    <3>3. CASE p # s.at
      BY <1>1, <1>4, <3>1, <3>3
    <3> QED
      BY <3>2, <3>3
  <2>6. \A p \in Prefixes : \A k \in s.list[p] : k > cur[p]
    BY <1>1, <2>3 DEF Ahead
  <2>7. \A k \in keys : k > cur[s.at]
    BY <1>1, <2>2, <2>4
  <2> HIDE DEF cur, keys
  <2> QED
    BY <1>1, <1>5, <2>3, <2>5, <2>6, <2>7 DEF Ahead
<1> QED
  BY <1>4, <1>6, AheadUpdate

LEMMA AheadPrefix ==
  ASSUME OneSweeper, SweepInv, GrindInv, NEW w \in Sweepers, NextPrefix(w)
  PROVE  GrindInv'
<1> DEFINE s == sweep[w]
           budget == BUDGET - s.total
           share == CAP - s.account
           none == [q \in Prefixes |-> {}]
<1>1. /\ s \in SweepState /\ s.pc = "prefixes"
      /\ UNCHANGED <<today, bucket, done, saved, faults>>
      /\ s.total \in Nat /\ s.account \in Nat
      /\ faults = 0 => Ahead(s, done, saved.cur, today)
  <2>1. /\ s \in SweepState /\ s.pc = "prefixes"
        /\ UNCHANGED <<today, bucket, done, saved, faults>>
    BY DEF SweepInv, TypeOK, NextPrefix
  <2>2. s.total \in UpTo(BUDGET) /\ s.account \in UpTo(CAP)
    BY <2>1 DEF SweepState
  <2>3. faults = 0 => Ahead(s, done, saved.cur, today)
    BY DEF GrindInv
  <2> QED
    BY <2>1, <2>2, <2>3, LimitsAssumption DEF UpTo
<1>2. PICK p \in ToDo(s) :
        IF BUDGET > 0 /\ budget <= 0
          THEN Set(w, [s EXCEPT !.pc = "finish", !.hit = TRUE, !.stop = p[1]])
        ELSE IF CAP > 0 /\ share <= 0
          THEN Set(w, [s EXCEPT !.pc = "accounts", !.list = none])
        ELSE \E K1 \in (IF BUDGET > 0 THEN First(budget, s.list[p]) ELSE {s.list[p]}) :
             \E K2 \in (IF CAP > 0 THEN First(share, K1) ELSE {K1}) :
               Set(w, [s EXCEPT !.pc = "batch", !.at = p, !.keys = K2,
                                !.list = [s.list EXCEPT ![p] = {}]])
  BY DEF NextPrefix
<1>3. CASE BUDGET > 0 /\ budget <= 0
  <2> DEFINE n == [s EXCEPT !.pc = "finish", !.hit = TRUE, !.stop = p[1]]
  <2>1. n.pc = "finish" /\ n.today = s.today /\ n.list = s.list /\ n.cur = s.cur
    BY <1>1 DEF SweepState
  <2>2. Set(w, n)
    BY <1>2, <1>3
  <2> HIDE DEF n
  <2>3. faults = 0 => Ahead(n, done, saved.cur, today)
    BY <1>1, <2>1 DEF Ahead
  <2> QED
    BY <1>1, <2>2, <2>3, AheadUpdate
<1>4. CASE ~(BUDGET > 0 /\ budget <= 0) /\ CAP > 0 /\ share <= 0
  <2> DEFINE n == [s EXCEPT !.pc = "accounts", !.list = none]
  <2>1. n.pc = "accounts" /\ n.today = s.today /\ n.list = none /\ n.cur = s.cur
    BY <1>1 DEF SweepState
  <2>2. Set(w, n)
    BY <1>2, <1>4
  <2> HIDE DEF n
  <2>3. faults = 0 => Ahead(n, done, saved.cur, today)
    BY <1>1, <2>1 DEF Ahead
  <2> QED
    BY <1>1, <2>2, <2>3, AheadUpdate
<1>5. CASE ~(BUDGET > 0 /\ budget <= 0) /\ ~(CAP > 0 /\ share <= 0)
  <2>1. PICK K1 \in (IF BUDGET > 0 THEN First(budget, s.list[p]) ELSE {s.list[p]}) :
          \E K2 \in (IF CAP > 0 THEN First(share, K1) ELSE {K1}) :
            Set(w, [s EXCEPT !.pc = "batch", !.at = p, !.keys = K2,
                             !.list = [s.list EXCEPT ![p] = {}]])
    BY <1>2, <1>5
  <2>2. PICK K2 \in (IF CAP > 0 THEN First(share, K1) ELSE {K1}) :
          Set(w, [s EXCEPT !.pc = "batch", !.at = p, !.keys = K2,
                           !.list = [s.list EXCEPT ![p] = {}]])
    BY <2>1
  <2>3. K2 \subseteq s.list[p]
    BY DEF First, Segments
  <2> DEFINE list == [s.list EXCEPT ![p] = {}]
             n == [s EXCEPT !.pc = "batch", !.at = p, !.keys = K2, !.list = list]
  <2>4. /\ p \in Prefixes /\ list[p] = {}
        /\ \A q \in Prefixes : list[q] \subseteq s.list[q]
    BY <1>1 DEF ToDo, SweepState
  <2>5. /\ n.pc = "batch" /\ n.today = s.today /\ n.list = list /\ n.cur = s.cur
        /\ n.at = p /\ n.keys = K2
    BY <1>1 DEF SweepState
  <2>6. Set(w, n)
    BY <2>2
  <2> HIDE DEF n, list
  <2>7. faults = 0 => Ahead(n, done, saved.cur, today)
    <3> SUFFICES ASSUME faults = 0 PROVE Ahead(n, done, saved.cur, today)
      OBVIOUS
    <3>1. /\ \A q \in Prefixes : /\ s.list[q] # {} => q[3] > s.today - WINDOW
                                /\ \A k \in s.list[q] : k > s.cur[q]
          /\ Fresh(s.cur, s.today, done) /\ s.today <= today
      BY <1>1 DEF Ahead
    <3>2. \A q \in Prefixes : /\ list[q] # {} => q[3] > s.today - WINDOW
                             /\ \A k \in list[q] : k > s.cur[q]
      BY <2>4, <3>1
    <3>3. \A k \in K2 : k > s.cur[p]
      BY <2>3, <2>4, <3>1
    <3> QED
      BY <2>4, <2>5, <3>1, <3>2, <3>3 DEF Ahead
  <2> QED
    BY <1>1, <2>6, <2>7, AheadUpdate
<1> QED
  BY <1>3, <1>4, <1>5

LEMMA AheadList ==
  ASSUME OneSweeper, SweepInv, GrindInv, NEW w \in Sweepers, ListAccount(w)
  PROVE  GrindInv'
<1> DEFINE s == sweep[w]
           here == {p \in Window(s) : p[1] = AccountAt(s)}
<1>1. /\ s \in SweepState /\ s.pc = "accounts"
      /\ UNCHANGED <<today, bucket, done, saved>>
  BY DEF SweepInv, TypeOK, ListAccount
<1>2. PICK failed \in SUBSET here :
        /\ (IF failed = {} THEN UNCHANGED faults ELSE Fault)
        /\ Set(w, [s EXCEPT
             !.pc = "prefixes", !.step = @ + 1, !.account = 0,
             !.list = [p \in Prefixes |-> IF p \in here \ failed
                                            THEN Behind(s.cur[p], bucket[p])
                                            ELSE {}]])
  BY DEF ListAccount
<1> DEFINE list == [p \in Prefixes |-> IF p \in here \ failed
                                         THEN Behind(s.cur[p], bucket[p])
                                         ELSE {}]
           n == [s EXCEPT !.pc = "prefixes", !.step = @ + 1, !.account = 0,
                          !.list = list]
<1>3. Set(w, n)
  BY <1>2
<1>4. n.pc = "prefixes" /\ n.today = s.today /\ n.list = list /\ n.cur = s.cur
  BY <1>1 DEF SweepState
<1>5. \A p \in Prefixes : /\ list[p] # {} => p[3] > s.today - WINDOW
                         /\ \A k \in list[p] : k > s.cur[p]
  BY DEF Window, Behind
<1> HIDE DEF n, list
<1>6. faults' = 0 => faults = 0
  BY <1>2 DEF Fault, SweepInv, TypeOK
<1>7. faults = 0 => Ahead(n, done, saved.cur, today)
  <2> SUFFICES ASSUME faults = 0 PROVE Ahead(n, done, saved.cur, today)
    OBVIOUS
  <2>1. Ahead(s, done, saved.cur, today)
    BY DEF GrindInv
  <2> QED
    BY <1>1, <1>4, <1>5, <2>1 DEF Ahead
<1> QED
  BY <1>1, <1>3, <1>6, <1>7, AheadUpdate

(* A sweep starts with the cursors of the last one, and ends with its own. *)
LEMMA AheadStartFinish ==
  ASSUME OneSweeper, SweepInv, GrindInv, NEW w \in Sweepers,
         StartSweep(w) \/ Finish(w)
  PROVE  GrindInv'
<1> DEFINE s == sweep[w]
<1>1. /\ s \in SweepState /\ today \in Days /\ s.today \in Days
      /\ UNCHANGED <<today, bucket, done, faults>>
      /\ faults = 0 => Ahead(s, done, saved.cur, today)
  BY DEF SweepInv, TypeOK, SweepState, StartSweep, Finish, GrindInv
<1>2. CASE StartSweep(w)
  <2> DEFINE n == [NoSweep EXCEPT
         !.pc = "accounts", !.today = today, !.cur = saved.cur,
         !.resume = saved.resume,
         !.start = IF saved.resume = NoResume THEN 1 ELSE saved.resume]
  <2>1. /\ n.pc = "accounts" /\ n.today = today /\ n.cur = saved.cur
        /\ n.list = [p \in Prefixes |-> {}]
    BY DEF NoSweep
  <2>2. Set(w, n) /\ s.pc = "idle" /\ UNCHANGED saved
    BY <1>2 DEF StartSweep
  <2> HIDE DEF n
  <2>3. faults = 0 => Ahead(n, done, saved.cur, today)
    BY <1>1, <2>1, <2>2 DEF Ahead, Days
  <2> QED
    BY <1>1, <2>2, <2>3, AheadUpdate
<1>3. CASE Finish(w)
  <2>1. Set(w, NoSweep) /\ s.pc = "finish" /\ saved'.cur = Prune(s)
    BY <1>3 DEF Finish
  <2>2. NoSweep.pc = "idle" /\ NoSweep.today = 1 /\ NoSweep.list = [p \in Prefixes |-> {}]
    BY DEF NoSweep
  <2>3. ASSUME faults = 0 PROVE Fresh(Prune(s), today, done)
    <3> SUFFICES ASSUME NEW p \in Prefixes, p[3] >= today - WINDOW,
                        NEW k \in done[p]
                 PROVE  k <= Prune(s)[p]
      BY DEF Fresh
    <3>1. s.today <= today /\ Fresh(s.cur, s.today, done)
      BY <1>1, <2>1, <2>3 DEF Ahead
    <3>2. p[3] >= s.today - WINDOW
      BY <1>1, <3>1, SizesAssumption DEF Prefixes, Days
    <3> QED
      BY <3>1, <3>2 DEF Prune, Fresh
  <2> DEFINE n == NoSweep
  <2> HIDE DEF n
  <2>4. faults = 0 => Ahead(n, done, saved'.cur, today)
    BY <1>1, <2>1, <2>2, <2>3 DEF Ahead, Days, n
  <2> QED
    BY <1>1, <2>1, <2>4, AheadUpdate DEF n
<1> QED
  BY <1>2, <1>3

LEMMA GrindStep ==
  ASSUME OneSweeper, SweepInv, GrindInv, [Next]_vars PROVE GrindInv'
<1>1. CASE NewDay
  <2>1. /\ today \in Nat /\ today' = today + 1 /\ WINDOW \in Nat
        /\ UNCHANGED <<bucket, done, saved, sweep, faults>>
    BY <1>1, SizesAssumption DEF NewDay, SweepInv, TypeOK, Days
  <2>2. ASSUME NEW cur, Fresh(cur, today, done) PROVE Fresh(cur, today + 1, done)
    BY <2>1, <2>2 DEF Fresh, Prefixes, Days
  <2>3. \A w \in Sweepers : sweep[w].today \in Nat
    BY DEF SweepInv, TypeOK, SweepState, Days
  <2>4. ASSUME NEW w \in Sweepers, Ahead(sweep[w], done, saved.cur, today)
        PROVE  Ahead(sweep[w], done, saved.cur, today + 1)
    BY <2>1, <2>2, <2>3, <2>4 DEF Ahead
  <2> QED
    BY <2>1, <2>4 DEF GrindInv
<1>2. CASE (\E p \in Prefixes, k \in Keys : Deliver(p, k)) \/ UNCHANGED vars
  BY <1>2 DEF Deliver, vars, GrindInv
<1>3. ASSUME NEW w \in Sweepers, Step(w) \/ Cancel(w) \/ Fail(w) PROVE GrindInv'
  <2>0. /\ sweep[w] \in SweepState
        /\ faults = 0 => Ahead(sweep[w], done, saved.cur, today)
    BY DEF SweepInv, TypeOK, GrindInv
  <2>1. CASE StartSweep(w) \/ Finish(w)
    BY <2>1, AheadStartFinish
  <2>2. CASE ListAccount(w)
    BY <2>2, AheadList
  <2>3. CASE NextPrefix(w)
    BY <2>3, AheadPrefix
  <2>4. CASE FetchBatch(w)
    BY <2>4, AheadFetch
  <2>5. CASE EndAccounts(w)
    BY <2>0, <2>5, AheadGoto, AheadUpdate DEF EndAccounts
  <2>6. CASE EndPrefixes(w)
    BY <2>0, <2>6, AheadGoto, AheadUpdate DEF EndPrefixes
  <2>7. CASE EndBatches(w)
    BY <2>0, <2>7, AheadGoto, AheadUpdate DEF EndBatches
  <2>8. CASE Cancel(w) \/ Fail(w)
    <3>1. faults' # 0
      BY <2>8 DEF Cancel, Fail, Fault, SweepInv, TypeOK
    <3> QED
      BY <3>1 DEF GrindInv
  <2> QED
    BY <1>3, <2>1, <2>2, <2>3, <2>4, <2>5, <2>6, <2>7, <2>8 DEF Step
<1> QED
  BY <1>1, <1>2, <1>3 DEF Next

(* While nothing fails a sweep lists no object that was ingested before:   *)
(* heartbeats, pruning, budget and cap never make a sweep go back.         *)
THEOREM NoObjectTwice == ASSUME OneSweeper PROVE Spec => []NoDuplicateGrinding
<1>1. Init => GrindInv
  BY DEF Init, GrindInv, Ahead, Fresh, NoSweep
<1>2. SweepInv /\ GrindInv /\ [Next]_vars => GrindInv'
  BY GrindStep
<1>3. SweepInv /\ GrindInv => NoDuplicateGrinding
  <2> SUFFICES ASSUME SweepInv, GrindInv, faults = 0, NEW w \in Sweepers,
                      NEW p \in Prefixes, NEW k \in sweep[w].list[p], k \in done[p]
               PROVE  FALSE
    BY DEF NoDuplicateGrinding
  <2> DEFINE s == sweep[w]
  <2>1. Ahead(s, done, saved.cur, today) /\ s \in SweepState
    BY DEF GrindInv, SweepInv, TypeOK
  <2>2. p[3] >= s.today - WINDOW
    BY <2>1, SizesAssumption DEF Ahead, SweepState, Prefixes, Days
  <2>3. k > s.cur[p] /\ k <= s.cur[p]
    BY <2>1, <2>2 DEF Ahead, Fresh
  <2>4. k \in Nat /\ s.cur[p] \in Nat
    BY <2>1, SizesAssumption DEF SweepState, Keys
  <2> QED
    BY <2>3, <2>4
<1> QED
  BY <1>1, <1>2, <1>3, SweepInvariant, PTL DEF Spec

-----------------------------------------------------------------------------
(* Sums over finite sets.  The library's induction theorems cannot be used *)
(* (their predicate is an operator); a minimal set that is not good does   *)
(* the same for a predicate given as a set.                                *)

(* Induction over the subsets of a finite set, for a set of good ones. *)
LEMMA SubsetsGood ==
  ASSUME NEW S, IsFiniteSet(S), NEW Good,
         \A T \in SUBSET S :
           (\A U \in SUBSET T : U # T => U \in Good) => T \in Good
  PROVE  SUBSET S \subseteq Good
<1> DEFINE Bad == {T \in SUBSET S : T \notin Good}
           R == StrictSubsetOrdering(S)
<1>1. IsWellFoundedOn(R, SUBSET S)
  <2>1. FiniteSubsetsOf(S) = SUBSET S
    BY FS_FiniteSubsetsOfFinite
  <2>2. IsWellFoundedOn(R, FiniteSubsetsOf(S))
    BY FS_StrictSubsetOrderingWellFounded
  <2> HIDE DEF R
  <2> QED
    BY <2>1, <2>2
<1>2. SUFFICES ASSUME Bad # {} PROVE FALSE
  OBVIOUS
<1>3. PICK T \in Bad : \A U \in Bad : <<U, T>> \notin R
  <2>1. Bad \subseteq SUBSET S
    OBVIOUS
  <2> HIDE DEF Bad, R
  <2> QED
    BY <1>1, <1>2, <2>1, WFMin
<1>4. ASSUME NEW U \in SUBSET T, U # T PROVE U \in Good
  <2>1. U \in SUBSET S /\ T \in SUBSET S
    BY <1>4
  <2>2. <<U, T>> \in R
    BY <1>4, <2>1 DEF StrictSubsetOrdering
  <2> QED
    BY <1>3, <2>1, <2>2
<1> QED
  BY <1>4

(* SumFunction of the community modules adds up a function by taking one   *)
(* element after the other out of its domain.                              *)
Some(s) == CHOOSE x \in s : TRUE
Rest(s) == s \ {Some(s)}

LEMMA RestSmaller ==
  ASSUME NEW s, s # {}
  PROVE  Some(s) \in s /\ Rest(s) \in SUBSET s /\ Rest(s) # s
BY DEF Some, Rest

(* g sums f over every subset of T. *)
Sums(g, f, T) ==
  g = [s \in SUBSET T |-> IF s = {} THEN 0 ELSE f[Some(s)] + g[Rest(s)]]

(* There is one such g for every finite set, so SumFunction is its value.  *)
LEMMA SumsUnique ==
  ASSUME NEW f, NEW T, IsFiniteSet(T), NEW g, NEW h, Sums(g, f, T), Sums(h, f, T)
  PROVE  g = h
<1> DEFINE Good == {s \in SUBSET T : g[s] = h[s]}
<1>1. ASSUME NEW s \in SUBSET T, \A u \in SUBSET s : u # s => u \in Good
      PROVE  s \in Good
  <2>1. CASE s = {}
    BY <2>1 DEF Sums
  <2>2. CASE s # {}
    <3>1. g[Rest(s)] = h[Rest(s)]
      BY <1>1, <2>2, RestSmaller
    <3>2. g[s] = f[Some(s)] + g[Rest(s)] /\ h[s] = f[Some(s)] + h[Rest(s)]
      BY <2>2 DEF Sums
    <3> QED
      BY <3>1, <3>2
  <2> QED
    BY <2>1, <2>2
<1>2. SUBSET T \subseteq Good
  <2> HIDE DEF Good
  <2> QED
    BY <1>1, SubsetsGood
<1>3. \A s \in SUBSET T : g[s] = h[s]
  BY <1>2
<1> QED
  BY <1>3 DEF Sums

LEMMA SumsRestrict ==
  ASSUME NEW f, NEW T, NEW g, Sums(g, f, T), NEW U \in SUBSET T
  PROVE  Sums([s \in SUBSET U |-> g[s]], f, U)
<1> DEFINE h == [s \in SUBSET U |-> g[s]]
<1>1. ASSUME NEW s \in SUBSET U
      PROVE  h[s] = IF s = {} THEN 0 ELSE f[Some(s)] + h[Rest(s)]
  <2>1. g[s] = IF s = {} THEN 0 ELSE f[Some(s)] + g[Rest(s)]
    BY DEF Sums
  <2>2. s # {} => Rest(s) \in SUBSET U
    BY RestSmaller
  <2> QED
    BY <2>1, <2>2
<1> QED
  BY <1>1 DEF Sums

LEMMA SumsExist ==
  ASSUME NEW f, NEW S, IsFiniteSet(S)
  PROVE  \E g : Sums(g, f, S)
<1> DEFINE Good == {T \in SUBSET S : \E g : Sums(g, f, T)}
           G(T) == CHOOSE g : Sums(g, f, T)
<1>1. ASSUME NEW T \in SUBSET S, \A U \in SUBSET T : U # T => U \in Good
      PROVE  T \in Good
  <2>1. ASSUME NEW U \in SUBSET T, U # T PROVE Sums(G(U), f, U)
    BY <1>1, <2>1
  <2> DEFINE h == [s \in SUBSET T |->
                     IF s = {} THEN 0 ELSE f[Some(s)] + G(Rest(s))[Rest(s)]]
  <2>2. ASSUME NEW u \in SUBSET T, u # T PROVE h[u] = G(u)[u]
    <3>1. Sums(G(u), f, u)
      BY <2>1, <2>2
    <3>2. CASE u = {}
      BY <3>1, <3>2 DEF Sums
    <3>3. CASE u # {}
      <4> DEFINE v == Rest(u)
      <4>1. v \in SUBSET u /\ v # u /\ v \in SUBSET T /\ v # T
        BY <2>2, <3>3, RestSmaller
      <4>2. Sums(G(v), f, v)
        BY <2>1, <4>1
      <4>3. Sums([s \in SUBSET v |-> G(u)[s]], f, v)
        <5> HIDE DEF v, G
        <5> QED
          BY <3>1, <4>1, SumsRestrict
      <4>4. G(v) = [s \in SUBSET v |-> G(u)[s]]
        <5>1. IsFiniteSet(v)
          BY <4>1, FS_Subset
        <5> HIDE DEF v, G
        <5> QED
          BY <4>2, <4>3, <5>1, SumsUnique
      <4>5. G(v)[v] = G(u)[v]
        <5> HIDE DEF v, G
        <5> QED
          BY <4>4
      <4>6. G(u)[u] = f[Some(u)] + G(u)[v]
        <5> HIDE DEF G
        <5> QED
          BY <3>1, <3>3 DEF Sums
      <4>7. h[u] = f[Some(u)] + G(v)[v]
        <5> HIDE DEF G
        <5> QED
          BY <3>3
      <4> QED
        BY <4>5, <4>6, <4>7
    <3> QED
      BY <3>2, <3>3
  <2>3. Sums(h, f, T)
    <3>1. ASSUME NEW s \in SUBSET T, s # {} PROVE h[s] = f[Some(s)] + h[Rest(s)]
      <4>1. Rest(s) \in SUBSET T /\ Rest(s) # T
        BY <3>1, RestSmaller
      <4>2. h[Rest(s)] = G(Rest(s))[Rest(s)]
        BY <2>2, <4>1
      <4>3. h[s] = f[Some(s)] + G(Rest(s))[Rest(s)]
        <5> HIDE DEF G
        <5> QED
          BY <3>1
      <4> QED
        BY <4>2, <4>3
    <3>2. h[{}] = 0
      OBVIOUS
    <3>3. \A s \in SUBSET T : h[s] = IF s = {} THEN 0 ELSE f[Some(s)] + h[Rest(s)]
      <4> HIDE DEF h
      <4> QED
        BY <3>1, <3>2
    <3>4. h = [s \in SUBSET T |-> h[s]]
      <4> HIDE DEF G
      <4> QED
        OBVIOUS
    <3> HIDE DEF h
    <3> QED
      BY <3>3, <3>4 DEF Sums
  <2> HIDE DEF h
  <2> QED
    BY <2>3
<1>2. SUBSET S \subseteq Good
  <2> HIDE DEF Good
  <2> QED
    BY <1>1, SubsetsGood
<1> QED
  BY <1>2

LEMMA SumOfFunction ==
  ASSUME NEW f, IsFiniteSet(DOMAIN f)
  PROVE  \E g : Sums(g, f, DOMAIN f) /\ SumFunction(f) = g[DOMAIN f]
<1>1. SumFunction(f) = (CHOOSE g : Sums(g, f, DOMAIN f))[DOMAIN f]
  BY DEF SumFunction, SumFunctionOnSet, FoldFunctionOnSet, MapThenFoldSet, Sums, Some, Rest
<1>2. \E g : Sums(g, f, DOMAIN f)
  BY SumsExist
<1> QED
  BY <1>1, <1>2

(* A sum of numbers is a number; a change of one term changes it as much.  *)
LEMMA SumType ==
  ASSUME NEW S, IsFiniteSet(S), NEW f \in [S -> Nat]
  PROVE  SumFunction(f) \in Nat
<1>1. PICK g : Sums(g, f, S) /\ SumFunction(f) = g[S]
  BY SumOfFunction
<1> DEFINE Good == {s \in SUBSET S : g[s] \in Nat}
<1>2. ASSUME NEW s \in SUBSET S, \A u \in SUBSET s : u # s => u \in Good
      PROVE  s \in Good
  <2>1. g[s] = IF s = {} THEN 0 ELSE f[Some(s)] + g[Rest(s)]
    BY <1>1 DEF Sums
  <2>2. s # {} => Some(s) \in S /\ g[Rest(s)] \in Nat
    BY <1>2, RestSmaller
  <2>3. g[s] \in Nat
    BY <2>1, <2>2
  <2> QED
    BY <2>3
<1>3. SUBSET S \subseteq Good
  <2> HIDE DEF Good
  <2> QED
    BY <1>2, SubsetsGood
<1> QED
  BY <1>1, <1>3

LEMMA SumZero ==
  ASSUME NEW S, IsFiniteSet(S), NEW f \in [S -> Nat], \A x \in S : f[x] = 0
  PROVE  SumFunction(f) = 0
<1>1. PICK g : Sums(g, f, S) /\ SumFunction(f) = g[S]
  BY SumOfFunction
<1> DEFINE Good == {s \in SUBSET S : g[s] = 0}
<1>2. ASSUME NEW s \in SUBSET S, \A u \in SUBSET s : u # s => u \in Good
      PROVE  s \in Good
  <2>1. g[s] = IF s = {} THEN 0 ELSE f[Some(s)] + g[Rest(s)]
    BY <1>1 DEF Sums
  <2>2. s # {} => f[Some(s)] = 0 /\ g[Rest(s)] = 0
    BY <1>2, RestSmaller
  <2> QED
    BY <2>1, <2>2
<1>3. SUBSET S \subseteq Good
  <2> HIDE DEF Good
  <2> QED
    BY <1>2, SubsetsGood
<1> QED
  BY <1>1, <1>3

LEMMA SumUpdate ==
  ASSUME NEW S, IsFiniteSet(S), NEW f \in [S -> Nat], NEW h \in [S -> Nat],
         NEW a \in S, \A x \in S \ {a} : h[x] = f[x]
  PROVE  SumFunction(h) = SumFunction(f) + h[a] - f[a]
<1>1. PICK g : Sums(g, f, S) /\ SumFunction(f) = g[S]
  BY SumOfFunction
<1>2. PICK k : Sums(k, h, S) /\ SumFunction(h) = k[S]
  BY SumOfFunction
<1> DEFINE d(s) == IF a \in s THEN h[a] - f[a] ELSE 0
           Good == {s \in SUBSET S : g[s] \in Int /\ k[s] = g[s] + d(s)}
<1>3. ASSUME NEW s \in SUBSET S, \A u \in SUBSET s : u # s => u \in Good
      PROVE  s \in Good
  <2>1. CASE s = {}
    BY <1>1, <1>2, <2>1 DEF Sums
  <2>2. CASE s # {}
    <3>1. /\ g[s] = f[Some(s)] + g[Rest(s)]
          /\ k[s] = h[Some(s)] + k[Rest(s)]
      BY <1>1, <1>2, <2>2 DEF Sums
    <3>2. /\ Some(s) \in S /\ Some(s) \in s
          /\ g[Rest(s)] \in Int
          /\ k[Rest(s)] = g[Rest(s)] + d(Rest(s))
      BY <1>3, <2>2, RestSmaller
    <3>3. f[Some(s)] \in Nat /\ h[Some(s)] \in Nat /\ f[a] \in Nat /\ h[a] \in Nat
      BY <3>2
    <3>4. CASE Some(s) = a
      <4>1. d(Rest(s)) = 0 /\ d(s) = h[a] - f[a]
        BY <3>2, <3>4 DEF Rest
      <4> HIDE DEF d
      <4> QED
        BY <3>1, <3>2, <3>3, <3>4, <4>1
    <3>5. CASE Some(s) # a
      <4>1. d(Rest(s)) = d(s) /\ d(s) \in Int
        BY <3>3, <3>5 DEF Rest
      <4>2. h[Some(s)] = f[Some(s)]
        BY <3>2, <3>5
      <4> HIDE DEF d
      <4> QED
        BY <3>1, <3>2, <3>3, <4>1, <4>2
    <3> QED
      BY <3>4, <3>5
  <2> QED
    BY <2>1, <2>2
<1>4. SUBSET S \subseteq Good
  <2> HIDE DEF Good
  <2> QED
    BY <1>3, SubsetsGood
<1>5. k[S] = g[S] + (h[a] - f[a]) /\ g[S] \in Int /\ h[a] \in Nat /\ f[a] \in Nat
  BY <1>4
<1> QED
  BY <1>1, <1>2, <1>5

-----------------------------------------------------------------------------
(* The counters                                                            *)

LEMMA PrefixesFinite == IsFiniteSet(Prefixes)
<1> DEFINE Pairs == Accounts \X (Regions \X Days)
           f == [q \in Pairs |-> <<q[1], q[2][1], q[2][2]>>]
<1>1. IsFiniteSet(Accounts) /\ IsFiniteSet(Regions) /\ IsFiniteSet(Days)
  BY SizesAssumption, FS_Interval DEF Accounts, Regions, Days
<1>2. IsFiniteSet(Pairs)
  BY <1>1, FS_Product
<1>3. ASSUME NEW p \in Prefixes PROVE \E q \in Pairs : f[q] = p
  <2> DEFINE q == <<p[1], <<p[2], p[3]>>>>
  <2>1. q \in Pairs /\ f[q] = p
    BY DEF Prefixes
  <2> QED
    BY <2>1
<1>4. \A q \in Pairs : f[q] \in Prefixes
  BY DEF Prefixes
<1>5. f \in Surjection(Pairs, Prefixes)
  <2> HIDE DEF Pairs
  <2>1. f \in [Pairs -> Prefixes]
    BY <1>4
  <2> QED
    BY <1>3, <2>1 DEF Surjection
<1> HIDE DEF Pairs, f
<1> QED
  BY <1>2, <1>5, FS_Surjection

Counted == [w \in Sweepers |-> sweep[w].events]
Stored  == [p \in Prefixes |-> Cardinality(done[p])]

LEMMA CountsType ==
  ASSUME SweepInv
  PROVE  /\ Counted \in [Sweepers -> Nat] /\ Stored \in [Prefixes -> Nat]
         /\ saved.events \in Nat
         /\ SumFunction(Counted) \in Nat /\ SumFunction(Stored) \in Nat
<1>1. \A w \in Sweepers : sweep[w].events \in Nat
  BY DEF SweepInv, TypeOK, SweepState
<1>2. \A p \in Prefixes : Cardinality(done[p]) \in Nat
  BY KeysFinite DEF SweepInv, TypeOK
<1>3. Counted \in [Sweepers -> Nat] /\ Stored \in [Prefixes -> Nat]
  BY <1>1, <1>2 DEF Counted, Stored
<1>4. saved.events \in Nat
  BY DEF SweepInv, TypeOK
<1> QED
  BY <1>3, <1>4, LeadersAssumption, PrefixesFinite, SumType

(* One sweep moves on and commits to one prefix at most: the totals stay   *)
(* right when what it counts in addition is not more than what is new.     *)
LEMMA CountUpdate ==
  ASSUME SweepInv, SweepInv', EventsNotOvercounted,
         NEW w \in Sweepers, NEW n, Set(w, n),
         NEW q \in Prefixes, \A p \in Prefixes \ {q} : done'[p] = done[p],
         saved'.events + n.events + Cardinality(done[q])
           <= saved.events + sweep[w].events + Cardinality(done'[q])
  PROVE  EventsNotOvercounted'
<1>1. /\ Counted \in [Sweepers -> Nat] /\ Stored \in [Prefixes -> Nat]
      /\ saved.events \in Nat
      /\ SumFunction(Counted) \in Nat /\ SumFunction(Stored) \in Nat
  BY CountsType
<1>2. /\ Counted' \in [Sweepers -> Nat] /\ Stored' \in [Prefixes -> Nat]
      /\ saved'.events \in Nat
  <2>1. /\ \A v \in Sweepers : sweep'[v].events \in Nat
        /\ \A p \in Prefixes : Cardinality(done'[p]) \in Nat
        /\ saved'.events \in Nat
    BY KeysFinite DEF SweepInv, TypeOK, SweepState
  <2> QED
    BY <2>1 DEF Counted, Stored
<1>3. sweep'[w] = n /\ \A v \in Sweepers \ {w} : sweep'[v] = sweep[v]
  BY DEF SweepInv, TypeOK, Set
<1>4. SumFunction(Counted') = SumFunction(Counted) + n.events - sweep[w].events
  <2>1. /\ \A v \in Sweepers \ {w} : Counted'[v] = Counted[v]
        /\ Counted'[w] = n.events /\ Counted[w] = sweep[w].events
    BY <1>3 DEF Counted
  <2> QED
    BY <1>1, <1>2, <2>1, LeadersAssumption, SumUpdate
<1>5. SumFunction(Stored')
        = SumFunction(Stored) + Cardinality(done'[q]) - Cardinality(done[q])
  <2>1. /\ \A p \in Prefixes \ {q} : Stored'[p] = Stored[p]
        /\ Stored'[q] = Cardinality(done'[q]) /\ Stored[q] = Cardinality(done[q])
    BY DEF Stored
  <2> QED
    BY <1>1, <1>2, <2>1, PrefixesFinite, SumUpdate
<1>6. /\ n.events \in Nat /\ sweep[w].events \in Nat
      /\ Cardinality(done[q]) \in Nat /\ Cardinality(done'[q]) \in Nat
  <2>1. /\ n.events = Counted'[w] /\ sweep[w].events = Counted[w]
        /\ Cardinality(done[q]) = Stored[q] /\ Cardinality(done'[q]) = Stored'[q]
    BY <1>3 DEF Counted, Stored
  <2> QED
    BY <1>1, <1>2, <2>1
<1>7. saved.events + SumFunction(Counted) <= SumFunction(Stored)
  BY DEF EventsNotOvercounted, Counted, Stored
<1>8. saved'.events + SumFunction(Counted') <= SumFunction(Stored')
  BY <1>1, <1>2, <1>4, <1>5, <1>6, <1>7
<1> QED
  BY <1>8 DEF EventsNotOvercounted, Counted, Stored

(* Nothing is committed or saved, and nothing more is counted. *)
LEMMA CountSame ==
  ASSUME SweepInv, SweepInv', EventsNotOvercounted,
         NEW w \in Sweepers, NEW n, Set(w, n), UNCHANGED <<done, saved>>,
         n.events = 0 \/ n.events = sweep[w].events
  PROVE  EventsNotOvercounted'
<1>1. sweep[w].at \in Prefixes /\ sweep[w].events \in Nat /\ saved.events \in Nat
  BY DEF SweepInv, TypeOK, SweepState
<1>2. Cardinality(done[sweep[w].at]) \in Nat
  BY <1>1, KeysFinite DEF SweepInv, TypeOK
<1> DEFINE q == sweep[w].at
<1> HIDE DEF q
<1>3. saved'.events + n.events + Cardinality(done[q])
        <= saved.events + sweep[w].events + Cardinality(done'[q])
  BY <1>1, <1>2 DEF q
<1> QED
  BY <1>1, <1>3, CountUpdate DEF q

(* A batch counts the objects of its run that were not committed before,   *)
(* and commits them; a heartbeat saves no counters.                        *)
LEMMA CountFetch ==
  ASSUME SweepInv, SweepInv', EventsNotOvercounted,
         NEW w \in Sweepers, FetchBatch(w)
  PROVE  EventsNotOvercounted'
<1> DEFINE s == sweep[w]
           D == done[s.at]
<1>1. /\ s \in SweepState /\ s.at \in Prefixes /\ s.keys \in SUBSET Keys
      /\ D \in SUBSET Keys /\ s.events \in Nat /\ saved.events \in Nat
  BY DEF SweepInv, TypeOK, SweepState
<1>2. PICK batch \in First(BATCH, s.keys) :
        \E good \in Fetched(batch) : \E run \in Runs(batch, good) :
        \E c \in Last(run, s.cur[s.at]) : AfterBatch(w, batch, good, run, c)
  BY DEF FetchBatch
<1>3. PICK good \in Fetched(batch) :
        \E run \in Runs(batch, good) :
        \E c \in Last(run, s.cur[s.at]) : AfterBatch(w, batch, good, run, c)
  BY <1>2
<1>4. PICK run \in Runs(batch, good) :
        \E c \in Last(run, s.cur[s.at]) : AfterBatch(w, batch, good, run, c)
  BY <1>3
<1>5. good \in SUBSET Keys /\ run \subseteq good
  BY <1>1 DEF First, Segments, Fetched, Runs
<1>6. PICK n : /\ Set(w, n)
               /\ n.events = s.events + Cardinality(run \ D)
               /\ done' = [done EXCEPT ![s.at] = @ \cup good]
               /\ saved'.events = saved.events
  <2>1. PICK c : AfterBatch(w, batch, good, run, c)
    BY <1>4
  <2> DEFINE n == [s EXCEPT
        !.total = @ + Cardinality(run),
        !.account = @ + Cardinality(run),
        !.events = @ + Cardinality(run \ done[s.at]),
        !.cur = [s.cur EXCEPT ![s.at] = c],
        !.keys = IF run = batch THEN @ \ batch ELSE {}]
  <2>2. n.events = s.events + Cardinality(run \ D)
    BY <1>1 DEF SweepState
  <2>3. /\ Set(w, n) /\ done' = [done EXCEPT ![s.at] = @ \cup good]
        /\ saved' = saved \/ saved' = Heartbeat(n)
    BY <2>1 DEF AfterBatch
  <2> HIDE DEF n
  <2>4. saved'.events = saved.events
    BY <2>3 DEF Heartbeat, SweepInv, TypeOK
  <2> QED
    BY <2>2, <2>3, <2>4
<1>7. /\ done'[s.at] = D \cup good
      /\ \A p \in Prefixes \ {s.at} : done'[p] = done[p]
  BY <1>1, <1>6 DEF SweepInv, TypeOK
<1>8. /\ Cardinality(D) \in Nat /\ Cardinality(run \ D) \in Nat
      /\ Cardinality(D \cup good) \in Nat
      /\ Cardinality(run \ D) + Cardinality(D) <= Cardinality(D \cup good)
  <2> DEFINE X == run \ D
  <2>1. X \in SUBSET Keys /\ D \cup good \in SUBSET Keys /\ D \cup X \in SUBSET (D \cup good)
    BY <1>1, <1>5
  <2>2. /\ IsFiniteSet(D) /\ IsFiniteSet(X) /\ IsFiniteSet(D \cup good)
        /\ Cardinality(D) \in Nat /\ Cardinality(X) \in Nat
        /\ Cardinality(D \cup good) \in Nat
    BY <1>1, <2>1, KeysFinite
  <2>3. Cardinality(D \cap X) = 0
    <3>1. D \cap X = {}
      OBVIOUS
    <3> QED
      BY <3>1, FS_EmptySet
  <2> DEFINE d == Cardinality(D)
             x == Cardinality(X)
  <2> HIDE DEF X
  <2>4. Cardinality(D \cup X) = Cardinality(D) + Cardinality(X) - Cardinality(D \cap X)
    BY <2>2, FS_Union
  <2>5. Cardinality(D \cup X) <= Cardinality(D \cup good)
    BY <2>1, <2>2, FS_Subset
  <2>6. d \in Nat /\ x \in Nat /\ Cardinality(D \cup X) = d + x
    BY <2>2, <2>3, <2>4
  <2> HIDE DEF d, x
  <2>7. x + d <= Cardinality(D \cup good)
    BY <2>2, <2>5, <2>6
  <2> QED
    BY <2>2, <2>7 DEF X, d, x
<1>9. saved'.events + n.events + Cardinality(done[s.at])
        <= saved.events + s.events + Cardinality(done'[s.at])
  <2> DEFINE m == n.events
             x == Cardinality(run \ D)
  <2>1. m = s.events + x /\ x \in Nat
    BY <1>6, <1>8
  <2> HIDE DEF m, x
  <2>2. saved.events + m + Cardinality(D) <= saved.events + s.events + Cardinality(D \cup good)
    BY <1>1, <1>8, <2>1 DEF x
  <2> QED
    BY <1>6, <1>7, <2>2 DEF m
<1> QED
  BY <1>1, <1>6, <1>7, <1>9, CountUpdate

(* The counters of a sweep are saved once, when it is over. *)
LEMMA CountFinish ==
  ASSUME SweepInv, SweepInv', EventsNotOvercounted,
         NEW w \in Sweepers, Finish(w)
  PROVE  EventsNotOvercounted'
<1> DEFINE q == sweep[w].at
<1>1. /\ q \in Prefixes /\ sweep[w].events \in Nat /\ saved.events \in Nat
      /\ Cardinality(done[q]) \in Nat
  <2>1. q \in Prefixes /\ sweep[w].events \in Nat /\ saved.events \in Nat
    BY DEF SweepInv, TypeOK, SweepState
  <2> QED
    BY <2>1, KeysFinite DEF SweepInv, TypeOK
<1>2. /\ Set(w, NoSweep) /\ NoSweep.events = 0 /\ UNCHANGED done
      /\ saved'.events = saved.events + sweep[w].events
  BY DEF Finish, NoSweep
<1> DEFINE n == NoSweep
<1> HIDE DEF q, n
<1>3. saved'.events + n.events + Cardinality(done[q])
        <= saved.events + sweep[w].events + Cardinality(done'[q])
  BY <1>1, <1>2 DEF n
<1> QED
  BY <1>1, <1>2, <1>3, CountUpdate DEF n

(* The other steps of a sweep leave its counter alone.                     *)
LEMMA ListCounts ==
  ASSUME SweepInv, NEW w \in Sweepers, ListAccount(w)
  PROVE  \E n : Set(w, n) /\ n.events = sweep[w].events
<1> DEFINE s == sweep[w]
<1>1. s \in SweepState
  BY DEF SweepInv, TypeOK
<1>2. PICK list : Set(w, [s EXCEPT !.pc = "prefixes", !.step = @ + 1,
                                   !.account = 0, !.list = list])
  BY DEF ListAccount
<1> DEFINE n == [s EXCEPT !.pc = "prefixes", !.step = @ + 1,
                          !.account = 0, !.list = list]
<1>3. n.events = s.events
  BY <1>1 DEF SweepState
<1> HIDE DEF n
<1> QED
  BY <1>2, <1>3 DEF n

LEMMA GotoCounts ==
  ASSUME SweepInv, NEW w \in Sweepers,
         EndAccounts(w) \/ EndPrefixes(w) \/ EndBatches(w) \/ Cancel(w)
  PROVE  \E n : Set(w, n) /\ n.events = sweep[w].events
<1> DEFINE s == sweep[w]
<1>1. s \in SweepState
  BY DEF SweepInv, TypeOK
<1>2. PICK pc : Set(w, [s EXCEPT !.pc = pc])
  BY DEF EndAccounts, EndPrefixes, EndBatches, Cancel
<1> DEFINE n == [s EXCEPT !.pc = pc]
<1>3. n.events = s.events
  BY <1>1 DEF SweepState
<1> HIDE DEF n
<1> QED
  BY <1>2, <1>3 DEF n

LEMMA PrefixCounts ==
  ASSUME SweepInv, NEW w \in Sweepers, NextPrefix(w)
  PROVE  \E n : Set(w, n) /\ n.events = sweep[w].events
<1> DEFINE s == sweep[w]
<1>1. s \in SweepState
  BY DEF SweepInv, TypeOK
<1>2. \/ \E a : Set(w, [s EXCEPT !.pc = "finish", !.hit = TRUE, !.stop = a])
      \/ \E none : Set(w, [s EXCEPT !.pc = "accounts", !.list = none])
      \/ \E p, K, none : Set(w, [s EXCEPT !.pc = "batch", !.at = p, !.keys = K,
                                         !.list = none])
  BY DEF NextPrefix
<1>3. ASSUME NEW a, Set(w, [s EXCEPT !.pc = "finish", !.hit = TRUE, !.stop = a])
      PROVE  \E n : Set(w, n) /\ n.events = s.events
  <2> DEFINE n == [s EXCEPT !.pc = "finish", !.hit = TRUE, !.stop = a]
  <2>1. n.events = s.events
    BY <1>1 DEF SweepState
  <2> HIDE DEF n
  <2> QED
    BY <1>3, <2>1 DEF n
<1>4. ASSUME NEW none, Set(w, [s EXCEPT !.pc = "accounts", !.list = none])
      PROVE  \E n : Set(w, n) /\ n.events = s.events
  <2> DEFINE n == [s EXCEPT !.pc = "accounts", !.list = none]
  <2>1. n.events = s.events
    BY <1>1 DEF SweepState
  <2> HIDE DEF n
  <2> QED
    BY <1>4, <2>1 DEF n
<1>5. ASSUME NEW p, NEW K, NEW none,
             Set(w, [s EXCEPT !.pc = "batch", !.at = p, !.keys = K, !.list = none])
      PROVE  \E n : Set(w, n) /\ n.events = s.events
  <2> DEFINE n == [s EXCEPT !.pc = "batch", !.at = p, !.keys = K, !.list = none]
  <2>1. n.events = s.events
    BY <1>1 DEF SweepState
  <2> HIDE DEF n
  <2> QED
    BY <1>5, <2>1 DEF n
<1> QED
  BY <1>2, <1>3, <1>4, <1>5

LEMMA CountStep ==
  ASSUME SweepInv, EventsNotOvercounted, [Next]_vars
  PROVE  EventsNotOvercounted'
<1>0. SweepInv'
  BY NextStep, StutterStep
<1>1. CASE NewDay \/ (\E p \in Prefixes, k \in Keys : Deliver(p, k)) \/ UNCHANGED vars
  BY <1>1 DEF NewDay, Deliver, vars, EventsNotOvercounted
<1>2. ASSUME NEW w \in Sweepers, Step(w) \/ Cancel(w) \/ Fail(w)
      PROVE  EventsNotOvercounted'
  <2> DEFINE s == sweep[w]
  <2>0. s \in SweepState
    BY DEF SweepInv, TypeOK
  <2>1. CASE FetchBatch(w)
    BY <1>0, <2>1, CountFetch
  <2>2. CASE Finish(w)
    BY <1>0, <2>2, CountFinish
  <2>3. CASE ~FetchBatch(w) /\ ~Finish(w)
    <3>1. UNCHANGED <<done, saved>>
      BY <1>2, <2>3 DEF Step, StartSweep, ListAccount, EndAccounts, NextPrefix,
                        EndPrefixes, EndBatches, Cancel, Fail
    <3>2. \E n : Set(w, n) /\ (n.events = 0 \/ n.events = s.events)
      <4>1. CASE StartSweep(w)
        <5>1. PICK cur, resume, start :
                Set(w, [NoSweep EXCEPT !.pc = "accounts", !.today = today,
                          !.cur = cur, !.resume = resume, !.start = start])
          BY <4>1 DEF StartSweep
        <5> DEFINE n == [NoSweep EXCEPT !.pc = "accounts", !.today = today,
                           !.cur = cur, !.resume = resume, !.start = start]
        <5>2. n.events = 0
          BY DEF NoSweep
        <5> HIDE DEF n
        <5> QED
          BY <5>1, <5>2 DEF n
      <4>2. CASE ListAccount(w)
        BY <4>2, ListCounts
      <4>3. CASE NextPrefix(w)
        BY <4>3, PrefixCounts
      <4>4. CASE EndAccounts(w) \/ EndPrefixes(w) \/ EndBatches(w) \/ Cancel(w)
        BY <4>4, GotoCounts
      <4>5. CASE Fail(w)
        BY <4>5 DEF Fail, NoSweep
      <4> QED
        BY <1>2, <2>3, <4>1, <4>2, <4>3, <4>4, <4>5 DEF Step
    <3> QED
      BY <1>0, <3>1, <3>2, CountSame
  <2> QED
    BY <2>1, <2>2, <2>3
<1> QED
  BY <1>1, <1>2 DEF Next

(* heartbeat and finalize_sweep: whatever fails, whoever sweeps beside and *)
(* however often the cursors are saved, events_applied together with what  *)
(* the running sweeps have counted never exceeds what was inserted.        *)
THEOREM EventsCountOnce == Spec => []EventsNotOvercounted
<1>1. Init => EventsNotOvercounted
  <2> SUFFICES ASSUME Init PROVE EventsNotOvercounted
    OBVIOUS
  <2>1. SweepInv
    BY InitHolds
  <2>2. /\ \A w \in Sweepers : Counted[w] = 0
        /\ saved.events = 0
    BY DEF Init, NoSweep, Counted
  <2>3. SumFunction(Counted) = 0
    BY <2>1, <2>2, CountsType, SumZero, LeadersAssumption
  <2> QED
    BY <2>1, <2>2, <2>3, CountsType DEF EventsNotOvercounted, Counted, Stored
<1>2. SweepInv /\ EventsNotOvercounted /\ [Next]_vars => EventsNotOvercounted'
  BY CountStep
<1> QED
  BY <1>1, <1>2, SweepInvariant, PTL DEF Spec
=============================================================================
