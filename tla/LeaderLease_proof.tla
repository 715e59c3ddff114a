-------------------------- MODULE LeaderLease_proof --------------------------
(***************************************************************************)
(* Proofs about LeaderLease: the invariant SafetyInv is inductive, for any *)
(* set of replicas, any timing and any number of failures.  One lemma per  *)
(* action, one step per conjunct of the invariant.                         *)
(***************************************************************************)
EXTENDS LeaderLease, TLAPS

USE NoneAssumption, TimingAssumption, FaultsAssumption
USE DEF TypeOK, Waiting, PC, Answers, NoRow

LEMMA InitSafety == Init => SafetyInv
  BY DEF Init, SafetyInv, RowOfLast, WorkersOfGrant, TimersInv, RelinquishInv,
         LeaseInv, TokenDetectsTakeover, NoEarlyTakeover, Granted, Fresh, Owns

(* The acquisition of r, whether or not its answer arrives. *)
LEMMA TakeSafety ==
  ASSUME SafetyInv, NEW r \in Replicas, MayTake(r), Take(r),
         pc[r] = "try", NEW a \in {"granted", "err"}, Answer(r, "tried", a),
         faults' \in 0 .. MaxFaults,
         UNCHANGED <<since, active, draining, stop>>
  PROVE  SafetyInv'
<1> USE DEF SafetyInv, Take, Answer, Goto
<1>1. TypeOK'
  OBVIOUS
<1>2. RowOfLast'
  BY DEF RowOfLast
<1>3. WorkersOfGrant'
  BY DEF WorkersOfGrant
<1>4. TimersInv'
  BY DEF TimersInv
<1>5. RelinquishInv'
  BY DEF RelinquishInv, WorkersOfGrant
<1>6. TokenDetectsTakeover'
  BY DEF TokenDetectsTakeover, Granted, Owns
<1>7. ASSUME NEW q \in Replicas, q # r, Granted(q), last = q
      PROVE  left = -1
  BY <1>7 DEF TokenDetectsTakeover, Owns, MayTake
<1>8. LeaseInv'
  BY <1>7 DEF LeaseInv, Fresh, Granted, TimersInv, WorkersOfGrant
<1>9. NoEarlyTakeover'
  BY <1>7 DEF NoEarlyTakeover, LeaseInv, WorkersOfGrant, Granted
<1> QED
  BY <1>1, <1>2, <1>3, <1>4, <1>5, <1>6, <1>8, <1>9

(* Every other step of a replica. *)
LEMMA BecomeLeaderSafety ==
  ASSUME SafetyInv, NEW r \in Replicas, BecomeLeader(r)
  PROVE  SafetyInv'
<1> USE DEF SafetyInv, BecomeLeader, Goto
<1>1. TypeOK'
  OBVIOUS
<1>2. RowOfLast'
  BY DEF RowOfLast
<1>3. WorkersOfGrant'
  BY DEF WorkersOfGrant
<1>4. TimersInv'
  BY DEF TimersInv
<1>5. RelinquishInv'
  BY DEF RelinquishInv, TimersInv, WorkersOfGrant
<1>6. TokenDetectsTakeover'
  BY DEF TokenDetectsTakeover, RowOfLast, Granted, Owns
<1>7. LeaseInv'
  BY DEF LeaseInv, TimersInv, WorkersOfGrant, TokenDetectsTakeover,
         Granted, Fresh, Owns
<1>8. NoEarlyTakeover'
  BY DEF NoEarlyTakeover, LeaseInv, TimersInv, WorkersOfGrant,
         Granted, Fresh
<1> QED
  BY <1>1, <1>2, <1>3, <1>4, <1>5, <1>6, <1>7, <1>8

LEMMA AcquireDeniedSafety ==
  ASSUME SafetyInv, NEW r \in Replicas, AcquireDenied(r)
  PROVE  SafetyInv'
<1> USE DEF SafetyInv, AcquireDenied, Goto
<1>1. TypeOK'
  OBVIOUS
<1>2. RowOfLast'
  BY DEF RowOfLast
<1>3. WorkersOfGrant'
  BY DEF WorkersOfGrant
<1>4. TimersInv'
  BY DEF TimersInv
<1>5. RelinquishInv'
  BY DEF RelinquishInv, TimersInv, WorkersOfGrant
<1>6. TokenDetectsTakeover'
  BY DEF TokenDetectsTakeover, RowOfLast, Granted, Owns
<1>7. LeaseInv'
  BY DEF LeaseInv, TimersInv, WorkersOfGrant, TokenDetectsTakeover,
         Granted, Fresh, Owns
<1>8. NoEarlyTakeover'
  BY DEF NoEarlyTakeover, LeaseInv, TimersInv, WorkersOfGrant,
         Granted, Fresh
<1> QED
  BY <1>1, <1>2, <1>3, <1>4, <1>5, <1>6, <1>7, <1>8

LEMMA RenewExecSafety ==
  ASSUME SafetyInv, NEW r \in Replicas, RenewExec(r)
  PROVE  SafetyInv'
<1> USE DEF SafetyInv, RenewExec, Answer, Goto
<1>1. TypeOK'
  OBVIOUS
<1>2. RowOfLast'
  BY DEF RowOfLast
<1>3. WorkersOfGrant'
  BY DEF WorkersOfGrant
<1>4. TimersInv'
  BY DEF TimersInv
<1>5. RelinquishInv'
  BY DEF RelinquishInv, TimersInv, WorkersOfGrant
<1>6. TokenDetectsTakeover'
  BY DEF TokenDetectsTakeover, RowOfLast, Granted, Owns
<1>7. LeaseInv'
  BY DEF LeaseInv, TimersInv, WorkersOfGrant, TokenDetectsTakeover,
         Granted, Fresh, Owns
<1>8. NoEarlyTakeover'
  BY DEF NoEarlyTakeover, LeaseInv, TimersInv, WorkersOfGrant,
         Granted, Fresh
<1> QED
  BY <1>1, <1>2, <1>3, <1>4, <1>5, <1>6, <1>7, <1>8

LEMMA RenewFailsSafety ==
  ASSUME SafetyInv, NEW r \in Replicas, RenewFails(r)
  PROVE  SafetyInv'
<1> USE DEF SafetyInv, RenewFails, Answer, Goto, Fault
<1>1. TypeOK'
  OBVIOUS
<1>2. RowOfLast'
  BY DEF RowOfLast
<1>3. WorkersOfGrant'
  BY DEF WorkersOfGrant
<1>4. TimersInv'
  BY DEF TimersInv
<1>5. RelinquishInv'
  BY DEF RelinquishInv, TimersInv, WorkersOfGrant
<1>6. TokenDetectsTakeover'
  BY DEF TokenDetectsTakeover, RowOfLast, Granted, Owns
<1>7. LeaseInv'
  BY DEF LeaseInv, TimersInv, WorkersOfGrant, TokenDetectsTakeover,
         Granted, Fresh, Owns
<1>8. NoEarlyTakeover'
  BY DEF NoEarlyTakeover, LeaseInv, TimersInv, WorkersOfGrant,
         Granted, Fresh
<1> QED
  BY <1>1, <1>2, <1>3, <1>4, <1>5, <1>6, <1>7, <1>8

LEMMA ShutdownSafety ==
  ASSUME SafetyInv, NEW r \in Replicas, Shutdown(r)
  PROVE  SafetyInv'
<1> USE DEF SafetyInv, Shutdown, CancelWorkers, Fault
<1>1. TypeOK'
  OBVIOUS
<1>2. RowOfLast'
  BY DEF RowOfLast
<1>3. WorkersOfGrant'
  BY DEF WorkersOfGrant
<1>4. TimersInv'
  BY DEF TimersInv
<1>5. RelinquishInv'
  BY DEF RelinquishInv, TimersInv, WorkersOfGrant
<1>6. TokenDetectsTakeover'
  BY DEF TokenDetectsTakeover, RowOfLast, Granted, Owns
<1>7. LeaseInv'
  BY DEF LeaseInv, TimersInv, WorkersOfGrant, TokenDetectsTakeover,
         Granted, Fresh, Owns
<1>8. NoEarlyTakeover'
  BY DEF NoEarlyTakeover, LeaseInv, TimersInv, WorkersOfGrant,
         Granted, Fresh
<1> QED
  BY <1>1, <1>2, <1>3, <1>4, <1>5, <1>6, <1>7, <1>8

LEMMA ReturnIdleSafety ==
  ASSUME SafetyInv, NEW r \in Replicas, ReturnIdle(r)
  PROVE  SafetyInv'
<1> USE DEF SafetyInv, ReturnIdle, Goto
<1>1. TypeOK'
  OBVIOUS
<1>2. RowOfLast'
  BY DEF RowOfLast
<1>3. WorkersOfGrant'
  BY DEF WorkersOfGrant
<1>4. TimersInv'
  BY DEF TimersInv
<1>5. RelinquishInv'
  BY DEF RelinquishInv, TimersInv, WorkersOfGrant
<1>6. TokenDetectsTakeover'
  BY DEF TokenDetectsTakeover, RowOfLast, Granted, Owns
<1>7. LeaseInv'
  BY DEF LeaseInv, TimersInv, WorkersOfGrant, TokenDetectsTakeover,
         Granted, Fresh, Owns
<1>8. NoEarlyTakeover'
  BY DEF NoEarlyTakeover, LeaseInv, TimersInv, WorkersOfGrant,
         Granted, Fresh
<1> QED
  BY <1>1, <1>2, <1>3, <1>4, <1>5, <1>6, <1>7, <1>8

LEMMA ReleaseSafety ==
  ASSUME SafetyInv, NEW r \in Replicas, Release(r)
  PROVE  SafetyInv'
<1> USE DEF SafetyInv, Release, CancelWorkers, Goto, Fault
<1>1. TypeOK'
  OBVIOUS
<1>2. RowOfLast'
  BY DEF RowOfLast
<1>3. WorkersOfGrant'
  BY DEF WorkersOfGrant
<1>4. TimersInv'
  BY DEF TimersInv
<1>5. RelinquishInv'
  BY DEF RelinquishInv, TimersInv, WorkersOfGrant
<1>6. TokenDetectsTakeover'
  BY DEF TokenDetectsTakeover, RowOfLast, Granted, Owns
<1>7. LeaseInv'
  BY DEF LeaseInv, TimersInv, WorkersOfGrant, TokenDetectsTakeover,
         Granted, Fresh, Owns
<1>8. NoEarlyTakeover'
  BY DEF NoEarlyTakeover, LeaseInv, TimersInv, WorkersOfGrant,
         Granted, Fresh
<1> QED
  BY <1>1, <1>2, <1>3, <1>4, <1>5, <1>6, <1>7, <1>8

LEMMA ExitSafety ==
  ASSUME SafetyInv, NEW r \in Replicas, Exit(r)
  PROVE  SafetyInv'
<1> USE DEF SafetyInv, Exit, Goto, Fault
<1>1. TypeOK'
  OBVIOUS
<1>2. RowOfLast'
  BY DEF RowOfLast
<1>3. WorkersOfGrant'
  BY DEF WorkersOfGrant
<1>4. TimersInv'
  BY DEF TimersInv
<1>5. RelinquishInv'
  BY DEF RelinquishInv, TimersInv, WorkersOfGrant
<1>6. TokenDetectsTakeover'
  BY DEF TokenDetectsTakeover, RowOfLast, Granted, Owns
<1>7. LeaseInv'
  BY DEF LeaseInv, TimersInv, WorkersOfGrant, TokenDetectsTakeover,
         Granted, Fresh, Owns
<1>8. NoEarlyTakeover'
  BY DEF NoEarlyTakeover, LeaseInv, TimersInv, WorkersOfGrant,
         Granted, Fresh
<1> QED
  BY <1>1, <1>2, <1>3, <1>4, <1>5, <1>6, <1>7, <1>8

LEMMA RestartSafety ==
  ASSUME SafetyInv, NEW r \in Replicas, Restart(r)
  PROVE  SafetyInv'
<1> USE DEF SafetyInv, Restart, Goto
<1>1. TypeOK'
  OBVIOUS
<1>2. RowOfLast'
  BY DEF RowOfLast
<1>3. WorkersOfGrant'
  BY DEF WorkersOfGrant
<1>4. TimersInv'
  BY DEF TimersInv
<1>5. RelinquishInv'
  BY DEF RelinquishInv, TimersInv, WorkersOfGrant
<1>6. TokenDetectsTakeover'
  BY DEF TokenDetectsTakeover, RowOfLast, Granted, Owns
<1>7. LeaseInv'
  BY DEF LeaseInv, TimersInv, WorkersOfGrant, TokenDetectsTakeover,
         Granted, Fresh, Owns
<1>8. NoEarlyTakeover'
  BY DEF NoEarlyTakeover, LeaseInv, TimersInv, WorkersOfGrant,
         Granted, Fresh
<1> QED
  BY <1>1, <1>2, <1>3, <1>4, <1>5, <1>6, <1>7, <1>8

LEMMA DrainSafety ==
  ASSUME SafetyInv, NEW r \in Replicas, Drain(r)
  PROVE  SafetyInv'
<1> USE DEF SafetyInv, Drain
<1>1. TypeOK'
  OBVIOUS
<1>2. RowOfLast'
  BY DEF RowOfLast
<1>3. WorkersOfGrant'
  BY DEF WorkersOfGrant
<1>4. TimersInv'
  BY DEF TimersInv
<1>5. RelinquishInv'
  BY DEF RelinquishInv, TimersInv, WorkersOfGrant
<1>6. TokenDetectsTakeover'
  BY DEF TokenDetectsTakeover, RowOfLast, Granted, Owns
<1>7. LeaseInv'
  BY DEF LeaseInv, TimersInv, WorkersOfGrant, TokenDetectsTakeover,
         Granted, Fresh, Owns
<1>8. NoEarlyTakeover'
  BY DEF NoEarlyTakeover, LeaseInv, TimersInv, WorkersOfGrant,
         Granted, Fresh
<1> QED
  BY <1>1, <1>2, <1>3, <1>4, <1>5, <1>6, <1>7, <1>8

LEMMA RenewAnswerSafety ==
  ASSUME SafetyInv, NEW r \in Replicas, RenewAnswer(r)
  PROVE  SafetyInv'
<1> USE DEF SafetyInv, RenewAnswer, CancelWorkers, Goto
<1>1. TypeOK'
  <2>1. CASE resp[r] = "ok"
    BY <2>1
  <2>2. CASE resp[r] = "err" /\ since[r] < TTL
    BY <2>2
  <2>3. CASE CancelWorkers(r) /\ Goto(r, "try", RETRY)
    <3>1. draining' \in [Replicas -> BOOLEAN] /\ active' \in [Replicas -> BOOLEAN]
      BY <2>3, Zenon
    <3>2. since' \in [Replicas -> Nat] /\ timer' \in [Replicas -> Int]
      BY <2>3
    <3> QED
      BY <2>3, <3>1, <3>2
  <2> QED
    BY <2>1, <2>2, <2>3
<1>2. RowOfLast'
  BY DEF RowOfLast
<1>3. WorkersOfGrant'
  BY DEF WorkersOfGrant
<1>4. TimersInv'
  BY DEF TimersInv
<1>5. RelinquishInv'
  BY DEF RelinquishInv, TimersInv, WorkersOfGrant
<1>6. TokenDetectsTakeover'
  BY DEF TokenDetectsTakeover, RowOfLast, Granted, Owns
<1>7. LeaseInv'
  BY DEF LeaseInv, TimersInv, WorkersOfGrant, TokenDetectsTakeover, Granted, Fresh, Owns
<1>8. NoEarlyTakeover'
  BY DEF NoEarlyTakeover, LeaseInv, TimersInv, WorkersOfGrant, Granted, Fresh
<1> QED
  BY <1>1, <1>2, <1>3, <1>4, <1>5, <1>6, <1>7, <1>8

(* try_acquire that leaves the row alone. *)
LEMMA NoTakeSafety ==
  ASSUME SafetyInv, NEW r \in Replicas, pc[r] = "try",
         NEW a \in {"refused", "err"}, Answer(r, "tried", a),
         faults' \in 0 .. MaxFaults,
         UNCHANGED <<row, left, tok, last, since, active, draining, stop>>
  PROVE  SafetyInv'
<1> USE DEF SafetyInv, Answer, Goto
<1>1. TypeOK'
  OBVIOUS
<1>2. RowOfLast'
  BY DEF RowOfLast
<1>3. WorkersOfGrant'
  BY DEF WorkersOfGrant
<1>4. TimersInv'
  BY DEF TimersInv
<1>5. RelinquishInv'
  BY DEF RelinquishInv, WorkersOfGrant
<1>6. TokenDetectsTakeover'
  BY DEF TokenDetectsTakeover, Granted, Owns
<1>7. LeaseInv'
  BY DEF LeaseInv, Fresh
<1>8. NoEarlyTakeover'
  BY DEF NoEarlyTakeover
<1> QED
  BY <1>1, <1>2, <1>3, <1>4, <1>5, <1>6, <1>7, <1>8

LEMMA AcquireSafety ==
  ASSUME SafetyInv, NEW r \in Replicas, AcquireExec(r) \/ AcquireFails(r)
  PROVE  SafetyInv'
<1>1. faults' \in 0 .. MaxFaults
  BY DEF SafetyInv, AcquireExec, AcquireFails, Fault
<1>2. PICK a \in {"granted", "refused", "err"} :
        /\ Answer(r, "tried", a)
        /\ \/ MayTake(r) /\ Take(r) /\ a # "refused"
           \/ UNCHANGED <<row, left, tok, last>> /\ a # "granted"
  BY DEF AcquireExec, AcquireFails
<1>3. pc[r] = "try" /\ UNCHANGED <<since, active, draining, stop>>
  BY DEF AcquireExec, AcquireFails
<1>4. CASE MayTake(r) /\ Take(r) /\ a # "refused"
  BY <1>1, <1>2, <1>3, <1>4, TakeSafety
<1>5. CASE UNCHANGED <<row, left, tok, last>> /\ a # "granted"
  BY <1>1, <1>2, <1>3, <1>5, NoTakeSafety
<1> QED
  BY <1>2, <1>4, <1>5

LEMMA TickSafety ==
  ASSUME SafetyInv, Tick
  PROVE  SafetyInv'
<1> USE DEF SafetyInv, Tick
<1>1. TypeOK'
  OBVIOUS
<1>2. RowOfLast'
  BY DEF RowOfLast
<1>3. WorkersOfGrant'
  BY DEF WorkersOfGrant
<1>4. TimersInv'
  BY DEF TimersInv
<1>5. RelinquishInv'
  BY DEF RelinquishInv, TimersInv, WorkersOfGrant
<1>6. TokenDetectsTakeover'
  BY DEF TokenDetectsTakeover, Granted, Owns
<1>7. LeaseInv'
  BY DEF LeaseInv, TimersInv, WorkersOfGrant, Fresh
<1>8. NoEarlyTakeover'
  BY DEF NoEarlyTakeover
<1> QED
  BY <1>1, <1>2, <1>3, <1>4, <1>5, <1>6, <1>7, <1>8

-----------------------------------------------------------------------------
(* SafetyInv holds in every reachable state of every instance. *)
THEOREM SafetyInvariant == Spec => []SafetyInv
<1>1. SafetyInv /\ [Next]_vars => SafetyInv'
  <2> SUFFICES ASSUME SafetyInv, [Next]_vars
               PROVE  SafetyInv'
    OBVIOUS
  <2>1. CASE Tick
    BY <2>1, TickSafety
  <2>2. ASSUME NEW r \in Replicas,
               \/ AcquireExec(r) \/ AcquireFails(r) \/ BecomeLeader(r)
               \/ AcquireDenied(r) \/ RenewExec(r) \/ RenewFails(r)
               \/ RenewAnswer(r) \/ Shutdown(r) \/ ReturnIdle(r)
               \/ Release(r) \/ Exit(r) \/ Restart(r) \/ Drain(r)
        PROVE  SafetyInv'
    BY <2>2, AcquireSafety, BecomeLeaderSafety, AcquireDeniedSafety,
       RenewExecSafety, RenewFailsSafety, RenewAnswerSafety, ShutdownSafety,
       ReturnIdleSafety, ReleaseSafety, ExitSafety, RestartSafety, DrainSafety
  <2>3. CASE UNCHANGED vars
    BY <2>3 DEF vars, SafetyInv, RowOfLast, WorkersOfGrant, TimersInv,
       RelinquishInv, LeaseInv, TokenDetectsTakeover, NoEarlyTakeover,
       Granted, Fresh, Owns
  <2> QED
    BY <2>1, <2>2, <2>3 DEF Next
<1> QED
  BY InitSafety, <1>1, PTL DEF Spec

(* The type invariant. *)
THEOREM TypeCorrect == Spec => []TypeOK
<1>1. SafetyInv => TypeOK
  BY DEF SafetyInv
<1> QED
  BY SafetyInvariant, <1>1, PTL

(* The fence token detects every takeover: whatever the failures, renew    *)
(* and release match the row exactly when the replica was not superseded.  *)
THEOREM TakeoverDetected == Spec => []TokenDetectsTakeover
<1>1. SafetyInv => TokenDetectsTakeover
  BY DEF SafetyInv
<1> QED
  BY SafetyInvariant, <1>1, PTL

(* No leader is superseded before its lease ran out. *)
THEOREM TakeoverNotEarly == Spec => []NoEarlyTakeover
<1>1. SafetyInv => NoEarlyTakeover
  BY DEF SafetyInv
<1> QED
  BY SafetyInvariant, <1>1, PTL

(* A leader cut off from the database stops in bounded time. *)
THEOREM RelinquishBounded == Spec => []RelinquishBound
<1>1. SafetyInv => RelinquishBound
  BY DEF SafetyInv, WorkersOfGrant, TimersInv, RelinquishInv, RelinquishBound
<1> QED
  BY SafetyInvariant, <1>1, PTL
=============================================================================
