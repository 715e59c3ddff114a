---------------------------- MODULE LeaderLease ----------------------------
(***************************************************************************)
(* The election of the worker leader (backend/src/service/leader.rs).      *)
(*                                                                         *)
(* Every replica of the backend runs election_loop on a thread of its own. *)
(* The loops share one row of the table leader_leases; the replica that    *)
(* owns the row runs the singleton workers (ingest, SIEM derivation,       *)
(* retention, timeline), all the others poll.                              *)
(*                                                                         *)
(* Time is relative, so the model has no horizon: "left" is what remains   *)
(* of the lease (expires_at - now() on the database's clock), since[r] is  *)
(* last_ok.elapsed(), and timer[r] counts a sleep of replica r down and    *)
(* then, below zero, how late the replica is.  Tick lets one second pass;  *)
(* it never lets a step be more than LAG late, which is the one timing     *)
(* assumption of the module.                                               *)
(*                                                                         *)
(* A statement on the row is two steps: the database executes it, later    *)
(* the loop handles the answer.  Other replicas act in between.            *)
(***************************************************************************)
EXTENDS Integers, FiniteSets

CONSTANTS
  Replicas,    (* holder ids, "<HOSTNAME>-<pid>"                           *)
  None,        (* no holder: the row does not exist                        *)
  TTL,         (* lease_ttl_secs                                           *)
  RENEW,       (* lease_renew_secs                                         *)
  RETRY,       (* lease_retry_secs                                         *)
  LAG,         (* how late a statement or its answer may be                *)
  MaxFaults    (* bound on failed statements, crashes and shutdowns        *)

ASSUME NoneAssumption    == None \notin Replicas
ASSUME TimingAssumption  == /\ TTL \in Nat \ {0}
                            /\ RENEW \in Nat \ {0}
                            /\ RETRY \in Nat \ {0}
                            /\ LAG \in Nat
ASSUME FaultsAssumption  == MaxFaults \in Nat

VARIABLES
  row,         (* the row of leader_leases: its holder_id and fence_token  *)
  left,        (* expires_at - now(); -1 once the lease is expired         *)
  pc,          (* where election_loop of each replica is                   *)
  timer,       (* what is left of its sleep; negative when it is late      *)
  resp,        (* the answer of its last statement, not yet handled        *)
  tok,         (* the fence token it was granted                           *)
  since,       (* last_ok.elapsed() of a replica whose workers run         *)
  active,      (* its singleton workers run and are not cancelled          *)
  draining,    (* cancelled workers of it still finish a blocking step     *)
  stop,        (* its global_cancel                                        *)
  faults,      (* failures so far                                          *)
  last         (* ghost: the replica whose acquisition was the latest      *)

vars == <<row, left, pc, timer, resp, tok, since, active, draining, stop,
          faults, last>>

NoRow == [holder |-> None, token |-> 0]

(* "down"     no process                                                   *)
(* "try"      sleeping, then about to execute try_acquire                  *)
(* "tried"    try_acquire executed, its answer under way                   *)
(* "lead"     sleeping as the leader, then about to execute renew          *)
(* "renewed"  renew executed, its answer under way                         *)
(* "returned" election_loop has returned, the process is shutting down     *)
Waiting == {"try", "tried", "lead", "renewed"}
PC      == Waiting \cup {"down", "returned"}
Answers == {"none", "granted", "refused", "ok", "lost", "err"}

TypeOK ==
  /\ row \in [holder : Replicas \cup {None}, token : Nat]
  /\ left \in -1 .. TTL
  /\ pc \in [Replicas -> PC]
  /\ timer \in [Replicas -> Int]
  /\ resp \in [Replicas -> Answers]
  /\ tok \in [Replicas -> Nat]
  /\ since \in [Replicas -> Nat]
  /\ active \in [Replicas -> BOOLEAN]
  /\ draining \in [Replicas -> BOOLEAN]
  /\ stop \in [Replicas -> BOOLEAN]
  /\ faults \in 0 .. MaxFaults
  /\ last \in Replicas \cup {None}

Init ==
  /\ row = NoRow
  /\ left = -1
  /\ pc = [r \in Replicas |-> "try"]
  /\ timer = [r \in Replicas |-> 0]
  /\ resp = [r \in Replicas |-> "none"]
  /\ tok = [r \in Replicas |-> 0]
  /\ since = [r \in Replicas |-> 0]
  /\ active = [r \in Replicas |-> FALSE]
  /\ draining = [r \in Replicas |-> FALSE]
  /\ stop = [r \in Replicas |-> FALSE]
  /\ faults = 0
  /\ last = None

-----------------------------------------------------------------------------
(* What the three statements do to the row.                                *)

(* Wrong variants of a definition are named after it with a suffix; the    *)
(* properties tell each of them from the definition that follows it.       *)

(* Wrong: a lease is taken in its last second. *)
MayTake_Early(r) == row = NoRow \/ left <= 0 \/ row.holder = r

(* Wrong: an expired lease is not taken over. *)
MayTake_NeverSteal(r) == row = NoRow \/ row.holder = r

(* The WHERE of the upsert in try_acquire. *)
MayTake(r) == \/ row = NoRow
              \/ left < 0
              \/ row.holder = r

(* Wrong: the lease outlives its TTL. *)
Take_Long(r) ==
  /\ row' = [holder |-> r, token |-> row.token + 1]
  /\ left' = TTL + RENEW
  /\ tok' = [tok EXCEPT ![r] = row.token + 1]
  /\ last' = r

(* The upsert: token 1 in a fresh row, the next token in an old one. *)
Take(r) ==
  /\ row' = [holder |-> r, token |-> row.token + 1]
  /\ left' = TTL
  /\ tok' = [tok EXCEPT ![r] = row.token + 1]
  /\ last' = r

(* The WHERE of renew and release. *)
Owns(r) == row = [holder |-> r, token |-> tok[r]]

Fault == faults < MaxFaults /\ faults' = faults + 1

(* The loop goes to p, with s seconds to sleep first. *)
Goto(r, p, s) ==
  /\ pc' = [pc EXCEPT ![r] = p]
  /\ timer' = [timer EXCEPT ![r] = s]

Answer(r, p, a) ==
  /\ Goto(r, p, 0)
  /\ resp' = [resp EXCEPT ![r] = a]

(* cancel(): the signal is set at once, the workers see it when they can. *)
CancelWorkers(r) ==
  /\ active' = [active EXCEPT ![r] = FALSE]
  /\ draining' = [draining EXCEPT ![r] = @ \/ active[r]]
  /\ since' = [since EXCEPT ![r] = 0]

-----------------------------------------------------------------------------
(* try_acquire *)

AcquireExec(r) ==
  /\ pc[r] = "try" /\ timer[r] <= 0 /\ ~stop[r]
  /\ IF MayTake(r)
       THEN Take(r) /\ Answer(r, "tried", "granted")
       ELSE Answer(r, "tried", "refused") /\ UNCHANGED <<row, left, tok, last>>
  /\ UNCHANGED <<since, active, draining, stop, faults>>

(* The statement fails, or the database executes it and the answer is lost. *)
AcquireFails(r) ==
  /\ pc[r] = "try" /\ timer[r] <= 0 /\ ~stop[r]
  /\ Fault
  /\ Answer(r, "tried", "err")
  /\ \/ MayTake(r) /\ Take(r)
     \/ UNCHANGED <<row, left, tok, last>>
  /\ UNCHANGED <<since, active, draining, stop>>

(* Ok(Some(token)): spawn the workers with a child of global_cancel, which *)
(* is already cancelled when the shutdown came first.                      *)
BecomeLeader(r) ==
  /\ pc[r] = "tried" /\ resp[r] = "granted"
  /\ active' = [active EXCEPT ![r] = ~stop[r]]
  /\ draining' = [draining EXCEPT ![r] = @ \/ stop[r]]
  /\ since' = [since EXCEPT ![r] = 0]
  /\ resp' = [resp EXCEPT ![r] = "none"]
  /\ Goto(r, "lead", RENEW)
  /\ UNCHANGED <<row, left, tok, stop, faults, last>>

(* Ok(None) and Err *)
AcquireDenied(r) ==
  /\ pc[r] = "tried" /\ resp[r] \in {"refused", "err"}
  /\ resp' = [resp EXCEPT ![r] = "none"]
  /\ Goto(r, "try", RETRY)
  /\ UNCHANGED <<row, left, tok, since, active, draining, stop, faults, last>>

-----------------------------------------------------------------------------
(* renew: it does not look at expires_at, so it revives an expired lease   *)
(* that nobody has taken.                                                  *)

RenewExec(r) ==
  /\ pc[r] = "lead" /\ timer[r] <= 0 /\ ~stop[r]
  /\ IF Owns(r)
       THEN left' = TTL /\ Answer(r, "renewed", "ok")
       ELSE Answer(r, "renewed", "lost") /\ UNCHANGED left
  /\ UNCHANGED <<row, tok, since, active, draining, stop, faults, last>>

RenewFails(r) ==
  /\ pc[r] = "lead" /\ timer[r] <= 0 /\ ~stop[r]
  /\ Fault
  /\ Answer(r, "renewed", "err")
  /\ \/ Owns(r) /\ left' = TTL
     \/ UNCHANGED left
  /\ UNCHANGED <<row, tok, since, active, draining, stop, last>>

(* Wrong: a leader that cannot renew keeps its workers. *)
RenewAnswer_KeepOnError(r) ==
  /\ pc[r] = "renewed"
  /\ resp' = [resp EXCEPT ![r] = "none"]
  /\ \/ /\ resp[r] = "ok"
        /\ since' = [since EXCEPT ![r] = 0]
        /\ Goto(r, "lead", RENEW)
        /\ UNCHANGED <<active, draining>>
     \/ /\ resp[r] = "err"
        /\ Goto(r, "lead", RENEW)
        /\ UNCHANGED <<since, active, draining>>
     \/ /\ resp[r] = "lost"
        /\ CancelWorkers(r)
        /\ Goto(r, "try", RETRY)
  /\ UNCHANGED <<row, left, tok, stop, faults, last>>

RenewAnswer(r) ==
  /\ pc[r] = "renewed"
  /\ resp' = [resp EXCEPT ![r] = "none"]
  /\ \/ /\ resp[r] = "ok"
        /\ since' = [since EXCEPT ![r] = 0]
        /\ Goto(r, "lead", RENEW)
        /\ UNCHANGED <<active, draining>>
     \/ /\ resp[r] = "err" /\ since[r] < TTL
        /\ Goto(r, "lead", RENEW)
        /\ UNCHANGED <<since, active, draining>>
     \/ /\ resp[r] = "lost" \/ (resp[r] = "err" /\ since[r] >= TTL)
        /\ CancelWorkers(r)
        /\ Goto(r, "try", RETRY)
  /\ UNCHANGED <<row, left, tok, stop, faults, last>>

-----------------------------------------------------------------------------
(* Shutdown, crash and restart                                             *)

(* SIGTERM cancels global_cancel and with it the child token of the workers. *)
Shutdown(r) ==
  /\ pc[r] \in Waiting /\ ~stop[r]
  /\ Fault
  /\ stop' = [stop EXCEPT ![r] = TRUE]
  /\ CancelWorkers(r)
  /\ UNCHANGED <<row, left, pc, timer, resp, tok, last>>

(* sleep_interruptible sees the shutdown in a replica that does not lead. *)
ReturnIdle(r) ==
  /\ stop[r] /\ pc[r] = "try"
  /\ Goto(r, "returned", 0)
  /\ UNCHANGED <<row, left, resp, tok, since, active, draining, stop, faults,
                 last>>

(* Wrong: the row is deleted whoever holds it. *)
Release_Any(r) ==
  /\ stop[r] /\ pc[r] = "lead"
  /\ Goto(r, "returned", 0)
  /\ CancelWorkers(r)
  /\ row' = NoRow /\ left' = -1
  /\ UNCHANGED <<resp, tok, stop, faults, last>>

(* sleep_interruptible sees it in the leader: cancel, then release deletes *)
(* the row, and with it the fence token.                                   *)
Release(r) ==
  /\ stop[r] /\ pc[r] = "lead"
  /\ Goto(r, "returned", 0)
  /\ CancelWorkers(r)
  /\ \/ /\ Owns(r)
        /\ row' = NoRow /\ left' = -1
        /\ UNCHANGED faults
     \/ ~Owns(r) /\ UNCHANGED <<row, left, faults>>
     \/ Fault /\ UNCHANGED <<row, left>>
  /\ UNCHANGED <<resp, tok, stop, last>>

(* The process ends.  It does not wait for the election thread: after the  *)
(* three seconds main grants, the release may still be missing.            *)
Exit(r) ==
  /\ pc[r] # "down"
  /\ \/ stop[r] /\ UNCHANGED faults
     \/ ~stop[r] /\ Fault
  /\ Goto(r, "down", 0)
  /\ resp' = [resp EXCEPT ![r] = "none"]
  /\ since' = [since EXCEPT ![r] = 0]
  /\ active' = [active EXCEPT ![r] = FALSE]
  /\ draining' = [draining EXCEPT ![r] = FALSE]
  /\ stop' = [stop EXCEPT ![r] = FALSE]
  /\ UNCHANGED <<row, left, tok, last>>

(* A restarted container keeps HOSTNAME and pid, hence its holder id. *)
Restart(r) ==
  /\ pc[r] = "down"
  /\ Goto(r, "try", 0)
  /\ UNCHANGED <<row, left, resp, tok, since, active, draining, stop, faults,
                 last>>

(* The last blocking step of the cancelled workers returns. *)
Drain(r) ==
  /\ draining[r]
  /\ draining' = [draining EXCEPT ![r] = FALSE]
  /\ UNCHANGED <<row, left, pc, timer, resp, tok, since, active, stop, faults,
                 last>>

Tick ==
  /\ \A r \in Replicas : pc[r] \in Waiting => timer[r] > -LAG
  /\ left' = IF left >= 0 THEN left - 1 ELSE left
  /\ timer' = [r \in Replicas |-> IF pc[r] \in Waiting
                                    THEN timer[r] - 1 ELSE timer[r]]
  /\ since' = [r \in Replicas |-> IF active[r] THEN since[r] + 1 ELSE since[r]]
  /\ UNCHANGED <<row, pc, resp, tok, active, draining, stop, faults, last>>

-----------------------------------------------------------------------------
Step(r) ==
  \/ AcquireExec(r) \/ BecomeLeader(r) \/ AcquireDenied(r)
  \/ RenewExec(r) \/ RenewAnswer(r)
  \/ ReturnIdle(r) \/ Release(r) \/ (stop[r] /\ Exit(r))

Next ==
  \/ Tick
  \/ \E r \in Replicas :
       \/ AcquireExec(r) \/ AcquireFails(r) \/ BecomeLeader(r)
       \/ AcquireDenied(r) \/ RenewExec(r) \/ RenewFails(r) \/ RenewAnswer(r)
       \/ Shutdown(r) \/ ReturnIdle(r) \/ Release(r) \/ Exit(r) \/ Restart(r)
       \/ Drain(r)

Spec == Init /\ [][Next]_vars

(* The loop of every replica keeps running and time passes.  Failures are  *)
(* not fair, and nobody promises that a replica that is down comes back.   *)
Fairness == WF_vars(Tick) /\ \A r \in Replicas : WF_vars(Step(r))

FairSpec == Spec /\ Fairness

-----------------------------------------------------------------------------
(* r was granted the lease and has not relinquished it, whether or not it  *)
(* knows of the grant yet.                                                 *)
Granted(r) == \/ pc[r] = "tried" /\ resp[r] = "granted"
              \/ pc[r] \in {"lead", "renewed"}

(* The row answers for the history: the statement "WHERE holder_id = me    *)
(* AND fence_token = mine" matches exactly when nobody has acquired the    *)
(* lease since this replica did, across expiry, lost answers, releases     *)
(* that delete the token and restarts that reuse the holder id.  So a      *)
(* successful renew never revives a lease that was superseded, and a       *)
(* leader nobody superseded never loses its row.                           *)
TokenDetectsTakeover ==
  \A r \in Replicas : Granted(r) => (Owns(r) <=> last = r)

(* A leader whose workers run is superseded only after its lease ran out:  *)
(* at least TTL - LAG seconds after the last success it knows of, so the   *)
(* workers of a replica whose last_ok is younger than that run alone.      *)
NoEarlyTakeover ==
  \A r \in Replicas : active[r] /\ last # r => since[r] > TTL - LAG

(* Whatever the database does, a leader relinquishes within one renew      *)
(* period and the lateness of one renew after its lease ran out: the arm   *)
(* "renew failing and lease expired" of election_loop.                     *)
RelinquishBound ==
  \A r \in Replicas : active[r] => since[r] < TTL + RENEW + 2 * LAG

(* Once failures stop, some replica leads for good, if one is up: no       *)
(* takeover while renews arrive in time, and the row a dead replica left   *)
(* is taken over although its holder never returns.                        *)
LeadershipSettles ==
  (\E r \in Replicas : []<>(pc[r] # "down")) => \E r \in Replicas : <>[]active[r]
-----------------------------------------------------------------------------
(* The inductive strengthening of the safety properties.                   *)

(* The row is what the latest acquisition left, or it was released. *)
RowOfLast == row = NoRow \/ row.holder = last

WorkersOfGrant == \A r \in Replicas : active[r] => pc[r] \in {"lead", "renewed"}

(* A waiting replica is at most LAG late; an answer is not slept for. *)
TimersInv ==
  \A r \in Replicas :
    /\ pc[r] \in Waiting => timer[r] >= -LAG
    /\ pc[r] \in {"tried", "renewed"} => timer[r] <= 0

(* since and timer move against each other while the leader waits. *)
RelinquishInv ==
  \A r \in Replicas : active[r] =>
    /\ pc[r] = "lead" => since[r] + timer[r] < TTL + RENEW
    /\ pc[r] = "renewed" => since[r] + timer[r] < TTL + RENEW + LAG

(* An answer on its way that says the lease is mine. *)
Fresh(r) == \/ pc[r] = "tried" /\ resp[r] = "granted"
            \/ pc[r] = "renewed" /\ resp[r] = "ok"

(* The lease of the owner lives as long as the owner believes, up to the   *)
(* time its last answer took.                                              *)
LeaseInv ==
  \A r \in Replicas :
    /\ Fresh(r) /\ last = r => left >= TTL + timer[r]
    /\ Fresh(r) /\ last # r => TTL < LAG
    /\ active[r] /\ last = r => left + since[r] >= TTL - LAG

SafetyInv ==
  /\ TypeOK
  /\ RowOfLast
  /\ WorkersOfGrant
  /\ TimersInv
  /\ RelinquishInv
  /\ LeaseInv
  /\ TokenDetectsTakeover
  /\ NoEarlyTakeover
=============================================================================
