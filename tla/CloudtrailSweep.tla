--------------------------- MODULE CloudtrailSweep ---------------------------
(***************************************************************************)
(* The CloudTrail ingest (backend/src/service/ingest/cloudtrail.rs).       *)
(*                                                                         *)
(* The trail is a bucket of objects under <account>/<region>/<day>/.  A    *)
(* sweep (run_once) walks the accounts, lists the day-prefixes of each     *)
(* behind their cursors, fetches the keys in batches and commits the rows  *)
(* of every object on its own.  The cursor of a prefix moves to the end of *)
(* the contiguous run of successes, in memory; the map of cursors is saved *)
(* on a heartbeat and at the end of the sweep, in the row of               *)
(* ingest_watermarks that every leader reads and writes.                   *)
(*                                                                         *)
(* Two limits keep one account from taking a sweep over: a budget of       *)
(* objects per sweep and a cap per account.  A sweep that runs out of      *)
(* budget leaves the account where it stopped, and the next starts there.  *)
(***************************************************************************)
EXTENDS Integers, FiniteSets, Functions

CONSTANTS
  NA, NR, ND, NK,  (* accounts, regions, days and keys of a day-prefix, by *)
                   (* rank in the order of their names                     *)
  WINDOW,          (* window_days                                          *)
  BUDGET,          (* max_objects_per_run, 0 for none                      *)
  CAP,             (* per_account_cap, 0 for none                          *)
  BATCH,           (* batch_size                                           *)
  Sweepers,        (* leaders that sweep; more than one when they overlap  *)
  MaxFaults        (* bound on failures                                    *)

ASSUME SizesAssumption  == {NA, NR, ND, NK, WINDOW, BATCH} \subseteq Nat \ {0}
ASSUME LimitsAssumption == {BUDGET, CAP, MaxFaults} \subseteq Nat
ASSUME LeadersAssumption == IsFiniteSet(Sweepers)

Accounts == 1 .. NA
Regions  == 1 .. NR
Days     == 1 .. ND
Keys     == 1 .. NK
Prefixes == Accounts \X Regions \X Days

VARIABLES
  today,     (* the date                                                   *)
  bucket,    (* the keys there are under a prefix                          *)
  done,      (* the keys read to the end, with all their rows committed    *)
  saved,     (* last_cursor and events_applied of the watermark            *)
  sweep,     (* the sweep of each leader                                   *)
  faults     (* failures so far                                            *)

vars == <<today, bucket, done, saved, sweep, faults>>

NoResume == 0

(* A sweep: "cur" and "resume" are its copy of the cursor map, "start" and *)
(* "step" walk the accounts, "list" holds the prefixes of the account that *)
(* are still to do, "keys" what is left of the prefix "at".                *)
NoSweep == [pc |-> "idle", today |-> 1, cur |-> [p \in Prefixes |-> 0],
            resume |-> NoResume, start |-> 1, step |-> 0,
            list |-> [p \in Prefixes |-> {}], at |-> <<1, 1, 1>>, keys |-> {},
            total |-> 0, account |-> 0, events |-> 0, hit |-> FALSE,
            stop |-> NoResume]

SweepPC == {"idle", "accounts", "prefixes", "batch", "finish"}

(* A limit of 0 is none. *)
UpTo(limit) == IF limit > 0 THEN 0 .. limit ELSE Nat

SweepState == [pc : SweepPC, today : Days, cur : [Prefixes -> 0 .. NK],
               resume : 0 .. NA, start : Accounts, step : 0 .. NA,
               list : [Prefixes -> SUBSET Keys], at : Prefixes,
               keys : SUBSET Keys, total : UpTo(BUDGET),
               account : UpTo(CAP), events : Nat,
               hit : BOOLEAN, stop : 0 .. NA]

TypeOK ==
  /\ today \in Days
  /\ bucket \in [Prefixes -> SUBSET Keys]
  /\ done \in [Prefixes -> SUBSET Keys]
  /\ saved \in [cur : [Prefixes -> 0 .. NK], resume : 0 .. NA, events : Nat]
  /\ sweep \in [Sweepers -> SweepState]
  /\ faults \in 0 .. MaxFaults

Init ==
  /\ today = 1
  /\ bucket = [p \in Prefixes |-> {}]
  /\ done = [p \in Prefixes |-> {}]
  /\ saved = [cur |-> [p \in Prefixes |-> 0], resume |-> NoResume, events |-> 0]
  /\ sweep = [w \in Sweepers |-> NoSweep]
  /\ faults = 0

-----------------------------------------------------------------------------
(* The bucket.  CloudTrail delivers the objects of a prefix in the order   *)
(* of their names; an object that came later under a smaller name would be *)
(* behind the cursor for good.                                             *)

Deliver(p, k) ==
  /\ p[3] <= today
  /\ k \notin bucket[p]
  /\ \A x \in bucket[p] : x < k
  /\ bucket' = [bucket EXCEPT ![p] = @ \cup {k}]
  /\ UNCHANGED <<today, done, saved, sweep, faults>>

NewDay ==
  /\ today < ND
  /\ today' = today + 1
  /\ UNCHANGED <<bucket, done, saved, sweep, faults>>

-----------------------------------------------------------------------------
(* Helpers                                                                 *)

Fault == faults < MaxFaults /\ faults' = faults + 1

Set(w, s) == sweep' = [sweep EXCEPT ![w] = s]

(* The initial segments of a set of keys, and those of length n. *)
Segments(K) == {S \in SUBSET K : \A x \in S, y \in K \ S : x < y}
First(n, K) == {S \in Segments(K) : Cardinality(S) = n \/ (S = K /\ Cardinality(S) < n)}

(* (start_idx + step) % n, with accounts counted from one *)
AccountAt(s) == ((s.start - 1 + s.step) % NA) + 1

(* Prefixes are sorted by name, descending: by region, then newest day. *)
Before(p, q) == \/ p[2] > q[2]
                \/ p[2] = q[2] /\ p[3] > q[3]

Window(s) == {p \in Prefixes : s.today - WINDOW < p[3] /\ p[3] <= s.today}

(* Wrong: the oldest day of the window is pruned, too. *)
Prune_Listed(s) ==
  [p \in Prefixes |-> IF p[3] > s.today - WINDOW + 1 THEN s.cur[p] ELSE 0]

(* prune_cursors: a cursor lives as long as its day is not before the      *)
(* floor, now - window_days.                                               *)
Prune(s) == [p \in Prefixes |-> IF p[3] >= s.today - WINDOW THEN s.cur[p] ELSE 0]

Behind(c, K) == {k \in K : k > c}

-----------------------------------------------------------------------------
(* run_once                                                                *)

(* load_cursors, and the account where the last sweep stopped *)
StartSweep(w) ==
  /\ sweep[w].pc = "idle"
  /\ Set(w, [NoSweep EXCEPT
       !.pc = "accounts", !.today = today, !.cur = saved.cur,
       !.resume = saved.resume,
       !.start = IF saved.resume = NoResume THEN 1 ELSE saved.resume])
  /\ UNCHANGED <<today, bucket, done, saved, faults>>

(* The next account: list its day-prefixes behind their cursors. *)
ListAccount(w) ==
  LET s == sweep[w]
      a == AccountAt(s)
      here == {p \in Window(s) : p[1] = a}
  IN
  /\ s.pc = "accounts" /\ s.step < NA
  /\ \E failed \in SUBSET here :
       /\ IF failed = {} THEN UNCHANGED faults ELSE Fault
       /\ Set(w, [s EXCEPT
            !.pc = "prefixes", !.step = @ + 1, !.account = 0,
            !.list = [p \in Prefixes |-> IF p \in here \ failed
                                           THEN Behind(s.cur[p], bucket[p])
                                           ELSE {}]])
  /\ UNCHANGED <<today, bucket, done, saved>>

(* Every account was walked. *)
EndAccounts(w) ==
  /\ sweep[w].pc = "accounts" /\ sweep[w].step = NA
  /\ Set(w, [sweep[w] EXCEPT !.pc = "finish"])
  /\ UNCHANGED <<today, bucket, done, saved, faults>>

ToDo(s) == {p \in Prefixes : s.list[p] # {}}

(* Wrong: one account may use up the budget. *)
NextPrefix_NoCap(w) ==
  LET s == sweep[w]
      budget == BUDGET - s.total
  IN
  /\ s.pc = "prefixes"
  /\ \E p \in ToDo(s) :
       /\ \A q \in ToDo(s) : q # p => Before(p, q)
       /\ IF BUDGET > 0 /\ budget <= 0
            THEN Set(w, [s EXCEPT !.pc = "finish", !.hit = TRUE, !.stop = p[1]])
            ELSE \E K \in (IF BUDGET > 0 THEN First(budget, s.list[p]) ELSE {s.list[p]}) :
                   Set(w, [s EXCEPT !.pc = "batch", !.at = p, !.keys = K,
                                    !.list = [s.list EXCEPT ![p] = {}]])
  /\ UNCHANGED <<today, bucket, done, saved, faults>>

(* The next prefix of the account, "p", unless a limit is reached. *)
NextPrefix(w) ==
  LET s == sweep[w]
      budget == BUDGET - s.total
      share  == CAP - s.account
  IN
  /\ s.pc = "prefixes"
  /\ \E p \in ToDo(s) :
       /\ \A q \in ToDo(s) : q # p => Before(p, q)
       /\ IF BUDGET > 0 /\ budget <= 0
            THEN Set(w, [s EXCEPT !.pc = "finish", !.hit = TRUE, !.stop = p[1]])
          ELSE IF CAP > 0 /\ share <= 0
            THEN Set(w, [s EXCEPT !.pc = "accounts",
                                  !.list = [q \in Prefixes |-> {}]])
          ELSE \E K1 \in (IF BUDGET > 0 THEN First(budget, s.list[p]) ELSE {s.list[p]}) :
               \E K2 \in (IF CAP > 0 THEN First(share, K1) ELSE {K1}) :
                 Set(w, [s EXCEPT !.pc = "batch", !.at = p, !.keys = K2,
                                  !.list = [s.list EXCEPT ![p] = {}]])
  /\ UNCHANGED <<today, bucket, done, saved, faults>>

EndPrefixes(w) ==
  /\ sweep[w].pc = "prefixes" /\ ToDo(sweep[w]) = {}
  /\ Set(w, [sweep[w] EXCEPT !.pc = "accounts"])
  /\ UNCHANGED <<today, bucket, done, saved, faults>>

(* Wrong: the heartbeat adds the running counters too. *)
Heartbeat_Counts(s) == [cur |-> s.cur, resume |-> s.resume,
                        events |-> saved.events + s.events]

(* What the watermark holds after a heartbeat: cursors, no counters. *)
Heartbeat(s) == [saved EXCEPT !.cur = s.cur, !.resume = s.resume]

(* Wrong: the cursor goes to the last success, past a failure. *)
Runs_Any(batch, good) == {good}

(* The contiguous run of successes at the start of a batch. *)
Runs(batch, good) ==
  {R \in Segments(batch) :
     /\ R \subseteq good
     /\ \A x \in batch \ R : (\A y \in batch \ R : x <= y) => x \notin good}

(* fetch_object on every key: its rows are committed, or it fails. *)
Fetched(batch) == SUBSET batch

(* Wrong: an object that cannot be fetched is given up. *)
Last_GivesUp(run, cursor) == IF run = {} THEN {cursor + 1}
                             ELSE {c \in run : \A x \in run : x <= c}

(* The cursor after a run: the last key of it. *)
Last(run, cursor) == IF run = {} THEN {cursor}
                     ELSE {c \in run : \A x \in run : x <= c}

(* fetch_prefix on one batch: the objects of "good" are committed, the     *)
(* cursor follows "run" to "c", and the heartbeat may be due.  Rows that   *)
(* another sweep committed first are not applied again.                    *)
AfterBatch(w, batch, good, run, c) ==
  LET s == sweep[w]
      new == [s EXCEPT
        !.total = @ + Cardinality(run),
        !.account = @ + Cardinality(run),
        !.events = @ + Cardinality(run \ done[s.at]),
        !.cur = [s.cur EXCEPT ![s.at] = c],
        !.keys = IF run = batch THEN @ \ batch ELSE {}]
  IN
  /\ IF good = batch THEN UNCHANGED faults ELSE Fault
  /\ done' = [done EXCEPT ![s.at] = @ \cup good]
  /\ Set(w, new)
  /\ \/ UNCHANGED saved
     \/ run # {} /\ saved' = Heartbeat(new)

FetchBatch(w) ==
  LET s == sweep[w] IN
  /\ s.pc = "batch" /\ s.keys # {}
  /\ \E batch \in First(BATCH, s.keys) : \E good \in Fetched(batch) :
     \E run \in Runs(batch, good) : \E c \in Last(run, s.cur[s.at]) :
       AfterBatch(w, batch, good, run, c)
  /\ UNCHANGED <<today, bucket>>

EndBatches(w) ==
  /\ sweep[w].pc = "batch" /\ sweep[w].keys = {}
  /\ Set(w, [sweep[w] EXCEPT !.pc = "prefixes"])
  /\ UNCHANGED <<today, bucket, done, saved, faults>>

(* prune_cursors, the resume account, and finalize_sweep *)
Finish(w) ==
  LET s == sweep[w] IN
  /\ s.pc = "finish"
  /\ saved' = [cur |-> Prune(s), resume |-> s.stop,
               events |-> saved.events + s.events]
  /\ Set(w, NoSweep)
  /\ UNCHANGED <<today, bucket, done, faults>>

(* A shutdown or a lost lease is seen at the next check; the sweep still   *)
(* finishes, without a resume account.                                     *)
Cancel(w) ==
  /\ sweep[w].pc \in {"accounts", "prefixes", "batch"}
  /\ Fault
  /\ Set(w, [sweep[w] EXCEPT !.pc = "finish"])
  /\ UNCHANGED <<today, bucket, done, saved>>

(* The sweep fails (listing the regions, saving the watermark) or the      *)
(* process ends: what was not saved is forgotten.                          *)
Fail(w) ==
  /\ sweep[w].pc # "idle"
  /\ Fault
  /\ Set(w, NoSweep)
  /\ UNCHANGED <<today, bucket, done, saved>>

-----------------------------------------------------------------------------
Step(w) == \/ StartSweep(w) \/ ListAccount(w) \/ EndAccounts(w)
           \/ NextPrefix(w) \/ EndPrefixes(w)
           \/ FetchBatch(w) \/ EndBatches(w) \/ Finish(w)

Next == \/ NewDay
        \/ \E p \in Prefixes, k \in Keys : Deliver(p, k)
        \/ \E w \in Sweepers : Step(w) \/ Cancel(w) \/ Fail(w)

Spec == Init /\ [][Next]_vars

(* run() starts a sweep after every interval and a sweep goes on. *)
FairSpec == Spec /\ \A w \in Sweepers : WF_vars(Step(w))

-----------------------------------------------------------------------------
Below(p, c) == {k \in bucket[p] : k <= c}

(* fetch_prefix: "we never advance past an object that failed to fetch".   *)
(* Whatever fails, whoever sweeps at the same time and whenever the        *)
(* cursors are saved, everything up to a cursor, saved or in memory, is    *)
(* committed.                                                              *)
CursorSound ==
  \A p \in Prefixes :
    /\ Below(p, saved.cur[p]) \subseteq done[p]
    /\ \A w \in Sweepers : Below(p, sweep[w].cur[p]) \subseteq done[p]

(* heartbeat: "Counters stay zero here; the cumulative totals are applied  *)
(* once in finalize_sweep to avoid double-counting".  events_applied never *)
(* exceeds what was inserted.                                              *)
EventsNotOvercounted ==
  saved.events + SumFunction([w \in Sweepers |-> sweep[w].events])
    <= SumFunction([p \in Prefixes |-> Cardinality(done[p])])

(* run_once: the budget "walks across all accounts instead of restarting   *)
(* at account 0 every sweep": a sweep that runs out of budget does not     *)
(* hand the next one the account it started at itself.                     *)
RotationMoves ==
  \A w \in Sweepers : sweep[w].stop # NoResume => sweep[w].stop # sweep[w].start

(* The counters of the heartbeat log are there to show "duplicate-grinding *)
(* (re-fetching already-ingested objects)": while nothing fails a sweep    *)
(* lists no object that was ingested before.                               *)
NoDuplicateGrinding ==
  faults = 0 => \A w \in Sweepers, p \in Prefixes :
                  sweep[w].list[p] \cap done[p] = {}

(* However budget and cap cut the sweeps, and whatever failed before, the  *)
(* backlog of every account is gone in the end: when no more objects come  *)
(* and no more sweeps fail, all of the window is ingested.                 *)
Drained ==
  <>[](\A p \in Prefixes : p[3] > today - WINDOW => bucket[p] \subseteq done[p])
=============================================================================
