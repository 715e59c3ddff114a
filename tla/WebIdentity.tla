---------------------------- MODULE WebIdentity ----------------------------
(***************************************************************************)
(* Who a CloudTrail row is attributed to, after it was stored:             *)
(* resolve_webidentity_chains and the three passes of backfill_identity in *)
(* service/ingest/cloudtrail.rs, which write principal_name of the same    *)
(* rows.                                                                   *)
(*                                                                         *)
(* A mint is an AssumeRoleWithWebIdentity row: it tells which subject a    *)
(* session stands for.  Every other row of the session, before or after,   *)
(* should carry that subject.  A step of the resolver takes the mints with *)
(* created_at in (watermark, boundary], renames all rows of the sessions   *)
(* that are new or changed, and all new rows of the sessions it knows.     *)
(*                                                                         *)
(* The passes run once, over the rows of older versions, marked when done: *)
(*   "identity"  derives name and source of rows without a source, by key  *)
(*   "opaque"    replaces token names by the base of the ARN, by ctid      *)
(*   "caller"    fills user_identity_account_id, by ctid                   *)
(* A ctid is the place of a row version: an UPDATE by ctid skips a row     *)
(* that somebody else has updated since it was selected.                   *)
(***************************************************************************)
EXTENDS Integers, FiniteSets, FiniteSetsExt, Identity

CONSTANTS
  N,           (* number of rows of cloudtrail_events                      *)
  Legacy,      (* rows stored before the passes existed                    *)
  Mints,       (* AssumeRoleWithWebIdentity rows                           *)
  NSubjects,   (* number of subjects a mint may record                     *)
  Raw,         (* the record of each row                                   *)
  Sessions,    (* session ARNs                                             *)
  SessionOf,   (* the session of each row: principal_arn, or the ARN that  *)
               (* a mint returns                                           *)
  Tasks,       (* backfill tasks; two when the workers of leaders overlap  *)
  BATCH,       (* BACKFILL_BATCH                                           *)
  LIMIT,       (* WEBID_HARVEST_STEP_ROWS                                  *)
  LAG,         (* WEBID_WATERMARK_LAG_MINS                                 *)
  WINDOW,      (* window_days                                              *)
  DELAY,       (* bound on the time from stamping a row to its commit      *)
  MaxTime,     (* bound on the clock                                       *)
  MaxFaults    (* bound on failed batches and changes of leader            *)

Rows     == 1 .. N
Subjects == 1 .. NSubjects
NoOne    == 0

Passes == <<"identity", "opaque", "caller">>
Eras   == {"sourceless", "token", "callerless"}

ASSUME RowsAssumption == /\ N \in Nat /\ NSubjects \in Nat
                         /\ Legacy \subseteq Rows /\ Mints \subseteq Rows
                         /\ Raw \in [Rows -> Records]
                         /\ SessionOf \in [Rows -> Sessions]
ASSUME TimesAssumption == /\ BATCH \in Nat \ {0} /\ LIMIT \in Nat \ {0}
                          /\ LAG \in Nat /\ DELAY \in Nat
                          /\ WINDOW \in Nat \ {0}
                          /\ MaxTime \in Nat \ {0} /\ MaxFaults \in Nat
(* What the lag is for: a row is committed before it has passed.           *)
ASSUME LagAssumption == DELAY < LAG

VARIABLES
  now,        (* the time                                                  *)
  row,        (* per row: its state, created_at (which stands for          *)
              (* event_time, too), the subject of a mint, and the columns  *)
              (* principal_name, identity_source, user_identity_account_id *)
  cache,      (* webidentity_session_subjects                              *)
  wm,         (* the "cloudtrail_webid" watermark                          *)
  markers,    (* the passes recorded as complete                           *)
  task,       (* the locals of each backfill task                          *)
  rewritten,  (* history: rows whose subject the identity pass overwrote   *)
  cut,        (* history: passes of which a batch lost all of its rows     *)
  faults      (* failures so far                                           *)

vars == <<now, row, cache, wm, markers, task, rewritten, cut, faults>>

Committed   == {r \in Rows : row[r].state = "committed"}
Downstream  == {r \in Committed \ Mints : Raw[r].hasUi /\ Raw[r].hasArn}
Cached(s)   == cache[s].subject # NoOne

(* A name is a subject (a number) or what Identity makes of the record.    *)
SubjectNamed(r) == row[r].name[1] = "subject"
Subject(s)      == <<"subject", s>>
Derived(name)   == <<"derived", name>>

(* What the live mapping writes.  Without userIdentity the source is NULL. *)
LiveName(r)  == Derived(PrincipalName(Raw[r]))
HasSource(r) == IdentitySource(Raw[r]) # None

(* What older versions wrote for an assumed role: the session name.        *)
OldName(r) == IF Raw[r].type = "AssumedRole" THEN Derived(SessionName(Raw[r]))
              ELSE LiveName(r)

Absent == [state |-> "absent", at |-> 0, subject |-> NoOne, name |-> Derived(None),
           source |-> FALSE, account |-> FALSE]

Idle == [pass |-> 0, pc |-> "idle", cand |-> {}]

Names == ({"derived"} \X PrincipalNames) \cup ({"subject"} \X Subjects)

RowType ==
  [state : {"absent", "stamped", "committed"}, at : 0 .. MaxTime,
   subject : Subjects \cup {NoOne}, name : Names,
   source : BOOLEAN, account : BOOLEAN]

TaskType == [pass : 0 .. 3, cand : SUBSET Rows,
             pc : {"idle", "check", "batch", "write", "mark", "done"}]

TypeOK ==
  /\ now \in 1 .. MaxTime
  /\ row \in [Rows -> RowType]
  /\ \A r \in Rows :
       /\ row[r].at <= now
       /\ row[r].state = "stamped" => now <= row[r].at + DELAY /\ wm < row[r].at
  /\ cache \in [Sessions -> [subject : Subjects \cup {NoOne}, at : 0 .. MaxTime]]
  /\ wm = 0 \/ wm \in 1 .. now - LAG
  /\ markers \subseteq {"identity", "opaque", "caller"}
  /\ task \in [Tasks -> TaskType]
  /\ \A t \in Tasks : task[t].pc \in {"check", "batch", "write", "mark"}
                      => task[t].pass # 0
  /\ rewritten \subseteq Rows /\ cut \subseteq {"opaque", "caller"}
  /\ faults \in 0 .. MaxFaults

(* A row of an older version: without all of the columns, without the      *)
(* replacement of tokens, or without the account only.                     *)
OldRow(r, era, subject) ==
  [state |-> "committed", at |-> 1, subject |-> subject,
   name    |-> IF era = "callerless" THEN LiveName(r) ELSE OldName(r),
   source  |-> era # "sourceless" /\ HasSource(r),
   account |-> FALSE]

Init ==
  /\ now = 1
  /\ \E era \in [Legacy -> Eras], subject \in [Legacy \cap Mints -> Subjects] :
       row = [r \in Rows |-> IF r \in Legacy
                             THEN OldRow(r, era[r], IF r \in Mints THEN subject[r] ELSE NoOne)
                             ELSE Absent]
  /\ cache = [s \in Sessions |-> [subject |-> NoOne, at |-> 0]]
  /\ wm = 0
  /\ markers = {}
  /\ task = [t \in Tasks |-> Idle]
  /\ rewritten = {} /\ cut = {}
  /\ faults = 0

(***************************************************************************)
(* Ingest: rows are stamped while an object is decoded and committed in    *)
(* sub-batches soon after.                                                 *)
(***************************************************************************)
Stamp(r) ==
  /\ row[r].state = "absent"
  /\ \E subject \in (IF r \in Mints THEN Subjects ELSE {NoOne}) :
       row' = [row EXCEPT ![r] = [Absent EXCEPT !.state = "stamped", !.at = now,
                                                !.subject = subject]]
  /\ UNCHANGED <<now, cache, wm, markers, task, rewritten, cut, faults>>

CommitRow(r) ==
  /\ row[r].state = "stamped"
  /\ row' = [row EXCEPT ![r].state   = "committed",
                        ![r].name    = LiveName(r),
                        ![r].source  = HasSource(r),
                        ![r].account = Raw[r].hasUi]
  /\ UNCHANGED <<now, cache, wm, markers, task, rewritten, cut, faults>>

Tick ==
  /\ now < MaxTime
  /\ \A r \in Rows : row[r].state = "stamped" => now < row[r].at + DELAY
  /\ now' = now + 1
  /\ UNCHANGED <<row, cache, wm, markers, task, rewritten, cut, faults>>

(* The rows of R get a new version: passes by ctid that have selected one  *)
(* of them will skip it.  Some of them have none left.                     *)
ByCtid(t) == task[t].pass \in {2, 3} /\ task[t].pc = "write"
Move(R)   == [t \in Tasks |-> IF ByCtid(t) THEN [task[t] EXCEPT !.cand = @ \ R]
                              ELSE task[t]]
Emptied(T, R) ==
  LET tasks == {t \in T : ByCtid(t) /\ task[t].cand # {} /\ task[t].cand \subseteq R}
  IN {Passes[task[t].pass] : t \in tasks}

(***************************************************************************)
(* resolve_webidentity_step, one transaction.                              *)
(***************************************************************************)
Floor  == now - WINDOW
Target_NoLag == Max({row[r].at : r \in Committed})

Target == Max({row[r].at : r \in Committed}) - LAG

(* webid_harvest_boundary: created_at of the LIMIT-th row after the        *)
(* watermark, but not beyond the target.                                   *)
Boundary ==
  LET S == {r \in Committed : wm < row[r].at /\ row[r].at <= Target}
      First == {r \in S : Cardinality({q \in S : row[q].at < row[r].at}) < LIMIT}
  IN IF S = {} THEN Target ELSE Max({row[r].at : r \in First})

InStep(r, b) == wm < row[r].at /\ row[r].at <= b

(* The subject that the mints of a step record for each session, if any. *)
Harvest(b) ==
  LET mints == {m \in Mints \cap Committed : row[m].at >= Floor /\ InStep(m, b)}
  IN [s \in Sessions |->
       Max({NoOne} \cup {row[m].subject : m \in {m \in mints : SessionOf[m] = s}})]

(* With harvest h: the sessions that are new or changed, and the subjects  *)
(* known from now on.                                                      *)
NewMaps(h) == {s \in Sessions : h[s] \notin {NoOne, cache[s].subject}}
Known(h)   == [s \in Sessions |-> IF h[s] # NoOne THEN h[s] ELSE cache[s].subject]

(* The rows a step renames: those of new or changed sessions, whatever     *)
(* their age, and the new rows of known ones.                              *)
Renamed_NewRowsOnly(b, new, known) ==
  {r \in Downstream :
     /\ row[r].at >= Floor /\ InStep(r, b)
     /\ known[SessionOf[r]] # NoOne
     /\ row[r].name # Subject(known[SessionOf[r]])}

Renamed(b, new, known) ==
  {r \in Downstream :
     /\ row[r].at >= Floor
     /\ SessionOf[r] \in new \/ InStep(r, b)
     /\ known[SessionOf[r]] # NoOne
     /\ row[r].name # Subject(known[SessionOf[r]])}

ResolveStep ==
  LET b     == Boundary
      h     == Harvest(b)
      known == Known(h)
      rows  == Renamed(b, NewMaps(h), known)
  IN
  /\ Committed # {} /\ b > wm
  /\ row' = [r \in Rows |-> IF r \in rows
                            THEN [row[r] EXCEPT !.name = Subject(known[SessionOf[r]])]
                            ELSE row[r]]
  /\ cache' = [s \in Sessions |->
       IF s \in NewMaps(h) THEN [subject |-> h[s], at |-> now]
       ELSE IF cache[s].at < now - 2 * WINDOW THEN [subject |-> NoOne, at |-> 0]
       ELSE cache[s]]
  /\ wm' = b
  /\ task' = Move(rows)
  /\ cut' = cut \cup Emptied(Tasks, rows)
  /\ rewritten' = rewritten \ rows
  /\ UNCHANGED <<now, markers, faults>>

(***************************************************************************)
(* backfill_identity: the three passes, one after the other.               *)
(***************************************************************************)
Spawn(t) ==
  /\ task[t].pc = "idle"
  /\ task' = [task EXCEPT ![t] = [pass |-> 1, pc |-> "check", cand |-> {}]]
  /\ UNCHANGED <<now, row, cache, wm, markers, rewritten, cut, faults>>

(* Done or failed, the next pass is tried. *)
NextPass(t) == IF task[t].pass = 3 THEN [Idle EXCEPT !.pc = "done"]
               ELSE [pass |-> task[t].pass + 1, pc |-> "check", cand |-> {}]

Check(t) ==
  /\ task[t].pc = "check"
  /\ task' = [task EXCEPT ![t] = IF Passes[@.pass] \in markers THEN NextPass(t)
                                 ELSE [@ EXCEPT !.pc = "batch"]]
  /\ UNCHANGED <<now, row, cache, wm, markers, rewritten, cut, faults>>

(* A batch of a candidate set: the newest, the oldest, or any of them. *)
Batches(C) == {S \in SUBSET C : Cardinality(S) = Min({BATCH, Cardinality(C)})}
NewestIn(S, C) == \A r \in S, q \in C \ S : row[r].at >= row[q].at
OldestIn(S, C) == \A r \in S, q \in C \ S : row[r].at <= row[q].at

Sourceless == {r \in Committed : ~row[r].source}
TokenNamed == {r \in Committed : ~SubjectNamed(r) /\ SqlCandidate(Raw[r], row[r].name[2])}
Callerless == {r \in Committed : ~row[r].account /\ Raw[r].hasUi}

Select(t) ==
  /\ task[t].pc = "batch"
  /\ \E S \in SUBSET Committed :
       /\ \/ /\ task[t].pass = 1
             /\ S \in Batches(Sourceless) /\ NewestIn(S, Sourceless)
          \/ /\ task[t].pass = 2
             /\ S \in Batches(TokenNamed)
          \/ /\ task[t].pass = 3
             /\ S \in Batches(Callerless) /\ OldestIn(S, Callerless)
       /\ task' = [task EXCEPT ![t].pc = "write", ![t].cand = S]
  /\ UNCHANGED <<now, row, cache, wm, markers, rewritten, cut, faults>>

(* The rows as a pass leaves them.  A row without a source gets an empty   *)
(* one, so that it is not selected again.                                  *)
Filled_Null(t, r) ==
  CASE task[t].pass = 1 -> [row[r] EXCEPT !.name = LiveName(r), !.source = HasSource(r)]
    [] task[t].pass = 2 -> [row[r] EXCEPT !.name = Derived(SqlBase(Raw[r]))]
    [] task[t].pass = 3 -> [row[r] EXCEPT !.account = TRUE]

Filled(t, r) ==
  CASE task[t].pass = 1 -> [row[r] EXCEPT !.name = LiveName(r), !.source = TRUE]
    [] task[t].pass = 2 -> [row[r] EXCEPT !.name = Derived(SqlBase(Raw[r]))]
    [] task[t].pass = 3 -> [row[r] EXCEPT !.account = TRUE]

(* A batch that updates no row ends the pass. *)
Write(t) ==
  /\ task[t].pc = "write"
  /\ LET S == task[t].cand
         others == [Move(S) EXCEPT ![t] = task[t]]
     IN /\ row' = [r \in Rows |-> IF r \in S THEN Filled(t, r) ELSE row[r]]
        /\ task' = [others EXCEPT ![t].pc = IF S = {} THEN "mark" ELSE "batch",
                                  ![t].cand = {}]
        /\ cut' = cut \cup Emptied(Tasks \ {t}, S)
        /\ rewritten' = IF task[t].pass = 1
                        THEN rewritten \cup {r \in S : SubjectNamed(r)} ELSE rewritten
  /\ UNCHANGED <<now, cache, wm, markers, faults>>

Mark(t) ==
  /\ task[t].pc = "mark"
  /\ markers' = markers \cup {Passes[task[t].pass]}
  /\ task' = [task EXCEPT ![t] = NextPass(t)]
  /\ UNCHANGED <<now, row, cache, wm, rewritten, cut, faults>>

(* A failed query ends a pass, not the task. *)
BatchFails_Marked(t) ==
  /\ task[t].pc \in {"check", "batch", "write"}
  /\ faults < MaxFaults /\ faults' = faults + 1
  /\ task' = [task EXCEPT ![t].pc = "mark", ![t].cand = {}]
  /\ UNCHANGED <<now, row, cache, wm, markers, rewritten, cut>>

BatchFails(t) ==
  /\ task[t].pc \in {"check", "batch", "write", "mark"}
  /\ faults < MaxFaults /\ faults' = faults + 1
  /\ task' = [task EXCEPT ![t] = NextPass(t)]
  /\ UNCHANGED <<now, row, cache, wm, markers, rewritten, cut>>

(* Cancelled or dead; the workers of the next leader include a new task. *)
Stop(t) ==
  /\ task[t].pc # "idle"
  /\ faults < MaxFaults /\ faults' = faults + 1
  /\ task' = [task EXCEPT ![t] = Idle]
  /\ UNCHANGED <<now, row, cache, wm, markers, rewritten, cut>>

Backfill(t) == Spawn(t) \/ Check(t) \/ Select(t) \/ Write(t) \/ Mark(t)

Next ==
  \/ \E r \in Rows : Stamp(r) \/ CommitRow(r)
  \/ Tick
  \/ ResolveStep
  \/ \E t \in Tasks : Backfill(t) \/ BatchFails(t) \/ Stop(t)

Spec == Init /\ [][Next]_vars

(* A task goes on by itself; the resolver need not. *)
FairSpec == Spec /\ \A t \in Tasks : WF_vars(Backfill(t))

(***************************************************************************)
(* Properties.                                                             *)
(***************************************************************************)

(* A row behind the watermark whose session is in the cache carries the    *)
(* cached subject, whichever of row and mint came first, whatever subject  *)
(* an earlier mint recorded, and although a pass by ctid may have selected *)
(* the row under its old name - except where the identity pass wrote over  *)
(* the subject.  (resolve_webidentity_step)                                *)
NamedBehind ==
  \A r \in Downstream \ rewritten :
    row[r].at <= wm /\ row[r].at >= Floor /\ Cached(SessionOf[r])
      => row[r].name = Subject(cache[SessionOf[r]].subject)

(* A pass that is marked, and so never runs again, has left no old row of  *)
(* its kind - except that a pass by ctid ends, and is marked, also when    *)
(* all rows of a batch were updated after the batch had selected them.     *)
(* (backfill_marker_present and its comment, and the three passes)         *)
Done(p) ==
  CASE p = "identity" -> Legacy \cap Sourceless = {}
    [] p = "opaque"   -> p \in cut \/ Legacy \cap TokenNamed = {}
    [] p = "caller"   -> p \in cut \/ Legacy \cap Callerless = {}

MarkerMeansDone == \A p \in markers : Done(p)

(* Sessions of assumed roles that are known by a token only. *)
TokenRoles ==
  {r \in Committed : /\ Raw[r].hasUi /\ Raw[r].type = "AssumedRole" /\ Raw[r].hasArn
                     /\ NonEmpty(Raw[r].userName) = None /\ IsOpaque(SessionName(Raw[r]))}

(* Where no subject is known, such a row is called as the live mapping     *)
(* calls it, and not by the token: a new row always, whatever the passes   *)
(* do to it, and an old row once the second pass is marked (with the same  *)
(* exception) - if its ARN is in the one partition the SQL of that pass    *)
(* asks for.  Old rows of other partitions may keep the token.  The SQL    *)
(* repeats a part of derive_identity, which is there "so the two can't     *)
(* drift".                                                                 *)
(* (derive_identity, principal_name, backfill_opaque_sessions_inner)       *)
HistoryAgrees ==
  \A r \in TokenRoles :
    r \notin Legacy \/ ("opaque" \in markers \ cut /\ Raw[r].awsSession)
      => \/ SubjectNamed(r)
         \/ row[r].name = LiveName(r) /\ ~IsOpaque(row[r].name[2])

(* A task comes to an end: no pass selects the same rows for ever, also    *)
(* not those for which nothing can be derived.                             *)
PassesEnd == \A t \in Tasks : task[t].pc = "check" ~> task[t].pc \in {"done", "idle"}
=============================================================================
