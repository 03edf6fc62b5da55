-------------------------- MODULE DurableJobs_proofs --------------------------
(***************************************************************************)
(* Proofs about DurableJobs for every number of jobs, stages, keys,        *)
(* crashes and lock errors: the types, the inductive invariant IInv of     *)
(* what may be sent, the second one, OInv, of the order in which stages    *)
(* are passed, what follows from them, and that the jobs implement         *)
(* CallBudget.                                                             *)
(*                                                                         *)
(* A stage may only be sent when a row or the thread says so (MaySend); no *)
(* step makes MaySend true but a resume that grants a request or the first *)
(* attempt of a stage; and a request makes it false.                       *)
(*                                                                         *)
(* A stage that was ever begun has every stage before it behind it         *)
(* (Reached), so two stages cannot both be open, and the stage in doubt is *)
(* the one the job began last.  No step touches a closed stage (Firm), so  *)
(* what lies behind stays there.                                           *)
(***************************************************************************)
EXTENDS DurableJobs, TLAPS

(* The thread holds a job everywhere but at the top of its loop. *)
HoldsJob == w.pc \notin {"scan", "select"} => w.job \in Jobs

TypeInv == TypeOK /\ HoldsJob

-----------------------------------------------------------------------------
(* Updates of the rows and of the thread's state, a few fields at a time. *)

(* A control row keeps its type when fields are set to values of theirs. *)
LEMMA JobFields ==
    ASSUME NEW r \in JobRecord
    PROVE  /\ r.status \in Statuses /\ r.rev \in Nat /\ r.cancel \in BOOLEAN
           /\ r.epoch \in Nat /\ r.reason \in Reasons /\ r.authStage \in 0..Last
           /\ r.authNo \in Nat /\ r.made \in Nat /\ r.replaces \in 0..MaxJobs
  BY DEF JobRecord

(* A control row keeps its type: enqueue() *)
LEMMA SubmittedType ==
    ASSUME NEW r \in JobRecord, NEW st \in Statuses, NEW i \in 0..MaxJobs, NEW c \in BOOLEAN
    PROVE  [r EXCEPT !.status = st, !.replaces = i, !.confirm = c] \in JobRecord
<1> DEFINE q == [r EXCEPT !.status = st]
<1>1. q \in JobRecord
  BY DEF JobRecord
<1>2. [q EXCEPT !.replaces = i, !.confirm = c] \in JobRecord
  <2> HIDE DEF q
  <2> QED BY <1>1 DEF JobRecord
<1> QED
  BY <1>2, Zenon

(* cancel() *)
LEMMA CancelledType ==
    ASSUME NEW r \in JobRecord, NEW c \in BOOLEAN, NEW n \in Nat, NEW st \in Statuses
    PROVE  [r EXCEPT !.cancel = c, !.rev = n, !.status = st] \in JobRecord
<1> DEFINE q == [r EXCEPT !.cancel = c]
<1>1. q \in JobRecord
  BY DEF JobRecord
<1>2. [q EXCEPT !.rev = n, !.status = st] \in JobRecord
  <2> HIDE DEF q
  <2> QED BY <1>1 DEF JobRecord
<1> QED
  BY <1>2, Zenon

(* claim() *)
LEMMA ClaimedType ==
    ASSUME NEW r \in JobRecord, NEW st \in Statuses, NEW n \in Nat, NEW e \in Nat
    PROVE  [r EXCEPT !.status = st, !.rev = n, !.epoch = e] \in JobRecord
<1> DEFINE q == [r EXCEPT !.status = st]
<1>1. q \in JobRecord
  BY DEF JobRecord
<1>2. [q EXCEPT !.rev = n, !.epoch = e] \in JobRecord
  <2> HIDE DEF q
  <2> QED BY <1>1 DEF JobRecord
<1> QED
  BY <1>2, Zenon

(* begin_attempt(), which uses up the authorisation *)
LEMMA BegunType ==
    ASSUME NEW r \in JobRecord, NEW n \in Nat, NEW a \in 0..Last, NEW m \in Nat
    PROVE  [r EXCEPT !.made = n, !.authStage = a, !.authNo = m] \in JobRecord
<1> DEFINE q == [r EXCEPT !.made = n]
<1>1. q \in JobRecord
  BY DEF JobRecord
<1>2. [q EXCEPT !.authStage = a, !.authNo = m] \in JobRecord
  <2> HIDE DEF q
  <2> QED BY <1>1 DEF JobRecord
<1> QED
  BY <1>2, Zenon

(* fail_attempt() and pause() *)
LEMMA SettledType ==
    ASSUME NEW r \in JobRecord, NEW st \in Statuses, NEW rs \in Reasons
    PROVE  [r EXCEPT !.status = st, !.reason = rs] \in JobRecord
  BY DEF JobRecord

(* publish() and finish_cancellation() *)
LEMMA StatusType ==
    ASSUME NEW r \in JobRecord, NEW st \in Statuses
    PROVE  [r EXCEPT !.status = st] \in JobRecord
  BY DEF JobRecord

(* resume(), which authorises a stage *)
LEMMA GrantedType ==
    ASSUME NEW r \in JobRecord, NEW a \in 0..Last, NEW m \in Nat
    PROVE  [r EXCEPT !.authStage = a, !.authNo = m] \in JobRecord
  BY DEF JobRecord

(* recover() *)
LEMMA RecoveredType ==
    ASSUME NEW r \in JobRecord, NEW st \in Statuses, NEW rs \in Reasons, NEW n \in Nat, NEW e \in Nat
    PROVE  [r EXCEPT !.status = st, !.reason = rs, !.rev = n, !.epoch = e] \in JobRecord
<1> DEFINE q == [r EXCEPT !.status = st, !.reason = rs]
<1>1. q \in JobRecord
  BY DEF JobRecord
<1>2. [q EXCEPT !.rev = n, !.epoch = e] \in JobRecord
  <2> HIDE DEF q
  <2> QED BY <1>1 DEF JobRecord
<1> QED
  BY <1>2, Zenon

(* resume(), which queues the job again *)
LEMMA RequeuedType ==
    ASSUME NEW r \in JobRecord, NEW st \in Statuses, NEW e \in Nat, NEW n \in Nat, NEW rs \in Reasons, NEW c \in BOOLEAN
    PROVE  [r EXCEPT !.status = st, !.epoch = e, !.rev = n, !.reason = rs, !.cancel = c] \in JobRecord
<1> DEFINE p == [r EXCEPT !.status = st, !.epoch = e]
           q == [p EXCEPT !.rev = n, !.reason = rs]
<1>1. p \in JobRecord
  BY DEF JobRecord
<1>2. q \in JobRecord
  <2> HIDE DEF p
  <2> QED BY <1>1 DEF JobRecord
<1>3. [q EXCEPT !.cancel = c] \in JobRecord
  <2> HIDE DEF q
  <2> QED BY <1>2 DEF JobRecord
<1> QED
  BY <1>3, Zenon

(* The thread's state when a request has failed. *)
LEMMA FailingType ==
    ASSUME NEW v \in Worker, NEW pc \in PCs, NEW out \in Outcomes, NEW b \in BOOLEAN,
           NEW c \in BOOLEAN
    PROVE  [v EXCEPT !.pc = pc, !.outcome = out, !.caught = b, !.repairable = c] \in Worker
<1> DEFINE q == [v EXCEPT !.pc = pc, !.outcome = out]
<1>1. q \in Worker
  BY DEF Worker
<1>2. [q EXCEPT !.caught = b, !.repairable = c] \in Worker
  <2> HIDE DEF q
  <2> QED BY <1>1 DEF Worker
<1> QED
  BY <1>2, Zenon

(* The idle thread, and the thread when it turns to a stage. *)
LEMMA IdleType ==
    ASSUME ConstantsAssumption
    PROVE  Idle \in Worker
  BY DEF ConstantsAssumption, Idle, Worker, PCs, Outcomes, Stages, None

LEMMA TurnTypes ==
    ASSUME ConstantsAssumption, w \in Worker, w.job \in Jobs, NEW s \in Nat \ {0}, TurnTo(s)
    PROVE  w' \in Worker /\ w'.job \in Jobs
<1> DEFINE pc == IF s > Last THEN "publish" ELSE "stage"
           st == IF s > Last THEN 1 ELSE s
           q  == [Idle EXCEPT !.job = w.job, !.rev = w.rev]
<1>1. pc \in PCs /\ st \in Stages /\ w.rev \in Nat /\ w.job \in 0..MaxJobs
  BY DEF PCs, Stages, ConstantsAssumption, Worker
<1>2. q \in Worker
  BY <1>1, IdleType DEF Worker
<1>3. q.job = w.job
  BY DEF Idle
<1>4. [q EXCEPT !.pc = pc, !.stage = st] \in Worker
      /\ [q EXCEPT !.pc = pc, !.stage = st].job = q.job
  <2> HIDE DEF q, pc, st
  <2> QED BY <1>1, <1>2 DEF Worker
<1>5. w' = [q EXCEPT !.pc = pc, !.stage = st]
  BY Zenon DEF TurnTo
<1> QED
  BY <1>3, <1>4, <1>5

(* The empty rows have the types of their tables. *)
LEMMA EmptyRows ==
    ASSUME ConstantsAssumption
    PROVE  NoJob \in JobRecord /\ NoAttempt \in AttemptRecord
  BY DEF ConstantsAssumption, NoJob, NoAttempt, JobRecord, AttemptRecord, Statuses, Active,
         Replaceable, Reasons, AttemptStatuses, Outcomes, None

(* Recovery of a set of jobs keeps the types. *)
LEMMA RecoverTypes ==
    ASSUME TypeOK, NEW S, RecoverAll(S)
    PROVE  /\ job' \in [Jobs -> JobRecord]
           /\ latest' \in [Jobs -> [Stages -> AttemptRecord]]
<1>1. ASSUME NEW j \in Jobs PROVE RecoveredJob(j) \in JobRecord
  <2>1. Verdict(j) \in {"cancelled", "unsupported", "unknown", "queued", "failed"}
    BY DEF Verdict
  <2>2. job[j] \in JobRecord
    BY DEF TypeOK
  <2> DEFINE st == IF Verdict(j) \in {"unsupported", "unknown"} THEN "recovery_required"
                   ELSE Verdict(j)
             rs == IF Verdict(j) = "unsupported" THEN "unsupported_format"
                   ELSE IF Verdict(j) = "unknown" THEN "result_unknown"
                   ELSE IF Verdict(j) = "failed" THEN "stage_failed" ELSE job[j].reason
  <2>3. st \in Statuses
    BY <2>1 DEF Statuses, Active, Replaceable
  <2>4. rs \in Reasons
    BY <2>2, JobFields DEF Reasons
  <2>5. job[j].rev + 1 \in Nat /\ None \in Nat
    BY <2>2, JobFields DEF None
  <2> HIDE DEF st, rs
  <2>6. [job[j] EXCEPT !.status = st, !.reason = rs, !.rev = job[j].rev + 1, !.epoch = None]
          \in JobRecord
    BY <2>2, <2>3, <2>4, <2>5, RecoveredType
  <2> QED
    BY <2>6 DEF RecoveredJob, st, rs
<1>2. ASSUME NEW j \in Jobs PROVE RecoveredLatest(j) \in [Stages -> AttemptRecord]
  <2>1. latest[j] \in [Stages -> AttemptRecord]
    BY DEF TypeOK
  <2> QED
    BY <2>1 DEF RecoveredLatest, AttemptRecord, AttemptStatuses, Outcomes
<1> QED
  BY <1>1, <1>2 DEF RecoverAll, TypeOK

(* Beginning an attempt keeps the types, and numbers it. *)
LEMMA BeginTypes ==
    ASSUME ConstantsAssumption, TypeOK, NEW j \in Jobs, NEW s \in Stages, Begin(j, s)
    PROVE  /\ job' \in [Jobs -> JobRecord]
           /\ latest' \in [Jobs -> [Stages -> AttemptRecord]]
           /\ AttemptNo(j, s) \in Nat
<1>0. job \in [Jobs -> JobRecord]
  BY DEF TypeOK
<1>1. job[j] \in JobRecord /\ latest[j] \in [Stages -> AttemptRecord]
  BY DEF TypeOK
<1>2. AttemptNo(j, s) \in Nat
  BY <1>1 DEF AttemptNo, AttemptRecord
<1> DEFINE new == [no |-> latest[j][s].no + 1, status |-> "prepared", outcome |-> "none",
                   repairable |-> FALSE, at |-> job[j].made + 1]
<1>3. new \in AttemptRecord
  BY <1>1, JobFields DEF AttemptRecord, AttemptStatuses, Outcomes
<1>4. latest' \in [Jobs -> [Stages -> AttemptRecord]]
  <2> HIDE DEF new
  <2>1. [latest EXCEPT ![j][s] = new] \in [Jobs -> [Stages -> AttemptRecord]]
    BY <1>3 DEF TypeOK
  <2> QED
    BY <2>1 DEF Begin, TypeOK, new
<1>5. job' \in [Jobs -> JobRecord]
  <2>1. /\ job[j].made + 1 \in Nat /\ 0 \in Nat
        /\ None \in 0..Last
    BY <1>1, JobFields DEF None, ConstantsAssumption
  <2>2. [job[j] EXCEPT !.made = @ + 1, !.authStage = None, !.authNo = 0] \in JobRecord
    BY <1>1, <2>1, BegunType
  <2>3. [job[j] EXCEPT !.made = @ + 1] \in JobRecord
    BY <1>1, <2>1 DEF JobRecord
  <2>4. CASE latest[j][s].status = "prepared"
    BY <2>4 DEF Begin, TypeOK
  <2>5. CASE latest[j][s].status # "prepared" /\ latest[j][s].no > 0 /\ Authorized(j, s)
    <3>1. job' = [job EXCEPT ![j] = [job[j] EXCEPT !.made = @ + 1, !.authStage = None, !.authNo = 0]]
      BY <2>5, Zenon DEF Begin
    <3> QED
      BY <1>0, <2>2, <3>1
  <2>6. CASE latest[j][s].status # "prepared" /\ ~(latest[j][s].no > 0 /\ Authorized(j, s))
    <3>1. job' = [job EXCEPT ![j] = [job[j] EXCEPT !.made = @ + 1]]
      BY <2>6, Zenon DEF Begin
    <3> QED
      BY <1>0, <2>3, <3>1
  <2> QED
    BY <2>4, <2>5, <2>6
<1> QED
  BY <1>2, <1>4, <1>5

(* Writing an attempt of the thread's stage keeps the type of the rows. *)
LEMMA RecordTypes ==
    ASSUME TypeOK, w.job \in Jobs, NEW st \in AttemptStatuses, NEW out \in Outcomes,
           NEW r \in BOOLEAN, Record(st, out, r)
    PROVE  latest' \in [Jobs -> [Stages -> AttemptRecord]]
<1>1. w.stage \in Stages /\ latest[w.job] \in [Stages -> AttemptRecord]
  BY DEF TypeOK, Worker
<1>2. [latest[w.job][w.stage] EXCEPT !.status = st, !.outcome = out, !.repairable = r]
         \in AttemptRecord
  BY <1>1 DEF AttemptRecord
<1> QED
  BY <1>1, <1>2 DEF Record, TypeOK

-----------------------------------------------------------------------------
(* Every step keeps the types. *)

LEMMA InitTypes ==
    ASSUME ConstantsAssumption
    PROVE  Init => TypeInv
<1> SUFFICES ASSUME Init
             PROVE  TypeInv
  OBVIOUS
<1>1. job \in [Jobs -> JobRecord] /\ latest \in [Jobs -> [Stages -> AttemptRecord]]
  BY EmptyRows DEF Init
<1>2. w \in Worker /\ HoldsJob
  BY IdleType DEF Init, HoldsJob, Idle
<1>3. /\ receipt \in [Jobs -> [Keys -> Nat]]
      /\ sends \in [Jobs -> [Stages -> Nat]] /\ granted \in [Jobs -> [Stages -> Nat]]
      /\ doubt \in [Jobs -> SUBSET Stages] /\ late \in [Jobs -> Nat]
  BY DEF Init
<1>4. /\ thread \in {"active", "archived"} /\ outdated \in SUBSET Jobs
      /\ epoch \in Nat \ {0} /\ crashes \in Nat /\ busy \in Nat
  BY DEF Init
<1>5. up \in BOOLEAN /\ initialized \in BOOLEAN
  BY DEF Init
<1> QED
  BY <1>1, <1>2, <1>3, <1>4, <1>5 DEF TypeInv, TypeOK

LEMMA AuthorTypes ==
    ASSUME ConstantsAssumption, TypeInv, Author
    PROVE  TypeInv'
<1> USE DEF TypeInv
<1>0. ASSUME NEW j \in Jobs PROVE job[j] \in JobRecord
  BY DEF TypeOK
<1>s. "queued" \in Statuses /\ "cancelled" \in Statuses /\ "cancel_requested" \in Statuses
      /\ "none" \in Reasons
  BY DEF Statuses, Active, Replaceable, Reasons
<1>1. ASSUME NEW j \in Jobs, NEW r \in 0..MaxJobs, NEW c \in BOOLEAN, Enqueue(j, r, c)
      PROVE  TypeInv'
  <2>1. [job[j] EXCEPT !.status = "queued", !.replaces = r, !.confirm = c] \in JobRecord
    BY <1>0, <1>s, SubmittedType
  <2>2. job' \in [Jobs -> JobRecord]
    BY <1>1, <2>1 DEF Enqueue, TypeOK
  <2> QED
    BY <1>1, <2>2 DEF Enqueue, TypeOK, HoldsJob, process, history
<1>2. ASSUME NEW j \in Jobs, Cancel(j)
      PROVE  TypeInv'
  <2> DEFINE st == IF job[j].status = "running" THEN "cancel_requested" ELSE "cancelled"
             new == [job[j] EXCEPT !.cancel = TRUE, !.rev = job[j].rev + 1, !.status = st]
  <2>1. st \in Statuses /\ job[j].rev + 1 \in Nat
    BY <1>0, <1>s, JobFields
  <2>2. new \in JobRecord
    <3> HIDE DEF st
    <3> QED BY <1>0, <2>1, CancelledType
  <2>3. job' = [job EXCEPT ![j] = new]
    BY <1>2 DEF Cancel
  <2>4. job' \in [Jobs -> JobRecord]
    <3> HIDE DEF new
    <3> QED BY <2>2, <2>3 DEF TypeOK
  <2> QED
    BY <1>2, <2>4 DEF Cancel, TypeOK, HoldsJob, process, history
<1>3. ASSUME NEW j \in Jobs, NEW k \in Keys, NEW c \in BOOLEAN, NEW x \in 1..job[j].rev,
             Resume(j, k, x, c)
      PROVE  TypeInv'
  <2>0. receipt' \in [Jobs -> [Keys -> Nat]] /\ doubt' \in [Jobs -> SUBSET Stages]
    <3>1. x \in Nat
      BY <1>0, JobFields
    <3> QED
      BY <1>3, <3>1 DEF Resume, TypeOK
  <2>1. job[j].rev + 1 \in Nat /\ None \in Nat
    BY <1>0, JobFields DEF None
  <2>2. Requeued(j) \in JobRecord
    BY <1>0, <1>s, <2>1, RequeuedType DEF Requeued
  <2>3. CASE BlockedStages(j) = {} /\ job' = [job EXCEPT ![j] = Requeued(j)]
                /\ UNCHANGED <<latest, granted>>
    BY <1>3, <2>0, <2>2, <2>3 DEF Resume, TypeOK, HoldsJob, process
  <2>4. ASSUME NEW b \in NewestBlocked(j),
               job' = [job EXCEPT ![j] = [Requeued(j) EXCEPT !.authStage = b,
                                                     !.authNo = latest[j][b].no + 1]],
               latest' = IF latest[j][b].status # "dispatched" THEN latest
                         ELSE [latest EXCEPT ![j][b] = [@ EXCEPT !.status = "result_unknown",
                                                                 !.outcome = "unknown"]],
               granted' = [granted EXCEPT ![j][b] = @ + 1]
        PROVE  TypeInv'
    <3>1. b \in Stages /\ b \in 0..Last /\ latest[j][b] \in AttemptRecord
      BY <2>4 DEF NewestBlocked, BlockedStages, Stages, TypeOK, ConstantsAssumption
    <3>2. latest[j][b].no + 1 \in Nat
      BY <3>1 DEF AttemptRecord
    <3>3. [Requeued(j) EXCEPT !.authStage = b, !.authNo = latest[j][b].no + 1] \in JobRecord
      BY <2>2, <3>1, <3>2, GrantedType
    <3>4. job' \in [Jobs -> JobRecord]
      <4> DEFINE new == [Requeued(j) EXCEPT !.authStage = b, !.authNo = latest[j][b].no + 1]
      <4>1. job' = [job EXCEPT ![j] = new]
        BY <2>4
      <4> HIDE DEF new
      <4> QED BY <3>3, <4>1 DEF TypeOK, new
    <3>5. [latest[j][b] EXCEPT !.status = "result_unknown", !.outcome = "unknown"]
             \in AttemptRecord
      BY <3>1 DEF AttemptRecord, AttemptStatuses, Outcomes
    <3>6. latest' \in [Jobs -> [Stages -> AttemptRecord]]
      BY <2>4, <3>5 DEF TypeOK
    <3>7. granted' \in [Jobs -> [Stages -> Nat]]
      BY <2>4, <3>1 DEF TypeOK
    <3> QED
      BY <1>3, <2>0, <3>4, <3>6, <3>7 DEF Resume, TypeOK, HoldsJob, process
  <2> QED
    BY <1>3, <2>3, <2>4 DEF Resume
<1>4. ASSUME ArchiveThread \/ RestoreThread
      PROVE  TypeInv'
  BY <1>4 DEF ArchiveThread, RestoreThread, TypeOK, HoldsJob, process, history
<1> QED
  BY <1>1, <1>2, <1>3, <1>4 DEF Author

LEMMA ScanTypes ==
    ASSUME ConstantsAssumption, TypeInv, Scan
    PROVE  TypeInv'
<1> USE DEF TypeInv
<1>1. CASE Prepare
  BY <1>1, RecoverTypes DEF Prepare, TypeOK, HoldsJob, history
<1>2. CASE Reconcile
  <2>1. w' \in Worker
    BY <1>2 DEF Reconcile, Goto, TypeOK, Worker, PCs
  <2>2. w'.pc = "select"
    BY <1>2 DEF Reconcile, Goto, TypeOK, Worker
  <2>3. /\ job' \in [Jobs -> JobRecord]
        /\ latest' \in [Jobs -> [Stages -> AttemptRecord]]
    BY <1>2, RecoverTypes DEF Reconcile
  <2> QED
    BY <1>2, <2>1, <2>2, <2>3 DEF Reconcile, TypeOK, HoldsJob, process, history
<1>3. CASE Select
  <2>1. w' = Idle \/ \E j \in Jobs : w' = [w EXCEPT !.pc = "claim", !.job = j]
    BY <1>3 DEF Select, Queued
  <2>2. w' \in Worker /\ HoldsJob'
    <3>1. CASE w' = Idle
      BY <3>1, IdleType DEF HoldsJob, Idle
    <3>2. ASSUME NEW j \in Jobs, w' = [w EXCEPT !.pc = "claim", !.job = j]
          PROVE  w' \in Worker /\ w'.job = j
      <4>1. j \in 0..MaxJobs
        BY DEF Jobs, ConstantsAssumption
      <4> QED
        BY <3>2, <4>1 DEF TypeOK, Worker, PCs
    <3> QED
      BY <2>1, <3>1, <3>2 DEF HoldsJob
  <2> QED
    BY <1>3, <2>2 DEF Select, TypeOK, store, process, history
<1>4. CASE Claim
  <2>0. w.job \in Jobs /\ w.pc = "claim" /\ job[w.job] \in JobRecord
    BY <1>4 DEF Claim, HoldsJob, TypeOK
  <2> DEFINE new == [job[w.job] EXCEPT !.status = "running", !.rev = job[w.job].rev + 1,
                                       !.epoch = epoch]
  <2>1. job[w.job].rev + 1 \in Nat /\ "running" \in Statuses /\ epoch \in Nat
    BY <2>0, JobFields DEF Statuses, Active, TypeOK
  <2>2. new \in JobRecord
    BY <2>0, <2>1, ClaimedType
  <2>3. CASE w' = Idle /\ UNCHANGED job
    BY <1>4, <2>3, IdleType DEF Claim, TypeOK, HoldsJob, Idle, process, history
  <2>4. CASE /\ job' = [job EXCEPT ![w.job] = new]
             /\ w' = [w EXCEPT !.pc = "stage", !.rev = job[w.job].rev + 1]
    <3>1. job' \in [Jobs -> JobRecord]
      <4> HIDE DEF new
      <4> QED BY <2>0, <2>2, <2>4 DEF TypeOK
    <3>2. w' \in Worker /\ w'.job = w.job
      BY <2>1, <2>4 DEF TypeOK, Worker, PCs
    <3> QED
      BY <1>4, <2>0, <3>1, <3>2 DEF Claim, TypeOK, HoldsJob, process, history
  <2> QED
    BY <1>4, <2>3, <2>4 DEF Claim
<1> QED
  BY <1>1, <1>2, <1>3, <1>4 DEF Scan

(* The moves of the thread keep its type and its job. *)
LEMMA GotoTypes ==
    ASSUME TypeOK, NEW pc \in PCs, Goto(pc)
    PROVE  w' \in Worker /\ w'.job = w.job
  BY DEF Goto, TypeOK, Worker

LEMMA RaiseTypes ==
    ASSUME TypeOK, NEW b \in BOOLEAN, Raise(b)
    PROVE  w' \in Worker /\ w'.job = w.job
  BY DEF Raise, TypeOK, Worker, PCs

LEMMA InterruptedTypes ==
    ASSUME TypeOK, NEW out \in Outcomes, Interrupted(out)
    PROVE  w' \in Worker /\ w'.job = w.job
  BY DEF Interrupted, TypeOK, Worker, PCs

LEMMA FailingTypes ==
    ASSUME TypeOK, NEW out \in Outcomes, NEW r \in BOOLEAN, NEW b \in BOOLEAN, Failing(out, r, b)
    PROVE  w' \in Worker /\ w'.job = w.job
<1> DEFINE c == r /\ w.stage + 1 \in Repair
           new == [w EXCEPT !.pc = "failing", !.outcome = out, !.caught = b, !.repairable = c]
<1>1. c \in BOOLEAN /\ "failing" \in PCs /\ w \in Worker
  BY DEF TypeOK, PCs
<1>2. new \in Worker
  <2> HIDE DEF c
  <2> QED BY <1>1, FailingType
<1>3. w' = new
  BY Zenon DEF Failing
<1>4. new.job = w.job
  BY <1>1 DEF Worker
<1> QED
  BY <1>2, <1>3, <1>4

(* The statuses and outcomes the executor writes exist. *)
LEMMA Words ==
    /\ {"prepared", "dispatched", "succeeded", "skipped", "failed", "result_unknown"}
          \subseteq AttemptStatuses
    /\ {"none", "known", "not_sent", "unknown"} \subseteq Outcomes
    /\ {"succeeded", "cancelled", "failed", "recovery_required"} \subseteq Statuses
    /\ {"stage_failed", "result_unknown", "paused"} \subseteq Reasons
    /\ {"stage", "skip", "dispatch", "wire", "refused", "retry", "reply", "store", "failing",
        "publish", "finish", "pause"} \subseteq PCs
  BY DEF AttemptStatuses, Outcomes, Statuses, Active, Replaceable, Reasons, PCs

LEMMA AfterType ==
    ASSUME NEW s \in Stages
    PROVE  After(s) \in Nat \ {0} /\ s + 1 \in Nat \ {0}
  BY DEF After, Stages

(* The thread is within a stage: the parts of the state it may change. *)
LEMMA WithinStage ==
    ASSUME TypeInv, w' \in Worker, w'.job \in Jobs,
           job' \in [Jobs -> JobRecord], latest' \in [Jobs -> [Stages -> AttemptRecord]],
           sends' \in [Jobs -> [Stages -> Nat]], doubt' \in [Jobs -> SUBSET Stages],
           late' \in [Jobs -> Nat],
           UNCHANGED <<receipt, thread, process, crashes, busy, granted>>
    PROVE  TypeInv'
  BY DEF TypeInv, TypeOK, HoldsJob, process

LEMMA StageTypes ==
    ASSUME ConstantsAssumption, TypeInv, Stage
    PROVE  TypeInv'
<1> USE DEF TypeInv
<1>a. /\ job \in [Jobs -> JobRecord] /\ latest \in [Jobs -> [Stages -> AttemptRecord]]
      /\ sends \in [Jobs -> [Stages -> Nat]] /\ doubt \in [Jobs -> SUBSET Stages]
      /\ late \in [Jobs -> Nat] /\ w \in Worker
  BY DEF TypeOK
<1>b. w.pc \notin {"scan", "select"}
  BY DEF Stage, RunStage, FinishSkip, Dispatch, OverBudget, Send, ConnectionRefused, NotSent,
         Retry, Reply, FinishAttempt, FailAttempt, FailInterrupted, Publish, Interrupt
<1>c. w.job \in Jobs /\ w.stage \in Stages /\ w.outcome \in Outcomes /\ w.repairable \in BOOLEAN
  BY <1>a, <1>b DEF HoldsJob, Worker
<1>1. CASE RunStage
  <2>1. UNCHANGED <<receipt, thread, process, crashes, busy, history>>
    BY <1>1 DEF RunStage
  <2>2. CASE TurnTo(After(w.stage)) /\ UNCHANGED <<job, latest>>
    BY <1>a, <1>c, <2>1, <2>2, AfterType, TurnTypes, WithinStage DEF history
  <2>3. CASE TurnTo(w.stage + 1) /\ UNCHANGED <<job, latest>>
    BY <1>a, <1>c, <2>1, <2>3, AfterType, TurnTypes, WithinStage DEF history
  <2>4. CASE /\ Begin(w.job, w.stage)
             /\ w' = [w EXCEPT !.pc = IF w.stage \in Skipped THEN "skip" ELSE "dispatch",
                               !.no = AttemptNo(w.job, w.stage)]
    <3>1. /\ job' \in [Jobs -> JobRecord] /\ latest' \in [Jobs -> [Stages -> AttemptRecord]]
          /\ AttemptNo(w.job, w.stage) \in Nat
      BY <1>c, <2>4, BeginTypes
    <3>2. w' \in Worker /\ w'.job = w.job
      BY <1>a, <2>4, <3>1, Words DEF Worker
    <3> QED
      BY <1>a, <1>c, <2>1, <3>1, <3>2, WithinStage DEF history
  <2>5. CASE Raise(TRUE) /\ UNCHANGED <<job, latest>>
    BY <1>a, <1>c, <2>1, <2>5, RaiseTypes, WithinStage DEF history
  <2> QED
    BY <1>1, <2>2, <2>3, <2>4, <2>5 DEF RunStage
<1>2. CASE FinishSkip
  <2>1. latest' \in [Jobs -> [Stages -> AttemptRecord]]
    BY <1>2, <1>c, Words, RecordTypes DEF FinishSkip
  <2>2. w' \in Worker /\ w'.job \in Jobs
    BY <1>2, <1>a, <1>c, AfterType, TurnTypes DEF FinishSkip
  <2> QED
    BY <1>2, <1>a, <2>1, <2>2, WithinStage DEF FinishSkip, history
<1>3. CASE Dispatch
  <2>1. latest' \in [Jobs -> [Stages -> AttemptRecord]]
    BY <1>3, <1>c, Words, RecordTypes DEF Dispatch
  <2>2. w' \in Worker /\ w'.job \in Jobs
    BY <1>3, <1>c, Words, GotoTypes DEF Dispatch
  <2> QED
    BY <1>3, <1>a, <2>1, <2>2, WithinStage DEF Dispatch, history
<1>4. CASE OverBudget
  <2>1. w' \in Worker /\ w'.job \in Jobs
    BY <1>4, <1>c, Words, FailingTypes DEF OverBudget
  <2> QED
    BY <1>4, <1>a, <2>1, WithinStage DEF OverBudget, history, store
<1>5. CASE Send
  <2>1. w' \in Worker /\ w'.job \in Jobs
    BY <1>5, <1>c, Words, GotoTypes DEF Send
  <2>2. /\ sends' \in [Jobs -> [Stages -> Nat]] /\ doubt' \in [Jobs -> SUBSET Stages]
        /\ late' \in [Jobs -> Nat]
    BY <1>5, <1>a, <1>c DEF Send
  <2> QED
    BY <1>5, <1>a, <2>1, <2>2, WithinStage DEF Send, store
<1>6. CASE ConnectionRefused
  <2>1. w' \in Worker /\ w'.job \in Jobs
    BY <1>6, <1>c, Words, GotoTypes DEF ConnectionRefused
  <2> QED
    BY <1>6, <1>a, <2>1, WithinStage DEF ConnectionRefused, history, store
<1>7. CASE NotSent
  <2>1. latest' \in [Jobs -> [Stages -> AttemptRecord]]
    BY <1>7, <1>c, Words, RecordTypes DEF NotSent
  <2>2. w' \in Worker /\ w'.job \in Jobs
    <3>1. CASE w' = [w EXCEPT !.pc = "retry", !.tries = 1]
      <4>1. "retry" \in PCs /\ 1 \in 0..1
        BY DEF PCs
      <4> QED
        BY <1>a, <1>c, <3>1, <4>1 DEF Worker
    <3>2. CASE Failing("known", FALSE, FALSE)
      BY <1>c, <3>2, Words, FailingTypes
    <3> QED
      BY <1>7, <3>1, <3>2 DEF NotSent
  <2> QED
    BY <1>7, <1>a, <2>1, <2>2, WithinStage DEF NotSent, history
<1>8. CASE Retry
  <2>1. CASE /\ Begin(w.job, w.stage)
             /\ w' = [w EXCEPT !.pc = "dispatch", !.no = AttemptNo(w.job, w.stage)]
    <3>1. /\ job' \in [Jobs -> JobRecord] /\ latest' \in [Jobs -> [Stages -> AttemptRecord]]
          /\ AttemptNo(w.job, w.stage) \in Nat
      BY <1>c, <2>1, BeginTypes
    <3>2. w' \in Worker /\ w'.job = w.job
      BY <1>a, <2>1, <3>1, Words DEF Worker
    <3> QED
      BY <1>8, <1>a, <1>c, <3>1, <3>2, WithinStage DEF Retry, history
  <2>2. CASE Interrupted("not_sent") /\ UNCHANGED <<job, latest>>
    BY <1>8, <1>a, <1>c, <2>2, Words, InterruptedTypes, WithinStage DEF Retry, history
  <2> QED
    BY <1>8, <2>1, <2>2 DEF Retry
<1>9. CASE Reply
  <2>1. w' \in Worker /\ w'.job = w.job
    <3>1. CASE Goto("store")
      BY <3>1, Words, GotoTypes
    <3>2. ASSUME NEW r \in BOOLEAN, Failing("known", r, r)
          PROVE  w' \in Worker /\ w'.job = w.job
      BY <3>2, Words, FailingTypes
    <3>3. CASE Failing("unknown", FALSE, FALSE)
      BY <3>3, Words, FailingTypes
    <3> QED
      BY <1>9, <3>1, <3>2, <3>3 DEF Reply
  <2> QED
    BY <1>9, <1>a, <1>c, <2>1, WithinStage DEF Reply, history, store
<1>10. CASE FinishAttempt
  <2>1. latest' \in [Jobs -> [Stages -> AttemptRecord]]
    BY <1>10, <1>c, Words, RecordTypes DEF FinishAttempt
  <2>2. w' \in Worker /\ w'.job \in Jobs
    BY <1>10, <1>a, <1>c, AfterType, TurnTypes DEF FinishAttempt
  <2>3. doubt' \in [Jobs -> SUBSET Stages]
    BY <1>10, <1>a DEF FinishAttempt
  <2> QED
    BY <1>10, <1>a, <2>1, <2>2, <2>3, WithinStage DEF FinishAttempt
<1>11. CASE FailAttempt
  <2>1. latest' \in [Jobs -> [Stages -> AttemptRecord]]
    BY <1>11, <1>c, Words, RecordTypes DEF FailAttempt
  <2>2. w' \in Worker /\ w'.job \in Jobs
    BY <1>11, <1>a, <1>c, AfterType, TurnTypes, RaiseTypes DEF FailAttempt
  <2>3. doubt' \in [Jobs -> SUBSET Stages]
    BY <1>11, <1>a DEF FailAttempt
  <2>4. job' \in [Jobs -> JobRecord]
    <3> DEFINE st == IF w.outcome = "unknown" THEN "recovery_required" ELSE "failed"
               rs == IF w.outcome = "unknown" THEN "result_unknown" ELSE "stage_failed"
               new == [job[w.job] EXCEPT !.status = st, !.reason = rs]
    <3>1. st \in Statuses /\ rs \in Reasons /\ job[w.job] \in JobRecord
      BY <1>a, <1>c, Words
    <3>2. new \in JobRecord
      <4> HIDE DEF st, rs
      <4> QED BY <3>1, SettledType
    <3>3. job' = job \/ job' = [job EXCEPT ![w.job] = new]
      BY <1>11 DEF FailAttempt
    <3> HIDE DEF new
    <3> QED
      BY <1>a, <1>c, <3>2, <3>3
  <2> QED
    BY <1>11, <1>a, <2>1, <2>2, <2>3, <2>4, WithinStage DEF FailAttempt
<1>12. CASE FailInterrupted
  <2>1. latest' \in [Jobs -> [Stages -> AttemptRecord]]
    BY <1>12, <1>a, <1>c, Words, RecordTypes DEF FailInterrupted
  <2>2. w' \in Worker /\ w'.job \in Jobs
    BY <1>12, <1>c, RaiseTypes DEF FailInterrupted
  <2> QED
    BY <1>12, <1>a, <2>1, <2>2, WithinStage DEF FailInterrupted, history
<1>13. CASE Publish
  <2>1. [job[w.job] EXCEPT !.status = "succeeded"] \in JobRecord
    BY <1>a, <1>c, Words, StatusType
  <2>2. job' \in [Jobs -> JobRecord]
    BY <1>13, <1>a, <1>c, <2>1 DEF Publish
  <2>3. w' \in Worker /\ HoldsJob'
    BY <1>13, IdleType DEF Publish, Idle, HoldsJob
  <2> QED
    BY <1>13, <2>2, <2>3 DEF Publish, TypeOK, process, history
<1>14. CASE Interrupt
  <2>1. w' \in Worker /\ w'.job = w.job
    <3>1. CASE Raise(TRUE)
      BY <3>1, RaiseTypes
    <3>2. CASE Interrupted(Evidence(w.pc))
      <4>1. Evidence(w.pc) \in Outcomes
        BY Words DEF Evidence
      <4> QED
        BY <3>2, <4>1, InterruptedTypes
    <3> QED
      BY <1>14, <3>1, <3>2 DEF Interrupt
  <2> QED
    BY <1>14, <1>a, <1>c, <2>1, WithinStage DEF Interrupt, history, store
<1> QED
  BY <1>1, <1>2, <1>3, <1>4, <1>5, <1>6, <1>7, <1>8, <1>9, <1>10, <1>11, <1>12, <1>13, <1>14
     DEF Stage

LEMMA HandlerTypes ==
    ASSUME ConstantsAssumption, TypeInv, Handler
    PROVE  TypeInv'
<1> USE DEF TypeInv
<1>a. job \in [Jobs -> JobRecord] /\ w \in Worker
  BY DEF TypeOK
<1>b. w.job \in Jobs
  BY <1>a DEF HoldsJob, Handler, Settle, FinishCancellation, Pause
<1>1. CASE Settle
  <2>1. w' \in Worker /\ HoldsJob'
    <3>1. CASE Goto("finish") \/ Goto("pause")
      BY <3>1, <1>b, Words, GotoTypes DEF HoldsJob
    <3>2. CASE w' = Idle
      BY <3>2, IdleType DEF Idle, HoldsJob
    <3> QED
      BY <1>1, <3>1, <3>2 DEF Settle
  <2> QED
    BY <1>1, <2>1 DEF Settle, TypeOK, store, process, history
<1>2. CASE FinishCancellation
  <2>1. [job[w.job] EXCEPT !.status = "cancelled"] \in JobRecord
    BY <1>a, <1>b, Words, StatusType
  <2>2. job' \in [Jobs -> JobRecord]
    BY <1>2, <1>a, <1>b, <2>1 DEF FinishCancellation
  <2>3. w' \in Worker /\ HoldsJob'
    BY <1>2, IdleType DEF FinishCancellation, Idle, HoldsJob
  <2> QED
    BY <1>2, <2>2, <2>3 DEF FinishCancellation, TypeOK, process, history
<1>3. CASE Pause
  <2>1. job' \in [Jobs -> JobRecord]
    <3> DEFINE st == IF w.http THEN "recovery_required" ELSE "failed"
               new == [job[w.job] EXCEPT !.status = st, !.reason = "paused"]
    <3>1. st \in Statuses /\ "paused" \in Reasons /\ job[w.job] \in JobRecord
      BY <1>a, <1>b, Words
    <3>2. new \in JobRecord
      <4> HIDE DEF st
      <4> QED BY <3>1, SettledType
    <3>3. job' = job \/ job' = [job EXCEPT ![w.job] = new]
      BY <1>3 DEF Pause
    <3> HIDE DEF new
    <3> QED
      BY <1>a, <1>b, <3>2, <3>3
  <2>2. w' \in Worker /\ HoldsJob'
    BY <1>3, IdleType DEF Pause, Idle, HoldsJob
  <2> QED
    BY <1>3, <2>1, <2>2 DEF Pause, TypeOK, process, history
<1> QED
  BY <1>1, <1>2, <1>3 DEF Handler

LEMMA FaultTypes ==
    ASSUME ConstantsAssumption, TypeInv, Busy \/ Crash \/ Restart
    PROVE  TypeInv'
<1> USE DEF TypeInv
<1>a. w \in Worker
  BY DEF TypeOK
<1>1. CASE Busy
  <2>1. CASE w' = Idle
    BY <1>1, <2>1, IdleType DEF Busy, TypeOK, Idle, HoldsJob, store, process, history
  <2>2. CASE w.pc \notin {"scan", "select"} /\ (\/ Raise(FALSE) \/ Failing("known", FALSE, FALSE)
                \/ Failing("unknown", FALSE, FALSE) \/ Failing("known", TRUE, FALSE))
    <3>1. w' \in Worker /\ w'.job = w.job
      BY <2>2, Words, RaiseTypes, FailingTypes
    <3> QED
      BY <1>1, <2>2, <3>1 DEF Busy, TypeOK, HoldsJob, store, process, history
  <2> QED
    BY <1>1, <2>1, <2>2 DEF Busy
<1>2. CASE Crash
  <2>1. w' \in Worker /\ HoldsJob'
    BY <1>2, IdleType DEF Crash, Idle, HoldsJob
  <2>2. up' \in BOOLEAN
    BY <1>2 DEF Crash
  <2>3. crashes' \in Nat
    BY <1>2 DEF Crash, TypeOK
  <2> QED
    BY <1>2, <2>1, <2>2, <2>3 DEF Crash, TypeOK, store, history
<1>3. CASE Restart
  <2>1. outdated' \in SUBSET Jobs
    BY <1>3 DEF Restart, TypeOK
  <2>2. epoch' \in Nat \ {0}
    BY <1>3 DEF Restart, TypeOK
  <2>3. up' \in BOOLEAN /\ initialized' \in BOOLEAN
    BY <1>3 DEF Restart
  <2> QED
    BY <1>3, <2>1, <2>2, <2>3 DEF Restart, TypeOK, HoldsJob, store, history
<1> QED
  BY <1>1, <1>2, <1>3

LEMMA NextTypes ==
    ASSUME ConstantsAssumption, TypeInv, [Next]_vars
    PROVE  TypeInv'
<1>1. CASE UNCHANGED vars
  BY <1>1 DEF TypeInv, TypeOK, HoldsJob, vars, store, process, history
<1> QED
  BY <1>1, AuthorTypes, ScanTypes, StageTypes, HandlerTypes, FaultTypes DEF Next, Executor

(* The rows, the thread's position and the history keep their types, and    *)
(* the thread that is inside a job always holds one (run_once).             *)
THEOREM TypeInvariant == Spec => []TypeInv
<1>1. Init => TypeInv
  BY InitTypes, ConstantsAssumption
<1>2. TypeInv /\ [Next]_vars => TypeInv'
  BY NextTypes, ConstantsAssumption
<1> QED
  BY <1>1, <1>2, PTL DEF Spec

(* No sequence of author's calls, executor steps, lock errors and restarts *)
(* puts a value in a column that its table and the state sets of           *)
(* job_state.py do not know.                                               *)
THEOREM TypeCorrect == Spec => []TypeOK
<1>1. TypeInv => TypeOK
  BY DEF TypeInv
<1> QED
  BY <1>1, TypeInvariant, PTL

-----------------------------------------------------------------------------
(* What may be sent. *)

(* The positions inside run_once between claim() and the handler, and those *)
(* where begin_attempt has been done for the thread's stage.               *)
Inside == {"stage", "skip", "dispatch", "wire", "refused", "retry", "reply", "store",
           "failing", "failHttp", "publish"}
Begun  == Inside \ {"stage", "publish"}
Unsent == {"skip", "dispatch", "wire", "refused", "retry"}

(* A cancelled flag and a cancelled status go together. *)
CancelMarked ==
    \A j \in Jobs : job[j].cancel => job[j].status \in {"cancel_requested", "cancelled"}

(* Inside run_once only a cancellation can take the job from the thread. *)
Owned ==
    /\ ~up => w.pc = "scan"
    /\ w.pc \in Inside =>
          /\ job[w.job].epoch = epoch /\ w.job \notin outdated
          /\ job[w.job].status \in {"running", "cancel_requested"}
          /\ job[w.job].status = "running" => job[w.job].rev = w.rev /\ ~job[w.job].cancel

(* What the latest attempt of the thread's stage is at each position. *)
Position ==
    w.pc \in Begun =>
        LET a == latest[w.job][w.stage] IN
        /\ ~Authorized(w.job, w.stage) /\ a.status # "none"
        /\ w.pc \in {"skip", "dispatch"} => a.status = "prepared"
        /\ w.pc \in {"wire", "refused", "reply", "store"} => a.status = "dispatched"
        /\ w.pc = "retry" => a.status = "failed" /\ a.outcome = "not_sent"
        /\ w.pc = "failing" => w.outcome \in {"known", "unknown"}
        /\ w.pc = "failHttp" => w.outcome \in {"known", "not_sent", "unknown"}
        /\ w.pc = "failHttp" /\ w.outcome = "known" => job[w.job].status # "running"

(* Whether a row, or the thread, is free to send once more without a grant. *)
RowMaySend(j, s) ==
    LET a == latest[j][s] IN
    \/ a.status = "prepared"
    \/ a.outcome = "not_sent" /\ a.no = 1
    \/ Authorized(j, s)
ThreadMaySend(j, s) ==
    /\ w.job = j /\ w.stage = s
    /\ w.pc \in Unsent \/ (w.pc = "failHttp" /\ w.outcome = "not_sent")
MaySend(j, s) == RowMaySend(j, s) \/ ThreadMaySend(j, s)

(* What the rows know of one stage. *)
Rows(j, s) ==
    LET a == latest[j][s] IN
    /\ (a.no = 0) <=> (a.status = "none")
    /\ a.status = "result_unknown" => a.outcome = "unknown"
    /\ a.outcome = "not_sent" => a.status = "failed"
    /\ job[j].authStage = s => job[j].authNo <= a.no + 1
    /\ Authorized(j, s) => a.status \in {"failed", "result_unknown"}

Charged(j, s) ==
    /\ sends[j][s] <= 1 + granted[j][s]
    /\ latest[j][s].no = 0 => sends[j][s] = 0
    /\ MaySend(j, s) => sends[j][s] <= granted[j][s]

Doubted(j, s) ==
    s \in doubt[j] => /\ latest[j][s].status \in {"dispatched", "result_unknown"}
                      /\ ~MaySend(j, s)

Control == UnfinishedHasConversation /\ CancelMarked /\ Owned /\ Position
Stored  == \A j \in Jobs, s \in Stages : Rows(j, s) /\ Charged(j, s) /\ Doubted(j, s)

IInv == TypeInv /\ Control /\ Stored

-----------------------------------------------------------------------------
(* What one step does to the rows of a job and to its stages. *)

SameAuth(j) == job'[j].authStage = job[j].authStage /\ job'[j].authNo = job[j].authNo
SameJob(j)  == /\ SameAuth(j) /\ job'[j].status = job[j].status /\ job'[j].rev = job[j].rev
               /\ job'[j].cancel = job[j].cancel /\ job'[j].epoch = job[j].epoch

(* A step that sends and grants nothing, and lets no stage be sent that     *)
(* could not be sent before, unless it was never begun.                    *)
Quiet(j, s) ==
    /\ sends'[j][s] = sends[j][s] /\ granted'[j][s] = granted[j][s]
    /\ s \in doubt'[j] => /\ s \in doubt[j]
                          /\ latest'[j][s].status \in {"dispatched", "result_unknown"}
    /\ MaySend(j, s)' => MaySend(j, s) \/ latest[j][s].no = 0
    /\ latest'[j][s].no = 0 => latest[j][s].no = 0

LEMMA QuietKeeps ==
    ASSUME IInv, NEW j \in Jobs, NEW s \in Stages, Quiet(j, s)
    PROVE  Charged(j, s)' /\ Doubted(j, s)'
<1>1. Rows(j, s) /\ Charged(j, s) /\ Doubted(j, s) /\ granted[j][s] \in Nat
  BY DEF IInv, Stored, TypeInv, TypeOK
<1>2. Charged(j, s)'
  BY <1>1 DEF Quiet, Charged
<1>3. Doubted(j, s)'
  BY <1>1 DEF Quiet, Doubted, Rows
<1> QED
  BY <1>2, <1>3

LEMMA InitInv ==
    ASSUME ConstantsAssumption, Init
    PROVE  IInv
<1>1. TypeInv
  BY InitTypes
<1>2. /\ \A j \in Jobs : job[j].status = "absent" /\ ~job[j].cancel /\ job[j].authStage = 0
      /\ w.pc = "scan"
      /\ \A j \in Jobs, s \in Stages : /\ latest[j][s].no = 0 /\ latest[j][s].status = "none"
                                       /\ latest[j][s].outcome = "none"
                                       /\ sends[j][s] = 0 /\ granted[j][s] = 0
  BY DEF Init, NoJob, NoAttempt, Idle, None
<1>3. \A j \in Jobs : doubt[j] = {}
  BY DEF Init
<1>4. UnfinishedHasConversation
  BY <1>2 DEF UnfinishedHasConversation, Unfinished, Active
<1>5. CancelMarked /\ Owned /\ Position
  BY <1>2 DEF CancelMarked, Owned, Position, Inside, Begun
<1>6. ASSUME NEW j \in Jobs, NEW s \in Stages PROVE Rows(j, s) /\ Charged(j, s) /\ Doubted(j, s)
  BY <1>2, <1>3 DEF Rows, Charged, Doubted, Authorized, Stages, MaySend, RowMaySend,
         ThreadMaySend, Unsent
<1> QED
  BY <1>1, <1>4, <1>5, <1>6 DEF IInv, Control, Stored

(* A step that leaves the attempt and the authorisation of a stage alone. *)
LEMMA SameRow ==
    ASSUME IInv, NEW j \in Jobs, NEW s \in Stages,
           latest'[j][s] = latest[j][s], SameAuth(j),
           sends'[j][s] = sends[j][s], granted'[j][s] = granted[j][s],
           doubt'[j] = doubt[j], ThreadMaySend(j, s)' => MaySend(j, s)
    PROVE  Rows(j, s)' /\ Quiet(j, s)
<1>1. Rows(j, s) /\ Doubted(j, s)
  BY DEF IInv, Stored
<1>2. Authorized(j, s)' <=> Authorized(j, s)
  BY DEF SameAuth, Authorized
<1>3. Rows(j, s)'
  BY <1>1, <1>2 DEF Rows, SameAuth
<1>4. RowMaySend(j, s)' <=> RowMaySend(j, s)
  BY <1>2 DEF RowMaySend
<1>5. Quiet(j, s)
  BY <1>1, <1>4 DEF Quiet, MaySend, Doubted
<1> QED
  BY <1>3, <1>5

(* A step that leaves all attempts and authorisations alone. *)
LEMMA LeaveRows ==
    ASSUME IInv, UNCHANGED <<latest, sends, granted, doubt>>, \A j \in Jobs : SameAuth(j),
           \A j \in Jobs, s \in Stages : ThreadMaySend(j, s)' => MaySend(j, s)
    PROVE  Stored'
<1> SUFFICES ASSUME NEW j \in Jobs, NEW s \in Stages
             PROVE  Rows(j, s)' /\ Charged(j, s)' /\ Doubted(j, s)'
  BY DEF Stored
<1> QED
  BY SameRow, QuietKeeps

(* What the author's calls do to the control rows. *)
LEMMA EnqueueEffect ==
    ASSUME TypeInv, NEW j \in Jobs, NEW r, NEW c, Enqueue(j, r, c)
    PROVE  /\ SameAuth(j) /\ job[j].status = "absent" /\ job'[j].status = "queued"
           /\ job'[j].cancel = job[j].cancel
           /\ \A i \in Jobs \ {j} : job'[i] = job[i]
<1>1. job[j] \in JobRecord
  BY DEF TypeInv, TypeOK
<1>2. job'[j] = [job[j] EXCEPT !.status = "queued", !.replaces = r, !.confirm = c]
  BY DEF Enqueue, TypeInv, TypeOK
<1>3. \A i \in Jobs \ {j} : job'[i] = job[i]
  BY DEF Enqueue, TypeInv, TypeOK
<1>4. SameAuth(j) /\ job'[j].status = "queued" /\ job'[j].cancel = job[j].cancel
  BY <1>1, <1>2 DEF SameAuth, JobRecord
<1> QED
  BY <1>3, <1>4 DEF Enqueue

LEMMA CancelEffect ==
    ASSUME TypeInv, NEW j \in Jobs, Cancel(j)
    PROVE  /\ SameAuth(j) /\ job'[j].cancel
           /\ job[j].status = "running" => job'[j].status = "cancel_requested"
           /\ job[j].status # "running" => job'[j].status = "cancelled"
           /\ job[j].status # "cancel_requested"
           /\ job'[j].epoch = job[j].epoch
           /\ \A i \in Jobs \ {j} : job'[i] = job[i]
<1>1. job[j] \in JobRecord
  BY DEF TypeInv, TypeOK
<1> DEFINE st == IF job[j].status = "running" THEN "cancel_requested" ELSE "cancelled"
<1>2. job'[j] = [job[j] EXCEPT !.cancel = TRUE, !.rev = job[j].rev + 1, !.status = st]
  BY DEF Cancel, TypeInv, TypeOK
<1>3. \A i \in Jobs \ {j} : job'[i] = job[i]
  BY DEF Cancel, TypeInv, TypeOK
<1>4. SameAuth(j) /\ job'[j].cancel /\ job'[j].status = st /\ job'[j].epoch = job[j].epoch
  <2> HIDE DEF st
  <2> QED BY <1>1, <1>2 DEF SameAuth, JobRecord
<1> QED
  BY <1>3, <1>4 DEF Cancel

LEMMA EnqueueKeeps ==
    ASSUME IInv, NEW j \in Jobs, NEW r, NEW c, Enqueue(j, r, c)
    PROVE  Control' /\ Stored'
<1>1. /\ SameAuth(j) /\ job[j].status = "absent" /\ job'[j].status = "queued"
      /\ job'[j].cancel = job[j].cancel /\ \A i \in Jobs \ {j} : job'[i] = job[i]
  BY EnqueueEffect DEF IInv
<1>2. thread' = "active" /\ UNCHANGED <<latest, w, up, epoch, outdated, sends, granted, doubt>>
  BY DEF Enqueue, process, history
<1>3. \A i \in Jobs : SameAuth(i)
  BY <1>1 DEF SameAuth
<1>4. w.pc \in Inside => w.job \in Jobs \ {j}
  BY <1>1 DEF IInv, Control, Owned, TypeInv, HoldsJob, Inside
<1>5. UnfinishedHasConversation'
  BY <1>2 DEF UnfinishedHasConversation
<1>6. CancelMarked'
  BY <1>1 DEF CancelMarked, IInv, Control
<1>7. Owned'
  BY <1>1, <1>2, <1>4 DEF Owned, IInv, Control
<1>8. Position'
  BY <1>1, <1>2, <1>3, <1>4 DEF Position, IInv, Control, Authorized, SameAuth, Begun
<1>9. Stored'
  BY <1>2, <1>3, LeaveRows DEF ThreadMaySend, MaySend
<1> QED
  BY <1>5, <1>6, <1>7, <1>8, <1>9 DEF Control

LEMMA CancelKeeps ==
    ASSUME IInv, NEW j \in Jobs, Cancel(j)
    PROVE  Control' /\ Stored'
<1>1. /\ SameAuth(j) /\ job'[j].cancel /\ job'[j].status \in {"cancel_requested", "cancelled"}
      /\ job[j].status = "running" => job'[j].status = "cancel_requested"
      /\ job[j].status \notin {"running", "cancel_requested"} => job'[j].status = "cancelled"
      /\ job[j].status # "cancel_requested"
      /\ job'[j].epoch = job[j].epoch
      /\ \A i \in Jobs \ {j} : job'[i] = job[i]
  BY CancelEffect DEF IInv
<1>2. UNCHANGED <<thread, latest, w, up, epoch, outdated, sends, granted, doubt>>
  BY DEF Cancel, process, history
<1>3. \A i \in Jobs : SameAuth(i)
  BY <1>1 DEF SameAuth
<1>5. UnfinishedHasConversation'
  BY <1>1, <1>2 DEF UnfinishedHasConversation, IInv, Control, Unfinished, Active
<1>6. CancelMarked'
  BY <1>1 DEF CancelMarked, IInv, Control
<1>7. Owned'
  BY <1>1, <1>2 DEF Owned, IInv, Control, TypeInv, HoldsJob, Inside
<1>8. Position'
  <2>1. w.pc \in Begun => w.job \in Jobs
    BY DEF IInv, TypeInv, HoldsJob, Begun, Inside
  <2> QED
    BY <1>1, <1>2, <1>3, <2>1 DEF Position, IInv, Control, Authorized, SameAuth
<1>9. Stored'
  BY <1>2, <1>3, LeaveRows DEF ThreadMaySend, MaySend
<1> QED
  BY <1>5, <1>6, <1>7, <1>8, <1>9 DEF Control

(* A resume clears the doubt, by confirmation or because there was none, *)
(* and authorises at most one stage, which it grants a request.          *)
LEMMA RequeuedFields ==
    ASSUME TypeInv, NEW j \in Jobs
    PROVE  /\ Requeued(j) \in JobRecord
           /\ Requeued(j).status = "queued" /\ ~Requeued(j).cancel
           /\ Requeued(j).authStage = job[j].authStage /\ Requeued(j).authNo = job[j].authNo
<1>1. job[j] \in JobRecord
  BY DEF TypeInv, TypeOK
<1>2. job[j].rev + 1 \in Nat /\ None \in Nat /\ "queued" \in Statuses /\ "none" \in Reasons
  BY <1>1, JobFields DEF None, Statuses, Active, Reasons
<1>3. Requeued(j) \in JobRecord
  BY <1>1, <1>2, RequeuedType DEF Requeued
<1>4. /\ Requeued(j).status = "queued" /\ Requeued(j).cancel = FALSE
      /\ Requeued(j).authStage = job[j].authStage /\ Requeued(j).authNo = job[j].authNo
  BY <1>1 DEF Requeued, JobRecord
<1> QED
  BY <1>3, <1>4

(* The stage a resume authorises: its attempt stays, or is closed as unknown. *)
ResumedStage(j, b) ==
    /\ job'[j].authStage = b /\ job'[j].authNo = latest[j][b].no + 1
    /\ granted'[j][b] = granted[j][b] + 1
    /\ latest'[j][b].no = latest[j][b].no
    /\ latest'[j][b].status \in {"failed", "result_unknown"}
    /\ \/ latest'[j][b].outcome = "unknown"
       \/ latest[j][b].status # "dispatched" /\ latest'[j][b] = latest[j][b]
    /\ \A s \in Stages \ {b} : latest'[j][s] = latest[j][s] /\ granted'[j][s] = granted[j][s]

LEMMA ResumeEffect ==
    ASSUME TypeInv, NEW j \in Jobs, NEW k, NEW x, NEW c, Resume(j, k, x, c)
    PROVE  /\ job[j].status \in {"recovery_required", "failed"} /\ thread = "active"
           /\ job'[j].status = "queued" /\ ~job'[j].cancel
           /\ \A i \in Jobs \ {j} : job'[i] = job[i] /\ latest'[i] = latest[i]
                                    /\ granted'[i] = granted[i]
           /\ \/ SameAuth(j) /\ latest'[j] = latest[j] /\ granted'[j] = granted[j]
              \/ \E b \in BlockedStages(j) : ResumedStage(j, b)
<1>1. /\ job \in [Jobs -> JobRecord] /\ latest \in [Jobs -> [Stages -> AttemptRecord]]
      /\ granted \in [Jobs -> [Stages -> Nat]]
  BY DEF TypeInv, TypeOK
<1>2. job[j].status \in {"recovery_required", "failed"} /\ thread = "active"
  BY DEF Resume, MayResume
<1>5. CASE job' = [job EXCEPT ![j] = Requeued(j)] /\ UNCHANGED <<latest, granted>>
  <2>1. job'[j] = Requeued(j) /\ \A i \in Jobs \ {j} : job'[i] = job[i]
    BY <1>1, <1>5
  <2> QED
    BY <1>2, <1>5, <2>1, RequeuedFields DEF SameAuth
<1>6. ASSUME NEW b \in NewestBlocked(j),
             job' = [job EXCEPT ![j] = [Requeued(j) EXCEPT !.authStage = b,
                                                   !.authNo = latest[j][b].no + 1]],
             latest' = IF latest[j][b].status # "dispatched" THEN latest
                       ELSE [latest EXCEPT ![j][b] = [@ EXCEPT !.status = "result_unknown",
                                                               !.outcome = "unknown"]],
             granted' = [granted EXCEPT ![j][b] = @ + 1]
      PROVE  /\ job'[j].status = "queued" /\ ~job'[j].cancel
             /\ \A i \in Jobs \ {j} : job'[i] = job[i] /\ latest'[i] = latest[i]
                                      /\ granted'[i] = granted[i]
             /\ b \in BlockedStages(j) /\ ResumedStage(j, b)
  <2>1. b \in BlockedStages(j) /\ b \in Stages
        /\ latest[j][b].status \in {"failed", "result_unknown", "dispatched"}
    BY <1>6 DEF NewestBlocked, BlockedStages
  <2> DEFINE new == [Requeued(j) EXCEPT !.authStage = b, !.authNo = latest[j][b].no + 1]
             old == latest[j][b]
             row == [old EXCEPT !.status = "result_unknown", !.outcome = "unknown"]
  <2>2. new.status = "queued" /\ new.cancel = Requeued(j).cancel /\ new.authStage = b
        /\ new.authNo = latest[j][b].no + 1
    BY RequeuedFields DEF JobRecord
  <2>3. job'[j] = new /\ \A i \in Jobs \ {j} : job'[i] = job[i]
    <3>1. job' = [job EXCEPT ![j] = new]
      BY <1>6
    <3> HIDE DEF new
    <3> QED BY <1>1, <3>1
  <2>4. /\ granted'[j][b] = granted[j][b] + 1
        /\ \A s \in Stages \ {b} : granted'[j][s] = granted[j][s]
        /\ \A i \in Jobs \ {j} : granted'[i] = granted[i]
    BY <1>1, <1>6, <2>1
  <2>5. row.status = "result_unknown" /\ row.outcome = "unknown" /\ row.no = old.no
    BY <1>1, <2>1 DEF AttemptRecord
  <2>6. latest' = IF old.status # "dispatched" THEN latest ELSE [latest EXCEPT ![j][b] = row]
    BY <1>6
  <2>7. /\ \A i \in Jobs \ {j} : latest'[i] = latest[i]
        /\ \A s \in Stages \ {b} : latest'[j][s] = latest[j][s]
        /\ latest'[j][b] = IF old.status # "dispatched" THEN old ELSE row
    <3> HIDE DEF row
    <3> QED BY <1>1, <2>1, <2>6
  <2>8. ResumedStage(j, b)
    <3>1. job'[j].authStage = b /\ job'[j].authNo = latest[j][b].no + 1
      BY <2>2, <2>3
    <3>2. /\ latest'[j][b].no = latest[j][b].no
          /\ latest'[j][b].status \in {"failed", "result_unknown"}
          /\ \/ latest'[j][b].outcome = "unknown"
             \/ latest[j][b].status # "dispatched" /\ latest'[j][b] = latest[j][b]
      <4>1. CASE old.status = "dispatched"
        <5>1. latest'[j][b] = row
          BY <2>7, <4>1
        <5> HIDE DEF row
        <5> QED BY <2>5, <5>1
      <4>2. CASE old.status # "dispatched"
        <5>1. latest'[j][b] = latest[j][b]
          BY <2>7, <4>2
        <5> QED BY <2>1, <4>2, <5>1
      <4> QED
        BY <4>1, <4>2
    <3> QED
      BY <2>4, <2>7, <3>1, <3>2 DEF ResumedStage
  <2> QED
    BY <2>1, <2>2, <2>3, <2>4, <2>7, <2>8, RequeuedFields
<1> QED
  BY <1>2, <1>5, <1>6 DEF Resume

LEMMA ResumeDoubts ==
    ASSUME IInv, NEW j \in Jobs, NEW k, NEW x, NEW c, Resume(j, k, x, c)
    PROVE  doubt'[j] = {} /\ \A i \in Jobs \ {j} : doubt'[i] = doubt[i]
<1>1. doubt \in [Jobs -> SUBSET Stages]
  BY DEF IInv, TypeInv, TypeOK
<1>2. doubt' = IF c THEN [doubt EXCEPT ![j] = {}] ELSE doubt
  BY DEF Resume
<1>3. CASE c
  BY <1>1, <1>2, <1>3
<1>4. CASE ~c
  <2>1. \A s \in Stages : latest[j][s].status \notin {"dispatched", "result_unknown"}
    BY <1>4 DEF Resume, RequiresConfirmation
  <2>2. \A s \in Stages : s \notin doubt[j]
    BY <2>1 DEF IInv, Stored, Doubted
  <2> QED
    BY <1>1, <1>2, <1>4, <2>2
<1> QED
  BY <1>3, <1>4

LEMMA ResumeKeeps ==
    ASSUME IInv, NEW j \in Jobs, NEW k, NEW x, NEW c, Resume(j, k, x, c)
    PROVE  Control' /\ Stored'
<1>1. /\ job[j].status \in {"recovery_required", "failed"} /\ thread = "active"
      /\ job'[j].status = "queued" /\ ~job'[j].cancel
      /\ \A i \in Jobs \ {j} : job'[i] = job[i] /\ latest'[i] = latest[i]
                               /\ granted'[i] = granted[i]
      /\ \/ SameAuth(j) /\ latest'[j] = latest[j] /\ granted'[j] = granted[j]
         \/ \E b \in BlockedStages(j) : ResumedStage(j, b)
  BY ResumeEffect DEF IInv
<1>2. UNCHANGED <<thread, w, up, epoch, outdated, sends>>
  BY DEF Resume, process
<1>3. w.pc \in Inside => w.job \in Jobs \ {j}
  BY <1>1 DEF IInv, Control, Owned, TypeInv, HoldsJob, Inside
<1>4. doubt'[j] = {} /\ \A i \in Jobs \ {j} : doubt'[i] = doubt[i]
  BY ResumeDoubts
<1>5. UnfinishedHasConversation'
  BY <1>1, <1>2 DEF UnfinishedHasConversation
<1>6. CancelMarked'
  BY <1>1 DEF CancelMarked, IInv, Control
<1>7. Owned'
  BY <1>1, <1>2, <1>3 DEF Owned, IInv, Control
<1>8. Position'
  BY <1>1, <1>2, <1>3 DEF Position, IInv, Control, Authorized, Begun
<1>9. ASSUME NEW i \in Jobs, NEW s \in Stages
      PROVE  Rows(i, s)' /\ Charged(i, s)' /\ Doubted(i, s)'
  <2>0. ThreadMaySend(i, s)' <=> ThreadMaySend(i, s)
    BY <1>2 DEF ThreadMaySend
  <2>1. CASE i # j
    <3>1. i \in Jobs \ {j}
      BY <2>1
    <3>2. SameAuth(i)
      BY <1>1, <3>1 DEF SameAuth
    <3> QED
      BY <1>1, <1>2, <1>4, <2>0, <3>1, <3>2, SameRow, QuietKeeps DEF MaySend
  <2>2. CASE i = j
    <3>0. Rows(j, s) /\ Charged(j, s) /\ latest[j][s].no \in Nat
          /\ granted[j][s] \in Nat /\ sends[j][s] \in Nat
      BY <2>2 DEF IInv, Stored, TypeInv, TypeOK, AttemptRecord
    <3>1. Doubted(j, s)'
      BY <1>4 DEF Doubted
    <3>2. CASE SameAuth(j) /\ latest'[j] = latest[j] /\ granted'[j] = granted[j]
      <4>1. Rows(j, s)' /\ (Authorized(j, s)' <=> Authorized(j, s))
        BY <3>0, <3>2 DEF Rows, SameAuth, Authorized
      <4>2. MaySend(j, s)' <=> MaySend(j, s)
        BY <2>0, <2>2, <3>2, <4>1 DEF MaySend, RowMaySend
      <4>3. Charged(j, s)'
        BY <1>2, <3>0, <3>2, <4>2 DEF Charged
      <4> QED
        BY <2>2, <3>1, <4>1, <4>3
    <3>3. ASSUME NEW b \in BlockedStages(j), ResumedStage(j, b)
          PROVE  Rows(j, s)' /\ Charged(j, s)' /\ Doubted(j, s)'
      <4>1. b \in Stages /\ latest[j][b].status \in {"failed", "result_unknown", "dispatched"}
        BY DEF BlockedStages
      <4>2. CASE s = b
        <5>1. /\ latest[j][s].no # 0 /\ latest'[j][s].no = latest[j][s].no
              /\ latest'[j][s].status \in {"failed", "result_unknown"}
          BY <3>0, <3>3, <4>1, <4>2 DEF Rows, ResumedStage
        <5>2. latest'[j][s].status = "result_unknown" => latest'[j][s].outcome = "unknown"
          BY <3>0, <3>3, <4>1, <4>2 DEF Rows, ResumedStage
        <5>3. Rows(j, s)'
          BY <3>0, <3>3, <4>2, <5>1, <5>2 DEF Rows, ResumedStage
        <5>4. Charged(j, s)'
          BY <1>2, <3>0, <3>3, <4>2, <5>1 DEF Charged, ResumedStage
        <5> QED
          BY <3>1, <5>3, <5>4
      <4>3. CASE s # b
        <5>1. latest'[j][s] = latest[j][s] /\ granted'[j][s] = granted[j][s]
          BY <3>3, <4>3 DEF ResumedStage
        <5>2. ~Authorized(j, s)' /\ job'[j].authStage # s
          BY <3>3, <4>3 DEF Authorized, ResumedStage
        <5>3. Rows(j, s)'
          BY <3>0, <5>1, <5>2 DEF Rows
        <5>4. MaySend(j, s)' => MaySend(j, s)
          BY <2>0, <2>2, <5>1, <5>2 DEF MaySend, RowMaySend
        <5>5. Charged(j, s)'
          BY <1>2, <3>0, <5>1, <5>4 DEF Charged
        <5> QED
          BY <3>1, <5>3, <5>5
      <4> QED
        BY <4>2, <4>3
    <3> QED
      BY <1>1, <2>2, <3>2, <3>3
  <2> QED
    BY <2>1, <2>2
<1> QED
  BY <1>5, <1>6, <1>7, <1>8, <1>9 DEF Control, Stored

LEMMA ThreadKeeps ==
    ASSUME IInv, ArchiveThread \/ RestoreThread
    PROVE  Control' /\ Stored'
<1>1. UNCHANGED <<job, latest, w, up, epoch, outdated, sends, granted, doubt>>
  BY DEF ArchiveThread, RestoreThread, process, history
<1>2. UnfinishedHasConversation'
  BY <1>1 DEF ArchiveThread, RestoreThread, UnfinishedHasConversation
<1>3. CancelMarked' /\ Owned'
  BY <1>1 DEF CancelMarked, Owned, IInv, Control
<1>4. Position'
  BY <1>1 DEF Position, Authorized, IInv, Control
<1>5. Stored'
  BY <1>1, LeaveRows DEF ThreadMaySend, MaySend, SameAuth
<1> QED
  BY <1>2, <1>3, <1>4, <1>5 DEF Control

LEMMA AuthorKeeps ==
    ASSUME IInv, Author
    PROVE  Control' /\ Stored'
  BY EnqueueKeeps, CancelKeeps, ResumeKeeps, ThreadKeeps DEF Author

-----------------------------------------------------------------------------
(* The thread at the top of its loop. *)

LEMMA RecoverRows ==
    ASSUME IInv, NEW S \in SUBSET Jobs, RecoverAll(S), w'.pc \notin Inside,
           UNCHANGED <<sends, granted, doubt>>
    PROVE  Stored' /\ \A j \in Jobs : SameAuth(j)
<1>1. ASSUME NEW j \in Jobs PROVE SameAuth(j)
  <2>1. job[j] \in JobRecord
    BY DEF IInv, TypeInv, TypeOK
  <2>2. RecoveredJob(j).authStage = job[j].authStage /\ RecoveredJob(j).authNo = job[j].authNo
    BY <2>1 DEF RecoveredJob, JobRecord
  <2> QED
    BY <2>2 DEF RecoverAll, SameAuth
<1>2. ASSUME NEW j \in Jobs, NEW s \in Stages
      PROVE  Rows(j, s)' /\ Quiet(j, s)
  <2>0. ~ThreadMaySend(j, s)'
    BY DEF ThreadMaySend, Inside, Unsent
  <2>1. CASE latest'[j][s] = latest[j][s]
    BY <1>1, <2>0, <2>1, SameRow
  <2>2. CASE latest'[j][s] # latest[j][s]
    <3>1. /\ s \in UnknownStages(j)
          /\ latest'[j][s] = [latest[j][s] EXCEPT !.status = "result_unknown", !.outcome = "unknown"]
      BY <2>2 DEF RecoverAll, RecoveredLatest
    <3>2. latest[j][s] \in AttemptRecord
      BY DEF IInv, TypeInv, TypeOK
    <3>3. /\ latest'[j][s].status = "result_unknown" /\ latest'[j][s].outcome = "unknown"
          /\ latest'[j][s].no = latest[j][s].no
      BY <3>1, <3>2 DEF AttemptRecord
    <3>4. latest[j][s].status # "none" /\ ~Authorized(j, s)
      BY <3>1 DEF UnknownStages
    <3>5. ~Authorized(j, s)'
      BY <1>1, <3>3, <3>4 DEF Authorized, SameAuth
    <3>6. Rows(j, s) /\ Doubted(j, s)
      BY DEF IInv, Stored
    <3>7. Rows(j, s)'
      BY <1>1, <3>3, <3>4, <3>5, <3>6 DEF Rows, SameAuth
    <3>8. ~MaySend(j, s)'
      BY <2>0, <3>3, <3>5 DEF MaySend, RowMaySend
    <3> QED
      BY <3>3, <3>7, <3>8 DEF Quiet
  <2> QED
    BY <2>1, <2>2
<1> QED
  BY <1>1, <1>2, QuietKeeps DEF Stored

LEMMA RecoverKeeps ==
    ASSUME IInv, NEW S \in SUBSET Jobs, \A j \in S : job[j].status \in Active,
           RecoverAll(S), w'.pc \in {"scan", "select"}, up', thread' = thread,
           UNCHANGED <<sends, granted, doubt>>
    PROVE  Control' /\ Stored'
<1>1. Stored'
  BY RecoverRows DEF Inside
<1>2. Owned' /\ Position'
  BY DEF Owned, Position, Inside, Begun
<1>3. ASSUME NEW j \in Jobs
      PROVE  /\ job'[j].cancel => job'[j].status \in {"cancel_requested", "cancelled"}
             /\ job'[j].status \in Unfinished => job[j].status \in Unfinished
  <2>1. job[j] \in JobRecord
    BY DEF IInv, TypeInv, TypeOK
  <2>2. CASE j \in S
    <3>1. job'[j] = RecoveredJob(j)
      BY <2>2 DEF RecoverAll
    <3> DEFINE st == IF Verdict(j) \in {"unsupported", "unknown"} THEN "recovery_required"
                     ELSE Verdict(j)
    <3>2. RecoveredJob(j).cancel = job[j].cancel /\ RecoveredJob(j).status = st
      BY <2>1 DEF RecoveredJob, JobRecord
    <3>3. job[j].cancel => st = "cancelled"
      BY DEF Verdict
    <3> QED
      BY <2>2, <3>1, <3>2, <3>3 DEF Unfinished, Active
  <2>3. CASE j \notin S
    BY <2>3 DEF RecoverAll, IInv, Control, CancelMarked
  <2> QED
    BY <2>2, <2>3
<1>4. UnfinishedHasConversation' /\ CancelMarked'
  BY <1>3 DEF UnfinishedHasConversation, CancelMarked, IInv, Control
<1> QED
  BY <1>1, <1>2, <1>4 DEF Control

LEMMA ClaimMove ==
    ASSUME w \in Worker, NEW j, w' = [w EXCEPT !.pc = "claim", !.job = j]
    PROVE  w'.pc = "claim"
  BY DEF Worker

LEMMA ScanKeeps ==
    ASSUME IInv, Scan
    PROVE  Control' /\ Stored'
<1>1. CASE Prepare
  <2>1. LeftBehind \in SUBSET Jobs /\ \A j \in LeftBehind : job[j].status \in Active
    BY DEF LeftBehind
  <2> QED
    BY <1>1, <2>1, RecoverKeeps DEF Prepare, history
<1>2. CASE Reconcile
  <2>1. Abandoned \in SUBSET Jobs /\ \A j \in Abandoned : job[j].status \in Active
    BY DEF Abandoned, Active
  <2>2. w'.pc = "select"
    BY <1>2 DEF Reconcile, Goto, IInv, TypeInv, TypeOK, Worker
  <2> QED
    BY <1>2, <2>1, <2>2, RecoverKeeps DEF Reconcile, process, history
<1>3. CASE Select
  <2>1. UNCHANGED <<job, latest, thread, up, epoch, outdated, sends, granted, doubt>> /\ up
    BY <1>3 DEF Select, store, process, history
  <2>2. w'.pc \in {"scan", "claim"}
    <3>1. w' = Idle \/ \E j \in Jobs : w' = [w EXCEPT !.pc = "claim", !.job = j]
      BY <1>3 DEF Select, Queued
    <3>2. w \in Worker
      BY DEF IInv, TypeInv, TypeOK
    <3>3. ASSUME NEW j \in Jobs, w' = [w EXCEPT !.pc = "claim", !.job = j]
          PROVE  w'.pc = "claim"
      BY <3>2, <3>3, ClaimMove, Zenon
    <3>4. CASE w' = Idle
      BY <3>4 DEF Idle
    <3> QED
      BY <3>1, <3>3, <3>4, Zenon
  <2>3. Stored'
    BY <2>1, <2>2, LeaveRows DEF SameAuth, ThreadMaySend, Unsent
  <2>4. UnfinishedHasConversation' /\ CancelMarked'
    BY <2>1 DEF UnfinishedHasConversation, CancelMarked, IInv, Control
  <2>5. Owned' /\ Position'
    BY <2>1, <2>2 DEF Owned, Position, Inside, Begun
  <2> QED
    BY <2>3, <2>4, <2>5 DEF Control
<1>4. CASE Claim
  <2>0. w.job \in Jobs /\ w.pc = "claim" /\ job[w.job] \in JobRecord /\ w \in Worker /\ up
        /\ job \in [Jobs -> JobRecord]
        /\ UNCHANGED <<latest, thread, up, epoch, outdated, sends, granted, doubt>>
    BY <1>4 DEF Claim, HoldsJob, TypeOK, IInv, TypeInv, process, history
  <2>1. CASE w' = Idle /\ UNCHANGED job
    <3>1. w'.pc = "scan"
      BY <2>1 DEF Idle
    <3>2. Stored'
      BY <2>0, <2>1, <3>1, LeaveRows DEF SameAuth, ThreadMaySend, Unsent
    <3>3. UnfinishedHasConversation' /\ CancelMarked'
      BY <2>0, <2>1 DEF UnfinishedHasConversation, CancelMarked, IInv, Control
    <3>4. Owned' /\ Position'
      BY <3>1 DEF Owned, Position, Inside, Begun
    <3> QED
      BY <3>2, <3>3, <3>4 DEF Control
  <2> DEFINE new == [job[w.job] EXCEPT !.status = "running", !.rev = job[w.job].rev + 1,
                                       !.epoch = epoch]
  <2>2. CASE /\ job[w.job].status = "queued" /\ ~job[w.job].cancel /\ w.job \notin outdated
             /\ job' = [job EXCEPT ![w.job] = new]
             /\ w' = [w EXCEPT !.pc = "stage", !.rev = job[w.job].rev + 1]
    <3>1. w'.pc = "stage" /\ w'.rev = job[w.job].rev + 1 /\ w'.job = w.job
      BY <2>0, <2>2 DEF Worker
    <3>2. /\ new.status = "running" /\ new.rev = job[w.job].rev + 1 /\ new.epoch = epoch
          /\ new.cancel = job[w.job].cancel /\ new.authStage = job[w.job].authStage
          /\ new.authNo = job[w.job].authNo
      BY <2>0 DEF JobRecord
    <3>3. job'[w.job] = new /\ \A i \in Jobs \ {w.job} : job'[i] = job[i]
      <4> HIDE DEF new
      <4> QED BY <2>0, <2>2
    <3> HIDE DEF new
    <3>4. \A i \in Jobs : SameAuth(i)
      BY <3>2, <3>3 DEF SameAuth
    <3>5. Stored'
      BY <2>0, <3>1, <3>4, LeaveRows DEF ThreadMaySend, Unsent
    <3>6. UnfinishedHasConversation'
      BY <2>0, <2>2, <3>3 DEF UnfinishedHasConversation, IInv, Control, Unfinished, Active
    <3>7. CancelMarked'
      BY <2>2, <3>2, <3>3 DEF CancelMarked, IInv, Control
    <3>8. Owned'
      BY <2>0, <2>2, <3>1, <3>2, <3>3 DEF Owned
    <3>9. Position'
      BY <3>1 DEF Position, Begun
    <3> QED
      BY <3>5, <3>6, <3>7, <3>8, <3>9 DEF Control
  <2> QED
    BY <1>4, <2>1, <2>2 DEF Claim
<1> QED
  BY <1>1, <1>2, <1>3, <1>4 DEF Scan

-----------------------------------------------------------------------------
(* The thread inside a job. *)

SameTask == w'.job = w.job /\ w'.rev = w.rev /\ w'.stage = w.stage

LEMMA GotoFields ==
    ASSUME w \in Worker, NEW pc, Goto(pc)
    PROVE  w'.pc = pc /\ SameTask /\ w'.outcome = w.outcome
  BY DEF Goto, Worker, SameTask

LEMMA RaiseFields ==
    ASSUME w \in Worker, NEW b, Raise(b)
    PROVE  w'.pc = "raised"
  BY DEF Raise, Worker

LEMMA InterruptedFields ==
    ASSUME w \in Worker, NEW out, Interrupted(out)
    PROVE  w'.pc = "failHttp" /\ SameTask /\ w'.outcome = out
  BY DEF Interrupted, Worker, SameTask

LEMMA FailingFields ==
    ASSUME w \in Worker, NEW out, NEW r, NEW b, Failing(out, r, b)
    PROVE  w'.pc = "failing" /\ SameTask /\ w'.outcome = out
<1> DEFINE c == r /\ w.stage + 1 \in Repair
           new == [w EXCEPT !.pc = "failing", !.outcome = out, !.caught = b, !.repairable = c]
<1>1. w' = new
  BY Zenon DEF Failing
<1>2. /\ new.pc = "failing" /\ new.outcome = out /\ new.job = w.job /\ new.rev = w.rev
      /\ new.stage = w.stage
  <2> HIDE DEF c
  <2> QED BY DEF Worker
<1> QED
  BY <1>1, <1>2 DEF SameTask

LEMMA TurnFields ==
    ASSUME NEW s, TurnTo(s)
    PROVE  w'.pc \in {"stage", "publish"} /\ w'.job = w.job /\ w'.rev = w.rev
  BY DEF TurnTo, Idle

(* A step that only moves the thread. *)
LEMMA MoveKeeps ==
    ASSUME IInv, up', UNCHANGED <<job, latest, thread, epoch, outdated, sends, granted, doubt>>,
           w'.pc \in Inside => w.pc \in Inside /\ w'.job = w.job /\ w'.rev = w.rev,
           \A j \in Jobs, s \in Stages : ThreadMaySend(j, s)' => MaySend(j, s),
           Position'
    PROVE  Control' /\ Stored'
<1>1. Stored'
  BY LeaveRows DEF SameAuth
<1>2. UnfinishedHasConversation' /\ CancelMarked'
  BY DEF UnfinishedHasConversation, CancelMarked, IInv, Control
<1>3. Owned'
  BY DEF Owned, IInv, Control
<1> QED
  BY <1>1, <1>2, <1>3 DEF Control

(* A step that leaves run_once's stages, or turns to another one. *)
LEMMA LeaveKeeps ==
    ASSUME IInv, up', UNCHANGED <<job, latest, thread, epoch, outdated, sends, granted, doubt>>,
           w'.pc \in Inside => w.pc \in Inside /\ w'.job = w.job /\ w'.rev = w.rev,
           w'.pc \notin Begun
    PROVE  Control' /\ Stored'
<1>1. Position'
  BY DEF Position
<1>2. \A j \in Jobs, s \in Stages : ~ThreadMaySend(j, s)'
  BY DEF ThreadMaySend, Begun, Inside, Unsent
<1> QED
  BY <1>1, <1>2, MoveKeeps

(* A step from one position within an attempt to another. *)
LEMMA WithinKeeps ==
    ASSUME IInv, up', UNCHANGED <<job, latest, thread, epoch, outdated, sends, granted, doubt>>,
           w.pc \in Begun, SameTask,
           w'.pc \in Unsent \/ (w'.pc = "failHttp" /\ w'.outcome = "not_sent")
               => w.pc \in Unsent,
           \/ w'.pc = "refused" /\ w.pc = "wire"
           \/ w'.pc = "store" /\ w.pc = "reply"
           \/ w'.pc = "failing" /\ w'.outcome \in {"known", "unknown"}
           \/ /\ w'.pc = "failHttp" /\ w'.outcome \in {"known", "not_sent", "unknown"}
              /\ w'.outcome = "known" => job[w.job].status # "running"
    PROVE  Control' /\ Stored'
<1>1. \A j \in Jobs, s \in Stages : ThreadMaySend(j, s)' => MaySend(j, s)
  BY DEF ThreadMaySend, MaySend, SameTask
<1>2. Position'
  BY DEF Position, Authorized, SameTask, IInv, Control
<1> QED
  BY <1>1, <1>2, MoveKeeps DEF SameTask, Begun, Inside

(* Beginning an attempt that begin_attempt allows. *)
BeganRow(j, s) == /\ latest'[j][s].no # 0 /\ latest'[j][s].status = "prepared"
                  /\ latest'[j][s].outcome # "not_sent"
OtherRows(j, s) == \A i \in Jobs, t \in Stages :
                      <<i, t>> # <<j, s>> => latest'[i][t] = latest[i][t]
SameFences == \A i \in Jobs : /\ job'[i].status = job[i].status /\ job'[i].rev = job[i].rev
                              /\ job'[i].cancel = job[i].cancel /\ job'[i].epoch = job[i].epoch
AuthUsed(j) == \A i \in Jobs : SameAuth(i) \/ (i = j /\ job'[i].authStage = None)

LEMMA BeginRows ==
    ASSUME IInv, NEW j \in Jobs, NEW s \in Stages, Begin(j, s)
    PROVE  /\ BeganRow(j, s) /\ ~Authorized(j, s)' /\ Rows(j, s)'
           /\ OtherRows(j, s) /\ SameFences /\ AuthUsed(j)
<1>0. /\ job \in [Jobs -> JobRecord] /\ latest \in [Jobs -> [Stages -> AttemptRecord]]
      /\ Rows(j, s) /\ latest[j][s].no \in Nat /\ job[j].authNo \in Nat
  BY DEF IInv, TypeInv, TypeOK, Stored, AttemptRecord, JobRecord
<1>1. CASE latest[j][s].status = "prepared"
  <2>1. UNCHANGED <<job, latest>>
    BY <1>1 DEF Begin
  <2>2. Rows(j, s)' /\ ~Authorized(j, s)'
    BY <1>0, <1>1, <2>1 DEF Rows, Authorized
  <2>3. OtherRows(j, s) /\ SameFences /\ AuthUsed(j)
    BY <2>1 DEF OtherRows, SameFences, AuthUsed, SameAuth
  <2>4. BeganRow(j, s)
    BY <1>0, <1>1, <2>1 DEF BeganRow, Rows
  <2> QED
    BY <2>2, <2>3, <2>4
<1>2. CASE latest[j][s].status # "prepared"
  <2> DEFINE new == [no |-> latest[j][s].no + 1, status |-> "prepared", outcome |-> "none",
                     repairable |-> FALSE, at |-> job[j].made + 1]
             r1 == [job[j] EXCEPT !.made = @ + 1, !.authStage = None, !.authNo = 0]
             r2 == [job[j] EXCEPT !.made = @ + 1]
  <2>1. latest' = [latest EXCEPT ![j][s] = new]
    BY <1>2 DEF Begin
  <2>2. \/ job' = [job EXCEPT ![j] = r1]
        \/ ~(latest[j][s].no > 0 /\ Authorized(j, s)) /\ job' = [job EXCEPT ![j] = r2]
    BY <1>2, Zenon DEF Begin
  <2>3. /\ latest'[j][s] = new
        /\ OtherRows(j, s)
    <3> HIDE DEF new
    <3> QED BY <1>0, <2>1 DEF OtherRows
  <2>4. new.no = latest[j][s].no + 1 /\ new.status = "prepared" /\ new.outcome = "none"
    OBVIOUS
  <2>5. /\ r1.status = job[j].status /\ r1.rev = job[j].rev /\ r1.cancel = job[j].cancel
        /\ r1.epoch = job[j].epoch /\ r1.authStage = None
    BY <1>0 DEF JobRecord
  <2>6. /\ r2.status = job[j].status /\ r2.rev = job[j].rev /\ r2.cancel = job[j].cancel
        /\ r2.epoch = job[j].epoch /\ r2.authStage = job[j].authStage
        /\ r2.authNo = job[j].authNo
    BY <1>0 DEF JobRecord
  <2>7. /\ \A i \in Jobs \ {j} : job'[i] = job[i]
        /\ job'[j] = r1 \/ (~(latest[j][s].no > 0 /\ Authorized(j, s)) /\ job'[j] = r2)
    <3> HIDE DEF r1, r2
    <3> QED BY <1>0, <2>2
  <2> HIDE DEF new, r1, r2
  <2>8. SameFences /\ AuthUsed(j)
    BY <2>5, <2>6, <2>7 DEF SameAuth, SameFences, AuthUsed
  <2>9. BeganRow(j, s)
    BY <1>0, <2>3, <2>4 DEF BeganRow
  <2>10. CASE job'[j] = r1
    <3>1. job'[j].authStage # s
      BY <2>5, <2>10 DEF None, Stages
    <3> QED
      BY <1>0, <2>3, <2>4, <2>8, <2>9, <3>1 DEF Rows, Authorized, BeganRow
  <2>11. CASE ~(latest[j][s].no > 0 /\ Authorized(j, s)) /\ job'[j] = r2
    <3>1. ~Authorized(j, s)
      BY <1>0, <2>11 DEF Rows
    <3>2. job'[j].authStage = s => job'[j].authNo < latest[j][s].no + 1
      BY <1>0, <2>6, <2>11, <3>1 DEF Rows, Authorized
    <3>3. ~Authorized(j, s)' /\ job'[j].authStage = s => job'[j].authNo <= latest'[j][s].no + 1
      BY <1>0, <2>3, <2>4, <2>6, <2>11, <3>2 DEF Authorized
    <3>4. ~Authorized(j, s)'
      BY <1>0, <2>3, <2>4, <2>6, <2>11, <3>2 DEF Authorized
    <3> QED
      BY <2>3, <2>8, <2>9, <3>3, <3>4 DEF Rows, BeganRow
  <2> QED
    BY <2>7, <2>10, <2>11
<1> QED
  BY <1>1, <1>2

LEMMA BeginKeeps ==
    ASSUME IInv, up', NEW j \in Jobs, NEW s \in Stages, w.job = j, w.stage = s,
           CanBegin(j, s), Begin(j, s),
           SameTask, w'.pc \in {"skip", "dispatch"}, w.pc \in Inside,
           UNCHANGED <<thread, epoch, outdated, sends, granted, doubt>>
    PROVE  Control' /\ Stored'
<1>1. /\ BeganRow(j, s) /\ ~Authorized(j, s)' /\ Rows(j, s)'
      /\ OtherRows(j, s) /\ SameFences /\ AuthUsed(j)
  BY BeginRows
<1>2. MaySend(j, s) \/ latest[j][s].no = 0
  BY DEF CanBegin, MaySend, RowMaySend
<1>3. ASSUME NEW i \in Jobs, NEW t \in Stages
      PROVE  Rows(i, t)' /\ Quiet(i, t)
  <2>1. CASE <<i, t>> = <<j, s>>
    <3>1. Rows(i, t) /\ Doubted(i, t)
      BY DEF IInv, Stored
    <3>2. t \notin doubt[i]
      BY <1>2, <2>1, <3>1 DEF Rows, Doubted
    <3> QED
      BY <1>1, <1>2, <2>1, <3>2 DEF Quiet, BeganRow
  <2>2. CASE <<i, t>> # <<j, s>> /\ SameAuth(i)
    <3>1. ~ThreadMaySend(i, t)'
      BY <2>2 DEF ThreadMaySend, SameTask
    <3> QED
      BY <1>1, <2>2, <3>1, SameRow DEF OtherRows
  <2>3. CASE <<i, t>> # <<j, s>> /\ job'[i].authStage = None
    <3>1. ~ThreadMaySend(i, t)'
      BY <2>3 DEF ThreadMaySend, SameTask
    <3>2. Rows(i, t) /\ Doubted(i, t) /\ latest'[i][t] = latest[i][t]
      BY <1>1, <2>3 DEF IInv, Stored, OtherRows
    <3>3. job'[i].authStage # t /\ ~Authorized(i, t)'
      BY <2>3 DEF None, Stages, Authorized
    <3>4. Rows(i, t)'
      BY <3>2, <3>3 DEF Rows
    <3>5. MaySend(i, t)' => MaySend(i, t)
      BY <3>1, <3>2, <3>3 DEF MaySend, RowMaySend
    <3> QED
      BY <3>2, <3>4, <3>5 DEF Quiet, Doubted
  <2> QED
    BY <1>1, <2>1, <2>2, <2>3 DEF AuthUsed
<1>4. Stored'
  BY <1>3, QuietKeeps DEF Stored
<1>5. UnfinishedHasConversation' /\ CancelMarked'
  BY <1>1 DEF SameFences, UnfinishedHasConversation, CancelMarked, IInv, Control
<1>6. Owned'
  BY <1>1 DEF SameFences, Owned, IInv, Control, SameTask
<1>7. Position'
  BY <1>1 DEF Position, SameTask, BeganRow
<1> QED
  BY <1>4, <1>5, <1>6, <1>7 DEF Control

(* Writing the attempt of the thread's stage. *)
RecordedRow(j, s, st, out) == /\ latest'[j][s].no = latest[j][s].no
                              /\ latest'[j][s].status = st /\ latest'[j][s].outcome = out

LEMMA RecordEffect ==
    ASSUME IInv, NEW j \in Jobs, NEW s \in Stages, w.job = j, w.stage = s,
           NEW st, NEW out, NEW r, Record(st, out, r)
    PROVE  RecordedRow(j, s, st, out) /\ OtherRows(j, s)
<1>1. latest \in [Jobs -> [Stages -> AttemptRecord]] /\ latest[j][s] \in AttemptRecord
  BY DEF IInv, TypeInv, TypeOK
<1> DEFINE new == [latest[j][s] EXCEPT !.status = st, !.outcome = out, !.repairable = r]
<1>2. new.no = latest[j][s].no /\ new.status = st /\ new.outcome = out
  BY <1>1 DEF AttemptRecord
<1>3. latest' = [latest EXCEPT ![j][s] = new]
  BY DEF Record
<1> HIDE DEF new
<1>4. latest'[j][s] = new /\ OtherRows(j, s)
  BY <1>1, <1>3 DEF OtherRows
<1> QED
  BY <1>2, <1>4 DEF RecordedRow

LEMMA RecordKeeps ==
    ASSUME IInv, NEW j \in Jobs, NEW s \in Stages, w.job = j, w.stage = s,
           NEW st, NEW out, RecordedRow(j, s, st, out), OtherRows(j, s),
           UNCHANGED <<sends, granted>>, \A i \in Jobs : SameAuth(i),
           latest[j][s].status # "none", st \notin {"none", "prepared"},
           Authorized(j, s) => st \in {"failed", "result_unknown"},
           st = "result_unknown" => out = "unknown",
           out = "not_sent" => st = "failed" /\ MaySend(j, s),
           \A i \in Jobs, t \in Stages : ThreadMaySend(i, t)' => MaySend(i, t),
           \A i \in Jobs, t \in Stages : <<i, t>> # <<j, s>> => (t \in doubt'[i] <=> t \in doubt[i]),
           s \in doubt'[j] => s \in doubt[j] /\ st \in {"dispatched", "result_unknown"}
    PROVE  Stored'
<1>1. ASSUME NEW i \in Jobs, NEW t \in Stages
      PROVE  Rows(i, t)' /\ Quiet(i, t)
  <2>0. Rows(i, t) /\ Doubted(i, t) /\ SameAuth(i)
    BY DEF IInv, Stored
  <2>1. CASE <<i, t>> # <<j, s>>
    <3>1. latest'[i][t] = latest[i][t]
      BY <2>1 DEF OtherRows
    <3>2. Authorized(i, t)' <=> Authorized(i, t)
      BY <2>0, <3>1 DEF Authorized, SameAuth
    <3>3. Rows(i, t)'
      BY <2>0, <3>1, <3>2 DEF Rows, SameAuth
    <3>4. RowMaySend(i, t)' <=> RowMaySend(i, t)
      BY <3>1, <3>2 DEF RowMaySend
    <3> QED
      BY <2>0, <2>1, <3>1, <3>3, <3>4 DEF Quiet, MaySend, Doubted
  <2>2. CASE i = j /\ t = s
    <3>1. Authorized(j, s)' <=> Authorized(j, s)
      BY <2>0, <2>2 DEF Authorized, SameAuth, RecordedRow
    <3>2. Rows(j, s)'
      BY <2>0, <2>2, <3>1 DEF Rows, SameAuth, RecordedRow
    <3>3. MaySend(j, s)' => MaySend(j, s)
      BY <3>1 DEF MaySend, RowMaySend, RecordedRow
    <3> QED
      BY <2>2, <3>2, <3>3 DEF Quiet, RecordedRow
  <2> QED
    BY <2>1, <2>2
<1> QED
  BY <1>1, QuietKeeps DEF Stored

(* A step inside run_once that leaves the control rows alone. *)
LEMMA ControlKeeps ==
    ASSUME IInv, up', UNCHANGED <<job, thread, epoch, outdated>>,
           w'.pc \in Inside => w.pc \in Inside /\ w'.job = w.job /\ w'.rev = w.rev,
           Position'
    PROVE  Control'
<1>1. UnfinishedHasConversation' /\ CancelMarked'
  BY DEF UnfinishedHasConversation, CancelMarked, IInv, Control
<1>2. Owned'
  BY DEF Owned, IInv, Control
<1> QED
  BY <1>1, <1>2 DEF Control

LEMMA AfterAttempt ==
    ASSUME w'.pc \notin Begun
    PROVE  Position' /\ \A i \in Jobs, t \in Stages : ~ThreadMaySend(i, t)'
  BY DEF Position, ThreadMaySend, Begun, Inside, Unsent

(* What the invariant says of the thread's own stage. *)
LEMMA OwnStage ==
    ASSUME IInv, w.pc \in Begun
    PROVE  /\ w \in Worker /\ w.job \in Jobs /\ w.stage \in Stages
           /\ Rows(w.job, w.stage) /\ Charged(w.job, w.stage) /\ Doubted(w.job, w.stage)
           /\ ~Authorized(w.job, w.stage)
           /\ w.pc \in Unsent => MaySend(w.job, w.stage) /\ w.stage \notin doubt[w.job]
<1>1. w \in Worker /\ w.job \in Jobs /\ w.stage \in Stages
  BY DEF IInv, TypeInv, TypeOK, HoldsJob, Begun, Inside, Worker
<1>2. Rows(w.job, w.stage) /\ Charged(w.job, w.stage) /\ Doubted(w.job, w.stage)
  BY <1>1 DEF IInv, Stored
<1>3. w.pc \in Unsent => MaySend(w.job, w.stage)
  BY DEF MaySend, ThreadMaySend
<1>4. ~Authorized(w.job, w.stage)
  BY DEF IInv, Control, Position
<1> QED
  BY <1>1, <1>2, <1>3, <1>4 DEF Doubted

(* The thread inside a job whose fence holds, and one whose fence fails. *)
LEMMA Fence ==
    ASSUME IInv, w.pc \in Inside
    PROVE  AssertRunning(w.job, w.rev) <=> job[w.job].status = "running"
<1>1. w.job \in Jobs
  BY DEF IInv, TypeInv, HoldsJob, Inside
<1>2. thread = "active"
  BY <1>1 DEF IInv, Control, Owned, UnfinishedHasConversation, Unfinished, Active
<1> QED
  BY <1>1, <1>2 DEF AssertRunning, IInv, Control, Owned

LEMMA RunStageKeeps ==
    ASSUME IInv, RunStage
    PROVE  Control' /\ Stored'
<1>1. /\ w.pc = "stage" /\ up /\ up' /\ w.pc \in Inside /\ w \in Worker
      /\ UNCHANGED <<thread, epoch, outdated, sends, granted, doubt>>
  BY DEF RunStage, process, history, Inside, IInv, TypeInv, TypeOK
<1>2. PICK j \in Jobs, s \in Stages : w.job = j /\ w.stage = s
  BY <1>1 DEF IInv, TypeInv, HoldsJob, Worker
<1>3. CASE TurnTo(After(s)) /\ UNCHANGED <<job, latest>>
  BY <1>1, <1>3, TurnFields, LeaveKeeps DEF Begun, Inside
<1>4. CASE TurnTo(s + 1) /\ UNCHANGED <<job, latest>>
  BY <1>1, <1>4, TurnFields, LeaveKeeps DEF Begun, Inside
<1>5. CASE /\ CanBegin(j, s) /\ Begin(j, s)
           /\ w' = [w EXCEPT !.pc = IF s \in Skipped THEN "skip" ELSE "dispatch",
                             !.no = AttemptNo(j, s)]
  <2>1. w'.pc \in {"skip", "dispatch"} /\ SameTask
    BY <1>1, <1>5 DEF Worker, SameTask
  <2> QED
    BY <1>1, <1>2, <1>5, <2>1, BeginKeeps
<1>6. CASE Raise(TRUE) /\ UNCHANGED <<job, latest>>
  BY <1>1, <1>6, RaiseFields, LeaveKeeps DEF Begun, Inside
<1> QED
  BY <1>2, <1>3, <1>4, <1>5, <1>6 DEF RunStage

LEMMA FinishSkipKeeps ==
    ASSUME IInv, FinishSkip
    PROVE  Control' /\ Stored'
<1>1. /\ w.pc = "skip" /\ up' /\ w.pc \in Begun /\ w.pc \in Unsent /\ w.pc \in Inside
      /\ UNCHANGED <<job, thread, epoch, outdated, sends, granted, doubt>>
  BY DEF FinishSkip, process, history, Begun, Inside, Unsent
<1>2. PICK j \in Jobs, s \in Stages : w.job = j /\ w.stage = s
  BY <1>1, OwnStage
<1>3. Rows(j, s) /\ ~Authorized(j, s) /\ s \notin doubt[j] /\ latest[j][s].status = "prepared"
  BY <1>1, <1>2, OwnStage DEF IInv, Control, Position
<1>4. RecordedRow(j, s, "skipped", "known") /\ OtherRows(j, s)
  BY <1>2, RecordEffect DEF FinishSkip
<1>5. w'.pc \in {"stage", "publish"} /\ w'.job = w.job /\ w'.rev = w.rev
  BY TurnFields DEF FinishSkip
<1>6. Position' /\ \A i \in Jobs, t \in Stages : ~ThreadMaySend(i, t)'
  BY <1>5, AfterAttempt DEF Begun
<1>7. Control'
  BY <1>1, <1>5, <1>6, ControlKeeps
<1>8. Stored'
  BY <1>1, <1>2, <1>3, <1>4, <1>6, RecordKeeps DEF SameAuth
<1> QED
  BY <1>7, <1>8

LEMMA DispatchKeeps ==
    ASSUME IInv, Dispatch
    PROVE  Control' /\ Stored'
<1>1. /\ w.pc = "dispatch" /\ up' /\ w.pc \in Begun /\ w.pc \in Unsent /\ w.pc \in Inside
      /\ UNCHANGED <<job, thread, epoch, outdated, sends, granted, doubt>>
  BY DEF Dispatch, process, history, Begun, Inside, Unsent
<1>2. PICK j \in Jobs, s \in Stages : w.job = j /\ w.stage = s
  BY <1>1, OwnStage
<1>3. /\ Rows(j, s) /\ ~Authorized(j, s) /\ s \notin doubt[j] /\ latest[j][s].status = "prepared"
      /\ w \in Worker
  BY <1>1, <1>2, OwnStage DEF IInv, Control, Position
<1>4. RecordedRow(j, s, "dispatched", "none") /\ OtherRows(j, s)
  BY <1>2, RecordEffect DEF Dispatch
<1>5. w'.pc = "wire" /\ SameTask
  BY <1>3, GotoFields DEF Dispatch
<1>6. Position'
  BY <1>1, <1>2, <1>3, <1>4, <1>5 DEF Position, SameTask, RecordedRow, Authorized
<1>7. Control'
  BY <1>1, <1>5, <1>6, ControlKeeps DEF SameTask
<1>8. \A i \in Jobs, t \in Stages : ThreadMaySend(i, t)' => MaySend(i, t)
  BY <1>1, <1>5 DEF ThreadMaySend, MaySend, SameTask
<1>9. Stored'
  BY <1>1, <1>2, <1>3, <1>4, <1>8, RecordKeeps DEF SameAuth
<1> QED
  BY <1>7, <1>9

LEMMA SendKeeps ==
    ASSUME IInv, Send
    PROVE  Control' /\ Stored'
<1>1. /\ w.pc = "wire" /\ up' /\ w.pc \in Begun /\ w.pc \in Unsent /\ w.pc \in Inside
      /\ UNCHANGED <<job, latest, thread, epoch, outdated, granted>>
  BY DEF Send, process, store, Begun, Inside, Unsent
<1>2. PICK j \in Jobs, s \in Stages : w.job = j /\ w.stage = s
  BY <1>1, OwnStage
<1>3. /\ Rows(j, s) /\ Charged(j, s) /\ ~Authorized(j, s) /\ MaySend(j, s)
      /\ latest[j][s].status = "dispatched" /\ w \in Worker
  BY <1>1, <1>2, OwnStage DEF IInv, Control, Position
<1>4. /\ sends \in [Jobs -> [Stages -> Nat]] /\ doubt \in [Jobs -> SUBSET Stages]
      /\ granted[j][s] \in Nat
  BY DEF IInv, TypeInv, TypeOK
<1>5. w'.pc = "reply" /\ SameTask
  BY <1>3, GotoFields DEF Send
<1>6. Position'
  BY <1>1, <1>2, <1>3, <1>5 DEF Position, SameTask, Authorized
<1>7. Control'
  BY <1>1, <1>5, <1>6, ControlKeeps DEF SameTask
<1>8. \A i \in Jobs, t \in Stages : ~ThreadMaySend(i, t)'
  BY <1>5 DEF ThreadMaySend, Unsent
<1>9. /\ sends'[j][s] = sends[j][s] + 1 /\ s \in doubt'[j]
      /\ \A i \in Jobs, t \in Stages : <<i, t>> # <<j, s>> =>
             sends'[i][t] = sends[i][t] /\ (t \in doubt'[i] <=> t \in doubt[i])
  BY <1>2, <1>4 DEF Send
<1>10. ASSUME NEW i \in Jobs, NEW t \in Stages
       PROVE  Rows(i, t)' /\ Charged(i, t)' /\ Doubted(i, t)'
  <2>0. /\ Rows(i, t) /\ Charged(i, t) /\ Doubted(i, t)
        /\ (Authorized(i, t)' <=> Authorized(i, t))
    BY <1>1 DEF IInv, Stored, Authorized
  <2>1. Rows(i, t)'
    BY <1>1, <2>0 DEF Rows
  <2>2. RowMaySend(i, t)' <=> RowMaySend(i, t)
    BY <1>1, <2>0 DEF RowMaySend
  <2>3. CASE <<i, t>> # <<j, s>>
    <3>1. MaySend(i, t)' => MaySend(i, t)
      BY <1>8, <2>2 DEF MaySend
    <3> QED
      BY <1>1, <1>9, <2>0, <2>1, <2>3, <3>1 DEF Charged, Doubted
  <2>4. CASE i = j /\ t = s
    <3>1. ~MaySend(j, s)'
      BY <1>3, <1>8, <2>2, <2>4 DEF MaySend, RowMaySend, Rows
    <3>2. sends[j][s] \in Nat /\ sends[j][s] <= granted[j][s] /\ latest[j][s].no # 0
      BY <1>3, <1>4 DEF Charged, Rows
    <3>3. Charged(j, s)'
      BY <1>1, <1>4, <1>9, <3>1, <3>2 DEF Charged
    <3>4. Doubted(j, s)'
      BY <1>1, <1>3, <3>1 DEF Doubted
    <3> QED
      BY <2>1, <2>4, <3>3, <3>4
  <2> QED
    BY <2>3, <2>4
<1> QED
  BY <1>7, <1>10 DEF Stored

LEMMA MovesKeep ==
    ASSUME IInv, OverBudget \/ ConnectionRefused \/ Reply
    PROVE  Control' /\ Stored'
<1>0. w \in Worker
  BY DEF IInv, TypeInv, TypeOK
<1>1. CASE OverBudget
  <2>1. w'.pc = "failing" /\ SameTask /\ w'.outcome = "known"
    BY <1>0, <1>1, FailingFields DEF OverBudget
  <2>2. /\ w.pc \in Begun /\ up'
        /\ UNCHANGED <<job, latest, thread, epoch, outdated, sends, granted, doubt>>
    BY <1>1 DEF OverBudget, store, process, history, Begun, Inside
  <2> QED
    BY <2>1, <2>2, WithinKeeps DEF Unsent
<1>2. CASE ConnectionRefused
  <2>1. w'.pc = "refused" /\ SameTask
    BY <1>0, <1>2, GotoFields DEF ConnectionRefused
  <2>2. /\ w.pc = "wire" /\ w.pc \in Begun /\ up' /\ w.pc \in Unsent
        /\ UNCHANGED <<job, latest, thread, epoch, outdated, sends, granted, doubt>>
    BY <1>2 DEF ConnectionRefused, store, process, history, Begun, Inside, Unsent
  <2> QED
    BY <2>1, <2>2, WithinKeeps
<1>3. CASE Reply
  <2>1. /\ SameTask
        /\ w'.pc = "store" \/ (w'.pc = "failing" /\ w'.outcome \in {"known", "unknown"})
    <3>1. CASE Goto("store")
      BY <1>0, <3>1, GotoFields
    <3>2. ASSUME NEW r \in BOOLEAN, Failing("known", r, r)
          PROVE  w'.pc = "failing" /\ SameTask /\ w'.outcome = "known"
      BY <1>0, <3>2, FailingFields
    <3>3. CASE Failing("unknown", FALSE, FALSE)
      BY <1>0, <3>3, FailingFields
    <3> QED
      BY <1>3, <3>1, <3>2, <3>3 DEF Reply
  <2>2. /\ w.pc = "reply" /\ w.pc \in Begun /\ up'
        /\ UNCHANGED <<job, latest, thread, epoch, outdated, sends, granted, doubt>>
    BY <1>3 DEF Reply, store, process, history, Begun, Inside
  <2> QED
    BY <2>1, <2>2, WithinKeeps DEF Unsent
<1> QED
  BY <1>1, <1>2, <1>3

LEMMA NotSentKeeps ==
    ASSUME IInv, NotSent
    PROVE  Control' /\ Stored'
<1>1. /\ w.pc = "refused" /\ up' /\ w.pc \in Begun /\ w.pc \in Unsent /\ w.pc \in Inside
      /\ UNCHANGED <<job, thread, epoch, outdated, sends, granted, doubt>>
  BY DEF NotSent, process, history, Begun, Inside, Unsent
<1>2. PICK j \in Jobs, s \in Stages : w.job = j /\ w.stage = s
  BY <1>1, OwnStage
<1>3. /\ Rows(j, s) /\ ~Authorized(j, s) /\ s \notin doubt[j] /\ MaySend(j, s)
      /\ latest[j][s].status = "dispatched" /\ w \in Worker
  BY <1>1, <1>2, OwnStage DEF IInv, Control, Position
<1>4. RecordedRow(j, s, "failed", "not_sent") /\ OtherRows(j, s)
  BY <1>2, RecordEffect DEF NotSent
<1>5. SameTask /\ (w'.pc = "retry" \/ (w'.pc = "failing" /\ w'.outcome = "known"))
  <2>1. CASE w' = [w EXCEPT !.pc = "retry", !.tries = 1]
    BY <1>3, <2>1 DEF Worker, SameTask
  <2>2. CASE Failing("known", FALSE, FALSE)
    BY <1>3, <2>2, FailingFields
  <2> QED
    BY <2>1, <2>2 DEF NotSent
<1>6. Position'
  BY <1>1, <1>2, <1>3, <1>4, <1>5 DEF Position, SameTask, RecordedRow, Authorized
<1>7. Control'
  BY <1>1, <1>5, <1>6, ControlKeeps DEF SameTask
<1>8. \A i \in Jobs, t \in Stages : ThreadMaySend(i, t)' => MaySend(i, t)
  BY <1>1, <1>5 DEF ThreadMaySend, MaySend, SameTask
<1>9. Stored'
  BY <1>1, <1>2, <1>3, <1>4, <1>8, RecordKeeps DEF SameAuth
<1> QED
  BY <1>7, <1>9

LEMMA RetryKeeps ==
    ASSUME IInv, Retry
    PROVE  Control' /\ Stored'
<1>1. /\ w.pc = "retry" /\ up' /\ w.pc \in Begun /\ w.pc \in Unsent /\ w.pc \in Inside
      /\ UNCHANGED <<thread, epoch, outdated, sends, granted, doubt>>
  BY DEF Retry, process, history, Begun, Inside, Unsent
<1>2. PICK j \in Jobs, s \in Stages : w.job = j /\ w.stage = s
  BY <1>1, OwnStage
<1>3. w \in Worker
  BY DEF IInv, TypeInv, TypeOK
<1>4. CASE /\ CanBegin(j, s) /\ Begin(j, s)
           /\ w' = [w EXCEPT !.pc = "dispatch", !.no = AttemptNo(j, s)]
  <2>1. w'.pc = "dispatch" /\ SameTask
    BY <1>3, <1>4 DEF Worker, SameTask
  <2> QED
    BY <1>1, <1>2, <1>4, <2>1, BeginKeeps
<1>5. CASE Interrupted("not_sent") /\ UNCHANGED <<job, latest>>
  <2>1. w'.pc = "failHttp" /\ SameTask /\ w'.outcome = "not_sent"
    BY <1>3, <1>5, InterruptedFields
  <2> QED
    BY <1>1, <1>5, <2>1, WithinKeeps
<1> QED
  BY <1>2, <1>4, <1>5 DEF Retry

LEMMA FinishAttemptKeeps ==
    ASSUME IInv, FinishAttempt
    PROVE  Control' /\ Stored'
<1>1. /\ w.pc = "store" /\ up' /\ w.pc \in Begun /\ w.pc \in Inside
      /\ UNCHANGED <<job, thread, epoch, outdated, sends, granted>>
  BY DEF FinishAttempt, process, Begun, Inside
<1>2. PICK j \in Jobs, s \in Stages : w.job = j /\ w.stage = s
  BY <1>1, OwnStage
<1>3. Rows(j, s) /\ ~Authorized(j, s) /\ latest[j][s].status = "dispatched"
  BY <1>1, <1>2, OwnStage DEF IInv, Control, Position
<1>4. RecordedRow(j, s, "succeeded", "known") /\ OtherRows(j, s)
  BY <1>2, RecordEffect DEF FinishAttempt
<1>5. w'.pc \in {"stage", "publish"} /\ w'.job = w.job /\ w'.rev = w.rev
  BY TurnFields DEF FinishAttempt
<1>6. Position' /\ \A i \in Jobs, t \in Stages : ~ThreadMaySend(i, t)'
  BY <1>5, AfterAttempt DEF Begun
<1>7. Control'
  BY <1>1, <1>5, <1>6, ControlKeeps
<1>8. /\ s \notin doubt'[j]
      /\ \A i \in Jobs, t \in Stages : <<i, t>> # <<j, s>> => (t \in doubt'[i] <=> t \in doubt[i])
  BY <1>2 DEF FinishAttempt, IInv, TypeInv, TypeOK
<1>9. Stored'
  BY <1>1, <1>2, <1>3, <1>4, <1>6, <1>8, RecordKeeps DEF SameAuth
<1> QED
  BY <1>7, <1>9

LEMMA FailInterruptedKeeps ==
    ASSUME IInv, FailInterrupted
    PROVE  Control' /\ Stored'
<1>1. /\ w.pc = "failHttp" /\ up' /\ w.pc \in Begun /\ w.pc \in Inside
      /\ UNCHANGED <<job, thread, epoch, outdated, sends, granted, doubt>>
  BY DEF FailInterrupted, process, history, Begun, Inside
<1>2. PICK j \in Jobs, s \in Stages : w.job = j /\ w.stage = s
  BY <1>1, OwnStage
<1>3. /\ Rows(j, s) /\ Doubted(j, s) /\ ~Authorized(j, s) /\ w \in Worker
      /\ w.outcome \in {"known", "not_sent", "unknown"}
      /\ w.outcome = "known" => job[j].status # "running"
      /\ w.outcome = "not_sent" => MaySend(j, s)
  BY <1>1, <1>2, OwnStage DEF IInv, Control, Position, MaySend, ThreadMaySend
<1>4. w'.pc = "raised"
  BY <1>3, RaiseFields DEF FailInterrupted
<1>5. Position' /\ \A i \in Jobs, t \in Stages : ~ThreadMaySend(i, t)'
  BY <1>4, AfterAttempt DEF Begun, Inside
<1>6. Control'
  BY <1>1, <1>4, <1>5, ControlKeeps DEF Inside
<1>7. CASE UNCHANGED latest
  BY <1>1, <1>5, <1>6, <1>7, LeaveRows DEF SameAuth
<1>8. CASE /\ AssertRunning(w.job, w.rev)
           /\ latest[w.job][w.stage].status \in {"prepared", "dispatched", "failed"}
           /\ Record(IF w.outcome = "unknown" THEN "result_unknown" ELSE "failed", w.outcome, FALSE)
  <2> DEFINE st == IF w.outcome = "unknown" THEN "result_unknown" ELSE "failed"
  <2>1. job[j].status = "running" /\ w.outcome # "known"
    BY <1>2, <1>3, <1>8 DEF AssertRunning
  <2>2. RecordedRow(j, s, st, w.outcome) /\ OtherRows(j, s)
    <3> HIDE DEF st
    <3> QED BY <1>2, <1>8, RecordEffect DEF st
  <2>3. \/ RecordedRow(j, s, "result_unknown", "unknown")
        \/ RecordedRow(j, s, "failed", "not_sent") /\ MaySend(j, s) /\ s \notin doubt[j]
    BY <1>3, <2>1, <2>2 DEF Doubted
  <2> QED
    BY <1>1, <1>2, <1>3, <1>5, <1>6, <1>8, <2>2, <2>3, RecordKeeps DEF SameAuth
<1> QED
  BY <1>7, <1>8 DEF FailInterrupted

(* fail_attempt closes the attempt, and the job unless a repair may follow. *)
LEMMA FailAttemptJob ==
    ASSUME IInv, FailAttempt
    PROVE  /\ \A i \in Jobs : SameAuth(i)
           /\ \/ UNCHANGED job
              \/ /\ w'.pc = "raised"
                 /\ \A i \in Jobs : /\ job'[i].cancel = job[i].cancel
                                    /\ job'[i].status # job[i].status =>
                                           i = w.job /\ job[i].status = "running"
<1>1. job \in [Jobs -> JobRecord] /\ w \in Worker /\ w.job \in Jobs
  BY DEF FailAttempt, IInv, TypeInv, TypeOK, HoldsJob
<1>2. AssertRunning(w.job, w.rev)
  BY DEF FailAttempt
<1> DEFINE st == IF w.outcome = "unknown" THEN "recovery_required" ELSE "failed"
           rs == IF w.outcome = "unknown" THEN "result_unknown" ELSE "stage_failed"
           new == [job[w.job] EXCEPT !.status = st, !.reason = rs]
<1>3. CASE UNCHANGED job
  BY <1>3 DEF SameAuth
<1>4. CASE job' = [job EXCEPT ![w.job] = new] /\ Raise(FALSE)
  <2>1. /\ new.authStage = job[w.job].authStage /\ new.authNo = job[w.job].authNo
        /\ new.cancel = job[w.job].cancel
    BY <1>1 DEF JobRecord
  <2>2. w'.pc = "raised"
    BY <1>1, <1>4, RaiseFields
  <2>3. job'[w.job] = new /\ \A i \in Jobs \ {w.job} : job'[i] = job[i]
    <3> HIDE DEF new
    <3> QED BY <1>1, <1>4
  <2> HIDE DEF new
  <2> QED
    BY <1>2, <2>1, <2>2, <2>3 DEF SameAuth, AssertRunning
<1> QED
  BY <1>3, <1>4 DEF FailAttempt

LEMMA FailAttemptKeeps ==
    ASSUME IInv, FailAttempt
    PROVE  Control' /\ Stored'
<1>1. /\ w.pc = "failing" /\ up' /\ w.pc \in Begun /\ w.pc \in Inside
      /\ UNCHANGED <<thread, epoch, outdated, sends, granted>>
  BY DEF FailAttempt, process, Begun, Inside
<1>2. PICK j \in Jobs, s \in Stages : w.job = j /\ w.stage = s
  BY <1>1, OwnStage
<1>3. /\ Rows(j, s) /\ ~Authorized(j, s) /\ w \in Worker /\ w.outcome \in {"known", "unknown"}
  BY <1>1, <1>2, OwnStage DEF IInv, Control, Position
<1> DEFINE st == IF w.outcome = "unknown" THEN "result_unknown" ELSE "failed"
<1>4. RecordedRow(j, s, st, w.outcome) /\ OtherRows(j, s)
  <2> HIDE DEF st
  <2> QED BY <1>2, RecordEffect DEF FailAttempt, st
<1>5. /\ w'.pc \in {"stage", "publish", "raised"}
      /\ w'.pc # "raised" => w'.job = w.job /\ w'.rev = w.rev
  BY <1>3, RaiseFields, TurnFields DEF FailAttempt
<1>6. Position' /\ \A i \in Jobs, t \in Stages : ~ThreadMaySend(i, t)'
  BY <1>5, AfterAttempt DEF Begun, Inside
<1>7. /\ \A i \in Jobs : SameAuth(i)
      /\ \/ UNCHANGED job
         \/ /\ w'.pc = "raised"
            /\ \A i \in Jobs : /\ job'[i].cancel = job[i].cancel
                               /\ job'[i].status # job[i].status =>
                                      i = w.job /\ job[i].status = "running"
  BY FailAttemptJob
<1>8. Control'
  <2>1. CASE UNCHANGED job
    BY <1>1, <1>5, <1>6, <2>1, ControlKeeps DEF Inside
  <2>2. CASE /\ w'.pc = "raised"
             /\ \A i \in Jobs : /\ job'[i].cancel = job[i].cancel
                                /\ job'[i].status # job[i].status =>
                                       i = w.job /\ job[i].status = "running"
    <3>1. AssertRunning(w.job, w.rev)
      BY DEF FailAttempt
    <3>2. UnfinishedHasConversation'
      BY <1>1, <3>1 DEF UnfinishedHasConversation, AssertRunning
    <3>3. CancelMarked'
      BY <1>2, <2>2, <3>1 DEF CancelMarked, AssertRunning, IInv, Control
    <3>4. Owned'
      BY <1>1, <2>2 DEF Owned, Inside
    <3> QED
      BY <1>6, <3>2, <3>3, <3>4 DEF Control
  <2> QED
    BY <1>7, <2>1, <2>2
<1>9. /\ \A i \in Jobs, t \in Stages : <<i, t>> # <<j, s>> => (t \in doubt'[i] <=> t \in doubt[i])
      /\ s \in doubt'[j] => s \in doubt[j] /\ w.outcome # "known"
  <2>1. doubt \in [Jobs -> SUBSET Stages]
    BY DEF IInv, TypeInv, TypeOK
  <2>2. doubt' = IF w.outcome = "known" THEN [doubt EXCEPT ![j] = @ \ {s}] ELSE doubt
    BY <1>2 DEF FailAttempt
  <2> QED
    BY <2>1, <2>2
<1>10. latest[j][s].status # "none"
  BY <1>1, <1>2 DEF IInv, Control, Position
<1>11. Stored'
  <2>1. \/ RecordedRow(j, s, "result_unknown", "unknown") /\ w.outcome = "unknown"
        \/ RecordedRow(j, s, "failed", "known") /\ w.outcome = "known"
    BY <1>3, <1>4
  <2> QED
    BY <1>1, <1>2, <1>3, <1>4, <1>6, <1>7, <1>9, <1>10, <2>1, RecordKeeps
<1> QED
  BY <1>8, <1>11

(* A step that decides the thread's job and goes back to the scan. *)
LEMMA DecideKeeps ==
    ASSUME IInv, up', w'.pc = "scan",
           UNCHANGED <<latest, thread, sends, granted, doubt>>,
           \A i \in Jobs : SameAuth(i) /\ job'[i].cancel = job[i].cancel,
           \A i \in Jobs : job'[i].status # job[i].status =>
               /\ job[i].cancel => job'[i].status = "cancelled"
               /\ job'[i].status \in Unfinished => thread = "active"
    PROVE  Control' /\ Stored'
<1>1. Stored'
  BY LeaveRows DEF ThreadMaySend, Unsent
<1>2. UnfinishedHasConversation' /\ CancelMarked'
  BY DEF UnfinishedHasConversation, CancelMarked, IInv, Control
<1>3. Owned' /\ Position'
  BY DEF Owned, Position, Inside, Begun
<1> QED
  BY <1>1, <1>2, <1>3 DEF Control

(* Setting the status of one job leaves the rest of the control rows alone. *)
LEMMA StatusEffect ==
    ASSUME TypeInv, NEW j \in Jobs, NEW st, job' = [job EXCEPT ![j].status = st]
    PROVE  /\ \A i \in Jobs : SameAuth(i) /\ job'[i].cancel = job[i].cancel
           /\ job'[j].status = st
           /\ \A i \in Jobs \ {j} : job'[i] = job[i]
<1>1. job \in [Jobs -> JobRecord] /\ job[j] \in JobRecord
  BY DEF TypeInv, TypeOK
<1> DEFINE new == [job[j] EXCEPT !.status = st]
<1>2. /\ new.authStage = job[j].authStage /\ new.authNo = job[j].authNo
      /\ new.cancel = job[j].cancel /\ new.status = st
  BY <1>1 DEF JobRecord
<1>3. job'[j] = new /\ \A i \in Jobs \ {j} : job'[i] = job[i]
  BY <1>1
<1> HIDE DEF new
<1> QED
  BY <1>2, <1>3 DEF SameAuth

LEMMA PublishKeeps ==
    ASSUME IInv, Publish
    PROVE  Control' /\ Stored'
<1>1. /\ w.job \in Jobs /\ ~job[w.job].cancel /\ up' /\ w'.pc = "scan"
      /\ UNCHANGED <<latest, thread, sends, granted, doubt>>
  BY DEF Publish, AssertRunning, IInv, TypeInv, HoldsJob, process, history, Idle
<1>2. /\ \A i \in Jobs : SameAuth(i) /\ job'[i].cancel = job[i].cancel
      /\ job'[w.job].status = "succeeded"
      /\ \A i \in Jobs \ {w.job} : job'[i] = job[i]
  BY <1>1, StatusEffect DEF Publish, IInv
<1> QED
  BY <1>1, <1>2, DecideKeeps DEF Unfinished, Active

LEMMA InterruptKeeps ==
    ASSUME IInv, Interrupt
    PROVE  Control' /\ Stored'
<1>1. /\ up' /\ w \in Worker
      /\ UNCHANGED <<job, latest, thread, epoch, outdated, sends, granted, doubt>>
  BY DEF Interrupt, store, process, history, IInv, TypeInv, TypeOK
<1>2. CASE Raise(TRUE)
  <2>1. w'.pc = "raised"
    BY <1>1, <1>2, RaiseFields
  <2> QED
    BY <1>1, <2>1, LeaveKeeps DEF Begun, Inside
<1>3. ASSUME NEW out \in {"known", "not_sent", "unknown"}, Interrupted(out), w.pc \in Begun,
             out = "not_sent" => w.pc \in Unsent,
             out = "known" => job[w.job].status # "running"
      PROVE  Control' /\ Stored'
  <2>1. w'.pc = "failHttp" /\ SameTask /\ w'.outcome = out
    BY <1>1, <1>3, InterruptedFields
  <2> QED
    BY <1>1, <1>3, <2>1, WithinKeeps DEF Unsent
<1>4. CASE w.pc \in {"dispatch", "retry"} /\ Interrupted(Evidence(w.pc))
  <2>1. Evidence(w.pc) = "not_sent" /\ w.pc \in Begun /\ w.pc \in Unsent
    BY <1>4 DEF Evidence, Begun, Inside, Unsent
  <2> QED
    BY <1>3, <1>4, <2>1
<1>5. CASE w.pc \in {"reply", "refused"} /\ Interrupted(Evidence(w.pc))
  <2>1. Evidence(w.pc) = "unknown" /\ w.pc \in Begun
    BY <1>5 DEF Evidence, Begun, Inside
  <2> QED
    BY <1>3, <1>5, <2>1
<1>6. CASE w.pc = "store" /\ ~AssertRunning(w.job, w.rev) /\ Interrupted(Evidence(w.pc))
  <2>1. Evidence(w.pc) = "known" /\ w.pc \in Begun /\ w.pc \in Inside
    BY <1>6 DEF Evidence, Begun, Inside
  <2>2. job[w.job].status # "running"
    BY <1>6, <2>1, Fence
  <2> QED
    BY <1>3, <1>6, <2>1, <2>2
<1> QED
  BY <1>2, <1>4, <1>5, <1>6 DEF Interrupt

LEMMA StageKeeps ==
    ASSUME IInv, Stage
    PROVE  Control' /\ Stored'
  BY RunStageKeeps, FinishSkipKeeps, DispatchKeeps, SendKeeps, MovesKeep, NotSentKeeps,
     RetryKeeps, FinishAttemptKeeps, FailAttemptKeeps, FailInterruptedKeeps, PublishKeeps,
     InterruptKeeps
     DEF Stage

LEMMA HandlerKeeps ==
    ASSUME IInv, Handler
    PROVE  Control' /\ Stored'
<1>0. w \in Worker /\ w.job \in Jobs /\ job[w.job] \in JobRecord /\ job \in [Jobs -> JobRecord]
  BY DEF Handler, Settle, FinishCancellation, Pause, IInv, TypeInv, TypeOK, HoldsJob
<1>1. CASE Settle
  <2>1. /\ up' /\ UNCHANGED <<job, latest, thread, epoch, outdated, sends, granted, doubt>>
    BY <1>1 DEF Settle, store, process, history
  <2>2. w'.pc \in {"finish", "pause", "scan"}
    <3>1. Goto("finish") \/ Goto("pause") \/ w' = Idle
      BY <1>1 DEF Settle
    <3> QED
      BY <1>0, <3>1, GotoFields DEF Idle
  <2> QED
    BY <2>1, <2>2, LeaveKeeps DEF Begun, Inside
<1>2. CASE FinishCancellation
  <2>1. up' /\ w'.pc = "scan" /\ UNCHANGED <<latest, thread, sends, granted, doubt>>
    BY <1>2 DEF FinishCancellation, process, history, Idle
  <2>2. CASE UNCHANGED job
    BY <2>1, <2>2, DecideKeeps DEF SameAuth
  <2>3. CASE job' = [job EXCEPT ![w.job].status = "cancelled"]
    <3>1. /\ \A i \in Jobs : SameAuth(i) /\ job'[i].cancel = job[i].cancel
          /\ job'[w.job].status = "cancelled"
          /\ \A i \in Jobs \ {w.job} : job'[i] = job[i]
      BY <1>0, <2>3, StatusEffect DEF IInv
    <3> QED
      BY <2>1, <3>1, DecideKeeps DEF Unfinished, Active
  <2> QED
    BY <1>2, <2>2, <2>3 DEF FinishCancellation
<1>3. CASE Pause
  <2>1. up' /\ w'.pc = "scan" /\ UNCHANGED <<latest, thread, sends, granted, doubt>>
    BY <1>3 DEF Pause, process, history, Idle
  <2>2. CASE UNCHANGED job
    BY <2>1, <2>2, DecideKeeps DEF SameAuth
  <2> DEFINE st == IF w.http THEN "recovery_required" ELSE "failed"
             new == [job[w.job] EXCEPT !.status = st, !.reason = "paused"]
  <2>3. CASE AssertRunning(w.job, w.rev) /\ job' = [job EXCEPT ![w.job] = new]
    <3>1. /\ new.authStage = job[w.job].authStage /\ new.authNo = job[w.job].authNo
          /\ new.cancel = job[w.job].cancel
      BY <1>0 DEF JobRecord
    <3>2. job'[w.job] = new /\ \A i \in Jobs \ {w.job} : job'[i] = job[i]
      <4> HIDE DEF new
      <4> QED BY <1>0, <2>3
    <3>3. thread = "active" /\ ~job[w.job].cancel
      BY <2>3 DEF AssertRunning
    <3> HIDE DEF new
    <3>4. \A i \in Jobs : SameAuth(i) /\ job'[i].cancel = job[i].cancel
      BY <3>1, <3>2 DEF SameAuth
    <3> QED
      BY <2>1, <3>2, <3>3, <3>4, DecideKeeps
  <2> QED
    BY <1>3, <2>2, <2>3 DEF Pause
<1> QED
  BY <1>1, <1>2, <1>3 DEF Handler

LEMMA FaultKeeps ==
    ASSUME IInv, Busy \/ Crash \/ Restart
    PROVE  Control' /\ Stored'
<1>0. w \in Worker /\ (~up => w.pc = "scan")
  BY DEF IInv, TypeInv, TypeOK, Control, Owned
<1>1. CASE Busy
  <2>1. /\ up' /\ UNCHANGED <<job, latest, thread, epoch, outdated, sends, granted, doubt>>
    BY <1>1 DEF Busy, store, process, history
  <2>2. CASE Raise(FALSE) \/ w' = Idle
    <3>1. w'.pc \in {"raised", "scan"}
      <4>1. CASE Raise(FALSE)
        BY <1>0, <4>1, RaiseFields
      <4>2. CASE w' = Idle
        BY <4>2 DEF Idle
      <4> QED
        BY <2>2, <4>1, <4>2
    <3> QED
      BY <2>1, <3>1, LeaveKeeps DEF Begun, Inside
  <2>3. CASE /\ w.pc \in {"dispatch", "retry", "refused", "store"}
             /\ \/ Failing("known", FALSE, FALSE) \/ Failing("unknown", FALSE, FALSE)
                \/ Failing("known", TRUE, FALSE)
    <3>1. w'.pc = "failing" /\ SameTask /\ w'.outcome \in {"known", "unknown"}
      BY <1>0, <2>3, FailingFields
    <3> QED
      BY <2>1, <2>3, <3>1, WithinKeeps DEF Begun, Inside, Unsent
  <2> QED
    BY <1>1, <2>2, <2>3 DEF Busy
<1>2. CASE Crash \/ Restart
  <2>1. /\ w'.pc = "scan"
        /\ UNCHANGED <<job, latest, thread, sends, granted, doubt>>
    BY <1>0, <1>2 DEF Crash, Restart, store, history, Idle
  <2>2. Stored'
    BY <2>1, LeaveRows DEF SameAuth, ThreadMaySend, Unsent
  <2>3. UnfinishedHasConversation' /\ CancelMarked'
    BY <2>1 DEF UnfinishedHasConversation, CancelMarked, IInv, Control
  <2>4. Owned' /\ Position'
    BY <2>1 DEF Owned, Position, Inside, Begun
  <2> QED
    BY <2>2, <2>3, <2>4 DEF Control
<1> QED
  BY <1>1, <1>2

LEMMA NextKeeps ==
    ASSUME ConstantsAssumption, IInv, [Next]_vars
    PROVE  IInv'
<1>1. TypeInv'
  BY NextTypes DEF IInv
<1>2. CASE UNCHANGED vars
  <2>1. UNCHANGED <<job, latest, thread, w, up, epoch, outdated, sends, granted, doubt>>
    BY <1>2 DEF vars, store, process, history
  <2>2. Stored'
    BY <2>1, LeaveRows DEF SameAuth, ThreadMaySend, MaySend
  <2>3. UnfinishedHasConversation' /\ CancelMarked' /\ Owned'
    BY <2>1 DEF UnfinishedHasConversation, CancelMarked, Owned, IInv, Control
  <2>4. Position'
    BY <2>1 DEF Position, Authorized, IInv, Control
  <2> QED
    BY <1>1, <2>2, <2>3, <2>4 DEF IInv, Control
<1>3. CASE Next
  <2>1. Control' /\ Stored'
    BY <1>3, AuthorKeeps, ScanKeeps, StageKeeps, HandlerKeeps, FaultKeeps DEF Next, Executor
  <2> QED
    BY <1>1, <2>1 DEF IInv
<1> QED
  BY <1>2, <1>3

(* The inductive invariant of the durable jobs: the types, who owns a job  *)
(* at which point of run_once, and what the rows of a stage allow.         *)
THEOREM Invariant == Spec => []IInv
<1>1. Init => IInv
  BY InitInv, ConstantsAssumption
<1>2. IInv /\ [Next]_vars => IInv'
  BY NextKeeps, ConstantsAssumption
<1> QED
  BY <1>1, <1>2, PTL DEF Spec

(* Every request that reaches the provider is covered by the submission of *)
(* the job or by a resume that authorised its stage (begin_attempt, resume *)
(* and _recover_in_session together).                                      *)
THEOREM CallsCovered == Spec => []CallsWithinPermits
<1>1. IInv => CallsWithinPermits
  BY DEF IInv, Stored, Charged, CallsWithinPermits, Permit
<1> QED
  BY <1>1, Invariant, PTL

(* conversation_threads.update never archives the conversation of a job    *)
(* that may still run, whatever the author and recovery do meanwhile.      *)
THEOREM ConversationKept == Spec => []UnfinishedHasConversation
<1>1. IInv => UnfinishedHasConversation
  BY DEF IInv, Control
<1> QED
  BY <1>1, Invariant, PTL

-----------------------------------------------------------------------------
(* No request for a stage in doubt *)

(* Only send() reaches the provider, and only at the thread's own stage. *)
LEMMA OnlySendSends ==
    ASSUME [Next]_vars, sends' # sends
    PROVE  Send
  BY DEF Next, Author, Enqueue, Cancel, Resume, ArchiveThread, RestoreThread, Executor, Scan,
         Prepare, Reconcile, Select, Claim, Stage, RunStage, FinishSkip, Dispatch, OverBudget,
         ConnectionRefused, NotSent, Retry, Reply, FinishAttempt, FailAttempt, FailInterrupted,
         Publish, Interrupt, Handler, Settle, FinishCancellation, Pause, Busy, Crash, Restart,
         vars, store, process, history

(* An unknown result is never sent again by itself: the stage about to be  *)
(* sent is free to send (MaySend), and a stage in doubt is not (Doubted).  *)
THEOREM NoSilentResendHolds == Spec => NoSilentResend
<1>1. IInv /\ [Next]_vars =>
          \A j \in Jobs, s \in Stages : sends'[j][s] > sends[j][s] => s \notin doubt[j]
  <2> SUFFICES ASSUME IInv, [Next]_vars, NEW j \in Jobs, NEW s \in Stages,
                      sends'[j][s] > sends[j][s]
               PROVE  s \notin doubt[j]
    OBVIOUS
  <2>1. sends \in [Jobs -> [Stages -> Nat]]
    BY DEF IInv, TypeInv, TypeOK
  <2>2. Send
    BY <2>1, OnlySendSends
  <2>3. w.pc \in Begun /\ w.pc \in Unsent
    BY <2>2 DEF Send, Begun, Inside, Unsent
  <2>4. w.job \in Jobs /\ w.stage \in Stages /\ w.stage \notin doubt[w.job]
    BY <2>3, OwnStage
  <2>5. j = w.job /\ s = w.stage
    BY <2>1, <2>2, <2>4 DEF Send
  <2> QED
    BY <2>4, <2>5
<1>2. IInv /\ [Next]_vars =>
          [\A j \in Jobs, s \in Stages : sends'[j][s] > sends[j][s] => s \notin doubt[j]]_vars
  BY <1>1
<1> QED
  BY <1>2, Invariant, PTL DEF Spec, NoSilentResend

-----------------------------------------------------------------------------
(* The order of the stages: the second invariant.                           *)
(* The author's presses: a receipt keeps a revision the row has left. *)
Receipts ==
    \A j \in Jobs : \A k \in Keys :
        receipt[j][k] # 0 => /\ receipt[j][k] < job[j].rev
                             /\ \A l \in Keys \ {k} : receipt[j][k] # receipt[j][l]

(* A late request needs a cancelled row, and a thread still at the wire. *)
Late ==
    \A j \in Jobs : /\ late[j] <= 1
                    /\ late[j] = 1 => job[j].cancel /\ ~(w.pc = "wire" /\ w.job = j)

(* Which stages lie behind a stage: checkpoints, or a failure repaired. *)
Passed(j, t) == \/ Completed(j, t)
                \/ KnownFailure(j, t) /\ t + 1 \in Repair /\ Completed(j, t + 1)
Reached(j, s) ==
    \A t \in Stages \ Repair :
        t < s => IF t + 1 = s /\ s \in Repair THEN KnownFailure(j, t) ELSE Passed(j, t)

(* The thread walks the stages in order, and so did every earlier run. *)
Walk ==
    /\ w.pc \in {"scan", "select", "claim"} => w.stage = 1
    /\ w.pc \in Inside \ {"publish"} => Reached(w.job, w.stage)
    /\ w.pc = "publish" => \A t \in Stages \ Repair : Passed(w.job, t)
    /\ w.pc \in Begun => /\ ~Completed(w.job, w.stage) /\ ~KnownFailure(w.job, w.stage)
                         /\ latest[w.job][w.stage].at = job[w.job].made
                         /\ doubt[w.job] \subseteq {w.stage}
    /\ w.pc \in {"stage", "publish"} => doubt[w.job] = {}
    /\ w.pc = "failing" /\ w.repairable => w.stage + 1 \in Repair
OrderRow(j, s) ==
    /\ latest[j][s].no > 0 => Reached(j, s)
    /\ latest[j][s].repairable => s + 1 \in Repair
    /\ latest[j][s].status = "prepared" => latest[j][s].at = job[j].made
    /\ s \in doubt[j] => latest[j][s].at = job[j].made
Order == \A j \in Jobs, s \in Stages : OrderRow(j, s)

(* A job that waits to be run has nothing in doubt. *)
Clear == \A j \in Jobs : job[j].status \in {"absent", "queued"} => doubt[j] = {}

OInv == Receipts /\ Late /\ Walk /\ Order /\ Clear /\ PublishedComplete

-----------------------------------------------------------------------------
(* What a step does to the control row of a job.                            *)

Waits(j) == job[j].status \in {"absent", "queued"}
Forward(j) ==
    /\ job'[j].rev >= job[j].rev
    /\ job[j].cancel => job'[j].cancel
    /\ job'[j].status = "succeeded" =>
          job[j].status = "succeeded" \/ (w.pc = "publish" /\ j = w.job)
    /\ Waits(j)' => Waits(j) \/ doubt'[j] = {}
SameMade(j) == job'[j].made = job[j].made
Moves(j)    == Forward(j) /\ SameMade(j)

LEMMA RowTypes ==
    ASSUME IInv, NEW j \in Jobs
    PROVE  job \in [Jobs -> JobRecord] /\ job[j] \in JobRecord /\ job[j].rev \in Nat
  BY DEF IInv, TypeInv, TypeOK, JobRecord

LEMMA StillMoves ==
    ASSUME IInv, NEW j \in Jobs, job'[j] = job[j]
    PROVE  Moves(j)
  BY RowTypes DEF Moves, Forward, SameMade, Waits

LEMMA EnqueueMoves ==
    ASSUME IInv, NEW j \in Jobs, NEW r, NEW c, Enqueue(j, r, c)
    PROVE  \A i \in Jobs : Moves(i)
<1>1. job[j] \in JobRecord /\ job[j].status = "absent"
  BY RowTypes DEF Enqueue
<1> DEFINE new == [job[j] EXCEPT !.status = "queued", !.replaces = r, !.confirm = c]
<1>2. job' = [job EXCEPT ![j] = new]
  BY DEF Enqueue
<1>3. new.rev = job[j].rev /\ new.cancel = job[j].cancel /\ new.made = job[j].made
      /\ new.status = "queued"
  BY <1>1 DEF JobRecord
<1> HIDE DEF new
<1>4. job'[j] = new /\ \A i \in Jobs \ {j} : job'[i] = job[i]
  BY <1>2, RowTypes
<1>5. Moves(j)
  BY <1>1, <1>3, <1>4, RowTypes DEF Moves, Forward, SameMade, Waits
<1> QED
  BY <1>4, <1>5, StillMoves

LEMMA CancelMoves ==
    ASSUME IInv, NEW j \in Jobs, Cancel(j)
    PROVE  \A i \in Jobs : Moves(i)
<1>1. job[j] \in JobRecord /\ job[j].rev \in Nat
  BY RowTypes
<1> DEFINE st == IF job[j].status = "running" THEN "cancel_requested" ELSE "cancelled"
           new == [job[j] EXCEPT !.cancel = TRUE, !.rev = job[j].rev + 1, !.status = st]
<1>2. job' = [job EXCEPT ![j] = new]
  BY DEF Cancel
<1>3. st \notin {"succeeded", "absent", "queued"}
  OBVIOUS
<1> HIDE DEF st
<1>4. new.rev = job[j].rev + 1 /\ new.cancel /\ new.made = job[j].made /\ new.status = st
  BY <1>1 DEF JobRecord
<1> HIDE DEF new
<1>5. job'[j] = new /\ \A i \in Jobs \ {j} : job'[i] = job[i]
  BY <1>2, RowTypes
<1>6. Moves(j)
  BY <1>1, <1>3, <1>4, <1>5 DEF Moves, Forward, SameMade, Waits
<1> QED
  BY <1>5, <1>6, StillMoves

LEMMA ResumeMoves ==
    ASSUME IInv, NEW j \in Jobs, NEW k, NEW x, NEW c, Resume(j, k, x, c)
    PROVE  job'[j].rev = job[j].rev + 1 /\ \A i \in Jobs : Moves(i)
<1>1. job[j] \in JobRecord /\ job[j].rev \in Nat
  BY RowTypes
<1>2. /\ job[j].status \in {"recovery_required", "failed"} /\ job'[j].status = "queued"
      /\ \A i \in Jobs \ {j} : job'[i] = job[i]
  BY ResumeEffect DEF IInv
<1>3. doubt'[j] = {} /\ ~job[j].cancel
  BY <1>2, ResumeDoubts DEF IInv, Control, CancelMarked
<1>4. /\ Requeued(j).rev = job[j].rev + 1 /\ Requeued(j).made = job[j].made
      /\ Requeued(j) \in JobRecord
  BY <1>1, RequeuedFields DEF Requeued, JobRecord, IInv
<1>5. job'[j].rev = job[j].rev + 1 /\ job'[j].made = job[j].made
  <2>1. CASE job' = [job EXCEPT ![j] = Requeued(j)]
    <3>1. job'[j] = Requeued(j)
      BY <2>1, RowTypes
    <3> QED
      BY <1>4, <3>1
  <2>2. ASSUME NEW b, job' = [job EXCEPT ![j] = [Requeued(j) EXCEPT !.authStage = b,
                                                   !.authNo = latest[j][b].no + 1]]
        PROVE  job'[j].rev = job[j].rev + 1 /\ job'[j].made = job[j].made
    <3> DEFINE n == latest[j][b].no + 1
               new == [Requeued(j) EXCEPT !.authStage = b, !.authNo = n]
    <3>1. new.rev = Requeued(j).rev /\ new.made = Requeued(j).made
      <4> HIDE DEF n
      <4> QED BY <1>4 DEF JobRecord
    <3>2. job' = [job EXCEPT ![j] = new]
      BY <2>2
    <3> HIDE DEF new
    <3>3. job'[j] = new
      BY <3>2, RowTypes
    <3> QED
      BY <1>4, <3>1, <3>3
  <2> QED
    BY <2>1, <2>2 DEF Resume
<1>6. Moves(j)
  BY <1>1, <1>2, <1>3, <1>5 DEF Moves, Forward, SameMade
<1> QED
  BY <1>2, <1>5, <1>6, StillMoves

LEMMA RecoverMoves ==
    ASSUME IInv, NEW S \in SUBSET Jobs, RecoverAll(S), UNCHANGED doubt
    PROVE  \A i \in Jobs : Moves(i)
<1> SUFFICES ASSUME NEW j \in Jobs PROVE Moves(j)
  OBVIOUS
<1>0. job[j] \in JobRecord /\ job[j].rev \in Nat
  BY RowTypes
<1>1. CASE j \notin S
  BY <1>1, StillMoves DEF RecoverAll
<1>2. CASE j \in S
  <2>1. job'[j] = RecoveredJob(j)
    BY <1>2 DEF RecoverAll
  <2> DEFINE st == IF Verdict(j) \in {"unsupported", "unknown"} THEN "recovery_required"
                   ELSE Verdict(j)
  <2>2. /\ RecoveredJob(j).cancel = job[j].cancel /\ RecoveredJob(j).status = st
        /\ RecoveredJob(j).rev = job[j].rev + 1 /\ RecoveredJob(j).made = job[j].made
    BY <1>0 DEF RecoveredJob, JobRecord
  <2>3. st \in {"recovery_required", "cancelled", "failed", "queued"}
    BY DEF Verdict
  <2>4. st = "queued" => doubt[j] = {}
    <3> SUFFICES ASSUME st = "queued", NEW s \in doubt[j] PROVE FALSE
      OBVIOUS
    <3>1. UnknownStages(j) = {}
      BY DEF Verdict
    <3>2. s \in Stages
      BY DEF IInv, TypeInv, TypeOK
    <3>3. latest[j][s].status \in {"dispatched", "result_unknown"} /\ ~Authorized(j, s)
      BY <3>2 DEF IInv, Stored, Doubted, MaySend, RowMaySend
    <3> QED
      BY <3>1, <3>2, <3>3 DEF UnknownStages
  <2> HIDE DEF st
  <2> QED
    BY <1>0, <2>1, <2>2, <2>3, <2>4 DEF Moves, Forward, SameMade, Waits
<1> QED
  BY <1>1, <1>2

LEMMA ClaimMoves ==
    ASSUME IInv, Claim
    PROVE  \A i \in Jobs : Moves(i)
<1>1. CASE UNCHANGED job
  BY <1>1, StillMoves
<1>2. CASE ~UNCHANGED job
  <2> DEFINE new == [job[w.job] EXCEPT !.status = "running", !.rev = job[w.job].rev + 1,
                                       !.epoch = epoch]
  <2>1. w.job \in Jobs /\ job[w.job] \in JobRecord /\ job[w.job].rev \in Nat
    BY RowTypes DEF Claim, HoldsJob, IInv, TypeInv
  <2>2. job' = [job EXCEPT ![w.job] = new]
    BY <1>2 DEF Claim
  <2>3. new.status = "running" /\ new.rev = job[w.job].rev + 1 /\ new.cancel = job[w.job].cancel
        /\ new.made = job[w.job].made
    BY <2>1 DEF JobRecord
  <2> HIDE DEF new
  <2>4. PICK j \in Jobs : j = w.job
    BY <2>1
  <2>5. job'[j] = new /\ \A i \in Jobs \ {j} : job'[i] = job[i]
    BY <2>1, <2>2, <2>4, RowTypes
  <2>6. Moves(j)
    BY <2>1, <2>3, <2>4, <2>5 DEF Moves, Forward, SameMade, Waits
  <2> QED
    BY <2>5, <2>6, StillMoves
<1> QED
  BY <1>1, <1>2

(* The thread sets the status of its job, and perhaps the reason. *)
LEMMA SettleMoves ==
    ASSUME IInv, NEW j \in Jobs, w.job = j, NEW st, NEW rs, st \notin {"absent", "queued"},
           st = "succeeded" => w.pc = "publish",
           job' = [job EXCEPT ![j] = [job[j] EXCEPT !.status = st, !.reason = rs]]
    PROVE  \A i \in Jobs : Moves(i)
<1> DEFINE new == [job[j] EXCEPT !.status = st, !.reason = rs]
<1>1. job[j] \in JobRecord /\ job[j].rev \in Nat
  BY RowTypes
<1>2. /\ new.status = st /\ new.rev = job[j].rev /\ new.cancel = job[j].cancel
      /\ new.made = job[j].made
  BY <1>1 DEF JobRecord
<1>3. job' = [job EXCEPT ![j] = new]
  OBVIOUS
<1> HIDE DEF new
<1>4. job'[j] = new /\ \A i \in Jobs \ {j} : job'[i] = job[i]
  BY <1>3, RowTypes
<1>5. Moves(j)
  BY <1>1, <1>2, <1>4 DEF Moves, Forward, SameMade, Waits
<1> QED
  BY <1>4, <1>5, StillMoves

LEMMA StatusMoves ==
    ASSUME IInv, NEW j \in Jobs, w.job = j, NEW st, st \notin {"absent", "queued"},
           st = "succeeded" => w.pc = "publish", job' = [job EXCEPT ![j].status = st]
    PROVE  \A i \in Jobs : Moves(i)
<1> DEFINE new == [job[j] EXCEPT !.status = st]
<1>1. job[j] \in JobRecord /\ job[j].rev \in Nat
  BY RowTypes
<1>2. /\ new.status = st /\ new.rev = job[j].rev /\ new.cancel = job[j].cancel
      /\ new.made = job[j].made
  BY <1>1 DEF JobRecord
<1>3. job' = [job EXCEPT ![j] = new]
  OBVIOUS
<1> HIDE DEF new
<1>4. job'[j] = new /\ \A i \in Jobs \ {j} : job'[i] = job[i]
  BY <1>3, RowTypes
<1>5. Moves(j)
  BY <1>1, <1>2, <1>4 DEF Moves, Forward, SameMade, Waits
<1> QED
  BY <1>4, <1>5, StillMoves

(* begin_attempt() counts the attempt. *)
Counted(j, s) == IF latest[j][s].status = "prepared" THEN \A i \in Jobs : SameMade(i)
                 ELSE /\ job'[j].made = job[j].made + 1
                      /\ \A i \in Jobs \ {j} : SameMade(i)

LEMMA BeginMoves ==
    ASSUME IInv, NEW j \in Jobs, NEW s, Begin(j, s)
    PROVE  Counted(j, s) /\ \A i \in Jobs : Forward(i)
<1>0. job[j] \in JobRecord /\ job[j].rev \in Nat /\ job[j].made \in Nat
  BY RowTypes DEF JobRecord
<1>1. CASE latest[j][s].status = "prepared"
  <2>1. job' = job
    BY <1>1 DEF Begin
  <2> QED
    BY <1>1, <2>1, StillMoves DEF Moves, Counted
<1>2. CASE latest[j][s].status # "prepared"
  <2> DEFINE r1 == [job[j] EXCEPT !.made = @ + 1, !.authStage = None, !.authNo = 0]
             r2 == [job[j] EXCEPT !.made = @ + 1]
  <2>1. job' = [job EXCEPT ![j] = r1] \/ job' = [job EXCEPT ![j] = r2]
    BY <1>2, Zenon DEF Begin
  <2>2. r1.status = job[j].status /\ r1.rev = job[j].rev /\ r1.cancel = job[j].cancel
        /\ r1.made = job[j].made + 1
    BY <1>0 DEF JobRecord
  <2>3. r2.status = job[j].status /\ r2.rev = job[j].rev /\ r2.cancel = job[j].cancel
        /\ r2.made = job[j].made + 1
    BY <1>0 DEF JobRecord
  <2> HIDE DEF r1, r2
  <2>4. /\ job'[j] = r1 \/ job'[j] = r2
        /\ \A i \in Jobs \ {j} : job'[i] = job[i]
    BY <2>1, RowTypes
  <2>5. Forward(j) /\ job'[j].made = job[j].made + 1
    BY <1>0, <2>2, <2>3, <2>4 DEF Forward, Waits
  <2> QED
    BY <1>2, <2>4, <2>5, StillMoves DEF Moves, Counted
<1> QED
  BY <1>1, <1>2

-----------------------------------------------------------------------------
(* What lies behind a stage stays behind it.                                *)

(* No step touches a checkpoint or a failure that was repaired. *)
Firm == \A j \in Jobs, t \in Stages :
           Completed(j, t) \/ KnownFailure(j, t) => latest'[j][t] = latest[j][t]

LEMMA FirmStages ==
    ASSUME Firm, NEW j \in Jobs, NEW t \in Stages
    PROVE  /\ Completed(j, t) => Completed(j, t)'
           /\ KnownFailure(j, t) => KnownFailure(j, t)'
  BY DEF Firm, Completed, KnownFailure

LEMMA PassedKeeps ==
    ASSUME ConstantsAssumption, Firm, NEW j \in Jobs, NEW t \in Stages, Passed(j, t)
    PROVE  Passed(j, t)'
<1>1. CASE Completed(j, t)
  BY <1>1, FirmStages DEF Passed
<1>2. CASE KnownFailure(j, t) /\ t + 1 \in Repair /\ Completed(j, t + 1)
  <2>1. t + 1 \in Stages
    BY <1>2 DEF ConstantsAssumption, Stages
  <2> QED
    BY <1>2, <2>1, FirmStages DEF Passed
<1> QED
  BY <1>1, <1>2 DEF Passed

LEMMA ReachedKeeps ==
    ASSUME ConstantsAssumption, Firm, NEW j \in Jobs, NEW s, Reached(j, s)
    PROVE  Reached(j, s)'
<1> SUFFICES ASSUME NEW t \in Stages \ Repair, t < s
             PROVE  IF t + 1 = s /\ s \in Repair THEN KnownFailure(j, t)' ELSE Passed(j, t)'
  BY DEF Reached
<1>1. IF t + 1 = s /\ s \in Repair THEN KnownFailure(j, t) ELSE Passed(j, t)
  BY DEF Reached
<1> QED
  BY <1>1, FirmStages, PassedKeeps

(* Of two stages reached, the earlier one is closed. *)
LEMMA Behind ==
    ASSUME ConstantsAssumption, NEW j \in Jobs, NEW a \in Stages, NEW b \in Stages, a < b,
           Reached(j, a), Reached(j, b)
    PROVE  Completed(j, a) \/ KnownFailure(j, a)
<1>0. a \in Nat /\ b \in Nat /\ a > 0
  BY DEF Stages, ConstantsAssumption
<1>1. CASE a \notin Repair
  BY <1>1 DEF Reached, Passed
<1>2. CASE a \in Repair
  <2> DEFINE t == a - 1
  <2>1. t \in Stages \ Repair /\ t < a /\ t < b /\ t + 1 = a /\ t + 1 # b
    BY <1>0, <1>2 DEF ConstantsAssumption, Stages
  <2> HIDE DEF t
  <2>2. KnownFailure(j, t)
    BY <1>2, <2>1 DEF Reached
  <2>3. Passed(j, t)
    BY <2>1 DEF Reached
  <2>4. ~Completed(j, t)
    BY <2>2 DEF KnownFailure, Completed
  <2> QED
    BY <2>1, <2>3, <2>4 DEF Passed
<1> QED
  BY <1>1, <1>2

(* A checkpoint, or a failure that has a repair, opens the next stage. *)
LEMMA AfterReached ==
    ASSUME ConstantsAssumption, NEW j \in Jobs, NEW s \in Stages,
           Reached(j, s)', Completed(j, s)'
    PROVE  Reached(j, After(s))'
<1>0. s \in Nat
  BY DEF Stages
<1> DEFINE n == After(s)
<1>1. n \in {s + 1, s + 2} /\ (n = s + 1 => s + 1 \notin Repair) /\ (n = s + 2 => s + 1 \in Repair)
  BY <1>0 DEF After
<1> HIDE DEF n
<1> SUFFICES ASSUME NEW t \in Stages \ Repair, t < n
             PROVE  Passed(j, t)' /\ (t + 1 = n => n \notin Repair)
  BY DEF Reached, n
<1>2. t \in Nat
  BY DEF Stages
<1>3. CASE t = s
  BY <1>0, <1>1, <1>3 DEF Passed
<1>4. CASE t = s + 1
  BY <1>0, <1>1, <1>4
<1>5. CASE t < s
  <2>1. IF t + 1 = s /\ s \in Repair THEN KnownFailure(j, t)' ELSE Passed(j, t)'
    BY <1>5 DEF Reached
  <2>2. Passed(j, t)'
    BY <2>1 DEF Passed
  <2> QED
    BY <1>0, <1>1, <1>2, <1>5, <2>2
<1> QED
  BY <1>0, <1>1, <1>2, <1>3, <1>4, <1>5

LEMMA RepairReached ==
    ASSUME ConstantsAssumption, NEW j \in Jobs, NEW s \in Stages, s + 1 \in Repair,
           Reached(j, s)', KnownFailure(j, s)'
    PROVE  Reached(j, s + 1)' /\ s + 1 \in Stages
<1>0. s \in Nat /\ s \notin Repair /\ s + 1 \in Stages
  <2>1. (s + 1) - 1 \notin Repair
    BY DEF ConstantsAssumption
  <2> QED
    BY <2>1 DEF Stages, ConstantsAssumption
<1> SUFFICES ASSUME NEW t \in Stages \ Repair, t < s + 1
             PROVE  IF t + 1 = s + 1 THEN KnownFailure(j, t)' ELSE Passed(j, t)'
  BY <1>0 DEF Reached
<1>1. t \in Nat
  BY DEF Stages
<1>2. CASE t = s
  BY <1>2
<1>3. CASE t < s
  BY <1>0, <1>1, <1>3 DEF Reached
<1> QED
  BY <1>0, <1>1, <1>2, <1>3

LEMMA FirstReached == ASSUME NEW j \in Jobs PROVE Reached(j, 1)
  BY DEF Reached, Stages

LEMMA OrderKeeps ==
    ASSUME ConstantsAssumption, Order, Firm, NEW j \in Jobs, NEW t \in Stages, SameMade(j),
           latest'[j][t].no = latest[j][t].no, latest'[j][t].at = latest[j][t].at,
           latest'[j][t].repairable => t + 1 \in Repair,
           latest'[j][t].status = "prepared" => latest[j][t].status = "prepared",
           t \in doubt'[j] => t \in doubt[j] \/ latest[j][t].at = job[j].made
    PROVE  OrderRow(j, t)'
<1>1. OrderRow(j, t)
  BY DEF Order
<1>2. Reached(j, t) => Reached(j, t)'
  BY ReachedKeeps
<1> QED
  BY <1>1, <1>2 DEF OrderRow, SameMade

(* A step that leaves the attempts alone. *)
LEMMA OrderStill ==
    ASSUME ConstantsAssumption, Order, UNCHANGED latest, \A j \in Jobs : SameMade(j),
           \A j \in Jobs : doubt'[j] \subseteq doubt[j]
    PROVE  Firm /\ Order'
<1>1. Firm
  BY DEF Firm
<1>2. ASSUME NEW j \in Jobs, NEW t \in Stages PROVE OrderRow(j, t)'
  <2>1. latest[j][t].repairable => t + 1 \in Repair
    BY DEF Order, OrderRow
  <2> QED
    BY <1>1, <2>1, OrderKeeps
<1> QED
  BY <1>1, <1>2 DEF Order

LEMMA RecoverOrder ==
    ASSUME ConstantsAssumption, IInv, Order, NEW S \in SUBSET Jobs, RecoverAll(S), UNCHANGED doubt
    PROVE  Firm /\ Order'
<1>1. ASSUME NEW j \in Jobs, NEW t \in Stages
      PROVE  /\ latest'[j][t] # latest[j][t] =>
                   latest[j][t].status \in {"dispatched", "result_unknown"}
             /\ latest'[j][t].no = latest[j][t].no /\ latest'[j][t].at = latest[j][t].at
             /\ latest'[j][t].repairable = latest[j][t].repairable
             /\ latest'[j][t].status = "prepared" => latest[j][t].status = "prepared"
  <2> DEFINE new == [latest[j][t] EXCEPT !.status = "result_unknown", !.outcome = "unknown"]
  <2>1. latest[j][t] \in AttemptRecord
    BY DEF IInv, TypeInv, TypeOK
  <2>2. new.no = latest[j][t].no /\ new.at = latest[j][t].at /\ new.status = "result_unknown"
        /\ new.repairable = latest[j][t].repairable
    BY <2>1 DEF AttemptRecord
  <2>3. latest'[j][t] = latest[j][t] \/ (t \in UnknownStages(j) /\ latest'[j][t] = new)
    BY DEF RecoverAll, RecoveredLatest
  <2> HIDE DEF new
  <2> QED
    BY <2>2, <2>3 DEF UnknownStages
<1>2. Firm
  BY <1>1 DEF Firm, Completed, KnownFailure
<1>3. \A j \in Jobs : SameMade(j)
  BY RecoverMoves DEF Moves
<1>4. ASSUME NEW j \in Jobs, NEW t \in Stages PROVE OrderRow(j, t)'
  <2>1. latest[j][t].repairable => t + 1 \in Repair
    BY DEF Order, OrderRow
  <2> QED
    BY <1>1, <1>2, <1>3, <2>1, OrderKeeps
<1> QED
  BY <1>2, <1>4 DEF Order

LEMMA ResumeOrder ==
    ASSUME ConstantsAssumption, IInv, Order, NEW j \in Jobs, NEW k, NEW x, NEW c,
           Resume(j, k, x, c)
    PROVE  Firm /\ Order'
<1>1. ASSUME NEW i \in Jobs, NEW t \in Stages
      PROVE  /\ latest'[i][t] # latest[i][t] => latest[i][t].status = "dispatched"
             /\ latest'[i][t].no = latest[i][t].no /\ latest'[i][t].at = latest[i][t].at
             /\ latest'[i][t].repairable = latest[i][t].repairable
             /\ latest'[i][t].status = "prepared" => latest[i][t].status = "prepared"
  <2>1. latest[i][t] \in AttemptRecord /\ latest \in [Jobs -> [Stages -> AttemptRecord]]
    BY DEF IInv, TypeInv, TypeOK
  <2>2. CASE UNCHANGED latest
    BY <2>2
  <2>3. ASSUME NEW b \in Stages, latest[j][b].status = "dispatched",
               latest' = [latest EXCEPT ![j][b] = [@ EXCEPT !.status = "result_unknown",
                                                            !.outcome = "unknown"]],
               <<i, t>> = <<j, b>>
        PROVE  /\ latest[i][t].status = "dispatched"
               /\ latest'[i][t].no = latest[i][t].no /\ latest'[i][t].at = latest[i][t].at
               /\ latest'[i][t].repairable = latest[i][t].repairable
               /\ latest'[i][t].status # "prepared"
    <3> DEFINE new == [latest[i][t] EXCEPT !.status = "result_unknown", !.outcome = "unknown"]
    <3>1. new.no = latest[i][t].no /\ new.at = latest[i][t].at /\ new.status = "result_unknown"
          /\ new.repairable = latest[i][t].repairable
      BY <2>1 DEF AttemptRecord
    <3>2. latest' = [latest EXCEPT ![i][t] = new]
      BY <2>3
    <3> HIDE DEF new
    <3>3. latest'[i][t] = new
      BY <2>1, <3>2
    <3> QED
      BY <2>3, <3>1, <3>3
  <2>4. ASSUME NEW b \in Stages, <<i, t>> # <<j, b>>,
               latest' = [latest EXCEPT ![j][b] = [@ EXCEPT !.status = "result_unknown",
                                                            !.outcome = "unknown"]]
        PROVE  latest'[i][t] = latest[i][t]
    BY <2>1, <2>4
  <2>5. \A b \in NewestBlocked(j) : b \in Stages
    BY DEF NewestBlocked, BlockedStages
  <2> QED
    BY <2>2, <2>3, <2>4, <2>5 DEF Resume
<1>2. Firm
  BY <1>1 DEF Firm, Completed, KnownFailure
<1>3. \A i \in Jobs : SameMade(i) /\ doubt'[i] \subseteq doubt[i]
  BY ResumeMoves, ResumeDoubts DEF Moves
<1>4. ASSUME NEW i \in Jobs, NEW t \in Stages PROVE OrderRow(i, t)'
  <2>1. latest[i][t].repairable => t + 1 \in Repair
    BY DEF Order, OrderRow
  <2> QED
    BY <1>1, <1>2, <1>3, <2>1, OrderKeeps
<1> QED
  BY <1>2, <1>4 DEF Order

-----------------------------------------------------------------------------
(* The thread's own stage.                                                  *)

LEMMA Recorded ==
    ASSUME ConstantsAssumption, IInv, Walk, Order, w.pc \in Begun,
           NEW j \in Jobs, NEW s \in Stages, w.job = j, w.stage = s,
           NEW st, NEW out, NEW r, Record(st, out, r), st # "prepared", r => s + 1 \in Repair,
           \A i \in Jobs : SameMade(i) /\ doubt'[i] \subseteq doubt[i]
    PROVE  /\ Firm /\ Order'
           /\ latest'[j][s].status = st /\ latest'[j][s].outcome = out
           /\ latest'[j][s].repairable = r /\ latest'[j][s].at = job'[j].made
<1>1. latest \in [Jobs -> [Stages -> AttemptRecord]] /\ latest[j][s] \in AttemptRecord
  BY DEF IInv, TypeInv, TypeOK
<1> DEFINE new == [latest[j][s] EXCEPT !.status = st, !.outcome = out, !.repairable = r]
<1>2. /\ new.no = latest[j][s].no /\ new.at = latest[j][s].at /\ new.status = st
      /\ new.outcome = out /\ new.repairable = r
  BY <1>1 DEF AttemptRecord
<1>3. latest' = [latest EXCEPT ![j][s] = new]
  BY DEF Record
<1> HIDE DEF new
<1>4. latest'[j][s] = new /\ OtherRows(j, s)
  BY <1>1, <1>3 DEF OtherRows
<1>5. ~Completed(j, s) /\ ~KnownFailure(j, s) /\ latest[j][s].at = job[j].made
  BY DEF Walk
<1>6. Firm
  BY <1>4, <1>5 DEF Firm, OtherRows
<1>7. ASSUME NEW i \in Jobs, NEW t \in Stages PROVE OrderRow(i, t)'
  <2>1. latest[i][t].repairable => t + 1 \in Repair
    BY DEF Order, OrderRow
  <2>2. CASE i = j /\ t = s
    BY <1>2, <1>4, <1>6, <2>2, OrderKeeps
  <2>3. CASE <<i, t>> # <<j, s>>
    BY <1>4, <1>6, <2>1, <2>3, OrderKeeps DEF OtherRows
  <2> QED
    BY <2>2, <2>3
<1> QED
  BY <1>2, <1>4, <1>5, <1>6, <1>7 DEF Order, SameMade

LEMMA BegunOrder ==
    ASSUME ConstantsAssumption, IInv, Walk, Order, w.pc \in Inside \ {"publish"},
           NEW j \in Jobs, NEW s \in Stages, w.job = j, w.stage = s,
           ~Completed(j, s), ~KnownFailure(j, s), doubt[j] = {}, Begin(j, s), doubt' = doubt
    PROVE  /\ Firm /\ Order'
           /\ latest'[j][s].status = "prepared" /\ latest'[j][s].at = job'[j].made
<1>1. /\ latest \in [Jobs -> [Stages -> AttemptRecord]]
      /\ Reached(j, s) /\ Order /\ Counted(j, s)
  BY BeginMoves DEF IInv, TypeInv, TypeOK, Walk
<1>2. /\ OtherRows(j, s)
      /\ latest'[j][s].status = "prepared" /\ latest'[j][s].repairable => s + 1 \in Repair
      /\ latest'[j][s].at = job'[j].made /\ latest'[j][s].status = "prepared"
  <2>1. CASE latest[j][s].status = "prepared"
    BY <1>1, <2>1 DEF Begin, OtherRows, Order, OrderRow
  <2>2. CASE latest[j][s].status # "prepared"
    <3> DEFINE new == [no |-> latest[j][s].no + 1, status |-> "prepared", outcome |-> "none",
                       repairable |-> FALSE, at |-> job[j].made + 1]
    <3>1. latest' = [latest EXCEPT ![j][s] = new]
      BY <2>2 DEF Begin
    <3>2. new.status = "prepared" /\ ~new.repairable /\ new.at = job[j].made + 1
      OBVIOUS
    <3> HIDE DEF new
    <3>3. latest'[j][s] = new /\ OtherRows(j, s)
      BY <1>1, <3>1 DEF OtherRows
    <3> QED
      BY <1>1, <2>2, <3>2, <3>3 DEF Counted
  <2> QED
    BY <2>1, <2>2
<1>3. Firm
  BY <1>2 DEF Firm, OtherRows
<1>4. OrderRow(j, s)'
  <2>1. Reached(j, s)'
    BY <1>1, <1>3, ReachedKeeps
  <2> QED
    BY <1>2, <2>1 DEF OrderRow
<1>5. ASSUME NEW t \in Stages \ {s} PROVE latest[j][t].status # "prepared"
  <2> SUFFICES ASSUME latest[j][t].status = "prepared" PROVE FALSE
    OBVIOUS
  <2>1. ~Completed(j, t) /\ ~KnownFailure(j, t)
    BY DEF Completed, KnownFailure
  <2>2. latest[j][t].no \in Nat /\ latest[j][t].no # 0
    BY DEF IInv, Stored, Rows, TypeInv, TypeOK, AttemptRecord
  <2>3. Reached(j, t)
    BY <2>2 DEF Order, OrderRow
  <2>4. t < s \/ s < t
    BY DEF Stages
  <2> QED
    BY <1>1, <2>1, <2>3, <2>4, Behind
<1>6. ASSUME NEW i \in Jobs, NEW t \in Stages, <<i, t>> # <<j, s>> PROVE OrderRow(i, t)'
  <2>1. /\ latest'[i][t] = latest[i][t] /\ OrderRow(i, t)
        /\ Reached(i, t) => Reached(i, t)'
    BY <1>2, <1>3, <1>6, ReachedKeeps DEF OtherRows, Order
  <2>2. CASE i = j
    BY <1>5, <1>6, <2>1, <2>2 DEF OrderRow
  <2>3. CASE i # j
    <3>1. SameMade(i)
      BY <1>1, <2>3 DEF Counted
    <3> QED
      BY <2>1, <3>1 DEF OrderRow, SameMade
  <2> QED
    BY <2>2, <2>3
<1> QED
  BY <1>2, <1>3, <1>4, <1>6 DEF Order

-----------------------------------------------------------------------------
(* Where the thread may go.                                                 *)

LEMMA WalkAway ==
    ASSUME w'.pc \notin Inside, w'.pc \in {"scan", "select", "claim"} => w'.stage = 1
    PROVE  Walk'
  BY DEF Walk, Inside, Begun

LEMMA WalkStill ==
    ASSUME ConstantsAssumption, IInv, Walk, Firm, w' = w,
           w.pc \in Inside => /\ latest'[w.job] = latest[w.job] /\ doubt'[w.job] = doubt[w.job]
                              /\ job'[w.job].made = job[w.job].made
    PROVE  Walk'
<1>1. CASE w.pc \notin Inside
  BY <1>1, WalkAway DEF Walk
<1>2. CASE w.pc \in Inside
  <2>1. PICK j \in Jobs, s \in Stages : w.job = j /\ w.stage = s
    BY <1>2 DEF IInv, TypeInv, TypeOK, HoldsJob, Inside, Worker
  <2>2. Reached(j, s) => Reached(j, s)'
    BY ReachedKeeps
  <2>3. \A t \in Stages : Passed(j, t) => Passed(j, t)'
    BY PassedKeeps
  <2>4. /\ latest'[j] = latest[j] /\ doubt'[j] = doubt[j] /\ job'[j].made = job[j].made
    BY <1>2, <2>1
  <2>5. (Completed(j, s)' <=> Completed(j, s)) /\ (KnownFailure(j, s)' <=> KnownFailure(j, s))
    BY <2>4 DEF Completed, KnownFailure
  <2>6. w'.job = j /\ w'.stage = s
    BY <2>1
  <2> QED
    BY <1>2, <2>1, <2>2, <2>3, <2>4, <2>5, <2>6 DEF Walk, Inside
<1> QED
  BY <1>1, <1>2

LEMMA WalkOn ==
    ASSUME ConstantsAssumption, IInv, Walk, Firm, w.pc \in Inside \ {"publish"}, SameTask,
           NEW j \in Jobs, NEW s \in Stages, w.job = j, w.stage = s, w'.pc \in Begun,
           ~Completed(j, s)', ~KnownFailure(j, s)', latest'[j][s].at = job'[j].made,
           doubt'[j] \subseteq {s},
           w'.pc = "failing" /\ w'.repairable => s + 1 \in Repair
    PROVE  Walk'
<1>1. Reached(j, s)'
  BY ReachedKeeps DEF Walk
<1>2. w'.job = j /\ w'.stage = s
  BY DEF SameTask
<1> QED
  BY <1>1, <1>2 DEF Walk, Begun, Inside

LEMMA WalkTurn ==
    ASSUME ConstantsAssumption, NEW j \in Jobs, w.job = j, NEW n \in Nat, TurnTo(n),
           Reached(j, n)', doubt'[j] = {}
    PROVE  Walk'
<1> DEFINE pc == IF n > Last THEN "publish" ELSE "stage"
           st == IF n > Last THEN 1 ELSE n
<1>1. w'.job = j /\ w'.pc = pc /\ w'.stage = st
  <2>1. w' = [Idle EXCEPT !.job = w.job, !.rev = w.rev, !.pc = pc, !.stage = st]
    BY DEF TurnTo
  <2> HIDE DEF pc, st
  <2> QED BY <2>1 DEF Idle
<1>2. CASE n > Last
  <2>1. w'.pc = "publish"
    BY <1>1, <1>2
  <2>2. n \notin Repair
    BY <1>2 DEF ConstantsAssumption
  <2>3. \A t \in Stages \ Repair : Passed(j, t)'
    BY <1>2, <2>2 DEF Reached, Stages, ConstantsAssumption
  <2> QED
    BY <1>1, <2>1, <2>3 DEF Walk, Begun, Inside
<1>3. CASE ~(n > Last)
  <2>1. w'.pc = "stage" /\ w'.stage = n
    BY <1>1, <1>3
  <2> QED
    BY <1>1, <2>1 DEF Walk, Begun, Inside
<1> QED
  BY <1>2, <1>3

LEMMA FailingRepair ==
    ASSUME w \in Worker, NEW out, NEW r, NEW b, Failing(out, r, b)
    PROVE  w'.repairable => w.stage + 1 \in Repair
<1> DEFINE c == r /\ w.stage + 1 \in Repair
           new == [w EXCEPT !.pc = "failing", !.outcome = out, !.caught = b, !.repairable = c]
<1>1. w' = new
  BY Zenon DEF Failing
<1>2. new.repairable = c
  <2> HIDE DEF c
  <2> QED BY DEF Worker
<1> QED
  BY <1>1, <1>2

-----------------------------------------------------------------------------
(* Every step.                                                              *)

(* The thread only turns to the wire when its job is not cancelled. *)
Wired   == w'.pc = "wire" => (w.pc = "wire" /\ w'.job = w.job) \/ ~job[w'.job].cancel
Shrinks == \A j \in Jobs : doubt'[j] \subseteq doubt[j] \/ ~Waits(j)
Good    == Firm /\ Order' /\ Walk' /\ Wired /\ Shrinks /\ \A j \in Jobs : Forward(j)

(* Steps that leave the thread, the attempts and the doubts alone. *)
LEMMA OthersGood ==
    ASSUME ConstantsAssumption, IInv, OInv, UNCHANGED <<latest, w, doubt>>,
           \A j \in Jobs : Moves(j)
    PROVE  Good
<1>1. Firm /\ Order'
  BY OrderStill DEF OInv, Moves
<1>2. w.pc \in Inside => w.job \in Jobs
  BY DEF IInv, TypeInv, HoldsJob, Inside
<1>3. Walk'
  BY <1>1, <1>2, WalkStill DEF OInv, Moves, SameMade
<1> QED
  BY <1>1, <1>3 DEF Good, Wired, Shrinks, Moves

LEMMA AuthorGood ==
    ASSUME ConstantsAssumption, IInv, OInv, Author
    PROVE  Good
<1>1. ASSUME NEW j \in Jobs, NEW r, NEW c, Enqueue(j, r, c) PROVE Good
  <2>1. UNCHANGED <<latest, w, doubt>>
    BY <1>1 DEF Enqueue, history
  <2>2. \A i \in Jobs : Moves(i)
    BY <1>1, EnqueueMoves DEF OInv
  <2> QED
    BY <2>1, <2>2, OthersGood
<1>2. ASSUME NEW j \in Jobs, Cancel(j) PROVE Good
  <2>1. UNCHANGED <<latest, w, doubt>>
    BY <1>2 DEF Cancel, history
  <2>2. \A i \in Jobs : Moves(i)
    BY <1>2, CancelMoves
  <2> QED
    BY <2>1, <2>2, OthersGood
<1>3. ASSUME NEW j \in Jobs, NEW k, NEW x, NEW c, Resume(j, k, x, c) PROVE Good
  <2>1. Firm /\ Order' /\ \A i \in Jobs : Moves(i)
    BY <1>3, ResumeOrder, ResumeMoves DEF OInv
  <2>2. /\ w' = w /\ job[j].status \in {"recovery_required", "failed"}
        /\ \A i \in Jobs \ {j} : latest'[i] = latest[i] /\ doubt'[i] = doubt[i]
        /\ doubt'[j] = {}
    BY <1>3, ResumeEffect, ResumeDoubts DEF Resume, IInv
  <2>3. w.pc \in Inside => w.job \in Jobs \ {j}
    BY <2>2 DEF IInv, Control, Owned, TypeInv, HoldsJob, Inside
  <2>4. Walk'
    BY <2>1, <2>2, <2>3, WalkStill DEF OInv, Moves, SameMade
  <2> QED
    BY <2>1, <2>2, <2>4 DEF Good, Wired, Shrinks, Moves
<1>4. CASE ArchiveThread \/ RestoreThread
  <2>1. UNCHANGED <<job, latest, w, doubt>>
    BY <1>4 DEF ArchiveThread, RestoreThread, history
  <2> QED
    BY <2>1, StillMoves, OthersGood
<1> QED
  BY <1>1, <1>2, <1>3, <1>4 DEF Author

(* Steps that take the thread out of its stages, or have it wait for a job. *)
LEMMA AwayGood ==
    ASSUME ConstantsAssumption, IInv, OInv, Firm, Order', \A j \in Jobs : Forward(j),
           \A j \in Jobs : doubt'[j] \subseteq doubt[j],
           w'.pc \notin Inside, w'.pc \in {"scan", "select", "claim"} => w'.stage = 1
    PROVE  Good
<1>1. Walk'
  BY WalkAway
<1>2. Wired
  BY DEF Wired, Inside
<1> QED
  BY <1>1, <1>2 DEF Good, Shrinks

LEMMA IdleFields == ASSUME w' = Idle PROVE w'.pc = "scan" /\ w'.stage = 1
  BY DEF Idle

LEMMA ScanGood ==
    ASSUME ConstantsAssumption, IInv, OInv, Scan
    PROVE  Good
<1>0. w \in Worker /\ UNCHANGED doubt
  BY DEF IInv, TypeInv, TypeOK, Scan, Prepare, Reconcile, Select, Claim, history
<1>1. CASE Prepare
  <2>1. LeftBehind \in SUBSET Jobs /\ RecoverAll(LeftBehind) /\ w' = w /\ w.pc = "scan"
    BY <1>1 DEF LeftBehind, Prepare
  <2>2. Firm /\ Order' /\ \A i \in Jobs : Moves(i)
    BY <1>0, <2>1, RecoverOrder, RecoverMoves DEF OInv
  <2>3. w'.stage = 1
    BY <2>1 DEF OInv, Walk
  <2> QED
    BY <1>0, <2>1, <2>2, <2>3, AwayGood DEF Moves, Inside
<1>2. CASE Reconcile
  <2>1. Abandoned \in SUBSET Jobs /\ RecoverAll(Abandoned) /\ w.pc = "scan" /\ Goto("select")
    BY <1>2 DEF Abandoned, Reconcile
  <2>2. Firm /\ Order' /\ \A i \in Jobs : Moves(i)
    BY <1>0, <2>1, RecoverOrder, RecoverMoves DEF OInv
  <2>3. w'.pc = "select" /\ w'.stage = 1
    BY <1>0, <2>1, GotoFields DEF OInv, Walk, SameTask
  <2> QED
    BY <1>0, <2>2, <2>3, AwayGood DEF Moves, Inside
<1>3. CASE Select
  <2>1. UNCHANGED <<job, latest>> /\ w.pc = "select"
    BY <1>3 DEF Select, store
  <2>2. \A i \in Jobs : Moves(i)
    BY <2>1, StillMoves
  <2>3. Firm /\ Order'
    BY <1>0, <2>1, <2>2, OrderStill DEF OInv, Moves
  <2>4. w'.pc \in {"scan", "claim"} /\ w'.stage = 1
    <3>1. w' = Idle \/ \E j \in Jobs : w' = [w EXCEPT !.pc = "claim", !.job = j]
      BY <1>3 DEF Select, Queued
    <3>2. ASSUME NEW j \in Jobs, w' = [w EXCEPT !.pc = "claim", !.job = j]
          PROVE  w'.pc = "claim" /\ w'.stage = w.stage
      BY <1>0, <3>2 DEF Worker
    <3>3. w.stage = 1
      BY <2>1 DEF OInv, Walk
    <3> QED
      BY <3>1, <3>2, <3>3, IdleFields
  <2> QED
    BY <1>0, <2>2, <2>3, <2>4, AwayGood DEF Moves, Inside
<1>4. CASE Claim
  <2>1. /\ latest' = latest /\ w.pc = "claim" /\ w.stage = 1 /\ w.job \in Jobs
        /\ \A i \in Jobs : Moves(i)
    BY <1>4, ClaimMoves DEF Claim, OInv, Walk, IInv, TypeInv, HoldsJob
  <2>2. Firm /\ Order'
    BY <1>0, <2>1, OrderStill DEF OInv, Moves
  <2>3. CASE w' = Idle
    BY <1>0, <2>1, <2>2, <2>3, IdleFields, AwayGood DEF Moves, Inside
  <2>4. CASE /\ job[w.job].status = "queued"
             /\ w' = [w EXCEPT !.pc = "stage", !.rev = job[w.job].rev + 1]
    <3>1. PICK j \in Jobs : w.job = j
      BY <2>1
    <3>2. w'.pc = "stage" /\ w'.stage = 1 /\ w'.job = j
      <4> DEFINE n == job[w.job].rev + 1
      <4>1. w' = [w EXCEPT !.pc = "stage", !.rev = n]
        BY <2>4
      <4> HIDE DEF n
      <4> QED BY <1>0, <2>1, <3>1, <4>1 DEF Worker
    <3>3. doubt'[j] = {}
      BY <1>0, <2>4, <3>1 DEF OInv, Clear
    <3>4. Reached(j, 1)'
      BY <2>2, FirstReached, ReachedKeeps
    <3>5. Walk'
      BY <3>2, <3>3, <3>4 DEF Walk, Begun, Inside
    <3>6. Wired
      BY <3>2 DEF Wired
    <3> QED
      BY <1>0, <2>1, <2>2, <3>5, <3>6 DEF Good, Shrinks, Moves
  <2> QED
    BY <1>4, <2>3, <2>4 DEF Claim
<1> QED
  BY <1>1, <1>2, <1>3, <1>4 DEF Scan

(* Moves of the thread inside its stage, and out of it. *)
LEMMA MoveGood ==
    ASSUME ConstantsAssumption, IInv, OInv, UNCHANGED <<job, latest, doubt>>,
           \/ w'.pc \notin Inside /\ (w'.pc \in {"scan", "select", "claim"} => w'.stage = 1)
           \/ /\ w.pc \in Begun /\ SameTask /\ w'.pc \in Begun /\ w'.pc # "wire"
              /\ w'.pc = "failing" /\ w'.repairable => w.stage + 1 \in Repair
    PROVE  Good
<1>1. \A i \in Jobs : Moves(i)
  BY StillMoves
<1>2. Firm /\ Order'
  BY <1>1, OrderStill DEF OInv, Moves
<1>3. CASE w'.pc \notin Inside /\ (w'.pc \in {"scan", "select", "claim"} => w'.stage = 1)
  BY <1>1, <1>2, <1>3, AwayGood DEF Moves
<1>4. CASE /\ w.pc \in Begun /\ SameTask /\ w'.pc \in Begun /\ w'.pc # "wire"
           /\ w'.pc = "failing" /\ w'.repairable => w.stage + 1 \in Repair
  <2>1. PICK j \in Jobs, s \in Stages : w.job = j /\ w.stage = s
    BY <1>4, OwnStage
  <2>2. /\ ~Completed(j, s) /\ ~KnownFailure(j, s)
        /\ latest[j][s].at = job[j].made /\ doubt[j] \subseteq {s}
    BY <1>4, <2>1 DEF OInv, Walk
  <2>3. ~Completed(j, s)' /\ ~KnownFailure(j, s)'
    BY <2>2 DEF Completed, KnownFailure
  <2>4. Walk'
    BY <1>2, <1>4, <2>1, <2>2, <2>3, WalkOn DEF OInv, Begun, Inside
  <2> QED
    BY <1>1, <1>2, <1>4, <2>4 DEF Good, Wired, Shrinks, Moves
<1> QED
  BY <1>3, <1>4

LEMMA FailingGood ==
    ASSUME ConstantsAssumption, IInv, OInv, UNCHANGED <<job, latest, doubt>>, w.pc \in Begun,
           NEW out, NEW r, NEW b, Failing(out, r, b)
    PROVE  Good
<1>1. w \in Worker
  BY DEF IInv, TypeInv, TypeOK
<1>2. w'.pc = "failing" /\ SameTask /\ (w'.repairable => w.stage + 1 \in Repair)
  BY <1>1, FailingFields, FailingRepair
<1> QED
  BY <1>2, MoveGood DEF Begun, Inside

LEMMA MovesGood ==
    ASSUME ConstantsAssumption, IInv, OInv, OverBudget \/ ConnectionRefused \/ Reply \/ Interrupt
    PROVE  Good
<1>0. w \in Worker /\ UNCHANGED <<job, latest, doubt>>
  BY DEF IInv, TypeInv, TypeOK, OverBudget, ConnectionRefused, Reply, Interrupt, store, history
<1>1. CASE OverBudget
  BY <1>0, <1>1, FailingGood DEF OverBudget, Begun, Inside
<1>2. CASE ConnectionRefused
  <2>1. w'.pc = "refused" /\ SameTask /\ w.pc \in Begun
    BY <1>0, <1>2, GotoFields DEF ConnectionRefused, Begun, Inside
  <2> QED
    BY <1>0, <2>1, MoveGood DEF Begun, Inside
<1>3. CASE Reply
  <2>1. w.pc \in Begun
    BY <1>3 DEF Reply, Begun, Inside
  <2>2. CASE Goto("store")
    <3>1. w'.pc = "store" /\ SameTask
      BY <1>0, <2>2, GotoFields
    <3> QED
      BY <1>0, <2>1, <3>1, MoveGood DEF Begun, Inside
  <2> QED
    BY <1>0, <1>3, <2>1, <2>2, FailingGood DEF Reply
<1>4. CASE Interrupt
  <2>1. CASE Raise(TRUE)
    BY <1>0, <2>1, RaiseFields, MoveGood DEF Inside
  <2>2. CASE Interrupted(Evidence(w.pc)) /\ w.pc \in {"dispatch", "retry", "reply", "refused", "store"}
    <3>1. w'.pc = "failHttp" /\ SameTask /\ w.pc \in Begun
      BY <1>0, <2>2, InterruptedFields DEF Begun, Inside
    <3> QED
      BY <1>0, <3>1, MoveGood DEF Begun, Inside
  <2> QED
    BY <1>4, <2>1, <2>2 DEF Interrupt
<1> QED
  BY <1>1, <1>2, <1>3, <1>4

LEMMA SendGood ==
    ASSUME ConstantsAssumption, IInv, OInv, Send
    PROVE  Good
<1>1. /\ w.pc = "wire" /\ w.pc \in Begun /\ w.pc \in Inside /\ UNCHANGED <<job, latest>>
      /\ w \in Worker
  BY DEF Send, Begun, Inside, store, IInv, TypeInv, TypeOK
<1>2. PICK j \in Jobs, s \in Stages : w.job = j /\ w.stage = s
  BY <1>1, OwnStage
<1>3. /\ ~Completed(j, s) /\ ~KnownFailure(j, s)
      /\ latest[j][s].at = job[j].made /\ doubt[j] \subseteq {s}
  BY <1>1, <1>2 DEF OInv, Walk
<1>4. /\ doubt \in [Jobs -> SUBSET Stages] /\ doubt' = [doubt EXCEPT ![j] = @ \cup {s}]
  BY <1>2 DEF Send, IInv, TypeInv, TypeOK
<1>5. \A i \in Jobs : Moves(i)
  BY <1>1, StillMoves
<1>6. Firm
  BY <1>1 DEF Firm
<1>7. ASSUME NEW i \in Jobs, NEW t \in Stages PROVE OrderRow(i, t)'
  <2>1. latest[i][t].repairable => t + 1 \in Repair
    BY DEF OInv, Order, OrderRow
  <2>2. t \in doubt'[i] => t \in doubt[i] \/ latest[i][t].at = job[i].made
    BY <1>3, <1>4
  <2> QED
    BY <1>1, <1>5, <1>6, <2>1, <2>2, OrderKeeps DEF OInv, Moves
<1>8. w'.pc = "reply" /\ SameTask
  BY <1>1, GotoFields DEF Send
<1>9. ~Completed(j, s)' /\ ~KnownFailure(j, s)'
  BY <1>1, <1>3 DEF Completed, KnownFailure
<1>10. Walk'
  BY <1>1, <1>2, <1>3, <1>4, <1>6, <1>8, <1>9, WalkOn DEF OInv, Begun, Inside
<1>11. ~Waits(j) /\ \A i \in Jobs \ {j} : doubt'[i] = doubt[i]
  BY <1>1, <1>2, <1>4 DEF IInv, Control, Owned, Waits
<1> QED
  BY <1>5, <1>6, <1>7, <1>8, <1>10, <1>11 DEF Good, Order, Wired, Shrinks, Moves

(* The thread turns to another stage, or to the publication. *)
LEMMA TurnGood ==
    ASSUME ConstantsAssumption, Firm, Order', \A i \in Jobs : Forward(i),
           \A i \in Jobs : doubt'[i] \subseteq doubt[i],
           NEW j \in Jobs, w.job = j, NEW n \in Nat, TurnTo(n), Reached(j, n)', doubt'[j] = {}
    PROVE  Good
<1>1. Walk'
  BY WalkTurn
<1>2. w'.pc \in {"stage", "publish"}
  BY TurnFields
<1> QED
  BY <1>1, <1>2 DEF Good, Wired, Shrinks

(* The thread goes on within the stage it has begun. *)
LEMMA OnGood ==
    ASSUME ConstantsAssumption, IInv, OInv, w.pc \in Inside \ {"publish"}, SameTask,
           w'.pc \in Begun, NEW j \in Jobs, NEW s \in Stages, w.job = j, w.stage = s,
           Firm, Order', \A i \in Jobs : Forward(i), \A i \in Jobs : doubt'[i] \subseteq doubt[i],
           ~Completed(j, s)', ~KnownFailure(j, s)', latest'[j][s].at = job'[j].made,
           doubt'[j] \subseteq {s},
           w'.pc = "failing" /\ w'.repairable => s + 1 \in Repair,
           w'.pc = "wire" => ~job[j].cancel
    PROVE  Good
<1>1. Walk'
  BY WalkOn DEF OInv
<1>2. Wired
  <2>1. w'.job = j
    BY DEF SameTask
  <2> QED
    BY <2>1 DEF Wired
<1> QED
  BY <1>1, <1>2 DEF Good, Shrinks

(* What the invariants say of the stage the thread has begun. *)
LEMMA OwnOrder ==
    ASSUME IInv, OInv, w.pc \in Begun, NEW j \in Jobs, NEW s \in Stages, w.job = j, w.stage = s
    PROVE  /\ ~Completed(j, s) /\ ~KnownFailure(j, s) /\ Reached(j, s)
           /\ latest[j][s].at = job[j].made /\ doubt[j] \subseteq {s}
  BY DEF OInv, Walk, Begun, Inside

LEMMA RunStageGood ==
    ASSUME ConstantsAssumption, IInv, OInv, RunStage
    PROVE  Good
<1>1. /\ w.pc = "stage" /\ doubt' = doubt /\ w \in Worker /\ w.pc \in Inside \ {"publish"}
  BY DEF RunStage, history, IInv, TypeInv, TypeOK, Inside
<1>2. PICK j \in Jobs, s \in Stages : w.job = j /\ w.stage = s
  BY <1>1 DEF IInv, TypeInv, TypeOK, HoldsJob, Worker
<1>3. Reached(j, s) /\ doubt[j] = {} /\ s + 1 \in Nat /\ After(s) \in Nat
  BY <1>1, <1>2, AfterType DEF OInv, Walk
<1>4. CASE /\ UNCHANGED <<job, latest>>
           /\ \/ Completed(j, s) /\ TurnTo(After(s))
              \/ KnownFailure(j, s) /\ TurnTo(s + 1)
              \/ Raise(TRUE)
  <2>1. Firm /\ Order' /\ \A i \in Jobs : Forward(i)
    BY <1>1, <1>4, StillMoves, OrderStill DEF OInv, Moves
  <2>2. Reached(j, s)'
    BY <1>3, <2>1, ReachedKeeps
  <2>3. CASE Completed(j, s) /\ TurnTo(After(s))
    <3>1. Completed(j, s)'
      BY <2>1, <2>3, FirmStages
    <3>2. Reached(j, After(s))'
      BY <2>2, <3>1, AfterReached
    <3>3. PICK n \in Nat : n = After(s)
      BY <1>3
    <3>4. Reached(j, n)' /\ TurnTo(n)
      BY <2>3, <3>2, <3>3 DEF After
    <3> QED
      BY <1>1, <1>2, <1>3, <2>1, <3>4, TurnGood
  <2>4. CASE KnownFailure(j, s) /\ TurnTo(s + 1)
    <3>1. KnownFailure(j, s)' /\ s + 1 \in Repair
      BY <2>1, <2>4, FirmStages DEF OInv, Order, OrderRow, KnownFailure
    <3>2. Reached(j, s + 1)'
      BY <2>2, <3>1, RepairReached
    <3> QED
      BY <1>1, <1>2, <1>3, <2>1, <2>4, <3>2, TurnGood
  <2>5. CASE Raise(TRUE)
    <3>1. w'.pc = "raised"
      BY <1>1, <2>5, RaiseFields
    <3> QED
      BY <1>1, <1>4, <3>1, MoveGood DEF Inside
  <2> QED
    BY <1>4, <2>3, <2>4, <2>5
<1>5. CASE /\ ~Completed(j, s) /\ ~KnownFailure(j, s) /\ Begin(j, s)
           /\ w' = [w EXCEPT !.pc = IF s \in Skipped THEN "skip" ELSE "dispatch",
                             !.no = AttemptNo(j, s)]
  <2>1. w'.pc \in {"skip", "dispatch"} /\ SameTask
    <3> DEFINE pc == IF s \in Skipped THEN "skip" ELSE "dispatch"
               no == AttemptNo(j, s)
    <3>1. w' = [w EXCEPT !.pc = pc, !.no = no] /\ pc \in {"skip", "dispatch"}
      BY <1>5
    <3> HIDE DEF pc, no
    <3> QED BY <1>1, <3>1 DEF Worker, SameTask
  <2>2. /\ Firm /\ Order' /\ \A i \in Jobs : Forward(i)
        /\ latest'[j][s].status = "prepared" /\ latest'[j][s].at = job'[j].made
    BY <1>1, <1>2, <1>3, <1>5, BegunOrder, BeginMoves DEF OInv
  <2>3. ~Completed(j, s)' /\ ~KnownFailure(j, s)'
    BY <2>2 DEF Completed, KnownFailure
  <2> QED
    BY <1>1, <1>2, <1>3, <2>1, <2>2, <2>3, OnGood DEF Begun, Inside
<1> QED
  BY <1>2, <1>4, <1>5 DEF RunStage

LEMMA ClosingGood ==
    ASSUME ConstantsAssumption, IInv, OInv, w.pc \in Begun, UNCHANGED job,
           NEW j \in Jobs, NEW s \in Stages, w.job = j, w.stage = s,
           NEW st \in {"succeeded", "skipped"}, Record(st, "known", FALSE), TurnTo(After(s)),
           \A i \in Jobs : doubt'[i] \subseteq doubt[i], doubt'[j] = {}
    PROVE  Good
<1>1. \A i \in Jobs : Moves(i)
  BY StillMoves
<1>2. Firm /\ Order' /\ latest'[j][s].status = st
  <2>1. Walk /\ Order /\ \A i \in Jobs : SameMade(i) /\ doubt'[i] \subseteq doubt[i]
    BY <1>1 DEF OInv, Moves
  <2> DEFINE out == "known"
             r   == FALSE
  <2>2. Record(st, out, r) /\ st # "prepared" /\ ~r
    OBVIOUS
  <2> HIDE DEF out, r
  <2> QED
    BY <2>1, <2>2, Recorded
<1>3. Reached(j, s)' /\ Completed(j, s)'
  BY <1>2, OwnOrder, ReachedKeeps DEF Completed
<1>4. Reached(j, After(s))'
  BY <1>3, AfterReached
<1>5. PICK n \in Nat : n = After(s)
  BY AfterType
<1>6. Reached(j, n)' /\ TurnTo(n)
  BY <1>4, <1>5 DEF After
<1> QED
  BY <1>1, <1>2, <1>6, TurnGood DEF Moves

LEMMA FinishesGood ==
    ASSUME ConstantsAssumption, IInv, OInv, FinishSkip \/ FinishAttempt
    PROVE  Good
<1>1. w.pc \in Begun /\ UNCHANGED job /\ doubt \in [Jobs -> SUBSET Stages]
  BY DEF FinishSkip, FinishAttempt, Begun, Inside, IInv, TypeInv, TypeOK
<1>2. PICK j \in Jobs, s \in Stages : w.job = j /\ w.stage = s
  BY <1>1, OwnStage
<1>3. doubt[j] \subseteq {s}
  BY <1>1, <1>2, OwnOrder
<1>4. CASE FinishSkip
  <2>1. doubt' = doubt /\ s \notin doubt[j]
    BY <1>1, <1>2, <1>4, OwnStage DEF FinishSkip, history, Unsent
  <2> QED
    BY <1>1, <1>2, <1>3, <1>4, <2>1, ClosingGood DEF FinishSkip
<1>5. CASE FinishAttempt
  <2>1. doubt' = [doubt EXCEPT ![j] = @ \ {s}]
    BY <1>2, <1>5 DEF FinishAttempt
  <2>2. doubt'[j] = {} /\ \A i \in Jobs : doubt'[i] \subseteq doubt[i]
    BY <1>1, <1>3, <2>1
  <2> QED
    BY <1>1, <1>2, <1>5, <2>2, ClosingGood DEF FinishAttempt
<1> QED
  BY <1>4, <1>5

LEMMA DispatchGood ==
    ASSUME ConstantsAssumption, IInv, OInv, Dispatch
    PROVE  Good
<1>1. w.pc \in Begun /\ UNCHANGED <<job, doubt>> /\ w \in Worker
  BY DEF Dispatch, history, Begun, Inside, IInv, TypeInv, TypeOK
<1>2. PICK j \in Jobs, s \in Stages : w.job = j /\ w.stage = s
  BY <1>1, OwnStage
<1>3. \A i \in Jobs : Moves(i)
  BY <1>1, StillMoves
<1>4. /\ Firm /\ Order' /\ latest'[j][s].status = "dispatched"
      /\ latest'[j][s].at = job'[j].made
  <2>1. Walk /\ Order /\ \A i \in Jobs : SameMade(i) /\ doubt'[i] \subseteq doubt[i]
    BY <1>1, <1>3 DEF OInv, Moves
  <2> DEFINE st  == "dispatched"
             out == "none"
             r   == FALSE
  <2>2. Record(st, out, r) /\ st # "prepared" /\ ~r
    BY DEF Dispatch
  <2> HIDE DEF st, out, r
  <2>3. /\ Firm /\ Order' /\ latest'[j][s].status = st /\ latest'[j][s].repairable = r
        /\ latest'[j][s].at = job'[j].made
    BY <1>1, <1>2, <2>1, <2>2, Recorded
  <2> QED
    BY <2>3 DEF st, r
<1>5. ~Completed(j, s)' /\ ~KnownFailure(j, s)'
  BY <1>4 DEF Completed, KnownFailure
<1>6. w'.pc = "wire" /\ SameTask
  BY <1>1, GotoFields DEF Dispatch
<1>7. ~job[j].cancel /\ doubt[j] \subseteq {s}
  BY <1>1, <1>2, OwnOrder DEF Dispatch, AssertRunning
<1> QED
  BY <1>1, <1>2, <1>3, <1>4, <1>5, <1>6, <1>7, OnGood DEF Begun, Inside, Moves

LEMMA NotSentGood ==
    ASSUME ConstantsAssumption, IInv, OInv, NotSent
    PROVE  Good
<1>1. w.pc \in Begun /\ UNCHANGED <<job, doubt>> /\ w \in Worker
  BY DEF NotSent, history, Begun, Inside, IInv, TypeInv, TypeOK
<1>2. PICK j \in Jobs, s \in Stages : w.job = j /\ w.stage = s
  BY <1>1, OwnStage
<1>3. \A i \in Jobs : Moves(i)
  BY <1>1, StillMoves
<1>4. /\ Firm /\ Order' /\ latest'[j][s].status = "failed" /\ ~latest'[j][s].repairable
      /\ latest'[j][s].at = job'[j].made
  <2>1. Walk /\ Order /\ \A i \in Jobs : SameMade(i) /\ doubt'[i] \subseteq doubt[i]
    BY <1>1, <1>3 DEF OInv, Moves
  <2> DEFINE st  == "failed"
             out == "not_sent"
             r   == FALSE
  <2>2. Record(st, out, r) /\ st # "prepared" /\ ~r
    BY DEF NotSent
  <2> HIDE DEF st, out, r
  <2>3. /\ Firm /\ Order' /\ latest'[j][s].status = st /\ latest'[j][s].repairable = r
        /\ latest'[j][s].at = job'[j].made
    BY <1>1, <1>2, <2>1, <2>2, Recorded
  <2> QED
    BY <2>3 DEF st, r
<1>5. ~Completed(j, s)' /\ ~KnownFailure(j, s)'
  BY <1>4 DEF Completed, KnownFailure
<1>6. /\ w'.pc \in {"retry", "failing"} /\ SameTask
      /\ w'.pc = "failing" /\ w'.repairable => s + 1 \in Repair
  <2>1. CASE w' = [w EXCEPT !.pc = "retry", !.tries = 1]
    BY <1>1, <2>1 DEF Worker, SameTask
  <2>2. CASE Failing("known", FALSE, FALSE)
    BY <1>1, <1>2, <2>2, FailingFields, FailingRepair
  <2> QED
    BY <2>1, <2>2 DEF NotSent
<1>7. doubt[j] \subseteq {s}
  BY <1>1, <1>2, OwnOrder
<1> QED
  BY <1>1, <1>2, <1>3, <1>4, <1>5, <1>6, <1>7, OnGood DEF Begun, Inside, Moves

LEMMA RetryGood ==
    ASSUME ConstantsAssumption, IInv, OInv, Retry
    PROVE  Good
<1>1. w.pc = "retry" /\ w.pc \in Begun /\ doubt' = doubt /\ w \in Worker
  BY DEF Retry, history, Begun, Inside, IInv, TypeInv, TypeOK
<1>2. PICK j \in Jobs, s \in Stages : w.job = j /\ w.stage = s
  BY <1>1, OwnStage
<1>3. ~Completed(j, s) /\ ~KnownFailure(j, s) /\ doubt[j] = {}
  BY <1>1, <1>2, OwnOrder, OwnStage DEF Unsent
<1>4. CASE /\ Begin(j, s)
           /\ w' = [w EXCEPT !.pc = "dispatch", !.no = AttemptNo(j, s)]
  <2>1. w'.pc = "dispatch" /\ SameTask
    <3> DEFINE no == AttemptNo(j, s)
    <3>1. w' = [w EXCEPT !.pc = "dispatch", !.no = no]
      BY <1>4
    <3> HIDE DEF no
    <3> QED BY <1>1, <3>1 DEF Worker, SameTask
  <2>2. /\ Firm /\ Order' /\ \A i \in Jobs : Forward(i)
        /\ latest'[j][s].status = "prepared" /\ latest'[j][s].at = job'[j].made
    BY <1>1, <1>2, <1>3, <1>4, BegunOrder, BeginMoves DEF OInv, Begun, Inside
  <2>3. ~Completed(j, s)' /\ ~KnownFailure(j, s)'
    BY <2>2 DEF Completed, KnownFailure
  <2> QED
    BY <1>1, <1>2, <1>3, <2>1, <2>2, <2>3, OnGood DEF Begun, Inside
<1>5. CASE Interrupted("not_sent") /\ UNCHANGED <<job, latest>>
  <2>1. w'.pc = "failHttp" /\ SameTask
    BY <1>1, <1>5, InterruptedFields
  <2> QED
    BY <1>1, <1>5, <2>1, MoveGood DEF Begun, Inside
<1> QED
  BY <1>2, <1>4, <1>5 DEF Retry

LEMMA FailAttemptGood ==
    ASSUME ConstantsAssumption, IInv, OInv, FailAttempt
    PROVE  Good
<1>1. /\ w.pc = "failing" /\ w.pc \in Begun /\ w \in Worker
      /\ doubt \in [Jobs -> SUBSET Stages] /\ (w.repairable => w.stage + 1 \in Repair)
  BY DEF FailAttempt, Begun, Inside, IInv, TypeInv, TypeOK, OInv, Walk
<1>2. PICK j \in Jobs, s \in Stages : w.job = j /\ w.stage = s
  BY <1>1, OwnStage
<1>3. \A i \in Jobs : Moves(i)
  <2> DEFINE st == IF w.outcome = "unknown" THEN "recovery_required" ELSE "failed"
             rs == IF w.outcome = "unknown" THEN "result_unknown" ELSE "stage_failed"
  <2>1. CASE UNCHANGED job
    BY <2>1, StillMoves
  <2>2. CASE job' = [job EXCEPT ![j] = [job[j] EXCEPT !.status = st, !.reason = rs]]
    <3>1. st \notin {"absent", "queued", "succeeded"}
      OBVIOUS
    <3> HIDE DEF st, rs
    <3> QED BY <1>2, <2>2, <3>1, SettleMoves
  <2> QED
    BY <1>2, <2>1, <2>2 DEF FailAttempt
<1>4. /\ doubt[j] \subseteq {s} /\ Reached(j, s)
      /\ doubt' = IF w.outcome = "known" THEN [doubt EXCEPT ![j] = @ \ {s}] ELSE doubt
  BY <1>1, <1>2, OwnOrder DEF FailAttempt
<1>5. \A i \in Jobs : doubt'[i] \subseteq doubt[i]
  BY <1>1, <1>4
<1> DEFINE st == IF w.outcome = "unknown" THEN "result_unknown" ELSE "failed"
<1>6. Record(st, w.outcome, w.repairable) /\ st # "prepared"
      /\ (w.outcome = "known" => st = "failed")
  BY DEF FailAttempt
<1> HIDE DEF st
<1>7. /\ Firm /\ Order' /\ latest'[j][s].status = st /\ latest'[j][s].outcome = w.outcome
      /\ latest'[j][s].repairable = w.repairable
  BY <1>1, <1>2, <1>3, <1>5, <1>6, Recorded DEF OInv, Moves
<1>8. CASE Raise(FALSE)
  <2>1. w'.pc = "raised"
    BY <1>1, <1>8, RaiseFields
  <2> QED
    BY <1>3, <1>5, <1>7, <2>1, AwayGood DEF Inside, Moves
<1>9. CASE w.outcome = "known" /\ w.repairable /\ TurnTo(s + 1)
  <2>1. KnownFailure(j, s)' /\ s + 1 \in Repair
    BY <1>1, <1>2, <1>6, <1>7, <1>9 DEF KnownFailure
  <2>2. Reached(j, s)'
    BY <1>4, <1>7, ReachedKeeps
  <2>3. Reached(j, s + 1)' /\ s + 1 \in Nat
    BY <2>1, <2>2, RepairReached, AfterType
  <2>4. doubt'[j] = {}
    BY <1>1, <1>4, <1>9
  <2> QED
    BY <1>2, <1>3, <1>5, <1>7, <1>9, <2>3, <2>4, TurnGood DEF Moves
<1> QED
  BY <1>2, <1>8, <1>9 DEF FailAttempt

LEMMA FailInterruptedGood ==
    ASSUME ConstantsAssumption, IInv, OInv, FailInterrupted
    PROVE  Good
<1>1. w.pc \in Begun /\ UNCHANGED <<job, doubt>> /\ w \in Worker /\ Raise(TRUE)
  BY DEF FailInterrupted, history, Begun, Inside, IInv, TypeInv, TypeOK
<1>2. PICK j \in Jobs, s \in Stages : w.job = j /\ w.stage = s
  BY <1>1, OwnStage
<1>3. \A i \in Jobs : Moves(i)
  BY <1>1, StillMoves
<1>4. Firm /\ Order'
  <2>1. CASE UNCHANGED latest
    BY <1>1, <1>3, <2>1, OrderStill DEF OInv, Moves
  <2> DEFINE st == IF w.outcome = "unknown" THEN "result_unknown" ELSE "failed"
  <2>2. CASE Record(st, w.outcome, FALSE)
    <3>1. st # "prepared"
      OBVIOUS
    <3> HIDE DEF st
    <3> QED BY <1>1, <1>2, <1>3, <2>2, <3>1, Recorded DEF OInv, Moves
  <2> QED
    BY <2>1, <2>2 DEF FailInterrupted
<1>5. w'.pc = "raised"
  BY <1>1, RaiseFields
<1> QED
  BY <1>1, <1>3, <1>4, <1>5, AwayGood DEF Inside, Moves

(* Steps that leave the attempts and the doubts, and end the thread's turn. *)
LEMMA EndGood ==
    ASSUME ConstantsAssumption, IInv, OInv, UNCHANGED <<latest, doubt>>, w' = Idle,
           \A i \in Jobs : Moves(i)
    PROVE  Good
<1>1. Firm /\ Order'
  BY OrderStill DEF OInv, Moves
<1> QED
  BY <1>1, IdleFields, AwayGood DEF Inside, Moves

LEMMA PublishGood ==
    ASSUME ConstantsAssumption, IInv, OInv, Publish
    PROVE  Good
<1>1. w.pc = "publish" /\ UNCHANGED <<latest, doubt>> /\ w' = Idle
  BY DEF Publish, history
<1>2. PICK j \in Jobs : w.job = j
  BY <1>1 DEF IInv, TypeInv, HoldsJob
<1>3. job' = [job EXCEPT ![j].status = "succeeded"]
  BY <1>2 DEF Publish
<1>4. \A i \in Jobs : Moves(i)
  <2> DEFINE st == "succeeded"
  <2>1. job' = [job EXCEPT ![j].status = st] /\ st \notin {"absent", "queued"}
    BY <1>3
  <2> HIDE DEF st
  <2> QED
    BY <1>1, <1>2, <2>1, StatusMoves
<1> QED
  BY <1>1, <1>4, EndGood

LEMMA HandlerGood ==
    ASSUME ConstantsAssumption, IInv, OInv, Handler
    PROVE  Good
<1>0. w \in Worker /\ UNCHANGED <<latest, doubt>>
  BY DEF Handler, Settle, FinishCancellation, Pause, store, history, IInv, TypeInv, TypeOK
<1>1. PICK j \in Jobs : w.job = j
  BY DEF Handler, Settle, FinishCancellation, Pause, IInv, TypeInv, HoldsJob
<1>2. CASE Settle
  <2>1. UNCHANGED job /\ (Goto("finish") \/ Goto("pause") \/ w' = Idle)
    BY <1>2 DEF Settle, store
  <2>2. w'.pc \notin Inside /\ (w'.pc \in {"scan", "select", "claim"} => w'.stage = 1)
    BY <1>0, <2>1, GotoFields, IdleFields DEF Inside
  <2> QED
    BY <1>0, <2>1, <2>2, MoveGood
<1>3. CASE FinishCancellation
  <2>1. w' = Idle /\ (UNCHANGED job \/ job' = [job EXCEPT ![j].status = "cancelled"])
    BY <1>1, <1>3 DEF FinishCancellation
  <2>2. \A i \in Jobs : Moves(i)
    BY <1>1, <2>1, StillMoves, StatusMoves
  <2> QED
    BY <1>0, <2>1, <2>2, EndGood
<1>4. CASE Pause
  <2> DEFINE st == IF w.http THEN "recovery_required" ELSE "failed"
  <2>1. /\ w' = Idle
        /\ \/ UNCHANGED job
           \/ job' = [job EXCEPT ![j] = [job[j] EXCEPT !.status = st, !.reason = "paused"]]
    BY <1>1, <1>4 DEF Pause
  <2>2. st \notin {"absent", "queued", "succeeded"}
    OBVIOUS
  <2>3. \A i \in Jobs : Moves(i)
    <3> HIDE DEF st
    <3> QED BY <1>1, <2>1, <2>2, StillMoves, SettleMoves
  <2> QED
    BY <1>0, <2>1, <2>3, EndGood
<1> QED
  BY <1>2, <1>3, <1>4 DEF Handler

LEMMA FaultGood ==
    ASSUME ConstantsAssumption, IInv, OInv, Busy \/ Crash \/ Restart
    PROVE  Good
<1>1. w \in Worker /\ UNCHANGED <<job, latest, doubt>>
  BY DEF Busy, Crash, Restart, store, history, IInv, TypeInv, TypeOK
<1>2. CASE Busy
  <2>1. CASE Raise(FALSE) \/ w' = Idle
    <3>1. w'.pc \notin Inside /\ (w'.pc \in {"scan", "select", "claim"} => w'.stage = 1)
      BY <1>1, <2>1, RaiseFields, IdleFields DEF Inside
    <3> QED
      BY <1>1, <3>1, MoveGood
  <2>2. CASE /\ w.pc \in {"dispatch", "retry", "refused", "store"}
             /\ \/ Failing("known", FALSE, FALSE) \/ Failing("unknown", FALSE, FALSE)
                \/ Failing("known", TRUE, FALSE)
    BY <1>1, <2>2, FailingGood DEF Begun, Inside
  <2> QED
    BY <1>2, <2>1, <2>2 DEF Busy
<1>3. CASE Crash
  <2>1. w' = Idle
    BY <1>3 DEF Crash
  <2> QED
    BY <1>1, <2>1, StillMoves, EndGood
<1>4. CASE Restart
  <2>1. w' = w
    BY <1>4 DEF Restart
  <2> QED
    BY <1>1, <2>1, StillMoves, OthersGood
<1> QED
  BY <1>2, <1>3, <1>4

LEMMA NextGood ==
    ASSUME ConstantsAssumption, IInv, OInv, [Next]_vars
    PROVE  Good
<1>1. CASE UNCHANGED vars
  <2>1. UNCHANGED <<job, latest, w, doubt>>
    BY <1>1 DEF vars, store, history
  <2> QED
    BY <2>1, StillMoves, OthersGood
<1>2. CASE Stage
  BY <1>2, RunStageGood, FinishesGood, DispatchGood, SendGood, MovesGood, NotSentGood, RetryGood,
     FailAttemptGood, FailInterruptedGood, PublishGood DEF Stage
<1> QED
  BY <1>1, <1>2, AuthorGood, ScanGood, HandlerGood, FaultGood DEF Next, Executor

-----------------------------------------------------------------------------
(* The invariant.                                                           *)

(* Only resume() writes a receipt, and only a request can come too late. *)
LEMMA OnlyResumeReceipts ==
    ASSUME [Next]_vars, receipt' # receipt
    PROVE  \E j \in Jobs, k \in Keys, c \in BOOLEAN :
              \E x \in 1..job[j].rev : Resume(j, k, x, c)
  BY DEF Next, Author, Enqueue, Cancel, ArchiveThread, RestoreThread, Executor, Scan,
         Prepare, Reconcile, Select, Claim, Stage, RunStage, FinishSkip, Dispatch, OverBudget,
         Send, ConnectionRefused, NotSent, Retry, Reply, FinishAttempt, FailAttempt,
         FailInterrupted, Publish, Interrupt, Handler, Settle, FinishCancellation, Pause, Busy,
         Crash, Restart, vars, store, process, history

LEMMA OnlySendLate ==
    ASSUME [Next]_vars, late' # late
    PROVE  Send
  BY DEF Next, Author, Enqueue, Cancel, Resume, ArchiveThread, RestoreThread, Executor, Scan,
         Prepare, Reconcile, Select, Claim, Stage, RunStage, FinishSkip, Dispatch, OverBudget,
         ConnectionRefused, NotSent, Retry, Reply, FinishAttempt, FailAttempt, FailInterrupted,
         Publish, Interrupt, Handler, Settle, FinishCancellation, Pause, Busy, Crash, Restart,
         vars, store, process, history

LEMMA ReceiptsKeep ==
    ASSUME IInv, OInv, [Next]_vars, \A j \in Jobs : Forward(j)
    PROVE  Receipts'
<1>1. receipt \in [Jobs -> [Keys -> Nat]] /\ \A j \in Jobs : job[j].rev \in Nat
  BY RowTypes DEF IInv, TypeInv, TypeOK
<1>2. ASSUME NEW j \in Jobs PROVE job'[j].rev \in Nat /\ job'[j].rev >= job[j].rev
  <2>1. TypeInv'
    BY NextTypes, ConstantsAssumption DEF IInv
  <2> QED
    BY <2>1 DEF TypeInv, TypeOK, JobRecord, Forward
<1>3. CASE UNCHANGED receipt
  BY <1>1, <1>2, <1>3 DEF OInv, Receipts
<1>4. ASSUME NEW i \in Jobs, NEW k \in Keys, NEW c, NEW x \in 1..job[i].rev, Resume(i, k, x, c)
      PROVE  Receipts'
  <2>1. /\ x = job[i].rev /\ x \in Nat /\ x # 0 /\ receipt' = [receipt EXCEPT ![i][k] = x]
    <3>1. x = job[i].rev
      BY <1>4 DEF Resume, MayResume
    <3>2. receipt' = [receipt EXCEPT ![i][k] = x]
      BY <1>4 DEF Resume
    <3> QED
      BY <1>1, <3>1, <3>2
  <2>2. job'[i].rev = job[i].rev + 1
    BY <1>4, ResumeMoves
  <2>3. \A j \in Jobs \ {i} : receipt'[j] = receipt[j]
    BY <1>1, <2>1
  <2>4. receipt'[i][k] = x /\ \A l \in Keys \ {k} : receipt'[i][l] = receipt[i][l]
    BY <1>1, <2>1
  <2>5. ASSUME NEW l \in Keys \ {k} PROVE receipt[i][l] # x
    BY <1>1, <2>1 DEF OInv, Receipts
  <2>6. ASSUME NEW j \in Jobs \ {i}, NEW l \in Keys, receipt'[j][l] # 0
        PROVE  /\ receipt'[j][l] < job'[j].rev
               /\ \A m \in Keys \ {l} : receipt'[j][l] # receipt'[j][m]
    BY <1>1, <1>2, <2>3, <2>6 DEF OInv, Receipts
  <2>7. ASSUME NEW l \in Keys, receipt'[i][l] # 0
        PROVE  /\ receipt'[i][l] < job'[i].rev
               /\ \A m \in Keys \ {l} : receipt'[i][l] # receipt'[i][m]
    <3>1. CASE l = k
      BY <1>1, <2>1, <2>2, <2>4, <2>5, <3>1
    <3>2. CASE l # k
      BY <1>1, <1>2, <2>1, <2>4, <2>5, <2>7, <3>2 DEF OInv, Receipts
    <3> QED
      BY <3>1, <3>2
  <2> QED
    BY <2>6, <2>7 DEF Receipts
<1> QED
  BY <1>3, <1>4, OnlyResumeReceipts

LEMMA LateKeeps ==
    ASSUME IInv, OInv, [Next]_vars, Wired, \A j \in Jobs : Forward(j)
    PROVE  Late'
<1>1. late \in [Jobs -> Nat]
  BY DEF IInv, TypeInv, TypeOK
<1> SUFFICES ASSUME NEW j \in Jobs
             PROVE  /\ late'[j] <= 1
                    /\ late'[j] = 1 => job'[j].cancel /\ ~(w'.pc = "wire" /\ w'.job = j)
  BY DEF Late
<1>2. /\ late[j] \in Nat /\ late[j] <= 1 /\ (job[j].cancel => job'[j].cancel)
      /\ late[j] = 1 => job[j].cancel /\ ~(w.pc = "wire" /\ w.job = j)
  BY <1>1 DEF OInv, Late, Forward
<1>3. CASE late'[j] = late[j]
  BY <1>2, <1>3 DEF Wired
<1>4. CASE late'[j] # late[j]
  <2>1. Send /\ w.pc = "wire" /\ w \in Worker
    BY <1>4, OnlySendLate DEF Send, IInv, TypeInv, TypeOK
  <2>2. w.job = j /\ job[j].cancel /\ late'[j] = late[j] + 1
    BY <1>1, <1>4, <2>1 DEF Send
  <2>3. w'.pc = "reply"
    BY <2>1, GotoFields DEF Send
  <2> QED
    BY <1>2, <2>1, <2>2, <2>3
<1> QED
  BY <1>3, <1>4

LEMMA PublishedKeeps ==
    ASSUME ConstantsAssumption, OInv, Firm, \A j \in Jobs : Forward(j)
    PROVE  PublishedComplete'
<1> SUFFICES ASSUME NEW j \in Jobs, job'[j].status = "succeeded", NEW s \in Stages \ Repair
             PROVE  Passed(j, s)'
  BY DEF PublishedComplete, Passed
<1>1. Passed(j, s)
  BY DEF OInv, PublishedComplete, Passed, Walk, Forward
<1> QED
  BY <1>1, PassedKeeps

LEMMA OrderKept ==
    ASSUME ConstantsAssumption, IInv, OInv, [Next]_vars
    PROVE  OInv' /\ Firm
<1>1. Good
  BY NextGood
<1>2. Order' /\ Walk' /\ Firm
  BY <1>1 DEF Good
<1>3. Receipts' /\ Late' /\ PublishedComplete'
  BY <1>1, ReceiptsKeep, LateKeeps, PublishedKeeps DEF Good
<1>4. Clear'
  BY <1>1 DEF Good, Clear, OInv, Forward, Shrinks, Waits
<1> QED
  BY <1>2, <1>3, <1>4 DEF OInv

LEMMA InitOrder ==
    ASSUME ConstantsAssumption, Init
    PROVE  OInv
<1>1. \A j \in Jobs, s \in Stages : latest[j][s] = NoAttempt /\ s \notin doubt[j]
  BY DEF Init
<1>2. Order
  BY <1>1 DEF Order, OrderRow, NoAttempt
<1>3. Walk
  BY DEF Init, Walk, Idle, Inside, Begun
<1>4. Receipts /\ Late /\ Clear
  BY DEF Init, Receipts, Late, Clear
<1>5. PublishedComplete
  BY DEF Init, PublishedComplete, NoJob
<1> QED
  BY <1>2, <1>3, <1>4, <1>5 DEF OInv

(* The stages of a job are passed in order, the thread stands at the only  *)
(* one that is open, and receipts, late requests and doubts keep to what   *)
(* the rows say (StageRunner.run, begin_attempt, resume, cancel).          *)
THEOREM OrderInvariant == Spec => [](IInv /\ OInv)
<1>1. Init => IInv /\ OInv
  BY InitInv, InitOrder, ConstantsAssumption
<1>2. IInv /\ OInv /\ [Next]_vars => (IInv /\ OInv)'
  BY NextKeeps, OrderKept, ConstantsAssumption
<1> QED
  BY <1>1, <1>2, PTL DEF Spec

(* No two accepted resumes of a job were made against the same revision:   *)
(* every accepted one moves the row past the revision its receipt keeps.   *)
THEOREM ResumedOnce == Spec => []ResumeOnce
<1>1. OInv => ResumeOnce
  BY DEF OInv, Receipts, ResumeOnce
<1> QED
  BY <1>1, OrderInvariant, PTL

(* A job is published only with a checkpoint, a skip or a repair for every *)
(* stage, after any number of crashes, resumes and retries.                *)
THEOREM PublishedWhole == Spec => []PublishedComplete
<1>1. OInv => PublishedComplete
  BY DEF OInv
<1> QED
  BY <1>1, OrderInvariant, PTL

(* After the author's cancellation at most one request still goes out: the *)
(* thread was at the wire, and it never returns there.                     *)
THEOREM OneLateRequest == Spec => []AtMostOneLateRequest
<1>1. OInv => AtMostOneLateRequest
  BY DEF OInv, Late, AtMostOneLateRequest
<1> QED
  BY <1>1, OrderInvariant, PTL

(* A checkpoint is never replaced and its stage never sent again: no step  *)
(* touches a closed stage, and the thread never stands at one when it      *)
(* sends.                                                                  *)
THEOREM CheckpointsAreKept == Spec => CheckpointsKept
<1>1. IInv /\ OInv /\ [Next]_vars =>
          [\A j \in Jobs, s \in Stages :
             Completed(j, s) => latest'[j][s] = latest[j][s] /\ sends'[j][s] = sends[j][s]]_vars
  <2> SUFFICES ASSUME IInv, OInv, [Next]_vars, NEW j \in Jobs, NEW s \in Stages, Completed(j, s)
               PROVE  latest'[j][s] = latest[j][s] /\ sends'[j][s] = sends[j][s]
    OBVIOUS
  <2>1. latest'[j][s] = latest[j][s]
    BY OrderKept, ConstantsAssumption DEF Firm
  <2>2. CASE UNCHANGED sends
    BY <2>1, <2>2
  <2>3. CASE Send
    <3>1. w.pc = "wire" /\ w.pc \in Begun /\ sends \in [Jobs -> [Stages -> Nat]]
      BY <2>3 DEF Send, Begun, Inside, IInv, TypeInv, TypeOK
    <3>2. PICK i \in Jobs, t \in Stages : w.job = i /\ w.stage = t
      BY <3>1, OwnStage
    <3>3. ~Completed(i, t)
      BY <3>1, <3>2, OwnOrder
    <3>4. sends' = [sends EXCEPT ![i][t] = @ + 1] /\ <<i, t>> # <<j, s>>
      BY <2>3, <3>2, <3>3 DEF Send
    <3> QED
      BY <2>1, <3>1, <3>4
  <2> QED
    BY <2>2, <2>3, OnlySendSends
<1> QED
  BY <1>1, OrderInvariant, PTL DEF Spec, CheckpointsKept

-----------------------------------------------------------------------------
(* Replacing a job.                                                         *)

(* Only enqueue() admits a job. *)
LEMMA OnlyEnqueueAdmits ==
    ASSUME IInv, [Next]_vars, NEW j \in Jobs, job[j].status = "absent", job'[j] # job[j]
    PROVE  \E r \in 0..MaxJobs, c \in BOOLEAN : Enqueue(j, r, c)
<1>0. job \in [Jobs -> JobRecord]
  BY RowTypes
<1>1. CASE Author
  <2>1. ASSUME NEW i \in Jobs, NEW r, NEW c, Enqueue(i, r, c), i # j PROVE FALSE
    BY <2>1, EnqueueEffect DEF IInv
  <2>2. ASSUME NEW i \in Jobs, Cancel(i) PROVE FALSE
    BY <1>0, <2>2 DEF Cancel
  <2>3. ASSUME NEW i \in Jobs, NEW k, NEW x, NEW c, Resume(i, k, x, c) PROVE FALSE
    BY <2>3, ResumeEffect DEF IInv
  <2>4. ~(ArchiveThread \/ RestoreThread)
    BY DEF ArchiveThread, RestoreThread
  <2> QED
    BY <1>1, <2>1, <2>2, <2>3, <2>4 DEF Author
<1>2. ASSUME Scan PROVE FALSE
  <2>1. ~(\E S : RecoverAll(S) /\ \A i \in S : job[i].status \in Active)
    BY DEF RecoverAll, Active
  <2>2. ~Prepare /\ ~Reconcile
    BY <2>1 DEF Prepare, Reconcile, LeftBehind, Abandoned, Active
  <2>3. ~Select
    BY DEF Select, store
  <2>4. ~Claim
    BY <1>0 DEF Claim
  <2> QED
    BY <1>2, <2>2, <2>3, <2>4 DEF Scan
<1>3. ASSUME Stage PROVE FALSE
  <2>1. w.pc \in Inside
    BY <1>3 DEF Stage, RunStage, FinishSkip, Dispatch, OverBudget, Send, ConnectionRefused,
         NotSent, Retry, Reply, FinishAttempt, FailAttempt, FailInterrupted, Publish, Interrupt,
         Inside
  <2>2. PICK i \in Jobs : i = w.job /\ i # j
    BY <2>1 DEF IInv, TypeInv, HoldsJob, Inside, Control, Owned
  <2>3. job' = job \/ \E new : job' = [job EXCEPT ![i] = new]
    <3>1. ASSUME NEW s, Begin(w.job, s) PROVE job' = job \/ \E new : job' = [job EXCEPT ![i] = new]
      BY <2>2, <3>1, Zenon DEF Begin
    <3>2. CASE RunStage \/ Retry
      BY <3>1, <3>2 DEF RunStage, Retry
    <3>3. CASE Publish
      BY <2>2, <3>3 DEF Publish
    <3>4. CASE FailAttempt
      BY <2>2, <3>4, Zenon DEF FailAttempt
    <3> QED
      BY <1>3, <3>2, <3>3, <3>4 DEF Stage, FinishSkip, Dispatch, OverBudget, Send,
         ConnectionRefused, NotSent, Reply, FinishAttempt, FailInterrupted, Interrupt, store
  <2> QED
    BY <1>0, <2>2, <2>3
<1>4. ASSUME Handler PROVE FALSE
  <2>1. ~Settle
    BY DEF Settle, store
  <2>2. ~FinishCancellation
    BY <1>0 DEF FinishCancellation
  <2>3. ~Pause
    BY <1>0 DEF Pause, AssertRunning
  <2> QED
    BY <1>4, <2>1, <2>2, <2>3 DEF Handler
<1>5. ~(Busy \/ Crash \/ Restart) /\ ~UNCHANGED vars
  BY DEF Busy, Crash, Restart, vars, store
<1> QED
  BY <1>1, <1>2, <1>3, <1>4, <1>5 DEF Next, Executor

(* A job with a request in doubt is only replaced by one the author has    *)
(* confirmed: the stage in doubt is the one begun last, and that is the    *)
(* attempt _validate_replacement looks at.                                 *)
THEOREM ReplacementIsConfirmed == Spec => ReplacementConfirmed
<1>1. IInv /\ OInv /\ [Next]_vars =>
          [\A j, r \in Jobs :
             (/\ job[j].status = "absent" /\ job'[j].status # "absent"
              /\ job'[j].replaces = r /\ doubt[r] # {}) => job'[j].confirm]_vars
  <2> SUFFICES ASSUME IInv, OInv, [Next]_vars, NEW j \in Jobs, NEW r \in Jobs,
                      job[j].status = "absent", job'[j].status # "absent",
                      job'[j].replaces = r, doubt[r] # {}
               PROVE  job'[j].confirm
    OBVIOUS
  <2>1. PICK q \in 0..MaxJobs, c \in BOOLEAN : Enqueue(j, q, c)
    BY OnlyEnqueueAdmits
  <2> DEFINE new == [job[j] EXCEPT !.status = "queued", !.replaces = q, !.confirm = c]
  <2>2. new.replaces = q /\ new.confirm = c
    BY RowTypes DEF JobRecord
  <2>3. job' = [job EXCEPT ![j] = new]
    BY <2>1 DEF Enqueue
  <2> HIDE DEF new
  <2>4. q = r /\ job'[j].confirm = c
    BY <2>2, <2>3, RowTypes
  <2>5. MayReplace(r, c)
    BY <2>1, <2>4 DEF Enqueue, None, Jobs
  <2>6. PICK s \in Stages : s \in doubt[r]
    BY DEF IInv, TypeInv, TypeOK
  <2>7. latest[r][s].status \in {"dispatched", "result_unknown"} /\ latest[r][s].no > 0
    BY <2>6 DEF IInv, Stored, Doubted, Rows, TypeInv, TypeOK, AttemptRecord
  <2>8. s \in Newest(r)
    BY <2>6, <2>7 DEF OInv, Order, OrderRow, Newest
  <2> QED
    BY <2>4, <2>5, <2>7, <2>8 DEF MayReplace, RequiresConfirmation
<1> QED
  BY <1>1, OrderInvariant, PTL DEF Spec, ReplacementConfirmed

-----------------------------------------------------------------------------
(* The jobs implement CallBudget: every step of the author, the executor   *)
(* and the failures is a step of the budget or changes nothing the author  *)
(* was promised.  IInv says why a request is within its allowance and why  *)
(* recovery never revives a cancelled job.                                 *)

LEMMA FateOf ==
    ASSUME NEW j
    PROVE  /\ job[j].status = "succeeded" => Fate(j) = "published"
           /\ job[j].status \in {"cancel_requested", "cancelled"} => Fate(j) = "withdrawn"
           /\ job[j].status \notin {"succeeded", "cancel_requested", "cancelled"} =>
                  Fate(j) = "open"
<1>1. CASE job[j].status = "succeeded"
  BY <1>1, Zenon DEF Fate
<1>2. CASE job[j].status \in {"cancel_requested", "cancelled"}
  BY <1>2 DEF Fate
<1>3. CASE job[j].status \notin {"succeeded", "cancel_requested", "cancelled"}
  BY <1>3 DEF Fate
<1> QED
  BY <1>1, <1>2, <1>3

(* The same lemma for the next state. *)
LEMMA FateNext ==
    ASSUME NEW j
    PROVE  /\ job'[j].status = "succeeded" => Fate(j)' = "published"
           /\ job'[j].status \in {"cancel_requested", "cancelled"} => Fate(j)' = "withdrawn"
           /\ job'[j].status \notin {"succeeded", "cancel_requested", "cancelled"} =>
                  Fate(j)' = "open"
<1>1. CASE job'[j].status = "succeeded"
  BY <1>1, Zenon DEF Fate
<1>2. CASE job'[j].status \in {"cancel_requested", "cancelled"}
  BY <1>2 DEF Fate
<1>3. CASE job'[j].status \notin {"succeeded", "cancel_requested", "cancelled"}
  BY <1>3 DEF Fate
<1> QED
  BY <1>1, <1>2, <1>3

(* A change of status that the author is not promised anything about. *)
SameClass(j) ==
    \/ job'[j].status = job[j].status
    \/ /\ job[j].status \notin {"succeeded", "cancel_requested", "cancelled"}
       /\ job'[j].status \notin {"succeeded", "cancel_requested", "cancelled"}
    \/ /\ job[j].status \in {"cancel_requested", "cancelled"}
       /\ job'[j].status \in {"cancel_requested", "cancelled"}

LEMMA SameFate ==
    ASSUME NEW j, SameClass(j)
    PROVE  Fate(j)' = Fate(j)
<1>1. CASE job'[j].status = job[j].status
  BY <1>1 DEF Fate
<1>2. CASE job'[j].status # job[j].status
  BY <1>2, FateOf, FateNext DEF SameClass
<1> QED
  BY <1>1, <1>2

LEMMA Stutters ==
    ASSUME UNCHANGED <<sends, granted>>, \A j \in Jobs : SameClass(j)
    PROVE  UNCHANGED Budget!vars
<1>1. \A j \in Jobs : Fate(j)' = Fate(j)
  BY SameFate
<1>2. \A j \in Jobs, s \in Stages : Permit(j, s)' = Permit(j, s)
  BY DEF Permit
<1> QED
  BY <1>1, <1>2 DEF Budget!vars

-----------------------------------------------------------------------------
(* The steps that the abstract specification sees. *)

LEMMA CancelMaps ==
    ASSUME IInv, NEW j \in Jobs, Cancel(j)
    PROVE  Budget!Next
<1>1. /\ job[j].status \in {"queued", "running", "recovery_required", "failed"}
      /\ job'[j].status \in {"cancel_requested", "cancelled"}
      /\ \A i \in Jobs \ {j} : job'[i] = job[i]
  BY CancelEffect DEF IInv, Cancel
<1>2. Fate(j) = "open" /\ Fate(j)' = "withdrawn"
  BY <1>1, FateOf, FateNext
<1>3. \A i \in Jobs \ {j} : Fate(i)' = Fate(i)
  BY <1>1 DEF Fate
<1>4. UNCHANGED <<sends, granted>>
  BY DEF Cancel, history
<1>5. [i \in Jobs |-> Fate(i)'] = [[i \in Jobs |-> Fate(i)] EXCEPT ![j] = "withdrawn"]
  BY <1>2, <1>3
<1>6. \A i \in Jobs, s \in Stages : Permit(i, s)' = Permit(i, s)
  BY <1>4 DEF Permit
<1>7. Budget!Withdraw(j)
  BY <1>2, <1>4, <1>5, <1>6 DEF Budget!Withdraw
<1> QED
  BY <1>7 DEF Budget!Next

LEMMA PublishMaps ==
    ASSUME IInv, Publish
    PROVE  Budget!Next
<1>1. w.job \in Jobs /\ job[w.job].status = "running" /\ UNCHANGED <<sends, granted>>
  BY DEF Publish, AssertRunning, IInv, TypeInv, HoldsJob, history
<1>2. PICK j \in Jobs : w.job = j
  BY <1>1
<1>3. job'[j].status = "succeeded" /\ \A i \in Jobs \ {j} : job'[i] = job[i]
  BY <1>2, StatusEffect DEF Publish, IInv
<1>4. Fate(j) = "open" /\ Fate(j)' = "published"
  BY <1>1, <1>2, <1>3, FateOf, FateNext
<1>5. \A i \in Jobs \ {j} : Fate(i)' = Fate(i)
  BY <1>3 DEF Fate
<1>6. [i \in Jobs |-> Fate(i)'] = [[i \in Jobs |-> Fate(i)] EXCEPT ![j] = "published"]
  BY <1>4, <1>5
<1>7. \A i \in Jobs, s \in Stages : Permit(i, s)' = Permit(i, s)
  BY <1>1 DEF Permit
<1>8. Budget!Publish(j)
  BY <1>1, <1>4, <1>6, <1>7 DEF Budget!Publish
<1> QED
  BY <1>8 DEF Budget!Next

LEMMA SendMaps ==
    ASSUME IInv, Send
    PROVE  Budget!Next
<1>1. w.pc \in Begun /\ w.pc \in Unsent /\ w.pc \in Inside
  BY DEF Send, Begun, Inside, Unsent
<1>2. PICK j \in Jobs, s \in Stages : w.job = j /\ w.stage = s
  BY <1>1, OwnStage
<1>3. sends[j][s] <= granted[j][s] /\ sends[j][s] \in Nat /\ granted[j][s] \in Nat
  BY <1>1, <1>2, OwnStage DEF Charged, IInv, TypeInv, TypeOK
<1>4. sends[j][s] < Permit(j, s)
  BY <1>3 DEF Permit
<1>5. Fate(j) # "published"
  BY <1>1, <1>2, FateOf DEF IInv, Control, Owned
<1>6. UNCHANGED <<job, granted>> /\ sends' = [sends EXCEPT ![j][s] = @ + 1]
  BY <1>2 DEF Send, store
<1>7. /\ \A i \in Jobs : Fate(i)' = Fate(i)
      /\ \A i \in Jobs, t \in Stages : Permit(i, t)' = Permit(i, t)
  BY <1>6 DEF Fate, Permit
<1>8. Budget!Call(j, s)
  BY <1>4, <1>5, <1>6, <1>7 DEF Budget!Call
<1> QED
  BY <1>8 DEF Budget!Next

LEMMA ResumeMaps ==
    ASSUME IInv, NEW j \in Jobs, NEW k, NEW x, NEW c, Resume(j, k, x, c)
    PROVE  [Budget!Next]_(Budget!vars)
<1>1. /\ job[j].status \in {"recovery_required", "failed"} /\ job'[j].status = "queued"
      /\ \A i \in Jobs \ {j} : job'[i] = job[i] /\ granted'[i] = granted[i]
      /\ granted'[j] = granted[j] \/ \E b \in BlockedStages(j) : ResumedStage(j, b)
  BY ResumeEffect DEF IInv
<1>2. \A i \in Jobs : SameClass(i)
  BY <1>1 DEF SameClass
<1>3. sends' = sends /\ granted \in [Jobs -> [Stages -> Nat]]
  BY DEF Resume, IInv, TypeInv, TypeOK
<1>4. Fate(j) = "open" /\ \A i \in Jobs : Fate(i)' = Fate(i)
  BY <1>1, <1>2, FateOf, SameFate
<1>5. CASE granted'[j] = granted[j]
  <2>1. \A i \in Jobs, s \in Stages : Permit(i, s)' = Permit(i, s)
    BY <1>1, <1>5 DEF Permit
  <2> QED
    BY <1>3, <1>4, <2>1 DEF Budget!vars
<1>6. ASSUME NEW b \in BlockedStages(j), ResumedStage(j, b)
      PROVE  Budget!Next
  <2>1. b \in Stages
    BY DEF BlockedStages
  <2>2. /\ Permit(j, b)' = Permit(j, b) + 1
        /\ \A i \in Jobs, s \in Stages : <<i, s>> # <<j, b>> => Permit(i, s)' = Permit(i, s)
    BY <1>1, <1>3, <1>6, <2>1 DEF ResumedStage, Permit
  <2>3. [i \in Jobs |-> [s \in Stages |-> Permit(i, s)']]
            = [[i \in Jobs |-> [s \in Stages |-> Permit(i, s)]] EXCEPT ![j][b] = @ + 1]
    BY <2>1, <2>2
  <2>4. Budget!Consent(j, b)
    BY <1>3, <1>4, <2>3 DEF Budget!Consent
  <2> QED
    BY <2>1, <2>4 DEF Budget!Next
<1> QED
  BY <1>1, <1>5, <1>6

-----------------------------------------------------------------------------
(* The steps it does not see. *)

LEMMA RecoverClasses ==
    ASSUME IInv, NEW S \in SUBSET Jobs, \A j \in S : job[j].status \in Active, RecoverAll(S)
    PROVE  \A j \in Jobs : SameClass(j)
<1> SUFFICES ASSUME NEW j \in Jobs PROVE SameClass(j)
  OBVIOUS
<1>1. CASE j \notin S
  BY <1>1 DEF RecoverAll, SameClass
<1>2. CASE j \in S
  <2>1. job'[j] = RecoveredJob(j)
    BY <1>2 DEF RecoverAll
  <2> DEFINE st == IF Verdict(j) \in {"unsupported", "unknown"} THEN "recovery_required"
                   ELSE Verdict(j)
  <2>2. RecoveredJob(j).status = st
    BY DEF RecoveredJob, JobRecord, IInv, TypeInv, TypeOK
  <2>3. CASE job[j].status = "cancel_requested"
    <3>1. st = "cancelled"
      BY <2>3 DEF Verdict
    <3> QED
      BY <2>1, <2>2, <2>3, <3>1 DEF SameClass
  <2>4. CASE job[j].status \in {"queued", "running"}
    <3>1. ~job[j].cancel
      BY <2>4 DEF IInv, Control, CancelMarked
    <3>2. st \in {"recovery_required", "queued", "failed"}
      BY <2>4, <3>1 DEF Verdict
    <3> QED
      BY <2>1, <2>2, <2>4, <3>2 DEF SameClass
  <2> QED
    BY <1>2, <2>3, <2>4 DEF Active
<1> QED
  BY <1>1, <1>2

LEMMA ScanMaps ==
    ASSUME IInv, Scan
    PROVE  UNCHANGED Budget!vars
<1>0. UNCHANGED <<sends, granted>>
  BY DEF Scan, Prepare, Reconcile, Select, Claim, history
<1>1. CASE Prepare
  <2>1. LeftBehind \in SUBSET Jobs /\ \A j \in LeftBehind : job[j].status \in Active
    BY DEF LeftBehind
  <2> QED
    BY <1>0, <1>1, <2>1, RecoverClasses, Stutters DEF Prepare
<1>2. CASE Reconcile
  <2>1. Abandoned \in SUBSET Jobs /\ \A j \in Abandoned : job[j].status \in Active
    BY DEF Abandoned, Active
  <2> QED
    BY <1>0, <1>2, <2>1, RecoverClasses, Stutters DEF Reconcile
<1>3. CASE UNCHANGED job
  BY <1>0, <1>3, Stutters DEF SameClass
<1>4. CASE Claim /\ ~UNCHANGED job
  <2> DEFINE new == [job[w.job] EXCEPT !.status = "running", !.rev = job[w.job].rev + 1,
                                       !.epoch = epoch]
  <2>1. /\ w.job \in Jobs /\ job[w.job] \in JobRecord /\ job[w.job].status = "queued"
        /\ job \in [Jobs -> JobRecord]
    BY <1>4 DEF Claim, HoldsJob, TypeOK, IInv, TypeInv
  <2>2. job' = [job EXCEPT ![w.job] = new]
    BY <1>4 DEF Claim
  <2>3. new.status = "running"
    BY <2>1 DEF JobRecord
  <2> HIDE DEF new
  <2>4. \A i \in Jobs : SameClass(i)
    BY <2>1, <2>2, <2>3 DEF SameClass
  <2> QED
    BY <1>0, <2>4, Stutters
<1> QED
  BY <1>1, <1>2, <1>3, <1>4 DEF Scan, Select, store

LEMMA FailAttemptMaps ==
    ASSUME IInv, FailAttempt
    PROVE  UNCHANGED Budget!vars
<1>1. /\ w.job \in Jobs /\ job \in [Jobs -> JobRecord] /\ job[w.job].status = "running"
      /\ UNCHANGED <<sends, granted>>
  BY DEF FailAttempt, AssertRunning, IInv, TypeInv, TypeOK, HoldsJob
<1> DEFINE st == IF w.outcome = "unknown" THEN "recovery_required" ELSE "failed"
           rs == IF w.outcome = "unknown" THEN "result_unknown" ELSE "stage_failed"
           new == [job[w.job] EXCEPT !.status = st, !.reason = rs]
<1>2. UNCHANGED job \/ job' = [job EXCEPT ![w.job] = new]
  BY DEF FailAttempt
<1>3. new.status \in {"recovery_required", "failed"}
  BY <1>1 DEF JobRecord
<1> HIDE DEF new
<1>4. \A i \in Jobs : SameClass(i)
  BY <1>1, <1>2, <1>3 DEF SameClass
<1> QED
  BY <1>1, <1>4, Stutters

LEMMA HandlerMaps ==
    ASSUME IInv, Handler
    PROVE  UNCHANGED Budget!vars
<1>0. /\ w.job \in Jobs /\ job \in [Jobs -> JobRecord] /\ UNCHANGED <<sends, granted>>
  BY DEF Handler, Settle, FinishCancellation, Pause, IInv, TypeInv, TypeOK, HoldsJob, history
<1>1. CASE UNCHANGED job
  BY <1>0, <1>1, Stutters DEF SameClass
<1>2. CASE /\ job[w.job].status = "cancel_requested"
           /\ job' = [job EXCEPT ![w.job].status = "cancelled"]
  <2>1. \A i \in Jobs : SameClass(i)
    BY <1>0, <1>2, StatusEffect DEF SameClass, IInv
  <2> QED
    BY <1>0, <2>1, Stutters
<1> DEFINE st == IF w.http THEN "recovery_required" ELSE "failed"
           new == [job[w.job] EXCEPT !.status = st, !.reason = "paused"]
<1>3. CASE AssertRunning(w.job, w.rev) /\ job' = [job EXCEPT ![w.job] = new]
  <2>1. new.status \in {"recovery_required", "failed"} /\ job[w.job].status = "running"
    BY <1>0, <1>3 DEF JobRecord, AssertRunning
  <2> HIDE DEF new
  <2>2. \A i \in Jobs : SameClass(i)
    BY <1>0, <1>3, <2>1 DEF SameClass
  <2> QED
    BY <1>0, <2>2, Stutters
<1>4. CASE Settle
  BY <1>1, <1>4 DEF Settle, store
<1>5. CASE FinishCancellation
  BY <1>1, <1>2, <1>5 DEF FinishCancellation
<1>6. CASE Pause
  BY <1>1, <1>3, <1>6 DEF Pause
<1> QED
  BY <1>4, <1>5, <1>6 DEF Handler

LEMMA StageMaps ==
    ASSUME IInv, Stage, ~Send, ~Publish, ~FailAttempt
    PROVE  UNCHANGED Budget!vars
<1>1. UNCHANGED <<sends, granted>>
  BY DEF Stage, RunStage, FinishSkip, Dispatch, OverBudget, ConnectionRefused, NotSent, Retry,
         Reply, FinishAttempt, FailInterrupted, Interrupt, history, store
<1>2. \A i \in Jobs : job'[i].status = job[i].status
  <2>1. CASE UNCHANGED job
    BY <2>1
  <2>2. CASE (RunStage \/ Retry) /\ Begin(w.job, w.stage)
    <3>1. w.pc \in {"stage", "retry"}
      BY <2>2 DEF RunStage, Retry
    <3>2. w.job \in Jobs /\ w.stage \in Stages
      BY <3>1 DEF IInv, TypeInv, TypeOK, HoldsJob, Worker
    <3> QED
      BY <2>2, <3>2, BeginRows DEF SameFences
  <2> QED
    BY <2>1, <2>2 DEF Stage, RunStage, FinishSkip, Dispatch, OverBudget, ConnectionRefused,
       NotSent, Retry, Reply, FinishAttempt, FailInterrupted, Interrupt, store
<1> QED
  BY <1>1, <1>2, Stutters DEF SameClass

LEMMA EnqueueMaps ==
    ASSUME IInv, NEW j \in Jobs, NEW r, NEW c, Enqueue(j, r, c)
    PROVE  UNCHANGED Budget!vars
<1>1. /\ job[j].status = "absent" /\ job'[j].status = "queued"
      /\ \A i \in Jobs \ {j} : job'[i] = job[i]
  BY EnqueueEffect DEF IInv
<1>2. \A i \in Jobs : SameClass(i)
  BY <1>1 DEF SameClass
<1> QED
  BY <1>2, Stutters DEF Enqueue, history

LEMMA RestMaps ==
    ASSUME ArchiveThread \/ RestoreThread \/ Busy \/ Crash \/ Restart \/ UNCHANGED vars
    PROVE  UNCHANGED Budget!vars
<1>1. UNCHANGED <<job, sends, granted>>
  BY DEF ArchiveThread, RestoreThread, Busy, Crash, Restart, vars, store, history
<1> QED
  BY <1>1, Stutters DEF SameClass

LEMMA NextMaps ==
    ASSUME IInv, [Next]_vars
    PROVE  [Budget!Next]_(Budget!vars)
<1>1. CASE Author
  BY <1>1, EnqueueMaps, CancelMaps, ResumeMaps, RestMaps DEF Author
<1>2. CASE Executor
  <2>1. CASE Stage
    BY <2>1, SendMaps, PublishMaps, FailAttemptMaps, StageMaps
  <2> QED
    BY <1>2, <2>1, ScanMaps, HandlerMaps DEF Executor
<1>3. CASE Busy \/ Crash \/ Restart \/ UNCHANGED vars
  BY <1>3, RestMaps
<1> QED
  BY <1>1, <1>2, <1>3 DEF Next

LEMMA InitMaps ==
    ASSUME Init
    PROVE  Budget!Init
<1>1. \A j \in Jobs : Fate(j) = "open"
  BY FateOf DEF Init, NoJob
<1>2. \A j \in Jobs, s \in Stages : Permit(j, s) = 1
  BY DEF Init, Permit
<1> QED
  BY <1>1, <1>2 DEF Init, Budget!Init

(* The durable jobs keep the promise of CallBudget: the executor, resume,  *)
(* cancel, publish and recovery together never exceed the allowance, never *)
(* publish a withdrawn job and never take a publication back.              *)
THEOREM Refinement == Spec => ImplementsCallBudget
<1>1. Init => Budget!Init
  BY InitMaps
<1>2. IInv /\ [Next]_vars => [Budget!Next]_(Budget!vars)
  BY NextMaps
<1> QED
  BY <1>1, <1>2, Invariant, PTL DEF Spec, ImplementsCallBudget, Budget!Spec
=============================================================================
