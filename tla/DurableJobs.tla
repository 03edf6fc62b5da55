------------------------------ MODULE DurableJobs ------------------------------
(***************************************************************************)
(* The durable AI jobs of one project: the rows of the job store           *)
(* (job_store.py), the stage runner that calls the model (job_stages.py),  *)
(* the serial executor (job_executor.py), and the author who submits,      *)
(* cancels, resumes and replaces jobs while the executor works.            *)
(*                                                                         *)
(* Every method of JobStore runs under BEGIN IMMEDIATE and is one step.    *)
(* The executor is one thread; between two of its transactions the author  *)
(* may act or the process may die, so its position is a program counter.   *)
(*                                                                         *)
(* Abstracted: prompts and artifacts (only the status of an attempt        *)
(* matters), the source, provider and index checks of guard() (they may    *)
(* fail at any guard), the wording of errors.  The vector query stage and  *)
(* jobs written by releases without a control row are left out.            *)
(***************************************************************************)
EXTENDS Integers, FiniteSets

CONSTANTS MaxJobs,    \* jobs the author submits
          Last,       \* the stages of a task are 1..Last, in order
          Repair,     \* r \in Repair is the ".repair" checkpoint of stage r - 1
          Skipped,    \* stages this task skips (no issue found by the reviews)
          Keys,       \* idempotency keys the author's pages use to resume
          MaxCrashes, \* bound: process deaths
          Upgrades,   \* whether a restart may run a release with other prompts
          MaxBusy     \* bound: SQLite "database is locked" errors met by the executor

ASSUME ConstantsAssumption ==
    /\ MaxJobs \in Nat /\ Last \in Nat \ {0} /\ MaxCrashes \in Nat /\ MaxBusy \in Nat
    /\ Upgrades \in BOOLEAN
    /\ Repair \subseteq 2..Last /\ Skipped \subseteq 1..Last
    /\ \A r \in Repair : r - 1 \notin Repair \cup Skipped
    /\ Repair \cap Skipped = {}

Jobs   == 1..MaxJobs   \* in the order of created_at
Stages == 1..Last
None   == 0            \* no job, no stage, no epoch

VARIABLES job,         \* ai_jobs joined with ai_job_control
          latest,      \* the attempt with the highest attempt_no of each stage
          receipt,     \* ai_job_action_receipts: the revision each key resumed
          thread,      \* the conversation that owns the jobs
          outdated,    \* jobs whose prompt_version is not this program's
          up, epoch, initialized,  \* the process, its uuid, prepare_vault done
          w,           \* the executor thread
          crashes, busy,           \* counters of the two bounds
          sends,       \* history: requests that reached the provider
          granted,     \* history: resumes that authorised the stage
          doubt,       \* history: stages charged perhaps, outcome unrecorded, unconfirmed
          late         \* history: requests sent after the author cancelled

store   == <<job, latest, receipt, thread>>
process == <<outdated, up, epoch, initialized>>
history == <<sends, granted, doubt, late>>
vars    == <<store, process, w, crashes, busy, history>>

-----------------------------------------------------------------------------
Active      == {"queued", "running", "cancel_requested"}
Replaceable == {"failed", "recovery_required", "cancelled"}
Unfinished  == Active \cup {"recovery_required"}
Statuses    == Active \cup Replaceable \cup {"absent", "succeeded"}

AttemptStatuses == {"none", "prepared", "dispatched", "succeeded", "skipped",
                    "failed", "result_unknown"}
Outcomes        == {"none", "known", "not_sent", "unknown"}
Reasons         == {"none", "result_unknown", "stage_failed", "unsupported_format", "paused"}

NoJob == [status |-> "absent", rev |-> 1, cancel |-> FALSE, epoch |-> None,
          reason |-> "none", authStage |-> None, authNo |-> 0, made |-> 0,
          replaces |-> None, confirm |-> FALSE]

NoAttempt == [no |-> 0, status |-> "none", outcome |-> "none", repairable |-> FALSE, at |-> 0]

Idle == [pc |-> "scan", job |-> None, rev |-> 0, stage |-> 1, no |-> 0, tries |-> 0,
         outcome |-> "none", repairable |-> FALSE, caught |-> FALSE, http |-> FALSE]

JobRecord == [status : Statuses, rev : Nat, cancel : BOOLEAN, epoch : Nat,
              reason : Reasons, authStage : 0..Last, authNo : Nat, made : Nat,
              replaces : 0..MaxJobs, confirm : BOOLEAN]
AttemptRecord == [no : Nat, status : AttemptStatuses, outcome : Outcomes,
                  repairable : BOOLEAN, at : Nat]
PCs == {"scan", "select", "claim", "stage", "skip", "dispatch", "wire", "refused", "retry",
        "reply", "store", "failing", "failHttp", "publish", "raised", "finish", "pause"}
Worker == [pc : PCs, job : 0..MaxJobs, rev : Nat, stage : Stages, no : Nat,
           tries : 0..1, outcome : Outcomes, repairable : BOOLEAN, caught : BOOLEAN,
           http : BOOLEAN]

TypeOK ==
    /\ job \in [Jobs -> JobRecord]
    /\ latest \in [Jobs -> [Stages -> AttemptRecord]]
    /\ receipt \in [Jobs -> [Keys -> Nat]]
    /\ thread \in {"active", "archived"}
    /\ outdated \in SUBSET Jobs
    /\ up \in BOOLEAN /\ epoch \in Nat \ {0} /\ initialized \in BOOLEAN
    /\ w \in Worker
    /\ crashes \in Nat /\ busy \in Nat
    /\ sends \in [Jobs -> [Stages -> Nat]]
    /\ granted \in [Jobs -> [Stages -> Nat]]
    /\ doubt \in [Jobs -> SUBSET Stages]
    /\ late \in [Jobs -> Nat]

Init ==
    /\ job = [j \in Jobs |-> NoJob]
    /\ latest = [j \in Jobs |-> [s \in Stages |-> NoAttempt]]
    /\ receipt = [j \in Jobs |-> [k \in Keys |-> 0]]
    /\ thread = "active" /\ outdated = {}
    /\ up = TRUE /\ epoch = 1 /\ initialized = FALSE
    /\ w = Idle /\ crashes = 0 /\ busy = 0
    /\ sends = [j \in Jobs |-> [s \in Stages |-> 0]]
    /\ granted = [j \in Jobs |-> [s \in Stages |-> 0]]
    /\ doubt = [j \in Jobs |-> {}]
    /\ late = [j \in Jobs |-> 0]

-----------------------------------------------------------------------------
(* What the store reads before it decides. *)

AssertRunningEpochOnly(j, rev) == job[j].epoch = epoch   \* mutant: the epoch alone fences

AssertRunning(j, rev) ==
    /\ job[j].epoch = epoch /\ job[j].rev = rev
    /\ ~job[j].cancel /\ job[j].status = "running"
    /\ j \notin outdated /\ thread = "active"

(* Mutants: a dispatched attempt, or any attempt, is not taken as evidence. *)
RequiresConfirmationClosed(j, a) ==
    job[j].reason \in {"result_unknown", "unsupported_format"} \/ a.status = "result_unknown"
RequiresConfirmationReason(j, a) == job[j].reason \in {"result_unknown", "unsupported_format"}

(* replacement_requires_confirmation(control, attempt) *)
RequiresConfirmation(j, a) ==
    \/ job[j].reason \in {"result_unknown", "unsupported_format"}
    \/ a.status \in {"dispatched", "result_unknown"} \/ a.outcome = "unknown"

(* The attempts resume() and recovery stop at; both read the latest per stage. *)
BlockedStages(j) ==
    {s \in Stages : latest[j][s].status \in {"failed", "result_unknown", "dispatched"}}
NewestBlocked(j) == {s \in BlockedStages(j) :
                        \A t \in BlockedStages(j) : latest[j][t].at <= latest[j][s].at}

Authorized(j, s) == job[j].authStage = s /\ job[j].authNo = latest[j][s].no + 1

UnknownStagesAll(j) ==   \* mutant: a finished attempt is unknown too
    {s \in Stages : latest[j][s].status \notin {"none", "prepared", "failed"} /\ ~Authorized(j, s)}

UnknownStages(j) ==
    {s \in Stages : latest[j][s].status \in {"dispatched", "result_unknown"} /\ ~Authorized(j, s)}
FailedStages(j) ==
    {s \in Stages : /\ latest[j][s].status = "failed" /\ ~Authorized(j, s)
                    /\ ~(/\ latest[j][s].outcome = "known"
                         /\ s + 1 \in Repair /\ latest[j][s + 1].no > 0)}
SafeToRequeue(j) ==
    \A s \in FailedStages(j) : latest[j][s].outcome = "not_sent" /\ latest[j][s].no = 1

VerdictRevived(j) ==     \* mutant: recovery overlooks the cancellation
    IF j \in outdated THEN "unsupported" ELSE IF UnknownStages(j) # {} THEN "unknown"
    ELSE IF SafeToRequeue(j) THEN "queued" ELSE "failed"

Verdict(j) ==
    IF job[j].cancel \/ job[j].status = "cancel_requested" THEN "cancelled"
    ELSE IF j \in outdated THEN "unsupported"
    ELSE IF UnknownStages(j) # {} THEN "unknown"
    ELSE IF SafeToRequeue(j) THEN "queued" ELSE "failed"

RecoveredJobRaw(j) ==    \* mutant: the verdict is stored as the status
    [job[j] EXCEPT !.status = Verdict(j), !.rev = @ + 1, !.epoch = None]

RecoveredJob(j) ==
    [job[j] EXCEPT
        !.status = IF Verdict(j) \in {"unsupported", "unknown"} THEN "recovery_required"
                   ELSE Verdict(j),
        !.reason = IF Verdict(j) = "unsupported" THEN "unsupported_format"
                   ELSE IF Verdict(j) = "unknown" THEN "result_unknown"
                   ELSE IF Verdict(j) = "failed" THEN "stage_failed" ELSE @,
        !.rev = @ + 1, !.epoch = None]

RecoveredLatest(j) ==
    [s \in Stages |-> IF Verdict(j) = "unknown" /\ s \in UnknownStages(j)
                      THEN [latest[j][s] EXCEPT !.status = "result_unknown", !.outcome = "unknown"]
                      ELSE latest[j][s]]

RecoverAll(S) ==
    /\ job' = [j \in Jobs |-> IF j \in S THEN RecoveredJob(j) ELSE job[j]]
    /\ latest' = [j \in Jobs |-> IF j \in S THEN RecoveredLatest(j) ELSE latest[j]]

-----------------------------------------------------------------------------
(* The author, in one or several pages, while the process serves requests. *)

Newest(r) == {s \in Stages : latest[r][s].no > 0 /\ latest[r][s].at = job[r].made}

(* _validate_replacement: the newest attempt stands for all of them. *)
MayReplace(r, confirm) ==
    /\ job[r].status \in Replaceable
    /\ confirm \/ ~(\/ RequiresConfirmation(r, NoAttempt)
                    \/ \E s \in Newest(r) : RequiresConfirmation(r, latest[r][s]))

Enqueue(j, r, confirm) ==
    /\ up /\ job[j].status = "absent" /\ \A i \in Jobs : i < j => job[i].status # "absent"
    /\ thread = "active" /\ (r = None => ~confirm)
    /\ r # None => MayReplace(r, confirm)
    /\ job' = [job EXCEPT ![j] = [job[j] EXCEPT !.status = "queued", !.replaces = r,
                                            !.confirm = confirm]]
    /\ UNCHANGED <<latest, receipt, thread, process, w, crashes, busy, history>>

Cancel(j) ==
    /\ up /\ job[j].status \in {"queued", "running", "recovery_required", "failed"}
    /\ job' = [job EXCEPT ![j] = [job[j] EXCEPT
          !.cancel = TRUE, !.rev = @ + 1,
          !.status = IF @ = "running" THEN "cancel_requested" ELSE "cancelled"]]
    /\ UNCHANGED <<latest, receipt, thread, process, w, crashes, busy, history>>

MayResumeAny(j, k, expected) ==       \* mutant: no compare-and-swap on the revision
    /\ job[j].status \in {"recovery_required", "failed"}
    /\ receipt[j][k] = 0 /\ thread = "active" /\ j \notin outdated
MayResumeArchived(j, k, expected) ==  \* mutant: the conversation is not looked at
    /\ job[j].status \in {"recovery_required", "failed"} /\ job[j].rev = expected
    /\ receipt[j][k] = 0 /\ j \notin outdated

(* A key already used returns the stored response: nothing changes. *)
MayResume(j, k, expected) ==
    /\ job[j].status \in {"recovery_required", "failed"} /\ job[j].rev = expected
    /\ receipt[j][k] = 0 /\ thread = "active" /\ j \notin outdated

Requeued(j) == [job[j] EXCEPT !.status = "queued", !.epoch = None, !.rev = @ + 1,
                             !.reason = "none", !.cancel = FALSE]

Resume(j, k, expected, confirm) ==
    /\ up /\ MayResume(j, k, expected)
    /\ confirm \/ ~(\/ RequiresConfirmation(j, NoAttempt)
                    \/ \E s \in Stages : RequiresConfirmation(j, latest[j][s]))
    /\ \/ /\ BlockedStages(j) = {}
          /\ job' = [job EXCEPT ![j] = Requeued(j)]
          /\ UNCHANGED <<latest, granted>>
       \/ \E b \in NewestBlocked(j) :
          /\ job' = [job EXCEPT ![j] = [Requeued(j) EXCEPT !.authStage = b,
                                                         !.authNo = latest[j][b].no + 1]]
          /\ latest' = IF latest[j][b].status # "dispatched" THEN latest
                       ELSE [latest EXCEPT ![j][b] = [@ EXCEPT !.status = "result_unknown",
                                                               !.outcome = "unknown"]]
          /\ granted' = [granted EXCEPT ![j][b] = @ + 1]
    /\ receipt' = [receipt EXCEPT ![j][k] = expected]
    /\ doubt' = IF confirm THEN [doubt EXCEPT ![j] = {}] ELSE doubt
    /\ UNCHANGED <<thread, process, w, crashes, busy, sends, late>>

(* conversation_threads.update: refused while a job of the conversation is unfinished. *)
ArchiveThread ==
    /\ up /\ thread = "active" /\ \A j \in Jobs : job[j].status \notin Unfinished
    /\ thread' = "archived"
    /\ UNCHANGED <<job, latest, receipt, process, w, crashes, busy, history>>

RestoreThread ==
    /\ up /\ thread = "archived" /\ thread' = "active"
    /\ UNCHANGED <<job, latest, receipt, process, w, crashes, busy, history>>

Author == \/ \E j \in Jobs, r \in 0..MaxJobs, c \in BOOLEAN : Enqueue(j, r, c)
          \/ \E j \in Jobs : Cancel(j)
          \/ \E j \in Jobs, k \in Keys, c \in BOOLEAN :
                 \E expected \in 1..job[j].rev : Resume(j, k, expected, c)
          \/ ArchiveThread \/ RestoreThread

-----------------------------------------------------------------------------
(* The executor thread: run_once, from its scan to its last statement. *)

Goto(pc)         == w' = [w EXCEPT !.pc = pc]
Raise(http)      == w' = [w EXCEPT !.pc = "raised", !.http = http]
Interrupted(out) == w' = [w EXCEPT !.pc = "failHttp", !.outcome = out]
Failing(out, repairable, caught) ==
    w' = [w EXCEPT !.pc = "failing", !.outcome = out, !.caught = caught,
                   !.repairable = repairable /\ w.stage + 1 \in Repair]

(* The stage runner turns to stage s, or to the publication after the last. *)
TurnTo(s) == w' = [Idle EXCEPT !.job = w.job, !.rev = w.rev,
                               !.pc = IF s > Last THEN "publish" ELSE "stage",
                               !.stage = IF s > Last THEN 1 ELSE s]
AfterTwo(s) == s + 2     \* mutant: every stage is thought to have a repair
After(s) == IF s + 1 \in Repair THEN s + 2 ELSE s + 1

(* Mutants: running rows, or cancelled ones, are not looked at. *)
LeftBehindIdle   == {j \in Jobs : job[j].status \in Active \ {"running"} /\ job[j].epoch # epoch}
AbandonedRunning == {j \in Jobs : job[j].status = "running" /\ job[j].epoch = epoch}

(* The rows recover() and reconcile_owned() look at. *)
LeftBehind == {j \in Jobs : job[j].status \in Active /\ job[j].epoch # epoch}
Abandoned  == {j \in Jobs : job[j].status \in {"running", "cancel_requested"} /\ job[j].epoch = epoch}

Prepare ==     \* prepare_vault: recover() once per process
    /\ up /\ w.pc = "scan" /\ ~initialized
    /\ RecoverAll(LeftBehind)
    /\ initialized' = TRUE
    /\ UNCHANGED <<receipt, thread, outdated, up, epoch, w, crashes, busy, history>>

Reconcile ==
    /\ up /\ w.pc = "scan" /\ initialized
    /\ RecoverAll(Abandoned)
    /\ Goto("select")
    /\ UNCHANGED <<receipt, thread, process, crashes, busy, history>>

Queued == {j \in Jobs : job[j].status = "queued"}

Select ==      \* the oldest queued job, read in a transaction of its own
    /\ up /\ w.pc = "select"
    /\ \/ Queued = {} /\ w' = Idle
       \/ \E j \in Queued : /\ \A i \in Queued : j <= i
                            /\ w' = [w EXCEPT !.pc = "claim", !.job = j]
    /\ UNCHANGED <<store, process, crashes, busy, history>>

Claim ==
    /\ up /\ w.pc = "claim"
    /\ LET j == w.job IN
       IF job[j].status = "queued" /\ ~job[j].cancel /\ j \notin outdated
       THEN /\ job' = [job EXCEPT ![j] = [job[j] EXCEPT !.status = "running", !.rev = @ + 1, !.epoch = epoch]]
            /\ w' = [w EXCEPT !.pc = "stage", !.rev = job[j].rev + 1]
       ELSE w' = Idle /\ UNCHANGED job
    /\ UNCHANGED <<latest, receipt, thread, process, crashes, busy, history>>

(* What begin_attempt allows: a first attempt, the prepared one again, the *)
(* single retry of a request that was not sent, or what a resume granted.  *)
CanBegin(j, s) ==
    LET a == latest[j][s] IN
    \/ a.no = 0 \/ a.status = "prepared"
    \/ /\ a.status \in {"failed", "result_unknown"}
       /\ \/ a.outcome = "not_sent" /\ a.no = 1
          \/ Authorized(j, s)

Begin(j, s) ==
    LET a == latest[j][s] IN
    IF a.status = "prepared" THEN UNCHANGED <<job, latest>>
    ELSE /\ latest' = [latest EXCEPT ![j][s] =
              [no |-> a.no + 1, status |-> "prepared", outcome |-> "none",
               repairable |-> FALSE, at |-> job[j].made + 1]]
         /\ job' = IF a.no > 0 /\ Authorized(j, s)
                   THEN [job EXCEPT ![j] = [job[j] EXCEPT !.made = @ + 1, !.authStage = None, !.authNo = 0]]
                   ELSE [job EXCEPT ![j] = [job[j] EXCEPT !.made = @ + 1]]

AttemptNo(j, s) == IF latest[j][s].status = "prepared" THEN latest[j][s].no ELSE latest[j][s].no + 1

Completed(j, s)    == latest[j][s].status \in {"succeeded", "skipped"}
KnownFailure(j, s) == /\ latest[j][s].status = "failed" /\ latest[j][s].outcome = "known"
                      /\ latest[j][s].repairable

RunStage ==
    /\ up /\ w.pc = "stage" /\ AssertRunning(w.job, w.rev)
    /\ LET j == w.job
           s == w.stage
       IN \/ Completed(j, s) /\ TurnTo(After(s)) /\ UNCHANGED <<job, latest>>
          \/ KnownFailure(j, s) /\ TurnTo(s + 1) /\ UNCHANGED <<job, latest>>
          \/ /\ ~Completed(j, s) /\ ~KnownFailure(j, s) /\ CanBegin(j, s)
             /\ Begin(j, s)
             /\ w' = [w EXCEPT !.pc = IF s \in Skipped THEN "skip" ELSE "dispatch",
                               !.no = AttemptNo(j, s)]
          \/ /\ ~Completed(j, s) /\ ~KnownFailure(j, s) /\ ~CanBegin(j, s)
             /\ Raise(TRUE) /\ UNCHANGED <<job, latest>>
    /\ UNCHANGED <<receipt, thread, process, crashes, busy, history>>

(* Every write to an attempt names it by its number, which the thread holds. *)
Record(status, outcome, repairable) ==
    latest' = [latest EXCEPT ![w.job][w.stage] =
                  [@ EXCEPT !.status = status, !.outcome = outcome, !.repairable = repairable]]

FinishSkip ==
    /\ up /\ w.pc = "skip" /\ AssertRunning(w.job, w.rev)
    /\ Record("skipped", "known", FALSE)
    /\ TurnTo(After(w.stage))
    /\ UNCHANGED <<job, receipt, thread, process, crashes, busy, history>>

Dispatch ==
    /\ up /\ w.pc = "dispatch" /\ AssertRunning(w.job, w.rev)
    /\ Record("dispatched", "none", FALSE)
    /\ Goto("wire")
    /\ UNCHANGED <<job, receipt, thread, process, crashes, busy, history>>

(* The spending limit refuses the reservation that precedes a send. *)
OverBudget ==
    /\ up /\ ((w.pc = "dispatch" /\ w.tries = 0) \/ w.pc = "retry")
    /\ Failing("known", FALSE, FALSE)
    /\ UNCHANGED <<store, process, crashes, busy, history>>

Send ==
    /\ up /\ w.pc = "wire"
    /\ sends' = [sends EXCEPT ![w.job][w.stage] = @ + 1]
    /\ doubt' = [doubt EXCEPT ![w.job] = @ \cup {w.stage}]
    /\ late' = IF job[w.job].cancel THEN [late EXCEPT ![w.job] = @ + 1] ELSE late
    /\ Goto("reply")
    /\ UNCHANGED <<store, process, crashes, busy, granted>>

ConnectionRefused ==
    /\ up /\ w.pc = "wire" /\ Goto("refused")
    /\ UNCHANGED <<store, process, crashes, busy, history>>

NotSent ==     \* StageObserver.not_sent, then the second round of the provider's loop
    /\ up /\ w.pc = "refused" /\ AssertRunning(w.job, w.rev)
    /\ Record("failed", "not_sent", FALSE)
    /\ IF w.tries = 0 THEN w' = [w EXCEPT !.pc = "retry", !.tries = 1]
       ELSE Failing("known", FALSE, FALSE)
    /\ UNCHANGED <<job, receipt, thread, process, crashes, busy, history>>

Retry ==
    /\ up /\ w.pc = "retry" /\ AssertRunning(w.job, w.rev)
    /\ IF CanBegin(w.job, w.stage)
       THEN /\ Begin(w.job, w.stage)
            /\ w' = [w EXCEPT !.pc = "dispatch", !.no = AttemptNo(w.job, w.stage)]
       ELSE Interrupted("not_sent") /\ UNCHANGED <<job, latest>>
    /\ UNCHANGED <<receipt, thread, process, crashes, busy, history>>

Reply ==       \* a usable response, a response that is refused, or none in time
    /\ up /\ w.pc = "reply"
    /\ \/ Goto("store")
       \/ \E r \in BOOLEAN : Failing("known", r, r)
       \/ Failing("unknown", FALSE, FALSE)
    /\ UNCHANGED <<store, process, crashes, busy, history>>

FinishAttempt ==
    /\ up /\ w.pc = "store" /\ AssertRunning(w.job, w.rev)
    /\ Record("succeeded", "known", FALSE)
    /\ doubt' = [doubt EXCEPT ![w.job] = @ \ {w.stage}]
    /\ TurnTo(After(w.stage))
    /\ UNCHANGED <<job, receipt, thread, process, crashes, busy, sends, granted, late>>

(* fail_attempt from the handler of exceptions other than HTTPException. *)
FailAttempt ==
    /\ up /\ w.pc = "failing" /\ AssertRunning(w.job, w.rev)
    /\ Record(IF w.outcome = "unknown" THEN "result_unknown" ELSE "failed", w.outcome, w.repairable)
    /\ IF w.outcome = "known" /\ w.repairable
       THEN /\ IF w.caught THEN TurnTo(w.stage + 1) ELSE Raise(FALSE)
            /\ UNCHANGED job
       ELSE /\ Raise(FALSE)
            /\ job' = [job EXCEPT ![w.job] = [job[w.job] EXCEPT
                  !.status = IF w.outcome = "unknown" THEN "recovery_required" ELSE "failed",
                  !.reason = IF w.outcome = "unknown" THEN "result_unknown" ELSE "stage_failed"]]
    /\ doubt' = IF w.outcome = "known" THEN [doubt EXCEPT ![w.job] = @ \ {w.stage}] ELSE doubt
    /\ UNCHANGED <<receipt, thread, process, crashes, busy, sends, granted, late>>

(* fail_attempt from the handler of HTTPException: evidence only, and a job *)
(* that is no longer ours, or an attempt already closed, is left alone.     *)
FailInterrupted ==
    /\ up /\ w.pc = "failHttp" /\ Raise(TRUE)
    /\ IF /\ AssertRunning(w.job, w.rev)
          /\ latest[w.job][w.stage].status \in {"prepared", "dispatched", "failed"}
       THEN Record(IF w.outcome = "unknown" THEN "result_unknown" ELSE "failed", w.outcome, FALSE)
       ELSE UNCHANGED latest
    /\ UNCHANGED <<job, receipt, thread, process, crashes, busy, history>>

Publish ==
    /\ up /\ w.pc = "publish" /\ AssertRunning(w.job, w.rev)
    /\ job' = [job EXCEPT ![w.job].status = "succeeded"]
    /\ w' = Idle
    /\ UNCHANGED <<latest, receipt, thread, process, crashes, busy, history>>

(* Which outcome the handler of HTTPException records, from received and sent. *)
EvidenceUnsent(pc) ==    \* mutant: the flag observer.sent is never set
    IF pc = "store" THEN "known" ELSE "not_sent"

Evidence(pc) == CASE pc = "store"               -> "known"
                  [] pc \in {"reply", "refused"} -> "unknown"
                  [] OTHER                      -> "not_sent"

(* A guard fails: the source, the provider or the index changed, or the    *)
(* author cancelled.  A write that only asserts the fence fails for that.  *)
Interrupt ==
    /\ up
    /\ \/ w.pc \in {"stage", "publish"} /\ Raise(TRUE)
       \/ w.pc \in {"dispatch", "retry", "reply"} /\ Interrupted(Evidence(w.pc))
       \/ /\ w.pc \in {"skip", "failing"} /\ ~AssertRunning(w.job, w.rev)
          /\ Raise(TRUE)
       \/ /\ w.pc \in {"refused", "store"} /\ ~AssertRunning(w.job, w.rev)
          /\ Interrupted(Evidence(w.pc))
    /\ UNCHANGED <<store, process, crashes, busy, history>>

(* run_once's handler: read the status, then cancel or pause. *)
Settle ==
    /\ up /\ w.pc = "raised"
    /\ CASE job[w.job].status = "cancel_requested" -> Goto("finish")
         [] job[w.job].status = "running"          -> Goto("pause")
         [] OTHER                                  -> w' = Idle
    /\ UNCHANGED <<store, process, crashes, busy, history>>

FinishCancellation ==
    /\ up /\ w.pc = "finish" /\ w' = Idle
    /\ job' = IF job[w.job].status = "cancel_requested"
              THEN [job EXCEPT ![w.job].status = "cancelled"] ELSE job
    /\ UNCHANGED <<latest, receipt, thread, process, crashes, busy, history>>

Pause ==
    /\ up /\ w.pc = "pause" /\ w' = Idle
    /\ job' = IF AssertRunning(w.job, w.rev)
              THEN [job EXCEPT ![w.job] = [job[w.job] EXCEPT
                        !.status = IF w.http THEN "recovery_required" ELSE "failed",
                        !.reason = "paused"]]
              ELSE job
    /\ UNCHANGED <<latest, receipt, thread, process, crashes, busy, history>>

(* SQLite stays locked beyond busy_timeout: the transaction does nothing,   *)
(* and where its OperationalError is caught decides what the thread does.   *)
Busy ==
    /\ up /\ busy < MaxBusy /\ busy' = busy + 1
    /\ \/ w.pc \in {"stage", "skip", "failing", "failHttp", "publish"} /\ Raise(FALSE)
       \/ w.pc \in {"dispatch", "retry"} /\ Failing("known", FALSE, FALSE)
       \/ w.pc = "refused" /\ Failing("unknown", FALSE, FALSE)
       \/ w.pc = "store" /\ Failing("known", TRUE, FALSE)
       \/ w.pc \in {"raised", "finish", "pause"} /\ w' = Idle
    /\ UNCHANGED <<store, process, crashes, history>>

(* The process dies, and is started again, perhaps as a newer release. *)
Crash ==
    /\ up /\ crashes < MaxCrashes
    /\ up' = FALSE /\ w' = Idle /\ crashes' = crashes + 1
    /\ UNCHANGED <<store, outdated, epoch, initialized, busy, history>>

Restart ==
    /\ ~up /\ up' = TRUE /\ epoch' = epoch + 1 /\ initialized' = FALSE
    /\ \/ UNCHANGED outdated
       \/ Upgrades /\ outdated' = {j \in Jobs : job[j].status # "absent"}
    /\ UNCHANGED <<store, w, crashes, busy, history>>

Scan     == Prepare \/ Reconcile \/ Select \/ Claim
Stage    == \/ RunStage \/ FinishSkip \/ Dispatch \/ OverBudget \/ Send \/ ConnectionRefused
            \/ NotSent \/ Retry \/ Reply \/ FinishAttempt \/ FailAttempt \/ FailInterrupted
            \/ Publish \/ Interrupt
Handler  == Settle \/ FinishCancellation \/ Pause
Executor == Scan \/ Stage \/ Handler

Next == Author \/ Executor \/ Busy \/ Crash \/ Restart

Spec == Init /\ [][Next]_vars

(* The thread loops while the process lives, every request has a deadline,  *)
(* and the author starts the program again.  The author owes nothing else.  *)
FairSpec == Spec /\ WF_vars(Executor) /\ WF_vars(Restart)

-----------------------------------------------------------------------------
(* Safety *)

Permit(j, s) == 1 + granted[j][s]

(* Every request is covered: one per stage with the submission, one more   *)
(* for each resume that authorised the stage, whatever crashes in between  *)
(* (begin_attempt, resume, _recover_in_session).                           *)
CallsWithinPermits == \A j \in Jobs, s \in Stages : sends[j][s] <= Permit(j, s)

(* The receipts make a repeated resume harmless: no two accepted resumes   *)
(* of a job were made against the same control revision.                   *)
ResumeOnce ==
    \A j \in Jobs : \A k, l \in Keys :
        k # l /\ receipt[j][k] # 0 => receipt[j][k] # receipt[j][l]

(* A published job has a validated checkpoint, a skip or a validated repair *)
(* for every stage: no crash or resume makes the executor pass one by.     *)
PublishedComplete ==
    \A j \in Jobs : job[j].status = "succeeded" =>
        \A s \in Stages \ Repair :
            \/ Completed(j, s)
            \/ KnownFailure(j, s) /\ s + 1 \in Repair /\ Completed(j, s + 1)

(* Once the author has cancelled, at most the request that was already     *)
(* dispatched still reaches the provider.                                  *)
AtMostOneLateRequest == \A j \in Jobs : late[j] <= 1

(* An unfinished job keeps its conversation writable.  Otherwise every     *)
(* assert_running fails, pause included, and the job is claimed for ever.  *)
UnfinishedHasConversation ==
    (\E j \in Jobs : job[j].status \in Unfinished) => thread = "active"

-----------------------------------------------------------------------------
(* What a step may never do *)

(* README, "an unknown result is never sent again by itself": no request   *)
(* goes out for a stage whose last request may have been charged without a *)
(* recorded outcome, unless the author confirmed since.                    *)
NoSilentResend ==
    [][\A j \in Jobs, s \in Stages :
          sends'[j][s] > sends[j][s] => s \notin doubt[j]]_vars

(* A checkpoint is reused, never replaced or repeated, by any later run.   *)
CheckpointsKept ==
    [][\A j \in Jobs, s \in Stages :
          Completed(j, s) => latest'[j][s] = latest[j][s] /\ sends'[j][s] = sends[j][s]]_vars

(* A job that replaces one with an unconfirmed, perhaps charged request is *)
(* only accepted with the author's confirmation.                           *)
ReplacementConfirmed ==
    [][\A j, r \in Jobs :
          (/\ job[j].status = "absent" /\ job'[j].status # "absent"
           /\ job'[j].replaces = r /\ doubt[r] # {}) => job'[j].confirm]_vars

(* The promise to the author, as an abstract specification. *)
Fate(j) == CASE job[j].status = "succeeded" -> "published"
             [] job[j].status \in {"cancel_requested", "cancelled"} -> "withdrawn"
             [] OTHER -> "open"

Budget == INSTANCE CallBudget
    WITH calls <- sends,
         allowance <- [j \in Jobs |-> [s \in Stages |-> Permit(j, s)]],
         fate <- [j \in Jobs |-> Fate(j)]

(* The durable jobs implement CallBudget: permits, publication once, and   *)
(* a cancellation that is never undone by a late answer or a recovery.     *)
ImplementsCallBudget == Budget!Spec

-----------------------------------------------------------------------------
(* Liveness *)

(* A job that is queued, running or being cancelled comes to rest. *)
JobsSettle ==
    \A j \in Jobs : job[j].status \in Active ~> job[j].status \notin Active

(* A cancellation accepted while the job runs is always carried out. *)
CancellationCompletes ==
    \A j \in Jobs : job[j].status = "cancel_requested" ~> job[j].status = "cancelled"
=============================================================================
