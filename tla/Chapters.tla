------------------------------- MODULE Chapters -------------------------------
(***************************************************************************)
(* One chapter: its working text and versions (versions.py), its summaries *)
(* (chapter_summaries.py), the jobs that write them, and the ledger file   *)
(* that lists the valid ones (projections.py).  Two threads work on it:    *)
(* the author's requests and the serial executor.  Each of their           *)
(* transactions is a step; the one that writes the ledger comes after the  *)
(* commit of the one that asked for it, and may fail or never run.         *)
(*                                                                         *)
(* Abstracted: a text is a number, so equal hashes are equal texts; the    *)
(* contract and the facts a summary is checked against are seen only       *)
(* through revisions and the choice "reuse"; the model's stages, their     *)
(* attempts and receipts are those of DurableJobs; purging is left out.    *)
(***************************************************************************)
EXTENDS Integers, Sequences

CONSTANTS Texts,       \* texts the author and the model write
          Blank,       \* the text of a new chapter: nothing but white space
          MaxRevision, \* bound: revisions of the text
          MaxSummaries, MaxEdits, \* bounds: summaries, revisions of a summary
          MaxJobs,     \* bound: summary jobs
          MaxActs      \* bound: the author's requests other than writing, and process deaths

ASSUME ChaptersAssumption ==
    /\ Blank \in Texts
    /\ {MaxRevision, MaxSummaries, MaxEdits, MaxJobs, MaxActs} \subseteq Nat

None == 0   \* no version, no summary, no job

VARIABLES doc,       \* chapter_documents: text, revision, current version
          versions,  \* chapter_versions: their texts
          status,    \* story_nodes.status
          live,      \* the chapter is not in the trash
          sums,      \* chapter_summaries, oldest first
          jobs,      \* ai_jobs of type chapter_summary with their control rows
          draft,     \* a finished writing job: its candidate and its source
          recap,     \* an imported summary of version 1 awaits the author
          outbox,    \* pending_projections holds 'ledger'
          file,      \* what chapter-continuity-ledger.md lists
          w,         \* the executor
          due,       \* a request has committed a change and is about to drain
          opened,    \* the project was maintained since the program started
          acts,      \* counter of the bound
          base,      \* history: the revision the last writer had read
          done       \* history: the text last completed

text    == <<doc, versions, base>>
chapter == <<status, live, done>>
records == <<sums, recap>>
ledger  == <<outbox, file>>
process == <<due, opened, acts>>
vars    == <<text, chapter, records, jobs, draft, ledger, w, process>>

Source     == [text : Texts, rev : Nat \ {0}, version : Nat]
Summary    == [text : Texts, status : {"valid", "stale", "superseded"}, live : BOOLEAN,
               origin : {"ai", "author_edited", "import_confirmed"}, version : Nat, rev : Nat \ {0},
               checked : BOOLEAN]  \* its details hold a content_check
Statuses   == {"queued", "running", "recovery_required", "failed", "cancel_requested",
               "cancelled", "succeeded"}
Reasons    == {"none", "paused", "ledger_pending"}  \* "paused" is every other reason
SummaryJob == [status : Statuses, reason : Reasons, source : Source, summary : Nat,
               owed : BOOLEAN]  \* effects: summary_id, ledger_pending
Draft      == [text : Texts, source : Source, accepted : Nat]
PCs        == {"idle", "begin", "check", "publish", "project", "drain", "settle", "stop", "finish"}
Idle       == [j |-> None, pc |-> "idle", reuse |-> FALSE, why |-> "none"]

Init ==
    /\ doc \in [text : Texts \ {Blank}, rev : {2}, version : {None, 1}]
    /\ \/ doc.version = None /\ versions = <<>> /\ status = "drafting" /\ recap = FALSE  \* typed
       \/ doc.version = 1 /\ versions = <<doc.text>> /\ status = "completed" /\ recap = TRUE
    /\ live = TRUE /\ sums = <<>> /\ jobs = <<>> /\ draft = {} /\ outbox = FALSE /\ file = {}
    /\ w = Idle /\ due = FALSE /\ opened = TRUE /\ acts = 0
    /\ base = doc.rev /\ done = doc.text

-----------------------------------------------------------------------------
(* current_summary, and what ledger_text lists.                             *)

Present   == {i \in DOMAIN sums : sums[i].live}
Latest    == IF Present = {} THEN None ELSE CHOOSE i \in Present : \A j \in Present : j <= i
LatestFits(t) == Latest # None => sums[Latest].status = "valid" /\ sums[Latest].text = t
Summarized(t) == Latest # None /\ LatestFits(t)
Valid     == {i \in Present : sums[i].status = "valid"}
Listed    == IF live THEN {<<i, sums[i].rev>> : i \in Valid} ELSE {}
Current(s) == live /\ s = doc   \* assert_source

(* A request whose transaction queued the ledger drains it after its commit. *)
Queue     == outbox' = TRUE /\ due' = TRUE
Request   == UNCHANGED <<file, w, opened>>
Act       == acts < MaxActs /\ acts' = acts + 1

(* invalidate_summary, when the text becomes t *)
Unaffected(t) == UNCHANGED <<status, sums, outbox, due>>   \* mutant: the summary is left valid
Invalidate(t) ==
    IF t = doc.text THEN UNCHANGED <<status, sums, outbox, due>>
    ELSE /\ sums' = [i \in DOMAIN sums |->
                        IF sums[i].status = "valid" THEN [sums[i] EXCEPT !.status = "stale"]
                        ELSE sums[i]]
         /\ status' = "drafting" /\ Queue

(* r is the revision the writer's page, or its candidate, was made from *)
AnyRevision(r) == live /\ doc.rev < MaxRevision   \* mutant
Writable(r)    == live /\ doc.rev < MaxRevision /\ r = doc.rev
Written(t, v, r) ==
    /\ doc' = [text |-> t, rev |-> doc.rev + 1, version |-> v]
    /\ base' = r
NewVersion(t, r) ==
    /\ versions' = Append(versions, t) /\ Written(t, Len(versions) + 1, r)

-----------------------------------------------------------------------------
(* The author's writing: update_document, create_version, restore_version   *)
(* and CreationPipeline.accept.                                             *)

Save(r, t) ==
    /\ opened /\ Writable(r) /\ Written(t, doc.version, r) /\ Invalidate(t)
    /\ UNCHANGED <<versions, live, done, recap, jobs, draft, acts>> /\ Request
SaveVersion(r, t) ==
    /\ opened /\ Writable(r) /\ NewVersion(t, r) /\ Invalidate(t)
    /\ UNCHANGED <<live, done, recap, jobs, draft, acts>> /\ Request
RestoreVersion(r, v) == SaveVersion(r, versions[v])

(* A writing job, started on the present text, has succeeded. *)
FinishDraft(t) ==
    /\ live /\ Act /\ draft = {} /\ draft' = {[text |-> t, source |-> doc, accepted |-> None]}
    /\ UNCHANGED <<text, chapter, records, jobs, ledger, w, due, opened>>
AcceptDraft(d) ==
    /\ opened /\ d.accepted = None /\ Writable(d.source.rev)
    /\ NewVersion(d.text, d.source.rev) /\ Invalidate(d.text)
    /\ draft' = {[d EXCEPT !.accepted = doc'.version]}
    /\ UNCHANGED <<live, done, recap, jobs, acts>> /\ Request

(* enqueue of a summary job, with prepare_completion and _summary_blocker *)
Blocking(j) == j.summary = None /\ j.status \notin {"succeeded", "cancelled"}
Complete(r) ==
    /\ live /\ r = doc.rev /\ doc.text # Blank /\ Len(jobs) < MaxJobs
    /\ \A j \in DOMAIN jobs : ~Blocking(jobs[j])
    /\ IF doc.version # None /\ versions[doc.version] = doc.text THEN UNCHANGED text
       ELSE Writable(r) /\ NewVersion(doc.text, r)
    /\ status' = "summary_pending"
    /\ jobs' = Append(jobs, [status |-> "queued", reason |-> "none", source |-> doc',
                             summary |-> None, owed |-> FALSE])
    /\ UNCHANGED <<live, done, records, draft, ledger, w, process>>

-----------------------------------------------------------------------------
(* The author and the summaries.                                            *)

Touched == /\ opened /\ Act /\ Queue
           /\ UNCHANGED <<text, done, jobs, draft>> /\ Request

(* edit_summary; edit_item pins *)
Revise(i, origin) ==
    /\ sums[i].rev < MaxEdits
    /\ sums' = [sums EXCEPT ![i].rev = @ + 1, ![i].origin = origin]
    /\ UNCHANGED <<status, live, recap>> /\ Touched
EditSummary == Latest \in Valid /\ Revise(Latest, "author_edited")
PinSummary(i) == i \in Present /\ Revise(i, sums[i].origin)

TrashSummary(i) ==
    /\ i \in Present /\ sums' = [sums EXCEPT ![i].live = FALSE]
    /\ status' = IF i \in Valid /\ live THEN "summary_pending" ELSE status
    /\ UNCHANGED <<live, recap>> /\ Touched
RestoreSummary(i) ==
    /\ i \notin Present
    /\ sums' = [sums EXCEPT ![i].live = TRUE,
                            ![i].status = IF Valid # {} THEN "superseded"
                                          ELSE IF sums[i].text # doc.text THEN "stale" ELSE @]
    /\ UNCHANGED <<status, live, recap>> /\ Touched

(* _promote_chapter_summary, the import's summary of the first version *)
ConfirmRecap ==
    /\ recap /\ live /\ Len(sums) < MaxSummaries
    /\ \A i \in Valid : sums[i].version # 1
    /\ sums' = Append(sums, [text |-> versions[1], status |-> "valid", live |-> TRUE,
                             origin |-> "import_confirmed", version |-> 1, rev |-> 1,
                             checked |-> FALSE])
    /\ recap' = FALSE /\ UNCHANGED <<status, live>> /\ Touched

TrashChapter   == live /\ live' = FALSE /\ UNCHANGED <<status, records>> /\ Touched
RestoreChapter == ~live /\ live' = TRUE /\ UNCHANGED <<status, records>> /\ Touched

(* repair_ledger *)
Repair ==
    /\ live /\ Act /\ Queue /\ UNCHANGED <<text, chapter, records, jobs, draft>> /\ Request

(* JobStore.cancel and resume; the conflicts that stopped a check may be settled *)
Cancel(j) ==
    /\ Act /\ jobs[j].status \in {"queued", "running", "recovery_required", "failed"}
    /\ jobs' = [jobs EXCEPT ![j].status = IF @ = "running" THEN "cancel_requested" ELSE "cancelled"]
    /\ UNCHANGED <<text, chapter, records, draft, ledger, w, due, opened>>
Resume(j) ==
    /\ Act /\ jobs[j].status \in {"recovery_required", "failed"}
    /\ jobs[j].summary # None \/ Current(jobs[j].source)
    /\ jobs' = [jobs EXCEPT ![j].status = "queued", ![j].reason = "none"]
    /\ UNCHANGED <<text, chapter, records, draft, ledger, w, due, opened>>

-----------------------------------------------------------------------------
(* drain_ledger: one transaction around the replacement of the file.        *)

Settled(j) == [j EXCEPT !.owed = FALSE,
                        !.status = IF @ = "recovery_required" /\ j.reason = "ledger_pending"
                                   THEN "succeeded" ELSE @]
(* finish_ledger; the rows of a chapter in the trash are not seen *)
FinishLedger ==
    /\ status' = IF live /\ Summarized(doc.text) THEN "completed" ELSE status
    /\ done' = IF status' = "completed" /\ status # "completed" THEN doc.text ELSE done
    /\ jobs' = [j \in DOMAIN jobs |-> IF live /\ jobs[j].owed THEN Settled(jobs[j]) ELSE jobs[j]]
Drain ==
    /\ \/ outbox /\ file' = Listed /\ FinishLedger /\ outbox' = FALSE
       \/ outbox /\ file' \in {file, Listed} /\ UNCHANGED <<status, done, jobs, outbox>>
       \/ ~outbox /\ UNCHANGED <<status, done, jobs, outbox, file>>
    /\ UNCHANGED <<text, live, records, draft, opened, acts>>

RequestDrain == due /\ due' = FALSE /\ Drain /\ UNCHANGED w

-----------------------------------------------------------------------------
(* The executor: generate_summary.                                          *)

At(pc)  == w.pc = pc
Go(pc)  == w' = [w EXCEPT !.pc = pc]
Stop(r) == w' = [w EXCEPT !.pc = "stop", !.why = r]
Job     == jobs[w.j]
Quietly == UNCHANGED <<text, chapter, recap, draft, ledger, process>>

Claim(j) ==
    /\ At("idle") /\ jobs[j].status = "queued"
    /\ w' = [Idle EXCEPT !.j = j, !.pc = "begin"]
    /\ jobs' = [jobs EXCEPT ![j].status = "running"] /\ UNCHANGED sums /\ Quietly

(* assert_running fails: finish_cancellation *)
Cancelled ==
    /\ w.j # None /\ w.pc # "drain" /\ Job.status = "cancel_requested"
    /\ jobs' = [jobs EXCEPT ![w.j].status = "cancelled"] /\ w' = Idle
    /\ UNCHANGED sums /\ Quietly

Running(pc) == At(pc) /\ Job.status = "running"
Begin ==
    /\ Running("begin")
    /\ IF Job.summary # None THEN Go("project")
       ELSE IF ~Current(Job.source) THEN Stop("paused")
       ELSE \/ /\ Summarized(Job.source.text)  \* and was checked against the same context
               /\ sums[Latest].checked
               /\ w' = [w EXCEPT !.pc = "publish", !.reuse = TRUE]
            \/ Go("check")
    /\ UNCHANGED <<jobs, sums>> /\ Quietly

(* the model's stages, then persist_check *)
Check ==
    /\ Running("check")
    /\ IF ~Current(Job.source) THEN Stop("paused")
       ELSE Go("publish") \/ Stop("paused")  \* a severe conflict, no answer
    /\ UNCHANGED <<jobs, sums>> /\ Quietly

Superseded(n) ==
    [i \in DOMAIN sums |-> IF sums[i].live THEN [sums[i] EXCEPT !.status = "superseded"] ELSE sums[i]]
Generated(v) == [text |-> Job.source.text, status |-> "valid", live |-> TRUE, origin |-> "ai",
                 version |-> v, rev |-> 1, checked |-> TRUE]
Forgets(i) == jobs' = [jobs EXCEPT ![w.j].summary = i]  \* mutant: the ledger is not owed
Effects(i) == jobs' = [jobs EXCEPT ![w.j].summary = i, ![w.j].owed = TRUE]
SameCheck(t) == w.reuse /\ Summarized(t)   \* mutant: only a reused summary is kept
Keeps(t)     == Summarized(t)
Publish ==
    /\ Running("publish")
    /\ IF ~Current(Job.source) \/ (w.reuse /\ ~Keeps(Job.source.text))
       THEN Stop("paused") /\ UNCHANGED <<jobs, sums>>
       ELSE /\ Go("project")
            /\ IF Keeps(Job.source.text) THEN Effects(Latest) /\ UNCHANGED sums
               ELSE /\ Len(sums) < MaxSummaries /\ Effects(Len(sums) + 1)
                    /\ sums' = Append(Superseded(Latest), Generated(Job.source.version))
    /\ Quietly

Project ==
    /\ Running("project")
    /\ IF live THEN Go("drain") /\ outbox' = TRUE
       ELSE Stop("paused") /\ UNCHANGED outbox
    /\ UNCHANGED <<text, chapter, records, jobs, draft, file, process>>
ExecutorDrain == At("drain") /\ Go("settle") /\ Drain /\ UNCHANGED due
Settle ==
    /\ At("settle") /\ IF Job.owed THEN Stop("ledger_pending") ELSE Go("finish")
    /\ UNCHANGED <<jobs, sums>> /\ Quietly
Pause ==
    /\ Running("stop") /\ w' = Idle
    /\ jobs' = [jobs EXCEPT ![w.j].status = "recovery_required", ![w.j].reason = w.why]
    /\ UNCHANGED sums /\ Quietly
Succeed ==
    /\ Running("finish") /\ w' = Idle /\ jobs' = [jobs EXCEPT ![w.j].status = "succeeded"]
    /\ UNCHANGED sums /\ Quietly

-----------------------------------------------------------------------------
(* The process dies and starts again: recover requeues the job, unless a    *)
(* request to the model was on its way; nothing drains what was committed   *)
(* until the project is opened (_maintain) or a later change is drained.    *)

Recovered(j) ==
    CASE j.status = "cancel_requested" -> {[j EXCEPT !.status = "cancelled"]}
      [] j.status = "running" -> {[j EXCEPT !.status = "queued"]} \cup
            IF At("check") THEN {[j EXCEPT !.status = "recovery_required",
                                           !.reason = "paused"]} ELSE {}
      [] OTHER -> {j}
Crash ==
    /\ Act
    /\ jobs' \in {js \in [DOMAIN jobs -> UNION {Recovered(jobs[j]) : j \in DOMAIN jobs}] :
                    \A j \in DOMAIN jobs : js[j] \in Recovered(jobs[j])}
    /\ w' = Idle /\ due' = FALSE /\ opened' = FALSE
    /\ UNCHANGED <<text, chapter, records, draft, ledger>>
Open ==
    /\ ~opened /\ opened' = TRUE /\ Queue
    /\ UNCHANGED <<text, chapter, records, jobs, draft, file, w, acts>>

Author ==
    \/ \E r \in 1..doc.rev : \/ \E t \in Texts : Save(r, t) \/ SaveVersion(r, t)
                             \/ \E v \in DOMAIN versions : RestoreVersion(r, v)
                             \/ Complete(r)
    \/ \E t \in Texts \ {Blank} : FinishDraft(t)
    \/ \E d \in draft : AcceptDraft(d)
    \/ EditSummary \/ ConfirmRecap \/ TrashChapter \/ RestoreChapter \/ Repair
    \/ \E i \in DOMAIN sums : PinSummary(i) \/ TrashSummary(i) \/ RestoreSummary(i)
    \/ \E j \in DOMAIN jobs : Cancel(j) \/ Resume(j)
Executor ==
    \/ \E j \in DOMAIN jobs : Claim(j)
    \/ Cancelled \/ Begin \/ Check \/ Publish \/ Project \/ ExecutorDrain \/ Settle
    \/ Pause \/ Succeed

Next == Author \/ Executor \/ RequestDrain \/ Crash \/ Open
Spec == Init /\ [][Next]_vars

-----------------------------------------------------------------------------
TypeOK ==
    /\ doc \in Source /\ versions \in Seq(Texts) /\ doc.version \in 0..Len(versions)
    /\ status \in {"planned", "drafting", "summary_pending", "completed"} /\ live \in BOOLEAN
    /\ sums \in Seq(Summary) /\ \A i \in DOMAIN sums : sums[i].version \in DOMAIN versions
    /\ jobs \in Seq(SummaryJob) /\ \A j \in DOMAIN jobs : jobs[j].summary \in 0..Len(sums)
    /\ draft \subseteq Draft /\ {recap, outbox, due, opened} \subseteq BOOLEAN
    /\ file \subseteq (DOMAIN sums) \X (Nat \ {0}) /\ acts \in 0..MaxActs
    /\ w \in [j : 0..Len(jobs), pc : PCs, reuse : BOOLEAN, why : Reasons]
    /\ base \in 1..doc.rev /\ done \in Texts

(* Whatever is interrupted between the commit of a change and the ledger    *)
(* file, the file is what the tables say, or the tables remember that it is *)
(* not: in the outbox, or in the effects of the job that owes it.           *)
LedgerFollows == outbox \/ file = Listed \/ \E j \in DOMAIN jobs : jobs[j].owed

(* A chapter shown as completed has the very text that was completed: no    *)
(* way of replacing the text (saving, a new version, an old one, an         *)
(* accepted candidate) leaves it so.                                        *)
CompletedStands == status = "completed" => doc.text = done

(* A text is only replaced by a writer who had read it: not by a page or a  *)
(* candidate made from an earlier one.                                      *)
NoLostText == [][doc'.text # doc.text => base' = doc.rev]_vars

(* A job that ends while the author edits the summary of the same text does *)
(* not put its own in the place of the author's.                            *)
EditsKept ==
    [][\A i \in Valid : i = Latest /\ sums[i].origin = "author_edited" /\ sums'[i].status # "valid"
         => sums[i].text # doc.text \/ doc'.text # doc.text]_vars

=============================================================================
