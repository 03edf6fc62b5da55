---------------------------- MODULE AutomaticBackups ----------------------------
(***************************************************************************)
(* The automatic backups of one project (automatic_backups.py): the        *)
(* catalogue and its intents in one database, the archives beside it, and  *)
(* the threads that meet at run_lock: the scheduler, a page that asks for  *)
(* a backup, a page that opens the report and finishes what was left.      *)
(*                                                                         *)
(* A transaction or one call on a file is a step.  Between two of them the *)
(* process may die, a call may fail, the author may edit the text or the   *)
(* policy, and an archive may be moved or damaged from outside.            *)
(*                                                                         *)
(* Abstracted: the text (a number), hashes and sizes (a file is whole or   *)
(* bad), the clock (a due tick may come at any time).  A process dies, the *)
(* machine does not: directory fsync is not modelled.                      *)
(***************************************************************************)
EXTENDS Naturals, FiniteSets, FiniteSetsExt

CONSTANTS Threads,       \* threads that may enter run() or report()
          Scheduler,     \* the one that calls tick()
          Free,          \* the value of run_lock when nobody holds it
          Retentions,    \* what the author may choose to keep
          Default,       \* the retention before any choice
          MaxBackups,    \* bound: backups ever catalogued
          MaxEdits,      \* bound: changes of the text
          MaxRequests,   \* bound: requests of the pages
          MaxRevisions,  \* bound: changes of the policy
          MaxLosses,     \* bound: archives moved or damaged from outside
          MaxCrashes,    \* bound: process deaths
          MaxFaults      \* bound: calls that fail

ASSUME BackupsAssumption ==
    /\ Scheduler \in Threads /\ Free \notin Threads
    /\ Retentions \subseteq Nat \ {0} /\ Default \in Retentions
    /\ MaxEdits \in Nat /\ MaxRequests \in Nat /\ MaxRevisions \in Nat
    /\ MaxLosses \in Nat /\ MaxCrashes \in Nat /\ MaxFaults \in Nat
    /\ MaxBackups \in Nat /\ MaxBackups > MaxEdits + MaxLosses

Backups == 1..MaxBackups     \* in the order of their rowid
Texts   == 0..MaxEdits
NoBackup == 0

VARIABLES text,       \* the project, as an export would see it
          policy,     \* backup_policy: revision, enabled, retention, last_error
          catalog,    \* automatic_backup
          pending,    \* automatic_backup_pending
          content,    \* what each archive holds, by its fingerprint in the row
          file, tmp,  \* the .zip and the .tmp of each backup
          lock,       \* run_lock
          thread,     \* where each thread is
          bounds,     \* counters of the bounds
          lost, lostSince   \* history: archives lost ever, and since the last check

rows  == <<policy, catalog, pending, content>>
disk  == <<file, tmp>>
loss  == <<lost, lostSince>>
vars  == <<text, rows, disk, lock, thread, bounds, loss>>

Quiet == [pc |-> "idle", run |-> FALSE, id |-> NoBackup, seen |-> 0, own |-> FALSE,
          adopted |-> FALSE, then |-> "leave", victims |-> {}]

Init ==
    /\ text = 0
    /\ policy = [revision |-> 0, enabled |-> FALSE, retention |-> Default, error |-> FALSE]
    /\ catalog = {} /\ pending = {} /\ content = [b \in Backups |-> 0]
    /\ file = [b \in Backups |-> "none"] /\ tmp = [b \in Backups |-> "none"]
    /\ lock = Free /\ thread = [t \in Threads |-> Quiet]
    /\ bounds = [requests |-> 0, losses |-> 0, crashes |-> 0, faults |-> 0]
    /\ lost = {} /\ lostSince = {}

-----------------------------------------------------------------------------
At(t, pc)   == thread[t].pc = pc
Goto(t, pc) == thread' = [thread EXCEPT ![t].pc = pc]
Newest      == Max(catalog \cup {NoBackup})
Fresh       == Max(catalog \cup pending \cup {NoBackup}) + 1

(* run() gives up when the lock is taken; report() then only reads. *)
LockFreeAlways == TRUE       \* mutant: the lock is not looked at
LockFree       == lock = Free

Enter(t, run) ==
    /\ At(t, "idle") /\ LockFree
    /\ lock' = t
    /\ thread' = [thread EXCEPT ![t] = [Quiet EXCEPT !.pc = "recover", !.run = run]]
    /\ UNCHANGED <<text, rows, disk, loss>>

Tick == policy.enabled /\ Enter(Scheduler, TRUE) /\ UNCHANGED bounds

Request(t) ==                \* POST .../run, or GET of the report
    /\ t # Scheduler /\ bounds.requests < MaxRequests
    /\ bounds' = [bounds EXCEPT !.requests = @ + 1]
    /\ \E run \in BOOLEAN : Enter(t, run)

-----------------------------------------------------------------------------
(* _recover_pending *)

Leftover == pending

Recover(t) ==
    /\ At(t, "recover")
    /\ IF Leftover = {}
       THEN thread' = [thread EXCEPT
               ![t].then = IF thread[t].run THEN "export" ELSE "leave",
               ![t].pc = IF thread[t].adopted THEN "prune"
                         ELSE IF thread[t].run THEN "export" ELSE "leave"]
       ELSE thread' = [thread EXCEPT
               ![t].id = Min(Leftover),
               ![t].pc = CASE file[Min(Leftover)] = "none"  -> "discard"
                           [] file[Min(Leftover)] = "whole" -> "tidy"
                           [] OTHER                         -> "error"]
    /\ lostSince' = IF Leftover # {} /\ file[Min(Leftover)] = "whole" THEN {} ELSE lostSince
    /\ UNCHANGED <<text, rows, disk, lock, bounds, lost>>

Tidy(t) ==
    /\ At(t, "tidy") /\ Goto(t, "adopt")
    /\ tmp' = [tmp EXCEPT ![thread[t].id] = "none"]
    /\ UNCHANGED <<text, rows, file, lock, bounds, loss>>

(* _finish_pending: the row, the intent and the error change together. *)
Publish(b) ==
    /\ catalog' = catalog \cup {b} /\ pending' = pending \ {b}
    /\ policy' = [policy EXCEPT !.error = FALSE]

Adopt(t) ==
    /\ At(t, "adopt") /\ Publish(thread[t].id)
    /\ thread' = [thread EXCEPT ![t].pc = "recover", ![t].adopted = TRUE]
    /\ UNCHANGED <<text, content, disk, lock, bounds, loss>>

Discard(t) ==
    /\ At(t, "discard") /\ Goto(t, "forget")
    /\ tmp' = [tmp EXCEPT ![thread[t].id] = "none"]
    /\ UNCHANGED <<text, rows, file, lock, bounds, loss>>

Forget(t) ==
    /\ At(t, "forget") /\ Goto(t, "recover")
    /\ pending' = pending \ {thread[t].id}
    /\ UNCHANGED <<text, policy, catalog, content, disk, lock, bounds, loss>>

-----------------------------------------------------------------------------
(* run, after the recovery *)

Export(t) ==
    /\ At(t, "export")
    /\ thread' = [thread EXCEPT ![t].pc = "compare", ![t].seen = text]
    /\ UNCHANGED <<text, rows, disk, lock, bounds, loss>>

(* The newest archive is read back: a row alone does not count. *)
SavedRow(seen) == Newest # NoBackup /\ content[Newest] = seen     \* mutant: the row counts
Saved(seen) == Newest # NoBackup /\ file[Newest] = "whole" /\ content[Newest] = seen

Compare(t) ==
    /\ At(t, "compare")
    /\ IF Saved(thread[t].seen)
       THEN thread' = [thread EXCEPT ![t].pc = "prune", ![t].then = "check"]
       ELSE thread' = [thread EXCEPT ![t].pc = "intent", ![t].id = Fresh, ![t].own = TRUE]
    /\ lostSince' = {}
    /\ UNCHANGED <<text, rows, disk, lock, bounds, lost>>

Intent(t) ==
    /\ At(t, "intent") /\ Goto(t, "open")
    /\ pending' = pending \cup {thread[t].id}
    /\ content' = [content EXCEPT ![thread[t].id] = thread[t].seen]
    /\ lost' = lost \ {thread[t].id}
    /\ UNCHANGED <<text, policy, catalog, disk, lock, bounds, lostSince>>

Open(t) ==
    /\ At(t, "open") /\ Goto(t, "write")
    /\ tmp' = [tmp EXCEPT ![thread[t].id] = "part"]
    /\ UNCHANGED <<text, rows, file, lock, bounds, loss>>

AfterWriteFinish == "finish"     \* mutant: catalogued before it is renamed
AfterWrite       == "replace"
Write(t) ==
    /\ At(t, "write") /\ Goto(t, AfterWrite)
    /\ tmp' = [tmp EXCEPT ![thread[t].id] = "whole"]
    /\ UNCHANGED <<text, rows, file, lock, bounds, loss>>

Replace(t) ==
    /\ At(t, "replace") /\ Goto(t, "finish")
    /\ file' = [file EXCEPT ![thread[t].id] = tmp[thread[t].id]]
    /\ tmp' = [tmp EXCEPT ![thread[t].id] = "none"]
    /\ UNCHANGED <<text, rows, lock, bounds, loss>>

Finish(t) ==
    /\ At(t, "finish") /\ Publish(thread[t].id)
    /\ thread' = [thread EXCEPT ![t].pc = "prune", ![t].then = "check"]
    /\ UNCHANGED <<text, content, disk, lock, bounds, loss>>

-----------------------------------------------------------------------------
(* _prune: the rows beyond the retention, then file and row one by one. *)

BeyondNewest == {b \in catalog : Cardinality({c \in catalog : c > b}) + 1 >= policy.retention}
                             \* mutant: one row too many
Beyond == {b \in catalog : Cardinality({c \in catalog : c > b}) >= policy.retention}

Prune(t) ==
    /\ At(t, "prune")
    /\ thread' = [thread EXCEPT ![t].victims = Beyond, ![t].pc = "unlink"]
    /\ UNCHANGED <<text, rows, disk, lock, bounds, loss>>

Unlink(t) ==
    /\ At(t, "unlink")
    /\ LET victims == thread[t].victims IN
       IF victims = {} THEN Goto(t, thread[t].then) /\ UNCHANGED file
       ELSE /\ file' = [file EXCEPT ![Max(victims)] = "none"]
            /\ Goto(t, "drop")
    /\ UNCHANGED <<text, rows, tmp, lock, bounds, loss>>

Drop(t) ==
    /\ At(t, "drop")
    /\ LET b == Max(thread[t].victims) IN
       /\ catalog' = catalog \ {b}
       /\ thread' = [thread EXCEPT ![t].victims = @ \ {b}, ![t].pc = "unlink"]
    /\ UNCHANGED <<text, policy, pending, content, disk, lock, bounds, loss>>

Check(t) ==                  \* last_checked_at, and the error is cleared
    /\ At(t, "check") /\ Goto(t, "leave")
    /\ policy' = [policy EXCEPT !.error = FALSE]
    /\ UNCHANGED <<text, catalog, pending, content, disk, lock, bounds, loss>>

-----------------------------------------------------------------------------
(* The exits of run() and report() *)

RecordError(t) ==
    /\ At(t, "error") /\ Goto(t, "leave")
    /\ policy' = [policy EXCEPT !.error = TRUE]
    /\ UNCHANGED <<text, catalog, pending, content, disk, lock, bounds, loss>>

OwnTemporary(t) == thread[t].own /\ tmp[thread[t].id] # "none"
Leave(t) ==                  \* the temporary of this run is removed, the lock released
    /\ At(t, "leave")
    /\ lock' = Free /\ thread' = [thread EXCEPT ![t] = Quiet]
    /\ tmp' = IF OwnTemporary(t) THEN [tmp EXCEPT ![thread[t].id] = "none"] ELSE tmp
    /\ UNCHANGED <<text, rows, file, bounds, loss>>

(* A transaction or a file operation fails and changes nothing. *)
Fail(t) ==
    /\ bounds.faults < MaxFaults /\ bounds' = [bounds EXCEPT !.faults = @ + 1]
    /\ \/ thread[t].pc \notin {"idle", "error", "leave"} /\ Goto(t, "error") /\ UNCHANGED lock
       \/ At(t, "error") /\ Goto(t, "leave") /\ UNCHANGED lock
       \/ At(t, "leave") /\ OwnTemporary(t)
          /\ lock' = Free /\ thread' = [thread EXCEPT ![t] = Quiet]
    /\ UNCHANGED <<text, rows, disk, loss>>

Step(t) == \/ Recover(t) \/ Tidy(t) \/ Adopt(t) \/ Discard(t) \/ Forget(t)
           \/ Export(t) \/ Compare(t) \/ Intent(t) \/ Open(t) \/ Write(t) \/ Replace(t)
           \/ Finish(t) \/ Prune(t) \/ Unlink(t) \/ Drop(t) \/ Check(t)
           \/ RecordError(t) \/ Leave(t)

-----------------------------------------------------------------------------
(* The author, the world outside, and the process *)

Edit ==
    /\ text < MaxEdits /\ text' = text + 1
    /\ UNCHANGED <<rows, disk, lock, thread, bounds, loss>>

Configure(expected) ==
    /\ expected = policy.revision /\ policy.revision < MaxRevisions
    /\ \E enabled \in BOOLEAN, retention \in Retentions :
          policy' = [policy EXCEPT !.revision = @ + 1, !.enabled = enabled,
                                   !.retention = retention]
    /\ UNCHANGED <<text, catalog, pending, content, disk, lock, thread, bounds, loss>>

Lose(b) ==
    /\ bounds.losses < MaxLosses /\ bounds' = [bounds EXCEPT !.losses = @ + 1]
    /\ file[b] = "whole"
    /\ \E state \in {"none", "bad"} : file' = [file EXCEPT ![b] = state]
    /\ lost' = lost \cup {b} /\ lostSince' = lostSince \cup {b}
    /\ UNCHANGED <<text, rows, tmp, lock, thread>>

Crash ==
    /\ bounds.crashes < MaxCrashes /\ bounds' = [bounds EXCEPT !.crashes = @ + 1]
    /\ lock' = Free /\ thread' = [t \in Threads |-> Quiet]
    /\ UNCHANGED <<text, rows, disk, loss>>

Next == \/ \E t \in Threads : Step(t) \/ Fail(t) \/ Request(t)
        \/ Tick \/ Edit \/ Crash
        \/ \E expected \in 0..policy.revision : Configure(expected)
        \/ \E b \in Backups : Lose(b)

Spec == Init /\ [][Next]_vars

(* A thread that has the lock goes on; the scheduler's loop ticks for ever  *)
(* while the policy is enabled.  Requests, edits and losses owe nothing.    *)
FairSpec == Spec /\ \A t \in Threads : WF_vars(Step(t)) /\ WF_vars(Tick)

-----------------------------------------------------------------------------
(* Properties *)

(* No archive and no temporary file is ever left that neither a catalogue  *)
(* row nor an intent names: the next run can find and remove it, whatever  *)
(* failed or died in between (run, _recover_pending, _prune).              *)
NoLitter ==
    \A b \in Backups : /\ file[b] # "none" => b \in catalog \cup pending
                       /\ tmp[b] # "none" => b \in pending

(* The newest catalogue row can be restored, unless its archive was lost   *)
(* from outside (_finish_pending only after the rename, retention >= 1).   *)
NewestRestorable ==
    Newest # NoBackup => file[Newest] = "whole" \/ Newest \in lost

(* A run that is about to report success has the text it exported in the   *)
(* newest archive, "unchanged" included: an archive lost before the run    *)
(* looked is replaced even if the text is the same.                        *)
SuccessProtects ==
    \A t \in Threads :
        At(t, "check") => /\ Newest # NoBackup /\ content[Newest] = thread[t].seen
                          /\ file[Newest] = "whole" \/ Newest \in lostSince

(* Pruning removes an intact archive only when the newest one was found or *)
(* made intact under the same lock: the last good backup is never pruned.  *)
LastGoodKept ==
    [][\A b \in Backups :
          file[b] = "whole" /\ file'[b] = "none" /\ bounds'.losses = bounds.losses
          => b # Newest /\ (file[Newest] = "whole" \/ Newest \in lostSince)]_vars

(* While the schedule is on, the current text gets into an intact archive, *)
(* whatever crashed, failed or was lost, unless an archive damaged before  *)
(* it was catalogued stops recovery and waits for the author.              *)
EventuallySaved ==
    TRUE ~> \/ Newest # NoBackup /\ file[Newest] = "whole" /\ content[Newest] = text
            \/ ~policy.enabled
            \/ \E b \in pending : file[b] = "bad"
=============================================================================
