---------------------------- MODULE ImportAnalysis ----------------------------
(***************************************************************************)
(* The background analysis of one imported book (import_analysis.py): the  *)
(* units of a batch, the executor's turn for them (job_executor.py), the   *)
(* candidates they write, and the author, who pauses, continues and        *)
(* retries the batch from a page and edits the candidates meanwhile.       *)
(*                                                                         *)
(* A batch has chunks of a source document, the maps of one chapter, the   *)
(* tree of merges over the maps, and one consolidation for each group of   *)
(* candidates with the same identity; merges and consolidations are seeded *)
(* by the publication that completes their inputs.  A candidate is a fact  *)
(* with the key it has now: 0 at its birth, another after each edit.       *)
(*                                                                         *)
(* Abstracted: the text of chunks, prompts and results (a result is the    *)
(* set of facts found, or fails validation), offsets and hashes (the       *)
(* document is live or deleted, the chapter completed or drafting), the    *)
(* counters shown to the author.  Units written by older releases are left *)
(* out.                                                                    *)
(***************************************************************************)
EXTENDS Integers, FiniteSets

CONSTANTS Chunks,     \* source_memory units, numbered
          Maps,       \* summary_map units of the chapter are 1..Maps
          Facts,      \* what the model can find
          Quotes,     \* the facts each chunk quotes; chunks overlap
          Groups,     \* analysis identities
          GroupOf,    \* the identity of a fact as the model writes it
          Providers,  \* model settings the author may have
          MaxEdits,   \* bound: edits of each candidate
          MaxActs,    \* bound: what the author does, looking at the page aside
          MaxFaults   \* bound: process deaths and "database is locked" errors

ASSUME AnalysisAssumption ==
    /\ Chunks \subseteq Nat \ {0} /\ IsFiniteSet(Chunks)
    /\ Maps \in Nat /\ Groups \subseteq Nat \ {0}
    /\ Quotes \in [Chunks -> SUBSET Facts] /\ GroupOf \in [Facts -> Groups]
    /\ Providers \subseteq Nat \ {0} /\ Providers # {}
    /\ MaxEdits \in Nat /\ MaxActs \in Nat /\ MaxFaults \in Nat

None == 0
NoUnit == <<"none", 0, 0>>

VARIABLES batch,     \* import_batches: status and provider identity
          unit,      \* import_analysis_units
          manifest,  \* result of a seeded consolidation: the candidates it stands for
          cand,      \* memory_candidates
          recaps,    \* chapter_summary candidates written
          document, chapter, settings,  \* what the author may change meanwhile
          page,      \* the status page: is its revision current, what it shows as failed
          w,         \* the executor: position, fence, identity it read
          up, epoch, \* the process
          faults, acts,          \* counters of the bounds
          calls,     \* history: requests sent for each unit
          consents   \* history: retries of each unit that the page showed as failed

author  == <<document, chapter, settings, acts>>
history == <<calls, consents>>
vars    == <<batch, unit, manifest, cand, recaps, page, w, up, epoch, faults,
             author, history>>

-----------------------------------------------------------------------------
(* Units are triples: kind, level of a merge, number.                      *)

Width[l \in Nat] == IF l = 0 THEN (Maps + 1) \div 2 ELSE (Width[l - 1] + 1) \div 2
Top == CHOOSE l \in 0..Maps : Width[l] <= 1 /\ \A k \in 0..(l - 1) : Width[k] > 1

Sources        == {<<"source_memory", 0, i>> : i \in Chunks}
SummaryMaps    == {<<"summary_map", 0, i>> : i \in 1..Maps}
Level(l)       == {<<"summary_merge", l, i>> : i \in 1..Width[l]}
Merges         == UNION {Level(l) : l \in 0..Top}
Consolidations == {<<"consolidation", 0, g>> : g \in Groups}
Units          == Sources \cup SummaryMaps \cup Merges \cup Consolidations

(* Two of the level below, in the order of their keys. *)
Inputs(u) ==
    {v \in (IF u[2] = 0 THEN SummaryMaps ELSE Level(u[2] - 1)) : v[3] \in {2 * u[3] - 1, 2 * u[3]}}
Final(u) == u[2] = Top

Free == [pc |-> "idle", unit |-> NoUnit, provider |-> None, identity |-> None]

Seed == [status |-> "queued", attempts |-> 0, epoch |-> None]

Init ==  \* the batch as commit_draft leaves it
    /\ batch = [status |-> "imported", provider |-> None]
    /\ unit = [u \in Units |-> IF u \in Sources \cup SummaryMaps THEN Seed
                               ELSE [Seed EXCEPT !.status = "absent"]]
    /\ manifest = [g \in Groups |-> {}]
    /\ cand = [f \in Facts |-> [status |-> "none", group |-> GroupOf[f], key |-> 0]]
    /\ recaps = 0
    /\ document = "live" /\ chapter = "completed" /\ settings = CHOOSE p \in Providers : TRUE
    /\ page = [fresh |-> TRUE, failed |-> {}]
    /\ w = Free /\ up = TRUE /\ epoch = 1
    /\ faults = 0 /\ acts = 0
    /\ calls = [u \in Units |-> 0] /\ consents = [u \in Units |-> 0]

-----------------------------------------------------------------------------
(* Candidates and consolidations. *)

Written    == {f \in Facts : cand[f].status # "none"}
(* _consolidation_digest *)
DigestOf(c, g) == {<<f, c[f].key>> : f \in {x \in Facts : c[x].status # "none" /\ c[x].group = g}}

(* _insert_candidate: an equal key is skipped; the id is a hash of the key  *)
(* at birth, so a candidate that was edited since collides with its twin.   *)
Collides(f) == cand[f].status # "none" /\ cand[f].key # 0
Inserted(found) ==
    [f \in Facts |-> IF f \in found /\ cand[f].status = "none"
                     THEN [cand[f] EXCEPT !.status = "pending"] ELSE cand[f]]

(* _validate_consolidation_unit *)
ConsolidationValid(g) ==
    /\ document = "live"
    /\ DigestOf(cand, g) # {} /\ manifest[g] = DigestOf(cand, g)

MarkedConflict    == {"pending"}
(* _publish_consolidation: more than one candidate is a duplicate or a conflict. *)
Consolidated(g) ==
    LET group == {f \in Written : cand[f].group = g} IN
    [f \in Facts |-> IF f \in group /\ Cardinality(group) > 1 /\ cand[f].status \in MarkedConflict
                     THEN [cand[f] EXCEPT !.status = "conflict"] ELSE cand[f]]

-----------------------------------------------------------------------------
(* Seeding and the status of the batch, over the units and candidates that *)
(* a publication leaves.                                                   *)

Done(un, us) == \A u \in us : un[u].status = "succeeded"

(* _seed_consolidations *)
SourcesRead(un) == Done(un, Sources)
Grouped(un, c) ==
    IF SourcesRead(un) THEN {c[f].group : f \in {x \in Facts : c[x].status # "none"}} ELSE {}
SeedValid(un, c) == Grouped(un, c) = {} \/ document = "live"
SeedGroups(un, c) ==
    [u \in Units |-> IF u \in Consolidations /\ u[3] \in Grouped(un, c) /\ un[u].status = "absent"
                     THEN Seed ELSE un[u]]
Manifests(un, c) ==
    [g \in Groups |->
        LET u == <<"consolidation", 0, g>> IN
        IF /\ g \in Grouped(un, c)
           /\ un[u].status \in {"absent", "queued"} /\ un[u].attempts = 0
        THEN DigestOf(c, g) ELSE manifest[g]]

(* _seed_summary_merges: the first level that is not there yet. *)
Present(un, l) == \A u \in Level(l) : un[u].status # "absent"
Complete(un, l) == IF l < 0 THEN Done(un, SummaryMaps) ELSE Present(un, l) /\ Done(un, Level(l))
SeedMerges(un) ==
    [u \in Units |-> IF /\ u \in Merges /\ un[u].status = "absent"
                        /\ Complete(un, u[2] - 1)
                     THEN Seed ELSE un[u]]

Some(un, s) == \E u \in Units : un[u].status = s
AnyFailed(un)  == Some(un, "failed")
NoneFailed(un) == FALSE     \* mutant: failures are not looked at
HasFailed(un)  == AnyFailed(un)
PartOrFailed(un) == IF Some(un, "succeeded") \/ Some(un, "queued") \/ Some(un, "running")
                    THEN "partially_analyzed" ELSE "analysis_failed"
Progress(un)   == PartOrFailed(un)

(* _recompute_after_publication *)
AfterPublication(un) ==
    IF batch.status = "paused" THEN "paused"
    ELSE IF HasFailed(un) THEN Progress(un)
    ELSE IF Some(un, "queued") \/ Some(un, "running") THEN "analyzing"
    ELSE "analyzed"

(* fail_import_unit, recover_import_units, recover_current_epoch_orphans *)
AfterFailure(un) == IF batch.status = "paused" THEN "paused" ELSE Progress(un)

Failed(us) == [u \in Units |-> IF u \in us THEN [unit[u] EXCEPT !.status = "failed"] ELSE unit[u]]
Stale      == page' = [page EXCEPT !.fresh = FALSE]   \* batch.revision += 1

-----------------------------------------------------------------------------
(* The executor. *)

Running == {u \in Units : unit[u].status = "running"}
OfThisEpoch == {u \in Running : unit[u].epoch = epoch}
NoUnits     == {}           \* mutant: nothing is recovered before a restart
Orphans     == OfThisEpoch
Turn(pc) == up /\ w.pc = pc
Move(pc) == w' = [w EXCEPT !.pc = pc]

RecoverOrphans ==    \* recover_current_epoch_orphans, at the start of a tick
    /\ Turn("idle") /\ Orphans # {}
    /\ unit' = Failed(Orphans)
    /\ batch' = [batch EXCEPT !.status = AfterFailure(unit')]
    /\ Stale
    /\ UNCHANGED <<manifest, cand, recaps, w, up, epoch, faults, author, history>>

(* peek_import_unit orders by created_at; units seeded together are in the *)
(* order of their ids, which are hashes.                                   *)
Queued     == {u \in Units : unit[u].status = "queued"}
Seeded     == Merges \cup Consolidations
Older(u, v) == u \notin Seeded /\ v \in Seeded

QueuedOnly(u)      == unit[u].status = "queued"
Claimable(u)       == QueuedOnly(u)
Claim(u) ==          \* peek_import_unit and claim_import_unit
    /\ Turn("idle") /\ Orphans = {}
    /\ Claimable(u) /\ batch.status = "analyzing"
    /\ ~\E v \in Queued : Older(v, u)
    /\ unit' = [unit EXCEPT ![u] = [status |-> "running", attempts |-> @.attempts + 1,
                                    epoch |-> epoch]]
    /\ w' = [pc |-> "claimed", unit |-> u, provider |-> batch.provider, identity |-> None]
    /\ Stale
    /\ UNCHANGED <<batch, manifest, cand, recaps, up, epoch, faults, author, history>>

ReadIdentity ==      \* run_once reads the batch again
    /\ Turn("claimed")
    /\ w' = [w EXCEPT !.pc = "snapshot", !.identity = batch.provider]
    /\ UNCHANGED <<batch, unit, manifest, cand, recaps, page, up, epoch, faults,
                   author, history>>

FenceMatches ==
    /\ unit[w.unit].status = "running" /\ unit[w.unit].epoch = epoch
    /\ batch.provider = w.provider /\ batch.status \in {"analyzing", "paused"}

SourceIntact    == document = "live"       \* _source_snapshot
ChapterIntact   == chapter = "completed"   \* _chapter_snapshot, the same version and text
InputsIntact(u) == ChapterIntact /\ Done(unit, Inputs(u))    \* _validate_merge_inputs
Intact(u) ==
    CASE u \in Sources        -> SourceIntact
      [] u \in SummaryMaps    -> ChapterIntact
      [] u \in Merges         -> InputsIntact(u)
      [] u \in Consolidations -> ConsolidationValid(u[3])

Snapshot ==          \* _snapshot_for_dispatch
    /\ Turn("snapshot")
    /\ IF ~FenceMatches THEN w' = Free
       ELSE IF ~Intact(w.unit) THEN Move("fail")
       ELSE IF w.unit \in Consolidations THEN Move("publish")
       ELSE Move("call")
    /\ UNCHANGED <<batch, unit, manifest, cand, recaps, page, up, epoch, faults,
                   author, history>>

Accepted == w.identity # None /\ settings = w.identity
Refused ==           \* validate_import_provider raises
    /\ Turn("call") /\ ~Accepted
    /\ Move("fail")
    /\ UNCHANGED <<batch, unit, manifest, cand, recaps, page, up, epoch, faults,
                   author, history>>
Call ==              \* generate_structured: a result, or any error
    /\ Turn("call") /\ Accepted
    /\ calls' = [calls EXCEPT ![w.unit] = @ + 1]
    /\ Move("publish") \/ Move("fail")
    /\ UNCHANGED <<batch, unit, manifest, cand, recaps, page, up, epoch, faults,
                   author, consents>>

Recapped(u) == IF u \in Merges /\ Final(u) THEN 1 ELSE 0    \* _publish_final_summary
Found(u) == IF u \in Sources THEN SUBSET Quotes[u[3]] ELSE {{}}
(* What a publication writes, once the fence matches and the data are valid. *)
Published(u, found) ==
    LET c  == IF u \in Consolidations THEN Consolidated(u[3]) ELSE Inserted(found)
        un == [unit EXCEPT ![u].status = "succeeded"]
        all == SeedGroups(SeedMerges(un), c)
    IN  /\ SeedValid(un, c)
        /\ cand' = c
        /\ recaps' = recaps + Recapped(u)
        /\ manifest' = Manifests(un, c)
        /\ unit' = all
        /\ batch' = [batch EXCEPT !.status = AfterPublication(all)]
Publish ==           \* _publish
    /\ Turn("publish") /\ FenceMatches /\ Intact(w.unit)
    /\ \E found \in Found(w.unit) :
          /\ \A f \in found : ~Collides(f)
          /\ Published(w.unit, found)
    /\ w' = Free /\ Stale
    /\ UNCHANGED <<up, epoch, faults, author, history>>

(* Why the data of a matching fence are refused: they fail validation, the *)
(* sources changed, a candidate collides, a group has lost its document.   *)
Unpublishable(u) ==
    \/ u \notin Consolidations \/ ~Intact(u)
    \/ ~SeedValid([unit EXCEPT ![u].status = "succeeded"], cand)
PublishRaises ==     \* without its fence, a publication leaves the unit as it is
    /\ Turn("publish")
    /\ IF FenceMatches THEN Unpublishable(w.unit) /\ Move("fail") ELSE w' = Free
    /\ UNCHANGED <<batch, unit, manifest, cand, recaps, page, up, epoch, faults,
                   author, history>>

Fail ==              \* fail_import_unit
    /\ Turn("fail") /\ w' = Free
    /\ IF FenceMatches
       THEN /\ unit' = Failed({w.unit})
            /\ batch' = [batch EXCEPT !.status = AfterFailure(unit')]
            /\ Stale
       ELSE UNCHANGED <<unit, batch, page>>
    /\ UNCHANGED <<manifest, cand, recaps, up, epoch, faults, author, history>>

Locked ==            \* an OperationalError: a publication then fails, a failure is dropped
    /\ up /\ faults < MaxFaults /\ w.pc \in {"publish", "fail"}
    /\ faults' = faults + 1
    /\ IF w.pc = "publish" THEN Move("fail") ELSE w' = Free
    /\ UNCHANGED <<batch, unit, manifest, cand, recaps, page, up, epoch, author, history>>

Crash ==
    /\ up /\ faults < MaxFaults
    /\ faults' = faults + 1 /\ up' = FALSE /\ w' = Free
    /\ UNCHANGED <<batch, unit, manifest, cand, recaps, page, epoch, author, history>>

Restart ==           \* a new epoch; prepare_vault runs recover_import_units
    /\ ~up /\ up' = TRUE /\ epoch' = epoch + 1
    /\ unit' = Failed(Running)
    /\ IF Running = {} THEN UNCHANGED <<batch, page>>
       ELSE batch' = [batch EXCEPT !.status = AfterFailure(unit')] /\ Stale
    /\ UNCHANGED <<manifest, cand, recaps, w, faults, author, history>>

-----------------------------------------------------------------------------
(* The author. *)

Look ==              \* analysis_status
    /\ up /\ ~page.fresh
    /\ page' = [fresh |-> TRUE, failed |-> {u \in Units : unit[u].status = "failed"}]
    /\ UNCHANGED <<batch, unit, manifest, cand, recaps, w, up, epoch, faults, author, history>>

FreshOnly     == page.fresh
AnyRevision   == TRUE      \* mutant: the revision of the page is not compared
Current       == FreshOnly
Acts     == up /\ acts < MaxActs /\ acts' = acts + 1
Control  == Acts /\ Current /\ UNCHANGED <<manifest, cand, recaps, w, up, epoch, faults,
                                           document, chapter, settings, calls>>

Continue ==          \* continue_analysis
    /\ Control
    /\ batch.status \in {"imported", "paused", "partially_analyzed", "analysis_failed"}
    /\ batch.provider \in {None, settings}
    /\ batch' = [status |-> "analyzing", provider |-> settings]
    /\ Stale
    /\ UNCHANGED <<unit, consents>>

Pause ==             \* pause_analysis
    /\ Control
    /\ batch.status \in {"analyzing", "partially_analyzed", "analysis_failed", "imported"}
    /\ batch' = [batch EXCEPT !.status = "paused"]
    /\ Stale
    /\ UNCHANGED <<unit, consents>>

Retry(adopt) ==      \* retry_analysis
    LET failed == {u \in Units : unit[u].status = "failed"} IN
    /\ Control
    /\ (adopt => Running = {} /\ failed # {})
    /\ batch.status \in {"paused", "partially_analyzed", "analysis_failed", "analyzing"}
    /\ (batch.status = "analyzing" => failed # {})   \* else it returns the batch
    /\ unit' = [u \in Units |-> IF u \in failed
                                THEN [unit[u] EXCEPT !.status = "queued", !.epoch = None]
                                ELSE unit[u]]
    /\ batch' = [status |-> "analyzing", provider |-> IF adopt THEN settings ELSE batch.provider]
    /\ consents' = [u \in Units |-> consents[u] + IF u \in failed \cap page.failed THEN 1 ELSE 0]
    /\ Stale

Edit(f, g) ==        \* edit_import_candidate: another key, perhaps another identity
    /\ Acts
    /\ cand[f].status \in {"pending", "conflict"} /\ cand[f].key < MaxEdits
    /\ document = "live"
    /\ cand' = [cand EXCEPT ![f] = [status |-> "pending", group |-> g, key |-> @.key + 1]]
    /\ UNCHANGED <<batch, unit, manifest, recaps, page, w, up, epoch, faults,
                   document, chapter, settings, history>>

Decide(f, s) ==      \* reject_import_candidate, confirm_import_candidate
    /\ Acts
    /\ cand[f].status \in {"pending", "conflict"}
    /\ (s # "rejected" => document = "live")
    /\ cand' = [cand EXCEPT ![f].status = s]
    /\ UNCHANGED <<batch, unit, manifest, recaps, page, w, up, epoch, faults,
                   document, chapter, settings, history>>

Elsewhere ==         \* the document, the chapter or the model settings change
    /\ Acts
    /\ \/ /\ document' = IF document = "live" THEN "deleted" ELSE "live"
          /\ UNCHANGED <<chapter, settings>>
       \/ /\ chapter' = IF chapter = "completed" THEN "drafting" ELSE "completed"
          /\ UNCHANGED <<document, settings>>
       \/ settings' \in Providers \ {settings} /\ UNCHANGED <<document, chapter>>
    /\ UNCHANGED <<batch, unit, manifest, cand, recaps, page, w, up, epoch, faults, history>>

Executor == \/ RecoverOrphans \/ ReadIdentity \/ Snapshot \/ Refused \/ Call
            \/ Publish \/ PublishRaises \/ Fail
            \/ \E u \in Units : Claim(u)
Requests == Pause \/ Continue \/ \E adopt \in BOOLEAN : Retry(adopt)
Author == \/ Requests \/ Look \/ Elsewhere
          \/ \E f \in Facts : \/ \E g \in Groups : Edit(f, g)
                              \/ \E s \in {"confirmed", "rejected", "conflict"} : Decide(f, s)

Next == Executor \/ Locked \/ Crash \/ Restart \/ Author
Spec == Init /\ [][Next]_vars
(* The executor's loop goes on while the process lives, and the author     *)
(* starts the program again; nobody has to act on a page.                  *)
FairSpec == Spec /\ WF_vars(Executor) /\ WF_vars(Restart)

-----------------------------------------------------------------------------
(* A unit is sent once, and again only after the author asked for a retry  *)
(* on a page that showed it as failed: a crash, a lost fence or a locked   *)
(* database never resend, and a stale page cannot (claim_import_unit,      *)
(* recover_*, retry_analysis).                                             *)
CallsByConsent == \A u \in Units : calls[u] <= 1 + consents[u]

(* A batch that says it is analyzed has every unit done, every candidate   *)
(* the author left as it was compared with the others of its identity, and *)
(* exactly one summary of the chapter (_recompute_after_publication,       *)
(* _seed_summary_merges, _seed_consolidations).                            *)
AnalyzedIsComplete ==
    batch.status = "analyzed" =>
        /\ \A u \in Units \ Consolidations : unit[u].status = "succeeded"
        /\ \A u \in Consolidations : unit[u].status \in {"absent", "succeeded"}
        /\ \A f \in Written : cand[f].key = 0 => <<f, 0>> \in manifest[cand[f].group]
        /\ (Maps > 0 => recaps = 1)

(* A unit that is running, or queued in a batch under analysis, is finished *)
(* or stopped in the end, whatever fence, crash or lock error it meets      *)
(* (run_once, recover_current_epoch_orphans).                               *)
Due(u) == \/ unit[u].status = "running"
          \/ unit[u].status = "queued" /\ batch.status = "analyzing"
UnitsSettle ==
    \A u \in Units :
        Due(u) ~> ~Due(u)

(* A batch under analysis with every unit done does not stay under         *)
(* analysis (README.md:97, the analysis can be paused and continued).      *)
AllDone == \A u \in Units : unit[u].status \in {"absent", "succeeded"}
AnalysisRests == (batch.status = "analyzing" /\ AllDone) ~> batch.status # "analyzing"
=============================================================================
