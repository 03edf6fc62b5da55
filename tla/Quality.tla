-------------------------------- MODULE Quality --------------------------------
(***************************************************************************)
(* Quality runs: writing, reviewing and rewriting some chapters in the     *)
(* order of the story (quality_generation.py), the author's decisions      *)
(* about them (quality.py) and what the book's overview says of a chapter  *)
(* (quality_coverage.py).                                                  *)
(*                                                                         *)
(* A run replays its stages from the first one whenever it is resumed: the *)
(* answers it has are reused, and what it has shown must not shrink        *)
(* meanwhile.  Every transaction is a step; a stage and the guard before   *)
(* a publication, which is repeated inside it, are one.  The attempts of a *)
(* stage are those of DurableJobs.                                         *)
(*                                                                         *)
(* Abstracted: a text is a number; a review is good (it reaches the        *)
(* target, preserves the story and no forbidden revelation is found) or    *)
(* not; everything else a chapter is written from (contracts, facts, the   *)
(* order, summaries of other chapters) is one revision, `material'.  A     *)
(* request from a page that is not up to date is refused and left out.     *)
(***************************************************************************)
EXTENDS Integers, Sequences, FiniteSets

CONSTANTS Chapters,    \* the chapters, in the order of the story
          Texts,       \* texts of a chapter
          Blank,       \* the one that is nothing but white space
          MaxRuns,     \* bound: runs
          MaxActs      \* bound: the author's other requests, and process deaths

ASSUME QualityAssumption ==
    /\ Chapters \subseteq Nat /\ IsFiniteSet(Chapters) /\ Blank \in Texts
    /\ {MaxRuns, MaxActs} \subseteq Nat

None == 0   \* no version

VARIABLES doc,       \* chapter_documents: text, revision, current version
          material,  \* revision of everything else that is captured
          ours,      \* the model settings are those of the runs
          runs,      \* ai_jobs of type quality_workflow with their control rows
          writing,   \* the chapter's writing job: none, open (ACTIVE or recovery_required), failed
          w,         \* the executor inside generate_quality
          acts       \* counter of the bound

vars == <<doc, material, ours, runs, writing, w, acts>>
book == <<doc, material, ours>>

Open == {"queued", "running", "cancel_requested", "recovery_required"}
NoAnswer == [version |-> None, text |-> Blank, whole |-> TRUE]
Idle == [run |-> 0, pc |-> "idle", result |-> <<>>, good |-> FALSE, why |-> "none"]

(* A version is named by the revision it was created at. *)
Init ==
    /\ doc \in [Chapters -> {[text |-> t, rev |-> 1, version |-> v] :
                                t \in Texts, v \in {None, 1}}]
    /\ \A c \in Chapters : doc[c].version = None <=> doc[c].text = Blank
    /\ material = 1 /\ ours = TRUE /\ runs = <<>> /\ acts = 0
    /\ writing = [c \in Chapters |-> "none"] /\ w = Idle

Act == acts < MaxActs /\ acts' = acts + 1

-----------------------------------------------------------------------------
(* What a request looks at before it begins or adopts anything.             *)

Chapter(r, k)   == runs[r].source[k].chapter
Size(r)         == Len(runs[r].source)
Involved(r)     == {Chapter(r, k) : k \in 1..Size(r)}
OpenRuns        == {r \in DOMAIN runs : runs[r].status \in Open}

(* assert_quality_available for the project, and for one chapter *)
NoOtherRun(r)   == OpenRuns \subseteq {r}
NotUnderWay(c, r) ==   \* mutant: a run that is paused is not open
    \A s \in OpenRuns \ {r} : runs[s].status = "recovery_required" \/ c \notin Involved(s)
NoRunOf(c, r)   == \A s \in OpenRuns \ {r} : c \notin Involved(s)
Free(c)         == writing[c] # "open"   \* busy

Same(c, s)      == doc[c] = [text |-> s.text, rev |-> s.rev, version |-> s.version]
ContextStands(r) == material = runs[r].material
SourceStands(r) ==   \* assert_quality_source
    /\ ContextStands(r)
    /\ \A k \in 1..Size(r) : Same(Chapter(r, k), runs[r].source[k])

-----------------------------------------------------------------------------
(* generate_quality.  `result' is rebuilt from nothing by every replay; the *)
(* saved one is replaced by one that is as far or further.                  *)

Phase(i) ==
    CASE i.status = "writing" -> 0
      [] i.status = "reviewing" -> IF i.reviewed THEN 3 ELSE 1
      [] i.status = "rewriting" -> 2
      [] i.status = "needs_review" -> 4
      [] i.status = "ready" -> 5
Progress(s) == IF s = <<>> THEN 0 ELSE 10 * Len(s) + Phase(s[Len(s)])
AnyResult(new, old) == TRUE   \* mutant: the latest result is the one to keep
Keeps(new, old)     == Progress(new) >= Progress(old)

Run       == runs[w.run]
At(pc)    == w.pc = pc
Last      == Len(w.result)
Item      == w.result[Last]
Sound     == Run.status = "running" /\ ours /\ SourceStands(w.run)   \* guard
Raise(why) == w' = [w EXCEPT !.pc = "raised", !.why = why]
Change(r, f) == runs' = [runs EXCEPT ![r] = f]
Quietly   == UNCHANGED <<book, writing, acts>>

(* persist: a guard that fails raises, and nothing is saved. *)
Saving(result) ==
    [Run EXCEPT !.saved = IF Keeps(result, @) THEN result ELSE @]
Persist(result, pc) ==
    /\ IF Sound THEN /\ Change(w.run, Saving(result))
                     /\ w' = [w EXCEPT !.result = result, !.pc = pc]
       ELSE Raise("guard") /\ UNCHANGED runs
    /\ Quietly

(* runner.run: an answer there is for the same input is reused; otherwise   *)
(* the model answers, or something goes wrong and there is none.            *)
Input     == [text |-> Item.text,
              before |-> IF Last > 1 THEN w.result[Last - 1].text ELSE Blank]
Key(stage) == <<Last, stage>>
Known(stage) == {a \in Run.answers : a.key = Key(stage)}
Answer(stage, a, next) ==
    /\ a.input = Input /\ w' = next
    /\ Change(w.run, [Run EXCEPT !.answers = @ \cup {a}])
Replies(stage) ==
    [key : {Key(stage)}, input : {Input},
     text : IF stage \in {"write", "rewrite"} THEN Texts \ {Blank} ELSE {Item.text},
     good : IF stage \in {"write", "rewrite"} THEN {TRUE} ELSE BOOLEAN]
Stage(stage, Next(_)) ==
    /\ At(stage)
    /\ \/ /\ Sound
          /\ \E a \in IF Known(stage) # {} THEN Known(stage) ELSE Replies(stage) :
                Answer(stage, a, Next(a))
       \/ ~Sound /\ Raise("guard") /\ UNCHANGED runs
       \/ Sound /\ Known(stage) = {} /\ Raise("stage") /\ UNCHANGED runs
    /\ Quietly

Begun(c, s) == [chapter |-> c, text |-> s.text, reviewed |-> FALSE,
                status |-> IF s.text = Blank THEN "writing" ELSE "reviewing"]
Become(item, pc) == [w EXCEPT !.result[Last] = item, !.pc = pc]

Claim(r) ==
    /\ At("idle") /\ runs[r].status = "queued"
    /\ Change(r, [runs[r] EXCEPT !.status = "running"])
    /\ w' = [Idle EXCEPT !.run = r, !.pc = "next"] /\ Quietly

NextChapter ==
    /\ At("next") /\ Last < Len(Run.source)
    /\ LET s == Run.source[Last + 1]
       IN Persist(Append(w.result, Begun(s.chapter, s)),
                  IF s.text = Blank THEN "write" ELSE "hand")
Write   == Stage("write", LAMBDA a :
                Become([Item EXCEPT !.text = a.text, !.status = "reviewing"], "hand"))
HandOver == At("hand") /\ Persist(w.result, "review")
Review  == Stage("review", LAMBDA a :
                IF a.good THEN [Become([Item EXCEPT !.reviewed = TRUE], "judge") EXCEPT !.good = TRUE]
                ELSE Become([Item EXCEPT !.reviewed = TRUE, !.status = "rewriting"], "send"))
SendBack == At("send") /\ Persist(w.result, "rewrite")
Rewrite == Stage("rewrite", LAMBDA a :
                Become([Item EXCEPT !.text = a.text, !.status = "reviewing"], "resubmit"))
Resubmit == At("resubmit") /\ Persist(w.result, "final")
FinalReview == Stage("final", LAMBDA a : [w EXCEPT !.pc = "judge", !.good = a.good])

(* The verdict, with the author's approval of this very text. *)
Approved(r, k, text) == [k |-> k, text |-> text] \in runs[r].approvals
Judge ==
    /\ At("judge")
    /\ IF Run.status # "running" THEN Raise("guard")
       ELSE IF w.good \/ Approved(w.run, Last, Item.text)
       THEN w' = Become([Item EXCEPT !.status = "ready"], "keep")
       ELSE w' = [Become([Item EXCEPT !.status = "needs_review"], "hold") EXCEPT !.why = "review"]
    /\ UNCHANGED runs /\ Quietly
KeepReady == At("keep") /\ Persist(w.result, "next")
Hold      == At("hold") /\ Persist(w.result, "raised")
Finish ==
    /\ At("next") /\ Last = Len(Run.source)
    /\ IF Sound THEN /\ Change(w.run, [Saving(w.result) EXCEPT !.status = "succeeded"])
                     /\ w' = Idle
       ELSE Raise("guard") /\ UNCHANGED runs
    /\ Quietly

(* run_once's handler *)
Land ==
    /\ At("raised") /\ w' = Idle /\ Quietly
    /\ \/ Run.status = "cancel_requested" /\ Change(w.run, [Run EXCEPT !.status = "cancelled"])
       \/ /\ Run.status = "running"
          /\ \E stop \in IF w.why = "stage" THEN {"recovery_required", "failed"}
                         ELSE {"recovery_required"} :
                Change(w.run, [Run EXCEPT !.status = stop,
                                          !.reason = IF w.why = "review" THEN "review" ELSE "other"])

(* The process dies and starts again: recover. *)
Stages == {"write", "review", "rewrite", "final"}
Recovered(r) ==
    CASE runs[r].status = "cancel_requested" -> {"cancelled"}
      [] runs[r].status = "running" ->
            {"queued"} \cup IF w.pc \in Stages /\ Known(w.pc) = {} THEN {"recovery_required"} ELSE {}
Crash ==
    /\ w # Idle /\ Act /\ w' = Idle
    /\ \E status \in Recovered(w.run) : Change(w.run, [Run EXCEPT !.status = status])
    /\ UNCHANGED <<book, writing>>

-----------------------------------------------------------------------------
(* The author: the text, and everything a run has captured beside it.       *)

Request == UNCHANGED <<w>>
Edit(c, t) ==         \* update_document
    /\ Act /\ doc' = [doc EXCEPT ![c].text = t, ![c].rev = @ + 1]
    /\ UNCHANGED <<material, ours, runs, writing>> /\ Request
Versioned(c, t) ==    \* create_version
    doc' = [doc EXCEPT ![c] = [text |-> t, rev |-> @.rev + 1, version |-> @.rev + 1]]
SaveVersion(c, t) ==  \* by hand, by a restore, by a writing job's candidate
    /\ Act /\ Versioned(c, t)
    /\ UNCHANGED <<material, ours, runs, writing>> /\ Request
ChangeMaterial ==
    /\ Act /\ material' = material + 1
    /\ UNCHANGED <<doc, ours, runs, writing>> /\ Request
ChangeModel ==
    /\ Act /\ ours' = ~ours
    /\ UNCHANGED <<doc, material, runs, writing>> /\ Request

(* A writing job of a chapter; while it is open it may end either way. *)
SetWriting(c, s) ==
    /\ writing' = [writing EXCEPT ![c] = s] /\ UNCHANGED <<book, runs>> /\ Request
StartWriting(c)  == Act /\ writing[c] # "open" /\ NoRunOf(c, 0) /\ SetWriting(c, "open")
ResumeWriting(c) == Act /\ writing[c] = "failed" /\ NoRunOf(c, 0) /\ SetWriting(c, "open")
EndWriting(c)    == /\ writing[c] = "open" /\ UNCHANGED acts
                    /\ \E s \in {"none", "failed"} : SetWriting(c, s)

-----------------------------------------------------------------------------
(* The author and the runs.                                                 *)

InOrder(list)  == \A i, j \in DOMAIN list : i < j => list[i] < list[j]
Captured(list) ==
    [k \in DOMAIN list |->
        LET d == doc[list[k]]
        IN [chapter |-> list[k], text |-> d.text, rev |-> d.rev, version |-> d.version]]
(* enqueue_quality; only one written chapter is polished *)
Enqueue(list, polish) ==
    /\ Len(runs) < MaxRuns /\ InOrder(list) /\ NoOtherRun(0)
    /\ \A k \in DOMAIN list : Free(list[k])
    /\ polish => Len(list) = 1 /\ doc[list[1]].text # Blank
    /\ runs' = Append(runs,
          [status |-> "queued", reason |-> "none", polish |-> polish, material |-> material,
           source |-> Captured(list), saved |-> <<>>, answers |-> {}, approvals |-> {},
           accepted |-> [k \in DOMAIN list |-> NoAnswer]])
    /\ UNCHANGED <<book, writing, acts>> /\ Request

Untouched(r) == \A k \in 1..Size(r) : runs[r].accepted[k] = NoAnswer
Waiting(r)   == {k \in DOMAIN runs[r].saved :
                    /\ runs[r].saved[k].status = "needs_review"
                    /\ ~Approved(r, k, runs[r].saved[k].text)}
(* JobStore.resume with validate_quality_resume *)
Resumable(r) ==
    /\ runs[r].status \in {"recovery_required", "failed"}
    /\ Untouched(r) /\ NoOtherRun(r) /\ (\A c \in Involved(r) : Free(c)) /\ SourceStands(r) /\ ours
Resume(r) ==
    /\ Act /\ Resumable(r) /\ Waiting(r) = {}
    /\ Change(r, [runs[r] EXCEPT !.status = "queued", !.reason = "none"])
    /\ UNCHANGED <<book, writing>> /\ Request
Cancel(r) ==
    /\ Act /\ runs[r].status \in {"queued", "running", "recovery_required", "failed"}
    /\ Change(r, [runs[r] EXCEPT !.status = IF @ = "running" THEN "cancel_requested" ELSE "cancelled"])
    /\ UNCHANGED <<book, writing>> /\ Request

Approvable(r, k) ==
    /\ runs[r].status = "recovery_required" /\ runs[r].reason = "review"
    /\ k \in DOMAIN runs[r].saved /\ runs[r].saved[k].status = "needs_review" /\ SourceStands(r)
Approve(r, k) ==      \* approve_quality
    /\ Approvable(r, k)
    /\ Change(r, [runs[r] EXCEPT !.approvals =
          {a \in @ : a.k # k} \cup {[k |-> k, text |-> runs[r].saved[k].text]}])
    /\ UNCHANGED <<book, writing, acts>> /\ Request

(* accept_quality.  The chapters before were adopted and stand as adopted. *)
Accepted(r, k) == runs[r].accepted[k] # NoAnswer
SameVersion(r, j) == doc[Chapter(r, j)].version = runs[r].accepted[j].version   \* mutant
Stands(r, j) ==
    /\ doc[Chapter(r, j)].version = runs[r].accepted[j].version
    /\ doc[Chapter(r, j)].text = runs[r].accepted[j].text
Adoptable(r, k) ==
    /\ runs[r].status \in {"succeeded", "failed", "cancelled"} /\ ~Accepted(r, k)
    /\ k \in DOMAIN runs[r].saved /\ runs[r].saved[k].status \in {"ready", "needs_review"}
    /\ NoRunOf(Chapter(r, k), r) /\ Free(Chapter(r, k))
    /\ \A j \in 1..k - 1 : Accepted(r, j) /\ Stands(r, j)
    /\ ContextStands(r) /\ Same(Chapter(r, k), runs[r].source[k])
(* the whole candidate, or of a polished one some of the changes *)
Mixtures(r, k) == IF runs[r].polish THEN Texts \ {Blank, runs[r].source[k].text} ELSE {}
Accept(r, k) ==
    /\ Adoptable(r, k)
    /\ \E t \in {runs[r].saved[k].text} \cup Mixtures(r, k), whole \in BOOLEAN :
          /\ IF whole THEN t = runs[r].saved[k].text ELSE t \in Mixtures(r, k)
          /\ Versioned(Chapter(r, k), t)
          /\ Change(r, [runs[r] EXCEPT !.accepted[k] =
                [version |-> doc'[Chapter(r, k)].version, text |-> t, whole |-> whole]])
    /\ UNCHANGED <<material, ours, writing, acts>> /\ Request

-----------------------------------------------------------------------------
(* read_coverage: what the overview of the book says of a chapter, from the *)
(* latest run it took part in.                                              *)

Latest(c) == LET R == {r \in DOMAIN runs : c \in Involved(r)}
             IN IF R = {} THEN 0 ELSE CHOOSE r \in R : \A s \in R : s <= r
Place(r, c) == CHOOSE k \in 1..Size(r) : Chapter(r, k) = c
SourcesStand(r, k) ==   \* _assert_chapter_sources
    /\ ContextStands(r)
    /\ \A j \in 1..k : IF Accepted(r, j) THEN Stands(r, j)
                       ELSE Same(Chapter(r, j), runs[r].source[j])
AnyAdoption(r, k) == Accepted(r, k)   \* mutant
Wholly(r, k)      == Accepted(r, k) /\ runs[r].accepted[k].whole
Coverage(c) ==
    LET r == Latest(c)
        k == Place(r, c)
    IN IF r = 0 THEN "unchecked"
       ELSE IF ~SourcesStand(r, k) THEN "stale"
       ELSE IF k \in DOMAIN runs[r].saved /\ runs[r].saved[k].reviewed /\ Wholly(r, k)
       THEN "confirmed" ELSE "pending"

-----------------------------------------------------------------------------
Author ==
    \/ \E c \in Chapters : \/ \E t \in Texts : Edit(c, t) \/ SaveVersion(c, t)
                            \/ StartWriting(c) \/ ResumeWriting(c) \/ EndWriting(c)
    \/ ChangeMaterial \/ ChangeModel
    \/ \E n \in 1..Cardinality(Chapters), polish \in BOOLEAN :
          \E list \in [1..n -> Chapters] : Enqueue(list, polish)
    \/ \E r \in DOMAIN runs : \/ Resume(r) \/ Cancel(r)
                              \/ \E k \in 1..Size(r) : Approve(r, k) \/ Accept(r, k)
Executor ==
    \/ \E r \in DOMAIN runs : Claim(r)
    \/ NextChapter \/ Write \/ HandOver \/ Review \/ SendBack \/ Rewrite \/ Resubmit
    \/ FinalReview \/ Judge \/ KeepReady \/ Hold \/ Finish \/ Land

Next == Author \/ Executor \/ Crash
Spec == Init /\ [][Next]_vars

-----------------------------------------------------------------------------
(* What a run has shown never shrinks, however often it is interrupted and  *)
(* replayed: it only gets further, and a candidate the author could read    *)
(* stays the text it was (persist).                                         *)
Decided(i) == i.status \in {"needs_review", "ready"}
SavedOnlyGrows ==
    [][\A r \in DOMAIN runs :
          /\ Progress(runs'[r].saved) >= Progress(runs[r].saved)
          /\ \A k \in DOMAIN runs[r].saved : Decided(runs[r].saved[k]) =>
                runs'[r].saved[k].text = runs[r].saved[k].text]_vars

(* One hand at a chapter: at most one run is open in the project, and none  *)
(* of its chapters has an open writing job, whatever was resumed, failed or *)
(* begun meanwhile (enqueue_quality, validate_quality_resume, preparation). *)
OneHand ==
    \A r \in OpenRuns : /\ \A s \in OpenRuns : r = s
                        /\ \A c \in Involved(r) : writing[c] # "open"

(* A chapter is adopted only behind the text it was written after: each     *)
(* earlier chapter reads as it was handed to the model then.                *)
HandedOver(r, k) == {a.input.before : a \in {b \in runs[r].answers : b.key[1] = k}}
AdoptedBehindHandover ==
    [][\A r \in DOMAIN runs : \A k \in 2..Size(r) :
          ~Accepted(r, k) /\ Accepted(r, k)' =>
             HandedOver(r, k) = {doc[Chapter(r, k - 1)].text}]_vars

(* A chapter the overview calls confirmed reads exactly as the review that  *)
(* its run passed or the author approved had read it (read_coverage).       *)
ReviewOf(r, k) ==
    LET final == {a \in runs[r].answers : a.key = <<k, "final">>}
    IN IF final # {} THEN final ELSE {a \in runs[r].answers : a.key = <<k, "review">>}
ConfirmedAsReviewed ==
    \A c \in Chapters : Coverage(c) = "confirmed" =>
        {doc[c].text} = {a.input.text : a \in ReviewOf(Latest(c), Place(Latest(c), c))}
=============================================================================
