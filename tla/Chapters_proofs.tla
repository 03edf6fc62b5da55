---------------------------- MODULE Chapters_proofs ----------------------------
(***************************************************************************)
(* What one chapter keeps, for any texts and any number of revisions,      *)
(* summaries, jobs, requests and process deaths: the file follows the      *)
(* tables or the tables know that it does not, a completed text stands, no *)
(* writer overwrites what it has not read, and a job does not replace the  *)
(* author's summary of the same text.                                      *)
(*                                                                         *)
(* The argument: the types, and three facts the actions rely on without    *)
(* looking: a job has the version it was started on, an imported summary   *)
(* that waits has a version 1, and a busy executor has a job.              *)
(***************************************************************************)
EXTENDS Chapters, TLAPS, FiniteSetTheorems, SequenceTheorems

TextOK ==
    /\ doc \in Source /\ versions \in Seq(Texts) /\ doc.version \in 0..Len(versions)
    /\ base \in 1..doc.rev /\ done \in Texts
FlagsOK ==
    /\ status \in {"planned", "drafting", "summary_pending", "completed"} /\ live \in BOOLEAN
    /\ recap \in BOOLEAN /\ outbox \in BOOLEAN /\ due \in BOOLEAN /\ opened \in BOOLEAN
    /\ acts \in 0..MaxActs
    /\ recap => 1 <= Len(versions)
SumsOK ==
    /\ sums \in Seq(Summary)
    /\ \A i \in 1..Len(sums) : sums[i].version \in 1..Len(versions)
JobsOK ==
    /\ jobs \in Seq(SummaryJob)
    /\ \A j \in 1..Len(jobs) : /\ jobs[j].summary \in 0..Len(sums)
                               /\ jobs[j].source.version \in 1..Len(versions)
DraftOK == draft \subseteq Draft
FileOK  == file \subseteq (1..Len(sums)) \X (Nat \ {0})
HandOK ==
    /\ w \in [j : 0..Len(jobs), pc : PCs, reuse : BOOLEAN, why : Reasons]
    /\ w.pc # "idle" => w.j \in 1..Len(jobs)

Types == TextOK /\ FlagsOK /\ SumsOK /\ JobsOK /\ DraftOK /\ FileOK /\ HandOK
IInv  == Types /\ LedgerFollows /\ CompletedStands

LEMMA Domains ==
    Types => /\ DOMAIN sums = 1..Len(sums) /\ Len(sums) \in Nat
             /\ DOMAIN jobs = 1..Len(jobs) /\ Len(jobs) \in Nat
             /\ DOMAIN versions = 1..Len(versions) /\ Len(versions) \in Nat
  BY DEF Types, TextOK, SumsOK, JobsOK

LEMMA Elements ==
    Types => /\ \A i \in 1..Len(sums) : sums[i] \in Summary
             /\ \A j \in 1..Len(jobs) : jobs[j] \in SummaryJob
             /\ \A v \in 1..Len(versions) : versions[v] \in Texts
  BY DEF Types, TextOK, SumsOK, JobsOK

LEMMA TypesTypeOK == Types => TypeOK
  BY Domains DEF Types, TextOK, FlagsOK, SumsOK, JobsOK, DraftOK, FileOK, HandOK, TypeOK

LEMMA InitIInv == Init => IInv
<1> SUFFICES ASSUME Init PROVE IInv
  OBVIOUS
<1>1. /\ doc.text \in Texts /\ doc.rev = 2 /\ doc \in Source
      /\ doc.version \in {0, 1} /\ versions \in Seq(Texts) /\ Len(versions) = doc.version
      /\ recap \in BOOLEAN /\ (recap => Len(versions) = 1)
      /\ status \in {"drafting", "completed"}
  <2>1. doc.text \in Texts /\ doc.rev = 2 /\ doc \in Source /\ doc.version \in {0, 1}
    BY DEF Init, Source, None
  <2>2. \/ doc.version = 0 /\ versions = <<>> /\ status = "drafting" /\ recap = FALSE
        \/ doc.version = 1 /\ versions = <<doc.text>> /\ status = "completed" /\ recap = TRUE
    BY DEF Init, None
  <2>3. versions \in Seq(Texts) /\ Len(versions) = doc.version
    <3>1. <<>> \in Seq(Texts) /\ <<doc.text>> \in Seq(Texts)
      BY <2>1
    <3>2. CASE doc.version = 0
      BY <2>2, <3>1, <3>2
    <3>3. CASE doc.version = 1
      BY <2>2, <3>1, <3>3
    <3> QED BY <2>2, <3>2, <3>3
  <2> QED BY <2>1, <2>2, <2>3
<1>2. TextOK /\ DraftOK
  BY <1>1 DEF Init, TextOK, DraftOK
<1>3. FlagsOK
  <2>1. MaxActs \in Nat
    BY ChaptersAssumption
  <2>2. live \in BOOLEAN /\ outbox \in BOOLEAN /\ due \in BOOLEAN /\ opened \in BOOLEAN /\ acts = 0
    BY DEF Init
  <2>3. recap => 1 <= Len(versions)
    BY <1>1
  <2> QED BY <1>1, <2>1, <2>2, <2>3 DEF FlagsOK
<1>4. SumsOK /\ JobsOK /\ FileOK
  BY DEF Init, SumsOK, JobsOK, FileOK
<1>5. HandOK
  BY DEF Init, HandOK, Idle, PCs, Reasons, None
<1>6. LedgerFollows
  BY DEF Init, LedgerFollows, Listed, Valid, Present
<1>7. CompletedStands
  BY DEF Init, CompletedStands
<1> QED BY <1>2, <1>3, <1>4, <1>5, <1>6, <1>7 DEF IInv, Types

-----------------------------------------------------------------------------
(* What the ledger lists.                                                   *)

LEMMA HasMax ==
    ASSUME NEW n \in Nat, NEW S \in SUBSET (1..n), S # {}
    PROVE  \E i \in S : \A j \in S : j <= i
<1> DEFINE R == StrictSubsetOrdering(1..n)
           T == {i..n : i \in S}
<1>1. FiniteSubsetsOf(1..n) = SUBSET (1..n)
  <2>1. IsFiniteSet(1..n)
    BY FS_Interval
  <2> QED BY <2>1, FS_FiniteSubsetsOfFinite
<1>2. T # {} /\ T \subseteq SUBSET (1..n)
  <2>1. \A i \in S : i \in Nat /\ i >= 1
    OBVIOUS
  <2>2. \A i \in S : i..n \subseteq 1..n
    BY <2>1
  <2>3. T \subseteq SUBSET (1..n)
    BY <2>2
  <2> QED BY <2>3
<1>3. IsWellFoundedOn(R, SUBSET (1..n))
  BY <1>1, FS_StrictSubsetOrderingWellFounded
<1>4. \E x \in T : \A y \in T : ~ (<<y, x>> \in R)
  <2> HIDE DEF R, T
  <2> QED BY <1>2, <1>3, WFMin
<1>5. PICK i \in S : \A j \in S : ~ (<<j..n, i..n>> \in R)
  BY <1>4
<1>6. ASSUME NEW j \in S, j > i PROVE FALSE
  <2>1. (j..n) \subseteq (i..n) /\ i \in (i..n) /\ i \notin (j..n)
    BY <1>6
  <2>2. (j..n) # (i..n)
    BY <2>1
  <2>3. (j..n) \in SUBSET (1..n) /\ (i..n) \in SUBSET (1..n)
    BY <1>2
  <2> QED BY <1>5, <2>1, <2>2, <2>3 DEF StrictSubsetOrdering
<1> QED BY <1>6

LEMMA LatestPresent == ASSUME Types PROVE Latest = None \/ Latest \in Present
<1>1. Len(sums) \in Nat /\ Present \in SUBSET (1..Len(sums))
  BY Domains DEF Present
<1>2. CASE Present # {}
  BY <1>1, <1>2, HasMax DEF Latest
<1> QED BY <1>2 DEF Latest

LEMMA ListedType == ASSUME Types PROVE Listed \subseteq (1..Len(sums)) \X (Nat \ {0})
<1>1. \A i \in Valid : i \in 1..Len(sums) /\ sums[i].rev \in Nat \ {0}
  BY Domains, Elements DEF Valid, Present, Summary
<1> QED BY <1>1 DEF Listed

(* The list depends on the summaries and on the chapter's being there only. *)
LEMMA SameListed == ASSUME UNCHANGED <<sums, live>> PROVE Listed' = Listed
  BY DEF Listed, Valid, Present

-----------------------------------------------------------------------------
(* Writing                                                                  *)

LEMMA InvalidateType ==
    ASSUME Types, NEW t, Invalidate(t)
    PROVE  /\ sums' \in Seq(Summary) /\ Len(sums') = Len(sums)
           /\ \A i \in 1..Len(sums) : sums'[i].version = sums[i].version
           /\ status' \in {status, "drafting"} /\ outbox' \in BOOLEAN /\ due' \in BOOLEAN
           /\ t = doc.text => UNCHANGED <<status, sums, outbox>>
           /\ t # doc.text => status' = "drafting" /\ outbox' = TRUE
<1>1. CASE t = doc.text
  BY <1>1 DEF Invalidate, Types, SumsOK, FlagsOK
<1>2. CASE t # doc.text
  <2> DEFINE s(i) == IF sums[i].status = "valid" THEN [sums[i] EXCEPT !.status = "stale"] ELSE sums[i]
  <2>1. sums' = [i \in 1..Len(sums) |-> s(i)]
    BY <1>2, Domains DEF Invalidate
  <2>2. \A i \in 1..Len(sums) : s(i) \in Summary /\ s(i).version = sums[i].version
    BY Elements DEF Summary
  <2>3. sums' \in Seq(Summary) /\ Len(sums') = Len(sums)
    <3> HIDE DEF s
    <3> QED BY <2>1, <2>2, Domains
  <2> QED BY <1>2, <2>1, <2>2, <2>3 DEF Invalidate, Queue
<1> QED BY <1>1, <1>2

(* The text becomes t, from the revision the writer had read. *)
LEMMA TextType ==
    ASSUME Types, NEW t \in Texts, NEW r, NEW v, Writable(r), Written(t, v, r), done' = done,
           \/ versions' = versions /\ v = doc.version
           \/ versions' = Append(versions, t) /\ v = Len(versions) + 1
    PROVE  TextOK' /\ doc'.text = t /\ doc'.version = v /\ Len(versions') >= Len(versions)
<1>1. versions' \in Seq(Texts) /\ v \in 0..Len(versions') /\ Len(versions') >= Len(versions)
  BY DEF Types, TextOK
<1>2. doc' = [text |-> t, rev |-> doc.rev + 1, version |-> v] /\ base' = doc.rev
  BY DEF Writable, Written
<1>3. doc.rev \in Nat \ {0} /\ done \in Texts
  BY DEF Types, TextOK, Source
<1> QED BY <1>1, <1>2, <1>3 DEF TextOK, Source

LEMMA WriteStep ==
    ASSUME IInv, NEW t \in Texts, NEW r, NEW v, Writable(r), Written(t, v, r), Invalidate(t),
           \/ versions' = versions /\ v = doc.version
           \/ versions' = Append(versions, t) /\ v = Len(versions) + 1,
           UNCHANGED <<live, done, recap, jobs, acts, file, w, opened>>, DraftOK'
    PROVE  IInv'
<1>1. Types /\ TextOK' /\ doc'.text = t /\ Len(versions') >= Len(versions) /\ Len(versions) \in Nat
      /\ Len(versions') \in Nat
  BY TextType, Domains DEF IInv, TextOK
<1>2. /\ sums' \in Seq(Summary) /\ Len(sums') = Len(sums)
      /\ \A i \in 1..Len(sums) : sums'[i].version = sums[i].version
      /\ status' \in {status, "drafting"} /\ outbox' \in BOOLEAN /\ due' \in BOOLEAN
      /\ t = doc.text => UNCHANGED <<status, sums, outbox>>
      /\ t # doc.text => status' = "drafting" /\ outbox' = TRUE
  BY <1>1, InvalidateType
<1>3. SumsOK'
  BY <1>1, <1>2 DEF Types, SumsOK
<1>4. FlagsOK'
  BY <1>1, <1>2 DEF Types, FlagsOK
<1>5. JobsOK' /\ FileOK' /\ HandOK'
  BY <1>1, <1>2 DEF Types, JobsOK, FileOK, HandOK
<1>6. LedgerFollows' /\ CompletedStands'
  <2>1. CASE t = doc.text
    BY <1>1, <1>2, <2>1, SameListed DEF IInv, LedgerFollows, CompletedStands
  <2>2. CASE t # doc.text
    BY <1>2, <2>2 DEF LedgerFollows, CompletedStands
  <2> QED BY <2>1, <2>2
<1> QED BY <1>1, <1>3, <1>4, <1>5, <1>6 DEF IInv, Types

LEMMA WritingStep ==
    ASSUME IInv
    PROVE  /\ \A r, t : t \in Texts /\ (Save(r, t) \/ SaveVersion(r, t)) => IInv'
           /\ \A r : \A v \in DOMAIN versions : RestoreVersion(r, v) => IInv'
           /\ \A d \in draft : AcceptDraft(d) => IInv'
<1>1. ASSUME NEW r, NEW t \in Texts, Save(r, t) PROVE IInv'
  BY <1>1, WriteStep DEF Save, Request, IInv, Types, DraftOK
<1>2. ASSUME NEW r, NEW t \in Texts, SaveVersion(r, t) PROVE IInv'
  BY <1>2, WriteStep DEF SaveVersion, NewVersion, Request, IInv, Types, DraftOK
<1>3. ASSUME NEW r, NEW v \in DOMAIN versions, RestoreVersion(r, v) PROVE IInv'
  BY <1>2, <1>3 DEF RestoreVersion, IInv, Types, TextOK
<1>4. ASSUME NEW d \in draft, AcceptDraft(d) PROVE IInv'
  <2>1. d \in Draft /\ doc'.version = Len(versions) + 1 /\ draft' = {[d EXCEPT !.accepted = doc'.version]}
    BY <1>4 DEF AcceptDraft, NewVersion, Written, IInv, Types, DraftOK
  <2>2. DraftOK'
    BY <2>1, Domains DEF DraftOK, Draft, IInv
  <2> QED BY <1>4, <2>1, <2>2, WriteStep DEF AcceptDraft, NewVersion, Request, Draft
<1> QED BY <1>1, <1>2, <1>3, <1>4

-----------------------------------------------------------------------------
(* The author's changes of summaries and of the chapter's place             *)

LEMMA TouchedStep ==
    ASSUME IInv, Touched, SumsOK', Len(sums') \in Nat, Len(sums') >= Len(sums),
           status' \in {status, "summary_pending"}, live' \in BOOLEAN, recap' \in {recap, FALSE}
    PROVE  IInv'
<1>1. /\ UNCHANGED <<doc, versions, base, done, jobs, draft, file, w, opened>>
      /\ outbox' = TRUE /\ due' = TRUE /\ acts < MaxActs /\ acts' = acts + 1
  BY DEF Touched, Act, Queue, Request, text
<1>2. TextOK' /\ DraftOK' /\ HandOK'
  BY <1>1 DEF IInv, Types, TextOK, DraftOK, HandOK
<1>3. FlagsOK'
  <2>1. MaxActs \in Nat
    BY ChaptersAssumption
  <2>2. acts' \in 0..MaxActs
    BY <1>1, <2>1 DEF IInv, Types, FlagsOK
  <2>3. outbox' \in BOOLEAN /\ due' \in BOOLEAN
    BY <1>1
  <2>4. recap' \in BOOLEAN /\ (recap' => 1 <= Len(versions'))
    <3>1. CASE recap' = recap
      BY <1>1, <3>1 DEF IInv, Types, FlagsOK
    <3>2. CASE recap' = FALSE
      BY <3>2
    <3> QED BY <3>1, <3>2
  <2>5. /\ status' \in {"planned", "drafting", "summary_pending", "completed"}
        /\ opened' \in BOOLEAN
    BY <1>1 DEF IInv, Types, FlagsOK
  <2> QED BY <2>2, <2>3, <2>4, <2>5 DEF FlagsOK
<1>4. JobsOK' /\ FileOK'
  BY <1>1, Domains DEF IInv, Types, JobsOK, FileOK
<1>5. LedgerFollows' /\ CompletedStands'
  BY <1>1 DEF IInv, LedgerFollows, CompletedStands
<1> QED BY <1>2, <1>3, <1>4, <1>5 DEF IInv, Types

LEMMA ReplaceType ==
    ASSUME Types, NEW i \in 1..Len(sums), NEW r \in Summary, r.version = sums[i].version,
           sums' = [sums EXCEPT ![i] = r], UNCHANGED versions
    PROVE  SumsOK' /\ Len(sums') = Len(sums)
<1>1. /\ sums' \in Seq(Summary) /\ Len(sums') = Len(sums)
      /\ \A k \in 1..Len(sums) : sums'[k] = IF k = i THEN r ELSE sums[k]
  BY ExceptSeq DEF Types, SumsOK
<1> QED BY <1>1 DEF Types, SumsOK

LEMMA ReviseStep ==
    ASSUME IInv, NEW i \in 1..Len(sums), NEW o \in {"ai", "author_edited", "import_confirmed"},
           Revise(i, o)
    PROVE  IInv'
<1> DEFINE r == [sums[i] EXCEPT !.rev = sums[i].rev + 1]
           q == [r EXCEPT !.origin = o]
<1>1. r \in Summary
  BY Elements DEF IInv, Summary
<1>2. q \in Summary /\ q.version = r.version /\ r.version = sums[i].version
  <2>1. r.version = sums[i].version
    BY Elements DEF IInv, Summary
  <2> HIDE DEF r
  <2> QED BY <1>1, <2>1 DEF Summary
<1>3. sums' = [sums EXCEPT ![i] = q]
  BY Domains DEF Revise, IInv
<1> HIDE DEF r, q
<1>4. SumsOK' /\ Len(sums') = Len(sums)
  BY <1>2, <1>3, ReplaceType DEF Revise, Touched, text, IInv
<1> QED BY <1>4, Domains, TouchedStep DEF Revise, IInv, Types, FlagsOK

LEMMA TrashStep == ASSUME IInv, NEW i \in DOMAIN sums, TrashSummary(i) PROVE IInv'
<1>1. sums' = [sums EXCEPT ![i].live = FALSE] /\ Touched /\ UNCHANGED <<live, recap>>
      /\ status' \in {status, "summary_pending"}
  BY DEF TrashSummary
<1>2. [sums[i] EXCEPT !.live = FALSE] \in Summary
  BY Elements, Domains DEF IInv, Summary
<1>3. sums' \in Seq(Summary) /\ Len(sums') = Len(sums)
  BY <1>1, <1>2, Domains DEF IInv, Types, SumsOK
<1>4. \A k \in 1..Len(sums) : sums'[k].version = sums[k].version
  BY <1>1, Elements, Domains DEF IInv, Summary
<1>5. SumsOK'
  BY <1>1, <1>3, <1>4, Domains DEF Touched, text, IInv, Types, SumsOK
<1> QED BY <1>1, <1>3, <1>5, Domains, TouchedStep DEF IInv, Types, FlagsOK

LEMMA RestoreStep == ASSUME IInv, NEW i \in DOMAIN sums, RestoreSummary(i) PROVE IInv'
<1> DEFINE new == IF Valid # {} THEN "superseded"
                  ELSE IF sums[i].text # doc.text THEN "stale" ELSE sums[i].status
           r   == [sums[i] EXCEPT !.live = TRUE]
           q   == [r EXCEPT !.status = new]
<1>1. r \in Summary /\ r.version = sums[i].version /\ r.status = sums[i].status
  BY Elements, Domains DEF IInv, Summary
<1>2. new \in {"valid", "stale", "superseded"}
  BY Elements, Domains DEF IInv, Summary
<1>3. sums' = [sums EXCEPT ![i] = q]
  BY Domains DEF RestoreSummary, IInv
<1> HIDE DEF r, new
<1>4. q \in Summary /\ q.version = sums[i].version
  BY <1>1, <1>2 DEF Summary
<1> HIDE DEF q
<1>5. Touched /\ UNCHANGED <<status, live, recap>>
  BY DEF RestoreSummary
<1>6. SumsOK' /\ Len(sums') = Len(sums)
  BY <1>3, <1>4, <1>5, Domains, ReplaceType DEF Touched, text, IInv
<1> QED BY <1>5, <1>6, Domains, TouchedStep DEF IInv, Types, FlagsOK

LEMMA RecapStep == ASSUME IInv, ConfirmRecap PROVE IInv'
<1> DEFINE s == [text |-> versions[1], status |-> "valid", live |-> TRUE,
                 origin |-> "import_confirmed", version |-> 1, rev |-> 1, checked |-> FALSE]
<1>1. /\ sums' = Append(sums, s) /\ Touched /\ recap' = FALSE /\ UNCHANGED <<status, live>>
      /\ 1 <= Len(versions) /\ versions' = versions
  BY DEF ConfirmRecap, Touched, text, IInv, Types, FlagsOK
<1>2. s \in Summary
  BY <1>1, Elements, Domains DEF IInv, Summary
<1>3. s.version = 1
  OBVIOUS
<1> HIDE DEF s
<1>4. /\ sums' \in Seq(Summary) /\ Len(sums') = Len(sums) + 1
      /\ \A k \in 1..Len(sums) : sums'[k] = sums[k]
      /\ sums'[Len(sums) + 1] = s
  BY <1>1, <1>2, Domains DEF IInv, Types, SumsOK
<1>5. SumsOK'
  BY <1>1, <1>3, <1>4, Domains DEF IInv, Types, SumsOK
<1>6. Len(sums') \in Nat /\ Len(sums') >= Len(sums)
  BY <1>4, Domains DEF IInv
<1>7. status' = status /\ live' \in BOOLEAN /\ recap' \in {recap, FALSE}
  BY <1>1 DEF IInv, Types, FlagsOK
<1> QED BY <1>1, <1>5, <1>6, <1>7, TouchedStep

-----------------------------------------------------------------------------
(* Changes of a job's status                                                *)

JobsKept ==
    /\ jobs' \in Seq(SummaryJob) /\ Len(jobs') = Len(jobs)
    /\ \A j \in 1..Len(jobs) : /\ jobs'[j].source = jobs[j].source
                               /\ jobs'[j].summary = jobs[j].summary
                               /\ jobs'[j].owed = jobs[j].owed

LEMMA JobsStep ==
    ASSUME IInv, UNCHANGED <<text, chapter, sums, draft, ledger>>, JobsKept, FlagsOK', HandOK'
    PROVE  IInv'
<1>1. /\ UNCHANGED <<doc, versions, base, done, status, live, sums, draft, outbox, file>>
      /\ DOMAIN jobs = 1..Len(jobs) /\ DOMAIN jobs' = 1..Len(jobs)
  BY Domains DEF text, chapter, ledger, JobsKept, IInv
<1>2. TextOK' /\ SumsOK' /\ DraftOK' /\ FileOK' /\ JobsOK'
  BY <1>1 DEF IInv, Types, TextOK, SumsOK, DraftOK, FileOK, JobsOK, JobsKept
<1>3. LedgerFollows'
  <2>1. Listed' = Listed
    BY <1>1, SameListed
  <2>2. \A j \in DOMAIN jobs : jobs[j].owed => jobs'[j].owed
    BY <1>1 DEF JobsKept
  <2> QED BY <1>1, <2>1, <2>2 DEF IInv, LedgerFollows
<1>4. CompletedStands'
  BY <1>1 DEF IInv, CompletedStands
<1> QED BY <1>2, <1>3, <1>4 DEF IInv, Types

LEMMA SameJobs == ASSUME IInv, UNCHANGED jobs PROVE JobsKept
  BY DEF IInv, Types, JobsOK, JobsKept

LEMMA JobReplaced ==
    ASSUME IInv, NEW j \in 1..Len(jobs), NEW r \in SummaryJob, jobs' = [jobs EXCEPT ![j] = r]
    PROVE  /\ jobs' \in Seq(SummaryJob) /\ Len(jobs') = Len(jobs)
           /\ \A k \in 1..Len(jobs) : jobs'[k] = IF k = j THEN r ELSE jobs[k]
<1>1. jobs \in Seq(SummaryJob)
  BY DEF IInv, Types, JobsOK
<1> QED BY <1>1, ExceptSeq

LEMMA StatusKept ==
    ASSUME IInv, NEW j \in 1..Len(jobs), NEW s \in Statuses, jobs' = [jobs EXCEPT ![j].status = s]
    PROVE  JobsKept
<1> DEFINE r == [jobs[j] EXCEPT !.status = s]
<1>1. /\ r \in SummaryJob
      /\ r.source = jobs[j].source /\ r.summary = jobs[j].summary /\ r.owed = jobs[j].owed
  BY Elements DEF IInv, SummaryJob
<1>2. jobs' = [jobs EXCEPT ![j] = r]
  OBVIOUS
<1> HIDE DEF r
<1>3. /\ jobs' \in Seq(SummaryJob) /\ Len(jobs') = Len(jobs)
      /\ \A k \in 1..Len(jobs) : jobs'[k] = IF k = j THEN r ELSE jobs[k]
  BY <1>1, <1>2, JobReplaced
<1> QED BY <1>1, <1>3 DEF JobsKept

LEMMA ReasonKept ==
    ASSUME IInv, NEW j \in 1..Len(jobs), NEW s \in Statuses, NEW y \in Reasons,
           jobs' = [jobs EXCEPT ![j].status = s, ![j].reason = y]
    PROVE  JobsKept
<1> DEFINE r == [jobs[j] EXCEPT !.status = s]
           q == [r EXCEPT !.reason = y]
<1>1. /\ r \in SummaryJob
      /\ r.source = jobs[j].source /\ r.summary = jobs[j].summary /\ r.owed = jobs[j].owed
  BY Elements DEF IInv, SummaryJob
<1>2. jobs' = [jobs EXCEPT ![j] = q]
  BY Domains DEF IInv
<1> HIDE DEF r
<1>3. /\ q \in SummaryJob
      /\ q.source = jobs[j].source /\ q.summary = jobs[j].summary /\ q.owed = jobs[j].owed
  BY <1>1 DEF SummaryJob
<1> HIDE DEF q
<1>4. /\ jobs' \in Seq(SummaryJob) /\ Len(jobs') = Len(jobs)
      /\ \A k \in 1..Len(jobs) : jobs'[k] = IF k = j THEN q ELSE jobs[k]
  BY <1>2, <1>3, JobReplaced
<1> QED BY <1>3, <1>4 DEF JobsKept

(* A quiet step of the executor, to another position. *)
LEMMA HandStep ==
    ASSUME IInv, Quietly, UNCHANGED sums, JobsKept,
           w' \in [j : 0..Len(jobs), pc : PCs, reuse : BOOLEAN, why : Reasons],
           w'.pc # "idle" => w'.j \in 1..Len(jobs)
    PROVE  IInv'
<1>1. UNCHANGED <<text, chapter, sums, draft, ledger, recap, due, opened, acts>>
  BY DEF Quietly, process
<1>2. FlagsOK' /\ HandOK'
  BY <1>1 DEF IInv, Types, FlagsOK, HandOK, JobsKept, chapter, text, ledger
<1> QED BY <1>1, <1>2, JobsStep

LEMMA Hands ==
    ASSUME IInv
    PROVE  /\ w \in [j : 0..Len(jobs), pc : PCs, reuse : BOOLEAN, why : Reasons]
           /\ w.pc # "idle" => w.j \in 1..Len(jobs)
           /\ Idle \in [j : 0..Len(jobs), pc : PCs, reuse : BOOLEAN, why : Reasons]
           /\ Idle.pc = "idle"
           /\ Len(jobs) \in Nat
  BY Domains DEF IInv, Types, HandOK, Idle, PCs, Reasons, None

LEMMA AuthorJobs ==
    ASSUME IInv, NEW j \in DOMAIN jobs, Cancel(j) \/ Resume(j)
    PROVE  IInv'
<1>1. UNCHANGED <<text, chapter, records, draft, ledger, w, due, opened>> /\ acts < MaxActs
      /\ acts' = acts + 1
  BY DEF Cancel, Resume, Act
<1>2. acts' \in 0..MaxActs
  BY <1>1, ChaptersAssumption DEF IInv, Types, FlagsOK, ChaptersAssumption
<1>3. JobsKept
  <2>1. j \in 1..Len(jobs) /\ {"queued", "running", "cancel_requested", "cancelled"} \subseteq Statuses
        /\ "none" \in Reasons
    BY Domains DEF IInv, Statuses, Reasons
  <2>2. CASE Cancel(j)
    <3> DEFINE s == IF jobs[j].status = "running" THEN "cancel_requested" ELSE "cancelled"
    <3>1. jobs' = [jobs EXCEPT ![j].status = s]
      BY <2>1, <2>2 DEF Cancel
    <3>2. s \in Statuses
      BY <2>1
    <3> HIDE DEF s
    <3> QED BY <2>1, <3>1, <3>2, StatusKept
  <2>3. CASE Resume(j)
    BY <2>1, <2>3, ReasonKept DEF Resume
  <2> QED BY <2>2, <2>3
<1>4. FlagsOK' /\ HandOK'
  BY <1>1, <1>2, <1>3 DEF IInv, Types, FlagsOK, HandOK, JobsKept, text, chapter, records, ledger
<1> QED BY <1>1, <1>3, <1>4, JobsStep DEF records

-----------------------------------------------------------------------------
(* The executor                                                             *)

LEMMA QuietStep ==
    ASSUME IInv, Begin \/ Check \/ Settle
    PROVE  IInv'
<1>1. Quietly /\ UNCHANGED <<jobs, sums>> /\ w.pc # "idle"
  BY DEF Begin, Check, Settle, Running, At
<1>2. \/ \E pc \in PCs \ {"idle"} : Go(pc)
      \/ \E y \in Reasons : Stop(y)
      \/ w' = [w EXCEPT !.pc = "publish", !.reuse = TRUE]
  BY DEF Begin, Check, Settle, PCs, Reasons
<1>3. /\ w' \in [j : 0..Len(jobs), pc : PCs, reuse : BOOLEAN, why : Reasons]
      /\ w'.j = w.j
  <2>1. CASE \E pc \in PCs \ {"idle"} : Go(pc)
    BY <2>1, Hands DEF Go
  <2>2. CASE \E y \in Reasons : Stop(y)
    BY <2>2, Hands DEF Stop, PCs
  <2>3. CASE w' = [w EXCEPT !.pc = "publish", !.reuse = TRUE]
    BY <2>3, Hands DEF PCs
  <2> QED BY <1>2, <2>1, <2>2, <2>3
<1> QED BY <1>1, <1>3, Hands, SameJobs, HandStep

LEMMA TurnStep ==
    ASSUME IInv, \/ \E j \in DOMAIN jobs : Claim(j)
                 \/ Cancelled \/ Pause \/ Succeed
    PROVE  IInv'
<1>1. {"running", "cancelled", "recovery_required", "succeeded"} \subseteq Statuses
  BY DEF Statuses
<1>2. ASSUME NEW j \in DOMAIN jobs, Claim(j) PROVE IInv'
  <2>1. JobsKept
    BY <1>1, <1>2, Domains, StatusKept DEF Claim, IInv
  <2>2. /\ w' \in [j : 0..Len(jobs), pc : PCs, reuse : BOOLEAN, why : Reasons]
        /\ w'.j = j
    <3>1. w' = [j |-> j, pc |-> "begin", reuse |-> FALSE, why |-> "none"]
      BY <1>2 DEF Claim, Idle
    <3> QED BY <3>1, Domains DEF PCs, Reasons, IInv
  <2> QED BY <1>2, <2>1, <2>2, Domains, HandStep DEF Claim, IInv
<1>3. CASE Cancelled
  <2>1. w.j \in 1..Len(jobs)
    BY <1>3, Hands DEF Cancelled, None
  <2>2. JobsKept
    BY <1>1, <1>3, <2>1, StatusKept DEF Cancelled
  <2> QED BY <1>3, <2>2, Hands, HandStep DEF Cancelled
<1>4. CASE Pause
  <2>1. w.j \in 1..Len(jobs) /\ w.why \in Reasons
    BY <1>4, Hands DEF Pause, Running, At
  <2>2. JobsKept
    BY <1>1, <1>4, <2>1, ReasonKept DEF Pause
  <2> QED BY <1>4, <2>2, Hands, HandStep DEF Pause
<1>5. CASE Succeed
  <2>1. w.j \in 1..Len(jobs)
    BY <1>5, Hands DEF Succeed, Running, At
  <2>2. JobsKept
    BY <1>1, <1>5, <2>1, StatusKept DEF Succeed
  <2> QED BY <1>5, <2>2, Hands, HandStep DEF Succeed
<1> QED BY <1>2, <1>3, <1>4, <1>5

LEMMA ProjectStep == ASSUME IInv, Project PROVE IInv'
<1>1. /\ w.pc = "project" /\ UNCHANGED <<text, chapter, records, jobs, draft, file, process>>
      /\ outbox' \in BOOLEAN /\ (outbox' = outbox \/ outbox' = TRUE)
      /\ Go("drain") \/ Stop("paused")
  BY DEF Project, Running, At, IInv, Types, FlagsOK
<1>2. HandOK'
  <2>1. w' \in [j : 0..Len(jobs), pc : PCs, reuse : BOOLEAN, why : Reasons] /\ w'.j = w.j
    BY <1>1, Hands DEF Go, Stop, PCs, Reasons
  <2> QED BY <1>1, <2>1, Hands DEF HandOK
<1>3. TextOK' /\ FlagsOK' /\ SumsOK' /\ JobsOK' /\ DraftOK' /\ FileOK'
  BY <1>1 DEF IInv, Types, TextOK, FlagsOK, SumsOK, JobsOK, DraftOK, FileOK,
              text, chapter, records, process
<1>4. LedgerFollows'
  <2>1. CASE outbox' = outbox
    BY <1>1, <2>1, SameListed DEF IInv, LedgerFollows, chapter, records
  <2>2. CASE outbox' = TRUE
    BY <2>2 DEF LedgerFollows
  <2> QED BY <1>1, <2>1, <2>2
<1>5. CompletedStands'
  BY <1>1 DEF IInv, CompletedStands, text, chapter
<1> QED BY <1>2, <1>3, <1>4, <1>5 DEF IInv, Types

LEMMA EffectsType ==
    ASSUME IInv, NEW i \in Nat, w.j \in 1..Len(jobs), Effects(i)
    PROVE  /\ jobs' \in Seq(SummaryJob) /\ Len(jobs') = Len(jobs)
           /\ \A k \in 1..Len(jobs) : /\ jobs'[k].source = jobs[k].source
                                      /\ jobs'[k].summary = IF k = w.j THEN i ELSE jobs[k].summary
           /\ jobs'[w.j].owed = TRUE
<1> DEFINE r == [jobs[w.j] EXCEPT !.summary = i]
           q == [r EXCEPT !.owed = TRUE]
<1>1. r \in SummaryJob /\ r.source = jobs[w.j].source /\ r.summary = i
  BY Elements DEF IInv, SummaryJob
<1>2. jobs' = [jobs EXCEPT ![w.j] = q]
  BY Domains DEF Effects, IInv
<1> HIDE DEF r
<1>3. q \in SummaryJob /\ q.source = jobs[w.j].source /\ q.summary = i /\ q.owed = TRUE
  BY <1>1 DEF SummaryJob
<1> HIDE DEF q
<1>4. /\ jobs' \in Seq(SummaryJob) /\ Len(jobs') = Len(jobs)
      /\ \A k \in 1..Len(jobs) : jobs'[k] = IF k = w.j THEN q ELSE jobs[k]
  BY <1>2, <1>3, JobReplaced
<1> QED BY <1>3, <1>4

LEMMA GeneratedType ==
    ASSUME IInv, w.j \in 1..Len(jobs),
           sums' = Append(Superseded(Latest), Generated(Job.source.version)), UNCHANGED versions
    PROVE  SumsOK' /\ Len(sums') = Len(sums) + 1
<1> DEFINE s(i) == IF sums[i].live THEN [sums[i] EXCEPT !.status = "superseded"] ELSE sums[i]
           g    == Generated(Job.source.version)
<1>1. \A i \in 1..Len(sums) : s(i) \in Summary /\ s(i).version = sums[i].version
  BY Elements DEF IInv, Summary
<1>2. Superseded(Latest) = [i \in 1..Len(sums) |-> s(i)]
  BY Domains DEF Superseded, IInv
<1>3. g \in Summary /\ g.version \in 1..Len(versions)
  <2>1. Job.source.text \in Texts /\ Job.source.version \in 1..Len(versions)
    BY Elements DEF IInv, Types, JobsOK, Job, SummaryJob, Source
  <2>2. Job.source.version \in Nat
    BY <2>1, Domains DEF IInv
  <2> QED BY <2>1, <2>2 DEF Generated, Summary
<1> HIDE DEF s, g
<1>4. /\ Superseded(Latest) \in Seq(Summary) /\ Len(Superseded(Latest)) = Len(sums)
      /\ \A i \in 1..Len(sums) : Superseded(Latest)[i].version = sums[i].version
  BY <1>1, <1>2, Domains DEF IInv
<1>5. /\ sums' \in Seq(Summary) /\ Len(sums') = Len(sums) + 1
      /\ \A i \in 1..Len(sums) : sums'[i] = Superseded(Latest)[i]
      /\ sums'[Len(sums) + 1] = g
  <2>1. sums' = Append(Superseded(Latest), g)
    BY DEF g
  <2> QED BY <1>3, <1>4, <2>1, AppendProperties
<1> QED BY <1>3, <1>4, <1>5, Domains DEF IInv, Types, SumsOK

LEMMA PublishStep == ASSUME IInv, Publish PROVE IInv'
<1>1. /\ w.pc = "publish" /\ Quietly /\ w.j \in 1..Len(jobs)
      /\ UNCHANGED <<text, chapter, recap, draft, ledger, process>>
  BY Hands DEF Publish, Running, At, Quietly
<1>2. CASE Stop("paused") /\ UNCHANGED <<jobs, sums>>
  <2>1. w' \in [j : 0..Len(jobs), pc : PCs, reuse : BOOLEAN, why : Reasons] /\ w'.j = w.j
    BY <1>2, Hands DEF Stop, PCs, Reasons
  <2> QED BY <1>1, <1>2, <2>1, SameJobs, HandStep
<1>3. CASE /\ Go("project")
           /\ IF Keeps(Job.source.text) THEN Effects(Latest) /\ UNCHANGED sums
              ELSE /\ Len(sums) < MaxSummaries /\ Effects(Len(sums) + 1)
                   /\ sums' = Append(Superseded(Latest), Generated(Job.source.version))
  <2>1. /\ w' \in [j : 0..Len(jobs), pc : PCs, reuse : BOOLEAN, why : Reasons]
        /\ w'.j = w.j
    BY <1>3, Hands DEF Go, PCs
  <2>2. PICK i \in Nat : Effects(i) /\ i <= Len(sums') /\ Len(sums') >= Len(sums) /\ SumsOK'
                         /\ Len(sums') \in Nat
    <3>1. CASE Keeps(Job.source.text)
      <4>1. Latest \in 1..Len(sums)
        BY <3>1, LatestPresent, Domains DEF Keeps, Summarized, Present, IInv
      <4> QED BY <1>1, <1>3, <3>1, <4>1, Domains DEF IInv, Types, SumsOK, text
    <3>2. CASE ~Keeps(Job.source.text)
      BY <1>1, <1>3, <3>2, GeneratedType, Domains DEF IInv, text
    <3> QED BY <3>1, <3>2
  <2>3. /\ jobs' \in Seq(SummaryJob) /\ Len(jobs') = Len(jobs)
        /\ \A k \in 1..Len(jobs) : /\ jobs'[k].source = jobs[k].source
                                   /\ jobs'[k].summary = IF k = w.j THEN i ELSE jobs[k].summary
        /\ jobs'[w.j].owed = TRUE
    BY <1>1, <2>2, EffectsType
  <2>4. UNCHANGED <<doc, versions, base, done, status, live, outbox, file, due, opened, acts>>
    BY <1>1 DEF text, chapter, ledger, process
  <2>5. JobsOK'
    BY <2>2, <2>3, <2>4, Domains DEF IInv, Types, JobsOK
  <2>6. TextOK' /\ FlagsOK' /\ DraftOK' /\ FileOK' /\ HandOK'
    BY <1>1, <2>1, <2>2, <2>3, <2>4, Domains
       DEF IInv, Types, TextOK, FlagsOK, DraftOK, FileOK, HandOK
  <2>7. LedgerFollows'
    BY <1>1, <2>3 DEF LedgerFollows
  <2>8. CompletedStands'
    BY <2>4 DEF IInv, CompletedStands
  <2> QED BY <2>2, <2>5, <2>6, <2>7, <2>8 DEF IInv, Types
<1> QED BY <1>2, <1>3 DEF Publish

-----------------------------------------------------------------------------
(* The ledger                                                               *)

LEMMA FinishedType ==
    ASSUME IInv, FinishLedger
    PROVE  /\ jobs' \in Seq(SummaryJob) /\ Len(jobs') = Len(jobs)
           /\ \A j \in 1..Len(jobs) : /\ jobs'[j].source = jobs[j].source
                                      /\ jobs'[j].summary = jobs[j].summary
<1> DEFINE s(j) == IF live /\ jobs[j].owed THEN Settled(jobs[j]) ELSE jobs[j]
<1>1. \A j \in 1..Len(jobs) : /\ s(j) \in SummaryJob /\ s(j).source = jobs[j].source
                              /\ s(j).summary = jobs[j].summary
  <2> SUFFICES ASSUME NEW j \in 1..Len(jobs)
               PROVE  /\ s(j) \in SummaryJob /\ s(j).source = jobs[j].source
                      /\ s(j).summary = jobs[j].summary
    OBVIOUS
  <2> DEFINE r   == [jobs[j] EXCEPT !.owed = FALSE]
             new == IF jobs[j].status = "recovery_required" /\ jobs[j].reason = "ledger_pending"
                    THEN "succeeded" ELSE jobs[j].status
             q   == [r EXCEPT !.status = new]
  <2>1. jobs[j] \in SummaryJob
    BY Elements DEF IInv
  <2>2. /\ r \in SummaryJob /\ r.source = jobs[j].source /\ r.summary = jobs[j].summary
        /\ new \in Statuses /\ Settled(jobs[j]) = q
    BY <2>1 DEF SummaryJob, Statuses, Settled
  <2> HIDE DEF r, new
  <2>3. q \in SummaryJob /\ q.source = jobs[j].source /\ q.summary = jobs[j].summary
    BY <2>2 DEF SummaryJob
  <2> QED BY <2>1, <2>2, <2>3
<1>2. jobs' = [j \in 1..Len(jobs) |-> s(j)]
  BY Domains DEF FinishLedger, IInv
<1> HIDE DEF s
<1> QED BY <1>1, <1>2, Domains DEF IInv

LEMMA DrainStep ==
    ASSUME IInv, Drain, due' \in BOOLEAN,
           w' \in [j : 0..Len(jobs), pc : PCs, reuse : BOOLEAN, why : Reasons],
           w'.pc # "idle" => w'.j \in 1..Len(jobs)
    PROVE  IInv'
<1>1. UNCHANGED <<doc, versions, base, live, sums, recap, draft, opened, acts>>
  BY DEF Drain, text, records
<1>2. Listed' = Listed
  BY <1>1, SameListed
<1>3. FileOK'
  BY <1>1, ListedType DEF Drain, IInv, Types, FileOK
<1>4. CASE outbox /\ file' = Listed /\ FinishLedger /\ outbox' = FALSE
  <2>1. /\ jobs' \in Seq(SummaryJob) /\ Len(jobs') = Len(jobs)
        /\ \A j \in 1..Len(jobs) : /\ jobs'[j].source = jobs[j].source
                                   /\ jobs'[j].summary = jobs[j].summary
    BY <1>4, FinishedType
  <2>2. JobsOK' /\ HandOK'
    BY <1>1, <2>1 DEF IInv, Types, JobsOK, HandOK
  <2>3. TextOK' /\ SumsOK' /\ DraftOK'
    BY <1>1, <1>4 DEF FinishLedger, IInv, Types, TextOK, SumsOK, DraftOK, Source
  <2>4. FlagsOK'
    <3>1. status' \in {"planned", "drafting", "summary_pending", "completed"}
      BY <1>4 DEF FinishLedger, IInv, Types, FlagsOK
    <3>2. outbox' \in BOOLEAN
      BY <1>4
    <3> QED BY <1>1, <3>1, <3>2 DEF IInv, Types, FlagsOK
  <2>5. LedgerFollows'
    BY <1>2, <1>4 DEF LedgerFollows
  <2>6. CompletedStands'
    BY <1>1, <1>4 DEF FinishLedger, IInv, CompletedStands
  <2> QED BY <1>3, <2>2, <2>3, <2>4, <2>5, <2>6 DEF IInv, Types
<1>5. CASE /\ UNCHANGED <<status, done, jobs, outbox>> /\ (outbox \/ UNCHANGED file)
  <2>1. TextOK' /\ FlagsOK' /\ SumsOK' /\ JobsOK' /\ DraftOK' /\ HandOK'
    BY <1>1, <1>5 DEF IInv, Types, TextOK, FlagsOK, SumsOK, JobsOK, DraftOK, HandOK
  <2>2. LedgerFollows' /\ CompletedStands'
    BY <1>1, <1>2, <1>5 DEF IInv, LedgerFollows, CompletedStands
  <2> QED BY <1>3, <2>1, <2>2 DEF IInv, Types
<1> QED BY <1>4, <1>5 DEF Drain

LEMMA DrainsStep == ASSUME IInv, RequestDrain \/ ExecutorDrain PROVE IInv'
<1>1. CASE RequestDrain
  BY <1>1, Hands, DrainStep DEF RequestDrain
<1>2. CASE ExecutorDrain
  <2>1. w' \in [j : 0..Len(jobs), pc : PCs, reuse : BOOLEAN, why : Reasons] /\ w'.j = w.j
        /\ w.pc # "idle"
    BY <1>2, Hands DEF ExecutorDrain, Go, At, PCs
  <2>2. due' \in BOOLEAN
    BY <1>2 DEF ExecutorDrain, IInv, Types, FlagsOK
  <2> QED BY <1>2, <2>1, <2>2, Hands, DrainStep DEF ExecutorDrain
<1> QED BY <1>1, <1>2

-----------------------------------------------------------------------------
(* Completion, drafts, the process                                          *)

LEMMA CompleteStep == ASSUME IInv, NEW r, Complete(r) PROVE IInv'
<1> DEFINE n == [status |-> "queued", reason |-> "none", source |-> doc',
                 summary |-> None, owed |-> FALSE]
<1>1. /\ jobs' = Append(jobs, n) /\ status' = "summary_pending"
      /\ UNCHANGED <<live, done, sums, recap, draft, outbox, file, w, due, opened, acts>>
  BY DEF Complete, records, ledger, process
<1>2. /\ TextOK' /\ doc'.version \in 1..Len(versions')
      /\ Len(versions) <= Len(versions') /\ Len(versions') \in Nat /\ Len(versions) \in Nat
  <2>1. CASE doc.version # None /\ UNCHANGED text
    BY <1>1, <2>1, Domains DEF IInv, Types, TextOK, text, None
  <2>2. CASE Writable(r) /\ NewVersion(doc.text, r)
    <3>1. doc.text \in Texts
      BY DEF IInv, Types, TextOK, Source
    <3>2. TextOK' /\ doc'.version = Len(versions) + 1 /\ versions' = Append(versions, doc.text)
      BY <1>1, <2>2, <3>1, TextType DEF NewVersion, IInv
    <3> QED BY <3>1, <3>2, Domains DEF IInv, Types, TextOK
  <2> QED BY <2>1, <2>2 DEF Complete
<1>3. n \in SummaryJob /\ n.summary = 0 /\ n.source = doc'
  BY <1>2 DEF SummaryJob, Statuses, Reasons, None, TextOK
<1> HIDE DEF n
<1>4. /\ jobs' \in Seq(SummaryJob) /\ Len(jobs') = Len(jobs) + 1
      /\ \A j \in 1..Len(jobs) : jobs'[j] = jobs[j]
      /\ jobs'[Len(jobs) + 1] = n
  <2>1. jobs \in Seq(SummaryJob)
    BY DEF IInv, Types, JobsOK
  <2> QED BY <1>1, <1>3, <2>1, AppendProperties
<1>5. JobsOK'
  <2> SUFFICES ASSUME NEW j \in 1..Len(jobs')
               PROVE  /\ jobs'[j].summary \in 0..Len(sums')
                      /\ jobs'[j].source.version \in 1..Len(versions')
    BY <1>4 DEF JobsOK
  <2>1. CASE j \in 1..Len(jobs)
    BY <1>1, <1>2, <1>4, <2>1 DEF IInv, Types, JobsOK
  <2>2. CASE j = Len(jobs) + 1
    BY <1>1, <1>2, <1>3, <1>4, <2>2, Domains DEF IInv
  <2> QED BY <1>4, <2>1, <2>2, Domains DEF IInv
<1>6. SumsOK' /\ FlagsOK' /\ DraftOK' /\ FileOK' /\ HandOK'
  BY <1>1, <1>2, <1>4, Domains DEF IInv, Types, SumsOK, FlagsOK, DraftOK, FileOK, HandOK
<1>7. LedgerFollows'
  <2>1. Listed' = Listed
    BY <1>1, SameListed
  <2>2. \A j \in DOMAIN jobs : j \in DOMAIN jobs' /\ jobs'[j].owed = jobs[j].owed
    BY <1>4, Domains DEF IInv
  <2> QED BY <1>1, <2>1, <2>2 DEF IInv, LedgerFollows
<1>8. CompletedStands'
  BY <1>1 DEF CompletedStands
<1> QED BY <1>2, <1>5, <1>6, <1>7, <1>8 DEF IInv, Types

LEMMA CountedAct == ASSUME IInv, Act PROVE acts' \in 0..MaxActs
  BY ChaptersAssumption DEF IInv, Types, FlagsOK, Act, ChaptersAssumption

LEMMA DraftStep == ASSUME IInv, NEW t \in Texts, FinishDraft(t) PROVE IInv'
<1>1. /\ UNCHANGED <<doc, versions, base, status, live, done, sums, recap, jobs, outbox, file,
                     w, due, opened>>
      /\ draft' = {[text |-> t, source |-> doc, accepted |-> None]} /\ acts' \in 0..MaxActs
  BY CountedAct DEF FinishDraft, text, chapter, records, ledger
<1>2. DraftOK'
  BY <1>1 DEF DraftOK, Draft, None, IInv, Types, TextOK
<1>3. TextOK' /\ FlagsOK' /\ SumsOK' /\ JobsOK' /\ FileOK' /\ HandOK'
  BY <1>1 DEF IInv, Types, TextOK, FlagsOK, SumsOK, JobsOK, FileOK, HandOK
<1>4. LedgerFollows' /\ CompletedStands'
  BY <1>1, SameListed DEF IInv, LedgerFollows, CompletedStands
<1> QED BY <1>2, <1>3, <1>4 DEF IInv, Types

LEMMA QueueStep == ASSUME IInv, Repair \/ Open PROVE IInv'
<1>1. /\ UNCHANGED <<doc, versions, base, status, live, done, sums, recap, jobs, draft, file, w>>
      /\ outbox' = TRUE /\ due' = TRUE /\ opened' \in BOOLEAN /\ acts' \in 0..MaxActs
  BY CountedAct DEF Repair, Open, Queue, Request, text, chapter, records, IInv, Types, FlagsOK
<1>2. outbox' \in BOOLEAN /\ due' \in BOOLEAN
  BY <1>1
<1>3. FlagsOK'
  BY <1>1, <1>2 DEF IInv, Types, FlagsOK
<1>4. TextOK' /\ SumsOK' /\ JobsOK' /\ DraftOK' /\ FileOK' /\ HandOK'
  BY <1>1 DEF IInv, Types, TextOK, SumsOK, JobsOK, DraftOK, FileOK, HandOK
<1>5. LedgerFollows' /\ CompletedStands'
  BY <1>1 DEF IInv, LedgerFollows, CompletedStands
<1> QED BY <1>3, <1>4, <1>5 DEF IInv, Types

LEMMA RecoveredType ==
    ASSUME NEW j \in SummaryJob, NEW q \in Recovered(j)
    PROVE  q \in SummaryJob /\ q.source = j.source /\ q.summary = j.summary /\ q.owed = j.owed
<1> DEFINE r == [j EXCEPT !.status = "recovery_required"]
<1>1. \/ q = j \/ q = [j EXCEPT !.status = "cancelled"] \/ q = [j EXCEPT !.status = "queued"]
      \/ q = [r EXCEPT !.reason = "paused"]
  BY DEF Recovered
<1>2. r \in SummaryJob /\ r.source = j.source /\ r.summary = j.summary /\ r.owed = j.owed
  BY DEF SummaryJob, Statuses
<1> HIDE DEF r
<1> QED BY <1>1, <1>2 DEF SummaryJob, Statuses, Reasons

LEMMA CrashStep == ASSUME IInv, Crash PROVE IInv'
<1>1. /\ UNCHANGED <<text, chapter, records, draft, ledger>> /\ w' = Idle
      /\ due' = FALSE /\ opened' = FALSE /\ acts' \in 0..MaxActs
  BY CountedAct DEF Crash
<1>2. JobsKept
  <2>1. /\ DOMAIN jobs' = 1..Len(jobs) /\ jobs' = [j \in 1..Len(jobs) |-> jobs'[j]]
        /\ \A j \in 1..Len(jobs) : jobs'[j] \in Recovered(jobs[j])
    BY Domains DEF Crash, IInv
  <2>2. \A j \in 1..Len(jobs) :
           /\ jobs'[j] \in SummaryJob /\ jobs'[j].source = jobs[j].source
           /\ jobs'[j].summary = jobs[j].summary /\ jobs'[j].owed = jobs[j].owed
    BY <2>1, Elements, RecoveredType DEF IInv
  <2>3. jobs' \in [1..Len(jobs) -> SummaryJob]
    BY <2>1, <2>2
  <2> QED BY <2>2, <2>3, Domains DEF JobsKept, IInv
<1>3. FlagsOK' /\ HandOK'
  <2>1. due' \in BOOLEAN /\ opened' \in BOOLEAN
    BY <1>1
  <2> QED BY <1>1, <1>2, <2>1, Hands
          DEF IInv, Types, FlagsOK, HandOK, JobsKept, text, chapter, records, ledger
<1> QED BY <1>1, <1>2, <1>3, JobsStep DEF records

-----------------------------------------------------------------------------
LEMMA AuthorStep == ASSUME IInv, Author PROVE IInv'
<1>1. CASE \E r \in 1..doc.rev : \/ \E t \in Texts : Save(r, t) \/ SaveVersion(r, t)
                                 \/ \E v \in DOMAIN versions : RestoreVersion(r, v)
                                 \/ Complete(r)
  BY <1>1, WritingStep, CompleteStep
<1>2. CASE \/ \E t \in Texts \ {Blank} : FinishDraft(t)
           \/ \E d \in draft : AcceptDraft(d)
  BY <1>2, DraftStep, WritingStep
<1>3. CASE EditSummary \/ \E i \in DOMAIN sums : PinSummary(i)
  <2>1. PICK i \in 1..Len(sums), o \in {"ai", "author_edited", "import_confirmed"} : Revise(i, o)
    <3>1. CASE EditSummary
      BY <3>1, Domains DEF EditSummary, Valid, Present, IInv
    <3>2. CASE \E i \in DOMAIN sums : PinSummary(i)
      BY <3>2, Domains, Elements DEF PinSummary, IInv, Summary
    <3> QED BY <1>3, <3>1, <3>2
  <2> QED BY <2>1, ReviseStep
<1>4. CASE TrashChapter \/ RestoreChapter
  <2>1. Touched /\ UNCHANGED <<status, sums, recap>> /\ live' \in BOOLEAN /\ versions' = versions
    BY <1>4 DEF TrashChapter, RestoreChapter, Touched, records, text
  <2>2. SumsOK' /\ Len(sums') \in Nat /\ Len(sums') >= Len(sums)
    BY <2>1, Domains DEF IInv, Types, SumsOK
  <2> QED BY <2>1, <2>2, TouchedStep
<1>5. CASE \E j \in DOMAIN jobs : Cancel(j) \/ Resume(j)
  BY <1>5, AuthorJobs
<1>6. CASE ConfirmRecap \/ Repair \/ \E i \in DOMAIN sums : TrashSummary(i) \/ RestoreSummary(i)
  BY <1>6, RecapStep, QueueStep, TrashStep, RestoreStep
<1> QED BY <1>1, <1>2, <1>3, <1>4, <1>5, <1>6 DEF Author

LEMMA NextIInv == IInv /\ [Next]_vars => IInv'
<1> SUFFICES ASSUME IInv, [Next]_vars PROVE IInv'
  OBVIOUS
<1>1. CASE UNCHANGED vars
  BY <1>1, SameListed
     DEF vars, text, chapter, records, ledger, process, IInv, Types, TextOK, FlagsOK, SumsOK,
         JobsOK, DraftOK, FileOK, HandOK, LedgerFollows, CompletedStands
<1>2. CASE Executor
  BY <1>2, QuietStep, TurnStep, ProjectStep, PublishStep, DrainsStep DEF Executor
<1> QED BY <1>1, <1>2, AuthorStep, DrainsStep, CrashStep, QueueStep DEF Next

-----------------------------------------------------------------------------
(* What a single step may do                                                *)

LEMMA TextStep == [Next]_vars => (doc'.text # doc.text => base' = doc.rev)
<1> SUFFICES ASSUME [Next]_vars PROVE doc' = doc \/ doc'.text = doc.text \/ base' = doc.rev
  OBVIOUS
<1>1. CASE UNCHANGED text
  BY <1>1 DEF text
<1>2. CASE \E r, t, v : Writable(r) /\ Written(t, v, r)
  BY <1>2 DEF Writable, Written
<1>3. CASE Author
  <2>1. CASE \/ EditSummary \/ ConfirmRecap \/ TrashChapter \/ RestoreChapter \/ Repair
             \/ \E i \in DOMAIN sums : PinSummary(i) \/ TrashSummary(i) \/ RestoreSummary(i)
             \/ \E j \in DOMAIN jobs : Cancel(j) \/ Resume(j)
             \/ \E t \in Texts \ {Blank} : FinishDraft(t)
    BY <1>1, <2>1 DEF EditSummary, Revise, ConfirmRecap, TrashChapter, RestoreChapter, Repair,
                      PinSummary, TrashSummary, RestoreSummary, Cancel, Resume, FinishDraft, Touched
  <2>2. CASE \E r, t : Save(r, t) \/ SaveVersion(r, t)
    BY <1>2, <2>2 DEF Save, SaveVersion, NewVersion
  <2>3. CASE \E r, v : RestoreVersion(r, v)
    BY <1>2, <2>3 DEF RestoreVersion, SaveVersion, NewVersion
  <2>4. CASE \E r : Complete(r)
    BY <1>1, <1>2, <2>4 DEF Complete, NewVersion
  <2>5. CASE \E d : AcceptDraft(d)
    BY <1>2, <2>5 DEF AcceptDraft, NewVersion
  <2> QED BY <1>3, <2>1, <2>2, <2>3, <2>4, <2>5 DEF Author
<1>4. CASE Executor \/ RequestDrain \/ Crash \/ Open \/ UNCHANGED vars
  BY <1>1, <1>4 DEF Executor, Claim, Cancelled, Begin, Check, Publish, Project, ExecutorDrain, Settle,
                    Pause, Succeed, RequestDrain, Drain, Crash, Open, Quietly, vars
<1> QED BY <1>3, <1>4 DEF Next

(* The summary of the present text stays valid while the text stays. *)
LEMMA SummaryStep ==
    ASSUME IInv, [Next]_vars, NEW i \in Valid, i = Latest, sums[i].text = doc.text,
           doc'.text = doc.text
    PROVE  sums'[i].status = "valid"
<1>1. i \in 1..Len(sums) /\ sums[i].status = "valid" /\ i # None /\ sums[i].live
  BY Domains DEF Valid, Present, IInv, None
<1>2. CASE UNCHANGED sums
  BY <1>1, <1>2
<1>3. CASE \E r, t, v : Written(t, v, r) /\ Invalidate(t)
  BY <1>1, <1>3 DEF Written, Invalidate
<1>4. CASE Author
  <2>1. CASE \/ TrashChapter \/ RestoreChapter \/ Repair
             \/ \E j \in DOMAIN jobs : Cancel(j) \/ Resume(j)
             \/ \E t \in Texts \ {Blank} : FinishDraft(t)
             \/ \E r : Complete(r)
    BY <1>2, <2>1 DEF TrashChapter, RestoreChapter, Repair, Cancel, Resume, FinishDraft, Complete,
                      records
  <2>2. CASE \/ \E r, t : Save(r, t) \/ SaveVersion(r, t)
             \/ \E r, v : RestoreVersion(r, v)
             \/ \E d : AcceptDraft(d)
    BY <1>3, <2>2 DEF Save, RestoreVersion, SaveVersion, AcceptDraft, NewVersion
  <2>3. CASE \E k \in DOMAIN sums : \E o : Revise(k, o)
    <3>1. PICK k \in DOMAIN sums :
             \E o : sums' = [sums EXCEPT ![k].rev = @ + 1, ![k].origin = o]
      BY <2>3 DEF Revise
    <3>2. sums[i] \in Summary /\ i \in DOMAIN sums
      BY <1>1, Elements, Domains DEF IInv
    <3>3. sums'[i].status = sums[i].status
      BY <3>1, <3>2 DEF Summary
    <3> QED BY <1>1, <3>3
  <2>4. CASE \E k \in DOMAIN sums : TrashSummary(k) \/ RestoreSummary(k)
    <3>1. sums[i] \in Summary /\ i \in DOMAIN sums
      BY <1>1, Elements, Domains DEF IInv
    <3>2. ASSUME NEW k \in DOMAIN sums, TrashSummary(k) PROVE sums'[i].status = "valid"
      BY <1>1, <3>1, <3>2 DEF TrashSummary, Summary
    <3>3. ASSUME NEW k \in DOMAIN sums, RestoreSummary(k) PROVE sums'[i].status = "valid"
      <4>1. k # i
        BY <3>3 DEF RestoreSummary, Valid
      <4>2. sums'[i] = sums[i]
        BY <3>1, <3>3, <4>1 DEF RestoreSummary
      <4> QED BY <1>1, <4>2
    <3> QED BY <2>4, <3>2, <3>3
  <2>5. CASE ConfirmRecap
    <3>1. \E s : sums' = Append(sums, s)
      BY <2>5 DEF ConfirmRecap
    <3>2. sums'[i] = sums[i]
      BY <1>1, <3>1 DEF IInv, Types, SumsOK
    <3> QED BY <1>1, <3>2
  <2>6. CASE EditSummary \/ \E k \in DOMAIN sums : PinSummary(k)
    BY <2>3, <2>6 DEF EditSummary, PinSummary, Valid, Present
  <2> QED BY <1>4, <2>1, <2>2, <2>4, <2>5, <2>6 DEF Author
<1>5. CASE Publish
  <2>1. CASE ~UNCHANGED sums
    <3>1. doc = Job.source /\ ~Keeps(Job.source.text)
      BY <1>5, <2>1 DEF Publish, Current
    <3>2. Keeps(doc.text)
      BY <1>1 DEF Keeps, Summarized, LatestFits
    <3> QED BY <3>1, <3>2
  <2> QED BY <1>2, <2>1
<1>6. CASE (Executor /\ ~Publish) \/ RequestDrain \/ Crash \/ Open \/ UNCHANGED vars
  BY <1>2, <1>6 DEF Executor, Claim, Cancelled, Begin, Check, Project, ExecutorDrain, Settle,
                    Pause, Succeed, RequestDrain, Drain, Crash, Open, records, vars
<1> QED BY <1>4, <1>5, <1>6 DEF Next

-----------------------------------------------------------------------------
(* Every reachable state is one the tables can hold: no job without a       *)
(* version, no list of a summary that is not there.                         *)
THEOREM TypeCorrect == Spec => []TypeOK
<1>1. IInv => TypeOK
  BY TypesTypeOK DEF IInv
<1> QED BY InitIInv, NextIInv, <1>1, PTL DEF Spec

(* The ledger file is what the tables say, or the outbox or a job's effects *)
(* remember that it is not (drain_ledger, generate_summary, the writers).   *)
THEOREM LedgerRemembered == Spec => []LedgerFollows
<1>1. IInv => LedgerFollows
  BY DEF IInv
<1> QED BY InitIInv, NextIInv, <1>1, PTL DEF Spec

(* A completed chapter has the text that was completed (finish_ledger,      *)
(* invalidate_summary and every way of replacing the text).                 *)
THEOREM CompletedTextStands == Spec => []CompletedStands
<1>1. IInv => CompletedStands
  BY DEF IInv
<1> QED BY InitIInv, NextIInv, <1>1, PTL DEF Spec

(* Every writer that replaces the text had read the text it replaces        *)
(* (update_document, create_version, restore_version, accept).              *)
THEOREM ReadBeforeWritten == Spec => NoLostText
  BY TextStep, PTL DEF Spec, NoLostText

(* The author's summary of the present text is not put aside by a job that  *)
(* ends while it is edited (publish_summary, current_summary).              *)
THEOREM AuthorsSummaryStays == Spec => EditsKept
<1>1. IInv /\ [Next]_vars =>
        \A i \in Valid : i = Latest /\ sums[i].origin = "author_edited" /\ sums'[i].status # "valid"
                         => sums[i].text # doc.text \/ doc'.text # doc.text
  BY SummaryStep
<1> QED BY InitIInv, NextIInv, <1>1, PTL DEF Spec, EditsKept
=============================================================================
