----------------------------- MODULE Quality_proofs -----------------------------
(***************************************************************************)
(* What quality runs keep, for any chapters, texts and number of runs,     *)
(* requests and process deaths.                                            *)
(*                                                                         *)
(* The argument: nothing the executor knows survives a replay but the      *)
(* answers, and they are never changed, one for each stage of a chapter.   *)
(* So a text counts as judged (Judged) by looking at the answers alone,    *)
(* there is at most one judged text of a chapter, and whatever is decided, *)
(* saved, handed over or adopted as a whole is that text.                  *)
(***************************************************************************)
EXTENDS Quality, TLAPS, FiniteSetTheorems, WellFoundedInduction

PCs == {"idle", "next", "write", "hand", "review", "send", "rewrite", "resubmit", "final",
        "judge", "keep", "hold", "raised"}
ItemRow  == [chapter : Chapters, text : Texts, reviewed : BOOLEAN,
             status : {"writing", "reviewing", "rewriting", "needs_review", "ready"}]
Snapshot == [chapter : Chapters, text : Texts, rev : Nat, version : Nat]
AnswerRow == [key : Nat \X Stages, input : [text : Texts, before : Texts],
              text : Texts, good : BOOLEAN]
Adoption == [version : Nat, text : Texts, whole : BOOLEAN]
RunRow ==
    [status : Open \cup {"succeeded", "failed", "cancelled"},
     reason : {"none", "review", "other"}, polish : BOOLEAN, material : Nat,
     source : Seq(Snapshot), saved : Seq(ItemRow), answers : SUBSET AnswerRow,
     approvals : SUBSET [k : Nat, text : Texts], accepted : Seq(Adoption)]
HandRow == [run : Nat, pc : PCs, result : Seq(ItemRow), good : BOOLEAN,
            why : {"none", "guard", "stage", "review"}]

-----------------------------------------------------------------------------
(* What a set A of answers says of the k-th text of a run.                  *)

Of(A, k, stage) == {a \in A : a.key = <<k, stage>>}
Faulted(A, k)      == \E b \in Of(A, k, "review") : ~b.good
Rewritten(A, k, t) == Faulted(A, k) /\ \E c \in Of(A, k, "rewrite") : c.text = t
Judged(A, k, t) ==
    \/ \E b \in Of(A, k, "review") : b.good /\ b.input.text = t
    \/ Rewritten(A, k, t) /\ \E d \in Of(A, k, "final") : d.input.text = t

AnswersOK(A) ==
    /\ \A a, b \in A : a.key = b.key => a = b
    /\ \A d \in A : d.key[2] = "final" => Rewritten(A, d.key[1], d.input.text)
    /\ \A a \in A : a.key[1] >= 2 => Judged(A, a.key[1] - 1, a.input.before)
JudgedItems(A, items) ==
    \A k \in 1..Len(items) : Decided(items[k]) => Judged(A, k, items[k].text)
AdoptionsOK(x) ==
    /\ Len(x.accepted) = Len(x.source)
    /\ \A k \in 1..Len(x.accepted) : LET a == x.accepted[k] IN
          /\ a.whole /\ a # NoAnswer => Judged(x.answers, k, a.text)
          /\ ~x.polish => a.whole
RunOK(x) ==
    /\ AnswersOK(x.answers) /\ JudgedItems(x.answers, x.saved) /\ AdoptionsOK(x)
    /\ Len(x.saved) <= Len(x.source)
    /\ x.polish => Len(x.source) = 1

(* What the executor has rebuilt, from the same answers. *)
InChapter == {"write", "hand", "review", "send", "rewrite", "resubmit", "final", "judge"}
HandOK(x, h) ==
    LET n == Len(h.result) IN
    /\ n <= Len(x.source) /\ JudgedItems(x.answers, h.result)
    /\ \A k \in 1..n : k < n => Decided(h.result[k])
    /\ h.pc \in {"next", "keep", "hold"} /\ n >= 1 => Decided(h.result[n])
    /\ h.pc \in InChapter \cup {"keep", "hold"} => n >= 1
    /\ h.pc \in InChapter => ~Decided(h.result[n])
    /\ h.pc \in {"send", "rewrite"} => Faulted(x.answers, n)
    /\ h.pc \in {"resubmit", "final"} => Rewritten(x.answers, n, h.result[n].text)
    /\ h.pc = "judge" => Judged(x.answers, n, h.result[n].text)

Types ==
    /\ doc \in [Chapters -> [text : Texts, rev : Nat, version : Nat]]
    /\ material \in Nat /\ ours \in BOOLEAN /\ acts \in Nat
    /\ runs \in Seq(RunRow) /\ w \in HandRow
    /\ writing \in [Chapters -> {"none", "open", "failed"}]
RunsOK == \A r \in DOMAIN runs : RunOK(runs[r])
Working ==
    /\ w.pc = "idle" => w = Idle
    /\ w.pc # "idle" => /\ w.run \in DOMAIN runs
                        /\ runs[w.run].status \in {"running", "cancel_requested"}
                        /\ HandOK(runs[w.run], w)
IInv == Types /\ RunsOK /\ Working /\ OneHand

-----------------------------------------------------------------------------
(* The answers.                                                             *)

(* There is one judged text of a chapter. *)
LEMMA JudgedOnce ==
  ASSUME NEW A, AnswersOK(A), NEW k, NEW t, NEW u, Judged(A, k, t), Judged(A, k, u)
  PROVE  t = u
<1>1. \A a, b \in A : a.key = b.key => a = b
  BY DEF AnswersOK
<1>2. \A stage : \A a, b \in Of(A, k, stage) : a = b
  BY <1>1 DEF Of
<1>3. \/ \E b \in Of(A, k, "review") : b.good /\ b.input.text = t
      \/ \E b \in Of(A, k, "review"), c \in Of(A, k, "rewrite") : ~b.good /\ c.text = t
  BY DEF Judged, Rewritten, Faulted
<1>4. \/ \E b \in Of(A, k, "review") : b.good /\ b.input.text = u
      \/ \E b \in Of(A, k, "review"), c \in Of(A, k, "rewrite") : ~b.good /\ c.text = u
  BY DEF Judged, Rewritten, Faulted
<1> QED BY <1>2, <1>3, <1>4

(* What is said of a text stays said when answers are added. *)
LEMMA JudgedStays ==
  ASSUME NEW A, NEW B, A \subseteq B, NEW k, NEW t
  PROVE  /\ Faulted(A, k) => Faulted(B, k)
         /\ Rewritten(A, k, t) => Rewritten(B, k, t)
         /\ Judged(A, k, t) => Judged(B, k, t)
<1>1. \A stage : Of(A, k, stage) \subseteq Of(B, k, stage)
  BY DEF Of
<1>2. Faulted(A, k) => Faulted(B, k)
  BY <1>1 DEF Faulted
<1>3. Rewritten(A, k, t) => Rewritten(B, k, t)
  BY <1>1, <1>2 DEF Rewritten
<1> QED BY <1>1, <1>2, <1>3 DEF Judged

LEMMA ItemsStay ==
  ASSUME NEW A, NEW B, A \subseteq B, NEW items, JudgedItems(A, items)
  PROVE  JudgedItems(B, items)
  BY JudgedStays DEF JudgedItems

-----------------------------------------------------------------------------
(* How far a result is.                                                     *)

LEMMA PhaseOf ==
  ASSUME NEW i \in ItemRow
  PROVE  /\ Phase(i) \in 0..5
         /\ Decided(i) => Phase(i) >= 4
         /\ ~Decided(i) => Phase(i) <= 3
  BY DEF ItemRow, Phase, Decided

LEMMA ProgressOf ==
  ASSUME NEW s \in Seq(ItemRow)
  PROVE  /\ Progress(s) \in Nat
         /\ Len(s) = 0 => Progress(s) = 0
         /\ Len(s) > 0 => Progress(s) = 10 * Len(s) + Phase(s[Len(s)])
<1>1. CASE s = <<>>
  BY <1>1 DEF Progress
<1>2. CASE s # <<>>
  <2>1. Len(s) \in Nat /\ Len(s) > 0
    BY <1>2
  <2>2. s[Len(s)] \in ItemRow
    BY <2>1
  <2>3. Progress(s) = 10 * Len(s) + Phase(s[Len(s)])
    BY <1>2 DEF Progress
  <2> QED BY <2>1, <2>2, <2>3, PhaseOf
<1> QED BY <1>1, <1>2

LEMMA Further ==
  ASSUME NEW s \in Seq(ItemRow), NEW t \in Seq(ItemRow), Keeps(t, s)
  PROVE  /\ Len(s) <= Len(t)
         /\ Len(s) = Len(t) /\ Len(s) > 0 /\ Decided(s[Len(s)]) => Decided(t[Len(t)])
<1>1. Len(s) \in Nat /\ Len(t) \in Nat
  OBVIOUS
<1>2. Progress(t) >= Progress(s)
  BY DEF Keeps
<1>3. Len(s) > 0 => s[Len(s)] \in ItemRow
  BY <1>1
<1>4. Len(t) > 0 => t[Len(t)] \in ItemRow
  BY <1>1
<1> DEFINE p == Phase(s[Len(s)])
           q == Phase(t[Len(t)])
<1>5. Len(s) > 0 => p \in 0..5 /\ (Decided(s[Len(s)]) => p >= 4)
  BY <1>3, PhaseOf
<1>6. Len(t) > 0 => q \in 0..5 /\ (~Decided(t[Len(t)]) => q <= 3)
  BY <1>4, PhaseOf
<1>7. /\ Len(s) > 0 => Progress(s) = 10 * Len(s) + p
      /\ Len(t) > 0 => Progress(t) = 10 * Len(t) + q
      /\ Len(t) = 0 => Progress(t) = 0
  BY ProgressOf
<1> HIDE DEF p, q
<1> QED BY <1>1, <1>2, <1>5, <1>6, <1>7

-----------------------------------------------------------------------------
(* Changes of one run.                                                      *)

LEMMA Rows ==
  ASSUME Types, NEW r \in DOMAIN runs
  PROVE  /\ DOMAIN runs = 1..Len(runs) /\ Len(runs) \in Nat /\ runs[r] \in RunRow
         /\ \A k \in 1..Len(runs[r].source) : runs[r].source[k] \in Snapshot
<1>1. runs \in Seq(RunRow)
  BY DEF Types
<1>2. DOMAIN runs = 1..Len(runs) /\ Len(runs) \in Nat /\ runs[r] \in RunRow
  BY <1>1
<1>3. runs[r].source \in Seq(Snapshot)
  BY <1>2 DEF RunRow
<1> QED BY <1>2, <1>3

LEMMA Replaced ==
  ASSUME Types, NEW r \in DOMAIN runs, NEW y \in RunRow, Change(r, y)
  PROVE  /\ runs' \in Seq(RunRow) /\ DOMAIN runs' = DOMAIN runs /\ runs'[r] = y
         /\ \A s \in DOMAIN runs : s # r => runs'[s] = runs[s]
<1>1. runs \in Seq(RunRow) /\ r \in 1..Len(runs) /\ runs' = [runs EXCEPT ![r] = y]
  BY Rows DEF Types, Change
<1> QED BY <1>1

LEMMA OneHandKept ==
  ASSUME Types, OneHand, NEW r \in DOMAIN runs, NEW y \in RunRow, Change(r, y),
         y.source = runs[r].source, y.status \in Open => runs[r].status \in Open,
         writing' = writing
  PROVE  OneHand'
<1>1. \A s \in DOMAIN runs : /\ runs'[s].source = runs[s].source
                             /\ runs'[s].status \in Open => runs[s].status \in Open
  BY Replaced
<1>2. DOMAIN runs' = DOMAIN runs
  BY Replaced
<1>3. OpenRuns' \subseteq OpenRuns /\ OpenRuns \subseteq DOMAIN runs
  BY <1>1, <1>2 DEF OpenRuns
<1>4. \A s \in DOMAIN runs : Involved(s)' = Involved(s)
  BY <1>1 DEF Involved, Size, Chapter
<1> QED BY <1>3, <1>4 DEF OneHand

(* The executor changes the run it works on, and goes on or is done. *)
LEMMA ExecutorStep ==
  ASSUME IInv, w.pc # "idle", NEW y \in RunRow, RunOK(y), y.source = Run.source,
         Change(w.run, y), Quietly, w' \in HandRow,
         \/ w' = Idle
         \/ /\ w'.run = w.run /\ w'.pc # "idle" /\ HandOK(y, w')
            /\ y.status \in {"running", "cancel_requested"}
  PROVE  IInv'
<1>1. Types /\ RunsOK /\ Working /\ OneHand
  BY DEF IInv
<1>2. w.run \in DOMAIN runs /\ Run.status \in Open
  BY <1>1 DEF Working, Run, Open
<1>3. Types'
  BY <1>1, <1>2, Replaced DEF Types, Quietly, book
<1>4. RunsOK'
  BY <1>1, <1>2, Replaced DEF RunsOK
<1>5. Working'
  <2>1. CASE w' = Idle
    BY <2>1 DEF Working, Idle
  <2>2. CASE w'.run = w.run /\ w'.pc # "idle"
    BY <2>2, <1>1, <1>2, Replaced DEF Working, Idle
  <2> QED BY <2>1, <2>2
<1>6. OneHand'
  BY <1>1, <1>2, OneHandKept DEF Quietly, Run
<1> QED BY <1>3, <1>4, <1>5, <1>6 DEF IInv

(* ...or only moves. *)
LEMMA ExecutorMoves ==
  ASSUME IInv, w.pc # "idle", UNCHANGED runs, Quietly, w' \in HandRow,
         w'.run = w.run, w'.pc # "idle", HandOK(Run, w')
  PROVE  IInv'
<1>1. Types /\ RunsOK /\ Working /\ OneHand
  BY DEF IInv
<1>2. w.run \in DOMAIN runs /\ Run.status \in {"running", "cancel_requested"}
  BY <1>1 DEF Working, Run
<1>3. Types'
  BY <1>1 DEF Types, Quietly, book
<1>4. RunsOK' /\ Working'
  BY <1>1, <1>2 DEF RunsOK, Working, Run
<1>5. OneHand'
  BY <1>1 DEF OneHand, OpenRuns, Involved, Size, Chapter, Quietly
<1> QED BY <1>3, <1>4, <1>5 DEF IInv

LEMMA Raises ==
  ASSUME IInv, w.pc # "idle", NEW why \in {"guard", "stage", "review"},
         Raise(why), UNCHANGED runs, Quietly
  PROVE  IInv'
<1>1. w \in HandRow /\ HandOK(Run, w)
  BY DEF IInv, Types, Working, Run
<1>2. /\ w' \in HandRow /\ w'.run = w.run /\ w'.pc = "raised" /\ w'.result = w.result
  BY <1>1 DEF Raise, HandRow, PCs
<1>3. HandOK(Run, w')
  BY <1>1, <1>2 DEF HandOK, InChapter
<1> QED BY <1>2, <1>3, ExecutorMoves

LEMMA AtWork ==
  ASSUME IInv, w.pc # "idle"
  PROVE  /\ Types /\ w \in HandRow /\ w.run \in DOMAIN runs
         /\ Run \in RunRow /\ Run = runs[w.run] /\ RunOK(Run) /\ HandOK(Run, w)
         /\ Run.status \in {"running", "cancel_requested"}
         /\ w.result \in Seq(ItemRow) /\ Last \in Nat
         /\ \A k \in 1..Last : w.result[k] \in ItemRow
<1>1. Types /\ RunsOK /\ Working
  BY DEF IInv
<1>2. w \in HandRow /\ w.run \in DOMAIN runs /\ Run = runs[w.run]
  BY <1>1 DEF Types, Working, Run
<1>3. w.result \in Seq(ItemRow)
  BY <1>2 DEF HandRow
<1>4. Last \in Nat /\ \A k \in 1..Last : w.result[k] \in ItemRow
  BY <1>3 DEF Last
<1> QED BY <1>1, <1>2, <1>3, <1>4, Rows DEF RunsOK, Working

LEMMA Saved ==
  ASSUME NEW x \in RunRow, RunOK(x), NEW items \in Seq(ItemRow),
         Len(items) <= Len(x.source), JudgedItems(x.answers, items),
         NEW y, y = [x EXCEPT !.saved = items]
  PROVE  y \in RunRow /\ RunOK(y) /\ y.source = x.source /\ y.answers = x.answers
<1>1. /\ y \in RunRow /\ y.saved = items /\ y.source = x.source /\ y.answers = x.answers
      /\ y.accepted = x.accepted /\ y.polish = x.polish
  BY DEF RunRow
<1>2. RunOK(y)
  BY <1>1 DEF RunOK, AdoptionsOK
<1> QED BY <1>1, <1>2

LEMMA Persists ==
  ASSUME IInv, w.pc # "idle", NEW items \in Seq(ItemRow), NEW pc \in PCs \ {"idle"},
         Persist(items, pc), HandOK(Run, [w EXCEPT !.result = items, !.pc = pc])
  PROVE  IInv'
<1> DEFINE h == [w EXCEPT !.result = items, !.pc = pc]
           kept == IF Keeps(items, Run.saved) THEN items ELSE Run.saved
           y == [Run EXCEPT !.saved = kept]
<1>1. /\ Run \in RunRow /\ RunOK(Run) /\ w \in HandRow
      /\ Run.status \in {"running", "cancel_requested"}
  BY AtWork
<1>2. h \in HandRow /\ h.run = w.run /\ h.pc = pc /\ h.result = items
  BY <1>1 DEF HandRow
<1>3. CASE Sound
  <2>1. kept \in Seq(ItemRow) /\ Len(kept) <= Len(Run.source) /\ JudgedItems(Run.answers, kept)
    <3>1. Run.saved \in Seq(ItemRow)
      BY <1>1 DEF RunRow
    <3>2. Len(items) <= Len(Run.source) /\ JudgedItems(Run.answers, items)
      BY <1>2 DEF HandOK
    <3> QED BY <1>1, <3>1, <3>2 DEF RunOK
  <2>2. y \in RunRow /\ RunOK(y) /\ y.source = Run.source /\ y.answers = Run.answers
    BY <1>1, <2>1, Saved
  <2>3. y.status = Run.status
    BY <1>1 DEF RunRow
  <2>4. HandOK(y, h)
    BY <2>2 DEF HandOK
  <2>5. Change(w.run, y) /\ w' = h /\ Quietly
    BY <1>3 DEF Persist, Saving
  <2> HIDE DEF y, h
  <2> QED BY <1>1, <1>2, <2>2, <2>3, <2>4, <2>5, ExecutorStep
<1>4. CASE ~Sound
  BY <1>4, Raises DEF Persist
<1> QED BY <1>3, <1>4

(* One more answer, or one that was there. *)
LEMMA Answered ==
  ASSUME IInv, w.pc # "idle", w.pc \in Stages, NEW a \in AnswerRow,
         a \in Run.answers \/ Known(w.pc) = {},
         a.key = Key(w.pc), a.input = Input,
         NEW y, y = [Run EXCEPT !.answers = @ \cup {a}]
  PROVE  /\ y \in RunRow /\ RunOK(y) /\ y.source = Run.source /\ y.status = Run.status
         /\ y.answers = Run.answers \cup {a} /\ JudgedItems(y.answers, w.result)
<1> DEFINE A == Run.answers
           B == A \cup {a}
<1>1. /\ Run \in RunRow /\ RunOK(Run) /\ HandOK(Run, w) /\ Last \in Nat
      /\ \A k \in 1..Last : w.result[k] \in ItemRow
  BY AtWork
<1>2. /\ y \in RunRow /\ y.source = Run.source /\ y.status = Run.status /\ y.answers = B
      /\ y.saved = Run.saved /\ y.accepted = Run.accepted /\ y.polish = Run.polish
  BY <1>1 DEF RunRow
<1>3. A \subseteq B /\ A \in SUBSET AnswerRow
  BY <1>1 DEF RunRow
<1>4. a.key[1] = Last /\ a.key[2] = w.pc
  BY DEF Key
<1>5. AnswersOK(B)
  <2>1. AnswersOK(A)
    BY <1>1 DEF RunOK
  <2>2. \A b \in B : \A c \in B : b.key = c.key => b = c
    <3>1. a \notin A => \A b \in A : b.key # a.key
      BY DEF Known
    <3> QED BY <2>1, <3>1 DEF AnswersOK
  <2>3. \A d \in B : d.key[2] = "final" => Rewritten(B, d.key[1], d.input.text)
    <3>1. w.pc = "final" => Rewritten(A, Last, a.input.text)
      BY <1>1 DEF HandOK, Input, Item, Last
    <3> QED BY <1>3, <1>4, <2>1, <3>1, JudgedStays DEF AnswersOK
  <2>4. \A b \in B : b.key[1] >= 2 => Judged(B, b.key[1] - 1, b.input.before)
    <3>1. Last >= 2 => Judged(A, Last - 1, a.input.before)
      <4>1. ASSUME Last >= 2 PROVE Judged(A, Last - 1, w.result[Last - 1].text)
        <5>1. Last - 1 \in 1..Last /\ Last - 1 < Last
          BY <4>1, <1>1
        <5> QED BY <5>1, <1>1 DEF HandOK, JudgedItems, Last
      <4> QED BY <4>1, <1>1 DEF Input
    <3> QED BY <1>3, <1>4, <2>1, <3>1, JudgedStays DEF AnswersOK
  <2> QED BY <2>2, <2>3, <2>4 DEF AnswersOK
<1>6. JudgedItems(B, Run.saved) /\ JudgedItems(B, w.result)
  BY <1>1, <1>3, ItemsStay DEF RunOK, HandOK
<1>7. AdoptionsOK(y)
  <2>1. AdoptionsOK(Run)
    BY <1>1 DEF RunOK
  <2> QED BY <2>1, <1>2, <1>3, JudgedStays DEF AdoptionsOK
<1>8. RunOK(y)
  BY <1>1, <1>2, <1>5, <1>6, <1>7 DEF RunOK
<1> QED BY <1>2, <1>6, <1>8

-----------------------------------------------------------------------------
(* The executor.                                                            *)

LEMMA StageStep ==
  ASSUME IInv, w.pc # "idle", w.pc \in Stages, NEW a \in AnswerRow,
         a \in Run.answers \/ Known(w.pc) = {}, a.key = Key(w.pc),
         NEW h \in HandRow, Answer(w.pc, a, h), Quietly,
         h.run = w.run, h.pc # "idle",
         HandOK([Run EXCEPT !.answers = @ \cup {a}], h)
  PROVE  IInv'
<1> DEFINE y == [Run EXCEPT !.answers = @ \cup {a}]
<1>1. a.input = Input /\ w' = h /\ Change(w.run, y)
  BY DEF Answer
<1>2. y \in RunRow /\ RunOK(y) /\ y.source = Run.source /\ y.status = Run.status
  BY <1>1, Answered
<1>3. Run.status \in {"running", "cancel_requested"}
  BY AtWork
<1> HIDE DEF y
<1> QED BY <1>1, <1>2, <1>3, ExecutorStep DEF y

(* What a stage is answered, by the model or by an earlier pass. *)
LEMMA Replied ==
  ASSUME IInv, w.pc # "idle", w.pc \in Stages, NEW a,
         a \in IF Known(w.pc) # {} THEN Known(w.pc) ELSE Replies(w.pc)
  PROVE  /\ a \in AnswerRow /\ a.key = Key(w.pc)
         /\ a \in Run.answers \/ Known(w.pc) = {}
<1>1. /\ Run \in RunRow /\ HandOK(Run, w) /\ Last \in Nat
      /\ \A k \in 1..Last : w.result[k] \in ItemRow
  BY AtWork
<1>2. CASE a \in Known(w.pc)
  BY <1>1, <1>2 DEF Known, RunRow
<1>3. CASE a \in Replies(w.pc) /\ Known(w.pc) = {}
  <2>1. Last >= 1
    BY <1>1 DEF HandOK, InChapter, Stages, Last
  <2>2. Item.text \in Texts
    BY <1>1, <2>1 DEF Item, ItemRow
  <2>3. Last > 1 => w.result[Last - 1].text \in Texts
    <3>1. Last > 1 => Last - 1 \in 1..Last
      BY <1>1
    <3> QED BY <1>1, <3>1 DEF ItemRow
  <2>4. Input \in [text : Texts, before : Texts]
    BY <2>2, <2>3, QualityAssumption DEF Input
  <2>5. Key(w.pc) \in Nat \X Stages
    BY <1>1 DEF Key
  <2> QED BY <1>3, <2>2, <2>4, <2>5 DEF Replies, AnswerRow
<1> QED BY <1>2, <1>3

(* The chapter under way becomes another item. *)
Chapterwise(B, item, pc, h) ==
    /\ h \in HandRow /\ h.run = w.run /\ h.pc = pc /\ Last <= Len(Run.source)
    /\ Len(h.result) = Last /\ h.result[Last] = item /\ h.result \in Seq(ItemRow)
    /\ JudgedItems(B, h.result)
    /\ \A k \in 1..Last : k < Last => Decided(h.result[k])
LEMMA Becomes ==
  ASSUME IInv, w.pc # "idle", Last >= 1, NEW B, Run.answers \subseteq B,
         NEW item \in ItemRow, NEW pc \in PCs \ {"idle"},
         Decided(item) => Judged(B, Last, item.text)
  PROVE  Chapterwise(B, item, pc, Become(item, pc))
<1>1. /\ w \in HandRow /\ HandOK(Run, w) /\ Last \in Nat /\ w.result \in Seq(ItemRow)
  BY AtWork
<1> DEFINE items == [w.result EXCEPT ![Last] = item]
           h == Become(item, pc)
<1>2. /\ items \in Seq(ItemRow) /\ Len(items) = Last /\ items[Last] = item
      /\ \A k \in 1..Last : k # Last => items[k] = w.result[k]
  BY <1>1 DEF Last
<1>3. h \in HandRow /\ h.run = w.run /\ h.pc = pc /\ h.result = items
  BY <1>1, <1>2 DEF Become, HandRow
<1>4. JudgedItems(B, w.result)
  BY <1>1, ItemsStay DEF HandOK
<1>5. JudgedItems(B, items)
  BY <1>2, <1>4 DEF JudgedItems, Last
<1>6. \A k \in 1..Last : k < Last => Decided(items[k])
  BY <1>1, <1>2 DEF HandOK, Last
<1>7. Last <= Len(Run.source)
  BY <1>1 DEF HandOK, Last
<1> HIDE DEF items, h
<1>8. Chapterwise(B, item, pc, h)
  BY <1>2, <1>3, <1>5, <1>6, <1>7 DEF Chapterwise
<1> QED BY <1>8 DEF h

LEMMA Writes == ASSUME IInv, Write PROVE IInv'
<1>1. w.pc = "write" /\ w.pc # "idle" /\ w.pc \in Stages /\ Quietly
  BY DEF Write, Stage, At, Stages
<1>2. CASE Raise("guard") /\ UNCHANGED runs
  BY <1>1, <1>2, Raises
<1>3. CASE Raise("stage") /\ UNCHANGED runs
  BY <1>1, <1>3, Raises
<1>4. CASE \E a \in IF Known("write") # {} THEN Known("write") ELSE Replies("write") :
             Answer("write", a, Become([Item EXCEPT !.text = a.text, !.status = "reviewing"], "hand"))
  <2> DEFINE new(a) == [Item EXCEPT !.text = a.text, !.status = "reviewing"]
  <2>1. PICK a \in IF Known(w.pc) # {} THEN Known(w.pc) ELSE Replies(w.pc) :
               Answer(w.pc, a, Become(new(a), "hand"))
    BY <1>1, <1>4
  <2>2. /\ a \in AnswerRow /\ a.key = Key(w.pc) /\ a.key = <<Last, "write">>
        /\ a \in Run.answers \/ Known(w.pc) = {}
    BY <1>1, <2>1, Replied DEF Key
  <2>3. /\ Run \in RunRow /\ w \in HandRow /\ HandOK(Run, w) /\ Last \in Nat /\ Last >= 1
        /\ Item \in ItemRow /\ ~Decided(Item)
    BY <1>1, AtWork DEF HandOK, InChapter, Item, Last
  <2> DEFINE y == [Run EXCEPT !.answers = @ \cup {a}]
  <2>4. y.answers = Run.answers \cup {a} /\ y.source = Run.source
    BY <2>3 DEF RunRow
  <2> DEFINE item == new(a)
           h == Become(item, "hand")
  <2>5. item \in ItemRow /\ ~Decided(item) /\ item.text = a.text /\ h = Become(item, "hand")
        /\ Run.answers \subseteq y.answers /\ "hand" \in PCs \ {"idle"}
    BY <2>4, <2>2, <2>3 DEF ItemRow, AnswerRow, Decided, PCs
  <2>6. Chapterwise(y.answers, item, "hand", h)
    <3> HIDE DEF item, h, y
    <3>1. Chapterwise(y.answers, item, "hand", Become(item, "hand"))
      BY <1>1, <2>3, <2>5, Becomes
    <3> QED BY <2>5, <3>1
  <2>8. HandOK(y, h)
    <3> HIDE DEF item, h, y
    <3> QED BY <2>3, <2>4, <2>5, <2>6 DEF HandOK, InChapter, Chapterwise
  <2>9. Answer(w.pc, a, h)
    BY <2>1
  <2> HIDE DEF item, h
  <2> QED BY <1>1, <2>2, <2>6, <2>8, <2>9, StageStep DEF Chapterwise
<1> QED BY <1>2, <1>3, <1>4 DEF Write, Stage

LEMMA Rewrites == ASSUME IInv, Rewrite PROVE IInv'
<1>1. w.pc = "rewrite" /\ w.pc # "idle" /\ w.pc \in Stages /\ Quietly
  BY DEF Rewrite, Stage, At, Stages
<1>2. CASE Raise("guard") /\ UNCHANGED runs
  BY <1>1, <1>2, Raises
<1>3. CASE Raise("stage") /\ UNCHANGED runs
  BY <1>1, <1>3, Raises
<1>4. CASE \E a \in IF Known("rewrite") # {} THEN Known("rewrite") ELSE Replies("rewrite") :
             Answer("rewrite", a, Become([Item EXCEPT !.text = a.text, !.status = "reviewing"], "resubmit"))
  <2> DEFINE new(a) == [Item EXCEPT !.text = a.text, !.status = "reviewing"]
  <2>1. PICK a \in IF Known(w.pc) # {} THEN Known(w.pc) ELSE Replies(w.pc) :
               Answer(w.pc, a, Become(new(a), "resubmit"))
    BY <1>1, <1>4
  <2>2. /\ a \in AnswerRow /\ a.key = Key(w.pc) /\ a.key = <<Last, "rewrite">>
        /\ a \in Run.answers \/ Known(w.pc) = {}
    BY <1>1, <2>1, Replied DEF Key
  <2>3. /\ Run \in RunRow /\ w \in HandRow /\ HandOK(Run, w) /\ Last \in Nat /\ Last >= 1
        /\ Item \in ItemRow /\ ~Decided(Item)
    BY <1>1, AtWork DEF HandOK, InChapter, Item, Last
  <2> DEFINE y == [Run EXCEPT !.answers = @ \cup {a}]
  <2>4. y.answers = Run.answers \cup {a} /\ y.source = Run.source
    BY <2>3 DEF RunRow
  <2> DEFINE item == new(a)
           h == Become(item, "resubmit")
  <2>5. item \in ItemRow /\ ~Decided(item) /\ item.text = a.text /\ h = Become(item, "resubmit")
        /\ Run.answers \subseteq y.answers /\ "resubmit" \in PCs \ {"idle"}
    BY <2>4, <2>2, <2>3 DEF ItemRow, AnswerRow, Decided, PCs
  <2>6. Chapterwise(y.answers, item, "resubmit", h)
    <3> HIDE DEF item, h, y
    <3>1. Chapterwise(y.answers, item, "resubmit", Become(item, "resubmit"))
      BY <1>1, <2>3, <2>5, Becomes
    <3> QED BY <2>5, <3>1
  <2>7. Rewritten(y.answers, Last, a.text)
    <3>1. Faulted(Run.answers, Last)
      BY <1>1, <2>3 DEF HandOK, Last
    <3>2. Faulted(y.answers, Last)
      BY <2>4, <3>1, JudgedStays
    <3> QED BY <2>2, <2>4, <3>2 DEF Rewritten, Of
  <2>8. HandOK(y, h)
    <3> HIDE DEF item, h, y
    <3> QED BY <2>3, <2>4, <2>5, <2>6, <2>7 DEF HandOK, InChapter, Chapterwise
  <2>9. Answer(w.pc, a, h)
    BY <2>1
  <2> HIDE DEF item, h
  <2> QED BY <1>1, <2>2, <2>6, <2>8, <2>9, StageStep DEF Chapterwise
<1> QED BY <1>2, <1>3, <1>4 DEF Rewrite, Stage

LEMMA FinallyReviews == ASSUME IInv, FinalReview PROVE IInv'
<1>1. w.pc = "final" /\ w.pc # "idle" /\ w.pc \in Stages /\ Quietly
  BY DEF FinalReview, Stage, At, Stages
<1>2. CASE Raise("guard") /\ UNCHANGED runs
  BY <1>1, <1>2, Raises
<1>3. CASE Raise("stage") /\ UNCHANGED runs
  BY <1>1, <1>3, Raises
<1>4. CASE \E a \in IF Known("final") # {} THEN Known("final") ELSE Replies("final") :
             Answer("final", a, [w EXCEPT !.pc = "judge", !.good = a.good])
  <2>1. PICK a \in IF Known(w.pc) # {} THEN Known(w.pc) ELSE Replies(w.pc) :
               Answer(w.pc, a, [w EXCEPT !.pc = "judge", !.good = a.good])
    BY <1>1, <1>4
  <2>2. /\ a \in AnswerRow /\ a.key = Key(w.pc) /\ a.key = <<Last, "final">>
        /\ a \in Run.answers \/ Known(w.pc) = {}
    BY <1>1, <2>1, Replied DEF Key
  <2>3. /\ Run \in RunRow /\ w \in HandRow /\ HandOK(Run, w) /\ Last \in Nat /\ Last >= 1
        /\ Item \in ItemRow /\ ~Decided(Item)
    BY <1>1, AtWork DEF HandOK, InChapter, Item, Last
  <2> DEFINE y == [Run EXCEPT !.answers = @ \cup {a}]
  <2>4. y.answers = Run.answers \cup {a} /\ y.source = Run.source
    BY <2>3 DEF RunRow
  <2> DEFINE h == [w EXCEPT !.pc = "judge", !.good = a.good]
  <2>5. h \in HandRow /\ h.run = w.run /\ h.pc = "judge" /\ h.result = w.result
    BY <2>2, <2>3 DEF HandRow, AnswerRow, PCs
  <2>6. a.input = Input
    BY <2>1 DEF Answer
  <2>7. Judged(y.answers, Last, Item.text)
    <3>1. Rewritten(Run.answers, Last, Item.text)
      BY <1>1, <2>3 DEF HandOK, Item, Last
    <3>2. Rewritten(y.answers, Last, Item.text)
      BY <2>4, <3>1, JudgedStays
    <3> QED BY <2>2, <2>4, <2>6, <3>2 DEF Judged, Of, Input
  <2>8. JudgedItems(y.answers, w.result)
    BY <2>3, <2>4, ItemsStay DEF HandOK
  <2>9. HandOK(y, h)
    <3> HIDE DEF h, y
    <3> QED BY <1>1, <2>3, <2>4, <2>5, <2>7, <2>8 DEF HandOK, InChapter, Item, Last
  <2>10. Answer(w.pc, a, h)
    BY <2>1
  <2> HIDE DEF h
  <2> QED BY <1>1, <2>2, <2>5, <2>9, <2>10, StageStep
<1> QED BY <1>2, <1>3, <1>4 DEF FinalReview, Stage

LEMMA Reviews == ASSUME IInv, Review PROVE IInv'
<1> DEFINE passed == [Item EXCEPT !.reviewed = TRUE]
           failed == [Item EXCEPT !.reviewed = TRUE, !.status = "rewriting"]
           accepted == [Become(passed, "judge") EXCEPT !.good = TRUE]
           next(a) == IF a.good THEN accepted ELSE Become(failed, "send")
<1>1. w.pc = "review" /\ w.pc # "idle" /\ w.pc \in Stages /\ Quietly
  BY DEF Review, Stage, At, Stages
<1>2. CASE Raise("guard") /\ UNCHANGED runs
  BY <1>1, <1>2, Raises
<1>3. CASE Raise("stage") /\ UNCHANGED runs
  BY <1>1, <1>3, Raises
<1>4. CASE \E a \in IF Known("review") # {} THEN Known("review") ELSE Replies("review") :
             Answer("review", a, next(a))
  <2>1. PICK a \in IF Known(w.pc) # {} THEN Known(w.pc) ELSE Replies(w.pc) :
               Answer(w.pc, a, next(a))
    BY <1>1, <1>4
  <2>2. /\ a \in AnswerRow /\ a.key = Key(w.pc) /\ a.key = <<Last, "review">>
        /\ a \in Run.answers \/ Known(w.pc) = {}
        /\ a.input.text = Item.text
    BY <1>1, <2>1, Replied DEF Key, Answer, Input
  <2>3. /\ Run \in RunRow /\ w \in HandRow /\ HandOK(Run, w) /\ Last \in Nat /\ Last >= 1
        /\ Item \in ItemRow /\ ~Decided(Item)
    BY <1>1, AtWork DEF HandOK, InChapter, Item, Last
  <2> DEFINE y == [Run EXCEPT !.answers = @ \cup {a}]
  <2>4. /\ y.answers = Run.answers \cup {a} /\ y.source = Run.source
        /\ Run.answers \subseteq y.answers /\ a \in Of(y.answers, Last, "review")
    BY <2>2, <2>3 DEF RunRow, Of
  <2>5. /\ passed \in ItemRow /\ ~Decided(passed) /\ passed.text = Item.text
        /\ failed \in ItemRow /\ ~Decided(failed)
        /\ {"judge", "send"} \subseteq PCs \ {"idle"}
    BY <2>3 DEF ItemRow, Decided, PCs
  <2>6. CASE a.good
    <3>1. Chapterwise(y.answers, passed, "judge", Become(passed, "judge"))
      <4> HIDE DEF passed, y
      <4> QED BY <1>1, <2>3, <2>4, <2>5, Becomes
    <3>2. Judged(y.answers, Last, passed.text)
      BY <2>2, <2>4, <2>5, <2>6 DEF Judged
    <3>3. /\ accepted \in HandRow /\ accepted.run = w.run /\ accepted.pc = "judge"
          /\ accepted.result = Become(passed, "judge").result
      <4> HIDE DEF passed
      <4> QED BY <3>1 DEF Chapterwise, HandRow
    <3>4. HandOK(y, accepted)
      <4> HIDE DEF passed, y, accepted
      <4> QED BY <2>3, <2>4, <2>5, <3>1, <3>2, <3>3 DEF HandOK, InChapter, Chapterwise
    <3>5. Answer(w.pc, a, accepted)
      BY <2>1, <2>6
    <3> HIDE DEF accepted
    <3> QED BY <1>1, <2>2, <3>3, <3>4, <3>5, StageStep
  <2>7. CASE ~a.good
    <3> DEFINE h == Become(failed, "send")
    <3>1. Chapterwise(y.answers, failed, "send", h)
      <4> HIDE DEF failed, y
      <4> QED BY <1>1, <2>3, <2>4, <2>5, Becomes
    <3>2. Faulted(y.answers, Last)
      BY <2>4, <2>7 DEF Faulted
    <3>3. HandOK(y, h)
      <4> HIDE DEF failed, y, h
      <4> QED BY <2>3, <2>4, <2>5, <3>1, <3>2 DEF HandOK, InChapter, Chapterwise
    <3>4. Answer(w.pc, a, h)
      BY <2>1, <2>7
    <3>5. h \in HandRow /\ h.run = w.run /\ h.pc = "send"
      <4> HIDE DEF h
      <4> QED BY <3>1 DEF Chapterwise
    <3> HIDE DEF h
    <3> QED BY <1>1, <2>2, <3>3, <3>4, <3>5, StageStep
  <2> QED BY <2>6, <2>7
<1> QED BY <1>2, <1>3, <1>4 DEF Review, Stage

(* The result stays as it is, and is shown. *)
LEMMA Shows ==
  ASSUME IInv, NEW from, NEW to, w.pc = from, Persist(w.result, to),
         \/ from = "hand" /\ to = "review"
         \/ from = "send" /\ to = "rewrite"
         \/ from = "resubmit" /\ to = "final"
         \/ from = "keep" /\ to = "next"
         \/ from = "hold" /\ to = "raised"
  PROVE  IInv'
<1>1. w.pc # "idle" /\ to \in PCs \ {"idle"}
  BY DEF PCs
<1>2. w \in HandRow /\ HandOK(Run, w) /\ w.result \in Seq(ItemRow)
  BY <1>1, AtWork
<1> DEFINE h == [w EXCEPT !.result = w.result, !.pc = to]
<1>3. h.result = w.result /\ h.pc = to
  BY <1>2 DEF HandRow
<1>4. HandOK(Run, h)
  <2> HIDE DEF h
  <2> QED BY <1>2, <1>3 DEF HandOK, InChapter
<1> QED BY <1>1, <1>2, <1>4, Persists

LEMMA HandsOver == ASSUME IInv, HandOver PROVE IInv'
  BY Shows DEF HandOver, At
LEMMA SendsBack == ASSUME IInv, SendBack PROVE IInv'
  BY Shows DEF SendBack, At
LEMMA Resubmits == ASSUME IInv, Resubmit PROVE IInv'
  BY Shows DEF Resubmit, At
LEMMA Keeping == ASSUME IInv, KeepReady PROVE IInv'
  BY Shows DEF KeepReady, At
LEMMA Holds == ASSUME IInv, Hold PROVE IInv'
  BY Shows DEF Hold, At

LEMMA NextChapters == ASSUME IInv, NextChapter PROVE IInv'
<1>1. w.pc = "next" /\ w.pc # "idle" /\ Last < Len(Run.source)
  BY DEF NextChapter, At
<1>2. /\ w \in HandRow /\ HandOK(Run, w) /\ w.result \in Seq(ItemRow) /\ Last \in Nat
      /\ w.run \in DOMAIN runs /\ Run = runs[w.run] /\ Run.answers \subseteq Run.answers /\ Types
  BY <1>1, AtWork
<1> DEFINE s == Run.source[Last + 1]
           item == Begun(s.chapter, s)
           items == Append(w.result, item)
           to == IF s.text = Blank THEN "write" ELSE "hand"
           h == [w EXCEPT !.result = items, !.pc = to]
<1>3. s \in Snapshot
  <2>1. Len(Run.source) \in Nat
    BY <1>2, Rows DEF RunRow
  <2>2. Last + 1 \in 1..Len(Run.source)
    BY <1>1, <1>2, <2>1
  <2> QED BY <1>2, <2>2, Rows
<1>4. item \in ItemRow /\ ~Decided(item)
  BY <1>3 DEF Begun, Snapshot, ItemRow, Decided
<1>5. /\ items \in Seq(ItemRow) /\ Len(items) = Last + 1 /\ items[Last + 1] = item
      /\ \A k \in 1..Last : items[k] = w.result[k]
  <2> HIDE DEF item
  <2> QED BY <1>2, <1>4 DEF Last
<1>6. to \in {"write", "hand"} /\ to \in PCs \ {"idle"}
  BY DEF PCs
<1>7. h.result = items /\ h.pc = to
  BY <1>2 DEF HandRow
<1>8. \A k \in 1..Last : Decided(w.result[k])
  BY <1>1, <1>2 DEF HandOK, Last
<1>9. JudgedItems(Run.answers, items)
  <2> SUFFICES ASSUME NEW k \in 1..Len(items), Decided(items[k])
               PROVE  Judged(Run.answers, k, items[k].text)
    BY DEF JudgedItems
  <2>1. k \in 1..Last
    <3> HIDE DEF items, item
    <3> QED BY <1>2, <1>4, <1>5
  <2> QED BY <1>2, <1>5, <2>1 DEF HandOK, JudgedItems, Last
<1>10. HandOK(Run, h)
  <2>1. Len(Run.source) \in Nat
    BY <1>2, Rows DEF RunRow
  <2> HIDE DEF h, items, item, to
  <2> QED BY <1>1, <1>2, <1>4, <1>5, <1>6, <1>7, <1>8, <1>9, <2>1 DEF HandOK, InChapter
<1>11. Persist(items, to)
  BY DEF NextChapter
<1> HIDE DEF items, to
<1> QED BY <1>1, <1>5, <1>6, <1>10, <1>11, Persists

LEMMA Judges == ASSUME IInv, Judge PROVE IInv'
<1> DEFINE ready == [Item EXCEPT !.status = "ready"]
           held == [Item EXCEPT !.status = "needs_review"]
           waiting == [Become(held, "hold") EXCEPT !.why = "review"]
<1>1. w.pc = "judge" /\ w.pc # "idle" /\ UNCHANGED runs /\ Quietly
  BY DEF Judge, At
<1>2. /\ w \in HandRow /\ HandOK(Run, w) /\ Last \in Nat /\ Last >= 1
      /\ Item \in ItemRow /\ Judged(Run.answers, Last, Item.text)
      /\ Run.answers \subseteq Run.answers
  BY <1>1, AtWork DEF HandOK, InChapter, Item, Last
<1>3. /\ ready \in ItemRow /\ Decided(ready) /\ ready.text = Item.text
      /\ held \in ItemRow /\ Decided(held) /\ held.text = Item.text
      /\ {"keep", "hold"} \subseteq PCs \ {"idle"}
  BY <1>2 DEF ItemRow, Decided, PCs
<1>4. CASE Raise("guard")
  BY <1>1, <1>4, Raises
<1>5. CASE w' = Become(ready, "keep")
  <2> HIDE DEF ready
  <2>1. Chapterwise(Run.answers, ready, "keep", w')
    <3>1. Chapterwise(Run.answers, ready, "keep", Become(ready, "keep"))
      BY <1>1, <1>2, <1>3, Becomes
    <3> QED BY <1>5, <3>1
  <2>2. HandOK(Run, w')
    BY <1>2, <1>3, <2>1 DEF HandOK, InChapter, Chapterwise
  <2> QED BY <1>1, <2>1, <2>2, ExecutorMoves DEF Chapterwise
<1>6. CASE w' = waiting
  <2> HIDE DEF held
  <2>1. Chapterwise(Run.answers, held, "hold", Become(held, "hold"))
    BY <1>1, <1>2, <1>3, Becomes
  <2>2. /\ w' \in HandRow /\ w'.run = w.run /\ w'.pc = "hold"
        /\ w'.result = Become(held, "hold").result
    BY <1>6, <2>1 DEF Chapterwise, HandRow
  <2>3. HandOK(Run, w')
    BY <1>2, <1>3, <2>1, <2>2 DEF HandOK, InChapter, Chapterwise
  <2> QED BY <1>1, <2>2, <2>3, ExecutorMoves
<1> QED BY <1>4, <1>5, <1>6 DEF Judge

(* Status and reason matter to nothing that is said of a run. *)
LEMMA Restated ==
  ASSUME NEW x, RunOK(x), NEW y, y.saved = x.saved, y.source = x.source,
         y.answers = x.answers, y.accepted = x.accepted, y.polish = x.polish
  PROVE  RunOK(y)
  BY DEF RunOK, AdoptionsOK

LEMMA IdleHand == Idle \in HandRow
  BY DEF Idle, HandRow, PCs

LEMMA Finishes == ASSUME IInv, Finish PROVE IInv'
<1>1. w.pc # "idle" /\ Quietly
  BY DEF Finish, At
<1>2. /\ Run \in RunRow /\ RunOK(Run) /\ HandOK(Run, w) /\ w.result \in Seq(ItemRow)
      /\ Run.status \in {"running", "cancel_requested"}
  BY <1>1, AtWork
<1>3. CASE Sound
  <2> DEFINE kept == IF Keeps(w.result, Run.saved) THEN w.result ELSE Run.saved
             x == [Run EXCEPT !.saved = kept]
             y == [x EXCEPT !.status = "succeeded"]
  <2>1. kept \in Seq(ItemRow) /\ Len(kept) <= Len(Run.source) /\ JudgedItems(Run.answers, kept)
    <3>1. Run.saved \in Seq(ItemRow)
      BY <1>2 DEF RunRow
    <3>2. Len(w.result) <= Len(Run.source) /\ JudgedItems(Run.answers, w.result)
      BY <1>2 DEF HandOK
    <3> QED BY <1>2, <3>1, <3>2 DEF RunOK
  <2>2. x \in RunRow /\ RunOK(x) /\ x.source = Run.source
    BY <1>2, <2>1, Saved
  <2>3. y \in RunRow /\ RunOK(y) /\ y.source = x.source
    <3> HIDE DEF x
    <3>1. /\ y \in RunRow /\ y.saved = x.saved /\ y.source = x.source
          /\ y.answers = x.answers /\ y.accepted = x.accepted /\ y.polish = x.polish
      BY <2>2 DEF RunRow
    <3> HIDE DEF y
    <3> QED BY <2>2, <3>1, Restated
  <2>4. Change(w.run, y) /\ w' = Idle
    BY <1>3 DEF Finish, Saving
  <2> HIDE DEF x, y
  <2> QED BY <1>1, <1>2, <2>2, <2>3, <2>4, IdleHand, ExecutorStep
<1>4. CASE ~Sound
  BY <1>1, <1>4, Raises DEF Finish
<1> QED BY <1>3, <1>4

LEMMA Lands == ASSUME IInv, Land PROVE IInv'
<1>1. w.pc # "idle" /\ Quietly /\ w' = Idle
  BY DEF Land, At
<1>2. Run \in RunRow /\ RunOK(Run)
  BY <1>1, AtWork
<1>3. PICK s \in {"cancelled", "recovery_required", "failed"}, why \in {"review", "other"} :
         \/ Change(w.run, [Run EXCEPT !.status = s])
         \/ Change(w.run, [Run EXCEPT !.status = s, !.reason = why])
  BY DEF Land
<1>4. PICK y : /\ Change(w.run, y)
               /\ \/ y = [Run EXCEPT !.status = s]
                  \/ y = [Run EXCEPT !.status = s, !.reason = why]
  BY <1>3
<1>5. /\ y \in RunRow /\ y.saved = Run.saved /\ y.source = Run.source
      /\ y.answers = Run.answers /\ y.accepted = Run.accepted /\ y.polish = Run.polish
  BY <1>2, <1>4 DEF RunRow, Open
<1>6. RunOK(y)
  BY <1>2, <1>5, Restated
<1> QED BY <1>1, <1>4, <1>5, <1>6, IdleHand, ExecutorStep

LEMMA Claims == ASSUME IInv, NEW r \in DOMAIN runs, Claim(r) PROVE IInv'
<1>1. Types /\ RunsOK /\ OneHand
  BY DEF IInv
<1>2. runs[r] \in RunRow /\ RunOK(runs[r])
  BY <1>1, Rows DEF RunsOK
<1> DEFINE y == [runs[r] EXCEPT !.status = "running"]
<1>3. /\ y \in RunRow /\ RunOK(y) /\ y.source = runs[r].source /\ y.status = "running"
  <2>1. /\ y \in RunRow /\ y.saved = runs[r].saved /\ y.source = runs[r].source
        /\ y.answers = runs[r].answers /\ y.accepted = runs[r].accepted
        /\ y.polish = runs[r].polish /\ y.status = "running"
    BY <1>2 DEF RunRow, Open
  <2> HIDE DEF y
  <2> QED BY <1>2, <2>1, Restated
<1>4. /\ Change(r, y) /\ Quietly /\ w' = [Idle EXCEPT !.run = r, !.pc = "next"]
      /\ runs[r].status \in Open
  BY DEF Claim, Open
<1> HIDE DEF y
<1>5. r \in Nat
  BY <1>1, Rows
<1>6. w' \in HandRow /\ w'.run = r /\ w'.pc = "next" /\ w'.result = <<>>
  <2>1. Idle \in HandRow /\ Idle.result = <<>>
    BY IdleHand DEF Idle
  <2> QED BY <1>4, <1>5, <2>1 DEF HandRow, PCs
<1>7. HandOK(y, w')
  <2>1. Len(y.source) \in Nat
    BY <1>3 DEF RunRow
  <2> QED BY <1>6, <2>1 DEF HandOK, JudgedItems, InChapter
<1>8. Types'
  BY <1>1, <1>3, <1>4, <1>6, Replaced DEF Types, Quietly, book
<1>9. RunsOK'
  BY <1>1, <1>3, <1>4, Replaced DEF RunsOK
<1>10. Working'
  BY <1>1, <1>3, <1>4, <1>6, <1>7, Replaced DEF Working
<1>11. OneHand'
  BY <1>1, <1>3, <1>4, OneHandKept DEF Quietly
<1> QED BY <1>8, <1>9, <1>10, <1>11 DEF IInv

LEMMA Crashes == ASSUME IInv, Crash PROVE IInv'
<1>1. Types /\ RunsOK /\ OneHand /\ w.pc # "idle"
  BY DEF IInv, Working, Crash
<1>2. /\ w.run \in DOMAIN runs /\ Run = runs[w.run] /\ Run \in RunRow /\ RunOK(Run)
      /\ Run.status \in {"running", "cancel_requested"}
  BY <1>1, AtWork
<1>3. PICK s \in Recovered(w.run) : Change(w.run, [Run EXCEPT !.status = s])
  BY <1>2 DEF Crash
<1>4. s \in {"cancelled", "queued", "recovery_required"}
  <2>1. CASE runs[w.run].status = "cancel_requested"
    BY <1>3, <2>1 DEF Recovered
  <2>2. CASE runs[w.run].status = "running"
    BY <1>3, <2>2 DEF Recovered
  <2> QED BY <1>2, <2>1, <2>2
<1> DEFINE y == [Run EXCEPT !.status = s]
<1>5. y \in RunRow /\ RunOK(y) /\ y.source = Run.source /\ y.status = s
  <2>1. /\ y \in RunRow /\ y.saved = Run.saved /\ y.source = Run.source
        /\ y.answers = Run.answers /\ y.accepted = Run.accepted /\ y.polish = Run.polish
        /\ y.status = s
    BY <1>2, <1>4 DEF RunRow, Open
  <2> HIDE DEF y
  <2> QED BY <1>2, <2>1, Restated
<1>6. /\ Change(w.run, y) /\ w' = Idle /\ UNCHANGED <<book, writing>>
      /\ acts' = acts + 1 /\ runs[w.run].status \in Open
  BY <1>2, <1>3 DEF Crash, Act, Open
<1> HIDE DEF y
<1>7. Types'
  BY <1>1, <1>2, <1>5, <1>6, Replaced, IdleHand DEF Types, book
<1>8. RunsOK'
  BY <1>1, <1>2, <1>5, <1>6, Replaced DEF RunsOK
<1>9. Working'
  BY <1>6 DEF Working, Idle
<1>10. OneHand'
  BY <1>1, <1>2, <1>5, <1>6, OneHandKept
<1> QED BY <1>7, <1>8, <1>9, <1>10 DEF IInv

-----------------------------------------------------------------------------
(* The author.                                                              *)

DocType == [Chapters -> [text : Texts, rev : Nat, version : Nat]]

LEMMA AuthorStep ==
  ASSUME IInv, NEW r \in DOMAIN runs, NEW y \in RunRow, RunOK(y), Change(r, y),
         y.source = runs[r].source, y.answers = runs[r].answers,
         \/ y.status = runs[r].status
         \/ runs[r].status \notin {"running", "cancel_requested"}
         \/ y.status = "cancel_requested",
         UNCHANGED <<w, writing>>, doc' \in DocType, material' \in Nat, ours' \in BOOLEAN,
         acts' \in Nat
  PROVE  Types' /\ RunsOK' /\ Working'
<1>1. Types /\ RunsOK /\ Working
  BY DEF IInv
<1>2. Types'
  BY <1>1, Replaced DEF Types, DocType
<1>3. RunsOK'
  BY <1>1, Replaced DEF RunsOK
<1>4. Working'
  <2>1. CASE w.pc = "idle"
    BY <1>1, <2>1 DEF Working, Idle
  <2>2. CASE w.pc # "idle" /\ w.run # r
    BY <1>1, <2>2, Replaced DEF Working
  <2>3. CASE w.pc # "idle" /\ w.run = r
    <3>1. HandOK(y, w)
      BY <1>1, <2>3 DEF Working, HandOK
    <3>2. /\ runs'[r] = y /\ DOMAIN runs' = DOMAIN runs
          /\ y.status \in {"running", "cancel_requested"}
      BY <1>1, <2>3, Replaced DEF Working
    <3> QED BY <2>3, <3>1, <3>2 DEF Working
  <2> QED BY <2>1, <2>2, <2>3
<1> QED BY <1>2, <1>3, <1>4

LEMMA DocChanges ==
  ASSUME Types, NEW c \in Chapters, NEW t \in Texts
  PROVE  /\ [doc EXCEPT ![c].text = t, ![c].rev = @ + 1] \in DocType
         /\ [doc EXCEPT ![c] = [text |-> t, rev |-> @.rev + 1, version |-> @.rev + 1]] \in DocType
<1> DEFINE Doc == [text : Texts, rev : Nat, version : Nat]
           one == [doc EXCEPT ![c].text = t]
<1>1. doc \in [Chapters -> Doc] /\ doc[c] \in Doc
  BY DEF Types
<1>2. one \in [Chapters -> Doc]
  BY <1>1
<1>3. one[c] \in Doc /\ one[c].rev + 1 \in Nat
  BY <1>2
<1>4. [one EXCEPT ![c].rev = @ + 1] \in [Chapters -> Doc]
  <2> HIDE DEF one
  <2> QED BY <1>2, <1>3
<1>5. [doc EXCEPT ![c] = [text |-> t, rev |-> @.rev + 1, version |-> @.rev + 1]]
        \in [Chapters -> Doc]
  BY <1>1
<1> QED BY <1>4, <1>5 DEF DocType

(* Nothing of the runs changes. *)
LEMMA Beside ==
  ASSUME IInv, UNCHANGED <<runs, writing, w>>, doc' \in DocType, material' \in Nat,
         ours' \in BOOLEAN, acts' \in Nat
  PROVE  IInv'
<1>1. Types'
  BY DEF IInv, Types, DocType
<1>2. RunsOK' /\ Working'
  BY DEF IInv, RunsOK, Working
<1>3. OneHand'
  BY DEF IInv, OneHand, OpenRuns, Involved, Size, Chapter
<1> QED BY <1>1, <1>2, <1>3 DEF IInv

LEMMA Edits == ASSUME IInv, NEW c \in Chapters, NEW t \in Texts, Edit(c, t) PROVE IInv'
<1>1. Types
  BY DEF IInv
<1>2. doc' \in DocType
  BY <1>1, DocChanges DEF Edit
<1> QED BY <1>1, <1>2, Beside DEF Edit, Act, Request, Types
LEMMA Saves == ASSUME IInv, NEW c \in Chapters, NEW t \in Texts, SaveVersion(c, t) PROVE IInv'
<1>1. Types
  BY DEF IInv
<1>2. doc' \in DocType
  BY <1>1, DocChanges DEF SaveVersion, Versioned
<1> QED BY <1>1, <1>2, Beside DEF SaveVersion, Act, Request, Types
LEMMA ChangesMaterial == ASSUME IInv, ChangeMaterial PROVE IInv'
<1>1. Types
  BY DEF IInv
<1> QED BY <1>1, Beside DEF ChangeMaterial, Act, Request, Types, DocType
LEMMA ChangesModel == ASSUME IInv, ChangeModel PROVE IInv'
<1>1. Types
  BY DEF IInv
<1> QED BY <1>1, Beside DEF ChangeModel, Act, Request, Types, DocType

(* A writing job opens where no run is, or ends. *)
LEMMA Writing ==
  ASSUME IInv, NEW c \in Chapters, NEW s \in {"none", "open", "failed"}, SetWriting(c, s),
         s = "open" => NoRunOf(c, 0), acts' \in Nat
  PROVE  IInv'
<1>1. Types /\ OneHand
  BY DEF IInv
<1>2. /\ writing' = [writing EXCEPT ![c] = s] /\ UNCHANGED <<book, runs, w>>
  BY DEF SetWriting, Request
<1>3. Types'
  BY <1>1, <1>2 DEF Types, book
<1>4. RunsOK' /\ Working'
  BY <1>2 DEF IInv, RunsOK, Working
<1>5. OneHand'
  <2>1. OpenRuns' = OpenRuns /\ \A r : Involved(r)' = Involved(r)
    BY <1>2 DEF OpenRuns, Involved, Size, Chapter
  <2>2. \A r \in OpenRuns : \A d \in Involved(r) : writing'[d] # "open"
    <3> SUFFICES ASSUME NEW r \in OpenRuns, NEW d \in Involved(r) PROVE writing'[d] # "open"
      OBVIOUS
    <3>1. r \in DOMAIN runs /\ r \in 1..Len(runs) /\ Len(runs) \in Nat
      BY <1>1, Rows DEF OpenRuns
    <3>2. d = c => s # "open"
      BY <3>1 DEF NoRunOf
    <3>3. writing[d] # "open"
      BY <1>1 DEF OneHand
    <3>4. writing \in [Chapters -> {"none", "open", "failed"}]
      BY <1>1 DEF Types
    <3> QED BY <1>2, <3>2, <3>3, <3>4
  <2> QED BY <1>1, <2>1, <2>2 DEF OneHand
<1> QED BY <1>3, <1>4, <1>5 DEF IInv

LEMMA StartsWriting == ASSUME IInv, NEW c \in Chapters, StartWriting(c) PROVE IInv'
  BY Writing DEF StartWriting, Act, IInv, Types
LEMMA ResumesWriting == ASSUME IInv, NEW c \in Chapters, ResumeWriting(c) PROVE IInv'
  BY Writing DEF ResumeWriting, Act, IInv, Types
LEMMA EndsWriting == ASSUME IInv, NEW c \in Chapters, EndWriting(c) PROVE IInv'
  BY Writing DEF EndWriting, IInv, Types

LEMMA Enqueues ==
  ASSUME IInv, NEW n \in Nat, NEW list \in [1..n -> Chapters], NEW polish \in BOOLEAN,
         Enqueue(list, polish)
  PROVE  IInv'
<1> DEFINE row == [status |-> "queued", reason |-> "none", polish |-> polish,
                   material |-> material, source |-> Captured(list), saved |-> <<>>,
                   answers |-> {}, approvals |-> {},
                   accepted |-> [k \in DOMAIN list |-> NoAnswer]]
<1>1. Types /\ RunsOK /\ Working /\ OneHand
  BY DEF IInv
<1>2. /\ runs' = Append(runs, row) /\ UNCHANGED <<doc, material, ours, writing, acts, w>>
      /\ NoOtherRun(0) /\ (\A k \in DOMAIN list : Free(list[k]))
      /\ polish => Len(list) = 1
  BY DEF Enqueue, book, Request
<1>3. DOMAIN list = 1..n /\ Len(list) = n
  <2>1. list \in Seq(Chapters)
    OBVIOUS
  <2> QED BY <2>1
<1>4. /\ Captured(list) \in Seq(Snapshot) /\ Len(Captured(list)) = n
      /\ \A k \in 1..n : Captured(list)[k].chapter = list[k]
  <2>1. Captured(list) = [k \in 1..n |->
           [chapter |-> list[k], text |-> doc[list[k]].text, rev |-> doc[list[k]].rev,
            version |-> doc[list[k]].version]]
    BY DEF Captured
  <2>2. \A k \in 1..n : [chapter |-> list[k], text |-> doc[list[k]].text,
                         rev |-> doc[list[k]].rev, version |-> doc[list[k]].version] \in Snapshot
    BY <1>1 DEF Types, Snapshot
  <2> QED BY <2>1, <2>2
<1>5. /\ row.accepted \in Seq(Adoption) /\ Len(row.accepted) = n
      /\ \A k \in 1..n : row.accepted[k] = NoAnswer
  <2>1. NoAnswer \in Adoption /\ NoAnswer.whole
    BY QualityAssumption DEF NoAnswer, None, Adoption
  <2> QED BY <1>3, <2>1
<1>6. row \in RunRow
  <2>1. material \in Nat
    BY <1>1 DEF Types
  <2> QED BY <1>4, <1>5, <2>1 DEF RunRow, Open
<1>7. RunOK(row)
  <2>1. AnswersOK(row.answers)
    BY DEF AnswersOK
  <2>2. JudgedItems(row.answers, row.saved) /\ Len(row.saved) <= Len(row.source)
    BY <1>4 DEF JudgedItems
  <2>3. AdoptionsOK(row)
    <3>1. NoAnswer.whole
      BY DEF NoAnswer
    <3> QED BY <1>4, <1>5, <3>1 DEF AdoptionsOK
  <2>4. row.polish => Len(row.source) = 1
    <3>1. row.polish = polish /\ row.source = Captured(list)
      OBVIOUS
    <3> QED BY <1>2, <1>3, <1>4, <3>1
  <2> QED BY <2>1, <2>2, <2>3, <2>4 DEF RunOK
<1>8. row.status = "queued" /\ row.source = Captured(list)
  OBVIOUS
<1> HIDE DEF row
<1>9. /\ runs' \in Seq(RunRow) /\ DOMAIN runs = 1..Len(runs) /\ Len(runs) \in Nat
      /\ DOMAIN runs' = 1..Len(runs) + 1
      /\ runs'[Len(runs) + 1] = row
      /\ \A r \in 1..Len(runs) : runs'[r] = runs[r]
  BY <1>1, <1>2, <1>6 DEF Types
<1>10. Types'
  BY <1>1, <1>2, <1>9 DEF Types
<1>11. RunsOK'
  BY <1>1, <1>7, <1>9 DEF RunsOK
<1>12. Working'
  BY <1>1, <1>2, <1>9 DEF Working
<1>13. OneHand'
  <2>1. OpenRuns = {}
    BY <1>2, <1>9 DEF NoOtherRun, OpenRuns
  <2>2. PICK m \in Nat : m = Len(runs) + 1
    BY <1>9
  <2>3. OpenRuns' \subseteq {m}
    BY <1>9, <2>1, <2>2 DEF OpenRuns
  <2>4. \A c \in Involved(m)' : \E k \in 1..n : c = list[k]
    BY <1>4, <1>8, <1>9, <2>2 DEF Involved, Size, Chapter
  <2>5. \A c \in Involved(m)' : writing'[c] # "open"
    BY <1>2, <1>3, <2>4 DEF Free
  <2> QED BY <2>3, <2>5 DEF OneHand
<1> QED BY <1>10, <1>11, <1>12, <1>13 DEF IInv

LEMMA Resumes == ASSUME IInv, NEW r \in DOMAIN runs, Resume(r) PROVE IInv'
<1> DEFINE y == [runs[r] EXCEPT !.status = "queued", !.reason = "none"]
<1>1. Types /\ OneHand /\ RunOK(runs[r]) /\ runs[r] \in RunRow
  BY Rows DEF IInv, RunsOK
<1>2. /\ Change(r, y) /\ UNCHANGED <<doc, material, ours, writing, w>> /\ acts' \in Nat
      /\ Resumable(r)
  BY <1>1 DEF Resume, Act, Request, book, Types
<1>3. y \in RunRow /\ RunOK(y) /\ y.source = runs[r].source /\ y.answers = runs[r].answers
  <2>1. /\ y \in RunRow /\ y.saved = runs[r].saved /\ y.source = runs[r].source
        /\ y.answers = runs[r].answers /\ y.accepted = runs[r].accepted
        /\ y.polish = runs[r].polish
    BY <1>1 DEF RunRow, Open
  <2> HIDE DEF y
  <2> QED BY <1>1, <2>1, Restated
<1>4. runs[r].status \notin {"running", "cancel_requested"}
  BY <1>2 DEF Resumable
<1> HIDE DEF y
<1>5. Types' /\ RunsOK' /\ Working'
  BY <1>1, <1>2, <1>3, <1>4, AuthorStep DEF Types, DocType
<1>6. OneHand'
  <2>1. OpenRuns \subseteq {r} /\ \A c \in Involved(r) : writing[c] # "open"
    BY <1>2 DEF Resumable, NoOtherRun, Free
  <2>2. OpenRuns' \subseteq {r}
    BY <1>1, <1>2, <1>3, <2>1, Replaced DEF OpenRuns
  <2>3. Involved(r)' = Involved(r)
    BY <1>1, <1>2, <1>3, Replaced DEF Involved, Size, Chapter
  <2> QED BY <1>2, <2>1, <2>2, <2>3 DEF OneHand
<1> QED BY <1>5, <1>6 DEF IInv

LEMMA Cancels == ASSUME IInv, NEW r \in DOMAIN runs, Cancel(r) PROVE IInv'
<1>1. Types /\ OneHand /\ RunOK(runs[r]) /\ runs[r] \in RunRow
  BY Rows DEF IInv, RunsOK
<1> DEFINE s == IF runs[r].status = "running" THEN "cancel_requested" ELSE "cancelled"
           y == [runs[r] EXCEPT !.status = s]
<1>2. /\ Change(r, y) /\ UNCHANGED <<doc, material, ours, writing, w>> /\ acts' \in Nat
      /\ runs[r].status \in {"queued", "running", "recovery_required", "failed"}
  BY <1>1 DEF Cancel, Act, Request, book, Types
<1>3. /\ y \in RunRow /\ RunOK(y) /\ y.source = runs[r].source /\ y.answers = runs[r].answers
      /\ y.status = s
  <2>1. /\ y \in RunRow /\ y.saved = runs[r].saved /\ y.source = runs[r].source
        /\ y.answers = runs[r].answers /\ y.accepted = runs[r].accepted
        /\ y.polish = runs[r].polish /\ y.status = s
    BY <1>1 DEF RunRow, Open
  <2> HIDE DEF y
  <2> QED BY <1>1, <2>1, Restated
<1>4. /\ runs[r].status \notin {"running", "cancel_requested"} \/ y.status = "cancel_requested"
      /\ y.status \in Open => runs[r].status \in Open
  BY <1>2, <1>3 DEF Open
<1> HIDE DEF y
<1>5. Types' /\ RunsOK' /\ Working'
  BY <1>1, <1>2, <1>3, <1>4, AuthorStep DEF Types, DocType
<1>6. OneHand'
  BY <1>1, <1>2, <1>3, <1>4, OneHandKept
<1> QED BY <1>5, <1>6 DEF IInv

LEMMA Approves ==
  ASSUME IInv, NEW r \in DOMAIN runs, NEW k \in 1..Size(r), Approve(r, k)
  PROVE  IInv'
<1>1. Types /\ OneHand /\ RunOK(runs[r]) /\ runs[r] \in RunRow
  BY Rows DEF IInv, RunsOK
<1> DEFINE new == {a \in runs[r].approvals : a.k # k} \cup {[k |-> k, text |-> runs[r].saved[k].text]}
           y == [runs[r] EXCEPT !.approvals = new]
<1>2. /\ Change(r, y) /\ UNCHANGED <<doc, material, ours, writing, w, acts>>
      /\ k \in DOMAIN runs[r].saved
  BY DEF Approve, Approvable, Request, book
<1>3. new \in SUBSET [k : Nat, text : Texts]
  <2>1. runs[r].saved \in Seq(ItemRow) /\ runs[r].approvals \in SUBSET [k : Nat, text : Texts]
    BY <1>1 DEF RunRow
  <2>2. k \in 1..Len(runs[r].saved) /\ runs[r].saved[k] \in ItemRow
    BY <1>2, <2>1
  <2> QED BY <2>1, <2>2 DEF ItemRow
<1>4. /\ y \in RunRow /\ RunOK(y) /\ y.source = runs[r].source /\ y.answers = runs[r].answers
      /\ y.status = runs[r].status
  <2> HIDE DEF new
  <2>1. /\ y \in RunRow /\ y.saved = runs[r].saved /\ y.source = runs[r].source
        /\ y.answers = runs[r].answers /\ y.accepted = runs[r].accepted
        /\ y.polish = runs[r].polish /\ y.status = runs[r].status
    BY <1>1, <1>3 DEF RunRow
  <2> HIDE DEF y
  <2> QED BY <1>1, <2>1, Restated
<1> HIDE DEF y
<1>5. Types' /\ RunsOK' /\ Working'
  BY <1>1, <1>2, <1>4, AuthorStep DEF Types, DocType
<1>6. OneHand'
  BY <1>1, <1>2, <1>4, OneHandKept
<1> QED BY <1>5, <1>6 DEF IInv

LEMMA Adopted ==
  ASSUME NEW x \in RunRow, RunOK(x), NEW k \in 1..Len(x.source), NEW a \in Adoption,
         a.whole => Judged(x.answers, k, a.text), ~x.polish => a.whole,
         NEW y, y = [x EXCEPT !.accepted[k] = a]
  PROVE  /\ y \in RunRow /\ RunOK(y) /\ y.source = x.source /\ y.answers = x.answers
         /\ y.status = x.status
<1>1. /\ x.accepted \in Seq(Adoption) /\ x.source \in Seq(Snapshot)
      /\ Len(x.accepted) = Len(x.source) /\ AdoptionsOK(x)
  BY DEF RunRow, RunOK, AdoptionsOK
<1> DEFINE new == [x.accepted EXCEPT ![k] = a]
<1>2. /\ new \in Seq(Adoption) /\ Len(new) = Len(x.accepted) /\ new[k] = a
      /\ \A j \in 1..Len(x.accepted) : j # k => new[j] = x.accepted[j]
  BY <1>1
<1>3. y.accepted = new
  BY DEF RunRow
<1> HIDE DEF new
<1>4. /\ y.saved = x.saved /\ y.source = x.source /\ y.answers = x.answers
      /\ y.polish = x.polish /\ y.status = x.status
  BY DEF RunRow
<1>5. y \in RunRow
  <2>1. y = [x EXCEPT !.accepted = new]
    BY DEF new
  <2> QED BY <1>2, <2>1 DEF RunRow
<1>6. AdoptionsOK(y)
  BY <1>1, <1>2, <1>3, <1>4 DEF AdoptionsOK
<1>7. RunOK(y)
  BY <1>4, <1>6 DEF RunOK
<1> QED BY <1>4, <1>5, <1>7

LEMMA Accepts ==
  ASSUME IInv, NEW r \in DOMAIN runs, NEW k \in 1..Size(r), Accept(r, k)
  PROVE  IInv'
<1>1. Types /\ OneHand /\ RunOK(runs[r]) /\ runs[r] \in RunRow
  BY Rows DEF IInv, RunsOK
<1>2. PICK t \in {runs[r].saved[k].text} \cup Mixtures(r, k), whole \in BOOLEAN :
         /\ IF whole THEN t = runs[r].saved[k].text ELSE t \in Mixtures(r, k)
         /\ Versioned(Chapter(r, k), t)
         /\ Change(r, [runs[r] EXCEPT !.accepted[k] =
               [version |-> doc'[Chapter(r, k)].version, text |-> t, whole |-> whole]])
  BY DEF Accept
<1>3. /\ UNCHANGED <<material, ours, writing, w, acts>>
      /\ k \in DOMAIN runs[r].saved /\ Decided(runs[r].saved[k])
  BY DEF Accept, Request, Adoptable, Decided
<1>4. k \in 1..Len(runs[r].saved) /\ runs[r].saved[k] \in ItemRow
  BY <1>1, <1>3 DEF RunRow
<1>5. t \in Texts /\ Chapter(r, k) \in Chapters
  <2>1. runs[r].source[k] \in Snapshot
    BY <1>1, Rows DEF Size
  <2> QED BY <1>2, <1>4, <2>1 DEF Mixtures, ItemRow, Snapshot, Chapter
<1>6. doc' \in DocType
  BY <1>1, <1>2, <1>5, DocChanges DEF Versioned
<1> DEFINE a == [version |-> doc'[Chapter(r, k)].version, text |-> t, whole |-> whole]
           y == [runs[r] EXCEPT !.accepted[k] = a]
<1>7. a \in Adoption /\ a.text = t /\ a.whole = whole
  BY <1>2, <1>5, <1>6 DEF DocType, Adoption
<1>8. whole => Judged(runs[r].answers, k, t)
  BY <1>1, <1>2, <1>3, <1>4 DEF RunOK, JudgedItems
<1>9. ~runs[r].polish => whole
  BY <1>2 DEF Mixtures
<1>10. /\ y \in RunRow /\ RunOK(y) /\ y.source = runs[r].source
       /\ y.answers = runs[r].answers /\ y.status = runs[r].status
  <2> HIDE DEF a
  <2> QED BY <1>1, <1>7, <1>8, <1>9, Adopted DEF Size
<1>11. Change(r, y)
  BY <1>2
<1> HIDE DEF y
<1>12. Types' /\ RunsOK' /\ Working'
  BY <1>1, <1>3, <1>6, <1>10, <1>11, AuthorStep DEF Types
<1>13. OneHand'
  BY <1>1, <1>3, <1>10, <1>11, OneHandKept
<1> QED BY <1>12, <1>13 DEF IInv

-----------------------------------------------------------------------------
(* Everything together.                                                     *)

LEMMA Starts == ASSUME Init PROVE IInv
<1>1. Types
  <2>1. doc \in DocType
    BY DEF Init, DocType, None
  <2> QED BY <2>1, IdleHand DEF Init, Types, DocType
<1>2. RunsOK /\ Working /\ OneHand
  BY DEF Init, RunsOK, Working, OneHand, OpenRuns, Idle
<1> QED BY <1>1, <1>2 DEF IInv

LEMMA Rests == ASSUME IInv, UNCHANGED vars PROVE IInv'
<1>1. Types' /\ doc' \in DocType
  BY DEF vars, IInv, Types, DocType
<1> QED BY <1>1, Beside DEF vars, Types

LEMMA Steps == ASSUME IInv, Next PROVE IInv'
<1>1. CASE Author
  <2>1. CASE \E c \in Chapters, t \in Texts : Edit(c, t) \/ SaveVersion(c, t)
    BY <2>1, Edits, Saves
  <2>2. CASE \E c \in Chapters : StartWriting(c) \/ ResumeWriting(c) \/ EndWriting(c)
    BY <2>2, StartsWriting, ResumesWriting, EndsWriting
  <2>3. CASE ChangeMaterial \/ ChangeModel
    BY <2>3, ChangesMaterial, ChangesModel
  <2>4. CASE \E n \in 1..Cardinality(Chapters), polish \in BOOLEAN :
                \E list \in [1..n -> Chapters] : Enqueue(list, polish)
    <3>1. Cardinality(Chapters) \in Nat
      BY QualityAssumption, FS_CardinalityType
    <3> QED BY <2>4, <3>1, Enqueues
  <2>5. CASE \E r \in DOMAIN runs : Resume(r) \/ Cancel(r)
    BY <2>5, Resumes, Cancels
  <2>6. CASE \E r \in DOMAIN runs : \E k \in 1..Size(r) : Approve(r, k) \/ Accept(r, k)
    BY <2>6, Approves, Accepts
  <2> QED BY <1>1, <2>1, <2>2, <2>3, <2>4, <2>5, <2>6 DEF Author
<1>2. CASE Executor
  <2>1. CASE \E r \in DOMAIN runs : Claim(r)
    BY <2>1, Claims
  <2>2. CASE Write \/ Review \/ Rewrite \/ FinalReview
    BY <2>2, Writes, Reviews, Rewrites, FinallyReviews
  <2>3. CASE NextChapter \/ HandOver \/ SendBack \/ Resubmit \/ KeepReady \/ Hold
    BY <2>3, NextChapters, HandsOver, SendsBack, Resubmits, Keeping, Holds
  <2>4. CASE Judge \/ Finish \/ Land
    BY <2>4, Judges, Finishes, Lands
  <2> QED BY <1>2, <2>1, <2>2, <2>3, <2>4 DEF Executor
<1>3. CASE Crash
  BY <1>3, Crashes
<1> QED BY <1>1, <1>2, <1>3 DEF Next

(* In every run of quality.py, quality_generation.py and the runner: the    *)
(* answers of a run name one text of each chapter as judged, and decided,   *)
(* shown and wholly adopted chapters read as it.                            *)
THEOREM QualityInvariant == Spec => []IInv
<1>1. Init => IInv
  BY Starts
<1>2. IInv /\ [Next]_vars => IInv'
  BY Steps, Rests
<1> QED BY <1>1, <1>2, PTL DEF Spec

(* At most one quality run of the project is open, and none of its chapters *)
(* is written by a job at the same time.                                    *)
THEOREM OneHandAtAChapter == Spec => []OneHand
<1>1. IInv => OneHand
  BY DEF IInv
<1> QED BY <1>1, QualityInvariant, PTL

-----------------------------------------------------------------------------
(* What a step leaves of the runs: only showing a result and adopting a     *)
(* chapter change what is shown and what is adopted.                        *)

SavedAs(x, y)   == y.saved = x.saved
AdoptedAs(x, y) == y.accepted = x.accepted
Shown           == \E items, pc : pc # "idle" /\ Persist(items, pc)

LEMMA Alike ==
  ASSUME Types, NEW r \in DOMAIN runs, NEW y, SavedAs(runs[r], y), AdoptedAs(runs[r], y),
         Change(r, y)
  PROVE  \A s \in DOMAIN runs : SavedAs(runs[s], runs'[s]) /\ AdoptedAs(runs[s], runs'[s])
  BY DEF Change, SavedAs, AdoptedAs

LEMMA SameRuns ==
  ASSUME UNCHANGED runs
  PROVE  \A s \in DOMAIN runs : SavedAs(runs[s], runs'[s]) /\ AdoptedAs(runs[s], runs'[s])
  BY DEF SavedAs, AdoptedAs

(* A change of other fields. *)
LEMMA OtherFields ==
  ASSUME NEW x \in RunRow, NEW s, NEW why, NEW A, NEW new
  PROVE  /\ SavedAs(x, [x EXCEPT !.status = s]) /\ AdoptedAs(x, [x EXCEPT !.status = s])
         /\ SavedAs(x, [x EXCEPT !.status = s, !.reason = why])
         /\ AdoptedAs(x, [x EXCEPT !.status = s, !.reason = why])
         /\ SavedAs(x, [x EXCEPT !.answers = A]) /\ AdoptedAs(x, [x EXCEPT !.answers = A])
         /\ SavedAs(x, [x EXCEPT !.approvals = new]) /\ AdoptedAs(x, [x EXCEPT !.approvals = new])
  BY DEF RunRow, SavedAs, AdoptedAs

LEMMA StageKeeps ==
  ASSUME IInv, w.pc # "idle", NEW stage, NEW a, NEW h, Answer(stage, a, h)
  PROVE  \A s \in DOMAIN runs : SavedAs(runs[s], runs'[s]) /\ AdoptedAs(runs[s], runs'[s])
<1> DEFINE y == [Run EXCEPT !.answers = Run.answers \cup {a}]
<1>1. Types /\ w.run \in DOMAIN runs /\ Run \in RunRow /\ Run = runs[w.run]
  BY AtWork
<1>2. Change(w.run, y)
  BY DEF Answer
<1>3. SavedAs(Run, y) /\ AdoptedAs(Run, y)
  BY <1>1, OtherFields
<1> HIDE DEF y
<1> QED BY <1>1, <1>2, <1>3, Alike

LEMMA ExecutorKeeps ==
  ASSUME IInv, Executor
  PROVE  \/ \A s \in DOMAIN runs : SavedAs(runs[s], runs'[s]) /\ AdoptedAs(runs[s], runs'[s])
         \/ w.pc # "idle" /\ (Shown \/ Finish)
<1>1. CASE \E r \in DOMAIN runs : Claim(r)
  <2>1. PICK r \in DOMAIN runs : Claim(r)
    BY <1>1
  <2>2. Types /\ runs[r] \in RunRow
    BY Rows DEF IInv
  <2> DEFINE y == [runs[r] EXCEPT !.status = "running"]
  <2>3. Change(r, y) /\ SavedAs(runs[r], y) /\ AdoptedAs(runs[r], y)
    BY <2>1, <2>2, OtherFields DEF Claim
  <2> HIDE DEF y
  <2> QED BY <2>2, <2>3, Alike
<1>2. CASE Write \/ Review \/ Rewrite \/ FinalReview
  <2>1. w.pc # "idle"
    BY <1>2 DEF Write, Review, Rewrite, FinalReview, Stage, At
  <2>2. UNCHANGED runs \/ \E stage, a, h : Answer(stage, a, h)
    BY <1>2 DEF Write, Review, Rewrite, FinalReview, Stage
  <2> QED BY <2>1, <2>2, StageKeeps, SameRuns
<1>3. CASE NextChapter
  BY <1>3 DEF NextChapter, Shown, At
<1>4. CASE HandOver \/ SendBack \/ Resubmit \/ KeepReady \/ Hold
  BY <1>4 DEF HandOver, SendBack, Resubmit, KeepReady, Hold, Shown, At
<1>5. CASE Judge
  BY <1>5, SameRuns DEF Judge
<1>6. CASE Finish
  BY <1>6 DEF Finish, At
<1>7. CASE Land
  <2>1. w.pc # "idle"
    BY <1>7 DEF Land, At
  <2>2. Types /\ w.run \in DOMAIN runs /\ Run \in RunRow /\ Run = runs[w.run]
    BY <2>1, AtWork
  <2>3. PICK s, why : \/ Change(w.run, [Run EXCEPT !.status = s])
                      \/ Change(w.run, [Run EXCEPT !.status = s, !.reason = why])
    BY <1>7 DEF Land
  <2>4. PICK y : Change(w.run, y) /\ SavedAs(Run, y) /\ AdoptedAs(Run, y)
    BY <2>2, <2>3, OtherFields
  <2> QED BY <2>2, <2>4, Alike
<1> QED BY <1>1, <1>2, <1>3, <1>4, <1>5, <1>6, <1>7 DEF Executor

LEMMA StepKeeps ==
  ASSUME IInv, Next
  PROVE  \/ \A s \in DOMAIN runs : SavedAs(runs[s], runs'[s]) /\ AdoptedAs(runs[s], runs'[s])
         \/ w.pc # "idle" /\ (Shown \/ Finish)
         \/ \E r \in DOMAIN runs : \E k \in 1..Size(r) : Accept(r, k)
<1>1. Types /\ runs \in Seq(RunRow)
  BY DEF IInv, Types
<1>2. CASE Executor
  BY <1>2, ExecutorKeeps
<1>3. CASE Crash
  <2>1. w.pc # "idle"
    BY <1>3 DEF IInv, Working, Crash
  <2>2. w.run \in DOMAIN runs /\ Run \in RunRow /\ Run = runs[w.run]
    BY <2>1, AtWork
  <2>3. PICK s : Change(w.run, [Run EXCEPT !.status = s])
    BY <1>3, <2>2 DEF Crash
  <2>4. PICK y : Change(w.run, y) /\ SavedAs(Run, y) /\ AdoptedAs(Run, y)
    BY <2>2, <2>3, OtherFields
  <2> QED BY <1>1, <2>2, <2>4, Alike
<1>4. CASE \E r \in DOMAIN runs : \/ Resume(r) \/ Cancel(r)
                                  \/ \E k \in 1..Size(r) : Approve(r, k)
  <2>1. PICK r \in DOMAIN runs : \/ Resume(r) \/ Cancel(r)
                                 \/ \E k \in 1..Size(r) : Approve(r, k)
    BY <1>4
  <2>2. runs[r] \in RunRow
    BY <1>1
  <2>3. PICK s, why, new : \/ Change(r, [runs[r] EXCEPT !.status = s, !.reason = why])
                           \/ Change(r, [runs[r] EXCEPT !.status = s])
                           \/ Change(r, [runs[r] EXCEPT !.approvals = new])
    BY <2>1 DEF Resume, Cancel, Approve
  <2>4. PICK y : Change(r, y) /\ SavedAs(runs[r], y) /\ AdoptedAs(runs[r], y)
    BY <2>2, <2>3, OtherFields
  <2> QED BY <1>1, <2>4, Alike
<1>5. CASE \E n \in 1..Cardinality(Chapters), polish \in BOOLEAN :
              \E list \in [1..n -> Chapters] : Enqueue(list, polish)
  <2>1. PICK row : runs' = Append(runs, row)
    BY <1>5 DEF Enqueue
  <2>2. \A s \in DOMAIN runs : runs'[s] = runs[s]
    BY <1>1, <2>1
  <2> QED BY <2>2 DEF SavedAs, AdoptedAs
<1>6. CASE ChangeMaterial \/ ChangeModel \/ \E c \in Chapters :
              \/ \E t \in Texts : Edit(c, t) \/ SaveVersion(c, t)
              \/ StartWriting(c) \/ ResumeWriting(c) \/ EndWriting(c)
  <2>1. UNCHANGED runs
    BY <1>6 DEF ChangeMaterial, ChangeModel, Edit, SaveVersion, StartWriting,
                ResumeWriting, EndWriting, SetWriting
  <2> QED BY <2>1, SameRuns
<1> QED BY <1>2, <1>3, <1>4, <1>5, <1>6 DEF Next, Author

-----------------------------------------------------------------------------
(* What is shown only grows.                                                *)

Grown(x, y) ==
    /\ Progress(y.saved) >= Progress(x.saved)
    /\ \A k \in DOMAIN x.saved : Decided(x.saved[k]) => y.saved[k].text = x.saved[k].text

LEMMA SameGrown ==
  ASSUME NEW x \in RunRow, NEW y, SavedAs(x, y)
  PROVE  Grown(x, y)
<1>1. x.saved \in Seq(ItemRow) /\ y.saved = x.saved
  BY DEF RunRow, SavedAs
<1>2. Progress(x.saved) \in Nat
  BY <1>1, ProgressOf
<1> QED BY <1>1, <1>2 DEF Grown

(* A result that is as far or further reads the same where it is decided:   *)
(* both are judged by the same answers.                                     *)
LEMMA FurtherGrown ==
  ASSUME NEW x \in RunRow, RunOK(x), NEW items \in Seq(ItemRow),
         JudgedItems(x.answers, items),
         \A k \in 1..Len(items) : k < Len(items) => Decided(items[k]),
         NEW y, y.saved = IF Keeps(items, x.saved) THEN items ELSE x.saved
  PROVE  Grown(x, y)
<1>1. x.saved \in Seq(ItemRow)
  BY DEF RunRow
<1>2. CASE ~Keeps(items, x.saved)
  BY <1>2, SameGrown DEF SavedAs
<1>3. CASE Keeps(items, x.saved)
  <2>1. y.saved = items /\ Progress(items) >= Progress(x.saved)
    BY <1>3 DEF Keeps
  <2>2. /\ Len(x.saved) <= Len(items) /\ Len(x.saved) \in Nat /\ Len(items) \in Nat
        /\ Len(x.saved) = Len(items) /\ Len(x.saved) > 0 /\ Decided(x.saved[Len(x.saved)]) =>
              Decided(items[Len(items)])
    BY <1>1, <1>3, Further
  <2>3. \A k \in 1..Len(x.saved) : Decided(x.saved[k]) => Decided(items[k])
    <3> SUFFICES ASSUME NEW k \in 1..Len(x.saved), Decided(x.saved[k]) PROVE Decided(items[k])
      OBVIOUS
    <3>1. CASE k < Len(items)
      BY <2>2, <3>1
    <3>2. CASE k = Len(items)
      <4>1. Len(x.saved) = Len(items) /\ Len(x.saved) > 0 /\ k = Len(x.saved)
        BY <2>2, <3>2
      <4> QED BY <2>2, <4>1
    <3> QED BY <2>2, <3>1, <3>2
  <2>4. \A k \in 1..Len(x.saved) : Decided(x.saved[k]) => items[k].text = x.saved[k].text
    <3> SUFFICES ASSUME NEW k \in 1..Len(x.saved), Decided(x.saved[k])
                 PROVE  items[k].text = x.saved[k].text
      OBVIOUS
    <3>1. Judged(x.answers, k, x.saved[k].text)
      BY DEF RunOK, JudgedItems
    <3>2. k \in 1..Len(items) /\ Decided(items[k])
      BY <2>2, <2>3
    <3>3. Judged(x.answers, k, items[k].text)
      BY <3>2 DEF JudgedItems
    <3> QED BY <3>1, <3>3, JudgedOnce DEF RunOK
  <2>5. DOMAIN x.saved = 1..Len(x.saved)
    BY <1>1
  <2> QED BY <2>1, <2>4, <2>5 DEF Grown
<1> QED BY <1>2, <1>3

LEMMA EachGrown ==
  ASSUME Types, NEW r \in DOMAIN runs, NEW y, Change(r, y), Grown(runs[r], y)
  PROVE  \A s \in DOMAIN runs : Grown(runs[s], runs'[s])
<1> SUFFICES ASSUME NEW s \in DOMAIN runs PROVE Grown(runs[s], runs'[s])
  OBVIOUS
<1>1. CASE s = r
  BY <1>1 DEF Change
<1>2. CASE s # r
  <2>1. runs'[s] = runs[s] /\ runs[s] \in RunRow
    BY <1>2, Rows DEF Change
  <2> QED BY <2>1, SameGrown DEF SavedAs
<1> QED BY <1>1, <1>2

LEMMA SavedGrows ==
  ASSUME IInv, Next, IInv'
  PROVE  \A s \in DOMAIN runs : Grown(runs[s], runs'[s])
<1>1. Types /\ \A s \in DOMAIN runs : runs[s] \in RunRow
  BY Rows DEF IInv
<1>2. CASE \A s \in DOMAIN runs : SavedAs(runs[s], runs'[s])
  BY <1>1, <1>2, SameGrown
<1>3. CASE w.pc # "idle" /\ Shown
  <2>1. PICK items, pc : pc # "idle" /\ Persist(items, pc)
    BY <1>3 DEF Shown
  <2>2. Run \in RunRow /\ RunOK(Run) /\ Run = runs[w.run] /\ w.run \in DOMAIN runs /\ w \in HandRow
    BY <1>3, AtWork
  <2>3. CASE ~Sound
    BY <1>2, <2>1, <2>3, SameRuns DEF Persist
  <2>4. CASE Sound
    <3> DEFINE y == Saving(items)
    <3>1. Change(w.run, y) /\ w' = [w EXCEPT !.result = items, !.pc = pc]
      BY <2>1, <2>4 DEF Persist
    <3>2. /\ y.answers = Run.answers
          /\ y.saved = IF Keeps(items, Run.saved) THEN items ELSE Run.saved
      BY <2>2 DEF Saving, RunRow
    <3>3. w'.run = w.run /\ w'.pc = pc /\ w'.result = items /\ runs'[w.run] = y
      BY <2>2, <3>1 DEF HandRow, Change
    <3>4. HandOK(y, w') /\ items \in Seq(ItemRow)
      <4>1. Working' /\ w' \in HandRow
        BY DEF IInv, Types
      <4> HIDE DEF y
      <4> QED BY <2>1, <3>3, <4>1 DEF Working, HandRow
    <3>5. JudgedItems(Run.answers, items) /\ \A k \in 1..Len(items) : k < Len(items) => Decided(items[k])
      <4> HIDE DEF y
      <4> QED BY <3>2, <3>3, <3>4 DEF HandOK
    <3> HIDE DEF y
    <3>6. Grown(Run, y)
      BY <2>2, <3>2, <3>4, <3>5, FurtherGrown
    <3> QED BY <1>1, <2>2, <3>1, <3>6, EachGrown
  <2> QED BY <2>3, <2>4
<1>4. CASE w.pc # "idle" /\ Finish
  <2>1. /\ Run \in RunRow /\ RunOK(Run) /\ Run = runs[w.run] /\ w.run \in DOMAIN runs
        /\ HandOK(Run, w) /\ w.result \in Seq(ItemRow)
    BY <1>4, AtWork
  <2>2. CASE ~Sound
    BY <1>2, <1>4, <2>2, SameRuns DEF Finish
  <2>3. CASE Sound
    <3> DEFINE x == Saving(w.result)
               y == [x EXCEPT !.status = "succeeded"]
    <3>1. Change(w.run, y)
      BY <1>4, <2>3 DEF Finish
    <3>2. y.saved = IF Keeps(w.result, Run.saved) THEN w.result ELSE Run.saved
      BY <2>1 DEF Saving, RunRow
    <3>3. /\ JudgedItems(Run.answers, w.result)
          /\ \A k \in 1..Len(w.result) : k < Len(w.result) => Decided(w.result[k])
      BY <2>1 DEF HandOK
    <3> HIDE DEF y
    <3>4. Grown(Run, y)
      BY <2>1, <3>2, <3>3, FurtherGrown
    <3> QED BY <1>1, <2>1, <3>1, <3>4, EachGrown
  <2> QED BY <2>2, <2>3
<1>5. CASE \E r \in DOMAIN runs : \E k \in 1..Size(r) : Accept(r, k)
  <2> PICK r \in DOMAIN runs : \E k \in 1..Size(r) : Accept(r, k)
    BY <1>5
  <2>1. PICK k \in 1..Size(r) : Accept(r, k)
    OBVIOUS
  <2>2. PICK a : Change(r, [runs[r] EXCEPT !.accepted[k] = a])
    BY <2>1 DEF Accept
  <2> DEFINE y == [runs[r] EXCEPT !.accepted[k] = a]
  <2>3. SavedAs(runs[r], y)
    BY <1>1 DEF RunRow, SavedAs
  <2>4. Change(r, y)
    BY <2>2
  <2> HIDE DEF y
  <2>5. Grown(runs[r], y)
    BY <1>1, <2>3, SameGrown
  <2> QED BY <1>1, <2>4, <2>5, EachGrown
<1> QED BY <1>2, <1>3, <1>4, <1>5, StepKeeps

(* What a quality run has shown the author never goes back to an earlier    *)
(* state, and a decided candidate keeps its text, through every replay      *)
(* after a pause, a failure or a process death (persist).                   *)
THEOREM ShownOnlyGrows == Spec => SavedOnlyGrows
<1> DEFINE G == \A r \in DOMAIN runs :
                  /\ Progress(runs'[r].saved) >= Progress(runs[r].saved)
                  /\ \A k \in DOMAIN runs[r].saved : Decided(runs[r].saved[k]) =>
                        runs'[r].saved[k].text = runs[r].saved[k].text
<1>1. IInv /\ IInv' /\ [Next]_vars => [G]_vars
  BY SavedGrows DEF Grown
<1> QED BY <1>1, QualityInvariant, PTL DEF Spec, SavedOnlyGrows

-----------------------------------------------------------------------------
(* What is adopted and what the overview says.                              *)

(* A chapter that was adopted as a whole has the one judged text. *)
LEMMA WhollyJudged ==
  ASSUME IInv, NEW r \in DOMAIN runs, NEW k \in 1..Size(r), Accepted(r, k),
         runs[r].accepted[k].whole \/ ~runs[r].polish
  PROVE  Judged(runs[r].answers, k, runs[r].accepted[k].text)
<1>1. RunOK(runs[r])
  BY DEF IInv, RunsOK
<1> QED BY <1>1 DEF RunOK, AdoptionsOK, Accepted, Size

LEMMA HandedOverOnce ==
  ASSUME IInv, NEW r \in DOMAIN runs, NEW k \in 2..Size(r), NEW t, NEW u,
         Judged(runs[r].answers, k - 1, t), Judged(runs[r].answers, k, u)
  PROVE  HandedOver(r, k) = {t}
<1> DEFINE A == runs[r].answers
<1>1. AnswersOK(A) /\ A \in SUBSET AnswerRow
  BY Rows DEF IInv, RunsOK, RunOK, RunRow
<1>2. \A a \in A : a.key[1] = k => a.input.before = t
  <2> SUFFICES ASSUME NEW a \in A, a.key[1] = k PROVE a.input.before = t
    OBVIOUS
  <2>1. Judged(A, k - 1, a.input.before)
    BY <1>1 DEF AnswersOK
  <2> QED BY <1>1, <2>1, JudgedOnce
<1>3. \E a \in A : a.key[1] = k
  BY DEF Judged, Rewritten, Faulted, Of
<1> QED BY <1>2, <1>3 DEF HandedOver

LEMMA AdoptsBehind ==
  ASSUME IInv, Next, NEW r \in DOMAIN runs, NEW k \in 2..Size(r),
         ~Accepted(r, k), Accepted(r, k)'
  PROVE  HandedOver(r, k) = {doc[Chapter(r, k - 1)].text}
<1>1. /\ Types /\ runs[r] \in RunRow /\ RunOK(runs[r]) /\ Size(r) \in Nat
      /\ runs[r].accepted \in Seq(Adoption) /\ runs[r].saved \in Seq(ItemRow)
  <2>1. Types /\ runs[r] \in RunRow /\ RunOK(runs[r])
    BY Rows DEF IInv, RunsOK
  <2> QED BY <2>1 DEF RunRow, Size
<1>2. ~AdoptedAs(runs[r], runs'[r])
  BY DEF AdoptedAs, Accepted
<1>3. ~(w.pc # "idle" /\ Shown)
  <2> SUFFICES ASSUME w.pc # "idle", Shown PROVE FALSE
    OBVIOUS
  <2>1. PICK items, pc : Persist(items, pc)
    BY DEF Shown
  <2>2. Run = runs[w.run] /\ Run \in RunRow /\ w.run \in DOMAIN runs
    BY AtWork
  <2>3. Change(w.run, Saving(items)) \/ UNCHANGED runs
    BY <2>1 DEF Persist
  <2>4. AdoptedAs(Run, Saving(items))
    BY <2>2 DEF Saving, RunRow, AdoptedAs
  <2> QED BY <1>2, <2>2, <2>3, <2>4 DEF Change, AdoptedAs
<1>4. ~(w.pc # "idle" /\ Finish)
  <2> SUFFICES ASSUME w.pc # "idle", Finish PROVE FALSE
    OBVIOUS
  <2>1. Run = runs[w.run] /\ Run \in RunRow /\ w.run \in DOMAIN runs
    BY AtWork
  <2> DEFINE y == [Saving(w.result) EXCEPT !.status = "succeeded"]
  <2>2. Change(w.run, y) \/ UNCHANGED runs
    BY DEF Finish
  <2>3. AdoptedAs(Run, y)
    BY <2>1 DEF Saving, RunRow, AdoptedAs
  <2> HIDE DEF y
  <2> QED BY <1>2, <2>1, <2>2, <2>3 DEF Change, AdoptedAs
<1>5. PICK s \in DOMAIN runs : \E j \in 1..Size(s) : Accept(s, j)
  BY <1>2, <1>3, <1>4, StepKeeps
<1>6. PICK j \in 1..Size(s) : Accept(s, j)
  BY <1>5
<1>7. PICK a : runs' = [runs EXCEPT ![s] = [runs[s] EXCEPT !.accepted[j] = a]]
  BY <1>6 DEF Accept, Change
<1>8. s = r
  BY <1>2, <1>7 DEF AdoptedAs
<1>9. j = k
  <2>1. runs'[r] = [runs[r] EXCEPT !.accepted[j] = a]
    BY <1>7, <1>8
  <2>2. runs'[r].accepted = [runs[r].accepted EXCEPT ![j] = a]
    BY <1>1, <2>1 DEF RunRow
  <2>3. j # k => runs'[r].accepted[k] = runs[r].accepted[k]
    BY <1>1, <2>2
  <2> QED BY <2>3 DEF Accepted
<1>10. k - 1 \in 1..Size(r) /\ k \in 1..Size(r) /\ ~runs[r].polish
  <2>1. k - 1 \in 1..Size(r) /\ k \in 1..Size(r) /\ Size(r) # 1
    BY <1>1
  <2>2. runs[r].polish => Size(r) = 1
    BY <1>1 DEF RunOK, Size
  <2> QED BY <2>1, <2>2
<1>11. Accepted(r, k - 1) /\ Stands(r, k - 1) /\ k \in DOMAIN runs[r].saved /\ Decided(runs[r].saved[k])
  BY <1>6, <1>8, <1>9, <1>10 DEF Accept, Adoptable, Decided
<1>12. Judged(runs[r].answers, k - 1, doc[Chapter(r, k - 1)].text)
  BY <1>10, <1>11, WhollyJudged DEF Stands
<1>13. Judged(runs[r].answers, k, runs[r].saved[k].text)
  <2>1. k \in 1..Len(runs[r].saved)
    BY <1>1, <1>11
  <2> QED BY <1>1, <1>11, <2>1 DEF RunOK, JudgedItems
<1> QED BY <1>12, <1>13, HandedOverOnce

(* A chapter is adopted only behind the text it was written after: every    *)
(* request about it named the earlier chapter as it now stands              *)
(* (accept_quality, _require_previous_accepted).                            *)
THEOREM AdoptedInOrder == Spec => AdoptedBehindHandover
<1> DEFINE G == \A r \in DOMAIN runs : \A k \in 2..Size(r) :
                  ~Accepted(r, k) /\ Accepted(r, k)' =>
                     HandedOver(r, k) = {doc[Chapter(r, k - 1)].text}
<1>1. IInv /\ IInv' /\ [Next]_vars => [G]_vars
  BY AdoptsBehind
<1> QED BY <1>1, QualityInvariant, PTL DEF Spec, AdoptedBehindHandover

(* A non-empty set of numbers up to n has a greatest one. *)
LEMMA Greatest ==
  ASSUME NEW n \in Nat, NEW R \in SUBSET (1..n), R # {}
  PROVE  \E r \in R : \A s \in R : s <= r
<1> DEFINE T == {n - r : r \in R}
           Less == OpToRel(<, Nat)
<1>1. IsWellFoundedOn(Less, Nat)
  BY NatLessThanWellFounded
<1>2. \A x, y \in Nat : <<x, y>> \in Less <=> x < y
  BY DEF OpToRel
<1>3. T \subseteq Nat /\ T # {}
  <2>1. \A r \in R : r \in Nat /\ r <= n
    OBVIOUS
  <2>2. \A r \in R : n - r \in Nat
    BY <2>1
  <2> QED BY <2>2
<1> HIDE DEF Less, T
<1>4. PICK x \in T : \A y \in T : ~(<<y, x>> \in Less)
  BY <1>1, <1>3, WFMin
<1>5. \A y \in T : x <= y
  <2> SUFFICES ASSUME NEW y \in T PROVE x <= y
    OBVIOUS
  <2>1. x \in Nat /\ y \in Nat
    BY <1>3
  <2>2. ~(y < x)
    BY <1>2, <1>4, <2>1
  <2> QED BY <2>1, <2>2
<1>6. PICK r \in R : x = n - r
  BY <1>4 DEF T
<1>7. \A s \in R : n - r <= n - s
  BY <1>5, <1>6 DEF T
<1>8. \A s \in R : s <= r
  BY <1>7
<1> QED BY <1>6, <1>8

LEMMA LatestOf ==
  ASSUME Types, NEW c, Latest(c) # 0
  PROVE  Latest(c) \in DOMAIN runs /\ c \in Involved(Latest(c))
<1> DEFINE R == {r \in DOMAIN runs : c \in Involved(r)}
<1>1. R # {} /\ Latest(c) = CHOOSE r \in R : \A s \in R : s <= r
  BY DEF Latest
<1>2. Len(runs) \in Nat /\ R \in SUBSET (1..Len(runs))
  BY DEF Types
<1> HIDE DEF R
<1>3. \E r \in R : \A s \in R : s <= r
  BY <1>1, <1>2, Greatest
<1>4. Latest(c) \in R
  BY <1>1, <1>3
<1> QED BY <1>4 DEF R

LEMMA JudgedReviews ==
  ASSUME IInv, NEW r \in DOMAIN runs, NEW k \in Nat, NEW t, Judged(runs[r].answers, k, t)
  PROVE  {a.input.text : a \in ReviewOf(r, k)} = {t}
<1> DEFINE A == runs[r].answers
           final == Of(A, k, "final")
           first == Of(A, k, "review")
<1>1. AnswersOK(A)
  BY DEF IInv, RunsOK, RunOK
<1>2. ReviewOf(r, k) = IF final # {} THEN final ELSE first
  BY DEF ReviewOf, Of
<1>3. CASE final # {}
  <2>1. \A d \in final : d.input.text = t
    <3> SUFFICES ASSUME NEW d \in final PROVE d.input.text = t
      OBVIOUS
    <3>1. d \in A /\ d.key[1] = k /\ d.key[2] = "final"
      BY DEF Of
    <3>2. Rewritten(A, k, d.input.text)
      BY <1>1, <3>1 DEF AnswersOK
    <3>3. Judged(A, k, d.input.text)
      BY <3>2 DEF Judged
    <3> QED BY <1>1, <3>3, JudgedOnce
  <2> HIDE DEF final
  <2> QED BY <1>2, <1>3, <2>1
<1>4. CASE final = {}
  <2>1. PICK b \in first : b.input.text = t
    BY <1>4 DEF Judged
  <2>2. \A d \in first : d = b
    BY <1>1 DEF AnswersOK, Of
  <2> HIDE DEF first, final
  <2> QED BY <1>2, <1>4, <2>1, <2>2
<1> QED BY <1>3, <1>4

LEMMA Confirms == ASSUME IInv PROVE ConfirmedAsReviewed
<1> SUFFICES ASSUME NEW c \in Chapters, Coverage(c) = "confirmed"
             PROVE  {doc[c].text} =
                      {a.input.text : a \in ReviewOf(Latest(c), Place(Latest(c), c))}
  BY DEF ConfirmedAsReviewed
<1> DEFINE r == Latest(c)
           k == Place(r, c)
<1>1. /\ r # 0 /\ SourcesStand(r, k) /\ Wholly(r, k)
  BY DEF Coverage
<1>2. Types /\ r \in DOMAIN runs /\ c \in Involved(r)
  BY <1>1, LatestOf DEF IInv
<1> HIDE DEF r
<1>3. k \in 1..Size(r) /\ Chapter(r, k) = c
  BY <1>2 DEF Place, Involved
<1>4. k \in Nat
  BY <1>3
<1> HIDE DEF k
<1>5. Accepted(r, k) /\ runs[r].accepted[k].whole
  BY <1>1 DEF Wholly
<1>6. doc[c].text = runs[r].accepted[k].text
  BY <1>1, <1>3, <1>4, <1>5 DEF SourcesStand, Stands
<1>7. Judged(runs[r].answers, k, doc[c].text)
  BY <1>2, <1>3, <1>5, <1>6, WhollyJudged
<1>8. {a.input.text : a \in ReviewOf(r, k)} = {doc[c].text}
  BY <1>2, <1>4, <1>7, JudgedReviews
<1> QED BY <1>8 DEF r, k

(* A chapter the overview of the book calls confirmed reads exactly as the  *)
(* text that was reviewed, or that was rewritten and reviewed again         *)
(* (read_coverage).                                                         *)
THEOREM ConfirmedWasReviewed == Spec => []ConfirmedAsReviewed
<1>1. IInv => ConfirmedAsReviewed
  BY Confirms
<1> QED BY <1>1, QualityInvariant, PTL
=============================================================================
