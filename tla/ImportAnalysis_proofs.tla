------------------------ MODULE ImportAnalysis_proofs ------------------------
(***************************************************************************)
(* No unit of an analysis is sent twice without the author's retry, and a  *)
(* batch that says it is analyzed is: for every book, number of faults and *)
(* model setting.                                                          *)
(*                                                                         *)
(* The argument: a unit that may still be sent (Sendable) has been sent as *)
(* often as it was retried and no more; only a retry makes a unit that was *)
(* sent sendable again.  A retry counts as the author's because a page     *)
(* that is up to date shows every unit that failed (PageShows).            *)
(***************************************************************************)
EXTENDS ImportAnalysis, TLAPS, WellFoundedInduction

Counted ==
    /\ calls \in [Units -> Nat] /\ consents \in [Units -> Nat]
    /\ DOMAIN unit = Units
    /\ \A u \in Units : DOMAIN unit[u] = {"status", "attempts", "epoch"}

(* The executor and the page are records; no process, no unit in hand. *)
Shaped ==
    /\ DOMAIN w = {"pc", "unit", "provider", "identity"} /\ (~up => w.pc = "idle")
    /\ DOMAIN page = {"fresh", "failed"}

(* The unit in the executor's hands is running, whoever acts meanwhile. *)
Held ==
    w.pc # "idle" => w.unit \in Units /\ unit[w.unit].status = "running"

PageShows ==
    page.fresh => \A u \in Units : unit[u].status = "failed" => u \in page.failed

(* The executor's call for the unit is still to come, or it has none yet. *)
Unsent == {"claimed", "snapshot", "call"}
Sendable(u) ==
    \/ unit[u].status \in {"absent", "queued"}
    \/ w.pc \in Unsent /\ w.unit = u
Spare == \A u \in Units : Sendable(u) => calls[u] <= consents[u]

IInv == Counted /\ Shaped /\ Held /\ PageShows /\ CallsByConsent /\ Spare

LEMMA InitIInv == Init => IInv
  BY DEF Init, IInv, Counted, Shaped, Held, PageShows, CallsByConsent, Spare, Sendable, Free, Seed, Unsent

(* A step that sends nothing and grants nothing: no unit becomes sendable  *)
(* that was not, and no unit fails behind a page that is up to date.       *)
LEMMA QuietStep ==
    ASSUME IInv, UNCHANGED history, DOMAIN unit' = Units, Shaped', Held', PageShows',
           \A u \in Units : DOMAIN unit'[u] = {"status", "attempts", "epoch"},
           \A u \in Units : Sendable(u)' => Sendable(u)
    PROVE  IInv'
  BY DEF IInv, history, Counted, CallsByConsent, Spare

(* A step that leaves the units and the page. *)
LEMMA SameUnits ==
    ASSUME IInv, UNCHANGED <<unit, page, history>>, Shaped',
           \/ w'.pc = "idle"
           \/ w.pc # "idle" /\ w'.unit = w.unit /\ (w'.pc \in Unsent => w.pc \in Unsent)
    PROVE  IInv'
<1>1. Held'
  BY DEF IInv, Held
<1>2. PageShows'
  BY DEF IInv, PageShows
<1>3. \A u \in Units : Sendable(u)' => Sendable(u)
  BY DEF Sendable, Unsent
<1>4. DOMAIN unit' = Units /\ \A u \in Units : DOMAIN unit'[u] = {"status", "attempts", "epoch"}
  BY DEF IInv, Counted
<1> QED BY <1>1, <1>2, <1>3, <1>4, QuietStep

(* Some running units fail; none of them is in the executor's hands after. *)
LEMMA FailedStep ==
    ASSUME IInv, NEW us \in SUBSET Units, unit' = Failed(us), Stale, UNCHANGED history,
           Shaped', us \subseteq Running, w'.pc = "idle"
    PROVE  IInv'
<1>1. \A u \in Units : unit'[u].status = IF u \in us THEN "failed" ELSE unit[u].status
  BY DEF Failed, IInv, Counted
<1>2. Held' /\ PageShows'
  BY DEF Held, PageShows, Stale, IInv, Shaped
<1>3. \A u \in Units : Sendable(u)' => Sendable(u)
  BY <1>1 DEF Sendable, Unsent
<1>4. DOMAIN unit' = Units /\ \A u \in Units : DOMAIN unit'[u] = {"status", "attempts", "epoch"}
  BY DEF IInv, Counted, Failed
<1> QED BY <1>2, <1>3, <1>4, QuietStep

(* A step of the executor that is one change of its position. *)
LEMMA Moves ==
    ASSUME IInv, up, UNCHANGED <<up, page>>, NEW pc, Move(pc) \/ w' = Free
    PROVE  Shaped' /\ (Move(pc) => w'.pc = pc /\ w'.unit = w.unit) /\ (w' = Free => w'.pc = "idle")
  BY DEF IInv, Shaped, Move, Free

LEMMA ClaimStep == ASSUME IInv, NEW u \in Units, Claim(u) PROVE IInv'
<1>1. /\ w.pc = "idle" /\ unit[u].status = "queued"
      /\ w'.pc = "claimed" /\ w'.unit = u /\ page'.fresh = FALSE /\ UNCHANGED history
  BY DEF Claim, Turn, Claimable, QueuedOnly, Stale, IInv, Shaped
<1>2. DOMAIN unit' = Units /\ \A v \in Units : DOMAIN unit'[v] = {"status", "attempts", "epoch"}
  BY DEF Claim, IInv, Counted
<1>3. unit'[u].status = "running" /\ \A v \in Units \ {u} : unit'[v] = unit[v]
  BY DEF Claim, IInv, Counted
<1>4. Held' /\ PageShows' /\ Shaped'
  <2>1. Held'
    BY <1>1, <1>3 DEF Held
  <2>2. PageShows'
    BY <1>1 DEF PageShows
  <2>3. DOMAIN w' = {"pc", "unit", "provider", "identity"}
    BY DEF Claim
  <2>4. DOMAIN page' = {"fresh", "failed"} /\ up'
    BY DEF Claim, Turn, Stale, IInv, Shaped
  <2> QED BY <2>1, <2>2, <2>3, <2>4 DEF Shaped
<1>5. \A v \in Units : Sendable(v)' => Sendable(v)
  BY <1>1, <1>3 DEF Sendable
<1> QED BY <1>1, <1>2, <1>4, <1>5, QuietStep

LEMMA CallStep == ASSUME IInv, Call PROVE IInv'
<1>1. /\ w.pc = "call" /\ w'.pc \in {"publish", "fail"} /\ w'.unit = w.unit /\ Shaped'
      /\ calls' = [calls EXCEPT ![w.unit] = @ + 1] /\ UNCHANGED <<unit, page, consents>>
  BY Moves DEF Call, Turn, author
<1>2. w.unit \in Units /\ unit[w.unit].status = "running" /\ calls[w.unit] <= consents[w.unit]
  BY <1>1 DEF IInv, Held, Spare, Sendable, Unsent
<1>3. Counted' /\ Held' /\ PageShows'
  BY <1>1, <1>2 DEF IInv, Counted, Held, PageShows
<1>4. CallsByConsent'
  BY <1>1, <1>2 DEF IInv, Counted, CallsByConsent
<1>5. Spare'
  BY <1>1, <1>2 DEF IInv, Counted, Spare, Sendable, Unsent
<1> QED BY <1>1, <1>3, <1>4, <1>5 DEF IInv

(* A publication finishes its unit and seeds units that were not there. *)
LEMMA PublishStep == ASSUME IInv, Publish PROVE IInv'
<1>1. /\ w.pc = "publish" /\ w'.pc = "idle" /\ page'.fresh = FALSE /\ UNCHANGED history /\ Shaped'
  BY DEF Publish, Turn, Free, Stale, IInv, Shaped
<1> DEFINE un == [unit EXCEPT ![w.unit].status = "succeeded"]
           merged == SeedMerges(un)
<1>2. PICK c : unit' = SeedGroups(merged, c)
  BY DEF Publish, Published
<1>3. \A u \in Units : /\ un[u] = unit[u] \/ un[u].status = "succeeded"
                       /\ DOMAIN un[u] = {"status", "attempts", "epoch"}
  BY <1>1 DEF IInv, Counted, Held
<1>4. \A u \in Units : merged[u] = un[u] \/ (merged[u] = Seed /\ un[u].status = "absent")
  BY DEF SeedMerges
<1>5. \A u \in Units : unit'[u] = merged[u] \/ (unit'[u] = Seed /\ merged[u].status = "absent")
  BY <1>2 DEF SeedGroups
<1> HIDE DEF un, merged
<1>6. \A u \in Units : \/ unit'[u] = unit[u] \/ unit'[u].status = "succeeded"
                       \/ unit[u].status = "absent"
  BY <1>3, <1>4, <1>5 DEF Seed
<1>7. DOMAIN unit' = Units
  BY <1>2 DEF SeedGroups
<1>8. \A u \in Units : DOMAIN unit'[u] = {"status", "attempts", "epoch"}
  BY <1>3, <1>4, <1>5 DEF Seed
<1>9. Held' /\ PageShows'
  BY <1>1 DEF Held, PageShows
<1>10. \A u \in Units : Sendable(u)' => Sendable(u)
  BY <1>1, <1>6 DEF Sendable, Unsent
<1> QED BY <1>1, <1>7, <1>8, <1>9, <1>10, QuietStep

LEMMA ExecutorStep == ASSUME IInv, Executor PROVE IInv'
<1>1. CASE RecoverOrphans
  <2>1. Orphans \in SUBSET Units /\ Orphans \subseteq Running
    BY DEF Orphans, OfThisEpoch, Running
  <2>2. unit' = Failed(Orphans) /\ Stale /\ UNCHANGED history /\ w'.pc = "idle" /\ Shaped'
    BY <1>1 DEF RecoverOrphans, Turn, Stale, IInv, Shaped
  <2> QED BY <2>1, <2>2, FailedStep
<1>2. CASE ReadIdentity
  <2>1. /\ w.pc = "claimed" /\ w'.pc = "snapshot" /\ w'.unit = w.unit /\ Shaped'
        /\ UNCHANGED <<unit, page, history>>
    BY <1>2 DEF ReadIdentity, Turn, IInv, Shaped
  <2> QED BY <2>1, SameUnits DEF Unsent
<1>3. CASE Snapshot
  <2>1. /\ up /\ w.pc = "snapshot" /\ UNCHANGED <<up, unit, page, history>>
        /\ w' = Free \/ \E pc \in {"fail", "publish", "call"} : Move(pc)
    BY <1>3 DEF Snapshot, Turn
  <2> QED BY <2>1, Moves, SameUnits DEF Unsent
<1>4. CASE Refused
  <2>1. up /\ w.pc = "call" /\ UNCHANGED <<up, unit, page, history>> /\ Move("fail")
    BY <1>4 DEF Refused, Turn
  <2> QED BY <2>1, Moves, SameUnits DEF Unsent
<1>5. CASE PublishRaises
  <2>1. /\ up /\ w.pc = "publish" /\ UNCHANGED <<up, unit, page, history>>
        /\ w' = Free \/ Move("fail")
    BY <1>5 DEF PublishRaises, Turn
  <2> QED BY <2>1, Moves, SameUnits DEF Unsent
<1>6. CASE Fail
  <2>1. w.pc = "fail" /\ w'.pc = "idle" /\ {w.unit} \in SUBSET Units /\ {w.unit} \subseteq Running
    BY <1>6 DEF Fail, Turn, Free, IInv, Held, Running
  <2>2. CASE FenceMatches
    <3>1. unit' = Failed({w.unit}) /\ Stale /\ UNCHANGED history /\ Shaped'
      BY <1>6, <2>2 DEF Fail, Turn, Free, Stale, IInv, Shaped
    <3> QED BY <2>1, <3>1, FailedStep
  <2>3. CASE ~FenceMatches
    <3>1. UNCHANGED <<unit, page, history>> /\ Shaped'
      BY <1>6, <2>3 DEF Fail, Turn, Free, IInv, Shaped
    <3> QED BY <2>1, <3>1, SameUnits
  <2> QED BY <2>2, <2>3
<1> QED BY <1>1, <1>2, <1>3, <1>4, <1>5, <1>6, ClaimStep, CallStep, PublishStep DEF Executor

(* The author's retry is the only step that makes a unit sendable again. *)
LEMMA RetryStep == ASSUME IInv, NEW adopt \in BOOLEAN, Retry(adopt) PROVE IInv'
<1> DEFINE failed == {u \in Units : unit[u].status = "failed"}
<1>1. /\ page.fresh /\ page'.fresh = FALSE /\ Shaped' /\ UNCHANGED <<w, calls>>
      /\ unit' = [u \in Units |-> IF u \in failed
                                  THEN [unit[u] EXCEPT !.status = "queued", !.epoch = None]
                                  ELSE unit[u]]
      /\ consents' = [u \in Units |-> consents[u] + IF u \in failed \cap page.failed THEN 1 ELSE 0]
  BY DEF Retry, Control, Acts, Current, FreshOnly, Stale, IInv, Shaped
<1>2. failed \subseteq page.failed
  BY <1>1 DEF IInv, PageShows
<1>3. \A u \in Units : consents'[u] = IF u \in failed THEN consents[u] + 1 ELSE consents[u]
  <2>1. SUFFICES ASSUME NEW u \in Units
        PROVE consents'[u] = IF u \in failed THEN consents[u] + 1 ELSE consents[u]
    OBVIOUS
  <2>2. consents[u] \in Nat /\ consents'[u] = consents[u] + IF u \in failed THEN 1 ELSE 0
    BY <1>1, <1>2 DEF IInv, Counted
  <2> QED BY <2>2
<1>4. \A u \in Units : /\ DOMAIN unit'[u] = {"status", "attempts", "epoch"}
                       /\ unit'[u].status = IF u \in failed THEN "queued" ELSE unit[u].status
  BY <1>1 DEF IInv, Counted
<1>5. Counted'
  <2>1. DOMAIN unit' = Units
    BY <1>1
  <2>2. consents' = [u \in Units |-> IF u \in failed THEN consents[u] + 1 ELSE consents[u]]
    BY <1>1, <1>3
  <2>3. \A u \in Units : consents[u] \in Nat /\ consents[u] + 1 \in Nat
    BY DEF IInv, Counted
  <2>4. consents' \in [Units -> Nat]
    BY <2>2, <2>3
  <2>5. calls' \in [Units -> Nat]
    BY <1>1 DEF IInv, Counted
  <2> QED BY <1>4, <2>1, <2>4, <2>5 DEF Counted
<1>6. Held' /\ PageShows'
  BY <1>1, <1>4 DEF IInv, Held, PageShows
<1>7. CallsByConsent' /\ Spare'
  <2>1. SUFFICES ASSUME NEW u \in Units
        PROVE calls'[u] <= 1 + consents'[u] /\ (Sendable(u)' => calls'[u] <= consents'[u])
    BY DEF CallsByConsent, Spare
  <2>2. /\ calls'[u] = calls[u] /\ calls[u] \in Nat /\ consents[u] \in Nat
        /\ calls[u] <= 1 + consents[u]
        /\ consents'[u] = IF u \in failed THEN consents[u] + 1 ELSE consents[u]
    BY <1>1, <1>3 DEF IInv, Counted, CallsByConsent
  <2>3. CASE u \in failed
    BY <2>2, <2>3
  <2>4. CASE u \notin failed
    <3>1. Sendable(u)' => Sendable(u)
      BY <1>1, <1>4, <2>4 DEF Sendable
    <3>2. Sendable(u) => calls[u] <= consents[u]
      BY DEF IInv, Spare
    <3> QED BY <2>2, <2>4, <3>1, <3>2
  <2> QED BY <2>3, <2>4
<1> QED BY <1>1, <1>5, <1>6, <1>7 DEF IInv

LEMMA AuthorStep == ASSUME IInv, Author PROVE IInv'
<1>1. CASE Look
  <2>1. Held' /\ PageShows' /\ Shaped' /\ UNCHANGED <<unit, w, history>>
    BY <1>1 DEF Look, IInv, Held, PageShows, Shaped
  <2>2. \A u \in Units : Sendable(u)' => Sendable(u)
    BY <2>1 DEF Sendable
  <2> QED BY <2>1, <2>2, QuietStep DEF IInv, Counted
<1>2. CASE Pause \/ Continue
  <2>1. page'.fresh = FALSE /\ Shaped' /\ UNCHANGED <<unit, w, history>>
    BY <1>2 DEF Pause, Continue, Control, Stale, history, IInv, Shaped
  <2>2. Held' /\ PageShows'
    BY <2>1 DEF IInv, Held, PageShows
  <2>3. \A u \in Units : Sendable(u)' => Sendable(u)
    BY <2>1 DEF Sendable
  <2> QED BY <2>1, <2>2, <2>3, QuietStep DEF IInv, Counted
<1>3. CASE Elsewhere \/ \E f \in Facts : \/ \E g \in Groups : Edit(f, g)
                        \/ \E s \in {"confirmed", "rejected", "conflict"} : Decide(f, s)
  <2>1. UNCHANGED <<unit, w, up, page, history>>
    BY <1>3 DEF Elsewhere, Edit, Decide, Acts
  <2>2. Shaped' /\ Held' /\ PageShows' /\ \A u \in Units : Sendable(u)' => Sendable(u)
    BY <2>1 DEF IInv, Shaped, Held, PageShows, Sendable
  <2> QED BY <2>1, <2>2, QuietStep DEF IInv, Counted
<1> QED BY <1>1, <1>2, <1>3, RetryStep DEF Author, Requests

LEMMA NextIInv == IInv /\ [Next]_vars => IInv'
<1> SUFFICES ASSUME IInv, [Next]_vars PROVE IInv'
  OBVIOUS
<1>1. CASE UNCHANGED vars
  BY <1>1 DEF vars, history, IInv, Counted, Shaped, Held, PageShows, CallsByConsent, Spare, Sendable
<1>2. CASE Locked
  <2>1. /\ up /\ w.pc \in {"publish", "fail"} /\ UNCHANGED <<up, unit, page, history>>
        /\ w' = Free \/ Move("fail")
    BY <1>2 DEF Locked
  <2> QED BY <2>1, Moves, SameUnits DEF Unsent
<1>3. CASE Crash
  <2>1. w'.pc = "idle" /\ Shaped' /\ UNCHANGED <<unit, page, history>>
    BY <1>3 DEF Crash, Free, IInv, Shaped
  <2> QED BY <2>1, SameUnits
<1>4. CASE Restart
  <2>1. UNCHANGED <<w, history>> /\ unit' = Failed(Running) /\ w.pc = "idle"
    BY <1>4 DEF Restart, IInv, Shaped
  <2>2. CASE Running = {}
    <3>1. unit' = [u \in Units |-> unit[u]] /\ UNCHANGED page
      BY <1>4, <2>1, <2>2 DEF Restart, Failed
    <3>2. Shaped' /\ Held' /\ PageShows' /\ \A u \in Units : Sendable(u)' => Sendable(u)
      BY <1>4, <2>1, <3>1 DEF Restart, IInv, Shaped, Held, PageShows, Sendable
    <3> QED BY <2>1, <3>1, <3>2, QuietStep DEF IInv, Counted
  <2>3. CASE Running # {}
    <3>1. Stale /\ Shaped' /\ Running \in SUBSET Units
      BY <1>4, <2>1, <2>3 DEF Restart, Stale, IInv, Shaped, Running
    <3> QED BY <2>1, <3>1, FailedStep
  <2> QED BY <2>2, <2>3
<1> QED BY <1>1, <1>2, <1>3, <1>4, ExecutorStep, AuthorStep DEF Next

-----------------------------------------------------------------------------
(* A unit is sent once, and again only after the author asked for a retry  *)
(* on a page that showed it as failed (claim_import_unit, retry_analysis,  *)
(* recover_import_units), whatever crashes and lock errors there are.      *)
THEOREM SentByConsent == Spec => []CallsByConsent
<1>1. IInv => CallsByConsent
  BY DEF IInv
<1> QED BY InitIInv, NextIInv, <1>1, PTL DEF Spec

-----------------------------------------------------------------------------
(* Every non-empty set of numbers has a least element: the proofs by induction  *)
(* below look at the least number that would be an exception.                   *)
LEMMA Least == ASSUME NEW S \in SUBSET Nat, S # {} PROVE \E n \in S : \A m \in S : n <= m
<1> DEFINE R == OpToRel(<, Nat)
<1>1. IsWellFoundedOn(R, Nat)
  BY NatLessThanWellFounded
<1>2. R = {ss \in Nat \X Nat : ss[1] < ss[2]}
  BY DEF OpToRel
<1> HIDE DEF R
<1>3. PICK n \in S : \A m \in S : ~(<<m, n>> \in R)
  BY <1>1, WFMin
<1>4. ASSUME NEW m \in S PROVE n <= m
  <2>1. ~(<<m, n>> \in R) /\ m \in Nat /\ n \in Nat
    BY <1>3
  <2>2. ~(m < n)
    BY <2>1, <1>2
  <2> QED BY <2>1, <2>2
<1> QED BY <1>4

LEMMA Induction ==
    ASSUME NEW S \in SUBSET Nat, 0 \in S, \A n \in S : n + 1 \in S
    PROVE  S = Nat
<1> DEFINE T == Nat \ S
<1>1. SUFFICES ASSUME T # {} PROVE FALSE
  OBVIOUS
<1>2. PICK n \in T : \A m \in T : n <= m
  BY <1>1, Least
<1>3. n # 0 /\ n \in Nat
  BY <1>2
<1>4. n - 1 \in Nat /\ n - 1 \notin T
  BY <1>2, <1>3
<1>5. (n - 1) + 1 \in S
  BY <1>4
<1> QED BY <1>2, <1>3, <1>5

(* A sequence of numbers given by its first and the step to the next. *)
LEMMA Recursion ==
    ASSUME NEW a \in Nat, NEW H \in [Nat -> Nat]
    PROVE  \E f \in [Nat -> Nat] : f[0] = a /\ \A n \in Nat : f[n + 1] = H[f[n]]
<1> DEFINE Part(n) == {f \in [Nat -> Nat] : f[0] = a /\ \A k \in Nat : k < n => f[k + 1] = H[f[k]]}
           Some1 == {n \in Nat : Part(n) # {}}
<1>1. Some1 = Nat
  <2>1. 0 \in Some1
    <3>1. [k \in Nat |-> a] \in Part(0)
      OBVIOUS
    <3> QED BY <3>1
  <2>2. ASSUME NEW n \in Some1 PROVE n + 1 \in Some1
    <3>1. PICK f : f \in Part(n)
      OBVIOUS
    <3> DEFINE g == [k \in Nat |-> IF k = n + 1 THEN H[f[n]] ELSE f[k]]
    <3>2. f \in [Nat -> Nat] /\ n \in Nat
      BY <3>1
    <3>3. g \in [Nat -> Nat] /\ g[0] = a
      BY <3>1, <3>2
    <3>4. ASSUME NEW k \in Nat, k < n + 1 PROVE g[k + 1] = H[g[k]]
      <4>1. g[k] = f[k]
        BY <3>2, <3>4
      <4>2. CASE k = n
        BY <4>1, <4>2, <3>2
      <4>3. CASE k < n
        BY <3>1, <3>2, <4>1, <4>3
      <4> QED BY <3>2, <3>4, <4>2, <4>3
    <3>5. g \in Part(n + 1)
      BY <3>3, <3>4
    <3> HIDE DEF g, Part
    <3>6. n + 1 \in Nat /\ Part(n + 1) # {}
      BY <3>2, <3>5
    <3> QED BY <3>6
  <2> HIDE DEF Some1
  <2>3. Some1 \in SUBSET Nat
    BY DEF Some1
  <2> QED BY <2>1, <2>2, <2>3, Induction
<1>2. ASSUME NEW n \in Nat, NEW m \in Nat, NEW f \in Part(n), NEW g \in Part(m)
      PROVE  \A k \in Nat : k <= n /\ k <= m => f[k] = g[k]
  <2> DEFINE Same == {k \in Nat : k <= n /\ k <= m => f[k] = g[k]}
  <2>1. 0 \in Same
    OBVIOUS
  <2>2. ASSUME NEW k \in Same PROVE k + 1 \in Same
    <3> SUFFICES ASSUME k + 1 <= n, k + 1 <= m PROVE f[k + 1] = g[k + 1]
      OBVIOUS
    <3>1. f[k] = g[k]
      OBVIOUS
    <3>2. f[k + 1] = H[f[k]] /\ g[k + 1] = H[g[k]]
      OBVIOUS
    <3> QED BY <3>1, <3>2
  <2> HIDE DEF Same
  <2>3. Same \in SUBSET Nat
    BY DEF Same
  <2>4. Same = Nat
    BY <2>1, <2>2, <2>3, Induction
  <2> QED BY <2>4 DEF Same
<1> DEFINE G == [n \in Nat |-> CHOOSE f \in Part(n) : TRUE]
           F == [n \in Nat |-> G[n][n]]
<1>3. \A n \in Nat : G[n] \in Part(n)
  BY <1>1
<1> HIDE DEF Part, G
<1>4. F \in [Nat -> Nat] /\ F[0] = a
  BY <1>3 DEF Part
<1>5. ASSUME NEW n \in Nat PROVE F[n + 1] = H[F[n]]
  <2>1. n + 1 \in Nat /\ G[n] \in Part(n) /\ G[n + 1] \in Part(n + 1)
    BY <1>3
  <2>2. G[n + 1][n + 1] = H[G[n + 1][n]]
    BY <2>1 DEF Part
  <2>3. G[n + 1][n] = G[n][n]
    BY <1>2, <2>1
  <2> QED BY <2>1, <2>2, <2>3
<1> QED BY <1>4, <1>5

-----------------------------------------------------------------------------
(* The tree of merges. *)

LEMMA WidthStep ==
    /\ Width \in [Nat -> Nat] /\ Width[0] = (Maps + 1) \div 2
    /\ \A l \in Nat : Width[l + 1] = (Width[l] + 1) \div 2
<1> DEFINE a == (Maps + 1) \div 2
           H == [x \in Nat |-> (x + 1) \div 2]
           D(f) == [l \in Nat |-> IF l = 0 THEN (Maps + 1) \div 2 ELSE (f[l - 1] + 1) \div 2]
<1>1. a \in Nat /\ H \in [Nat -> Nat]
  BY AnalysisAssumption
<1>2. PICK f \in [Nat -> Nat] : f[0] = a /\ \A n \in Nat : f[n + 1] = H[f[n]]
  <2> HIDE DEF a, H
  <2> QED BY <1>1, Recursion
<1>3. \A n \in Nat : f[n + 1] = (f[n] + 1) \div 2
  BY <1>2
<1>4. f = D(f)
  <2>1. f = [l \in Nat |-> f[l]]
    OBVIOUS
  <2>2. ASSUME NEW l \in Nat PROVE f[l] = D(f)[l]
    <3>1. CASE l = 0
      BY <1>2, <3>1
    <3>2. CASE l # 0
      <4>1. l - 1 \in Nat /\ l = (l - 1) + 1
        BY <3>2
      <4>2. f[(l - 1) + 1] = (f[l - 1] + 1) \div 2
        BY <1>3, <4>1
      <4> QED BY <3>2, <4>1, <4>2
    <3> QED BY <3>1, <3>2
  <2> QED BY <2>1, <2>2
<1>5. Width = D(Width)
  <2>1. Width = CHOOSE g : g = D(g)
    BY DEF Width
  <2> HIDE DEF D
  <2> QED BY <1>4, <2>1
<1>6. Width[0] = a /\ \A l \in Nat : Width[l + 1] = (Width[l] + 1) \div 2
  <2>1. \A l \in Nat : Width[l] = IF l = 0 THEN (Maps + 1) \div 2 ELSE (Width[l - 1] + 1) \div 2
    BY <1>5
  <2>2. ASSUME NEW l \in Nat PROVE Width[l + 1] = (Width[l] + 1) \div 2
    <3>1. l + 1 \in Nat /\ l + 1 # 0 /\ (l + 1) - 1 = l
      OBVIOUS
    <3> QED BY <2>1, <3>1
  <2> QED BY <2>1, <2>2
<1>7. Width \in [Nat -> Nat]
  <2> DEFINE S == {l \in Nat : Width[l] \in Nat}
  <2>1. 0 \in S
    BY <1>1, <1>6
  <2>2. ASSUME NEW l \in S PROVE l + 1 \in S
    <3>1. l \in Nat /\ Width[l] \in Nat /\ Width[l + 1] = (Width[l] + 1) \div 2
      BY <1>6
    <3>2. Width[l + 1] \in Nat
      BY <3>1
    <3> QED BY <3>1, <3>2
  <2> HIDE DEF S
  <2>3. S = Nat
    <3>1. S \in SUBSET Nat
      BY DEF S
    <3> QED BY <2>1, <2>2, <3>1, Induction
  <2>4. Width = [l \in Nat |-> Width[l]]
    BY <1>5
  <2> QED BY <2>3, <2>4 DEF S
<1> QED BY <1>6, <1>7

LEMMA WidthBounds ==
    ASSUME Maps > 0, NEW l \in Nat
    PROVE  Width[l] >= 1 /\ (Width[l] <= 1 \/ Width[l] <= Maps - l)
<1> DEFINE S == {k \in Nat : Width[k] >= 1 /\ (Width[k] <= 1 \/ Width[k] <= Maps - k)}
<1>1. 0 \in S
  BY WidthStep, AnalysisAssumption
<1>2. ASSUME NEW k \in S PROVE k + 1 \in S
  <2>1. /\ k \in Nat /\ Width[k] \in Nat /\ Width[k + 1] = (Width[k] + 1) \div 2
        /\ Width[k] >= 1 /\ (Width[k] <= 1 \/ Width[k] <= Maps - k)
    BY WidthStep
  <2>2. Width[k + 1] >= 1 /\ (Width[k + 1] <= 1 \/ Width[k + 1] <= Maps - (k + 1))
    BY <2>1, AnalysisAssumption
  <2> QED BY <2>1, <2>2
<1> HIDE DEF S
<1>3. S = Nat
  <2>1. S \in SUBSET Nat
    BY DEF S
  <2> QED BY <1>1, <1>2, <2>1, Induction
<1> QED BY <1>3 DEF S

(* The tree has a top, and it is one merge if there is anything to merge. *)
LEMMA TopOfTree == Top \in Nat /\ (Maps > 0 => Width[Top] = 1)
<1> DEFINE S == {l \in 0..Maps : Width[l] <= 1}
           P(l) == Width[l] <= 1 /\ \A k \in 0..(l - 1) : Width[k] > 1
<1>1. Maps \in S
  <2>1. CASE Maps = 0
    BY <2>1, WidthStep
  <2>2. CASE Maps > 0
    <3>1. Width[Maps] <= 1 \/ Width[Maps] <= Maps - Maps
      BY <2>2, WidthBounds, AnalysisAssumption
    <3> QED BY <3>1, WidthStep, AnalysisAssumption
  <2> QED BY <2>1, <2>2, AnalysisAssumption
<1>2. PICK l \in S : \A k \in S : l <= k
  <2>1. S \in SUBSET Nat /\ S # {}
    BY <1>1, AnalysisAssumption
  <2> HIDE DEF S
  <2> QED BY <2>1, Least
<1>3. P(l)
  BY <1>2, WidthStep, AnalysisAssumption
<1>4. Top \in 0..Maps /\ P(Top)
  <2>1. Top = CHOOSE k \in 0..Maps : P(k)
    BY DEF Top
  <2>2. l \in 0..Maps
    OBVIOUS
  <2> HIDE DEF P
  <2> QED BY <1>3, <2>1, <2>2
<1>5. Top \in Nat /\ Width[Top] \in Nat /\ Width[Top] <= 1
  BY <1>4, WidthStep, AnalysisAssumption
<1> QED BY <1>5, WidthBounds

-----------------------------------------------------------------------------
(***************************************************************************)
(* Analyzed is complete.  The publication that leaves nothing queued,      *)
(* running or failed finds the tree of merges grown to its root: the       *)
(* lowest level with a merge that is not there would have been seeded.     *)
(* The comparison of an identity is seeded when every source has been      *)
(* read, so its manifest names every candidate as the model wrote it.      *)
(***************************************************************************)

Statuses == {"absent", "queued", "running", "failed", "succeeded"}
Data ==
    /\ \A u \in Units : unit[u].status \in Statuses /\ (unit[u].status = "absent" => unit[u].attempts = 0)
    /\ \A u \in Sources \cup SummaryMaps : unit[u].status # "absent"
    /\ DOMAIN cand = Facts /\ DOMAIN manifest = Groups
    /\ \A f \in Facts : /\ DOMAIN cand[f] = {"status", "group", "key"}
                        /\ cand[f].group \in Groups /\ cand[f].key \in Nat
    /\ DOMAIN batch = {"status", "provider"}

(* The root of the tree of merges: its publication writes the summary. *)
Root == <<"summary_merge", Top, 1>>
Recaps == Maps > 0 => recaps = (IF unit[Root].status = "succeeded" THEN 1 ELSE 0)

(* The unit that compares the candidates of an identity. *)
Comparison(g) == <<"consolidation", 0, g>>

(* A comparison is seeded when every source is read; from then on no         *)
(* candidate joins its group as the model wrote it.                          *)
Manifested ==
    \A g \in Groups : unit[Comparison(g)].status # "absent" =>
        /\ SourcesRead(unit)
        /\ \A f \in Written : cand[f].group = g /\ cand[f].key = 0 => <<f, 0>> \in manifest[g]

Rested ==
    batch.status = "analyzed" =>
        /\ \A u \in Units : unit[u].status \in {"absent", "succeeded"}
        /\ \A u \in Units \ Consolidations : unit[u].status = "succeeded"
        /\ \A f \in Written : cand[f].key = 0 => unit[Comparison(cand[f].group)].status = "succeeded"

CInv == Data /\ Recaps /\ Manifested /\ Rested

-----------------------------------------------------------------------------
(* The kinds of units. *)

LEMMA MergeUnit ==
    ASSUME NEW u \in Merges
    PROVE  /\ u[2] \in 0..Top /\ u[2] \in Nat /\ u[3] \in 1..Width[u[2]]
           /\ u = <<"summary_merge", u[2], u[3]>> /\ u \in Level(u[2])
<1>1. PICK l \in 0..Top : u \in Level(l)
  BY DEF Merges
<1>2. PICK i \in 1..Width[l] : u = <<"summary_merge", l, i>>
  BY <1>1 DEF Level
<1>3. u[2] = l /\ u[3] = i
  BY <1>2
<1> QED BY <1>1, <1>2, <1>3, TopOfTree

LEMMA LevelUnits ==
    ASSUME NEW l \in 0..Top PROVE Level(l) \subseteq Units /\ Level(l) \subseteq Merges
  BY DEF Merges, Units

LEMMA RootUnit == ASSUME Maps > 0 PROVE Root \in Merges /\ Root \in Units
<1>1. Top \in 0..Top /\ 1 \in 1..Width[Top]
  BY TopOfTree
<1>2. Root \in Level(Top)
  BY <1>1 DEF Level, Root
<1> QED BY <1>1, <1>2, LevelUnits

LEMMA FinalIsRoot ==
    ASSUME Maps > 0, NEW u \in Units PROVE u \in Merges /\ Final(u) <=> u = Root
<1>1. ASSUME u \in Merges, Final(u) PROVE u = Root
  <2>1. u[2] = Top /\ u[3] \in 1..Width[u[2]] /\ u = <<"summary_merge", u[2], u[3]>>
    BY <1>1, MergeUnit DEF Final
  <2>2. u[3] = 1
    BY <2>1, TopOfTree
  <2> QED BY <2>1, <2>2 DEF Root
<1>2. Final(Root)
  BY DEF Final, Root
<1> QED BY <1>1, <1>2, RootUnit

LEMMA Comparisons ==
    ASSUME NEW g \in Groups
    PROVE  /\ Comparison(g) \in Consolidations /\ Comparison(g) \in Units /\ Comparison(g)[3] = g
           /\ Comparison(g) \notin Merges
<1>1. Comparison(g) \in Consolidations /\ Comparison(g) \in Units /\ Comparison(g)[3] = g
  BY DEF Comparison, Consolidations, Units
<1>2. Comparison(g) # <<"summary_merge", Comparison(g)[2], Comparison(g)[3]>>
  BY DEF Comparison
<1> QED BY <1>1, <1>2, MergeUnit

LEMMA KindsOfUnits ==
    /\ Units = Sources \cup SummaryMaps \cup Merges \cup Consolidations
    /\ \A u \in Sources : u \notin Merges /\ u \notin Consolidations
    /\ \A u \in SummaryMaps : u \notin Merges
<1>1. \A u \in Sources : u[1] = "source_memory"
  BY DEF Sources
<1>2. \A u \in SummaryMaps : u[1] = "summary_map"
  BY DEF SummaryMaps
<1>3. \A u \in Merges : u[1] = "summary_merge"
  <2>1. \A u \in Merges : u = <<"summary_merge", u[2], u[3]>>
    BY MergeUnit
  <2> QED BY <2>1
<1>4. \A u \in Consolidations : u[1] = "consolidation"
  BY DEF Consolidations
<1> QED BY <1>1, <1>2, <1>3, <1>4 DEF Units

LEMMA InitCInv == Init => CInv
<1> SUFFICES ASSUME Init PROVE CInv
  OBVIOUS
<1>1. Data
  BY AnalysisAssumption, KindsOfUnits DEF Init, Data, Statuses, Seed
<1>2. Recaps
  <2>1. ASSUME Maps > 0 PROVE unit[Root].status # "succeeded"
    BY <2>1, RootUnit DEF Init, Seed
  <2> QED BY <2>1 DEF Init, Recaps
<1>3. Manifested
  <2>1. ASSUME NEW g \in Groups PROVE unit[Comparison(g)].status = "absent"
    <3>1. Comparison(g) \in Units /\ Comparison(g) \notin Sources \cup SummaryMaps
      BY Comparisons, KindsOfUnits DEF Comparison, Sources, SummaryMaps
    <3> QED BY <3>1 DEF Init, Seed
  <2> QED BY <2>1 DEF Manifested
<1>4. Rested
  BY DEF Init, Rested
<1> QED BY <1>1, <1>2, <1>3, <1>4 DEF CInv

(* A step after which no unit is done that was not, and no candidate is     *)
(* as the model wrote it that was not.                                      *)
Unfinished == {"queued", "running", "failed"}
SameOrOpen(u) ==
    unit'[u].status = unit[u].status \/ {unit[u].status, unit'[u].status} \subseteq Unfinished
SameWritten(f) ==
    /\ cand'[f].status # "none" <=> cand[f].status # "none"
    /\ cand'[f].key = 0 => cand[f].key = 0 /\ cand'[f].group = cand[f].group

LEMMA KeepStep ==
    ASSUME CInv, Data', UNCHANGED <<manifest, recaps>>,
           \A u \in Units : SameOrOpen(u), \A f \in Facts : SameWritten(f),
           batch'.status = "analyzed" =>
               batch.status = "analyzed" /\ \A u \in Units : unit'[u].status = unit[u].status
    PROVE  CInv'
<1>1. \A u \in Units : /\ unit'[u].status = "succeeded" <=> unit[u].status = "succeeded"
                       /\ unit'[u].status = "absent" <=> unit[u].status = "absent"
  BY DEF SameOrOpen, Unfinished
<1>2. Recaps'
  BY <1>1, RootUnit DEF CInv, Recaps
<1>3. SourcesRead(unit) => SourcesRead(unit')
  BY <1>1, KindsOfUnits DEF SourcesRead, Done
<1>4. \A f \in Facts : f \in Written' <=> f \in Written
  BY DEF Written, SameWritten
<1>5. Manifested'
  <2> SUFFICES ASSUME NEW g \in Groups, unit'[Comparison(g)].status # "absent"
               PROVE  /\ SourcesRead(unit')
                      /\ \A f \in Written' : cand'[f].group = g /\ cand'[f].key = 0 => <<f, 0>> \in manifest'[g]
    BY DEF Manifested
  <2>1. /\ SourcesRead(unit)
        /\ \A f \in Written : cand[f].group = g /\ cand[f].key = 0 => <<f, 0>> \in manifest[g]
    BY <1>1, Comparisons DEF CInv, Manifested
  <2>2. Written' \subseteq Facts
    BY DEF Written
  <2> QED BY <1>3, <1>4, <2>1, <2>2 DEF SameWritten
<1>6. Rested'
  <2> SUFFICES ASSUME batch'.status = "analyzed" PROVE Rested'
    BY DEF Rested
  <2>1. Rested /\ batch.status = "analyzed" /\ \A u \in Units : unit'[u].status = unit[u].status
    BY DEF CInv
  <2>2. ASSUME NEW f \in Written', cand'[f].key = 0
        PROVE unit'[Comparison(cand'[f].group)].status = "succeeded"
    <3>1. f \in Facts /\ f \in Written /\ cand[f].key = 0 /\ cand'[f].group = cand[f].group
      BY <1>4, <2>2 DEF Written, SameWritten
    <3>2. cand[f].group \in Groups
      BY <3>1 DEF CInv, Data
    <3>3. unit[Comparison(cand[f].group)].status = "succeeded"
      BY <2>1, <3>1 DEF Rested
    <3> QED BY <2>1, <3>1, <3>2, <3>3, Comparisons
  <2> QED BY <2>1, <2>2 DEF Rested
<1> QED BY <1>2, <1>5, <1>6 DEF CInv

(* A step that leaves units, candidates and batch. *)
LEMMA IdleStep ==
    ASSUME CInv, UNCHANGED <<unit, cand, manifest, recaps, batch>>
    PROVE  CInv'
  BY KeepStep DEF CInv, Data, SameOrOpen, SameWritten

(* Some running units fail. *)
LEMMA FailedCStep ==
    ASSUME IInv, CInv, NEW us \in SUBSET Units, us \subseteq Running, unit' = Failed(us),
           UNCHANGED <<cand, manifest, recaps>>,
           batch' = [batch EXCEPT !.status = AfterFailure(unit')]
    PROVE  CInv'
<1>1. \A u \in Units : unit'[u] = IF u \in us THEN [unit[u] EXCEPT !.status = "failed"] ELSE unit[u]
  BY DEF Failed
<1>2. \A u \in Units : /\ unit'[u].status = IF u \in us THEN "failed" ELSE unit[u].status
                       /\ unit'[u].attempts = unit[u].attempts
  BY <1>1 DEF IInv, Counted
<1>3. \A u \in us : unit[u].status = "running"
  BY DEF Running
<1>4. DOMAIN batch' = {"status", "provider"} /\ batch'.status = AfterFailure(unit')
  BY DEF CInv, Data
<1>5. AfterFailure(unit') # "analyzed"
  BY DEF AfterFailure, Progress, PartOrFailed
<1>6. Data'
  <2>1. ASSUME NEW u \in Units
        PROVE  /\ unit'[u].status \in Statuses /\ (unit'[u].status = "absent" => unit'[u].attempts = 0)
               /\ (unit'[u].status = "absent" => unit[u].status = "absent")
    BY <1>2, <1>3 DEF CInv, Data, Statuses
  <2>2. Sources \cup SummaryMaps \subseteq Units
    BY KindsOfUnits
  <2> QED BY <1>4, <2>1, <2>2 DEF CInv, Data
<1>7. \A u \in Units : SameOrOpen(u)
  BY <1>2, <1>3 DEF SameOrOpen, Unfinished
<1> QED BY <1>4, <1>5, <1>6, <1>7, KeepStep DEF SameWritten

LEMMA ClaimCStep == ASSUME IInv, CInv, NEW u \in Units, Claim(u) PROVE CInv'
<1>1. /\ unit[u].status = "queued" /\ batch.status = "analyzing"
      /\ UNCHANGED <<batch, manifest, cand, recaps>>
      /\ unit' = [unit EXCEPT ![u] = [status |-> "running", attempts |-> unit[u].attempts + 1,
                                      epoch |-> epoch]]
  BY DEF Claim, Claimable, QueuedOnly
<1>2. unit'[u].status = "running" /\ \A v \in Units \ {u} : unit'[v] = unit[v]
  BY <1>1 DEF IInv, Counted
<1>3. Data'
  BY <1>1, <1>2 DEF CInv, Data, Statuses
<1>4. \A v \in Units : SameOrOpen(v)
  BY <1>1, <1>2 DEF SameOrOpen, Unfinished
<1> QED BY <1>1, <1>3, <1>4, KeepStep DEF SameWritten

LEMMA RetryCStep == ASSUME IInv, CInv, NEW adopt \in BOOLEAN, Retry(adopt) PROVE CInv'
<1> DEFINE failed == {u \in Units : unit[u].status = "failed"}
           provider == IF adopt THEN settings ELSE batch.provider
<1>1. /\ UNCHANGED <<manifest, cand, recaps>>
      /\ unit' = [u \in Units |-> IF u \in failed
                                  THEN [unit[u] EXCEPT !.status = "queued", !.epoch = None]
                                  ELSE unit[u]]
      /\ batch' = [status |-> "analyzing", provider |-> provider]
  BY DEF Retry, Control
<1>2. \A u \in Units : /\ unit'[u].status = IF u \in failed THEN "queued" ELSE unit[u].status
                       /\ unit'[u].attempts = unit[u].attempts
  BY <1>1 DEF IInv, Counted
<1>3. batch'.status = "analyzing" /\ DOMAIN batch' = {"status", "provider"}
  <2> HIDE DEF provider
  <2> QED BY <1>1
<1>4. Data'
  <2>1. ASSUME NEW u \in Units
        PROVE  /\ unit'[u].status \in Statuses /\ (unit'[u].status = "absent" => unit'[u].attempts = 0)
               /\ (unit'[u].status = "absent" => unit[u].status = "absent")
    BY <1>2 DEF CInv, Data, Statuses
  <2>2. Sources \cup SummaryMaps \subseteq Units
    BY KindsOfUnits
  <2> QED BY <1>1, <1>3, <2>1, <2>2 DEF CInv, Data
<1>5. \A u \in Units : SameOrOpen(u)
  BY <1>2 DEF SameOrOpen, Unfinished
<1> QED BY <1>1, <1>3, <1>4, <1>5, KeepStep DEF SameWritten

LEMMA AuthorCStep == ASSUME IInv, CInv, Author PROVE CInv'
<1>1. CASE Look \/ Elsewhere
  BY <1>1, IdleStep DEF Look, Elsewhere
<1>2. CASE Pause \/ Continue
  <2>1. PICK b : batch' = b /\ b.status \in {"paused", "analyzing"} /\ DOMAIN b = {"status", "provider"}
    <3>1. CASE Pause
      BY <3>1 DEF Pause, CInv, Data
    <3>2. CASE Continue
      BY <3>2 DEF Continue
    <3> QED BY <1>2, <3>1, <3>2
  <2>2. UNCHANGED <<unit, cand, manifest, recaps>>
    BY <1>2 DEF Pause, Continue, Control
  <2> QED BY <2>1, <2>2, KeepStep DEF CInv, Data, SameOrOpen, SameWritten
<1>3. CASE \E f \in Facts, g \in Groups : Edit(f, g)
  <2>1. PICK f \in Facts, g \in Groups : Edit(f, g)
    BY <1>3
  <2> DEFINE k == cand[f].key + 1
  <2>2. /\ UNCHANGED <<unit, batch, manifest, recaps>> /\ cand[f].status # "none"
        /\ cand' = [cand EXCEPT ![f] = [status |-> "pending", group |-> g, key |-> k]]
    BY <2>1 DEF Edit
  <2>3. k \in Nat /\ k # 0
    BY DEF CInv, Data
  <2> HIDE DEF k
  <2>4. /\ cand'[f] = [status |-> "pending", group |-> g, key |-> k]
        /\ \A e \in Facts \ {f} : cand'[e] = cand[e]
    BY <2>2 DEF CInv, Data
  <2>5. Data'
    BY <2>2, <2>3, <2>4 DEF CInv, Data
  <2>6. \A e \in Facts : SameWritten(e)
    BY <2>2, <2>3, <2>4 DEF SameWritten
  <2> QED BY <2>2, <2>5, <2>6, KeepStep DEF SameOrOpen
<1>4. CASE \E f \in Facts, s \in {"confirmed", "rejected", "conflict"} : Decide(f, s)
  <2>1. PICK f \in Facts, s \in {"confirmed", "rejected", "conflict"} : Decide(f, s)
    BY <1>4
  <2>2. /\ UNCHANGED <<unit, batch, manifest, recaps>> /\ cand[f].status # "none"
        /\ cand' = [cand EXCEPT ![f].status = s]
    BY <2>1 DEF Decide
  <2>3. /\ cand'[f] = [cand[f] EXCEPT !.status = s]
        /\ \A e \in Facts \ {f} : cand'[e] = cand[e]
    BY <2>2 DEF CInv, Data
  <2>4. cand'[f].status = s /\ cand'[f].group = cand[f].group /\ cand'[f].key = cand[f].key
    BY <2>3 DEF CInv, Data
  <2>5. Data'
    BY <2>2, <2>3, <2>4 DEF CInv, Data
  <2>6. \A e \in Facts : SameWritten(e)
    BY <2>2, <2>3, <2>4 DEF SameWritten
  <2> QED BY <2>2, <2>5, <2>6, KeepStep DEF SameOrOpen
<1> QED BY <1>1, <1>2, <1>3, <1>4, RetryCStep DEF Author, Requests

-----------------------------------------------------------------------------
(* A publication. *)

(* What a publication leaves of the candidates: their identities and keys. *)
SameIdentities(c, x, found) ==
    /\ DOMAIN c = Facts
    /\ \A f \in Facts : /\ DOMAIN c[f] = {"status", "group", "key"}
                        /\ c[f].group = cand[f].group /\ c[f].key = cand[f].key
                        /\ cand[f].status # "none" => c[f].status # "none"
                        /\ x \notin Sources /\ found = {} =>
                               (c[f].status # "none" <=> cand[f].status # "none")

LEMMA CandidatesKept ==
    ASSUME CInv, NEW x, NEW found, NEW c,
           c = IF x \in Consolidations THEN Consolidated(x[3]) ELSE Inserted(found)
    PROVE  SameIdentities(c, x, found)
<1> USE DEF SameIdentities
<1>1. DOMAIN cand = Facts /\ \A f \in Facts : DOMAIN cand[f] = {"status", "group", "key"}
  BY DEF CInv, Data
<1>2. CASE x \in Consolidations
  <2> DEFINE group == {f \in Written : cand[f].group = x[3]}
             marked(f) == f \in group /\ Cardinality(group) > 1 /\ cand[f].status \in MarkedConflict
  <2>1. c = [f \in Facts |-> IF marked(f) THEN [cand[f] EXCEPT !.status = "conflict"] ELSE cand[f]]
    BY <1>2 DEF Consolidated
  <2>2. \A f \in Facts : marked(f) => cand[f].status # "none"
    BY DEF Written
  <2> HIDE DEF marked
  <2> QED BY <1>1, <2>1, <2>2
<1>3. CASE x \notin Consolidations
  <2>1. c = [f \in Facts |-> IF f \in found /\ cand[f].status = "none"
                             THEN [cand[f] EXCEPT !.status = "pending"] ELSE cand[f]]
    BY <1>3 DEF Inserted
  <2> QED BY <1>1, <2>1
<1> QED BY <1>2, <1>3

(* Seeding makes units that were not there and leaves the others; what is   *)
(* ready to be seeded does not stay absent.                                 *)
LEMMA Seeding ==
    ASSUME CInv, NEW un, DOMAIN un = Units, NEW c, NEW all, all = SeedGroups(SeedMerges(un), c)
    PROVE  /\ DOMAIN all = Units
           /\ \A u \in Units : \/ all[u] = un[u]
                               \/ un[u].status = "absent" /\ all[u] = Seed /\ u \in Merges \cup Consolidations
           /\ \A u \in Merges : un[u].status = "absent" /\ Complete(un, u[2] - 1) => all[u] = Seed
           /\ \A u \in Consolidations :
                 un[u].status = "absent" => all[u] = IF u[3] \in Grouped(un, c) THEN Seed ELSE un[u]
<1> DEFINE merged == SeedMerges(un)
<1>1. /\ DOMAIN merged = Units
      /\ \A u \in Units : merged[u] = IF u \in Merges /\ un[u].status = "absent" /\ Complete(un, u[2] - 1)
                                      THEN Seed ELSE un[u]
  BY DEF SeedMerges
<1>2. \A u \in Units : all[u] = IF u \in Consolidations /\ u[3] \in Grouped(merged, c) /\ merged[u].status = "absent"
                                THEN Seed ELSE merged[u]
  BY DEF SeedGroups
<1>3. DOMAIN all = Units
  BY DEF SeedGroups
<1>4. SourcesRead(merged) <=> SourcesRead(un)
  BY <1>1, KindsOfUnits DEF SourcesRead, Done
<1>5. Grouped(merged, c) = Grouped(un, c)
  BY <1>4 DEF Grouped
<1> HIDE DEF merged
<1>6. \A u \in Consolidations : u \in Units /\ u \notin Merges
  BY Comparisons DEF Consolidations, Comparison
<1>7. \A u \in Merges : u \in Units
  BY KindsOfUnits
<1>8. Seed.status = "queued"
  BY DEF Seed
<1>9. \A u \in Units : \/ all[u] = un[u]
                       \/ un[u].status = "absent" /\ all[u] = Seed /\ u \in Merges \cup Consolidations
  BY <1>1, <1>2, <1>8
<1>10. \A u \in Merges : un[u].status = "absent" /\ Complete(un, u[2] - 1) => all[u] = Seed
  BY <1>1, <1>2, <1>7, <1>8
<1>11. \A u \in Consolidations :
         un[u].status = "absent" => all[u] = IF u[3] \in Grouped(un, c) THEN Seed ELSE un[u]
  BY <1>1, <1>2, <1>5, <1>6
<1> QED BY <1>3, <1>9, <1>10, <1>11

(* When nothing is left to do the whole tree is done: the lowest level with  *)
(* a merge that is not there would have been seeded.                         *)
LEMMA TreeDone ==
    ASSUME NEW un, NEW all,
           \A u \in Units : all[u].status \in {"absent", "succeeded"},
           \A u \in Units : \/ all[u] = un[u]
                            \/ un[u].status = "absent" /\ all[u] = Seed,
           \A u \in Merges : un[u].status = "absent" /\ Complete(un, u[2] - 1) => all[u] = Seed,
           \A u \in SummaryMaps : un[u].status # "absent"
    PROVE  \A u \in Merges : all[u].status = "succeeded"
<1>1. \A u \in Units : all[u] = un[u] /\ un[u].status \in {"absent", "succeeded"}
  BY DEF Seed
<1> DEFINE S == {l \in Nat : l <= Top /\ \E u \in Level(l) : un[u].status = "absent"}
<1>2. S = {}
  <2> SUFFICES ASSUME S # {} PROVE FALSE
    OBVIOUS
  <2>1. PICK l \in S : \A k \in S : l <= k
    <3>1. S \in SUBSET Nat
      OBVIOUS
    <3> HIDE DEF S
    <3> QED BY <3>1, Least
  <2>2. PICK u \in Level(l) : un[u].status = "absent"
    OBVIOUS
  <2>3. l \in 0..Top /\ u \in Merges /\ u \in Units /\ u[2] = l
    <3>1. l \in 0..Top
      BY TopOfTree
    <3> QED BY <2>2, <3>1, LevelUnits DEF Level
  <2>4. Complete(un, l - 1)
    <3>1. CASE l = 0
      <4>1. Done(un, SummaryMaps)
        BY <1>1, KindsOfUnits DEF Done
      <4> QED BY <3>1, <4>1 DEF Complete
    <3>2. CASE l # 0
      <4>1. l - 1 \in Nat /\ l - 1 \in 0..Top /\ ~(l - 1 < 0) /\ l - 1 \notin S
        BY <2>1, <2>3, <3>2, TopOfTree
      <4>2. \A v \in Level(l - 1) : un[v].status # "absent" /\ v \in Units
        BY <4>1, LevelUnits, TopOfTree
      <4>3. \A v \in Level(l - 1) : un[v].status = "succeeded"
        BY <1>1, <4>2
      <4> QED BY <4>1, <4>2, <4>3 DEF Complete, Present, Done
    <3> QED BY <3>1, <3>2
  <2>5. all[u] = Seed
    BY <2>2, <2>3, <2>4
  <2> QED BY <1>1, <2>2, <2>3, <2>5 DEF Seed
<1>3. ASSUME NEW u \in Merges PROVE all[u].status = "succeeded"
  <2>1. u \in Units /\ u[2] \in Nat /\ u[2] <= Top /\ u \in Level(u[2])
    BY MergeUnit, KindsOfUnits, TopOfTree
  <2>2. un[u].status # "absent"
    BY <1>2, <2>1
  <2> QED BY <1>1, <2>1, <2>2
<1> QED BY <1>3

LEMMA PublishCStep == ASSUME IInv, CInv, Publish PROVE CInv'
<1> DEFINE x == w.unit
           un == [unit EXCEPT ![x].status = "succeeded"]
<1>1. x \in Units /\ unit[x].status = "running"
  BY DEF Publish, Turn, IInv, Held
<1>2. PICK found \in Found(x) : Published(x, found)
  BY DEF Publish
<1> DEFINE c == IF x \in Consolidations THEN Consolidated(x[3]) ELSE Inserted(found)
           all == SeedGroups(SeedMerges(un), c)
<1>3. /\ cand' = c /\ recaps' = recaps + Recapped(x) /\ manifest' = Manifests(un, c) /\ unit' = all
      /\ batch' = [batch EXCEPT !.status = AfterPublication(all)]
  BY <1>2 DEF Published
<1>4. x \notin Sources => found = {}
  BY DEF Found
<1>5. /\ DOMAIN un = Units
      /\ \A u \in Units : u # x => un[u] = unit[u]
      /\ un[x].status = "succeeded"
  BY <1>1 DEF IInv, Counted
<1>6. /\ DOMAIN c = Facts
      /\ \A f \in Facts : /\ DOMAIN c[f] = {"status", "group", "key"}
                          /\ c[f].group = cand[f].group /\ c[f].key = cand[f].key
                          /\ cand[f].status # "none" => c[f].status # "none"
                          /\ x \notin Sources => (c[f].status # "none" <=> cand[f].status # "none")
  <2>1. c = IF x \in Consolidations THEN Consolidated(x[3]) ELSE Inserted(found)
    OBVIOUS
  <2> HIDE DEF x, c
  <2>2. SameIdentities(c, x, found)
    BY <2>1, CandidatesKept
  <2> QED BY <1>4, <2>2 DEF SameIdentities
<1>7. /\ DOMAIN all = Units
      /\ \A u \in Units : \/ all[u] = un[u]
                          \/ un[u].status = "absent" /\ all[u] = Seed /\ u \in Merges \cup Consolidations
      /\ \A u \in Merges : un[u].status = "absent" /\ Complete(un, u[2] - 1) => all[u] = Seed
      /\ \A u \in Consolidations :
            un[u].status = "absent" => all[u] = IF u[3] \in Grouped(un, c) THEN Seed ELSE un[u]
  <2>1. all = SeedGroups(SeedMerges(un), c)
    OBVIOUS
  <2> HIDE DEF un, c, all
  <2> QED BY <1>5, <2>1, Seeding
<1>8. Seed.status = "queued" /\ Seed.attempts = 0
  BY DEF Seed
<1> HIDE DEF x, un, c, all
<1>9. \A u \in Units : unit[u].status \in Statuses /\ (unit[u].status = "absent" => unit[u].attempts = 0)
  BY DEF CInv, Data
<1>10. \A u \in Units : all[u].status = "succeeded" <=> un[u].status = "succeeded"
  BY <1>7, <1>8
<1>11. batch'.status = AfterPublication(all) /\ DOMAIN batch' = {"status", "provider"}
  BY <1>3 DEF CInv, Data
<1>12. Data'
  <2>1. ASSUME NEW u \in Units
        PROVE all[u].status \in Statuses /\ (all[u].status = "absent" => all[u].attempts = 0)
    BY <1>1, <1>5, <1>7, <1>8, <1>9 DEF Statuses
  <2>2. ASSUME NEW u \in Sources \cup SummaryMaps PROVE all[u].status # "absent"
    <3>1. u \in Units /\ unit[u].status # "absent"
      BY KindsOfUnits DEF CInv, Data
    <3> QED BY <3>1, <1>5, <1>7, <1>8
  <2>3. DOMAIN manifest' = Groups
    BY <1>3 DEF Manifests
  <2>4. \A f \in Facts : cand[f].group \in Groups /\ cand[f].key \in Nat
    BY DEF CInv, Data
  <2> QED BY <1>3, <1>6, <1>11, <2>1, <2>2, <2>3, <2>4 DEF Data
<1>13. Recaps'
  <2> SUFFICES ASSUME Maps > 0
               PROVE recaps' = (IF all[Root].status = "succeeded" THEN 1 ELSE 0)
    BY <1>3 DEF Recaps
  <2>1. Root \in Units /\ recaps = (IF unit[Root].status = "succeeded" THEN 1 ELSE 0)
    BY RootUnit DEF CInv, Recaps
  <2>2. x \in Merges /\ Final(x) <=> x = Root
    BY <1>1, FinalIsRoot
  <2>3. CASE x = Root
    BY <1>1, <1>3, <1>5, <1>10, <2>1, <2>2, <2>3 DEF Recapped
  <2>4. CASE x # Root
    <3>1. all[Root].status = "succeeded" <=> unit[Root].status = "succeeded"
      BY <1>5, <1>10, <2>1, <2>4
    <3>2. recaps' = recaps + 0
      BY <1>3, <2>2, <2>4 DEF Recapped
    <3> QED BY <2>1, <3>1, <3>2
  <2> QED BY <2>3, <2>4
<1>14. SourcesRead(unit) => SourcesRead(un) /\ x \notin Sources
  BY <1>1, <1>5, KindsOfUnits DEF SourcesRead, Done
<1>15. SourcesRead(un) <=> SourcesRead(all)
  BY <1>10, KindsOfUnits DEF SourcesRead, Done
<1>16. ASSUME NEW g \in Groups, NEW f \in Facts, SourcesRead(un),
              c[f].status # "none", c[f].group = g, c[f].key = 0,
              all[Comparison(g)].status # "absent"
       PROVE  <<f, 0>> \in Manifests(un, c)[g]
  <2> DEFINE u == Comparison(g)
             again == g \in Grouped(un, c) /\ un[u].status \in {"absent", "queued"} /\ un[u].attempts = 0
  <2>1. Manifests(un, c)[g] = IF again THEN DigestOf(c, g) ELSE manifest[g]
    BY DEF Manifests, Comparison
  <2>2. u \in Units /\ u \in Consolidations /\ u[3] = g
    BY Comparisons
  <2>3. g \in Grouped(un, c)
    BY <1>16 DEF Grouped
  <2>4. <<f, c[f].key>> \in DigestOf(c, g)
    BY <1>16 DEF DigestOf
  <2>5. CASE un[u].status = "absent"
    <3>1. un[u] = unit[u] /\ un[u].attempts = 0
      BY <1>1, <1>5, <1>9, <2>2, <2>5
    <3> QED BY <1>16, <2>1, <2>3, <2>4, <2>5, <3>1
  <2>6. CASE un[u].status # "absent"
    <3>1. unit[u].status # "absent"
      BY <1>1, <1>5, <2>2, <2>6
    <3>2. /\ SourcesRead(unit)
          /\ \A e \in Written : cand[e].group = g /\ cand[e].key = 0 => <<e, 0>> \in manifest[g]
      BY <3>1 DEF CInv, Manifested
    <3>3. f \in Written /\ cand[f].group = g /\ cand[f].key = 0
      BY <1>6, <1>14, <1>16, <3>2 DEF Written
    <3>4. <<f, 0>> \in manifest[g]
      BY <3>2, <3>3
    <3> QED BY <1>16, <2>1, <2>4, <3>4
  <2> QED BY <2>5, <2>6
<1>17. Manifested'
  <2> SUFFICES ASSUME NEW g \in Groups, all[Comparison(g)].status # "absent"
               PROVE  /\ SourcesRead(all)
                      /\ \A f \in Written' : cand'[f].group = g /\ cand'[f].key = 0 => <<f, 0>> \in manifest'[g]
    BY <1>3 DEF Manifested
  <2>1. Comparison(g) \in Units /\ Comparison(g) \in Consolidations /\ Comparison(g)[3] = g
    BY Comparisons
  <2>2. SourcesRead(un)
    <3>1. CASE un[Comparison(g)].status = "absent"
      <4>1. g \in Grouped(un, c)
        BY <1>7, <2>1, <3>1
      <4> QED BY <4>1 DEF Grouped
    <3>2. CASE un[Comparison(g)].status # "absent"
      <4>1. unit[Comparison(g)].status # "absent"
        BY <1>1, <1>5, <2>1, <3>2
      <4> QED BY <1>14, <4>1 DEF CInv, Manifested
    <3> QED BY <3>1, <3>2
  <2>3. \A f \in Written' : f \in Facts /\ c[f].status # "none"
    BY <1>3 DEF Written
  <2> QED BY <1>3, <1>15, <1>16, <2>2, <2>3
<1>18. Rested'
  <2> SUFFICES ASSUME AfterPublication(all) = "analyzed" PROVE Rested'
    BY <1>11 DEF Rested
  <2>1. \A u \in Units : all[u].status \notin {"queued", "running", "failed"}
    BY DEF AfterPublication, Progress, PartOrFailed, HasFailed, AnyFailed, Some
  <2>2. \A u \in Units : all[u].status \in {"absent", "succeeded"}
    BY <1>3, <1>12, <2>1 DEF Data, Statuses
  <2>3. \A u \in SummaryMaps : un[u].status # "absent"
    <3>1. \A u \in SummaryMaps : u \in Units /\ unit[u].status # "absent"
      BY KindsOfUnits DEF CInv, Data
    <3> QED BY <3>1, <1>1, <1>5
  <2>4. \A u \in Merges : all[u].status = "succeeded"
    BY <1>7, <2>2, <2>3, TreeDone
  <2>5. \A u \in Units \ Consolidations : all[u].status = "succeeded"
    <3>1. \A u \in Sources \cup SummaryMaps : u \in Units /\ all[u].status # "absent"
      BY <1>3, <1>12, KindsOfUnits DEF Data
    <3> QED BY <2>2, <2>4, <3>1, KindsOfUnits
  <2>6. SourcesRead(un)
    BY <1>15, <2>5, KindsOfUnits DEF SourcesRead, Done
  <2>7. ASSUME NEW f \in Written' PROVE all[Comparison(cand'[f].group)].status = "succeeded"
    <3>1. f \in Facts /\ c[f].status # "none"
      BY <1>3 DEF Written
    <3> DEFINE g == c[f].group
    <3>2. g \in Groups /\ g \in Grouped(un, c)
      BY <1>6, <2>6, <3>1 DEF Grouped, CInv, Data
    <3>3. Comparison(g) \in Units /\ Comparison(g) \in Consolidations /\ Comparison(g)[3] = g
      BY <3>2, Comparisons
    <3>4. un[Comparison(g)].status # "absent"
      BY <1>7, <1>8, <2>2, <3>2, <3>3
    <3>5. all[Comparison(g)].status = un[Comparison(g)].status
      BY <1>7, <3>3, <3>4
    <3> QED BY <1>3, <2>2, <3>3, <3>4, <3>5
  <2> QED BY <1>3, <2>2, <2>5, <2>7 DEF Rested
<1> QED BY <1>12, <1>13, <1>17, <1>18 DEF CInv

LEMMA ExecutorCStep == ASSUME IInv, CInv, Executor PROVE CInv'
<1>1. CASE RecoverOrphans
  <2>1. Orphans \in SUBSET Units /\ Orphans \subseteq Running
    BY DEF Orphans, OfThisEpoch, Running
  <2> QED BY <1>1, <2>1, FailedCStep DEF RecoverOrphans
<1>2. CASE ReadIdentity \/ Snapshot \/ Refused \/ Call \/ PublishRaises
  BY <1>2, IdleStep DEF ReadIdentity, Snapshot, Refused, Call, PublishRaises
<1>3. CASE Fail
  <2>1. CASE FenceMatches
    <3>1. {w.unit} \in SUBSET Units /\ {w.unit} \subseteq Running
      BY <1>3 DEF Fail, Turn, IInv, Held, Running
    <3> QED BY <1>3, <2>1, <3>1, FailedCStep DEF Fail
  <2>2. CASE ~FenceMatches
    BY <1>3, <2>2, IdleStep DEF Fail
  <2> QED BY <2>1, <2>2
<1> QED BY <1>1, <1>2, <1>3, ClaimCStep, PublishCStep DEF Executor

LEMMA RootNotCompared == ASSUME Maps > 0 PROVE Root \notin Consolidations
<1>1. Root[1] = "summary_merge" /\ \A u \in Consolidations : u[1] = "consolidation"
  BY DEF Root, Consolidations
<1> QED BY <1>1

LEMMA NextCInv == IInv /\ CInv /\ [Next]_vars => CInv'
<1> SUFFICES ASSUME IInv, CInv, [Next]_vars PROVE CInv'
  OBVIOUS
<1>1. CASE UNCHANGED vars
  BY <1>1, IdleStep DEF vars
<1>2. CASE Locked \/ Crash
  BY <1>2, IdleStep DEF Locked, Crash
<1>3. CASE Restart
  <2>1. CASE Running = {}
    <3>1. unit' = [u \in Units |-> unit[u]]
      BY <1>3, <2>1 DEF Restart, Failed
    <3>2. \A u \in Units : unit'[u] = unit[u]
      BY <3>1
    <3>3. UNCHANGED <<cand, manifest, recaps, batch>>
      BY <1>3, <2>1 DEF Restart
    <3>4. Data'
      BY <3>2, <3>3, KindsOfUnits DEF CInv, Data
    <3> QED BY <3>2, <3>3, <3>4, KeepStep DEF SameOrOpen, SameWritten
  <2>2. CASE Running # {}
    <3>1. Running \in SUBSET Units
      BY DEF Running
    <3> QED BY <1>3, <2>2, <3>1, FailedCStep DEF Restart
  <2> QED BY <2>1, <2>2
<1> QED BY <1>1, <1>2, <1>3, ExecutorCStep, AuthorCStep DEF Next

-----------------------------------------------------------------------------
(* A batch that says it is analyzed has every chunk, map and merge done,    *)
(* one summary of the chapter, and every candidate the author left as it    *)
(* was compared with the others of its identity, for every book, tree of    *)
(* merges and number of failures (_recompute_after_publication).            *)
THEOREM AnalyzedBatchIsComplete == Spec => []AnalyzedIsComplete
<1>1. CInv => AnalyzedIsComplete
  <2> SUFFICES ASSUME CInv, batch.status = "analyzed" PROVE AnalyzedIsComplete
    BY DEF AnalyzedIsComplete
  <2>1. Rested
    BY DEF CInv
  <2>2. \A u \in Consolidations : u \in Units
    BY KindsOfUnits
  <2>3. ASSUME NEW f \in Written, cand[f].key = 0 PROVE <<f, 0>> \in manifest[cand[f].group]
    <3>1. cand[f].group \in Groups
      BY DEF CInv, Data, Written
    <3>2. unit[Comparison(cand[f].group)].status = "succeeded"
      BY <2>1, <2>3 DEF Rested
    <3> QED BY <2>3, <3>1, <3>2 DEF CInv, Manifested
  <2>4. Maps > 0 => recaps = 1
    <3> SUFFICES ASSUME Maps > 0 PROVE recaps = 1
      OBVIOUS
    <3>1. unit[Root].status = "succeeded"
      BY <2>1, RootUnit, KindsOfUnits, RootNotCompared DEF Rested
    <3> QED BY <3>1 DEF CInv, Recaps
  <2> QED BY <2>1, <2>2, <2>3, <2>4 DEF Rested, AnalyzedIsComplete
<1>2. Spec => [](IInv /\ CInv)
  <2>1. Init => IInv /\ CInv
    BY InitIInv, InitCInv
  <2>2. (IInv /\ CInv) /\ [Next]_vars => (IInv /\ CInv)'
    BY NextIInv, NextCInv
  <2> QED BY <2>1, <2>2, PTL DEF Spec
<1> QED BY <1>1, <1>2, PTL
=============================================================================
