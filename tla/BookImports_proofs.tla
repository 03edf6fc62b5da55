-------------------------- MODULE BookImports_proofs --------------------------
(***************************************************************************)
(* A registered project is never taken back, a frozen draft agrees with    *)
(* its project, and a draft shows each chapter of the chosen manuscripts   *)
(* once: for every number of drafts, uploads, backups, failures and        *)
(* process deaths.                                                         *)
(*                                                                         *)
(* The argument: past its entrance a creation only works on a project that *)
(* has no row in the registry (Positions).  For a restore the entrance     *)
(* looks at the row, for a new project the id is new; an import looks at   *)
(* the row only together with the frozen draft, so it has to be known that *)
(* a registered import has its draft frozen for ever (Sealed).             *)
(*                                                                         *)
(* A creation that may still remove the directory it put in place has a    *)
(* draft that is not frozen; one that carries on from a directory it found *)
(* has compared it with the draft's graph, which no one writes while the   *)
(* commit holds the draft's lock (Carried).                                *)
(*                                                                         *)
(* The inventory of a draft lists the segments of a set of files that      *)
(* holds every manuscript, each once (Book): a file that becomes one is    *)
(* split if no chapter is its own, and no chapter ever leaves the          *)
(* inventory.  Sorting and filtering keep what they list, because the      *)
(* number of elements before one is its place: that function of a finite   *)
(* set is one to one, so it takes every value from 0 on (Ranks).           *)
(***************************************************************************)
EXTENDS BookImports, TLAPS, FiniteSetTheorems

Typed ==
    /\ DOMAIN drafts = Drafts /\ DOMAIN request = Drafts
    /\ registry \in [Projects -> BOOLEAN]
    /\ DOMAIN final = Projects /\ DOMAIN creating = Projects

(* A stored draft is a record, and its upload is over. *)
DraftFields == {"on", "rev", "raw", "files", "inventory", "chapters", "confirmed", "through",
                "current", "frozen"}
DraftOK(d) ==
    /\ Stored(d) => DOMAIN drafts[d] = DraftFields
    /\ request[d].at \in {"none", "rooted", "receiving", "building"} => ~Stored(d)
DraftsOK == \A d \in Drafts : DraftOK(d)

(* Nothing writes a draft whose project is registered. *)
FrozenDraft(d) == Stored(d) /\ drafts[d].frozen # None
Sealed == \A d \in Drafts : registry[d] => FrozenDraft(d)

Rows == \A p \in Projects : registry[p] => final[p] # None

(* What a creation knows of its project at each of its steps. *)
Positions ==
    work # NoWork =>
        /\ work.at \in {"entering", "filling", "publishing", "freezing", "registering"}
        /\ {"at", "by", "project", "dir", "found"} = DOMAIN work
        /\ work.by \in {"import", "restore", "new"}
        /\ work.project \in Projects /\ work.dir # None
        /\ work.project \in Drafts <=> work.by = "import"
        /\ work.by = "import" => work.project \in locks /\ Stored(work.project)
        /\ work.at # "entering" \/ work.by # "restore" => ~registry[work.project]
        /\ work.at = "publishing" => creating[work.project] # None
        /\ work.at \in {"freezing", "registering"} => final[work.project] # None
        /\ work.at = "registering" /\ work.by = "import" => FrozenDraft(work.project)

IInv == Typed /\ DraftsOK /\ Sealed /\ Rows /\ Positions

Kept == \A p \in Projects : registry[p] => registry'[p] /\ final'[p] = final[p]

Goal == IInv' /\ Kept

LEMMA InitIInv == VaultInit => IInv
  BY DEF Init, VaultInit, IInv, Typed, DraftsOK, DraftOK, Stored, Sealed, Rows, Positions,
         Idle, Absent, NoWork, Projects

(* A step of the drafts: what it may do to one of them. *)
DraftStep(d) ==
    /\ DOMAIN drafts' = Drafts /\ DOMAIN request' = Drafts /\ locks' = locks
    /\ \A e \in Drafts \ {d} : drafts'[e] = drafts[e] /\ request'[e] = request[e]
    /\ \/ drafts'[d] = drafts[d]
       \/ ~FrozenDraft(d) /\ ~FrozenDraft(d)' /\ (d \in locks => ~Stored(d))
    /\ DraftOK(d)'

(* A patch writes neither the seal of a draft nor its place. *)
LEMMA PatchedFields ==
    ASSUME NEW r, DOMAIN r = DraftFields, NEW files, NEW moves
    PROVE  /\ DOMAIN Patched(r, files, moves) = DraftFields
           /\ Patched(r, files, moves).on = r.on /\ Patched(r, files, moves).frozen = r.frozen
<1> DEFINE kept == Ordered(Range(r.inventory), Places(r.inventory, moves))
           inv  == kept \o Discovered(files, kept, r.raw)
           act  == ActiveChapters(files, inv)
           rev  == r.rev + 1
<1>1. Patched(r, files, moves) = [r EXCEPT !.rev = rev, !.files = files, !.inventory = inv,
                                            !.chapters = act]
  BY DEF Patched
<1> HIDE DEF kept, inv, act, rev
<1> QED BY <1>1 DEF DraftFields

LEMMA BuiltFields ==
    ASSUME NEW u
    PROVE  /\ DOMAIN Built(u) = DraftFields
           /\ Built(u).on = "stored" /\ Built(u).frozen = None
<1> DEFINE files == [p \in Paths(u) |-> FileOf(u, p)]
           raw   == [p \in Paths(u) |-> Source(u, p).parts]
           inv   == Inventory(u, raw, Manuscripts(files))
           act   == ActiveChapters(files, inv)
<1>1. Built(u) = [on |-> "stored", rev |-> 1, raw |-> raw, files |-> files, inventory |-> inv,
                  chapters |-> act, confirmed |-> FALSE, through |-> None, current |-> None,
                  frozen |-> None]
  BY DEF Built
<1> HIDE DEF files, raw, inv, act
<1> QED BY <1>1 DEF DraftFields

LEMMA DraftSteps == ASSUME IInv, NEW d \in Drafts,
          \/ Receive(d) \/ MakeDirectory(d) \/ Begin(d) \/ Store(d) \/ Refuse(d) \/ Leave(d)
          \/ PatchBook(d) \/ PatchContinuation(d) \/ Discard(d) \/ RemoveTombstone(d)
       PROVE DraftStep(d)
<1> USE DEF IInv, Typed, DraftsOK, DraftOK, DraftStep, Stored, FrozenDraft
<1>1. CASE Receive(d)
  BY <1>1 DEF Receive, At, Absent
<1>2. CASE MakeDirectory(d)
  BY <1>2 DEF MakeDirectory, At, Move, Idle
<1>3. CASE Begin(d)
  BY <1>3 DEF Begin, At, Move, Partial
<1>4. CASE Store(d)
  <2>1. /\ request[d].at = "building" /\ request'[d].at = "leaving" /\ locks' = locks
        /\ DOMAIN request' = Drafts /\ \A e \in Drafts \ {d} : request'[e] = request[e]
    BY <1>4 DEF Store, At, Move
  <2>2. PICK u : drafts' = [drafts EXCEPT ![d] = Built(u)]
    BY <1>4 DEF Store
  <2>3. drafts'[d] = Built(u) /\ DOMAIN drafts' = Drafts /\ \A e \in Drafts \ {d} : drafts'[e] = drafts[e]
    BY <2>2
  <2> QED BY <2>1, <2>3, BuiltFields
<1>5. CASE Refuse(d)
  BY <1>5 DEF Refuse, At, Move, Removed, Absent
<1>6. CASE Leave(d)
  <2>1. drafts' = drafts /\ locks' = locks /\ (~Stored(d) \/ request'[d].at = "done")
    BY <1>6 DEF Leave, At
  <2>2. DOMAIN request' = Drafts /\ \A e \in Drafts \ {d} : request'[e] = request[e]
    BY <1>6 DEF Leave
  <2> QED BY <2>1, <2>2
<1>7. ASSUME PatchBook(d) \/ PatchContinuation(d)
      PROVE  DraftStep(d)
  <2>1. Editable(d) /\ request' = request /\ locks' = locks
    BY <1>7 DEF PatchBook, PatchContinuation, Rewrite
  <2>2. PICK r : /\ drafts' = [drafts EXCEPT ![d] = r] /\ DOMAIN r = DraftFields
                 /\ r.on = drafts[d].on /\ r.frozen = drafts[d].frozen
    <3>1. DOMAIN drafts[d] = DraftFields
      BY <2>1 DEF Editable
    <3>2. CASE PatchBook(d)
      <4>1. PICK files, moves : drafts' = [drafts EXCEPT ![d] = Patched(drafts[d], files, moves)]
        BY <3>2 DEF PatchBook, Rewrite
      <4> DEFINE q == Patched(drafts[d], files, moves)
      <4>2. DOMAIN q = DraftFields /\ q.on = drafts[d].on /\ q.frozen = drafts[d].frozen
        BY <3>1, PatchedFields
      <4>3. drafts' = [drafts EXCEPT ![d] = q]
        BY <4>1
      <4> HIDE DEF q
      <4> QED BY <4>2, <4>3
    <3>3. CASE PatchContinuation(d)
      <4> DEFINE q == Patched(drafts[d], drafts[d].files, None)
      <4>1. PICK through, current : drafts' = [drafts EXCEPT ![d] =
                [q EXCEPT !.confirmed = TRUE, !.through = through, !.current = current]]
        BY <3>3 DEF PatchContinuation, Rewrite
      <4>2. DOMAIN q = DraftFields /\ q.on = drafts[d].on /\ q.frozen = drafts[d].frozen
        BY <3>1, PatchedFields
      <4> DEFINE s == [q EXCEPT !.confirmed = TRUE, !.through = through, !.current = current]
      <4>3. drafts' = [drafts EXCEPT ![d] = s]
        BY <4>1
      <4> HIDE DEF q
      <4>4. DOMAIN s = DraftFields /\ s.on = drafts[d].on /\ s.frozen = drafts[d].frozen
        BY <4>2 DEF DraftFields
      <4> HIDE DEF s
      <4> QED BY <4>3, <4>4
    <3> QED BY <1>7, <3>2, <3>3
  <2>3. drafts'[d] = r /\ DOMAIN drafts' = Drafts /\ \A e \in Drafts \ {d} : drafts'[e] = drafts[e]
    BY <2>2
  <2> QED BY <2>1, <2>2, <2>3 DEF Editable, Unlocked
<1>9. CASE Discard(d)
  BY <1>9 DEF Discard, Editable, Unlocked, Absent
<1>10. CASE RemoveTombstone(d)
  <2>1. drafts' = drafts /\ request' = request /\ locks' = locks
    BY <1>10 DEF RemoveTombstone
  <2> QED BY <2>1
<1> QED BY <1>1, <1>2, <1>3, <1>4, <1>5, <1>6, <1>7, <1>9, <1>10

LEMMA DraftNextGoal == ASSUME IInv, DraftNext, UNCHANGED vaultVars PROVE Goal
<1>1. PICK d \in Drafts : DraftStep(d)
  BY DraftSteps DEF DraftNext
<1>2. \A e \in Drafts : FrozenDraft(e) => FrozenDraft(e)'
  BY <1>1 DEF DraftStep, IInv, Typed, FrozenDraft, Stored
<1>3. \A e \in Drafts : e \in locks /\ Stored(e) => Stored(e)'
  BY <1>1 DEF DraftStep, IInv, Typed, Stored
<1>4. Typed' /\ DraftsOK'
  BY <1>1 DEF DraftStep, IInv, Typed, DraftsOK, DraftOK, Stored, vaultVars
<1>5. Sealed' /\ Rows' /\ Kept
  BY <1>2 DEF IInv, Sealed, Rows, Kept, vaultVars
<1>6. Positions'
  BY <1>1, <1>2, <1>3 DEF DraftStep, IInv, Positions, vaultVars
<1> QED BY <1>4, <1>5, <1>6 DEF Goal, IInv

(* A creation under way; its project is the one it was begun for. *)
Names == {"at", "by", "project", "dir", "found"}

LEMMA GoToKeeps == ASSUME IInv, work # NoWork, NEW at, GoTo(at)
    PROVE  /\ work'.at = at /\ work'.by = work.by /\ work'.project = work.project
           /\ work'.dir = work.dir /\ work'.found = work.found /\ DOMAIN work' = Names
  BY DEF IInv, Positions, GoTo, Names

LEMMA EndGoal == ASSUME IInv, End, UNCHANGED <<drafts, request>>, Typed', Sealed', Rows', Kept PROVE Goal
<1>1. Positions'
  BY DEF End, Positions
<1>2. DraftsOK'
  BY DEF IInv, DraftsOK, DraftOK, Stored
<1> QED BY <1>1, <1>2 DEF Goal, IInv

LEMMA EnterGoal == ASSUME IInv, NEW p \in Projects, Enter(p) PROVE Goal
<1>1. work.at = "entering" /\ work.project = p /\ work # NoWork
  BY DEF Enter, Step, NoWork
<1>2. Typed' /\ Sealed' /\ Rows' /\ Kept /\ DraftsOK'
  <2>1. DOMAIN creating' = Projects
    BY DEF Enter, Cleaned, IInv, Typed
  <2> QED BY <2>1 DEF Enter, bounds, IInv, Typed, Sealed, Rows, Kept, DraftsOK, DraftOK, Stored, FrozenDraft
<1>3. CASE End
  BY <1>2, <1>3, EndGoal DEF Enter
<1>4. CASE ~AlreadyThere(p) /\ final[p] = None /\ GoTo("filling") /\ UNCHANGED locks
  <2>1. Positions'
    BY <1>1, <1>4, GoToKeeps DEF Enter, bounds, IInv, Positions, Names, Stored, AlreadyThere
  <2> QED BY <1>2, <2>1 DEF Goal, IInv
<1>5. CASE /\ ~AlreadyThere(p) /\ final[p] # None /\ ExistingAccepted(final[p])
           /\ work' = [work EXCEPT !.found = TRUE,
                          !.at = IF work.by = "restore" THEN "registering" ELSE "freezing"]
           /\ UNCHANGED locks
  <2>1. Positions'
    BY <1>1, <1>5 DEF Enter, bounds, IInv, Positions, Names, Stored, AlreadyThere
  <2> QED BY <1>2, <2>1 DEF Goal, IInv
<1> QED BY <1>3, <1>4, <1>5 DEF Enter

LEMMA FillGoal == ASSUME IInv, NEW p \in Projects, Fill(p) PROVE Goal
<1>1. work.at = "filling" /\ work.project = p /\ work # NoWork
  BY DEF Fill, Step, NoWork
<1>2. Typed' /\ Sealed' /\ Rows' /\ Kept /\ DraftsOK'
  BY DEF Fill, draftVars, bounds, IInv, Typed, Sealed, Rows, Kept, DraftsOK, DraftOK, Stored, FrozenDraft
<1>3. Positions'
  BY <1>1, GoToKeeps DEF Fill, draftVars, bounds, IInv, Typed, Positions, Names, Stored
<1> QED BY <1>2, <1>3 DEF Goal, IInv

LEMMA PublishGoal == ASSUME IInv, NEW p \in Projects, Publish(p) PROVE Goal
<1>1. work.at = "publishing" /\ work.project = p /\ work # NoWork
  BY DEF Publish, Step, NoWork
<1>2. final' = [final EXCEPT ![p] = creating[p]] /\ creating[p] # None /\ ~registry[p]
  BY <1>1 DEF Publish, IInv, Positions
<1>3. Typed' /\ Sealed' /\ Rows' /\ Kept /\ DraftsOK'
  BY <1>2 DEF Publish, Cleaned, draftVars, bounds, IInv, Typed, Sealed, Rows, Kept, DraftsOK, DraftOK, Stored, FrozenDraft
<1>4. Positions'
  BY <1>1, <1>2, GoToKeeps DEF Publish, draftVars, bounds, IInv, Typed, Positions, Names, Stored
<1> QED BY <1>3, <1>4 DEF Goal, IInv

LEMMA FailAsideGoal == ASSUME IInv, NEW p \in Projects, FailAside(p) PROVE Goal
<1>1. Typed' /\ Sealed' /\ Rows' /\ Kept
  BY DEF FailAside, Cleaned, bounds, IInv, Typed, Sealed, Rows, Kept, Stored, FrozenDraft
<1> QED BY <1>1, EndGoal DEF FailAside

LEMMA FreezeGoal == ASSUME IInv, NEW p \in Projects, Freeze(p) PROVE Goal
<1>1. work.at = "freezing" /\ work.project = p /\ work # NoWork
  BY DEF Freeze, Step, NoWork
<1>2. CASE work.by # "import"
  <2>1. drafts' = drafts
    BY <1>2 DEF Freeze, Frozen
  <2>2. Typed' /\ Sealed' /\ Rows' /\ Kept /\ DraftsOK'
    BY <2>1 DEF Freeze, bounds, IInv, Typed, Sealed, Rows, Kept, DraftsOK, DraftOK, Stored, FrozenDraft
  <2>3. Positions'
    BY <1>1, <1>2, <2>1, GoToKeeps DEF Freeze, bounds, IInv, Positions, Names, Stored, FrozenDraft
  <2> QED BY <2>2, <2>3 DEF Goal, IInv
<1>3. CASE work.by = "import"
  <2>1. p \in Drafts /\ Stored(p) /\ ~registry[p]
    BY <1>1, <1>3 DEF IInv, Positions
  <2>2. /\ drafts' = [drafts EXCEPT ![p] = [@ EXCEPT !.frozen = <<work.dir[1].holds>>]]
        /\ {"on", "frozen"} \subseteq DOMAIN drafts[p]
    BY <1>3, <2>1 DEF Freeze, Frozen, IInv, DraftsOK, DraftOK, DraftFields
  <2>3. FrozenDraft(p)' /\ DOMAIN drafts'[p] = DOMAIN drafts[p] /\ drafts'[p].on = drafts[p].on
    BY <2>1, <2>2 DEF FrozenDraft, Stored, IInv, Typed, None
  <2>4. \A e \in Drafts \ {p} : drafts'[e] = drafts[e]
    BY <2>2 DEF IInv, Typed
  <2>5. Typed' /\ DraftsOK'
    BY <2>1, <2>2, <2>3, <2>4 DEF Freeze, bounds, IInv, Typed, DraftsOK, DraftOK, Stored
  <2>6. Sealed' /\ Rows' /\ Kept
    BY <2>3, <2>4 DEF Freeze, bounds, IInv, Sealed, Rows, Kept, FrozenDraft, Stored
  <2>7. Positions'
    BY <1>1, <1>3, <2>1, <2>3, GoToKeeps DEF Freeze, bounds, IInv, Positions, Names, FrozenDraft
  <2> QED BY <2>5, <2>6, <2>7 DEF Goal, IInv
<1> QED BY <1>2, <1>3

LEMMA FreezeFailsGoal == ASSUME IInv, NEW p \in Projects, FreezeFails(p) PROVE Goal
<1>1. ~registry[p]
  BY DEF FreezeFails, Step, NoWork, IInv, Positions
<1>2. Typed' /\ Sealed' /\ Rows' /\ Kept
  BY <1>1 DEF FreezeFails, bounds, IInv, Typed, Sealed, Rows, Kept, Stored, FrozenDraft
<1> QED BY <1>2, EndGoal DEF FreezeFails

LEMMA RegisterGoal == ASSUME IInv, NEW p \in Projects, Register(p) PROVE Goal
<1>1. final[p] # None /\ (p \in Drafts => FrozenDraft(p))
  BY DEF Register, Step, NoWork, IInv, Positions
<1>2. Typed' /\ Sealed' /\ Rows' /\ Kept
  BY <1>1 DEF Register, bounds, IInv, Typed, Sealed, Rows, Kept, Stored, FrozenDraft, Projects
<1> QED BY <1>2, EndGoal DEF Register

LEMMA RegisterFailsGoal == ASSUME IInv, NEW p \in Projects, RegisterFails(p) PROVE Goal
<1>1. final[p] # None /\ ~registry[p] /\ (p \in Drafts => FrozenDraft(p))
  BY DEF RegisterFails, Step, NoWork, IInv, Positions
<1>2. PICK row \in BOOLEAN : /\ registry' = [registry EXCEPT ![p] = @ \/ row]
                            /\ final' = [final EXCEPT ![p] = Withdrawn(p, row \/ registry[p])]
  BY DEF RegisterFails
<1>3. CASE row
  <2>1. registry' = [registry EXCEPT ![p] = TRUE] /\ final' = [final EXCEPT ![p] = final[p]]
    BY <1>1, <1>2, <1>3 DEF Withdrawn
  <2>2. Typed' /\ Sealed' /\ Rows' /\ Kept
    BY <1>1, <2>1 DEF RegisterFails, bounds, IInv, Typed, Sealed, Rows, Kept, Stored, FrozenDraft, Projects
  <2> QED BY <2>2, EndGoal DEF RegisterFails
<1>4. CASE ~row
  <2>1. registry' = registry /\ DOMAIN final' = Projects /\ \A q \in Projects \ {p} : final'[q] = final[q]
    BY <1>1, <1>2, <1>4 DEF IInv, Typed
  <2>2. Typed' /\ Sealed' /\ Rows' /\ Kept
    BY <1>1, <2>1 DEF RegisterFails, bounds, IInv, Typed, Sealed, Rows, Kept, Stored, FrozenDraft
  <2> QED BY <2>2, EndGoal DEF RegisterFails
<1> QED BY <1>3, <1>4

LEMMA CommitGoal == ASSUME IInv, NEW d \in Drafts, Commit(d) PROVE Goal
<1>1. /\ work' = Begun("import", d, Graph(drafts[d]), None) /\ locks' = locks \cup {d}
      /\ Stored(d) /\ ~Replayed(d)
      /\ UNCHANGED <<drafts, request, registry, final, creating>>
  BY DEF Commit, Start
<1>2. ~registry[d]
  BY <1>1 DEF Replayed, IInv, Sealed, FrozenDraft
<1>3. Typed' /\ Sealed' /\ Rows' /\ Kept /\ DraftsOK'
  BY <1>1 DEF IInv, Typed, Sealed, Rows, Kept, DraftsOK, DraftOK, Stored, FrozenDraft
<1>4. Positions'
  BY <1>1, <1>2 DEF Positions, Begun, Dir, None, Projects, Stored
<1> QED BY <1>3, <1>4 DEF Goal, IInv

LEMMA RestoreGoal == ASSUME IInv, NEW a \in Archives, Restore(a) PROVE Goal
<1>1. /\ work' = Begun("restore", a.project, Populated(a), <<a.hash>>) /\ locks' = locks
      /\ UNCHANGED <<drafts, request, registry, final, creating>>
  BY DEF Restore, Start
<1>2. a.project \in Projects /\ a.project \notin Drafts
  BY BookImportsAssumption DEF Projects
<1>3. Typed' /\ Sealed' /\ Rows' /\ Kept /\ DraftsOK'
  BY <1>1 DEF IInv, Typed, Sealed, Rows, Kept, DraftsOK, DraftOK, Stored, FrozenDraft
<1>4. Positions'
  BY <1>1, <1>2 DEF Positions, Begun, Dir, None
<1> QED BY <1>3, <1>4 DEF Goal, IInv

LEMMA CreateProjectGoal == ASSUME IInv, NEW p \in NewProjects, CreateProject(p) PROVE Goal
<1>1. /\ work' = Begun("new", p, Blank, None) /\ locks' = locks /\ ~registry[p]
      /\ UNCHANGED <<drafts, request, registry, final, creating>>
  BY DEF CreateProject, Start
<1>2. p \in Projects /\ p \notin Drafts
  BY BookImportsAssumption DEF Projects
<1>3. Typed' /\ Sealed' /\ Rows' /\ Kept /\ DraftsOK'
  BY <1>1 DEF IInv, Typed, Sealed, Rows, Kept, DraftsOK, DraftOK, Stored, FrozenDraft
<1>4. Positions'
  BY <1>1, <1>2 DEF Positions, Begun, Dir, None
<1> QED BY <1>3, <1>4 DEF Goal, IInv

LEMMA CrashGoal == ASSUME IInv, Crash PROVE Goal
<1>1. /\ request' = [d \in Drafts |-> IF request[d].at = "none" THEN Idle ELSE [at |-> "done"]]
      /\ work' = NoWork /\ UNCHANGED <<drafts, registry, final, creating>>
  BY DEF Crash, Restart
<1>2. DraftsOK'
  BY <1>1 DEF IInv, DraftsOK, DraftOK, Stored, Idle
<1>3. Typed' /\ Sealed' /\ Rows' /\ Kept /\ Positions'
  BY <1>1 DEF IInv, Typed, Sealed, Rows, Kept, Positions, Stored, FrozenDraft
<1> QED BY <1>2, <1>3 DEF Goal, IInv

LEMMA NextGoal == IInv /\ [Next]_vars => Goal
<1> SUFFICES ASSUME IInv, [Next]_vars PROVE Goal
  OBVIOUS
<1>1. CASE UNCHANGED vars
  BY <1>1 DEF vars, draftVars, vaultVars, Goal, IInv, Typed, DraftsOK, DraftOK, Sealed, Rows, Positions,
              Kept, Stored, FrozenDraft
<1>2. CASE DraftNext /\ UNCHANGED vaultVars
  BY <1>2, DraftNextGoal
<1>3. CASE \E p \in Projects : Creation(p)
  BY <1>3, EnterGoal, FillGoal, PublishGoal, FailAsideGoal, FreezeGoal, FreezeFailsGoal,
     RegisterGoal, RegisterFailsGoal DEF Creation
<1>4. CASE \/ \E d \in Drafts : Commit(d)
           \/ \E a \in Archives : Restore(a)
           \/ \E p \in NewProjects : CreateProject(p)
           \/ Crash
  BY <1>4, CommitGoal, RestoreGoal, CreateProjectGoal, CrashGoal
<1> QED BY <1>1, <1>2, <1>3, <1>4 DEF Next

-----------------------------------------------------------------------------
(***************************************************************************)
(* A frozen draft, its fingerprint and the directory in place say the same *)
(* thing.  The commit carries the graph of its draft from the moment it    *)
(* takes the draft's lock (Carried); a directory it finds in place is      *)
(* accepted only if it is that graph; and as long as this creation may     *)
(* still remove the directory, the draft is not frozen.                    *)
(***************************************************************************)
Shaped(h) ==
    h = [nodes |-> h.nodes, sources |-> h.sources, units |-> h.units, files |-> h.files,
         boundary |-> h.boundary]

(* The directory of a draft's project is one an import has built. *)
Imported ==
    \A d \in Drafts : final[d] # None =>
        Shaped(final[d][1].holds) /\ final[d] = Dir(final[d][1].holds, None)

Agree ==
    \A d \in Drafts : FrozenDraft(d) =>
        /\ drafts[d].frozen = <<Graph(drafts[d])>>
        /\ final[d] = Dir(Graph(drafts[d]), None)

Carried ==
    work # NoWork /\ work.by = "import" =>
        LET d == work.project IN
        /\ work.dir = Dir(Graph(drafts[d]), None)
        /\ work.at = "publishing" => creating[d] = work.dir
        /\ work.at \in {"freezing", "registering"} => final[d] = work.dir
        /\ work.at \in {"filling", "publishing", "freezing"} /\ ~work.found => ~FrozenDraft(d)

AInv == Imported /\ Agree /\ Carried

(* What a draft's graph is read from. *)
SameBook(q, r) ==
    /\ q.raw = r.raw /\ q.files = r.files /\ q.chapters = r.chapters
    /\ q.through = r.through /\ q.current = r.current

LEMMA GraphOf == ASSUME NEW q, NEW r, SameBook(q, r) PROVE Graph(q) = Graph(r)
<1>1. Chosen(q) = Chosen(r)
  BY DEF Chosen, SameBook
<1>2. ASSUME NEW c PROVE Boundary(q, c) = Boundary(r, c)
  BY DEF Boundary, SameBook
<1>3. ASSUME NEW i PROVE NodeStatus(q, i) = NodeStatus(r, i)
  <2>1. Boundary(q, q.current) = Boundary(r, r.current) /\ Boundary(q, q.through) = Boundary(r, r.through)
    BY <1>2 DEF SameBook
  <2> QED BY <2>1 DEF NodeStatus
<1>4. ExpectedNodes(q) = ExpectedNodes(r)
  BY <1>3 DEF ExpectedNodes, SameBook
<1>5. ExpectedSources(q) = ExpectedSources(r)
  <2> DEFINE src(s, p) == [path |-> p, category |-> s.files[p].category,
                           chapters |-> {c \in Range(s.chapters) : c[1] = p /\ s.raw[p] = 1}]
  <2>1. ASSUME NEW p PROVE src(q, p) = src(r, p)
    BY DEF SameBook
  <2>2. ExpectedSources(q) = {src(q, p) : p \in Chosen(q)} /\ ExpectedSources(r) = {src(r, p) : p \in Chosen(r)}
    BY DEF ExpectedSources
  <2> HIDE DEF src
  <2> QED BY <1>1, <2>1, <2>2
<1>6. ExpectedUnits(q) = ExpectedUnits(r)
  <2>1. {j \in DOMAIN q.chapters : NodeStatus(q, j) = "completed"} =
        {j \in DOMAIN r.chapters : NodeStatus(r, j) = "completed"}
    BY <1>3 DEF SameBook
  <2> QED BY <1>1, <2>1 DEF ExpectedUnits, SameBook
<1> QED BY <1>4, <1>5, <1>6 DEF Graph, SameBook

LEMMA GraphShaped == ASSUME NEW r PROVE Shaped(Graph(r))
  BY DEF Shaped, Graph

(* Two directories an import has built are equal if every row and file is. *)
LEMMA AcceptedSame ==
    ASSUME NEW f, NEW g, Shaped(f), Shaped(g), SameNodes(f, g), SameSources(f, g)
    PROVE  f = g
<1>1. [nodes |-> f.nodes, sources |-> f.sources, units |-> f.units, files |-> f.files,
       boundary |-> f.boundary] =
      [nodes |-> g.nodes, sources |-> g.sources, units |-> g.units, files |-> g.files,
       boundary |-> g.boundary]
  BY DEF SameNodes, SameSources
<1> QED BY <1>1 DEF Shaped

LEMMA DirFields == ASSUME NEW h, NEW r
    PROVE Dir(h, r)[1].holds = h /\ Dir(h, r) # None /\ Dir(h, r)[1].receipt = r
  BY DEF Dir, None

LEMMA InitAInv == VaultInit => AInv
  BY DEF VaultInit, Init, AInv, Imported, Agree, Carried, FrozenDraft, Stored, Absent, NoWork, Projects

LEMMA DraftNextAgrees == ASSUME IInv, AInv, DraftNext, UNCHANGED vaultVars PROVE AInv'
<1>1. PICK d \in Drafts : DraftStep(d)
  BY DraftSteps DEF DraftNext
<1>2. \A e \in Drafts : \/ drafts'[e] = drafts[e]
                        \/ ~FrozenDraft(e) /\ ~FrozenDraft(e)' /\ (e \in locks => ~Stored(e))
  BY <1>1 DEF DraftStep
<1>3. Imported'
  BY DEF AInv, Imported, vaultVars
<1>4. Agree'
  <2> SUFFICES ASSUME NEW e \in Drafts, FrozenDraft(e)'
               PROVE drafts'[e].frozen = <<Graph(drafts'[e])>> /\ final'[e] = Dir(Graph(drafts'[e]), None)
    BY DEF Agree
  <2>1. drafts'[e] = drafts[e] /\ FrozenDraft(e)
    BY <1>2 DEF FrozenDraft, Stored
  <2> QED BY <2>1 DEF AInv, Agree, vaultVars
<1>5. Carried'
  <2> SUFFICES ASSUME work # NoWork, work.by = "import" PROVE Carried'
    BY DEF Carried, vaultVars
  <2>1. PICK e \in Drafts : e = work.project
    BY DEF IInv, Positions
  <2>2. drafts'[e] = drafts[e]
    BY <1>2, <2>1 DEF IInv, Positions
  <2>3. FrozenDraft(e)' <=> FrozenDraft(e)
    BY <2>2 DEF FrozenDraft, Stored
  <2> QED BY <2>1, <2>2, <2>3 DEF AInv, Carried, vaultVars
<1> QED BY <1>3, <1>4, <1>5 DEF AInv

(* A step that writes no draft and no project's directory. *)
LEMMA Undisturbed == ASSUME AInv, UNCHANGED <<drafts, final>>, Carried' PROVE AInv'
  BY DEF AInv, Imported, Agree, FrozenDraft, Stored

LEMMA EndCarried == ASSUME End PROVE Carried'
  BY DEF End, Carried

LEMMA EnterAgrees == ASSUME IInv, AInv, NEW p \in Projects, Enter(p) PROVE AInv'
<1>1. work.at = "entering" /\ work.project = p /\ work # NoWork
  BY DEF Enter, Step, NoWork
<1>2. UNCHANGED <<drafts, final>>
  BY DEF Enter
<1>3. CASE End
  BY <1>2, <1>3, EndCarried, Undisturbed
<1>4. CASE final[p] = None /\ GoTo("filling")
  <2>1. Carried'
    <3> SUFFICES ASSUME work'.by = "import" PROVE Carried'
      BY DEF Carried
    <3>1. work'.at = "filling" /\ work'.project = p /\ work'.dir = work.dir /\ work.by = "import"
      BY <1>1, <1>4, GoToKeeps
    <3>2. p \in Drafts
      BY <1>1, <3>1 DEF IInv, Positions
    <3>3. ~FrozenDraft(p) /\ ~FrozenDraft(p)'
      BY <1>2, <1>4, <3>2, DirFields DEF AInv, Agree, FrozenDraft, Stored
    <3>4. work.dir = Dir(Graph(drafts[p]), None)
      BY <1>1, <3>1 DEF AInv, Carried
    <3> QED BY <1>2, <3>1, <3>3, <3>4 DEF Carried
  <2> QED BY <1>2, <2>1, Undisturbed
<1>5. CASE /\ final[p] # None /\ ExistingAccepted(final[p])
           /\ work' = [work EXCEPT !.found = TRUE,
                          !.at = IF work.by = "restore" THEN "registering" ELSE "freezing"]
  <2>1. Carried'
    <3> SUFFICES ASSUME work'.by = "import" PROVE Carried'
      BY DEF Carried
    <3>1. /\ work'.at = "freezing" /\ work'.project = p /\ work'.dir = work.dir /\ work.by = "import"
          /\ work'.found = TRUE
      BY <1>1, <1>5 DEF IInv, Positions
    <3>2. p \in Drafts
      BY <1>1, <3>1 DEF IInv, Positions
    <3>3. work.dir = Dir(Graph(drafts[p]), None)
      BY <1>1, <3>1 DEF AInv, Carried
    <3>4. SameImport(final[p])
      BY <1>5, <3>1 DEF ExistingAccepted
    <3>5. final[p] = work.dir
      <4> DEFINE g == Graph(drafts[p])
                 f == final[p][1].holds
      <4>1. Shaped(f) /\ final[p] = Dir(f, None)
        BY <1>5, <3>2 DEF AInv, Imported
      <4>2. Shaped(g) /\ work.dir[1].holds = g
        BY <3>3, GraphShaped, DirFields
      <4>3. SameNodes(f, g) /\ SameSources(f, g)
        BY <3>4, <4>2 DEF SameImport
      <4> HIDE DEF f, g
      <4>4. f = g
        BY <4>1, <4>2, <4>3, AcceptedSame
      <4> QED BY <4>1, <4>4, <3>3 DEF g
    <3> QED BY <1>2, <3>1, <3>3, <3>5 DEF Carried
  <2> QED BY <1>2, <2>1, Undisturbed
<1> QED BY <1>3, <1>4, <1>5 DEF Enter

LEMMA FillAgrees == ASSUME IInv, AInv, NEW p \in Projects, Fill(p) PROVE AInv'
<1>1. work.at = "filling" /\ work.project = p /\ work # NoWork
  BY DEF Fill, Step, NoWork
<1>2. UNCHANGED <<drafts, final>> /\ creating' = [creating EXCEPT ![p] = work.dir] /\ GoTo("publishing")
  BY DEF Fill, draftVars
<1>3. /\ work'.at = "publishing" /\ work'.by = work.by /\ work'.project = p /\ work'.dir = work.dir
      /\ work'.found = work.found
  BY <1>1, <1>2, GoToKeeps
<1>4. creating'[p] = work.dir /\ FrozenDraft(p)' = FrozenDraft(p)
  BY <1>2 DEF IInv, Typed, FrozenDraft, Stored
<1>5. Carried'
  BY <1>1, <1>2, <1>3, <1>4 DEF AInv, Carried
<1> QED BY <1>2, <1>5, Undisturbed

LEMMA PublishAgrees == ASSUME IInv, AInv, NEW p \in Projects, Publish(p) PROVE AInv'
<1>1. work.at = "publishing" /\ work.project = p /\ work # NoWork
  BY DEF Publish, Step, NoWork
<1>2. UNCHANGED drafts /\ final' = [final EXCEPT ![p] = creating[p]]
  BY DEF Publish, draftVars
<1>3. GoTo(IF work.by = "restore" THEN "registering" ELSE "freezing")
  BY DEF Publish
<1>4. /\ work'.at = (IF work.by = "restore" THEN "registering" ELSE "freezing")
      /\ work'.by = work.by /\ work'.project = p /\ work'.dir = work.dir /\ work'.found = work.found
  BY <1>1, <1>3, GoToKeeps
<1>5. final'[p] = creating[p] /\ \A d \in Drafts \ {p} : final'[d] = final[d]
  BY <1>2 DEF IInv, Typed, Projects
<1>6. p \in Drafts => work.by = "import" /\ creating[p] = work.dir /\ work.dir = Dir(Graph(drafts[p]), None)
  BY <1>1 DEF IInv, Positions, AInv, Carried
<1>7. Imported'
  <2> SUFFICES ASSUME NEW d \in Drafts, final'[d] # None
               PROVE Shaped(final'[d][1].holds) /\ final'[d] = Dir(final'[d][1].holds, None)
    BY DEF Imported
  <2>1. CASE d # p
    BY <1>5, <2>1 DEF AInv, Imported
  <2>2. CASE d = p
    <3>1. final'[d] = Dir(Graph(drafts[p]), None)
      BY <1>5, <1>6, <2>2
    <3> QED BY <3>1, DirFields, GraphShaped
  <2> QED BY <2>1, <2>2
<1>8. p \in Drafts /\ FrozenDraft(p) => work.found
  BY <1>1, <1>6 DEF AInv, Carried
<1>9. Agree'
  <2> SUFFICES ASSUME NEW d \in Drafts, FrozenDraft(d)
               PROVE drafts[d].frozen = <<Graph(drafts[d])>> /\ final'[d] = Dir(Graph(drafts[d]), None)
    BY <1>2 DEF Agree, FrozenDraft, Stored
  <2>1. drafts[d].frozen = <<Graph(drafts[d])>> /\ final[d] = Dir(Graph(drafts[d]), None)
    BY DEF AInv, Agree
  <2>2. d = p => final'[d] = Dir(Graph(drafts[d]), None)
    BY <1>5, <1>6
  <2> QED BY <1>5, <2>1, <2>2
<1>10. Carried'
  <2> SUFFICES ASSUME work'.by = "import" PROVE Carried'
    BY DEF Carried
  <2>1. p \in Drafts /\ work.by = "import"
    BY <1>1, <1>4 DEF IInv, Positions
  <2>2. ~work.found => ~FrozenDraft(p)'
    BY <1>1, <1>2, <2>1 DEF AInv, Carried, FrozenDraft, Stored
  <2> QED BY <1>2, <1>4, <1>5, <1>6, <2>1, <2>2 DEF Carried
<1> QED BY <1>7, <1>9, <1>10 DEF AInv

LEMMA FailAsideAgrees == ASSUME IInv, AInv, NEW p \in Projects, FailAside(p) PROVE AInv'
  BY EndCarried, Undisturbed DEF FailAside

LEMMA FreezeAgrees == ASSUME IInv, AInv, NEW p \in Projects, Freeze(p) PROVE AInv'
<1>1. work.at = "freezing" /\ work.project = p /\ work # NoWork
  BY DEF Freeze, Step, NoWork
<1>2. UNCHANGED final /\ drafts' = Frozen(p) /\ GoTo("registering")
  BY DEF Freeze
<1>3. work'.at = "registering" /\ work'.by = work.by /\ work'.project = p /\ work'.dir = work.dir
  BY <1>1, <1>2, GoToKeeps
<1>4. Imported'
  BY <1>2 DEF AInv, Imported
<1>5. CASE work.by # "import"
  <2>1. drafts' = drafts /\ Carried'
    BY <1>2, <1>3, <1>5 DEF Frozen, Carried
  <2> QED BY <1>2, <2>1, Undisturbed
<1>6. CASE work.by = "import"
  <2>1. p \in Drafts /\ Stored(p)
    BY <1>1, <1>6 DEF IInv, Positions
  <2>2. work.dir = Dir(Graph(drafts[p]), None) /\ final[p] = work.dir
    BY <1>1, <1>6 DEF AInv, Carried
  <2> DEFINE h == <<work.dir[1].holds>>
  <2>3. drafts' = [drafts EXCEPT ![p] = [drafts[p] EXCEPT !.frozen = h]]
    BY <1>2, <1>6 DEF Frozen
  <2>4. h = <<Graph(drafts[p])>>
    BY <2>2, DirFields
  <2>5. DOMAIN drafts[p] = DraftFields
    BY <2>1 DEF IInv, DraftsOK, DraftOK
  <2> HIDE DEF h
  <2>6. drafts'[p] = [drafts[p] EXCEPT !.frozen = h] /\ \A d \in Drafts \ {p} : drafts'[d] = drafts[d]
    BY <2>1, <2>3 DEF IInv, Typed
  <2>7. SameBook(drafts'[p], drafts[p]) /\ drafts'[p].frozen = h
    BY <2>5, <2>6 DEF SameBook, DraftFields
  <2>8. Graph(drafts'[p]) = Graph(drafts[p])
    BY <2>7, GraphOf
  <2>9. Agree'
    <3> SUFFICES ASSUME NEW d \in Drafts, FrozenDraft(d)'
                 PROVE drafts'[d].frozen = <<Graph(drafts'[d])>> /\ final'[d] = Dir(Graph(drafts'[d]), None)
      BY DEF Agree
    <3>1. CASE d = p
      BY <1>2, <2>2, <2>4, <2>7, <2>8, <3>1
    <3>2. CASE d # p
      <4>1. drafts'[d] = drafts[d] /\ FrozenDraft(d)
        BY <2>6, <3>2 DEF FrozenDraft, Stored
      <4> QED BY <1>2, <4>1 DEF AInv, Agree
    <3> QED BY <3>1, <3>2
  <2>10. Carried'
    BY <1>2, <1>3, <2>2, <2>8 DEF Carried
  <2> QED BY <1>4, <2>9, <2>10 DEF AInv
<1> QED BY <1>5, <1>6

LEMMA FreezeFailsAgrees == ASSUME IInv, AInv, NEW p \in Projects, FreezeFails(p) PROVE AInv'
<1>1. work.at = "freezing" /\ work.project = p /\ work # NoWork
  BY DEF FreezeFails, Step, NoWork
<1>2. UNCHANGED drafts /\ End
  BY DEF FreezeFails
<1>3. PICK keep \in {work.found, work.found /\ work.by = "import" /\ drafts[p].frozen # None} :
         final' = [final EXCEPT ![p] = IF keep THEN @ ELSE None]
  BY DEF FreezeFails
<1>4. \A d \in Drafts : final'[d] = final[d] \/ (d = p /\ final'[d] = None)
  <2> DEFINE f == IF keep THEN final[p] ELSE None
  <2>1. final' = [final EXCEPT ![p] = f] /\ (f = final[p] \/ f = None)
    BY <1>3
  <2> HIDE DEF f
  <2>2. \A d \in Drafts : final'[d] = IF d = p THEN f ELSE final[d]
    BY <2>1 DEF IInv, Typed, Projects
  <2>3. ASSUME NEW d \in Drafts PROVE final'[d] = final[d] \/ (d = p /\ final'[d] = None)
    <3>1. CASE d = p
      BY <2>1, <2>2, <3>1
    <3>2. CASE d # p
      BY <2>2, <3>2
    <3> QED BY <3>1, <3>2
  <2> QED BY <2>3
<1>5. Imported'
  BY <1>4 DEF AInv, Imported
<1>6. p \in Drafts /\ FrozenDraft(p) => final'[p] = final[p]
  <2> SUFFICES ASSUME p \in Drafts, FrozenDraft(p) PROVE final'[p] = final[p]
    OBVIOUS
  <2>1. work.by = "import" /\ work.found = TRUE
    BY <1>1 DEF IInv, Positions, AInv, Carried
  <2>2. drafts[p].frozen # None
    BY DEF FrozenDraft
  <2>3. keep
    BY <1>3, <2>1, <2>2
  <2> QED BY <1>3, <2>3 DEF IInv, Typed
<1>7. Agree'
  <2> SUFFICES ASSUME NEW d \in Drafts, FrozenDraft(d)
               PROVE drafts[d].frozen = <<Graph(drafts[d])>> /\ final'[d] = Dir(Graph(drafts[d]), None)
    BY <1>2 DEF Agree, FrozenDraft, Stored
  <2>1. final'[d] = final[d]
    BY <1>4, <1>6
  <2> QED BY <2>1 DEF AInv, Agree
<1> QED BY <1>2, <1>5, <1>7, EndCarried DEF AInv

LEMMA RegisterAgrees == ASSUME IInv, AInv, NEW p \in Projects, Register(p) PROVE AInv'
  BY EndCarried, Undisturbed DEF Register

LEMMA RegisterFailsAgrees == ASSUME IInv, AInv, NEW p \in Projects, RegisterFails(p) PROVE AInv'
<1>1. work.at = "registering" /\ work.project = p /\ work # NoWork
  BY DEF RegisterFails, Step, NoWork
<1>2. PICK row : final' = [final EXCEPT ![p] = Withdrawn(p, row \/ registry[p])]
  BY DEF RegisterFails
<1>3. p \in Drafts => work.by = "import"
  BY <1>1 DEF IInv, Positions
<1>4. \A d \in Drafts : final'[d] = final[d]
  BY <1>2, <1>3 DEF Withdrawn, IInv, Typed, Projects
<1>5. UNCHANGED drafts /\ End
  BY DEF RegisterFails
<1>6. Imported' /\ Agree'
  BY <1>4, <1>5 DEF AInv, Imported, Agree, FrozenDraft, Stored
<1> QED BY <1>5, <1>6, EndCarried DEF AInv

LEMMA CommitAgrees == ASSUME IInv, AInv, NEW d \in Drafts, Commit(d) PROVE AInv'
<1>1. work' = Begun("import", d, Graph(drafts[d]), None) /\ UNCHANGED <<drafts, final>>
  BY DEF Commit, Start
<1>2. Carried'
  BY <1>1 DEF Begun, Carried
<1> QED BY <1>1, <1>2, Undisturbed

LEMMA RestoreAgrees == ASSUME IInv, AInv, NEW a \in Archives, Restore(a) PROVE AInv'
<1>1. work' = Begun("restore", a.project, Populated(a), <<a.hash>>) /\ UNCHANGED <<drafts, final>>
  BY DEF Restore, Start
<1>2. Carried'
  BY <1>1 DEF Begun, Carried
<1> QED BY <1>1, <1>2, Undisturbed

LEMMA CreateProjectAgrees == ASSUME IInv, AInv, NEW p \in NewProjects, CreateProject(p) PROVE AInv'
<1>1. work' = Begun("new", p, Blank, None) /\ UNCHANGED <<drafts, final>>
  BY DEF CreateProject, Start
<1>2. Carried'
  BY <1>1 DEF Begun, Carried
<1> QED BY <1>1, <1>2, Undisturbed

LEMMA CrashAgrees == ASSUME IInv, AInv, Crash PROVE AInv'
<1>1. work' = NoWork /\ UNCHANGED <<drafts, final>>
  BY DEF Crash, Restart
<1>2. Carried'
  BY <1>1 DEF Carried
<1> QED BY <1>1, <1>2, Undisturbed

LEMMA NextAgrees == IInv /\ AInv /\ [Next]_vars => AInv'
<1> SUFFICES ASSUME IInv, AInv, [Next]_vars PROVE AInv'
  OBVIOUS
<1>1. CASE UNCHANGED vars
  <2>1. UNCHANGED <<drafts, final>> /\ Carried'
    BY <1>1 DEF vars, draftVars, vaultVars, AInv, Carried, FrozenDraft, Stored
  <2> QED BY <2>1, Undisturbed
<1>2. CASE DraftNext /\ UNCHANGED vaultVars
  BY <1>2, DraftNextAgrees
<1>3. CASE \E p \in Projects : Creation(p)
  BY <1>3, EnterAgrees, FillAgrees, PublishAgrees, FailAsideAgrees, FreezeAgrees, FreezeFailsAgrees,
     RegisterAgrees, RegisterFailsAgrees DEF Creation
<1>4. CASE \/ \E d \in Drafts : Commit(d)
           \/ \E a \in Archives : Restore(a)
           \/ \E p \in NewProjects : CreateProject(p)
           \/ Crash
  BY <1>4, CommitAgrees, RestoreAgrees, CreateProjectAgrees, CrashAgrees
<1> QED BY <1>1, <1>2, <1>3, <1>4 DEF Next

-----------------------------------------------------------------------------
(* The chapters of a draft: what the sorts and filters make of them.  A       *)
(* sequence lists a set if it holds every element once.                       *)
Lists(s, S) ==
    /\ s \in Seq(S) /\ \A x \in S : \E i \in DOMAIN s : s[i] = x
    /\ \A i, j \in DOMAIN s : s[i] = s[j] => i = j

StrictOrder(R, S) ==
    /\ \A x \in S : <<x, x>> \notin R
    /\ \A x, y, z \in S : <<x, y>> \in R /\ <<y, z>> \in R => <<x, z>> \in R
    /\ \A x, y \in S : x = y \/ <<x, y>> \in R \/ <<y, x>> \in R
(* What comes before x. *)
Below(S, R, x) == {y \in S : <<y, x>> \in R}

LEMMA BelowGrows ==
    ASSUME NEW S, NEW R, IsFiniteSet(S), StrictOrder(R, S), NEW x \in S, NEW y \in S, <<x, y>> \in R
    PROVE  Cardinality(Below(S, R, x)) < Cardinality(Below(S, R, y))
<1>1. Below(S, R, x) \in SUBSET Below(S, R, y)
  BY DEF Below, StrictOrder
<1>2. x \in Below(S, R, y) /\ x \notin Below(S, R, x)
  BY DEF Below, StrictOrder
<1>3. Below(S, R, y) \in SUBSET S
  BY DEF Below
<1>4. IsFiniteSet(Below(S, R, y))
  BY <1>3, FS_Subset
<1>5. /\ IsFiniteSet(Below(S, R, x))
      /\ Cardinality(Below(S, R, x)) <= Cardinality(Below(S, R, y))
      /\ Cardinality(Below(S, R, y)) # Cardinality(Below(S, R, x))
  BY <1>1, <1>2, <1>4, FS_Subset
<1>6. Cardinality(Below(S, R, x)) \in Nat /\ Cardinality(Below(S, R, y)) \in Nat
  BY <1>4, <1>5, FS_CardinalityType
<1> QED BY <1>5, <1>6

(* The elements of a finite set have the ranks from 0 on, each another one. *)
LEMMA Ranks ==
    ASSUME NEW S, NEW R, IsFiniteSet(S), StrictOrder(R, S)
    PROVE  /\ Cardinality(S) \in Nat
           /\ \A x, y \in S : Cardinality(Below(S, R, x)) = Cardinality(Below(S, R, y)) => x = y
           /\ \A i \in 1..Cardinality(S) : \E x \in S : Cardinality(Below(S, R, x)) = i - 1
           /\ \A x \in S : Cardinality(Below(S, R, x)) + 1 \in 1..Cardinality(S)
<1> DEFINE n == Cardinality(S)
           rank == [x \in S |-> Cardinality(Below(S, R, x))]
<1>1. n \in Nat
  BY FS_CardinalityType
<1>2. ASSUME NEW x \in S PROVE rank[x] \in 0..(n - 1)
  <2>1. Below(S, R, x) \in SUBSET S /\ x \notin Below(S, R, x)
    BY DEF Below, StrictOrder
  <2>2. IsFiniteSet(Below(S, R, x)) /\ Cardinality(Below(S, R, x)) <= n
        /\ Cardinality(Below(S, R, x)) # n
    BY <2>1, FS_Subset
  <2>3. Cardinality(Below(S, R, x)) \in Nat
    BY <2>2, FS_CardinalityType
  <2> QED BY <1>1, <2>2, <2>3
<1>3. ASSUME NEW x \in S, NEW y \in S, rank[x] = rank[y] PROVE x = y
  <2>1. rank[x] \in Nat /\ rank[y] \in Nat
    BY <1>1, <1>2
  <2>2. CASE <<x, y>> \in R
    <3>1. rank[x] < rank[y]
      BY <2>2, BelowGrows
    <3> QED BY <1>3, <2>1, <3>1
  <2>3. CASE <<y, x>> \in R
    <3>1. rank[y] < rank[x]
      BY <2>3, BelowGrows
    <3> QED BY <1>3, <2>1, <3>1
  <2> QED BY <2>2, <2>3 DEF StrictOrder
<1> DEFINE T == 0..(n - 1)
<1>4. rank \in [S -> T]
  BY <1>2
<1>5. IsFiniteSet(T) /\ Cardinality(T) = n
  BY <1>1, FS_Interval
<1> HIDE DEF rank, T
<1>6. rank \in Injection(S, T)
  BY <1>3, <1>4 DEF Injection, IsInjective
<1>7. rank \in Surjection(S, T)
  BY <1>5, <1>6, FS_Injection
<1>8. \A i \in T : \E x \in S : rank[x] = i
  BY <1>7 DEF Surjection
<1>9. \A x \in S : rank[x] = Cardinality(Below(S, R, x))
  BY DEF rank
<1>10. \A i \in 1..n : i - 1 \in T
  BY <1>1 DEF T
<1>11. \A x \in S : Cardinality(Below(S, R, x)) + 1 \in 1..n
  BY <1>1, <1>2, <1>9
<1> QED BY <1>1, <1>3, <1>8, <1>9, <1>10, <1>11

LEMMA Sequenced ==
    ASSUME NEW S, NEW R, IsFiniteSet(S), StrictOrder(R, S)
    PROVE  /\ Lists(InSequence(S, R), S)
           /\ DOMAIN InSequence(S, R) = 1..Cardinality(S)
           /\ Cardinality(S) \in Nat
<1> DEFINE s == InSequence(S, R)
           n == Cardinality(S)
           rank(x) == Cardinality(Below(S, R, x))
<1>1. s = [i \in 1..n |-> CHOOSE x \in S : rank(x) = i - 1]
  BY DEF InSequence, Below
<1>2. /\ n \in Nat /\ \A x, y \in S : rank(x) = rank(y) => x = y
      /\ \A i \in 1..n : \E x \in S : rank(x) = i - 1
      /\ \A x \in S : rank(x) + 1 \in 1..n
  BY Ranks
<1> HIDE DEF rank, s
<1>3. \A i \in 1..n : s[i] \in S /\ rank(s[i]) = i - 1
  BY <1>1, <1>2
<1>4. s \in [1..n -> S] /\ DOMAIN s = 1..n
  BY <1>1, <1>3
<1>5. s \in Seq(S)
  BY <1>2, <1>4
<1>6. ASSUME NEW x \in S PROVE \E i \in DOMAIN s : s[i] = x
  <2>1. PICK i \in 1..n : i = rank(x) + 1
    BY <1>2
  <2>2. rank(s[i]) = i - 1 /\ s[i] \in S
    BY <1>3
  <2>3. rank(x) \in Int
    <3>1. Below(S, R, x) \in SUBSET S
      BY DEF Below
    <3> QED BY <3>1, FS_Subset, FS_CardinalityType DEF rank
  <2>4. rank(s[i]) = rank(x)
    BY <2>1, <2>2, <2>3
  <2> QED BY <1>2, <1>4, <2>2, <2>4
<1>7. \A i, j \in DOMAIN s : s[i] = s[j] => i = j
  <2> SUFFICES ASSUME NEW i \in DOMAIN s, NEW j \in DOMAIN s, s[i] = s[j] PROVE i = j
    OBVIOUS
  <2>1. i - 1 = j - 1 /\ i \in Int /\ j \in Int
    BY <1>3, <1>4
  <2> QED BY <2>1
<1> QED BY <1>2, <1>4, <1>5, <1>6, <1>7 DEF Lists, s

LEMMA ListedLength ==
    ASSUME NEW S, NEW s, Lists(s, S)
    PROVE  Range(s) = S /\ IsFiniteSet(S) /\ Len(s) = Cardinality(Range(s))
<1>1. s \in [1..Len(s) -> S] /\ Len(s) \in Nat /\ DOMAIN s = 1..Len(s)
  BY DEF Lists
<1>2. s \in Bijection(1..Len(s), S)
  BY <1>1 DEF Lists, Bijection, Injection, Surjection, IsInjective
<1>3. ExistsBijection(1..Len(s), S)
  BY <1>2 DEF ExistsBijection
<1>4. Cardinality(S) = Len(s)
  BY <1>1, <1>3, FS_CountingElements
<1>5. IsFiniteSet(S)
  BY <1>1, <1>3, FS_NatBijection
<1>6. Range(s) = S
  BY <1>1 DEF Lists, Range
<1> QED BY <1>4, <1>5, <1>6

LEMMA ListsBoth ==
    ASSUME NEW S, NEW T, NEW s, NEW t, Lists(s, S), Lists(t, T), S \cap T = {}
    PROVE  Lists(s \o t, S \cup T)
<1> DEFINE u == s \o t
<1>1. /\ s \in Seq(S) /\ t \in Seq(T) /\ Len(s) \in Nat /\ Len(t) \in Nat
      /\ DOMAIN s = 1..Len(s) /\ DOMAIN t = 1..Len(t)
  BY DEF Lists
<1>2. /\ s \in Seq(S \cup T) /\ t \in Seq(S \cup T)
  BY <1>1
<1>3. /\ u \in Seq(S \cup T) /\ Len(u) = Len(s) + Len(t) /\ DOMAIN u = 1..(Len(s) + Len(t))
      /\ \A i \in 1..(Len(s) + Len(t)) : u[i] = IF i <= Len(s) THEN s[i] ELSE t[i - Len(s)]
  BY <1>1, <1>2
<1> HIDE DEF u
<1>4. ASSUME NEW x \in S \cup T PROVE \E i \in DOMAIN u : u[i] = x
  <2>1. CASE x \in S
    <3> PICK i \in DOMAIN s : s[i] = x
      BY <2>1 DEF Lists
    <3>1. i \in 1..(Len(s) + Len(t)) /\ i <= Len(s)
      BY <1>1
    <3> QED BY <1>3, <3>1
  <2>2. CASE x \in T
    <3> PICK i \in DOMAIN t : t[i] = x
      BY <2>2 DEF Lists
    <3> PICK k \in Int : k = i + Len(s)
      BY <1>1
    <3>1. k \in 1..(Len(s) + Len(t)) /\ ~(k <= Len(s)) /\ k - Len(s) = i
      BY <1>1
    <3> QED BY <1>3, <3>1
  <2> QED BY <2>1, <2>2
<1>5. ASSUME NEW i \in DOMAIN u, NEW j \in DOMAIN u, u[i] = u[j] PROVE i = j
  <2>1. ASSUME NEW k \in DOMAIN u
        PROVE  /\ k \in Int
               /\ k <= Len(s) => k \in DOMAIN s /\ u[k] = s[k] /\ u[k] \in S
               /\ ~(k <= Len(s)) => k - Len(s) \in DOMAIN t /\ u[k] = t[k - Len(s)] /\ u[k] \in T
    <3>1. k \in 1..(Len(s) + Len(t)) /\ k \in Int
      BY <1>1, <1>3
    <3>2. CASE k <= Len(s)
      <4>1. k \in 1..Len(s) /\ u[k] = s[k]
        BY <1>1, <1>3, <3>1, <3>2
      <4> QED BY <1>1, <3>2, <4>1
    <3>3. CASE ~(k <= Len(s))
      <4> PICK l \in Int : l = k - Len(s)
        BY <1>1, <3>1
      <4>1. l \in 1..Len(t) /\ u[k] = t[k - Len(s)]
        BY <1>1, <1>3, <3>1, <3>3
      <4> QED BY <1>1, <3>1, <3>3, <4>1
    <3> QED BY <3>2, <3>3
  <2>2. CASE i <= Len(s)
    BY <1>5, <2>1, <2>2 DEF Lists
  <2>3. CASE ~(i <= Len(s))
    <3>1. ~(j <= Len(s))
      BY <1>5, <2>1, <2>3
    <3>2. i - Len(s) = j - Len(s)
      BY <1>5, <2>1, <2>3, <3>1 DEF Lists
    <3>3. i \in Int /\ j \in Int /\ Len(s) \in Int
      BY <1>1, <2>1
    <3> QED BY <3>2, <3>3
  <2> QED BY <2>2, <2>3
<1> QED BY <1>3, <1>4, <1>5 DEF Lists, u

(* Chapters are ordered by a place, those of one place as in their files. *)
LEMMA OrderedLists ==
    ASSUME NEW cs, IsFiniteSet(cs), cs \subseteq Nat \X Nat, NEW order,
           \A c \in cs : order[c] \in Int
    PROVE  Lists(Ordered(cs, order), cs)
<1> DEFINE R == {x \in cs \X cs : \/ order[x[1]] < order[x[2]]
                                  \/ order[x[1]] = order[x[2]] /\ InFileOrder(x[1], x[2])}
<1>1. \A c, d : <<c, d>> \in R <=> /\ c \in cs /\ d \in cs
                                   /\ \/ order[c] < order[d]
                                      \/ /\ order[c] = order[d]
                                         /\ c[1] < d[1] \/ (c[1] = d[1] /\ c[2] < d[2])
  BY DEF InFileOrder
<1>2. \A c \in cs : c[1] \in Nat /\ c[2] \in Nat /\ c = <<c[1], c[2]>>
  OBVIOUS
<1>3. Ordered(cs, order) = InSequence(cs, R)
  BY DEF Ordered
<1> HIDE DEF R
<1>4. \A c \in cs : <<c, c>> \notin R
  BY <1>1, <1>2
<1>5. \A c, d, e \in cs : <<c, d>> \in R /\ <<d, e>> \in R => <<c, e>> \in R
  BY <1>1, <1>2
<1>6. \A c, d \in cs : c = d \/ <<c, d>> \in R \/ <<d, c>> \in R
  <2> SUFFICES ASSUME NEW c \in cs, NEW d \in cs, <<c, d>> \notin R, <<d, c>> \notin R
               PROVE  c = d
    OBVIOUS
  <2>1. order[c] = order[d] /\ c[1] = d[1] /\ c[2] = d[2]
    BY <1>1, <1>2
  <2> QED BY <1>2, <2>1
<1>7. StrictOrder(R, cs)
  BY <1>4, <1>5, <1>6 DEF StrictOrder
<1> QED BY <1>3, <1>7, Sequenced

LEMMA FileOrderedLists ==
    ASSUME NEW cs, IsFiniteSet(cs), cs \subseteq Nat \X Nat
    PROVE  Lists(FileOrdered(cs), cs)
<1> DEFINE zero == [c \in cs |-> 0]
<1>1. \A c \in cs : zero[c] \in Int
  OBVIOUS
<1> HIDE DEF zero
<1>2. Lists(Ordered(cs, zero), cs)
  BY <1>1, OrderedLists
<1> QED BY <1>2 DEF FileOrdered, zero

(* What a filter keeps of a list. *)
ShownOf(files, inv) ==
    {c \in Range(inv) : c[1] \in Manuscripts(files) /\ files[c[1]].selected}

LEMMA ActiveLists ==
    ASSUME NEW S, NEW inv, Lists(inv, S), NEW files
    PROVE  Lists(ActiveChapters(files, inv), ShownOf(files, inv))
<1> DEFINE kept == {i \in DOMAIN inv : inv[i][1] \in Manuscripts(files) /\ files[inv[i][1]].selected}
           R == {x \in kept \X kept : x[1] < x[2]}
           at == InSequence(kept, R)
           act == [i \in DOMAIN at |-> inv[at[i]]]
<1>1. ActiveChapters(files, inv) = act
  BY DEF ActiveChapters
<1>2. /\ kept \subseteq DOMAIN inv /\ DOMAIN inv = 1..Len(inv) /\ Len(inv) \in Nat
      /\ inv \in [DOMAIN inv -> S]
  BY DEF Lists
<1>3. IsFiniteSet(kept)
  <2>1. kept \in SUBSET (1..Len(inv)) /\ IsFiniteSet(1..Len(inv))
    BY <1>2, FS_Interval
  <2> HIDE DEF kept
  <2> QED BY <2>1, FS_Subset
<1>4. ShownOf(files, inv) = {inv[i] : i \in kept}
  BY DEF ShownOf, Range
<1>5. StrictOrder(R, kept)
  <2>1. \A i, j : <<i, j>> \in R <=> i \in kept /\ j \in kept /\ i < j
    OBVIOUS
  <2>2. kept \subseteq Int
    BY <1>2
  <2> HIDE DEF R, kept
  <2> QED BY <2>1, <2>2 DEF StrictOrder
<1> HIDE DEF R, kept
<1>6. Lists(at, kept) /\ DOMAIN at = 1..Cardinality(kept) /\ Cardinality(kept) \in Nat
  BY <1>3, <1>5, Sequenced
<1> HIDE DEF at
<1>7. \A i \in DOMAIN at : at[i] \in kept
  BY <1>6 DEF Lists
<1>8. act \in [DOMAIN at -> ShownOf(files, inv)] /\ DOMAIN act = DOMAIN at
      /\ \A i \in DOMAIN at : act[i] = inv[at[i]]
  BY <1>4, <1>7
<1> HIDE DEF act
<1>9. act \in Seq(ShownOf(files, inv))
  BY <1>6, <1>8
<1>10. \A x \in ShownOf(files, inv) : \E i \in DOMAIN act : act[i] = x
  BY <1>4, <1>6, <1>8 DEF Lists
<1>11. \A i, j \in DOMAIN act : act[i] = act[j] => i = j
  BY <1>2, <1>6, <1>7, <1>8 DEF Lists
<1> QED BY <1>1, <1>9, <1>10, <1>11 DEF Lists

-----------------------------------------------------------------------------
(* The segments of some files.                                              *)
LEMMA SegmentsOf ==
    ASSUME NEW raw, NEW ps, IsFiniteSet(ps), ps \subseteq Nat, \A p \in ps : raw[p] \in Nat
    PROVE  /\ \A c : c \in Segments(raw, ps) <=> \E p \in ps : \E i \in 1..raw[p] : c = <<p, i>>
           /\ Segments(raw, ps) \subseteq Nat \X Nat
           /\ IsFiniteSet(Segments(raw, ps))
<1> DEFINE Of(p) == {Chapter(p, i) : i \in 1..raw[p]}
           all == {Of(p) : p \in ps}
<1>1. \A c : c \in Segments(raw, ps) <=> \E p \in ps : \E i \in 1..raw[p] : c = <<p, i>>
  BY DEF Segments, Chapter
<1>2. Segments(raw, ps) \subseteq Nat \X Nat
  <2> SUFFICES ASSUME NEW p \in ps, NEW i \in 1..raw[p] PROVE <<p, i>> \in Nat \X Nat
    BY <1>1
  <2>1. raw[p] \in Nat
    OBVIOUS
  <2> QED BY <2>1
<1>3. Segments(raw, ps) = UNION all
  BY DEF Segments
<1>4. ASSUME NEW p \in ps PROVE IsFiniteSet(Of(p))
  <2> DEFINE f == [i \in 1..raw[p] |-> Chapter(p, i)]
  <2>1. f \in Surjection(1..raw[p], Of(p))
    BY DEF Surjection
  <2>2. IsFiniteSet(1..raw[p])
    <3>1. raw[p] \in Nat
      OBVIOUS
    <3> QED BY <3>1, FS_Interval
  <2> HIDE DEF f, Of
  <2> QED BY <2>1, <2>2, FS_Surjection
<1> HIDE DEF Of
<1>5. IsFiniteSet(all)
  <2> DEFINE f == [p \in ps |-> Of(p)]
  <2>1. f \in Surjection(ps, all)
    BY DEF Surjection
  <2> HIDE DEF f, all
  <2> QED BY <2>1, FS_Surjection
<1>6. IsFiniteSet(UNION all)
  <2>1. \A x \in all : IsFiniteSet(x)
    BY <1>4
  <2> HIDE DEF all
  <2> QED BY <1>5, <2>1, FS_UNION
<1> QED BY <1>1, <1>2, <1>3, <1>6

(* A draft holds every chapter of the files that were ever its manuscripts, *)
(* each once, and shows those of the chosen manuscripts.                    *)
Book(r) ==
    /\ IsFiniteSet(DOMAIN r.files) /\ DOMAIN r.files \subseteq Nat
    /\ \A p \in DOMAIN r.files : r.raw[p] \in Nat
    /\ \E ps \in SUBSET DOMAIN r.files :
          Manuscripts(r.files) \subseteq ps /\ Lists(r.inventory, Segments(r.raw, ps))
    /\ r.chapters = ActiveChapters(r.files, r.inventory)

LEMMA FilesOf ==
    ASSUME NEW r, Book(r), NEW ps \in SUBSET DOMAIN r.files
    PROVE  /\ \A c : c \in Segments(r.raw, ps) <=> \E p \in ps : \E i \in 1..r.raw[p] : c = <<p, i>>
           /\ Segments(r.raw, ps) \subseteq Nat \X Nat
           /\ IsFiniteSet(Segments(r.raw, ps))
<1>1. IsFiniteSet(ps) /\ ps \subseteq Nat /\ \A p \in ps : r.raw[p] \in Nat
  BY FS_Subset DEF Book
<1> QED BY <1>1, SegmentsOf

LEMMA BookComplete ==
    ASSUME NEW r, Book(r)
    PROVE  /\ Range(r.chapters) = Segments(r.raw, Chosen(r) \intersect Manuscripts(r.files))
           /\ Len(r.chapters) = Cardinality(Range(r.chapters))
           /\ IsFiniteSet(Range(r.chapters))
<1>1. PICK ps \in SUBSET DOMAIN r.files :
         Manuscripts(r.files) \subseteq ps /\ Lists(r.inventory, Segments(r.raw, ps))
  BY DEF Book
<1>2. Lists(r.chapters, ShownOf(r.files, r.inventory))
  BY <1>1, ActiveLists DEF Book
<1>3. Range(r.inventory) = Segments(r.raw, ps)
  BY <1>1, ListedLength
<1> DEFINE qs == Chosen(r) \intersect Manuscripts(r.files)
<1>4. qs \in SUBSET DOMAIN r.files
  BY DEF Chosen
<1>5. \A p : p \in qs <=> p \in Manuscripts(r.files) /\ r.files[p].selected
  BY DEF Chosen, Manuscripts
<1> HIDE DEF qs
<1>6. ShownOf(r.files, r.inventory) = Segments(r.raw, qs)
  <2>1. ASSUME NEW c
        PROVE  c \in ShownOf(r.files, r.inventory) <=>
                 \E p \in ps : \E i \in 1..r.raw[p] :
                    c = <<p, i>> /\ p \in Manuscripts(r.files) /\ r.files[p].selected
    <3>1. c \in Range(r.inventory) <=> \E p \in ps : \E i \in 1..r.raw[p] : c = <<p, i>>
      <4>1. \A d : d \in Segments(r.raw, ps) <=> \E p \in ps : \E i \in 1..r.raw[p] : d = <<p, i>>
        BY FilesOf
      <4> QED BY <1>3, <4>1
    <3> QED BY <3>1 DEF ShownOf
  <2>2. \A c : c \in Segments(r.raw, qs) <=> \E p \in qs : \E i \in 1..r.raw[p] : c = <<p, i>>
    BY <1>4, FilesOf
  <2> QED BY <1>1, <1>5, <2>1, <2>2
<1>7. /\ Range(r.chapters) = ShownOf(r.files, r.inventory)
      /\ Len(r.chapters) = Cardinality(Range(r.chapters))
      /\ IsFiniteSet(Range(r.chapters))
  BY <1>2, ListedLength
<1> QED BY <1>6, <1>7 DEF qs

LEMMA BuiltBook ==
    ASSUME NEW u \in Uploads
    PROVE  Book(Built(u))
<1> DEFINE files == [p \in Paths(u) |-> FileOf(u, p)]
           raw   == [p \in Paths(u) |-> Source(u, p).parts]
           ms    == Manuscripts(files)
           found == FileOrdered(Segments(raw, ms))
           order == [c \in Range(found) |-> IF c \in DOMAIN u.chapters THEN u.chapters[c]
                                            ELSE Position(found, c) - 1]
           inv   == Inventory(u, raw, ms)
           act   == ActiveChapters(files, inv)
<1>1. Built(u) = [on |-> "stored", rev |-> 1, raw |-> raw, files |-> files, inventory |-> inv,
                  chapters |-> act, confirmed |-> FALSE, through |-> None, current |-> None,
                  frozen |-> None]
  BY DEF Built
<1>2. /\ IsFiniteSet(DOMAIN u.entries)
      /\ \A i \in DOMAIN u.entries : u.entries[i].path \in Nat /\ u.entries[i].parts \in Nat
      /\ \A c \in DOMAIN u.chapters : u.chapters[c] \in Int
  BY ImportDraftsAssumption
<1>3. \A e \in Sources(u) : \E i \in DOMAIN u.entries : e = u.entries[i]
  BY DEF Sources, Range
<1>4. Paths(u) \subseteq Nat /\ \A p \in Paths(u) : raw[p] \in Nat
  <2>1. \A p \in Paths(u) : \E e \in Sources(u) : e.path = p
    BY DEF Paths
  <2>2. \A p \in Paths(u) : Source(u, p) \in Sources(u)
    BY <2>1 DEF Source
  <2> QED BY <1>2, <1>3, <2>1, <2>2
<1>5. IsFiniteSet(Paths(u))
  <2> DEFINE D == DOMAIN u.entries
             f == [i \in D |-> u.entries[i].path]
             T == {f[i] : i \in D}
  <2>1. f \in Surjection(D, T)
    BY DEF Surjection
  <2>2. Paths(u) \in SUBSET T
    BY <1>3 DEF Paths
  <2> HIDE DEF D, f, T
  <2>3. IsFiniteSet(D)
    BY <1>2 DEF D
  <2>4. IsFiniteSet(T)
    BY <2>1, <2>3, FS_Surjection
  <2> QED BY <2>2, <2>4, FS_Subset
<1>6. /\ DOMAIN files = Paths(u) /\ ms \in SUBSET Paths(u) /\ IsFiniteSet(ms)
      /\ ms \subseteq Nat /\ \A p \in ms : raw[p] \in Nat
  <2>1. DOMAIN files = Paths(u) /\ ms \in SUBSET Paths(u)
    BY DEF Manuscripts
  <2>2. IsFiniteSet(ms)
    BY <1>5, <2>1, FS_Subset
  <2> HIDE DEF ms, raw
  <2> QED BY <1>4, <2>1, <2>2
<1>7. inv = Ordered(Range(found), order)
  BY DEF Inventory
<1> HIDE DEF files, inv, raw, ms, order
<1>8. Segments(raw, ms) \subseteq Nat \X Nat /\ IsFiniteSet(Segments(raw, ms))
  BY <1>6, SegmentsOf
<1>9. Lists(found, Segments(raw, ms))
  BY <1>8, FileOrderedLists
<1> HIDE DEF found
<1>10. Range(found) = Segments(raw, ms)
  BY <1>9, ListedLength
<1>11. \A c \in Range(found) : order[c] \in Int
  <2> SUFFICES ASSUME NEW c \in Range(found) PROVE order[c] \in Int
    OBVIOUS
  <2>1. \E i \in DOMAIN found : found[i] = c
    BY DEF Range
  <2>2. Position(found, c) \in DOMAIN found
    BY <2>1 DEF Position
  <2>3. Position(found, c) \in Int
    BY <1>9, <2>2 DEF Lists
  <2> QED BY <1>2, <2>3 DEF order
<1>12. Lists(inv, Segments(raw, ms))
  BY <1>7, <1>8, <1>10, <1>11, OrderedLists
<1> HIDE DEF act
<1>13. /\ Built(u).files = files /\ Built(u).raw = raw /\ Built(u).inventory = inv
       /\ Built(u).chapters = act
  BY <1>1
<1> QED BY <1>4, <1>5, <1>6, <1>12, <1>13 DEF Book, ms, act

LEMMA PatchedBook ==
    ASSUME NEW r, DOMAIN r = DraftFields, Book(r), NEW files, DOMAIN files = DOMAIN r.files,
           NEW moves, \A c \in DOMAIN moves : moves[c] \in Int
    PROVE  Book(Patched(r, files, moves))
<1> DEFINE places == Places(r.inventory, moves)
           kept == Ordered(Range(r.inventory), places)
           new  == {p \in Manuscripts(files) : \A c \in Range(kept) : c[1] # p}
           more == Discovered(files, kept, r.raw)
           inv  == kept \o more
           act  == ActiveChapters(files, inv)
           rev  == r.rev + 1
           later == Patched(r, files, moves)
<1>1. later = [r EXCEPT !.rev = rev, !.files = files, !.inventory = inv, !.chapters = act]
  BY DEF Patched
<1>2. more = FileOrdered(Segments(r.raw, new))
  BY DEF Discovered
<1>3. PICK ps \in SUBSET DOMAIN r.files :
         Manuscripts(r.files) \subseteq ps /\ Lists(r.inventory, Segments(r.raw, ps))
  BY DEF Book
<1>4. Range(r.inventory) = Segments(r.raw, ps)
  BY <1>3, ListedLength
<1>5. /\ \A c : c \in Segments(r.raw, ps) <=> \E p \in ps : \E i \in 1..r.raw[p] : c = <<p, i>>
      /\ Segments(r.raw, ps) \subseteq Nat \X Nat
      /\ IsFiniteSet(Segments(r.raw, ps))
  BY FilesOf
<1>6. \A c \in Range(r.inventory) : places[c] \in Int
  <2> SUFFICES ASSUME NEW c \in Range(r.inventory) PROVE places[c] \in Int
    OBVIOUS
  <2>1. \E i \in DOMAIN r.inventory : r.inventory[i] = c
    BY DEF Range
  <2>2. Position(r.inventory, c) \in DOMAIN r.inventory
    BY <2>1 DEF Position
  <2>3. Position(r.inventory, c) \in Int
    BY <1>3, <2>2 DEF Lists
  <2> QED BY <2>3 DEF Places
<1> HIDE DEF places
<1>7. Lists(kept, Segments(r.raw, ps))
  BY <1>4, <1>5, <1>6, OrderedLists
<1> HIDE DEF kept
<1>8. Range(kept) = Segments(r.raw, ps)
  BY <1>7, ListedLength
<1>9. new \in SUBSET DOMAIN r.files
  BY DEF Manuscripts
<1> HIDE DEF more
<1>10. /\ \A c : c \in Segments(r.raw, new) <=> \E p \in new : \E i \in 1..r.raw[p] : c = <<p, i>>
       /\ Segments(r.raw, new) \subseteq Nat \X Nat
       /\ IsFiniteSet(Segments(r.raw, new))
  <2> HIDE DEF new
  <2> QED BY <1>9, FilesOf
<1>11. Lists(more, Segments(r.raw, new))
  BY <1>2, <1>10, FileOrderedLists
<1>12. Segments(r.raw, ps) \cap Segments(r.raw, new) = {}
  <2> SUFFICES ASSUME NEW c \in Segments(r.raw, ps), NEW p \in new, c[1] = p PROVE FALSE
    BY <1>10
  <2> QED BY <1>8
<1> DEFINE qs == ps \cup new
<1>13. Segments(r.raw, qs) = Segments(r.raw, ps) \cup Segments(r.raw, new)
  BY DEF Segments
<1>14. Lists(inv, Segments(r.raw, qs))
  BY <1>7, <1>11, <1>12, <1>13, ListsBoth
<1>15. Manuscripts(files) \subseteq qs
  <2> SUFFICES ASSUME NEW p \in Manuscripts(files), p \notin new PROVE p \in ps
    OBVIOUS
  <2>1. PICK c \in Range(kept) : c[1] = p
    OBVIOUS
  <2> QED BY <1>5, <1>8, <2>1
<1> HIDE DEF inv, act, rev
<1>16. /\ later.files = files /\ later.raw = r.raw /\ later.inventory = inv
       /\ later.chapters = act
  BY <1>1 DEF DraftFields
<1>17. qs \in SUBSET DOMAIN files
  BY <1>3, <1>9
<1> HIDE DEF qs, later, new
<1>18. /\ IsFiniteSet(DOMAIN files) /\ DOMAIN files \subseteq Nat
       /\ \A p \in DOMAIN files : r.raw[p] \in Nat
  BY DEF Book
<1>19. Book(later)
  BY <1>14, <1>15, <1>16, <1>17, <1>18 DEF Book, act
<1> QED BY <1>19 DEF later

(* The upload under way is one the author may send. *)
Uploaded ==
    \A d \in Drafts :
        request[d].at \in {"rooted", "receiving", "building"} =>
            DOMAIN request[d] = {"at", "upload"} /\ request[d].upload \in Uploads

Books == \A d \in Drafts : Stored(d) => Book(drafts[d])

BInv == Uploaded /\ Books

LEMMA BookSame ==
    ASSUME NEW r, Book(r), NEW q, q.raw = r.raw, q.files = r.files,
           q.inventory = r.inventory, q.chapters = r.chapters
    PROVE  Book(q)
  BY DEF Book

(* The order a page sends back is one of numbers. *)
LEMMA ShownNumbers ==
    ASSUME NEW r, Book(r), NEW chapters \in SetToSeqs(Range(r.chapters))
    PROVE  \A c \in DOMAIN Shown(chapters) : Shown(chapters)[c] \in Int
<1> DEFINE S == Range(r.chapters)
<1>1. IsFiniteSet(S)
  BY BookComplete
<1>2. chapters \in [1..Cardinality(S) -> S]
  BY DEF SetToSeqs
<1>3. Cardinality(S) \in Nat
  BY <1>1, FS_CardinalityType
<1> HIDE DEF S
<1>4. ASSUME NEW c \in DOMAIN Shown(chapters) PROVE Shown(chapters)[c] \in Int
  <2>1. c \in Range(chapters)
    BY DEF Shown
  <2>2. \E i \in DOMAIN chapters : chapters[i] = c
    BY <2>1 DEF Range
  <2>3. Position(chapters, c) \in DOMAIN chapters
    BY <2>2 DEF Position
  <2>4. Position(chapters, c) \in Int
    BY <1>2, <1>3, <2>3
  <2> QED BY <2>1, <2>4 DEF Shown
<1> QED BY <1>4

LEMMA PatchedStepBook ==
    ASSUME IInv, NEW d \in Drafts, Stored(d), Book(drafts[d]),
           PatchBook(d) \/ PatchContinuation(d)
    PROVE  Book(drafts'[d])
<1> DEFINE r == drafts[d]
<1>1. DOMAIN r = DraftFields /\ DOMAIN drafts = Drafts
  BY DEF IInv, Typed, DraftsOK, DraftOK
<1>2. CASE PatchBook(d)
  <2>1. PICK files \in FileChoices(r), chapters \in SetToSeqs(Range(r.chapters)) :
           Rewrite(d, Patched(r, files, Shown(chapters)))
    BY <1>2 DEF PatchBook
  <2> DEFINE moves == Shown(chapters)
             q == Patched(r, files, moves)
  <2>2. drafts' = [drafts EXCEPT ![d] = q]
    BY <2>1 DEF Rewrite
  <2>3. DOMAIN files = DOMAIN r.files
    BY <2>1 DEF FileChoices
  <2>4. \A c \in DOMAIN moves : moves[c] \in Int
    BY <2>1, ShownNumbers
  <2> HIDE DEF moves
  <2>5. Book(q)
    <3> HIDE DEF r
    <3>1. Book(r)
      BY DEF r
    <3> QED BY <1>1, <2>3, <2>4, <3>1, PatchedBook
  <2> HIDE DEF q
  <2>6. drafts'[d] = q
    BY <1>1, <2>2
  <2> QED BY <2>5, <2>6
<1>3. CASE PatchContinuation(d)
  <2> DEFINE q == Patched(r, r.files, None)
  <2>1. PICK through, current : drafts' = [drafts EXCEPT ![d] =
            [q EXCEPT !.confirmed = TRUE, !.through = through, !.current = current]]
    BY <1>3 DEF PatchContinuation, Rewrite
  <2> DEFINE s == [q EXCEPT !.confirmed = TRUE, !.through = through, !.current = current]
  <2>2. drafts' = [drafts EXCEPT ![d] = s]
    BY <2>1
  <2>3. Book(q) /\ DOMAIN q = DraftFields
    <3> HIDE DEF r
    <3>1. Book(r)
      BY DEF r
    <3> DEFINE files == r.files
               moves == None
    <3>2. \A c \in DOMAIN moves : moves[c] \in Int
      BY DEF None
    <3>3. DOMAIN files = DOMAIN r.files
      OBVIOUS
    <3> HIDE DEF moves, files
    <3>4. Book(Patched(r, files, moves)) /\ DOMAIN Patched(r, files, moves) = DraftFields
      BY <1>1, <3>1, <3>2, <3>3, PatchedBook, PatchedFields
    <3> QED BY <3>4 DEF files, moves
  <2> HIDE DEF q
  <2>4. s.raw = q.raw /\ s.files = q.files /\ s.inventory = q.inventory /\ s.chapters = q.chapters
    BY <2>3 DEF DraftFields
  <2> HIDE DEF s
  <2>5. drafts'[d] = s /\ Book(s)
    BY <1>1, <2>2, <2>3, <2>4, BookSame
  <2> QED BY <2>5
<1> QED BY <1>2, <1>3

(* What one request or patch does to the draft it is about. *)
BookStep(d) ==
    /\ drafts'[d].on = "stored" => Book(drafts'[d])
    /\ request'[d].at \in {"rooted", "receiving", "building"} =>
          DOMAIN request'[d] = {"at", "upload"} /\ request'[d].upload \in Uploads

LEMMA BookSteps ==
    ASSUME IInv, BInv, NEW d \in Drafts,
           \/ Receive(d) \/ MakeDirectory(d) \/ Begin(d) \/ Store(d) \/ Refuse(d) \/ Leave(d)
           \/ PatchBook(d) \/ PatchContinuation(d) \/ Discard(d) \/ RemoveTombstone(d)
    PROVE  BookStep(d)
<1>1. /\ DOMAIN drafts = Drafts /\ DOMAIN request = Drafts
      /\ drafts[d].on = "stored" => Book(drafts[d])
      /\ request[d].at \in {"rooted", "receiving", "building"} =>
            DOMAIN request[d] = {"at", "upload"} /\ request[d].upload \in Uploads
  BY DEF IInv, Typed, BInv, Books, Uploaded, Stored
<1>2. CASE Receive(d)
  <2>1. PICK u \in Uploads : request' = [request EXCEPT ![d] = [at |-> "rooted", upload |-> u]]
    BY <1>2 DEF Receive
  <2> QED BY <1>1, <1>2, <2>1 DEF Receive, BookStep
<1>3. CASE MakeDirectory(d)
  BY <1>1, <1>3 DEF MakeDirectory, At, Move, Idle, BookStep
<1>4. CASE Begin(d)
  BY <1>1, <1>4 DEF Begin, At, Move, Partial, BookStep
<1>5. CASE Store(d)
  <2> DEFINE u == request[d].upload
             q == Built(u)
  <2>1. u \in Uploads
    BY <1>1, <1>5 DEF Store, At
  <2>2. drafts' = [drafts EXCEPT ![d] = q] /\ request'[d].at = "leaving"
    BY <1>1, <1>5 DEF Store, At, Move
  <2> HIDE DEF u
  <2>3. Book(q)
    BY <2>1, BuiltBook
  <2> HIDE DEF q
  <2> QED BY <1>1, <2>2, <2>3 DEF BookStep
<1>6. CASE Refuse(d)
  BY <1>1, <1>6 DEF Refuse, Move, Removed, Absent, BookStep
<1>7. CASE Leave(d)
  BY <1>1, <1>7 DEF Leave, Idle, BookStep
<1>8. CASE PatchBook(d) \/ PatchContinuation(d)
  <2>1. Stored(d) /\ request' = request
    BY <1>8 DEF PatchBook, PatchContinuation, Editable, Rewrite
  <2>2. Book(drafts'[d])
    BY <1>1, <1>8, <2>1, PatchedStepBook DEF Stored
  <2> QED BY <1>1, <2>1, <2>2 DEF BookStep
<1>9. CASE Discard(d)
  BY <1>1, <1>9 DEF Discard, Absent, BookStep
<1>10. CASE RemoveTombstone(d)
  BY <1>1, <1>10 DEF RemoveTombstone, BookStep
<1> QED BY <1>2, <1>3, <1>4, <1>5, <1>6, <1>7, <1>8, <1>9, <1>10

LEMMA DraftNextBooks == ASSUME IInv, BInv, DraftNext PROVE BInv'
<1>1. PICK d \in Drafts :
         \/ Receive(d) \/ MakeDirectory(d) \/ Begin(d) \/ Store(d) \/ Refuse(d) \/ Leave(d)
         \/ PatchBook(d) \/ PatchContinuation(d) \/ Discard(d) \/ RemoveTombstone(d)
  BY DEF DraftNext
<1>2. DraftStep(d) /\ BookStep(d)
  BY <1>1, DraftSteps, BookSteps
<1>3. \A e \in Drafts \ {d} : drafts'[e] = drafts[e] /\ request'[e] = request[e]
  BY <1>2 DEF DraftStep
<1>4. Uploaded'
  <2> SUFFICES ASSUME NEW e \in Drafts, request'[e].at \in {"rooted", "receiving", "building"}
               PROVE DOMAIN request'[e] = {"at", "upload"} /\ request'[e].upload \in Uploads
    BY DEF Uploaded
  <2> QED BY <1>2, <1>3 DEF BookStep, BInv, Uploaded
<1>5. Books'
  <2> SUFFICES ASSUME NEW e \in Drafts, drafts'[e].on = "stored" PROVE Book(drafts'[e])
    BY DEF Books, Stored
  <2> QED BY <1>2, <1>3 DEF BookStep, BInv, Books, Stored
<1> QED BY <1>4, <1>5 DEF BInv

LEMMA SameBooks == ASSUME BInv, UNCHANGED <<drafts, request>> PROVE BInv'
  BY DEF BInv, Books, Uploaded, Stored

LEMMA FreezeBooks == ASSUME IInv, BInv, NEW p \in Projects, Freeze(p) PROVE BInv'
<1>1. request' = request /\ drafts' = Frozen(p) /\ work.project = p /\ work # NoWork
  BY DEF Freeze, Step, NoWork
<1>2. CASE work.by # "import"
  BY <1>1, <1>2, SameBooks DEF Frozen
<1>3. CASE work.by = "import"
  <2> DEFINE h == <<work.dir[1].holds>>
  <2>1. drafts' = [drafts EXCEPT ![p] = [drafts[p] EXCEPT !.frozen = h]]
    BY <1>1, <1>3 DEF Frozen
  <2> HIDE DEF h
  <2>2. p \in Drafts /\ Stored(p) /\ DOMAIN drafts[p] = DraftFields /\ DOMAIN drafts = Drafts
    BY <1>1, <1>3 DEF IInv, Positions, Typed, DraftsOK, DraftOK
  <2> DEFINE q == [drafts[p] EXCEPT !.frozen = h]
  <2>3. /\ q.raw = drafts[p].raw /\ q.files = drafts[p].files
        /\ q.inventory = drafts[p].inventory /\ q.chapters = drafts[p].chapters
    BY <2>2 DEF DraftFields
  <2>4. drafts'[p] = q /\ \A d \in Drafts \ {p} : drafts'[d] = drafts[d]
    BY <2>1, <2>2
  <2> HIDE DEF q
  <2>5. Book(q)
    BY <2>2, <2>3, BookSame DEF BInv, Books
  <2>6. Books'
    <3> SUFFICES ASSUME NEW d \in Drafts, drafts'[d].on = "stored" PROVE Book(drafts'[d])
      BY DEF Books, Stored
    <3> QED BY <2>4, <2>5 DEF BInv, Books, Stored
  <2> QED BY <1>1, <2>6 DEF BInv, Uploaded
<1> QED BY <1>2, <1>3

LEMMA CrashBooks == ASSUME IInv, BInv, Crash PROVE BInv'
<1>1. /\ drafts' = drafts
      /\ request' = [d \in Drafts |-> IF request[d].at = "none" THEN Idle ELSE [at |-> "done"]]
  BY DEF Crash, Restart
<1>2. Books'
  BY <1>1 DEF BInv, Books, Stored
<1>3. Uploaded'
  <2>1. \A d \in Drafts : request'[d].at \in {"none", "done"}
    BY <1>1 DEF Idle
  <2> QED BY <2>1 DEF Uploaded
<1> QED BY <1>2, <1>3 DEF BInv

LEMMA NextBooks == IInv /\ BInv /\ [Next]_vars => BInv'
<1> SUFFICES ASSUME IInv, BInv, [Next]_vars PROVE BInv'
  OBVIOUS
<1>1. CASE UNCHANGED vars
  BY <1>1, SameBooks DEF vars, draftVars
<1>2. CASE DraftNext
  BY <1>2, DraftNextBooks
<1>3. ASSUME NEW p \in Projects, Creation(p) PROVE BInv'
  <2>1. CASE Freeze(p)
    BY <2>1, FreezeBooks
  <2>2. CASE ~Freeze(p)
    <3>1. UNCHANGED <<drafts, request>>
      BY <1>3, <2>2 DEF Creation, Enter, Fill, Publish, FailAside, FreezeFails, Register,
                         RegisterFails, draftVars
    <3> QED BY <3>1, SameBooks
  <2> QED BY <2>1, <2>2
<1>4. CASE \/ \E d \in Drafts : Commit(d)
           \/ \E a \in Archives : Restore(a)
           \/ \E p \in NewProjects : CreateProject(p)
  <2>1. UNCHANGED <<drafts, request>>
    BY <1>4 DEF Commit, Restore, CreateProject, Start
  <2> QED BY <2>1, SameBooks
<1>5. CASE Crash
  BY <1>5, CrashBooks
<1> QED BY <1>1, <1>2, <1>3, <1>4, <1>5 DEF Next

LEMMA InitBooks == VaultInit => BInv
  BY DEF VaultInit, Init, BInv, Books, Uploaded, Stored, Absent, Idle

-----------------------------------------------------------------------------
(* A project made from a draft is registered only with the draft frozen,   *)
(* for ever (commit_draft, freeze_draft, update, discard), and a creation   *)
(* past its entrance works on a project without a row.                      *)
THEOREM VaultInvariant == Spec => []IInv
<1>1. IInv /\ [Next]_vars => IInv'
  BY NextGoal DEF Goal
<1> QED BY InitIInv, <1>1, PTL DEF Spec

(* A registered project stays registered and its directory in place,        *)
(* whatever fails, dies or is repeated (db/vault.py, import_commit.py).      *)
THEOREM RegisteredStays == Spec => NeverTakenBack
<1>1. IInv /\ [Next]_vars =>
        [\A p \in Projects : registry[p] => registry'[p] /\ final'[p] = final[p] /\ final[p] # None]_vars
  BY NextGoal DEF Goal, Kept, IInv, Rows
<1> QED BY VaultInvariant, <1>1, PTL DEF Spec, NeverTakenBack

(* A frozen draft, its fingerprint and the directory of its project say the *)
(* same, and a registered import has its draft frozen: whatever failed or   *)
(* died in between, commit_draft can be repeated (import_commit.py).        *)
THEOREM FrozenDraftsAgree == Spec => []FrozenAgrees
<1>1. IInv /\ AInv => FrozenAgrees
  BY DEF IInv, AInv, Sealed, Agree, FrozenDraft, FrozenAgrees
<1>2. Spec => [](IInv /\ AInv)
  <2>1. VaultInit => IInv /\ AInv
    BY InitIInv, InitAInv
  <2>2. (IInv /\ AInv) /\ [Next]_vars => (IInv /\ AInv)'
    BY NextGoal, NextAgrees DEF Goal
  <2> QED BY <2>1, <2>2, PTL DEF Spec
<1> QED BY <1>1, <1>2, PTL

(* A draft shows the chapters of the files the author has chosen as         *)
(* manuscripts, each once, whatever was excluded, brought back, reclassified *)
(* or moved before (_build_record_from_paths, update, _active_chapters).    *)
THEOREM ChaptersAreComplete == Spec => []ChaptersComplete
<1>1. BInv => ChaptersComplete
  BY BookComplete DEF BInv, Books, ChaptersComplete
<1>2. Spec => [](IInv /\ BInv)
  <2>1. VaultInit => IInv /\ BInv
    BY InitIInv, InitBooks
  <2>2. (IInv /\ BInv) /\ [Next]_vars => (IInv /\ BInv)'
    BY NextGoal, NextBooks DEF Goal
  <2> QED BY <2>1, <2>2, PTL DEF Spec
<1> QED BY <1>1, <1>2, PTL
=============================================================================
