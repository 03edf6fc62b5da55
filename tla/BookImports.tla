------------------------------ MODULE BookImports ------------------------------
(***************************************************************************)
(* How a project comes into being (db/vault.py): from a draft              *)
(* (import_commit.py), from a backup (backup_restore.py) or empty.  A      *)
(* directory is filled aside, renamed to its place and then registered;    *)
(* the draft of an import is frozen between the last two.  The registry's  *)
(* lock lets one creation run at a time; the program may stop after any    *)
(* step of it, and a creation that finds the directory in place goes on    *)
(* from there.                                                             *)
(*                                                                         *)
(* Abstracted: the imported texts are those of the draft's raw files, an   *)
(* equal graph is an equal fingerprint, and a project is not edited.       *)
(***************************************************************************)
EXTENDS ImportDrafts

CONSTANTS Archives,    \* the backup files the author may restore
          NewProjects, \* ids of empty projects
          MaxStarts, MaxCrashes \* bounds: creations begun, process deaths

ASSUME BookImportsAssumption ==
    /\ {MaxStarts, MaxCrashes} \subseteq Nat
    /\ Drafts \intersect (NewProjects \union {a.project : a \in Archives}) = {}

VARIABLES registry, \* which projects have a row in project_registry
          final,    \* the directory of each project: what it holds and its receipt
          creating, \* its .creating directory
          work,     \* the creation under way
          starts, crashes  \* counters of the bounds

vaultVars == <<registry, final, creating, work, starts, crashes>>
bounds    == <<starts, crashes>>
vars      == <<draftVars, vaultVars>>

Projects == Drafts \union NewProjects \union {a.project : a \in Archives}  \* a draft's is derived from its id
NoWork   == [at |-> "none"]
Blank    == [files |-> {"project.db"}, work |-> {}]

(* -- What an import builds ------------------------------------------------- *)

Chosen(r) == {p \in DOMAIN r.files : r.files[p].selected}

SourcesConfirmed(r) == r.confirmed /\ Chosen(r) \intersect Manuscripts(r.files) # {}

ChaptersValid(r) ==
    LET ps == Chosen(r) \intersect Manuscripts(r.files)
    IN /\ Len(r.chapters) = Cardinality(Range(r.chapters))
       /\ Range(r.chapters) = Segments(r.raw, ps)
       /\ Range(r.chapters) \subseteq Range(r.inventory)

Boundary(r, c) == IF c = None THEN 0 ELSE Position(r.chapters, c)

ContinuationValid(r) ==
    /\ {r.through, r.current} \subseteq Range(r.chapters) \union {None}
    /\ r.through # None /\ r.current # None => Boundary(r, r.through) <= Boundary(r, r.current)

NodeStatus(r, i) ==
    CASE i = Boundary(r, r.current)  -> "drafting"
      [] i # Boundary(r, r.current) /\ i <= Boundary(r, r.through) -> "completed"
      [] OTHER -> "planned"

ExpectedNodes(r) ==
    [i \in DOMAIN r.chapters |-> [chapter |-> r.chapters[i], status |-> NodeStatus(r, i)]]

(* A source is tied to a chapter if it holds no other. *)
ExpectedSources(r) ==
    {[path |-> p, category |-> r.files[p].category,
      chapters |-> {c \in Range(r.chapters) : c[1] = p /\ r.raw[p] = 1}] : p \in Chosen(r)}

ExpectedUnits(r) ==
    {<<"source_memory", p>> : p \in Chosen(r)}
    \union {<<"summary_map", r.chapters[i]>> :
                i \in {j \in DOMAIN r.chapters : NodeStatus(r, j) = "completed"}}

Graph(r) ==
    [nodes |-> ExpectedNodes(r), sources |-> ExpectedSources(r), units |-> ExpectedUnits(r),
     files |-> r.files, boundary |-> <<r.through, r.current>>]

(* -- What a backup holds ---------------------------------------------------- *)

DatabaseSound(a) ==
    /\ a.integrity
    /\ a.owners = {a.project}
    /\ a.assets \union a.sources \subseteq a.files

ArchiveSound(a) ==
    /\ a.distinct
    /\ a.listed # None => a.listed[1] = a.files
    /\ {"project.db", "project.json"} \subseteq a.files
    /\ DatabaseSound(a)
    /\ a.described = a.project

(* No job of the backup goes on by itself. *)
Held(status) ==
    IF status \in {"queued", "running", "cancel_requested"} THEN "recovery_required"
    ELSE IF status = "analyzing" THEN "paused" ELSE status

Populated(a) == [files |-> {"project.db"} \union a.assets \union a.sources,
                 work |-> {Held(s) : s \in a.work}]

(* -- The steps of a creation ------------------------------------------------ *)

Dir(holds, receipt) == <<[holds |-> holds, receipt |-> receipt, whole |-> TRUE]>>

Unfilled(dir) == <<[dir[1] EXCEPT !.whole = FALSE]>>

Begun(by, p, holds, receipt) ==
    [at |-> "entering", by |-> by, project |-> p, dir |-> Dir(holds, receipt), found |-> FALSE]

Step(at) == work.at = at

GoTo(at) == work' = [work EXCEPT !.at = at]

End == work' = NoWork /\ locks' = locks \ {work.project}

(* An existing directory is accepted if it is what would be built: by the    *)
(* check of every row and file for an import, by its receipt for a backup.   *)
SameReceipt(dir) == dir[1].receipt # None /\ dir[1].receipt = work.dir[1].receipt

SameNodes(found, built) == found.files = built.files /\ found.nodes = built.nodes

SameSources(found, built) ==
    found.sources = built.sources /\ found.boundary = built.boundary /\ found.units = built.units

SameImport(dir) ==
    SameNodes(dir[1].holds, work.dir[1].holds) /\ SameSources(dir[1].holds, work.dir[1].holds)

ExistingAccepted(dir) ==
    IF work.by = "restore" THEN SameReceipt(dir) ELSE work.by = "import" /\ SameImport(dir)

Cleaned(p) == [creating EXCEPT ![p] = None]

AlreadyThere(p) == work.by = "restore" /\ registry[p]

Enter(p) ==
    /\ Step("entering") /\ work.project = p
    /\ IF AlreadyThere(p)
       THEN End /\ UNCHANGED creating
       ELSE /\ creating' = IF final[p] = None THEN [creating EXCEPT ![p] = Unfilled(work.dir)]
                           ELSE Cleaned(p)
            /\ IF final[p] = None
               THEN GoTo("filling") /\ UNCHANGED locks
               ELSE IF ExistingAccepted(final[p])
               THEN /\ work' = [work EXCEPT !.found = TRUE,
                                            !.at = IF work.by = "restore" THEN "registering" ELSE "freezing"]
                    /\ UNCHANGED locks
               ELSE End
    /\ UNCHANGED <<drafts, request, staged, root, tombs, registry, final, bounds>>

(* The database, its rows and the copies of the sources are written aside. *)
Fill(p) ==
    /\ Step("filling") /\ work.project = p
    /\ creating' = [creating EXCEPT ![p] = work.dir]
    /\ GoTo("publishing")
    /\ UNCHANGED <<draftVars, registry, final, bounds>>

Publish(p) ==
    /\ Step("publishing") /\ work.project = p
    /\ final' = [final EXCEPT ![p] = creating[p]]
    /\ creating' = Cleaned(p)
    /\ GoTo(IF work.by = "restore" THEN "registering" ELSE "freezing")
    /\ UNCHANGED <<draftVars, registry, bounds>>

FailAside(p) ==
    /\ Step("filling") \/ Step("publishing")
    /\ work.project = p
    /\ creating' = Cleaned(p)
    /\ End
    /\ UNCHANGED <<drafts, request, staged, root, tombs, registry, final, bounds>>

(* before_register: the draft of an import is frozen; an empty project has   *)
(* nothing to freeze.                                                        *)
Frozen(p) == IF work.by = "import" THEN [drafts EXCEPT ![p].frozen = <<work.dir[1].holds>>] ELSE drafts

Freeze(p) ==
    /\ Step("freezing") /\ work.project = p
    /\ drafts' = Frozen(p)
    /\ GoTo("registering")
    /\ UNCHANGED <<request, staged, root, tombs, locks, registry, final, creating, bounds>>

(* The directory does not open, or the draft cannot be written.  A directory *)
(* this creation has put in place is removed, one it has found only when the *)
(* draft fails.                                                              *)
FreezeFails(p) ==
    /\ Step("freezing") /\ work.project = p
    /\ \E keep \in {work.found, work.found /\ work.by = "import" /\ drafts[p].frozen # None} :
        final' = [final EXCEPT ![p] = IF keep THEN @ ELSE None]
    /\ End
    /\ UNCHANGED <<drafts, request, staged, root, tombs, registry, creating, bounds>>

Register(p) ==
    /\ Step("registering") /\ work.project = p
    /\ registry' = [registry EXCEPT ![p] = TRUE]
    /\ End
    /\ UNCHANGED <<drafts, request, staged, root, tombs, final, creating, bounds>>

(* The row may be there although the insert was reported as failed.  Only a  *)
(* restore takes back the directory it has put in place.                     *)
WithdrawnAnyway(p, row) ==  \* mutant
    IF work.by = "restore" /\ ~work.found THEN None ELSE final[p]

Withdrawn(p, row) ==
    IF work.by = "restore" /\ ~work.found /\ ~row THEN None ELSE final[p]

RegisterFails(p) ==
    /\ Step("registering") /\ work.project = p
    /\ \E row \in BOOLEAN :
        /\ registry' = [registry EXCEPT ![p] = @ \/ row]
        /\ final' = [final EXCEPT ![p] = Withdrawn(p, row \/ registry[p])]
    /\ End
    /\ UNCHANGED <<drafts, request, staged, root, tombs, creating, bounds>>

(* -- What starts a creation ------------------------------------------------- *)

Start(by, p, holds, receipt) ==
    /\ work = NoWork /\ starts < MaxStarts
    /\ work' = Begun(by, p, holds, receipt) /\ starts' = starts + 1
    /\ UNCHANGED <<drafts, request, staged, root, tombs, registry, final, creating, crashes>>

(* A draft of the revision the author confirmed; one whose project is there  *)
(* already is only answered.                                                 *)
Replayed(d) == drafts[d].frozen # None /\ registry[d]

Commit(d) ==
    /\ Stored(d) /\ Unlocked(d) /\ ~Replayed(d)
    /\ SourcesConfirmed(drafts[d]) /\ ChaptersValid(drafts[d]) /\ ContinuationValid(drafts[d])
    /\ Start("import", d, Graph(drafts[d]), None)
    /\ locks' = locks \union {d}

(* The file is checked again: it must be the one the author was shown. *)
Restore(a) ==
    /\ ArchiveSound(a)
    /\ Start("restore", a.project, Populated(a), <<a.hash>>)
    /\ UNCHANGED locks

CreateProject(p) ==
    /\ ~registry[p] /\ final[p] = None /\ creating[p] = None  \* a new id
    /\ Start("new", p, Blank, None)
    /\ UNCHANGED locks

Crash ==
    /\ crashes < MaxCrashes /\ crashes' = crashes + 1
    /\ Restart
    /\ work' = NoWork
    /\ UNCHANGED <<registry, final, creating, starts>>

VaultInit ==
    /\ Init
    /\ registry = [p \in Projects |-> FALSE]
    /\ final = [p \in Projects |-> None] /\ creating = [p \in Projects |-> None]
    /\ work = NoWork /\ starts = 0 /\ crashes = 0

Creation(p) ==
    \/ Enter(p) \/ Fill(p) \/ Publish(p) \/ FailAside(p) \/ Freeze(p) \/ FreezeFails(p)
    \/ Register(p) \/ RegisterFails(p)

Next ==
    \/ DraftNext /\ UNCHANGED vaultVars
    \/ \E p \in Projects : Creation(p)
    \/ \E d \in Drafts : Commit(d)
    \/ \E a \in Archives : Restore(a)
    \/ \E p \in NewProjects : CreateProject(p)
    \/ Crash

Spec == VaultInit /\ [][Next]_vars

(* -- Properties ------------------------------------------------------------- *)

(* An open project is one the registry lists and whose directory is there. *)
Openable(p) == registry[p] /\ final[p] # None

(* The chapters of a draft are those of the files the author has chosen as   *)
(* manuscripts, each once, whatever was excluded, brought back, reclassified *)
(* or moved before: update never loses or doubles a part of the book.        *)
ChaptersComplete ==
    \A d \in Drafts : Stored(d) =>
        LET r == drafts[d] IN
        /\ Range(r.chapters) = Segments(r.raw, Chosen(r) \intersect Manuscripts(r.files))
        /\ Len(r.chapters) = Cardinality(Range(r.chapters))

(* A project made from a draft is registered only with the draft frozen, and *)
(* a frozen draft, its fingerprint and the directory in place say the same:  *)
(* whatever failed or died in between, the same commit can be repeated.      *)
FrozenAgrees ==
    \A d \in Drafts :
        /\ registry[d] => Stored(d) /\ drafts[d].frozen # None
        /\ Stored(d) /\ drafts[d].frozen # None =>
              /\ drafts[d].frozen = <<Graph(drafts[d])>>
              /\ final[d] = Dir(Graph(drafts[d]), None)

(* A registered project stays registered and its directory in place: no      *)
(* creation, failed or repeated, and no restore removes or replaces it.      *)
NeverTakenBack ==
    [][\A p \in Projects : registry[p] => registry'[p] /\ final'[p] = final[p] /\ final[p] # None]_vars
=============================================================================
