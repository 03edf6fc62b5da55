----------------------------- MODULE ImportDrafts -----------------------------
(***************************************************************************)
(* Drafts of books to import (import_drafts.py and its routes): uploads    *)
(* staged and checked, the draft built from them, the author's patches and *)
(* the discarding of a draft.  A draft is one directory with one JSON file *)
(* that is replaced atomically; requests for it hold its lifecycle lock.   *)
(*                                                                         *)
(* Abstracted: a path is its rank among the casefolded paths, 0 if it is   *)
(* refused; a text is what is found in it, its category and its number of  *)
(* chapters; titles, warnings, previews and the two creation methods that  *)
(* no route calls are left out.                                            *)
(***************************************************************************)
EXTENDS Integers, Sequences, FiniteSets, SequencesExt

CONSTANTS Drafts,        \* ids of drafts
          Uploads,       \* what the author may send
          MaxFiles, MaxFileSize, MaxTotalSize, MaxRatio, MaxChapters, \* ImportLimits
          MaxRevision    \* bound: revisions of a draft

ASSUME ImportDraftsAssumption ==
    /\ {MaxFiles, MaxFileSize, MaxTotalSize, MaxRatio, MaxChapters, MaxRevision} \subseteq Nat \ {0}
    /\ MaxFileSize <= MaxTotalSize
    /\ \A u \in Uploads :
        /\ IsFiniteSet(DOMAIN u.entries)
        /\ \A i \in DOMAIN u.entries : u.entries[i].path \in Nat /\ u.entries[i].parts \in Nat
        /\ \A c \in DOMAIN u.chapters : u.chapters[c] \in Int

VARIABLES drafts,   \* the directory of each draft: absent, without its JSON, or the JSON
          request,  \* the upload under way for each draft
          staged,   \* drafts whose upload has its directory below .uploads
          root,     \* .uploads exists
          tombs,    \* discarded directories not removed yet
          locks     \* drafts whose lifecycle lock is held by a commit

draftVars == <<drafts, request, staged, root, tombs, locks>>

None    == <<>>                  \* no chapter, no fingerprint
Absent  == [on |-> "absent"]
Partial == [on |-> "partial"]    \* raw/ without draft.json
Idle    == [at |-> "none"]

Chapter(p, i) == <<p, i>>  \* the i-th segment of file p

(* -- What an upload must satisfy ----------------------------------------- *)

SafePath(e) == e.path > 0

DistinctPaths(es) == \A i, j \in DOMAIN es : es[i].path = es[j].path => i = j

SizeOf(es, field) == FoldLeft(LAMBDA n, e : n + e[field], 0, es)

IsFile(e) == e.kind # "directory"

(* The central directory of an archive is refused before anything is read. *)
Prechecked(es) ==
    /\ Len(es) <= MaxFiles
    /\ \A i \in DOMAIN es :
        /\ es[i].plain /\ SafePath(es[i])
        /\ ~IsFile(es[i]) => es[i].declared = 0
        /\ es[i].declared <= MaxFileSize
        /\ es[i].declared <= MaxRatio * es[i].packed
    /\ DistinctPaths(es)
    /\ SizeOf(es, "declared") <= MaxTotalSize

(* What comes out is counted again: a directory record may lie. *)
Extracted(es) ==
    /\ \A i \in DOMAIN es : IsFile(es[i]) => es[i].size = es[i].declared /\ es[i].size <= MaxFileSize
    /\ SizeOf(es, "size") <= MaxTotalSize

Copied(es) ==
    /\ Len(es) <= MaxFiles
    /\ \A i \in DOMAIN es : SafePath(es[i]) /\ es[i].size <= MaxFileSize
    /\ DistinctPaths(es)
    /\ SizeOf(es, "size") <= MaxTotalSize

(* The route counts the bytes while it stages them. *)
Staged(u) ==
    /\ Len(u.entries) <= MaxFiles
    /\ u.kind = "folder" => /\ \A i \in DOMAIN u.entries : u.entries[i].size <= MaxFileSize
                            /\ SizeOf(u.entries, "size") <= MaxTotalSize
    /\ u.kind = "zip" => SizeOf(u.entries, "packed") <= MaxTotalSize

Sources(u) == {e \in Range(u.entries) : e.kind \in {"text", "garbled"}}

Paths(u) == {e.path : e \in Sources(u)}

Source(u, p) == CHOOSE e \in Sources(u) : e.path = p

Readable(u) == u.manifest # "broken"

Decodable(u) == \A e \in Sources(u) : e.kind = "text"

FileOverrides(u) == DOMAIN u.files \subseteq Paths(u)

ChapterOverrides(u) ==
    \A c \in DOMAIN u.chapters : c[1] \in Paths(u) /\ c[2] \in 1..Source(u, c[1]).parts

(* -- The draft ----------------------------------------------------------- *)

FileOf(u, p) ==
    [category |-> IF p \in DOMAIN u.files THEN u.files[p].category ELSE Source(u, p).guess,
     selected |-> p \in DOMAIN u.files => u.files[p].selected]

Segments(raw, ps) == UNION {{Chapter(p, i) : i \in 1..raw[p]} : p \in ps}

InFileOrder(c, d) == c[1] < d[1] \/ (c[1] = d[1] /\ c[2] < d[2])

(* The elements of a set one after the other, first the one with none before it. *)
InSequence(S, before) ==
    [i \in 1..Cardinality(S) |->
        CHOOSE x \in S : Cardinality({y \in S : <<y, x>> \in before}) = i - 1]

Ordered(cs, order) ==
    InSequence(cs, {x \in cs \X cs : \/ order[x[1]] < order[x[2]]
                                     \/ order[x[1]] = order[x[2]] /\ InFileOrder(x[1], x[2])})

FileOrdered(cs) == Ordered(cs, [c \in cs |-> 0])

Position(s, c) == CHOOSE i \in DOMAIN s : s[i] = c

(* A chapter the manifest places keeps the order it was given. *)
Inventory(u, raw, ps) ==
    LET found == FileOrdered(Segments(raw, ps))
    IN Ordered(Range(found), [c \in Range(found) |->
           IF c \in DOMAIN u.chapters THEN u.chapters[c] ELSE Position(found, c) - 1])

Manuscripts(files) == {p \in DOMAIN files : files[p].category = "manuscript"}

ActiveChapters(files, inventory) ==
    LET kept == {i \in DOMAIN inventory :
                    inventory[i][1] \in Manuscripts(files) /\ files[inventory[i][1]].selected}
        at   == InSequence(kept, {x \in kept \X kept : x[1] < x[2]})
    IN [i \in DOMAIN at |-> inventory[at[i]]]

Built(u) ==
    LET files == [p \in Paths(u) |-> FileOf(u, p)]
        raw   == [p \in Paths(u) |-> Source(u, p).parts]
        inv   == Inventory(u, raw, Manuscripts(files))
    IN [on |-> "stored", rev |-> 1, raw |-> raw, files |-> files, inventory |-> inv,
        chapters |-> ActiveChapters(files, inv),
        confirmed |-> FALSE, through |-> None, current |-> None, frozen |-> None]

Buildable(u) ==
    /\ IF u.kind = "zip" THEN Prechecked(u.entries) /\ Extracted(u.entries) ELSE Copied(u.entries)
    /\ Readable(u) /\ FileOverrides(u) /\ Decodable(u) /\ ChapterOverrides(u)
    /\ Len(Built(u).inventory) <= MaxChapters

Stored(d) == drafts[d].on = "stored"

(* -- Creating a draft: one request per id -------------------------------- *)

Init ==
    /\ drafts = [d \in Drafts |-> Absent]
    /\ request = [d \in Drafts |-> Idle]
    /\ staged = {} /\ root = FALSE /\ tombs = {} /\ locks = {}

At(d, at) == request[d].at = at

Move(d, at) == request' = [request EXCEPT ![d].at = at]

(* The root is verified or made, then the request makes its directory below *)
(* it: another request may have removed the empty root in between.          *)
Receive(d) ==
    /\ At(d, "none") /\ drafts[d] = Absent
    /\ \E u \in Uploads : request' = [request EXCEPT ![d] = [at |-> "rooted", upload |-> u]]
    /\ root' = TRUE
    /\ UNCHANGED <<drafts, staged, tombs, locks>>

MakeDirectory(d) ==
    /\ At(d, "rooted")
    /\ IF root
        THEN Move(d, "receiving") /\ staged' = staged \union {d}
        ELSE request' = [request EXCEPT ![d] = Idle] /\ UNCHANGED staged
    /\ UNCHANGED <<drafts, root, tombs, locks>>

(* The uploads are complete: the draft's directory is begun. *)
Begin(d) ==
    /\ At(d, "receiving") /\ Staged(request[d].upload)
    /\ Move(d, "building")
    /\ drafts' = [drafts EXCEPT ![d] = Partial]
    /\ UNCHANGED <<staged, root, tombs, locks>>

Store(d) ==
    /\ At(d, "building") /\ Buildable(request[d].upload)
    /\ Move(d, "leaving")
    /\ drafts' = [drafts EXCEPT ![d] = Built(request[d].upload)]
    /\ UNCHANGED <<staged, root, tombs, locks>>

Removed(d) == [drafts EXCEPT ![d] = Absent]

(* Refused, or a call failed: what was made of the draft is removed. *)
Refuse(d) ==
    /\ At(d, "receiving") \/ At(d, "building")
    /\ Move(d, "leaving")
    /\ drafts' = Removed(d)
    /\ UNCHANGED <<staged, root, tombs, locks>>

(* The finally of the route: its directory, and the root if it is empty. *)
Leave(d) ==
    /\ At(d, "leaving")
    /\ request' = [request EXCEPT ![d] = IF Stored(d) THEN [at |-> "done"] ELSE Idle]
    /\ staged' = staged \ {d}
    /\ root' = (staged \ {d} # {})
    /\ UNCHANGED <<drafts, tombs, locks>>

(* -- The author's patches -------------------------------------------------- *)

(* Chapters that the patch names take the place it gives them, the others    *)
(* keep theirs.                                                              *)
Places(inventory, moves) ==
    [c \in Range(inventory) |->
        IF c \in DOMAIN moves THEN moves[c] ELSE Position(inventory, c) - 1]

Orderable(inventory, moves) ==
    LET places == Places(inventory, moves)
    IN /\ DOMAIN moves \subseteq Range(inventory)
       /\ \A c, e \in DOMAIN places : places[c] = places[e] => c = e

(* A file that has become a manuscript is split where it has no chapters yet. *)
NoneDiscovered(files, inventory, raw) == <<>>  \* mutant

Discovered(files, inventory, raw) ==
    FileOrdered(Segments(raw, {p \in Manuscripts(files) : \A c \in Range(inventory) : c[1] # p}))

Patched(r, files, moves) ==
    LET kept == Ordered(Range(r.inventory), Places(r.inventory, moves))
        inv  == kept \o Discovered(files, kept, r.raw)
    IN [r EXCEPT !.rev = @ + 1, !.files = files, !.inventory = inv,
                 !.chapters = ActiveChapters(files, inv)]

(* The order a page sends back: the chapters it shows, numbered from zero. *)
Shown(chapters) == [c \in Range(chapters) |-> Position(chapters, c) - 1]

(* Patches and discards wait for, or are refused by, the lock of a commit. *)
Unlocked(d) == d \notin locks

(* The author edits the draft of the revision the page shows, as long as no  *)
(* commit has frozen it.                                                     *)
FrozenToo(d) == Stored(d) /\ Unlocked(d)  \* mutant

Editable(d) == Stored(d) /\ Unlocked(d) /\ drafts[d].frozen = None

Rewrite(d, r) ==
    /\ Len(r.inventory) <= MaxChapters
    /\ drafts' = [drafts EXCEPT ![d] = r]
    /\ UNCHANGED <<request, staged, root, tombs, locks>>

FileChoices(r) ==
    [DOMAIN r.files -> [category : {"manuscript", "other"}, selected : BOOLEAN]]

PatchBook(d) ==
    /\ Editable(d) /\ drafts[d].rev < MaxRevision
    /\ \E chapters \in SetToSeqs(Range(drafts[d].chapters)) :
        /\ Orderable(drafts[d].inventory, Shown(chapters))
        /\ \E files \in FileChoices(drafts[d]) :
            Rewrite(d, Patched(drafts[d], files, Shown(chapters)))

(* The boundary the author confirms; the tokens are checked by the commit. *)
PatchContinuation(d) ==
    /\ Editable(d) /\ drafts[d].rev < MaxRevision
    /\ \E through, current \in Range(drafts[d].chapters) \union {None} :
        Rewrite(d, [Patched(drafts[d], drafts[d].files, None) EXCEPT
                        !.confirmed = TRUE, !.through = through, !.current = current])

Discard(d) ==
    /\ Editable(d)
    /\ drafts' = [drafts EXCEPT ![d] = Absent]
    /\ tombs' = tombs \union {d}
    /\ UNCHANGED <<request, staged, root, locks>>

(* After the lock is released; a directory that cannot be removed waits for  *)
(* the next start.                                                           *)
RemoveTombstone(d) ==
    /\ d \in tombs /\ tombs' = tombs \ {d}
    /\ UNCHANGED <<drafts, request, staged, root, locks>>

UploadsCleaned == staged' = {} /\ root' = FALSE

TombsCleaned == tombs' = {}

(* The program stops, and its next start cleans up: a partial draft stays.   *)
Restart ==
    /\ request' = [d \in Drafts |-> IF request[d].at = "none" THEN Idle ELSE [at |-> "done"]]
    /\ UploadsCleaned /\ TombsCleaned
    /\ locks' = {}
    /\ UNCHANGED drafts

DraftNext ==
    \E d \in Drafts :
        \/ Receive(d) \/ MakeDirectory(d) \/ Begin(d) \/ Store(d) \/ Refuse(d) \/ Leave(d)
        \/ PatchBook(d) \/ PatchContinuation(d) \/ Discard(d) \/ RemoveTombstone(d)
=============================================================================
