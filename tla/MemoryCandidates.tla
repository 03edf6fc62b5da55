--------------------------- MODULE MemoryCandidates ---------------------------
(***************************************************************************)
(* What a book remembers waits for its author (memory_candidates.py):      *)
(* candidates written by a chapter's accepted draft ("generated") or by    *)
(* the analysis of an imported book ("import") are edited, rejected and    *)
(* confirmed, one by one or many at once, from pages that may be out of    *)
(* date; a confirmation writes a record of the book, a dated state of an   *)
(* entity, or an outline chapter.  Meanwhile the author works on those     *)
(* same records, chapters and sources.                                     *)
(*                                                                         *)
(* Every request runs in one transaction opened by BEGIN IMMEDIATE, so a   *)
(* request is one action; what overlaps is the reading of a page and the   *)
(* requests sent from it: a request carries any revision the candidate     *)
(* has had.                                                                *)
(*                                                                         *)
(* Abstracted: a payload has a kind and what decides a conflict (the key   *)
(* of a record, the values of a state, the chapter, revision and new place *)
(* of an outline update); its evidence goes with it, and is found in the   *)
(* source as long as the source is there.  A confirmed candidate is sealed if its  *)
(* promotion fingerprint is there; an older release left it out, which is  *)
(* modelled for imported candidates.                                       *)
(***************************************************************************)
EXTENDS EntityStates

CONSTANTS Generated, Imported,  \* the candidates of each origin, numbers
          Chapter,      \* the chapter a candidate was found in
          Cites,        \* the imported candidates that cite the chapter's version
          Offered,      \* the payload an imported candidate is born with
          Legacy,       \* imported candidates an older release may have confirmed
          Payloads,     \* bound: what a candidate may say after an edit
          Records,      \* bound: the records the author may add
          MaxRecords,   \* bound: records of the book
          MaxRevision,  \* bound: revisions of a candidate
          MaxActs       \* bound: what the author does beside answering candidates

Candidates == Generated \cup Imported
(* _CREATE_SEPARATE_KINDS, and what a generated candidate may be *)
SeparateKinds  == {"entity", "relation", "canon", "timeline", "plot", "node", "style_rule", "idea"}
GeneratedKinds == {"canon", "entity_state", "timeline", "plot"}
RecordKinds    == SeparateKinds \cup {"chapter_summary"}

ASSUME CandidatesAssumption ==
    /\ Generated \cap Imported = {} /\ Candidates \subseteq Nat \ {0}
    /\ Chapter \in [Candidates -> Nodes] /\ Offered \in [Imported -> Payloads]
    /\ Cites \subseteq Imported /\ Legacy \subseteq Imported /\ \A c \in Legacy : Offered[c].kind \in RecordKinds
    /\ \A p \in Payloads : /\ p.kind \in RecordKinds \cup {"entity_state", "node_update"}
                           /\ p.kind = "entity_state" => p.values \in StateValues
                           /\ p.kind = "node_update" =>
                                 p.node \in Nodes /\ p.place \in Nodes \cup {NoNode}
    /\ \A p \in Records : p.kind \in RecordKinds
    /\ MaxRecords \in Nat /\ MaxRevision \in Nat /\ MaxActs \in Nat

VARIABLES cand,      \* memory_candidates and generated_memory_candidates
          records,   \* the book's records, in the order they were added
          document,  \* source_documents: the imported file
          acts,      \* counter of a bound
          shown,     \* history: what each revision of a candidate said
          answer     \* history: the last confirmation answered

vars == <<stateVars, cand, records, document, acts, shown, answer>>

NoPayload == [kind |-> "none"]
NoAnswer  == [cand |-> 0, rev |-> 0, payload |-> NoPayload, separate |-> FALSE]
Unborn    == [status |-> "none", rev |-> 0, payload |-> NoPayload, bound |-> 0, sealed |-> FALSE]
Born(p)   == [status |-> "pending", rev |-> 1, payload |-> p, bound |-> 0, sealed |-> FALSE]
Record(p, c) == [payload |-> p, by |-> c, status |-> "live"]
(* Confirmed by a release that wrote no promotion fingerprint. *)
Unsealed(c, i) == [Born(Offered[c]) EXCEPT !.status = "confirmed", !.rev = 2, !.bound = i]

Init ==
    /\ StatesInit
    /\ \E old \in {<<>>} \cup {<<c>> : c \in Legacy} :
        /\ cand = [c \in Candidates |-> IF old = <<c>> THEN Unsealed(c, 1)
                                        ELSE IF c \in Imported THEN Born(Offered[c]) ELSE Unborn]
        /\ records = [i \in DOMAIN old |-> Record(Offered[old[i]], old[i])]
        /\ shown = [c \in Candidates |-> IF old = <<c>> THEN <<Offered[c], Offered[c]>>
                                         ELSE IF c \in Imported THEN <<Offered[c]>> ELSE <<>>]
    /\ document = "live" /\ acts = 0 /\ answer = NoAnswer

-----------------------------------------------------------------------------
(* What a request sees of the database.  A bulk confirmation builds the     *)
(* next one entry by entry, so the operators take the database they read.   *)

Db == [cand |-> cand, rec |-> records, st |-> states, node |-> node, pos |-> position]

LiveRecords(db) == {i \in DOMAIN db.rec : db.rec[i].status = "live"}
(* _exact_entity *)
Exact(db, name) ==
    Cardinality({i \in LiveRecords(db) : db.rec[i].payload.kind = "entity"
                                         /\ db.rec[i].payload.key = name}) = 1

(* source_version_id, of one version in each chapter: a generated candidate *)
(* has it, most imported ones have none.                                    *)
Version(c) == IF c \in Generated \cup Cites THEN Chapter[c] ELSE NoNode
(* _validate_import_source_version *)
ImportSource(c) == document = "live" /\ (Version(c) # NoNode => Live(Version(c)))
(* _validate_sources, _validate_payload *)
SourceActive(c)     == Live(Chapter[c])
PayloadValid(c, p)  ==
    p.kind = "entity_state" => entity = "live" /\ RangeValid(position, p.values, Version(c))
GeneratedValid(c, p) == SourceActive(c) /\ PayloadValid(c, p)

(* The identity_hash, and the dedupe_key of an imported candidate. *)
Identity(c, p) == <<Chapter[c], p>>
Duplicate(c, p, origin) ==
    \E d \in origin \ {c} : Identity(d, cand[d].payload) = Identity(c, p)
(* _validated_import_candidate *)
ImportValid(c, p) == ImportSource(c) /\ ~Duplicate(c, p, Imported)

(* References that _business_conflict resolves before it looks for a conflict *)
Refers(db, p) ==
    /\ p.kind = "relation" => Exact(db, p.ref)
    /\ p.kind = "entity_state" => entity = "live" /\ RangeValid(db.pos, p.values, NoNode)
(* _business_conflict *)
SameRecord(db, p) ==
    \E i \in LiveRecords(db) : db.rec[i].payload.kind = p.kind /\ db.rec[i].payload.key = p.key
SameState(db, s) ==
    \E i \in Confirmed(db.st) :
        db.st[i].data = s.data /\ db.st[i].from = s.from /\ db.st[i].to = s.to
Conflict(db, p) ==
    \/ p.kind \in RecordKinds /\ SameRecord(db, p)
    \/ p.kind = "entity_state" /\ (Disputed(db.pos, db.st, p.values) \/ SameState(db, p.values))

(* _promote_candidate, _promote_import_candidate and what they call; an *)
(* outline update may give its chapter another place.                   *)
NodeCurrent(db, p) == db.node[p.node].live /\ db.node[p.node].rev = p.expected
Promotable(db, c, p) ==
    /\ p.kind \in RecordKinds => Len(db.rec) < MaxRecords
    /\ p.kind = "chapter_summary" => Version(c) # NoNode /\ Live(Version(c))
    /\ p.kind = "entity_state" =>
          Len(db.st) < MaxStates /\ Creatable(db.pos, db.st, p.values, Version(c))
    /\ p.kind = "node_update" => NodeCurrent(db, p)
PromotedAs(db, p) ==
    CASE p.kind \in RecordKinds   -> Len(db.rec) + 1
      [] p.kind = "entity_state"  -> Len(db.st) + 1
      [] p.kind = "node_update"   -> p.node
Promoted(db, c, p) ==
    [rec  |-> IF p.kind \in RecordKinds THEN Append(db.rec, Record(p, c)) ELSE db.rec,
     st   |-> IF p.kind = "entity_state" THEN Append(db.st, Row(p.values, c)) ELSE db.st,
     node |-> IF p.kind = "node_update" THEN [db.node EXCEPT ![p.node].rev = @ + 1] ELSE db.node,
     pos  |-> IF p.kind = "node_update" /\ p.place # NoNode THEN Moved(db.pos, p.node, p.place)
              ELSE db.pos,
     cand |-> [db.cand EXCEPT ![c] = [db.cand[c] EXCEPT !.status = "confirmed", !.rev = @ + 1,
                                         !.bound = PromotedAs(db, p), !.sealed = TRUE]]]

(* _validate_promoted_record: it is there, not in the trash *)
Bound(c) ==
    CASE cand[c].payload.kind \in RecordKinds  -> records[cand[c].bound].status = "live"
      [] cand[c].payload.kind = "entity_state" -> TRUE
      [] cand[c].payload.kind = "node_update"  -> Live(cand[c].bound)
(* _legacy_import_binding_matches: the record says what the candidate says, *)
(* and a canon fact comes from the same source version.                     *)
OldBinding(c, i) ==
    /\ records[i].payload = cand[c].payload
    /\ cand[c].payload.kind = "relation" => Exact(Db, cand[c].payload.ref)
    /\ cand[c].payload.kind = "canon" =>
          Version(c) = IF records[i].by = 0 THEN NoNode ELSE Version(records[i].by)
Provable(c) == {i \in LiveRecords(Db) : OldBinding(c, i)} = {cand[c].bound}
Sealable(c) == cand[c].sealed \/ Provable(c)
BoundImport(c) ==  \* _validate_import_promotion
    Bound(c) /\ (cand[c].payload.kind = "node_update" => cand[c].bound = cand[c].payload.node)
             /\ Sealable(c)
BoundGenerated(c) == Bound(c)  \* _validate_generated_promotion
(* What the record of a confirmed candidate was written with. *)
Written(c) == shown[c][cand[c].rev]

AnyPast(c, r)  == cand[c].status = "confirmed" /\ r \in 1..cand[c].rev  \* mutant: any older page
Repeats(c, r)  == cand[c].status = "confirmed" /\ r \in {cand[c].rev, cand[c].rev - 1}
Undecided(c)   == cand[c].status # "rejected"  \* mutant: confirmed once more
Pending(c)     == cand[c].status = "pending"
Current(c, r)  == cand[c].rev = r

Install(db) ==
    /\ cand' = db.cand /\ records' = db.rec /\ states' = db.st
    /\ node' = db.node /\ position' = db.pos
    /\ shown' = [c \in Candidates |->
          IF db.cand[c].rev = cand[c].rev THEN shown[c] ELSE Append(shown[c], db.cand[c].payload)]
    /\ UNCHANGED <<legacy, entity, document, acts>>
Answer(c, r, p, separate) ==
    answer' = [cand |-> c, rev |-> r, payload |-> p, separate |-> separate]
Changed(c, fields) == [Db EXCEPT !.cand[c] = fields]
Sealed(c)          == Changed(c, [cand[c] EXCEPT !.sealed = TRUE])

-----------------------------------------------------------------------------
(* Candidates of a chapter's own draft.                                     *)

(* persist_candidates: an equal one is kept, whatever became of it *)
Persist(c, p) ==
    /\ c \in Generated /\ cand[c].status = "none" /\ p.kind \in GeneratedKinds
    /\ GeneratedValid(c, p) /\ ~Duplicate(c, p, Generated)
    /\ Install(Changed(c, Born(p))) /\ answer' = NoAnswer

EditGenerated(c, r, p) ==
    /\ c \in Generated /\ Current(c, r) /\ Pending(c)
    /\ p.kind = cand[c].payload.kind /\ p # cand[c].payload
    /\ GeneratedValid(c, p) /\ ~Duplicate(c, p, Generated)
    /\ Install(Changed(c, [cand[c] EXCEPT !.payload = p, !.rev = @ + 1])) /\ answer' = NoAnswer

RejectGenerated(c, r) ==
    /\ c \in Generated /\ Current(c, r) /\ Pending(c)
    /\ Install(Changed(c, [cand[c] EXCEPT !.status = "rejected", !.rev = @ + 1]))
    /\ answer' = NoAnswer

(* confirm_candidate: no conflict with the book is looked for *)
ConfirmGenerated(c, r) ==
    LET p == cand[c].payload IN
    /\ c \in Generated /\ cand[c].status \in {"pending", "confirmed"}
    /\ GeneratedValid(c, p)
    /\ \/ /\ Repeats(c, r) /\ BoundGenerated(c)
          /\ Answer(c, r, Written(c), FALSE)
          /\ UNCHANGED <<stateVars, cand, records, document, acts, shown>>
       \/ /\ Current(c, r) /\ Pending(c) /\ Promotable(Db, c, p)
          /\ Install(Promoted(Db, c, p)) /\ Answer(c, r, p, FALSE)

-----------------------------------------------------------------------------
(* Candidates of an imported book.                                          *)

EditImport(c, r, p) ==
    /\ c \in Imported /\ Current(c, r) /\ cand[c].status \in {"pending", "conflict"}
    /\ p # cand[c].payload /\ ImportValid(c, p)
    /\ Install(Changed(c, [cand[c] EXCEPT !.payload = p, !.status = "pending", !.rev = @ + 1]))
    /\ answer' = NoAnswer

RejectImport(c, r) ==
    /\ c \in Imported /\ Current(c, r) /\ cand[c].status \in {"pending", "conflict"}
    /\ Install(Changed(c, [cand[c] EXCEPT !.status = "rejected", !.rev = @ + 1]))
    /\ answer' = NoAnswer

(* confirm_import_candidate: a conflict with the book is recorded and left  *)
(* to the author, who may ask for a separate record.                        *)
Openable(db, c, r, separate) ==
    /\ db.cand[c].rev = r
    /\ db.cand[c].status = "pending" \/ (db.cand[c].status = "conflict" /\ separate)
    /\ separate => db.cand[c].payload.kind \in SeparateKinds
    /\ ImportValid(c, db.cand[c].payload) /\ Refers(db, db.cand[c].payload)
(* what a bulk request asks of a pending entry, first and again in its turn *)
Clean(db, c, r) == Openable(db, c, r, FALSE) /\ ~Conflict(db, db.cand[c].payload)

ConfirmImport(c, r, separate) ==
    LET p == cand[c].payload IN
    /\ c \in Imported
    /\ \/ /\ Repeats(c, r) /\ ImportValid(c, cand[c].payload) /\ BoundImport(c)
          /\ Install(Sealed(c)) /\ Answer(c, r, Written(c), FALSE)
       \/ /\ Openable(Db, c, r, separate) /\ ~separate /\ Conflict(Db, p)
          /\ Install(Changed(c, [cand[c] EXCEPT !.status = "conflict", !.rev = @ + 1]))
          /\ answer' = NoAnswer
       \/ /\ Openable(Db, c, r, separate) /\ (separate \/ ~Conflict(Db, p))
          /\ Promotable(Db, c, p)
          /\ Install(Promoted(Db, c, p)) /\ Answer(c, r, p, separate)

(* _publish_consolidation of the analysis (ImportAnalysis): a candidate that *)
(* shares its identity with others is marked, whatever its status is.       *)
Consolidate(c) ==
    /\ c \in Imported /\ cand[c].rev < MaxRevision
    /\ Install(Changed(c, [cand[c] EXCEPT !.rev = @ + 1,
                               !.status = IF @ = "pending" THEN "conflict" ELSE @]))
    /\ answer' = NoAnswer

(* bulk_confirm_import_candidates: every entry is looked at, then they are  *)
(* confirmed one after the other, each in the database the earlier ones     *)
(* left; one that fails takes back the others.  Two entries: what a longer  *)
(* request writes, single requests can write in the same order.             *)
LookedAt(db, d, r) ==  \* mutant: the second look is left out
    Promotable(db, d, cand[d].payload)
Opened(db, d, r) == Clean(db, d, r) /\ Promotable(db, d, cand[d].payload)
BulkConfirm(c, d, q, r) ==
    LET one == Promoted(Db, c, cand[c].payload) IN
    /\ {c, d} \subseteq Imported /\ c # d
    /\ Clean(Db, c, q) /\ Clean(Db, d, r)
    /\ Opened(Db, c, q) /\ Opened(one, d, r)
    /\ Install(Promoted(one, d, cand[d].payload)) /\ Answer(d, r, cand[d].payload, FALSE)
(* The same, where one of the two was confirmed before. *)
BulkRepeat(c, d, q, r) ==
    /\ {c, d} \subseteq Imported /\ c # d
    /\ Repeats(c, q) /\ ImportValid(c, cand[c].payload) /\ BoundImport(c)
    /\ Clean(Db, d, r) /\ Opened(Sealed(c), d, r)
    /\ Install(Promoted(Sealed(c), d, cand[d].payload)) /\ Answer(d, r, cand[d].payload, FALSE)

-----------------------------------------------------------------------------
(* The author's own work on the book (story.py, library.py).                *)

Act == acts < MaxActs /\ acts' = acts + 1 /\ answer' = NoAnswer
Own(recs) == Act /\ records' = recs /\ UNCHANGED <<stateVars, cand, document, shown>>
CreateRecord(p) ==
    /\ Len(records) < MaxRecords /\ p.kind = "relation" => Exact(Db, p.ref)
    /\ Own(Append(records, Record(p, 0)))
EditRecord(i, p) ==
    /\ records[i].status = "live" /\ p.kind = records[i].payload.kind
    /\ Own([records EXCEPT ![i].payload = p])
TrashRecord(i)   == records[i].status = "live" /\ Own([records EXCEPT ![i].status = "trash"])
RestoreRecord(i) == records[i].status = "trash" /\ Own([records EXCEPT ![i].status = "live"])
PurgeRecord(i)   == records[i].status = "trash" /\ Own([records EXCEPT ![i].status = "purged"])

TrashSource ==
    /\ document = "live" /\ document' = "trash" /\ Act
    /\ UNCHANGED <<stateVars, cand, records, shown>>
RestoreSource ==
    /\ document = "trash" /\ document' = "live" /\ Act
    /\ UNCHANGED <<stateVars, cand, records, shown>>

Outline ==
    /\ \/ \E s \in StateInputs : CreateState(s)
       \/ \E i \in DOMAIN states, s \in StateInputs : EditState(i, Row(s, states[i].by))
       \/ \E i \in DOMAIN states : EditState(i, [states[i] EXCEPT !.status = "retracted"])
       \/ EditLegacy \/ TrashEntity \/ RestoreEntity
       \/ \E n \in Nodes : TrashNode(n) \/ RestoreNode(n) \/ \E m \in Nodes : EditNode(n, m)
    /\ Act /\ UNCHANGED <<cand, records, document, shown>>

Requests(c, r) ==
    \/ \E p \in Payloads : EditGenerated(c, r, p) \/ EditImport(c, r, p)
    \/ RejectGenerated(c, r) \/ RejectImport(c, r)
    \/ ConfirmGenerated(c, r)
    \/ \E separate \in BOOLEAN : ConfirmImport(c, r, separate)
    \/ /\ c \in Imported
       /\ \E d \in Imported \ {c}, q \in 1..(MaxRevision - 1) : BulkConfirm(c, d, r, q) \/ BulkRepeat(c, d, r, q)

Next ==
    \/ \E c \in Generated, p \in Payloads : Persist(c, p)
    \/ \E c \in Candidates : \E r \in 1..cand[c].rev : r < MaxRevision /\ Requests(c, r)
    \/ \E c \in Imported : Consolidate(c)
    \/ \E p \in Records : CreateRecord(p)
    \/ \E i \in DOMAIN records : \/ \E p \in Records : EditRecord(i, p)
                                 \/ TrashRecord(i) \/ RestoreRecord(i) \/ PurgeRecord(i)
    \/ TrashSource \/ RestoreSource
    \/ Outline

Spec == Init /\ [][Next]_vars

-----------------------------------------------------------------------------
(* Properties. *)

Made(c) ==
    Cardinality({i \in DOMAIN records : records[i].by = c})
    + Cardinality({i \in DOMAIN states : states[i].by = c})
(* A confirmed candidate wrote one record of the book and no other          *)
(* candidate wrote any, however often and from whichever page it was asked  *)
(* for (confirm_candidate, confirm_import_candidate, bulk_confirm...).      *)
PromotedOnce ==
    \A c \in Candidates :
        Made(c) = IF cand[c].status = "confirmed" /\ cand[c].payload.kind # "node_update"
                  THEN 1 ELSE 0

(* Who is told "confirmed" is told so of what the page showed: a revision   *)
(* that has been rewritten since is refused, a repetition of the very       *)
(* request that confirmed it is not (revision in {revision, revision - 1}). *)
AsShown == answer # NoAnswer => answer.payload = shown[answer.cand][answer.rev]

Twins(recs, i) ==
    {j \in DOMAIN recs \ {i} :
        /\ recs[j].status = "live"
        /\ recs[j].payload.kind = recs[i].payload.kind /\ recs[j].payload.key = recs[i].payload.key}
(* An imported candidate becomes the twin of a record in use only in a      *)
(* request about it alone that asks for a separate record                   *)
(* (resolution "create_separate"): not by a plain confirmation, not by a    *)
(* repeated or a bulk one, and not as a chapter's summary at all.           *)
NoSilentTwin ==
    [][\A i \in DOMAIN records' \ DOMAIN records :
         records'[i].by \in Imported /\ Twins(records', i) # {}
         => /\ answer'.cand = records'[i].by /\ answer'.separate
            /\ records'[i].payload.kind \in SeparateKinds]_vars

(* Where a state taken from an imported book begins to hold, the entity is  *)
(* in no contradiction: what the confirmation looks at                      *)
(* (candidate_entity_state_conflict) covers what the reader computes        *)
(* (_resolve_entity_state), also where its bulk request has moved chapters  *)
(* before it.  Not claimed: a bulk request that moves a chapter             *)
(* (_promote_node_update) after it wrote a state, since the new place of a  *)
(* chapter is compared with no state.                                       *)
ImportsAgree ==
    [][\A i \in DOMAIN states' \ DOMAIN states :
         states'[i].by \in Imported /\ (position' = position \/ answer'.cand = states'[i].by)
         => \A n \in Nodes : node[n].live /\ i \in Applicable(n)' => Conflicts(n)' = {}]_vars

(* The question what becomes of an undated state has one answer at a time,  *)
(* though rows that answer it may wait side by side, be edited, confirmed   *)
(* or retracted in any order (_validate_legacy_gate).                       *)
AnsweredOnce ==
    Cardinality({i \in Confirmed(states) : states[i].transition # "none"}) <= 1
=============================================================================
