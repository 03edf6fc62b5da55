----------------------------- MODULE EntityStates -----------------------------
(***************************************************************************)
(* The dated states of one entity (entity_states.py): rows that hold from  *)
(* one chapter to another, what the entity is at a chapter (the overlay of *)
(* the confirmed rows that apply there, disputes reported), and the rule   *)
(* that an entity with an undated state must say once what becomes of it.  *)
(*                                                                         *)
(* Abstracted: a row's data is a set of <<field, value>> pairs; creation   *)
(* times are the places in the sequence; revisions of a row are not kept,  *)
(* a request with another one than the row's changes nothing.              *)
(***************************************************************************)
EXTENDS Integers, Sequences, FiniteSets

CONSTANTS Nodes,      \* chapters of the outline, numbered from 1
          Data,       \* what a row may say: sets of <<field, value>>
          StateInputs, \* bound: the rows that the author's page may send
          MaxStates   \* bound: rows

ASSUME StatesAssumption ==
    /\ IsFiniteSet(Nodes) /\ Nodes = 1..Cardinality(Nodes)
    /\ MaxStates \in Nat

NoNode == 0

VARIABLES position,  \* the outline: the place of each chapter
          node,      \* story_nodes: in use or in the trash, and the revision
          legacy,    \* entity.state is not empty
          entity,    \* the entity is in use or in the trash
          states     \* entity_states, oldest first

stateVars == <<position, node, legacy, entity, states>>

Transitions == {"none", "baseline", "retire"}
StateValues ==
    [data : Data, from : Nodes, to : Nodes \cup {NoNode}, transition : Transitions,
     status : {"pending", "confirmed", "retracted"}]
ASSUME InputsAssumption == StateInputs \subseteq StateValues

Confirmed(st) == {i \in DOMAIN st : st[i].status = "confirmed"}

-----------------------------------------------------------------------------
(* Ranges, over the places pos of the chapters.  A null end lies after      *)
(* every chapter.                                                           *)

Live(n)     == node[n].live
Last        == Cardinality(Nodes) + 1
End(pos, s) == IF s.to = NoNode THEN Last ELSE pos[s.to]
Dated(s)    == Live(s.from) /\ (s.to # NoNode => Live(s.to))
(* ordered_nodes, once chapter n was given place k: those between make room *)
Moved(pos, n, k) ==
    [m \in Nodes |-> IF m = n THEN k
                     ELSE IF pos[n] < pos[m] /\ pos[m] <= k THEN pos[m] - 1
                     ELSE IF k <= pos[m] /\ pos[m] < pos[n] THEN pos[m] + 1 ELSE pos[m]]

(* _validate_references_and_range; source is the chapter of the version *)
(* that a candidate cites.                                              *)
RangeValid(pos, s, source) ==
    /\ Dated(s) /\ pos[s.from] <= End(pos, s)
    /\ source # NoNode => Live(source) /\ pos[source] \in pos[s.from]..End(pos, s)

(* candidate_entity_state_conflict *)
Touch(pos, s, t)   ==  \* mutant: half-open
    pos[s.from] < End(pos, t) /\ pos[t.from] < End(pos, s)
Overlap(pos, s, t) == pos[s.from] <= End(pos, t) /\ pos[t.from] <= End(pos, s)
Disputed(pos, st, s) ==
    \E i \in Confirmed(st) : Dated(st[i]) /\ Overlap(pos, s, st[i]) /\ st[i].data # s.data

-----------------------------------------------------------------------------
(* The entity at a chapter.                                                 *)

Applicable(c) ==
    {i \in Confirmed(states) :
        Dated(states[i]) /\ position[c] \in position[states[i].from]..End(position, states[i])}
Earlier(i, j) ==
    \/ position[states[i].from] < position[states[j].from]
    \/ position[states[i].from] = position[states[j].from] /\ i < j
Fields(i) == {d[1] : d \in states[i].data}
(* The first row to name a field wins... *)
Origin(c, f) ==
    LET named == {i \in Applicable(c) : f \in Fields(i)} IN
    CHOOSE i \in named : \A j \in named \ {i} : Earlier(i, j)
(* ...and every later row that disagrees is reported with it. *)
Disagreements(c) ==
    {x \in Applicable(c) \X Applicable(c) :
        \E d \in states[x[2]].data : x[1] = Origin(c, d[1]) /\ d \notin states[x[1]].data}
(* project_entity_state_conflicts_by_chapter: of what is not in the trash *)
Conflicts(c) == IF entity = "live" THEN Disagreements(c) ELSE {}

-----------------------------------------------------------------------------
(* What the author does with the rows and with what they refer to.          *)

TransitionShape(s) ==
    (s.transition = "baseline" => s.data # {}) /\ (s.transition = "retire" => s.data = {})

AnyGate(s, others) ==  \* mutant: the transition is accepted beside an older history
    /\ TransitionShape(s)
    /\ s.transition # "none" => legacy
    /\ s.status = "confirmed" /\ legacy /\ others = {} => s.transition # "none"
(* _validate_legacy_gate: others are the confirmed rows besides this one *)
GateOpen(s, others) ==
    /\ TransitionShape(s)
    /\ s.transition # "none" => legacy /\ others = {} /\ s.status \in {"pending", "confirmed"}
    /\ s.status = "confirmed" /\ legacy /\ others = {} => s.transition # "none"

(* create_entity_state *)
Creatable(pos, st, s, source) ==
    /\ entity = "live" /\ RangeValid(pos, s, source) /\ GateOpen(s, Confirmed(st))
Row(s, c) == [data |-> s.data, from |-> s.from, to |-> s.to, transition |-> s.transition,
              status |-> s.status, by |-> c]

CreateState(s) ==
    /\ Len(states) < MaxStates /\ Creatable(position, states, s, NoNode)
    /\ states' = Append(states, Row(s, NoNode))
    /\ UNCHANGED <<position, node, legacy, entity>>

(* edit_entity_state: a pending row is rewritten, a confirmed one only retracted *)
EditState(i, s) ==
    /\ entity = "live"
    /\ \/ /\ states[i].status = "pending" /\ RangeValid(position, s, NoNode)
          /\ IF s.status = "retracted" THEN TransitionShape(s)
             ELSE GateOpen(s, Confirmed(states) \ {i})
       \/ states[i].status = "confirmed" /\ s = [states[i] EXCEPT !.status = "retracted"]
    /\ states' = [states EXCEPT ![i] = s]
    /\ UNCHANGED <<position, node, legacy, entity>>

(* edit_item of the entity: its undated state is written or emptied *)
EditLegacy ==
    /\ entity = "live" /\ legacy' = ~legacy
    /\ UNCHANGED <<position, node, entity, states>>

(* edit_item of a chapter: it takes the place of another, or keeps its own *)
EditNode(n, m) ==
    /\ Live(n) /\ node' = [node EXCEPT ![n].rev = @ + 1]
    /\ position' = Moved(position, n, position[m])
    /\ UNCHANGED <<legacy, entity, states>>

(* trash_item and restore_item *)
TrashNode(n) ==
    /\ Live(n) /\ node' = [node EXCEPT ![n] = [live |-> FALSE, rev |-> @.rev + 1]]
    /\ UNCHANGED <<position, legacy, entity, states>>
RestoreNode(n) ==
    /\ ~Live(n) /\ node' = [node EXCEPT ![n] = [live |-> TRUE, rev |-> @.rev + 1]]
    /\ UNCHANGED <<position, legacy, entity, states>>
TrashEntity ==
    /\ entity = "live" /\ entity' = "trash" /\ UNCHANGED <<position, node, legacy, states>>
RestoreEntity ==
    /\ entity = "trash" /\ entity' = "live" /\ UNCHANGED <<position, node, legacy, states>>

StatesInit ==
    /\ position = [n \in Nodes |-> n]
    /\ node = [n \in Nodes |-> [live |-> TRUE, rev |-> 1]]
    /\ legacy \in BOOLEAN /\ entity = "live" /\ states = <<>>

=============================================================================
