-------------------------- MODULE MCMemoryCandidates --------------------------
(* Small instances of MemoryCandidates.  In "records" two imported candidates *)
(* and one of a chapter's draft deal with two entities, a relation and an     *)
(* outline chapter; in "states" they deal with the dated states of an entity. *)
EXTENDS MemoryCandidates

Fact(k, key, v) == [kind |-> k, key |-> key, val |-> v, ref |-> 1]
Update(n, r, k) == [kind |-> "node_update", node |-> n, expected |-> r, place |-> k]
Place           == Fact("entity", 1, 1)
Ally            == Fact("relation", 2, 1)
Rumour          == Fact("plot", 3, 1)
Proof           == Fact("plot", 3, 2)
Recap           == Fact("chapter_summary", 4, 1)

RecordPayloads  == {Ally, Rumour, Proof, Recap, Update(1, 1, 0)}
RecordsOffered  == [c \in {2, 3} |-> IF c = 2 THEN Rumour ELSE Recap]
AuthorsRecords  == {Place, Rumour, Proof}

State(d, f, t, x) == [data |-> d, from |-> f, to |-> t, transition |-> x, status |-> "confirmed"]
Of(s)           == [kind |-> "entity_state", values |-> s]
Young           == {<<1, 1>>}
Old             == {<<1, 2>>}
Later           == Of(State(Young, 2, 0, "none"))
Before          == Of(State(Old, 1, 1, "baseline"))
StatePayloads   == {Later, Before, Update(2, 1, 1)}
StatesOffered   == [c \in {2, 3} |-> IF c = 2 THEN Later ELSE Before]
AuthorsStates   == {State(Old, 1, 2, "baseline"),
                    [State({}, 1, 0, "retire") EXCEPT !.status = "pending"]}
TwoNodes        == {1, 2}
FirstChapter    == [c \in Candidates |-> IF c = 3 THEN 2 ELSE 1]
DataValues      == {{}, Young, Old}
Nothing         == {}
=============================================================================
