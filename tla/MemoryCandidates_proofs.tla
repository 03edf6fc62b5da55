------------------------ MODULE MemoryCandidates_proofs ------------------------
(***************************************************************************)
(* What the answers to a book's candidates keep, for every number of       *)
(* candidates, chapters, records, revisions and acts.                      *)
(*                                                                         *)
(* IInv counts: the rows written by a candidate are one if it is confirmed *)
(* and none otherwise, so a second promotion would be seen; at most one    *)
(* confirmed row answers for the undated state, since such a row is let in *)
(* only where no other is confirmed; and a candidate's history ends with   *)
(* what it says, twice for a confirmed one, which is why the older of its  *)
(* two pages may be answered as well.  A promotion is described once, as a *)
(* relation between two databases (Promotes), and used for a request of    *)
(* one and, twice, for a request of two.                                   *)
(*                                                                         *)
(* NoSilentTwin and ImportsAgree compare the rows after a step with those  *)
(* before: what is in no conflict with a database has no twin there, and   *)
(* says of every chapter it applies to what is said there already, over    *)
(* the places the chapters have in that database; so all rows agree where  *)
(* a new one applies, unless a later entry moves a chapter.                *)
(***************************************************************************)
EXTENDS MemoryCandidates, TLAPS, FiniteSetTheorems

(* The rows: records and states of the book, candidates, chapters. *)
Authors   == Candidates \cup {0}
RecordRow == [payload : Payloads \cup Records, by : Authors, status : {"live", "trash", "purged"}]
StateRow  == [data : Data, from : Nodes, to : Nodes \cup {NoNode}, transition : Transitions,
              status : {"pending", "confirmed", "retracted"}, by : Authors]
CandRow   == [status : {"none", "pending", "conflict", "rejected", "confirmed"}, rev : Nat,
              payload : Payloads \cup {NoPayload}, bound : Nat, sealed : BOOLEAN]
NodeRow   == [live : BOOLEAN, rev : Nat]

Rows(db) ==
    /\ db.cand \in [Candidates -> CandRow] /\ db.rec \in Seq(RecordRow)
    /\ db.st \in Seq(StateRow) /\ db.node \in [Nodes -> NodeRow]
    /\ db.pos \in [Nodes -> Nodes]
Outlined == entity \in {"live", "trash"}

(* What a candidate wrote is what its status says. *)
By(rows, c)   == {i \in DOMAIN rows : rows[i].by = c}
Due(row)      == IF row.status = "confirmed" /\ row.payload.kind # "node_update" THEN 1 ELSE 0
MadeIn(db, c) == Cardinality(By(db.rec, c)) + Cardinality(By(db.st, c))
Once(db)      == \A c \in Candidates : MadeIn(db, c) = Due(db.cand[c])

(* Two confirmed rows do not both say what becomes of the undated state. *)
OneAnswer(st) == \A i, k \in Confirmed(st) :
    st[i].transition # "none" /\ st[k].transition # "none" => i = k

(* The history of a candidate ends with what it says, and what a confirmed *)
(* one says is what it said when it was confirmed.                         *)
Told(row, said) ==
    /\ said \in Seq(Payloads) /\ Len(said) = row.rev
    /\ row.status = "none" <=> row.rev = 0
    /\ row.rev > 0 => row.payload \in Payloads /\ said[row.rev] = row.payload
    /\ row.status = "confirmed" => row.rev > 1 /\ said[row.rev - 1] = row.payload
History ==
    /\ DOMAIN shown = Candidates /\ \A c \in Candidates : Told(cand[c], shown[c])
    /\ \A c \in Imported : cand[c].status # "none"

IInv == Rows(Db) /\ Outlined /\ Once(Db) /\ OneAnswer(states) /\ History

-----------------------------------------------------------------------------
(* Rows of a table, and who wrote them.                                     *)

LEMMA Appended ==
    ASSUME NEW S, NEW rows \in Seq(S), NEW r \in S
    PROVE  /\ Append(rows, r) \in Seq(S) /\ Len(Append(rows, r)) = Len(rows) + 1
           /\ Len(rows) \in Nat /\ DOMAIN rows = 1..Len(rows)
           /\ DOMAIN Append(rows, r) = 1..(Len(rows) + 1)
           /\ Append(rows, r)[Len(rows) + 1] = r
           /\ \A i \in 1..Len(rows) : Append(rows, r)[i] = rows[i] /\ rows[i] \in S
  OBVIOUS

LEMMA Counted ==
    ASSUME NEW S, NEW rows \in Seq(S), NEW c
    PROVE  IsFiniteSet(By(rows, c)) /\ Cardinality(By(rows, c)) \in Nat
<1>1. By(rows, c) \in SUBSET (1..Len(rows)) /\ Len(rows) \in Nat
  BY DEF By
<1>2. IsFiniteSet(1..Len(rows))
  BY <1>1, FS_Interval
<1> QED BY <1>1, <1>2, FS_Subset, FS_CardinalityType

LEMMA CountedAfter ==
    ASSUME NEW S, NEW rows \in Seq(S), NEW r \in S, NEW c
    PROVE  Cardinality(By(Append(rows, r), c))
             = Cardinality(By(rows, c)) + IF r.by = c THEN 1 ELSE 0
<1> DEFINE n == Len(rows) + 1
           more == Append(rows, r)
<1>1. /\ DOMAIN rows = 1..Len(rows) /\ Len(rows) \in Nat /\ DOMAIN more = 1..n
      /\ more[n] = r /\ \A i \in 1..Len(rows) : more[i] = rows[i]
  BY Appended
<1>2. n \notin By(rows, c)
  BY <1>1 DEF By
<1>3. IsFiniteSet(By(rows, c)) /\ Cardinality(By(rows, c)) \in Nat
  BY Counted
<1> HIDE DEF more
<1>4. 1..n = 1..Len(rows) \cup {n} /\ n \notin 1..Len(rows)
  BY <1>1
<1>5. CASE r.by = c
  <2>1. By(more, c) = By(rows, c) \cup {n}
    BY <1>1, <1>4, <1>5 DEF By
  <2>2. Cardinality(By(rows, c) \cup {n}) = Cardinality(By(rows, c)) + 1
    BY <1>2, <1>3, FS_AddElement
  <2> QED BY <1>5, <2>1, <2>2 DEF more
<1>6. CASE r.by # c
  <2>1. By(more, c) = By(rows, c)
    BY <1>1, <1>4, <1>6 DEF By
  <2> QED BY <1>3, <1>6, <2>1 DEF more
<1> QED BY <1>5, <1>6

LEMMA SameAuthors ==
    ASSUME NEW rows, NEW later, DOMAIN later = DOMAIN rows,
           \A i \in DOMAIN rows : later[i].by = rows[i].by, NEW c
    PROVE  By(later, c) = By(rows, c)
  BY DEF By

-----------------------------------------------------------------------------
(* One promotion: what it does to a database, and what it keeps.            *)

LEMMA KindsApart ==
    ASSUME NEW p \in Payloads
    PROVE  /\ p.kind \in RecordKinds \/ p.kind = "entity_state" \/ p.kind = "node_update"
           /\ ~(p.kind \in RecordKinds /\ p.kind = "entity_state")
           /\ ~(p.kind \in RecordKinds /\ p.kind = "node_update")
           /\ p.kind # "none"
           /\ p.kind = "entity_state" => p.values \in StateValues
           /\ p.kind = "node_update" => p.node \in Nodes /\ p.place \in Nodes \cup {NoNode}
<1>1. \A k : k \in RecordKinds => k # "entity_state" /\ k # "node_update" /\ k # "none"
  BY DEF RecordKinds, SeparateKinds
<1> QED BY <1>1, CandidatesAssumption

LEMMA NodesAreNumbers == Nodes \subseteq Nat \ {0} /\ NoNode \notin Nodes
<1>1. Cardinality(Nodes) \in Nat
  BY StatesAssumption, FS_CardinalityType
<1> QED BY <1>1, StatesAssumption DEF NoNode

(* A chapter takes another place: the places stay those of the outline. *)
LEMMA MovedKeeps ==
    ASSUME NEW pos \in [Nodes -> Nodes], NEW n \in Nodes, NEW k \in Nodes
    PROVE  Moved(pos, n, k) \in [Nodes -> Nodes]
<1> DEFINE new == Moved(pos, n, k)
           card == Cardinality(Nodes)
<1>1. card \in Nat /\ Nodes = 1..card
  BY StatesAssumption, FS_CardinalityType
<1>2. ASSUME NEW m \in Nodes
      PROVE  new[m] = IF m = n THEN k
                      ELSE IF pos[n] < pos[m] /\ pos[m] <= k THEN pos[m] - 1
                      ELSE IF k <= pos[m] /\ pos[m] < pos[n] THEN pos[m] + 1 ELSE pos[m]
  BY DEF Moved
<1>3. new = [m \in Nodes |-> new[m]]
  BY DEF Moved
<1> HIDE DEF new, card
<1>4. ASSUME NEW m \in Nodes PROVE new[m] \in Nodes
  <2> PICK x \in 1..card, y \in 1..card, z \in 1..card : x = pos[n] /\ y = pos[m] /\ z = k
    BY <1>1
  <2>1. new[m] = z \/ new[m] = y \/ (x < y /\ new[m] = y - 1) \/ (y < x /\ new[m] = y + 1)
    BY <1>2
  <2>2. /\ card \in Int /\ x \in Int /\ y \in Int /\ z \in Int
        /\ 1 <= x /\ x <= card /\ 1 <= y /\ y <= card /\ 1 <= z /\ z <= card
    BY <1>1
  <2>3. CASE new[m] = z \/ new[m] = y
    BY <1>1, <2>2, <2>3
  <2>4. CASE x < y /\ new[m] = y - 1
    <3>1. y - 1 \in 1..card
      BY <2>2, <2>4
    <3> QED BY <1>1, <2>4, <3>1
  <2>5. CASE y < x /\ new[m] = y + 1
    <3>1. y + 1 \in 1..card
      BY <2>2, <2>5
    <3> QED BY <1>1, <2>5, <3>1
  <2> QED BY <2>1, <2>3, <2>4, <2>5
<1>5. new \in [Nodes -> Nodes]
  BY <1>3, <1>4
<1> QED BY <1>5 DEF new

LEMMA RowIsStateRow ==
    ASSUME NEW s \in StateValues, NEW c \in Authors
    PROVE  /\ Row(s, c) \in StateRow /\ Row(s, c).by = c
           /\ Row(s, c).data = s.data /\ Row(s, c).from = s.from /\ Row(s, c).to = s.to
           /\ Row(s, c).transition = s.transition /\ Row(s, c).status = s.status
  BY DEF Row, StateValues, StateRow

LEMMA RecordIsRow ==
    ASSUME NEW p \in Payloads \cup Records, NEW c \in Authors
    PROVE  /\ Record(p, c) \in RecordRow /\ Record(p, c).by = c
           /\ Record(p, c).payload = p /\ Record(p, c).status = "live"
  BY DEF Record, RecordRow

(* What a candidate may become, seen from its row. *)
Settles(old, new) == \* the row is confirmed: it says what it said
    /\ new.status = "confirmed" /\ new.rev = old.rev + 1 /\ new.payload = old.payload

Promotes(db, c, p, later) ==
    /\ later.rec = IF p.kind \in RecordKinds THEN Append(db.rec, Record(p, c)) ELSE db.rec
    /\ later.st = IF p.kind = "entity_state" THEN Append(db.st, Row(p.values, c)) ELSE db.st
    /\ later.cand \in [Candidates -> CandRow] /\ Settles(db.cand[c], later.cand[c])
    /\ \A d \in Candidates \ {c} : later.cand[d] = db.cand[d]
    /\ later.node \in [Nodes -> NodeRow]
    /\ \A n \in Nodes : later.node[n].live = db.node[n].live
    /\ later.pos \in [Nodes -> Nodes] /\ (p.kind # "node_update" => later.pos = db.pos)

LEMMA PromotedEffect ==
    ASSUME NEW db, Rows(db), NEW c \in Candidates, NEW p \in Payloads
    PROVE  Promotes(db, c, p, Promoted(db, c, p))
<1> DEFINE later == Promoted(db, c, p)
           old == db.cand[c]
           as == PromotedAs(db, p)
           row == [old EXCEPT !.status = "confirmed", !.rev = @ + 1, !.bound = as, !.sealed = TRUE]
<1>1. /\ later.rec = (IF p.kind \in RecordKinds THEN Append(db.rec, Record(p, c)) ELSE db.rec)
      /\ later.st = (IF p.kind = "entity_state" THEN Append(db.st, Row(p.values, c)) ELSE db.st)
      /\ later.node = (IF p.kind = "node_update"
                       THEN [db.node EXCEPT ![p.node].rev = @ + 1] ELSE db.node)
      /\ later.pos = (IF p.kind = "node_update" /\ p.place # NoNode
                      THEN Moved(db.pos, p.node, p.place) ELSE db.pos)
      /\ later.cand = [db.cand EXCEPT ![c] = row]
  BY DEF Promoted
<1>2. as \in Nat
  <2>1. Len(db.rec) \in Nat /\ Len(db.st) \in Nat
    BY DEF Rows
  <2>2. CASE p.kind \in RecordKinds
    BY <2>1, <2>2, KindsApart DEF PromotedAs
  <2>3. CASE p.kind = "entity_state"
    BY <2>1, <2>3, KindsApart DEF PromotedAs
  <2>4. CASE p.kind = "node_update"
    BY <2>4, KindsApart, NodesAreNumbers DEF PromotedAs
  <2> QED BY <2>2, <2>3, <2>4, KindsApart
<1>3. db.cand \in [Candidates -> CandRow] /\ old \in CandRow
  BY DEF Rows
<1> HIDE DEF as, later
<1>4. row \in CandRow /\ Settles(old, row)
  <2> HIDE DEF old
  <2>1. old.rev + 1 \in Nat
    BY <1>3 DEF CandRow
  <2> QED BY <1>2, <1>3, <2>1 DEF CandRow, Settles
<1> HIDE DEF row
<1>5. /\ later.cand \in [Candidates -> CandRow] /\ later.cand[c] = row
      /\ \A d \in Candidates \ {c} : later.cand[d] = db.cand[d]
  BY <1>1, <1>3, <1>4
<1>6. /\ later.node \in [Nodes -> NodeRow]
      /\ \A n \in Nodes : later.node[n].live = db.node[n].live
  <2>1. db.node \in [Nodes -> NodeRow]
    BY DEF Rows
  <2>2. CASE p.kind = "node_update"
    <3>1. p.node \in Nodes
      BY <2>2, KindsApart
    <3> DEFINE m == p.node
               one == [db.node[m] EXCEPT !.rev = @ + 1]
    <3>2. db.node[m] \in NodeRow
      BY <2>1, <3>1
    <3>3. one \in NodeRow /\ one.live = db.node[m].live
      BY <3>2 DEF NodeRow
    <3>4. later.node = [db.node EXCEPT ![m] = one]
      BY <1>1, <2>2
    <3> HIDE DEF m, one
    <3> QED BY <2>1, <3>3, <3>4
  <2> QED BY <1>1, <2>1, <2>2
<1>7. later.pos \in [Nodes -> Nodes] /\ (p.kind # "node_update" => later.pos = db.pos)
  <2>1. db.pos \in [Nodes -> Nodes]
    BY DEF Rows
  <2>2. CASE p.kind = "node_update" /\ p.place # NoNode
    <3>1. p.node \in Nodes /\ p.place \in Nodes
      BY <2>2, KindsApart
    <3> QED BY <1>1, <2>1, <2>2, <3>1, MovedKeeps
  <2> QED BY <1>1, <2>1, <2>2
<1> QED BY <1>1, <1>4, <1>5, <1>6, <1>7 DEF Promotes, later

LEMMA PromotedRows ==
    ASSUME NEW db, Rows(db), NEW c \in Candidates, NEW p \in Payloads, NEW later,
           Promotes(db, c, p, later)
    PROVE  Rows(later)
<1>1. db.rec \in Seq(RecordRow) /\ db.st \in Seq(StateRow) /\ c \in Authors
  BY DEF Rows, Authors
<1>2. later.rec \in Seq(RecordRow)
  BY <1>1, RecordIsRow, Appended DEF Promotes
<1>3. later.st \in Seq(StateRow)
  BY <1>1, RowIsStateRow, Appended, KindsApart DEF Promotes
<1>4. later.cand \in [Candidates -> CandRow]
  BY DEF Promotes, Rows
<1> QED BY <1>2, <1>3, <1>4 DEF Promotes, Rows

LEMMA PromotedCounts ==
    ASSUME NEW db, Rows(db), NEW c \in Candidates, NEW p \in Payloads, p = db.cand[c].payload,
           db.cand[c].status # "confirmed", NEW later, Promotes(db, c, p, later), Once(db)
    PROVE  Once(later)
<1> SUFFICES ASSUME NEW d \in Candidates PROVE MadeIn(later, d) = Due(later.cand[d])
  BY DEF Once
<1>1. db.rec \in Seq(RecordRow) /\ db.st \in Seq(StateRow) /\ c \in Authors
  BY DEF Rows, Authors
<1>2. /\ Cardinality(By(db.rec, d)) \in Nat /\ Cardinality(By(db.st, d)) \in Nat
      /\ Cardinality(By(db.rec, d)) + Cardinality(By(db.st, d)) = Due(db.cand[d])
  BY <1>1, Counted DEF Once, MadeIn
<1>3. Cardinality(By(later.rec, d)) = Cardinality(By(db.rec, d))
        + IF p.kind \in RecordKinds /\ c = d THEN 1 ELSE 0
  <2>1. CASE p.kind \in RecordKinds
    <3>1. Record(p, c) \in RecordRow /\ Record(p, c).by = c
      BY <1>1, RecordIsRow
    <3>2. later.rec = Append(db.rec, Record(p, c))
      BY <2>1 DEF Promotes
    <3> QED BY <1>1, <2>1, <3>1, <3>2, CountedAfter
  <2>2. CASE p.kind \notin RecordKinds
    BY <1>2, <2>2 DEF Promotes
  <2> QED BY <2>1, <2>2
<1>4. Cardinality(By(later.st, d)) = Cardinality(By(db.st, d))
        + IF p.kind = "entity_state" /\ c = d THEN 1 ELSE 0
  <2>1. CASE p.kind = "entity_state"
    <3>1. Row(p.values, c) \in StateRow /\ Row(p.values, c).by = c
      BY <1>1, <2>1, RowIsStateRow, KindsApart
    <3>2. later.st = Append(db.st, Row(p.values, c))
      BY <2>1 DEF Promotes
    <3> QED BY <1>1, <2>1, <3>1, <3>2, CountedAfter
  <2>2. CASE p.kind # "entity_state"
    BY <1>2, <2>2 DEF Promotes
  <2> QED BY <2>1, <2>2
<1>5. CASE d = c
  <2>1. Due(db.cand[d]) = 0
    BY <1>5 DEF Due
  <2>2. Due(later.cand[d]) = IF p.kind = "node_update" THEN 0 ELSE 1
    BY <1>5 DEF Due, Promotes, Settles
  <2> QED BY <1>2, <1>3, <1>4, <1>5, <2>1, <2>2, KindsApart DEF MadeIn
<1>6. CASE d # c
  <2>1. later.cand[d] = db.cand[d]
    BY <1>6 DEF Promotes
  <2> QED BY <1>2, <1>3, <1>4, <1>6, <2>1 DEF MadeIn
<1> QED BY <1>5, <1>6

(* A row that answers is let in only where none is confirmed beside it. *)
LEMMA AppendedAnswer ==
    ASSUME NEW st \in Seq(StateRow), NEW s \in StateValues, NEW c \in Authors,
           GateOpen(s, Confirmed(st)), OneAnswer(st)
    PROVE  OneAnswer(Append(st, Row(s, c)))
<1> DEFINE later == Append(st, Row(s, c))
           n == Len(st) + 1
<1>1. Row(s, c) \in StateRow /\ Row(s, c).transition = s.transition
  BY RowIsStateRow
<1>2. /\ DOMAIN st = 1..Len(st) /\ Len(st) \in Nat /\ DOMAIN later = 1..n
      /\ later[n] = Row(s, c) /\ \A i \in 1..Len(st) : later[i] = st[i]
  BY <1>1, Appended
<1> HIDE DEF later
<1>3. \A i \in Confirmed(later) : i = n \/ i \in Confirmed(st)
  BY <1>2 DEF Confirmed
<1>4. s.transition # "none" => Confirmed(st) = {}
  BY DEF GateOpen
<1>5. OneAnswer(later)
  <2> SUFFICES ASSUME NEW i \in Confirmed(later), NEW k \in Confirmed(later),
                      later[i].transition # "none", later[k].transition # "none"
               PROVE  i = k
    BY DEF OneAnswer
  <2>1. CASE s.transition # "none"
    BY <1>3, <1>4, <2>1
  <2>2. CASE s.transition = "none"
    <3>1. i \in Confirmed(st) /\ k \in Confirmed(st)
      BY <1>1, <1>2, <1>3, <2>2
    <3>2. later[i] = st[i] /\ later[k] = st[k]
      BY <1>2, <3>1 DEF Confirmed
    <3> QED BY <3>1, <3>2 DEF OneAnswer
  <2> QED BY <2>1, <2>2
<1> QED BY <1>5 DEF later

LEMMA PromotedAnswers ==
    ASSUME NEW db, Rows(db), NEW c \in Candidates, NEW p \in Payloads, Promotable(db, c, p),
           NEW later, Promotes(db, c, p, later), OneAnswer(db.st)
    PROVE  OneAnswer(later.st)
<1>1. CASE p.kind = "entity_state"
  <2>1. /\ p.values \in StateValues /\ c \in Authors /\ db.st \in Seq(StateRow)
        /\ GateOpen(p.values, Confirmed(db.st)) /\ later.st = Append(db.st, Row(p.values, c))
    BY <1>1, KindsApart DEF Rows, Authors, Promotable, Creatable, Promotes
  <2> QED BY <2>1, AppendedAnswer
<1>2. CASE p.kind # "entity_state"
  BY <1>2 DEF Promotes
<1> QED BY <1>1, <1>2

-----------------------------------------------------------------------------
(* What a request may do to the row of a candidate, and to its history.     *)
Moves(old, new) ==
    /\ new.status = "none" <=> old.status = "none" /\ new.rev = old.rev
    /\ \/ new.rev = old.rev /\ new.payload = old.payload /\ new.status = old.status
       \/ /\ new.rev = old.rev + 1 /\ new.status # "confirmed" /\ old.status # "confirmed"
          /\ new.payload \in Payloads
       \/ /\ new.rev = old.rev + 1 /\ new.payload = old.payload /\ old.status # "none"

LEMMA ToldAfter ==
    ASSUME NEW old \in CandRow, NEW new \in CandRow, Moves(old, new),
           NEW said, Told(old, said), NEW later,
           later = IF new.rev = old.rev THEN said ELSE Append(said, new.payload)
    PROVE  Told(new, later)
<1>1. /\ said \in Seq(Payloads) /\ Len(said) = old.rev /\ old.rev \in Nat /\ new.rev \in Nat
      /\ old.status = "none" <=> old.rev = 0
      /\ old.rev > 0 => old.payload \in Payloads /\ said[old.rev] = old.payload
      /\ old.status = "confirmed" => old.rev > 1 /\ said[old.rev - 1] = old.payload
  BY DEF Told, CandRow
<1>2. CASE new.rev = old.rev
  <2>1. new.payload = old.payload /\ new.status = old.status /\ later = said
    BY <1>1, <1>2 DEF Moves
  <2> QED BY <1>1, <1>2, <2>1 DEF Told
<1>3. CASE new.rev = old.rev + 1
  <2>1. later = Append(said, new.payload) /\ new.status # "none"
    BY <1>1, <1>3 DEF Moves
  <2>2. new.payload \in Payloads
    BY <1>1, <1>3 DEF Moves
  <2>3. /\ later \in Seq(Payloads) /\ Len(later) = new.rev /\ later[new.rev] = new.payload
        /\ \A i \in 1..old.rev : later[i] = said[i]
    BY <1>1, <1>3, <2>1, <2>2
  <2>4. new.status = "confirmed" => new.rev > 1 /\ later[new.rev - 1] = new.payload
    <3>1. SUFFICES ASSUME new.status = "confirmed" PROVE new.rev > 1 /\ later[new.rev - 1] = new.payload
      OBVIOUS
    <3>2. new.payload = old.payload /\ old.status # "none"
      BY <1>1, <1>3, <3>1 DEF Moves
    <3>3. old.rev > 0 /\ old.rev \in 1..old.rev /\ new.rev - 1 = old.rev
      BY <1>1, <1>3, <3>2
    <3> QED BY <1>1, <1>3, <2>3, <3>2, <3>3
  <2> QED BY <1>1, <1>3, <2>1, <2>2, <2>3, <2>4 DEF Told
<1> QED BY <1>2, <1>3 DEF Moves

Installs(db) ==
    /\ Rows(db) /\ Once(db) /\ OneAnswer(db.st)
    /\ \A c \in Candidates : Moves(cand[c], db.cand[c])

LEMMA InstallKeeps ==
    ASSUME IInv, NEW db, Install(db), Installs(db)
    PROVE  IInv'
<1>1. /\ cand' = db.cand /\ records' = db.rec /\ states' = db.st /\ node' = db.node
      /\ position' = db.pos /\ UNCHANGED entity
      /\ shown' = [c \in Candidates |->
             IF db.cand[c].rev = cand[c].rev THEN shown[c] ELSE Append(shown[c], db.cand[c].payload)]
  BY DEF Install
<1>2. Rows(Db)' /\ Once(Db)' /\ OneAnswer(states)'
  BY <1>1 DEF Installs, Rows, Once, MadeIn, Db
<1>3. Outlined'
  BY <1>1 DEF IInv, Outlined
<1>4. DOMAIN shown' = Candidates
  BY <1>1
<1>5. ASSUME NEW c \in Candidates PROVE Told(cand'[c], shown'[c])
  <2>1. Told(cand[c], shown[c]) /\ cand[c] \in CandRow /\ cand'[c] \in CandRow
    BY <1>1 DEF IInv, History, Rows, Db, Installs
  <2>2. Moves(cand[c], cand'[c])
    BY <1>1 DEF Installs
  <2>3. shown'[c] = IF cand'[c].rev = cand[c].rev THEN shown[c] ELSE Append(shown[c], cand'[c].payload)
    BY <1>1
  <2> QED BY <2>1, <2>2, <2>3, ToldAfter
<1>6. ASSUME NEW c \in Imported PROVE cand'[c].status # "none"
  <2>1. c \in Candidates /\ cand[c].status # "none"
    BY DEF Candidates, IInv, History
  <2> QED BY <1>1, <2>1 DEF Installs, Moves
<1> QED BY <1>2, <1>3, <1>4, <1>5, <1>6 DEF IInv, History

(* A request that changes one candidate's row and nothing of the book. *)
LEMMA ChangedInstalls ==
    ASSUME IInv, NEW c \in Candidates, NEW row \in CandRow, Moves(cand[c], row),
           Due(row) = Due(cand[c])
    PROVE  Installs(Changed(c, row))
<1> DEFINE db == Changed(c, row)
<1>1. /\ db.cand = [cand EXCEPT ![c] = row] /\ db.rec = records /\ db.st = states /\ db.node = node
      /\ db.pos = position
  BY DEF Changed, Db
<1>2. /\ cand \in [Candidates -> CandRow] /\ records \in Seq(RecordRow)
      /\ states \in Seq(StateRow) /\ node \in [Nodes -> NodeRow]
      /\ position \in [Nodes -> Nodes]
  BY DEF IInv, Rows, Db
<1> HIDE DEF db
<1>3. Rows(db)
  BY <1>1, <1>2 DEF Rows
<1>4. /\ db.cand[c] = row /\ \A d \in Candidates \ {c} : db.cand[d] = cand[d]
  BY <1>1, <1>2
<1>5. Once(db)
  <2> SUFFICES ASSUME NEW d \in Candidates PROVE MadeIn(db, d) = Due(db.cand[d])
    BY DEF Once
  <2>1. MadeIn(db, d) = MadeIn(Db, d) /\ MadeIn(Db, d) = Due(cand[d])
    BY <1>1 DEF MadeIn, IInv, Once, Db
  <2> QED BY <1>4, <2>1
<1>6. OneAnswer(db.st)
  BY <1>1 DEF IInv
<1>7. \A d \in Candidates : Moves(cand[d], db.cand[d])
  <2>1. ASSUME NEW d \in Candidates \ {c} PROVE Moves(cand[d], db.cand[d])
    <3>1. db.cand[d] = cand[d]
      BY <1>4
    <3> QED BY <3>1 DEF Moves
  <2> QED BY <1>4, <2>1
<1> QED BY <1>3, <1>5, <1>6, <1>7 DEF Installs, db

(* A promotion of what the candidate says. *)
LEMMA PromotedInstalls ==
    ASSUME NEW db, Rows(db), Once(db), OneAnswer(db.st), NEW c \in Candidates,
           NEW p \in Payloads, p = db.cand[c].payload, db.cand[c].status # "confirmed",
           Promotable(db, c, p)
    PROVE  LET later == Promoted(db, c, p) IN
           /\ Rows(later) /\ Once(later) /\ OneAnswer(later.st) /\ Promotes(db, c, p, later)
<1> DEFINE later == Promoted(db, c, p)
<1>1. Promotes(db, c, p, later)
  BY PromotedEffect
<1> HIDE DEF later
<1>2. Rows(later) /\ Once(later) /\ OneAnswer(later.st)
  BY <1>1, PromotedRows, PromotedCounts, PromotedAnswers
<1> QED BY <1>1, <1>2 DEF later

LEMMA SettlesMoves ==
    ASSUME NEW old, NEW new, Settles(old, new), old.status # "none"
    PROVE  Moves(old, new)
  BY DEF Settles, Moves

-----------------------------------------------------------------------------
(* One lemma per request of the candidates.                                 *)

LEMMA RowOf ==
    ASSUME IInv, NEW c \in Candidates
    PROVE  /\ cand[c] \in CandRow /\ Told(cand[c], shown[c])
           /\ c \in Imported => cand[c].status # "none"
           /\ cand[c].status # "none" => cand[c].payload \in Payloads
           /\ cand[c].rev \in Nat /\ (cand[c].rev = 0 <=> cand[c].status = "none")
           /\ DOMAIN cand = Candidates
<1>1. cand[c] \in CandRow /\ Told(cand[c], shown[c]) /\ DOMAIN cand = Candidates
  BY DEF IInv, Rows, Db, History
<1>2. cand[c].rev \in Nat
  BY <1>1 DEF CandRow
<1>3. cand[c].rev = 0 <=> cand[c].status = "none"
  BY <1>1 DEF Told
<1>4. cand[c].status # "none" => cand[c].payload \in Payloads
  BY <1>1, <1>2, <1>3 DEF Told
<1> QED BY <1>1, <1>2, <1>3, <1>4 DEF IInv, History

LEMMA SilentAnswer == ASSUME answer' = NoAnswer PROVE AsShown'
  BY DEF AsShown

LEMMA PersistStep == ASSUME IInv, NEW c, NEW p \in Payloads, Persist(c, p) PROVE IInv' /\ AsShown'
<1>1. c \in Candidates /\ cand[c].status = "none" /\ Install(Changed(c, Born(p)))
  BY DEF Persist, Candidates
<1>2. cand[c].rev = 0
  BY <1>1, RowOf
<1>3. Born(p) \in CandRow /\ Moves(cand[c], Born(p)) /\ Due(Born(p)) = Due(cand[c])
  BY <1>1, <1>2 DEF Born, CandRow, Moves, Due
<1> HIDE DEF Born
<1>4. Installs(Changed(c, Born(p)))
  BY <1>1, <1>3, ChangedInstalls
<1>5. IInv'
  BY <1>1, <1>4, InstallKeeps
<1> QED BY <1>5, SilentAnswer DEF Persist

(* A row that is not confirmed, and says something else or has another status. *)
LEMMA OpenRow ==
    ASSUME IInv, NEW c \in Candidates, NEW p \in Payloads,
           NEW s \in {"pending", "conflict", "rejected"},
           cand[c].status \notin {"none", "confirmed"},
           NEW row \in CandRow, row.status = s, row.rev = cand[c].rev + 1, row.payload = p,
           Install(Changed(c, row))
    PROVE  IInv'
<1>1. cand[c].rev \in Nat
  BY RowOf
<1>2. Moves(cand[c], row) /\ Due(row) = Due(cand[c])
  BY <1>1 DEF Moves, Due
<1>3. Installs(Changed(c, row))
  BY <1>2, ChangedInstalls
<1> QED BY <1>3, InstallKeeps

LEMMA EditStep ==
    ASSUME IInv, NEW c, NEW r, NEW p \in Payloads, EditGenerated(c, r, p) \/ EditImport(c, r, p)
    PROVE  IInv' /\ AsShown'
<1> DEFINE old  == cand[c]
           kept == [old EXCEPT !.payload = p, !.rev = @ + 1]
           row  == [old EXCEPT !.payload = p, !.status = "pending", !.rev = @ + 1]
<1>1. /\ c \in Candidates /\ old.status \in {"pending", "conflict"} /\ answer' = NoAnswer
      /\ (Install(Changed(c, kept)) /\ old.status = "pending") \/ Install(Changed(c, row))
  BY DEF EditGenerated, EditImport, Candidates, Pending
<1>2. old \in CandRow /\ old.rev + 1 \in Nat
  BY <1>1, RowOf
<1>3. /\ row \in CandRow /\ row.status = "pending" /\ row.rev = old.rev + 1 /\ row.payload = p
      /\ kept \in CandRow /\ kept.status = old.status /\ kept.rev = old.rev + 1 /\ kept.payload = p
  <2> HIDE DEF old
  <2> QED BY <1>2 DEF CandRow
<1> HIDE DEF kept, row
<1>4. IInv'
  BY <1>1, <1>3, OpenRow
<1> QED BY <1>1, <1>4, SilentAnswer

LEMMA RejectStep ==
    ASSUME IInv, NEW c, NEW r, RejectGenerated(c, r) \/ RejectImport(c, r)
    PROVE  IInv' /\ AsShown'
<1> DEFINE old == cand[c]
           row == [old EXCEPT !.status = "rejected", !.rev = @ + 1]
<1>1. /\ c \in Candidates /\ old.status \in {"pending", "conflict"} /\ answer' = NoAnswer
      /\ Install(Changed(c, row))
  BY DEF RejectGenerated, RejectImport, Candidates, Pending
<1>2. old \in CandRow /\ old.payload \in Payloads /\ old.rev + 1 \in Nat
  BY <1>1, RowOf
<1>3. /\ row \in CandRow /\ row.status = "rejected" /\ row.rev = old.rev + 1
      /\ row.payload = old.payload
  <2> HIDE DEF old
  <2> QED BY <1>2 DEF CandRow
<1> HIDE DEF row
<1>4. IInv'
  BY <1>1, <1>2, <1>3, OpenRow
<1> QED BY <1>1, <1>4, SilentAnswer

LEMMA ConsolidateStep == ASSUME IInv, NEW c, Consolidate(c) PROVE IInv' /\ AsShown'
<1> DEFINE old == cand[c]
           row == [old EXCEPT !.rev = @ + 1,
                              !.status = IF @ = "pending" THEN "conflict" ELSE @]
<1>1. c \in Candidates /\ c \in Imported /\ answer' = NoAnswer /\ Install(Changed(c, row))
  BY DEF Consolidate, Candidates
<1>2. /\ old \in CandRow /\ old.payload \in Payloads /\ old.status # "none"
      /\ old.rev \in Nat /\ old.rev + 1 \in Nat
  BY <1>1, RowOf
<1>3. /\ row \in CandRow /\ row.rev = old.rev + 1 /\ row.payload = old.payload
      /\ row.status = IF old.status = "pending" THEN "conflict" ELSE old.status
  <2> HIDE DEF old
  <2> QED BY <1>2 DEF CandRow
<1>4. Moves(old, row) /\ Due(row) = Due(old)
  <2> HIDE DEF old, row
  <2> QED BY <1>2, <1>3 DEF Moves, Due, CandRow
<1> HIDE DEF row
<1>5. IInv'
  BY <1>1, <1>3, <1>4, ChangedInstalls, InstallKeeps
<1> QED BY <1>1, <1>5, SilentAnswer

(* What a page that is answered "confirmed" had shown. *)
LEMMA CurrentShown ==
    ASSUME IInv, NEW c \in Candidates, NEW r, Current(c, r), cand[c].status # "none"
    PROVE  r \in DOMAIN shown[c] /\ shown[c][r] = cand[c].payload
<1>1. /\ cand[c].rev = r /\ cand[c].rev \in Nat /\ cand[c].rev # 0 /\ Told(cand[c], shown[c])
  BY RowOf DEF Current
<1>2. shown[c] \in Seq(Payloads) /\ Len(shown[c]) = r /\ r > 0 /\ shown[c][r] = cand[c].payload
  BY <1>1 DEF Told
<1> QED BY <1>1, <1>2

LEMMA RepeatShown ==
    ASSUME IInv, NEW c \in Candidates, NEW r, Repeats(c, r)
    PROVE  /\ shown[c][r] = Written(c) /\ Written(c) = cand[c].payload
           /\ cand[c].status = "confirmed" /\ r \in DOMAIN shown[c]
<1>1. /\ cand[c].status = "confirmed" /\ r \in {cand[c].rev, cand[c].rev - 1}
      /\ cand[c].rev \in Nat /\ Told(cand[c], shown[c])
  BY RowOf DEF Repeats
<1>2. /\ cand[c].rev > 1 /\ shown[c][cand[c].rev - 1] = cand[c].payload
      /\ shown[c][cand[c].rev] = cand[c].payload
      /\ shown[c] \in Seq(Payloads) /\ Len(shown[c]) = cand[c].rev
  BY <1>1 DEF Told
<1> QED BY <1>1, <1>2 DEF Written

(* An answer about a revision that was shown stays true of it. *)
LEMMA AnswerShown ==
    ASSUME IInv, NEW c \in Candidates, NEW r \in DOMAIN shown[c], NEW separate,
           Answer(c, r, shown[c][r], separate), NEW db, Install(db)
    PROVE  AsShown'
<1>1. shown[c] \in Seq(Payloads)
  BY RowOf DEF Told
<1>2. shown'[c] = shown[c] \/ shown'[c] = Append(shown[c], db.cand[c].payload)
  BY DEF Install
<1>3. shown'[c][r] = shown[c][r]
  <2>1. r \in 1..Len(shown[c])
    BY <1>1
  <2> QED BY <1>1, <1>2, <2>1
<1>4. answer'.payload = shown[c][r] /\ answer'.cand = c /\ answer'.rev = r
  BY DEF Answer
<1> QED BY <1>3, <1>4 DEF AsShown

LEMMA PromoteStep ==
    ASSUME IInv, NEW c \in Candidates, NEW r, Current(c, r), Promotable(Db, c, cand[c].payload),
           cand[c].status \in {"pending", "conflict"},
           Install(Promoted(Db, c, cand[c].payload)), NEW separate,
           Answer(c, r, cand[c].payload, separate)
    PROVE  IInv' /\ AsShown'
<1> DEFINE p == cand[c].payload
           db == Promoted(Db, c, p)
<1>1. p \in Payloads /\ Db.cand = cand
  BY RowOf DEF Db
<1>2. Rows(db) /\ Once(db) /\ OneAnswer(db.st) /\ Promotes(Db, c, p, db)
  <2>1. Rows(Db) /\ Once(Db) /\ OneAnswer(Db.st)
    BY DEF IInv, Db
  <2> HIDE DEF p
  <2>2. p = Db.cand[c].payload /\ Db.cand[c].status # "confirmed" /\ Promotable(Db, c, p)
    BY <1>1 DEF p
  <2> QED BY <1>1, <2>1, <2>2, PromotedInstalls
<1> HIDE DEF db
<1>3. \A d \in Candidates : Moves(cand[d], db.cand[d])
  <2>1. Settles(cand[c], db.cand[c]) /\ \A d \in Candidates \ {c} : db.cand[d] = cand[d]
    BY <1>1, <1>2 DEF Promotes
  <2>2. Moves(cand[c], db.cand[c])
    BY <2>1, SettlesMoves
  <2>3. ASSUME NEW d \in Candidates \ {c} PROVE Moves(cand[d], db.cand[d])
    BY <2>1 DEF Moves
  <2> QED BY <2>2, <2>3
<1>4. Install(db)
  BY DEF db
<1>5. IInv'
  BY <1>2, <1>3, <1>4, InstallKeeps DEF Installs
<1>6. r \in DOMAIN shown[c] /\ shown[c][r] = cand[c].payload
  BY CurrentShown
<1>7. AsShown'
  BY <1>4, <1>6, AnswerShown
<1> QED BY <1>5, <1>7

LEMMA ConfirmGeneratedStep ==
    ASSUME IInv, AsShown, NEW c, NEW r, ConfirmGenerated(c, r)
    PROVE  IInv' /\ AsShown'
<1>1. c \in Candidates
  BY DEF ConfirmGenerated, Candidates
<1>2. CASE /\ Repeats(c, r) /\ Answer(c, r, Written(c), FALSE)
           /\ UNCHANGED <<stateVars, cand, records, document, acts, shown>>
  <2>1. shown[c][r] = Written(c)
    BY <1>1, <1>2, RepeatShown
  <2>2. AsShown'
    BY <1>2, <2>1 DEF Answer, AsShown
  <2>3. UNCHANGED <<position, node, entity, states, cand, records, shown>>
    BY <1>2 DEF stateVars
  <2>4. IInv'
    BY <2>3 DEF IInv, Rows, Outlined, Once, MadeIn, OneAnswer, Confirmed, History, Db
  <2> QED BY <2>2, <2>4
<1>3. CASE /\ Current(c, r) /\ Pending(c) /\ Promotable(Db, c, cand[c].payload)
           /\ Install(Promoted(Db, c, cand[c].payload)) /\ Answer(c, r, cand[c].payload, FALSE)
  BY <1>1, <1>3, PromoteStep DEF Pending
<1> QED BY <1>2, <1>3 DEF ConfirmGenerated

(* The seal a repetition may put on an older confirmation. *)
LEMMA SealedDb ==
    ASSUME IInv, NEW c \in Candidates, cand[c].status # "none"
    PROVE  /\ Installs(Sealed(c))
           /\ Sealed(c).rec = records /\ Sealed(c).st = states /\ Sealed(c).node = node
           /\ Sealed(c).pos = position
           /\ \A d \in Candidates \ {c} : Sealed(c).cand[d] = cand[d]
<1> DEFINE old == cand[c]
           row == [old EXCEPT !.sealed = TRUE]
<1>1. old \in CandRow /\ DOMAIN cand = Candidates
  BY RowOf
<1>2. /\ row \in CandRow /\ row.rev = old.rev /\ row.payload = old.payload
      /\ row.status = old.status
  <2> HIDE DEF old
  <2> QED BY <1>1 DEF CandRow
<1>3. Moves(old, row) /\ Due(row) = Due(old)
  <2> HIDE DEF old, row
  <2> QED BY <1>2 DEF Moves, Due
<1>4. Sealed(c) = Changed(c, row)
  BY DEF Sealed
<1> HIDE DEF row
<1>5. Installs(Sealed(c))
  BY <1>2, <1>3, <1>4, ChangedInstalls
<1>6. /\ Sealed(c).rec = records /\ Sealed(c).st = states /\ Sealed(c).node = node
      /\ Sealed(c).pos = position /\ Sealed(c).cand = [cand EXCEPT ![c] = row]
  BY <1>4 DEF Changed, Db
<1> QED BY <1>1, <1>5, <1>6

LEMMA ConfirmImportStep ==
    ASSUME IInv, NEW c, NEW r, NEW separate \in BOOLEAN, ConfirmImport(c, r, separate)
    PROVE  IInv' /\ AsShown'
<1>1. c \in Candidates /\ c \in Imported
  BY DEF ConfirmImport, Candidates
<1>2. CASE Repeats(c, r) /\ Install(Sealed(c)) /\ Answer(c, r, Written(c), FALSE)
  <2>1. /\ shown[c][r] = Written(c) /\ cand[c].status = "confirmed" /\ r \in DOMAIN shown[c]
    BY <1>1, <1>2, RepeatShown
  <2>2. IInv'
    BY <1>1, <1>2, <2>1, SealedDb, InstallKeeps
  <2>3. AsShown'
    BY <1>1, <1>2, <2>1, AnswerShown
  <2> QED BY <2>2, <2>3
<1>3. CASE /\ Openable(Db, c, r, separate) /\ ~separate
           /\ Install(Changed(c, [cand[c] EXCEPT !.status = "conflict", !.rev = @ + 1]))
           /\ answer' = NoAnswer
  <2> DEFINE old == cand[c]
             row == [old EXCEPT !.status = "conflict", !.rev = @ + 1]
  <2>1. old.status = "pending" /\ Install(Changed(c, row))
    BY <1>3 DEF Openable, Db
  <2>2. old \in CandRow /\ old.payload \in Payloads /\ old.rev + 1 \in Nat
    BY <1>1, RowOf
  <2>3. /\ row \in CandRow /\ row.status = "conflict" /\ row.rev = old.rev + 1
        /\ row.payload = old.payload
    <3> HIDE DEF old
    <3> QED BY <2>2 DEF CandRow
  <2> HIDE DEF row
  <2>4. IInv'
    BY <1>1, <2>1, <2>2, <2>3, OpenRow
  <2> QED BY <1>3, <2>4, SilentAnswer
<1>4. CASE /\ Openable(Db, c, r, separate) /\ Promotable(Db, c, cand[c].payload)
           /\ Install(Promoted(Db, c, cand[c].payload)) /\ Answer(c, r, cand[c].payload, separate)
  <2>1. Current(c, r) /\ cand[c].status \in {"pending", "conflict"}
    BY <1>4 DEF Openable, Current, Db
  <2> QED BY <1>1, <1>4, <2>1, PromoteStep
<1> QED BY <1>2, <1>3, <1>4 DEF ConfirmImport

(* The database in the middle of a bulk confirmation, and at its end. *)
LEMMA BulkEffect ==
    ASSUME IInv, NEW c, NEW d, NEW q, NEW r, BulkConfirm(c, d, q, r)
    PROVE  LET one == Promoted(Db, c, cand[c].payload)
               two == Promoted(one, d, cand[d].payload) IN
           /\ c \in Candidates /\ d \in Candidates /\ c # d /\ c \in Imported /\ d \in Imported
           /\ cand[c].payload \in Payloads /\ cand[d].payload \in Payloads
           /\ cand[c].status = "pending" /\ cand[d].status = "pending"
           /\ Promotes(Db, c, cand[c].payload, one) /\ Rows(one)
           /\ Promotes(one, d, cand[d].payload, two)
           /\ Rows(two) /\ Once(two) /\ OneAnswer(two.st)
           /\ ~Conflict(Db, cand[c].payload) /\ ~Conflict(one, cand[d].payload)
           /\ Current(d, r)
<1> DEFINE p == cand[c].payload
           s == cand[d].payload
           one == Promoted(Db, c, p)
           two == Promoted(one, d, s)
<1>1. /\ c \in Candidates /\ d \in Candidates /\ c # d /\ c \in Imported /\ d \in Imported
      /\ cand[c].status = "pending" /\ cand[d].status = "pending" /\ Current(d, r)
      /\ Clean(Db, c, q) /\ Opened(Db, c, q) /\ Opened(one, d, r)
  BY DEF BulkConfirm, Clean, Openable, Current, Db, Candidates
<1>2. p \in Payloads /\ s \in Payloads /\ Db.cand = cand
  BY <1>1, RowOf DEF Db
<1>3. /\ Rows(Db) /\ Once(Db) /\ OneAnswer(Db.st)
      /\ Promotable(Db, c, p) /\ ~Conflict(Db, p)
  BY <1>1 DEF IInv, Db, Clean, Opened
<1>4. Rows(one) /\ Once(one) /\ OneAnswer(one.st) /\ Promotes(Db, c, p, one)
  <2>1. p = Db.cand[c].payload /\ Db.cand[c].status # "confirmed"
    BY <1>1, <1>2
  <2> HIDE DEF p
  <2> QED BY <1>1, <1>2, <1>3, <2>1, PromotedInstalls
<1> HIDE DEF one
<1>5. one.cand[d] = cand[d]
  BY <1>1, <1>2, <1>4 DEF Promotes
<1>6. Promotable(one, d, s) /\ ~Conflict(one, s)
  BY <1>1, <1>5 DEF Clean, Opened
<1>7. Rows(two) /\ Once(two) /\ OneAnswer(two.st) /\ Promotes(one, d, s, two)
  <2>1. s = one.cand[d].payload /\ one.cand[d].status # "confirmed"
    BY <1>1, <1>5
  <2> HIDE DEF s
  <2> QED BY <1>1, <1>2, <1>4, <1>6, <2>1, PromotedInstalls
<1> HIDE DEF two
<1> QED BY <1>1, <1>2, <1>3, <1>4, <1>6, <1>7 DEF one, two

LEMMA BulkConfirmStep ==
    ASSUME IInv, NEW c, NEW d, NEW q, NEW r, BulkConfirm(c, d, q, r)
    PROVE  IInv' /\ AsShown'
<1> DEFINE one == Promoted(Db, c, cand[c].payload)
           two == Promoted(one, d, cand[d].payload)
<1>1. /\ c \in Candidates /\ d \in Candidates /\ c # d
      /\ cand[c].status = "pending" /\ cand[d].status = "pending"
      /\ Promotes(Db, c, cand[c].payload, one) /\ Promotes(one, d, cand[d].payload, two)
      /\ Rows(two) /\ Once(two) /\ OneAnswer(two.st) /\ Current(d, r)
  BY BulkEffect
<1>2. Install(two) /\ Answer(d, r, cand[d].payload, FALSE)
  BY DEF BulkConfirm
<1> HIDE DEF one, two
<1>3. /\ Settles(cand[c], two.cand[c]) /\ Settles(cand[d], two.cand[d])
      /\ \A e \in Candidates \ {c, d} : two.cand[e] = cand[e]
  BY <1>1 DEF Promotes, Db
<1>4. \A e \in Candidates : Moves(cand[e], two.cand[e])
  <2>1. Moves(cand[c], two.cand[c]) /\ Moves(cand[d], two.cand[d])
    BY <1>1, <1>3, SettlesMoves
  <2>2. \A e \in Candidates \ {c, d} : Moves(cand[e], two.cand[e])
    BY <1>3 DEF Moves
  <2> QED BY <2>1, <2>2
<1>5. IInv'
  BY <1>1, <1>2, <1>4, InstallKeeps DEF Installs
<1>6. r \in DOMAIN shown[d] /\ shown[d][r] = cand[d].payload
  BY <1>1, CurrentShown
<1>7. AsShown'
  BY <1>1, <1>2, <1>6, AnswerShown
<1> QED BY <1>5, <1>7

LEMMA RepeatEffect ==
    ASSUME IInv, NEW c, NEW d, NEW q, NEW r, BulkRepeat(c, d, q, r)
    PROVE  LET later == Promoted(Sealed(c), d, cand[d].payload) IN
           /\ c \in Candidates /\ d \in Candidates /\ c # d /\ c \in Imported /\ d \in Imported
           /\ cand[c].status = "confirmed" /\ cand[d].status = "pending"
           /\ cand[d].payload \in Payloads /\ ~Conflict(Sealed(c), cand[d].payload)
           /\ Current(d, r)
           /\ Installs(Sealed(c)) /\ Promotes(Sealed(c), d, cand[d].payload, later)
           /\ Rows(later) /\ Once(later) /\ OneAnswer(later.st)
<1> DEFINE s == cand[d].payload
           db == Sealed(c)
           later == Promoted(db, d, s)
<1>1. /\ c \in Candidates /\ d \in Candidates /\ c # d /\ c \in Imported /\ d \in Imported
      /\ cand[c].status = "confirmed" /\ cand[d].status = "pending" /\ Current(d, r)
      /\ Opened(db, d, r)
  BY DEF BulkRepeat, Repeats, Clean, Openable, Current, Db, Candidates
<1>2. s \in Payloads
  BY <1>1, RowOf
<1>3. /\ Installs(db) /\ db.rec = records /\ db.st = states /\ db.node = node
      /\ db.cand[d] = cand[d]
  BY <1>1, SealedDb
<1> HIDE DEF db
<1>4. Promotable(db, d, s) /\ ~Conflict(db, s)
  BY <1>1, <1>3 DEF Opened, Clean
<1>5. Rows(later) /\ Once(later) /\ OneAnswer(later.st) /\ Promotes(db, d, s, later)
  <2>1. /\ s = db.cand[d].payload /\ db.cand[d].status # "confirmed"
        /\ Rows(db) /\ Once(db) /\ OneAnswer(db.st)
    BY <1>1, <1>3 DEF Installs
  <2> HIDE DEF s
  <2> QED BY <1>1, <1>2, <1>4, <2>1, PromotedInstalls
<1> HIDE DEF later
<1> QED BY <1>1, <1>2, <1>3, <1>4, <1>5 DEF later, db

LEMMA BulkRepeatStep ==
    ASSUME IInv, NEW c, NEW d, NEW q, NEW r, BulkRepeat(c, d, q, r)
    PROVE  IInv' /\ AsShown'
<1> DEFINE db == Sealed(c)
           later == Promoted(db, d, cand[d].payload)
<1>1. /\ c \in Candidates /\ d \in Candidates /\ c # d
      /\ cand[c].status = "confirmed" /\ cand[d].status = "pending"
      /\ Installs(db) /\ Promotes(db, d, cand[d].payload, later)
      /\ Rows(later) /\ Once(later) /\ OneAnswer(later.st) /\ Current(d, r)
  BY RepeatEffect
<1>2. \A e \in Candidates \ {c} : db.cand[e] = cand[e]
  BY <1>1, SealedDb
<1>3. Install(later) /\ Answer(d, r, cand[d].payload, FALSE)
  BY DEF BulkRepeat
<1> HIDE DEF db, later
<1>4. ASSUME NEW e \in Candidates PROVE Moves(cand[e], later.cand[e])
  <2>1. CASE e = d
    BY <1>1, <1>2, <2>1, SettlesMoves DEF Promotes
  <2>2. CASE e # d
    BY <1>1, <2>2 DEF Promotes, Installs
  <2> QED BY <2>1, <2>2
<1>5. IInv'
  BY <1>1, <1>3, <1>4, InstallKeeps DEF Installs
<1>6. r \in DOMAIN shown[d] /\ shown[d][r] = cand[d].payload
  BY <1>1, CurrentShown
<1>7. AsShown'
  BY <1>1, <1>3, <1>6, AnswerShown
<1> QED BY <1>5, <1>7

-----------------------------------------------------------------------------
(* The author's own work.                                                   *)

LEMMA OwnStep ==
    ASSUME IInv, NEW later \in Seq(RecordRow), Own(later),
           \A c \in Candidates : By(later, c) = By(records, c)
    PROVE  IInv' /\ AsShown'
<1>1. /\ records' = later /\ answer' = NoAnswer
      /\ UNCHANGED <<position, node, entity, states, cand, shown>>
  BY DEF Own, Act, stateVars
<1>2. Rows(Db)' /\ Once(Db)'
  BY <1>1 DEF IInv, Rows, Once, MadeIn, Db
<1>3. Outlined' /\ OneAnswer(states)' /\ History'
  BY <1>1 DEF IInv, Outlined, OneAnswer, Confirmed, History
<1> QED BY <1>1, <1>2, <1>3, SilentAnswer DEF IInv

LEMMA CreateRecordStep == ASSUME IInv, NEW p \in Records, CreateRecord(p) PROVE IInv' /\ AsShown'
<1> DEFINE r == Record(p, 0)
<1>1. r \in RecordRow /\ r.by = 0
  BY RecordIsRow DEF Authors
<1>2. records \in Seq(RecordRow) /\ Own(Append(records, r))
  BY DEF IInv, Rows, Db, CreateRecord
<1> HIDE DEF r
<1>3. ASSUME NEW c \in Candidates PROVE By(Append(records, r), c) = By(records, c)
  <2>1. c # 0
    BY CandidatesAssumption
  <2> QED BY <1>1, <1>2, <2>1, Appended DEF By
<1>4. Append(records, r) \in Seq(RecordRow)
  BY <1>1, <1>2
<1> QED BY <1>2, <1>3, <1>4, OwnStep

LEMMA RecordStep ==
    ASSUME IInv, NEW i \in DOMAIN records,
           \/ \E p \in Records : EditRecord(i, p)
           \/ TrashRecord(i) \/ RestoreRecord(i) \/ PurgeRecord(i)
    PROVE  IInv' /\ AsShown'
<1>1. PICK row : /\ Own([records EXCEPT ![i] = row]) /\ row \in RecordRow
                 /\ row.by = records[i].by
  <2> DEFINE old == records[i]
  <2>1. old \in RecordRow
    BY DEF IInv, Rows, Db
  <2>2. CASE \E p \in Records : EditRecord(i, p)
    <3> PICK p \in Records : EditRecord(i, p)
      BY <2>2
    <3> DEFINE row == [old EXCEPT !.payload = p]
    <3>1. Own([records EXCEPT ![i] = row])
      BY DEF EditRecord
    <3>2. row \in RecordRow /\ row.by = old.by
      <4> HIDE DEF old
      <4> QED BY <2>1 DEF RecordRow
    <3> HIDE DEF row
    <3> QED BY <3>1, <3>2
  <2>3. CASE TrashRecord(i) \/ RestoreRecord(i) \/ PurgeRecord(i)
    <3> PICK s \in {"live", "trash", "purged"} : Own([records EXCEPT ![i].status = s])
      BY <2>3 DEF TrashRecord, RestoreRecord, PurgeRecord
    <3> DEFINE row == [old EXCEPT !.status = s]
    <3>1. Own([records EXCEPT ![i] = row])
      OBVIOUS
    <3>2. row \in RecordRow /\ row.by = old.by
      <4> HIDE DEF old
      <4> QED BY <2>1 DEF RecordRow
    <3> HIDE DEF row
    <3> QED BY <3>1, <3>2
  <2> QED BY <2>2, <2>3
<1> DEFINE later == [records EXCEPT ![i] = row]
<1>2. records \in Seq(RecordRow)
  BY DEF IInv, Rows, Db
<1>3. later \in Seq(RecordRow) /\ DOMAIN later = DOMAIN records
  BY <1>1, <1>2
<1>4. \A k \in DOMAIN records : later[k].by = records[k].by
  BY <1>1, <1>2
<1> HIDE DEF later
<1>5. \A c : By(later, c) = By(records, c)
  BY <1>3, <1>4, SameAuthors
<1> QED BY <1>1, <1>3, <1>5, OwnStep DEF later

LEMMA SourceStep == ASSUME IInv, TrashSource \/ RestoreSource PROVE IInv' /\ AsShown'
<1>1. answer' = NoAnswer /\ UNCHANGED <<position, node, entity, states, cand, records, shown>>
  BY DEF TrashSource, RestoreSource, Act, stateVars
<1>2. IInv'
  BY <1>1 DEF IInv, Rows, Outlined, Once, MadeIn, OneAnswer, Confirmed, History, Db
<1> QED BY <1>1, <1>2, SilentAnswer

(* A step that changes the dated states and nothing else of the book. *)
LEMMA StatesKept ==
    ASSUME IInv, NEW later \in Seq(StateRow), states' = later, OneAnswer(later),
           \A c \in Candidates : By(later, c) = By(states, c),
           UNCHANGED <<position, node, entity, cand, records, shown>>
    PROVE  IInv'
<1>1. Rows(Db)' /\ Once(Db)'
  BY DEF IInv, Rows, Once, MadeIn, Db
<1>2. Outlined' /\ OneAnswer(states)' /\ History'
  BY DEF IInv, Outlined, OneAnswer, Confirmed, History
<1> QED BY <1>1, <1>2 DEF IInv

LEMMA CreateStateStep ==
    ASSUME IInv, NEW s \in StateInputs, CreateState(s), UNCHANGED <<cand, records, shown>>
    PROVE  IInv'
<1> DEFINE row == Row(s, NoNode)
           later == Append(states, row)
<1>1. /\ s \in StateValues /\ NoNode \in Authors /\ states \in Seq(StateRow)
      /\ GateOpen(s, Confirmed(states)) /\ OneAnswer(states)
      /\ states' = later /\ UNCHANGED <<position, node, entity>>
  BY InputsAssumption DEF CreateState, Creatable, IInv, Rows, Db, Authors, NoNode
<1>2. OneAnswer(later)
  BY <1>1, AppendedAnswer
<1>3. row \in StateRow /\ row.by = 0
  BY <1>1, RowIsStateRow DEF NoNode
<1> HIDE DEF row
<1>4. ASSUME NEW c \in Candidates PROVE By(later, c) = By(states, c)
  <2>1. c # 0
    BY CandidatesAssumption
  <2> QED BY <1>1, <1>3, <2>1, Appended DEF By
<1>5. later \in Seq(StateRow)
  BY <1>1, <1>3
<1> HIDE DEF later
<1> QED BY <1>1, <1>2, <1>4, <1>5, StatesKept

(* A row is rewritten while it waits, or retracted. *)
LEMMA EditStateStep ==
    ASSUME IInv, NEW i \in DOMAIN states, NEW row \in StateRow, row.by = states[i].by,
           EditState(i, row), UNCHANGED <<cand, records, shown>>
    PROVE  IInv'
<1> DEFINE later == [states EXCEPT ![i] = row]
<1>1. /\ states \in Seq(StateRow) /\ OneAnswer(states)
      /\ states' = later /\ UNCHANGED <<position, node, entity>>
  BY DEF EditState, IInv, Rows, Db
<1>2. /\ later \in Seq(StateRow) /\ DOMAIN later = DOMAIN states /\ later[i] = row
      /\ \A k \in DOMAIN states \ {i} : later[k] = states[k]
  BY <1>1
<1>3. row.status = "confirmed" => GateOpen(row, Confirmed(states) \ {i})
  <2>1. CASE states[i].status = "confirmed" /\ row = [states[i] EXCEPT !.status = "retracted"]
    <3>1. states[i] \in StateRow
      BY <1>1
    <3>2. row.status = "retracted"
      BY <2>1, <3>1 DEF StateRow
    <3> QED BY <3>2
  <2>2. CASE states[i].status = "pending"
    BY <2>2 DEF EditState
  <2> QED BY <2>1, <2>2 DEF EditState
<1> HIDE DEF later
<1>4. OneAnswer(later)
  <2> SUFFICES ASSUME NEW a \in Confirmed(later), NEW b \in Confirmed(later),
                      later[a].transition # "none", later[b].transition # "none"
               PROVE  a = b
    BY DEF OneAnswer
  <2>1. \A k \in Confirmed(later) \ {i} : k \in Confirmed(states) \ {i} /\ later[k] = states[k]
    BY <1>2 DEF Confirmed
  <2>2. CASE a # i /\ b # i
    BY <1>1, <2>1, <2>2 DEF OneAnswer
  <2>3. CASE a = i \/ b = i
    <3>1. row.status = "confirmed" /\ row.transition # "none"
      BY <1>2, <2>3 DEF Confirmed
    <3>2. Confirmed(states) \ {i} = {}
      BY <1>3, <3>1 DEF GateOpen
    <3> QED BY <2>1, <3>2
  <2> QED BY <2>2, <2>3
<1>5. \A k \in DOMAIN states : later[k].by = states[k].by
  BY <1>2
<1>6. \A c : By(later, c) = By(states, c)
  BY <1>2, <1>5, SameAuthors
<1> QED BY <1>1, <1>2, <1>4, <1>6, StatesKept DEF later

LEMMA NodeKept ==
    ASSUME IInv, node' \in [Nodes -> NodeRow], position' \in [Nodes -> Nodes],
           entity' \in {"live", "trash"}, UNCHANGED <<states, cand, records, shown>>
    PROVE  IInv'
<1>1. Rows(Db)' /\ Once(Db)' /\ Outlined'
  BY DEF IInv, Rows, Once, MadeIn, Db, Outlined
<1>2. OneAnswer(states)' /\ History'
  BY DEF IInv, OneAnswer, Confirmed, History
<1> QED BY <1>1, <1>2 DEF IInv

LEMMA NodeStep ==
    ASSUME IInv, NEW n \in Nodes, UNCHANGED <<cand, records, shown>>,
           TrashNode(n) \/ RestoreNode(n) \/ \E m \in Nodes : EditNode(n, m)
    PROVE  IInv'
<1>1. /\ node \in [Nodes -> NodeRow] /\ position \in [Nodes -> Nodes]
      /\ entity \in {"live", "trash"}
  BY DEF IInv, Rows, Db, Outlined
<1> DEFINE old == node[n]
<1>2. old \in NodeRow /\ old.rev + 1 \in Nat
  BY <1>1 DEF NodeRow
<1>3. CASE TrashNode(n) \/ RestoreNode(n)
  <2> PICK b \in BOOLEAN : /\ node' = [node EXCEPT ![n] = [live |-> b, rev |-> old.rev + 1]]
                          /\ UNCHANGED <<position, entity, states>>
    BY <1>3 DEF TrashNode, RestoreNode
  <2>1. [live |-> b, rev |-> old.rev + 1] \in NodeRow
    BY <1>2 DEF NodeRow
  <2>2. node' \in [Nodes -> NodeRow]
    BY <1>1, <2>1
  <2> QED BY <1>1, <2>2, NodeKept
<1>4. CASE \E m \in Nodes : EditNode(n, m)
  <2> PICK m \in Nodes : EditNode(n, m)
    BY <1>4
  <2> DEFINE row == [old EXCEPT !.rev = @ + 1]
  <2>1. /\ node' = [node EXCEPT ![n] = row] /\ UNCHANGED <<entity, states>>
        /\ position' = Moved(position, n, position[m])
    BY DEF EditNode
  <2>2. row \in NodeRow
    <3> HIDE DEF old
    <3> QED BY <1>2 DEF NodeRow
  <2> HIDE DEF row
  <2>3. node' \in [Nodes -> NodeRow] /\ position' \in [Nodes -> Nodes]
    BY <1>1, <2>1, <2>2, MovedKeeps
  <2> QED BY <1>1, <2>1, <2>3, NodeKept
<1> QED BY <1>3, <1>4

LEMMA OutlineStep == ASSUME IInv, Outline PROVE IInv' /\ AsShown'
<1>1. answer' = NoAnswer /\ UNCHANGED <<cand, records, shown>>
  BY DEF Outline, Act
<1>2. CASE \E s \in StateInputs : CreateState(s)
  BY <1>1, <1>2, CreateStateStep, SilentAnswer
<1>3. CASE \E i \in DOMAIN states, s \in StateInputs : EditState(i, Row(s, states[i].by))
  <2> PICK i \in DOMAIN states, s \in StateInputs : EditState(i, Row(s, states[i].by))
    BY <1>3
  <2> DEFINE row == Row(s, states[i].by)
  <2>1. states[i] \in StateRow /\ s \in StateValues
    BY InputsAssumption DEF IInv, Rows, Db
  <2>2. states[i].by \in Authors
    BY <2>1 DEF StateRow
  <2>3. row \in StateRow /\ row.by = states[i].by
    BY <2>1, <2>2, RowIsStateRow
  <2> HIDE DEF row
  <2>4. EditState(i, row)
    BY DEF row
  <2> QED BY <1>1, <2>3, <2>4, EditStateStep, SilentAnswer
<1>4. CASE \E i \in DOMAIN states : EditState(i, [states[i] EXCEPT !.status = "retracted"])
  <2> PICK i \in DOMAIN states : EditState(i, [states[i] EXCEPT !.status = "retracted"])
    BY <1>4
  <2> DEFINE old == states[i]
             row == [old EXCEPT !.status = "retracted"]
  <2>1. old \in StateRow
    BY DEF IInv, Rows, Db
  <2>2. row \in StateRow /\ row.by = old.by
    <3> HIDE DEF old
    <3> QED BY <2>1 DEF StateRow
  <2>3. EditState(i, row)
    OBVIOUS
  <2> HIDE DEF row
  <2> QED BY <1>1, <2>2, <2>3, EditStateStep, SilentAnswer
<1>5. CASE EditLegacy \/ TrashEntity \/ RestoreEntity
  <2>1. UNCHANGED <<position, node, states>> /\ entity' \in {"live", "trash"}
    BY <1>5 DEF EditLegacy, TrashEntity, RestoreEntity, IInv, Outlined
  <2>2. node \in [Nodes -> NodeRow] /\ position \in [Nodes -> Nodes]
    BY DEF IInv, Rows, Db, Outlined
  <2> QED BY <1>1, <2>1, <2>2, NodeKept, SilentAnswer
<1>6. CASE \E n \in Nodes : TrashNode(n) \/ RestoreNode(n) \/ \E m \in Nodes : EditNode(n, m)
  BY <1>1, <1>6, NodeStep, SilentAnswer
<1> QED BY <1>2, <1>3, <1>4, <1>5, <1>6 DEF Outline

-----------------------------------------------------------------------------

LEMMA InitIInv == ASSUME Init PROVE IInv /\ AsShown
<1>1. PICK old \in {<<>>} \cup {<<c>> : c \in Legacy} :
        /\ cand = [c \in Candidates |-> IF old = <<c>> THEN Unsealed(c, 1)
                                        ELSE IF c \in Imported THEN Born(Offered[c]) ELSE Unborn]
        /\ records = [i \in DOMAIN old |-> Record(Offered[old[i]], old[i])]
        /\ shown = [c \in Candidates |-> IF old = <<c>> THEN <<Offered[c], Offered[c]>>
                                         ELSE IF c \in Imported THEN <<Offered[c]>> ELSE <<>>]
  BY DEF Init
<1>2. /\ position = [n \in Nodes |-> n] /\ node = [n \in Nodes |-> [live |-> TRUE, rev |-> 1]]
      /\ entity = "live" /\ states = <<>> /\ answer = NoAnswer
  BY DEF Init, StatesInit
<1>3. \A c \in Imported : Offered[c] \in Payloads /\ c \in Candidates
  BY CandidatesAssumption DEF Candidates
<1>4. ASSUME NEW c \in Imported
      PROVE  /\ Unsealed(c, 1) \in CandRow /\ Unsealed(c, 1).status = "confirmed"
             /\ Unsealed(c, 1).rev = 2 /\ Unsealed(c, 1).payload = Offered[c]
             /\ Born(Offered[c]) \in CandRow /\ Born(Offered[c]).status = "pending"
             /\ Born(Offered[c]).rev = 1 /\ Born(Offered[c]).payload = Offered[c]
  BY <1>3 DEF Unsealed, Born, CandRow
<1>5. Unborn \in CandRow /\ Unborn.status = "none" /\ Unborn.rev = 0
  BY DEF Unborn, CandRow
<1>6. \A c : old = <<c>> => c \in Legacy /\ c \in Imported /\ old[1] = c
  BY <1>1, CandidatesAssumption
<1> HIDE DEF Unsealed, Born, Unborn
<1>7. ASSUME NEW c \in Candidates
      PROVE  /\ cand[c] \in CandRow /\ Told(cand[c], shown[c])
             /\ c \in Imported => cand[c].status # "none"
             /\ cand[c].status = "confirmed" <=> old = <<c>>
             /\ old = <<c>> => cand[c].payload = Offered[c]
  <2>1. CASE old = <<c>>
    <3>1. cand[c] = Unsealed(c, 1) /\ shown[c] = <<Offered[c], Offered[c]>>
      BY <1>1, <2>1
    <3> QED BY <1>3, <1>4, <1>6, <2>1, <3>1 DEF Told
  <2>2. CASE old # <<c>> /\ c \in Imported
    <3>1. cand[c] = Born(Offered[c]) /\ shown[c] = <<Offered[c]>>
      BY <1>1, <2>2
    <3> QED BY <1>3, <1>4, <2>2, <3>1 DEF Told
  <2>3. CASE old # <<c>> /\ c \notin Imported
    <3>1. cand[c] = Unborn /\ shown[c] = <<>>
      BY <1>1, <2>3
    <3> QED BY <1>5, <2>3, <3>1 DEF Told
  <2> QED BY <2>1, <2>2, <2>3
<1>8. DOMAIN shown = Candidates /\ cand \in [Candidates -> CandRow]
  BY <1>1, <1>7
<1>9. History
  BY <1>3, <1>7, <1>8 DEF History
<1>10. records \in Seq(RecordRow) /\ \A c \in Candidates :
           Cardinality(By(records, c)) = IF old = <<c>> THEN 1 ELSE 0
  <2>1. CASE old = <<>>
    <3>1. records = <<>>
      BY <1>1, <2>1
    <3>2. \A c \in Candidates : By(records, c) = {}
      BY <3>1 DEF By
    <3> QED BY <2>1, <3>1, <3>2, FS_EmptySet
  <2>2. CASE old # <<>>
    <3> PICK a \in Legacy : old = <<a>>
      BY <1>1, <2>2
    <3>1. a \in Imported /\ Offered[a] \in Payloads /\ a \in Authors
      BY <1>3, <1>6 DEF Authors
    <3> DEFINE r == Record(Offered[a], a)
    <3>2. r \in RecordRow /\ r.by = a
      BY <3>1, RecordIsRow
    <3>3. records = [i \in {1} |-> r]
      BY <1>1
    <3> HIDE DEF r
    <3>4. records \in Seq(RecordRow) /\ DOMAIN records = {1} /\ records[1] = r
      <4>1. records = <<r>>
        BY <3>3
      <4> QED BY <3>2, <4>1
    <3>5. ASSUME NEW c \in Candidates PROVE By(records, c) = IF c = a THEN {1} ELSE {}
      BY <3>2, <3>4 DEF By
    <3>6. \A c : old = <<c>> <=> c = a
      OBVIOUS
    <3> QED BY <3>4, <3>5, <3>6, FS_EmptySet, FS_Singleton
  <2> QED BY <2>1, <2>2
<1>11. Rows(Db)
  <2>1. /\ states \in Seq(StateRow) /\ node \in [Nodes -> NodeRow]
        /\ position \in [Nodes -> Nodes]
    BY <1>2 DEF NodeRow
  <2> QED BY <1>8, <1>10, <2>1 DEF Rows, Db
<1>12. Once(Db)
  <2> SUFFICES ASSUME NEW c \in Candidates PROVE MadeIn(Db, c) = Due(cand[c])
    BY DEF Once, Db
  <2>1. By(states, c) = {} /\ Cardinality({}) = 0
    BY <1>2, FS_EmptySet DEF By
  <2>2. old = <<c>> => cand[c].payload.kind # "node_update"
    <3>1. old = <<c>> => Offered[c].kind \in RecordKinds
      BY <1>6, CandidatesAssumption
    <3> QED BY <1>3, <1>6, <1>7, <3>1, KindsApart
  <2>3. Due(cand[c]) = IF old = <<c>> THEN 1 ELSE 0
    BY <1>7, <2>2 DEF Due
  <2>4. MadeIn(Db, c) = Cardinality(By(records, c)) + Cardinality(By(states, c))
    BY DEF MadeIn, Db
  <2>5. Cardinality(By(records, c)) = IF old = <<c>> THEN 1 ELSE 0
    BY <1>10
  <2> HIDE DEF Due
  <2> QED BY <2>1, <2>3, <2>4, <2>5
<1>13. OneAnswer(states) /\ Outlined /\ AsShown
  BY <1>2 DEF OneAnswer, Confirmed, Outlined, AsShown
<1> QED BY <1>9, <1>11, <1>12, <1>13 DEF IInv

LEMMA NextIInv == ASSUME IInv, AsShown, [Next]_vars PROVE IInv' /\ AsShown'
<1>1. CASE \E c \in Generated, p \in Payloads : Persist(c, p)
  BY <1>1, PersistStep
<1>2. CASE \E c \in Candidates : \E r \in 1..cand[c].rev : r < MaxRevision /\ Requests(c, r)
  <2> PICK c \in Candidates : \E r \in 1..cand[c].rev : Requests(c, r)
    BY <1>2
  <2> PICK r \in 1..cand[c].rev : Requests(c, r)
    OBVIOUS
  <2>1. CASE \E p \in Payloads : EditGenerated(c, r, p) \/ EditImport(c, r, p)
    BY <2>1, EditStep
  <2>2. CASE RejectGenerated(c, r) \/ RejectImport(c, r)
    BY <2>2, RejectStep
  <2>3. CASE ConfirmGenerated(c, r) \/ \E separate \in BOOLEAN : ConfirmImport(c, r, separate)
    BY <2>3, ConfirmGeneratedStep, ConfirmImportStep
  <2>4. CASE \E d, q : BulkConfirm(c, d, r, q) \/ BulkRepeat(c, d, r, q)
    BY <2>4, BulkConfirmStep, BulkRepeatStep
  <2> QED BY <2>1, <2>2, <2>3, <2>4 DEF Requests
<1>3. CASE \E c \in Imported : Consolidate(c)
  BY <1>3, ConsolidateStep
<1>4. CASE \E p \in Records : CreateRecord(p)
  BY <1>4, CreateRecordStep
<1>5. CASE \E i \in DOMAIN records : \/ \E p \in Records : EditRecord(i, p)
                                     \/ TrashRecord(i) \/ RestoreRecord(i) \/ PurgeRecord(i)
  BY <1>5, RecordStep
<1>6. CASE TrashSource \/ RestoreSource
  BY <1>6, SourceStep
<1>7. CASE Outline
  BY <1>7, OutlineStep
<1>8. CASE UNCHANGED vars
  <2>1. UNCHANGED <<position, node, entity, states, cand, records, shown, answer>>
    BY <1>8 DEF vars, stateVars
  <2>2. IInv'
    BY <2>1 DEF IInv, Rows, Outlined, Once, MadeIn, OneAnswer, Confirmed, History, Db
  <2> QED BY <2>1, <2>2 DEF AsShown
<1> QED BY <1>1, <1>2, <1>3, <1>4, <1>5, <1>6, <1>7, <1>8 DEF Next

-----------------------------------------------------------------------------
(* The rows, their authors, the answers to the undated state and the       *)
(* history of every candidate fit together in every reachable state, and   *)
(* the last answer is about what its page showed.                          *)
THEOREM CandidatesInvariant == Spec => [](IInv /\ AsShown)
<1>1. Init => IInv /\ AsShown
  BY InitIInv
<1>2. (IInv /\ AsShown) /\ [Next]_vars => (IInv /\ AsShown)'
  BY NextIInv
<1> QED BY <1>1, <1>2, PTL DEF Spec

(* Who is told "confirmed" is told so of what the page showed             *)
(* (confirm_candidate, confirm_import_candidate): edits and markings give  *)
(* a candidate a new revision, and only the two last ones of a confirmed   *)
(* candidate, which say the same, are answered again.                      *)
THEOREM ConfirmedAsShown == Spec => []AsShown
  BY CandidatesInvariant, PTL

(* A confirmed candidate wrote one record or state, any other none         *)
(* (_promote_candidate, bulk_confirm_import_candidates).                   *)
THEOREM PromotedExactlyOnce == Spec => []PromotedOnce
<1>1. IInv => PromotedOnce
  BY DEF IInv, Once, MadeIn, By, Due, Made, Db, PromotedOnce
<1> QED BY CandidatesInvariant, <1>1, PTL

(* What becomes of an undated state has one answer at a time               *)
(* (_validate_legacy_gate), also after pending rows are confirmed.         *)
THEOREM LegacyAnsweredOnce == Spec => []AnsweredOnce
<1>1. ASSUME IInv PROVE AnsweredOnce
  <2> DEFINE A == {i \in Confirmed(states) : states[i].transition # "none"}
  <2>1. \A i, k \in A : i = k
    BY <1>1 DEF IInv, OneAnswer
  <2>2. Cardinality(A) <= 1
    <3>1. CASE A = {}
      BY <3>1, FS_EmptySet
    <3>2. CASE A # {}
      <4> PICK i : i \in A
        BY <3>2
      <4>1. A = {i}
        BY <2>1
      <4> HIDE DEF A
      <4> QED BY <4>1, FS_Singleton
    <3> QED BY <3>1, <3>2
  <2> QED BY <2>2 DEF AnsweredOnce
<1>2. IInv => AnsweredOnce
  BY <1>1
<1> QED BY CandidatesInvariant, <1>2, PTL

-----------------------------------------------------------------------------
(* What one step may add to the records and to the dated states.            *)
NewRows(later, rows) == DOMAIN later \ DOMAIN rows
TwinStep ==
    \A i \in NewRows(records', records) :
        records'[i].by \in Imported /\ Twins(records', i) # {}
        => /\ answer'.cand = records'[i].by /\ answer'.separate
           /\ records'[i].payload.kind \in SeparateKinds
AgreeStep ==
    \A i \in NewRows(states', states) :
        states'[i].by \in Imported /\ (position' = position \/ answer'.cand = states'[i].by)
        => \A n \in Nodes : node[n].live /\ i \in Applicable(n)' => Conflicts(n)' = {}

(* A step that adds nothing that was imported. *)
Homemade == /\ \A i \in NewRows(records', records) : records'[i].by \notin Imported
            /\ \A i \in NewRows(states', states) : states'[i].by \notin Imported

LEMMA HomemadeIsQuiet == Homemade => TwinStep /\ AgreeStep
  BY DEF Homemade, TwinStep, AgreeStep

(* The rows a promotion adds. *)
Adds(db, c, p, later) ==
    /\ \A i \in NewRows(later.rec, db.rec) :
          /\ p.kind \in RecordKinds /\ i = Len(db.rec) + 1
          /\ later.rec[i] = Record(p, c) /\ Len(later.rec) = Len(db.rec) + 1
    /\ \A i \in NewRows(later.st, db.st) :
          p.kind = "entity_state" /\ i = Len(db.st) + 1 /\ later.st[i] = Row(p.values, c)
    /\ DOMAIN db.rec \subseteq DOMAIN later.rec /\ DOMAIN db.st \subseteq DOMAIN later.st
    /\ \A i \in DOMAIN db.rec : later.rec[i] = db.rec[i]
    /\ \A i \in DOMAIN db.st : later.st[i] = db.st[i]

LEMMA PromotedNew ==
    ASSUME NEW db, Rows(db), NEW c \in Candidates, NEW p \in Payloads, NEW later,
           Promotes(db, c, p, later)
    PROVE  Adds(db, c, p, later)
<1>1. db.rec \in Seq(RecordRow) /\ db.st \in Seq(StateRow) /\ c \in Authors
  BY DEF Rows, Authors
<1>2. CASE p.kind \in RecordKinds
  <2> DEFINE r == Record(p, c)
  <2>1. r \in RecordRow
    BY <1>1, RecordIsRow
  <2>2. later.rec = Append(db.rec, r) /\ later.st = db.st
    BY <1>2, KindsApart DEF Promotes
  <2> HIDE DEF r
  <2> QED BY <1>1, <1>2, <2>1, <2>2, Appended DEF Adds, NewRows, r
<1>3. CASE p.kind = "entity_state"
  <2> DEFINE s == Row(p.values, c)
  <2>1. s \in StateRow
    BY <1>1, <1>3, RowIsStateRow, KindsApart
  <2>2. later.st = Append(db.st, s) /\ later.rec = db.rec
    BY <1>3, KindsApart DEF Promotes
  <2> HIDE DEF s
  <2> QED BY <1>1, <1>3, <2>1, <2>2, Appended DEF Adds, NewRows, s
<1>4. CASE p.kind \notin RecordKinds /\ p.kind # "entity_state"
  BY <1>4 DEF Adds, Promotes, NewRows
<1> QED BY <1>2, <1>3, <1>4

(* What is not in conflict with the book has no record of its kind and key, *)
(* and says of the entity what every dated row says that it overlaps with.  *)
LEMMA NoRecordLike ==
    ASSUME NEW db, NEW p \in Payloads, p.kind \in RecordKinds, ~Conflict(db, p),
           NEW i \in DOMAIN db.rec, db.rec[i].status = "live"
    PROVE  ~(db.rec[i].payload.kind = p.kind /\ db.rec[i].payload.key = p.key)
  BY DEF Conflict, SameRecord, LiveRecords

Says(pos, row, n) == \* the row is part of what the entity is at chapter n
    row.status = "confirmed" /\ Dated(row) /\ pos[n] \in pos[row.from]..End(pos, row)

LEMMA EndIsNat ==
    ASSUME NEW pos \in [Nodes -> Nodes], NEW to \in Nodes \cup {NoNode}
    PROVE  (IF to = NoNode THEN Last ELSE pos[to]) \in Nat
<1>1. Nodes \subseteq Nat /\ Last \in Nat
  BY NodesAreNumbers, StatesAssumption, FS_CardinalityType DEF Last
<1> QED BY <1>1

LEMMA SaysTheSame ==
    ASSUME NEW db, Rows(db), NEW p \in Payloads, p.kind = "entity_state",
           ~Conflict(db, p), NEW c \in Candidates, NEW n \in Nodes,
           NEW i \in DOMAIN db.st, Says(db.pos, db.st[i], n), Says(db.pos, Row(p.values, c), n)
    PROVE  db.st[i].data = Row(p.values, c).data
<1> DEFINE s == p.values
           t == db.st[i]
           pos == db.pos
<1>1. /\ s \in StateValues /\ c \in Authors /\ t \in StateRow /\ i \in Confirmed(db.st)
      /\ pos \in [Nodes -> Nodes]
  BY KindsApart DEF Authors, Rows, Says, Confirmed
<1>2. /\ Row(s, c).data = s.data /\ Row(s, c).from = s.from /\ Row(s, c).to = s.to
  BY <1>1, RowIsStateRow
<1>3. ~Disputed(pos, db.st, s)
  BY KindsApart DEF Conflict
<1>4. /\ pos[n] \in pos[s.from]..End(pos, s) /\ pos[n] \in pos[t.from]..End(pos, t)
      /\ Dated(t)
  BY <1>2 DEF Says, End
<1> HIDE DEF s, t, pos
<1>5. /\ s.from \in Nodes /\ t.from \in Nodes
      /\ s.to \in Nodes \cup {NoNode} /\ t.to \in Nodes \cup {NoNode}
  BY <1>1 DEF StateValues, StateRow
<1>6. End(pos, s) \in Nat /\ End(pos, t) \in Nat
  BY <1>1, <1>5, EndIsNat DEF End
<1>7. pos[s.from] \in Nat /\ pos[t.from] \in Nat /\ pos[n] \in Nat
  BY <1>1, <1>5, NodesAreNumbers
<1>8. Overlap(pos, s, t)
  BY <1>4, <1>6, <1>7 DEF Overlap
<1> QED BY <1>1, <1>2, <1>3, <1>4, <1>8 DEF Disputed, s, t

(* Where a row applies that says what all the others there say, there is no *)
(* dispute.                                                                 *)
LEMMA SameSaid ==
    ASSUME states' \in Seq(StateRow), \A n \in Nodes : node'[n].live = node[n].live,
           NEW i \in DOMAIN states',
           \A n \in Nodes, k \in DOMAIN states' \ {i} :
               Says(position', states'[k], n) /\ Says(position', states'[i], n)
               => states'[k].data = states'[i].data
    PROVE  \A n \in Nodes : i \in Applicable(n)' => Conflicts(n)' = {}
<1> SUFFICES ASSUME NEW n \in Nodes, i \in Applicable(n)' PROVE Conflicts(n)' = {}
  OBVIOUS
<1>1. ASSUME NEW k \in DOMAIN states'
      PROVE  /\ node'[states'[k].from].live = node[states'[k].from].live
             /\ states'[k].to # NoNode => node'[states'[k].to].live = node[states'[k].to].live
  <2>1. states'[k] \in StateRow
    OBVIOUS
  <2> QED BY <2>1 DEF StateRow
<1>2. Applicable(n)' = {k \in DOMAIN states' : Says(position', states'[k], n)}
  BY <1>1 DEF Applicable, Confirmed, Says, Dated, Live, End
<1>3. \A k \in Applicable(n)' : states'[k].data = states'[i].data
  BY <1>2
<1>4. Disagreements(n)' = {}
  BY <1>3 DEF Disagreements
<1> QED BY <1>4 DEF Conflicts

-----------------------------------------------------------------------------
(* Every request, and what the author does beside them, is quiet.           *)

LEMMA SameRows ==
    ASSUME DOMAIN records' = DOMAIN records, DOMAIN states' = DOMAIN states
    PROVE  TwinStep /\ AgreeStep
  BY HomemadeIsQuiet DEF Homemade, NewRows

LEMMA InstallQuiet ==
    ASSUME NEW db, Install(db), db.rec = records, db.st = states
    PROVE  TwinStep /\ AgreeStep
  BY SameRows DEF Install

LEMMA ChangedQuiet ==
    ASSUME NEW c, NEW row, Install(Changed(c, row))
    PROVE  TwinStep /\ AgreeStep
<1>1. Changed(c, row).rec = records /\ Changed(c, row).st = states
  BY DEF Changed, Db
<1> QED BY <1>1, InstallQuiet

LEMMA GeneratedQuiet ==
    ASSUME IInv, NEW c \in Generated, NEW p \in Payloads, Install(Promoted(Db, c, p))
    PROVE  TwinStep /\ AgreeStep
<1> DEFINE later == Promoted(Db, c, p)
<1>1. /\ Rows(Db) /\ c \in Candidates /\ c \notin Imported /\ c \in Authors
      /\ Db.rec = records /\ Db.st = states
  BY CandidatesAssumption DEF IInv, Db, Candidates, Authors
<1>2. Promotes(Db, c, p, later)
  BY <1>1, PromotedEffect
<1>3. records' = later.rec /\ states' = later.st
  BY DEF Install
<1> HIDE DEF later
<1>4. /\ \A i \in NewRows(records', records) : records'[i] = Record(p, c)
      /\ \A i \in NewRows(states', states) :
            p.kind = "entity_state" /\ states'[i] = Row(p.values, c)
  <2> PICK db : db = Db
    OBVIOUS
  <2>1. Rows(db) /\ Promotes(db, c, p, later) /\ db.rec = records /\ db.st = states
    BY <1>1, <1>2
  <2>2. Adds(db, c, p, later)
    BY <1>1, <2>1, PromotedNew
  <2> QED BY <1>3, <2>1, <2>2 DEF Adds
<1>5. Record(p, c).by = c /\ (p.kind = "entity_state" => Row(p.values, c).by = c)
  BY <1>1, RecordIsRow, RowIsStateRow, KindsApart
<1> QED BY <1>1, <1>4, <1>5, HomemadeIsQuiet DEF Homemade

(* An imported candidate alone: nothing in the way, or a separate record.   *)
LEMMA OneIsQuiet ==
    ASSUME IInv, NEW db, Rows(db), db.rec = records, db.st = states, db.node = node,
           NEW c \in Candidates, NEW p \in Payloads, NEW later, Promotes(db, c, p, later),
           Install(later), db.pos = position,
           \/ ~Conflict(db, p)
           \/ answer'.cand = c /\ answer'.separate /\ p.kind \in SeparateKinds
    PROVE  TwinStep /\ AgreeStep
<1>1. /\ records' = later.rec /\ states' = later.st /\ node' = later.node
      /\ position' = later.pos
  BY DEF Install
<1>2. /\ \A i \in NewRows(records', records) :
             /\ p.kind \in RecordKinds /\ i = Len(records) + 1
             /\ records'[i] = Record(p, c) /\ Len(records') = Len(records) + 1
      /\ \A i \in NewRows(states', states) :
             /\ p.kind = "entity_state" /\ i = Len(states) + 1
             /\ states'[i] = Row(p.values, c)
      /\ DOMAIN states \subseteq DOMAIN states'
      /\ \A i \in DOMAIN records : records'[i] = records[i]
      /\ \A i \in DOMAIN states : states'[i] = states[i]
  <2>1. Adds(db, c, p, later)
    BY PromotedNew
  <2> QED BY <1>1, <2>1 DEF Adds
<1>3. c \in Authors
  BY DEF Authors
<1>4. TwinStep
  <2> SUFFICES ASSUME NEW i \in NewRows(records', records), Twins(records', i) # {}
               PROVE  /\ answer'.cand = records'[i].by /\ answer'.separate
                      /\ records'[i].payload.kind \in SeparateKinds
    BY DEF TwinStep
  <2>1. records'[i].payload = p /\ records'[i].by = c /\ p.kind \in RecordKinds
    BY <1>2, <1>3, RecordIsRow
  <2> PICK j \in Twins(records', i) : TRUE
    OBVIOUS
  <2>2. /\ j \in DOMAIN records' /\ j # i /\ records'[j].status = "live"
        /\ records'[j].payload.kind = p.kind /\ records'[j].payload.key = p.key
    BY <2>1 DEF Twins
  <2>3. j \in DOMAIN records
    BY <1>2, <2>2 DEF NewRows
  <2>4. Conflict(db, p)
    BY <1>2, <2>1, <2>2, <2>3, NoRecordLike
  <2> QED BY <2>1, <2>4
<1>5. AgreeStep
  <2> SUFFICES ASSUME NEW i \in NewRows(states', states)
               PROVE  \A n \in Nodes : i \in Applicable(n)' => Conflicts(n)' = {}
    BY DEF AgreeStep
  <2>1. p.kind = "entity_state" /\ ~Conflict(db, p) /\ states'[i] = Row(p.values, c)
    <3>1. p.kind = "entity_state" /\ states'[i] = Row(p.values, c)
      BY <1>2
    <3> QED BY <3>1 DEF SeparateKinds
  <2>2. position' = db.pos
    <3>1. p.kind # "node_update"
      BY <2>1
    <3> QED BY <1>1, <3>1 DEF Promotes
  <2>3. states' \in Seq(StateRow) /\ i \in DOMAIN states'
    BY <1>1, PromotedRows DEF Rows, NewRows
  <2>4. ASSUME NEW n \in Nodes, NEW k \in DOMAIN states' \ {i},
               Says(position', states'[k], n), Says(position', states'[i], n)
        PROVE  states'[k].data = states'[i].data
    <3>1. k \in DOMAIN states /\ states'[k] = states[k]
      BY <1>2 DEF NewRows
    <3> QED BY <2>1, <2>2, <2>4, <3>1, SaysTheSame
  <2>5. \A n \in Nodes : node'[n].live = node[n].live
    BY <1>1 DEF Promotes
  <2> HIDE DEF Says
  <2> QED BY <2>3, <2>4, <2>5, SameSaid
<1> QED BY <1>4, <1>5

(* Two of one request: the second was compared with what the first had      *)
(* written, over the places the first had left.                             *)
LEMMA TwoAreQuiet ==
    ASSUME IInv, NEW c \in Candidates, NEW d \in Candidates, c # d, answer'.cand = d, NEW p \in Payloads,
           NEW s \in Payloads, NEW one, NEW two, Promotes(Db, c, p, one), Rows(one),
           Promotes(one, d, s, two), ~Conflict(Db, p), ~Conflict(one, s), Install(two)
    PROVE  TwinStep /\ AgreeStep
<1>1. /\ records' = two.rec /\ states' = two.st /\ node' = two.node /\ position' = two.pos
      /\ Rows(Db) /\ Db.rec = records /\ Db.st = states /\ Db.node = node /\ Db.pos = position
      /\ c \in Authors /\ d \in Authors
  BY DEF Install, IInv, Db, Authors
<1>2. /\ \A i \in NewRows(one.rec, records) :
             p.kind \in RecordKinds /\ i = Len(records) + 1 /\ one.rec[i] = Record(p, c)
      /\ \A i \in NewRows(one.st, states) :
             p.kind = "entity_state" /\ i = Len(states) + 1 /\ one.st[i] = Row(p.values, c)
      /\ DOMAIN records \subseteq DOMAIN one.rec /\ DOMAIN states \subseteq DOMAIN one.st
      /\ \A i \in DOMAIN records : one.rec[i] = records[i]
      /\ \A i \in DOMAIN states : one.st[i] = states[i]
  <2> PICK db : db = Db
    OBVIOUS
  <2>1. Rows(db) /\ Promotes(db, c, p, one) /\ db.rec = records /\ db.st = states
    BY <1>1
  <2>2. Adds(db, c, p, one)
    BY <2>1, PromotedNew
  <2> QED BY <2>1, <2>2 DEF Adds
<1>3. /\ \A i \in NewRows(records', one.rec) :
             s.kind \in RecordKinds /\ i = Len(one.rec) + 1 /\ records'[i] = Record(s, d)
      /\ \A i \in NewRows(states', one.st) :
             s.kind = "entity_state" /\ i = Len(one.st) + 1 /\ states'[i] = Row(s.values, d)
      /\ DOMAIN one.rec \subseteq DOMAIN records' /\ DOMAIN one.st \subseteq DOMAIN states'
      /\ \A i \in DOMAIN one.rec : records'[i] = one.rec[i]
      /\ \A i \in DOMAIN one.st : states'[i] = one.st[i]
  <2>1. Adds(one, d, s, two)
    BY PromotedNew
  <2> QED BY <1>1, <2>1 DEF Adds
<1>4. TwinStep
  <2> SUFFICES ASSUME NEW i \in NewRows(records', records), NEW j \in Twins(records', i)
               PROVE  FALSE
    BY DEF TwinStep
  <2>1. /\ j \in DOMAIN records' /\ j # i /\ records'[j].status = "live"
        /\ records'[j].payload.kind = records'[i].payload.kind
        /\ records'[j].payload.key = records'[i].payload.key
    BY DEF Twins
  <2>2. CASE i \in NewRows(records', one.rec)
    <3>1. s.kind \in RecordKinds /\ records'[i].payload = s
      BY <1>1, <1>3, <2>2, RecordIsRow
    <3>2. j \in DOMAIN one.rec /\ records'[j] = one.rec[j]
      BY <1>3, <2>1, <2>2 DEF NewRows
    <3> QED BY <2>1, <3>1, <3>2, NoRecordLike
  <2>3. CASE i \notin NewRows(records', one.rec)
    <3>1. i \in NewRows(one.rec, records)
      BY <2>3 DEF NewRows
    <3>2. p.kind \in RecordKinds /\ records'[i] = one.rec[i] /\ i \in DOMAIN one.rec
      BY <1>2, <1>3, <3>1 DEF NewRows
    <3>3. one.rec[i].payload = p /\ one.rec[i].status = "live"
      BY <1>1, <1>2, <3>1, RecordIsRow
    <3>4. CASE j \in NewRows(records', one.rec)
      <4>1. s.kind \in RecordKinds /\ records'[j].payload = s
        BY <1>1, <1>3, <3>4, RecordIsRow
      <4> QED BY <2>1, <3>2, <3>3, <4>1, NoRecordLike
    <3>5. CASE j \notin NewRows(records', one.rec)
      <4>1. j \in DOMAIN one.rec /\ records'[j] = one.rec[j]
        BY <1>3, <2>1, <3>5 DEF NewRows
      <4>2. j \in DOMAIN records /\ one.rec[j] = records[j]
        BY <1>2, <2>1, <3>1, <4>1 DEF NewRows
      <4> QED BY <1>1, <2>1, <3>2, <3>3, <4>1, <4>2, NoRecordLike
    <3> QED BY <3>4, <3>5
  <2> QED BY <2>2, <2>3
<1>5. AgreeStep
  <2> SUFFICES ASSUME NEW i \in NewRows(states', states),
                      position' = position \/ answer'.cand = states'[i].by
               PROVE  \A n \in Nodes : i \in Applicable(n)' => Conflicts(n)' = {}
    BY DEF AgreeStep
  <2>1. states' \in Seq(StateRow) /\ i \in DOMAIN states'
    BY <1>1, PromotedRows DEF Rows, NewRows
  <2>2. \A n \in Nodes : node'[n].live = node[n].live
    BY <1>1 DEF Promotes
  <2>3. ASSUME s.kind = "entity_state" PROVE position' = one.pos
    <3>1. s.kind # "node_update"
      BY <2>3
    <3> QED BY <1>1, <3>1 DEF Promotes
  (* what the second entry wrote was compared with all the other rows *)
  <2>4. ASSUME NEW j \in NewRows(states', one.st), NEW k \in DOMAIN states' \ {j},
               NEW n \in Nodes, Says(position', states'[k], n), Says(position', states'[j], n)
        PROVE  states'[k].data = states'[j].data
    <3>1. s.kind = "entity_state" /\ states'[j] = Row(s.values, d)
      BY <1>3
    <3>2. k \in DOMAIN one.st /\ states'[k] = one.st[k]
      BY <1>3 DEF NewRows
    <3> QED BY <2>3, <2>4, <3>1, <3>2, SaysTheSame
  <2>5. ASSUME NEW k \in DOMAIN states' \ {i}, NEW n \in Nodes,
               Says(position', states'[k], n), Says(position', states'[i], n)
        PROVE  states'[k].data = states'[i].data
    <3>1. CASE i \in NewRows(states', one.st)
      BY <2>4, <2>5, <3>1
    <3>2. CASE k \in NewRows(states', one.st)
      BY <2>1, <2>4, <2>5, <3>2
    <3>3. CASE i \notin NewRows(states', one.st) /\ k \notin NewRows(states', one.st)
      <4>1. i \in NewRows(one.st, states) /\ states'[i] = one.st[i]
        BY <1>3, <2>1, <3>3 DEF NewRows
      <4>2. p.kind = "entity_state" /\ states'[i] = Row(p.values, c)
        BY <1>2, <4>1
      <4>3. k \in DOMAIN states /\ states'[k] = states[k]
        BY <1>2, <1>3, <3>3, <4>1 DEF NewRows
      <4>4. position' = position
        <5>1. states'[i].by = c
          BY <1>1, <4>2, RowIsStateRow, KindsApart
        <5> QED BY <5>1
      <4> QED BY <1>1, <2>5, <4>2, <4>3, <4>4, SaysTheSame
    <3> QED BY <3>1, <3>2, <3>3
  <2> HIDE DEF Says
  <2> QED BY <2>1, <2>2, <2>5, SameSaid
<1> QED BY <1>4, <1>5

LEMMA ConfirmImportQuiet ==
    ASSUME IInv, NEW c, NEW r, NEW separate \in BOOLEAN, ConfirmImport(c, r, separate)
    PROVE  TwinStep /\ AgreeStep
<1> DEFINE p == cand[c].payload
           row == [cand[c] EXCEPT !.status = "conflict", !.rev = @ + 1]
<1>1. /\ c \in Candidates
      /\ \/ Install(Sealed(c)) \/ Install(Changed(c, row))
         \/ /\ Openable(Db, c, r, separate) /\ (separate \/ ~Conflict(Db, p))
            /\ Install(Promoted(Db, c, p)) /\ Answer(c, r, p, separate)
  BY DEF ConfirmImport, Candidates
<1>2. CASE Install(Sealed(c))
  BY <1>2, ChangedQuiet DEF Sealed
<1>3. CASE Install(Changed(c, row))
  <2> HIDE DEF row
  <2> QED BY <1>3, ChangedQuiet
<1>4. CASE /\ Openable(Db, c, r, separate) /\ (separate \/ ~Conflict(Db, p))
           /\ Install(Promoted(Db, c, p)) /\ Answer(c, r, p, separate)
  <2>1. /\ Rows(Db) /\ Db.rec = records /\ Db.st = states /\ Db.node = node /\ Db.cand = cand
        /\ Db.pos = position
    BY DEF IInv, Db
  <2>2. cand[c].status # "none" /\ (separate => p.kind \in SeparateKinds)
    BY <1>4, <2>1 DEF Openable
  <2>3. p \in Payloads
    BY <1>1, <2>2, RowOf
  <2> HIDE DEF p
  <2> DEFINE later == Promoted(Db, c, p)
  <2>4. Promotes(Db, c, p, later) /\ Install(later)
    BY <1>1, <1>4, <2>1, <2>3, PromotedEffect
  <2> HIDE DEF later
  <2>5. answer'.cand = c /\ answer'.separate = separate
    BY <1>4 DEF Answer
  <2> QED BY <1>1, <1>4, <2>1, <2>2, <2>3, <2>4, <2>5, OneIsQuiet
<1> QED BY <1>1, <1>2, <1>3, <1>4

LEMMA BulkConfirmQuiet ==
    ASSUME IInv, NEW c, NEW d, NEW q, NEW r, BulkConfirm(c, d, q, r)
    PROVE  TwinStep /\ AgreeStep
<1> DEFINE p == cand[c].payload
           s == cand[d].payload
           one == Promoted(Db, c, p)
           two == Promoted(one, d, s)
<1>1. /\ c \in Candidates /\ d \in Candidates /\ p \in Payloads /\ s \in Payloads
      /\ Promotes(Db, c, p, one) /\ Rows(one) /\ Promotes(one, d, s, two)
      /\ ~Conflict(Db, p) /\ ~Conflict(one, s) /\ c # d
  BY BulkEffect
<1>2. Install(two) /\ answer'.cand = d
  BY DEF BulkConfirm, Answer
<1> HIDE DEF p, s, one, two
<1> QED BY <1>1, <1>2, TwoAreQuiet

LEMMA BulkRepeatQuiet ==
    ASSUME IInv, NEW c, NEW d, NEW q, NEW r, BulkRepeat(c, d, q, r)
    PROVE  TwinStep /\ AgreeStep
<1> DEFINE s == cand[d].payload
           db == Sealed(c)
           later == Promoted(db, d, s)
<1>1. /\ c \in Candidates /\ d \in Candidates /\ cand[c].status = "confirmed"
      /\ s \in Payloads /\ ~Conflict(db, s) /\ Installs(db) /\ Promotes(db, d, s, later)
  BY RepeatEffect
<1>2. Install(later)
  BY DEF BulkRepeat
<1>3. db.rec = records /\ db.st = states /\ db.node = node /\ db.pos = position
  BY <1>1, SealedDb
<1>4. Rows(db)
  BY <1>1 DEF Installs
<1> HIDE DEF s, db, later
<1> QED BY <1>1, <1>2, <1>3, <1>4, OneIsQuiet

LEMMA ConfirmGeneratedQuiet ==
    ASSUME IInv, NEW c, NEW r, ConfirmGenerated(c, r) PROVE TwinStep /\ AgreeStep
<1> DEFINE p == cand[c].payload
<1>1. /\ c \in Generated /\ c \in Candidates /\ cand[c].status # "none"
      /\ \/ UNCHANGED <<records, states>> \/ Install(Promoted(Db, c, p))
  BY DEF ConfirmGenerated, Candidates, stateVars
<1>2. p \in Payloads
  BY <1>1, RowOf
<1> HIDE DEF p
<1> QED BY <1>1, <1>2, SameRows, GeneratedQuiet

(* The author's own rows are by nobody, a rewritten row is not a new one. *)
LEMMA OwnQuiet ==
    ASSUME IInv,
           \/ \E p \in Records : CreateRecord(p)
           \/ \E i \in DOMAIN records : \/ \E p \in Records : EditRecord(i, p)
                                        \/ TrashRecord(i) \/ RestoreRecord(i) \/ PurgeRecord(i)
           \/ TrashSource \/ RestoreSource
    PROVE  TwinStep /\ AgreeStep
<1>1. records \in Seq(RecordRow)
  BY DEF IInv, Rows, Db
<1>2. CASE \E p \in Records : CreateRecord(p)
  <2> PICK p \in Records : CreateRecord(p)
    BY <1>2
  <2> DEFINE row == Record(p, 0)
  <2>1. row \in RecordRow /\ row.by = 0 /\ 0 \notin Imported
    BY RecordIsRow, CandidatesAssumption DEF Authors, Candidates
  <2>2. records' = Append(records, row) /\ UNCHANGED states
    BY DEF CreateRecord, Own, stateVars
  <2> HIDE DEF row
  <2>3. \A i \in NewRows(records', records) : records'[i].by = 0
    BY <1>1, <2>1, <2>2, Appended DEF NewRows
  <2> QED BY <2>1, <2>2, <2>3, HomemadeIsQuiet DEF Homemade, NewRows
<1>3. CASE \E i \in DOMAIN records : \/ \E p \in Records : EditRecord(i, p)
                                     \/ TrashRecord(i) \/ RestoreRecord(i) \/ PurgeRecord(i)
  <2>1. DOMAIN records' = DOMAIN records /\ UNCHANGED states
    BY <1>3 DEF EditRecord, TrashRecord, RestoreRecord, PurgeRecord, Own, stateVars
  <2> QED BY <2>1, SameRows
<1>4. CASE TrashSource \/ RestoreSource
  BY <1>4, SameRows DEF TrashSource, RestoreSource, stateVars
<1> QED BY <1>2, <1>3, <1>4

LEMMA OutlineQuiet == ASSUME IInv, Outline PROVE TwinStep /\ AgreeStep
<1>1. UNCHANGED records /\ states \in Seq(StateRow)
  BY DEF Outline, IInv, Rows, Db
<1>2. CASE \E s \in StateInputs : CreateState(s)
  <2> PICK s \in StateInputs : CreateState(s)
    BY <1>2
  <2> DEFINE row == Row(s, NoNode)
  <2>1. row \in StateRow /\ row.by = 0 /\ 0 \notin Imported
    BY RowIsStateRow, InputsAssumption, CandidatesAssumption DEF Authors, Candidates, NoNode
  <2>2. states' = Append(states, row)
    BY DEF CreateState
  <2> HIDE DEF row
  <2>3. \A i \in NewRows(states', states) : states'[i].by = 0
    BY <1>1, <2>1, <2>2, Appended DEF NewRows
  <2> QED BY <1>1, <2>1, <2>3, HomemadeIsQuiet DEF Homemade, NewRows
<1>3. CASE ~\E s \in StateInputs : CreateState(s)
  <2>1. DOMAIN states' = DOMAIN states
    BY <1>3 DEF Outline, EditState, EditLegacy, TrashEntity, RestoreEntity, TrashNode,
                RestoreNode, EditNode
  <2> QED BY <1>1, <2>1, SameRows
<1> QED BY <1>2, <1>3

LEMMA NextQuiet == ASSUME IInv, [Next]_vars PROVE TwinStep /\ AgreeStep
<1>1. CASE \E c \in Generated, p \in Payloads : Persist(c, p)
  BY <1>1, ChangedQuiet DEF Persist
<1>2. CASE \E c \in Candidates : \E r \in 1..cand[c].rev : r < MaxRevision /\ Requests(c, r)
  <2> PICK c \in Candidates : \E r \in 1..cand[c].rev : Requests(c, r)
    BY <1>2
  <2> PICK r \in 1..cand[c].rev : Requests(c, r)
    OBVIOUS
  <2>1. CASE \E p \in Payloads : EditGenerated(c, r, p) \/ EditImport(c, r, p)
    BY <2>1, ChangedQuiet DEF EditGenerated, EditImport
  <2>2. CASE RejectGenerated(c, r) \/ RejectImport(c, r)
    BY <2>2, ChangedQuiet DEF RejectGenerated, RejectImport
  <2>3. CASE ConfirmGenerated(c, r) \/ \E separate \in BOOLEAN : ConfirmImport(c, r, separate)
    BY <2>3, ConfirmGeneratedQuiet, ConfirmImportQuiet
  <2>4. CASE \E d, q : BulkConfirm(c, d, r, q) \/ BulkRepeat(c, d, r, q)
    BY <2>4, BulkConfirmQuiet, BulkRepeatQuiet
  <2> QED BY <2>1, <2>2, <2>3, <2>4 DEF Requests
<1>3. CASE \E c \in Imported : Consolidate(c)
  BY <1>3, ChangedQuiet DEF Consolidate
<1>4. CASE \/ \E p \in Records : CreateRecord(p)
           \/ \E i \in DOMAIN records : \/ \E p \in Records : EditRecord(i, p)
                                        \/ TrashRecord(i) \/ RestoreRecord(i) \/ PurgeRecord(i)
           \/ TrashSource \/ RestoreSource
  BY <1>4, OwnQuiet
<1>5. CASE Outline
  BY <1>5, OutlineQuiet
<1>6. CASE UNCHANGED vars
  BY <1>6, SameRows DEF vars, stateVars
<1> QED BY <1>1, <1>2, <1>3, <1>4, <1>5, <1>6 DEF Next

-----------------------------------------------------------------------------
(* An imported candidate becomes the twin of a record in use only in a     *)
(* request about it alone that asks for a separate record: a plain         *)
(* confirmation stops at the conflict, a repetition writes nothing, and a  *)
(* bulk confirmation compares each of its entries with the book the        *)
(* earlier ones left (confirm_import_candidate,                            *)
(* bulk_confirm_import_candidates).                                        *)
THEOREM NoTwinsUnasked == Spec => NoSilentTwin
<1>1. (IInv /\ AsShown) /\ [Next]_vars =>
        [\A i \in DOMAIN records' \ DOMAIN records :
           records'[i].by \in Imported /\ Twins(records', i) # {}
           => /\ answer'.cand = records'[i].by /\ answer'.separate
              /\ records'[i].payload.kind \in SeparateKinds]_vars
  BY NextQuiet DEF TwinStep, NewRows
<1> QED BY CandidatesInvariant, <1>1, PTL DEF Spec, NoSilentTwin

(* What a confirmation compares a state with (candidate_entity_state_-     *)
(* conflict) covers what the reader of the entity computes                 *)
(* (_resolve_entity_state): where a state from an imported book begins to  *)
(* hold nothing is disputed, also where an earlier entry of its request    *)
(* moved a chapter (_promote_node_update); a later one is not claimed.     *)
THEOREM ImportedStatesAgree == Spec => ImportsAgree
<1>1. (IInv /\ AsShown) /\ [Next]_vars =>
        [\A i \in DOMAIN states' \ DOMAIN states :
           states'[i].by \in Imported /\ (position' = position \/ answer'.cand = states'[i].by)
           => \A n \in Nodes : node[n].live /\ i \in Applicable(n)' => Conflicts(n)' = {}]_vars
  BY NextQuiet DEF AgreeStep, NewRows
<1> QED BY CandidatesInvariant, <1>1, PTL DEF Spec, ImportsAgree
=============================================================================
