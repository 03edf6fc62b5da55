---------------------------- MODULE Spending_proofs ----------------------------
(***************************************************************************)
(* What the ledger keeps for every number of callers, entries, crashes and *)
(* failed transactions: a request that may have been charged stays counted *)
(* (DeliveredCounted), what is reconciled or priced by the provider is     *)
(* final (ReconciledFinal), and what a scope has committed stays within    *)
(* the limits it was granted under, but for overruns (LimitKept).          *)
(*                                                                         *)
(* The argument: an entry belongs to one caller (Apart), and while it may  *)
(* still be written the caller's position says what its row holds and that *)
(* it is in active (Position), which keeps the author away from it.  For   *)
(* the limits: a step writes one entry, so a sum over a scope changes by   *)
(* that entry's share (SumChange, by induction over the parts of a finite  *)
(* set); only a grant adds to it, and everything else eases the entry it   *)
(* writes (Ease): it commits no more than before, but for its overrun.     *)
(***************************************************************************)
EXTENDS Spending, TLAPS, FiniteSetTheorems, WellFoundedInduction

Counted == {"sent", "unknown", "settled", "reconciled"}

(* No two callers hold the same entry. *)
Apart == \A c, d \in Callers :
            caller[c].entry # 0 /\ caller[c].entry = caller[d].entry => c = d

(* The row of the entry a caller holds, by the caller's position in _send. *)
Position(c) ==
    LET e == caller[c].entry IN
    /\ e # 0 => entry[e].status # "absent"
    /\ caller[c].pc \in {"before", "release", "mark"} =>
          e # 0 /\ e \in active /\ entry[e].status = "reserved"
    /\ caller[c].pc \in {"wire", "refused", "reply"} =>
          e # 0 /\ e \in active /\ entry[e].status = "sent"
    /\ caller[c].pc \in {"before", "release", "mark", "wire", "refused"} => e \notin delivered
    /\ caller[c].pc = "content" => e # 0

Positions == \A c \in Callers : Position(c)

IInv == RowsOK /\ Apart /\ Positions /\ DeliveredCounted

(* A priced or reconciled row, which nothing may change. *)
Final(e) == \/ entry[e].status = "reconciled"
            \/ entry[e].status = "settled" /\ entry[e].cost # Unknown
FinalKept == \A e \in Entries : Final(e) => entry'[e] = entry[e]

EntryRow == [status : Statuses, scope : Scopes, reserve : Amounts \cup {Unknown},
             cost : Nat \cup {Unknown}]
CallerRow == [pc : PCs, entry : 0..MaxEntries, tries : 0..1]

(* The rows stay rows when the status and the cost of one of them change. *)
LEMMA RowUpdate ==
    ASSUME RowsOK, NEW e \in Entries, NEW s \in Statuses, NEW v \in Nat \cup {Unknown}
    PROVE  /\ [entry EXCEPT ![e].status = s] \in [Entries -> EntryRow]
           /\ [entry EXCEPT ![e].status = s, ![e].cost = v] \in [Entries -> EntryRow]
<1>1. entry \in [Entries -> EntryRow]
  BY DEF RowsOK, EntryRow
<1>2. entry[e] \in EntryRow
  BY <1>1
<1>3. [entry[e] EXCEPT !.status = s] \in EntryRow
  BY <1>2 DEF EntryRow
<1>4. [[entry[e] EXCEPT !.status = s] EXCEPT !.cost = v] \in EntryRow
  BY <1>3 DEF EntryRow
<1>5. [entry EXCEPT ![e].status = s] \in [Entries -> EntryRow]
  BY <1>1, <1>3
<1>6. [entry EXCEPT ![e].status = s, ![e].cost = v] \in [Entries -> EntryRow]
  <2>1. [entry EXCEPT ![e].status = s, ![e].cost = v]
          = [entry EXCEPT ![e] = [[entry[e] EXCEPT !.status = s] EXCEPT !.cost = v]]
    BY <1>1
  <2> QED BY <1>1, <1>4, <2>1
<1> QED BY <1>5, <1>6

-----------------------------------------------------------------------------
(* The whole effect of a step of one caller on the rows, as far as the      *)
(* others are concerned: it writes its own entry e, or takes one that       *)
(* nobody has, and removes nothing else from active.                        *)
Local(c, e) ==
    /\ \A d \in Callers \ {c} : caller'[d] = caller[d]
    /\ \A f \in Entries \ {e} : entry'[f] = entry[f]
    /\ \A f \in Entries \ {e} : f \in active => f \in active'
    /\ \A f \in Entries \ {e} : f \in delivered' <=> f \in delivered

LEMMA HeldByOne ==
    ASSUME IInv, NEW c \in Callers, NEW d \in Callers \ {c}, NEW e,
           e = caller[c].entry \/ (e \in Entries /\ entry[e].status = "absent"),
           caller[d].entry # 0
    PROVE  caller[d].entry \in Entries \ {e}
<1>1. caller[d].entry \in Entries
  BY DEF IInv, RowsOK, Entries
<1>2. caller[d].entry # e
  BY DEF IInv, Apart, Positions, Position
<1> QED BY <1>1, <1>2

LEMMA OthersKeepPosition ==
    ASSUME IInv, NEW c \in Callers, NEW e,
           e = caller[c].entry \/ (e \in Entries /\ entry[e].status = "absent"),
           Local(c, e), NEW d \in Callers \ {c}
    PROVE  Position(d)'
<1>1. Position(d) /\ caller'[d] = caller[d]
  BY DEF IInv, Positions, Local
<1>2. CASE caller[d].entry = 0
  <2>1. caller[d].pc \notin {"before", "release", "mark", "wire", "refused", "reply", "content"}
    BY <1>1, <1>2 DEF Position
  <2> QED BY <1>1, <1>2, <2>1 DEF Position
<1>3. CASE caller[d].entry # 0
  <2>1. caller[d].entry \in Entries \ {e}
    BY <1>3, HeldByOne
  <2> QED BY <1>1, <1>3, <2>1 DEF Position, Local
<1> QED BY <1>2, <1>3

LEMMA ApartKept ==
    ASSUME IInv, NEW c \in Callers, NEW e,
           e = caller[c].entry \/ (e \in Entries /\ entry[e].status = "absent"),
           Local(c, e),
           caller'[c].entry \in {0, e}
    PROVE  Apart'
<1> SUFFICES ASSUME NEW a \in Callers, NEW b \in Callers, a # b,
                    caller'[a].entry # 0, caller'[a].entry = caller'[b].entry
             PROVE  FALSE
  BY DEF Apart
<1>1. \A d \in Callers \ {c} : caller'[d] = caller[d]
  BY DEF Local
<1>2. CASE a # c /\ b # c
  BY <1>1, <1>2 DEF IInv, Apart
<1>3. CASE a = c
  <2>1. caller'[b].entry = e /\ caller[b].entry = e /\ e # 0
    BY <1>1, <1>3
  <2> QED BY <1>3, <2>1, HeldByOne
<1>4. CASE b = c
  <2>1. caller'[a].entry = e /\ caller[a].entry = e /\ e # 0
    BY <1>1, <1>4
  <2> QED BY <1>4, <2>1, HeldByOne
<1> QED BY <1>2, <1>3, <1>4

(* What remains to be shown of one caller's step: its own row and position. *)
Own(c, e) ==
    /\ RowsOK' /\ Position(c)' /\ Local(c, e) /\ caller'[c].entry \in {0, e}
    /\ e \in Entries /\ e \in delivered' => entry'[e].status \in Counted
    /\ e \in Entries /\ Final(e) => entry'[e] = entry[e]

Goal == IInv' /\ FinalKept

LEMMA OwnSuffices ==
    ASSUME IInv, NEW c \in Callers, NEW e,
           e = caller[c].entry \/ (e \in Entries /\ entry[e].status = "absent"),
           Own(c, e)
    PROVE  Goal
<1>1. Apart'
  BY ApartKept DEF Own
<1>2. Positions'
  <2> SUFFICES ASSUME NEW d \in Callers PROVE Position(d)'
    BY DEF Positions
  <2>1. CASE d = c
    BY <2>1 DEF Own
  <2>2. CASE d # c
    BY <2>2, OthersKeepPosition DEF Own
  <2> QED BY <2>1, <2>2
<1>3. DeliveredCounted'
  <2> SUFFICES ASSUME NEW f \in delivered' PROVE entry'[f].status \in Counted
    BY DEF DeliveredCounted, Counted
  <2>1. f \in Entries
    BY DEF Own, RowsOK, Entries
  <2>2. CASE f = e
    BY <2>1, <2>2 DEF Own
  <2>3. CASE f # e
    BY <2>1, <2>3 DEF Own, Local, IInv, DeliveredCounted, Counted
  <2> QED BY <2>2, <2>3
<1>4. FinalKept
  <2> SUFFICES ASSUME NEW f \in Entries, Final(f) PROVE entry'[f] = entry[f]
    BY DEF FinalKept
  <2>1. CASE f = e
    BY <2>1 DEF Own
  <2>2. CASE f # e
    BY <2>2 DEF Own, Local
  <2> QED BY <2>1, <2>2
<1> QED BY <1>1, <1>2, <1>3, <1>4 DEF Own, IInv, Goal

-----------------------------------------------------------------------------
(* One lemma per action of _send. *)

LEMMA StartStep == ASSUME IInv, NEW c \in Callers, Start(c) PROVE Goal
<1> DEFINE e == caller[c].entry
<1>1. RowsOK'
  BY SpendingAssumption DEF IInv, RowsOK, Start, settings, bounds, PCs
<1>2. caller'[c] = [pc |-> "reserve", entry |-> 0, tries |-> 0]
  BY DEF IInv, RowsOK, Start
<1>3. Position(c)'
  BY <1>2 DEF Position
<1>4. Local(c, e)
  BY DEF Start, IInv, RowsOK, Local
<1>5. Own(c, e)
  BY <1>1, <1>2, <1>3, <1>4 DEF Own, Start, IInv, DeliveredCounted, Counted
<1> QED BY <1>5, OwnSuffices

LEMMA ReserveStep == ASSUME IInv, NEW c \in Callers, Reserve(c) PROVE Goal
<1>1. PICK amount \in Amounts \cup {Unknown} :
         Refuse(c, amount) \/ \E e \in Entries : Grant(c, amount, e)
  BY DEF Reserve
<1>2. CASE Refuse(c, amount)
  <2> DEFINE e == caller[c].entry
  <2>1. /\ caller' = [caller EXCEPT ![c].pc = "finally"]
        /\ UNCHANGED <<entry, active, delivered, limit, priced, revision, crashes, faults>>
    BY <1>2 DEF Reserve, Refuse, Goto, settings, bounds
  <2>2. RowsOK'
    BY <2>1 DEF IInv, RowsOK, PCs
  <2>3. caller'[c].pc = "finally" /\ caller'[c].entry = e
    BY <2>1 DEF IInv, RowsOK
  <2>4. Position(c)'
    BY <2>1, <2>3 DEF Position, IInv, Positions
  <2>5. Local(c, e)
    BY <2>1 DEF IInv, RowsOK, Local
  <2>6. Own(c, e)
    BY <2>1, <2>2, <2>3, <2>4, <2>5 DEF Own, IInv, DeliveredCounted, Counted
  <2> QED BY <2>6, OwnSuffices
<1>3. ASSUME NEW e \in Entries, Grant(c, amount, e) PROVE Goal
  <2> DEFINE row == [status |-> "reserved", scope |-> Project[c], reserve |-> amount,
                     cost |-> Unknown]
  <2>1. /\ caller' = [caller EXCEPT ![c].pc = "before", ![c].entry = e]
        /\ entry' = [entry EXCEPT ![e] = row]
        /\ active' = active \cup {e}
        /\ UNCHANGED <<delivered, limit, priced, revision, crashes, faults>>
    BY <1>3 DEF Reserve, Grant, settings, bounds
  <2>2. entry[e].status = "absent" /\ e # 0
    BY <1>3 DEF Grant, Fresh, Used, Entries
  <2>3. row \in EntryRow
    BY SpendingAssumption DEF EntryRow, Statuses, Open, Scopes
  <2>4. RowsOK'
    <3>1. entry' \in [Entries -> EntryRow]
      BY <2>1, <2>3 DEF IInv, RowsOK, EntryRow
    <3>2. e \in 0..MaxEntries /\ "before" \in PCs
      BY SpendingAssumption DEF Entries, PCs
    <3>3. caller' \in [Callers -> CallerRow]
      BY <2>1, <3>2 DEF IInv, RowsOK, CallerRow
    <3>4. active' \subseteq Entries
      BY <2>1 DEF IInv, RowsOK
    <3> QED BY <2>1, <3>1, <3>3, <3>4 DEF IInv, RowsOK, EntryRow, CallerRow
  <2>5. caller'[c].pc = "before" /\ caller'[c].entry = e /\ entry'[e].status = "reserved"
    BY <2>1 DEF IInv, RowsOK
  <2>6. e \notin delivered
    BY <2>2 DEF IInv, DeliveredCounted
  <2>7. Position(c)'
    BY <2>1, <2>2, <2>5, <2>6 DEF Position
  <2>8. Local(c, e)
    BY <2>1 DEF IInv, RowsOK, Local
  <2>9. Own(c, e)
    BY <2>1, <2>2, <2>4, <2>5, <2>6, <2>7, <2>8 DEF Own, Final
  <2> QED BY <2>2, <2>9, OwnSuffices
<1> QED BY <1>1, <1>2, <1>3

(* A step that only moves the caller. *)
LEMMA GotoTyped ==
    ASSUME IInv, NEW c \in Callers, NEW pc \in PCs, Goto(c, pc)
    PROVE  /\ caller' \in [Callers -> CallerRow]
           /\ caller'[c].pc = pc /\ caller'[c].entry = caller[c].entry
           /\ \A d \in Callers \ {c} : caller'[d] = caller[d]
  BY DEF IInv, RowsOK, Goto, CallerRow

LEMMA BeforeSendStep == ASSUME IInv, NEW c \in Callers, BeforeSend(c) PROVE Goal
<1> DEFINE e == caller[c].entry
<1>1. PICK pc \in {"mark", "release"} : Goto(c, pc)
  BY DEF BeforeSend
<1>2. /\ caller' \in [Callers -> CallerRow]
      /\ caller'[c].pc = pc /\ caller'[c].entry = e
      /\ \A d \in Callers \ {c} : caller'[d] = caller[d]
  BY <1>1, GotoTyped DEF PCs
<1>3. UNCHANGED <<entry, active, delivered, limit, priced, revision, crashes, faults>>
  BY DEF BeforeSend, settings, bounds
<1>4. Position(c)'
  BY <1>2, <1>3 DEF BeforeSend, Position, IInv, Positions
<1>5. Own(c, e)
  BY <1>2, <1>3, <1>4 DEF Own, Local, IInv, RowsOK, CallerRow, DeliveredCounted, Counted
<1> QED BY <1>5, OwnSuffices

LEMMA SentStep == ASSUME IInv, NEW c \in Callers, Sent(c) PROVE Goal
<1> DEFINE e == caller[c].entry
<1>1. /\ caller' \in [Callers -> CallerRow]
      /\ caller'[c].pc = "wire" /\ caller'[c].entry = e
      /\ \A d \in Callers \ {c} : caller'[d] = caller[d]
  BY GotoTyped DEF Sent, PCs
<1>2. /\ e \in Entries /\ e # 0 /\ e \in active /\ entry[e].status = "reserved"
      /\ e \notin delivered
  BY DEF Sent, IInv, Positions, Position, RowsOK, Entries
<1>3. /\ entry' = [entry EXCEPT ![e].status = "sent"]
      /\ UNCHANGED <<active, delivered, limit, priced, revision, crashes, faults>>
  BY <1>2 DEF Sent, settings, bounds
<1>4. entry' \in [Entries -> EntryRow]
  <2>1. "sent" \in Statuses
    BY DEF Statuses, Open
  <2> QED BY <1>2, <1>3, <2>1, RowUpdate DEF IInv
<1>5. RowsOK'
  BY <1>1, <1>3, <1>4 DEF IInv, RowsOK, EntryRow, CallerRow
<1>6. entry'[e].status = "sent" /\ \A f \in Entries \ {e} : entry'[f] = entry[f]
  BY <1>2, <1>3 DEF IInv, RowsOK
<1>7. Position(c)'
  BY <1>1, <1>2, <1>3, <1>6 DEF Position
<1>8. Own(c, e)
  BY <1>1, <1>2, <1>3, <1>5, <1>6, <1>7 DEF Own, Local, Final
<1> QED BY <1>8, OwnSuffices

LEMMA WireStep == ASSUME IInv, NEW c \in Callers, Wire(c) PROVE Goal
<1> DEFINE e == caller[c].entry
<1>1. PICK pc \in {"reply", "refused"} :
         Goto(c, pc) /\ (pc = "refused" => UNCHANGED delivered)
                     /\ (pc = "reply" => delivered' = delivered \cup {e})
  BY DEF Wire
<1>2. /\ caller' \in [Callers -> CallerRow]
      /\ caller'[c].pc = pc /\ caller'[c].entry = e
      /\ \A d \in Callers \ {c} : caller'[d] = caller[d]
  BY <1>1, GotoTyped DEF PCs
<1>3. UNCHANGED <<entry, active, limit, priced, revision, crashes, faults>>
  BY DEF Wire, settings, bounds
<1>4. /\ e \in Entries /\ e # 0 /\ e \in active /\ entry[e].status = "sent"
      /\ e \notin delivered
  BY DEF Wire, IInv, Positions, Position, RowsOK, Entries
<1>5. RowsOK'
  BY <1>1, <1>2, <1>3, <1>4 DEF IInv, RowsOK, CallerRow
<1>6. Position(c)'
  BY <1>1, <1>2, <1>3, <1>4 DEF Position
<1>7. Own(c, e)
  BY <1>1, <1>2, <1>3, <1>4, <1>5, <1>6 DEF Own, Local, Final, Counted
<1> QED BY <1>7, OwnSuffices

LEMMA NotSentStep == ASSUME IInv, NEW c \in Callers, NotSent(c) PROVE Goal
<1> DEFINE e == caller[c].entry
<1>1. PICK pc \in {"finally", "reserve"} :
         /\ caller'[c].pc = pc /\ caller'[c].entry = e
         /\ caller' \in [Callers -> CallerRow]
         /\ \A d \in Callers \ {c} : caller'[d] = caller[d]
  <2>1. CASE Goto(c, "finally")
    BY <2>1, GotoTyped DEF PCs
  <2>2. CASE /\ caller[c].tries < LastTry
             /\ caller' = [caller EXCEPT ![c].pc = "reserve", ![c].tries = @ + 1]
    <3>1. caller[c].tries + 1 \in 0..1 /\ "reserve" \in PCs
      BY <2>2 DEF IInv, RowsOK, LastTry, PCs
    <3> QED BY <2>2, <3>1 DEF IInv, RowsOK, CallerRow
  <2> QED BY <2>1, <2>2 DEF NotSent
<1>2. /\ e \in Entries /\ e # 0 /\ e \notin delivered
      /\ entry[e].status \in {"reserved", "sent"}
  BY DEF NotSent, Releases, IInv, Positions, Position, RowsOK, Entries
<1>3. /\ entry' = [entry EXCEPT ![e].status = "not_sent", ![e].cost = 0]
      /\ active' = active \ {e}
      /\ UNCHANGED <<delivered, limit, priced, revision, crashes, faults>>
  BY DEF NotSent, Closed, settings, bounds
<1>4. entry' \in [Entries -> EntryRow]
  <2>1. "not_sent" \in Statuses /\ 0 \in Nat
    BY DEF Statuses
  <2> QED BY <1>2, <1>3, <2>1, RowUpdate DEF IInv
<1>5. RowsOK'
  BY <1>1, <1>3, <1>4 DEF IInv, RowsOK, EntryRow, CallerRow
<1>6. entry'[e].status = "not_sent" /\ \A f \in Entries \ {e} : entry'[f] = entry[f]
  BY <1>2, <1>3 DEF IInv, RowsOK
<1>7. Position(c)'
  BY <1>1, <1>6 DEF Position
<1>8. Own(c, e)
  BY <1>1, <1>2, <1>3, <1>5, <1>6, <1>7 DEF Own, Local, Final
<1> QED BY <1>8, OwnSuffices

(* settle() leaves the row of a closed entry alone and counts an open one. *)
LEMMA SettledEffect ==
    ASSUME IInv, NEW e \in Entries, NEW cost \in Nat, Settled(e, cost)
    PROVE  /\ entry' \in [Entries -> EntryRow] /\ active' \subseteq Entries
           /\ \A f \in Entries \ {e} : entry'[f] = entry[f] /\ (f \in active => f \in active')
           /\ entry'[e] = entry[e] \/ (entry[e].status \in Open /\ entry'[e].status = "settled")
<1>1. CASE entry[e].status \notin Open
  BY <1>1 DEF Settled, IInv, RowsOK, EntryRow
<1>2. CASE entry[e].status \in Open
  <2>1. PICK v \in Nat \cup {Unknown} :
           entry' = [entry EXCEPT ![e].status = "settled", ![e].cost = v]
    BY <1>2 DEF Settled
  <2>2. active' = active \ {e}
    BY <1>2 DEF Settled, Closed
  <2>3. entry' \in [Entries -> EntryRow]
    <3>1. "settled" \in Statuses
      BY DEF Statuses
    <3> QED BY <2>1, <3>1, RowUpdate DEF IInv
  <2>4. entry'[e].status = "settled" /\ \A f \in Entries \ {e} : entry'[f] = entry[f]
    BY <2>1 DEF IInv, RowsOK
  <2> QED BY <1>2, <2>2, <2>3, <2>4 DEF IInv, RowsOK
<1> QED BY <1>1, <1>2

(* A caller that has its reply settles its entry, or not, and moves on. *)
LEMMA AfterReply ==
    ASSUME IInv, NEW c \in Callers, NEW pc \in {"content", "finally"}, Goto(c, pc),
           caller[c].entry # 0,
           (\E cost \in Amounts : Settled(caller[c].entry, cost)) \/ UNCHANGED <<entry, active>>,
           UNCHANGED <<delivered, limit, priced, revision, crashes, faults>>
    PROVE  Goal
<1> DEFINE e == caller[c].entry
<1>1. /\ caller' \in [Callers -> CallerRow]
      /\ caller'[c].pc = pc /\ caller'[c].entry = e
      /\ \A d \in Callers \ {c} : caller'[d] = caller[d]
  BY GotoTyped DEF PCs
<1>2. e \in Entries
  BY DEF IInv, RowsOK, Entries
<1>3. /\ entry' \in [Entries -> EntryRow] /\ active' \subseteq Entries
      /\ \A f \in Entries \ {e} : entry'[f] = entry[f] /\ (f \in active => f \in active')
      /\ entry'[e] = entry[e] \/ (entry[e].status \in Open /\ entry'[e].status = "settled")
  <2>1. CASE UNCHANGED <<entry, active>>
    BY <2>1 DEF IInv, RowsOK, EntryRow
  <2>2. CASE \E cost \in Amounts : Settled(e, cost)
    BY <1>2, <2>2, SettledEffect, SpendingAssumption
  <2> QED BY <2>1, <2>2
<1>4. RowsOK'
  BY <1>1, <1>3 DEF IInv, RowsOK, EntryRow, CallerRow
<1>5. Position(c)'
  BY <1>1, <1>3 DEF Position, IInv, Positions
<1>6. e \in delivered => entry'[e].status \in Counted
  BY <1>3 DEF IInv, DeliveredCounted, Counted
<1>7. Final(e) => entry'[e] = entry[e]
  BY <1>3 DEF Final, Open
<1>8. Own(c, e)
  BY <1>1, <1>3, <1>4, <1>5, <1>6, <1>7 DEF Own, Local
<1> QED BY <1>8, OwnSuffices

LEMMA ReplyStep == ASSUME IInv, NEW c \in Callers, Reply(c) PROVE Goal
<1>1. caller[c].entry # 0
  BY DEF Reply, IInv, Positions, Position
<1>2. UNCHANGED <<delivered, limit, priced, revision, crashes, faults>>
  BY DEF Reply, settings, bounds
<1> QED BY <1>1, <1>2, AfterReply DEF Reply

LEMMA ContentStep == ASSUME IInv, NEW c \in Callers, Content(c) PROVE Goal
<1>1. caller[c].entry # 0
  BY DEF Content, IInv, Positions, Position
<1>2. UNCHANGED <<delivered, limit, priced, revision, crashes, faults>>
  BY DEF Content, settings, bounds
<1> QED BY <1>1, <1>2, AfterReply DEF Content

LEMMA FinallyStep == ASSUME IInv, NEW c \in Callers, Finally(c) PROVE Goal
<1> DEFINE e == caller[c].entry
<1>1. /\ caller' = [caller EXCEPT ![c] = Quiet]
      /\ UNCHANGED <<delivered, limit, priced, revision, crashes, faults>>
  BY DEF Finally, settings, bounds
<1>2. /\ caller' \in [Callers -> CallerRow] /\ caller'[c] = Quiet
      /\ \A d \in Callers \ {c} : caller'[d] = caller[d]
  BY <1>1, SpendingAssumption DEF IInv, RowsOK, CallerRow, Quiet, PCs
<1>3. Position(c)'
  BY <1>2 DEF Position, Quiet
<1>4. /\ entry' \in [Entries -> EntryRow] /\ active' \subseteq Entries
      /\ \A f \in Entries \ {e} : entry'[f] = entry[f] /\ (f \in active => f \in active')
      /\ e \in Entries =>
            \/ entry'[e] = entry[e]
            \/ entry[e].status \in {"reserved", "sent"} /\ entry'[e].status = "unknown"
  <2>1. CASE e = 0
    BY <2>1 DEF Finally, IInv, RowsOK, EntryRow, Entries
  <2>2. CASE e # 0
    <3>1. e \in Entries
      BY <2>2 DEF IInv, RowsOK, Entries
    <3>2. PICK s \in Statuses : /\ entry' = [entry EXCEPT ![e].status = s]
                               /\ \/ s = entry[e].status
                                  \/ entry[e].status \in {"reserved", "sent"} /\ s = "unknown"
      BY <2>2, <3>1 DEF Finally, Ending, Ended, IInv, RowsOK, Statuses, Open
    <3>3. active' = active \ {e}
      BY <2>2 DEF Finally, Closed
    <3>4. entry' \in [Entries -> EntryRow]
      BY <3>1, <3>2, RowUpdate DEF IInv
    <3>5. /\ \A f \in Entries \ {e} : entry'[f] = entry[f]
          /\ entry'[e] = [entry[e] EXCEPT !.status = s]
      BY <3>1, <3>2 DEF IInv, RowsOK
    <3>6. entry[e] \in EntryRow
      BY <3>1 DEF IInv, RowsOK, EntryRow
    <3>7. s = entry[e].status => entry'[e] = entry[e]
      BY <3>5, <3>6 DEF EntryRow
    <3>8. entry'[e].status = s
      BY <3>5, <3>6 DEF EntryRow
    <3> QED BY <3>2, <3>3, <3>4, <3>5, <3>7, <3>8 DEF IInv, RowsOK
  <2> QED BY <2>1, <2>2
<1>5. RowsOK'
  BY <1>1, <1>2, <1>4 DEF IInv, RowsOK, EntryRow, CallerRow
<1>6. e \in Entries /\ e \in delivered => entry'[e].status \in Counted
  BY <1>4 DEF IInv, DeliveredCounted, Counted
<1>7. e \in Entries /\ Final(e) => entry'[e] = entry[e]
  BY <1>4 DEF Final
<1>8. Own(c, e)
  BY <1>1, <1>2, <1>3, <1>4, <1>5, <1>6, <1>7 DEF Own, Local, Quiet
<1> QED BY <1>8, OwnSuffices

LEMMA LedgerFailsStep == ASSUME IInv, NEW c \in Callers, LedgerFails(c) PROVE Goal
<1> DEFINE e == caller[c].entry
<1>1. /\ caller' \in [Callers -> CallerRow] /\ caller'[c].pc \in {"finally", "idle"}
      /\ caller'[c].entry \in {0, e} /\ \A d \in Callers \ {c} : caller'[d] = caller[d]
  <2>1. CASE Goto(c, "finally")
    BY <2>1, GotoTyped DEF PCs
  <2>2. CASE caller' = [caller EXCEPT ![c] = Quiet]
    BY <2>2, SpendingAssumption DEF IInv, RowsOK, CallerRow, Quiet, PCs
  <2> QED BY <2>1, <2>2 DEF LedgerFails
<1>2. faults' \in Nat /\ UNCHANGED <<entry, delivered, limit, priced, revision, crashes>>
  BY DEF LedgerFails, settings, IInv, RowsOK
<1>3. active' \subseteq Entries /\ \A f \in Entries \ {e} : f \in active => f \in active'
  BY DEF LedgerFails, Closed, IInv, RowsOK
<1>4. RowsOK'
  BY <1>1, <1>2, <1>3 DEF IInv, RowsOK, CallerRow
<1>5. Position(c)'
  BY <1>1, <1>2 DEF Position, IInv, Positions
<1>6. Own(c, e)
  BY <1>1, <1>2, <1>3, <1>4, <1>5 DEF Own, Local, IInv, DeliveredCounted, Counted
<1> QED BY <1>6, OwnSuffices

-----------------------------------------------------------------------------
(* The author and the process. *)

LEMMA ConfigureStep == ASSUME IInv, NEW expected, Configure(expected) PROVE Goal
<1>1. UNCHANGED <<entry, active, caller, crashes, faults, delivered>>
  BY DEF Configure, bounds
<1>2. RowsOK'
  <2>1. revision' \in Nat /\ priced' \in BOOLEAN /\ limit' \in [Scopes -> Limits \cup {Unknown}]
    BY DEF Configure, IInv, RowsOK
  <2> QED BY <1>1, <2>1 DEF IInv, RowsOK
<1> QED BY <1>1, <1>2 DEF IInv, Goal, FinalKept, Apart, Positions, Position, DeliveredCounted

LEMMA ReconcileStep ==
    ASSUME IInv, NEW e \in Entries, NEW actual \in Amounts, Reconcile(e, actual)
    PROVE  Goal
<1>1. /\ entry' = [entry EXCEPT ![e].status = "reconciled", ![e].cost = actual]
      /\ UNCHANGED <<active, caller, delivered, limit, priced, revision, crashes, faults>>
  BY DEF Reconcile, settings, bounds
<1>2. /\ e \notin active /\ ~Final(e) /\ entry[e].status # "absent"
  BY DEF Reconcile, Reconcilable, Final, Open
<1>3. entry' \in [Entries -> EntryRow]
  <2>1. actual \in Nat /\ "reconciled" \in Statuses
    BY SpendingAssumption DEF Statuses
  <2> QED BY <1>1, <2>1, RowUpdate DEF IInv
<1>4. /\ \A f \in Entries \ {e} : entry'[f] = entry[f]
      /\ entry'[e].status = "reconciled"
  BY <1>1 DEF IInv, RowsOK
<1>5. RowsOK'
  BY <1>1, <1>3 DEF IInv, RowsOK, EntryRow
<1>6. Apart' /\ FinalKept
  BY <1>1, <1>2, <1>4 DEF IInv, Apart, FinalKept
<1>7. Positions'
  <2> SUFFICES ASSUME NEW c \in Callers PROVE Position(c)'
    BY DEF Positions
  <2>1. Position(c) /\ caller'[c] = caller[c] /\ caller[c].entry \in 0..MaxEntries
    BY <1>1 DEF IInv, Positions, RowsOK
  <2>2. CASE caller[c].entry = e
    BY <1>1, <1>2, <1>4, <2>1, <2>2 DEF Position
  <2>3. CASE caller[c].entry # e /\ caller[c].entry # 0
    <3>1. caller[c].entry \in Entries \ {e}
      BY <2>1, <2>3 DEF Entries
    <3> QED BY <1>1, <1>4, <2>1, <3>1 DEF Position
  <2>4. CASE caller[c].entry = 0
    BY <1>1, <2>1, <2>4 DEF Position
  <2> QED BY <2>2, <2>3, <2>4
<1>8. DeliveredCounted'
  <2> SUFFICES ASSUME NEW f \in delivered PROVE entry'[f].status \in Counted
    BY <1>1 DEF DeliveredCounted, Counted
  <2> QED BY <1>4 DEF IInv, RowsOK, DeliveredCounted, Counted
<1> QED BY <1>5, <1>6, <1>7, <1>8 DEF IInv, Goal

LEMMA CrashStep == ASSUME IInv, Crash PROVE Goal
<1>1. /\ active' = {} /\ caller' = [c \in Callers |-> Quiet] /\ crashes' \in Nat
      /\ UNCHANGED <<entry, limit, priced, revision, faults, delivered>>
  BY DEF Crash, settings, IInv, RowsOK
<1>2. Quiet \in CallerRow
  BY SpendingAssumption DEF Quiet, CallerRow, PCs
<1>3. RowsOK'
  BY <1>1, <1>2 DEF IInv, RowsOK, CallerRow
<1>4. Apart' /\ Positions'
  BY <1>1 DEF Apart, Positions, Position, Quiet
<1> QED BY <1>1, <1>3, <1>4 DEF IInv, Goal, FinalKept, DeliveredCounted

LEMMA InitIInv == ASSUME Init PROVE IInv
<1>1. NoEntry \in EntryRow /\ Quiet \in CallerRow
  BY SpendingAssumption DEF NoEntry, EntryRow, Quiet, CallerRow, PCs, Statuses, Open, Scopes
<1>2. RowsOK
  BY <1>1 DEF Init, RowsOK, EntryRow, CallerRow
<1> QED BY <1>2 DEF Init, IInv, Apart, Positions, Position, Quiet, DeliveredCounted

LEMMA NextIInv == ASSUME IInv, [Next]_vars PROVE Goal
<1>1. CASE \E c \in Callers : Start(c) \/ Send(c) \/ LedgerFails(c)
  <2> PICK c \in Callers : Start(c) \/ Send(c) \/ LedgerFails(c)
    BY <1>1
  <2>1. CASE Start(c) \/ LedgerFails(c)
    BY <2>1, StartStep, LedgerFailsStep
  <2>2. CASE Reserve(c) \/ BeforeSend(c) \/ Sent(c) \/ Wire(c)
    BY <2>2, ReserveStep, BeforeSendStep, SentStep, WireStep
  <2>3. CASE NotSent(c) \/ Reply(c) \/ Content(c) \/ Finally(c)
    BY <2>3, NotSentStep, ReplyStep, ContentStep, FinallyStep
  <2> QED BY <2>1, <2>2, <2>3 DEF Send
<1>2. CASE Author
  BY <1>2, ConfigureStep, ReconcileStep DEF Author
<1>3. CASE Crash
  BY <1>3, CrashStep
<1>4. CASE UNCHANGED vars
  <2>1. UNCHANGED <<entry, limit, priced, revision, active, caller, crashes, faults, delivered>>
    BY <1>4 DEF vars, settings, bounds
  <2>2. RowsOK' /\ FinalKept
    BY <2>1 DEF IInv, RowsOK, FinalKept
  <2>3. Apart' /\ Positions' /\ DeliveredCounted'
    BY <2>1 DEF IInv, Apart, Positions, Position, DeliveredCounted
  <2> QED BY <2>2, <2>3 DEF IInv, Goal
<1> QED BY <1>1, <1>2, <1>3, <1>4 DEF Next

-----------------------------------------------------------------------------
(* The rows, the callers' positions and the set active fit together in     *)
(* every reachable state of the ledger (spending.py, _send).               *)
THEOREM LedgerInvariant == Spec => []IInv
<1>1. IInv /\ [Next]_vars => IInv'
  BY NextIInv DEF Goal
<1> QED BY InitIInv, <1>1, PTL DEF Spec

(* A request that may have been charged is never released (not_sent,       *)
(* unknown), whatever the timeouts, ledger errors and restarts.            *)
THEOREM DeliveredStaysCounted == Spec => []DeliveredCounted
<1>1. IInv => DeliveredCounted
  BY DEF IInv
<1> QED BY LedgerInvariant, <1>1, PTL

(* A reconciled or priced entry is never written again (reconcile, settle, *)
(* unknown, not_sent), by any call still under way.                        *)
THEOREM FinalForEver == Spec => ReconciledFinal
<1>1. IInv /\ [Next]_vars =>
         [\A e \in Entries :
             \/ entry[e].status = "reconciled"
             \/ entry[e].status = "settled" /\ entry[e].cost # Unknown
             => entry'[e] = entry[e]]_vars
  BY NextIInv DEF Goal, FinalKept, Final
<1> QED BY LedgerInvariant, <1>1, PTL DEF Spec, ReconciledFinal

-----------------------------------------------------------------------------
(* Sums over finite sets.  The community modules' fold picks an element,    *)
(* adds its share and goes on with the rest; Sums(g, F, S) says that g is   *)
(* that recursive function.                                                 *)
PickOf(t) == CHOOSE x \in t : TRUE
Sums(g, F, S) ==
    g = [t \in SUBSET S |-> IF t = {} THEN 0 ELSE F[PickOf(t)] + g[t \ {PickOf(t)}]]

LEMMA Least == ASSUME NEW S \in SUBSET Nat, S # {} PROVE \E n \in S : \A m \in S : n <= m
<1> DEFINE R == OpToRel(<, Nat)
<1>1. IsWellFoundedOn(R, Nat)
  BY NatLessThanWellFounded
<1>2. R = {ss \in Nat \X Nat : ss[1] < ss[2]}
  BY DEF OpToRel
<1> HIDE DEF R
<1>3. PICK n \in S : \A m \in S : ~(<<m, n>> \in R)
  BY <1>1, WFMin
<1>4. ASSUME NEW m \in S PROVE n <= m
  <2>1. ~(<<m, n>> \in R) /\ m \in Nat /\ n \in Nat
    BY <1>3
  <2>2. ~(m < n)
    BY <2>1, <1>2
  <2> QED BY <2>1, <2>2
<1> QED BY <1>4

LEMMA PartCard ==
    ASSUME NEW S, IsFiniteSet(S), NEW t \in SUBSET S
    PROVE  /\ IsFiniteSet(t) /\ Cardinality(t) \in Nat /\ Cardinality(t) <= Cardinality(S)
           /\ Cardinality(t) = 0 <=> t = {}
           /\ \A x \in t : Cardinality(t \ {x}) = Cardinality(t) - 1
<1>1. IsFiniteSet(t) /\ Cardinality(t) <= Cardinality(S)
  BY FS_Subset
<1>2. \A x \in t : Cardinality(t \ {x}) = Cardinality(t) - 1
  BY <1>1, FS_RemoveElement
<1> QED BY <1>1, <1>2, FS_CardinalityType, FS_EmptySet

(* Induction over the parts of a finite set. *)
LEMMA PartInduction ==
    ASSUME NEW S, IsFiniteSet(S), NEW Good \in SUBSET (SUBSET S),
           \A t \in SUBSET S : (\A x \in t : t \ {x} \in Good) => t \in Good
    PROVE  Good = SUBSET S
<1> DEFINE Bad == (SUBSET S) \ Good
           Sizes == {Cardinality(t) : t \in Bad}
<1>1. SUFFICES ASSUME Bad # {} PROVE FALSE
  OBVIOUS
<1>2. Sizes \in SUBSET Nat /\ Sizes # {}
  BY <1>1, PartCard
<1>3. PICK n \in Sizes : \A m \in Sizes : n <= m
  <2> HIDE DEF Sizes
  <2> QED BY <1>2, Least
<1>4. PICK t \in Bad : Cardinality(t) = n
  OBVIOUS
<1>5. PICK x \in t : t \ {x} \notin Good
  BY <1>4
<1>6. t \ {x} \in Bad /\ Cardinality(t \ {x}) = n - 1 /\ n \in Nat
  BY <1>2, <1>4, <1>5, PartCard
<1>7. n - 1 \in Sizes
  BY <1>6
<1> QED BY <1>3, <1>6, <1>7

LEMMA Picked == ASSUME NEW t, t # {} PROVE PickOf(t) \in t
  BY DEF PickOf

LEMMA SumStep ==
    ASSUME NEW S, NEW F, NEW g, Sums(g, F, S), NEW t \in SUBSET S
    PROVE  /\ t = {} => g[t] = 0
           /\ t # {} => g[t] = F[PickOf(t)] + g[t \ {PickOf(t)}]
  BY DEF Sums

LEMMA SumIsNat ==
    ASSUME NEW S, IsFiniteSet(S), NEW F, \A x \in S : F[x] \in Nat, NEW g, Sums(g, F, S),
           NEW r \in SUBSET S
    PROVE  g[r] \in Nat
<1> DEFINE Good == {t \in SUBSET S : g[t] \in Nat}
<1>1. ASSUME NEW t \in SUBSET S, \A x \in t : t \ {x} \in Good PROVE g[t] \in Nat
  <2>0. /\ t = {} => g[t] = 0
        /\ t # {} => g[t] = F[PickOf(t)] + g[t \ {PickOf(t)}]
    BY SumStep
  <2>1. CASE t = {}
    BY <2>0, <2>1
  <2>2. CASE t # {}
    <3>1. PickOf(t) \in t
      BY <2>2, Picked
    <3>2. g[t \ {PickOf(t)}] \in Nat /\ F[PickOf(t)] \in Nat
      BY <1>1, <3>1
    <3> QED BY <2>0, <2>2, <3>2
  <2> QED BY <2>1, <2>2
<1>2. \A t \in SUBSET S : (\A x \in t : t \ {x} \in Good) => t \in Good
  BY <1>1
<1>3. Good \in SUBSET (SUBSET S)
  OBVIOUS
<1>4. Good = SUBSET S
  <2> HIDE DEF Good
  <2> QED BY <1>2, <1>3, PartInduction
<1> QED BY <1>4

(* Any element may be the first that is added. *)
LEMMA SumWithout ==
    ASSUME NEW S, IsFiniteSet(S), NEW F, \A x \in S : F[x] \in Nat, NEW g, Sums(g, F, S),
           NEW r \in SUBSET S, NEW z \in r
    PROVE  g[r] = F[z] + g[r \ {z}]
<1> DEFINE Good == {t \in SUBSET S : \A x \in t : g[t] = F[x] + g[t \ {x}]}
<1>1. ASSUME NEW t \in SUBSET S, \A x \in t : t \ {x} \in Good, NEW x \in t
      PROVE  g[t] = F[x] + g[t \ {x}]
  <2> DEFINE p == PickOf(t)
  <2>1. p \in t
    BY Picked
  <2>2. g[t] = F[p] + g[t \ {p}]
    BY SumStep
  <2> HIDE DEF p
  <2>3. CASE x = p
    BY <2>2, <2>3
  <2>4. CASE x # p
    <3>1. g[t \ {p}] = F[x] + g[(t \ {p}) \ {x}]
      <4>1. t \ {p} \in Good /\ x \in t \ {p}
        BY <1>1, <2>1, <2>4
      <4> QED BY <4>1
    <3>2. g[t \ {x}] = F[p] + g[(t \ {x}) \ {p}]
      <4>1. t \ {x} \in Good /\ p \in t \ {x}
        BY <1>1, <2>1, <2>4
      <4> QED BY <4>1
    <3>3. (t \ {p}) \ {x} = (t \ {x}) \ {p} /\ (t \ {p}) \ {x} \in SUBSET S
      OBVIOUS
    <3>4. g[(t \ {p}) \ {x}] \in Nat
      BY <3>3, SumIsNat
    <3>5. F[x] \in Nat /\ F[p] \in Nat
      BY <2>1
    <3> DEFINE rest == g[(t \ {p}) \ {x}]
    <3>6. /\ g[t] = F[p] + g[t \ {p}] /\ g[t \ {p}] = F[x] + rest
          /\ g[t \ {x}] = F[p] + rest /\ rest \in Nat
      BY <2>2, <3>1, <3>2, <3>3, <3>4
    <3> HIDE DEF rest
    <3> QED BY <3>5, <3>6
  <2> QED BY <2>3, <2>4
<1>2. \A t \in SUBSET S : (\A x \in t : t \ {x} \in Good) => t \in Good
  BY <1>1
<1>3. Good \in SUBSET (SUBSET S)
  OBVIOUS
<1>4. Good = SUBSET S
  <2> HIDE DEF Good
  <2> QED BY <1>2, <1>3, PartInduction
<1> QED BY <1>4

(* What is the same in both sums adds up to the same. *)
LEMMA SameSum ==
    ASSUME NEW S, IsFiniteSet(S), NEW F, NEW g, Sums(g, F, S),
           NEW T, NEW G, NEW h, Sums(h, G, T),
           NEW r, r \subseteq S, r \subseteq T, \A x \in r : F[x] = G[x]
    PROVE  g[r] = h[r]
<1> DEFINE Good == {t \in SUBSET S : t \subseteq r => g[t] = h[t]}
<1>1. ASSUME NEW t \in SUBSET S, \A x \in t : t \ {x} \in Good, t \subseteq r
      PROVE  g[t] = h[t]
  <2>1. t \in SUBSET T
    BY <1>1
  <2>2. /\ t = {} => g[t] = 0
        /\ t # {} => g[t] = F[PickOf(t)] + g[t \ {PickOf(t)}]
    BY SumStep
  <2>3. /\ t = {} => h[t] = 0
        /\ t # {} => h[t] = G[PickOf(t)] + h[t \ {PickOf(t)}]
    BY <2>1 DEF Sums
  <2>4. CASE t = {}
    BY <2>2, <2>3, <2>4
  <2>5. CASE t # {}
    <3> DEFINE p == PickOf(t)
    <3>1. g[t] = F[p] + g[t \ {p}] /\ h[t] = G[p] + h[t \ {p}]
      BY <2>2, <2>3, <2>5
    <3>2. p \in t
      BY <2>5, Picked
    <3> HIDE DEF p
    <3>3. t \ {p} \in Good /\ t \ {p} \subseteq r /\ F[p] = G[p]
      BY <1>1, <3>2
    <3> QED BY <3>1, <3>3
  <2> QED BY <2>4, <2>5
<1>2. \A t \in SUBSET S : (\A x \in t : t \ {x} \in Good) => t \in Good
  BY <1>1
<1>3. Good \in SUBSET (SUBSET S)
  OBVIOUS
<1>4. Good = SUBSET S
  <2> HIDE DEF Good
  <2> QED BY <1>2, <1>3, PartInduction
<1> QED BY <1>4

(* The recursive function exists. *)
LEMMA SumExists ==
    ASSUME NEW S, IsFiniteSet(S), NEW F PROVE \E g : Sums(g, F, S)
<1> DEFINE Small(n) == {t \in SUBSET S : Cardinality(t) <= n}
           Part(g, n) == \A t \in Small(n) :
               g[t] = IF t = {} THEN 0 ELSE F[PickOf(t)] + g[t \ {PickOf(t)}]
           Missing == {n \in Nat : \A g : ~Part(g, n)}
<1>1. Missing = {}
  <2>1. SUFFICES ASSUME Missing # {} PROVE FALSE
    OBVIOUS
  <2>2. PICK n \in Missing : \A m \in Missing : n <= m
    <3> HIDE DEF Missing
    <3>1. Missing \in SUBSET Nat
      BY DEF Missing
    <3> QED BY <2>1, <3>1, Least
  <2>3. PICK f : n = 0 \/ Part(f, n - 1)
    <3>1. CASE n = 0
      BY <3>1
    <3>2. CASE n # 0
      <4>1. n - 1 \in Nat /\ ~(n <= n - 1)
        BY <3>2
      <4>2. n - 1 \notin Missing
        BY <2>2, <4>1
      <4> HIDE DEF Part
      <4> QED BY <4>1, <4>2
    <3> QED BY <3>1, <3>2
  <2> DEFINE g == [t \in SUBSET S |-> IF t = {} THEN 0 ELSE F[PickOf(t)] + f[t \ {PickOf(t)}]]
  <2>4. ASSUME NEW t \in Small(n), t # {} PROVE g[t \ {PickOf(t)}] = f[t \ {PickOf(t)}]
    <3> DEFINE u == t \ {PickOf(t)}
    <3>1. PickOf(t) \in t
      BY <2>4, Picked
    <3>2. Cardinality(t) \in Nat /\ Cardinality(t) # 0 /\ Cardinality(u) = Cardinality(t) - 1
      BY <2>4, <3>1, PartCard
    <3>3. n # 0 /\ u \in SUBSET S /\ Cardinality(u) <= n - 1
      BY <3>2
    <3>4. f[u] = IF u = {} THEN 0 ELSE F[PickOf(u)] + f[u \ {PickOf(u)}]
      <4> HIDE DEF u
      <4> QED BY <2>3, <3>3
    <3>5. g[u] = IF u = {} THEN 0 ELSE F[PickOf(u)] + f[u \ {PickOf(u)}]
      <4> HIDE DEF u
      <4> QED BY <3>3
    <3> QED BY <3>4, <3>5
  <2>5. Part(g, n)
    <3> SUFFICES ASSUME NEW t \in Small(n)
                 PROVE  g[t] = IF t = {} THEN 0 ELSE F[PickOf(t)] + g[t \ {PickOf(t)}]
      OBVIOUS
    <3>1. g[t] = IF t = {} THEN 0 ELSE F[PickOf(t)] + f[t \ {PickOf(t)}]
      OBVIOUS
    <3> HIDE DEF g
    <3> QED BY <2>4, <3>1
  <2> HIDE DEF g, Part
  <2> QED BY <2>2, <2>5
<1>2. Cardinality(S) \in Nat
  BY FS_CardinalityType
<1>3. PICK g : Part(g, Cardinality(S))
  <2> HIDE DEF Part
  <2> QED BY <1>1, <1>2
<1>4. \A t \in SUBSET S : t \in Small(Cardinality(S))
  BY PartCard
<1> DEFINE h == [t \in SUBSET S |-> g[t]]
<1>5. ASSUME NEW t \in SUBSET S
      PROVE  h[t] = IF t = {} THEN 0 ELSE F[PickOf(t)] + h[t \ {PickOf(t)}]
  <2>1. g[t] = IF t = {} THEN 0 ELSE F[PickOf(t)] + g[t \ {PickOf(t)}]
    BY <1>3, <1>4
  <2>2. h[t] = g[t] /\ h[t \ {PickOf(t)}] = g[t \ {PickOf(t)}]
    OBVIOUS
  <2> HIDE DEF h
  <2> QED BY <2>1, <2>2
<1>6. h = [t \in SUBSET S |-> h[t]]
  OBVIOUS
<1> HIDE DEF h
<1>7. Sums(h, F, S)
  BY <1>5, <1>6 DEF Sums
<1> QED BY <1>7

(* A change of one element's share, or of whether it belongs: the rest of   *)
(* the sum is the same before and after.                                    *)
Share(F, S, x) == IF x \in S THEN F[x] ELSE 0
LEMMA SumChange ==
    ASSUME NEW S, IsFiniteSet(S), NEW F, \A y \in S : F[y] \in Nat, NEW g, Sums(g, F, S),
           NEW T, IsFiniteSet(T), NEW G, \A y \in T : G[y] \in Nat, NEW h, Sums(h, G, T),
           NEW x, S \ {x} = T \ {x}, \A y \in S \ {x} : F[y] = G[y]
    PROVE  \E rest \in Nat : /\ g[S] = Share(F, S, x) + rest
                             /\ h[T] = Share(G, T, x) + rest
<1> DEFINE R == S \ {x}
<1>1. R \in SUBSET S /\ R \in SUBSET T /\ S \in SUBSET S /\ T \in SUBSET T
  OBVIOUS
<1>2. g[R] = h[R]
  <2> HIDE DEF R
  <2>1. \A y \in R : F[y] = G[y]
    BY DEF R
  <2> QED BY <1>1, <2>1, SameSum
<1>3. g[R] \in Nat
  <2> HIDE DEF R
  <2> QED BY <1>1, SumIsNat
<1>4. g[S] = Share(F, S, x) + g[R]
  <2>1. CASE x \in S
    <3>1. g[S] = F[x] + g[S \ {x}]
      BY <1>1, <2>1, SumWithout
    <3> QED BY <2>1, <3>1 DEF Share
  <2>2. CASE x \notin S
    BY <1>3, <2>2 DEF Share
  <2> QED BY <2>1, <2>2
<1>5. h[T] = Share(G, T, x) + h[T \ {x}]
  <2>0. h[T] \in Nat
    BY <1>1, SumIsNat
  <2>1. CASE x \in T
    <3>1. h[T] = G[x] + h[T \ {x}]
      BY <1>1, <2>1, SumWithout
    <3> QED BY <2>1, <3>1 DEF Share
  <2>2. CASE x \notin T
    BY <2>0, <2>2 DEF Share
  <2> QED BY <2>1, <2>2
<1> QED BY <1>2, <1>3, <1>4, <1>5

(* What the entries of a scope commit and what they were overrun by, as sums. *)
Over(e)  == IF entry[e].cost > Known(entry[e].reserve)
            THEN entry[e].cost - Known(entry[e].reserve) ELSE 0
Shares   == [e \in Entries |-> Amount(e)]
Overs    == [e \in Entries |-> Over(e)]

CommittedIsSum == \A s : \E g : Sums(g, Shares, InScope(s)) /\ Committed(s) = g[InScope(s)]
OverrunIsSum   == \A s : \E g : Sums(g, Overs, InScope(s)) /\ Overrun(s) = g[InScope(s)]

LEMMA CommittedSums == CommittedIsSum
<1> SUFFICES ASSUME NEW s PROVE \E g : Sums(g, Shares, InScope(s)) /\ Committed(s) = g[InScope(s)]
  BY DEF CommittedIsSum
<1> DEFINE S == InScope(s)
           P(g) == g = [t \in SUBSET S |-> IF t = {} THEN 0
                                           ELSE Amount(PickOf(t)) + g[t \ {PickOf(t)}]]
           it == CHOOSE g : P(g)
<1>1. Committed(s) = it[S]
  BY DEF Committed, MapThenSumSet, MapThenFoldSet, PickOf
<1>2. \A t \in SUBSET S : t # {} => Shares[PickOf(t)] = Amount(PickOf(t))
  <2>1. S \subseteq Entries
    BY DEF InScope
  <2> HIDE DEF S
  <2> QED BY <2>1, Picked DEF Shares
<1>3. ASSUME NEW g PROVE P(g) <=> Sums(g, Shares, S)
  <2> HIDE DEF S
  <2>1. [t \in SUBSET S |-> IF t = {} THEN 0 ELSE Amount(PickOf(t)) + g[t \ {PickOf(t)}]]
          = [t \in SUBSET S |-> IF t = {} THEN 0 ELSE Shares[PickOf(t)] + g[t \ {PickOf(t)}]]
    BY <1>2
  <2> QED BY <2>1 DEF Sums
<1>4. \E g : Sums(g, Shares, S)
  <2>1. IsFiniteSet(Entries)
    BY FS_Interval, SpendingAssumption DEF Entries
  <2>2. IsFiniteSet(S)
    BY <2>1, FS_Subset DEF InScope
  <2> HIDE DEF S
  <2> QED BY <2>2, SumExists
<1>5. P(it)
  <2> HIDE DEF S
  <2>1. \E g : P(g)
    BY <1>3, <1>4
  <2> HIDE DEF P
  <2> QED BY <2>1
<1> HIDE DEF P, it, S
<1> QED BY <1>1, <1>3, <1>5 DEF S

LEMMA OverrunSums == OverrunIsSum
<1> SUFFICES ASSUME NEW s PROVE \E g : Sums(g, Overs, InScope(s)) /\ Overrun(s) = g[InScope(s)]
  BY DEF OverrunIsSum
<1> DEFINE S == InScope(s)
           P(g) == g = [t \in SUBSET S |-> IF t = {} THEN 0
                                           ELSE Over(PickOf(t)) + g[t \ {PickOf(t)}]]
           it == CHOOSE g : P(g)
<1>1. Overrun(s) = it[S]
  BY DEF Overrun, Over, MapThenSumSet, MapThenFoldSet, PickOf
<1>2. \A t \in SUBSET S : t # {} => Overs[PickOf(t)] = Over(PickOf(t))
  <2>1. S \subseteq Entries
    BY DEF InScope
  <2> HIDE DEF S
  <2> QED BY <2>1, Picked DEF Overs
<1>3. ASSUME NEW g PROVE P(g) <=> Sums(g, Overs, S)
  <2> HIDE DEF S
  <2>1. [t \in SUBSET S |-> IF t = {} THEN 0 ELSE Over(PickOf(t)) + g[t \ {PickOf(t)}]]
          = [t \in SUBSET S |-> IF t = {} THEN 0 ELSE Overs[PickOf(t)] + g[t \ {PickOf(t)}]]
    BY <1>2
  <2> QED BY <2>1 DEF Sums
<1>4. \E g : Sums(g, Overs, S)
  <2>1. IsFiniteSet(Entries)
    BY FS_Interval, SpendingAssumption DEF Entries
  <2>2. IsFiniteSet(S)
    BY <2>1, FS_Subset DEF InScope
  <2> HIDE DEF S
  <2> QED BY <2>2, SumExists
<1>5. P(it)
  <2> HIDE DEF S
  <2>1. \E g : P(g)
    BY <1>3, <1>4
  <2> HIDE DEF P
  <2> QED BY <2>1
<1> HIDE DEF P, it, S
<1> QED BY <1>1, <1>3, <1>5 DEF S

LEMMA SumsAfter == CommittedIsSum /\ CommittedIsSum' /\ OverrunIsSum /\ OverrunIsSum'
  BY CommittedSums, OverrunSums, PTL

-----------------------------------------------------------------------------
(* What one entry adds to a scope's commitments, and to its overruns. *)
Charged(s, e)  == IF e \in InScope(s) THEN Amount(e) ELSE 0
Exceeded(s, e) == IF e \in InScope(s) THEN Over(e) ELSE 0

(* An open entry has no cost yet, and what is settled without a cost had no *)
(* price when it was reserved.                                              *)
Costed == \A e \in Entries :
    /\ entry[e].status \in Open => entry[e].cost = Unknown
    /\ entry[e].status = "settled" /\ entry[e].cost = Unknown => entry[e].reserve = Unknown

LInv == IInv /\ Costed /\ ceiling \in [Scopes -> Nat] /\ LimitKept

LEMMA Valued ==
    ASSUME IInv
    PROVE  /\ \A e \in Entries : Shares[e] \in Nat /\ Overs[e] \in Nat
           /\ \A s : InScope(s) \subseteq Entries
<1> SUFFICES ASSUME NEW e \in Entries PROVE Shares[e] \in Nat /\ Overs[e] \in Nat
  BY DEF InScope
<1>1. /\ entry[e].reserve \in Nat \cup {Unknown} /\ entry[e].cost \in Nat \cup {Unknown}
  BY SpendingAssumption DEF IInv, RowsOK
<1>2. Amount(e) \in Nat
  BY <1>1 DEF Amount, Known, Unknown
<1>3. Over(e) \in Nat
  BY <1>1 DEF Over, Known, Unknown
<1> QED BY <1>2, <1>3 DEF Shares, Overs

LEMMA ValuedBoth == IInv /\ IInv' =>
    /\ \A e \in Entries : Shares[e] \in Nat /\ Overs[e] \in Nat
    /\ \A e \in Entries : Shares'[e] \in Nat /\ Overs'[e] \in Nat
<1>1. IInv => \A e \in Entries : Shares[e] \in Nat /\ Overs[e] \in Nat
  BY Valued
<1>2. (IInv => \A e \in Entries : Shares[e] \in Nat /\ Overs[e] \in Nat)'
  BY <1>1, PTL
<1> QED BY <1>1, <1>2

(* A step that writes one entry changes a scope's sums by that entry alone. *)
LEMMA OneEntry ==
    ASSUME IInv, IInv', NEW e, \A f \in Entries \ {e} : entry'[f] = entry[f], NEW s
    PROVE  \E a \in Nat, b \in Nat :
              /\ Committed(s) = Charged(s, e) + a /\ Committed(s)' = Charged(s, e)' + a
              /\ Overrun(s) = Exceeded(s, e) + b /\ Overrun(s)' = Exceeded(s, e)' + b
<1> DEFINE S == InScope(s)
           T == InScope(s)'
<1>1. S \subseteq Entries /\ T \subseteq Entries
  BY DEF InScope
<1>2. IsFiniteSet(S) /\ IsFiniteSet(T)
  <2>1. IsFiniteSet(Entries)
    BY FS_Interval, SpendingAssumption DEF Entries
  <2> HIDE DEF S, T
  <2> QED BY <1>1, <2>1, FS_Subset
<1>3. S \ {e} = T \ {e}
  BY DEF InScope
<1>4. \A f \in Entries \ {e} : Shares[f] = Shares'[f] /\ Overs[f] = Overs'[f]
  BY DEF Shares, Overs, Amount, Over
<1>5. /\ \A f \in Entries : Shares[f] \in Nat /\ Overs[f] \in Nat
      /\ \A f \in Entries : Shares'[f] \in Nat /\ Overs'[f] \in Nat
  BY ValuedBoth
<1>6. PICK g : Sums(g, Shares, S) /\ Committed(s) = g[S]
  BY SumsAfter DEF CommittedIsSum
<1>7. PICK h : Sums(h, Shares', T) /\ Committed(s)' = h[T]
  BY SumsAfter DEF CommittedIsSum
<1>8. PICK k : Sums(k, Overs, S) /\ Overrun(s) = k[S]
  BY SumsAfter DEF OverrunIsSum
<1>9. PICK l : Sums(l, Overs', T) /\ Overrun(s)' = l[T]
  BY SumsAfter DEF OverrunIsSum
<1>10. /\ Share(Shares, S, e) = Charged(s, e) /\ Share(Shares', T, e) = Charged(s, e)'
       /\ Share(Overs, S, e) = Exceeded(s, e) /\ Share(Overs', T, e) = Exceeded(s, e)'
  BY <1>1 DEF Share, Charged, Exceeded, Shares, Overs
<1> DEFINE F == Shares  G == Shares'  M == Overs  N == Overs'
<1> HIDE DEF S, T, F, G, M, N
<1>11. \E a \in Nat : g[S] = Share(F, S, e) + a /\ h[T] = Share(G, T, e) + a
  <2>1. Sums(g, F, S) /\ Sums(h, G, T)
    BY <1>6, <1>7 DEF F, G
  <2>2. (\A y \in S : F[y] \in Nat) /\ (\A y \in T : G[y] \in Nat)
    BY <1>1, <1>5 DEF F, G
  <2>3. \A y \in S \ {e} : F[y] = G[y]
    BY <1>1, <1>4 DEF F, G
  <2> QED BY <1>2, <1>3, <2>1, <2>2, <2>3, SumChange
<1>12. \E b \in Nat : k[S] = Share(M, S, e) + b /\ l[T] = Share(N, T, e) + b
  <2>1. Sums(k, M, S) /\ Sums(l, N, T)
    BY <1>8, <1>9 DEF M, N
  <2>2. (\A y \in S : M[y] \in Nat) /\ (\A y \in T : N[y] \in Nat)
    BY <1>1, <1>5 DEF M, N
  <2>3. \A y \in S \ {e} : M[y] = N[y]
    BY <1>1, <1>4 DEF M, N
  <2> QED BY <1>2, <1>3, <2>1, <2>2, <2>3, SumChange
<1> QED BY <1>6, <1>7, <1>8, <1>9, <1>10, <1>11, <1>12 DEF F, G, M, N

-----------------------------------------------------------------------------
(* What a call, or the author, may do to an entry that was granted: it is    *)
(* pending still, released, or has its cost, within the reservation or over. *)
Ease(old, new) ==
    /\ new.scope = old.scope /\ new.reserve = old.reserve
    /\ \/ new = old
       \/ old.status \in Open /\ new.status \in Open /\ new.cost = old.cost
       \/ old.status \in Open /\ new.status = "not_sent"
       \/ /\ old.status \in Open /\ new.status = "settled"
          /\ new.cost = Unknown => old.reserve = Unknown
       \/ /\ old.status \in Open \/ (old.status = "settled" /\ old.cost = Unknown)
          /\ new.status = "reconciled" /\ new.cost # Unknown
Eases(e) == /\ \A f \in Entries \ {e} : entry'[f] = entry[f]
            /\ e \in Entries => Ease(entry[e], entry'[e])

LEMMA EaseOfShares ==
    ASSUME IInv, IInv', Costed, NEW e, Eases(e), NEW s
    PROVE  /\ Charged(s, e) \in Nat /\ Charged(s, e)' \in Nat
           /\ Exceeded(s, e) \in Nat /\ Exceeded(s, e)' \in Nat
           /\ Charged(s, e)' + Exceeded(s, e) <= Charged(s, e) + Exceeded(s, e)'
<1>1. CASE e \notin Entries
  BY <1>1 DEF Charged, Exceeded, InScope
<1>2. CASE e \in Entries
  <2>1. /\ entry[e].reserve \in Nat \cup {Unknown} /\ entry[e].cost \in Nat \cup {Unknown}
        /\ entry'[e].cost \in Nat \cup {Unknown} /\ Ease(entry[e], entry'[e])
        /\ entry[e].status \in Statuses /\ entry'[e].status \in Statuses
    BY <1>2, SpendingAssumption DEF IInv, RowsOK, Eases
  <2>2. /\ entry[e].status \in Open => entry[e].cost = Unknown
        /\ entry[e].status = "settled" /\ entry[e].cost = Unknown => entry[e].reserve = Unknown
    BY <1>2 DEF Costed
  <2>3. /\ e \in InScope(s) <=> /\ entry[e].status \notin {"absent", "not_sent"}
                                /\ s = Everything \/ entry[e].scope = s
        /\ (e \in InScope(s))' <=> /\ entry'[e].status \notin {"absent", "not_sent"}
                                   /\ s = Everything \/ entry'[e].scope = s
    BY <1>2 DEF InScope
  <2>4. /\ Amount(e) \in Nat /\ Amount(e)' \in Nat /\ Over(e) \in Nat /\ Over(e)' \in Nat
    BY <2>1 DEF Amount, Over, Known, Unknown, Ease
  <2>5. /\ entry[e].status \in Open => Over(e) = 0 /\ Amount(e) = Known(entry[e].reserve)
        /\ entry'[e].status \in Open /\ entry'[e].cost = Unknown =>
               Over(e)' = 0 /\ Amount(e)' = Known(entry'[e].reserve)
    <3>1. /\ entry'[e].reserve = entry[e].reserve
          /\ Known(entry[e].reserve) \in Nat /\ ~(Unknown > Known(entry[e].reserve))
      BY <2>1 DEF Ease, Known, Unknown
    <3> QED BY <2>2, <3>1 DEF Amount, Over
  <2>6. CASE entry'[e] = entry[e]
    BY <2>3, <2>4, <2>6 DEF Charged, Exceeded, Amount, Over
  <2>7. CASE entry[e].status \in Open /\ entry'[e].status \in Open /\ entry'[e].cost = entry[e].cost
    BY <2>1, <2>2, <2>3, <2>4, <2>5, <2>7 DEF Charged, Exceeded, Ease, Open
  <2>8. CASE entry[e].status \in Open /\ entry'[e].status = "not_sent"
    BY <2>3, <2>4, <2>5, <2>8 DEF Charged, Exceeded
  <2>9. CASE /\ entry'[e].status \in {"settled", "reconciled"}
             /\ \/ entry[e].status \in Open
                \/ entry[e].status = "settled" /\ entry[e].cost = Unknown
             /\ entry'[e].cost = Unknown => entry[e].reserve = Unknown
    <3>1. Amount(e) = Known(entry[e].reserve) /\ Over(e) = 0
      BY <2>1, <2>2, <2>5, <2>9 DEF Amount, Over, Known, Unknown, Open
    <3>2. Amount(e)' <= Known(entry[e].reserve) + Over(e)'
      BY <2>1, <2>9 DEF Amount, Over, Known, Unknown, Open, Ease
    <3>3. e \in InScope(s) <=> (e \in InScope(s))'
      BY <2>1, <2>3, <2>9 DEF Ease, Open
    <3> QED BY <2>4, <3>1, <3>2, <3>3 DEF Charged, Exceeded
  <2> QED BY <2>1, <2>6, <2>7, <2>8, <2>9 DEF Ease
<1> QED BY <1>1, <1>2

LEMMA EaseKeeps ==
    ASSUME LInv, IInv', UNCHANGED ceiling, NEW e, Eases(e)
    PROVE  LInv'
<1>1. Costed'
  <2> SUFFICES ASSUME NEW f \in Entries
               PROVE  /\ entry'[f].status \in Open => entry'[f].cost = Unknown
                      /\ entry'[f].status = "settled" /\ entry'[f].cost = Unknown
                             => entry'[f].reserve = Unknown
    BY DEF Costed
  <2>1. /\ entry[f].status \in Open => entry[f].cost = Unknown
        /\ entry[f].status = "settled" /\ entry[f].cost = Unknown => entry[f].reserve = Unknown
    BY DEF LInv, Costed
  <2>2. CASE f # e
    BY <2>1, <2>2 DEF Eases
  <2>3. CASE f = e
    <3>1. Ease(entry[f], entry'[f])
      BY <2>3 DEF Eases
    <3> QED BY <2>1, <3>1 DEF Ease, Open
  <2> QED BY <2>2, <2>3
<1>2. ASSUME NEW s \in Scopes PROVE Committed(s)' <= ceiling'[s] + Overrun(s)'
  <2>1. Committed(s) <= ceiling[s] + Overrun(s) /\ ceiling[s] \in Nat /\ ceiling' = ceiling
    BY DEF LInv, LimitKept
  <2>2. /\ Charged(s, e) \in Nat /\ Charged(s, e)' \in Nat
        /\ Exceeded(s, e) \in Nat /\ Exceeded(s, e)' \in Nat
        /\ Charged(s, e)' + Exceeded(s, e) <= Charged(s, e) + Exceeded(s, e)'
    BY EaseOfShares DEF LInv
  <2>3. PICK a \in Nat, b \in Nat :
           /\ Committed(s) = Charged(s, e) + a /\ Committed(s)' = Charged(s, e)' + a
           /\ Overrun(s) = Exceeded(s, e) + b /\ Overrun(s)' = Exceeded(s, e)' + b
    BY OneEntry DEF LInv, Eases
  <2> QED BY <2>1, <2>2, <2>3
<1> QED BY <1>1, <1>2 DEF LInv, LimitKept

(* A grant is the one step that commits more, and it respects the limits. *)
LEMMA GrantKeeps ==
    ASSUME LInv, IInv', NEW c \in Callers, NEW amount \in Amounts \cup {Unknown},
           NEW e \in Entries, Grant(c, amount, e)
    PROVE  LInv'
<1> DEFINE row == [status |-> "reserved", scope |-> Project[c], reserve |-> amount,
                   cost |-> Unknown]
<1>1. /\ entry[e].status = "absent" /\ entry'[e] = row
      /\ \A f \in Entries \ {e} : entry'[f] = entry[f]
  BY DEF Grant, Fresh, Used, LInv, IInv, RowsOK
<1>2. amount \in Nat \cup {Unknown} /\ Known(amount) \in Nat
  BY SpendingAssumption DEF Known, Unknown
<1>3. Costed'
  BY <1>1 DEF LInv, Costed
<1>4. ASSUME NEW s \in Scopes
      PROVE  /\ Committed(s) \in Nat /\ Committed(s)' \in Nat
             /\ Overrun(s) \in Nat /\ Overrun(s)' = Overrun(s)
             /\ Committed(s)' = IF s \in ScopesOf(c) THEN Committed(s) + Known(amount) ELSE Committed(s)
  <2>1. PICK a \in Nat, b \in Nat :
           /\ Committed(s) = Charged(s, e) + a /\ Committed(s)' = Charged(s, e)' + a
           /\ Overrun(s) = Exceeded(s, e) + b /\ Overrun(s)' = Exceeded(s, e)' + b
    BY <1>1, OneEntry DEF LInv
  <2>2. Charged(s, e) = 0 /\ Exceeded(s, e) = 0
    BY <1>1 DEF Charged, Exceeded, InScope
  <2>3. Amount(e)' = Known(amount) /\ Over(e)' = 0
    BY <1>1, <1>2 DEF Amount, Over, Known, Unknown, Open
  <2>4. (e \in InScope(s))' <=> s \in ScopesOf(c)
    BY <1>1 DEF InScope, ScopesOf
  <2>5. Charged(s, e)' = (IF s \in ScopesOf(c) THEN Known(amount) ELSE 0) /\ Exceeded(s, e)' = 0
    BY <2>3, <2>4 DEF Charged, Exceeded
  <2> QED BY <1>2, <2>1, <2>2, <2>5
<1>5. ASSUME NEW s \in Scopes
      PROVE  ceiling'[s] \in Nat /\ Committed(s)' <= ceiling'[s] + Overrun(s)'
  <2>1. /\ ceiling[s] \in Nat /\ Committed(s) <= ceiling[s] + Overrun(s)
        /\ limit[s] \in Nat \cup {Unknown} /\ ceiling'[s] = Raised(c, s, amount)
    BY SpendingAssumption DEF LInv, LimitKept, IInv, RowsOK, Grant
  <2>2. Allowed(s, amount) \in Nat
    BY <1>2, <1>4, <2>1 DEF Allowed
  <2>3. CASE s \in ScopesOf(c)
    <3>1. Committed(s) + Known(amount) <= Allowed(s, amount)
      <4>1. CASE limit[s] = Unknown
        BY <1>2, <1>4, <4>1 DEF Allowed
      <4>2. CASE limit[s] # Unknown
        <5>1. amount # Unknown /\ Committed(s) + amount <= limit[s]
          BY <2>3, <4>2 DEF Grant, MayReserve
        <5> QED BY <4>2, <5>1 DEF Allowed, Known
      <4> QED BY <4>1, <4>2
    <3>2. ceiling'[s] \in Nat /\ Allowed(s, amount) <= ceiling'[s]
      BY <2>1, <2>2, <2>3 DEF Raised
    <3> QED BY <1>2, <1>4, <2>2, <2>3, <3>1, <3>2
  <2>4. CASE s \notin ScopesOf(c)
    BY <1>4, <2>1, <2>4 DEF Raised
  <2> QED BY <2>3, <2>4
<1>6. ceiling' \in [Scopes -> Nat]
  <2>1. ceiling' = [s \in Scopes |-> ceiling'[s]]
    BY DEF Grant
  <2> QED BY <1>5, <2>1
<1> QED BY <1>3, <1>5, <1>6 DEF LInv, LimitKept

-----------------------------------------------------------------------------
(* Every other step eases the one entry it writes. *)
LEMMA SettledEases ==
    ASSUME IInv, NEW e \in Entries, NEW cost \in Nat, Settled(e, cost)
    PROVE  Eases(e)
<1>1. CASE entry[e].status \notin Open
  BY <1>1 DEF Settled, Eases, Ease
<1>2. CASE entry[e].status \in Open
  <2> DEFINE v == IF entry[e].reserve = Unknown THEN Unknown ELSE cost
  <2>1. entry' = [entry EXCEPT ![e].status = "settled", ![e].cost = v]
    BY <1>2 DEF Settled
  <2>2. v = Unknown => entry[e].reserve = Unknown
    BY DEF Unknown
  <2> HIDE DEF v
  <2>3. /\ \A f \in Entries \ {e} : entry'[f] = entry[f]
        /\ entry'[e] = [[entry[e] EXCEPT !.status = "settled"] EXCEPT !.cost = v]
    BY <2>1 DEF IInv, RowsOK
  <2>4. entry[e] \in EntryRow
    BY DEF IInv, RowsOK, EntryRow
  <2>5. /\ entry'[e].status = "settled" /\ entry'[e].cost = v
        /\ entry'[e].scope = entry[e].scope /\ entry'[e].reserve = entry[e].reserve
    BY <2>3, <2>4 DEF EntryRow
  <2> QED BY <1>2, <2>2, <2>3, <2>5 DEF Eases, Ease
<1> QED BY <1>1, <1>2

LEMMA SameRows == ASSUME UNCHANGED entry PROVE \E e : Eases(e)
<1>1. Eases(0)
  BY DEF Eases, Ease
<1> QED BY <1>1

LEMMA WritesEase ==
    ASSUME IInv, NEW c \in Callers,
           Start(c) \/ (Send(c) /\ ~Reserve(c)) \/ LedgerFails(c)
    PROVE  UNCHANGED ceiling /\ \E e : Eases(e)
<1> DEFINE e == caller[c].entry
<1>1. CASE Start(c) \/ LedgerFails(c) \/ BeforeSend(c) \/ Wire(c)
  BY <1>1, SameRows DEF Start, LedgerFails, BeforeSend, Wire
<1>2. CASE Sent(c)
  <2>1. e \in Entries /\ entry[e].status = "reserved" /\ entry[e] \in EntryRow
    BY <1>2 DEF Sent, IInv, Positions, Position, RowsOK, Entries, EntryRow
  <2>2. entry' = [entry EXCEPT ![e].status = "sent"]
    BY <1>2, <2>1 DEF Sent
  <2>3. /\ \A f \in Entries \ {e} : entry'[f] = entry[f]
        /\ entry'[e] = [entry[e] EXCEPT !.status = "sent"]
    BY <2>1, <2>2 DEF IInv, RowsOK
  <2>4. Eases(e)
    BY <2>1, <2>3 DEF Eases, Ease, Open, EntryRow
  <2> QED BY <1>2, <2>4 DEF Sent
<1>3. CASE NotSent(c)
  <2>1. e \in Entries /\ entry[e].status \in {"reserved", "sent"} /\ entry[e] \in EntryRow
    BY <1>3 DEF NotSent, Releases, IInv, Positions, Position, RowsOK, Entries, EntryRow
  <2>2. entry' = [entry EXCEPT ![e].status = "not_sent", ![e].cost = 0]
    BY <1>3 DEF NotSent
  <2>3. /\ \A f \in Entries \ {e} : entry'[f] = entry[f]
        /\ entry'[e] = [[entry[e] EXCEPT !.status = "not_sent"] EXCEPT !.cost = 0]
    BY <2>1, <2>2 DEF IInv, RowsOK
  <2>4. /\ entry'[e].status = "not_sent"
        /\ entry'[e].scope = entry[e].scope /\ entry'[e].reserve = entry[e].reserve
    BY <2>1, <2>3 DEF EntryRow
  <2>5. Eases(e)
    BY <2>1, <2>3, <2>4 DEF Eases, Ease, Open
  <2> QED BY <1>3, <2>5 DEF NotSent
<1>4. CASE Reply(c) \/ Content(c)
  <2>1. e \in Entries /\ UNCHANGED ceiling
    BY <1>4 DEF Reply, Content, IInv, Positions, Position, RowsOK, Entries
  <2>2. (\E cost \in Amounts : Settled(e, cost)) \/ UNCHANGED <<entry, active>>
    BY <1>4 DEF Reply, Content
  <2>3. \E x : Eases(x)
    BY <2>1, <2>2, SettledEases, SameRows, SpendingAssumption
  <2> QED BY <2>1, <2>3
<1>5. CASE Finally(c)
  <2>1. CASE UNCHANGED entry
    BY <1>5, <2>1, SameRows DEF Finally
  <2>2. CASE ~UNCHANGED entry
    <3>1. e # 0 /\ e \in Entries /\ entry[e] \in EntryRow
      BY <1>5, <2>2 DEF Finally, IInv, RowsOK, Entries, EntryRow
    <3>2. PICK s \in Statuses : /\ entry' = [entry EXCEPT ![e].status = s]
                                /\ s = IF entry[e].status \in Ending THEN Ended ELSE entry[e].status
      BY <1>5, <3>1 DEF Finally, Ending, Ended, EntryRow, Statuses, Open
    <3>3. /\ \A f \in Entries \ {e} : entry'[f] = entry[f]
          /\ entry'[e] = [entry[e] EXCEPT !.status = s]
      BY <3>1, <3>2 DEF IInv, RowsOK
    <3>4. /\ entry'[e].status = s /\ entry'[e].cost = entry[e].cost
          /\ entry'[e].scope = entry[e].scope /\ entry'[e].reserve = entry[e].reserve
          /\ s = entry[e].status => entry'[e] = entry[e]
      BY <3>1, <3>3 DEF EntryRow
    <3>5. Eases(e)
      BY <3>2, <3>3, <3>4 DEF Eases, Ease, Open, Ending, Ended
    <3> QED BY <1>5, <3>5 DEF Finally
  <2> QED BY <2>1, <2>2
<1> QED BY <1>1, <1>2, <1>3, <1>4, <1>5 DEF Send

LEMMA ReconcileEases ==
    ASSUME IInv, NEW e \in Entries, NEW actual \in Amounts, Reconcile(e, actual)
    PROVE  Eases(e)
<1>1. entry[e] \in EntryRow /\ actual # Unknown
  BY SpendingAssumption DEF IInv, RowsOK, EntryRow, Unknown
<1>2. /\ \A f \in Entries \ {e} : entry'[f] = entry[f]
      /\ entry'[e] = [[entry[e] EXCEPT !.status = "reconciled"] EXCEPT !.cost = actual]
  BY DEF Reconcile, IInv, RowsOK
<1>3. /\ entry'[e].status = "reconciled" /\ entry'[e].cost = actual
      /\ entry'[e].scope = entry[e].scope /\ entry'[e].reserve = entry[e].reserve
  BY <1>1, <1>2 DEF EntryRow
<1>4. entry[e].status \in Open \/ (entry[e].status = "settled" /\ entry[e].cost = Unknown)
  BY DEF Reconcile, Reconcilable
<1> QED BY <1>1, <1>2, <1>3, <1>4 DEF Eases, Ease

LEMMA InitLInv == ASSUME Init PROVE LInv
<1>1. IInv
  BY InitIInv
<1>2. Costed /\ ceiling \in [Scopes -> Nat]
  BY DEF Init, Costed, NoEntry, Open
<1>3. ASSUME NEW s \in Scopes PROVE Committed(s) <= ceiling[s] + Overrun(s)
  <2>1. InScope(s) = {} /\ ceiling[s] = 0
    BY DEF Init, InScope, NoEntry
  <2>2. PICK g : Sums(g, Shares, InScope(s)) /\ Committed(s) = g[InScope(s)]
    BY CommittedSums DEF CommittedIsSum
  <2>3. PICK h : Sums(h, Overs, InScope(s)) /\ Overrun(s) = h[InScope(s)]
    BY OverrunSums DEF OverrunIsSum
  <2>4. Committed(s) = 0 /\ Overrun(s) = 0
    BY <2>1, <2>2, <2>3 DEF Sums
  <2> QED BY <2>1, <2>4
<1> QED BY <1>1, <1>2, <1>3 DEF LInv, LimitKept

LEMMA NextLInv == ASSUME LInv, [Next]_vars PROVE LInv'
<1>0. IInv /\ IInv'
  BY NextIInv DEF LInv, Goal
<1>1. CASE \E c \in Callers : Start(c) \/ Send(c) \/ LedgerFails(c)
  <2> PICK c \in Callers : Start(c) \/ Send(c) \/ LedgerFails(c)
    BY <1>1
  <2>1. CASE Reserve(c)
    <3> PICK amount \in Amounts \cup {Unknown} :
           Refuse(c, amount) \/ \E e \in Entries : Grant(c, amount, e)
      BY <2>1 DEF Reserve
    <3>1. CASE Refuse(c, amount)
      BY <1>0, <3>1, SameRows, EaseKeeps DEF Refuse
    <3>2. CASE \E e \in Entries : Grant(c, amount, e)
      BY <1>0, <3>2, GrantKeeps
    <3> QED BY <3>1, <3>2
  <2>2. CASE ~Reserve(c)
    <3>1. UNCHANGED ceiling /\ \E e : Eases(e)
      BY <1>0, <2>2, WritesEase
    <3> QED BY <1>0, <3>1, EaseKeeps
  <2> QED BY <2>1, <2>2
<1>2. CASE Author
  <2>1. CASE \E expected \in 0..revision : Configure(expected)
    BY <1>0, <2>1, SameRows, EaseKeeps DEF Configure
  <2>2. CASE \E e \in Entries, actual \in Amounts : Reconcile(e, actual)
    <3> PICK e \in Entries, actual \in Amounts : Reconcile(e, actual)
      BY <2>2
    <3>1. Eases(e) /\ UNCHANGED ceiling
      BY <1>0, ReconcileEases DEF Reconcile
    <3> QED BY <1>0, <3>1, EaseKeeps
  <2> QED BY <1>2, <2>1, <2>2 DEF Author
<1>3. CASE Crash \/ UNCHANGED vars
  BY <1>0, <1>3, SameRows, EaseKeeps DEF Crash, vars
<1> QED BY <1>1, <1>2, <1>3 DEF Next

(* What a scope has committed never exceeds the largest limit under which a *)
(* call was granted, but for charges above their estimate (reserve,         *)
(* not_sent, settle, unknown, reconcile), however the calls interleave.     *)
THEOREM LimitIsKept == Spec => []LimitKept
<1>1. LInv /\ [Next]_vars => LInv'
  BY NextLInv
<1>2. LInv => LimitKept
  BY DEF LInv
<1> QED BY InitLInv, <1>1, <1>2, PTL DEF Spec
=============================================================================
