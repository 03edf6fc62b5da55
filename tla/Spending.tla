-------------------------------- MODULE Spending --------------------------------
(***************************************************************************)
(* The spending ledger (spending.py) and the one caller protocol that uses *)
(* it: CompatibleProvider._send, run by the executor thread and by request *)
(* threads at the same time, while the author sets limits and prices and   *)
(* reconciles entries against the provider's bill.                         *)
(*                                                                         *)
(* Every method of the ledger is one BEGIN IMMEDIATE transaction under one *)
(* lock, and is one step.  The set active lives in memory: it is what says *)
(* that a call may still write to its entry, and a crash empties it.       *)
(*                                                                         *)
(* Abstracted: tokens and prices (an amount stands for their product), the *)
(* texts of requests and replies, and the order of the report.             *)
(***************************************************************************)
EXTENDS Integers, FiniteSets, FiniteSetsExt

CONSTANTS Callers,       \* threads that may be inside _send at the same time
          Projects,      \* projects with a limit of their own
          Project,       \* Project[c]: the project caller c works for, or Everything
          Everything,    \* the scope of the global limit
          Amounts,       \* what a request may be estimated at or cost
          Limits,        \* what the author may set a limit to
          MaxEntries,    \* bound: requests ever reserved
          MaxRevisions,  \* bound: changes of the settings
          MaxCrashes,    \* bound: process deaths
          MaxFaults      \* bound: ledger transactions that fail

Unknown == -1            \* a price, an amount or a limit that is not set (NULL)

ASSUME SpendingAssumption ==
    /\ Amounts \subseteq Nat /\ Limits \subseteq Nat
    /\ Everything \notin Projects
    /\ Project \in [Callers -> Projects \cup {Everything}]
    /\ MaxEntries \in Nat /\ MaxRevisions \in Nat /\ MaxCrashes \in Nat /\ MaxFaults \in Nat

Entries == 1..MaxEntries
Scopes  == Projects \cup {Everything}

VARIABLES entry,      \* the rows of table entries
          limit,      \* settings: the limit of each scope
          priced,     \* settings: whether the model has a price
          revision,   \* settings: their revision
          active,     \* entries whose call has not ended, in memory
          caller,     \* where each thread is inside _send
          crashes, faults,  \* counters of the two bounds
          delivered,  \* history: entries whose request reached the provider
          ceiling     \* history: the most a scope was ever allowed to commit

settings == <<limit, priced, revision>>
bounds   == <<crashes, faults>>
vars     == <<entry, settings, active, caller, bounds, delivered, ceiling>>

Open     == {"reserved", "sent", "unknown"}
Statuses == Open \cup {"absent", "not_sent", "settled", "reconciled"}
NoEntry  == [status |-> "absent", scope |-> Everything, reserve |-> Unknown, cost |-> Unknown]
Quiet    == [pc |-> "idle", entry |-> 0, tries |-> 0]
PCs      == {"idle", "reserve", "before", "release", "mark", "wire", "refused",
             "reply", "content", "finally"}

RowsOK ==
    /\ entry \in [Entries -> [status : Statuses, scope : Scopes,
                              reserve : Amounts \cup {Unknown}, cost : Nat \cup {Unknown}]]
    /\ limit \in [Scopes -> Limits \cup {Unknown}] /\ priced \in BOOLEAN /\ revision \in Nat
    /\ active \subseteq Entries
    /\ caller \in [Callers -> [pc : PCs, entry : 0..MaxEntries, tries : 0..1]]
    /\ crashes \in Nat /\ faults \in Nat
    /\ delivered \subseteq Entries

Init ==
    /\ entry = [e \in Entries |-> NoEntry]
    /\ limit = [s \in Scopes |-> Unknown] /\ priced = FALSE /\ revision = 0
    /\ active = {} /\ caller = [c \in Callers |-> Quiet]
    /\ crashes = 0 /\ faults = 0
    /\ delivered = {} /\ ceiling = [s \in Scopes |-> 0]

-----------------------------------------------------------------------------
(* _totals *)

InScope(s) == {e \in Entries : /\ entry[e].status \notin {"absent", "not_sent"}
                               /\ s = Everything \/ entry[e].scope = s}
Known(amount) == IF amount = Unknown THEN 0 ELSE amount
Amount(e)     == IF entry[e].status \in Open THEN Known(entry[e].reserve)
                 ELSE IF entry[e].status \in {"settled", "reconciled"} THEN Known(entry[e].cost)
                 ELSE 0
Committed(s)  == MapThenSumSet(Amount, InScope(s))
Unpriced(s)   == {e \in InScope(s) : entry[e].cost = Unknown /\ entry[e].reserve = Unknown}

(* The checks of reserve(), for the global scope and the caller's project. *)
ScopesOf(c) == {Everything, Project[c]}
MayReserve(c, amount) ==
    \A s \in ScopesOf(c) : limit[s] # Unknown =>
        /\ amount # Unknown /\ Unpriced(s) = {}
        /\ Committed(s) + amount <= limit[s]

-----------------------------------------------------------------------------
(* _send *)

Goto(c, pc) == caller' = [caller EXCEPT ![c].pc = pc]
Used        == {e \in Entries : entry[e].status # "absent"}
Fresh(e)    == e \in Entries \ Used /\ \A f \in Entries \ Used : e <= f
Room        == Cardinality(Used) + Cardinality({c \in Callers : caller[c].pc = "reserve"})
                   < MaxEntries         \* the bound: an entry is left for a call, or a round

Start(c) ==
    /\ caller[c].pc = "idle" /\ Room
    /\ caller' = [caller EXCEPT ![c] = [pc |-> "reserve", entry |-> 0, tries |-> 0]]
    /\ UNCHANGED <<entry, settings, active, bounds, delivered, ceiling>>

(* Granting raises the history ceiling to the limit that was respected, or *)
(* to what is committed where the author had set none.                     *)
Allowed(s, amount)  == IF limit[s] # Unknown THEN limit[s] ELSE Committed(s) + Known(amount)
Raised(c, s, amount) == IF s \in ScopesOf(c) /\ ceiling[s] < Allowed(s, amount)
                        THEN Allowed(s, amount) ELSE ceiling[s]

Grant(c, amount, e) ==
    /\ MayReserve(c, amount) /\ Fresh(e)
    /\ entry' = [entry EXCEPT ![e] = [status |-> "reserved", scope |-> Project[c],
                                      reserve |-> amount, cost |-> Unknown]]
    /\ active' = active \cup {e}
    /\ caller' = [caller EXCEPT ![c].pc = "before", ![c].entry = e]
    /\ ceiling' = [s \in Scopes |-> Raised(c, s, amount)]

Refuse(c, amount) ==
    /\ ~MayReserve(c, amount) /\ Goto(c, "finally")
    /\ UNCHANGED <<entry, active, ceiling>>

Reserve(c) ==
    /\ caller[c].pc = "reserve"
    /\ \E amount \in IF priced THEN Amounts ELSE {Unknown} :
           Refuse(c, amount) \/ \E e \in Entries : Grant(c, amount, e)
    /\ UNCHANGED <<settings, bounds, delivered>>

BeforeSend(c) ==     \* the attempt observer; when it raises the entry is released
    /\ caller[c].pc = "before"
    /\ Goto(c, "mark") \/ Goto(c, "release")
    /\ UNCHANGED <<entry, settings, active, bounds, delivered, ceiling>>

Sent(c) ==
    /\ caller[c].pc = "mark" /\ Goto(c, "wire")
    /\ entry' = [entry EXCEPT ![caller[c].entry].status = IF @ = "reserved" THEN "sent" ELSE @]
    /\ UNCHANGED <<settings, active, bounds, delivered, ceiling>>

Wire(c) ==           \* the request arrives, or no connection is made
    /\ caller[c].pc = "wire"
    /\ \/ Goto(c, "reply") /\ delivered' = delivered \cup {caller[c].entry}
       \/ Goto(c, "refused") /\ UNCHANGED delivered
    /\ UNCHANGED <<entry, settings, active, bounds, ceiling>>

LastTry         == 1
ReleasesReply   == {"release", "refused", "reply"}   \* mutant: a timeout releases too
Releases        == {"release", "refused"}
ClosedKept(e)   == active         \* mutant: the entry stays in memory
Closed(e)       == active \ {e}
EndingAny       == Statuses \ {"absent", "reconciled"}   \* mutant: whatever its status
Ending          == {"reserved", "sent"}
Ended           == "unknown"

NotSent(c) ==        \* ledger.not_sent, then observer.not_sent and the second round
    /\ caller[c].pc \in Releases
    /\ entry' = [entry EXCEPT ![caller[c].entry].status = "not_sent",
                              ![caller[c].entry].cost = 0]
    /\ active' = Closed(caller[c].entry)
    /\ \/ Goto(c, "finally")
       \/ /\ caller[c].pc = "refused" /\ caller[c].tries < LastTry /\ Room
          /\ caller' = [caller EXCEPT ![c].pc = "reserve", ![c].tries = @ + 1]
    /\ UNCHANGED <<settings, bounds, delivered, ceiling>>

(* settle(): an entry without a price stays without a cost. *)
Settled(e, cost) ==
    IF entry[e].status \in Open
    THEN /\ entry' = [entry EXCEPT ![e].status = "settled",
                                   ![e].cost = IF entry[e].reserve = Unknown THEN Unknown ELSE cost]
         /\ active' = Closed(e)
    ELSE UNCHANGED <<entry, active>>

Reply(c) ==          \* usage is captured before the content is looked at
    /\ caller[c].pc = "reply"
    /\ \/ Goto(c, "content") /\ \E cost \in Amounts : Settled(caller[c].entry, cost)
       \/ Goto(c, "content") /\ UNCHANGED <<entry, active>>
       \/ Goto(c, "finally") /\ UNCHANGED <<entry, active>>
    /\ UNCHANGED <<settings, bounds, delivered, ceiling>>

Content(c) ==
    /\ caller[c].pc = "content" /\ Goto(c, "finally")
    /\ \/ \E cost \in Amounts : Settled(caller[c].entry, cost)
       \/ UNCHANGED <<entry, active>>
    /\ UNCHANGED <<settings, bounds, delivered, ceiling>>

Finally(c) ==        \* unknown(): of the entry of the last round that was granted
    /\ caller[c].pc = "finally"
    /\ caller' = [caller EXCEPT ![c] = Quiet]
    /\ IF caller[c].entry = 0 THEN UNCHANGED <<entry, active>>
       ELSE /\ entry' = [entry EXCEPT ![caller[c].entry].status =
                            IF @ \in Ending THEN Ended ELSE @]
            /\ active' = Closed(caller[c].entry)
    /\ UNCHANGED <<settings, bounds, delivered, ceiling>>

(* A ledger transaction fails (locked beyond its timeout, disk full): no   *)
(* row changes and the error leaves _send through finally.  An error of    *)
(* the commit itself comes after the entry has left active.                *)
LedgerFails(c) ==
    /\ faults < MaxFaults /\ faults' = faults + 1
    /\ \/ /\ caller[c].pc \in {"reserve", "release", "mark", "refused", "reply", "content"}
          /\ Goto(c, "finally")
       \/ /\ caller[c].pc = "finally"
          /\ caller' = [caller EXCEPT ![c] = Quiet]
    /\ \/ UNCHANGED active
       \/ caller[c].pc \notin {"reserve", "mark"} /\ active' = Closed(caller[c].entry)
    /\ UNCHANGED <<entry, settings, crashes, delivered, ceiling>>

-----------------------------------------------------------------------------
(* The author, and the process *)

Configure(expected) ==
    /\ expected = revision /\ revision < MaxRevisions
    /\ revision' = revision + 1
    /\ limit' \in [Scopes -> Limits \cup {Unknown}] /\ priced' \in BOOLEAN
    /\ UNCHANGED <<entry, active, caller, bounds, delivered, ceiling>>

ReconcilableActive(e) ==  \* mutant: the call may still be under way
    \/ entry[e].status \in Open
    \/ entry[e].status = "settled" /\ entry[e].cost = Unknown
Reconcilable(e) ==
    /\ e \notin active
    /\ \/ entry[e].status \in Open
       \/ entry[e].status = "settled" /\ entry[e].cost = Unknown

Reconcile(e, actual) ==
    /\ Reconcilable(e)
    /\ entry' = [entry EXCEPT ![e].status = "reconciled", ![e].cost = actual]
    /\ UNCHANGED <<settings, active, caller, bounds, delivered, ceiling>>

Crash ==
    /\ crashes < MaxCrashes /\ crashes' = crashes + 1
    /\ active' = {} /\ caller' = [c \in Callers |-> Quiet]
    /\ UNCHANGED <<entry, settings, faults, delivered, ceiling>>

Send(c) == \/ Reserve(c) \/ BeforeSend(c) \/ Sent(c) \/ Wire(c) \/ NotSent(c)
           \/ Reply(c) \/ Content(c) \/ Finally(c)

Author == \/ \E expected \in 0..revision : Configure(expected)
          \/ \E e \in Entries, actual \in Amounts : Reconcile(e, actual)

Next == \/ \E c \in Callers : Start(c) \/ Send(c) \/ LedgerFails(c)
        \/ Author \/ Crash

Spec == Init /\ [][Next]_vars

(* Every request has a deadline, so a call that has begun goes on. *)
FairSpec == Spec /\ \A c \in Callers : WF_vars(Send(c))

-----------------------------------------------------------------------------
(* Properties *)

(* What the provider charged, or the author entered, above the estimate. *)
Overrun(s) == MapThenSumSet(LAMBDA e : IF entry[e].cost > Known(entry[e].reserve)
                                       THEN entry[e].cost - Known(entry[e].reserve) ELSE 0,
                            InScope(s))

(* Concurrent calls never commit more than the largest limit under which a *)
(* call was granted, but for what was charged above its estimate: nothing  *)
(* that was released is counted again, nothing pending is forgotten        *)
(* (reserve, not_sent, unknown, settle).                                   *)
LimitKept == \A s \in Scopes : Committed(s) <= ceiling[s] + Overrun(s)

(* A request that may have been charged is never released: its entry keeps *)
(* its reservation or has a cost, through timeouts, ledger errors and      *)
(* restarts (_send, not_sent).                                             *)
DeliveredCounted ==
    \A e \in delivered : entry[e].status \in {"sent", "unknown", "settled", "reconciled"}

(* What the author has reconciled is final, and so is a cost the provider  *)
(* reported: no call still under way overwrites it (reconcile and the set  *)
(* active).                                                                *)
ReconciledFinal ==
    [][\A e \in Entries :
          \/ entry[e].status = "reconciled"
          \/ entry[e].status = "settled" /\ entry[e].cost # Unknown
          => entry'[e] = entry[e]]_vars

(* Entries that the memory holds under way though no call works on them. *)
Orphans == {e \in active : \A c \in Callers : caller[c].entry # e}

(* The author can always clear a reservation in the end: an open entry is  *)
(* settled, released, or handed to the author.  Only the entry that a      *)
(* ledger error in _send's finally left in memory is out of reach until    *)
(* the next start, one for each error, and no entry beside it.             *)
Answerable ==
    \A e \in Entries :
        entry[e].status \in Open ~>
            \/ entry[e].status \notin Open \/ Reconcilable(e)
            \/ e \in Orphans /\ Cardinality(Orphans) <= faults
=============================================================================
