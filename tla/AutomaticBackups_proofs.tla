------------------------ MODULE AutomaticBackups_proofs ------------------------
(***************************************************************************)
(* What automatic backups never do, for every retention, number of edits,  *)
(* requests, losses, failures and process deaths.                          *)
(*                                                                         *)
(* The argument: run_lock leaves one thread at work (OneAtATime), there is *)
(* at most one intent and it is newer than every row (IntentsOK), and at   *)
(* each position the thread knows what the files of its backup are         *)
(* (Working).  So a row is only written for an archive that was whole      *)
(* under this lock, and pruning is only reached with such a newest row.    *)
(***************************************************************************)
EXTENDS AutomaticBackups, TLAPS, FiniteSetTheorems

PCs == {"idle", "recover", "tidy", "adopt", "discard", "forget", "export", "compare", "intent",
        "open", "write", "replace", "finish", "prune", "unlink", "drop", "check", "error", "leave"}
ThreadRow == [pc : PCs, run : BOOLEAN, id : Nat, seen : Texts, own : BOOLEAN,
              adopted : BOOLEAN, then : {"leave", "export", "check"}, victims : SUBSET Backups]
Types ==
    /\ text \in Texts
    /\ policy \in [revision : Nat, enabled : BOOLEAN, retention : Retentions, error : BOOLEAN]
    /\ catalog \in SUBSET Backups /\ pending \in SUBSET Backups
    /\ content \in [Backups -> Texts]
    /\ file \in [Backups -> {"none", "whole", "bad"}]
    /\ tmp \in [Backups -> {"none", "part", "whole"}]
    /\ bounds \in [requests : Nat, losses : 0..MaxLosses, crashes : Nat, faults : Nat]
    /\ lost \in SUBSET Backups /\ lostSince \in SUBSET Backups

(* One intent at most, and it is newer than every row of the catalogue. *)
Above(b)  == \A c \in catalog : c < b
IntentsOK == \A b \in pending : Above(b) /\ \A c \in pending : b = c

(* The bounds of a model are enough: a new backup needs an edit or a loss. *)
Numbered(b) == /\ content[b] <= text
               /\ b <= content[b] + bounds.losses + 1
               /\ b \in lost => b <= content[b] + bounds.losses
Numbers     == \A b \in catalog \cup pending : Numbered(b)

BadIsLost == \A b \in Backups : file[b] = "bad" => b \in lost
Intact(S) == Newest # NoBackup /\ (file[Newest] = "whole" \/ Newest \in S)

Stored == IntentsOK /\ Numbers /\ BadIsLost /\ NoLitter /\ NewestRestorable

(* What the thread inside run() or report() knows at each position. *)
Files(x) ==
    /\ x.pc \in {"tidy", "adopt", "discard", "forget", "open", "write", "replace", "finish"} =>
          x.id \in pending
    /\ x.pc \in {"discard", "forget", "intent", "open", "write", "replace"} =>
          x.id \in Backups /\ file[x.id] = "none"
    /\ x.pc \in {"tidy", "adopt", "finish"} => file[x.id] = "whole" \/ x.id \in lost \cap lostSince
    /\ x.pc \in {"forget", "adopt", "intent", "open", "finish"} => tmp[x.id] = "none"
    /\ x.pc = "write" => tmp[x.id] = "part"
    /\ x.pc = "replace" => tmp[x.id] = "whole"
Contents(x) ==
    /\ x.pc \in {"open", "write", "replace", "finish"} => content[x.id] = x.seen
    /\ x.pc \in {"compare", "intent"} => x.seen <= text /\ \A b \in catalog : content[b] <= x.seen
    /\ x.pc = "intent" => Above(x.id) /\ x.id <= x.seen + bounds.losses + 1
    /\ x.pc \in {"prune", "unlink", "drop"} /\ x.then = "check" => content[Newest] = x.seen
    /\ x.pc = "check" => content[Newest] = x.seen
Pruning(x) ==
    /\ x.pc \in {"export", "compare", "intent", "prune", "unlink", "drop", "check"} => pending = {}
    /\ x.pc = "recover" /\ x.adopted => Intact(lostSince) /\ pending = {}
    /\ x.pc \in {"discard", "forget"} => ~x.adopted
    /\ x.pc \in {"prune", "unlink", "drop", "check"} => Intact(lostSince)
    /\ x.pc \in {"unlink", "drop"} => x.victims \subseteq catalog \ {Newest}
    /\ x.pc = "drop" => x.victims # {} /\ file[Max(x.victims)] = "none"
Working(x) == Files(x) /\ Contents(x) /\ Pruning(x)

OneAtATime == \A t \in Threads : thread[t].pc # "idle" => lock = t
Hands == /\ thread \in [Threads -> ThreadRow] /\ lock \in Threads \cup {Free} /\ OneAtATime
         /\ \A t \in Threads : Working(thread[t])

IInv == Types /\ Stored /\ Hands

-----------------------------------------------------------------------------
(* The newest of a set of backups.                                          *)

LEMMA Greatest ==
  ASSUME NEW n \in Nat, NEW S \in SUBSET (0..n), S # {}
  PROVE  \E m \in S : \A s \in S : s <= m
<1> DEFINE T == {n - s : s \in S}
           Less == OpToRel(<, Nat)
<1>1. IsWellFoundedOn(Less, Nat)
  BY NatLessThanWellFounded
<1>2. \A x, y \in Nat : <<x, y>> \in Less <=> x < y
  BY DEF OpToRel
<1>3. T \subseteq Nat /\ T # {}
  <2>1. \A s \in S : s \in Nat /\ s <= n
    OBVIOUS
  <2>2. \A s \in S : n - s \in Nat
    BY <2>1
  <2> QED BY <2>2
<1>4. PICK x \in T : \A y \in T : ~(<<y, x>> \in Less)
  <2> HIDE DEF Less, T
  <2> QED BY <1>1, <1>3, WFMin
<1>5. \A y \in T : x <= y
  <2> SUFFICES ASSUME NEW y \in T PROVE x <= y
    OBVIOUS
  <2>1. x \in Nat /\ y \in Nat
    BY <1>3
  <2>2. ~(y < x)
    BY <1>2, <1>4, <2>1
  <2> QED BY <2>1, <2>2
<1>6. PICK m \in S : x = n - m
  OBVIOUS
<1>7. \A s \in S : s <= m
  <2> SUFFICES ASSUME NEW s \in S PROVE s <= m
    OBVIOUS
  <2>1. n - m <= n - s
    BY <1>5, <1>6
  <2>2. s \in Nat /\ m \in Nat
    OBVIOUS
  <2> QED BY <2>1, <2>2
<1> QED BY <1>7

LEMMA MaxOf ==
  ASSUME NEW n \in Nat, NEW S \in SUBSET (0..n), S # {}
  PROVE  Max(S) \in S /\ \A s \in S : s <= Max(S)
<1>1. \E m \in S : \A s \in S : m >= s
  <2>1. PICK m \in S : \A s \in S : s <= m
    BY Greatest
  <2> QED BY <2>1
<1>2. Max(S) \in S /\ \A s \in S : Max(S) >= s
  BY <1>1 DEF Max
<1> QED BY <1>2

LEMMA NewestOf ==
  ASSUME BackupsAssumption, NEW C \in SUBSET Backups
  PROVE  LET m == Max(C \cup {NoBackup}) IN
         /\ m \in C \cup {NoBackup} /\ m \in Nat
         /\ \A c \in C : c <= m
         /\ m = NoBackup <=> C = {}
         /\ \A n \in C : (\A c \in C : c <= n) => n = m
<1> DEFINE S == C \cup {NoBackup}
           m == Max(S)
<1>1. S \in SUBSET (0..MaxBackups) /\ S # {} /\ MaxBackups \in Nat
  BY DEF BackupsAssumption, Backups, NoBackup
<1>2. m \in S /\ \A s \in S : s <= m
  <2> HIDE DEF S
  <2> QED BY <1>1, MaxOf
<1> HIDE DEF m
<1>3. m \in Nat /\ (\A c \in C : c \in Nat /\ c > 0 /\ c <= m)
  BY <1>1, <1>2 DEF Backups, BackupsAssumption
<1> QED BY <1>2, <1>3 DEF NoBackup, m

LEMMA NewestFacts ==
  ASSUME BackupsAssumption, Types
  PROVE  /\ Newest \in catalog \cup {NoBackup} /\ Newest \in Nat
         /\ \A c \in catalog : c \in Backups /\ c <= Newest
         /\ Newest # NoBackup => Newest \in Backups
         /\ catalog # {} => Newest # NoBackup
<1>1. catalog \in SUBSET Backups
  BY DEF Types
<1> QED BY <1>1, NewestOf DEF Newest

(* The row of the highest number is the newest one. *)
LEMMA NewestIs ==
  ASSUME BackupsAssumption, catalog' \in SUBSET Backups, NEW n \in catalog',
         \A c \in catalog' : c <= n
  PROVE  Newest' = n
  BY NewestOf DEF Newest

LEMMA BackupNumber ==
  ASSUME BackupsAssumption, NEW b \in Backups
  PROVE  b \in Nat /\ b # NoBackup
  BY DEF BackupsAssumption, Backups, NoBackup

-----------------------------------------------------------------------------
(* Steps that leave the rows and the disk alone.                            *)

LEMMA QuietRow == ASSUME BackupsAssumption PROVE Quiet \in ThreadRow /\ Quiet.pc = "idle"
  BY DEF Quiet, ThreadRow, PCs, NoBackup, Texts, BackupsAssumption

LEMMA InitIInv == ASSUME BackupsAssumption, Init PROVE IInv
<1>1. Quiet \in ThreadRow /\ Quiet.pc = "idle"
  BY QuietRow
<1>2. Types
  BY DEF Init, Types, BackupsAssumption, Backups, Texts
<1>3. catalog = {} /\ pending = {}
  BY DEF Init
<1>4. Newest = NoBackup
  BY <1>2, <1>3, NewestFacts
<1>5. Stored
  BY <1>3, <1>4 DEF Init, Stored, IntentsOK, Numbers, BadIsLost, NoLitter, NewestRestorable
<1>6. \A t \in Threads : thread[t] = Quiet
  BY DEF Init
<1>7. \A t \in Threads : Working(thread[t])
  BY <1>1, <1>6 DEF Working, Files, Contents, Pruning
<1>8. Hands
  BY <1>1, <1>6, <1>7 DEF Init, Hands, OneAtATime
<1> QED BY <1>2, <1>5, <1>8 DEF IInv

LEMMA Alone ==
  ASSUME BackupsAssumption, IInv, NEW t \in Threads, thread[t].pc # "idle" \/ lock = Free
  PROVE  /\ \A u \in Threads \ {t} : thread[u].pc = "idle"
         /\ thread[t].pc # "idle" => lock = t
  BY DEF IInv, Hands, OneAtATime, BackupsAssumption

(* A thread in its place among the others. *)
Moved(t) == thread' = [thread EXCEPT ![t] = thread'[t]] /\ thread'[t] \in ThreadRow

LEMMA HandsStep ==
  ASSUME BackupsAssumption, IInv, NEW t \in Threads, thread[t].pc # "idle" \/ lock = Free,
         Moved(t), lock' \in {t, Free}, thread'[t].pc # "idle" => lock' = t,
         Working(thread[t])'
  PROVE  Hands'
<1>1. \A u \in Threads \ {t} : thread'[u].pc = "idle"
  BY Alone DEF IInv, Hands, Moved
<1>2. thread' \in [Threads -> ThreadRow]
  BY DEF IInv, Hands, Moved
<1>3. \A u \in Threads \ {t} : Working(thread[u])'
  BY <1>1 DEF Working, Files, Contents, Pruning
<1> QED BY <1>1, <1>2, <1>3 DEF Hands, OneAtATime

Same(x, y) == /\ x.run = y.run /\ x.id = y.id /\ x.seen = y.seen /\ x.own = y.own
              /\ x.adopted = y.adopted /\ x.then = y.then /\ x.victims = y.victims

LEMMA GotoMoves ==
  ASSUME BackupsAssumption, IInv, NEW t \in Threads, NEW pc \in PCs, Goto(t, pc)
  PROVE  Moved(t) /\ thread'[t].pc = pc /\ Same(thread'[t], thread[t])
<1>1. thread[t] \in ThreadRow /\ thread \in [Threads -> ThreadRow]
  BY DEF IInv, Hands
<1>2. thread' = [thread EXCEPT ![t] = [thread[t] EXCEPT !.pc = pc]]
  BY DEF Goto
<1>3. thread'[t] = [thread[t] EXCEPT !.pc = pc]
  BY <1>1, <1>2
<1> QED BY <1>1, <1>2, <1>3 DEF Moved, Same, ThreadRow

LEMMA Still ==
  ASSUME IInv, UNCHANGED <<text, rows, disk, bounds, loss>>
  PROVE  Types' /\ Stored' /\ Newest' = Newest
<1> USE DEF rows, disk, loss
<1>1. Newest' = Newest
  BY DEF Newest
<1>2. Types'
  BY DEF IInv, Types
<1>3. Stored'
  BY <1>1 DEF IInv, Stored, IntentsOK, Above, Numbers, Numbered, BadIsLost, NoLitter, NewestRestorable
<1> QED BY <1>1, <1>2, <1>3

LEMMA EnterKeeps ==
  ASSUME BackupsAssumption, IInv, NEW t \in Threads, NEW run \in BOOLEAN, Enter(t, run),
         bounds' = bounds \/ bounds' = [bounds EXCEPT !.requests = @ + 1]
  PROVE  IInv'
<1>1. lock = Free /\ lock' = t /\ UNCHANGED <<text, rows, disk, loss>>
  BY DEF Enter, LockFree
<1>2. /\ bounds' \in [requests : Nat, losses : 0..MaxLosses, crashes : Nat, faults : Nat]
      /\ bounds'.losses = bounds.losses
  BY DEF IInv, Types
<1>3. Newest' = Newest
  BY <1>1 DEF Newest, rows
<1>4. Types'
  BY <1>1, <1>2 DEF IInv, Types, rows, disk, loss
<1>5. Stored'
  BY <1>1, <1>2, <1>3 DEF IInv, Stored, IntentsOK, Above, Numbers, Numbered, BadIsLost, NoLitter,
     NewestRestorable, rows, disk, loss
<1> DEFINE x == [Quiet EXCEPT !.pc = "recover", !.run = run]
<1>6. x \in ThreadRow /\ x.pc = "recover" /\ ~x.adopted
  <2>1. Quiet \in ThreadRow /\ ~Quiet.adopted
    BY QuietRow DEF Quiet
  <2>2. "recover" \in PCs
    BY DEF PCs
  <2> QED BY <2>1, <2>2 DEF ThreadRow
<1>7. thread' = [thread EXCEPT ![t] = x] /\ thread'[t] = x
  BY DEF Enter, IInv, Hands
<1> HIDE DEF x
<1>8. Working(thread[t])'
  BY <1>6, <1>7 DEF Working, Files, Contents, Pruning
<1>9. Moved(t)
  BY <1>6, <1>7 DEF Moved
<1>10. Hands'
  BY <1>1, <1>7, <1>8, <1>9, HandsStep
<1> QED BY <1>4, <1>5, <1>10 DEF IInv

LEMMA RecoverKeeps ==
  ASSUME BackupsAssumption, IInv, NEW t \in Threads, Recover(t)
  PROVE  IInv'
<1> DEFINE b == Min(pending)
<1>0. thread[t].pc = "recover" /\ thread[t] \in ThreadRow /\ lock = t
  BY Alone DEF Recover, At, IInv, Hands
<1>1. UNCHANGED <<text, rows, disk, bounds, lock, lost>> /\ lostSince' \in SUBSET lostSince
  BY DEF Recover
<1>2. Newest' = Newest
  BY <1>1 DEF Newest, rows
<1>3. Types' /\ Stored'
  BY <1>1, <1>2 DEF IInv, Types, Stored, IntentsOK, Above, Numbers, Numbered, BadIsLost, NoLitter,
     NewestRestorable, rows, disk
<1>4. CASE pending = {}
  <2>1. thread' = [thread EXCEPT ![t].then = IF thread[t].run THEN "export" ELSE "leave",
                                ![t].pc = IF thread[t].adopted THEN "prune"
                                          ELSE IF thread[t].run THEN "export" ELSE "leave"]
        /\ lostSince' = lostSince
    BY <1>4 DEF Recover, Leftover
  <2> DEFINE x == [thread[t] EXCEPT !.then = IF thread[t].run THEN "export" ELSE "leave",
                                    !.pc = IF thread[t].adopted THEN "prune"
                                           ELSE IF thread[t].run THEN "export" ELSE "leave"]
  <2>2. /\ x \in ThreadRow /\ x.then \in {"export", "leave"} /\ x.pc \in {"prune", "export", "leave"}
        /\ x.pc = "prune" => thread[t].adopted
    BY <1>0 DEF ThreadRow, PCs
  <2>3. thread' = [thread EXCEPT ![t] = x] /\ thread'[t] = x
    BY <2>1 DEF IInv, Hands
  <2> HIDE DEF x
  <2>4. Moved(t)
    BY <2>2, <2>3 DEF Moved
  <2>5. thread[t].adopted => Intact(lostSince)
    BY <1>0 DEF IInv, Hands, Working, Pruning
  <2>6. Files(thread[t])' /\ Contents(thread[t])'
    BY <2>2, <2>3 DEF Files, Contents
  <2>7. Pruning(thread[t])'
    BY <1>1, <1>2, <1>4, <2>1, <2>2, <2>3, <2>5 DEF Pruning, Intact, rows, disk
  <2>8. Hands'
    BY <1>0, <1>1, <2>2, <2>3, <2>4, <2>6, <2>7, HandsStep DEF Working
  <2> QED BY <1>3, <2>8 DEF IInv
<1>5. CASE pending # {}
  <2>1. b \in pending /\ b \in Backups /\ b \in Nat
    <3>1. PICK a \in pending : \A c \in pending : a = c
      BY <1>5 DEF IInv, Stored, IntentsOK
    <3>2. a \in Backups /\ a \in Nat
      BY DEF IInv, Types, Backups
    <3>4. pending = {a}
      BY <3>1
    <3>3. \E y \in pending : \A z \in pending : y =< z
      BY <3>2, <3>4
    <3>5. b \in pending
      BY <3>3 DEF Min
    <3> QED BY <3>2, <3>4, <3>5
  <2>2. /\ thread' = [thread EXCEPT ![t].id = b,
                                    ![t].pc = CASE file[b] = "none"  -> "discard"
                                                [] file[b] = "whole" -> "tidy"
                                                [] OTHER             -> "error"]
    BY <1>5 DEF Recover, Leftover
  <2> HIDE DEF b
  <2> DEFINE pc == CASE file[b] = "none"  -> "discard"
                     [] file[b] = "whole" -> "tidy"
                     [] OTHER             -> "error"
             x == [thread[t] EXCEPT !.id = b, !.pc = pc]
  <2>3. /\ pc \in {"discard", "tidy", "error"} /\ pc \in PCs
        /\ pc = "discard" => file[b] = "none"
        /\ pc = "tidy" => file[b] = "whole"
    BY DEF PCs
  <2>4. thread' = [thread EXCEPT ![t] = x] /\ thread'[t] = x
    BY <2>2 DEF IInv, Hands
  <2> HIDE DEF pc
  <2>5. x \in ThreadRow /\ x.pc = pc /\ x.id = b /\ ~x.adopted
    <3>1. ~thread[t].adopted
      BY <1>0, <1>5 DEF IInv, Hands, Working, Pruning
    <3> QED BY <1>0, <2>1, <2>3, <3>1 DEF ThreadRow
  <2> HIDE DEF x
  <2>6. Moved(t)
    BY <2>4, <2>5 DEF Moved
  <2>7. Working(thread[t])'
    BY <1>1, <2>1, <2>3, <2>4, <2>5 DEF Working, Files, Contents, Pruning, rows, disk
  <2>8. Hands'
    BY <1>0, <1>1, <2>3, <2>4, <2>5, <2>6, <2>7, HandsStep
  <2> QED BY <1>3, <2>8 DEF IInv
<1> QED BY <1>4, <1>5

LEMMA ExportKeeps ==
  ASSUME BackupsAssumption, IInv, NEW t \in Threads, Export(t)
  PROVE  IInv'
<1>0. thread[t].pc = "export" /\ thread[t] \in ThreadRow /\ lock = t
  BY Alone DEF Export, At, IInv, Hands
<1>1. UNCHANGED <<text, rows, disk, lock, bounds, loss>> /\ Types' /\ Stored'
  BY Still DEF Export
<1> DEFINE x == [thread[t] EXCEPT !.pc = "compare", !.seen = text]
<1>2. thread' = [thread EXCEPT ![t] = x] /\ thread'[t] = x
  BY DEF Export, IInv, Hands
<1>3. x \in ThreadRow /\ x.pc = "compare" /\ x.seen = text
  BY <1>0 DEF ThreadRow, PCs, IInv, Types
<1> HIDE DEF x
<1>4. pending = {} /\ (\A b \in catalog : content[b] <= text) /\ text \in Nat
  BY <1>0 DEF IInv, Hands, Working, Pruning, Stored, Numbers, Numbered, Types, Texts
<1>5. Working(thread[t])'
  BY <1>1, <1>2, <1>3, <1>4 DEF Working, Files, Contents, Pruning, rows
<1>6. Hands'
  BY <1>0, <1>1, <1>2, <1>3, <1>5, HandsStep DEF Moved
<1> QED BY <1>1, <1>6 DEF IInv

(* The number of a new backup is in the bounds of the model. *)
LEMMA FreshIs ==
  ASSUME BackupsAssumption, IInv, pending = {}, NEW seen \in Texts, seen <= text,
         \A b \in catalog : content[b] <= seen, ~Saved(seen)
  PROVE  /\ Fresh \in Backups /\ Above(Fresh)
         /\ Fresh <= seen + bounds.losses + 1
<1>1. Fresh = Newest + 1
  <2>1. catalog \cup pending \cup {NoBackup} = catalog \cup {NoBackup}
    OBVIOUS
  <2> QED BY <2>1 DEF Fresh, Newest
<1>2. /\ Newest \in catalog \cup {NoBackup} /\ Newest \in Nat
      /\ \A c \in catalog : c \in Backups /\ c <= Newest
  BY NewestFacts DEF IInv
<1>3. seen \in Nat /\ seen <= MaxEdits /\ bounds.losses \in Nat /\ bounds.losses <= MaxLosses
      /\ MaxEdits \in Nat /\ MaxLosses \in Nat /\ MaxBackups \in Nat
      /\ MaxBackups > MaxEdits + MaxLosses
  BY DEF IInv, Types, Texts, BackupsAssumption
<1>4. Newest <= seen + bounds.losses
  <2>1. CASE Newest = NoBackup
    BY <1>3, <2>1 DEF NoBackup
  <2>2. CASE Newest # NoBackup
    <3>1. Newest \in catalog /\ Newest \in Backups /\ content[Newest] \in Nat
      BY <1>2, <2>2 DEF IInv, Types, Texts
    <3>2. Numbered(Newest) /\ (file[Newest] = "whole" \/ Newest \in lost) /\ content[Newest] <= seen
      BY <2>2, <3>1 DEF IInv, Stored, Numbers, NewestRestorable
    <3>3. CASE Newest \in lost
      BY <1>2, <1>3, <3>1, <3>2, <3>3 DEF Numbered
    <3>4. CASE content[Newest] # seen
      BY <1>2, <1>3, <3>1, <3>2, <3>4 DEF Numbered
    <3> QED BY <2>2, <3>2, <3>3, <3>4 DEF Saved
  <2> QED BY <2>1, <2>2
<1>5. \A c \in catalog : c \in Nat
  BY <1>2 DEF Backups
<1> QED BY <1>1, <1>2, <1>3, <1>4, <1>5 DEF Backups, Above

LEMMA CompareKeeps ==
  ASSUME BackupsAssumption, IInv, NEW t \in Threads, Compare(t)
  PROVE  IInv'
<1>0. thread[t].pc = "compare" /\ thread[t] \in ThreadRow /\ lock = t
  BY Alone DEF Compare, At, IInv, Hands
<1>1. UNCHANGED <<text, rows, disk, lock, bounds, lost>> /\ lostSince' = {}
  BY DEF Compare
<1>2. Newest' = Newest
  BY <1>1 DEF Newest, rows
<1>3. Types' /\ Stored'
  BY <1>1, <1>2 DEF IInv, Types, Stored, IntentsOK, Above, Numbers, Numbered, BadIsLost, NoLitter,
     NewestRestorable, rows, disk
<1>4. /\ pending = {} /\ thread[t].seen \in Texts /\ thread[t].seen <= text
      /\ \A b \in catalog : content[b] <= thread[t].seen
  BY <1>0 DEF IInv, Hands, Working, Pruning, Contents, ThreadRow
<1>5. CASE Saved(thread[t].seen)
  <2> DEFINE x == [thread[t] EXCEPT !.pc = "prune", !.then = "check"]
  <2>1. thread' = [thread EXCEPT ![t] = x] /\ thread'[t] = x
    BY <1>5 DEF Compare, IInv, Hands
  <2>2. x \in ThreadRow /\ x.pc = "prune" /\ x.seen = thread[t].seen
    BY <1>0 DEF ThreadRow, PCs
  <2> HIDE DEF x
  <2>3. Newest # NoBackup /\ file[Newest] = "whole" /\ content[Newest] = thread[t].seen
    BY <1>5 DEF Saved
  <2>4. Working(thread[t])'
    BY <1>1, <1>2, <1>4, <2>1, <2>2, <2>3 DEF Working, Files, Contents, Pruning, Intact, rows, disk
  <2>5. Hands'
    BY <1>0, <1>1, <2>1, <2>2, <2>4, HandsStep DEF Moved
  <2> QED BY <1>3, <2>5 DEF IInv
<1>6. CASE ~Saved(thread[t].seen)
  <2>0. /\ Fresh \in Backups /\ Above(Fresh) /\ Fresh <= thread[t].seen + bounds.losses + 1
    BY <1>4, <1>6, FreshIs
  <2> DEFINE x == [thread[t] EXCEPT !.pc = "intent", !.id = Fresh, !.own = TRUE]
  <2>1. thread' = [thread EXCEPT ![t] = x] /\ thread'[t] = x
    BY <1>6 DEF Compare, IInv, Hands
  <2>2. x \in ThreadRow /\ x.pc = "intent" /\ x.seen = thread[t].seen /\ x.id = Fresh
    <3>1. Fresh \in Nat /\ "intent" \in PCs
      BY <2>0 DEF PCs, Backups
    <3> QED BY <1>0, <3>1 DEF ThreadRow
  <2> HIDE DEF x
  <2>3. Fresh \notin catalog
    BY <2>0 DEF Above, IInv, Types, Backups
  <2>4. file[Fresh] = "none" /\ tmp[Fresh] = "none"
    BY <1>4, <2>0, <2>3 DEF IInv, Stored, NoLitter
  <2> DEFINE f == Fresh
  <2>9. f = Fresh
    OBVIOUS
  <2> HIDE DEF f
  <2>5. Working(thread[t])'
    BY <1>1, <1>4, <2>0, <2>1, <2>2, <2>4, <2>9
       DEF Working, Files, Contents, Pruning, Above, rows, disk
  <2>6. Hands'
    BY <1>0, <1>1, <2>1, <2>2, <2>5, HandsStep DEF Moved
  <2> QED BY <1>3, <2>6 DEF IInv
<1> QED BY <1>5, <1>6

LEMMA PruneKeeps ==
  ASSUME BackupsAssumption, IInv, NEW t \in Threads, Prune(t)
  PROVE  IInv'
<1>0. thread[t].pc = "prune" /\ thread[t] \in ThreadRow /\ lock = t
  BY Alone DEF Prune, At, IInv, Hands
<1>1. UNCHANGED <<text, rows, disk, lock, bounds, loss>> /\ Types' /\ Stored' /\ Newest' = Newest
  BY Still DEF Prune
<1>2. Beyond \subseteq catalog \ {Newest}
  <2>1. Beyond \subseteq catalog
    BY DEF Beyond
  <2>2. ASSUME Newest \in Beyond PROVE FALSE
    <3>1. {c \in catalog : c > Newest} = {}
      BY NewestFacts DEF IInv, Backups
    <3>2. Cardinality({c \in catalog : c > Newest}) = 0
      BY <3>1, FS_EmptySet
    <3>3. policy.retention \in Nat \ {0}
      BY DEF IInv, Types, BackupsAssumption
    <3> QED BY <2>2, <3>2, <3>3 DEF Beyond
  <2> QED BY <2>1, <2>2
<1> DEFINE x == [thread[t] EXCEPT !.victims = Beyond, !.pc = "unlink"]
<1>3. thread' = [thread EXCEPT ![t] = x] /\ thread'[t] = x
  BY DEF Prune, IInv, Hands
<1>4. x \in ThreadRow /\ x.pc = "unlink" /\ x.victims = Beyond /\ x.seen = thread[t].seen
      /\ x.then = thread[t].then
  BY <1>0, <1>2 DEF ThreadRow, PCs, IInv, Types
<1> HIDE DEF x
<1>5. pending = {} /\ Intact(lostSince) /\ (thread[t].then = "check" => content[Newest] = thread[t].seen)
  BY <1>0 DEF IInv, Hands, Working, Pruning, Contents
<1>6. thread'[t].victims \subseteq catalog' \ {Newest'}
  BY <1>1, <1>2, <1>3, <1>4 DEF rows
<1>7. Working(thread[t])'
  BY <1>1, <1>3, <1>4, <1>5, <1>6 DEF Working, Files, Contents, Pruning, Intact, rows, disk, loss
<1>8. Hands'
  BY <1>0, <1>1, <1>3, <1>4, <1>7, HandsStep DEF Moved
<1> QED BY <1>1, <1>8 DEF IInv

-----------------------------------------------------------------------------
(* Steps on the files and the rows of one backup.                           *)

(* A temporary file may change while an intent names it. *)
LEMMA TmpChanges ==
  ASSUME BackupsAssumption, IInv, NEW b \in Backups, NEW v \in {"none", "part", "whole"},
         b \in pending \/ v = "none", tmp' = [tmp EXCEPT ![b] = v],
         UNCHANGED <<text, rows, file, bounds, loss>>
  PROVE  Types' /\ Stored' /\ Newest' = Newest /\ tmp'[b] = v
<1>0. UNCHANGED <<policy, catalog, pending, content, lost, lostSince>>
  BY DEF rows, loss
<1>1. Newest' = Newest
  BY <1>0 DEF Newest
<1>2. Types' /\ tmp'[b] = v /\ \A c \in Backups \ {b} : tmp'[c] = tmp[c]
  BY <1>0 DEF IInv, Types
<1>3. NoLitter'
  BY <1>0, <1>2 DEF IInv, Stored, NoLitter
<1>4. Stored'
  BY <1>0, <1>1, <1>3 DEF IInv, Stored, IntentsOK, Above, Numbers, Numbered, BadIsLost, NewestRestorable
<1> QED BY <1>1, <1>2, <1>4

LEMMA TmpStepKeeps ==
  ASSUME BackupsAssumption, IInv, NEW t \in Threads, Tidy(t) \/ Discard(t) \/ Open(t) \/ Write(t)
  PROVE  IInv'
<1> DEFINE b == thread[t].id
<1>0. /\ thread[t].pc \in {"tidy", "discard", "open", "write"} /\ thread[t] \in ThreadRow
      /\ lock = t /\ b \in pending /\ b \in Backups
  BY Alone DEF Tidy, Discard, Open, Write, At, IInv, Hands, Working, Files, Types
<1>1. UNCHANGED <<text, rows, file, lock, bounds, loss>>
  BY DEF Tidy, Discard, Open, Write
<1>2. PICK v \in {"none", "part", "whole"}, pc \in {"adopt", "forget", "write", "replace"} :
          /\ tmp' = [tmp EXCEPT ![b] = v] /\ Goto(t, pc)
          /\ pc = "adopt" => thread[t].pc = "tidy" /\ v = "none"
          /\ pc = "forget" => thread[t].pc = "discard" /\ v = "none"
          /\ pc = "write" => thread[t].pc = "open" /\ v = "part"
          /\ pc = "replace" => thread[t].pc = "write" /\ v = "whole"
  BY DEF Tidy, Discard, Open, Write, AfterWrite, At
<1>3. Types' /\ Stored' /\ Newest' = Newest /\ tmp'[b] = v
  BY <1>0, <1>1, <1>2, TmpChanges
<1>4. pc \in PCs
  BY DEF PCs
<1>5. Moved(t) /\ thread'[t].pc = pc /\ Same(thread'[t], thread[t])
  BY <1>2, <1>4, GotoMoves
<1>6. /\ pc # "adopt" => file[b] = "none"
      /\ pc = "adopt" => file[b] = "whole" \/ b \in lost \cap lostSince
      /\ pc \in {"write", "replace"} => content[b] = thread[t].seen
  BY <1>0, <1>2 DEF IInv, Hands, Working, Files, Contents
<1>7. pc = "forget" => ~thread[t].adopted
  BY <1>2 DEF IInv, Hands, Working, Pruning
<1>8. Working(thread[t])'
  <2>1. Files(thread[t])'
    <3> DEFINE y == thread'[t]
    <3>1. /\ y.pc = pc /\ y.id = b /\ b \in pending' /\ b \in Backups
          /\ file'[b] = file[b] /\ tmp'[b] = v /\ lost' = lost /\ lostSince' = lostSince
      BY <1>0, <1>1, <1>3, <1>5 DEF Same, rows, loss
    <3> HIDE DEF y, b
    <3>2. CASE pc = "adopt"
      BY <1>2, <1>6, <3>1, <3>2 DEF Files, y
    <3>3. CASE pc = "forget"
      BY <1>2, <1>6, <3>1, <3>3 DEF Files, y
    <3>4. CASE pc = "write"
      BY <1>2, <1>6, <3>1, <3>4 DEF Files, y
    <3>5. CASE pc = "replace"
      BY <1>2, <1>6, <3>1, <3>5 DEF Files, y
    <3> QED BY <1>2, <3>2, <3>3, <3>4, <3>5
  <2>2. Contents(thread[t])'
    BY <1>1, <1>2, <1>5, <1>6 DEF Contents, Same, rows
  <2>3. Pruning(thread[t])'
    BY <1>2, <1>5, <1>6, <1>7 DEF Pruning, Same
  <2> QED BY <2>1, <2>2, <2>3 DEF Working
<1>9. Hands'
  BY <1>0, <1>1, <1>5, <1>8, HandsStep
<1> QED BY <1>3, <1>9 DEF IInv

(* The intent becomes a row: the newest one. *)
LEMMA PublishKeeps ==
  ASSUME BackupsAssumption, IInv, NEW b \in pending, Publish(b),
         file[b] = "whole" \/ b \in lost, tmp[b] = "none",
         UNCHANGED <<text, content, disk, bounds, loss>>
  PROVE  Types' /\ Stored' /\ Newest' = b /\ pending' = {}
<1>0. UNCHANGED <<content, file, tmp, lost, lostSince>>
  BY DEF disk, loss
<1>1. /\ catalog' = catalog \cup {b} /\ pending' = pending \ {b} /\ b \in Backups
      /\ \A c \in catalog : c < b
      /\ \A c \in pending : c = b
  BY DEF Publish, IInv, Stored, IntentsOK, Above, Types
<1>2. pending' = {}
  BY <1>1
<1>3. policy' \in [revision : Nat, enabled : BOOLEAN, retention : Retentions, error : BOOLEAN]
  BY DEF Publish, IInv, Types
<1>4. Types'
  BY <1>0, <1>1, <1>3 DEF IInv, Types
<1>5. Newest' = b
  <2>1. \A c \in catalog' : c <= b
    <3>1. b \in Nat /\ \A c \in catalog : c \in Nat
      BY <1>1, BackupNumber DEF IInv, Types
    <3> QED BY <1>1, <3>1
  <2> QED BY <1>1, <1>4, <2>1, NewestIs DEF Types
<1>6. Stored'
  <2>1. IntentsOK' /\ BadIsLost' /\ NewestRestorable'
    BY <1>0, <1>2, <1>5 DEF IInv, Stored, IntentsOK, BadIsLost, NewestRestorable
  <2>2. Numbers'
    BY <1>0, <1>1 DEF IInv, Stored, Numbers, Numbered
  <2>3. NoLitter'
    BY <1>0, <1>1 DEF IInv, Stored, NoLitter
  <2> QED BY <2>1, <2>2, <2>3 DEF Stored
<1> QED BY <1>2, <1>4, <1>5, <1>6

LEMMA AdoptKeeps ==
  ASSUME BackupsAssumption, IInv, NEW t \in Threads, Adopt(t)
  PROVE  IInv'
<1> DEFINE b == thread[t].id
<1>0. /\ thread[t].pc = "adopt" /\ thread[t] \in ThreadRow /\ lock = t /\ b \in pending
      /\ file[b] = "whole" \/ b \in lost \cap lostSince
      /\ tmp[b] = "none"
  BY Alone DEF Adopt, At, IInv, Hands, Working, Files
<1>1. UNCHANGED <<text, content, disk, lock, bounds, loss>> /\ Publish(b)
  BY DEF Adopt
<1>2. Types' /\ Stored' /\ Newest' = b /\ pending' = {}
  BY <1>0, <1>1, PublishKeeps
<1> DEFINE x == [thread[t] EXCEPT !.pc = "recover", !.adopted = TRUE]
<1>3. thread' = [thread EXCEPT ![t] = x] /\ thread'[t] = x
  BY DEF Adopt, IInv, Hands
<1>4. x \in ThreadRow /\ x.pc = "recover"
  BY <1>0 DEF ThreadRow, PCs
<1> HIDE DEF x
<1>5. Intact(lostSince)'
  <2>1. b \in Nat /\ b # NoBackup
    BY <1>0, BackupNumber DEF IInv, Types
  <2> QED BY <1>0, <1>1, <1>2, <2>1 DEF Intact, disk, loss
<1>6. Working(thread[t])'
  BY <1>2, <1>3, <1>4, <1>5 DEF Working, Files, Contents, Pruning
<1>7. Hands'
  BY <1>0, <1>1, <1>3, <1>4, <1>6, HandsStep DEF Moved
<1> QED BY <1>2, <1>7 DEF IInv

LEMMA FinishKeeps ==
  ASSUME BackupsAssumption, IInv, NEW t \in Threads, Finish(t)
  PROVE  IInv'
<1> DEFINE b == thread[t].id
<1>0. /\ thread[t].pc = "finish" /\ thread[t] \in ThreadRow /\ lock = t /\ b \in pending
      /\ file[b] = "whole" \/ b \in lost \cap lostSince
      /\ tmp[b] = "none" /\ content[b] = thread[t].seen
  BY Alone DEF Finish, At, IInv, Hands, Working, Files, Contents
<1>1. UNCHANGED <<text, content, disk, lock, bounds, loss>> /\ Publish(b)
  BY DEF Finish
<1>2. Types' /\ Stored' /\ Newest' = b /\ pending' = {}
  BY <1>0, <1>1, PublishKeeps
<1> DEFINE x == [thread[t] EXCEPT !.pc = "prune", !.then = "check"]
<1>3. thread' = [thread EXCEPT ![t] = x] /\ thread'[t] = x
  BY DEF Finish, IInv, Hands
<1>4. x \in ThreadRow /\ x.pc = "prune" /\ x.seen = thread[t].seen
  BY <1>0 DEF ThreadRow, PCs
<1> HIDE DEF x
<1>5. Intact(lostSince)'
  <2>1. b \in Nat /\ b # NoBackup
    BY <1>0, BackupNumber DEF IInv, Types
  <2> QED BY <1>0, <1>1, <1>2, <2>1 DEF Intact, disk, loss
<1>6. Working(thread[t])'
  BY <1>0, <1>1, <1>2, <1>3, <1>4, <1>5 DEF Working, Files, Contents, Pruning
<1>7. Hands'
  BY <1>0, <1>1, <1>3, <1>4, <1>6, HandsStep DEF Moved
<1> QED BY <1>2, <1>7 DEF IInv

LEMMA ForgetKeeps ==
  ASSUME BackupsAssumption, IInv, NEW t \in Threads, Forget(t)
  PROVE  IInv'
<1> DEFINE b == thread[t].id
<1>0. /\ thread[t].pc = "forget" /\ thread[t] \in ThreadRow /\ lock = t /\ b \in pending
      /\ file[b] = "none" /\ tmp[b] = "none"
  BY Alone DEF Forget, At, IInv, Hands, Working, Files
<1>1. UNCHANGED <<text, policy, catalog, content, file, tmp, lock, bounds, lost, lostSince>>
      /\ pending' = pending \ {b} /\ Goto(t, "recover")
  BY DEF Forget, disk, loss
<1>2. Newest' = Newest
  BY <1>1 DEF Newest
<1>3. Types'
  BY <1>1 DEF IInv, Types
<1>4. Stored'
  <2>1. IntentsOK' /\ BadIsLost' /\ NewestRestorable' /\ Numbers'
    BY <1>1, <1>2 DEF IInv, Stored, IntentsOK, Above, BadIsLost, NewestRestorable, Numbers, Numbered
  <2>2. NoLitter'
    BY <1>0, <1>1 DEF IInv, Stored, NoLitter
  <2> QED BY <2>1, <2>2 DEF Stored
<1>5. Moved(t) /\ thread'[t].pc = "recover" /\ Same(thread'[t], thread[t])
  <2>1. "recover" \in PCs
    BY DEF PCs
  <2> QED BY <1>1, <2>1, GotoMoves
<1>6. pending' = {}
  BY <1>0, <1>1 DEF IInv, Stored, IntentsOK
<1>7. ~thread[t].adopted
  BY <1>0 DEF IInv, Hands, Working, Pruning
<1>8. Working(thread[t])'
  BY <1>1, <1>2, <1>5, <1>6, <1>7 DEF Working, Files, Contents, Pruning, Intact, Same
<1>9. Hands'
  BY <1>0, <1>1, <1>5, <1>8, HandsStep
<1> QED BY <1>3, <1>4, <1>9 DEF IInv

LEMMA IntentKeeps ==
  ASSUME BackupsAssumption, IInv, NEW t \in Threads, Intent(t)
  PROVE  IInv'
<1> DEFINE b == thread[t].id
<1>0. /\ thread[t].pc = "intent" /\ thread[t] \in ThreadRow /\ lock = t /\ pending = {}
      /\ b \in Backups /\ file[b] = "none" /\ tmp[b] = "none" /\ Above(b)
      /\ thread[t].seen \in Texts /\ thread[t].seen <= text
      /\ b <= thread[t].seen + bounds.losses + 1
  BY Alone DEF Intent, At, IInv, Hands, Working, Files, Contents, Pruning, ThreadRow
<1>1. /\ UNCHANGED <<text, policy, catalog, file, tmp, lock, bounds, lostSince>>
      /\ pending' = pending \cup {b} /\ content' = [content EXCEPT ![b] = thread[t].seen]
      /\ lost' = lost \ {b} /\ Goto(t, "open")
  BY DEF Intent, disk
<1>2. pending' = {b} /\ Newest' = Newest
  BY <1>0, <1>1 DEF Newest
<1> DEFINE seen == thread[t].seen
<1> HIDE DEF b, seen
<1>3. content'[b] = thread[t].seen /\ \A c \in Backups \ {b} : content'[c] = content[c]
  BY <1>0, <1>1 DEF IInv, Types, seen
<1>4. b \notin catalog
  <2>1. b \in Nat
    BY <1>0, BackupNumber
  <2> QED BY <1>0, <2>1 DEF Above
<1>5. Types'
  BY <1>0, <1>1, <1>2 DEF IInv, Types, seen
<1>6. Stored'
  <2>1. IntentsOK' /\ BadIsLost'
    BY <1>0, <1>1, <1>2 DEF IInv, Stored, IntentsOK, Above, BadIsLost
  <2>2. NewestRestorable'
    <3>1. Newest # b
      BY <1>0, <1>4, NewestFacts, BackupNumber DEF IInv
    <3> QED BY <1>1, <1>2, <3>1 DEF IInv, Stored, NewestRestorable
  <2>3. Numbers'
    BY <1>0, <1>1, <1>2, <1>3, <1>4 DEF IInv, Stored, Numbers, Numbered, Types
  <2>4. NoLitter'
    BY <1>0, <1>1, <1>2 DEF IInv, Stored, NoLitter
  <2> QED BY <2>1, <2>2, <2>3, <2>4 DEF Stored
<1>7. Moved(t) /\ thread'[t].pc = "open" /\ Same(thread'[t], thread[t])
  <2>1. "open" \in PCs
    BY DEF PCs
  <2> QED BY <1>1, <2>1, GotoMoves
<1>8. Working(thread[t])'
  BY <1>0, <1>1, <1>2, <1>3, <1>7 DEF Working, Files, Contents, Pruning, Same, b
<1>9. Hands'
  BY <1>0, <1>1, <1>7, <1>8, HandsStep
<1> QED BY <1>5, <1>6, <1>9 DEF IInv

LEMMA ReplaceKeeps ==
  ASSUME BackupsAssumption, IInv, NEW t \in Threads, Replace(t)
  PROVE  IInv'
<1> DEFINE b == thread[t].id
<1>0. /\ thread[t].pc = "replace" /\ thread[t] \in ThreadRow /\ lock = t /\ b \in pending
      /\ b \in Backups /\ file[b] = "none" /\ tmp[b] = "whole" /\ content[b] = thread[t].seen
  BY Alone DEF Replace, At, IInv, Hands, Working, Files, Contents
<1>1. /\ UNCHANGED <<text, policy, catalog, pending, content, lock, bounds, lost, lostSince>>
      /\ file' = [file EXCEPT ![b] = tmp[b]] /\ tmp' = [tmp EXCEPT ![b] = "none"]
      /\ Goto(t, "finish")
  BY DEF Replace, rows, loss
<1> HIDE DEF b
<1>2. /\ file'[b] = "whole" /\ \A c \in Backups \ {b} : file'[c] = file[c]
      /\ tmp'[b] = "none" /\ \A c \in Backups \ {b} : tmp'[c] = tmp[c]
  BY <1>0, <1>1 DEF IInv, Types
<1>3. Newest' = Newest
  BY <1>1 DEF Newest
<1>4. Types'
  BY <1>0, <1>1 DEF IInv, Types
<1>5. Stored'
  <2>1. IntentsOK' /\ Numbers'
    BY <1>1 DEF IInv, Stored, IntentsOK, Above, Numbers, Numbered
  <2>2. BadIsLost' /\ NoLitter'
    BY <1>0, <1>1, <1>2 DEF IInv, Stored, BadIsLost, NoLitter
  <2>3. NewestRestorable'
    BY <1>1, <1>2, <1>3, NewestFacts DEF IInv, Stored, NewestRestorable
  <2> QED BY <2>1, <2>2, <2>3 DEF Stored
<1>6. Moved(t) /\ thread'[t].pc = "finish" /\ Same(thread'[t], thread[t])
  <2>1. "finish" \in PCs
    BY DEF PCs
  <2> QED BY <1>1, <2>1, GotoMoves
<1>7. Working(thread[t])'
  BY <1>0, <1>1, <1>2, <1>6 DEF Working, Files, Contents, Pruning, Same, b
<1>8. Hands'
  BY <1>0, <1>1, <1>6, <1>7, HandsStep
<1> QED BY <1>4, <1>5, <1>8 DEF IInv

(* What a step of pruning knows. *)
LEMMA Pruned ==
  ASSUME BackupsAssumption, IInv, NEW t \in Threads, thread[t].pc \in {"unlink", "drop"}
  PROVE  /\ thread[t].victims \subseteq catalog \ {Newest}
         /\ Newest \in catalog /\ pending = {} /\ Intact(lostSince)
         /\ thread[t].then = "check" => content[Newest] = thread[t].seen
         /\ thread[t].victims # {} =>
               Max(thread[t].victims) \in thread[t].victims /\ Max(thread[t].victims) \in Backups
<1>1. /\ thread[t].victims \subseteq catalog \ {Newest} /\ pending = {} /\ Intact(lostSince)
      /\ thread[t].then = "check" => content[Newest] = thread[t].seen
  BY DEF IInv, Hands, Working, Pruning, Contents
<1>2. Newest \in catalog
  BY <1>1, NewestFacts DEF IInv, Intact
<1>3. ASSUME thread[t].victims # {} PROVE Max(thread[t].victims) \in thread[t].victims
  <2>1. thread[t].victims \in SUBSET (0..MaxBackups) /\ MaxBackups \in Nat
    BY <1>1 DEF IInv, Types, Backups, BackupsAssumption
  <2> QED BY <1>3, <2>1, MaxOf
<1> QED BY <1>1, <1>2, <1>3 DEF IInv, Types

LEMMA UnlinkKeeps ==
  ASSUME BackupsAssumption, IInv, NEW t \in Threads, Unlink(t)
  PROVE  IInv'
<1> DEFINE S == thread[t].victims
           b == Max(S)
<1>0. /\ thread[t].pc = "unlink" /\ thread[t] \in ThreadRow /\ lock = t
      /\ UNCHANGED <<text, rows, tmp, lock, bounds, loss>>
  BY Alone DEF Unlink, At, IInv, Hands
<1>1. /\ S \subseteq catalog \ {Newest} /\ Newest \in catalog /\ pending = {} /\ Intact(lostSince)
      /\ thread[t].then = "check" => content[Newest] = thread[t].seen
      /\ S # {} => b \in S /\ b \in Backups
  BY <1>0, Pruned
<1>2. CASE S = {}
  <2>1. UNCHANGED disk /\ Goto(t, thread[t].then)
    BY <1>0, <1>2 DEF Unlink, disk
  <2>2. Types' /\ Stored' /\ Newest' = Newest
    BY <1>0, <2>1, Still
  <2>3. thread[t].then \in {"leave", "export", "check"} /\ thread[t].then \in PCs
    BY <1>0 DEF ThreadRow, PCs
  <2>4. Moved(t) /\ thread'[t].pc = thread[t].then /\ Same(thread'[t], thread[t])
    BY <2>1, <2>3, GotoMoves
  <2>5. Working(thread[t])'
    BY <1>0, <1>1, <2>1, <2>2, <2>3, <2>4
       DEF Working, Files, Contents, Pruning, Intact, Same, rows, disk, loss
  <2>6. Hands'
    BY <1>0, <2>3, <2>4, <2>5, HandsStep
  <2> QED BY <2>2, <2>6 DEF IInv
<1>3. CASE S # {}
  <2>1. file' = [file EXCEPT ![b] = "none"] /\ Goto(t, "drop")
    BY <1>3 DEF Unlink
  <2>2. b \in Backups /\ b \in catalog /\ b # Newest
    BY <1>1, <1>3
  <2>3. file'[b] = "none" /\ \A c \in Backups \ {b} : file'[c] = file[c]
    BY <2>1, <2>2 DEF IInv, Types
  <2>4. Newest' = Newest
    BY <1>0 DEF Newest, rows
  <2>5. Types'
    BY <1>0, <2>1 DEF IInv, Types, rows, loss
  <2>6. Stored'
    <3>1. IntentsOK' /\ Numbers' /\ BadIsLost' /\ NoLitter'
      BY <1>0, <2>3 DEF IInv, Stored, IntentsOK, Above, Numbers, Numbered, BadIsLost, NoLitter, rows, loss
    <3>2. NewestRestorable'
      BY <1>0, <2>2, <2>3, <2>4, NewestFacts DEF IInv, Stored, NewestRestorable, loss
    <3> QED BY <3>1, <3>2 DEF Stored
  <2>7. Moved(t) /\ thread'[t].pc = "drop" /\ Same(thread'[t], thread[t])
    <3>1. "drop" \in PCs
      BY DEF PCs
    <3> QED BY <2>1, <3>1, GotoMoves
  <2>8. Intact(lostSince)'
    BY <1>0, <1>1, <2>2, <2>3, <2>4, NewestFacts DEF Intact, IInv, loss
  <2>9. thread'[t].victims = S /\ Max(thread'[t].victims) = b
    BY <2>7 DEF Same
  <2>10. Working(thread[t])'
    <3> HIDE DEF b, S
    <3>1. Pruning(thread[t])'
      BY <1>0, <1>1, <1>3, <2>3, <2>4, <2>7, <2>8, <2>9 DEF Pruning, rows
    <3>2. Files(thread[t])'
      BY <2>7 DEF Files
    <3>3. Contents(thread[t])'
      BY <1>0, <1>1, <2>4, <2>7 DEF Contents, Same, rows
    <3> QED BY <3>1, <3>2, <3>3 DEF Working
  <2>11. Hands'
    BY <1>0, <2>7, <2>10, HandsStep
  <2> QED BY <2>5, <2>6, <2>11 DEF IInv
<1> QED BY <1>2, <1>3

LEMMA DropKeeps ==
  ASSUME BackupsAssumption, IInv, NEW t \in Threads, Drop(t)
  PROVE  IInv'
<1> DEFINE S == thread[t].victims
           b == Max(S)
<1>0. /\ thread[t].pc = "drop" /\ thread[t] \in ThreadRow /\ lock = t
      /\ UNCHANGED <<text, policy, pending, content, file, tmp, lock, bounds, lost, lostSince>>
      /\ catalog' = catalog \ {b}
      /\ S # {} /\ file[b] = "none"
  BY Alone DEF Drop, At, IInv, Hands, Working, Pruning, disk, loss
<1>1. /\ S \subseteq catalog \ {Newest} /\ Newest \in catalog /\ pending = {} /\ Intact(lostSince)
      /\ thread[t].then = "check" => content[Newest] = thread[t].seen
      /\ b \in S /\ b \in Backups
  BY <1>0, Pruned
<1>2. catalog' \in SUBSET Backups /\ Newest \in catalog' /\ \A c \in catalog' : c <= Newest
  BY <1>0, <1>1, NewestFacts DEF IInv, Types
<1>3. Newest' = Newest
  BY <1>2, NewestIs
<1>4. Types'
  BY <1>0, <1>2 DEF IInv, Types
<1>5. Stored'
  <2> HIDE DEF b
  <2>1. IntentsOK' /\ Numbers' /\ BadIsLost' /\ NewestRestorable'
    BY <1>0, <1>1, <1>3 DEF IInv, Stored, IntentsOK, Numbers, Numbered, BadIsLost, NewestRestorable
  <2>2. NoLitter'
    BY <1>0, <1>1 DEF IInv, Stored, NoLitter
  <2> QED BY <2>1, <2>2 DEF Stored
<1> DEFINE x == [thread[t] EXCEPT !.victims = @ \ {b}, !.pc = "unlink"]
<1>6. thread' = [thread EXCEPT ![t] = x] /\ thread'[t] = x
  BY DEF Drop, IInv, Hands
<1>7. x \in ThreadRow /\ x.pc = "unlink" /\ x.victims = S \ {b} /\ x.then = thread[t].then
      /\ x.seen = thread[t].seen
  <2> HIDE DEF b
  <2>1. "unlink" \in PCs
    BY DEF PCs
  <2> QED BY <1>0, <2>1 DEF ThreadRow
<1> HIDE DEF x, b
<1>8. thread'[t].victims \subseteq catalog' \ {Newest'}
  BY <1>0, <1>1, <1>3, <1>6, <1>7
<1>9. Working(thread[t])'
  BY <1>0, <1>1, <1>3, <1>6, <1>7, <1>8 DEF Working, Files, Contents, Pruning, Intact
<1>10. Hands'
  BY <1>0, <1>6, <1>7, <1>9, HandsStep DEF Moved
<1> QED BY <1>4, <1>5, <1>10 DEF IInv


-----------------------------------------------------------------------------
(* The exits, and the steps of everybody else.                              *)

(* At these positions nothing is owed. *)
LEMMA Owes ==
  ASSUME NEW x, x.pc \in {"idle", "error", "leave"}
  PROVE  Working(x)
  BY DEF Working, Files, Contents, Pruning

(* A step that only changes the policy: Check and RecordError. *)
LEMMA PolicyStepKeeps ==
  ASSUME BackupsAssumption, IInv, NEW t \in Threads, Check(t) \/ RecordError(t)
  PROVE  IInv'
<1>0. thread[t].pc # "idle" /\ lock = t
  BY Alone DEF Check, RecordError, At
<1>1. /\ UNCHANGED <<text, catalog, pending, content, file, tmp, lock, bounds, lost, lostSince>>
      /\ policy' \in [revision : Nat, enabled : BOOLEAN, retention : Retentions, error : BOOLEAN]
      /\ Goto(t, "leave")
  BY DEF Check, RecordError, disk, loss, IInv, Types
<1>2. Newest' = Newest
  BY <1>1 DEF Newest
<1>3. Types' /\ Stored'
  BY <1>1, <1>2 DEF IInv, Types, Stored, IntentsOK, Above, Numbers, Numbered, BadIsLost, NoLitter,
     NewestRestorable
<1>4. "leave" \in PCs
  BY DEF PCs
<1>5. Moved(t) /\ thread'[t].pc = "leave"
  BY <1>1, <1>4, GotoMoves
<1>6. Working(thread[t])'
  BY <1>5 DEF Working, Files, Contents, Pruning
<1>7. Hands'
  BY <1>0, <1>1, <1>5, <1>6, HandsStep
<1> QED BY <1>3, <1>7 DEF IInv

(* A thread that gives the lock back. *)
LEMMA QuietKeeps ==
  ASSUME BackupsAssumption, IInv, NEW t \in Threads, thread[t].pc # "idle",
         thread' = [thread EXCEPT ![t] = Quiet], lock' = Free
  PROVE  Hands'
<1>1. Quiet \in ThreadRow /\ Quiet.pc = "idle"
  BY QuietRow
<1>2. Moved(t) /\ thread'[t] = Quiet
  BY <1>1 DEF Moved, IInv, Hands
<1>3. Working(thread[t])'
  BY <1>1, <1>2 DEF Working, Files, Contents, Pruning
<1> QED BY <1>1, <1>2, <1>3, HandsStep

LEMMA LeaveKeeps ==
  ASSUME BackupsAssumption, IInv, NEW t \in Threads, Leave(t)
  PROVE  IInv'
<1>0. thread[t].pc = "leave"
  BY DEF Leave, At
<1>1. /\ UNCHANGED <<text, rows, file, bounds, loss>>
      /\ lock' = Free /\ thread' = [thread EXCEPT ![t] = Quiet]
  BY DEF Leave
<1>2. Types' /\ Stored'
  <2>1. CASE OwnTemporary(t) /\ thread[t].id \in Backups
    <3>1. tmp' = [tmp EXCEPT ![thread[t].id] = "none"]
      BY <2>1 DEF Leave
    <3> QED BY <1>1, <2>1, <3>1, TmpChanges
  <2>2. CASE ~(OwnTemporary(t) /\ thread[t].id \in Backups)
    <3>1. tmp' = tmp
      <4>1. CASE OwnTemporary(t)
        <5>1. tmp' = [tmp EXCEPT ![thread[t].id] = "none"] /\ thread[t].id \notin DOMAIN tmp
          BY <2>2, <4>1 DEF Leave, IInv, Types
        <5> QED BY <5>1 DEF IInv, Types
      <4>2. CASE ~OwnTemporary(t)
        BY <4>2 DEF Leave
      <4> QED BY <4>1, <4>2
    <3> QED BY <1>1, <3>1, Still DEF disk
  <2> QED BY <2>1, <2>2
<1>3. Hands'
  BY <1>0, <1>1, QuietKeeps
<1> QED BY <1>2, <1>3 DEF IInv

(* Counters of the bounds other than the losses. *)
LEMMA Counted ==
  ASSUME IInv, UNCHANGED <<text, rows, disk, loss>>,
         \/ bounds' = [bounds EXCEPT !.faults = @ + 1]
         \/ bounds' = [bounds EXCEPT !.crashes = @ + 1]
  PROVE  Types' /\ Stored' /\ Newest' = Newest
<1> USE DEF rows, disk, loss
<1>1. /\ bounds' \in [requests : Nat, losses : 0..MaxLosses, crashes : Nat, faults : Nat]
      /\ bounds'.losses = bounds.losses
  BY DEF IInv, Types
<1>2. Newest' = Newest
  BY DEF Newest
<1>3. Types'
  BY <1>1 DEF IInv, Types
<1>4. Stored'
  BY <1>1, <1>2 DEF IInv, Stored, IntentsOK, Above, Numbers, Numbered, BadIsLost, NoLitter,
     NewestRestorable
<1> QED BY <1>2, <1>3, <1>4

LEMMA FailKeeps ==
  ASSUME BackupsAssumption, IInv, NEW t \in Threads, Fail(t)
  PROVE  IInv'
<1>1. Types' /\ Stored'
  BY Counted DEF Fail
<1>2. CASE \E pc \in {"error", "leave"} : Goto(t, pc) /\ thread[t].pc # "idle" /\ lock' = lock
  <2>1. PICK pc \in {"error", "leave"} : Goto(t, pc) /\ thread[t].pc # "idle" /\ lock' = lock
    BY <1>2
  <2>2. pc \in PCs
    BY DEF PCs
  <2>3. Moved(t) /\ thread'[t].pc = pc
    BY <2>1, <2>2, GotoMoves
  <2>4. Working(thread[t])'
    BY <2>3 DEF Working, Files, Contents, Pruning
  <2>5. lock = t
    BY <2>1, Alone
  <2>6. Hands'
    BY <2>1, <2>3, <2>4, <2>5, HandsStep
  <2> QED BY <1>1, <2>6 DEF IInv
<1>3. CASE At(t, "leave") /\ lock' = Free /\ thread' = [thread EXCEPT ![t] = Quiet]
  BY <1>1, <1>3, QuietKeeps DEF At, IInv
<1> QED BY <1>2, <1>3 DEF Fail, At

LEMMA CrashKeeps ==
  ASSUME BackupsAssumption, IInv, Crash
  PROVE  IInv'
<1>1. Types' /\ Stored'
  BY Counted DEF Crash
<1>2. Quiet \in ThreadRow /\ Quiet.pc = "idle"
  BY QuietRow
<1>3. lock' = Free /\ thread' = [t \in Threads |-> Quiet]
  BY DEF Crash
<1>4. \A t \in Threads : Working(thread[t])'
  BY <1>2, <1>3 DEF Working, Files, Contents, Pruning
<1>5. Hands'
  BY <1>2, <1>3, <1>4 DEF Hands, OneAtATime
<1> QED BY <1>1, <1>5 DEF IInv

LEMMA EditKeeps ==
  ASSUME BackupsAssumption, IInv, Edit
  PROVE  IInv'
<1> USE DEF rows, disk, loss
<1>1. /\ UNCHANGED <<rows, disk, lock, thread, bounds, loss>>
      /\ text \in Nat /\ text' = text + 1 /\ text' \in Texts
  BY DEF Edit, IInv, Types, Texts, BackupsAssumption
<1>2. Newest' = Newest
  BY <1>1 DEF Newest
<1>3. Types'
  BY <1>1 DEF IInv, Types
<1>4. Stored'
  <2>1. Numbers'
    BY <1>1, <1>3 DEF IInv, Stored, Numbers, Numbered, Types, Texts
  <2> QED BY <1>1, <1>2, <2>1 DEF IInv, Stored, IntentsOK, Above, BadIsLost, NoLitter, NewestRestorable
<1>5. Hands'
  <2> SUFFICES ASSUME NEW t \in Threads PROVE Working(thread[t])'
    BY <1>1 DEF IInv, Hands, OneAtATime
  <2>1. Files(thread[t])' /\ Pruning(thread[t])'
    BY <1>1, <1>2 DEF IInv, Hands, Working, Files, Pruning, Intact
  <2>2. Contents(thread[t])'
    <3>1. thread[t].seen \in Nat
      BY DEF IInv, Hands, ThreadRow, Texts
    <3> QED BY <1>1, <1>2, <3>1 DEF IInv, Hands, Working, Contents, Above
  <2> QED BY <2>1, <2>2 DEF Working
<1> QED BY <1>3, <1>4, <1>5 DEF IInv

LEMMA ConfigureKeeps ==
  ASSUME BackupsAssumption, IInv, NEW expected, Configure(expected)
  PROVE  IInv'
<1>1. /\ UNCHANGED <<text, catalog, pending, content, file, tmp, lock, thread, bounds, lost, lostSince>>
      /\ policy' \in [revision : Nat, enabled : BOOLEAN, retention : Retentions, error : BOOLEAN]
  <2>1. PICK enabled \in BOOLEAN, retention \in Retentions :
           policy' = [policy EXCEPT !.revision = @ + 1, !.enabled = enabled, !.retention = retention]
    BY DEF Configure
  <2>2. policy \in [revision : Nat, enabled : BOOLEAN, retention : Retentions, error : BOOLEAN]
    BY DEF IInv, Types
  <2>3. policy' \in [revision : Nat, enabled : BOOLEAN, retention : Retentions, error : BOOLEAN]
    <3>1. policy.revision + 1 \in Nat
      BY <2>2
    <3>2. policy' = [revision |-> policy.revision + 1, enabled |-> enabled, retention |-> retention,
                     error |-> policy.error]
      BY <2>1, <2>2
    <3> QED BY <2>2, <3>1, <3>2
  <2> QED BY <2>3 DEF Configure, disk, loss
<1>2. Newest' = Newest
  BY <1>1 DEF Newest
<1>3. Types' /\ Stored'
  BY <1>1, <1>2 DEF IInv, Types, Stored, IntentsOK, Above, Numbers, Numbered, BadIsLost, NoLitter,
     NewestRestorable
<1>4. Hands'
  BY <1>1, <1>2 DEF IInv, Hands, OneAtATime, Working, Files, Contents, Pruning, Intact, Above
<1> QED BY <1>3, <1>4 DEF IInv

LEMMA LoseKeeps ==
  ASSUME BackupsAssumption, IInv, NEW b \in Backups, Lose(b)
  PROVE  IInv'
<1>1. PICK state \in {"none", "bad"} : file' = [file EXCEPT ![b] = state]
  BY DEF Lose
<1>2. /\ UNCHANGED <<text, policy, catalog, pending, content, tmp, lock, thread>>
      /\ lost' = lost \cup {b} /\ lostSince' = lostSince \cup {b} /\ file[b] = "whole"
  BY DEF Lose, rows
<1>3. /\ bounds' \in [requests : Nat, losses : 0..MaxLosses, crashes : Nat, faults : Nat]
      /\ bounds'.losses = bounds.losses + 1 /\ bounds.losses \in Nat
  BY DEF Lose, IInv, Types, BackupsAssumption
<1>4. file'[b] = state /\ \A c \in Backups \ {b} : file'[c] = file[c]
  BY <1>1 DEF IInv, Types
<1>5. Newest' = Newest
  BY <1>2 DEF Newest
<1>6. Types'
  BY <1>1, <1>2, <1>3 DEF IInv, Types
<1>7. Stored'
  <2>1. IntentsOK' /\ BadIsLost' /\ NoLitter'
    BY <1>2, <1>4 DEF IInv, Stored, IntentsOK, Above, BadIsLost, NoLitter
  <2>2. NewestRestorable'
    BY <1>2, <1>4, <1>5, NewestFacts DEF IInv, Stored, NewestRestorable
  <2>3. Numbers'
    <3> SUFFICES ASSUME NEW c \in catalog \cup pending PROVE Numbered(c)'
      BY <1>2 DEF Numbers
    <3>1. c \in Nat /\ content[c] \in Nat /\ text \in Nat /\ Numbered(c)
      BY BackupNumber DEF IInv, Types, Texts, Stored, Numbers
    <3> QED BY <1>2, <1>3, <3>1 DEF Numbered
  <2> QED BY <2>1, <2>2, <2>3 DEF Stored
<1>8. Intact(lostSince) => Intact(lostSince)'
  BY <1>2, <1>4, <1>5, NewestFacts DEF IInv, Intact
<1>9. Hands'
  <2> SUFFICES ASSUME NEW t \in Threads PROVE Working(thread[t])'
    BY <1>2 DEF IInv, Hands, OneAtATime
  <2>1. Files(thread[t])'
    BY <1>2, <1>4 DEF IInv, Hands, Working, Files, Types
  <2>2. Contents(thread[t])'
    <3>1. thread[t].seen \in Nat /\ thread[t].id \in Nat
      BY DEF IInv, Hands, ThreadRow, Texts
    <3> QED BY <1>2, <1>3, <1>5, <3>1 DEF IInv, Hands, Working, Contents, Above
  <2>3. Pruning(thread[t])'
    <3>1. ASSUME thread[t].pc = "drop"
          PROVE  file'[Max(thread[t].victims)] = "none"
      <4>1. Max(thread[t].victims) \in Backups /\ file[Max(thread[t].victims)] = "none"
        BY <3>1, Pruned DEF IInv, Hands, Working, Pruning
      <4> QED BY <1>2, <1>4, <4>1
    <3> DEFINE m == Max(thread[t].victims)
    <3>2. m = Max(thread[t].victims)
      OBVIOUS
    <3> HIDE DEF m
    <3> QED BY <1>2, <1>5, <1>8, <3>1, <3>2 DEF IInv, Hands, Working, Pruning
  <2> QED BY <2>1, <2>2, <2>3 DEF Working
<1> QED BY <1>6, <1>7, <1>9 DEF IInv

LEMMA StepKeeps ==
  ASSUME BackupsAssumption, IInv, NEW t \in Threads, Step(t)
  PROVE  IInv'
  BY RecoverKeeps, TmpStepKeeps, AdoptKeeps, ForgetKeeps, ExportKeeps, CompareKeeps, IntentKeeps,
     ReplaceKeeps, FinishKeeps, PruneKeeps, UnlinkKeeps, DropKeeps, PolicyStepKeeps, LeaveKeeps
     DEF Step

LEMMA NextKeeps == ASSUME BackupsAssumption, IInv, [Next]_vars PROVE IInv'
<1>1. ASSUME NEW t \in Threads, Request(t) PROVE IInv'
  BY <1>1, EnterKeeps DEF Request
<1>2. CASE Tick
  <2>1. Scheduler \in Threads /\ TRUE \in BOOLEAN
    BY DEF BackupsAssumption
  <2> QED BY <1>2, <2>1, EnterKeeps DEF Tick
<1>3. CASE UNCHANGED vars
  <2>1. Types' /\ Stored' /\ Newest' = Newest
    BY <1>3, Still DEF vars
  <2>2. Hands'
    BY <1>3, <2>1 DEF vars, rows, disk, loss, IInv, Hands, OneAtATime, Working, Files, Contents,
       Pruning, Intact, Above
  <2> QED BY <2>1, <2>2 DEF IInv
<1> QED BY <1>1, <1>2, <1>3, StepKeeps, FailKeeps, EditKeeps, CrashKeeps, ConfigureKeeps, LoseKeeps
        DEF Next

-----------------------------------------------------------------------------
(* Theorems                                                                 *)

(* The inductive invariant holds: whoever holds run_lock is alone, at most *)
(* one intent is open and it is newer than every row, and at each position *)
(* of run() and report() the files of its backup are as the code assumes.  *)
THEOREM Safe == Spec => []IInv
<1>1. Init => IInv
  BY InitIInv, BackupsAssumption
<1>2. IInv /\ [Next]_vars => IInv'
  BY NextKeeps, BackupsAssumption
<1> QED BY <1>1, <1>2, PTL DEF Spec

(* No archive or temporary file is left that neither a row nor an intent   *)
(* names, after any mixture of failures and process deaths (run, _prune).  *)
THEOREM LeavesNoLitter == Spec => []NoLitter
<1>1. IInv => NoLitter
  BY DEF IInv, Stored
<1> QED BY <1>1, Safe, PTL

(* The archive of the newest row is whole unless it was lost from outside  *)
(* (_finish_pending comes after the rename, _prune spares the newest row). *)
THEOREM KeepsNewestRestorable == Spec => []NewestRestorable
<1>1. IInv => NewestRestorable
  BY DEF IInv, Stored
<1> QED BY <1>1, Safe, PTL

(* A run that reports success has what it exported in the newest archive,  *)
(* "unchanged" included: run() reads the archive back, not only its row.   *)
THEOREM SuccessIsProtected == Spec => []SuccessProtects
<1>1. IInv => SuccessProtects
  BY DEF IInv, Hands, Working, Contents, Pruning, Intact, SuccessProtects, At
<1> QED BY <1>1, Safe, PTL

(* _prune removes an intact archive only while the newest one was found or *)
(* made intact under the same lock, and never the newest one.              *)
THEOREM KeepsLastGood == Spec => LastGoodKept
<1> DEFINE Removed(b) == file[b] = "whole" /\ file'[b] = "none" /\ bounds'.losses = bounds.losses
           Good(b) == b # Newest /\ (file[Newest] = "whole" \/ Newest \in lostSince)
<1>1. ASSUME IInv, [Next]_vars, NEW b \in Backups, Removed(b)
      PROVE  Good(b)
  <2> USE <1>1
  <2>1. file' # file
    OBVIOUS
  <2>2. ASSUME NEW t \in Threads, Replace(t) PROVE FALSE
    <3>1. /\ thread[t].id \in Backups /\ file[thread[t].id] = "none" /\ tmp[thread[t].id] = "whole"
      BY <2>2 DEF Replace, At, IInv, Hands, Working, Files
    <3>2. file' = [file EXCEPT ![thread[t].id] = "whole"]
      BY <2>2, <3>1 DEF Replace
    <3> QED BY <3>1, <3>2 DEF IInv, Types
  <2>3. ASSUME NEW t \in Threads, Unlink(t) PROVE Good(b)
    <3> DEFINE m == Max(thread[t].victims)
    <3>1. /\ thread[t].victims \subseteq catalog \ {Newest} /\ Intact(lostSince)
          /\ thread[t].victims # {} => m \in thread[t].victims
      BY <2>3, Pruned, BackupsAssumption DEF Unlink, At
    <3>2. thread[t].victims # {} /\ file' = [file EXCEPT ![m] = "none"]
      BY <2>1, <2>3 DEF Unlink
    <3>3. b = m
      BY <3>2 DEF IInv, Types
    <3> QED BY <3>1, <3>2, <3>3 DEF Intact
  <2>4. ASSUME NEW c \in Backups, Lose(c) PROVE FALSE
    <3>1. bounds' = [bounds EXCEPT !.losses = @ + 1] /\ bounds.losses \in Nat
      BY <2>4 DEF Lose, IInv, Types
    <3>2. bounds'.losses = bounds.losses + 1
      BY <3>1 DEF IInv, Types
    <3> QED BY <3>1, <3>2
  <2>5. ASSUME NEW t \in Threads, Step(t), ~Replace(t), ~Unlink(t) PROVE file' = file
    BY <2>5 DEF Step, Recover, Tidy, Adopt, Discard, Forget, Export, Compare, Intent, Open, Write,
       Finish, Prune, Drop, Check, RecordError, Leave, disk
  <2>6. ASSUME NEW t \in Threads, Fail(t) \/ Request(t) PROVE file' = file
    BY <2>6 DEF Fail, Request, Enter, disk
  <2>7. ASSUME Tick \/ Edit \/ Crash \/ UNCHANGED vars \/ \E e \in 0..policy.revision : Configure(e)
        PROVE  file' = file
    BY <2>7 DEF Tick, Enter, Edit, Crash, Configure, vars, disk
  <2> QED BY <2>1, <2>2, <2>3, <2>4, <2>5, <2>6, <2>7 DEF Next
<1>2. IInv /\ [Next]_vars =>
        [\A b \in Backups :
            file[b] = "whole" /\ file'[b] = "none" /\ bounds'.losses = bounds.losses
            => b # Newest /\ (file[Newest] = "whole" \/ Newest \in lostSince)]_vars
  BY <1>1
<1> HIDE DEF Removed, Good
<1> QED BY <1>2, Safe, PTL DEF Spec, LastGoodKept
=============================================================================
