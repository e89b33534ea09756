------------------------- MODULE PowerRestoreProofs -------------------------
(***************************************************************************)
(* Proofs about the power cycle and its journal, for any number of cycles, *)
(* switches, restarts, crashes and refused requests.                       *)
(***************************************************************************)
EXTENDS PowerRestore, TLAPS

-----------------------------------------------------------------------------
(***************************************************************************)
(* The inductive invariant.                                                *)
(***************************************************************************)

Preflight == {"journal", "recheck", "setOff"}

\* What the journal on disk, the transaction in memory and the worker say
\* about each other; only a foreign journal names unit 0.
JournalKept ==
    /\ unit # 0 /\ (tx # None => tx.unit # 0)
    /\ disk # None => disk = Foreign \/ disk.unit # 0
    /\ held => disk # None /\ disk.unit = tx.unit
    /\ stale => disk = Foreign /\ ~held /\ pc = "idle"
    /\ up /\ disk # None => held \/ stale
    /\ ~up => pc = "idle" /\ tx = None /\ ~held /\ ~stale /\ ~moved /\ signals = <<>>
    /\ pc # "idle" => tx # None
    /\ pc \notin {"idle", "journal"} => tx.completed \/ held
    /\ pc = "journal" => ~held

\* A choice is made while nothing is to be restored; one made before the journal
\* is written is found out by the recheck.
ChoiceKept ==
    /\ offBy = "choice" => (RestorePending => pc = "recheck") /\ (up \/ disk = None)
    /\ UserChoiceStands

\* Signal x is yet to be dispatched.
Queued(s, x) == \E i \in DOMAIN s : s[i] = x

\* Units only grow, and a unit that has moved on is not the transaction's.
UnitsGrow ==
    /\ disk # None => disk.unit <= unit
    /\ tx # None => tx.unit <= unit
    /\ tx # None /\ (moved \/ Queued(signals, "moved")) => tx.unit # unit

\* What BlueZ is doing, and who asked for it.
JobKnown ==
    /\ job # None => state = "busy"
    /\ pc \in Preflight \cup {"setOn"} => job = None
    /\ pc \in {"waitOn"} => job # "off"
    /\ pc \in Preflight => offBy # "us"
    /\ state = "blocked" => offBy # "us"

\* The radio is off on our account, or about to be.
Owed == offBy = "us" \/ job = "off"

\* While it is, the transaction is open and no earlier "on" is left to close it.
OwedHeld ==
    /\ Owed => disk # None /\ disk.unit = unit /\ ~Queued(signals, "on")
    /\ Owed /\ up => RestorePending
    /\ pc \in Preflight => ~tx.completed /\ ~Queued(signals, "on")
    /\ pc = "waitOn" /\ reply = "ok" => ~Owed

PowerInv == TypeOK /\ JournalKept /\ ChoiceKept
RestoreInv == PowerInv /\ UnitsGrow /\ JobKnown /\ OwedHeld

-----------------------------------------------------------------------------
(***************************************************************************)
(* The journal and the user's choice, whoever switches the radio when.     *)
(***************************************************************************)

\* What completing a transaction leaves.
LEMMA CompletedTransaction ==
    ASSUME Completes, TypeOK, tx # None
    PROVE  /\ tx' \in [unit : Nat, sawOff : BOOLEAN, completed : BOOLEAN] /\ tx' # None
           /\ tx'.unit = tx.unit /\ tx'.sawOff = tx.sawOff /\ tx'.completed
           /\ \/ UNCHANGED <<disk, held, stale>>
              \/ disk' = None /\ held' = FALSE /\ stale' = FALSE
<1> USE NoneAssumption DEF Completes, CompleteRestore, CleanupJournal, TypeOK, JournalTyped
<1>1. tx' = [tx EXCEPT !.completed = TRUE]
  OBVIOUS
<1>2. tx' \in [unit : Nat, sawOff : BOOLEAN, completed : BOOLEAN]
  BY <1>1
<1>3. \/ UNCHANGED <<disk, held, stale>>
      \/ disk' = None /\ held' = FALSE /\ stale' = FALSE
  OBVIOUS
<1> QED
  BY <1>1, <1>2, <1>3

\* What the next daemon makes of a journal.
LEMMA TransactionType ==
    ASSUME NEW u \in Nat, NEW saw \in BOOLEAN, NEW done \in BOOLEAN
    PROVE  [unit |-> u, sawOff |-> saw, completed |-> done]
              \in [unit : Nat, sawOff : BOOLEAN, completed : BOOLEAN]
OBVIOUS

LEMMA PowerInit == Init => PowerInv
<1> SUFFICES ASSUME Init PROVE PowerInv
  OBVIOUS
<1>1. RadioTyped
  <2>1. signals \in Seq({"on", "off", "moved"})
    BY DEF Init
  <2>2. (offBy = None) = powered
    BY DEF Init
  <2> QED
    BY <2>1, <2>2, NoneAssumption DEF Init, RadioTyped
<1>2. JournalTyped /\ DaemonTyped
  <2>1. Foreign \in [unit : Nat, phase : {"off", "on"}]
    BY DEF Foreign
  <2>2. JournalTyped
    BY <2>1 DEF Init, JournalTyped
  <2>3. DaemonTyped
    BY DEF Init, DaemonTyped
  <2> QED
    BY <2>2, <2>3
<1>3. JournalKept
  <2>1. CASE disk = None
    BY <1>1, <1>2, <2>1 DEF Init, RadioTyped, JournalTyped, DaemonTyped, JournalKept
  <2>2. CASE disk = Foreign
    <3>1. unit = 1 /\ tx = None /\ ~held /\ pc = "idle" /\ up
      BY DEF Init
    <3>2. disk # None => stale
      BY DEF Init
    <3> QED
      BY <2>2, <3>1, <3>2 DEF JournalKept
  <2> QED
    BY <2>1, <2>2 DEF Init
<1>4. ChoiceKept
  BY NoneAssumption DEF Init, ChoiceKept, UserChoiceStands
<1> QED
  BY <1>1, <1>2, <1>3, <1>4 DEF PowerInv, TypeOK

LEMMA PowerStep == PowerInv /\ [Next]_vars => PowerInv'
<1> SUFFICES ASSUME PowerInv, [Next]_vars PROVE PowerInv'
  OBVIOUS
<1> USE NoneAssumption DEF PowerInv, TypeOK, radioVars, memoryVars
<1>1. CASE Snapshot
  <2>1. RadioTyped'
    BY <1>1 DEF Snapshot, RestorePending, RadioTyped
  <2>2. JournalTyped' /\ DaemonTyped'
    <3> USE <1>1 DEF Snapshot, RadioTyped, JournalTyped, DaemonTyped
    <3>1. tx' \in [unit : Nat, sawOff : BOOLEAN, completed : BOOLEAN]
      OBVIOUS
    <3>2. tx' # None
      BY <3>1
    <3>3. cycles' \in Nat
      OBVIOUS
    <3>4. DaemonTyped'
      BY <3>3
    <3> QED
      BY <3>1, <3>2, <3>4
  <2>3. JournalKept'
    <3> USE <1>1 DEF Snapshot, JournalTyped, DaemonTyped, JournalKept, RestorePending, CleanupPending
    <3>1. tx' \in [unit : Nat, sawOff : BOOLEAN, completed : BOOLEAN]
      BY DEF RadioTyped
    <3>2. tx' # None /\ tx'.unit # 0 /\ disk = None /\ ~held /\ ~stale
      BY <3>1
    <3> QED
      BY <3>1, <3>2
  <2>4. ChoiceKept'
    BY <1>1 DEF Snapshot, RestorePending, CleanupPending, RadioTyped, JournalTyped, DaemonTyped, JournalKept, ChoiceKept, UserChoiceStands
  <2> QED
    BY <2>1, <2>2, <2>3, <2>4
<1>2. CASE RecheckPasses
  <2>1. RadioTyped'
    BY <1>2 DEF RecheckPasses, Unchanged, RadioTyped
  <2>2. JournalTyped' /\ DaemonTyped'
    BY <1>2 DEF RecheckPasses, Unchanged, JournalTyped, DaemonTyped, JournalKept
  <2>3. JournalKept'
    BY <1>2 DEF RecheckPasses, Unchanged, RadioTyped, JournalTyped, DaemonTyped, JournalKept
  <2>4. ChoiceKept'
    BY <1>2 DEF RecheckPasses, Unchanged, RestorePending, RadioTyped, JournalTyped, DaemonTyped, JournalKept, ChoiceKept, UserChoiceStands
  <2> QED
    BY <2>1, <2>2, <2>3, <2>4
<1>3. CASE RecheckFails
  <2>0. tx # None /\ Completes
    BY <1>3 DEF RecheckFails, JournalKept
  <2>1. RadioTyped'
    BY <1>3 DEF RecheckFails, RadioTyped
  <2>2. JournalTyped' /\ DaemonTyped'
    BY CompletedTransaction, <2>0, <1>3 DEF RecheckFails, JournalTyped, DaemonTyped, JournalKept
  <2>3. JournalKept'
    BY CompletedTransaction, <2>0, <1>3 DEF RecheckFails, RadioTyped, JournalTyped, DaemonTyped, JournalKept
  <2>4. ChoiceKept'
    BY CompletedTransaction, <2>0, <1>3 DEF RecheckFails, RestorePending, RadioTyped, JournalTyped, DaemonTyped, JournalKept, ChoiceKept, UserChoiceStands
  <2> QED
    BY <2>1, <2>2, <2>3, <2>4
<1>4. CASE SetOff
  <2>1. RadioTyped'
    BY <1>4 DEF SetOff, Request, RadioTyped
  <2>2. JournalTyped' /\ DaemonTyped'
    BY <1>4 DEF SetOff, Request, JournalTyped, DaemonTyped, JournalKept
  <2>3. JournalKept'
    BY <1>4 DEF SetOff, Request, RadioTyped, JournalTyped, DaemonTyped, JournalKept
  <2>4. ChoiceKept'
    BY <1>4 DEF SetOff, Request, RestorePending, RadioTyped, JournalTyped, DaemonTyped, JournalKept, ChoiceKept, UserChoiceStands
  <2> QED
    BY <2>1, <2>2, <2>3, <2>4
<1>5. CASE SetOffReturns
  <2>1. RadioTyped'
    BY <1>5 DEF SetOffReturns, RadioTyped
  <2>2. JournalTyped' /\ DaemonTyped'
    BY <1>5 DEF SetOffReturns, JournalTyped, DaemonTyped, JournalKept
  <2>3. JournalKept'
    BY <1>5 DEF SetOffReturns, RadioTyped, JournalTyped, DaemonTyped, JournalKept
  <2>4. ChoiceKept'
    BY <1>5 DEF SetOffReturns, RestorePending, RadioTyped, JournalTyped, DaemonTyped, JournalKept, ChoiceKept, UserChoiceStands
  <2> QED
    BY <2>1, <2>2, <2>3, <2>4
<1>6. CASE ReadCompletes
  <2>0. tx # None /\ Completes
    BY <1>6 DEF ReadCompletes, JournalKept
  <2>1. RadioTyped'
    BY <1>6 DEF ReadCompletes, Superseded, RadioTyped
  <2>2. JournalTyped' /\ DaemonTyped'
    BY CompletedTransaction, <2>0, <1>6 DEF ReadCompletes, Superseded, JournalTyped, DaemonTyped, JournalKept
  <2>3. JournalKept'
    <3>1. tx' # None /\ tx'.unit = tx.unit /\ pc' = "idle" /\ ~stale /\ unit' = unit /\ up'
      BY <1>6, <2>0, CompletedTransaction DEF ReadCompletes, JournalKept, DaemonTyped
    <3>2. CASE UNCHANGED <<disk, held, stale>>
      BY <2>0, <2>1, <2>2, <3>1, <3>2 DEF RadioTyped, JournalTyped, DaemonTyped, JournalKept
    <3>3. CASE disk' = None /\ held' = FALSE /\ stale' = FALSE
      BY <2>0, <2>1, <2>2, <3>1, <3>3 DEF RadioTyped, JournalTyped, DaemonTyped, JournalKept
    <3> QED
      BY <2>0, <3>2, <3>3, CompletedTransaction
  <2>4. ChoiceKept'
    BY CompletedTransaction, <2>0, <1>6 DEF ReadCompletes, Superseded, RestorePending, RadioTyped, JournalTyped, DaemonTyped, JournalKept, ChoiceKept, UserChoiceStands
  <2> QED
    BY <2>1, <2>2, <2>3, <2>4
<1>7. CASE ReadInconclusive
  <2>1. RadioTyped'
    BY <1>7 DEF ReadInconclusive, Disturb, Superseded, RadioTyped
  <2>2. JournalTyped' /\ DaemonTyped'
    BY <1>7 DEF ReadInconclusive, Disturb, Superseded, JournalTyped, DaemonTyped, JournalKept
  <2>3. JournalKept'
    BY <1>7 DEF ReadInconclusive, Disturb, Superseded, RadioTyped, JournalTyped, DaemonTyped, JournalKept
  <2>4. ChoiceKept'
    BY <1>7 DEF ReadInconclusive, Disturb, Superseded, RestorePending, RadioTyped, JournalTyped, DaemonTyped, JournalKept, ChoiceKept, UserChoiceStands
  <2> QED
    BY <2>1, <2>2, <2>3, <2>4
<1>8. CASE ReadOff
  <2>1. RadioTyped'
    BY <1>8 DEF ReadOff, Superseded, RadioTyped
  <2>2. JournalTyped' /\ DaemonTyped'
    BY <1>8 DEF ReadOff, Superseded, JournalTyped, DaemonTyped, JournalKept
  <2>3. JournalKept'
    BY <1>8 DEF ReadOff, Superseded, RadioTyped, JournalTyped, DaemonTyped, JournalKept
  <2>4. ChoiceKept'
    BY <1>8 DEF ReadOff, Superseded, RestorePending, RadioTyped, JournalTyped, DaemonTyped, JournalKept, ChoiceKept, UserChoiceStands
  <2> QED
    BY <2>1, <2>2, <2>3, <2>4
<1>9. CASE PersistCompletes
  <2>0. tx # None /\ Completes
    BY <1>9 DEF PersistCompletes, JournalKept
  <2>1. RadioTyped'
    BY <1>9 DEF PersistCompletes, RadioTyped
  <2>2. JournalTyped' /\ DaemonTyped'
    BY CompletedTransaction, <2>0, <1>9 DEF PersistCompletes, JournalTyped, DaemonTyped, JournalKept
  <2>3. JournalKept'
    BY CompletedTransaction, <2>0, <1>9 DEF PersistCompletes, RadioTyped, JournalTyped, DaemonTyped, JournalKept
  <2>4. ChoiceKept'
    BY CompletedTransaction, <2>0, <1>9 DEF PersistCompletes, RestorePending, RadioTyped, JournalTyped, DaemonTyped, JournalKept, ChoiceKept, UserChoiceStands
  <2> QED
    BY <2>1, <2>2, <2>3, <2>4
<1>10. CASE ReadAgainCompletes
  <2>0. tx # None /\ Completes
    BY <1>10 DEF ReadAgainCompletes, JournalKept
  <2>1. RadioTyped'
    BY <1>10 DEF ReadAgainCompletes, Superseded, RadioTyped
  <2>2. JournalTyped' /\ DaemonTyped'
    BY CompletedTransaction, <2>0, <1>10 DEF ReadAgainCompletes, Superseded, JournalTyped, DaemonTyped, JournalKept
  <2>3. JournalKept'
    <3>1. tx' # None /\ tx'.unit = tx.unit /\ pc' = "idle" /\ ~stale /\ unit' = unit /\ up'
      BY <1>10, <2>0, CompletedTransaction DEF ReadAgainCompletes, JournalKept, DaemonTyped
    <3>2. CASE UNCHANGED <<disk, held, stale>>
      BY <2>0, <2>1, <2>2, <3>1, <3>2 DEF RadioTyped, JournalTyped, DaemonTyped, JournalKept
    <3>3. CASE disk' = None /\ held' = FALSE /\ stale' = FALSE
      BY <2>0, <2>1, <2>2, <3>1, <3>3 DEF RadioTyped, JournalTyped, DaemonTyped, JournalKept
    <3> QED
      BY <2>0, <3>2, <3>3, CompletedTransaction
  <2>4. ChoiceKept'
    BY CompletedTransaction, <2>0, <1>10 DEF ReadAgainCompletes, Superseded, RestorePending, RadioTyped, JournalTyped, DaemonTyped, JournalKept, ChoiceKept, UserChoiceStands
  <2> QED
    BY <2>1, <2>2, <2>3, <2>4
<1>11. CASE ReadAgainOff
  <2>1. RadioTyped'
    BY <1>11 DEF ReadAgainOff, Superseded, RadioTyped
  <2>2. JournalTyped' /\ DaemonTyped'
    BY <1>11 DEF ReadAgainOff, Superseded, JournalTyped, DaemonTyped, JournalKept
  <2>3. JournalKept'
    BY <1>11 DEF ReadAgainOff, Superseded, RadioTyped, JournalTyped, DaemonTyped, JournalKept
  <2>4. ChoiceKept'
    BY <1>11 DEF ReadAgainOff, Superseded, RestorePending, RadioTyped, JournalTyped, DaemonTyped, JournalKept, ChoiceKept, UserChoiceStands
  <2> QED
    BY <2>1, <2>2, <2>3, <2>4
<1>12. CASE SetOn
  <2>1. RadioTyped'
    BY <1>12 DEF SetOn, Request, RadioTyped
  <2>2. JournalTyped' /\ DaemonTyped'
    BY <1>12 DEF SetOn, Request, JournalTyped, DaemonTyped, JournalKept
  <2>3. JournalKept'
    BY <1>12 DEF SetOn, Request, RadioTyped, JournalTyped, DaemonTyped, JournalKept
  <2>4. ChoiceKept'
    BY <1>12 DEF SetOn, Request, RestorePending, RadioTyped, JournalTyped, DaemonTyped, JournalKept, ChoiceKept, UserChoiceStands
  <2> QED
    BY <2>1, <2>2, <2>3, <2>4
<1>13. CASE SetOnAcknowledged
  <2>0. tx # None /\ Completes
    BY <1>13 DEF SetOnAcknowledged, JournalKept
  <2>1. RadioTyped'
    BY <1>13 DEF SetOnAcknowledged, RadioTyped
  <2>2. JournalTyped' /\ DaemonTyped'
    BY CompletedTransaction, <2>0, <1>13 DEF SetOnAcknowledged, JournalTyped, DaemonTyped, JournalKept
  <2>3. JournalKept'
    BY CompletedTransaction, <2>0, <1>13 DEF SetOnAcknowledged, RadioTyped, JournalTyped, DaemonTyped, JournalKept
  <2>4. ChoiceKept'
    BY CompletedTransaction, <2>0, <1>13 DEF SetOnAcknowledged, RestorePending, RadioTyped, JournalTyped, DaemonTyped, JournalKept, ChoiceKept, UserChoiceStands
  <2> QED
    BY <2>1, <2>2, <2>3, <2>4
<1>14. CASE SetOnFails
  <2>1. RadioTyped'
    BY <1>14 DEF SetOnFails, RadioTyped
  <2>2. JournalTyped' /\ DaemonTyped'
    BY <1>14 DEF SetOnFails, JournalTyped, DaemonTyped, JournalKept
  <2>3. JournalKept'
    BY <1>14 DEF SetOnFails, RadioTyped, JournalTyped, DaemonTyped, JournalKept
  <2>4. ChoiceKept'
    BY <1>14 DEF SetOnFails, RestorePending, RadioTyped, JournalTyped, DaemonTyped, JournalKept, ChoiceKept, UserChoiceStands
  <2> QED
    BY <2>1, <2>2, <2>3, <2>4
<1>15. CASE OnSignal
  <2>1. RadioTyped'
    BY <1>15 DEF OnSignal, RadioTyped
  <2>2. JournalTyped' /\ DaemonTyped'
    <3> USE <1>15 DEF OnSignal, RadioTyped, JournalTyped, DaemonTyped
    <3>1. CASE held
      <4>1. tx' \in [unit : Nat, sawOff : BOOLEAN, completed : BOOLEAN] /\ tx' # None
        <5>1. CASE tx' = [tx EXCEPT !.sawOff = TRUE]
          BY <3>1, <5>1
        <5>2. CASE Completes
          BY <3>1, <5>2, CompletedTransaction
        <5>3. CASE tx' = tx
          BY <3>1, <5>3
        <5> QED
          BY <3>1, <5>1, <5>2, <5>3
      <4>2. disk' = None \/ disk' \in [unit : Nat, phase : {"off", "on"}]
        BY <3>1, CompletedTransaction
      <4>3. DaemonTyped'
        BY <3>1, CompletedTransaction
      <4> QED
        BY <4>1, <4>2, <4>3
    <3>2. CASE ~held
      BY <3>2
    <3> QED
      BY <3>1, <3>2
  <2>3. JournalKept'
    <3> USE <1>15 DEF OnSignal, JournalTyped, DaemonTyped, JournalKept
    <3>1. CASE held /\ Head(signals) = "off"
      <4>1. tx' # None /\ tx'.unit = tx.unit /\ tx'.completed = tx.completed
        BY <3>1
      <4> QED
        BY <3>1, <4>1
    <3>2. CASE Completes /\ held
      <4>1. tx' # None /\ tx'.unit = tx.unit /\ tx'.completed
        BY <3>2, CompletedTransaction
      <4>2. ~stale /\ up' /\ pc' = pc /\ unit' = unit /\ pc # "journal"
        BY <3>2
      <4>3. CASE UNCHANGED <<disk, held, stale>>
        BY <3>2, <4>1, <4>2, <4>3
      <4>4. CASE disk' = None /\ held' = FALSE /\ stale' = FALSE
        BY <4>1, <4>2, <4>4
      <4> QED
        BY <3>2, <4>3, <4>4, CompletedTransaction
    <3>3. CASE UNCHANGED <<tx, disk, held, stale>>
      BY <3>3
    <3> QED
      BY <3>1, <3>2, <3>3
  <2>4. ChoiceKept'
    BY CompletedTransaction, <1>15 DEF OnSignal, RestorePending, RadioTyped, JournalTyped, DaemonTyped, JournalKept, ChoiceKept, UserChoiceStands
  <2> QED
    BY <2>1, <2>2, <2>3, <2>4
<1>16. CASE RestoreBegin
  <2>1. RadioTyped'
    BY <1>16 DEF RestoreBegin, RestorePending, RadioTyped
  <2>2. JournalTyped' /\ DaemonTyped'
    BY <1>16 DEF RestoreBegin, RestorePending, JournalTyped, DaemonTyped, JournalKept
  <2>3. JournalKept'
    BY <1>16 DEF RestoreBegin, RestorePending, RadioTyped, JournalTyped, DaemonTyped, JournalKept
  <2>4. ChoiceKept'
    BY <1>16 DEF RestoreBegin, RestorePending, RadioTyped, JournalTyped, DaemonTyped, JournalKept, ChoiceKept, UserChoiceStands
  <2> QED
    BY <2>1, <2>2, <2>3, <2>4
<1>17. CASE Crash
  <2>1. RadioTyped'
    BY <1>17 DEF Crash, Disturb, RadioTyped
  <2>2. JournalTyped' /\ DaemonTyped'
    <3>1. JournalTyped'
      BY <1>17 DEF Crash, JournalTyped
    <3>2. DaemonTyped'
      <4>1. trouble' \in Nat
        BY <1>17 DEF Crash, Disturb, DaemonTyped
      <4> QED
        BY <1>17, <4>1 DEF Crash, DaemonTyped
    <3> QED
      BY <3>1, <3>2
  <2>3. JournalKept'
    BY <1>17 DEF Crash, Disturb, RadioTyped, JournalTyped, DaemonTyped, JournalKept
  <2>4. ChoiceKept'
    BY <1>17 DEF Crash, Disturb, RestorePending, RadioTyped, JournalTyped, DaemonTyped, JournalKept, ChoiceKept, UserChoiceStands
  <2> QED
    BY <2>1, <2>2, <2>3, <2>4
<1>18. CASE Restart
  <2>1. RadioTyped'
    BY <1>18 DEF Restart, RadioTyped
  <2>2. JournalTyped' /\ DaemonTyped'
    <3> USE <1>18 DEF Restart, JournalTyped, DaemonTyped
    <3>1. ASSUME held' PROVE tx' \in [unit : Nat, sawOff : BOOLEAN, completed : BOOLEAN] /\ tx' # None
      <4>1. disk \in [unit : Nat, phase : {"off", "on"}]
        BY <3>1
      <4>2. tx' = [unit |-> disk.unit, sawOff |-> disk.phase = "on", completed |-> FALSE]
        BY <3>1
      <4> QED
        <5>1. disk.unit \in Nat /\ (disk.phase = "on") \in BOOLEAN
          BY <4>1
        <5>2. tx' \in [unit : Nat, sawOff : BOOLEAN, completed : BOOLEAN]
          BY <4>2, <5>1, TransactionType, Zenon
        <5> QED
          BY <5>2
    <3>2. DaemonTyped'
      OBVIOUS
    <3>3. pc' = "idle" /\ (~held' => tx' = None)
      BY DEF JournalKept
    <3> QED
      BY <3>1, <3>2, <3>3
  <2>3. JournalKept'
    <3> USE <1>18 DEF Restart, JournalTyped, DaemonTyped, JournalKept
    <3>1. ASSUME held' PROVE tx' # None /\ tx'.unit = disk'.unit /\ disk'.unit # 0 /\ disk' # None
      BY <3>1, <2>2
    <3>2. pc' = "idle" /\ (~held' => tx' = None /\ (disk # None => stale'))
      OBVIOUS
    <3> QED
      BY <3>1, <3>2
  <2>4. ChoiceKept'
    BY <1>18 DEF Restart, Foreign, RestorePending, RadioTyped, JournalTyped, DaemonTyped, JournalKept, ChoiceKept, UserChoiceStands
  <2> QED
    BY <2>1, <2>2, <2>3, <2>4
<1>19. CASE BluezSwitches
  <2>1. RadioTyped'
    BY <1>19 DEF BluezSwitches, Emit, Answer, RadioTyped
  <2>2. JournalTyped' /\ DaemonTyped'
    BY <1>19 DEF BluezSwitches, Emit, Answer, JournalTyped, DaemonTyped, JournalKept
  <2>3. JournalKept'
    BY <1>19 DEF BluezSwitches, Emit, Answer, RadioTyped, JournalTyped, DaemonTyped, JournalKept
  <2>4. ChoiceKept'
    BY <1>19 DEF BluezSwitches, Emit, Answer, RestorePending, RadioTyped, JournalTyped, DaemonTyped, JournalKept, ChoiceKept, UserChoiceStands
  <2> QED
    BY <2>1, <2>2, <2>3, <2>4
<1>20. CASE BluezRejects
  <2>1. RadioTyped'
    BY <1>20 DEF BluezRejects, Answer, Disturb, RadioTyped
  <2>2. JournalTyped' /\ DaemonTyped'
    BY <1>20 DEF BluezRejects, Answer, Disturb, JournalTyped, DaemonTyped, JournalKept
  <2>3. JournalKept'
    BY <1>20 DEF BluezRejects, Answer, Disturb, RadioTyped, JournalTyped, DaemonTyped, JournalKept
  <2>4. ChoiceKept'
    BY <1>20 DEF BluezRejects, Answer, Disturb, RestorePending, RadioTyped, JournalTyped, DaemonTyped, JournalKept, ChoiceKept, UserChoiceStands
  <2> QED
    BY <2>1, <2>2, <2>3, <2>4
<1>21. CASE UserSwitches
  <2>1. RadioTyped'
    BY <1>21 DEF UserSwitches, Emit, Disturb, SwitchedOff, RestorePending, RadioTyped
  <2>2. JournalTyped' /\ DaemonTyped'
    BY <1>21 DEF UserSwitches, Emit, Disturb, SwitchedOff, RestorePending, JournalTyped, DaemonTyped, JournalKept
  <2>3. JournalKept'
    BY <1>21 DEF UserSwitches, Emit, Disturb, SwitchedOff, RestorePending, RadioTyped, JournalTyped, DaemonTyped, JournalKept
  <2>4. ChoiceKept'
    BY <1>21 DEF UserSwitches, Emit, Disturb, SwitchedOff, RestorePending, RadioTyped, JournalTyped, DaemonTyped, JournalKept, ChoiceKept, UserChoiceStands
  <2> QED
    BY <2>1, <2>2, <2>3, <2>4
<1>22. CASE Rfkill
  <2>1. RadioTyped'
    <3> USE <1>22 DEF Rfkill, SwitchedOff, Emit, Answer, RadioTyped
    <3>1. SwitchedOff \in {"user", "choice"}
      OBVIOUS
    <3>2. offBy' \in {"us", "user", "choice", None} /\ offBy' # None /\ powered' = FALSE
      BY <3>1
    <3>3. signals' \in Seq({"on", "off", "moved"})
      OBVIOUS
    <3>4. reply' \in {"ok", "error", None} /\ job' \in {"off", "on", None}
      OBVIOUS
    <3> QED
      BY <3>2, <3>3, <3>4
  <2>2. JournalTyped' /\ DaemonTyped'
    BY <1>22 DEF Rfkill, Emit, Answer, Disturb, SwitchedOff, RestorePending, JournalTyped, DaemonTyped, JournalKept
  <2>3. JournalKept'
    BY <1>22 DEF Rfkill, Emit, Answer, Disturb, SwitchedOff, RestorePending, RadioTyped, JournalTyped, DaemonTyped, JournalKept
  <2>4. ChoiceKept'
    BY <1>22 DEF Rfkill, Emit, Answer, Disturb, SwitchedOff, RestorePending, RadioTyped, JournalTyped, DaemonTyped, JournalKept, ChoiceKept, UserChoiceStands
  <2> QED
    BY <2>1, <2>2, <2>3, <2>4
<1>23. CASE BluezRestarts
  <2>1. RadioTyped'
    <3> USE <1>23 DEF BluezRestarts, Emit, Answer, RadioTyped
    <3>1. powered' \in BOOLEAN /\ state' \in {"on", "off", "busy", "blocked"}
      OBVIOUS
    <3>2. offBy' \in {"us", "user", "choice", None} /\ (offBy' = None) = powered'
      BY <3>1
    <3>3. signals' \in Seq({"on", "off", "moved"})
      OBVIOUS
    <3>4. reply' \in {"ok", "error", None} /\ job' \in {"off", "on", None} /\ unit' \in Nat
      OBVIOUS
    <3> QED
      BY <3>1, <3>2, <3>3, <3>4
  <2>2. JournalTyped' /\ DaemonTyped'
    BY <1>23 DEF BluezRestarts, Emit, Answer, Disturb, JournalTyped, DaemonTyped, JournalKept
  <2>3. JournalKept'
    BY <1>23 DEF BluezRestarts, Emit, Answer, Disturb, RadioTyped, JournalTyped, DaemonTyped, JournalKept
  <2>4. ChoiceKept'
    BY <1>23 DEF BluezRestarts, Emit, Answer, Disturb, RestorePending, RadioTyped, JournalTyped, DaemonTyped, JournalKept, ChoiceKept, UserChoiceStands
  <2> QED
    BY <2>1, <2>2, <2>3, <2>4
<1>24. CASE Rest
  BY <1>24 DEF Rest, vars, RestorePending, RadioTyped, JournalTyped, DaemonTyped, JournalKept, ChoiceKept, UserChoiceStands
<1>25. CASE \E ok \in BOOLEAN : Journal(ok)
  <2>1. RadioTyped'
    BY <1>25 DEF Journal, RadioTyped
  <2>2. JournalTyped' /\ DaemonTyped'
    BY <1>25 DEF Journal, JournalTyped, DaemonTyped, JournalKept
  <2>3. JournalKept'
    <3> USE DEF Journal, JournalTyped, DaemonTyped, JournalKept
    <3>1. PICK ok \in BOOLEAN : Journal(ok)
      BY <1>25
    <3>2. tx # None /\ tx' = tx /\ tx.unit \in Nat
      BY <3>1
    <3>3. ASSUME ok PROVE disk' # None /\ disk'.unit = tx'.unit
      <4>1. disk' = [unit |-> tx.unit, phase |-> "off"]
        BY <3>1, <3>3
      <4> QED
        BY <3>2, <4>1
    <3> QED
      BY <3>1, <3>2, <3>3
  <2>4. ChoiceKept'
    BY <1>25 DEF Journal, RestorePending, RadioTyped, JournalTyped, DaemonTyped, JournalKept, ChoiceKept, UserChoiceStands
  <2> QED
    BY <2>1, <2>2, <2>3, <2>4
<1>26. CASE \E ok \in BOOLEAN : RestoreCleanup(ok)
  <2>1. RadioTyped'
    BY <1>26 DEF RestoreCleanup, RadioTyped
  <2>2. JournalTyped' /\ DaemonTyped'
    BY <1>26 DEF RestoreCleanup, CleanupJournal, JournalTyped, DaemonTyped, JournalKept
  <2>3. JournalKept'
    BY <1>26 DEF RestoreCleanup, CleanupJournal, RadioTyped, JournalTyped, DaemonTyped, JournalKept
  <2>4. ChoiceKept'
    BY <1>26 DEF RestoreCleanup, CleanupJournal, RestorePending, RadioTyped, JournalTyped, DaemonTyped, JournalKept, ChoiceKept, UserChoiceStands
  <2> QED
    BY <2>1, <2>2, <2>3, <2>4
<1>27. CASE \E ok \in BOOLEAN : Persist(ok)
  <2>1. RadioTyped'
    BY <1>27 DEF Persist, RadioTyped
  <2>2. JournalTyped' /\ DaemonTyped'
    <3> USE DEF Persist, JournalTyped, DaemonTyped
    <3>1. PICK ok \in BOOLEAN : Persist(ok)
      BY <1>27
    <3>2. tx' \in [unit : Nat, sawOff : BOOLEAN, completed : BOOLEAN] /\ tx' # None
      BY <3>1 DEF JournalKept
    <3>3. disk' = None \/ disk' \in [unit : Nat, phase : {"off", "on"}]
      BY <3>1 DEF JournalKept
    <3>4. DaemonTyped'
      BY <3>1
    <3> QED
      BY <3>2, <3>3, <3>4
  <2>3. JournalKept'
    <3> USE DEF Persist, JournalTyped, DaemonTyped, JournalKept
    <3>1. PICK ok \in BOOLEAN : Persist(ok)
      BY <1>27
    <3>2. tx' # None /\ tx'.unit = tx.unit /\ tx'.completed = tx.completed /\ tx.unit \in Nat
      BY <3>1
    <3>3. held /\ disk # None /\ disk.unit = tx.unit
      BY <3>1
    <3>4. disk' # None /\ disk'.unit = tx'.unit
      BY <3>1, <3>2, <3>3
    <3> QED
      BY <3>1, <3>2, <3>3, <3>4
  <2>4. ChoiceKept'
    BY <1>27 DEF Persist, RestorePending, RadioTyped, JournalTyped, DaemonTyped, JournalKept, ChoiceKept, UserChoiceStands
  <2> QED
    BY <2>1, <2>2, <2>3, <2>4
<1>28. CASE \E ok \in BOOLEAN : CleanupRetry(ok)
  <2>1. RadioTyped'
    BY <1>28 DEF CleanupRetry, RestorePending, RadioTyped
  <2>2. JournalTyped' /\ DaemonTyped'
    BY <1>28 DEF CleanupRetry, RestorePending, CleanupPending, CleanupJournal, JournalTyped, DaemonTyped, JournalKept
  <2>3. JournalKept'
    BY <1>28 DEF CleanupRetry, RestorePending, CleanupPending, CleanupJournal, RadioTyped, JournalTyped, DaemonTyped, JournalKept
  <2>4. ChoiceKept'
    BY <1>28 DEF CleanupRetry, RestorePending, CleanupPending, CleanupJournal, RadioTyped, JournalTyped, DaemonTyped, JournalKept, ChoiceKept, UserChoiceStands
  <2> QED
    BY <2>1, <2>2, <2>3, <2>4
<1>29. CASE UNCHANGED vars
  BY <1>29 DEF vars, RestorePending, RadioTyped, JournalTyped, DaemonTyped, JournalKept, ChoiceKept, UserChoiceStands
<1> QED
  BY <1>1, <1>2, <1>3, <1>4, <1>5, <1>6, <1>7, <1>8, <1>9, <1>10, <1>11, <1>12, <1>13, <1>14, <1>15, <1>16, <1>17, <1>18, <1>19, <1>20, <1>21, <1>22, <1>23, <1>24, <1>25, <1>26, <1>27, <1>28, <1>29 DEF Next, WorkerStep, MainLoop, World

-----------------------------------------------------------------------------
(***************************************************************************)
(* The obligation, as long as nobody switches the radio during preflight.  *)
(***************************************************************************)

LEMMA QueuedAppend ==
    ASSUME NEW S, NEW s \in Seq(S), NEW e \in S, NEW x
    PROVE  Queued(Append(s, e), x) <=> Queued(s, x) \/ x = e
<1>1. /\ DOMAIN Append(s, e) = 1 .. Len(s) + 1 /\ DOMAIN s = 1 .. Len(s) /\ Len(s) \in Nat
      /\ \A i \in 1 .. Len(s) : Append(s, e)[i] = s[i]
      /\ Append(s, e)[Len(s) + 1] = e
  OBVIOUS
<1> QED
  BY <1>1 DEF Queued

LEMMA QueuedHeadTail ==
    ASSUME NEW S, NEW s \in Seq(S), s # <<>>, NEW x
    PROVE  Queued(s, x) <=> Queued(Tail(s), x) \/ Head(s) = x
<1>1. /\ DOMAIN Tail(s) = 1 .. Len(s) - 1 /\ DOMAIN s = 1 .. Len(s) /\ Len(s) \in Nat \ {0}
      /\ \A i \in 1 .. Len(s) - 1 : Tail(s)[i] = s[i + 1]
      /\ Head(s) = s[1]
  OBVIOUS
<1>2. ASSUME Queued(s, x) PROVE Queued(Tail(s), x) \/ Head(s) = x
  <2>1. PICK i \in 1 .. Len(s) : s[i] = x
    BY <1>1, <1>2 DEF Queued
  <2>2. CASE i = 1
    BY <1>1, <2>1, <2>2
  <2>3. CASE i # 1
    <3>1. i - 1 \in 1 .. Len(s) - 1 /\ Tail(s)[i - 1] = x
      BY <1>1, <2>1, <2>3
    <3> QED
      BY <1>1, <3>1 DEF Queued
  <2> QED
    BY <2>2, <2>3
<1>3. ASSUME Queued(Tail(s), x) \/ Head(s) = x PROVE Queued(s, x)
  <2>1. CASE Head(s) = x
    BY <1>1, <2>1 DEF Queued
  <2>2. CASE Queued(Tail(s), x)
    <3>1. PICK i \in 1 .. Len(s) - 1 : Tail(s)[i] = x
      BY <1>1, <2>2 DEF Queued
    <3>2. i + 1 \in 1 .. Len(s) /\ s[i + 1] = x
      BY <1>1, <3>1
    <3> QED
      BY <1>1, <3>2 DEF Queued
  <2> QED
    BY <1>3, <2>1, <2>2
<1> QED
  BY <1>2, <1>3

LEMMA QueuedEmpty == \A x : ~Queued(<<>>, x)
BY DEF Queued

LEMMA EmittedSignal ==
    ASSUME TypeOK, NEW e \in {"on", "off", "moved"}, Emit(e), NEW x
    PROVE  Queued(signals', x) => Queued(signals, x) \/ x = e
BY QueuedAppend DEF Emit, TypeOK, RadioTyped

LEMMA RestoreInit == Init => RestoreInv
<1> SUFFICES ASSUME Init PROVE RestoreInv
  OBVIOUS
<1>1. PowerInv
  BY PowerInit
<1>2. UnitsGrow
  BY <1>1, NoneAssumption DEF Init, UnitsGrow, Foreign
<1>3. JobKnown
  BY NoneAssumption DEF Init, JobKnown, Preflight
<1>4. OwedHeld
  BY NoneAssumption DEF Init, OwedHeld, Owed, Preflight
<1> QED
  BY <1>1, <1>2, <1>3, <1>4 DEF RestoreInv

LEMMA RestoreStep ==
    ASSUME QuietPreflight, RestoreInv, [Next]_vars
    PROVE  RestoreInv'
<1>0. PowerInv /\ PowerInv'
  BY PowerStep DEF RestoreInv
<1> USE NoneAssumption, <1>0, QueuedEmpty DEF RestoreInv, PowerInv, TypeOK, RadioTyped, JournalTyped, DaemonTyped, radioVars, memoryVars
<1>1. CASE Snapshot
  <2>1. UnitsGrow'
    BY <1>1 DEF Snapshot, RestorePending, CleanupPending, UnitsGrow, JournalKept
  <2>2. JobKnown'
    BY <1>1 DEF Snapshot, RestorePending, CleanupPending, JobKnown, JournalKept, Preflight
  <2>3. OwedHeld'
    BY <1>1 DEF Snapshot, RestorePending, CleanupPending, OwedHeld, Owed, JobKnown, UnitsGrow, JournalKept, Preflight
  <2> QED
    BY <2>1, <2>2, <2>3
<1>2. CASE RecheckPasses
  <2>1. UnitsGrow'
    BY <1>2 DEF RecheckPasses, Unchanged, UnitsGrow, JournalKept
  <2>2. JobKnown'
    BY <1>2 DEF RecheckPasses, Unchanged, JobKnown, JournalKept, Preflight
  <2>3. OwedHeld'
    BY <1>2 DEF RecheckPasses, Unchanged, RestorePending, OwedHeld, Owed, JobKnown, UnitsGrow, JournalKept, Preflight
  <2> QED
    BY <2>1, <2>2, <2>3
<1>3. CASE RecheckFails
  <2>1. UnitsGrow'
    BY CompletedTransaction, <1>3 DEF RecheckFails, UnitsGrow, JournalKept
  <2>2. JobKnown'
    BY CompletedTransaction, <1>3 DEF RecheckFails, JobKnown, JournalKept, Preflight
  <2>3. OwedHeld'
    BY CompletedTransaction, <1>3 DEF RecheckFails, RestorePending, OwedHeld, Owed, JobKnown, UnitsGrow, JournalKept, Preflight
  <2> QED
    BY <2>1, <2>2, <2>3
<1>4. CASE SetOff
  <2>1. UnitsGrow'
    BY <1>4 DEF SetOff, Request, UnitsGrow, JournalKept
  <2>2. JobKnown'
    BY <1>4 DEF SetOff, Request, JobKnown, JournalKept, Preflight
  <2>3. OwedHeld'
    BY <1>4 DEF SetOff, Request, RestorePending, OwedHeld, Owed, JobKnown, UnitsGrow, JournalKept, Preflight
  <2> QED
    BY <2>1, <2>2, <2>3
<1>5. CASE SetOffReturns
  <2>1. UnitsGrow'
    BY <1>5 DEF SetOffReturns, UnitsGrow, JournalKept
  <2>2. JobKnown'
    BY <1>5 DEF SetOffReturns, JobKnown, JournalKept, Preflight
  <2>3. OwedHeld'
    BY <1>5 DEF SetOffReturns, RestorePending, OwedHeld, Owed, JobKnown, UnitsGrow, JournalKept, Preflight
  <2> QED
    BY <2>1, <2>2, <2>3
<1>6. CASE ReadCompletes
  <2>1. UnitsGrow'
    BY CompletedTransaction, <1>6 DEF ReadCompletes, Superseded, UnitsGrow, JournalKept
  <2>2. JobKnown'
    BY CompletedTransaction, <1>6 DEF ReadCompletes, Superseded, JobKnown, JournalKept, Preflight
  <2>3. OwedHeld'
    BY CompletedTransaction, <1>6 DEF ReadCompletes, Superseded, RestorePending, OwedHeld, Owed, JobKnown, UnitsGrow, JournalKept, Preflight
  <2> QED
    BY <2>1, <2>2, <2>3
<1>7. CASE ReadInconclusive
  <2>1. UnitsGrow'
    BY <1>7 DEF ReadInconclusive, Disturb, Superseded, UnitsGrow, JournalKept
  <2>2. JobKnown'
    BY <1>7 DEF ReadInconclusive, Disturb, Superseded, JobKnown, JournalKept, Preflight
  <2>3. OwedHeld'
    BY <1>7 DEF ReadInconclusive, Disturb, Superseded, RestorePending, OwedHeld, Owed, JobKnown, UnitsGrow, JournalKept, Preflight
  <2> QED
    BY <2>1, <2>2, <2>3
<1>8. CASE ReadOff
  <2>1. UnitsGrow'
    BY <1>8 DEF ReadOff, Superseded, UnitsGrow, JournalKept
  <2>2. JobKnown'
    BY <1>8 DEF ReadOff, Superseded, JobKnown, JournalKept, Preflight
  <2>3. OwedHeld'
    BY <1>8 DEF ReadOff, Superseded, RestorePending, OwedHeld, Owed, JobKnown, UnitsGrow, JournalKept, Preflight
  <2> QED
    BY <2>1, <2>2, <2>3
<1>9. CASE PersistCompletes
  <2>1. UnitsGrow'
    BY CompletedTransaction, <1>9 DEF PersistCompletes, UnitsGrow, JournalKept
  <2>2. JobKnown'
    BY CompletedTransaction, <1>9 DEF PersistCompletes, JobKnown, JournalKept, Preflight
  <2>3. OwedHeld'
    BY CompletedTransaction, <1>9 DEF PersistCompletes, RestorePending, OwedHeld, Owed, JobKnown, UnitsGrow, JournalKept, Preflight
  <2> QED
    BY <2>1, <2>2, <2>3
<1>10. CASE ReadAgainCompletes
  <2>1. UnitsGrow'
    BY CompletedTransaction, <1>10 DEF ReadAgainCompletes, Superseded, UnitsGrow, JournalKept
  <2>2. JobKnown'
    BY CompletedTransaction, <1>10 DEF ReadAgainCompletes, Superseded, JobKnown, JournalKept, Preflight
  <2>3. OwedHeld'
    BY CompletedTransaction, <1>10 DEF ReadAgainCompletes, Superseded, RestorePending, OwedHeld, Owed, JobKnown, UnitsGrow, JournalKept, Preflight
  <2> QED
    BY <2>1, <2>2, <2>3
<1>11. CASE ReadAgainOff
  <2>1. UnitsGrow'
    BY <1>11 DEF ReadAgainOff, Superseded, UnitsGrow, JournalKept
  <2>2. JobKnown'
    BY <1>11 DEF ReadAgainOff, Superseded, JobKnown, JournalKept, Preflight
  <2>3. OwedHeld'
    BY <1>11 DEF ReadAgainOff, Superseded, RestorePending, OwedHeld, Owed, JobKnown, UnitsGrow, JournalKept, Preflight
  <2> QED
    BY <2>1, <2>2, <2>3
<1>12. CASE SetOn
  <2>1. UnitsGrow'
    BY <1>12 DEF SetOn, Request, UnitsGrow, JournalKept
  <2>2. JobKnown'
    BY <1>12 DEF SetOn, Request, JobKnown, JournalKept, Preflight
  <2>3. OwedHeld'
    BY <1>12 DEF SetOn, Request, RestorePending, OwedHeld, Owed, JobKnown, UnitsGrow, JournalKept, Preflight
  <2> QED
    BY <2>1, <2>2, <2>3
<1>13. CASE SetOnAcknowledged
  <2>1. UnitsGrow'
    BY CompletedTransaction, <1>13 DEF SetOnAcknowledged, UnitsGrow, JournalKept
  <2>2. JobKnown'
    BY CompletedTransaction, <1>13 DEF SetOnAcknowledged, JobKnown, JournalKept, Preflight
  <2>3. OwedHeld'
    BY CompletedTransaction, <1>13 DEF SetOnAcknowledged, RestorePending, OwedHeld, Owed, JobKnown, UnitsGrow, JournalKept, Preflight
  <2> QED
    BY <2>1, <2>2, <2>3
<1>14. CASE SetOnFails
  <2>1. UnitsGrow'
    BY <1>14 DEF SetOnFails, UnitsGrow, JournalKept
  <2>2. JobKnown'
    BY <1>14 DEF SetOnFails, JobKnown, JournalKept, Preflight
  <2>3. OwedHeld'
    BY <1>14 DEF SetOnFails, RestorePending, OwedHeld, Owed, JobKnown, UnitsGrow, JournalKept, Preflight
  <2> QED
    BY <2>1, <2>2, <2>3
<1>15. CASE OnSignal
  <2>1. UnitsGrow'
    BY CompletedTransaction, QueuedHeadTail, <1>15 DEF OnSignal, UnitsGrow, JournalKept
  <2>2. JobKnown'
    BY CompletedTransaction, QueuedHeadTail, <1>15 DEF OnSignal, JobKnown, JournalKept, Preflight
  <2>3. OwedHeld'
    BY CompletedTransaction, QueuedHeadTail, <1>15 DEF OnSignal, RestorePending, OwedHeld, Owed, JobKnown, UnitsGrow, JournalKept, Preflight
  <2> QED
    BY <2>1, <2>2, <2>3
<1>16. CASE RestoreBegin
  <2>1. UnitsGrow'
    BY <1>16 DEF RestoreBegin, RestorePending, UnitsGrow, JournalKept
  <2>2. JobKnown'
    BY <1>16 DEF RestoreBegin, RestorePending, JobKnown, JournalKept, Preflight
  <2>3. OwedHeld'
    BY <1>16 DEF RestoreBegin, RestorePending, OwedHeld, Owed, JobKnown, UnitsGrow, JournalKept, Preflight
  <2> QED
    BY <2>1, <2>2, <2>3
<1>17. CASE Crash
  <2>1. UnitsGrow'
    BY <1>17 DEF Crash, Disturb, UnitsGrow, JournalKept
  <2>2. JobKnown'
    BY <1>17 DEF Crash, Disturb, JobKnown, JournalKept, Preflight
  <2>3. OwedHeld'
    BY <1>17 DEF Crash, Disturb, RestorePending, OwedHeld, Owed, JobKnown, UnitsGrow, JournalKept, Preflight
  <2> QED
    BY <2>1, <2>2, <2>3
<1>18. CASE Restart
  <2>1. UnitsGrow'
    BY <1>18 DEF Restart, UnitsGrow, JournalKept
  <2>2. JobKnown'
    BY <1>18 DEF Restart, JobKnown, JournalKept, Preflight
  <2>3. OwedHeld'
    <3> USE <1>18 DEF Restart
    <3>1. pc' = "idle" /\ UNCHANGED <<radioVars, reply, signals, disk>>
      BY DEF JournalKept
    <3>2. ASSUME Owed PROVE held' /\ tx'.completed = FALSE
      <4>1. disk # None /\ disk # Foreign
        BY <3>2 DEF OwedHeld, JournalKept, Foreign
      <4> QED
        BY <4>1
    <3> QED
      BY <3>1, <3>2 DEF OwedHeld, Owed, RestorePending, Preflight
  <2> QED
    BY <2>1, <2>2, <2>3
<1>19. CASE BluezSwitches
  <2>1. UnitsGrow'
    BY EmittedSignal, <1>19 DEF BluezSwitches, Answer, UnitsGrow, JournalKept
  <2>2. JobKnown'
    BY EmittedSignal, <1>19 DEF BluezSwitches, Answer, JobKnown, JournalKept, Preflight
  <2>3. OwedHeld'
    BY EmittedSignal, <1>19 DEF BluezSwitches, Answer, RestorePending, OwedHeld, Owed, JobKnown, UnitsGrow, JournalKept, Preflight
  <2> QED
    BY <2>1, <2>2, <2>3
<1>20. CASE BluezRejects
  <2>1. UnitsGrow'
    BY <1>20 DEF BluezRejects, Answer, Disturb, UnitsGrow, JournalKept
  <2>2. JobKnown'
    BY <1>20 DEF BluezRejects, Answer, Disturb, JobKnown, JournalKept, Preflight
  <2>3. OwedHeld'
    BY <1>20 DEF BluezRejects, Answer, Disturb, RestorePending, OwedHeld, Owed, JobKnown, UnitsGrow, JournalKept, Preflight
  <2> QED
    BY <2>1, <2>2, <2>3
<1>21. CASE UserSwitches
  <2>1. UnitsGrow'
    BY EmittedSignal, <1>21 DEF UserSwitches, Disturb, SwitchedOff, RestorePending, UnitsGrow, JournalKept
  <2>2. JobKnown'
    BY EmittedSignal, <1>21 DEF UserSwitches, Disturb, SwitchedOff, RestorePending, JobKnown, JournalKept, Preflight
  <2>3. OwedHeld'
    BY EmittedSignal, <1>21 DEF UserSwitches, Disturb, SwitchedOff, RestorePending, OwedHeld, Owed, JobKnown, UnitsGrow, JournalKept, Preflight
  <2> QED
    BY <2>1, <2>2, <2>3
<1>22. CASE Rfkill
  <2>1. UnitsGrow'
    BY EmittedSignal, <1>22 DEF Rfkill, Answer, Disturb, SwitchedOff, RestorePending, UnitsGrow, JournalKept
  <2>2. JobKnown'
    BY EmittedSignal, <1>22 DEF Rfkill, Answer, Disturb, SwitchedOff, RestorePending, JobKnown, JournalKept, Preflight
  <2>3. OwedHeld'
    BY EmittedSignal, <1>22 DEF Rfkill, Answer, Disturb, SwitchedOff, RestorePending, OwedHeld, Owed, JobKnown, UnitsGrow, JournalKept, Preflight
  <2> QED
    BY <2>1, <2>2, <2>3
<1>23. CASE BluezRestarts
  <2>1. UnitsGrow'
    BY EmittedSignal, <1>23 DEF BluezRestarts, Answer, Disturb, UnitsGrow, JournalKept
  <2>2. JobKnown'
    BY EmittedSignal, <1>23 DEF BluezRestarts, Answer, Disturb, JobKnown, JournalKept, Preflight
  <2>3. OwedHeld'
    BY EmittedSignal, <1>23 DEF BluezRestarts, Answer, Disturb, RestorePending, OwedHeld, Owed, JobKnown, UnitsGrow, JournalKept, Preflight
  <2> QED
    BY <2>1, <2>2, <2>3
<1>24. CASE \E ok \in BOOLEAN : Journal(ok)
  <2>1. UnitsGrow'
    BY <1>24 DEF Journal, UnitsGrow, JournalKept
  <2>2. JobKnown'
    BY <1>24 DEF Journal, JobKnown, JournalKept, Preflight
  <2>3. OwedHeld'
    BY <1>24 DEF Journal, RestorePending, OwedHeld, Owed, JobKnown, UnitsGrow, JournalKept, Preflight
  <2> QED
    BY <2>1, <2>2, <2>3
<1>25. CASE \E ok \in BOOLEAN : RestoreCleanup(ok)
  <2>1. UnitsGrow'
    BY <1>25 DEF RestoreCleanup, CleanupJournal, UnitsGrow, JournalKept
  <2>2. JobKnown'
    BY <1>25 DEF RestoreCleanup, CleanupJournal, JobKnown, JournalKept, Preflight
  <2>3. OwedHeld'
    BY <1>25 DEF RestoreCleanup, CleanupJournal, RestorePending, OwedHeld, Owed, JobKnown, UnitsGrow, JournalKept, Preflight
  <2> QED
    BY <2>1, <2>2, <2>3
<1>26. CASE \E ok \in BOOLEAN : Persist(ok)
  <2>1. UnitsGrow'
    BY <1>26 DEF Persist, UnitsGrow, JournalKept
  <2>2. JobKnown'
    BY <1>26 DEF Persist, JobKnown, JournalKept, Preflight
  <2>3. OwedHeld'
    BY <1>26 DEF Persist, RestorePending, OwedHeld, Owed, JobKnown, UnitsGrow, JournalKept, Preflight
  <2> QED
    BY <2>1, <2>2, <2>3
<1>27. CASE \E ok \in BOOLEAN : CleanupRetry(ok)
  <2>1. UnitsGrow'
    BY <1>27 DEF CleanupRetry, RestorePending, CleanupPending, CleanupJournal, UnitsGrow, JournalKept
  <2>2. JobKnown'
    BY <1>27 DEF CleanupRetry, RestorePending, CleanupPending, CleanupJournal, JobKnown, JournalKept, Preflight
  <2>3. OwedHeld'
    BY <1>27 DEF CleanupRetry, RestorePending, CleanupPending, CleanupJournal, OwedHeld, Owed, JobKnown, UnitsGrow, JournalKept, Preflight
  <2> QED
    BY <2>1, <2>2, <2>3
<1>28. CASE UNCHANGED vars \/ Rest
  BY <1>28 DEF Rest, vars, RestorePending, UnitsGrow, JobKnown, OwedHeld, Owed, Preflight
<1> QED
  BY <1>1, <1>2, <1>3, <1>4, <1>5, <1>6, <1>7, <1>8, <1>9, <1>10, <1>11, <1>12, <1>13, <1>14, <1>15, <1>16, <1>17, <1>18, <1>19, <1>20, <1>21, <1>22, <1>23, <1>24, <1>25, <1>26, <1>27, <1>28 DEF Next, WorkerStep, MainLoop, World

-----------------------------------------------------------------------------
(***************************************************************************)
(* The theorems.                                                           *)
(***************************************************************************)

\* Radio, journal and transaction stay well formed.
THEOREM PowerTypes == Spec => []TypeOK
<1>1. PowerInv => TypeOK
  BY DEF PowerInv
<1> QED
  BY PowerInit, PowerStep, <1>1, PTL DEF Spec, SafetySpec

\* A radio switched off by choice is never powered on by the daemon, whenever
\* the user, rfkill or a late signal comes, preflight included
\* (cleanup_journal's completion latch, the recheck of cycle()).
THEOREM ChoiceStands == Spec => []UserChoiceStands
<1>1. PowerInv => UserChoiceStands
  BY DEF PowerInv, ChoiceKept
<1> QED
  BY PowerInit, PowerStep, <1>1, PTL DEF Spec, SafetySpec

\* A radio the daemon has switched off, or is switching off, has its journal on
\* disk, whatever crashes, timeouts, restarts and failing writes there were, as
\* long as nobody switches it between cycle()'s snapshot and its power-off.
THEOREM ObligationKept ==
    ASSUME QuietPreflight
    PROVE  Spec => []ObligationOnDisk
<1>1. RestoreInv => ObligationOnDisk
  BY DEF RestoreInv, OwedHeld, Owed, ObligationOnDisk
<1>2. RestoreInv /\ [Next]_vars => RestoreInv'
  BY RestoreStep
<1> QED
  BY RestoreInit, <1>1, <1>2, PTL DEF Spec, SafetySpec

\* No signal dispatched late completes a transaction whose power-off is under
\* way or in force (_properties_changed, "excludes old on signals").
THEOREM LateSignalsHarmless ==
    ASSUME QuietPreflight
    PROVE  Spec => OldSignalsExcluded
<1> DEFINE Excluded == Len(signals') < Len(signals)
                          /\ held /\ up' /\ tx'.completed /\ ~tx.completed
                       => offBy # "us" /\ job # "off"
<1>1. ASSUME RestoreInv, Next PROVE Excluded
  <2> SUFFICES ASSUME Len(signals') < Len(signals), held, up', tx'.completed, ~tx.completed, Owed
               PROVE  FALSE
    BY DEF Owed
  <2> USE <1>1 DEF RestoreInv, PowerInv, TypeOK, RadioTyped, JournalTyped
  <2>1. signals \in Seq({"on", "off", "moved"})
    OBVIOUS
  <2>2. ASSUME NEW e, Emit(e) PROVE FALSE
    BY <2>1, <2>2 DEF Emit
  <2>3. signals' # signals
    BY <2>1
  <2>4. ~Crash
    BY DEF Crash
  <2>5. OnSignal
    <3>1. ~(Snapshot \/ WorkerStep \/ RestoreBegin \/ Restart \/ Rest)
      BY <2>3 DEF Snapshot, Restart, Rest, RestoreBegin, WorkerStep, RecheckPasses, RecheckFails,
         SetOff, SetOffReturns, ReadCompletes, ReadInconclusive, ReadOff, PersistCompletes,
         ReadAgainCompletes, ReadAgainOff, SetOn, SetOnAcknowledged, SetOnFails, Journal,
         RestoreCleanup, Persist, vars
    <3>2. ~(\E ok \in BOOLEAN : CleanupRetry(ok)) /\ ~BluezRejects
      BY <2>3 DEF CleanupRetry, BluezRejects
    <3>3. ~(BluezSwitches \/ UserSwitches \/ Rfkill \/ BluezRestarts)
      BY <2>2, <2>3 DEF BluezSwitches, UserSwitches, Rfkill, BluezRestarts
    <3> QED
      BY <2>4, <3>1, <3>2, <3>3 DEF Next, MainLoop, World
  <2>6. Head(signals) # "on"
    BY <2>1, <2>5, QueuedHeadTail DEF OnSignal, OwedHeld
  <2>7. tx # None /\ tx'.completed = tx.completed
    BY <2>5, <2>6 DEF OnSignal
  <2> QED
    BY <2>7
<1>2. RestoreInv /\ [Next]_vars => [Excluded]_vars
  BY <1>1
<1>3. RestoreInv /\ [Next]_vars => RestoreInv'
  BY RestoreStep
<1> QED
  BY RestoreInit, <1>2, <1>3, PTL DEF Spec, SafetySpec, OldSignalsExcluded
=============================================================================
