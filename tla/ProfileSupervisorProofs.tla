---------------------- MODULE ProfileSupervisorProofs ----------------------
(***************************************************************************)
(* Proofs about the profile supervisor composed with the OBEX worker and   *)
(* the session manager: whatever order open_all(), close_all(), their      *)
(* owners' ends and obexd's signals come in, the loss of a session is not  *)
(* missed; the supervisor is never left with nothing to do, and what it    *)
(* shows and has told others is true.                                      *)
(***************************************************************************)
EXTENDS ProfileSupervisor, TLAPS

\* The facts proved about the worker, for the supervisor's operations.
WP == INSTANCE ObexWorkerProofs WITH
        Jobs <- Job, ReservedJobs <- [kind : {"recover"}, gen : Nat, remote : BOOLEAN]

LEMMA WorkerConstants == WP!WorkerAssumption
BY SupervisorAssumption DEF WP!WorkerAssumption, Job, Kinds

-----------------------------------------------------------------------------
(***************************************************************************)
(* The inductive invariant.                                                *)
(***************************************************************************)

\* Between a session's creation and its publication nobody else has it.
SessionKept ==
    /\ S!SessionTypeOK
    /\ op.at = "publish" => session[op.target] = None /\ owner[op.target] # None
    /\ op.at \in {"idle", "closing"} => op.target = "MAP" /\ op.failed = None

\* obexd has yet to tell the daemon that session s is gone.
Announced(s) == S!Exit \in WP!Elems(signals) \/ s.path \in WP!Elems(signals)

\* A session that is gone was announced, or the announcement reached an open
\* that has not published it.
LossKnown ==
    /\ op.at \in {"create", "publish"} => removed # None
    /\ \A t \in S!Target : session[t] # None => session[t] \in live \/ Announced(session[t])
    /\ op.at = "publish" =>
           LET new == owner[op.target] IN
           new \in live \/ exited \/ new.path \in removed \/ Announced(new)

-----------------------------------------------------------------------------
(***************************************************************************)
(* The session manager.                                                    *)
(***************************************************************************)

SessionStep ==
    \/ S!OnSignal \/ S!Forget \/ S!CloseLocally
    \/ S!OpenBegin \/ S!KeepSession \/ (\E ok \in BOOLEAN : S!CreateSession(ok))
    \/ S!Publish \/ S!OpenEnd
    \/ (\E remote \in BOOLEAN : S!CloseBegin(remote)) \/ S!CloseEnd
    \/ (op.at = "idle" /\ S!CloseWorkerBus)
    \/ (\E s \in live : S!LoseSession(s)) \/ S!ObexdExit
    \/ UNCHANGED sessionVars

\* A farewell names the session that ends.
LEMMA FarewellAppend ==
    ASSUME S!SessionTypeOK, NEW t \in S!Target, NEW s \in Seq(Nat)
    PROVE  /\ s \o S!Farewell(t) \in Seq(Nat)
           /\ WP!Elems(s) \subseteq WP!Elems(s \o S!Farewell(t))
           /\ owner[t] \in live => owner[t].path \in WP!Elems(s \o S!Farewell(t))
<1>1. CASE owner[t] \in live
  <2>1. owner[t].path \in Nat /\ S!Farewell(t) = <<owner[t].path>>
    BY <1>1 DEF S!SessionTypeOK, S!Session, S!Farewell
  <2>2. s \o S!Farewell(t) = Append(s, owner[t].path)
    BY <2>1
  <2>3. /\ Append(s, owner[t].path) \in Seq(Nat)
        /\ WP!Elems(Append(s, owner[t].path)) = WP!Elems(s) \cup {owner[t].path}
    BY <2>1, WorkerConstants, WP!AppendElems
  <2> QED
    BY <2>2, <2>3
<1>2. CASE owner[t] \notin live
  <2>1. S!Farewell(t) = <<>>
    BY <1>2 DEF S!Farewell
  <2> QED
    BY <1>2, <2>1
<1> QED
  BY <1>1, <1>2

OpType == [at : {"idle", "create", "publish", "end", "closing"},
           target : S!Target, failed : S!Target \cup {None}]

LEMMA IdleTyped ==
    S!Idle \in OpType /\ S!Idle.at = "idle" /\ S!Idle.target = "MAP" /\ S!Idle.failed = None
BY DEF S!Idle, S!Target, OpType

LEMMA StepTyped ==
    ASSUME NEW t \in S!Target, NEW failed \in S!Target \cup {None}
    PROVE  /\ S!Step(t, failed) \in OpType /\ S!Step(t, failed).at \in {"create", "end"}
           /\ S!Step(t, failed).failed = failed /\ S!Step(t, failed).target = "PBAP"
           /\ S!Step(t, failed).at = "end" => t = "PBAP"
           /\ S!Step(t, failed).at = "create" => t = "MAP"
BY DEF S!Step, S!Target, OpType

LEMMA SessionStepKept == SessionKept /\ SessionStep => SessionKept'
<1> SUFFICES ASSUME SessionKept, SessionStep PROVE SessionKept'
  OBVIOUS
<1> USE SupervisorAssumption DEF SessionKept, S!SessionTypeOK, OpType
<1>1. CASE S!OnSignal
  <2>1. session' \in [S!Target -> S!Session \cup {None}]
    BY <1>1 DEF S!OnSignal, S!Surviving
  <2>2. \A t \in S!Target : session[t] = None => session'[t] = None
    BY <1>1 DEF S!OnSignal, S!Surviving
  <2>3. signals' \in Seq(Nat) /\ Head(signals) \in Nat
    BY <1>1 DEF S!OnSignal
  <2>4. exited' \in BOOLEAN /\ (removed' = None \/ removed' \subseteq Nat)
    BY <1>1, <2>3 DEF S!OnSignal
  <2> QED
    BY <1>1, <2>1, <2>2, <2>3, <2>4 DEF S!OnSignal
<1>2. CASE S!Forget \/ S!CloseLocally \/ S!CloseEnd
  <2>1. S!Nothing \in [S!Target -> S!Session \cup {None}] /\ \A t \in S!Target : S!Nothing[t] = None
    BY DEF S!Nothing
  <2>2. CASE S!Forget \/ S!CloseLocally
    BY <2>1, <2>2 DEF S!Forget, S!CloseLocally
  <2>3. CASE S!CloseEnd
    BY <2>1, <2>3, IdleTyped DEF S!CloseEnd
  <2> QED
    BY <1>2, <2>2, <2>3
<1>3. CASE S!OpenBegin
  BY <1>3 DEF S!OpenBegin
<1>4. CASE S!KeepSession \/ S!OpenEnd
  <2>1. CASE S!KeepSession
    BY <2>1, StepTyped DEF S!KeepSession
  <2>2. CASE S!OpenEnd
    BY <2>2, IdleTyped DEF S!OpenEnd
  <2> QED
    BY <1>4, <2>1, <2>2
<1>5. ASSUME NEW ok \in BOOLEAN, S!CreateSession(ok) PROVE SessionKept'
  <2>1. op.target \in S!Target /\ session[op.target] = None /\ op.at = "create"
    BY <1>5 DEF S!CreateSession
  <2>2. signals' \in Seq(Nat)
    BY <1>5, <2>1, FarewellAppend DEF S!CreateSession
  <2>3. CASE ok
    <3>1. [path |-> nextPath, inc |-> incarnation] \in S!Session
      BY DEF S!Session
    <3>2. [path |-> nextPath, inc |-> incarnation] # None
      BY <3>1 DEF S!Session
    <3>3. /\ live' = (live \ {owner[op.target]}) \cup {[path |-> nextPath, inc |-> incarnation]}
          /\ nextPath' = nextPath + 1
          /\ owner' = [owner EXCEPT ![op.target] = [path |-> nextPath, inc |-> incarnation]]
          /\ op' = [op EXCEPT !.at = "publish"]
          /\ UNCHANGED <<session, smClosing, removed, exited, incarnation>>
      BY <1>5, <2>3 DEF S!CreateSession
    <3>4. op' \in OpType /\ op'.at = "publish" /\ op'.target = op.target
      BY <3>3
    <3>5. owner' \in [S!Target -> S!Session \cup {None}] /\ owner'[op.target] # None
      BY <2>1, <3>1, <3>2, <3>3
    <3>6. live' \subseteq S!Session /\ nextPath' \in Nat
      BY <3>1, <3>3
    <3> QED
      BY <2>1, <2>2, <3>3, <3>4, <3>5, <3>6
  <2>4. CASE ~ok
    <3>1. /\ owner' = [owner EXCEPT ![op.target] = None] /\ live' = live \ {owner[op.target]}
          /\ op' = S!Step(op.target, S!Failing(op.target))
          /\ UNCHANGED <<nextPath, session, smClosing, removed, exited, incarnation>>
      BY <1>5, <2>4 DEF S!CreateSession
    <3>2. S!Failing(op.target) \in S!Target \cup {None}
      BY <2>1 DEF S!Failing
    <3> QED
      BY <2>1, <2>2, <3>1, <3>2, StepTyped
  <2> QED
    BY <2>3, <2>4
<1>6. CASE S!Publish
  <2>1. op.target \in S!Target /\ owner[op.target] \in S!Session
    BY <1>6 DEF S!Publish
  <2>2. S!Failing(op.target) \in S!Target \cup {None}
    BY <2>1 DEF S!Failing
  <2>3. signals' \in Seq(Nat)
    <3>1. signals \o S!Farewell(op.target) \in Seq(Nat)
      BY <2>1, FarewellAppend
    <3> QED
      BY <1>6, <3>1 DEF S!Publish
  <2>4. op' \in OpType /\ op'.at \in {"create", "end"}
    BY <1>6, <2>1, <2>2, StepTyped DEF S!Publish
  <2> QED
    BY <1>6, <2>1, <2>3, <2>4 DEF S!Publish
<1>7. CASE (\E remote \in BOOLEAN : S!CloseBegin(remote)) \/ (op.at = "idle" /\ S!CloseWorkerBus)
  <2>1. S!Nothing \in [S!Target -> S!Session \cup {None}]
    BY DEF S!Nothing
  <2>2. S!Disown => signals' \in Seq(Nat)
    <3>1. "MAP" \in S!Target /\ "PBAP" \in S!Target
      BY DEF S!Target
    <3>2. signals \o S!Farewell("MAP") \in Seq(Nat)
      BY <3>1, FarewellAppend
    <3> QED
      BY <3>1, <3>2, FarewellAppend DEF S!Disown
  <2>3. S!Disown => owner' = S!Nothing /\ live' \subseteq S!Session
    BY DEF S!Disown
  <2> QED
    BY <1>7, <2>1, <2>2, <2>3 DEF S!CloseBegin, S!CloseWorkerBus
<1>8. CASE (\E s \in live : S!LoseSession(s)) \/ S!ObexdExit
  <2>1. ASSUME NEW s \in live, S!LoseSession(s) PROVE SessionKept'
    <3>1. s.path \in Nat
      BY DEF S!Session
    <3> QED
      BY <2>1, <3>1 DEF S!LoseSession
  <2>2. CASE S!ObexdExit
    BY <2>2 DEF S!ObexdExit, S!Exit
  <2> QED
    BY <1>8, <2>1, <2>2
<1>9. CASE UNCHANGED sessionVars
  BY <1>9 DEF sessionVars
<1> QED
  BY <1>1, <1>2, <1>3, <1>4, <1>5, <1>6, <1>7, <1>8, <1>9 DEF SessionStep

\* Ending owned sessions announces each of them.
LEMMA LossStep ==
    ASSUME None \notin SUBSET Nat, SessionKept, LossKnown, SessionStep
    PROVE  LossKnown'
<1> DEFINE Heard == WP!Elems(signals)
           Safe(s) == s \in live \/ Announced(s)
           HeardNext == WP!Elems(signals')
           SafeNext(s) == s \in live' \/ S!Exit \in HeardNext \/ s.path \in HeardNext
           New == owner[op.target]
<1> USE DEF SessionKept, LossKnown, S!SessionTypeOK
<1>0. SessionKept' /\ op.target \in S!Target
  BY SessionStepKept
\* It suffices that what was safe stays safe, unless the daemon learns of it.
<1>1. ASSUME \A s \in S!Session : Safe(s) => SafeNext(s),
             UNCHANGED <<owner, removed, exited>>, op' = op \/ op'.at \in {"idle", "closing"},
             \A t \in S!Target : session'[t] \in {None, session[t]}
      PROVE  LossKnown'
  <2>1. ASSUME NEW t \in S!Target, session'[t] # None PROVE SafeNext(session'[t])
    <3>1. session'[t] = session[t] /\ session[t] \in S!Session /\ Safe(session[t])
      BY <1>1, <2>1
    <3> QED
      BY <1>1, <3>1
  <2>2. op.at = "publish" => New \in S!Session
    BY <1>0
  <2> QED
    BY <1>0, <1>1, <2>1, <2>2 DEF Announced
<1>1a. ASSUME \A s \in S!Session : Safe(s) => SafeNext(s), session' = session
       PROVE  \A t \in S!Target : session'[t] # None => SafeNext(session'[t])
  <2>1. ASSUME NEW t \in S!Target, session[t] # None PROVE SafeNext(session[t])
    <3>1. session[t] \in S!Session /\ Safe(session[t])
      BY <2>1
    <3> QED
      BY <1>1a, <3>1
  <2> QED
    BY <1>1a, <2>1
<1>2. CASE S!OnSignal
  <2>1. /\ signals \in Seq(Nat) /\ signals # <<>> /\ signals' = Tail(signals)
        /\ UNCHANGED <<owner, op, live>>
    BY <1>2 DEF S!OnSignal
  <2>2. Heard = WP!Elems(signals') \cup {Head(signals)} /\ Head(signals) \in Nat
    BY <2>1, WorkerConstants, WP!HeadTailElems
  <2>3. ASSUME NEW t \in S!Target, session'[t] # None PROVE SafeNext(session'[t])
    <3>1. session'[t] = session[t] /\ Head(signals) \notin {S!Exit, session[t].path}
      BY <1>2, <2>3 DEF S!OnSignal, S!Surviving
    <3>2. session[t] # None /\ Safe(session[t])
      BY <2>3, <3>1
    <3> QED
      BY <2>1, <2>2, <3>1, <3>2 DEF Announced
  <2>4. ASSUME op'.at \in {"create", "publish"} PROVE removed' # None
    BY <1>2, <2>1, <2>2, <2>4 DEF S!OnSignal
  <2>5. ASSUME op'.at = "publish" 
        PROVE  SafeNext(New) \/ exited' \/ New.path \in removed'
    <3>1. removed # None
      BY <2>1, <2>5
    <3>2. CASE Head(signals) = S!Exit
      BY <1>2, <3>1, <3>2 DEF S!OnSignal
    <3>3. CASE Head(signals) = New.path /\ Head(signals) # S!Exit
      BY <1>2, <3>1, <3>3 DEF S!OnSignal
    <3>4. CASE Head(signals) \notin {S!Exit, New.path}
      <4>1. (exited => exited') /\ (New.path \in removed => New.path \in removed')
        BY <1>2, <3>1 DEF S!OnSignal
      <4> QED
        BY <2>1, <2>2, <2>5, <3>4, <4>1 DEF Announced
    <3> QED
      BY <3>2, <3>3, <3>4
  <2> QED
    BY <2>1, <2>3, <2>4, <2>5 DEF Announced
<1>3. CASE S!Forget \/ S!CloseLocally \/ S!CloseEnd
  BY <1>1, <1>3, IdleTyped DEF S!Forget, S!CloseLocally, S!CloseEnd, S!Nothing, Announced
<1>4. CASE S!OpenBegin \/ S!KeepSession \/ S!OpenEnd
  <2>1. UNCHANGED <<session, live, signals>> /\ op'.at # "publish"
    BY <1>0, <1>4, IdleTyped, StepTyped DEF S!OpenBegin, S!KeepSession, S!OpenEnd
  <2>2. op'.at = "create" => removed' # None
    BY <1>0, <1>4, IdleTyped DEF S!OpenBegin, S!KeepSession, S!OpenEnd
  <2> QED
    BY <2>1, <2>2 DEF Announced
<1>5. ASSUME NEW ok \in BOOLEAN, S!CreateSession(ok) PROVE LossKnown'
  <2>1. /\ op.at = "create" /\ session' = session /\ removed' = removed /\ exited' = exited
        /\ signals' = signals \o S!Farewell(op.target)
        /\ live \ {owner[op.target]} \subseteq live'
    BY <1>5 DEF S!CreateSession
  <2>2. /\ Heard \subseteq WP!Elems(signals')
        /\ owner[op.target] \in live => owner[op.target].path \in WP!Elems(signals')
    BY <1>0, <2>1, FarewellAppend
  <2>3. \A s \in S!Session : Safe(s) => SafeNext(s)
    BY <2>1, <2>2 DEF Announced
  <2>4. op'.at = "publish" => owner'[op'.target] \in live'
    <3>1. CASE ok
      <4>1. /\ owner' = [owner EXCEPT ![op.target] = [path |-> nextPath, inc |-> incarnation]]
            /\ [path |-> nextPath, inc |-> incarnation] \in live' /\ op' = [op EXCEPT !.at = "publish"]
        BY <1>5, <3>1 DEF S!CreateSession
      <4>2. op'.target = op.target
        BY <4>1
      <4> QED
        BY <1>0, <4>1, <4>2
    <3>2. CASE ~ok
      BY <1>0, <1>5, <3>2, StepTyped DEF S!CreateSession, S!Failing
    <3> QED
      BY <3>1, <3>2
  <2> QED
    BY <1>1a, <2>1, <2>3, <2>4 DEF Announced
<1>6. CASE S!Publish
  <2>1. CASE exited \/ New.path \in removed
    <3>1. /\ session' = session /\ removed' = removed /\ op'.at # "publish" /\ op.at = "publish"
          /\ signals' = signals \o S!Farewell(op.target)
          /\ live' = live \ {New}
      BY <1>0, <1>6, <2>1, StepTyped DEF S!Publish, S!Failing
    <3>2. /\ Heard \subseteq WP!Elems(signals')
          /\ New \in live => New.path \in WP!Elems(signals')
      BY <1>0, <3>1, FarewellAppend
    <3>3. \A s \in S!Session : Safe(s) => SafeNext(s)
      BY <3>1, <3>2 DEF Announced
    <3> QED
      BY <1>1a, <3>1, <3>3 DEF Announced
  <2>2. CASE ~(exited \/ New.path \in removed)
    <3>1. /\ session' = [session EXCEPT ![op.target] = New] /\ op.at = "publish"
          /\ op'.at # "publish" /\ UNCHANGED <<owner, live, signals, removed>>
      BY <1>0, <1>6, <2>2, StepTyped DEF S!Publish
    <3>2. Safe(New)
      BY <2>2, <3>1
    <3> QED
      BY <1>0, <3>1, <3>2 DEF Announced
  <2> QED
    BY <2>1, <2>2
<1>7. CASE (\E remote \in BOOLEAN : S!CloseBegin(remote)) \/ (op.at = "idle" /\ S!CloseWorkerBus)
  <2>1. op'.at \notin {"create", "publish"} /\ session' = session
    BY <1>7 DEF S!CloseBegin, S!CloseWorkerBus
  <2>2. CASE S!Disown
    <3>1. "MAP" \in S!Target /\ "PBAP" \in S!Target /\ S!Target = {"MAP", "PBAP"}
      BY DEF S!Target
    <3> DEFINE half == signals \o S!Farewell("MAP")
    <3>2. /\ half \in Seq(Nat) /\ Heard \subseteq WP!Elems(half)
          /\ owner["MAP"] \in live => owner["MAP"].path \in WP!Elems(half)
      BY <3>1, FarewellAppend
    <3> HIDE DEF half
    <3>3. /\ WP!Elems(half) \subseteq WP!Elems(half \o S!Farewell("PBAP"))
          /\ owner["PBAP"] \in live => owner["PBAP"].path \in WP!Elems(half \o S!Farewell("PBAP"))
      BY <3>1, <3>2, FarewellAppend
    <3>4. signals' = half \o S!Farewell("PBAP") /\ live' = live \ {owner["MAP"], owner["PBAP"]}
      BY <2>2, <3>1 DEF S!Disown, half
    <3>5. \A s \in S!Session : Safe(s) => SafeNext(s)
      BY <3>2, <3>3, <3>4 DEF Announced
    <3> QED
      BY <1>1a, <2>1, <3>5 DEF Announced
  <2>3. CASE UNCHANGED <<owner, live, signals>>
    BY <2>1, <2>3 DEF Announced
  <2> QED
    BY <1>7, <2>2, <2>3 DEF S!CloseBegin, S!CloseWorkerBus
<1>8. CASE (\E s \in live : S!LoseSession(s)) \/ S!ObexdExit
  <2>1. ASSUME NEW s \in live, S!LoseSession(s) PROVE LossKnown'
    <3>0. s.path \in Nat /\ signals' = Append(signals, s.path) /\ signals \in Seq(Nat)
      BY <2>1 DEF S!LoseSession, S!Session
    <3>1. WP!Elems(signals') = Heard \cup {s.path}
      BY <3>0, WorkerConstants, WP!AppendElems
    <3>2. \A r \in S!Session : Safe(r) => SafeNext(r)
      BY <2>1, <3>1 DEF S!LoseSession, Announced
    <3> QED
      BY <1>1, <2>1, <3>2 DEF S!LoseSession
  <2>2. CASE S!ObexdExit
    <3>0. PICK e \in Nat : e = S!Exit /\ signals' = Append(signals, e) /\ signals \in Seq(Nat)
      BY <2>2 DEF S!ObexdExit, S!Exit
    <3>1. WP!Elems(signals') = Heard \cup {e}
      BY <3>0, WorkerConstants, WP!AppendElems
    <3>2. \A r \in S!Session : Safe(r) => SafeNext(r)
      BY <3>0, <3>1 DEF Announced
    <3> QED
      BY <1>1, <2>2, <3>2 DEF S!ObexdExit
  <2> QED
    BY <1>8, <2>1, <2>2
<1>9. CASE UNCHANGED sessionVars
  BY <1>9 DEF sessionVars, Announced
<1> QED
  BY <1>2, <1>3, <1>4, <1>5, <1>6, <1>7, <1>8, <1>9 DEF SessionStep

LEMMA NextIsSession == [Next]_vars => SessionStep
<1> SUFFICES ASSUME [Next]_vars PROVE SessionStep
  OBVIOUS
<1>1. CASE MainLoop
  <2>1. CASE Signal
    BY <2>1 DEF Signal, SessionStep
  <2>2. CASE OtherFailed
    BY <2>2 DEF OtherFailed, SessionStep
  <2>3. CASE RecoveryPause
    BY <2>3 DEF RecoveryPause, SessionStep
  <2>4. CASE UNCHANGED sessionVars
    BY <2>4 DEF SessionStep
  <2> QED
    BY <1>1, <2>1, <2>2, <2>3, <2>4 DEF MainLoop, Callback, Start, Retry, RetryClose, OtherSubmit,
       Refresh, BluezRestart, RecoveryRetry, ResumeLate, Opened, OpenFailed, Closed, OtherDone,
       RecoveryPending, RecoverySuspended, RecoveryFinished, Stop, CancelPending
<1>2. CASE Thread
  <2>1. CASE StartOpen \/ StepOpen \/ FinishOpen
    BY <2>1 DEF StartOpen, StepOpen, FinishOpen, SessionStep
  <2>2. CASE StartClose
    <3>1. PICK remote \in BOOLEAN : S!CloseBegin(remote)
      <4>1. CASE Head(queue).remote
        BY <2>2, <4>1 DEF StartClose, S!CloseBegin
      <4>2. CASE ~Head(queue).remote
        BY <2>2, <4>2 DEF StartClose, S!CloseBegin
      <4> QED
        BY <4>1, <4>2
    <3> QED
      BY <3>1 DEF SessionStep
  <2>3. CASE FinishClose \/ StartCleanup \/ FinishCleanup \/ CloseBus
    BY <2>3 DEF FinishClose, StartCleanup, FinishCleanup, CloseBus, SessionStep
  <2>4. CASE StartOther \/ FinishOther \/ DropCancelled
    BY <2>4 DEF StartOther, FinishOther, DropCancelled, SessionStep
  <2> QED
    BY <1>2, <2>1, <2>2, <2>3, <2>4 DEF Thread
<1>3. CASE Outage
  BY <1>3 DEF Outage, SessionStep
<1>4. CASE Exited \/ UNCHANGED vars
  BY <1>4 DEF Exited, vars, SessionStep
<1> QED
  BY <1>1, <1>2, <1>3, <1>4 DEF Next

-----------------------------------------------------------------------------
LEMMA SessionKeptInit == Init => SessionKept
<1> SUFFICES ASSUME Init PROVE SessionKept
  OBVIOUS
<1>1. S!Nothing \in [S!Target -> S!Session \cup {None}]
  BY DEF S!Nothing
<1>2. S!SessionTypeOK
  <2>1. <<>> \in Seq(Nat)
    OBVIOUS
  <2> QED
    BY <1>1, <2>1, IdleTyped DEF Init, S!SessionInit, S!SessionTypeOK, OpType
<1> QED
  BY <1>2, IdleTyped DEF Init, S!SessionInit, SessionKept

LEMMA SessionInv == Spec => []SessionKept
<1>1. SessionKept /\ [Next]_vars => SessionKept'
  BY NextIsSession, SessionStepKept
<1> QED
  BY <1>1, SessionKeptInit, PTL DEF Spec, SafetySpec

\* The sessions' removal is never missed (_on_interfaces_removed,
\* _on_name_owner_changed, _publish): a session the daemon believes open exists,
\* or the signal that makes the daemon forget it is still to be dispatched.  The
\* hypothesis says of the model value None that it is no set of paths.
THEOREM LossesHeard ==
    ASSUME None \notin SUBSET Nat
    PROVE  Spec => []NoMissedLoss
<1>1. Init => LossKnown
  BY IdleTyped DEF Init, S!SessionInit, S!Nothing, LossKnown
<1>2. SessionKept /\ LossKnown /\ [Next]_vars => LossKnown'
  BY NextIsSession, LossStep
<1>3. LossKnown => NoMissedLoss
  BY DEF LossKnown, NoMissedLoss, Announced, WP!Elems
<1> QED
  BY <1>1, <1>2, <1>3, SessionInv, PTL DEF Spec, SafetySpec

-----------------------------------------------------------------------------
(***************************************************************************)
(* The supervisor.                                                         *)
(***************************************************************************)

\* The supervisor's own state is well formed.
SupervisorTyped ==
    /\ retry \in Job \cup {None}
    /\ opening \in BOOLEAN /\ closing \in BOOLEAN /\ ready \in BOOLEAN
    /\ stopping \in BOOLEAN /\ paused \in BOOLEAN /\ consumers \in BOOLEAN
    /\ attempted \in BOOLEAN /\ failing \in BOOLEAN /\ leHeld \in BOOLEAN
    /\ generation \in Nat /\ trouble \in Nat
    /\ status \in Statuses
    /\ listener \in S!Session \cup {None}
    /\ recovery \in {"idle", "active", "resumable"}
    /\ openFailed \in S!Target \cup {None}

\* Where open_all() and close_all() are, and what the thread runs.
OpMatches ==
    /\ Runs("open") => op.at \in {"create", "publish", "end"}
    /\ Runs("close") => op.at = "closing"
    /\ Runs("other") \/ Runs("recover") \/ running = None => op.at = "idle"
    /\ smClosing => op.at = "closing"

\* An operation in flight and the flags of the supervisor.
JobKnown(j) ==
    /\ j.kind = "open" => /\ ~j.remote
                          /\ IF closing THEN j.gen < generation
                             ELSE j.gen = generation /\ opening
    /\ j.kind = "close" => j.gen = generation /\ closing /\ retry = None
    /\ j.kind = "other" => j = OtherJob
    /\ j.kind = "recover" => j = RecoverJob

\* No open waits behind a close.
Ordered(s) ==
    \A i, k \in DOMAIN s : s[i].kind = "close" /\ s[k].kind = "open" => k < i

InOrder ==
    /\ Ordered(queue) /\ Ordered(done)
    /\ Runs("close") => \A j \in W!Queued : j.kind # "open"
    /\ (\E j \in W!Finished : j.kind = "close") =>
           /\ \A j \in W!Queued : j.kind # "open"
           /\ ~Runs("open")

\* The flags exclude each other.
FlagsKept ==
    /\ opening => ~closing /\ ~paused /\ ~ready /\ InFlight("open")
    /\ closing => ~ready /\ ~consumers /\ ~attempted /\ ~paused
                  /\ retry # TryOpen /\ (retry # None \/ InFlight("close"))
    /\ ~closing => retry \in {None, TryOpen}
    /\ retry \notin {None, TryOpen} => retry.kind = "close" /\ retry.gen = generation
    /\ paused => ~ready /\ ~consumers
    /\ paused = (recovery # "idle") /\ reserved = (recovery = "active")
    /\ paused => session = S!Nothing
    /\ status = "INITIALIZING" => ~opening /\ ~closing /\ ~paused /\ futures = {}

\* An open of the current generation that has not failed has its sessions.
OpenKeeps ==
    /\ Runs("open") /\ running.gen = generation /\ op.failed = None =>
           /\ op.target = "PBAP" => session["MAP"] # None
           /\ op.at = "end" => BothOpen
    /\ \A j \in W!Finished :
           j.kind = "open" /\ j.gen = generation /\ openFailed = None => BothOpen

\* What is shown and told.
Shown ==
    /\ ready => BothOpen
    /\ (status = "READY") = ready
    /\ listener # None => consumers /\ session["MAP"] = listener
    /\ ~paused => leHeld = ~attempted
    /\ ~paused /\ status # "INITIALIZING" =>
           ready \/ retry # None \/ InFlight("open") \/ InFlight("close")

OneOfAKind == \A j, k \in futures : j.kind = k.kind => j = k

JobsKnown == \A j \in futures : JobKnown(j)

Steady ==
    /\ SupervisorTyped /\ OneOfAKind /\ status # "STOPPING"
    /\ FlagsKept /\ OpenKeeps /\ Shown /\ JobsKnown

Working == phase = "open" /\ OpMatches /\ InOrder /\ Steady

Ended ==
    /\ phase # "open" /\ status = "STOPPING"
    /\ ~ready /\ ~opening /\ ~closing /\ listener = None

SupervisorInv ==
    /\ WP!WorkerInv /\ SupervisorTyped /\ SessionKept /\ OneOfAKind
    /\ ~stopping => Working
    /\ stopping => Ended

-----------------------------------------------------------------------------
(***************************************************************************)
(* The worker's actions, as the supervisor sees them.                      *)
(***************************************************************************)

Reserved == [kind : {"recover"}, gen : Nat, remote : BOOLEAN]

LEMMA SameSubmit == ASSUME NEW j, W!Submit(j) PROVE WP!Submit(j)
BY Zenon DEF W!Submit, WP!Submit, W!Accepts, WP!Accepts, W!Cardinality, WP!Cardinality

LEMMA SameDeliver ==
    ASSUME NEW release, NEW next, W!Deliver(release, next) PROVE WP!Deliver(release, next)
BY Zenon DEF W!Deliver, WP!Deliver, W!Accepts, WP!Accepts, W!Cardinality, WP!Cardinality

LEMMA SameActions ==
    /\ \A j : W!ReserveAndSubmit(j) => WP!ReserveAndSubmit(j)
    /\ \A j : W!Cancel(j) => WP!Cancel(j)
    /\ W!Shutdown => WP!Shutdown
    /\ W!SubmitCleanup => WP!SubmitCleanup
    /\ W!Start => WP!Start
    /\ W!Skip => WP!Skip
    /\ W!Finish => WP!Finish
    /\ W!Stopped => WP!Stopped
BY Zenon DEF W!ReserveAndSubmit, WP!ReserveAndSubmit, W!Cancel, WP!Cancel, W!Shutdown, WP!Shutdown,
   W!SubmitCleanup, WP!SubmitCleanup, W!Start, WP!Start, W!Skip, WP!Skip, W!Finish, WP!Finish,
   W!Stopped, WP!Stopped

LEMMA WorkerFacts ==
    ASSUME WP!WorkerInv
    PROVE  /\ queue \in Seq(Job \cup {Cleanup}) /\ done \in Seq(Job)
           /\ running \in Job \cup {Cleanup, None} /\ futures \subseteq Job
           /\ reserved \in BOOLEAN
           /\ W!Finished \subseteq futures /\ (running \in Job => running \in futures)
           /\ futures \subseteq W!Queued \cup {running} \cup W!Finished
           /\ phase = "open" => W!Queued \subseteq futures /\ running # Cleanup
           /\ running \notin W!Finished
           /\ W!Queued \cap ({running} \cup W!Finished) = {}
           /\ \A j \in futures : (j.kind = "recover") = reserved
<1> USE SupervisorAssumption DEF WP!WorkerInv
<1>1. W!Finished = WP!Finished /\ W!Queued = WP!Queued
  BY DEF W!Finished, WP!Finished, W!Queued, WP!Queued
<1>2. W!Finished \subseteq Job
  BY DEF WP!WorkerTypeOK, W!Finished
<1>3. /\ queue \in Seq(Job \cup {Cleanup}) /\ done \in Seq(Job)
      /\ running \in Job \cup {Cleanup, None} /\ futures \subseteq Job /\ reserved \in BOOLEAN
  BY DEF WP!WorkerTypeOK
<1>4. /\ W!Finished \subseteq futures /\ (running \in Job => running \in futures)
      /\ futures \subseteq W!Queued \cup {running} \cup W!Finished
      /\ phase = "open" => W!Queued \subseteq futures
      /\ running \notin W!Finished
      /\ W!Queued \cap ({running} \cup W!Finished) = {}
  BY <1>1, <1>2 DEF WP!FuturesExact
<1>5. phase = "open" => running # Cleanup
  BY DEF WP!ShutdownOrder
<1>6. ASSUME NEW j \in futures PROVE (j.kind = "recover") = reserved
  <2>1. (j \in Reserved) = reserved
    BY DEF WP!ReservationExclusive, Reserved
  <2>2. (j \in Reserved) = (j.kind = "recover")
    BY <1>3 DEF Job, Reserved, Kinds
  <2> QED
    BY <2>1, <2>2
<1> QED
  BY <1>3, <1>4, <1>5, <1>6

\* Appending to, and taking from, a sequence in which no open follows a close.
LEMMA OrderedAppend ==
    ASSUME NEW T, NEW s \in Seq(T), NEW e \in T, Ordered(s),
           e.kind = "open" => \A i \in DOMAIN s : s[i].kind # "close"
    PROVE  Ordered(Append(s, e))
<1>1. /\ DOMAIN Append(s, e) = 1 .. Len(s) + 1 /\ DOMAIN s = 1 .. Len(s) /\ Len(s) \in Nat
      /\ \A i \in 1 .. Len(s) : Append(s, e)[i] = s[i]
      /\ Append(s, e)[Len(s) + 1] = e
  OBVIOUS
<1> QED
  BY <1>1 DEF Ordered

LEMMA OrderedTail ==
    ASSUME NEW T, NEW s \in Seq(T), s # <<>>, Ordered(s)
    PROVE  /\ Ordered(Tail(s))
           /\ Head(s).kind = "close" => \A i \in DOMAIN s : s[i].kind # "open"
<1>1. /\ DOMAIN Tail(s) = 1 .. Len(s) - 1 /\ DOMAIN s = 1 .. Len(s) /\ Len(s) \in Nat \ {0}
      /\ \A i \in 1 .. Len(s) - 1 : Tail(s)[i] = s[i + 1]
      /\ Head(s) = s[1]
  OBVIOUS
<1>2. \A i \in 1 .. Len(s) - 1 : i + 1 \in 1 .. Len(s)
  BY <1>1
<1> QED
  BY <1>1, <1>2 DEF Ordered

\* An accepted operation is queued last.
LEMMA SubmitEffect ==
    ASSUME WP!WorkerInv, phase = "open", NEW j \in Job, W!Submit(j)
    PROVE  /\ j \notin futures /\ futures' = futures \cup {j}
           /\ W!Queued' = W!Queued \cup {j} /\ W!Finished' = W!Finished
           /\ UNCHANGED <<running, done, reserved, phase>>
           /\ (j.kind = "recover") = reserved
           /\ Ordered(queue) /\ (j.kind = "open" => \A k \in W!Queued : k.kind # "close")
                => Ordered(queue')
<1>1. /\ j \notin futures /\ futures' = futures \cup {j} /\ queue' = Append(queue, j)
      /\ UNCHANGED <<running, done, reserved, phase>>
  BY DEF W!Submit
<1>2. queue \in Seq(Job \cup {Cleanup})
  BY WorkerFacts
<1>3. W!Queued = WP!Elems(queue) /\ W!Queued' = WP!Elems(queue') /\ W!Finished' = W!Finished
  BY <1>1 DEF W!Queued, W!Finished, WP!Elems
<1>4. W!Queued' = W!Queued \cup {j}
  BY <1>1, <1>2, <1>3, WorkerConstants, WP!AppendElems
<1>5. (j.kind = "recover") = reserved
  <2>1. (j \in Reserved) = reserved
    BY DEF W!Submit, W!Accepts, Reserved
  <2>2. (j \in Reserved) = (j.kind = "recover")
    BY DEF Job, Reserved, Kinds
  <2> QED
    BY <2>1, <2>2
<1>6. ASSUME Ordered(queue), j.kind = "open" => \A k \in W!Queued : k.kind # "close"
      PROVE  Ordered(queue')
  <2>1. j.kind = "open" => \A i \in DOMAIN queue : queue[i].kind # "close"
    BY <1>6 DEF W!Queued
  <2> QED
    BY <1>1, <1>2, <1>6, <2>1, OrderedAppend
<1> QED
  BY <1>1, <1>3, <1>4, <1>5, <1>6

\* The oldest finished operation is delivered; its callback submitted next.
LEMMA DeliverEffect ==
    ASSUME WP!WorkerInv, NEW release \in BOOLEAN, NEW next,
           next = {} \/ \E j \in Job : next = {j},
           W!Deliver(release, next)
    PROVE  /\ Head(done) \in W!Finished /\ Head(done) \in futures /\ Head(done) \in Job
           /\ futures' = (futures \ {Head(done)}) \cup next /\ next \cap futures = {}
           /\ W!Finished' = W!Finished \ {Head(done)} /\ W!Queued' = W!Queued \cup next
           /\ reserved' = (reserved /\ ~release)
           /\ UNCHANGED <<running, phase>>
           /\ Ordered(done) => Ordered(done')
           /\ Ordered(done) /\ Head(done).kind = "close" => \A j \in W!Finished : j.kind # "open"
           /\ Ordered(queue) /\ (\A j \in next : j.kind # "open") => Ordered(queue')
<1>1. /\ queue \in Seq(Job \cup {Cleanup}) /\ done \in Seq(Job) /\ WP!Distinct(done)
      /\ W!Finished \subseteq futures
  BY WorkerFacts DEF WP!WorkerInv
<1>2. /\ done # <<>> /\ done' = Tail(done) /\ UNCHANGED <<running, phase>>
      /\ reserved' = (reserved /\ ~release)
      /\ futures' = (futures \ {Head(done)}) \cup next /\ next \cap futures = {}
  BY DEF W!Deliver
<1>3. /\ W!Queued = WP!Elems(queue) /\ W!Queued' = WP!Elems(queue')
      /\ W!Finished = WP!Elems(done) /\ W!Finished' = WP!Elems(done')
  BY DEF W!Queued, W!Finished, WP!Elems
<1>4. /\ Head(done) \in Job /\ WP!Elems(done) = WP!Elems(Tail(done)) \cup {Head(done)}
      /\ Head(done) \notin WP!Elems(Tail(done))
  BY <1>1, <1>2, WorkerConstants, WP!HeadTailElems
<1>5. /\ Ordered(done) => Ordered(done')
      /\ Ordered(done) /\ Head(done).kind = "close" => \A j \in W!Finished : j.kind # "open"
  BY <1>1, <1>2, OrderedTail DEF W!Finished
<1>6. /\ W!Queued' = W!Queued \cup next
      /\ Ordered(queue) /\ (\A j \in next : j.kind # "open") => Ordered(queue')
  <2>1. CASE next = {}
    BY <1>3, <2>1 DEF W!Deliver
  <2>2. ASSUME NEW j \in Job, next = {j}
        PROVE  /\ W!Queued' = W!Queued \cup next
               /\ Ordered(queue) /\ (\A k \in next : k.kind # "open") => Ordered(queue')
    <3>1. queue' = Append(queue, j)
      BY <2>2 DEF W!Deliver
    <3> QED
      BY <1>1, <1>3, <2>2, <3>1, WorkerConstants, WP!AppendElems, OrderedAppend
  <2> QED
    BY <2>1, <2>2
<1> QED
  BY <1>1, <1>2, <1>3, <1>4, <1>5, <1>6

\* The thread takes the oldest operation.
LEMMA StartEffect ==
    ASSUME WP!WorkerInv, phase = "open", W!Start
    PROVE  /\ running = None /\ running' = Head(queue) /\ running' \in futures /\ running' \in Job
           /\ running' \in W!Queued
           /\ W!Queued' = W!Queued \ {running'} /\ W!Finished' = W!Finished
           /\ UNCHANGED <<done, futures, reserved, phase>>
           /\ Ordered(queue) => Ordered(queue')
           /\ Ordered(queue) /\ running'.kind = "close" => \A j \in W!Queued : j.kind # "open"
<1>1. /\ queue \in Seq(Job \cup {Cleanup}) /\ WP!Distinct(queue)
      /\ W!Queued \subseteq futures /\ futures \subseteq Job
  BY WorkerFacts DEF WP!WorkerInv
<1>2. /\ running = None /\ running' = Head(queue) /\ queue # <<>> /\ queue' = Tail(queue)
      /\ UNCHANGED <<done, futures, reserved, phase>>
  BY DEF W!Start
<1>3. W!Queued = WP!Elems(queue) /\ W!Queued' = WP!Elems(queue') /\ W!Finished' = W!Finished
  BY <1>2 DEF W!Queued, W!Finished, WP!Elems
<1>4. /\ WP!Elems(queue) = WP!Elems(Tail(queue)) \cup {Head(queue)}
      /\ Head(queue) \notin WP!Elems(Tail(queue))
  BY <1>1, <1>2, WorkerConstants, WP!HeadTailElems
<1>5. /\ Ordered(queue) => Ordered(queue')
      /\ Ordered(queue) /\ Head(queue).kind = "close" => \A j \in W!Queued : j.kind # "open"
  BY <1>1, <1>2, OrderedTail DEF W!Queued
<1> QED
  BY <1>1, <1>2, <1>3, <1>4, <1>5

\* An operation ends and its completion is posted.
LEMMA FinishEffect ==
    ASSUME WP!WorkerInv, W!Finish
    PROVE  /\ running \in Job /\ running' = None
           /\ W!Finished' = W!Finished \cup {running} /\ W!Queued' = W!Queued
           /\ UNCHANGED <<queue, futures, reserved, phase>>
           /\ Ordered(done) /\ (running.kind = "open" => \A j \in W!Finished : j.kind # "close")
                => Ordered(done')
<1>1. done \in Seq(Job)
  BY WorkerFacts
<1>2. /\ running \in Job /\ running' = None /\ done' = Append(done, running)
      /\ UNCHANGED <<queue, futures, reserved, phase>>
  BY DEF W!Finish
<1>3. W!Finished = WP!Elems(done) /\ W!Finished' = WP!Elems(done') /\ W!Queued' = W!Queued
  BY <1>2 DEF W!Queued, W!Finished, WP!Elems
<1>4. W!Finished' = W!Finished \cup {running}
  BY <1>1, <1>2, <1>3, WorkerConstants, WP!AppendElems
<1>5. ASSUME Ordered(done), running.kind = "open" => \A j \in W!Finished : j.kind # "close"
      PROVE  Ordered(done')
  <2>1. running.kind = "open" => \A i \in DOMAIN done : done[i].kind # "close"
    BY <1>5 DEF W!Finished
  <2> QED
    BY <1>1, <1>2, <1>5, <2>1, OrderedAppend
<1> QED
  BY <1>2, <1>3, <1>4, <1>5

\* Nothing cancelled waits in the queue before shutdown.
LEMMA SkipEffect ==
    ASSUME WP!WorkerInv, W!Skip PROVE phase # "open"
<1>1. ASSUME phase = "open" PROVE FALSE
  <2>1. queue \in Seq(Job \cup {Cleanup}) /\ queue # <<>> /\ Head(queue) \notin futures
    BY WorkerFacts DEF W!Skip
  <2>2. Head(queue) \in W!Queued
    BY <2>1 DEF W!Queued
  <2> QED
    BY <1>1, <2>1, <2>2, WorkerFacts
<1> QED
  BY <1>1

-----------------------------------------------------------------------------
(***************************************************************************)
(* The order of the worker's operations.                                   *)
(***************************************************************************)

LEMMA SubmitInOrder ==
    ASSUME WP!WorkerInv, phase = "open", InOrder, NEW j \in Job, W!Submit(j),
           j.kind = "open" => \A k \in futures : k.kind # "close"
    PROVE  InOrder'
<1>1. /\ W!Queued' = W!Queued \cup {j} /\ W!Finished' = W!Finished
      /\ UNCHANGED <<running, done>>
      /\ Ordered(queue) /\ (j.kind = "open" => \A k \in W!Queued : k.kind # "close")
           => Ordered(queue')
  BY SubmitEffect
<1>2. /\ W!Finished \subseteq futures /\ W!Queued \subseteq futures
      /\ running \in Job => running \in futures
      /\ running \in Job \cup {Cleanup, None}
  BY WorkerFacts
<1>3. Ordered(queue') /\ Ordered(done')
  BY <1>1, <1>2 DEF InOrder, Ordered
<1> QED
  BY <1>1, <1>2, <1>3 DEF InOrder, Runs

LEMMA DeliverInOrder ==
    ASSUME WP!WorkerInv, InOrder, NEW release \in BOOLEAN, NEW next,
           next = {} \/ \E j \in Job : next = {j}, \A j \in next : j.kind # "open",
           W!Deliver(release, next)
    PROVE  InOrder'
<1>1. /\ W!Finished' = W!Finished \ {Head(done)} /\ W!Queued' = W!Queued \cup next
      /\ running' = running
      /\ Ordered(done) => Ordered(done')
      /\ Ordered(queue) /\ (\A j \in next : j.kind # "open") => Ordered(queue')
  BY DeliverEffect
<1> QED
  BY <1>1 DEF InOrder, Runs

LEMMA StartInOrder ==
    ASSUME WP!WorkerInv, phase = "open", InOrder, W!Start
    PROVE  InOrder'
<1>1. /\ running' \in W!Queued
      /\ W!Queued' = W!Queued \ {running'} /\ W!Finished' = W!Finished /\ done' = done
      /\ Ordered(queue) => Ordered(queue')
      /\ Ordered(queue) /\ running'.kind = "close" => \A j \in W!Queued : j.kind # "open"
  BY StartEffect
<1>2. Ordered(done')
  BY <1>1 DEF InOrder
<1> QED
  BY <1>1, <1>2 DEF InOrder, Runs

LEMMA FinishInOrder ==
    ASSUME WP!WorkerInv, InOrder, W!Finish
    PROVE  InOrder'
<1>1. /\ running \in Job /\ running' = None
      /\ W!Finished' = W!Finished \cup {running} /\ W!Queued' = W!Queued /\ queue' = queue
      /\ Ordered(done) /\ (running.kind = "open" => \A j \in W!Finished : j.kind # "close")
           => Ordered(done')
  BY FinishEffect
<1>2. running \notin {None, Cleanup}
  BY <1>1, SupervisorAssumption
<1>3. Ordered(queue')
  BY <1>1 DEF InOrder
<1> QED
  BY <1>1, <1>2, <1>3 DEF InOrder, Runs

LEMMA SameInOrder ==
    ASSUME InOrder, UNCHANGED workerVars
    PROVE  InOrder'
BY DEF InOrder, Ordered, Runs, workerVars, W!Queued, W!Finished

-----------------------------------------------------------------------------
(***************************************************************************)
(* reconnect(): every caller leaves the supervisor with a close of the new *)
(* generation in flight or to be submitted.                                *)
(***************************************************************************)

LEMMA JobTypes ==
    ASSUME SupervisorTyped
    PROVE  /\ OpenJob \in Job /\ OpenJob.kind = "open" /\ OpenJob.gen = generation /\ ~OpenJob.remote
           /\ TryOpen \in Job /\ TryOpen.kind = "open"
           /\ OtherJob \in Job /\ OtherJob.kind = "other"
           /\ RecoverJob \in Job /\ RecoverJob.kind = "recover"
           /\ \A remote \in BOOLEAN :
                 /\ CloseJob(remote) \in Job /\ CloseJob(remote).kind = "close"
                 /\ CloseJob(remote).gen = generation + 1
BY DEF SupervisorTyped, OpenJob, TryOpen, OtherJob, RecoverJob, CloseJob, Job, Kinds

\* What reconnect() submits while the reservation is res.
Closing(remote, res) == IF W!Accepts(CloseJob(remote), res) THEN {CloseJob(remote)} ELSE {}

LEMMA DiscardSteady ==
    ASSUME SupervisorInv, ~stopping, ~closing,
           NEW remote \in BOOLEAN, NEW res, NEW held, Discard(remote, res, held),
           held \/ attempted \/ ~opening,
           futures' \subseteq futures \cup Closing(remote, res),
           Closing(remote, res) \subseteq futures',
           W!Finished' \subseteq W!Finished,
           reserved' = FALSE, recovery' = "idle", paused' = FALSE,
           UNCHANGED <<running, op, openFailed>>, trouble' \in Nat,
           \A t \in S!Target : session'[t] \in {None, session[t]}
    PROVE  Steady' /\ stopping' = stopping
<1> USE SupervisorAssumption
<1>1. /\ SupervisorTyped /\ FlagsKept /\ OpenKeeps /\ Shown /\ JobsKnown /\ OneOfAKind
      /\ WP!WorkerInv /\ SessionKept
  BY DEF SupervisorInv, Working, Steady
<1>2. /\ generation' = generation + 1 /\ status' = "RECONNECTING" /\ ready' = FALSE
      /\ opening' = FALSE /\ closing' = TRUE /\ consumers' = FALSE
      /\ retry' = IF W!Accepts(CloseJob(remote), res) THEN None ELSE CloseJob(remote)
      /\ UNCHANGED <<stopping, failing>>
      /\ listener' = IF consumers THEN None ELSE listener
      /\ attempted' = FALSE /\ leHeld' = (held \/ attempted \/ ~opening)
  BY DEF Discard, DiscardState, BeginAttemptCycle
<1>3. listener' = None /\ leHeld' = TRUE
  BY <1>1, <1>2 DEF Shown
<1>4. /\ CloseJob(remote) \in Job /\ CloseJob(remote).kind = "close"
      /\ CloseJob(remote).gen = generation' /\ generation \in Nat
      /\ CloseJob(remote) # None /\ CloseJob(remote) # TryOpen /\ TryOpen # None
  BY <1>1, <1>2, JobTypes DEF SupervisorTyped
<1>5. futures \subseteq Job /\ W!Finished \subseteq futures /\ (running \in Job => running \in futures)
      /\ running \in Job \cup {Cleanup, None}
  BY <1>1, WorkerFacts
<1>6. SupervisorTyped'
  <2>1. retry' \in Job \cup {None}
    BY <1>2, <1>4
  <2>2. status' \in Statuses /\ generation' \in Nat
    BY <1>2, <1>4 DEF Statuses
  <2> QED
    BY <1>1, <1>2, <1>3, <2>1, <2>2 DEF SupervisorTyped
<1>7. \A j \in futures : j.kind # "close" /\ (j.kind = "open" => j.gen = generation /\ ~j.remote)
  BY <1>1 DEF JobsKnown, JobKnown
<1>8. JobsKnown'
  <2> SUFFICES ASSUME NEW j \in futures' PROVE JobKnown(j)'
    BY DEF JobsKnown
  <2>1. CASE j \in futures
    BY <1>1, <1>2, <1>4, <1>7, <2>1 DEF JobsKnown, JobKnown, OtherJob, RecoverJob
  <2>2. CASE j \in Closing(remote, res)
    BY <1>2, <1>4, <2>2 DEF Closing, JobKnown
  <2> QED
    BY <2>1, <2>2
<1>9. OneOfAKind'
  BY <1>1, <1>4, <1>7 DEF OneOfAKind, Closing
<1>10. retry' # None \/ InFlight("close")'
  BY <1>2, <1>4 DEF InFlight, Closing
<1>11. FlagsKept'
  <2>1. retry' # TryOpen /\ (retry' # None => retry'.kind = "close" /\ retry'.gen = generation')
    BY <1>2, <1>4
  <2> QED
    BY <1>2, <1>10, <2>1 DEF FlagsKept
<1>12. OpenKeeps'
  <2>1. \A j \in futures : j.kind = "open" => j.gen # generation'
    BY <1>2, <1>4, <1>7
  <2> QED
    BY <1>5, <2>1 DEF OpenKeeps, Runs
<1>13. Shown'
  BY <1>2, <1>3, <1>10 DEF Shown
<1> QED
  BY <1>2, <1>6, <1>8, <1>9, <1>11, <1>12, <1>13 DEF Steady

\* A step that leaves the supervisor's flags alone: it may drop or add
\* operations of others, drop an open that is stale, and change the sessions
\* where nobody relies on them.
LEMMA FrameSteady ==
    ASSUME SupervisorInv, ~stopping,
           UNCHANGED <<retry, opening, closing, ready, stopping, paused, generation, consumers,
                       attempted, status, failing, listener>>,
           leHeld' = leHeld \/ ((closing \/ paused) /\ leHeld' = TRUE),
           recovery' \in {"idle", "active", "resumable"},
           paused = (recovery' # "idle"), reserved' = (recovery' = "active"),
           \A j \in futures' : j \in futures \cup {OtherJob, RecoverJob},
           \A j \in futures : j.kind = "close" \/ (j.kind = "open" /\ ~closing) => j \in futures',
           status = "INITIALIZING" => futures' = futures,
           trouble' \in Nat, openFailed' \in S!Target \cup {None},
           OpenKeeps', ready => BothOpen',
           listener # None => session'["MAP"] = listener, paused => session' = S!Nothing
    PROVE  Steady'
<1> USE SupervisorAssumption
<1>1. /\ SupervisorTyped /\ FlagsKept /\ Shown /\ JobsKnown /\ OneOfAKind /\ status # "STOPPING"
  BY DEF SupervisorInv, Working, Steady
<1>2. SupervisorTyped'
  <2>1. leHeld' \in BOOLEAN
    BY <1>1 DEF SupervisorTyped
  <2> QED
    BY <1>1, <2>1 DEF SupervisorTyped
<1>3. OtherJob.kind = "other" /\ RecoverJob.kind = "recover"
  BY <1>1, JobTypes
<1>4. JobsKnown'
  <2> SUFFICES ASSUME NEW j \in futures' PROVE JobKnown(j)'
    BY DEF JobsKnown
  <2>1. CASE j \in futures
    BY <1>1, <2>1 DEF JobsKnown, JobKnown
  <2>2. CASE j \in {OtherJob, RecoverJob}
    BY <1>3, <2>2 DEF JobKnown
  <2> QED
    BY <2>1, <2>2
<1>5. OneOfAKind'
  <2> SUFFICES ASSUME NEW j \in futures', NEW k \in futures', j.kind = k.kind PROVE j = k
    BY DEF OneOfAKind
  <2>1. CASE j \in futures /\ k \in futures
    BY <1>1, <2>1 DEF OneOfAKind
  <2>2. CASE j.kind \in {"other", "recover"}
    BY <1>4, <2>2 DEF JobsKnown, JobKnown
  <2> QED
    BY <1>3, <2>1, <2>2
<1>6. /\ InFlight("close") => InFlight("close")'
      /\ InFlight("open") /\ ~closing => InFlight("open")'
  BY DEF InFlight
<1>7. FlagsKept'
  BY <1>1, <1>6 DEF FlagsKept
<1>8. Shown'
  <2>1. ~paused => leHeld' = ~attempted
    BY <1>1 DEF FlagsKept, Shown, SupervisorTyped
  <2>2. ~paused /\ status # "INITIALIZING" =>
           ready \/ retry # None \/ InFlight("open")' \/ InFlight("close")'
    BY <1>1, <1>6 DEF FlagsKept, Shown
  <2> QED
    BY <1>1, <2>1, <2>2 DEF Shown
<1> QED
  BY <1>1, <1>2, <1>4, <1>5, <1>7, <1>8 DEF Steady

\* What an open found out holds until its sessions or its generation change.
LEMMA SameOpenKeeps ==
    ASSUME OpenKeeps, UNCHANGED <<running, op, openFailed, generation, session>>,
           W!Finished' \subseteq W!Finished
    PROVE  OpenKeeps'
BY DEF OpenKeeps, Runs, BothOpen

\* Sessions forgotten while the supervisor is closing or paused change nothing
\* it goes by.
LEMMA QuietSteady ==
    ASSUME SupervisorInv, ~stopping, SessionKept',
           closing \/ paused \/ session' = session,
           \A t \in S!Target : session'[t] \in {None, session[t]},
           UNCHANGED <<retry, opening, closing, ready, stopping, paused, generation, consumers,
                       attempted, status, failing, listener>>,
           leHeld' = leHeld \/ ((closing \/ paused) /\ leHeld' = TRUE),
           UNCHANGED <<reserved, running, op, recovery, openFailed>>,
           \A j \in futures' : j \in futures \cup {OtherJob, RecoverJob},
           \A j \in futures : j.kind = "close" \/ (j.kind = "open" /\ ~closing) => j \in futures',
           status = "INITIALIZING" => futures' = futures,
           W!Finished' \subseteq W!Finished, trouble' \in Nat
    PROVE  Steady'
<1> USE SupervisorAssumption
<1>1. /\ SupervisorTyped /\ FlagsKept /\ OpenKeeps /\ Shown /\ JobsKnown
      /\ WP!WorkerInv /\ SessionKept
  BY DEF SupervisorInv, Working, Steady
<1>2. /\ futures \subseteq Job /\ W!Finished \subseteq futures
      /\ (running \in Job => running \in futures)
      /\ running \in Job \cup {Cleanup, None}
  BY <1>1, WorkerFacts
<1>3. paused => session' = S!Nothing
  <2>1. ASSUME paused PROVE session' = S!Nothing
    <3>1. \A t \in S!Target : session'[t] = None
      BY <1>1, <2>1 DEF FlagsKept, S!Nothing
    <3> QED
      BY <1>1, <3>1 DEF S!Nothing, SessionKept, S!SessionTypeOK
  <2> QED
    BY <2>1
<1>4. OpenKeeps'
  <2>1. CASE session' = session
    BY <1>1, <2>1, SameOpenKeeps
  <2>2. CASE closing \/ paused
    <3>1. \A j \in futures : j.kind = "open" => j.gen # generation
      BY <1>1, <2>2 DEF JobsKnown, JobKnown, FlagsKept, SupervisorTyped
    <3> QED
      BY <1>2, <3>1 DEF OpenKeeps, Runs
  <2> QED
    BY <2>1, <2>2
<1>5. (ready => BothOpen') /\ (listener # None => session'["MAP"] = listener)
  <2>1. CASE session' = session
    BY <1>1, <2>1 DEF Shown, BothOpen
  <2>2. CASE closing \/ paused
    BY <1>1, <2>2 DEF FlagsKept, Shown
  <2> QED
    BY <2>1, <2>2
<1>6. /\ paused = (recovery' # "idle") /\ reserved' = (recovery' = "active")
      /\ recovery' \in {"idle", "active", "resumable"} /\ openFailed' \in S!Target \cup {None}
  BY <1>1 DEF FlagsKept, SupervisorTyped
<1> QED
  BY <1>3, <1>4, <1>5, <1>6, FrameSteady

\* reconnect() outside a completion callback.
LEMMA ReconnectSteady ==
    ASSUME SupervisorInv, SessionKept', ~stopping,
           NEW remote \in BOOLEAN, NEW held, held = leHeld \/ held = TRUE,
           ReconnectNow(remote, held),
           \A t \in S!Target : session'[t] \in {None, session[t]},
           UNCHANGED <<op, smClosing, recovery, openFailed>>,
           ReconnectIgnored => closing \/ paused \/ session' = session,
           trouble' \in Nat
    PROVE  Steady' /\ InOrder' /\ UNCHANGED <<running, phase, stopping>>
<1>1. /\ SupervisorTyped /\ FlagsKept /\ Shown /\ WP!WorkerInv /\ phase = "open" /\ InOrder
  BY DEF SupervisorInv, Working, Steady
<1>2. CASE ReconnectIgnored
  <2>1. /\ UNCHANGED workerVars /\ leHeld' = held
        /\ UNCHANGED <<retry, opening, closing, ready, stopping, paused, generation, consumers,
                       attempted, status, failing, listener>>
    BY <1>2 DEF ReconnectNow, Reconnect, SubmitAll, ReconnectSubmits
  <2>2. UNCHANGED <<futures, reserved, running, phase>> /\ W!Finished' = W!Finished
    BY <2>1 DEF workerVars, W!Finished
  <2>3. closing \/ paused
    BY <1>2 DEF ReconnectIgnored
  <2>4. Steady'
    <3>1. W!Finished' \subseteq W!Finished /\ (\A j \in futures' : j \in futures \cup {OtherJob, RecoverJob})
      BY <2>2
    <3> QED
      BY <2>1, <2>2, <2>3, <3>1, QuietSteady
  <2> QED
    BY <1>1, <2>1, <2>2, <2>4, SameInOrder
<1>3. CASE ~ReconnectIgnored
  <2>1. ~closing /\ ~paused /\ Discard(remote, reserved, held) /\ paused' = paused
    BY <1>3 DEF ReconnectNow, Reconnect, ReconnectIgnored
  <2>2. reserved = FALSE /\ recovery = "idle" /\ (held \/ attempted \/ ~opening)
    BY <1>1, <2>1 DEF FlagsKept, Shown, SupervisorTyped
  <2>3. ReconnectSubmits(remote, reserved) = Closing(remote, reserved)
    BY <1>3 DEF ReconnectSubmits, Closing
  <2>4. CASE W!Accepts(CloseJob(remote), reserved)
    <3>1. Closing(remote, reserved) = {CloseJob(remote)} /\ W!Submit(CloseJob(remote))
      BY <2>3, <2>4 DEF Closing, ReconnectNow, SubmitAll
    <3>2. CloseJob(remote) \in Job /\ CloseJob(remote).kind = "close"
      BY <1>1, JobTypes
    <3>3. /\ futures' = futures \cup {CloseJob(remote)} /\ W!Finished' = W!Finished
          /\ UNCHANGED <<running, reserved, phase>>
      BY <1>1, <3>1, <3>2, SubmitEffect
    <3>4. InOrder'
      BY <1>1, <3>1, <3>2, SubmitInOrder
    <3>5. Steady' /\ stopping' = stopping
      <4>1. /\ futures' \subseteq futures \cup Closing(remote, reserved)
            /\ Closing(remote, reserved) \subseteq futures' /\ W!Finished' \subseteq W!Finished
            /\ reserved' = FALSE /\ recovery' = "idle" /\ paused' = FALSE
            /\ UNCHANGED <<running, op, openFailed>>
        BY <1>1, <2>1, <2>2, <3>1, <3>3 DEF SupervisorTyped
      <4> QED
        BY <2>1, <2>2, <4>1, DiscardSteady
    <3> QED
      BY <3>3, <3>4, <3>5
  <2>5. CASE ~W!Accepts(CloseJob(remote), reserved)
    <3>1. Closing(remote, reserved) = {} /\ UNCHANGED workerVars
      BY <2>3, <2>5 DEF Closing, ReconnectNow, SubmitAll
    <3>2. UNCHANGED <<futures, reserved, running, phase>> /\ W!Finished' = W!Finished
      BY <3>1 DEF workerVars, W!Finished
    <3>3. Steady' /\ stopping' = stopping
      <4>1. /\ futures' \subseteq futures \cup Closing(remote, reserved)
            /\ Closing(remote, reserved) \subseteq futures' /\ W!Finished' \subseteq W!Finished
            /\ reserved' = FALSE /\ recovery' = "idle" /\ paused' = FALSE
            /\ UNCHANGED <<running, op, openFailed>>
        BY <1>1, <2>1, <2>2, <3>1, <3>2 DEF SupervisorTyped
      <4> QED
        BY <2>1, <2>2, <4>1, DiscardSteady
    <3> QED
      BY <1>1, <3>1, <3>2, <3>3, SameInOrder
  <2> QED
    BY <2>4, <2>5
<1> QED
  BY <1>2, <1>3

-----------------------------------------------------------------------------
(***************************************************************************)
(* Main-loop handlers.                                                     *)
(***************************************************************************)

LEMMA SameOpMatches ==
    ASSUME OpMatches, UNCHANGED <<running, op, smClosing>>
    PROVE  OpMatches'
BY DEF OpMatches, Runs

\* While close_all() runs, the supervisor is closing.
LEMMA ClosingKnown ==
    ASSUME SupervisorInv, ~stopping, op.at = "closing" \/ smClosing
    PROVE  closing
<1> USE SupervisorAssumption
<1>1. WP!WorkerInv /\ OpMatches /\ JobsKnown /\ phase = "open"
  BY DEF SupervisorInv, Working, Steady
<1>2. /\ running \in Job \cup {None} /\ (running \in Job => running \in futures)
  BY <1>1, WorkerFacts
<1>3. running \in Job => running.kind \in Kinds
  BY DEF Job
<1>4. running \in Job /\ running.kind = "close"
  BY <1>1, <1>2, <1>3 DEF OpMatches, Runs, Kinds
<1> QED
  BY <1>1, <1>2, <1>4 DEF JobsKnown, JobKnown

LEMMA SignalWorks ==
    ASSUME SupervisorInv, SessionKept', ~stopping, Signal
    PROVE  Working' /\ stopping' = stopping
<1>1. /\ SupervisorTyped /\ OpMatches /\ InOrder /\ phase = "open" /\ FlagsKept /\ SessionKept
  BY DEF SupervisorInv, Working, Steady
<1>2. /\ session' = S!Surviving /\ UNCHANGED <<op, smClosing, recovery, openFailed, trouble>>
  BY DEF Signal, S!OnSignal
<1>3. \A t \in S!Target : session'[t] \in {None, session[t]}
  BY <1>2 DEF S!Surviving
<1>4. trouble' \in Nat
  BY <1>1, <1>2 DEF SupervisorTyped
<1>5. CASE S!Notifies
  <2>1. ReconnectNow(FALSE, leHeld)
    BY <1>5 DEF Signal
  <2>2. ReconnectIgnored => closing \/ paused \/ session' = session
    BY DEF ReconnectIgnored
  <2>3. Steady' /\ InOrder' /\ UNCHANGED <<running, phase, stopping>>
    BY <1>2, <1>3, <1>4, <2>1, <2>2, ReconnectSteady
  <2> QED
    BY <1>1, <1>2, <2>3, SameOpMatches DEF Working
<1>6. CASE ~S!Notifies
  <2>1. UNCHANGED <<supervisorVars, workerVars>>
    BY <1>6 DEF Signal
  <2>2. /\ UNCHANGED <<retry, opening, closing, ready, stopping, paused, generation, consumers,
                       attempted, status, failing, listener, leHeld>>
        /\ UNCHANGED <<futures, reserved, running, phase>> /\ W!Finished' \subseteq W!Finished
    BY <2>1 DEF supervisorVars, workerVars, W!Finished
  <2>3. closing \/ paused \/ session' = session
    <3>1. session' = session \/ smClosing
      BY <1>2, <1>6 DEF S!Notifies
    <3> QED
      BY <3>1, ClosingKnown
  <2>4. Steady'
    BY <1>2, <1>3, <1>4, <2>2, <2>3, QuietSteady
  <2> QED
    BY <1>1, <1>2, <2>1, <2>2, <2>4, SameOpMatches, SameInOrder DEF Working
<1> QED
  BY <1>5, <1>6

LEMMA RefreshWorks ==
    ASSUME SupervisorInv, SessionKept', ~stopping, Refresh \/ BluezRestart
    PROVE  Working' /\ stopping' = stopping
<1>1. /\ SupervisorTyped /\ OpMatches /\ phase = "open"
  BY DEF SupervisorInv, Working, Steady
<1>2. /\ UNCHANGED <<session, op, smClosing, recovery, openFailed>> /\ trouble' = trouble + 1
  BY DEF Refresh, BluezRestart, sessionVars, Disturb
<1>3. trouble' \in Nat
  BY <1>1, <1>2 DEF SupervisorTyped
<1>4. PICK remote \in BOOLEAN, held \in {leHeld, TRUE} : ReconnectNow(remote, held)
  BY DEF Refresh, BluezRestart
<1>5. (\A t \in S!Target : session'[t] \in {None, session[t]}) /\ (held = leHeld \/ held = TRUE)
  BY <1>2
<1>6. Steady' /\ InOrder' /\ UNCHANGED <<running, phase, stopping>>
  BY <1>2, <1>3, <1>4, <1>5, ReconnectSteady
<1> QED
  BY <1>1, <1>2, <1>6, SameOpMatches DEF Working

\* Other consumers' operations, and recovery's power-on retries.
LEMMA OtherSubmitWorks ==
    ASSUME SupervisorInv, SessionKept', ~stopping, OtherSubmit \/ RecoveryRetry
    PROVE  Working' /\ stopping' = stopping
<1>1. /\ SupervisorTyped /\ OpMatches /\ InOrder /\ phase = "open" /\ WP!WorkerInv
  BY DEF SupervisorInv, Working, Steady
<1>2. /\ status # "INITIALIZING"
      /\ UNCHANGED <<retry, opening, closing, ready, stopping, paused, generation, consumers,
                     attempted, status, failing, listener, leHeld>>
      /\ UNCHANGED <<session, op, smClosing, recovery, openFailed, trouble>>
  BY DEF OtherSubmit, RecoveryRetry, Started, supervisorVars, sessionVars
<1>3. PICK j \in {OtherJob, RecoverJob} : W!Submit(j)
  BY DEF OtherSubmit, RecoveryRetry
<1>4. j \in Job /\ j.kind # "open"
  BY <1>1, <1>3, JobTypes
<1>5. /\ futures' = futures \cup {j} /\ W!Finished' = W!Finished
      /\ UNCHANGED <<running, reserved, phase>>
  BY <1>1, <1>3, <1>4, SubmitEffect
<1>6. InOrder'
  BY <1>1, <1>3, <1>4, SubmitInOrder
<1>7. Steady'
  <2>1. /\ \A k \in futures' : k \in futures \cup {OtherJob, RecoverJob}
        /\ futures \subseteq futures' /\ trouble' \in Nat /\ W!Finished' \subseteq W!Finished
        /\ \A t \in S!Target : session'[t] \in {None, session[t]}
    BY <1>1, <1>2, <1>5 DEF SupervisorTyped
  <2> QED
    BY <1>2, <1>5, <2>1, QuietSteady
<1> QED
  BY <1>1, <1>2, <1>5, <1>6, <1>7, SameOpMatches DEF Working

\* Recovery reserves an idle worker.
LEMMA ReserveEffect ==
    ASSUME WP!WorkerInv, phase = "open", NEW j \in Job, j.kind = "recover", W!ReserveAndSubmit(j)
    PROVE  /\ futures = {} /\ futures' = {j} /\ running = None
           /\ W!Queued = {} /\ W!Queued' = {j} /\ W!Finished = {} /\ W!Finished' = {}
           /\ ~reserved /\ reserved' = TRUE
           /\ UNCHANGED <<running, done, phase>>
           /\ Ordered(queue) => Ordered(queue')
<1>1. /\ futures = {} /\ futures' = {j} /\ queue' = Append(queue, j) /\ ~reserved /\ reserved' = TRUE
      /\ UNCHANGED <<running, done, phase>>
  BY DEF W!ReserveAndSubmit
<1>2. /\ queue \in Seq(Job \cup {Cleanup}) /\ W!Queued = {} /\ W!Finished = {} /\ running = None
  BY <1>1, WorkerFacts
<1>3. W!Queued = WP!Elems(queue) /\ W!Queued' = WP!Elems(queue') /\ W!Finished' = W!Finished
  BY <1>1 DEF W!Queued, W!Finished, WP!Elems
<1>4. W!Queued' = W!Queued \cup {j}
  BY <1>1, <1>2, <1>3, WorkerConstants, WP!AppendElems
<1>5. Ordered(queue) => Ordered(queue')
  BY <1>1, <1>2, OrderedAppend
<1> QED
  BY <1>1, <1>2, <1>3, <1>4, <1>5

LEMMA RecoveryPauseWorks ==
    ASSUME SupervisorInv, SessionKept', ~stopping, RecoveryPause
    PROVE  Working' /\ stopping' = stopping
<1> USE SupervisorAssumption
<1>1. /\ SupervisorTyped /\ OpMatches /\ InOrder /\ phase = "open" /\ WP!WorkerInv /\ Shown
  BY DEF SupervisorInv, Working, Steady
<1>2. RecoverJob \in Job /\ RecoverJob.kind = "recover"
  BY <1>1, JobTypes
<1>3. /\ futures = {} /\ futures' = {RecoverJob} /\ running = None
      /\ W!Queued = {} /\ W!Queued' = {RecoverJob} /\ W!Finished = {} /\ W!Finished' = {}
      /\ ~reserved /\ reserved' = TRUE
      /\ UNCHANGED <<running, done, phase>>
      /\ Ordered(queue) => Ordered(queue')
  BY <1>1, <1>2, ReserveEffect DEF RecoveryPause
<1>4. /\ session' = S!Nothing /\ smClosing' = FALSE /\ op' = op
      /\ recovery' = "active" /\ paused' = TRUE /\ generation' = generation + 1
      /\ opening' = FALSE /\ closing' = FALSE /\ ready' = FALSE
      /\ retry' = None /\ consumers' = FALSE
      /\ listener' = IF consumers THEN None ELSE listener
      /\ status' = "RECONNECTING"
      /\ UNCHANGED <<stopping, attempted, failing, leHeld, openFailed>>
      /\ trouble' = trouble + 1
  BY DEF RecoveryPause, S!CloseLocally, Disturb
<1>5. listener' = None
  BY <1>1, <1>4 DEF Shown
<1>6. SupervisorTyped'
  <2>1. generation' \in Nat /\ trouble' \in Nat /\ status' \in Statuses
    BY <1>1, <1>4 DEF SupervisorTyped, Statuses
  <2> QED
    BY <1>1, <1>4, <1>5, <2>1 DEF SupervisorTyped
<1>7. OneOfAKind' /\ JobsKnown'
  BY <1>2, <1>3 DEF OneOfAKind, JobsKnown, JobKnown, RecoverJob
<1>8. FlagsKept'
  BY <1>3, <1>4 DEF FlagsKept
<1>9. OpenKeeps'
  BY <1>3 DEF OpenKeeps, Runs
<1>10. Shown'
  BY <1>4, <1>5 DEF Shown
<1>11. OpMatches'
  BY <1>1, <1>3, <1>4 DEF OpMatches, Runs
<1>12. InOrder'
  <2>1. Ordered(done')
    BY <1>1, <1>3 DEF InOrder
  <2> QED
    BY <1>1, <1>2, <1>3, <2>1 DEF InOrder, Runs
<1> QED
  BY <1>1, <1>3, <1>4, <1>6, <1>7, <1>8, <1>9, <1>10, <1>11, <1>12 DEF Working, Steady

LEMMA ResumeLateWorks ==
    ASSUME SupervisorInv, SessionKept', ~stopping, ResumeLate
    PROVE  Working' /\ stopping' = stopping
<1>1. /\ SupervisorTyped /\ OpMatches /\ InOrder /\ phase = "open" /\ WP!WorkerInv /\ FlagsKept
  BY DEF SupervisorInv, Working, Steady
<1>2. ~closing /\ reserved = FALSE
  BY <1>1 DEF FlagsKept, ResumeLate
<1>3. /\ Discard(FALSE, reserved, TRUE) /\ recovery' = "idle" /\ paused' = FALSE
      /\ UNCHANGED <<session, op, smClosing, openFailed, trouble>>
  BY <1>2 DEF ResumeLate, Resume, sessionVars
<1>4. SubmitAll(Closing(FALSE, reserved))
  BY <1>2 DEF ResumeLate, ResumeSubmits, Closing
<1>5. /\ InOrder' /\ UNCHANGED <<running, phase, reserved>> /\ W!Finished' \subseteq W!Finished
      /\ futures' \subseteq futures \cup Closing(FALSE, reserved)
      /\ Closing(FALSE, reserved) \subseteq futures'
  <2>1. CASE Closing(FALSE, reserved) = {}
    <3>1. UNCHANGED workerVars
      BY <1>4, <2>1 DEF SubmitAll
    <3> QED
      BY <1>1, <2>1, <3>1, SameInOrder DEF workerVars, W!Finished
  <2>2. CASE Closing(FALSE, reserved) # {}
    <3>1. Closing(FALSE, reserved) = {CloseJob(FALSE)} /\ W!Submit(CloseJob(FALSE))
      BY <1>4, <2>2 DEF SubmitAll, Closing
    <3>2. CloseJob(FALSE) \in Job /\ CloseJob(FALSE).kind = "close"
      BY <1>1, JobTypes
    <3>3. /\ futures' = futures \cup {CloseJob(FALSE)} /\ W!Finished' = W!Finished
          /\ UNCHANGED <<running, reserved, phase>>
      BY <1>1, <3>1, <3>2, SubmitEffect
    <3>4. InOrder'
      BY <1>1, <3>1, <3>2, SubmitInOrder
    <3> QED
      BY <3>1, <3>3, <3>4
  <2> QED
    BY <2>1, <2>2
<1>6. Steady' /\ stopping' = stopping
  <2>1. /\ reserved' = FALSE /\ trouble' \in Nat /\ UNCHANGED <<running, op, openFailed>>
        /\ \A t \in S!Target : session'[t] \in {None, session[t]}
    BY <1>1, <1>2, <1>3, <1>5 DEF SupervisorTyped
  <2> QED
    BY <1>2, <1>3, <1>5, <2>1, DiscardSteady
<1> QED
  BY <1>1, <1>3, <1>5, <1>6, SameOpMatches DEF Working

\* open(), from start() and from the retry timer.
LEMMA OpenWorks ==
    ASSUME SupervisorInv, SessionKept', ~stopping, Start \/ Retry
    PROVE  Working' /\ stopping' = stopping
<1> USE SupervisorAssumption
<1>1. /\ SupervisorTyped /\ OpMatches /\ InOrder /\ phase = "open" /\ WP!WorkerInv
      /\ FlagsKept /\ Shown /\ OpenKeeps /\ JobsKnown /\ OneOfAKind /\ status # "STOPPING"
  BY DEF SupervisorInv, Working, Steady
<1>2. /\ Open /\ UNCHANGED <<closing, stopping, paused, generation>>
      /\ UNCHANGED <<session, op, smClosing, recovery, openFailed, trouble>>
  BY DEF Start, Retry, sessionVars
<1>3. ~closing
  BY <1>1 DEF Start, Retry, FlagsKept
<1>4. /\ attempted' \in BOOLEAN /\ leHeld' \in BOOLEAN /\ (~paused => leHeld' = ~attempted')
  <2>1. CASE Start
    BY <1>1, <2>1 DEF Start, BeginAttemptCycle, FlagsKept
  <2>2. CASE Retry
    BY <1>1, <2>2 DEF Retry, Shown, SupervisorTyped
  <2> QED
    BY <2>1, <2>2
<1>5. Start => ~OpenIgnored
  BY <1>1 DEF Start, OpenIgnored, FlagsKept
<1>6. TryOpen \in Job /\ TryOpen # None
  BY <1>1, JobTypes
<1>7. /\ futures \subseteq Job /\ W!Finished \subseteq futures
      /\ (running \in Job => running \in futures) /\ running \in Job \cup {Cleanup, None}
  BY <1>1, WorkerFacts
<1>8. ASSUME UNCHANGED workerVars
      PROVE  /\ UNCHANGED <<futures, reserved, running, phase>> /\ W!Finished' \subseteq W!Finished
             /\ InOrder' /\ OneOfAKind' /\ OpenKeeps'
             /\ InFlight("open")' = InFlight("open") /\ InFlight("close")' = InFlight("close")
  <2>1. UNCHANGED <<futures, reserved, running, phase>> /\ W!Finished' = W!Finished
    BY <1>8 DEF workerVars, W!Finished
  <2> QED
    BY <1>1, <1>2, <1>8, <2>1, SameInOrder, SameOpenKeeps DEF OneOfAKind, InFlight
\* A timer that fires while an open is in flight or recovery holds the daemon.
<1>9. CASE OpenIgnored
  <2>1. /\ UNCHANGED workerVars /\ retry' = None
        /\ UNCHANGED <<opening, ready, consumers, status, failing, listener>>
    BY <1>2, <1>9 DEF Open, SubmitAll, OpenSubmits
  <2>2. opening \/ paused
    BY <1>3, <1>9 DEF OpenIgnored
  <2>3. SupervisorTyped'
    BY <1>1, <1>2, <1>4, <2>1 DEF SupervisorTyped
  <2>4. JobsKnown'
    BY <1>1, <1>2, <1>8, <2>1 DEF JobsKnown, JobKnown
  <2>5. FlagsKept'
    BY <1>1, <1>2, <1>3, <1>8, <2>1 DEF FlagsKept
  <2>6. Shown'
    BY <1>1, <1>2, <1>4, <1>8, <2>1, <2>2 DEF Shown, FlagsKept, BothOpen
  <2> QED
    BY <1>1, <1>2, <1>8, <2>1, <2>3, <2>4, <2>5, <2>6, SameOpMatches DEF Working, Steady
<1>10. CASE ~OpenIgnored /\ BothOpen
  <2>1. /\ UNCHANGED workerVars /\ UNCHANGED opening /\ retry' = None
        /\ status' = "READY" /\ failing' = FALSE /\ ready' = TRUE
        /\ consumers' = (consumers \/ ~ready)
        /\ listener' = IF ready THEN listener ELSE Listening
    BY <1>2, <1>10 DEF Open, SubmitAll, OpenSubmits, MarkReady
  <2>2. ~opening /\ ~paused
    BY <1>10 DEF OpenIgnored
  <2>3. listener' \in S!Session \cup {None} /\ consumers' \in BOOLEAN
    BY <1>1, <2>1 DEF SupervisorTyped, Listening, SupervisorInv, SessionKept, S!SessionTypeOK, S!Target
  <2>4. SupervisorTyped'
    BY <1>1, <1>2, <1>4, <2>1, <2>3 DEF SupervisorTyped, Statuses
  <2>5. JobsKnown'
    BY <1>1, <1>2, <1>8, <2>1 DEF JobsKnown, JobKnown
  <2>6. FlagsKept'
    BY <1>1, <1>2, <1>3, <1>8, <2>1, <2>2 DEF FlagsKept
  <2>7. listener' # None => consumers' /\ session'["MAP"] = listener'
    BY <1>1, <1>2, <2>1 DEF Shown, Listening
  <2>8. Shown'
    BY <1>2, <1>4, <1>10, <2>1, <2>7 DEF Shown, BothOpen
  <2> QED
    BY <1>1, <1>2, <1>8, <2>1, <2>4, <2>5, <2>6, <2>8, SameOpMatches DEF Working, Steady
\* The worker refuses the open: it is tried again later.
<1>11. CASE ~OpenIgnored /\ ~BothOpen /\ OpenSubmits = {}
  <2>1. /\ UNCHANGED workerVars /\ retry' = TryOpen /\ status' = "DEGRADED" /\ failing' = TRUE
        /\ UNCHANGED <<opening, ready, consumers, listener>>
    BY <1>2, <1>11 DEF Open, SubmitAll
  <2>2. ~opening /\ ~paused /\ ~ready
    BY <1>1, <1>11 DEF OpenIgnored, Shown
  <2>3. SupervisorTyped'
    BY <1>1, <1>2, <1>4, <1>6, <2>1 DEF SupervisorTyped, Statuses
  <2>4. JobsKnown'
    BY <1>1, <1>2, <1>3, <1>8, <2>1 DEF JobsKnown, JobKnown
  <2>5. FlagsKept'
    BY <1>1, <1>2, <1>3, <1>8, <2>1, <2>2 DEF FlagsKept
  <2>6. Shown'
    BY <1>1, <1>2, <1>4, <1>6, <2>1, <2>2 DEF Shown
  <2> QED
    BY <1>1, <1>2, <1>8, <2>1, <2>3, <2>4, <2>5, <2>6, SameOpMatches DEF Working, Steady
<1>12. CASE ~OpenIgnored /\ ~BothOpen /\ OpenSubmits # {}
  <2>1. OpenSubmits = {OpenJob}
    BY <1>12 DEF OpenSubmits
  <2>2. /\ W!Submit(OpenJob) /\ retry' = None /\ opening' = TRUE /\ status' = Connecting
        /\ UNCHANGED <<ready, consumers, failing, listener>>
    BY <1>2, <1>12, <2>1 DEF Open, SubmitAll
  <2>3. ~opening /\ ~paused /\ ~ready
    BY <1>1, <1>12 DEF OpenIgnored, Shown
  <2>4. status' \in {"MAP_CONNECTION_REFUSED", "RECONNECTING", "CONNECTING"}
    BY <2>2 DEF Connecting
  <2>5. OpenJob \in Job /\ OpenJob.kind = "open" /\ OpenJob.gen = generation /\ ~OpenJob.remote
    BY <1>1, JobTypes
  <2>6. \A j \in futures : j.kind # "open" /\ j.kind # "close"
    BY <1>1, <1>3, <2>3 DEF JobsKnown, JobKnown
  <2>7. /\ futures' = futures \cup {OpenJob} /\ W!Finished' = W!Finished
        /\ UNCHANGED <<running, reserved, phase>>
    BY <1>1, <2>2, <2>5, SubmitEffect
  <2>8. InOrder'
    BY <1>1, <2>2, <2>5, <2>6, SubmitInOrder
  <2>9. SupervisorTyped'
    BY <1>1, <1>2, <1>4, <2>2, <2>4 DEF SupervisorTyped, Statuses
  <2>10. OneOfAKind'
    BY <1>1, <2>5, <2>6, <2>7 DEF OneOfAKind
  <2>11. JobsKnown'
    <3> SUFFICES ASSUME NEW j \in futures' PROVE JobKnown(j)'
      BY DEF JobsKnown
    <3>1. CASE j \in futures
      BY <1>1, <2>6, <3>1 DEF JobsKnown, JobKnown
    <3>2. CASE j = OpenJob
      BY <1>2, <1>3, <2>2, <2>5, <3>2 DEF JobKnown
    <3> QED
      BY <2>7, <3>1, <3>2
  <2>12. InFlight("open")'
    BY <1>2, <2>5, <2>7 DEF InFlight
  <2>13. FlagsKept'
    BY <1>1, <1>2, <1>3, <2>2, <2>3, <2>4, <2>7, <2>12 DEF FlagsKept
  <2>14. OpenKeeps'
    BY <1>7, <2>6, <2>7 DEF OpenKeeps, Runs
  <2>15. Shown'
    BY <1>1, <1>2, <1>4, <2>2, <2>3, <2>4, <2>12 DEF Shown
  <2> QED
    BY <1>1, <1>2, <2>4, <2>7, <2>8, <2>9, <2>10, <2>11, <2>13, <2>14, <2>15, SameOpMatches
       DEF Working, Steady
<1> QED
  BY <1>9, <1>10, <1>11, <1>12

LEMMA RetryCloseWorks ==
    ASSUME SupervisorInv, SessionKept', ~stopping, RetryClose
    PROVE  Working' /\ stopping' = stopping
<1> USE SupervisorAssumption
<1>1. /\ SupervisorTyped /\ OpMatches /\ InOrder /\ phase = "open" /\ WP!WorkerInv
      /\ FlagsKept /\ Shown /\ OpenKeeps /\ JobsKnown /\ OneOfAKind /\ status # "STOPPING"
  BY DEF SupervisorInv, Working, Steady
<1>2. /\ UNCHANGED <<opening, closing, ready, stopping, paused, generation, consumers,
                     attempted, status, failing, leHeld, listener>>
      /\ UNCHANGED <<session, op, smClosing, recovery, openFailed, trouble>>
      /\ status # "INITIALIZING" /\ retry \notin {None, TryOpen}
  BY DEF RetryClose, sessionVars, Started
<1>3. /\ closing /\ retry \in Job /\ retry.kind = "close" /\ retry.gen = generation
  BY <1>1, <1>2 DEF FlagsKept, SupervisorTyped
<1>4. CASE ~W!Accepts(retry, reserved)
  <2>1. UNCHANGED workerVars /\ retry' = retry
    BY <1>3, <1>4 DEF RetryClose
  <2>2. UNCHANGED <<futures, reserved, running, phase>> /\ W!Finished' \subseteq W!Finished
    BY <2>1 DEF workerVars, W!Finished
  <2>3. trouble' \in Nat /\ \A t \in S!Target : session'[t] \in {None, session[t]}
    BY <1>1, <1>2 DEF SupervisorTyped
  <2>4. Steady'
    BY <1>2, <2>1, <2>2, <2>3, QuietSteady
  <2> QED
    BY <1>1, <1>2, <2>1, <2>2, <2>4, SameInOrder, SameOpMatches DEF Working
<1>5. CASE W!Accepts(retry, reserved)
  <2>1. W!Submit(retry) /\ retry' = None
    BY <1>3, <1>5 DEF RetryClose
  <2>2. /\ futures' = futures \cup {retry} /\ W!Finished' = W!Finished
        /\ UNCHANGED <<running, reserved, phase>>
    BY <1>1, <1>3, <2>1, SubmitEffect
  <2>3. InOrder'
    BY <1>1, <1>3, <2>1, SubmitInOrder
  <2>4. \A j \in futures : j.kind # "close"
    BY <1>1, <1>2 DEF JobsKnown, JobKnown
  <2>5. SupervisorTyped'
    BY <1>1, <1>2, <2>1 DEF SupervisorTyped
  <2>6. OneOfAKind'
    BY <1>1, <1>3, <2>2, <2>4 DEF OneOfAKind
  <2>7. JobsKnown'
    BY <1>1, <1>2, <1>3, <2>1, <2>2, <2>4 DEF JobsKnown, JobKnown
  <2>8. InFlight("close")'
    BY <1>2, <1>3, <2>2 DEF InFlight
  <2>9. FlagsKept'
    BY <1>1, <1>2, <1>3, <2>1, <2>2, <2>8, JobTypes DEF FlagsKept
  <2>10. OpenKeeps'
    BY <1>1, <1>2, <2>2, SameOpenKeeps
  <2>11. Shown'
    BY <1>1, <1>2, <2>8 DEF Shown, BothOpen
  <2> QED
    BY <1>1, <1>2, <2>2, <2>3, <2>5, <2>6, <2>7, <2>9, <2>10, <2>11, SameOpMatches
       DEF Working, Steady
<1> QED
  BY <1>4, <1>5

-----------------------------------------------------------------------------
(***************************************************************************)
(* Completion callbacks.                                                   *)
(***************************************************************************)

\* A callback that only ends its operation.
LEMMA DeliverWorks ==
    ASSUME SupervisorInv, SessionKept', ~stopping, done # <<>>, W!Deliver(FALSE, {}),
           Head(done).kind \in {"other", "recover"} \/ (Head(done).kind = "open" /\ closing),
           status # "INITIALIZING",
           UNCHANGED <<supervisorVars, sessionVars, recovery, openFailed, trouble>>
    PROVE  Working' /\ stopping' = stopping
<1>1. /\ SupervisorTyped /\ OpMatches /\ InOrder /\ phase = "open" /\ WP!WorkerInv
  BY DEF SupervisorInv, Working, Steady
<1>2. /\ UNCHANGED <<retry, opening, closing, ready, stopping, paused, generation, consumers,
                     attempted, status, failing, leHeld, listener>>
      /\ UNCHANGED <<session, op, smClosing>>
  BY DEF supervisorVars, sessionVars
<1>3. /\ futures' = futures \ {Head(done)} /\ W!Finished' \subseteq W!Finished
      /\ reserved' = reserved /\ UNCHANGED <<running, phase>>
  <2>1. /\ futures' = (futures \ {Head(done)}) \cup {} /\ W!Finished' = W!Finished \ {Head(done)}
        /\ reserved' = (reserved /\ ~FALSE) /\ UNCHANGED <<running, phase>>
    BY <1>1, DeliverEffect
  <2>2. reserved \in BOOLEAN
    BY <1>1, WorkerFacts
  <2> QED
    BY <2>1, <2>2
<1>4. InOrder'
  BY <1>1, DeliverInOrder
<1>5. Steady'
  <2>1. trouble' \in Nat /\ \A t \in S!Target : session'[t] \in {None, session[t]}
    BY <1>1, <1>2 DEF SupervisorTyped
  <2> QED
    BY <1>2, <1>3, <2>1, QuietSteady
<1> QED
  BY <1>1, <1>2, <1>3, <1>4, <1>5, SameOpMatches DEF Working

\* The oldest finished open is current exactly when nothing superseded it; then
\* it is the only one.
LEMMA OpenDelivered ==
    ASSUME SupervisorInv, ~stopping, W!Deliver(FALSE, {}), Head(done).kind = "open"
    PROVE  /\ Current = ~closing
           /\ futures' = futures \ {Head(done)} /\ \A j \in futures' : j.kind # "open"
           /\ ~closing => opening /\ \A j \in futures' : j.kind # "close"
           /\ UNCHANGED <<running, phase, reserved>>
           /\ W!Finished' \subseteq futures' /\ (running \in Job => running \in futures')
           /\ running \in Job \cup {Cleanup, None}
           /\ Head(done) \in W!Finished
<1>1. WP!WorkerInv /\ JobsKnown /\ OneOfAKind /\ SupervisorTyped
  BY DEF SupervisorInv, Working, Steady
<1>2. /\ futures' = (futures \ {Head(done)}) \cup {} /\ W!Finished' = W!Finished \ {Head(done)}
      /\ reserved' = (reserved /\ ~FALSE) /\ UNCHANGED <<running, phase>>
      /\ Head(done) \in futures /\ Head(done) \in W!Finished
  BY <1>1, DeliverEffect
<1>3. /\ reserved \in BOOLEAN /\ running \notin W!Finished /\ W!Finished \subseteq futures
      /\ running \in Job \cup {Cleanup, None} /\ (running \in Job => running \in futures)
  BY <1>1, WorkerFacts
<1>4. Current = ~closing /\ (~closing => opening)
  BY <1>1, <1>2 DEF Current, JobsKnown, JobKnown, SupervisorTyped
<1>5. \A j \in futures' : j.kind # "open"
  BY <1>1, <1>2 DEF OneOfAKind
<1>6. ~closing => \A j \in futures : j.kind # "close"
  BY <1>1 DEF JobsKnown, JobKnown
<1> QED
  BY <1>2, <1>3, <1>4, <1>5, <1>6

\* The flags after an attempt ended and nothing is left in flight of it.
LEMMA AttemptOver ==
    ASSUME SupervisorInv, ~stopping, ~closing, opening, status # "INITIALIZING",
           futures' = futures \ {Head(done)},
           \A j \in futures' : j.kind # "open" /\ j.kind # "close",
           UNCHANGED <<running, reserved>>,
           W!Finished' \subseteq futures', running \in Job => running \in futures',
           running \in Job \cup {Cleanup, None},
           opening' = FALSE, UNCHANGED <<closing, stopping, paused, generation>>,
           UNCHANGED <<session, recovery, openFailed, trouble>>,
           NEW counts \in BOOLEAN, CompleteFirstAttempt(counts),
           retry' \in {None, TryOpen}, retry' # None \/ ready',
           consumers' \in BOOLEAN, ready' \in BOOLEAN, failing' \in BOOLEAN,
           listener' \in S!Session \cup {None},
           listener' # None => consumers' /\ session["MAP"] = listener',
           status' \in Statuses \ {"STOPPING", "INITIALIZING"},
           (status' = "READY") = ready', ready' => BothOpen
    PROVE  Steady' /\ stopping' = stopping
<1> USE SupervisorAssumption
<1>1. /\ SupervisorTyped /\ FlagsKept /\ Shown /\ JobsKnown /\ OneOfAKind
  BY DEF SupervisorInv, Working, Steady
<1>2. ~paused /\ recovery = "idle" /\ ~reserved /\ ~ready
  BY <1>1 DEF FlagsKept
<1>3. attempted' \in BOOLEAN /\ leHeld' \in BOOLEAN /\ leHeld' = ~attempted'
  <2>1. CASE attempted \/ ~counts
    BY <1>1, <1>2, <2>1 DEF CompleteFirstAttempt, Shown, SupervisorTyped
  <2>2. CASE ~(attempted \/ ~counts)
    BY <2>2 DEF CompleteFirstAttempt
  <2> QED
    BY <2>1, <2>2
<1>4. TryOpen \in Job /\ TryOpen # None
  BY <1>1, JobTypes
<1>5. SupervisorTyped'
  BY <1>1, <1>3, <1>4 DEF SupervisorTyped
<1>6. OneOfAKind' /\ JobsKnown'
  BY <1>1 DEF OneOfAKind, JobsKnown, JobKnown
<1>7. FlagsKept'
  BY <1>1, <1>2 DEF FlagsKept
<1>8. OpenKeeps'
  BY DEF OpenKeeps, Runs
<1>9. Shown'
  BY <1>3 DEF Shown, BothOpen
<1> QED
  BY <1>5, <1>6, <1>7, <1>8, <1>9 DEF Steady

LEMMA OpenedWorks ==
    ASSUME SupervisorInv, SessionKept', ~stopping, Opened
    PROVE  Working' /\ stopping' = stopping
<1> USE SupervisorAssumption
<1>1. /\ SupervisorTyped /\ OpMatches /\ InOrder /\ phase = "open" /\ WP!WorkerInv
      /\ FlagsKept /\ Shown /\ OpenKeeps /\ SessionKept
  BY DEF SupervisorInv, Working, Steady
<1>2. /\ done # <<>> /\ W!Deliver(FALSE, {}) /\ Head(done).kind = "open" /\ openFailed = None
      /\ status # "INITIALIZING"
      /\ UNCHANGED <<sessionVars, recovery, openFailed, trouble>>
  BY DEF Opened, Delivers, Started
<1>3. CASE closing
  <2>1. UNCHANGED supervisorVars
    BY <1>3 DEF Opened
  <2> QED
    BY <1>2, <1>3, <2>1, DeliverWorks
<1>4. CASE ~closing
  <2>1. /\ Current /\ opening
        /\ futures' = futures \ {Head(done)} /\ UNCHANGED <<running, phase, reserved>>
        /\ \A j \in futures' : j.kind # "open" /\ j.kind # "close"
        /\ W!Finished' \subseteq futures' /\ (running \in Job => running \in futures')
        /\ running \in Job \cup {Cleanup, None} /\ Head(done) \in W!Finished
    BY <1>2, <1>4, OpenDelivered
  <2>2. /\ opening' = FALSE /\ CompleteFirstAttempt(TRUE) /\ MarkReady
        /\ UNCHANGED <<closing, stopping, paused, generation>>
    BY <1>4, <2>1 DEF Opened
  <2>3. BothOpen
    BY <1>1, <1>2, <2>1 DEF OpenKeeps, Current
  <2>4. ~ready
    BY <1>1, <2>1 DEF FlagsKept
  <2>5. /\ retry' = None /\ status' = "READY" /\ failing' = FALSE /\ ready' = TRUE
        /\ consumers' = TRUE /\ listener' = Listening
    BY <2>2, <2>4 DEF MarkReady
  <2>6. listener' \in S!Session \cup {None} /\ (listener' # None => session["MAP"] = listener')
    BY <1>1, <2>5 DEF Listening, Shown, SupervisorTyped, SessionKept, S!SessionTypeOK, S!Target
  <2>7. UNCHANGED <<session, op, smClosing>>
    BY <1>2 DEF sessionVars
  <2>8. status' \in Statuses \ {"STOPPING", "INITIALIZING"}
    BY <2>5 DEF Statuses
  <2>9. Steady' /\ stopping' = stopping
    BY <1>2, <1>4, <2>1, <2>2, <2>3, <2>5, <2>6, <2>7, <2>8, AttemptOver
  <2>10. InOrder'
    BY <1>1, <1>2, DeliverInOrder
  <2> QED
    BY <1>1, <2>1, <2>7, <2>9, <2>10, SameOpMatches DEF Working
<1> QED
  BY <1>3, <1>4

LEMMA OpenFailedWorks ==
    ASSUME SupervisorInv, SessionKept', ~stopping,
           NEW reachable \in BOOLEAN, NEW failure, OpenFailed(reachable, failure)
    PROVE  Working' /\ stopping' = stopping
<1> USE SupervisorAssumption
<1>1. /\ SupervisorTyped /\ OpMatches /\ InOrder /\ phase = "open" /\ WP!WorkerInv
      /\ FlagsKept /\ Shown /\ SessionKept
  BY DEF SupervisorInv, Working, Steady
<1>2. /\ done # <<>> /\ W!Deliver(FALSE, {}) /\ Head(done).kind = "open"
      /\ failure \in {"DEGRADED", "MAP_CONNECTION_REFUSED"} /\ status # "INITIALIZING"
      /\ UNCHANGED <<sessionVars, recovery, openFailed, trouble>>
  BY DEF OpenFailed, Delivers, Started, Failures
<1>3. CASE closing
  <2>1. ~Current
    BY <1>2, <1>3, OpenDelivered
  <2>2. UNCHANGED supervisorVars
    BY <2>1 DEF OpenFailed
  <2> QED
    BY <1>2, <1>3, <2>2, DeliverWorks
<1>4. CASE ~closing
  <2> DEFINE partial == \E t \in S!Target : session[t] # None
  <2>1. /\ Current /\ opening
        /\ futures' = futures \ {Head(done)} /\ UNCHANGED <<running, phase, reserved>>
        /\ \A j \in futures' : j.kind # "open" /\ j.kind # "close"
        /\ W!Finished' \subseteq futures' /\ (running \in Job => running \in futures')
        /\ running \in Job \cup {Cleanup, None}
    BY <1>2, <1>4, OpenDelivered
  <2>2. /\ opening' = FALSE /\ CompleteFirstAttempt(reachable \/ partial)
        /\ consumers' = (consumers \/ partial)
        /\ listener' = (IF partial THEN Listening ELSE listener)
        /\ status' = failure /\ failing' = TRUE
        /\ retry' = IF retry = None THEN TryOpen ELSE retry
        /\ UNCHANGED <<closing, ready, stopping, paused, generation>>
    BY <2>1 DEF OpenFailed
  <2> HIDE DEF partial
  <2>3. PICK counts \in BOOLEAN : CompleteFirstAttempt(counts)
    <3>1. CASE reachable \/ partial
      BY <2>2, <3>1 DEF CompleteFirstAttempt
    <3>2. CASE ~(reachable \/ partial)
      BY <2>2, <3>2 DEF CompleteFirstAttempt
    <3> QED
      BY <3>1, <3>2
  <2>4. ready' = FALSE /\ retry' = TryOpen /\ TryOpen # None
    BY <1>1, <1>4, <2>1, <2>2, JobTypes DEF FlagsKept, SupervisorTyped
  <2>5. /\ listener' \in S!Session \cup {None} /\ consumers' \in BOOLEAN
        /\ listener' # None => consumers' /\ session["MAP"] = listener'
    <3>1. CASE partial
      BY <1>1, <2>2, <3>1 DEF Listening, Shown, SupervisorTyped, SessionKept, S!SessionTypeOK, S!Target
    <3>2. CASE ~partial
      BY <1>1, <2>2, <3>2 DEF Shown, SupervisorTyped
    <3> QED
      BY <3>1, <3>2
  <2>6. UNCHANGED <<session, op, smClosing>>
    BY <1>2 DEF sessionVars
  <2>7. status' \in Statuses \ {"STOPPING", "INITIALIZING"} /\ status' # "READY"
    BY <1>2, <2>2 DEF Statuses
  <2>8. Steady' /\ stopping' = stopping
    BY <1>2, <1>4, <2>1, <2>2, <2>3, <2>4, <2>5, <2>6, <2>7, AttemptOver
  <2>9. InOrder'
    BY <1>1, <1>2, DeliverInOrder
  <2> QED
    BY <1>1, <2>1, <2>6, <2>8, <2>9, SameOpMatches DEF Working
<1> QED
  BY <1>3, <1>4

\* A close is delivered after every open it superseded.
LEMMA ClosedWorks ==
    ASSUME SupervisorInv, SessionKept', ~stopping, Closed
    PROVE  Working' /\ stopping' = stopping
<1> USE SupervisorAssumption
<1>1. /\ SupervisorTyped /\ OpMatches /\ InOrder /\ phase = "open" /\ WP!WorkerInv
      /\ FlagsKept /\ Shown /\ JobsKnown /\ OneOfAKind /\ status # "STOPPING"
  BY DEF SupervisorInv, Working, Steady
<1>2. /\ done # <<>> /\ W!Deliver(FALSE, {}) /\ Head(done).kind = "close"
      /\ status # "INITIALIZING"
      /\ UNCHANGED <<opening, ready, stopping, paused, generation, consumers,
                     attempted, status, failing, leHeld, listener>>
      /\ UNCHANGED <<session, op, smClosing, recovery, openFailed, trouble>>
  BY DEF Closed, Delivers, Started, sessionVars
<1>3. /\ futures' = (futures \ {Head(done)}) \cup {} /\ W!Finished' = W!Finished \ {Head(done)}
      /\ reserved' = (reserved /\ ~FALSE) /\ UNCHANGED <<running, phase>>
      /\ Head(done) \in futures /\ Head(done) \in W!Finished
      /\ Ordered(done) /\ Head(done).kind = "close" => \A j \in W!Finished : j.kind # "open"
  BY <1>1, <1>2, DeliverEffect
<1>4. /\ reserved \in BOOLEAN /\ running \in Job \cup {Cleanup, None}
      /\ futures \subseteq W!Queued \cup {running} \cup W!Finished
      /\ (running \in Job => running \in futures) /\ futures \subseteq Job
      /\ W!Finished \subseteq futures
  BY <1>1, WorkerFacts
<1>5. Current /\ closing /\ retry = None
  BY <1>1, <1>2, <1>3 DEF Current, JobsKnown, JobKnown
<1>6. closing' = FALSE /\ retry' = TryOpen /\ TryOpen \in Job /\ TryOpen # None
  BY <1>1, <1>5, JobTypes DEF Closed
<1>7. \A j \in futures : j.kind # "open"
  <2>1. /\ \A j \in W!Queued : j.kind # "open"
        /\ ~Runs("open")
    BY <1>1, <1>2, <1>3 DEF InOrder
  <2>2. \A j \in W!Finished : j.kind # "open"
    BY <1>1, <1>2, <1>3 DEF InOrder
  <2> QED
    BY <1>4, <2>1, <2>2 DEF Runs
<1>8. \A j \in futures' : j.kind # "open" /\ j.kind # "close" /\ j \in futures
  BY <1>1, <1>2, <1>3, <1>7 DEF OneOfAKind
<1>9. ~opening /\ ~ready /\ ~paused
  BY <1>1, <1>5 DEF FlagsKept
<1>10. SupervisorTyped'
  BY <1>1, <1>2, <1>6 DEF SupervisorTyped
<1>11. OneOfAKind' /\ JobsKnown'
  BY <1>1, <1>8 DEF OneOfAKind, JobsKnown, JobKnown
<1>12. FlagsKept'
  BY <1>1, <1>2, <1>3, <1>4, <1>6, <1>9 DEF FlagsKept
<1>13. OpenKeeps'
  BY <1>3, <1>4, <1>7 DEF OpenKeeps, Runs
<1>14. Shown'
  BY <1>1, <1>2, <1>6 DEF Shown, BothOpen
<1>15. InOrder'
  BY <1>1, <1>2, DeliverInOrder
<1> QED
  BY <1>1, <1>2, <1>3, <1>10, <1>11, <1>12, <1>13, <1>14, <1>15, SameOpMatches DEF Working, Steady

\* report_error() in another consumer's callback forgets both sessions.
LEMMA OtherFailedWorks ==
    ASSUME SupervisorInv, SessionKept', ~stopping, OtherFailed
    PROVE  Working' /\ stopping' = stopping
<1> USE SupervisorAssumption
<1>1. /\ SupervisorTyped /\ OpMatches /\ InOrder /\ phase = "open" /\ WP!WorkerInv
      /\ FlagsKept /\ Shown
  BY DEF SupervisorInv, Working, Steady
<1> DEFINE next == ReconnectSubmits(FALSE, reserved)
<1>2. /\ done # <<>> /\ W!Deliver(FALSE, next) /\ Head(done).kind = "other"
      /\ status # "INITIALIZING" /\ session' = S!Nothing /\ trouble' = trouble + 1
      /\ Reconnect(FALSE, reserved, leHeld)
      /\ UNCHANGED <<op, smClosing, recovery, openFailed>>
  BY DEF OtherFailed, Delivers, Started, S!Forget, Disturb
<1>3. next = {} \/ (next = {CloseJob(FALSE)} /\ CloseJob(FALSE) \in Job /\ CloseJob(FALSE).kind = "close")
  BY <1>1, JobTypes DEF ReconnectSubmits
<1>4. next = {} \/ \E j \in Job : next = {j}
  BY <1>3
<1> HIDE DEF next
<1>5. /\ futures' = (futures \ {Head(done)}) \cup next /\ W!Finished' \subseteq W!Finished
      /\ reserved' = reserved /\ UNCHANGED <<running, phase>>
  <2>1. /\ futures' = (futures \ {Head(done)}) \cup next /\ W!Finished' = W!Finished \ {Head(done)}
        /\ reserved' = (reserved /\ ~FALSE) /\ UNCHANGED <<running, phase>>
    BY <1>1, <1>2, <1>4, DeliverEffect
  <2>2. reserved \in BOOLEAN
    BY <1>1, WorkerFacts
  <2> QED
    BY <2>1, <2>2
<1>6. InOrder'
  BY <1>1, <1>2, <1>3, <1>4, DeliverInOrder
<1>7. /\ trouble' \in Nat /\ \A t \in S!Target : session'[t] \in {None, session[t]}
  BY <1>1, <1>2 DEF SupervisorTyped, S!Nothing
<1>8. Steady' /\ stopping' = stopping
  <2>1. CASE ReconnectIgnored
    <3>1. closing \/ paused
      BY <2>1 DEF ReconnectIgnored
    <3>2. /\ leHeld' = leHeld
          /\ UNCHANGED <<retry, opening, closing, ready, stopping, paused, generation, consumers,
                         attempted, status, failing, listener>>
      BY <1>2, <2>1 DEF Reconnect
    <3>3. next = {}
      BY <2>1 DEF next, ReconnectSubmits
    <3>4. /\ \A j \in futures' : j \in futures \cup {OtherJob, RecoverJob}
          /\ \A j \in futures : j.kind = "close" \/ (j.kind = "open" /\ ~closing) => j \in futures'
      BY <1>2, <1>5, <3>3
    <3> QED
      BY <1>2, <1>5, <1>7, <3>1, <3>2, <3>4, QuietSteady
  <2>2. CASE ~ReconnectIgnored
    <3>1. ~closing /\ ~paused /\ Discard(FALSE, reserved, leHeld) /\ paused' = paused
      BY <1>2, <2>2 DEF Reconnect, ReconnectIgnored
    <3>2. reserved = FALSE /\ recovery = "idle" /\ (leHeld \/ attempted \/ ~opening)
      BY <1>1, <3>1 DEF FlagsKept, Shown, SupervisorTyped
    <3>3. next = Closing(FALSE, reserved)
      BY <2>2 DEF next, ReconnectSubmits, Closing
    <3>4. /\ futures' \subseteq futures \cup Closing(FALSE, reserved)
          /\ Closing(FALSE, reserved) \subseteq futures'
          /\ reserved' = FALSE /\ recovery' = "idle" /\ paused' = FALSE
          /\ UNCHANGED <<running, op, openFailed>>
      BY <1>1, <1>2, <1>5, <3>1, <3>2, <3>3 DEF SupervisorTyped
    <3> QED
      BY <1>5, <1>7, <3>1, <3>2, <3>4, DiscardSteady
  <2> QED
    BY <2>1, <2>2
<1> QED
  BY <1>1, <1>2, <1>5, <1>6, <1>8, SameOpMatches DEF Working

\* Recovery's operation, when it is delivered, is the only one in flight.
LEMMA RecoverAlone ==
    ASSUME SupervisorInv, ~stopping, done # <<>>, Head(done).kind = "recover"
    PROVE  /\ reserved = TRUE /\ recovery = "active" /\ paused /\ ~closing /\ ~opening
           /\ futures = {Head(done)} /\ Head(done) = RecoverJob /\ Len(done) = 1
<1>1. WP!WorkerInv /\ JobsKnown /\ FlagsKept /\ SupervisorTyped
  BY DEF SupervisorInv, Working, Steady
<1>2. /\ done \in Seq(Job) /\ W!Finished \subseteq futures /\ reserved \in BOOLEAN
      /\ \A j \in futures : (j.kind = "recover") = reserved
  BY <1>1, WorkerFacts
<1>3. Head(done) \in W!Finished
  BY <1>2 DEF W!Finished
<1>4. reserved = TRUE /\ \A j \in futures : j = RecoverJob
  BY <1>1, <1>2, <1>3 DEF JobsKnown, JobKnown
<1>5. Len(done) = 1
  <2>1. Len(done) \in Nat \ {0} /\ DOMAIN done = 1 .. Len(done)
    BY <1>2
  <2>2. ASSUME Len(done) # 1 PROVE FALSE
    <3>1. 1 \in DOMAIN done /\ 2 \in DOMAIN done
      BY <2>1, <2>2
    <3>2. done[1] = RecoverJob /\ done[2] = RecoverJob
      BY <1>2, <1>4, <3>1 DEF W!Finished
    <3> QED
      BY <1>1, <3>1, <3>2 DEF WP!WorkerInv, WP!Distinct
  <2> QED
    BY <2>2
<1> QED
  BY <1>1, <1>2, <1>3, <1>4, <1>5 DEF FlagsKept

LEMMA RecoverySuspendedWorks ==
    ASSUME SupervisorInv, SessionKept', ~stopping, RecoverySuspended
    PROVE  Working' /\ stopping' = stopping
<1>1. /\ SupervisorTyped /\ OpMatches /\ InOrder /\ phase = "open" /\ WP!WorkerInv
      /\ FlagsKept /\ Shown /\ OpenKeeps
  BY DEF SupervisorInv, Working, Steady
<1>2. /\ done # <<>> /\ W!Deliver(TRUE, {}) /\ Head(done).kind = "recover"
      /\ recovery' = "resumable" /\ status # "INITIALIZING"
      /\ UNCHANGED <<retry, opening, closing, ready, stopping, paused, generation, consumers,
                     attempted, status, failing, leHeld, listener>>
      /\ UNCHANGED <<session, op, smClosing, openFailed, trouble>>
  BY DEF RecoverySuspended, Delivers, Started, supervisorVars, sessionVars
<1>3. /\ paused /\ futures = {Head(done)}
  BY <1>2, RecoverAlone
<1>4. /\ futures' = (futures \ {Head(done)}) \cup {} /\ W!Finished' = W!Finished \ {Head(done)}
      /\ reserved' = (reserved /\ ~TRUE) /\ UNCHANGED <<running, phase>>
  BY <1>1, <1>2, DeliverEffect
<1>5. InOrder'
  BY <1>1, <1>2, DeliverInOrder
<1>6. OpenKeeps'
  BY <1>1, <1>2, <1>4, SameOpenKeeps
<1>7. Steady'
  <2>1. /\ recovery' \in {"idle", "active", "resumable"} /\ openFailed' \in S!Target \cup {None}
        /\ paused = (recovery' # "idle") /\ reserved' = (recovery' = "active")
        /\ trouble' \in Nat
    BY <1>1, <1>2, <1>3, <1>4 DEF SupervisorTyped
  <2>2. /\ \A j \in futures' : j \in futures \cup {OtherJob, RecoverJob}
        /\ \A j \in futures : j.kind = "close" \/ (j.kind = "open" /\ ~closing) => j \in futures'
    BY <1>2, <1>3, <1>4
  <2>3. /\ ready => BothOpen'
        /\ listener # None => session'["MAP"] = listener
        /\ session' = S!Nothing
    BY <1>1, <1>2, <1>3 DEF FlagsKept, Shown
  <2> QED
    BY <1>2, <1>6, <2>1, <2>2, <2>3, FrameSteady
<1> QED
  BY <1>1, <1>2, <1>4, <1>5, <1>7, SameOpMatches DEF Working

LEMMA RecoveryFinishedWorks ==
    ASSUME SupervisorInv, SessionKept', ~stopping, RecoveryFinished
    PROVE  Working' /\ stopping' = stopping
<1>1. /\ SupervisorTyped /\ OpMatches /\ InOrder /\ phase = "open" /\ WP!WorkerInv
  BY DEF SupervisorInv, Working, Steady
<1>2. done # <<>> /\ Head(done).kind = "recover" /\ Resume(FALSE) /\ W!Deliver(TRUE, ResumeSubmits(FALSE))
      /\ UNCHANGED <<session, op, smClosing, openFailed, trouble>>
  BY DEF RecoveryFinished, Delivers, sessionVars
<1>3. ~closing /\ ~opening
  BY <1>2, RecoverAlone
<1>4. ResumeSubmits(FALSE) = Closing(FALSE, FALSE)
  BY <1>3 DEF ResumeSubmits, Closing
<1>5. /\ Discard(FALSE, FALSE, TRUE) /\ recovery' = "idle" /\ paused' = FALSE
  BY <1>2, <1>3 DEF Resume
<1> DEFINE next == Closing(FALSE, FALSE)
<1>6. next = {} \/ (next = {CloseJob(FALSE)} /\ CloseJob(FALSE) \in Job /\ CloseJob(FALSE).kind = "close")
  BY <1>1, JobTypes DEF Closing
<1>7. (next = {} \/ \E j \in Job : next = {j}) /\ \A j \in next : j.kind # "open"
  BY <1>6
<1> HIDE DEF next
<1>8. W!Deliver(TRUE, next)
  BY <1>2, <1>4 DEF next
<1>9. /\ futures' = (futures \ {Head(done)}) \cup next /\ W!Finished' = W!Finished \ {Head(done)}
      /\ reserved' = (reserved /\ ~TRUE) /\ UNCHANGED <<running, phase>>
  BY <1>1, <1>7, <1>8, DeliverEffect
<1>10. InOrder'
  BY <1>1, <1>7, <1>8, DeliverInOrder
<1>11. Steady' /\ stopping' = stopping
  <2>1. /\ futures' \subseteq futures \cup Closing(FALSE, FALSE) /\ Closing(FALSE, FALSE) \subseteq futures'
        /\ reserved' = FALSE /\ trouble' \in Nat /\ UNCHANGED <<running, op, openFailed>>
        /\ W!Finished' \subseteq W!Finished
        /\ \A t \in S!Target : session'[t] \in {None, session[t]}
    BY <1>1, <1>2, <1>9 DEF SupervisorTyped, next
  <2> QED
    BY <1>3, <1>5, <2>1, DiscardSteady
<1> QED
  BY <1>1, <1>2, <1>9, <1>10, <1>11, SameOpMatches DEF Working

LEMMA CallbackWorks ==
    ASSUME SupervisorInv, SessionKept', ~stopping, Callback
    PROVE  Working' /\ stopping' = stopping
<1>1. CASE OtherDone \/ RecoveryPending
  BY <1>1, DeliverWorks DEF OtherDone, RecoveryPending, Delivers, Started
<1> QED
  BY <1>1, OpenedWorks, OpenFailedWorks, ClosedWorks, OtherFailedWorks, RecoverySuspendedWorks,
     RecoveryFinishedWorks DEF Callback

-----------------------------------------------------------------------------
(***************************************************************************)
(* The worker thread, and the world outside.                               *)
(***************************************************************************)

\* A step of the thread: the supervisor's state and what is in flight stay.
LEMMA ThreadSteady ==
    ASSUME SupervisorInv, ~stopping,
           UNCHANGED <<supervisorVars, recovery, futures, reserved>>,
           trouble' \in Nat, openFailed' \in S!Target \cup {None},
           OpenKeeps', ready => BothOpen',
           listener # None => session'["MAP"] = listener, paused => session' = S!Nothing
    PROVE  Steady' /\ stopping' = stopping
<1>1. SupervisorTyped /\ FlagsKept
  BY DEF SupervisorInv, Working, Steady
<1>2. UNCHANGED <<retry, opening, closing, ready, stopping, paused, generation, consumers,
                  attempted, status, failing, listener, leHeld>>
  BY DEF supervisorVars
<1>3. /\ recovery' \in {"idle", "active", "resumable"}
      /\ paused = (recovery' # "idle") /\ reserved' = (recovery' = "active")
  BY <1>1 DEF SupervisorTyped, FlagsKept
<1> QED
  BY <1>2, <1>3, FrameSteady

\* The sessions stay too.
LEMMA ThreadSame ==
    ASSUME SupervisorInv, ~stopping,
           UNCHANGED <<supervisorVars, recovery, futures, reserved, session>>,
           trouble' \in Nat, openFailed' \in S!Target \cup {None}, OpenKeeps'
    PROVE  Steady' /\ stopping' = stopping
<1>1. SupervisorTyped /\ FlagsKept /\ Shown
  BY DEF SupervisorInv, Working, Steady
<1>2. /\ ready => BothOpen'
      /\ listener # None => session'["MAP"] = listener
      /\ paused => session' = S!Nothing
  BY <1>1 DEF Shown, FlagsKept, BothOpen
<1> QED
  BY <1>2, ThreadSteady

LEMMA StartWorks ==
    ASSUME SupervisorInv, SessionKept', ~stopping, StartOpen \/ StartClose \/ StartOther
    PROVE  Working' /\ stopping' = stopping
<1> USE SupervisorAssumption
<1>1. /\ SupervisorTyped /\ OpMatches /\ InOrder /\ phase = "open" /\ WP!WorkerInv
      /\ OpenKeeps /\ SessionKept
  BY DEF SupervisorInv, Working, Steady
<1>2. /\ W!Start /\ UNCHANGED <<supervisorVars, recovery, openFailed, trouble, session>>
  BY DEF StartOpen, StartClose, StartOther, S!OpenBegin, S!CloseBegin, sessionVars
<1>3. /\ running = None /\ running' = Head(queue) /\ running' \in Job /\ running' \in futures
      /\ W!Finished' = W!Finished /\ UNCHANGED <<done, futures, reserved, phase>>
  BY <1>1, <1>2, StartEffect
<1>4. op.at = "idle" /\ ~smClosing /\ op.target = "MAP" /\ generation' = generation
  BY <1>1, <1>2, <1>3 DEF OpMatches, SessionKept, supervisorVars
<1>5. InOrder'
  BY <1>1, <1>2, StartInOrder
<1>6. running' \notin {None, Cleanup}
  BY <1>3
<1>7. OpMatches' /\ OpenKeeps'
  <2>1. CASE StartOpen
    <3>1. running'.kind = "open" /\ smClosing' = smClosing
      BY <1>3, <2>1 DEF StartOpen, Takes, S!OpenBegin
    <3>2. op \in OpType
      BY <1>1 DEF SessionKept, S!SessionTypeOK, OpType
    <3>3. op' = [op EXCEPT !.at = "end"] \/ op' = [op EXCEPT !.at = "create"]
      BY <2>1 DEF StartOpen, S!OpenBegin
    <3>4. op'.at \in {"create", "end"} /\ op'.target = "MAP"
      BY <1>4, <3>2, <3>3 DEF OpType
    <3>5. op'.at = "end" => BothOpen
      <4>1. CASE BothOpen
        BY <4>1
      <4>2. CASE ~BothOpen
        <5>1. op' = [op EXCEPT !.at = "create"]
          BY <2>1, <4>2 DEF StartOpen, S!OpenBegin, BothOpen
        <5> QED
          BY <3>2, <5>1 DEF OpType
      <4> QED
        BY <4>1, <4>2
    <3>6. OpMatches'
      BY <1>4, <1>6, <3>1, <3>4 DEF OpMatches, Runs
    <3>7. OpenKeeps'
      BY <1>1, <1>2, <1>3, <1>4, <3>4, <3>5 DEF OpenKeeps, BothOpen
    <3> QED
      BY <3>6, <3>7
  <2>2. CASE StartClose
    <3>1. running'.kind = "close" /\ op' = [op EXCEPT !.at = "closing"]
      BY <1>3, <2>2 DEF StartClose, Takes, S!CloseBegin
    <3>2. op'.at = "closing"
      BY <1>1, <3>1 DEF SessionKept, S!SessionTypeOK
    <3>3. OpMatches'
      BY <1>6, <3>1, <3>2 DEF OpMatches, Runs
    <3>4. OpenKeeps'
      BY <1>1, <1>2, <1>3, <1>4, <3>1 DEF OpenKeeps, BothOpen, Runs
    <3> QED
      BY <3>3, <3>4
  <2>3. CASE StartOther
    <3>1. running'.kind \in {"other", "recover"} /\ UNCHANGED <<op, smClosing>>
      BY <1>3, <2>3 DEF StartOther, Takes, sessionVars
    <3>2. OpMatches'
      BY <1>4, <1>6, <3>1 DEF OpMatches, Runs
    <3>3. OpenKeeps'
      BY <1>1, <1>2, <1>3, <1>4, <3>1 DEF OpenKeeps, BothOpen, Runs
    <3> QED
      BY <3>2, <3>3
  <2> QED
    BY <2>1, <2>2, <2>3
<1>8. Steady' /\ stopping' = stopping
  <2>1. trouble' \in Nat /\ openFailed' \in S!Target \cup {None}
    BY <1>1, <1>2 DEF SupervisorTyped
  <2> QED
    BY <1>2, <1>3, <1>7, <2>1, ThreadSame
<1> QED
  BY <1>1, <1>3, <1>5, <1>7, <1>8 DEF Working

\* The open that runs is the only one in flight.
LEMMA OpenAlone ==
    ASSUME SupervisorInv, ~stopping, Runs("open")
    PROVE  /\ running \in futures /\ running \in Job /\ ~paused
           /\ \A j \in W!Finished : j.kind # "open"
<1>1. WP!WorkerInv /\ OneOfAKind /\ JobsKnown /\ FlagsKept /\ phase = "open"
  BY DEF SupervisorInv, Working, Steady
<1>2. /\ running \in Job \cup {Cleanup, None} /\ (running \in Job => running \in futures)
      /\ W!Finished \subseteq futures /\ running \notin W!Finished
  BY <1>1, WorkerFacts
<1>3. running \in Job /\ running \in futures /\ running.kind = "open"
  BY <1>2 DEF Runs
<1>4. \A j \in W!Finished : j.kind # "open"
  BY <1>1, <1>2, <1>3 DEF OneOfAKind
<1>5. ~paused
  BY <1>1, <1>3 DEF JobsKnown, JobKnown, FlagsKept
<1> QED
  BY <1>3, <1>4, <1>5

\* Inside open_all(): a session is published where there was none.
LEMMA StepOpenWorks ==
    ASSUME SupervisorInv, SessionKept', ~stopping, StepOpen
    PROVE  Working' /\ stopping' = stopping
<1> USE SupervisorAssumption
<1>1. /\ SupervisorTyped /\ OpMatches /\ InOrder /\ phase = "open" /\ WP!WorkerInv
      /\ OpenKeeps /\ SessionKept /\ Shown
  BY DEF SupervisorInv, Working, Steady
<1>2. /\ Runs("open") /\ UNCHANGED <<supervisorVars, workerVars, recovery, openFailed, trouble>>
  BY DEF StepOpen
<1>3. /\ running \in Job /\ ~paused /\ \A j \in W!Finished : j.kind # "open"
  BY <1>2, OpenAlone
<1>4. /\ UNCHANGED <<running, futures, reserved, phase, generation>> /\ W!Finished' = W!Finished
  BY <1>2 DEF workerVars, supervisorVars, W!Finished
<1>5. /\ op.target \in S!Target /\ op \in OpType /\ S!Target = {"MAP", "PBAP"}
      /\ session \in [S!Target -> S!Session \cup {None}]
  BY <1>1 DEF SessionKept, S!SessionTypeOK, OpType, S!Target
<1>6. ~smClosing /\ smClosing' = smClosing
  BY <1>1, <1>2 DEF OpMatches, StepOpen, S!KeepSession, S!CreateSession, S!Publish
<1>7. op.failed \in S!Target \cup {None} /\ S!Failing(op.target) \in S!Target /\ S!Failing(op.target) # None
  BY <1>5 DEF OpType, S!Failing
\* What the open has found so far.
<1> DEFINE Found(sess, o) ==
        o.failed = None => /\ o.target = "PBAP" => sess["MAP"] # None
                           /\ o.at = "end" => \A t \in S!Target : sess[t] # None
<1>8. running.gen = generation => Found(session, op)
  BY <1>1, <1>2 DEF OpenKeeps, BothOpen
<1>9. /\ op'.at \in {"create", "publish", "end"}
      /\ \A t \in S!Target : session[t] # None => session'[t] = session[t]
      /\ Found(session, op) => Found(session', op')
  <2>1. CASE S!KeepSession
    <3>1. session[op.target] # None /\ op' = S!Step(op.target, op.failed) /\ session' = session
      BY <2>1 DEF S!KeepSession
    <3> QED
      BY <1>5, <1>7, <3>1, StepTyped
  <2>2. ASSUME NEW ok \in BOOLEAN, S!CreateSession(ok)
        PROVE  /\ op'.at \in {"create", "publish", "end"} /\ session' = session
               /\ Found(session, op) => Found(session', op')
    <3>1. CASE ok
      <4>1. op' = [op EXCEPT !.at = "publish"] /\ session' = session
        BY <2>2, <3>1 DEF S!CreateSession
      <4>2. op'.at = "publish" /\ op'.target = op.target /\ op'.failed = op.failed
        BY <1>5, <4>1 DEF OpType
      <4> QED
        BY <4>1, <4>2
    <3>2. CASE ~ok
      <4>1. op' = S!Step(op.target, S!Failing(op.target)) /\ session' = session
        BY <2>2, <3>2 DEF S!CreateSession
      <4> QED
        BY <1>5, <1>7, <4>1, StepTyped
    <3> QED
      BY <3>1, <3>2
  <2>3. CASE S!Publish
    <3>1. session[op.target] = None /\ owner[op.target] # None /\ op.at = "publish"
      BY <1>1, <2>3 DEF SessionKept, S!Publish
    <3>2. CASE exited \/ owner[op.target].path \in removed
      <4>1. op' = S!Step(op.target, S!Failing(op.target)) /\ session' = session
        BY <2>3, <3>2 DEF S!Publish
      <4> QED
        BY <1>5, <1>7, <4>1, StepTyped
    <3>3. CASE ~(exited \/ owner[op.target].path \in removed)
      <4>1. op' = S!Step(op.target, op.failed) /\ session' = [session EXCEPT ![op.target] = owner[op.target]]
        BY <2>3, <3>3 DEF S!Publish
      <4>2. session'[op.target] # None /\ \A t \in S!Target : session[t] # None => session'[t] = session[t]
        BY <1>5, <3>1, <4>1
      <4> QED
        BY <1>5, <1>7, <4>1, <4>2, StepTyped
    <3> QED
      BY <3>2, <3>3
  <2> QED
    BY <2>1, <2>2, <2>3 DEF StepOpen
<1>10. OpMatches'
  BY <1>2, <1>4, <1>6, <1>9 DEF OpMatches, Runs
<1>11. OpenKeeps'
  BY <1>3, <1>4, <1>8, <1>9 DEF OpenKeeps, BothOpen
<1>12. /\ ready => BothOpen'
       /\ listener # None => session'["MAP"] = listener
  BY <1>1, <1>5, <1>9 DEF Shown, BothOpen, SupervisorTyped
<1>13. Steady' /\ stopping' = stopping
  <2>1. trouble' \in Nat /\ openFailed' \in S!Target \cup {None}
    BY <1>1, <1>2 DEF SupervisorTyped
  <2> QED
    BY <1>2, <1>3, <1>4, <1>11, <1>12, <2>1, ThreadSteady
<1> QED
  BY <1>1, <1>2, <1>4, <1>10, <1>13, SameInOrder DEF Working

LEMMA FinishWorks ==
    ASSUME SupervisorInv, SessionKept', ~stopping, FinishOpen \/ FinishClose \/ FinishOther
    PROVE  Working' /\ stopping' = stopping
<1> USE SupervisorAssumption
<1>1. /\ SupervisorTyped /\ OpMatches /\ InOrder /\ phase = "open" /\ WP!WorkerInv
      /\ OpenKeeps /\ SessionKept /\ Shown /\ FlagsKept /\ JobsKnown
  BY DEF SupervisorInv, Working, Steady
<1>2. /\ W!Finish /\ UNCHANGED <<supervisorVars, recovery, trouble>>
  BY DEF FinishOpen, FinishClose, FinishOther
<1>3. /\ running \in Job /\ running' = None /\ W!Finished' = W!Finished \cup {running}
      /\ UNCHANGED <<queue, futures, reserved, phase>>
  BY <1>1, <1>2, FinishEffect
<1>4. InOrder'
  BY <1>1, <1>2, FinishInOrder
<1>5. UNCHANGED <<generation, paused, ready, listener>> /\ running \in futures /\ trouble' \in Nat
  BY <1>1, <1>2, <1>3, WorkerFacts DEF supervisorVars, SupervisorTyped
<1>6. CASE FinishOpen
  <2>1. /\ Runs("open") /\ op.at = "end" /\ op' = S!Idle /\ openFailed' = op.failed
        /\ UNCHANGED <<session, smClosing>>
    BY <1>6 DEF FinishOpen, S!OpenEnd
  <2>2. \A j \in W!Finished : j.kind # "open"
    BY <2>1, OpenAlone
  <2>3. OpMatches'
    BY <1>1, <1>3, <2>1, IdleTyped DEF OpMatches, Runs
  <2>4. OpenKeeps'
    BY <1>1, <1>3, <1>5, <2>1, <2>2 DEF OpenKeeps, Runs, BothOpen
  <2>5. openFailed' \in S!Target \cup {None}
    BY <1>1, <2>1 DEF SessionKept, S!SessionTypeOK
  <2>6. Steady' /\ stopping' = stopping
    BY <1>2, <1>3, <1>5, <2>1, <2>4, <2>5, ThreadSame
  <2> QED
    BY <1>1, <1>3, <1>4, <2>3, <2>6 DEF Working
<1>7. CASE FinishClose
  <2>1. /\ Runs("close") /\ op' = S!Idle /\ session' = S!Nothing /\ smClosing' = FALSE
        /\ openFailed' = openFailed
    BY <1>7 DEF FinishClose, S!CloseEnd
  <2>2. closing /\ ~ready /\ listener = None /\ \A j \in futures : j.kind = "open" => j.gen # generation
    BY <1>1, <1>5, <2>1 DEF Runs, JobsKnown, JobKnown, FlagsKept, Shown, SupervisorTyped
  <2>3. OpMatches'
    BY <1>3, <2>1, IdleTyped DEF OpMatches, Runs
  <2>4. OpenKeeps'
    <3>1. W!Finished' \subseteq futures
      BY <1>1, <1>3, <1>5, WorkerFacts
    <3> QED
      BY <1>3, <1>5, <2>2, <3>1 DEF OpenKeeps, Runs
  <2>5. openFailed' \in S!Target \cup {None}
    BY <1>1, <2>1 DEF SupervisorTyped
  <2>6. Steady' /\ stopping' = stopping
    BY <1>2, <1>3, <1>5, <2>1, <2>2, <2>4, <2>5, ThreadSteady
  <2> QED
    BY <1>1, <1>3, <1>4, <2>3, <2>6 DEF Working
<1>8. CASE FinishOther
  <2>1. /\ Runs("other") \/ Runs("recover")
        /\ UNCHANGED <<session, op, smClosing, openFailed>>
    BY <1>8 DEF FinishOther, sessionVars
  <2>2. OpMatches'
    BY <1>1, <1>3, <2>1 DEF OpMatches, Runs
  <2>3. OpenKeeps'
    BY <1>1, <1>3, <1>5, <2>1 DEF OpenKeeps, Runs, BothOpen
  <2>4. openFailed' \in S!Target \cup {None}
    BY <1>1, <2>1 DEF SupervisorTyped
  <2>5. Steady' /\ stopping' = stopping
    BY <1>2, <1>3, <1>5, <2>1, <2>3, <2>4, ThreadSame
  <2> QED
    BY <1>1, <1>3, <1>4, <2>2, <2>5 DEF Working
<1> QED
  BY <1>6, <1>7, <1>8

LEMMA OutageWorks ==
    ASSUME SupervisorInv, SessionKept', ~stopping, Outage
    PROVE  Working' /\ stopping' = stopping
<1>1. /\ SupervisorTyped /\ OpMatches /\ InOrder /\ phase = "open" /\ OpenKeeps
  BY DEF SupervisorInv, Working, Steady
<1>2. /\ UNCHANGED <<supervisorVars, workerVars, recovery, openFailed>> /\ trouble' = trouble + 1
      /\ UNCHANGED <<session, op, smClosing>>
  BY DEF Outage, Disturb, S!LoseSession, S!ObexdExit
<1>3. UNCHANGED <<running, futures, reserved, phase, generation>> /\ W!Finished' \subseteq W!Finished
  BY <1>2 DEF workerVars, supervisorVars, W!Finished
<1>4. OpenKeeps'
  BY <1>1, <1>2, <1>3, SameOpenKeeps
<1>5. trouble' \in Nat /\ openFailed' \in S!Target \cup {None}
  BY <1>1, <1>2 DEF SupervisorTyped
<1>6. Steady' /\ stopping' = stopping
  BY <1>2, <1>3, <1>4, <1>5, ThreadSame
<1> QED
  BY <1>1, <1>2, <1>3, <1>6, SameOpMatches, SameInOrder DEF Working

-----------------------------------------------------------------------------
(***************************************************************************)
(* The worker under the supervisor.                                        *)
(***************************************************************************)

\* Every step of the daemon is a step of the worker, or none: in particular the
\* reservation is given back only by the callback of the last operation.
LEMMA NextIsWorker ==
    ASSUME SupervisorInv, [Next]_vars
    PROVE  [WP!WorkerNext]_(WP!workerVars)
<1>1. SupervisorTyped
  BY DEF SupervisorInv
<1>2. ASSUME UNCHANGED workerVars PROVE [WP!WorkerNext]_(WP!workerVars)
  BY <1>2 DEF workerVars, WP!workerVars
<1>3. ASSUME NEW j \in Job, W!Submit(j) PROVE WP!WorkerNext
  BY <1>3, SameSubmit DEF WP!WorkerNext
<1>4. ASSUME NEW release \in BOOLEAN, NEW next, next = {} \/ \E j \in Job : next = {j},
             release => reserved /\ Len(done) = 1 /\ futures = {Head(done)},
             W!Deliver(release, next)
      PROVE  WP!WorkerNext
  <2>1. WP!Deliver(release, next) /\ next \in {{}} \cup {{j} : j \in Job}
    BY <1>4, SameDeliver
  <2>2. WP!Callback
    BY <1>4, <2>1 DEF WP!Callback
  <2> QED
    BY <2>2 DEF WP!WorkerNext
<1>5. /\ OpenJob \in Job /\ OtherJob \in Job /\ RecoverJob \in Job
      /\ \A remote \in BOOLEAN : CloseJob(remote) \in Job
  BY <1>1, JobTypes
<1>6. ASSUME NEW jobs, jobs \subseteq Job, SubmitAll(jobs) PROVE [WP!WorkerNext]_(WP!workerVars)
  BY <1>2, <1>3, <1>6 DEF SubmitAll
<1>7. CASE MainLoop
  <2>1. CASE Start \/ Retry
    <3>1. SubmitAll(OpenSubmits) /\ OpenSubmits \subseteq Job
      BY <1>5, <2>1 DEF Start, Retry, Open, OpenSubmits
    <3> QED
      BY <1>6, <3>1
  <2>2. CASE RetryClose
    <3>1. retry \in Job
      BY <1>1, <2>2 DEF RetryClose, SupervisorTyped
    <3> QED
      BY <1>2, <1>3, <2>2, <3>1 DEF RetryClose
  <2>3. CASE Signal \/ Refresh \/ BluezRestart
    <3>1. CASE UNCHANGED workerVars
      BY <1>2, <3>1
    <3>2. ASSUME NEW remote \in BOOLEAN, SubmitAll(ReconnectSubmits(remote, reserved))
          PROVE  [WP!WorkerNext]_(WP!workerVars)
      <4>1. ReconnectSubmits(remote, reserved) \subseteq Job
        BY <1>5 DEF ReconnectSubmits
      <4> QED
        BY <1>6, <3>2, <4>1
    <3> QED
      BY <2>3, <3>1, <3>2 DEF Signal, Refresh, BluezRestart, ReconnectNow
  <2>4. CASE OtherSubmit \/ RecoveryRetry
    BY <1>3, <1>5, <2>4 DEF OtherSubmit, RecoveryRetry
  <2>5. CASE RecoveryPause
    BY <1>5, <2>5, SameActions DEF RecoveryPause, WP!WorkerNext
  <2>6. CASE ResumeLate
    <3>1. SubmitAll(ResumeSubmits(reserved)) /\ ResumeSubmits(reserved) \subseteq Job
      BY <1>5, <2>6 DEF ResumeLate, ResumeSubmits
    <3> QED
      BY <1>6, <3>1
  <2>7. CASE Callback
    <3>1. CASE W!Deliver(FALSE, {})
      BY <1>4, <3>1
    <3>2. CASE OtherFailed
      <4>1. /\ W!Deliver(FALSE, ReconnectSubmits(FALSE, reserved))
            /\ ReconnectSubmits(FALSE, reserved) \in {{}, {CloseJob(FALSE)}}
        BY <3>2 DEF OtherFailed, ReconnectSubmits
      <4> QED
        BY <1>4, <1>5, <4>1
    <3>3. CASE RecoverySuspended \/ RecoveryFinished
      <4>1. done # <<>> /\ Head(done).kind = "recover" /\ ~stopping
        BY <3>3 DEF RecoverySuspended, RecoveryFinished, Delivers, Started
      <4>2. reserved /\ futures = {Head(done)} /\ Len(done) = 1
        BY <4>1, RecoverAlone
      <4>3. PICK next \in {{}, {CloseJob(FALSE)}} : W!Deliver(TRUE, next)
        BY <3>3 DEF RecoverySuspended, RecoveryFinished, ResumeSubmits
      <4> QED
        BY <1>4, <1>5, <4>2, <4>3
    <3> QED
      BY <2>7, <3>1, <3>2, <3>3 DEF Callback, Opened, OpenFailed, Closed, OtherDone, RecoveryPending
  <2>8. CASE Stop
    BY <2>8, SameActions DEF Stop, WP!WorkerNext
  <2>9. CASE CancelPending
    <3>1. CASE W!SubmitCleanup
      BY <3>1, SameActions DEF WP!WorkerNext
    <3>2. ASSUME NEW j \in toCancel, W!Cancel(j) PROVE WP!WorkerNext
      <4>1. j \in Job
        BY DEF SupervisorInv, WP!WorkerInv, WP!WorkerTypeOK
      <4> QED
        BY <3>2, <4>1, SameActions DEF WP!WorkerNext
    <3> QED
      BY <2>9, <3>1, <3>2 DEF CancelPending
  <2> QED
    BY <1>7, <2>1, <2>2, <2>3, <2>4, <2>5, <2>6, <2>7, <2>8, <2>9 DEF MainLoop
<1>8. CASE Thread
  <2>1. CASE W!Start \/ W!Skip \/ W!Finish \/ W!Stopped
    BY <2>1, SameActions DEF WP!WorkerNext
  <2>2. CASE UNCHANGED workerVars
    BY <1>2, <2>2
  <2> QED
    BY <1>8, <2>1, <2>2 DEF Thread, StartOpen, StepOpen, FinishOpen, StartClose, FinishClose,
       StartOther, FinishOther, DropCancelled, StartCleanup, FinishCleanup, CloseBus
<1>9. CASE Outage \/ Exited \/ UNCHANGED vars
  BY <1>2, <1>9 DEF Outage, Exited, vars
<1> QED
  BY <1>7, <1>8, <1>9 DEF Next

-----------------------------------------------------------------------------
(***************************************************************************)
(* The invariant holds initially and is preserved by every step.           *)
(***************************************************************************)

LEMMA SupervisorInit == Init => SupervisorInv
<1> SUFFICES ASSUME Init PROVE SupervisorInv
  OBVIOUS
<1> USE SupervisorAssumption
<1>1. WP!WorkerInv
  <2>1. WP!WorkerInit
    BY DEF Init, W!WorkerInit, WP!WorkerInit
  <2> QED
    BY <2>1, WorkerConstants, WP!WorkerInvInit
<1>2. SessionKept
  BY SessionKeptInit
<1>3. /\ queue = <<>> /\ done = <<>> /\ running = None /\ futures = {} /\ reserved = FALSE
      /\ phase = "open" /\ session = S!Nothing /\ op = S!Idle /\ smClosing = FALSE
  BY DEF Init, W!WorkerInit, S!SessionInit
<1>4. /\ retry = None /\ opening = FALSE /\ closing = FALSE /\ ready = FALSE
      /\ stopping = FALSE /\ paused = FALSE /\ generation = 0 /\ consumers = FALSE
      /\ attempted = FALSE /\ status = "INITIALIZING" /\ failing = FALSE /\ leHeld = TRUE
      /\ listener = None /\ recovery = "idle" /\ openFailed = None /\ trouble = 0
  BY DEF Init
<1>5. W!Queued = {} /\ W!Finished = {}
  BY <1>3 DEF W!Queued, W!Finished
<1>6. SupervisorTyped
  BY <1>4 DEF SupervisorTyped, Statuses
<1>7. OneOfAKind /\ JobsKnown
  BY <1>3 DEF OneOfAKind, JobsKnown
<1>8. OpMatches
  BY <1>3, IdleTyped DEF OpMatches, Runs
<1>9. InOrder
  BY <1>3, <1>5 DEF InOrder, Ordered, Runs
<1>10. FlagsKept
  BY <1>3, <1>4 DEF FlagsKept
<1>11. OpenKeeps
  BY <1>3, <1>5 DEF OpenKeeps, Runs
<1>12. Shown
  BY <1>4 DEF Shown
<1> QED
  BY <1>1, <1>2, <1>3, <1>4, <1>6, <1>7, <1>8, <1>9, <1>10, <1>11, <1>12
     DEF SupervisorInv, Working, Steady

\* Before shutdown: every step but stop() keeps the supervisor working.
LEMMA WorkingStep ==
    ASSUME SupervisorInv, SessionKept', ~stopping, Next
    PROVE  (Working' /\ stopping' = stopping) \/ Stop
<1>1. WP!WorkerInv /\ phase = "open" /\ OpMatches /\ InOrder /\ Steady
  BY DEF SupervisorInv, Working
<1>2. running # Cleanup /\ Cleanup \notin W!Queued
  BY <1>1, SupervisorAssumption, WorkerFacts
<1>3. CASE MainLoop
  <2>1. ~CancelPending
    BY <1>1 DEF CancelPending, W!Cancel, W!SubmitCleanup
  <2> QED
    BY <1>3, <2>1, OpenWorks, RetryCloseWorks, SignalWorks, OtherSubmitWorks, RefreshWorks,
       RecoveryPauseWorks, ResumeLateWorks, CallbackWorks DEF MainLoop
<1>4. CASE Thread
  <2>1. ~DropCancelled
    BY <1>1, SkipEffect DEF DropCancelled
  <2>2. ~StartCleanup
    <3>1. queue \in Seq(Job \cup {Cleanup})
      BY <1>1, WorkerFacts
    <3>2. queue # <<>> => Head(queue) \in W!Queued
      BY <3>1 DEF W!Queued
    <3> QED
      BY <1>2, <3>2 DEF StartCleanup
  <2>3. ~FinishCleanup /\ ~CloseBus
    BY <1>2 DEF FinishCleanup, CloseBus
  <2> QED
    BY <1>4, <2>1, <2>2, <2>3, StartWorks, StepOpenWorks, FinishWorks DEF Thread
<1>5. ~Exited
  BY <1>1 DEF Exited
<1> QED
  BY <1>3, <1>4, <1>5, OutageWorks DEF Next

\* After it: only the thread and shutdown() move.
LEMMA EndedStep ==
    ASSUME SupervisorInv, SessionKept', stopping, Next
    PROVE  /\ SupervisorTyped' /\ OneOfAKind' /\ Ended' /\ stopping' = stopping
<1>1. SupervisorTyped /\ OneOfAKind /\ Ended /\ SessionKept
  BY DEF SupervisorInv
<1>2. CancelPending \/ Thread \/ Exited
  BY <1>1 DEF Ended, Next, MainLoop, Callback, Start, Retry, RetryClose, Signal, OtherSubmit, Refresh,
     BluezRestart, RecoveryPause, RecoveryRetry, ResumeLate, Opened, OpenFailed, Closed, OtherDone,
     OtherFailed, RecoveryPending, RecoverySuspended, RecoveryFinished, Stop, Outage, Delivers, Started
<1>3. UNCHANGED <<supervisorVars, recovery, trouble>>
  BY <1>2 DEF CancelPending, Thread, Exited, vars, StartOpen, StepOpen, FinishOpen, StartClose,
     FinishClose, StartOther, FinishOther, DropCancelled, StartCleanup, FinishCleanup, CloseBus
<1>4. futures' \subseteq futures /\ phase' # "open"
  <2>1. CASE W!Start \/ W!Skip \/ W!Finish \/ W!Stopped \/ W!SubmitCleanup \/ UNCHANGED workerVars
    BY <1>1, <2>1 DEF W!Start, W!Skip, W!Finish, W!Stopped, W!SubmitCleanup, workerVars, Ended
  <2>2. ASSUME NEW j, W!Cancel(j) PROVE futures' \subseteq futures /\ phase' # "open"
    BY <1>1, <2>2 DEF W!Cancel, Ended
  <2> QED
    BY <1>2, <2>1, <2>2 DEF CancelPending, Thread, Exited, vars, StartOpen, StepOpen, FinishOpen,
       StartClose, FinishClose, StartOther, FinishOther, DropCancelled, StartCleanup, FinishCleanup,
       CloseBus
<1>5. openFailed' \in S!Target \cup {None}
  <2>1. openFailed' = openFailed \/ openFailed' = op.failed
    BY <1>2 DEF CancelPending, Thread, Exited, vars, StartOpen, StepOpen, FinishOpen, StartClose,
       FinishClose, StartOther, FinishOther, DropCancelled, StartCleanup, FinishCleanup, CloseBus
  <2> QED
    BY <1>1, <2>1 DEF SupervisorTyped, SessionKept, S!SessionTypeOK
<1>6. SupervisorTyped'
  BY <1>1, <1>3, <1>5 DEF SupervisorTyped, supervisorVars
<1>7. OneOfAKind'
  BY <1>1, <1>4 DEF OneOfAKind
<1>8. Ended' /\ stopping' = stopping
  BY <1>1, <1>3, <1>4 DEF Ended, supervisorVars
<1> QED
  BY <1>6, <1>7, <1>8

LEMMA StopStep ==
    ASSUME SupervisorInv, Stop
    PROVE  SupervisorTyped' /\ OneOfAKind' /\ Ended' /\ stopping' = TRUE
<1>1. SupervisorTyped /\ OneOfAKind
  BY DEF SupervisorInv
<1>2. generation' \in Nat
  BY <1>1 DEF Stop, SupervisorTyped
<1>3. SupervisorTyped'
  BY <1>1, <1>2 DEF Stop, SupervisorTyped, Statuses
<1>4. OneOfAKind'
  BY <1>1 DEF Stop, W!Shutdown, OneOfAKind
<1> QED
  BY <1>3, <1>4 DEF Stop, W!Shutdown, Ended

LEMMA SupervisorStep == SupervisorInv /\ [Next]_vars => SupervisorInv'
<1> SUFFICES ASSUME SupervisorInv, [Next]_vars PROVE SupervisorInv'
  OBVIOUS
<1>1. SessionKept'
  BY NextIsSession, SessionStepKept DEF SupervisorInv
<1>2. WP!WorkerInv'
  <2>1. WP!WorkerInv /\ [WP!WorkerNext]_(WP!workerVars)
    BY NextIsWorker DEF SupervisorInv
  <2> QED
    BY <2>1, WorkerConstants, WP!WorkerInvStep
<1>3. CASE Next
  <2>0. stopping \in BOOLEAN
    BY DEF SupervisorInv, SupervisorTyped
  <2>1. CASE Stop
    BY <1>1, <1>2, <2>1, StopStep DEF SupervisorInv
  <2>2. CASE ~stopping /\ ~Stop
    <3>1. Working' /\ stopping' = stopping
      BY <1>1, <1>3, <2>2, WorkingStep
    <3> QED
      BY <1>1, <1>2, <2>2, <3>1 DEF SupervisorInv, Working, Steady
  <2>3. CASE stopping
    BY <1>1, <1>2, <1>3, <2>3, EndedStep DEF SupervisorInv
  <2> QED
    BY <2>0, <2>1, <2>2, <2>3
<1>4. CASE UNCHANGED vars
  BY <1>1, <1>2, <1>4 DEF vars, workerVars, sessionVars, supervisorVars, SupervisorInv, SupervisorTyped,
     OneOfAKind, Working, Steady, OpMatches, InOrder, Ordered, FlagsKept, OpenKeeps, Shown, JobsKnown,
     JobKnown, Ended, Runs, InFlight, BothOpen, W!Queued, W!Finished
<1> QED
  BY <1>3, <1>4

LEMMA SupervisorInvariant == Spec => []SupervisorInv
BY SupervisorInit, SupervisorStep, PTL DEF Spec, SafetySpec

-----------------------------------------------------------------------------
(***************************************************************************)
(* The theorems.                                                           *)
(***************************************************************************)

\* The composed state of supervisor, worker and session manager stays well
\* formed.
THEOREM SupervisorTypes == Spec => []TypeOK
<1>1. SupervisorInv => TypeOK
  BY DEF SupervisorInv, TypeOK, SupervisorTyped, SessionKept, WP!WorkerInv, WP!WorkerTypeOK, W!WorkerTypeOK
<1> QED
  BY <1>1, SupervisorInvariant, PTL

\* The supervisor and its callers use the worker as worker.py expects: the
\* daemon's steps implement the worker's safety specification, so that all that
\* is proved of the worker holds of the daemon.
THEOREM SupervisorUsesWorker == Spec => WP!WorkerSafety
<1>1. Init => WP!WorkerInit
  BY DEF Init, W!WorkerInit, WP!WorkerInit
<1>2. SupervisorInv /\ [Next]_vars => [WP!WorkerNext]_(WP!workerVars)
  BY NextIsWorker
<1> QED
  BY <1>1, <1>2, SupervisorInvariant, PTL DEF Spec, SafetySpec, WP!WorkerSafety

\* reconnect(), open(), their callbacks, the retry timers, recovery's pause and
\* resume: no order of them leaves the supervisor with nothing to do, or with two
\* opens or two closes in flight.
THEOREM SupervisorNeverStuck == Spec => []NeverStuck
<1>1. SupervisorInv => NeverStuck
  <2> SUFFICES ASSUME SupervisorInv PROVE NeverStuck
    OBVIOUS
  <2>1. OneOfAKind /\ stopping \in BOOLEAN
    BY DEF SupervisorInv, SupervisorTyped
  <2>2. CASE stopping
    BY <2>1, <2>2 DEF SupervisorInv, Ended, NeverStuck, Started, OneOfAKind
  <2>3. CASE ~stopping
    BY <2>1, <2>3 DEF SupervisorInv, Working, Steady, FlagsKept, Shown, NeverStuck, Started, OneOfAKind
  <2> QED
    BY <2>1, <2>2, <2>3
<1> QED
  BY <1>1, SupervisorInvariant, PTL

\* What Connectivity shows, whom the MAP listener serves, whether outbound LE is
\* held and what recovery's power cycle relies on is true in every state.
THEOREM SupervisorHonest == Spec => []StatusHonest
<1>1. SupervisorInv => StatusHonest
  <2> SUFFICES ASSUME SupervisorInv PROVE StatusHonest
    OBVIOUS
  <2>1. stopping \in BOOLEAN /\ ready \in BOOLEAN
    BY DEF SupervisorInv, SupervisorTyped
  <2>2. CASE stopping
    BY <2>1, <2>2 DEF SupervisorInv, Ended, StatusHonest, Started
  <2>3. CASE ~stopping
    <3>1. /\ WP!WorkerInv /\ FlagsKept /\ Shown /\ status # "STOPPING"
      BY <2>3 DEF SupervisorInv, Working, Steady
    <3>2. \A j \in futures : (j.kind = "recover") = reserved
      BY <3>1, WorkerFacts
    <3> QED
      BY <2>1, <2>3, <3>1, <3>2 DEF FlagsKept, Shown, StatusHonest, Started
  <2> QED
    BY <2>1, <2>2, <2>3
<1> QED
  BY <1>1, SupervisorInvariant, PTL

=============================================================================
