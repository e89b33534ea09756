----------------------- MODULE BearerSupervisorProofs -----------------------
(***************************************************************************)
(* Proofs about BearerSupervisor: for every number of losses, restarts,    *)
(* requests and faults, whatever the supervisor waits for is under way,    *)
(* and the solicitation knows of every LE dial.                            *)
(*                                                                         *)
(* An action applies one handler to sv, and a handler is a chain of        *)
(* methods.  So the invariant is a predicate of a supervisor's state, and  *)
(* each method has a lemma that says it keeps it.                          *)
(***************************************************************************)
EXTENDS BearerSupervisor, TLAPS

Fields == DOMAIN InitSupervisor
Request == [targeted : BOOLEAN, wait : {"reply", "observation", "overdue"}]
Call ==
    [op : {"connect"}, kind : Kinds, current : BOOLEAN, done : BOOLEAN]
        \cup [op : {"disconnect"}, kind : {"le", "device"}, current : BOOLEAN, done : BOOLEAN]
Advert ==
    [running : BOOLEAN, needed : BOOLEAN, dialing : BOOLEAN, hold : BOOLEAN,
     advert : {"off", "pending", "on"}]

\* The fields that a wait is made of have their types.
Shaped(s) ==
    /\ DOMAIN s = Fields /\ s = [f \in Fields |-> s[f]]
    /\ s.req \in [Kinds -> {None} \cup Request]
    /\ s.calls \in SUBSET Call
    /\ s.adv \in Advert

\* BlueZ owes an answer to such a call, and the answer will be taken for its own.
Owed(s, op, kind) == \E c \in s.calls : c.op = op /\ c.kind = kind /\ c.current

\* E holds the requests, by bearer and by whether they name their transport, whose answer
\* is being handled: their call has just been taken off.
DialsOwed(s, E) ==
    \A k \in Kinds :
        s.req[k] # None /\ s.req[k].wait = "reply" /\ <<k, s.req[k].targeted>> \notin E
            => Owed(s, "connect", k)
ResetsOwed(s) ==
    /\ s.disconnecting => Owed(s, "disconnect", "le")
    /\ s.phase = "disconnecting" => Owed(s, "disconnect", "device")
DialTold(s) == s.adv.dialing <=> s.req["le"] # None

\* A connect call whose answer would be taken has a request it can answer.
CallsMatch(s) == \A c \in s.calls : c.op = "connect" /\ c.current => s.req[c.kind] # None

Waits(s, E) == DialsOwed(s, E) /\ ResetsOwed(s) /\ CallsMatch(s)
Good(s, E) == Shaped(s) /\ Waits(s, E) /\ DialTold(s)

\* t differs from s in nothing a wait is made of.
Alike(s, t) ==
    /\ Shaped(t)
    /\ t.req = s.req /\ t.calls = s.calls /\ t.disconnecting = s.disconnecting
    /\ t.phase = s.phase /\ t.adv.dialing = s.adv.dialing

LEMMA FieldNames ==
    Fields = {"running", "enabled", "api", "req", "disconnecting", "settle", "hint", "spent",
              "restore", "pending", "downSeen", "resetFailed", "resetQuiet", "wanted", "st",
              "cache", "failures", "quiet", "forgive", "resting", "remoteClosed", "sighted",
              "manual", "phase", "budgetQuiet", "calls", "pref", "adv"}
  BY DEF Fields, InitSupervisor

LEMMA AlikeGood ==
    ASSUME NEW s, NEW t, NEW E, Good(s, E), Alike(s, t)
    PROVE  Good(t, E)
  BY DEF Good, Alike, Waits, DialsOwed, ResetsOwed, CallsMatch, DialTold, Owed

LEMMA AlikeTrans ==
    ASSUME NEW s, NEW t, NEW u, Alike(s, t), Alike(t, u)
    PROVE  Alike(s, u)
  BY DEF Alike

LEMMA AlikeSelf == ASSUME NEW s, Shaped(s) PROVE Alike(s, s)
  BY DEF Alike

\* A field that no wait is made of may be set at will.
LEMMA OtherField ==
    ASSUME NEW s, Shaped(s), NEW f \in Fields \ {"req", "calls", "adv", "disconnecting", "phase"},
           NEW v
    PROVE  Alike(s, [s EXCEPT ![f] = v])
  BY FieldNames DEF Alike, Shaped

-----------------------------------------------------------------------------
(* The solicitation's handlers. *)

LEMMA ReconcileKeeps ==
    ASSUME NEW a \in Advert
    PROVE  Reconcile(a) \in Advert /\ Reconcile(a).dialing = a.dialing
  BY DEF Reconcile, Withdraw, Advert

LEMMA SetNeededKeeps ==
    ASSUME NEW a \in Advert, NEW b \in BOOLEAN
    PROVE  SetNeeded(a, b) \in Advert /\ SetNeeded(a, b).dialing = a.dialing
  <1> DEFINE set == [(IF b /\ (b # a.needed) THEN BeginHold(a) ELSE a) EXCEPT !.needed = b]
  <1>1. set \in Advert /\ set.dialing = a.dialing
    BY DEF BeginHold, Advert
  <1> QED BY <1>1, ReconcileKeeps DEF SetNeeded

LEMMA SetDialingKeeps ==
    ASSUME NEW a \in Advert, NEW b \in BOOLEAN
    PROVE  SetDialing(a, b) \in Advert /\ SetDialing(a, b).dialing = b
  <1> DEFINE set == [a EXCEPT !.dialing = b]
  <1>1. set \in Advert /\ set.dialing = b
    BY DEF Advert
  <1> QED BY <1>1, ReconcileKeeps DEF SetDialing

LEMMA StartKeeps ==
    ASSUME NEW a \in Advert
    PROVE  StartSolicitation(a) \in Advert /\ StartSolicitation(a).dialing = a.dialing
  <1> DEFINE begun == [a EXCEPT !.running = TRUE]
  <1> DEFINE set == IF a.needed THEN BeginHold(begun) ELSE begun
  <1>1. begun \in Advert /\ begun.dialing = a.dialing
    BY DEF Advert
  <1>2. set \in Advert /\ set.dialing = a.dialing
    BY <1>1 DEF Advert, BeginHold
  <1> QED BY <1>2, ReconcileKeeps DEF StartSolicitation

LEMMA ResetKeeps ==
    ASSUME NEW a \in Advert
    PROVE  ResetSolicitation(a) \in Advert /\ ResetSolicitation(a).dialing = a.dialing
  <1> DEFINE set == [BeginHold(a) EXCEPT !.needed = TRUE, !.advert = "off"]
  <1>1. set \in Advert /\ set.dialing = a.dialing
    BY DEF Advert, BeginHold
  <1> QED BY <1>1, ReconcileKeeps DEF ResetSolicitation

LEMMA RestKeeps ==
    ASSUME NEW a \in Advert
    PROVE  /\ StopSolicitation(a) \in Advert /\ StopSolicitation(a).dialing = a.dialing
           /\ AdvertRegistered(a) \in Advert /\ AdvertRegistered(a).dialing = a.dialing
           /\ AdvertGone(a) \in Advert /\ AdvertGone(a).dialing = a.dialing
           /\ [a EXCEPT !.hold = FALSE] \in Advert /\ [a EXCEPT !.hold = FALSE].dialing = a.dialing
  BY DEF Advert, StopSolicitation, AdvertRegistered, AdvertGone, BeginHold

\* The solicitation may be replaced by one that knows of the same dial.
LEMMA OtherAdvert ==
    ASSUME NEW s, Shaped(s), NEW a \in Advert, a.dialing = s.adv.dialing
    PROVE  Alike(s, [s EXCEPT !.adv = a])
  BY FieldNames DEF Alike, Shaped

-----------------------------------------------------------------------------
(* Methods that touch nothing a wait is made of. *)

LEMMA SmallStepsAlike ==
    ASSUME NEW s, Shaped(s)
    PROVE  /\ Alike(s, CancelSettle(s)) /\ Alike(s, Take(s))
           /\ Alike(s, RearmLeDial(s)) /\ Alike(s, EnterResting(s))
           /\ Alike(s, NotePresence(s))
  <1>1. Alike(s, CancelSettle(s))
    BY FieldNames DEF Alike, Shaped, CancelSettle
  <1>2. Alike(s, Take(s))
    BY FieldNames DEF Alike, Shaped, Take
  <1>3. Alike(s, RearmLeDial(s))
    BY FieldNames DEF Alike, Shaped, RearmLeDial
  <1>4. Alike(s, EnterResting(s))
    BY FieldNames DEF Alike, Shaped, EnterResting
  <1>5. Alike(s, NotePresence(s))
    BY FieldNames DEF Alike, Shaped, NotePresence
  <1> QED BY <1>1, <1>2, <1>3, <1>4, <1>5

LEMMA RecordFailureAlike ==
    ASSUME NEW s, Shaped(s), NEW k
    PROVE  Alike(s, RecordFailure(s, k))
  <1> DEFINE counted == [s EXCEPT !.failures = IF @ < RestingAfter THEN @ + 1 ELSE @,
                                  !.quiet["bredr"] = TRUE]
  <1>1. Alike(s, counted)
    BY FieldNames DEF Alike, Shaped
  <1> HIDE DEF counted
  <1>2. Alike(s, EnterResting(counted))
    <2>1. Shaped(counted)
      BY <1>1 DEF Alike
    <2>2. Alike(counted, EnterResting(counted))
      BY <2>1, SmallStepsAlike
    <2> QED BY <1>1, <2>2, AlikeTrans
  <1>3. Alike(s, [s EXCEPT !.quiet["le"] = TRUE])
    BY FieldNames DEF Alike, Shaped
  <1>4. RecordFailure(s, k) \in {[s EXCEPT !.quiet["le"] = TRUE], counted, EnterResting(counted)}
    BY DEF RecordFailure, counted
  <1> QED BY <1>1, <1>2, <1>3, <1>4

LEMMA RestorePreferenceAlike ==
    ASSUME NEW s, Shaped(s)
    PROVE  Alike(s, RestorePreference(s))
  <1>1. Alike(s, [s EXCEPT !.pref = "le", !.restore = FALSE])
    BY FieldNames DEF Alike, Shaped
  <1>2. RestorePreference(s) \in {s, [s EXCEPT !.pref = "le", !.restore = FALSE]}
    BY DEF RestorePreference
  <1> QED BY <1>1, <1>2, AlikeSelf

LEMMA ScheduleLeConnectAlike ==
    ASSUME NEW s, Shaped(s)
    PROVE  Alike(s, ScheduleLeConnect(s))
  <1>1. Alike(s, [s EXCEPT !.settle = TRUE])
    BY FieldNames DEF Alike, Shaped
  <1>2. ScheduleLeConnect(s) \in {s, [s EXCEPT !.settle = TRUE]}
    BY DEF ScheduleLeConnect
  <1> QED BY <1>1, <1>2, AlikeSelf

LEMMA ClearBackoffAlike ==
    ASSUME NEW s, Shaped(s), NEW k
    PROVE  Alike(s, ClearBackoff(s, k))
  <1> DEFINE cleared == [s EXCEPT !.quiet[k] = FALSE,
                                  !.failures = IF k = "bredr" THEN 0 ELSE @]
  <1> DEFINE forgiven == [cleared EXCEPT !.failures = 0, !.quiet["bredr"] = FALSE, !.forgive = FALSE]
  <1>1. Alike(s, cleared)
    BY FieldNames DEF Alike, Shaped
  <1> HIDE DEF cleared
  <1>2. Alike(cleared, forgiven)
    BY <1>1, FieldNames DEF Alike, Shaped
  <1>3. Alike(s, forgiven)
    BY <1>1, <1>2, AlikeTrans
  <1> HIDE DEF forgiven
  <1>4. ClearBackoff(s, k) \in {cleared, forgiven}
    BY DEF ClearBackoff, cleared, forgiven
  <1> QED BY <1>1, <1>3, <1>4

LEMMA StoreStateAlike ==
    ASSUME NEW s, Shaped(s), NEW k, NEW v
    PROVE  Alike(s, StoreState(s, k, v))
  <1> DEFINE stored == [s EXCEPT !.st[k] = v]
  <1> DEFINE flagged ==
               [stored EXCEPT
                 !.downSeen = @ \/ (v = "down" /\ s.pending),
                 !.wanted = IF v = "down" /\ s.st[k] = "up" THEN None ELSE @,
                 !.hint = (v = "up") \/ (@ /\ v = "unknown")]
  <1>1. Alike(s, stored)
    BY FieldNames DEF Alike, Shaped
  <1> HIDE DEF stored
  <1>2. Alike(stored, flagged)
    BY <1>1, FieldNames DEF Alike, Shaped
  <1>3. Alike(s, flagged)
    BY <1>1, <1>2, AlikeTrans
  <1> HIDE DEF flagged
  <1>4. StoreState(s, k, v) \in {stored, flagged}
    BY DEF StoreState, stored, flagged
  <1> QED BY <1>1, <1>3, <1>4

LEMMA ApplyEvidenceAlike ==
    ASSUME NEW s, Shaped(s), NEW k, NEW prev, NEW v
    PROVE  Alike(s, ApplyEvidence(s, k, prev, v))
  <1>1. Alike(s, s) /\ Alike(s, RearmLeDial(s)) /\ Alike(s, NotePresence(s))
    BY AlikeSelf, SmallStepsAlike
  <1>2. Alike(s, NotePresence(RearmLeDial(s)))
    <2>1. Shaped(RearmLeDial(s))
      BY <1>1 DEF Alike
    <2>2. Alike(RearmLeDial(s), NotePresence(RearmLeDial(s)))
      BY <2>1, SmallStepsAlike
    <2> QED BY <1>1, <2>2, AlikeTrans
  <1>3. ApplyEvidence(s, k, prev, v)
          \in {s, RearmLeDial(s), NotePresence(s), NotePresence(RearmLeDial(s))}
    BY DEF ApplyEvidence
  <1> QED BY <1>1, <1>2, <1>3

LEMMA AgeAlike ==
    ASSUME NEW s, Shaped(s), NEW k, NEW prev, NEW v, NEW stable, NEW hinted
    PROVE  Alike(s, Age(s, k, prev, v, stable, hinted))
  <1>1. Alike(s, [s EXCEPT !.forgive = s.failures > 0 \/ s.quiet["bredr"]])
    BY FieldNames DEF Alike, Shaped
  <1>2. Alike(s, [s EXCEPT !.forgive = FALSE])
    BY FieldNames DEF Alike, Shaped
  <1>3. Age(s, k, prev, v, stable, hinted)
          \in {s, ClearBackoff(s, k), [s EXCEPT !.forgive = FALSE],
               [s EXCEPT !.forgive = s.failures > 0 \/ s.quiet["bredr"]]}
    BY DEF Age
  <1> QED BY <1>1, <1>2, <1>3, ClearBackoffAlike, AlikeSelf

LEMMA PublishLeAlike ==
    ASSUME NEW s, Shaped(s), NEW v
    PROVE  Alike(s, PublishLe(s, v))
  <1>1. Alike(s, [s EXCEPT !.adv = SetNeeded(@, TRUE)])
    BY SetNeededKeeps, OtherAdvert DEF Shaped
  <1>2. PublishLe(s, v) \in {s, [s EXCEPT !.adv = SetNeeded(@, TRUE)]}
    BY DEF PublishLe
  <1> QED BY <1>1, <1>2, AlikeSelf

LEMMA ReadAlike ==
    ASSUME NEW s, Shaped(s), NEW k
    PROVE  Alike(s, Read(s, k))
  <1> DEFINE read == [s EXCEPT !.api = IF build = "legacy" THEN "no" ELSE "yes"]
  <1>1. Alike(s, read)
    BY FieldNames DEF Alike, Shaped
  <1> HIDE DEF read
  <1>2. Read(s, k) \in {s, read}
    BY DEF Read, read
  <1> QED BY <1>1, <1>2, AlikeSelf

-----------------------------------------------------------------------------
(* Requests and calls. *)

LEMMA CallNames ==
    ASSUME NEW c \in Call
    PROVE  /\ c.op \in {"connect", "disconnect"} /\ c.current \in BOOLEAN /\ c.done \in BOOLEAN
           /\ c.op = "connect" => c.kind \in Kinds
           /\ [c EXCEPT !.current = FALSE, !.done = TRUE] \in Call
           /\ [c EXCEPT !.done = TRUE] \in Call
  BY DEF Call

LEMMA SendKeeps ==
    ASSUME NEW s, NEW op, NEW kind, Shaped(s),
           \/ op = "connect" /\ kind \in Kinds
           \/ op = "disconnect" /\ kind \in {"le", "device"}
    PROVE  LET t == Send(s, op, kind)
           IN  /\ Shaped(t) /\ t.req = s.req /\ t.disconnecting = s.disconnecting
               /\ t.phase = s.phase /\ t.adv = s.adv /\ s.calls \subseteq t.calls
               /\ t.calls \subseteq s.calls \cup {[op |-> op, kind |-> kind, current |-> TRUE, done |-> FALSE]}
               /\ Owed(t, op, kind)
  <1> DEFINE c == [op |-> op, kind |-> kind, current |-> TRUE, done |-> FALSE]
  <1>1. c \in Call
    BY DEF Call
  <1> DEFINE t == [s EXCEPT !.calls = @ \cup {c}]
  <1>2. c.op = op /\ c.kind = kind /\ c.current
    OBVIOUS
  <1> HIDE DEF c
  <1>3. Shaped(t) /\ t.calls = s.calls \cup {c}
    BY <1>1, FieldNames DEF Shaped
  <1>4. t.req = s.req /\ t.disconnecting = s.disconnecting /\ t.phase = s.phase /\ t.adv = s.adv
    BY FieldNames DEF Shaped
  <1>5. Owed(t, op, kind)
    BY <1>2, <1>3 DEF Owed
  <1>6. t = Send(s, op, kind)
    BY DEF Send, c
  <1> HIDE DEF t
  <1> QED BY <1>3, <1>4, <1>5, <1>6 DEF c

LEMMA ClearKeeps ==
    ASSUME NEW s, Shaped(s), NEW k \in Kinds
    PROVE  LET t == ClearConnectRequest(s, k)
           IN  /\ Shaped(t) /\ t.req = [s.req EXCEPT ![k] = None]
               /\ t.disconnecting = s.disconnecting /\ t.phase = s.phase /\ t.adv = s.adv
               /\ \A c \in t.calls : c.op = "connect" /\ c.current => c.kind # k /\ c \in s.calls
               /\ \A c \in s.calls : c.op # "connect" \/ c.kind # k => c \in t.calls
  <1> DEFINE Which(c) == c.op = "connect" /\ c.kind = k
  <1> DEFINE now == {IF Which(c) THEN [c EXCEPT !.current = FALSE, !.done = TRUE] ELSE c : c \in s.calls}
  <1> DEFINE t == [[s EXCEPT !.calls = now] EXCEPT !.req[k] = None]
  <1>1. now \in SUBSET Call
    BY CallNames DEF Shaped
  <1>2. \A c \in now : c.op = "connect" /\ c.current => c.kind # k /\ c \in s.calls
    <2> SUFFICES ASSUME NEW c \in now, c.op = "connect", c.current
                 PROVE  c.kind # k /\ c \in s.calls
      OBVIOUS
    <2>1. PICK d \in s.calls : c = IF Which(d) THEN [d EXCEPT !.current = FALSE, !.done = TRUE] ELSE d
      OBVIOUS
    <2>2. CASE Which(d)
      <3>1. d \in Call
        BY DEF Shaped
      <3>2. c.current = FALSE
        BY <2>1, <2>2, <3>1 DEF Call
      <3> QED BY <3>2
    <2>3. CASE ~Which(d)
      BY <2>1, <2>3
    <2> QED BY <2>2, <2>3
  <1>3. \A c \in s.calls : c.op # "connect" \/ c.kind # k => c \in now
    OBVIOUS
  <1>4. t = ClearConnectRequest(s, k)
    BY DEF ClearConnectRequest, Disown
  <1> HIDE DEF now
  <1>5. t.calls = now /\ t.req = [s.req EXCEPT ![k] = None] /\ t.disconnecting = s.disconnecting
        /\ t.phase = s.phase /\ t.adv = s.adv
    BY FieldNames DEF Shaped
  <1>6. DOMAIN t = Fields /\ t = [f \in Fields |-> t[f]]
    BY FieldNames DEF Shaped
  <1>7. t.req \in [Kinds -> {None} \cup Request]
    BY <1>5 DEF Shaped
  <1> HIDE DEF t
  <1>8. Shaped(t)
    BY <1>1, <1>5, <1>6, <1>7 DEF Shaped
  <1> QED BY <1>2, <1>3, <1>4, <1>5, <1>8

LEMMA ClearWaits ==
    ASSUME NEW s, NEW k \in Kinds, NEW E, NEW X, Shaped(s), Waits(s, E),
           \A j \in Kinds \ {k} : \A b \in BOOLEAN : <<j, b>> \in E => <<j, b>> \in X
    PROVE  Waits(ClearConnectRequest(s, k), X)
  <1> DEFINE t == ClearConnectRequest(s, k)
  <1>1. /\ Shaped(t) /\ t.req = [s.req EXCEPT ![k] = None]
        /\ t.disconnecting = s.disconnecting /\ t.phase = s.phase
        /\ \A c \in t.calls : c.op = "connect" /\ c.current => c.kind # k /\ c \in s.calls
        /\ \A c \in s.calls : c.op # "connect" \/ c.kind # k => c \in t.calls
    BY ClearKeeps
  <1> HIDE DEF t
  <1>2. \A op, kind : Owed(s, op, kind) /\ (op # "connect" \/ kind # k) => Owed(t, op, kind)
    BY <1>1 DEF Owed
  <1>3. DialsOwed(t, X)
    <2> SUFFICES ASSUME NEW j \in Kinds, t.req[j] # None, t.req[j].wait = "reply",
                        <<j, t.req[j].targeted>> \notin X
                 PROVE  Owed(t, "connect", j)
      BY DEF DialsOwed
    <2>1. j # k /\ t.req[j] = s.req[j]
      BY <1>1 DEF Shaped
    <2>2. s.req[j].targeted \in BOOLEAN
      BY <2>1 DEF Shaped, Request
    <2>3. <<j, s.req[j].targeted>> \notin E
      BY <2>1, <2>2
    <2> QED BY <1>2, <2>1, <2>3 DEF Waits, DialsOwed
  <1>4. ResetsOwed(t)
    BY <1>1, <1>2 DEF Waits, ResetsOwed
  <1>5. CallsMatch(t)
    <2> SUFFICES ASSUME NEW c \in t.calls, c.op = "connect", c.current PROVE t.req[c.kind] # None
      BY DEF CallsMatch
    <2>1. c.kind # k /\ c \in s.calls
      BY <1>1
    <2>2. c.kind \in Kinds
      BY <2>1, CallNames DEF Shaped
    <2>3. s.req[c.kind] # None
      BY <2>1 DEF Waits, CallsMatch
    <2> QED BY <1>1, <2>1, <2>2, <2>3 DEF Shaped
  <1> QED BY <1>3, <1>4, <1>5 DEF Waits, t

LEMMA SetDialActiveKeeps ==
    ASSUME NEW s, NEW b \in BOOLEAN, Shaped(s)
    PROVE  LET t == SetDialActive(s, b)
           IN  /\ Shaped(t) /\ t.req = s.req /\ t.calls = s.calls /\ t.disconnecting = s.disconnecting
               /\ t.phase = s.phase /\ t.adv.dialing = b
  <1> DEFINE a == SetDialing(s.adv, b)
  <1> DEFINE t == [s EXCEPT !.adv = a]
  <1>1. a \in Advert /\ a.dialing = b
    BY SetDialingKeeps DEF Shaped
  <1>2. t = SetDialActive(s, b)
    BY DEF SetDialActive
  <1> HIDE DEF a
  <1>3. t.req = s.req /\ t.calls = s.calls /\ t.disconnecting = s.disconnecting /\ t.phase = s.phase
        /\ t.adv = a
    BY FieldNames DEF Shaped
  <1>4. Shaped(t)
    BY <1>1, FieldNames DEF Shaped
  <1> HIDE DEF t
  <1> QED BY <1>1, <1>2, <1>3, <1>4

\* The end of a dial, as every handler that ends one writes it.
EndDial(s, k) ==
    IF k = "le" THEN SetDialActive(ClearConnectRequest(s, k), FALSE) ELSE ClearConnectRequest(s, k)

LEMMA EndDialGood ==
    ASSUME NEW s, NEW k \in Kinds, NEW E, NEW X, Good(s, E),
           \A j \in Kinds \ {k} : \A b \in BOOLEAN : <<j, b>> \in E => <<j, b>> \in X
    PROVE  Good(EndDial(s, k), X) /\ EndDial(s, k).req[k] = None
  <1> DEFINE t == ClearConnectRequest(s, k)
  <1>1. Shaped(t) /\ t.req = [s.req EXCEPT ![k] = None] /\ t.adv = s.adv
    BY ClearKeeps DEF Good
  <1>2. Waits(t, X)
    BY ClearWaits DEF Good
  <1>3. t.req[k] = None /\ \A j \in Kinds \ {k} : t.req[j] = s.req[j]
    BY <1>1 DEF Good, Shaped
  <1> HIDE DEF t
  <1>4. CASE k = "le"
    <2> DEFINE u == SetDialActive(t, FALSE)
    <2>1. /\ Shaped(u) /\ u.req = t.req /\ u.calls = t.calls /\ u.disconnecting = t.disconnecting
          /\ u.phase = t.phase /\ u.adv.dialing = FALSE
      BY <1>1, SetDialActiveKeeps
    <2> HIDE DEF u
    <2>2. Waits(u, X)
      BY <1>2, <2>1 DEF Waits, DialsOwed, ResetsOwed, CallsMatch, Owed
    <2>3. DialTold(u)
      BY <1>3, <1>4, <2>1 DEF DialTold
    <2> QED BY <1>3, <1>4, <2>1, <2>2, <2>3 DEF Good, EndDial, u, t
  <1>5. CASE k # "le"
    <2>1. DialTold(t)
      BY <1>1, <1>3, <1>5 DEF DialTold, Good, Kinds
    <2> QED BY <1>1, <1>2, <1>3, <1>5, <2>1 DEF Good, EndDial, t
  <1> QED BY <1>4, <1>5

LEMMA SentWaits ==
    ASSUME NEW s, NEW k \in Kinds, NEW E, NEW X, Shaped(s), Waits(s, X), s.req[k] # None,
           \A j \in Kinds \ {k} : \A b \in BOOLEAN : <<j, b>> \in X => <<j, b>> \in E
    PROVE  Waits(Send(s, "connect", k), E)
  <1> DEFINE t == Send(s, "connect", k)
  <1> DEFINE new == [op |-> "connect", kind |-> k, current |-> TRUE, done |-> FALSE]
  <1>1. /\ Shaped(t) /\ t.req = s.req /\ t.disconnecting = s.disconnecting /\ t.phase = s.phase
        /\ s.calls \subseteq t.calls /\ t.calls \subseteq s.calls \cup {new} /\ Owed(t, "connect", k)
    BY SendKeeps
  <1>2. new.kind = k
    OBVIOUS
  <1> HIDE DEF t, new
  <1>3. \A op, kind : Owed(s, op, kind) => Owed(t, op, kind)
    BY <1>1 DEF Owed
  <1>4. DialsOwed(t, E)
    <2> SUFFICES ASSUME NEW j \in Kinds, s.req[j] # None, s.req[j].wait = "reply",
                        <<j, s.req[j].targeted>> \notin E, j # k
                 PROVE  Owed(t, "connect", j)
      BY <1>1 DEF DialsOwed
    <2>1. s.req[j].targeted \in BOOLEAN
      BY DEF Shaped, Request
    <2>2. <<j, s.req[j].targeted>> \notin X
      BY <2>1
    <2> QED BY <1>3, <2>2 DEF Waits, DialsOwed
  <1>5. ResetsOwed(t)
    BY <1>1, <1>3 DEF Waits, ResetsOwed
  <1>6. CallsMatch(t)
    BY <1>1, <1>2 DEF Waits, CallsMatch
  <1> QED BY <1>4, <1>5, <1>6 DEF Waits, t

\* A request that begins has no call yet.
LEMMA BegunWaits ==
    ASSUME NEW s, NEW k \in Kinds, NEW E, NEW b \in BOOLEAN, Shaped(s), Waits(s, E)
    PROVE  LET t == [s EXCEPT !.req[k] = [targeted |-> b, wait |-> "reply"]]
           IN  /\ Shaped(t) /\ Waits(t, E \cup {<<k, b>>}) /\ t.req[k] # None
               /\ \A j \in Kinds \ {k} : t.req[j] = s.req[j]
               /\ t.adv = s.adv
  <1> DEFINE r == [targeted |-> b, wait |-> "reply"]
  <1> DEFINE t == [s EXCEPT !.req[k] = r]
  <1>1. r \in Request /\ r.targeted = b /\ r # None
    BY BearerAssumption DEF Request
  <1> HIDE DEF r
  <1>2. t.req = [s.req EXCEPT ![k] = r] /\ t.calls = s.calls /\ t.disconnecting = s.disconnecting
        /\ t.phase = s.phase /\ t.adv = s.adv
    BY FieldNames DEF Shaped
  <1>3. DOMAIN t = Fields /\ t = [f \in Fields |-> t[f]]
    BY FieldNames DEF Shaped
  <1> HIDE DEF t
  <1>4. t.req[k] = r /\ \A j \in Kinds \ {k} : t.req[j] = s.req[j]
    BY <1>2 DEF Shaped
  <1>5. Shaped(t)
    <2>1. t.req \in [Kinds -> {None} \cup Request]
      BY <1>1, <1>2 DEF Shaped
    <2> QED BY <1>2, <1>3, <2>1 DEF Shaped
  <1>6. DialsOwed(t, E \cup {<<k, b>>})
    BY <1>1, <1>2, <1>4 DEF DialsOwed, Waits, Owed
  <1>7. ResetsOwed(t)
    BY <1>2 DEF Waits, ResetsOwed, Owed
  <1>8. CallsMatch(t)
    <2> SUFFICES ASSUME NEW c \in s.calls, c.op = "connect", c.current PROVE t.req[c.kind] # None
      BY <1>2 DEF CallsMatch
    <2>1. c.kind \in Kinds
      BY CallNames DEF Shaped
    <2> QED BY <1>1, <1>4, <2>1 DEF Waits, CallsMatch
  <1> QED BY <1>1, <1>2, <1>4, <1>5, <1>6, <1>7, <1>8 DEF Waits, t, r

LEMMA ConnectRefusedGood ==
    ASSUME NEW s, NEW k \in Kinds, NEW E, NEW X, Good(s, E),
           \A j \in Kinds \ {k} : \A b \in BOOLEAN : <<j, b>> \in E => <<j, b>> \in X
    PROVE  Good(ConnectRefused(s, k), X)
  <1> DEFINE t == EndDial(s, k)
  <1>1. Good(t, X)
    BY EndDialGood
  <1>2. ConnectRefused(s, k) \in {[t EXCEPT !.spent = FALSE], RecordFailure(t, k)}
    BY DEF ConnectRefused, EndDial
  <1> HIDE DEF t
  <1>3. Shaped(t)
    BY <1>1 DEF Good
  <1>4. Alike(t, [t EXCEPT !.spent = FALSE])
    BY <1>3, FieldNames DEF Alike, Shaped
  <1>5. Alike(t, RecordFailure(t, k))
    BY <1>3, RecordFailureAlike
  <1> QED BY <1>1, <1>2, <1>4, <1>5, AlikeGood

LEMMA RequestConnectGood ==
    ASSUME NEW s, NEW k \in Kinds, NEW E, Good(s, E)
    PROVE  Good(RequestConnect(s, k), E)
  <1>1. CASE ~MayConnect(s, k)
    BY <1>1 DEF RequestConnect
  <1>2. CASE MayConnect(s, k)
    <2> DEFINE b == k = "bredr" /\ Targeted(s)
    <2> DEFINE base == IF k = "le" THEN [Take(s) EXCEPT !.spent = TRUE] ELSE s
    <2> DEFINE begun == [base EXCEPT !.req[k] = [targeted |-> b, wait |-> "reply"]]
    <2>1. Shaped(s) /\ Alike(s, s)
      BY AlikeSelf DEF Good
    <2>2. Alike(s, [Take(s) EXCEPT !.spent = TRUE])
      BY <2>1, FieldNames DEF Alike, Shaped, Take
    <2>3. Alike(s, base)
      BY <2>1, <2>2
    <2>4. Good(base, E)
      BY <2>3, AlikeGood
    <2>5. RequestConnect(s, k) =
            IF k = "le" THEN Send(SetDialActive(begun, TRUE), "connect", "le")
            ELSE IF b THEN Send(begun, "connect", "bredr")
            ELSE IF weather = "unset" THEN ConnectRefused(begun, "bredr")
            ELSE Send([begun EXCEPT !.pref = "bredr", !.restore = TRUE], "connect", "bredr")
      BY <1>2 DEF RequestConnect
    <2>6. b \in BOOLEAN
      OBVIOUS
    <2> HIDE DEF b, base
    <2>7. /\ Shaped(begun) /\ Waits(begun, E \cup {<<k, b>>}) /\ begun.req[k] # None
          /\ \A j \in Kinds \ {k} : begun.req[j] = base.req[j]
          /\ begun.adv = base.adv
      BY <2>4, <2>6, BegunWaits DEF Good
    <2>8. \A j \in Kinds \ {k} : \A x \in BOOLEAN : <<j, x>> \in E \cup {<<k, b>>} => <<j, x>> \in E
      OBVIOUS
    <2> HIDE DEF begun
    <2>9. CASE k = "le"
      <3> DEFINE u == SetDialActive(begun, TRUE)
      <3>1. /\ Shaped(u) /\ u.req = begun.req /\ u.calls = begun.calls
            /\ u.disconnecting = begun.disconnecting /\ u.phase = begun.phase /\ u.adv.dialing = TRUE
        BY <2>7, SetDialActiveKeeps
      <3> HIDE DEF u
      <3>2. Waits(u, E \cup {<<k, b>>})
        BY <2>7, <3>1 DEF Waits, DialsOwed, ResetsOwed, CallsMatch, Owed
      <3>3. Waits(Send(u, "connect", k), E)
        BY <2>7, <2>8, <3>1, <3>2, SentWaits
      <3>4. /\ Shaped(Send(u, "connect", k)) /\ Send(u, "connect", k).req = u.req
            /\ Send(u, "connect", k).adv = u.adv
        BY <3>1, SendKeeps
      <3>5. DialTold(Send(u, "connect", k))
        BY <2>7, <2>9, <3>1, <3>4 DEF DialTold
      <3> QED BY <2>5, <2>9, <3>3, <3>4, <3>5 DEF Good, u
    <2>10. CASE k # "le"
      <3>1. k = "bredr"
        BY <2>10 DEF Kinds
      <3>2. Good(begun, E \cup {<<k, b>>})
        BY <2>4, <2>7, <3>1 DEF Good, DialTold, Kinds
      <3>3. ASSUME NEW u, Good(u, E \cup {<<k, b>>}), u.req = begun.req
            PROVE  Good(Send(u, "connect", "bredr"), E)
        <4>1. Shaped(u) /\ Waits(u, E \cup {<<k, b>>}) /\ DialTold(u)
          BY <3>3 DEF Good
        <4>2. Waits(Send(u, "connect", k), E)
          BY <2>7, <2>8, <3>3, <4>1, SentWaits
        <4>3. /\ Shaped(Send(u, "connect", k)) /\ Send(u, "connect", k).req = u.req
              /\ Send(u, "connect", k).adv = u.adv
          BY <4>1, SendKeeps
        <4> QED BY <3>1, <4>1, <4>2, <4>3 DEF Good, DialTold
      <3>4. Good(Send(begun, "connect", "bredr"), E)
        BY <3>2, <3>3
      <3>5. Good(ConnectRefused(begun, "bredr"), E)
        BY <2>8, <3>1, <3>2, ConnectRefusedGood
      <3>6. Good(Send([begun EXCEPT !.pref = "bredr", !.restore = TRUE], "connect", "bredr"), E)
        <4>1. Alike(begun, [begun EXCEPT !.pref = "bredr", !.restore = TRUE])
          BY <2>7, FieldNames DEF Alike, Shaped
        <4>2. Good([begun EXCEPT !.pref = "bredr", !.restore = TRUE], E \cup {<<k, b>>})
          BY <3>2, <4>1, AlikeGood
        <4>3. [begun EXCEPT !.pref = "bredr", !.restore = TRUE].req = begun.req
          BY <4>1 DEF Alike
        <4> QED BY <3>3, <4>2, <4>3
      <3> QED BY <2>5, <2>10, <3>4, <3>5, <3>6
    <2> QED BY <2>9, <2>10
  <1> QED BY <1>1, <1>2

LEMMA RetargetGood ==
    ASSUME NEW s, NEW E, Good(s, E)
    PROVE  Good(Retarget(s), E)
  <1> DEFINE t == ClearConnectRequest(s, "bredr")
  <1> DEFINE u == [t EXCEPT !.quiet["bredr"] = FALSE]
  <1>1. "bredr" \in Kinds
    BY DEF Kinds
  <1>2. Good(t, E) /\ t = EndDial(s, "bredr")
    BY <1>1, EndDialGood DEF EndDial
  <1>3. Retarget(s) \in {s, RequestConnect(u, "bredr")}
    BY DEF Retarget
  <1> HIDE DEF t
  <1>4. Alike(t, u)
    BY <1>2, FieldNames DEF Good, Alike, Shaped
  <1>5. Good(u, E)
    BY <1>2, <1>4, AlikeGood
  <1> QED BY <1>1, <1>3, <1>5, RequestConnectGood

-----------------------------------------------------------------------------
(* Observing a bearer. *)

LEMMA SettleInProgressGood ==
    ASSUME NEW s, NEW k \in Kinds, NEW v, NEW E, Good(s, E)
    PROVE  Good(SettleInProgress(s, k, v), E)
  <1> DEFINE t == EndDial(s, k)
  <1>1. Good(t, E)
    BY EndDialGood
  <1>2. SettleInProgress(s, k, v) \in {s, t, RecordFailure(t, k)}
    BY DEF SettleInProgress, EndDial
  <1> HIDE DEF t
  <1>3. Alike(t, RecordFailure(t, k))
    BY <1>1, RecordFailureAlike DEF Good
  <1> QED BY <1>1, <1>2, <1>3, AlikeGood

LEMMA UpdateStateGood ==
    ASSUME NEW s, NEW k \in Kinds, NEW v, NEW stable, NEW E, Good(s, E)
    PROVE  Good(UpdateState(s, k, v, stable), E)
  <1> DEFINE settled == SettleInProgress(s, k, v)
  <1> DEFINE prev == settled.st[k]
  <1> DEFINE stored == StoreState(settled, k, v)
  <1> DEFINE shown == ApplyEvidence(stored, k, prev, v)
  <1> DEFINE aged == Age(shown, k, prev, v, stable, settled.hint)
  <1> DEFINE told == IF k = "le" /\ prev # v THEN PublishLe(aged, v) ELSE aged
  <1>1. UpdateState(s, k, v, stable) = IF k = "le" /\ v = "up" THEN Retarget(told) ELSE told
    BY DEF UpdateState, Then
  <1>2. Good(settled, E)
    BY SettleInProgressGood
  <1> HIDE DEF settled, prev
  <1>3. Good(stored, E)
    BY <1>2, StoreStateAlike, AlikeGood DEF Good
  <1> HIDE DEF stored
  <1>4. Good(shown, E)
    BY <1>3, ApplyEvidenceAlike, AlikeGood DEF Good
  <1> HIDE DEF shown
  <1>5. Good(aged, E)
    <2>1. Alike(shown, aged)
      BY <1>4, AgeAlike DEF Good
    <2> QED BY <1>4, <2>1, AlikeGood
  <1> HIDE DEF aged
  <1>6. Good(PublishLe(aged, v), E)
    BY <1>5, PublishLeAlike, AlikeGood DEF Good
  <1>7. Good(told, E)
    BY <1>5, <1>6
  <1> HIDE DEF told
  <1> QED BY <1>1, <1>7, RetargetGood

LEMMA ObserveBearerGood ==
    ASSUME NEW s, NEW k \in Kinds, NEW stable, NEW E, Good(s, E)
    PROVE  Good(ObserveBearer(s, k, stable), E)
  <1>1. Good(Read(s, k), E)
    BY ReadAlike, AlikeGood DEF Good
  <1> QED BY <1>1, UpdateStateGood DEF ObserveBearer

LEMMA RefreshStatesGood ==
    ASSUME NEW s, NEW stable, NEW E, Good(s, E)
    PROVE  Good(RefreshStates(s, stable), E)
  <1>1. RefreshStates(s, stable) = ObserveBearer(ObserveBearer(s, "bredr", stable), "le", stable)
    BY DEF RefreshStates, Then
  <1>2. "bredr" \in Kinds /\ "le" \in Kinds
    BY DEF Kinds
  <1>3. Good(ObserveBearer(s, "bredr", stable), E)
    BY <1>2, ObserveBearerGood
  <1> QED BY <1>1, <1>2, <1>3, ObserveBearerGood

-----------------------------------------------------------------------------
(* Resetting the LE bearer. *)

\* A disconnect is sent with the flag, or the phase, that waits for it.
LEMMA DisconnectGood ==
    ASSUME NEW s, NEW t, NEW kind, NEW E, Good(s, E), Shaped(t), t.req = s.req, t.calls = s.calls,
           t.adv.dialing = s.adv.dialing,
           \/ kind = "le" /\ t.disconnecting = TRUE /\ t.phase = s.phase
           \/ kind = "device" /\ t.phase = "disconnecting" /\ t.disconnecting = s.disconnecting
    PROVE  Good(Send(t, "disconnect", kind), E)
  <1> DEFINE u == Send(t, "disconnect", kind)
  <1> DEFINE new == [op |-> "disconnect", kind |-> kind, current |-> TRUE, done |-> FALSE]
  <1>1. /\ Shaped(u) /\ u.req = t.req /\ u.disconnecting = t.disconnecting /\ u.phase = t.phase
        /\ u.adv = t.adv /\ t.calls \subseteq u.calls /\ u.calls \subseteq t.calls \cup {new}
        /\ Owed(u, "disconnect", kind)
    BY SendKeeps
  <1>2. new.op = "disconnect"
    OBVIOUS
  <1> HIDE DEF u, new
  <1>3. \A op, to : Owed(s, op, to) => Owed(u, op, to)
    BY <1>1 DEF Owed
  <1>4. DialsOwed(u, E)
    BY <1>1, <1>3 DEF Good, Waits, DialsOwed
  <1>5. ResetsOwed(u)
    BY <1>1, <1>3 DEF Good, Waits, ResetsOwed
  <1>6. CallsMatch(u)
    BY <1>1, <1>2 DEF Good, Waits, CallsMatch
  <1>7. DialTold(u)
    BY <1>1 DEF Good, DialTold
  <1> QED BY <1>1, <1>4, <1>5, <1>6, <1>7 DEF Good, Waits, u

LEMMA RequestLeDisconnectGood ==
    ASSUME NEW s, NEW force, NEW E, Good(s, E)
    PROVE  Good(RequestLeDisconnect(s, force), E)
  <1> DEFINE paid == IF ~force /\ s.resetFailed THEN Take(s) ELSE s
  <1> DEFINE t == [paid EXCEPT !.disconnecting = TRUE]
  <1>1. RequestLeDisconnect(s, force) \in {s, Send(t, "disconnect", "le")}
    BY DEF RequestLeDisconnect
  <1>2. Alike(s, paid)
    BY SmallStepsAlike, AlikeSelf DEF Good
  <1> HIDE DEF paid
  <1>3. Shaped(t) /\ t.req = paid.req /\ t.calls = paid.calls /\ t.adv = paid.adv
        /\ t.phase = paid.phase /\ t.disconnecting = TRUE
    BY <1>2, FieldNames DEF Alike, Shaped
  <1> HIDE DEF t
  <1>4. Good(Send(t, "disconnect", "le"), E)
    BY <1>2, <1>3, DisconnectGood DEF Alike
  <1> QED BY <1>1, <1>4

LEMMA DialAfterResetGood ==
    ASSUME NEW s, NEW E, Good(s, E)
    PROVE  Good(DialAfterReset(s), E)
  BY ScheduleLeConnectAlike, AlikeGood DEF DialAfterReset, Good

LEMMA CompleteLeResetGood ==
    ASSUME NEW s, NEW E, Good(s, E)
    PROVE  Good(CompleteLeReset(s), E)
  <1> DEFINE closed == [s EXCEPT !.pending = FALSE, !.downSeen = FALSE, !.resetFailed = FALSE,
                                 !.resetQuiet = FALSE]
  <1> DEFINE unread == [closed EXCEPT !.cache["le"] = "unknown"]
  <1> DEFINE t == IF s.pending /\ s.downSeen THEN closed
                  ELSE UpdateState(unread, "le", "down", FALSE)
  <1>1. CompleteLeReset(s) = DialAfterReset(t)
    BY DEF CompleteLeReset, Then
  <1>2. Alike(s, closed)
    BY FieldNames DEF Good, Alike, Shaped
  <1> HIDE DEF closed
  <1>3. Alike(closed, unread)
    BY <1>2, FieldNames DEF Alike, Shaped
  <1> HIDE DEF unread
  <1>4. Good(closed, E)
    BY <1>2, AlikeGood
  <1>5. Good(unread, E)
    BY <1>3, <1>4, AlikeGood
  <1>6. Good(UpdateState(unread, "le", "down", FALSE), E)
    BY <1>5, UpdateStateGood DEF Kinds
  <1>7. Good(t, E)
    BY <1>4, <1>6
  <1> HIDE DEF t
  <1> QED BY <1>1, <1>7, DialAfterResetGood

LEMMA RecoverLeGood ==
    ASSUME NEW s, NEW allow, NEW recent, NEW E, Good(s, E)
    PROVE  Good(RecoverLe(s, allow, recent), E)
  <1> DEFINE asked == [s EXCEPT !.wanted = None]
  <1> DEFINE refused == [s EXCEPT !.wanted =
                           IF recent THEN @
                           ELSE IF allow \/ @ = "any" THEN "any" ELSE "link"]
  <1> DEFINE paid == IF s.pending THEN asked ELSE [Take(asked) EXCEPT !.downSeen = FALSE]
  <1> DEFINE open == [paid EXCEPT !.spent = FALSE, !.pending = TRUE]
  <1> DEFINE begun == CancelSettle(open)
  <1>1. RecoverLe(s, allow, recent) \in {asked, refused, begun, RequestLeDisconnect(begun, FALSE)}
    BY DEF RecoverLe
  <1>2. Alike(s, asked)
    BY FieldNames DEF Good, Alike, Shaped
  <1>3. Alike(s, refused)
    BY FieldNames DEF Good, Alike, Shaped
  <1> HIDE DEF asked, refused
  <1>4. Good(asked, E) /\ Good(refused, E)
    BY <1>2, <1>3, AlikeGood
  <1>5. Alike(asked, [Take(asked) EXCEPT !.downSeen = FALSE])
    BY <1>4, FieldNames DEF Good, Alike, Shaped, Take
  <1>6. Good(paid, E)
    BY <1>4, <1>5, AlikeGood
  <1> HIDE DEF paid
  <1>7. Alike(paid, open)
    BY <1>6, FieldNames DEF Good, Alike, Shaped
  <1>8. Good(open, E)
    BY <1>6, <1>7, AlikeGood
  <1> HIDE DEF open
  <1>9. Good(begun, E)
    BY <1>8, SmallStepsAlike, AlikeGood DEF Good
  <1> HIDE DEF begun
  <1> QED BY <1>1, <1>4, <1>9, RequestLeDisconnectGood

LEMMA HoldLeGood ==
    ASSUME NEW s, NEW E, Good(s, E)
    PROVE  Good(HoldLe(s), E)
  <1> DEFINE shut == [s EXCEPT !.enabled = FALSE]
  <1> DEFINE held == CancelSettle(shut)
  <1>1. HoldLe(s) \in {held, RequestLeDisconnect(held, TRUE)}
    BY DEF HoldLe
  <1>2. Alike(s, shut)
    BY FieldNames DEF Good, Alike, Shaped
  <1>3. Good(shut, E)
    BY <1>2, AlikeGood
  <1> HIDE DEF shut
  <1>4. Good(held, E)
    BY <1>3, SmallStepsAlike, AlikeGood DEF Good
  <1> HIDE DEF held
  <1> QED BY <1>1, <1>4, RequestLeDisconnectGood

-----------------------------------------------------------------------------
(* The health check and the settle timer. *)

LEMMA DialMissingGood ==
    ASSUME NEW s, NEW bredr, NEW le, NEW E, Good(s, E)
    PROVE  Good(DialMissing(s, bredr, le), E)
  <1> DEFINE s1 == IF bredr # "up" THEN CancelSettle(s) ELSE s
  <1> DEFINE s2 == RestorePreference(s1)
  <1>1. DialMissing(s, bredr, le)
          \in {RequestConnect(s1, "bredr"), s2, ScheduleLeConnect(s2), CancelSettle(s1), s1}
    BY DEF DialMissing
  <1>2. Good(s1, E)
    BY SmallStepsAlike, AlikeGood DEF Good
  <1> HIDE DEF s1
  <1>3. Good(s2, E)
    BY <1>2, RestorePreferenceAlike, AlikeGood DEF Good
  <1> HIDE DEF s2
  <1>4. Good(ScheduleLeConnect(s2), E)
    BY <1>3, ScheduleLeConnectAlike, AlikeGood DEF Good
  <1>5. Good(CancelSettle(s1), E)
    BY <1>2, SmallStepsAlike, AlikeGood DEF Good
  <1>6. Good(RequestConnect(s1, "bredr"), E)
    BY <1>2, RequestConnectGood DEF Kinds
  <1> QED BY <1>1, <1>2, <1>3, <1>4, <1>5, <1>6

LEMMA TickStateGood ==
    ASSUME NEW s, NEW stable, NEW E, Good(s, E)
    PROVE  Good(TickState(s, stable), E)
  <1> DEFINE bredr == ReadValue(s, "bredr")
  <1> DEFINE le == ReadValue(s, "le")
  <1> DEFINE Dial(ready) == DialMissing(ready, bredr, le)
  <1> DEFINE Act(asked) ==
               IF asked.disconnecting THEN asked
               ELSE IF ~(asked.pending /\ asked.enabled) THEN Dial(asked)
               ELSE CASE le = "down" -> Then(CompleteLeReset(asked), Dial)
                      [] le = "up" -> RequestLeDisconnect(asked, FALSE)
                      [] OTHER -> asked
  <1> DEFINE Proceed(seen) ==
               IF seen.phase # None \/ ProfileBusy \/ seen.disconnecting THEN seen
               ELSE IF seen.wanted = None THEN Act(seen)
               ELSE Then(RecoverLe(seen, seen.wanted = "any", FALSE), Act)
  <1>1. TickState(s, stable) = IF ~s.running \/ Blocked THEN s ELSE Then(RefreshStates(s, stable), Proceed)
    BY DEF TickState
  <1> HIDE DEF bredr, le
  <1>2. ASSUME NEW t, Good(t, E) PROVE Good(Act(t), E)
    <2>1. Good(Dial(t), E)
      BY <1>2, DialMissingGood
    <2>2. Good(Dial(CompleteLeReset(t)), E)
      BY <1>2, CompleteLeResetGood, DialMissingGood
    <2>3. Then(CompleteLeReset(t), Dial) = Dial(CompleteLeReset(t))
      BY DEF Then
    <2>4. Good(RequestLeDisconnect(t, FALSE), E)
      BY <1>2, RequestLeDisconnectGood
    <2>5. Act(t) \in {t, Dial(t), Then(CompleteLeReset(t), Dial), RequestLeDisconnect(t, FALSE)}
      OBVIOUS
    <2> QED BY <1>2, <2>1, <2>2, <2>3, <2>4, <2>5
  <1>3. ASSUME NEW t, Good(t, E) PROVE Good(Proceed(t), E)
    <2> DEFINE next == RecoverLe(t, t.wanted = "any", FALSE)
    <2> HIDE DEF Act
    <2>1. Then(next, Act) = Act(next)
      BY DEF Then
    <2>2. Good(next, E)
      BY <1>3, RecoverLeGood
    <2>3. Proceed(t) \in {t, Act(t), Then(next, Act)}
      OBVIOUS
    <2> HIDE DEF next
    <2> QED BY <1>2, <1>3, <2>1, <2>2, <2>3
  <1>4. Good(RefreshStates(s, stable), E)
    BY RefreshStatesGood
  <1> HIDE DEF Proceed
  <1>5. Then(RefreshStates(s, stable), Proceed) = Proceed(RefreshStates(s, stable))
    BY DEF Then
  <1> QED BY <1>1, <1>3, <1>4, <1>5

LEMMA LeSettledStateGood ==
    ASSUME NEW s, NEW stable, NEW E, Good(s, E)
    PROVE  Good(LeSettledState(s, stable), E)
  <1> DEFINE fired == [s EXCEPT !.settle = FALSE]
  <1> DEFINE seen == RefreshStates(fired, stable)
  <1>1. LeSettledState(s, stable)
          \in {fired, seen, RequestConnect(RestorePreference(seen), "le"), RequestConnect(seen, "bredr")}
    BY DEF LeSettledState, Then
  <1>2. Alike(s, fired)
    BY FieldNames DEF Good, Alike, Shaped
  <1>3. Good(fired, E)
    BY <1>2, AlikeGood
  <1> HIDE DEF fired
  <1>4. Good(seen, E)
    BY <1>3, RefreshStatesGood
  <1> HIDE DEF seen
  <1>5. Good(RestorePreference(seen), E)
    BY <1>4, RestorePreferenceAlike, AlikeGood DEF Good
  <1>6. Good(RequestConnect(RestorePreference(seen), "le"), E) /\ Good(RequestConnect(seen, "bredr"), E)
    BY <1>4, <1>5, RequestConnectGood DEF Kinds
  <1> QED BY <1>1, <1>3, <1>4, <1>6

LEMMA EnableLeStateGood ==
    ASSUME NEW s, NEW stable, NEW E, Good(s, E)
    PROVE  Good(EnableLeState(s, stable), E)
  <1> DEFINE on == [s EXCEPT !.enabled = TRUE]
  <1> DEFINE due == [on EXCEPT !.restore = TRUE]
  <1> DEFINE ready == IF s.st["le"] = "up" THEN on ELSE RestorePreference(due)
  <1>1. EnableLeState(s, stable) = TickState(ready, stable)
    BY DEF EnableLeState, Then
  <1>2. Alike(s, on)
    BY FieldNames DEF Good, Alike, Shaped
  <1>3. Good(on, E)
    BY <1>2, AlikeGood
  <1> HIDE DEF on
  <1>4. Alike(on, due)
    BY <1>3, FieldNames DEF Good, Alike, Shaped
  <1>5. Good(due, E)
    BY <1>3, <1>4, AlikeGood
  <1> HIDE DEF due
  <1>6. Good(RestorePreference(due), E)
    BY <1>5, RestorePreferenceAlike, AlikeGood DEF Good
  <1>7. Good(ready, E)
    BY <1>3, <1>6
  <1> HIDE DEF ready
  <1> QED BY <1>1, <1>7, TickStateGood

-----------------------------------------------------------------------------
(* A new bluetoothd, and stop(). *)

\* Whatever s waited for, nothing is waited for now.
LEMMA ForgetGood ==
    ASSUME NEW s, Shaped(s)
    PROVE  Good(Forget(s), {})
  <1> DEFINE now == {[c EXCEPT !.current = FALSE, !.done = TRUE] : c \in s.calls}
  <1> DEFINE t == [[s EXCEPT !.calls = now] EXCEPT
                     !.req = both(None), !.disconnecting = FALSE, !.hint = FALSE,
                     !.restore = FALSE, !.spent = FALSE, !.pending = FALSE, !.wanted = None,
                     !.remoteClosed = FALSE, !.resting = FALSE, !.sighted = FALSE, !.phase = None]
  <1> DEFINE u == CancelSettle(t)
  <1>1. Forget(s) = SetDialActive(u, FALSE)
    BY DEF Forget, Disown
  <1>2. now \in SUBSET Call /\ \A c \in now : ~c.current
    <2> SUFFICES ASSUME NEW d \in s.calls
                 PROVE  /\ [d EXCEPT !.current = FALSE, !.done = TRUE] \in Call
                        /\ ~[d EXCEPT !.current = FALSE, !.done = TRUE].current
      OBVIOUS
    <2>1. d \in Call
      BY DEF Shaped
    <2> QED BY <2>1 DEF Call
  <1> HIDE DEF now
  <1>3. t.calls = now /\ t.req = both(None) /\ t.disconnecting = FALSE /\ t.phase = None /\ t.adv = s.adv
    BY FieldNames DEF Shaped
  <1>4. DOMAIN t = Fields /\ t = [f \in Fields |-> t[f]]
    BY FieldNames DEF Shaped
  <1> HIDE DEF t
  <1>5. Shaped(t)
    BY <1>2, <1>3, <1>4 DEF Shaped, both
  <1>6. Alike(t, u)
    BY <1>5, SmallStepsAlike
  <1> HIDE DEF u
  <1> DEFINE v == SetDialActive(u, FALSE)
  <1>7. /\ Shaped(v) /\ v.req = both(None) /\ v.calls = now /\ v.disconnecting = FALSE
        /\ v.phase = None /\ v.adv.dialing = FALSE
    BY <1>3, <1>6, SetDialActiveKeeps DEF Alike
  <1> HIDE DEF v
  <1>8. \A k \in Kinds : v.req[k] = None
    BY <1>7 DEF both
  <1>9. Waits(v, {}) /\ DialTold(v)
    BY <1>2, <1>7, <1>8, BearerAssumption DEF Waits, DialsOwed, ResetsOwed, CallsMatch, DialTold, Kinds
  <1> QED BY <1>1, <1>7, <1>9 DEF Good, v

LEMMA ForgottenGood ==
    ASSUME NEW s, Shaped(s)
    PROVE  Good(Forgotten(s), {})
  <1> DEFINE t == Forget(s)
  <1>1. Good(t, {})
    BY ForgetGood
  <1> HIDE DEF t
  <1>2. Alike(t, [t EXCEPT
                    !.api = "unknown", !.resetFailed = FALSE, !.resetQuiet = FALSE,
                    !.st = both("unknown"), !.failures = 0, !.quiet = both(FALSE), !.forgive = FALSE])
    BY <1>1, FieldNames DEF Good, Alike, Shaped
  <1> QED BY <1>1, <1>2, AlikeGood DEF Forgotten, t

LEMMA HoldLeShaped ==
    ASSUME NEW s, Shaped(s)
    PROVE  Shaped(HoldLe(s))
  <1> DEFINE held == CancelSettle([s EXCEPT !.enabled = FALSE])
  <1>1. Shaped(held)
    BY FieldNames DEF Shaped, CancelSettle
  <1>2. HoldLe(s) \in {held, RequestLeDisconnect(held, TRUE)}
    BY DEF HoldLe
  <1> HIDE DEF held
  <1> DEFINE t == [held EXCEPT !.disconnecting = TRUE]
  <1>3. Shaped(t)
    BY <1>1, FieldNames DEF Shaped
  <1>4. RequestLeDisconnect(held, TRUE) \in {held, Send(t, "disconnect", "le")}
    BY DEF RequestLeDisconnect
  <1> HIDE DEF t
  <1>5. Shaped(Send(t, "disconnect", "le"))
    BY <1>3, SendKeeps
  <1> QED BY <1>1, <1>2, <1>4, <1>5

LEMMA ResetStateGood ==
    ASSUME NEW s, NEW stable, Shaped(s)
    PROVE  Good(ResetState(s, stable), {})
  <1> DEFINE t == Forgotten(HoldLe(s))
  <1>1. ResetState(s, stable) = TickState(PublishLe(t, "unknown"), stable)
    BY DEF ResetState, Then
  <1>2. Good(t, {})
    BY HoldLeShaped, ForgottenGood
  <1> HIDE DEF t
  <1>3. Good(PublishLe(t, "unknown"), {})
    BY <1>2, PublishLeAlike, AlikeGood DEF Good
  <1> QED BY <1>1, <1>3, TickStateGood

-----------------------------------------------------------------------------
(* Replies. *)

\* Only what c was owed for loses its call.
LEMMA UnsendKeeps ==
    ASSUME NEW s, Shaped(s), NEW c \in s.calls
    PROVE  LET t == Unsend(s, c)
           IN  /\ Shaped(t) /\ t.req = s.req /\ t.disconnecting = s.disconnecting
               /\ t.phase = s.phase /\ t.adv = s.adv /\ t.calls = s.calls \ {c}
               /\ \A op, kind : Owed(s, op, kind) /\ (op # c.op \/ kind # c.kind \/ ~c.current)
                                   => Owed(t, op, kind)
  <1> DEFINE t == [s EXCEPT !.calls = @ \ {c}]
  <1>1. t.req = s.req /\ t.disconnecting = s.disconnecting /\ t.phase = s.phase /\ t.adv = s.adv
        /\ t.calls = s.calls \ {c}
    BY FieldNames DEF Shaped
  <1>2. Shaped(t)
    BY FieldNames DEF Shaped
  <1>3. t = Unsend(s, c)
    BY DEF Unsend
  <1> HIDE DEF t
  <1>4. \A op, kind : Owed(s, op, kind) /\ (op # c.op \/ kind # c.kind \/ ~c.current)
                         => Owed(t, op, kind)
    BY <1>1 DEF Owed
  <1> QED BY <1>1, <1>2, <1>3, <1>4

LEMMA UnsendDisowned ==
    ASSUME NEW s, Good(s, {}), NEW c \in s.calls, ~c.current
    PROVE  Good(Unsend(s, c), {})
  <1> DEFINE t == Unsend(s, c)
  <1>1. /\ Shaped(t) /\ t.req = s.req /\ t.disconnecting = s.disconnecting
        /\ t.phase = s.phase /\ t.adv = s.adv /\ t.calls = s.calls \ {c}
        /\ \A op, kind : Owed(s, op, kind) => Owed(t, op, kind)
    BY UnsendKeeps DEF Good
  <1> HIDE DEF t
  <1>2. Waits(t, {})
    BY <1>1 DEF Good, Waits, DialsOwed, ResetsOwed, CallsMatch
  <1>3. DialTold(t)
    BY <1>1 DEF Good, DialTold
  <1> QED BY <1>1, <1>2, <1>3 DEF Good, t

LEMMA UnsendConnect ==
    ASSUME NEW s, Good(s, {}), NEW c \in s.calls, c.op = "connect", c.current
    PROVE  /\ c.kind \in Kinds /\ Unsend(s, c).req[c.kind] \in Request
           /\ Good(Unsend(s, c), {c.kind} \X BOOLEAN)
  <1> DEFINE t == Unsend(s, c)
  <1>1. /\ Shaped(t) /\ t.req = s.req /\ t.disconnecting = s.disconnecting
        /\ t.phase = s.phase /\ t.adv = s.adv /\ t.calls = s.calls \ {c}
        /\ \A op, kind : Owed(s, op, kind) /\ (op # "connect" \/ kind # c.kind) => Owed(t, op, kind)
    BY UnsendKeeps DEF Good
  <1>2. c.kind \in Kinds
    BY CallNames DEF Good, Shaped
  <1>3. s.req[c.kind] \in Request
    BY <1>2 DEF Good, Waits, CallsMatch, Shaped
  <1> HIDE DEF t
  <1>4. DialsOwed(t, {c.kind} \X BOOLEAN)
    <2> SUFFICES ASSUME NEW j \in Kinds, s.req[j] # None, s.req[j].wait = "reply",
                        <<j, s.req[j].targeted>> \notin {c.kind} \X BOOLEAN
                 PROVE  Owed(t, "connect", j)
      BY <1>1 DEF DialsOwed
    <2>1. s.req[j].targeted \in BOOLEAN
      BY DEF Good, Shaped, Request
    <2>2. j # c.kind
      BY <2>1
    <2>3. Owed(s, "connect", j)
      BY DEF Good, Waits, DialsOwed
    <2> QED BY <1>1, <2>2, <2>3
  <1>5. ResetsOwed(t) /\ CallsMatch(t) /\ DialTold(t)
    BY <1>1 DEF Good, Waits, ResetsOwed, CallsMatch, DialTold
  <1> QED BY <1>1, <1>2, <1>3, <1>4, <1>5 DEF Good, Waits, t

LEMMA ConnectSucceededGood ==
    ASSUME NEW s, NEW k \in Kinds, NEW E, NEW X, Good(s, E),
           \A j \in Kinds \ {k} : \A b \in BOOLEAN : <<j, b>> \in E => <<j, b>> \in X
    PROVE  Good(ConnectSucceeded(s, k), X)
  <1> DEFINE t == EndDial(s, k)
  <1> DEFINE told == IF k = "le" THEN t ELSE RestorePreference(t)
  <1>1. Good(t, X)
    BY EndDialGood
  <1>2. ConnectSucceeded(s, k) = RecordFailure(told, k)
    BY DEF ConnectSucceeded, EndDial
  <1> HIDE DEF t
  <1>3. Good(told, X)
    BY <1>1, RestorePreferenceAlike, AlikeGood DEF Good
  <1> HIDE DEF told
  <1>4. Alike(told, RecordFailure(told, k))
    BY <1>3, RecordFailureAlike DEF Good
  <1> QED BY <1>2, <1>3, <1>4, AlikeGood

\* One excuse is enough: that of the request there is.
LEMMA NarrowExcuse ==
    ASSUME NEW s, NEW k \in Kinds, Good(s, {k} \X BOOLEAN), NEW E,
           s.req[k] # None => <<k, s.req[k].targeted>> \in E \/ Owed(s, "connect", k)
                              \/ s.req[k].wait # "reply"
    PROVE  Good(s, E)
  <1>1. DialsOwed(s, E)
    <2> SUFFICES ASSUME NEW j \in Kinds, s.req[j] # None, s.req[j].wait = "reply",
                        <<j, s.req[j].targeted>> \notin E
                 PROVE  Owed(s, "connect", j)
      BY DEF DialsOwed
    <2>1. CASE j = k
      BY <2>1
    <2>2. CASE j # k
      BY <2>2 DEF Good, Waits, DialsOwed
    <2> QED BY <2>1, <2>2
  <1> QED BY <1>1 DEF Good, Waits

LEMMA StillInProgressGood ==
    ASSUME NEW s, NEW k \in Kinds, Good(s, {k} \X BOOLEAN), s.req[k] \in Request
    PROVE  Good(StillInProgress(s, k), {})
  <1> DEFINE r == [s.req[k] EXCEPT !.wait = IF @ = "reply" THEN "observation" ELSE @]
  <1> DEFINE t == [s EXCEPT !.req[k] = r]
  <1>1. r \in Request /\ r.wait # "reply" /\ r # None /\ s.req[k] # None
    BY BearerAssumption DEF Request
  <1>2. t = StillInProgress(s, k)
    BY DEF StillInProgress
  <1> HIDE DEF r
  <1>3. t.req = [s.req EXCEPT ![k] = r] /\ t.calls = s.calls /\ t.disconnecting = s.disconnecting
        /\ t.phase = s.phase /\ t.adv = s.adv
    BY FieldNames DEF Good, Shaped
  <1>4. DOMAIN t = Fields /\ t = [f \in Fields |-> t[f]]
    BY FieldNames DEF Good, Shaped
  <1> HIDE DEF t
  <1>5. Shaped(t)
    <2>1. t.req \in [Kinds -> {None} \cup Request]
      BY <1>1, <1>3 DEF Good, Shaped
    <2> QED BY <1>3, <1>4, <2>1 DEF Good, Shaped
  <1>6. t.req[k] = r /\ \A j \in Kinds \ {k} : t.req[j] = s.req[j]
    BY <1>3 DEF Good, Shaped
  <1>7. DialsOwed(t, {})
    <2> SUFFICES ASSUME NEW j \in Kinds, t.req[j] # None, t.req[j].wait = "reply"
                 PROVE  Owed(t, "connect", j)
      BY DEF DialsOwed
    <2>1. j # k /\ t.req[j] = s.req[j]
      BY <1>1, <1>6
    <2> QED BY <1>3, <2>1 DEF Good, Waits, DialsOwed, Owed
  <1>8. ResetsOwed(t)
    BY <1>3 DEF Good, Waits, ResetsOwed, Owed
  <1>9. CallsMatch(t)
    <2> SUFFICES ASSUME NEW c \in s.calls, c.op = "connect", c.current PROVE t.req[c.kind] # None
      BY <1>3 DEF CallsMatch
    <2>1. c.kind \in Kinds
      BY CallNames DEF Good, Shaped
    <2> QED BY <1>1, <1>6, <2>1 DEF Good, Waits, CallsMatch
  <1>10. DialTold(t)
    BY <1>1, <1>3, <1>6 DEF Good, DialTold, Kinds
  <1> QED BY <1>2, <1>5, <1>7, <1>8, <1>9, <1>10 DEF Good, Waits

LEMMA AlreadyConnectedGood ==
    ASSUME NEW s, NEW k \in Kinds, NEW stable, Good(s, {k} \X BOOLEAN), s.req[k] \in Request
    PROVE  Good(AlreadyConnected(s, k, stable), {})
  <1> DEFINE one == ObserveBearer(s, "bredr", stable)
  <1> DEFINE two == ObserveBearer(one, "le", stable)
  <1> DEFINE left == IF Connecting(two, "bredr") /\ ~two.req["bredr"].targeted
                     THEN ConnectRefused(two, k) ELSE two
  <1>1. AlreadyConnected(s, k, stable) =
          IF k = "le" \/ s.req["bredr"].targeted THEN ConnectSucceeded(s, k)
          ELSE IF ReadValue(s, "bredr") = "up" THEN ConnectSucceeded(one, k) ELSE left
    BY DEF AlreadyConnected, Then
  <1>2. Good(ConnectSucceeded(s, k), {})
    BY ConnectSucceededGood
  <1>3. CASE ~(k = "le" \/ s.req["bredr"].targeted)
    <2>1. k = "bredr" /\ s.req[k].targeted = FALSE
      BY <1>3 DEF Kinds, Request
    <2> DEFINE E == {<<k, FALSE>>}
    <2>2. Good(s, E)
      BY <2>1, NarrowExcuse
    <2>3. Good(one, E)
      BY <2>2, ObserveBearerGood DEF Kinds
    <2> HIDE DEF one
    <2>4. Good(two, E)
      BY <2>3, ObserveBearerGood DEF Kinds
    <2> HIDE DEF two
    <2>5. \A j \in Kinds \ {k} : \A b \in BOOLEAN : <<j, b>> \in E => <<j, b>> \in {}
      OBVIOUS
    <2>6. Good(ConnectSucceeded(one, k), {})
      BY <2>3, <2>5, ConnectSucceededGood
    <2>7. Good(left, {})
      <3>1. CASE Connecting(two, "bredr") /\ ~two.req["bredr"].targeted
        BY <2>4, <2>5, <3>1, ConnectRefusedGood
      <3>2. CASE ~(Connecting(two, "bredr") /\ ~two.req["bredr"].targeted)
        <4>1. ASSUME NEW j \in Kinds, two.req[j] # None, <<j, two.req[j].targeted>> \in E
              PROVE  FALSE
          BY <2>1, <3>2, <4>1 DEF Connecting
        <4>2. DialsOwed(two, {})
          BY <2>4, <4>1 DEF Good, Waits, DialsOwed
        <4> QED BY <2>4, <3>2, <4>2 DEF Good, Waits
      <3> QED BY <3>1, <3>2
    <2> QED BY <1>1, <1>3, <2>6, <2>7
  <1> QED BY <1>1, <1>2, <1>3

LEMMA ConnectAnsweredGood ==
    ASSUME NEW s, NEW k \in Kinds, NEW stable, Good(s, {k} \X BOOLEAN), s.req[k] \in Request,
           NEW outcome \in {"ok", "failed", "already", "inprogress"}
    PROVE  Good(ConnectAnswered(s, k, outcome, stable), {})
  <1>1. Good(ConnectSucceeded(s, k), {}) /\ Good(ConnectRefused(s, k), {})
    BY ConnectSucceededGood, ConnectRefusedGood
  <1>2. ConnectAnswered(s, k, outcome, stable)
          \in {ConnectSucceeded(s, k), StillInProgress(s, k), AlreadyConnected(s, k, stable), ConnectRefused(s, k)}
    BY DEF ConnectAnswered
  <1> QED BY <1>1, <1>2, StillInProgressGood, AlreadyConnectedGood

LEMMA DisconnectAnsweredGood ==
    ASSUME NEW s, Good(s, {}), NEW c \in s.calls, c.op = "disconnect", c.kind = "le", NEW outcome
    PROVE  Good(DisconnectAnswered(Unsend(s, c), outcome), {})
  <1> DEFINE t == Unsend(s, c)
  <1> DEFINE free == [t EXCEPT !.disconnecting = FALSE]
  <1>1. /\ Shaped(t) /\ t.req = s.req /\ t.phase = s.phase /\ t.adv = s.adv /\ t.calls = s.calls \ {c}
        /\ \A op, kind : Owed(s, op, kind) /\ (op # "disconnect" \/ kind # "le") => Owed(t, op, kind)
    BY UnsendKeeps DEF Good
  <1>2. DisconnectAnswered(t, outcome)
          \in {free, CompleteLeReset(free), [free EXCEPT !.resetFailed = TRUE, !.resetQuiet = TRUE]}
    BY DEF DisconnectAnswered
  <1> HIDE DEF t
  <1>3. Shaped(free) /\ free.req = t.req /\ free.calls = t.calls /\ free.adv = t.adv
        /\ free.phase = t.phase /\ free.disconnecting = FALSE
    BY <1>1, FieldNames DEF Shaped
  <1> HIDE DEF free
  <1>4. \A op, kind : Owed(s, op, kind) /\ (op # "disconnect" \/ kind # "le") => Owed(free, op, kind)
    BY <1>1, <1>3 DEF Owed
  <1>5. Waits(free, {}) /\ DialTold(free)
    BY <1>1, <1>3, <1>4 DEF Good, Waits, DialsOwed, ResetsOwed, CallsMatch, DialTold
  <1>6. Good(free, {})
    BY <1>3, <1>5 DEF Good
  <1>7. Alike(free, [free EXCEPT !.resetFailed = TRUE, !.resetQuiet = TRUE])
    BY <1>3, FieldNames DEF Alike, Shaped
  <1>8. Good([free EXCEPT !.resetFailed = TRUE, !.resetQuiet = TRUE], {})
    BY <1>6, <1>7, AlikeGood
  <1>9. Good(CompleteLeReset(free), {})
    BY <1>6, CompleteLeResetGood
  <1> QED BY <1>2, <1>6, <1>8, <1>9 DEF t

LEMMA DeviceDisconnectAnsweredGood ==
    ASSUME NEW s, Good(s, {}), NEW c \in s.calls, c.op = "disconnect", c.kind = "device", NEW outcome
    PROVE  Good(DeviceDisconnectAnswered(Unsend(s, c), outcome), {})
  <1> DEFINE t == Unsend(s, c)
  <1> DEFINE u == DeviceDisconnectAnswered(t, outcome)
  <1>1. /\ Shaped(t) /\ t.req = s.req /\ t.disconnecting = s.disconnecting /\ t.phase = s.phase
        /\ t.adv = s.adv /\ t.calls = s.calls \ {c}
        /\ \A op, kind : Owed(s, op, kind) /\ (op # "disconnect" \/ kind # "device") => Owed(t, op, kind)
    BY UnsendKeeps DEF Good
  <1>2. \/ u = t /\ t.phase # "disconnecting"
        \/ u = [t EXCEPT !.wanted = None, !.phase = "settling"]
        \/ u = [t EXCEPT !.phase = None]
    BY DEF DeviceDisconnectAnswered
  <1> HIDE DEF t, u
  <1>3. Shaped(u) /\ u.req = t.req /\ u.calls = t.calls /\ u.adv = t.adv
        /\ u.disconnecting = t.disconnecting /\ u.phase # "disconnecting"
    <2>1. CASE u = t /\ t.phase # "disconnecting"
      BY <1>1, <2>1
    <2>2. CASE u = [t EXCEPT !.wanted = None, !.phase = "settling"]
      BY <1>1, <2>2, FieldNames DEF Shaped
    <2>3. CASE u = [t EXCEPT !.phase = None]
      <3>1. u.phase = None /\ u.req = t.req /\ u.calls = t.calls /\ u.adv = t.adv
            /\ u.disconnecting = t.disconnecting
        BY <1>1, <2>3, FieldNames DEF Shaped
      <3>2. Shaped(u)
        BY <1>1, <2>3, FieldNames DEF Shaped
      <3> QED BY <3>1, <3>2, BearerAssumption
    <2> QED BY <1>2, <2>1, <2>2, <2>3
  <1>4. \A op, kind : Owed(s, op, kind) /\ (op # "disconnect" \/ kind # "device") => Owed(u, op, kind)
    BY <1>1, <1>3 DEF Owed
  <1>5. Waits(u, {}) /\ DialTold(u)
    BY <1>1, <1>3, <1>4 DEF Good, Waits, DialsOwed, ResetsOwed, CallsMatch, DialTold
  <1> QED BY <1>3, <1>5 DEF Good, u, t

\* BlueZ has carried out the call c, and still owes its answer.
LEMMA CarriedOutGood ==
    ASSUME Good(sv, {}), NEW c \in sv.calls
    PROVE  Good(CarriedOut(c), {})
  <1> DEFINE d == [c EXCEPT !.done = TRUE]
  <1> DEFINE t == Unsend(sv, c)
  <1> DEFINE u == [t EXCEPT !.calls = @ \cup {d}]
  <1>1. c \in Call
    BY DEF Good, Shaped
  <1>2. d \in Call /\ d.op = c.op /\ d.kind = c.kind /\ d.current = c.current
    BY <1>1 DEF Call
  <1>3. /\ Shaped(t) /\ t.req = sv.req /\ t.disconnecting = sv.disconnecting /\ t.phase = sv.phase
        /\ t.adv = sv.adv /\ t.calls = sv.calls \ {c}
    BY UnsendKeeps DEF Good
  <1>4. u = CarriedOut(c)
    BY DEF CarriedOut
  <1> HIDE DEF d, t
  <1>5. Shaped(u) /\ u.req = t.req /\ u.disconnecting = t.disconnecting /\ u.phase = t.phase
        /\ u.adv = t.adv /\ u.calls = t.calls \cup {d}
    BY <1>2, <1>3, FieldNames DEF Shaped
  <1> HIDE DEF u
  <1>6. \A op, kind : Owed(sv, op, kind) => Owed(u, op, kind)
    BY <1>2, <1>3, <1>5 DEF Owed
  <1>7. CallsMatch(u)
    BY <1>2, <1>3, <1>5 DEF Good, Waits, CallsMatch
  <1>8. DialsOwed(u, {}) /\ ResetsOwed(u) /\ DialTold(u)
    BY <1>3, <1>5, <1>6 DEF Good, Waits, DialsOwed, ResetsOwed, DialTold
  <1> QED BY <1>4, <1>5, <1>7, <1>8 DEF Good, Waits

LEMMA SignalledGood ==
    ASSUME NEW s, NEW l, NEW E, Good(s, E)
    PROVE  Good(Signalled(s, l), E)
  <1> DEFINE cached == [s EXCEPT !.cache = [k \in Kinds |-> Seen(l, k)]]
  <1> DEFINE known == [cached EXCEPT !.api = "yes"]
  <1>1. Signalled(s, l) \in {s, cached, known, UpdateState(known, "le", Seen(l, "le"), FALSE)}
    BY DEF Signalled
  <1>2. Alike(s, cached)
    BY FieldNames DEF Good, Alike, Shaped
  <1>3. Good(cached, E)
    BY <1>2, AlikeGood
  <1> HIDE DEF cached
  <1>4. Alike(cached, known)
    BY <1>3, FieldNames DEF Good, Alike, Shaped
  <1>5. Good(known, E)
    BY <1>3, <1>4, AlikeGood
  <1> HIDE DEF known
  <1>6. Good(UpdateState(known, "le", Seen(l, "le"), FALSE), E)
    BY <1>5, UpdateStateGood DEF Kinds
  <1> QED BY <1>1, <1>3, <1>5, <1>6

LEMMA RemoteClosedAlike ==
    ASSUME NEW s, Shaped(s)
    PROVE  Alike(s, RemoteClosed(s))
  <1>1. RemoteClosed(s) \in {s, EnterResting(s), [s EXCEPT !.remoteClosed = TRUE]}
    BY DEF RemoteClosed
  <1>2. Alike(s, [s EXCEPT !.remoteClosed = TRUE])
    BY FieldNames DEF Alike, Shaped
  <1> QED BY <1>1, <1>2, AlikeSelf, SmallStepsAlike

-----------------------------------------------------------------------------
(* The actions. *)

LEMMA AnswerKeeps ==
    ASSUME Good(sv, {}), NEW c \in sv.calls, Answer(c)
    PROVE  Good(sv', {})
  <1>1. PICK outcome \in {"ok", "failed", "already", "inprogress"}, stable \in BOOLEAN :
          sv' = IF ~IsCurrent(c) THEN Unsend(sv, c)
                ELSE IF c.op = "connect" THEN ConnectAnswered(Unsend(sv, c), c.kind, outcome, stable)
                ELSE IF c.kind = "le" THEN DisconnectAnswered(Unsend(sv, c), outcome)
                ELSE DeviceDisconnectAnswered(Unsend(sv, c), outcome)
    BY DEF Answer
  <1>2. CASE ~c.current
    BY <1>1, <1>2, UnsendDisowned DEF IsCurrent
  <1>3. CASE c.current /\ c.op = "connect"
    <2>1. /\ c.kind \in Kinds /\ Unsend(sv, c).req[c.kind] \in Request
          /\ Good(Unsend(sv, c), {c.kind} \X BOOLEAN)
      BY <1>3, UnsendConnect
    <2> QED BY <1>1, <1>3, <2>1, ConnectAnsweredGood DEF IsCurrent
  <1>4. CASE c.current /\ c.op # "connect"
    <2>1. c.op = "disconnect" /\ c.kind \in {"le", "device"}
      BY <1>4 DEF Good, Shaped, Call
    <2>2. CASE c.kind = "le"
      BY <1>1, <1>4, <2>1, <2>2, DisconnectAnsweredGood DEF IsCurrent
    <2>3. CASE c.kind = "device"
      BY <1>1, <1>4, <2>1, <2>3, DeviceDisconnectAnsweredGood DEF IsCurrent
    <2> QED BY <2>1, <2>2, <2>3
  <1> QED BY <1>2, <1>3, <1>4

LEMMA BluezActsKeeps ==
    ASSUME Good(sv, {}), BluezActs
    PROVE  Good(sv', {})
  <1>1. PICK c \in sv.calls : Answer(c) \/ DialConnects(c) \/ DisconnectTakes(c)
    BY DEF BluezActs
  <1>2. CASE Answer(c)
    BY <1>2, AnswerKeeps
  <1>3. CASE DialConnects(c) \/ DisconnectTakes(c)
    <2>1. sv' = Signalled(CarriedOut(c), link')
      BY <1>3 DEF DialConnects, LinkUp, DisconnectTakes
    <2> QED BY <2>1, CarriedOutGood, SignalledGood
  <1> QED BY <1>1, <1>2, <1>3

LEMMA LinksKeep ==
    ASSUME Good(sv, {}), NEW k \in Kinds,
           Inbound(k) \/ LinkLost(k) \/ CacheAnswers(k) \/ CacheFails(k)
    PROVE  Good(sv', {})
  <1>1. CASE Inbound(k)
    BY <1>1, SignalledGood DEF Inbound, LinkUp
  <1>2. CASE LinkLost(k)
    <2>1. PICK byPhone \in BOOLEAN :
            sv' = Signalled(IF k = "bredr" /\ byPhone THEN RemoteClosed(sv) ELSE sv, link')
      BY <1>2 DEF LinkLost
    <2>2. Good(RemoteClosed(sv), {})
      BY RemoteClosedAlike, AlikeGood DEF Good
    <2> QED BY <2>1, <2>2, SignalledGood
  <1>3. CASE CacheAnswers(k)
    <2> DEFINE t == [sv EXCEPT !.cache[k] = Seen(link, k)]
    <2>1. Alike(sv, t)
      BY FieldNames DEF Good, Alike, Shaped
    <2>2. sv' = t
      BY <1>3 DEF CacheAnswers
    <2> HIDE DEF t
    <2> QED BY <2>1, <2>2, AlikeGood
  <1>4. CASE CacheFails(k)
    <2> DEFINE t == [sv EXCEPT !.cache[k] = "unknown"]
    <2>1. Alike(sv, t)
      BY FieldNames DEF Good, Alike, Shaped
    <2>2. sv' = t
      BY <1>4 DEF CacheFails
    <2> HIDE DEF t
    <2> QED BY <2>1, <2>2, AlikeGood
  <1> QED BY <1>1, <1>2, <1>3, <1>4

LEMMA DaemonKeeps ==
    ASSUME Good(sv, {}), Pause \/ Resume \/ BluezRestart \/ EnableLe \/ Hold
    PROVE  Good(sv', {})
  <1> USE DEF Good
  <1>1. CASE Pause
    <2> DEFINE t == Forget(sv)
    <2> DEFINE a == StopSolicitation(t.adv)
    <2> DEFINE u == [[t EXCEPT !.running = FALSE] EXCEPT !.manual = FALSE]
    <2>1. Good(t, {})
      BY ForgetGood
    <2>2. sv' = [t EXCEPT !.running = FALSE, !.manual = FALSE, !.adv = a]
      BY <1>1 DEF Pause
    <2> HIDE DEF t
    <2>3. Alike(t, u)
      BY <2>1, FieldNames DEF Alike, Shaped
    <2>4. t.adv \in Advert /\ u.adv = t.adv
      BY <2>1, FieldNames DEF Shaped
    <2>5. a \in Advert /\ a.dialing = u.adv.dialing
      BY <2>4, RestKeeps
    <2>6. sv' = [u EXCEPT !.adv = a]
      BY <2>2
    <2> HIDE DEF a, u
    <2>7. Alike(u, sv')
      BY <2>3, <2>5, <2>6, OtherAdvert DEF Alike
    <2> QED BY <2>1, <2>3, <2>7, AlikeTrans, AlikeGood
  <1>2. CASE Resume
    <2> DEFINE s == [sv EXCEPT !.adv = StartSolicitation(@)]
    <2>1. PICK stable \in BOOLEAN :
            sv' = TickState([ResetState(s, stable) EXCEPT !.running = TRUE], stable)
      BY <1>2 DEF Resume, Then
    <2>2. Shaped(s)
      BY StartKeeps, OtherAdvert DEF Shaped, Alike
    <2> DEFINE t == ResetState(s, stable)
    <2>3. Good(t, {})
      BY <2>2, ResetStateGood
    <2> HIDE DEF s, t
    <2>4. Alike(t, [t EXCEPT !.running = TRUE])
      BY <2>3, FieldNames DEF Alike, Shaped
    <2>5. Good([t EXCEPT !.running = TRUE], {})
      BY <2>3, <2>4, AlikeGood
    <2> QED BY <2>1, <2>5, TickStateGood DEF t
  <1>3. CASE BluezRestart
    <2> DEFINE a == ResetSolicitation(sv.adv)
    <2> DEFINE s == [sv EXCEPT !.cache = both("unknown"), !.calls = {}, !.adv = a]
    <2>1. PICK stable \in BOOLEAN : sv' = ResetState(s, stable)
      BY <1>3 DEF BluezRestart
    <2>2. a \in Advert
      BY ResetKeeps DEF Shaped
    <2> HIDE DEF a
    <2>3. Shaped(s)
      BY <2>2, FieldNames DEF Shaped
    <2> HIDE DEF s
    <2> QED BY <2>1, <2>3, ResetStateGood
  <1>4. CASE EnableLe
    BY <1>4, EnableLeStateGood DEF EnableLe
  <1>5. CASE Hold
    BY <1>5, HoldLeGood DEF Hold
  <1> QED BY <1>1, <1>2, <1>3, <1>4, <1>5

LEMMA TimersKeep ==
    ASSUME Good(sv, {}), Tick \/ LeSettled \/ ReconnectNow \/ ManualDial
    PROVE  Good(sv', {})
  <1>1. CASE Tick
    BY <1>1, TickStateGood DEF Tick
  <1>2. CASE LeSettled
    BY <1>2, LeSettledStateGood DEF LeSettled
  <1>3. CASE ReconnectNow
    <2> DEFINE t == [ForgiveClassic(sv) EXCEPT !.manual = TRUE]
    <2>1. Alike(sv, t)
      BY FieldNames DEF Good, Alike, Shaped, ForgiveClassic
    <2>2. sv' = t
      BY <1>3 DEF ReconnectNow
    <2> HIDE DEF t
    <2> QED BY <2>1, <2>2, AlikeGood
  <1>4. CASE ManualDial
    <2> DEFINE fired == [sv EXCEPT !.manual = FALSE]
    <2>1. sv' \in {fired, RequestConnect(fired, "bredr")}
      BY <1>4 DEF ManualDial
    <2>2. Alike(sv, fired)
      BY FieldNames DEF Good, Alike, Shaped
    <2> HIDE DEF fired
    <2>3. Good(fired, {})
      BY <2>2, AlikeGood
    <2> QED BY <2>1, <2>3, RequestConnectGood DEF Kinds
  <1> QED BY <1>1, <1>2, <1>3, <1>4

LEMMA ResetsKeep ==
    ASSUME Good(sv, {}), ResetProfiles \/ ProfileResetReconnect \/ AskLeReset \/ AncsHealth
    PROVE  Good(sv', {})
  <1>1. CASE ResetProfiles
    <2> DEFINE t == [CancelSettle(sv) EXCEPT !.phase = "disconnecting"]
    <2>1. sv' = Send(t, "disconnect", "device")
      BY <1>1 DEF ResetProfiles
    <2>2. Shaped(t) /\ t.req = sv.req /\ t.calls = sv.calls /\ t.adv = sv.adv
          /\ t.disconnecting = sv.disconnecting /\ t.phase = "disconnecting"
      BY FieldNames DEF Good, Shaped, CancelSettle
    <2> HIDE DEF t
    <2> QED BY <2>1, <2>2, DisconnectGood
  <1>2. CASE ProfileResetReconnect
    <2> DEFINE fired == [sv EXCEPT !.phase = None]
    <2>1. PICK stable \in BOOLEAN :
            sv' \in {fired, RefreshStates(fired, stable),
                     RequestConnect(ForgiveClassic(RefreshStates(fired, stable)), "bredr")}
      BY <1>2 DEF ProfileResetReconnect, Then
    <2>2. Shaped(fired) /\ fired.req = sv.req /\ fired.calls = sv.calls /\ fired.adv = sv.adv
          /\ fired.disconnecting = sv.disconnecting /\ fired.phase = None
      BY FieldNames DEF Good, Shaped
    <2> HIDE DEF fired
    <2>3. Waits(fired, {}) /\ DialTold(fired)
      BY <2>2, BearerAssumption DEF Good, Waits, DialsOwed, ResetsOwed, CallsMatch, DialTold, Owed
    <2>4. Good(fired, {})
      BY <2>2, <2>3 DEF Good
    <2> DEFINE seen == RefreshStates(fired, stable)
    <2>5. Good(seen, {})
      BY <2>4, RefreshStatesGood
    <2> HIDE DEF seen
    <2>6. Alike(seen, ForgiveClassic(seen))
      BY <2>5, FieldNames DEF Good, Alike, Shaped, ForgiveClassic
    <2>7. Good(RequestConnect(ForgiveClassic(seen), "bredr"), {})
      BY <2>5, <2>6, AlikeGood, RequestConnectGood DEF Kinds
    <2> QED BY <2>1, <2>4, <2>5, <2>7 DEF seen
  <1>3. CASE AskLeReset
    BY <1>3, RecoverLeGood DEF AskLeReset
  <1>4. CASE AncsHealth
    <2> DEFINE a == SetNeeded(sv.adv, FALSE)
    <2> DEFINE t == [sv EXCEPT !.wanted = None]
    <2>1. Alike(sv, t) /\ t.adv = sv.adv
      BY FieldNames DEF Good, Alike, Shaped
    <2>2. a \in Advert /\ a.dialing = t.adv.dialing
      BY <2>1, SetNeededKeeps DEF Good, Shaped
    <2>3. sv' = [t EXCEPT !.adv = a]
      BY <1>4 DEF AncsHealth
    <2> HIDE DEF a, t
    <2>4. Alike(t, sv')
      BY <2>1, <2>2, <2>3, OtherAdvert DEF Alike
    <2> QED BY <2>1, <2>4, AlikeTrans, AlikeGood
  <1> QED BY <1>1, <1>2, <1>3, <1>4

LEMMA WorldKeeps ==
    ASSUME Good(sv, {}),
           \/ Sighting \/ WeatherTurns \/ PhoneReturns \/ PhoneLeaves
           \/ SolicitationTick \/ AdvertAnswers \/ AdvertReleased
    PROVE  Good(sv', {})
  <1>1. CASE Sighting
    <2> DEFINE t == NotePresence(sv)
    <2>1. Alike(sv, t)
      BY SmallStepsAlike DEF Good
    <2>2. sv' = [t EXCEPT !.sighted = TRUE]
      BY <1>1 DEF Sighting
    <2> HIDE DEF t
    <2>3. Alike(t, [t EXCEPT !.sighted = TRUE])
      BY <2>1, FieldNames DEF Alike, Shaped
    <2> QED BY <2>1, <2>2, <2>3, AlikeTrans, AlikeGood
  <1>2. CASE WeatherTurns \/ PhoneReturns \/ PhoneLeaves
    BY <1>2 DEF WeatherTurns, PhoneReturns, PhoneLeaves
  <1>3. CASE SolicitationTick \/ AdvertAnswers \/ AdvertReleased
    <2>1. PICK a \in {Reconcile(sv.adv), AdvertRegistered(sv.adv), AdvertGone(sv.adv)} :
            sv' = [sv EXCEPT !.adv = a]
      BY <1>3 DEF SolicitationTick, AdvertAnswers, AdvertReleased
    <2>2. a \in Advert /\ a.dialing = sv.adv.dialing
      BY ReconcileKeeps, RestKeeps DEF Good, Shaped
    <2>3. Alike(sv, sv')
      BY <2>1, <2>2, OtherAdvert DEF Good
    <2> QED BY <2>3, AlikeGood
  <1> QED BY <1>1, <1>2, <1>3

LEMMA DeadlineKeeps ==
    ASSUME Good(sv, {}), NEW k \in Kinds, DeadlinePasses(k)
    PROVE  Good(sv', {})
  <1> DEFINE r == [sv.req[k] EXCEPT !.wait = "overdue"]
  <1>1. sv.req[k] # None /\ sv' = [sv EXCEPT !.req[k] = r]
    BY DEF DeadlinePasses, Connecting
  <1>2. sv.req[k] \in Request
    BY <1>1 DEF Good, Shaped
  <1>3. r \in Request /\ r.wait # "reply" /\ r # None
    BY <1>2, BearerAssumption DEF Request
  <1> HIDE DEF r
  <1>4. PICK t : t = sv'
    OBVIOUS
  <1>5. t.req = [sv.req EXCEPT ![k] = r] /\ t.calls = sv.calls /\ t.disconnecting = sv.disconnecting
        /\ t.phase = sv.phase /\ t.adv = sv.adv /\ DOMAIN t = Fields /\ t = [f \in Fields |-> t[f]]
    BY <1>1, <1>4, FieldNames DEF Good, Shaped
  <1>6. t.req[k] = r /\ (\A j \in Kinds \ {k} : t.req[j] = sv.req[j])
        /\ t.req \in [Kinds -> {None} \cup Request]
    BY <1>3, <1>5 DEF Good, Shaped
  <1>7. Shaped(t)
    BY <1>5, <1>6 DEF Good, Shaped
  <1>8. DialsOwed(t, {})
    BY <1>3, <1>5, <1>6 DEF Good, Waits, DialsOwed, Owed
  <1>9. CallsMatch(t)
    <2> SUFFICES ASSUME NEW c \in sv.calls, c.op = "connect", c.current PROVE t.req[c.kind] # None
      BY <1>5 DEF CallsMatch
    <2>1. c.kind \in Kinds
      BY CallNames DEF Good, Shaped
    <2> QED BY <1>3, <1>6, <2>1 DEF Good, Waits, CallsMatch
  <1>10. ResetsOwed(t)
    BY <1>5 DEF Good, Waits, ResetsOwed, Owed
  <1>11. DialTold(t)
    BY <1>1, <1>3, <1>5, <1>6 DEF Good, DialTold, Kinds
  <1> QED BY <1>4, <1>7, <1>8, <1>9, <1>10, <1>11 DEF Good, Waits

LEMMA WindowsKeep ==
    ASSUME Good(sv, {}), NEW w, w \in {"bredr", "le", "bredr deadline", "le deadline", "reset",
                                       "budget", "sighting", "hold"}, Passes(w)
    PROVE  Good(sv', {})
  <1>1. CASE w \in Kinds
    <2> DEFINE t == [sv EXCEPT !.quiet[w] = FALSE]
    <2>1. Alike(sv, t)
      BY FieldNames DEF Good, Alike, Shaped
    <2>2. sv' = t
      BY <1>1 DEF Passes, Kinds
    <2> HIDE DEF t
    <2> QED BY <2>1, <2>2, AlikeGood
  <1>2. CASE w \in {"bredr deadline", "le deadline"}
    <2>1. PICK k \in Kinds : DeadlinePasses(k)
      BY <1>2 DEF Passes, Kinds
    <2> QED BY <2>1, DeadlineKeeps
  <1>3. CASE w \in {"reset", "budget", "sighting"}
    <2>1. sv' \in {[sv EXCEPT !.resetQuiet = FALSE], [sv EXCEPT !.budgetQuiet = FALSE],
                   [sv EXCEPT !.sighted = FALSE]}
      BY <1>3 DEF Passes, Kinds
    <2>2. Alike(sv, [sv EXCEPT !.resetQuiet = FALSE]) /\ Alike(sv, [sv EXCEPT !.budgetQuiet = FALSE])
          /\ Alike(sv, [sv EXCEPT !.sighted = FALSE])
      BY FieldNames DEF Good, Alike, Shaped
    <2> QED BY <2>1, <2>2, AlikeGood
  <1>4. CASE w = "hold"
    <2> DEFINE a == [sv.adv EXCEPT !.hold = FALSE]
    <2>1. sv' = [sv EXCEPT !.adv = a]
      BY <1>4 DEF Passes, Kinds
    <2>2. a \in Advert /\ a.dialing = sv.adv.dialing
      BY RestKeeps DEF Good, Shaped
    <2> HIDE DEF a
    <2>3. Alike(sv, sv')
      BY <2>1, <2>2, OtherAdvert DEF Good
    <2> QED BY <2>3, AlikeGood
  <1> QED BY <1>1, <1>2, <1>3, <1>4 DEF Kinds

-----------------------------------------------------------------------------
LEMMA InitGood ==
    ASSUME Init
    PROVE  Good(sv, {})
  <1> DEFINE a == StartSolicitation(InitSolicitation)
  <1> DEFINE t == [InitSupervisor EXCEPT !.running = TRUE, !.adv = a]
  <1>1. sv = TickState(t, FALSE)
    BY DEF Init, InitSupervisor
  <1>2. InitSolicitation \in Advert /\ InitSolicitation.dialing = FALSE
    BY DEF InitSolicitation, Advert
  <1>3. a \in Advert /\ a.dialing = FALSE
    BY <1>2, StartKeeps
  <1> HIDE DEF a
  <1>4. t.req = both(None) /\ t.calls = {} /\ t.disconnecting = FALSE /\ t.phase = None /\ t.adv = a
    BY DEF InitSupervisor
  <1>5. DOMAIN t = Fields /\ t = [f \in Fields |-> t[f]]
    BY FieldNames DEF InitSupervisor
  <1> HIDE DEF t
  <1>6. Shaped(t)
    BY <1>3, <1>4, <1>5 DEF Shaped, both
  <1>7. Waits(t, {}) /\ DialTold(t)
    BY <1>3, <1>4, BearerAssumption
       DEF Waits, DialsOwed, ResetsOwed, CallsMatch, DialTold, both, Kinds
  <1> QED BY <1>1, <1>6, <1>7, TickStateGood DEF Good

LEMMA WindowNames ==
    ASSUME NEW n \in DOMAIN Windows
    PROVE  Windows[n] \in {"bredr", "le", "bredr deadline", "le deadline", "reset",
                           "budget", "sighting", "hold"}
  <1>1. DOMAIN Windows = 1 .. 8
    BY DEF Windows
  <1>2. n = 1 \/ n = 2 \/ n = 3 \/ n = 4 \/ n = 5 \/ n = 6 \/ n = 7 \/ n = 8
    BY <1>1
  <1>3. /\ Windows[1] = "bredr" /\ Windows[2] = "le" /\ Windows[3] = "bredr deadline"
        /\ Windows[4] = "le deadline"
    BY DEF Windows
  <1>4. /\ Windows[5] = "reset" /\ Windows[6] = "budget" /\ Windows[7] = "sighting"
        /\ Windows[8] = "hold"
    BY DEF Windows
  <1> QED BY <1>2, <1>3, <1>4

LEMMA NextGood ==
    ASSUME Good(sv, {}), [Next]_vars
    PROVE  Good(sv', {})
  <1>1. CASE UNCHANGED vars
    BY <1>1 DEF vars
  <1>2. CASE BluezActs
    BY <1>2, BluezActsKeeps
  <1>3. CASE \E k \in Kinds : Inbound(k) \/ LinkLost(k) \/ CacheAnswers(k) \/ CacheFails(k)
    BY <1>3, LinksKeep
  <1>4. CASE \E n \in DOMAIN Windows : Passes(Windows[n])
    <2>1. PICK n \in DOMAIN Windows : Passes(Windows[n])
      BY <1>4
    <2>2. Windows[n] \in {"bredr", "le", "bredr deadline", "le deadline", "reset",
                          "budget", "sighting", "hold"}
      BY <2>1, WindowNames
    <2> QED BY <2>1, <2>2, WindowsKeep
  <1>5. CASE Pause \/ Resume \/ BluezRestart \/ EnableLe \/ Hold
    BY <1>5, DaemonKeeps
  <1>6. CASE Tick \/ LeSettled \/ ReconnectNow \/ ManualDial
    BY <1>6, TimersKeep
  <1>7. CASE ResetProfiles \/ ProfileResetReconnect \/ AskLeReset \/ AncsHealth
    BY <1>7, ResetsKeep
  <1>8. CASE \/ Sighting \/ WeatherTurns \/ PhoneReturns \/ PhoneLeaves
             \/ SolicitationTick \/ AdvertAnswers \/ AdvertReleased
    BY <1>8, WorldKeeps
  <1> QED BY <1>1, <1>2, <1>3, <1>4, <1>5, <1>6, <1>7, <1>8 DEF Next

LEMMA Supervised == SafetySpec => []Good(sv, {})
  <1>1. Init => Good(sv, {})
    BY InitGood
  <1>2. Good(sv, {}) /\ [Next]_vars => Good(sv, {})'
    BY NextGood DEF Good, Shaped, Waits, DialsOwed, ResetsOwed, CallsMatch, DialTold, Owed
  <1> QED BY <1>1, <1>2, PTL DEF SafetySpec

\* Whatever the supervisor waits for, a reply to a dial, to an LE disconnect or to the device
\* disconnect of a profile reset, BlueZ owes it and its answer will be taken.  It holds
\* whatever is lost, refused, restarted or paused, and however often: no such wait of
\* _connecting, _disconnecting or _profile_reset_phase is left without its answer.
THEOREM BearersAnswered == SafetySpec => []EveryWaitIsAnswered
  <1>1. Good(sv, {}) => EveryWaitIsAnswered
    BY DEF Good, Waits, DialsOwed, ResetsOwed, Owed, EveryWaitIsAnswered, Connecting
  <1> QED BY <1>1, Supervised, PTL

\* The solicitation is told of every LE dial and of its end, on every way out of the dial's
\* handlers (_set_le_dial_active).
THEOREM DialsTold == SafetySpec => []DialPublished
  <1>1. Good(sv, {}) => DialPublished
    BY DEF Good, DialTold, DialPublished, Connecting
  <1> QED BY <1>1, Supervised, PTL

=============================================================================
