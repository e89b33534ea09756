-------------------------- MODULE GtkClientProofs --------------------------
(***************************************************************************)
(* Proofs about the GTK client: a switch shows the choice that was saved,  *)
(* whatever older answers say, the rules shown are no older than the       *)
(* revision acknowledged, and no late answer brings back what a view may   *)
(* no longer show.                                                         *)
(*                                                                         *)
(* The invariant is a predicate of a client's state and the daemon's.  It  *)
(* has four parts, each about few of the client's fields: what is on its   *)
(* way (Base), the switches (Choice), the rules (Rules) and the views      *)
(* (Views).  A handler that leaves the fields of a part alone and asks for *)
(* nothing of its concern keeps the part (Calm, Still).                    *)
(***************************************************************************)
EXTENDS GtkClient, TLAPS

\* None is none of the values it stands in for.
NoneIsNew == None \notin BOOLEAN /\ None \notin BOOLEAN \X BOOLEAN \X Nat

Fields == DOMAIN NewClient
StatusFields == DOMAIN Unreachable
Coalesced == {"status", "media", "log", "calls"}
KindsOf == [read |-> Coalesced \cup {"settings", "rules", "apps", "features", "tether", "threads"},
            request |-> {"save", "plain", "quick", "rule", "mute", "feature", "command", "sync",
                         "act", "unlock"}]
Kinds == KindsOf["read"] \cup KindsOf["request"]

-----------------------------------------------------------------------------
(***************************************************************************)
(* What is on its way.                                                     *)
(***************************************************************************)
IsSeq(q) == \E S : q \in Seq(S)

\* The records have their fields, and the fields the proofs look at their types.
Shaped(s) ==
    /\ DOMAIN s = Fields /\ s = [f \in Fields |-> s[f]]
    /\ DOMAIN s.jobs = Threads /\ s.jobs = [t \in Threads |-> s.jobs[t]]
    /\ \A t \in Threads : IsSeq(s.jobs[t])
    /\ DOMAIN s.out = Threads /\ s.out = [t \in Threads |-> s.out[t]]
    /\ IsSeq(s.idle)
    /\ s.reads \in [Coalesced -> [epoch : Nat, pending : BOOLEAN, again : BOOLEAN]]
    /\ DOMAIN s.log = {"rows", "error", "gen", "syncing"}
    /\ DOMAIN s.run = {"key", "calls", "error", "gen", "busy"}
    /\ DOMAIN s.rules = {"shown", "pending", "serial", "rev", "loaded", "loading", "rows"}
    /\ s.row \in [Switches -> BOOLEAN]
    /\ s.choice \in [Switches -> [pending : BOOLEAN \cup {None}, confirmed : BOOLEAN \cup {None}]]
    /\ s.kept \in [Switches -> BOOLEAN \cup {None}]

\* A status that the daemon d had once, or that the client takes for an unreachable one.
Known(st, d) ==
    /\ st.up \in BOOLEAN /\ st.on \in BOOLEAN
    /\ st.prof \in Nat /\ st.prof <= d.st.prof
    /\ st.sw \in [Switches -> BOOLEAN]
    /\ st.up => st.rev \in Nat /\ st.rev <= d.st.rev

Daemon(d) ==
    /\ DOMAIN d = {"st", "ver", "stored"} /\ d = [f \in {"st", "ver", "stored"} |-> d[f]]
    /\ DOMAIN d.st = StatusFields /\ d.st = [f \in StatusFields |-> d.st[f]]
    /\ Known(d.st, d) /\ d.st.up

\* A job, queued or answered.
JobBase(s, j) ==
    /\ j.do \in Coalesced => j.epoch \in Nat /\ j.epoch <= s.reads[j.do].epoch
    /\ j.do = "save" => j.name \in Switches /\ j.on \in BOOLEAN

\* The answer r to the job j.
AnswerBase(d, j, r) ==
    /\ r.ok \in BOOLEAN
    /\ ~r.ok => r.value = None
    /\ r.ok /\ j.do \in {"status", "settings"} => Known(r.value, d)
    /\ r.ok /\ j.do = "save" => r.value = j.on

Base(s, d) ==
    /\ Shaped(s)
    /\ Known(s.card, d) /\ Known(s.last, d)
    /\ \A t \in Threads : \A i \in DOMAIN s.jobs[t] :
           s.jobs[t][i].do \in KindsOf[t] /\ JobBase(s, s.jobs[t][i])
    /\ \A t \in Threads : s.out[t] # None =>
           /\ s.out[t].job.do \in KindsOf[t] /\ JobBase(s, s.out[t].job)
           /\ AnswerBase(d, s.out[t].job, s.out[t].answer)
    /\ \A i \in DOMAIN s.idle :
           /\ s.idle[i].job.do \in Kinds /\ JobBase(s, s.idle[i].job)
           /\ AnswerBase(d, s.idle[i].job, s.idle[i].answer)

\* A request of which there may be one at a time: a save of a switch, a change of a rule.
Owns(j, k) == IF k = "rule" THEN j.do = "rule" ELSE j.do = "save" /\ j.name = k
Once(s, k) ==
    /\ \A i, m \in DOMAIN s.jobs["request"] :
           Owns(s.jobs["request"][i], k) /\ Owns(s.jobs["request"][m], k) => i = m
    /\ \A i, m \in DOMAIN s.idle : Owns(s.idle[i].job, k) /\ Owns(s.idle[m].job, k) => i = m
    /\ \A i \in DOMAIN s.jobs["request"], m \in DOMAIN s.idle :
           ~(Owns(s.jobs["request"][i], k) /\ Owns(s.idle[m].job, k))
    /\ s.out["request"] # None /\ Owns(s.out["request"].job, k) =>
           /\ \A i \in DOMAIN s.jobs["request"] : ~Owns(s.jobs["request"][i], k)
           /\ \A i \in DOMAIN s.idle : ~Owns(s.idle[i].job, k)

\* None of them is on its way.
NoneOwns(s, k) ==
    /\ \A i \in DOMAIN s.jobs["request"] : ~Owns(s.jobs["request"][i], k)
    /\ \A i \in DOMAIN s.idle : ~Owns(s.idle[i].job, k)
    /\ s.out["request"] # None => ~Owns(s.out["request"].job, k)

-----------------------------------------------------------------------------
(***************************************************************************)
(* The switches.                                                           *)
(***************************************************************************)
Setting(e) == e.job.do = "settings"
Reports(e, n, v) == Setting(e) /\ e.answer.ok => e.answer.value.sw[n] = v

\* Of the settings answers that come after place p, all but the first report v.
OneStale(s, n, p, v) ==
    /\ \A i, m \in DOMAIN s.idle :
           p < i /\ i < m /\ Setting(s.idle[i]) => Reports(s.idle[m], n, v)
    /\ \A i \in DOMAIN s.idle :
           p < i /\ Setting(s.idle[i]) /\ s.out["read"] # None => Reports(s.out["read"], n, v)
NoStale(s, n, v) ==
    /\ \A i \in DOMAIN s.idle : Reports(s.idle[i], n, v)
    /\ s.out["read"] # None => Reports(s.out["read"], n, v)

\* A save on its way is that of the choice pending.
SavesMatch(s, n) ==
    LET Match(j) == j.do = "save" /\ j.name = n => j.on = s.choice[n].pending
    IN  /\ \A i \in DOMAIN s.jobs["request"] : Match(s.jobs["request"][i])
        /\ \A i \in DOMAIN s.idle : Match(s.idle[i].job)
        /\ s.out["request"] # None => Match(s.out["request"].job)

\* The choice v of the switch n was carried out.
Stands(s, d, n, v) ==
    LET c == s.choice[n]
    IN  /\ d.st.sw[n] = v
        /\ c.pending # None => c.pending = v
        /\ c.pending = None /\ c.confirmed # None =>
               c.confirmed = v /\ s.row[n] = v /\ OneStale(s, n, 0, v)
        /\ c.pending = None /\ c.confirmed = None =>
               (s.last.up => s.row[n] = v) /\ NoStale(s, n, v)
        /\ \A p \in DOMAIN s.idle : Owns(s.idle[p].job, n) => OneStale(s, n, p, v)

Choice(s, d, n) ==
    /\ SavesMatch(s, n) /\ Once(s, n)
    /\ s.choice[n].pending # None => n \in s.dis /\ s.row[n] = s.choice[n].pending
    /\ s.kept[n] # None => Stands(s, d, n, s.kept[n])

-----------------------------------------------------------------------------
(***************************************************************************)
(* The rules.                                                              *)
(***************************************************************************)
JobRules(s, d, j) ==
    /\ j.do = "rules" =>
           /\ j.serial \in Nat /\ j.serial <= s.rules.serial
           /\ s.rules.pending => j.serial < s.rules.serial
           /\ j.rev \in Nat /\ j.rev <= d.st.rev
    /\ j.do = "rule" => s.rules.pending
EntryRules(s, d, e) ==
    /\ JobRules(s, d, e.job)
    /\ e.job.do = "rules" /\ e.answer.ok => e.answer.value \in Nat /\ e.job.rev <= e.answer.value

Rules(s, d) ==
    /\ s.rules.serial \in Nat /\ s.rules.pending \in BOOLEAN
    /\ s.rules.shown => s.rules.rev \in Nat /\ s.rules.rev <= d.st.rev
    /\ s.rules.pending => s.rules.loaded = None
    /\ s.rules.loaded # None =>
           s.rules.loaded \in Nat /\ s.rules.rows \in Nat /\ s.rules.loaded <= s.rules.rows
    /\ \A t \in Threads :
           /\ \A i \in DOMAIN s.jobs[t] : JobRules(s, d, s.jobs[t][i])
           /\ s.out[t] # None => EntryRules(s, d, s.out[t])
    /\ \A i \in DOMAIN s.idle : EntryRules(s, d, s.idle[i])
    /\ Once(s, "rule")

-----------------------------------------------------------------------------
(***************************************************************************)
(* The views.                                                              *)
(***************************************************************************)
Key(st) == <<st.up, st.on, st.prof>>

\* An answer that would be shown is of the card's phone or a later one.
Fitting(s, e) ==
    e.job.do \in {"log", "calls"} /\ e.answer.ok /\ e.job.epoch = s.reads[e.job.do].epoch =>
        e.answer.value.prof \in Nat /\ s.card.prof <= e.answer.value.prof

Shown(s) ==
    /\ s.media # None => Active(s, "media")
    /\ s.log.rows # None =>
           Active(s, "log") /\ s.log.rows.prof \in Nat /\ s.card.prof <= s.log.rows.prof
    /\ s.run.calls # None =>
           Active(s, "calls") /\ s.run.calls.prof \in Nat /\ s.card.prof <= s.run.calls.prof

Views(s) ==
    /\ Shown(s)
    /\ s.shown \in BOOLEAN /\ s.tab \in BOOLEAN
    /\ s.run.key \in {None, Key(s.card)}
    /\ s.out["read"] # None => Fitting(s, s.out["read"])
    /\ \A i \in DOMAIN s.idle : Fitting(s, s.idle[i])

Good(s, d) ==
    /\ Base(s, d)
    /\ \A n \in Switches : Choice(s, d, n)
    /\ Rules(s, d)
    /\ Views(s)

-----------------------------------------------------------------------------
(***************************************************************************)
(* From one state of the client to the next.                               *)
(***************************************************************************)

\* t has asked for more than s, but for nothing of a kind in X, and nothing has arrived.
Grows(s, t, X) ==
    /\ Shaped(t)
    /\ t.idle = s.idle /\ t.out = s.out
    /\ \A n \in Coalesced : s.reads[n].epoch <= t.reads[n].epoch
    /\ \A h \in Threads : \A i \in DOMAIN t.jobs[h] :
           \/ i \in DOMAIN s.jobs[h] /\ t.jobs[h][i] = s.jobs[h][i]
           \/ /\ t.jobs[h][i].do \in KindsOf[h] \ X
              /\ JobBase(t, t.jobs[h][i])

\* The switches, the rules and the views are as they were.
SameSwitch(s, t, n) == t.row[n] = s.row[n] /\ t.choice[n] = s.choice[n] /\ t.kept[n] = s.kept[n]
SameSwitches(s, t) ==
    /\ t.row = s.row /\ t.choice = s.choice /\ t.kept = s.kept
    /\ t.last = s.last /\ s.dis \subseteq t.dis
SameViews(s, t) ==
    /\ t.shown = s.shown /\ t.tab = s.tab /\ t.card = s.card
    /\ t.media = s.media /\ t.log.rows = s.log.rows
    /\ t.run.calls = s.run.calls /\ t.run.key = s.run.key

Tracked == {"save", "rule", "rules"}
Calm(s, t) == Grows(s, t, Tracked) /\ SameSwitches(s, t) /\ t.rules = s.rules
Quiet(s, t) == Calm(s, t) /\ SameViews(s, t)
Steady(s, t, X) == Grows(s, t, X) /\ SameSwitches(s, t) /\ SameViews(s, t)

LEMMA FieldNames ==
    /\ Fields = {"available", "shown", "tab", "jobs", "out", "idle", "reads", "card", "media",
                 "quick", "log", "run", "last", "asked", "dis", "row", "plain", "choice", "kept",
                 "rules", "sets", "apps", "tether", "threads"}
    /\ Threads = {"read", "request"} /\ Switches = {"media", "reset"}
  BY DEF Fields, NewClient, Threads, Switches

LEMMA KindNames ==
    /\ KindsOf["read"] = {"status", "media", "log", "calls", "settings", "rules", "apps",
                          "features", "tether", "threads"}
    /\ KindsOf["request"] = {"save", "plain", "quick", "rule", "mute", "feature", "command",
                             "sync", "act", "unlock"}
    /\ Coalesced = {"status", "media", "log", "calls"}
  BY DEF KindsOf, Coalesced

LEMMA AppendSeq ==
    ASSUME NEW q, IsSeq(q), NEW e
    PROVE  /\ IsSeq(Append(q, e))
           /\ \A i \in DOMAIN Append(q, e) :
                  \/ i \in DOMAIN q /\ Append(q, e)[i] = q[i]
                  \/ i = Len(q) + 1 /\ Append(q, e)[i] = e
           /\ \A i \in DOMAIN q : i \in Nat /\ i <= Len(q)
           /\ \A i \in DOMAIN Append(q, e) : i \in Nat
           /\ Len(q) \in Nat
  <1>1. PICK S : q \in Seq(S)
    BY DEF IsSeq
  <1>2. q \in Seq(S \cup {e}) /\ e \in S \cup {e}
    BY <1>1
  <1>3. Append(q, e) \in Seq(S \cup {e})
    BY <1>2
  <1>4. IsSeq(Append(q, e))
    BY <1>3 DEF IsSeq
  <1> QED BY <1>1, <1>3, <1>4

LEMMA TailSeq ==
    ASSUME NEW q, IsSeq(q), q # <<>>
    PROVE  /\ IsSeq(Tail(q))
           /\ \A i \in DOMAIN Tail(q) :
                  i \in Nat /\ i > 0 /\ i + 1 \in DOMAIN q /\ Tail(q)[i] = q[i + 1]
           /\ 1 \in DOMAIN q /\ Head(q) = q[1]
           /\ \A i \in DOMAIN q : i \in Nat /\ i > 0
  <1>1. PICK S : q \in Seq(S)
    BY DEF IsSeq
  <1>2. Tail(q) \in Seq(S)
    BY <1>1
  <1>3. IsSeq(Tail(q))
    BY <1>2 DEF IsSeq
  <1> QED BY <1>1, <1>2, <1>3

LEMMA EmptySeq == IsSeq(<<>>) /\ DOMAIN <<>> = {}
  <1>1. <<>> \in Seq({})
    OBVIOUS
  <1> QED BY <1>1 DEF IsSeq

LEMMA Epochs ==
    ASSUME NEW s, Shaped(s)
    PROVE  \A n \in Coalesced : s.reads[n].epoch \in Nat /\ s.reads[n].epoch <= s.reads[n].epoch
  <1>1. \A n \in Coalesced : s.reads[n].epoch \in Nat
    BY DEF Shaped
  <1> QED BY <1>1

LEMMA GrowsSelf ==
    ASSUME NEW s, Shaped(s), NEW X
    PROVE  Grows(s, s, X)
  BY Epochs DEF Grows

LEMMA GrowsTrans ==
    ASSUME NEW s, NEW t, NEW u, NEW X, Shaped(s), Grows(s, t, X), Grows(t, u, X)
    PROVE  Grows(s, u, X)
  <1>1. \A n \in Coalesced : /\ s.reads[n].epoch <= t.reads[n].epoch
                             /\ t.reads[n].epoch <= u.reads[n].epoch
                             /\ s.reads[n].epoch \in Nat /\ t.reads[n].epoch \in Nat
                             /\ u.reads[n].epoch \in Nat
    BY DEF Grows, Shaped
  <1>2. \A n \in Coalesced : s.reads[n].epoch <= u.reads[n].epoch
    BY <1>1
  <1>3. ASSUME NEW j, JobBase(t, j)
        PROVE  JobBase(u, j)
    BY <1>1, <1>3 DEF JobBase
  <1> QED BY <1>2, <1>3 DEF Grows

LEMMA GrowsLess ==
    ASSUME NEW s, NEW t, NEW X, NEW Y, Grows(s, t, X), Y \subseteq X
    PROVE  Grows(s, t, Y)
  BY DEF Grows

LEMMA CalmSelf == ASSUME NEW s, Shaped(s) PROVE Calm(s, s)
  BY GrowsSelf DEF Calm, SameSwitches

LEMMA CalmTrans ==
    ASSUME NEW s, NEW t, NEW u, Shaped(s), Calm(s, t), Calm(t, u)
    PROVE  Calm(s, u)
  BY GrowsTrans DEF Calm, SameSwitches

LEMMA QuietSelf == ASSUME NEW s, Shaped(s) PROVE Quiet(s, s)
  BY CalmSelf DEF Quiet, SameViews

LEMMA QuietTrans ==
    ASSUME NEW s, NEW t, NEW u, Shaped(s), Quiet(s, t), Quiet(t, u)
    PROVE  Quiet(s, u)
  BY CalmTrans DEF Quiet, SameViews

LEMMA QuietShaped == ASSUME NEW s, NEW t, Quiet(s, t) PROVE Shaped(t)
  BY DEF Quiet, Calm, Grows

\* Parts of the client that no part of the invariant is about.
LEMMA OtherField ==
    ASSUME NEW s, Shaped(s), NEW v,
           NEW f \in {"available", "quick", "asked", "plain", "sets", "apps", "tether", "threads"}
    PROVE  Quiet(s, [s EXCEPT ![f] = v])
  <1> DEFINE t == [s EXCEPT ![f] = v]
  <1>1. Shaped(t)
    BY FieldNames DEF Shaped
  <1>2. /\ t.jobs = s.jobs /\ t.idle = s.idle /\ t.out = s.out /\ t.reads = s.reads
        /\ t.row = s.row /\ t.choice = s.choice /\ t.kept = s.kept /\ t.last = s.last
        /\ t.dis = s.dis /\ t.rules = s.rules /\ t.shown = s.shown /\ t.tab = s.tab
        /\ t.card = s.card /\ t.media = s.media /\ t.log = s.log /\ t.run = s.run
    BY FieldNames DEF Shaped
  <1> HIDE DEF t
  <1>3. Quiet(s, t)
    BY <1>1, <1>2, Epochs DEF Quiet, Calm, Grows, SameSwitches, SameViews
  <1> QED BY <1>3 DEF t

LEMMA SubmitSteady ==
    ASSUME NEW s, Shaped(s), NEW h \in Threads, NEW j, NEW X, j.do \in KindsOf[h] \ X, JobBase(s, j)
    PROVE  LET t == Submit(s, h, j)
           IN  /\ Steady(s, t, X) /\ t.rules = s.rules /\ t.dis = s.dis
               /\ t.jobs = [s.jobs EXCEPT ![h] = Append(s.jobs[h], j)]
  <1> DEFINE t == Submit(s, h, j)
  <1> DEFINE q == Append(s.jobs[h], j)
  <1>1. IsSeq(s.jobs[h])
    BY DEF Shaped
  <1>2. IsSeq(q) /\ \A i \in DOMAIN q : (i \in DOMAIN s.jobs[h] /\ q[i] = s.jobs[h][i]) \/ q[i] = j
    BY <1>1, AppendSeq
  <1>3. t = [s EXCEPT !.jobs = [s.jobs EXCEPT ![h] = q]]
    BY DEF Submit
  <1> HIDE DEF q
  <1>4. t.jobs = [s.jobs EXCEPT ![h] = q] /\ DOMAIN t = Fields /\ t = [f \in Fields |-> t[f]]
        /\ \A f \in Fields \ {"jobs"} : t[f] = s[f]
    BY <1>3, FieldNames DEF Shaped
  <1> HIDE DEF t
  <1>5. DOMAIN t.jobs = Threads /\ t.jobs = [x \in Threads |-> t.jobs[x]] /\ t.jobs[h] = q
        /\ \A x \in Threads : x # h => t.jobs[x] = s.jobs[x]
    BY <1>4 DEF Shaped
  <1>6. Shaped(t)
    BY <1>2, <1>4, <1>5, FieldNames DEF Shaped
  <1>7. JobBase(t, j)
    BY <1>4, FieldNames DEF JobBase
  <1>8. /\ t.idle = s.idle /\ t.out = s.out /\ t.reads = s.reads
        /\ t.row = s.row /\ t.choice = s.choice /\ t.kept = s.kept /\ t.last = s.last
        /\ t.dis = s.dis /\ t.rules = s.rules /\ t.shown = s.shown /\ t.tab = s.tab
        /\ t.card = s.card /\ t.media = s.media /\ t.log = s.log /\ t.run = s.run
    BY <1>4, FieldNames
  <1>9. Grows(s, t, X)
    BY <1>2, <1>5, <1>6, <1>7, <1>8, Epochs DEF Grows
  <1>10. Steady(s, t, X)
    BY <1>8, <1>9 DEF Steady, SameSwitches, SameViews
  <1> QED BY <1>4, <1>8, <1>10 DEF t, q

LEMMA SubmitQuiet ==
    ASSUME NEW s, Shaped(s), NEW h \in Threads, NEW j, j.do \in KindsOf[h] \ Tracked, JobBase(s, j)
    PROVE  Quiet(s, Submit(s, h, j))
  BY SubmitSteady DEF Steady, Quiet, Calm

-----------------------------------------------------------------------------
(***************************************************************************)
(* Handlers that touch neither switches nor rules nor views.               *)
(***************************************************************************)
LEMMA ReadsField ==
    ASSUME NEW s, Shaped(s), NEW n \in Coalesced, NEW v \in [epoch : Nat, pending : BOOLEAN, again : BOOLEAN],
           s.reads[n].epoch <= v.epoch
    PROVE  /\ Quiet(s, [s EXCEPT !.reads[n] = v])
           /\ [s EXCEPT !.reads[n] = v].reads = [s.reads EXCEPT ![n] = v]
  <1> DEFINE t == [s EXCEPT !.reads[n] = v]
  <1>1. t.reads = [s.reads EXCEPT ![n] = v]
    BY FieldNames DEF Shaped
  <1>2. t.reads \in [Coalesced -> [epoch : Nat, pending : BOOLEAN, again : BOOLEAN]]
    BY <1>1 DEF Shaped
  <1>3. Shaped(t)
    BY <1>2, FieldNames DEF Shaped
  <1>4. /\ t.jobs = s.jobs /\ t.idle = s.idle /\ t.out = s.out
        /\ t.row = s.row /\ t.choice = s.choice /\ t.kept = s.kept /\ t.last = s.last
        /\ t.dis = s.dis /\ t.rules = s.rules /\ t.shown = s.shown /\ t.tab = s.tab
        /\ t.card = s.card /\ t.media = s.media /\ t.log = s.log /\ t.run = s.run
    BY FieldNames DEF Shaped
  <1>5. \A m \in Coalesced : s.reads[m].epoch <= t.reads[m].epoch
    BY <1>1, Epochs DEF Shaped
  <1> HIDE DEF t
  <1>6. Quiet(s, t)
    BY <1>3, <1>4, <1>5 DEF Quiet, Calm, Grows, SameSwitches, SameViews
  <1> QED BY <1>1, <1>6 DEF t

LEMMA ResetQuiet ==
    ASSUME NEW s, Shaped(s), NEW n \in Coalesced
    PROVE  /\ Quiet(s, Reset(s, n))
           /\ Reset(s, n).reads[n].epoch = s.reads[n].epoch + 1
  <1> DEFINE Flags == [epoch : Nat, pending : BOOLEAN, again : BOOLEAN]
  <1> DEFINE v == [s.reads[n] EXCEPT !.epoch = s.reads[n].epoch + 1, !.again = FALSE]
  <1>1. s.reads[n] \in Flags /\ s.reads[n].epoch \in Nat
    BY DEF Shaped
  <1>2. ASSUME NEW x \in Flags, NEW e \in Nat
        PROVE  /\ [x EXCEPT !.epoch = e, !.again = FALSE] \in Flags
               /\ [x EXCEPT !.epoch = e, !.again = FALSE].epoch = e
    OBVIOUS
  <1>3. s.reads[n].epoch + 1 \in Nat /\ s.reads[n].epoch <= s.reads[n].epoch + 1
    BY <1>1
  <1>4. v \in Flags /\ v.epoch = s.reads[n].epoch + 1 /\ s.reads[n].epoch <= v.epoch
    BY <1>1, <1>2, <1>3
  <1>5. Reset(s, n) = [s EXCEPT !.reads[n] = v]
    BY FieldNames DEF Reset, Shaped
  <1> HIDE DEF v
  <1>6. Quiet(s, Reset(s, n)) /\ Reset(s, n).reads = [s.reads EXCEPT ![n] = v]
    BY <1>4, <1>5, ReadsField
  <1> QED BY <1>4, <1>6 DEF Shaped

LEMMA FlagQuiet ==
    ASSUME NEW s, Shaped(s), NEW n \in Coalesced, NEW p \in BOOLEAN, NEW a \in BOOLEAN
    PROVE  /\ Quiet(s, [s EXCEPT !.reads[n].pending = p])
           /\ Quiet(s, [s EXCEPT !.reads[n].again = a])
           /\ Quiet(s, [s EXCEPT !.reads[n].pending = p, !.reads[n].again = a])
           /\ [s EXCEPT !.reads[n].pending = p].reads[n].epoch = s.reads[n].epoch
  <1>1. s.reads[n] \in [epoch : Nat, pending : BOOLEAN, again : BOOLEAN]
    BY DEF Shaped
  <1>2. ASSUME NEW v \in [epoch : Nat, pending : BOOLEAN, again : BOOLEAN],
               v.epoch = s.reads[n].epoch
        PROVE  Quiet(s, [s EXCEPT !.reads[n] = v])
    <2>1. s.reads[n].epoch <= v.epoch
      BY <1>1, <1>2
    <2> QED BY <2>1, ReadsField
  <1>3. Quiet(s, [s EXCEPT !.reads[n] = [s.reads[n] EXCEPT !.pending = p]])
    <2>1. /\ [s.reads[n] EXCEPT !.pending = p] \in [epoch : Nat, pending : BOOLEAN, again : BOOLEAN]
          /\ [s.reads[n] EXCEPT !.pending = p].epoch = s.reads[n].epoch
      BY <1>1
    <2> QED BY <1>2, <2>1
  <1>4. Quiet(s, [s EXCEPT !.reads[n] = [s.reads[n] EXCEPT !.again = a]])
    <2>1. /\ [s.reads[n] EXCEPT !.again = a] \in [epoch : Nat, pending : BOOLEAN, again : BOOLEAN]
          /\ [s.reads[n] EXCEPT !.again = a].epoch = s.reads[n].epoch
      BY <1>1
    <2> QED BY <1>2, <2>1
  <1>5. Quiet(s, [s EXCEPT !.reads[n] = [s.reads[n] EXCEPT !.pending = p, !.again = a]])
    <2>1. /\ [s.reads[n] EXCEPT !.pending = p, !.again = a]
                 \in [epoch : Nat, pending : BOOLEAN, again : BOOLEAN]
          /\ [s.reads[n] EXCEPT !.pending = p, !.again = a].epoch = s.reads[n].epoch
      BY <1>1
    <2> QED BY <1>2, <2>1
  <1>6. [s EXCEPT !.reads[n].pending = p] = [s EXCEPT !.reads[n] = [s.reads[n] EXCEPT !.pending = p]]
    BY FieldNames DEF Shaped
  <1>7. [s EXCEPT !.reads[n].again = a] = [s EXCEPT !.reads[n] = [s.reads[n] EXCEPT !.again = a]]
    BY FieldNames DEF Shaped
  <1>8. [s EXCEPT !.reads[n].pending = p, !.reads[n].again = a]
          = [s EXCEPT !.reads[n] = [s.reads[n] EXCEPT !.pending = p, !.again = a]]
    BY FieldNames DEF Shaped
  <1>9. [s EXCEPT !.reads[n].pending = p].reads[n].epoch = s.reads[n].epoch
    BY <1>1, FieldNames DEF Shaped
  <1> QED BY <1>3, <1>4, <1>5, <1>6, <1>7, <1>8, <1>9

LEMMA RefreshQuiet ==
    ASSUME NEW s, Shaped(s), NEW n \in Coalesced
    PROVE  Quiet(s, Refresh(s, n))
  <1> DEFINE p == [s EXCEPT !.reads[n].pending = TRUE]
  <1> DEFINE j == [do |-> n, epoch |-> s.reads[n].epoch]
  <1>1. Refresh(s, n) \in {s, [s EXCEPT !.reads[n].again = TRUE], Submit(p, "read", j)}
    BY DEF Refresh, Read
  <1>2. Quiet(s, p) /\ Shaped(p) /\ p.reads[n].epoch = s.reads[n].epoch
    BY FlagQuiet, QuietShaped
  <1>3. j.do \in KindsOf["read"] \ Tracked /\ "read" \in Threads
    BY KindNames, FieldNames DEF Tracked
  <1> HIDE DEF p
  <1>4. JobBase(p, j)
    BY <1>2, Epochs, KindNames DEF JobBase
  <1> HIDE DEF j
  <1>5. Quiet(p, Submit(p, "read", j))
    BY <1>2, <1>3, <1>4, SubmitQuiet
  <1>6. Quiet(s, Submit(p, "read", j))
    BY <1>2, <1>5, QuietTrans
  <1>7. Quiet(s, [s EXCEPT !.reads[n].again = TRUE]) /\ Quiet(s, s)
    BY FlagQuiet, QuietSelf
  <1> HIDE DEF p
  <1> QED BY <1>1, <1>6, <1>7

\* A read that is not coalesced, and a request that is not tracked.
LEMMA PlainReadQuiet ==
    ASSUME NEW s, Shaped(s), NEW j, j.do \in {"settings", "apps", "features", "tether", "threads"}
    PROVE  Quiet(s, Read(s, j))
  <1>1. j.do \in KindsOf["read"] \ Tracked /\ "read" \in Threads /\ JobBase(s, j)
    BY KindNames, FieldNames DEF Tracked, JobBase
  <1> QED BY <1>1, SubmitQuiet DEF Read

LEMMA PlainAskQuiet ==
    ASSUME NEW s, Shaped(s), NEW j, j.do \in {"plain", "quick", "mute", "feature", "command", "sync", "act", "unlock"}
    PROVE  Quiet(s, Ask(s, j))
  <1>1. j.do \in KindsOf["request"] \ Tracked /\ "request" \in Threads /\ JobBase(s, j)
    BY KindNames, FieldNames DEF Tracked, JobBase
  <1> QED BY <1>1, SubmitQuiet DEF Ask

LEMMA RefreshSettingsQuiet == ASSUME NEW s, Shaped(s) PROVE Quiet(s, RefreshSettings(s))
  <1>1. Quiet(s, Read(s, [do |-> "settings"]))
    BY PlainReadQuiet
  <1> QED BY <1>1, QuietSelf DEF RefreshSettings

LEMMA RefreshTetherQuiet == ASSUME NEW s, Shaped(s) PROVE Quiet(s, RefreshTether(s))
  <1>1. Quiet(s, Read(s, [do |-> "tether"]))
    BY PlainReadQuiet
  <1> QED BY <1>1, QuietSelf DEF RefreshTether

LEMMA RefreshAllQuiet == ASSUME NEW s, Shaped(s) PROVE Quiet(s, RefreshAll(s))
  <1>1. Quiet(s, RefreshSettings(s)) /\ Shaped(RefreshSettings(s))
    BY RefreshSettingsQuiet, QuietShaped
  <1>2. Quiet(RefreshSettings(s), RefreshTether(RefreshSettings(s)))
    BY <1>1, RefreshTetherQuiet
  <1> QED BY <1>1, <1>2, QuietTrans DEF RefreshAll

LEMMA RecordStatusQuiet == ASSUME NEW s, Shaped(s), NEW st PROVE Quiet(s, RecordStatus(s, st))
  <1> DEFINE t == [s EXCEPT !.available = st.up]
  <1>1. Quiet(s, t) /\ Shaped(t)
    BY OtherField, QuietShaped
  <1>2. RecordStatus(s, st) \in {s, RefreshAll(Refresh(t, "status"))}
    BY DEF RecordStatus
  <1> HIDE DEF t
  <1>3. Quiet(t, Refresh(t, "status")) /\ Shaped(Refresh(t, "status"))
    BY <1>1, RefreshQuiet, QuietShaped, KindNames
  <1>4. Quiet(Refresh(t, "status"), RefreshAll(Refresh(t, "status")))
    BY <1>3, RefreshAllQuiet
  <1>5. Quiet(s, RefreshAll(Refresh(t, "status")))
    BY <1>1, <1>3, <1>4, QuietTrans
  <1> QED BY <1>2, <1>5, QuietSelf

LEMMA AppsLoadQuiet == ASSUME NEW s, Shaped(s) PROVE Quiet(s, AppsLoad(s))
  <1> DEFINE t == [s EXCEPT !.apps.loaded = s.apps.count, !.apps.missed = FALSE]
             u == [s EXCEPT !.apps.missed = TRUE]
  <1>1. /\ t = [s EXCEPT !.apps = [s.apps EXCEPT !.loaded = s.apps.count, !.missed = FALSE]]
        /\ u = [s EXCEPT !.apps = [s.apps EXCEPT !.missed = TRUE]]
    BY FieldNames DEF Shaped
  <1>2. Quiet(s, t) /\ Shaped(t) /\ Quiet(s, u)
    BY <1>1, OtherField, QuietShaped
  <1>3. AppsLoad(s) \in {u, Read(t, [do |-> "apps"])}
    BY DEF AppsLoad
  <1> HIDE DEF t, u
  <1>4. Quiet(t, Read(t, [do |-> "apps"]))
    BY <1>2, PlainReadQuiet
  <1> QED BY <1>2, <1>3, <1>4, QuietTrans

LEMMA AppsApplyQuiet == ASSUME NEW s, Shaped(s), NEW st PROVE Quiet(s, AppsApply(s, st))
  <1> DEFINE t == [s EXCEPT !.apps.shown = st.up, !.apps.count = st.muted]
  <1>1. t = [s EXCEPT !.apps = [s.apps EXCEPT !.shown = st.up, !.count = st.muted]]
    BY FieldNames DEF Shaped
  <1>2. Quiet(s, t) /\ Shaped(t)
    BY <1>1, OtherField, QuietShaped
  <1>3. AppsApply(s, st) \in {t, AppsLoad(t)}
    BY DEF AppsApply, If, Then
  <1> HIDE DEF t
  <1>4. Quiet(t, AppsLoad(t))
    BY <1>2, AppsLoadQuiet
  <1> QED BY <1>2, <1>3, <1>4, QuietTrans

-----------------------------------------------------------------------------
(***************************************************************************)
(* What a part of the invariant is not about does not disturb it.          *)
(***************************************************************************)
LEMMA GrowsEpochs ==
    ASSUME NEW s, NEW t, NEW X, Shaped(s), Grows(s, t, X)
    PROVE  /\ \A n \in Coalesced : /\ s.reads[n].epoch \in Nat /\ t.reads[n].epoch \in Nat
                                   /\ s.reads[n].epoch <= t.reads[n].epoch
           /\ \A j : JobBase(s, j) => JobBase(t, j)
  <1>1. \A n \in Coalesced : /\ s.reads[n].epoch \in Nat /\ t.reads[n].epoch \in Nat
                             /\ s.reads[n].epoch <= t.reads[n].epoch
    BY DEF Grows, Shaped
  <1> QED BY <1>1 DEF JobBase

LEMMA BaseKept ==
    ASSUME NEW s, NEW t, NEW d, NEW X, Base(s, d), Grows(s, t, X), Known(t.card, d), Known(t.last, d)
    PROVE  Base(t, d)
  <1>1. \A j : JobBase(s, j) => JobBase(t, j)
    BY GrowsEpochs DEF Base
  <1> QED BY <1>1 DEF Base, Grows

LEMMA OnceKept ==
    ASSUME NEW s, NEW t, NEW X, NEW n, Grows(s, t, X), Once(s, n),
           n \in Switches => "save" \in X, n = "rule" => "rule" \in X, n \in Switches \cup {"rule"}
    PROVE  Once(t, n)
  <1>1. t.idle = s.idle /\ t.out = s.out /\ "request" \in Threads
    BY FieldNames DEF Grows
  <1>2. ASSUME NEW i \in DOMAIN t.jobs["request"], Owns(t.jobs["request"][i], n)
        PROVE  i \in DOMAIN s.jobs["request"] /\ t.jobs["request"][i] = s.jobs["request"][i]
    <2>1. t.jobs["request"][i].do \in X
      BY <1>2 DEF Owns
    <2> QED BY <1>1, <2>1 DEF Grows
  <1> QED BY <1>1, <1>2 DEF Once

LEMMA SavesKept ==
    ASSUME NEW s, NEW t, NEW X, NEW n, Grows(s, t, X), SavesMatch(s, n), "save" \in X,
           t.choice[n] = s.choice[n]
    PROVE  SavesMatch(t, n)
  BY FieldNames DEF Grows, SavesMatch

LEMMA StaleKept ==
    ASSUME NEW s, NEW t, NEW n, NEW p, NEW v, t.idle = s.idle, t.out = s.out
    PROVE  /\ OneStale(s, n, p, v) => OneStale(t, n, p, v)
           /\ NoStale(s, n, v) => NoStale(t, n, v)
  BY DEF OneStale, NoStale

LEMMA ChoiceKept ==
    ASSUME NEW s, NEW t, NEW d, NEW X, NEW n \in Switches, Choice(s, d, n), Grows(s, t, X),
           "save" \in X, SameSwitches(s, t)
    PROVE  Choice(t, d, n)
  <1>1. SavesMatch(t, n) /\ Once(t, n)
    BY OnceKept, SavesKept, FieldNames DEF Choice, SameSwitches
  <1>2. /\ t.row[n] = s.row[n] /\ t.choice[n] = s.choice[n] /\ t.kept[n] = s.kept[n]
        /\ t.last = s.last /\ (n \in s.dis => n \in t.dis) /\ t.idle = s.idle /\ t.out = s.out
    BY DEF SameSwitches, Grows
  <1>3. s.kept[n] # None => Stands(t, d, n, s.kept[n])
    BY <1>2, StaleKept DEF Choice, Stands
  <1> QED BY <1>1, <1>2, <1>3 DEF Choice

LEMMA RulesKept ==
    ASSUME NEW s, NEW t, NEW d, NEW X, Rules(s, d), Grows(s, t, X), {"rule", "rules"} \subseteq X,
           t.rules = s.rules
    PROVE  Rules(t, d)
  <1>1. Once(t, "rule")
    BY OnceKept, FieldNames DEF Rules
  <1>2. \A h \in Threads : \A i \in DOMAIN t.jobs[h] : JobRules(t, d, t.jobs[h][i])
    <2> SUFFICES ASSUME NEW h \in Threads, NEW i \in DOMAIN t.jobs[h]
                 PROVE  JobRules(t, d, t.jobs[h][i])
      OBVIOUS
    <2>1. CASE i \in DOMAIN s.jobs[h] /\ t.jobs[h][i] = s.jobs[h][i]
      BY <2>1 DEF Rules, JobRules
    <2>2. CASE t.jobs[h][i].do \notin X
      BY <2>2 DEF JobRules
    <2> QED BY <2>1, <2>2 DEF Grows
  <1>3. /\ \A h \in Threads : t.out[h] # None => EntryRules(t, d, t.out[h])
        /\ \A i \in DOMAIN t.idle : EntryRules(t, d, t.idle[i])
    BY DEF Rules, Grows, EntryRules, JobRules
  <1> QED BY <1>1, <1>2, <1>3 DEF Rules

\* An answer that would be shown in t would have been shown in s.
LEMMA FittingKept ==
    ASSUME NEW s, NEW t, NEW d, NEW X, Base(s, d), Grows(s, t, X), t.card.prof = s.card.prof,
           NEW e, JobBase(s, e.job), Fitting(s, e)
    PROVE  Fitting(t, e)
  <1>1. \A n \in Coalesced : /\ s.reads[n].epoch \in Nat /\ t.reads[n].epoch \in Nat
                             /\ s.reads[n].epoch <= t.reads[n].epoch
    BY GrowsEpochs DEF Base
  <1>2. e.job.do \in {"log", "calls"} /\ e.job.epoch = t.reads[e.job.do].epoch
           => e.job.epoch = s.reads[e.job.do].epoch
    BY <1>1, KindNames DEF JobBase
  <1> QED BY <1>2 DEF Fitting

LEMMA ViewsKept ==
    ASSUME NEW s, NEW t, NEW d, NEW X, Base(s, d), Views(s), Grows(s, t, X), SameViews(s, t)
    PROVE  Views(t)
  <1>1. /\ \A i \in DOMAIN s.idle : Fitting(t, s.idle[i])
        /\ s.out["read"] # None => Fitting(t, s.out["read"])
    <2>1. t.card.prof = s.card.prof /\ "read" \in Threads
      BY FieldNames DEF SameViews
    <2> QED BY <2>1, FittingKept DEF Views, Base
  <1>2. Shown(t)
    BY DEF Views, Shown, SameViews, Active, Watched, HistoryAvailable, PrivateDataAvailable
  <1> QED BY <1>1, <1>2 DEF Views, Grows, SameViews

LEMMA QuietGood ==
    ASSUME NEW s, NEW t, NEW d, Good(s, d), Quiet(s, t)
    PROVE  Good(t, d)
  <1>1. Grows(s, t, Tracked) /\ SameSwitches(s, t) /\ t.rules = s.rules /\ SameViews(s, t)
    BY DEF Quiet, Calm
  <1>2. Base(t, d)
    BY <1>1, BaseKept DEF Good, Base, SameSwitches, SameViews
  <1>3. \A n \in Switches : Choice(t, d, n)
    BY <1>1, ChoiceKept DEF Good, Tracked
  <1>4. Rules(t, d)
    BY <1>1, RulesKept DEF Good, Tracked
  <1>5. Views(t)
    BY <1>1, ViewsKept DEF Good
  <1> QED BY <1>2, <1>3, <1>4, <1>5 DEF Good

-----------------------------------------------------------------------------
(***************************************************************************)
(* The other handlers that concern none of them.                           *)
(***************************************************************************)
LEMMA LoadFeaturesQuiet == ASSUME NEW s, Shaped(s) PROVE Quiet(s, LoadFeatures(s))
  <1> DEFINE sets == [s.sets EXCEPT !.rev = @ + 1]
  <1> DEFINE t == [s EXCEPT !.sets = sets]
  <1> DEFINE j == [do |-> "features", rev |-> s.sets.rev + 1]
  <1>1. Quiet(s, t) /\ Shaped(t)
    BY OtherField, QuietShaped
  <1>2. LoadFeatures(s) \in {s, Read(t, j)}
    BY DEF LoadFeatures
  <1> HIDE DEF t
  <1>3. Quiet(t, Read(t, j))
    BY <1>1, PlainReadQuiet
  <1> HIDE DEF j
  <1> QED BY <1>1, <1>2, <1>3, QuietTrans, QuietSelf

LEMMA FeaturesLoadedQuiet ==
    ASSUME NEW s, Shaped(s), NEW j, NEW r PROVE Quiet(s, FeaturesLoaded(s, j, r))
  <1>1. FeaturesLoaded(s, j, r) \in {s, [s EXCEPT !.sets = [s.sets EXCEPT !.items = r.value]]}
    BY DEF FeaturesLoaded
  <1>2. Quiet(s, [s EXCEPT !.sets = [s.sets EXCEPT !.items = r.value]]) /\ Quiet(s, s)
    BY OtherField, QuietSelf
  <1> QED BY <1>1, <1>2

LEMMA FeatureToggledQuiet ==
    ASSUME NEW s, Shaped(s), NEW n PROVE Quiet(s, FeatureToggled(s, n))
  <1> DEFINE v == [s.sets EXCEPT !.rev = @ + 1, !.saving = @ \cup {n},
                                 !.before[n] = s.sets.items[n], !.items[n] = ~@]
  <1> DEFINE t == [s EXCEPT !.sets = v]
  <1> DEFINE j == [do |-> "feature", name |-> n, on |-> ~s.sets.items[n]]
  <1>1. FeatureToggled(s, n) = Ask(t, j)
    BY Zenon DEF FeatureToggled
  <1>2. j.do = "feature"
    OBVIOUS
  <1> HIDE DEF v, j
  <1>3. Quiet(s, t) /\ Shaped(t)
    BY OtherField, QuietShaped
  <1> HIDE DEF t
  <1>4. Quiet(t, Ask(t, j))
    BY <1>2, <1>3, PlainAskQuiet
  <1> QED BY <1>1, <1>3, <1>4, QuietTrans

LEMMA FeatureSavedQuiet ==
    ASSUME NEW s, Shaped(s), NEW j, NEW r PROVE Quiet(s, FeatureSaved(s, j, r))
  <1> DEFINE v == [s.sets EXCEPT !.saving = @ \ {j.name}, !.before[j.name] = None,
                                 !.items[j.name] = IF r.ok THEN @ ELSE s.sets.before[j.name]]
  <1> DEFINE t == [s EXCEPT !.sets = v]
  <1>2. FeatureSaved(s, j, r) = LoadFeatures(t)
    BY Zenon DEF FeatureSaved
  <1> HIDE DEF v
  <1>3. Quiet(s, t) /\ Shaped(t)
    BY OtherField, QuietShaped
  <1> HIDE DEF t
  <1> QED BY <1>2, <1>3, LoadFeaturesQuiet, QuietTrans

LEMMA TetherRequestQuiet == ASSUME NEW s, Shaped(s) PROVE Quiet(s, TetherRequest(s))
  <1> DEFINE t == [s EXCEPT !.tether = [s.tether EXCEPT !.pending = TRUE]]
  <1>1. Quiet(s, t) /\ Shaped(t)
    BY OtherField, QuietShaped
  <1>2. TetherRequest(s) \in {s, Ask(t, [do |-> "command"])}
    BY DEF TetherRequest
  <1> HIDE DEF t
  <1>3. Quiet(t, Ask(t, [do |-> "command"]))
    BY <1>1, PlainAskQuiet
  <1> QED BY <1>1, <1>2, <1>3, QuietTrans, QuietSelf

LEMMA TetherAnsweredQuiet == ASSUME NEW s, Shaped(s), NEW r PROVE Quiet(s, TetherAnswered(s, r))
  <1> DEFINE t == [s EXCEPT !.tether = [s.tether EXCEPT !.pending = FALSE]]
  <1> DEFINE u == [s EXCEPT !.tether = [pending |-> FALSE, shown |-> r.value, failed |-> FALSE]]
  <1>1. Quiet(s, t) /\ Shaped(t) /\ Quiet(s, u)
    BY OtherField, QuietShaped
  <1>2. TetherAnswered(s, r) \in {u, RefreshTether(t)}
    BY DEF TetherAnswered
  <1> HIDE DEF t, u
  <1> QED BY <1>1, <1>2, RefreshTetherQuiet, QuietTrans

LEMMA ReloadThreadsQuiet == ASSUME NEW s, Shaped(s) PROVE Quiet(s, ReloadThreads(s))
  <1> DEFINE t == [s EXCEPT !.threads = [s.threads EXCEPT !.pending = TRUE]]
  <1> DEFINE u == [s EXCEPT !.threads = [s.threads EXCEPT !.again = TRUE]]
  <1>1. Quiet(s, t) /\ Shaped(t) /\ Quiet(s, u)
    BY OtherField, QuietShaped
  <1>2. ReloadThreads(s) \in {u, Read(t, [do |-> "threads"])}
    BY DEF ReloadThreads
  <1> HIDE DEF t, u
  <1>3. Quiet(t, Read(t, [do |-> "threads"]))
    BY <1>1, PlainReadQuiet
  <1> QED BY <1>1, <1>2, <1>3, QuietTrans

LEMMA ThreadsLoadedQuiet == ASSUME NEW s, Shaped(s), NEW r PROVE Quiet(s, ThreadsLoaded(s, r))
  <1> DEFINE t == [s EXCEPT !.threads = [pending |-> FALSE, again |-> FALSE,
                                         rows |-> IF r.ok THEN r.value ELSE s.threads.rows, error |-> ~r.ok]]
  <1>1. Quiet(s, t) /\ Shaped(t)
    BY OtherField, QuietShaped
  <1>2. ThreadsLoaded(s, r) \in {t, ReloadThreads(t)}
    BY FieldNames DEF ThreadsLoaded, If, Then, Shaped
  <1> HIDE DEF t
  <1> QED BY <1>1, <1>2, ReloadThreadsQuiet, QuietTrans

LEMMA MuteAppQuiet == ASSUME NEW s, Shaped(s) PROVE Quiet(s, MuteApp(s))
  <1> DEFINE t == [s EXCEPT !.apps = [s.apps EXCEPT !.saving = TRUE]]
  <1>1. Quiet(s, t) /\ Shaped(t)
    BY OtherField, QuietShaped
  <1> DEFINE j == [do |-> "mute", on |-> ~s.apps.rows.muted]
  <1>2. MuteApp(s) \in {s, Ask(t, j)}
    BY DEF MuteApp
  <1>3. j.do = "mute"
    OBVIOUS
  <1> HIDE DEF t, j
  <1>4. Quiet(t, Ask(t, j))
    BY <1>1, <1>3, PlainAskQuiet
  <1> QED BY <1>1, <1>2, <1>4, QuietTrans, QuietSelf

LEMMA AppMutedQuiet == ASSUME NEW s, Shaped(s), NEW r PROVE Quiet(s, AppMuted(s, r))
  <1> DEFINE row == IF r.ok THEN [s.apps.rows EXCEPT !.muted = r.value] ELSE s.apps.rows
             t == [s EXCEPT !.apps.saving = FALSE, !.apps.rows = row]
  <1>1. t = [s EXCEPT !.apps = t.apps]
    BY FieldNames DEF Shaped
  <1>2. AppMuted(s, r) = AppsLoad(t)
    BY DEF AppMuted
  <1> HIDE DEF t
  <1>3. Quiet(s, [s EXCEPT !.apps = t.apps])
    BY OtherField
  <1>4. Quiet(s, t) /\ Shaped(t)
    BY <1>1, <1>3, QuietShaped
  <1> QED BY <1>2, <1>4, AppsLoadQuiet, QuietTrans

LEMMA QuickApplyQuiet == ASSUME NEW s, Shaped(s) PROVE Quiet(s, QuickApply(s))
  <1>1. QuickApply(s) \in {s, [s EXCEPT !.quick = [s.quick EXCEPT !.shown = s.card.quick]]}
    BY DEF QuickApply
  <1>2. Quiet(s, [s EXCEPT !.quick = [s.quick EXCEPT !.shown = s.card.quick]]) /\ Quiet(s, s)
    BY OtherField, QuietSelf
  <1> QED BY <1>1, <1>2

LEMMA QuickToggleQuiet == ASSUME NEW s, Shaped(s) PROVE Quiet(s, QuickToggle(s))
  <1> DEFINE t == [s EXCEPT !.quick = [shown |-> ~s.quick.shown, saving |-> TRUE]]
  <1> DEFINE j == [do |-> "quick", on |-> ~s.quick.shown]
  <1>1. Quiet(s, t) /\ Shaped(t)
    BY OtherField, QuietShaped
  <1>2. QuickToggle(s) = Ask(t, j) /\ j.do = "quick"
    BY FieldNames DEF QuickToggle, Shaped
  <1> HIDE DEF t, j
  <1>3. Quiet(t, Ask(t, j))
    BY <1>1, <1>2, PlainAskQuiet
  <1> QED BY <1>1, <1>2, <1>3, QuietTrans

LEMMA QuickSavedQuiet == ASSUME NEW s, Shaped(s), NEW r PROVE Quiet(s, QuickSaved(s, r))
  <1> DEFINE t == [s EXCEPT !.quick = [s.quick EXCEPT !.saving = FALSE]]
  <1>1. Quiet(s, t) /\ Shaped(t)
    BY OtherField, QuietShaped
  <1>2. QuickSaved(s, r) \in {t, QuickApply(t)}
    BY DEF QuickSaved, Then
  <1> HIDE DEF t
  <1> QED BY <1>1, <1>2, QuickApplyQuiet, QuietTrans

LEMMA TogglePlainQuiet == ASSUME NEW s, Shaped(s) PROVE Quiet(s, TogglePlain(s))
  <1> DEFINE t == [s EXCEPT !.plain = ~s.plain]
  <1> DEFINE u == [t EXCEPT !.dis = t.dis \cup {"plain"}]
  <1> DEFINE j == [do |-> "plain", on |-> ~s.plain]
  <1>1. Quiet(s, t) /\ Shaped(t)
    BY OtherField, QuietShaped
  <1>2. TogglePlain(s) = Ask(u, j) /\ j.do = "plain"
    BY FieldNames DEF TogglePlain, Shaped
  <1> HIDE DEF t, j
  <1>3. Shaped(u)
    BY <1>1, FieldNames DEF Shaped
  <1>4. /\ u.jobs = t.jobs /\ u.idle = t.idle /\ u.out = t.out /\ u.reads = t.reads
        /\ u.row = t.row /\ u.choice = t.choice /\ u.kept = t.kept /\ u.last = t.last
        /\ t.dis \subseteq u.dis /\ u.rules = t.rules /\ u.shown = t.shown /\ u.tab = t.tab
        /\ u.card = t.card /\ u.media = t.media /\ u.log = t.log /\ u.run = t.run
    BY <1>1, FieldNames DEF Shaped
  <1> HIDE DEF u
  <1>5. Quiet(t, u)
    BY <1>1, <1>3, <1>4, Epochs DEF Quiet, Calm, Grows, SameSwitches, SameViews
  <1>6. Quiet(u, Ask(u, j))
    BY <1>2, <1>3, PlainAskQuiet
  <1> QED BY <1>1, <1>2, <1>5, <1>6, QuietTrans

\* Parts of the log's and the running calls' records that are not private.
LEMMA LogField ==
    ASSUME NEW s, Shaped(s), NEW f \in {"error", "gen", "syncing"}, NEW v
    PROVE  Quiet(s, [s EXCEPT !.log[f] = v])
  <1> DEFINE t == [s EXCEPT !.log[f] = v]
  <1>1. t.log.rows = s.log.rows /\ DOMAIN t.log = DOMAIN s.log
    BY FieldNames DEF Shaped
  <1>2. Shaped(t)
    BY <1>1, FieldNames DEF Shaped
  <1>3. /\ t.jobs = s.jobs /\ t.idle = s.idle /\ t.out = s.out /\ t.reads = s.reads
        /\ t.row = s.row /\ t.choice = s.choice /\ t.kept = s.kept /\ t.last = s.last
        /\ t.dis = s.dis /\ t.rules = s.rules /\ t.shown = s.shown /\ t.tab = s.tab
        /\ t.card = s.card /\ t.media = s.media /\ t.run = s.run
    BY FieldNames DEF Shaped
  <1> HIDE DEF t
  <1>4. Quiet(s, t)
    BY <1>1, <1>2, <1>3, Epochs DEF Quiet, Calm, Grows, SameSwitches, SameViews
  <1> QED BY <1>4 DEF t

LEMMA RunField ==
    ASSUME NEW s, Shaped(s), NEW f \in {"error", "gen", "busy"}, NEW v
    PROVE  Quiet(s, [s EXCEPT !.run[f] = v])
  <1> DEFINE t == [s EXCEPT !.run[f] = v]
  <1>1. t.run.calls = s.run.calls /\ t.run.key = s.run.key /\ DOMAIN t.run = DOMAIN s.run
    BY FieldNames DEF Shaped
  <1>2. Shaped(t)
    BY <1>1, FieldNames DEF Shaped
  <1>3. /\ t.jobs = s.jobs /\ t.idle = s.idle /\ t.out = s.out /\ t.reads = s.reads
        /\ t.row = s.row /\ t.choice = s.choice /\ t.kept = s.kept /\ t.last = s.last
        /\ t.dis = s.dis /\ t.rules = s.rules /\ t.shown = s.shown /\ t.tab = s.tab
        /\ t.card = s.card /\ t.media = s.media /\ t.log = s.log
    BY FieldNames DEF Shaped
  <1> HIDE DEF t
  <1>4. Quiet(s, t)
    BY <1>1, <1>2, <1>3, Epochs DEF Quiet, Calm, Grows, SameSwitches, SameViews
  <1> QED BY <1>4 DEF t

LEMMA SyncQuiet == ASSUME NEW s, Shaped(s) PROVE Quiet(s, Sync(s))
  <1> DEFINE t == [s EXCEPT !.log["syncing"] = TRUE]
  <1> DEFINE j == [do |-> "sync", gen |-> s.log.gen]
  <1>1. Quiet(s, t) /\ Shaped(t)
    BY LogField, QuietShaped
  <1>2. Sync(s) \in {s, Ask(t, j)} /\ j.do = "sync"
    BY DEF Sync
  <1> HIDE DEF t, j
  <1>3. Quiet(t, Ask(t, j))
    BY <1>1, <1>2, PlainAskQuiet
  <1> QED BY <1>1, <1>2, <1>3, QuietTrans, QuietSelf

LEMMA SyncedQuiet == ASSUME NEW s, Shaped(s), NEW j, NEW r PROVE Quiet(s, Synced(s, j, r))
  <1> DEFINE t == [s EXCEPT !.log["syncing"] = FALSE]
  <1> DEFINE u == [t EXCEPT !.log["error"] = t.log["error"] \/ Watched(t)]
  <1>1. Quiet(s, t) /\ Shaped(t)
    BY LogField, QuietShaped
  <1>2. Synced(s, j, r) \in {s, Refresh(t, "log"), u}
    BY DEF Synced, Then
  <1> HIDE DEF t
  <1>3. Quiet(t, u) /\ Quiet(t, Refresh(t, "log"))
    BY <1>1, LogField, RefreshQuiet, KindNames
  <1> HIDE DEF u
  <1> QED BY <1>1, <1>2, <1>3, QuietTrans, QuietSelf

LEMMA ActQuiet == ASSUME NEW s, Shaped(s) PROVE Quiet(s, Act(s))
  <1> DEFINE t == [s EXCEPT !.run["busy"] = TRUE]
  <1> DEFINE j == [do |-> "act", gen |-> s.run.gen]
  <1>1. Quiet(s, t) /\ Shaped(t)
    BY RunField, QuietShaped
  <1>2. Act(s) \in {s, Ask(t, j)} /\ j.do = "act"
    BY DEF Act
  <1> HIDE DEF t, j
  <1>3. Quiet(t, Ask(t, j))
    BY <1>1, <1>2, PlainAskQuiet
  <1> QED BY <1>1, <1>2, <1>3, QuietTrans, QuietSelf

LEMMA ActedQuiet == ASSUME NEW s, Shaped(s), NEW j PROVE Quiet(s, Acted(s, j))
  <1> DEFINE t == [s EXCEPT !.run["busy"] = FALSE]
  <1>1. Quiet(s, t) /\ Shaped(t)
    BY RunField, QuietShaped
  <1>2. Acted(s, j) \in {s, Refresh(t, "calls")}
    BY DEF Acted
  <1> HIDE DEF t
  <1>3. Quiet(t, Refresh(t, "calls"))
    BY <1>1, RefreshQuiet, KindNames
  <1> QED BY <1>1, <1>2, <1>3, QuietTrans, QuietSelf

-----------------------------------------------------------------------------
(***************************************************************************)
(* The views, part by part.                                                *)
(***************************************************************************)
MediaShown(s) == s.media # None => Active(s, "media")
LogShown(s) ==
    s.log.rows # None =>
        Active(s, "log") /\ s.log.rows.prof \in Nat /\ s.card.prof <= s.log.rows.prof
CallsShown(s) ==
    s.run.calls # None =>
        Active(s, "calls") /\ s.run.calls.prof \in Nat /\ s.card.prof <= s.run.calls.prof
Fits(s, n) ==
    /\ s.out["read"] # None /\ s.out["read"].job.do = n => Fitting(s, s.out["read"])
    /\ \A i \in DOMAIN s.idle : s.idle[i].job.do = n => Fitting(s, s.idle[i])
Keyed(s) == s.run.key \in {None, Key(s.card)} /\ s.shown \in BOOLEAN /\ s.tab \in BOOLEAN

LEMMA ViewsParts ==
    ASSUME NEW s
    PROVE  Views(s) <=> /\ MediaShown(s) /\ LogShown(s) /\ CallsShown(s) /\ Keyed(s)
                        /\ Fits(s, "log") /\ Fits(s, "calls")
  <1>1. Shown(s) <=> MediaShown(s) /\ LogShown(s) /\ CallsShown(s)
    BY DEF Shown, MediaShown, LogShown, CallsShown
  <1>2. \A e : e.job.do \notin {"log", "calls"} => Fitting(s, e)
    BY DEF Fitting
  <1> HIDE DEF Fitting
  <1> QED BY <1>1, <1>2 DEF Views, Keyed, Fits

LEMMA FitsKept ==
    ASSUME NEW s, NEW t, NEW d, NEW X, NEW n, Base(s, d), Grows(s, t, X),
           t.card.prof = s.card.prof, Fits(s, n)
    PROVE  Fits(t, n)
  <1>1. t.idle = s.idle /\ t.out = s.out /\ "read" \in Threads
    BY FieldNames DEF Grows
  <1>2. /\ s.out["read"] # None => JobBase(s, s.out["read"].job)
        /\ \A i \in DOMAIN s.idle : JobBase(s, s.idle[i].job)
    BY <1>1 DEF Base
  <1>3. \A e : JobBase(s, e.job) /\ Fitting(s, e) => Fitting(t, e)
    BY FittingKept
  <1> QED BY <1>1, <1>2, <1>3 DEF Fits

\* After a reset, no answer on its way would be shown.
LEMMA FitsGone ==
    ASSUME NEW s, NEW t, NEW d, NEW X, NEW n \in {"log", "calls"}, Base(s, d), Grows(s, t, X),
           t.reads[n].epoch > s.reads[n].epoch
    PROVE  Fits(t, n)
  <1>1. t.idle = s.idle /\ t.out = s.out /\ "read" \in Threads /\ n \in Coalesced
    BY FieldNames, KindNames DEF Grows
  <1>2. /\ s.out["read"] # None => JobBase(s, s.out["read"].job)
        /\ \A i \in DOMAIN s.idle : JobBase(s, s.idle[i].job)
    BY <1>1 DEF Base
  <1>3. s.reads[n].epoch \in Nat /\ t.reads[n].epoch \in Nat
    BY <1>1, GrowsEpochs DEF Base
  <1>4. ASSUME NEW e, JobBase(s, e.job), e.job.do = n
        PROVE  Fitting(t, e)
    BY <1>1, <1>3, <1>4 DEF JobBase, Fitting
  <1> QED BY <1>1, <1>2, <1>4 DEF Fits

LEMMA CardField ==
    ASSUME NEW s, Shaped(s), NEW v
    PROVE  /\ Calm(s, [s EXCEPT !.card = v])
           /\ [s EXCEPT !.card = v].card = v
           /\ \A g \in Fields \ {"card"} : [s EXCEPT !.card = v][g] = s[g]
  <1> DEFINE t == [s EXCEPT !.card = v]
  <1>1. /\ DOMAIN t = Fields /\ t = [g \in Fields |-> t[g]] /\ t.card = v
        /\ \A g \in Fields \ {"card"} : t[g] = s[g]
    BY FieldNames DEF Shaped
  <1> HIDE DEF t
  <1>2. /\ t.jobs = s.jobs /\ t.idle = s.idle /\ t.out = s.out /\ t.reads = s.reads
        /\ t.row = s.row /\ t.choice = s.choice /\ t.kept = s.kept /\ t.last = s.last
        /\ t.dis = s.dis /\ t.rules = s.rules /\ t.log = s.log /\ t.run = s.run
    BY <1>1, FieldNames
  <1>3. Shaped(t)
    BY <1>1, <1>2 DEF Shaped
  <1>4. Calm(s, t)
    BY <1>2, <1>3, Epochs DEF Calm, Grows, SameSwitches
  <1> QED BY <1>1, <1>4 DEF t

LEMMA MediaField ==
    ASSUME NEW s, Shaped(s), NEW v
    PROVE  /\ Calm(s, [s EXCEPT !.media = v])
           /\ [s EXCEPT !.media = v].media = v
           /\ \A g \in Fields \ {"media"} : [s EXCEPT !.media = v][g] = s[g]
  <1> DEFINE t == [s EXCEPT !.media = v]
  <1>1. /\ DOMAIN t = Fields /\ t = [g \in Fields |-> t[g]] /\ t.media = v
        /\ \A g \in Fields \ {"media"} : t[g] = s[g]
    BY FieldNames DEF Shaped
  <1> HIDE DEF t
  <1>2. /\ t.jobs = s.jobs /\ t.idle = s.idle /\ t.out = s.out /\ t.reads = s.reads
        /\ t.row = s.row /\ t.choice = s.choice /\ t.kept = s.kept /\ t.last = s.last
        /\ t.dis = s.dis /\ t.rules = s.rules /\ t.log = s.log /\ t.run = s.run
    BY <1>1, FieldNames
  <1>3. Shaped(t)
    BY <1>1, <1>2 DEF Shaped
  <1>4. Calm(s, t)
    BY <1>2, <1>3, Epochs DEF Calm, Grows, SameSwitches
  <1> QED BY <1>1, <1>4 DEF t

OnPage(s, shown, tab) == [s EXCEPT !.shown = shown, !.tab = tab]

LEMMA PageFields ==
    ASSUME NEW s, Shaped(s), NEW v, NEW b
    PROVE  /\ Calm(s, OnPage(s, v, b)) /\ OnPage(s, v, b).shown = v /\ OnPage(s, v, b).tab = b
           /\ \A g \in Fields \ {"shown", "tab"} : OnPage(s, v, b)[g] = s[g]
  <1> DEFINE t == OnPage(s, v, b)
  <1>1. /\ DOMAIN t = Fields /\ t = [g \in Fields |-> t[g]] /\ t.shown = v /\ t.tab = b
        /\ \A g \in Fields \ {"shown", "tab"} : t[g] = s[g]
    BY FieldNames DEF Shaped, OnPage
  <1> HIDE DEF t
  <1>2. /\ t.jobs = s.jobs /\ t.idle = s.idle /\ t.out = s.out /\ t.reads = s.reads
        /\ t.row = s.row /\ t.choice = s.choice /\ t.kept = s.kept /\ t.last = s.last
        /\ t.dis = s.dis /\ t.rules = s.rules /\ t.log = s.log /\ t.run = s.run
    BY <1>1, FieldNames
  <1>3. Shaped(t)
    BY <1>1, <1>2 DEF Shaped
  <1>4. Calm(s, t)
    BY <1>2, <1>3, Epochs DEF Calm, Grows, SameSwitches
  <1> QED BY <1>1, <1>4 DEF t

LEMMA LogRecord ==
    ASSUME NEW s, Shaped(s), NEW v, DOMAIN v = {"rows", "error", "gen", "syncing"}
    PROVE  /\ Calm(s, [s EXCEPT !.log = v])
           /\ [s EXCEPT !.log = v].log = v
           /\ \A g \in Fields \ {"log"} : [s EXCEPT !.log = v][g] = s[g]
  <1> DEFINE t == [s EXCEPT !.log = v]
  <1>1. /\ DOMAIN t = Fields /\ t = [g \in Fields |-> t[g]] /\ t.log = v
        /\ \A g \in Fields \ {"log"} : t[g] = s[g]
    BY FieldNames DEF Shaped
  <1> HIDE DEF t
  <1>2. /\ t.jobs = s.jobs /\ t.idle = s.idle /\ t.out = s.out /\ t.reads = s.reads
        /\ t.row = s.row /\ t.choice = s.choice /\ t.kept = s.kept /\ t.last = s.last
        /\ t.dis = s.dis /\ t.rules = s.rules /\ t.run = s.run
    BY <1>1, FieldNames
  <1>3. Shaped(t)
    BY <1>1, <1>2 DEF Shaped
  <1>4. Calm(s, t)
    BY <1>2, <1>3, Epochs DEF Calm, Grows, SameSwitches
  <1> QED BY <1>1, <1>4 DEF t

LEMMA RunRecord ==
    ASSUME NEW s, Shaped(s), NEW v, DOMAIN v = {"key", "calls", "error", "gen", "busy"}
    PROVE  /\ Calm(s, [s EXCEPT !.run = v])
           /\ [s EXCEPT !.run = v].run = v
           /\ \A g \in Fields \ {"run"} : [s EXCEPT !.run = v][g] = s[g]
  <1> DEFINE t == [s EXCEPT !.run = v]
  <1>1. /\ DOMAIN t = Fields /\ t = [g \in Fields |-> t[g]] /\ t.run = v
        /\ \A g \in Fields \ {"run"} : t[g] = s[g]
    BY FieldNames DEF Shaped
  <1> HIDE DEF t
  <1>2. /\ t.jobs = s.jobs /\ t.idle = s.idle /\ t.out = s.out /\ t.reads = s.reads
        /\ t.row = s.row /\ t.choice = s.choice /\ t.kept = s.kept /\ t.last = s.last
        /\ t.dis = s.dis /\ t.rules = s.rules /\ t.log = s.log
    BY <1>1, FieldNames
  <1>3. Shaped(t)
    BY <1>1, <1>2 DEF Shaped
  <1>4. Calm(s, t)
    BY <1>2, <1>3, Epochs DEF Calm, Grows, SameSwitches
  <1> QED BY <1>1, <1>4 DEF t

LEMMA CalmShaped == ASSUME NEW s, NEW t, Calm(s, t) PROVE Shaped(t)
  BY DEF Calm, Grows

LEMMA QuietCalm == ASSUME NEW s, NEW t, Quiet(s, t) PROVE Calm(s, t) /\ SameViews(s, t)
  BY DEF Quiet

LEMMA ForgetRunningCalm ==
    ASSUME NEW s, Shaped(s)
    PROVE  /\ Calm(s, ForgetRunning(s))
           /\ ForgetRunning(s).shown = s.shown /\ ForgetRunning(s).tab = s.tab
           /\ ForgetRunning(s).card = s.card /\ ForgetRunning(s).media = s.media
           /\ ForgetRunning(s).log = s.log
           /\ ForgetRunning(s).run.calls = None /\ ForgetRunning(s).run.key = s.run.key
           /\ ForgetRunning(s).reads["calls"].epoch > s.reads["calls"].epoch
  <1> DEFINE run == [s.run EXCEPT !.gen = @ + 1, !.busy = FALSE, !.calls = None, !.error = FALSE]
  <1> DEFINE t == [s EXCEPT !.run = run]
  <1>1. ForgetRunning(s) = Reset(t, "calls")
    BY DEF ForgetRunning
  <1>2. run.calls = None /\ run.key = s.run.key /\ DOMAIN run = {"key", "calls", "error", "gen", "busy"}
    BY DEF Shaped
  <1> HIDE DEF run
  <1>3. Calm(s, t) /\ t.run = run /\ \A g \in Fields \ {"run"} : t[g] = s[g]
    BY <1>2, RunRecord
  <1> HIDE DEF t
  <1>4. t.shown = s.shown /\ t.tab = s.tab /\ t.card = s.card /\ t.media = s.media /\ t.log = s.log
        /\ t.reads = s.reads
    BY <1>3, FieldNames
  <1>5. Shaped(t) /\ "calls" \in Coalesced
    BY <1>3, CalmShaped, KindNames
  <1> DEFINE u == Reset(t, "calls")
  <1>6. Quiet(t, u) /\ u.reads["calls"].epoch = t.reads["calls"].epoch + 1
    BY <1>5, ResetQuiet
  <1>7. u.log = t.log
    BY <1>5, FieldNames DEF Reset, Shaped
  <1> HIDE DEF u
  <1>8. Calm(s, u) /\ SameViews(t, u)
    BY <1>3, <1>6, CalmTrans, QuietCalm
  <1>9. s.reads["calls"].epoch \in Nat
    BY <1>5, Epochs
  <1>10. u.reads["calls"].epoch > s.reads["calls"].epoch
    BY <1>4, <1>6, <1>9
  <1> QED BY <1>1, <1>2, <1>3, <1>4, <1>7, <1>8, <1>10 DEF SameViews, u

LEMMA ForgetCallsCalm ==
    ASSUME NEW s, Shaped(s)
    PROVE  /\ Calm(s, ForgetCalls(s))
           /\ ForgetCalls(s).shown = s.shown /\ ForgetCalls(s).tab = s.tab
           /\ ForgetCalls(s).card = s.card /\ ForgetCalls(s).media = s.media
           /\ ForgetCalls(s).run = s.run
           /\ ForgetCalls(s).log.rows = None
           /\ ForgetCalls(s).reads["log"].epoch > s.reads["log"].epoch
  <1> DEFINE log == [rows |-> None, error |-> FALSE, gen |-> s.log.gen + 1, syncing |-> FALSE]
  <1> DEFINE t == [s EXCEPT !.log = log]
  <1>1. ForgetCalls(s) = Reset(t, "log")
    BY DEF ForgetCalls
  <1>2. log.rows = None /\ DOMAIN log = {"rows", "error", "gen", "syncing"}
    OBVIOUS
  <1> HIDE DEF log
  <1>3. Calm(s, t) /\ t.log = log /\ \A g \in Fields \ {"log"} : t[g] = s[g]
    BY <1>2, LogRecord
  <1> HIDE DEF t
  <1>4. t.shown = s.shown /\ t.tab = s.tab /\ t.card = s.card /\ t.media = s.media /\ t.run = s.run
        /\ t.reads = s.reads
    BY <1>3, FieldNames
  <1>5. Shaped(t) /\ "log" \in Coalesced
    BY <1>3, CalmShaped, KindNames
  <1> DEFINE u == Reset(t, "log")
  <1>6. Quiet(t, u) /\ u.reads["log"].epoch = t.reads["log"].epoch + 1
    BY <1>5, ResetQuiet
  <1>7. u.run = t.run
    BY <1>5, FieldNames DEF Reset, Shaped
  <1> HIDE DEF u
  <1>8. Calm(s, u) /\ SameViews(t, u)
    BY <1>3, <1>6, CalmTrans, QuietCalm
  <1>9. s.reads["log"].epoch \in Nat
    BY <1>5, Epochs
  <1>10. u.reads["log"].epoch > s.reads["log"].epoch
    BY <1>4, <1>6, <1>9
  <1> QED BY <1>1, <1>2, <1>3, <1>4, <1>7, <1>8, <1>10 DEF SameViews, u

LEMMA RunningStatusCalm ==
    ASSUME NEW s, Shaped(s)
    PROVE  LET x == RunningStatus(s)
           IN  /\ Calm(s, x)
               /\ x.shown = s.shown /\ x.tab = s.tab /\ x.card = s.card /\ x.media = s.media
               /\ x.log.rows = s.log.rows
               /\ \/ x = s /\ s.run.key = Key(s.card)
                  \/ /\ x.run.key = Key(s.card) /\ x.run.calls = None
                     /\ x.reads["calls"].epoch > s.reads["calls"].epoch
  <1> DEFINE run == [s.run EXCEPT !.key = Key(s.card)]
  <1> DEFINE t == [s EXCEPT !.run = run]
  <1> DEFINE u == ForgetRunning(t)
  <1> DEFINE v == Refresh(u, "calls")
  <1>1. \/ RunningStatus(s) = s /\ s.run.key = Key(s.card)
        \/ RunningStatus(s) = v
    BY DEF RunningStatus, Key
  <1>2. DOMAIN run = {"key", "calls", "error", "gen", "busy"} /\ run.key = Key(s.card)
    BY DEF Shaped
  <1> HIDE DEF run
  <1>3. Calm(s, t) /\ t.run = run /\ \A g \in Fields \ {"run"} : t[g] = s[g]
    BY <1>2, RunRecord
  <1> HIDE DEF t
  <1>4. /\ t.shown = s.shown /\ t.tab = s.tab /\ t.card = s.card /\ t.media = s.media /\ t.log = s.log
        /\ t.reads = s.reads
    BY <1>3, FieldNames
  <1>5. Shaped(t)
    BY <1>3, CalmShaped
  <1>6. /\ Calm(t, u) /\ u.shown = t.shown /\ u.tab = t.tab /\ u.card = t.card /\ u.media = t.media
        /\ u.log = t.log /\ u.run.calls = None /\ u.run.key = t.run.key
        /\ u.reads["calls"].epoch > t.reads["calls"].epoch
    BY <1>5, ForgetRunningCalm
  <1> HIDE DEF u
  <1>7. Shaped(u) /\ "calls" \in Coalesced
    BY <1>6, CalmShaped, KindNames
  <1>8. Calm(u, v) /\ SameViews(u, v)
    BY <1>7, RefreshQuiet, QuietCalm
  <1> HIDE DEF v
  <1>9. Calm(s, v)
    BY <1>3, <1>5, <1>6, <1>7, <1>8, CalmTrans
  <1>10. v.reads["calls"].epoch > s.reads["calls"].epoch
    <2>1. u.reads["calls"].epoch <= v.reads["calls"].epoch /\ Shaped(v)
      BY <1>7, <1>8 DEF Calm, Grows
    <2>2. /\ s.reads["calls"].epoch \in Nat /\ u.reads["calls"].epoch \in Nat
          /\ v.reads["calls"].epoch \in Nat
      BY <1>7, <2>1, Epochs
    <2> QED BY <1>4, <1>6, <2>1, <2>2
  <1>11. Calm(s, s)
    BY CalmSelf
  <1> QED BY <1>1, <1>2, <1>3, <1>4, <1>6, <1>8, <1>9, <1>10, <1>11 DEF SameViews

\* What the card says changes: what was read under other terms goes.
LEMMA StatusLoadedViews ==
    ASSUME NoneIsNew, NEW s, NEW d, NEW st, Base(s, d), Views(s), Known(st, d)
    PROVE  LET y == StatusLoaded(s, st) IN Calm(s, y) /\ y.card = st /\ Views(y)
  <1> DEFINE t == [s EXCEPT !.card = st]
  <1> DEFINE m == [t EXCEPT !.media = None]
  <1> DEFINE u == IF s.card.on # st.on THEN Reset(m, "media") ELSE t
  <1> DEFINE v == Refresh(QuickApply(u), "media")
  <1> DEFINE changed == Access(s.card) # Access(v.card) \/ s.card.on # v.card.on
  <1> DEFINE w == IF changed THEN ForgetCalls(v) ELSE v
  <1> DEFINE x == RunningStatus(w)
  <1> DEFINE y == IF changed THEN Refresh(x, "log") ELSE x
  <1>1. StatusLoaded(s, st) = y
    BY DEF StatusLoaded, CallsStatus, Then, If
  <1>2. Shaped(s) /\ {"media", "log", "calls"} \subseteq Coalesced
    BY KindNames DEF Base
  <1>3. Calm(s, t) /\ t.card = st /\ \A g \in Fields \ {"card"} : t[g] = s[g]
    BY <1>2, CardField
  <1> HIDE DEF t
  <1>4. /\ t.shown = s.shown /\ t.tab = s.tab /\ t.media = s.media /\ t.log = s.log /\ t.run = s.run
        /\ Shaped(t)
    BY <1>3, FieldNames, CalmShaped
  <1>5. Calm(t, m) /\ m.media = None /\ \A g \in Fields \ {"media"} : m[g] = t[g]
    BY <1>4, MediaField
  <1> HIDE DEF m
  <1>6. /\ m.shown = t.shown /\ m.tab = t.tab /\ m.card = t.card /\ m.log = t.log /\ m.run = t.run
        /\ Shaped(m)
    BY <1>5, FieldNames, CalmShaped
  <1>7. Calm(m, Reset(m, "media")) /\ SameViews(m, Reset(m, "media"))
    BY <1>2, <1>6, ResetQuiet, QuietCalm
  <1>8. Calm(t, Reset(m, "media")) /\ Calm(t, t)
    BY <1>4, <1>5, <1>7, CalmTrans, CalmSelf
  <1>9. /\ Calm(t, u) /\ u.shown = s.shown /\ u.tab = s.tab /\ u.card = st
        /\ u.log.rows = s.log.rows /\ u.run.calls = s.run.calls /\ u.run.key = s.run.key
        /\ u.media # None => u.media = s.media /\ s.card.on = st.on
    BY <1>3, <1>4, <1>5, <1>6, <1>7, <1>8 DEF SameViews
  <1> HIDE DEF u
  <1>10. Quiet(u, v)
    <2>1. Quiet(u, QuickApply(u)) /\ Shaped(u) /\ Shaped(QuickApply(u))
      BY <1>9, CalmShaped, QuickApplyQuiet, QuietShaped
    <2>2. Quiet(QuickApply(u), v)
      BY <1>2, <2>1, RefreshQuiet
    <2> QED BY <2>1, <2>2, QuietTrans
  <1> HIDE DEF v
  <1>11. /\ Calm(s, v) /\ Shaped(v) /\ v.shown = s.shown /\ v.tab = s.tab /\ v.card = st
         /\ v.log.rows = s.log.rows /\ v.run.calls = s.run.calls /\ v.run.key = s.run.key
         /\ v.media # None => v.media = s.media /\ s.card.on = st.on
    <2>1. Calm(u, v) /\ SameViews(u, v)
      BY <1>10, QuietCalm
    <2>2. Calm(s, v)
      BY <1>2, <1>3, <1>4, <1>9, <2>1, CalmTrans, CalmShaped
    <2> QED BY <1>9, <2>1, <2>2, CalmShaped DEF SameViews
  <1>12. /\ Calm(v, w) /\ w.shown = v.shown /\ w.tab = v.tab /\ w.card = v.card /\ w.media = v.media
         /\ w.run = v.run /\ (~changed => w = v)
         /\ changed => w.log.rows = None /\ w.reads["log"].epoch > v.reads["log"].epoch
    BY <1>11, ForgetCallsCalm, CalmSelf
  <1>13. changed <=> Access(s.card) # Access(st) \/ s.card.on # st.on
    BY <1>11
  <1> HIDE DEF w, changed
  <1>14. Shaped(w) /\ Calm(s, w)
    BY <1>2, <1>11, <1>12, CalmTrans, CalmShaped
  <1>15. /\ Calm(w, x)
         /\ x.shown = w.shown /\ x.tab = w.tab /\ x.card = w.card /\ x.media = w.media
         /\ x.log.rows = w.log.rows
         /\ \/ x = w /\ w.run.key = Key(w.card)
            \/ /\ x.run.key = Key(w.card) /\ x.run.calls = None
               /\ x.reads["calls"].epoch > w.reads["calls"].epoch
    BY <1>14, RunningStatusCalm
  <1> HIDE DEF x
  <1>16. Shaped(x) /\ Calm(s, x)
    BY <1>2, <1>14, <1>15, CalmTrans, CalmShaped
  <1>17. Calm(x, y) /\ SameViews(x, y)
    <2>1. Quiet(x, Refresh(x, "log")) /\ Quiet(x, x)
      BY <1>2, <1>16, RefreshQuiet, QuietSelf
    <2> QED BY <2>1, QuietCalm
  <1> HIDE DEF y
  <1>18. /\ Calm(s, y) /\ y.card = st /\ y.shown = s.shown /\ y.tab = s.tab
         /\ y.media # None => y.media = s.media /\ s.card.on = st.on
         /\ y.run.calls = x.run.calls /\ y.run.key = x.run.key /\ y.log.rows = w.log.rows
    BY <1>2, <1>11, <1>12, <1>15, <1>16, <1>17, CalmTrans DEF SameViews
  <1>19. Grows(s, y, Tracked) /\ Grows(s, w, Tracked) /\ Grows(w, y, Tracked)
    <2>1. Calm(w, y)
      BY <1>14, <1>15, <1>16, <1>17, CalmTrans
    <2> QED BY <1>14, <1>18, <2>1 DEF Calm
  <1>20. MediaShown(s) /\ LogShown(s) /\ CallsShown(s) /\ Keyed(s) /\ Fits(s, "log") /\ Fits(s, "calls")
    BY ViewsParts
  <1>21. MediaShown(y)
    BY <1>18, <1>20 DEF MediaShown, Active
  <1>22. LogShown(y) /\ Fits(y, "log")
    <2>1. CASE changed
      <3>1. y.log.rows = None
        BY <1>12, <1>18, <2>1
      <3>2. y.reads["log"].epoch > s.reads["log"].epoch
        <4>1. /\ \A n \in Coalesced : /\ s.reads[n].epoch \in Nat /\ v.reads[n].epoch \in Nat
                                      /\ w.reads[n].epoch \in Nat /\ y.reads[n].epoch \in Nat
                                      /\ s.reads[n].epoch <= v.reads[n].epoch
                                      /\ w.reads[n].epoch <= y.reads[n].epoch
          <5>1. Grows(s, v, Tracked) /\ Shaped(s) /\ Shaped(w)
            BY <1>2, <1>11, <1>14 DEF Calm
          <5> QED BY <1>19, <5>1, GrowsEpochs
        <4>2. w.reads["log"].epoch > v.reads["log"].epoch /\ "log" \in Coalesced
          BY <1>2, <1>12, <2>1
        <4> QED BY <4>1, <4>2
      <3>3. Fits(y, "log")
        BY <1>19, <3>2, FitsGone
      <3> QED BY <3>1, <3>3 DEF LogShown
    <2>2. CASE ~changed
      <3>1. /\ st.up = s.card.up /\ st.open = s.card.open /\ st.prof = s.card.prof
            /\ st.on = s.card.on /\ y.log.rows = s.log.rows
        BY <1>11, <1>12, <1>13, <1>18, <2>2 DEF Access
      <3>2. Fits(y, "log")
        BY <1>18, <1>19, <1>20, <3>1, FitsKept
      <3>3. LogShown(y)
        BY <1>18, <1>20, <3>1 DEF LogShown, Active, Watched, HistoryAvailable, PrivateDataAvailable
      <3> QED BY <3>2, <3>3
    <2> QED BY <2>1, <2>2
  <1>23. CallsShown(y) /\ Keyed(y) /\ Fits(y, "calls")
    <2>1. CASE x = w /\ w.run.key = Key(w.card)
      <3>1. s.run.key = Key(st) /\ y.run.calls = s.run.calls /\ y.run.key = Key(st)
        BY <1>11, <1>12, <1>18, <2>1
      <3>2. Key(st) # None
        BY DEF Key, Known, NoneIsNew
      <3>3. Key(st) = Key(s.card)
        BY <1>20, <3>1, <3>2 DEF Keyed
      <3>4. st.up = s.card.up /\ st.on = s.card.on /\ st.prof = s.card.prof
        BY <3>3 DEF Key
      <3>5. Fits(y, "calls")
        BY <1>18, <1>19, <1>20, <3>4, FitsKept
      <3>6. CallsShown(y)
        BY <1>18, <1>20, <3>1, <3>4 DEF CallsShown, Active
      <3> QED BY <1>18, <1>20, <3>1, <3>5, <3>6 DEF Keyed
    <2>2. CASE /\ x.run.key = Key(w.card) /\ x.run.calls = None
               /\ x.reads["calls"].epoch > w.reads["calls"].epoch
      <3>1. y.reads["calls"].epoch > s.reads["calls"].epoch
        <4>1. \A n \in Coalesced : /\ s.reads[n].epoch \in Nat /\ w.reads[n].epoch \in Nat
                                   /\ x.reads[n].epoch \in Nat /\ y.reads[n].epoch \in Nat
                                   /\ s.reads[n].epoch <= w.reads[n].epoch
                                   /\ x.reads[n].epoch <= y.reads[n].epoch
          <5>1. Grows(x, y, Tracked) /\ Shaped(s) /\ Shaped(x)
            BY <1>2, <1>16, <1>17 DEF Calm
          <5> QED BY <1>19, <5>1, GrowsEpochs
        <4>2. "calls" \in Coalesced
          BY <1>2
        <4> QED BY <2>2, <4>1, <4>2
      <3>2. Fits(y, "calls")
        BY <1>19, <3>1, FitsGone
      <3> QED BY <1>11, <1>12, <1>18, <1>20, <2>2, <3>2 DEF CallsShown, Keyed
    <2> QED BY <1>15, <2>1, <2>2
  <1>24. Views(y)
    BY <1>21, <1>22, <1>23, ViewsParts
  <1> QED BY <1>1, <1>18, <1>24

LEMMA WatchCardCalm ==
    ASSUME NEW s, Shaped(s)
    PROVE  LET y == WatchCard(s)
           IN  /\ Calm(s, y)
               /\ y.shown = s.shown /\ y.tab = s.tab /\ y.card = s.card /\ y.log.rows = s.log.rows
               /\ y.run.calls = s.run.calls /\ y.run.key = s.run.key
               /\ s.shown => y.media = s.media
               /\ ~s.shown => y.media = None
  <1> DEFINE a == Reset(Reset(s, "status"), "media")
  <1> DEFINE b == Refresh(Refresh(a, "status"), "media")
  <1> DEFINE c == [a EXCEPT !.media = None]
  <1>1. WatchCard(s) = IF a.shown THEN b ELSE c
    BY DEF WatchCard, Then
  <1>2. {"status", "media"} \subseteq Coalesced
    BY KindNames
  <1>3. Quiet(s, a) /\ Shaped(a)
    <2>1. Quiet(s, Reset(s, "status")) /\ Shaped(Reset(s, "status"))
      BY <1>2, ResetQuiet, QuietShaped
    <2>2. Quiet(Reset(s, "status"), a)
      BY <1>2, <2>1, ResetQuiet
    <2> QED BY <2>1, <2>2, QuietTrans, QuietShaped
  <1> HIDE DEF a
  <1>4. Quiet(s, b)
    <2>1. Quiet(a, Refresh(a, "status")) /\ Shaped(Refresh(a, "status"))
      BY <1>2, <1>3, RefreshQuiet, QuietShaped
    <2>2. Quiet(Refresh(a, "status"), b)
      BY <1>2, <2>1, RefreshQuiet
    <2> QED BY <1>3, <2>1, <2>2, QuietTrans
  <1> HIDE DEF b
  <1>5. Calm(a, c) /\ c.media = None /\ \A g \in Fields \ {"media"} : c[g] = a[g]
    BY <1>3, MediaField
  <1> HIDE DEF c
  <1>6. c.shown = a.shown /\ c.tab = a.tab /\ c.card = a.card /\ c.log = a.log /\ c.run = a.run
    BY <1>5, FieldNames
  <1>7. Calm(s, a) /\ SameViews(s, a) /\ Calm(s, b) /\ SameViews(s, b)
    BY <1>3, <1>4, QuietCalm
  <1>8. Calm(s, c)
    BY <1>3, <1>5, <1>7, CalmTrans
  <1> QED BY <1>1, <1>5, <1>6, <1>7, <1>8 DEF SameViews

LEMMA SetShownCalm ==
    ASSUME NEW s, Shaped(s)
    PROVE  LET y == SetShown(s)
           IN  /\ Calm(s, y)
               /\ y.shown = s.shown /\ y.tab = s.tab /\ y.card = s.card /\ y.log.rows = s.log.rows
               /\ y.media = s.media /\ y.run.key = s.run.key
               /\ s.shown => y.run.calls = s.run.calls
               /\ ~s.shown => y.run.calls = None /\ y.reads["calls"].epoch > s.reads["calls"].epoch
  <1>1. Quiet(s, Refresh(s, "calls"))
    BY RefreshQuiet, KindNames
  <1>2. Calm(s, Refresh(s, "calls")) /\ SameViews(s, Refresh(s, "calls"))
    BY <1>1, QuietCalm
  <1> QED BY <1>2, ForgetRunningCalm DEF SetShown, SameViews

\* A view that is hidden forgets what it showed, and the answers to come.
LEMMA SyncWatchesViews ==
    ASSUME NEW s, NEW d, NEW shown \in BOOLEAN, NEW tab \in BOOLEAN, Base(s, d), Views(s)
    PROVE  LET y == SyncWatches(s, shown, tab) IN Calm(s, y) /\ y.card = s.card /\ Views(y)
  <1> DEFINE t == OnPage(s, shown, tab)
  <1> DEFINE b == WatchCard(t)
  <1> DEFINE c == SetShown(b)
  <1> DEFINE u == IF shown # s.shown THEN c ELSE t
  <1> DEFINE other == Watched(u) # Watched(s)
  <1> DEFINE y == IF other THEN IF Watched(u) THEN Refresh(u, "log") ELSE ForgetCalls(u) ELSE u
  <1>1. SyncWatches(s, shown, tab) = y
    BY DEF SyncWatches, WatchCalls, Then, If, OnPage
  <1>2. Shaped(s) /\ "log" \in Coalesced /\ "calls" \in Coalesced
    BY KindNames DEF Base
  <1>3. Calm(s, t) /\ t.shown = shown /\ t.tab = tab /\ \A g \in Fields \ {"shown", "tab"} : t[g] = s[g]
    BY <1>2, PageFields
  <1> HIDE DEF t
  <1>4. /\ t.card = s.card /\ t.media = s.media /\ t.log = s.log /\ t.run = s.run /\ t.reads = s.reads
        /\ Shaped(t)
    BY <1>3, FieldNames, CalmShaped
  <1>5. /\ Calm(t, b) /\ b.shown = shown /\ b.tab = tab /\ b.card = s.card /\ b.log.rows = s.log.rows
        /\ b.run.calls = s.run.calls /\ b.run.key = s.run.key
        /\ shown => b.media = s.media
        /\ ~shown => b.media = None
    BY <1>3, <1>4, WatchCardCalm
  <1> HIDE DEF b
  <1>6. Shaped(b) /\ Calm(s, b)
    BY <1>2, <1>3, <1>4, <1>5, CalmTrans, CalmShaped
  <1>7. /\ Calm(b, c) /\ c.shown = shown /\ c.tab = tab /\ c.card = s.card /\ c.log.rows = s.log.rows
        /\ c.media = b.media /\ c.run.key = s.run.key
        /\ shown => c.run.calls = s.run.calls
        /\ ~shown => c.run.calls = None /\ c.reads["calls"].epoch > b.reads["calls"].epoch
    BY <1>5, <1>6, SetShownCalm
  <1> HIDE DEF c
  <1>8. Shaped(c) /\ Calm(s, c)
    BY <1>2, <1>6, <1>7, CalmTrans, CalmShaped
  <1>9. /\ Calm(s, u) /\ Shaped(u) /\ u.shown = shown /\ u.tab = tab /\ u.card = s.card
        /\ u.log.rows = s.log.rows /\ u.run.key = s.run.key
    BY <1>3, <1>4, <1>7, <1>8
  <1>10. MediaShown(s) /\ LogShown(s) /\ CallsShown(s) /\ Keyed(s) /\ Fits(s, "log") /\ Fits(s, "calls")
    BY ViewsParts
  <1>11. u.media # None => u.media = s.media /\ shown = s.shown
    BY <1>4, <1>5, <1>7, <1>10 DEF MediaShown, Active, Keyed
  <1>12. u.run.calls # None => u.run.calls = s.run.calls /\ shown = s.shown
    BY <1>4, <1>7, <1>10 DEF CallsShown, Active, Keyed
  <1> HIDE DEF u
  <1>13. /\ Calm(u, y) /\ y.shown = shown /\ y.tab = tab /\ y.card = s.card /\ y.media = u.media
         /\ y.run.calls = u.run.calls /\ y.run.key = s.run.key
         /\ \/ y.log.rows = s.log.rows /\ Watched(u) = Watched(s)
            \/ y.log.rows = s.log.rows /\ ~Watched(s)
            \/ y.log.rows = None
    <2>1. Quiet(u, Refresh(u, "log")) /\ Calm(u, u)
      BY <1>2, <1>9, RefreshQuiet, CalmSelf
    <2>2. Calm(u, Refresh(u, "log")) /\ SameViews(u, Refresh(u, "log"))
      BY <2>1, QuietCalm
    <2>3. Watched(u) \in BOOLEAN /\ Watched(s) \in BOOLEAN
      BY <1>9, <1>10 DEF Watched, Keyed
    <2>4. CASE ~other
      BY <1>9, <2>1, <2>4
    <2>5. CASE other /\ Watched(u)
      BY <1>9, <2>2, <2>3, <2>5 DEF SameViews
    <2>6. CASE other /\ ~Watched(u)
      BY <1>9, <2>6, ForgetCallsCalm
    <2> QED BY <2>4, <2>5, <2>6
  <1> HIDE DEF y
  <1>14. Calm(s, y)
    BY <1>2, <1>9, <1>13, CalmTrans
  <1>15. Grows(s, y, Tracked)
    BY <1>14 DEF Calm
  <1>16. Fits(y, "log") /\ Fits(y, "calls")
    BY <1>10, <1>13, <1>15, FitsKept
  <1>17. MediaShown(y) /\ CallsShown(y) /\ Keyed(y)
    BY <1>10, <1>11, <1>12, <1>13 DEF MediaShown, CallsShown, Keyed, Active
  <1>18. LogShown(y)
    <2>1. CASE y.log.rows = None
      BY <2>1 DEF LogShown
    <2>2. CASE y.log.rows = s.log.rows /\ Watched(u) = Watched(s)
      <3>1. Watched(y) = Watched(s)
        BY <1>9, <1>13, <2>2 DEF Watched
      <3> QED BY <1>10, <1>13, <2>2, <3>1 DEF LogShown, Active, HistoryAvailable, PrivateDataAvailable
    <2>3. CASE y.log.rows = s.log.rows /\ ~Watched(s)
      BY <1>10, <2>3 DEF LogShown, Active
    <2> QED BY <1>13, <2>1, <2>2, <2>3
  <1>19. Views(y)
    BY <1>16, <1>17, <1>18, ViewsParts
  <1> QED BY <1>1, <1>13, <1>14, <1>19

LEMMA UnreachableKnown == ASSUME NEW d, Daemon(d) PROVE Known(Unreachable, d) /\ ~Unreachable.up
  <1>1. Unreachable.up = FALSE /\ Unreachable.on = FALSE /\ Unreachable.prof = 0
        /\ Unreachable.sw = [n \in Switches |-> FALSE]
    BY DEF Unreachable
  <1>2. d.st.prof \in Nat /\ 0 <= d.st.prof
    BY DEF Daemon, Known
  <1>3. [n \in Switches |-> FALSE] \in [Switches -> BOOLEAN]
    OBVIOUS
  <1>4. ASSUME NEW st, st.up = FALSE, st.on = FALSE, st.prof = 0, st.sw \in [Switches -> BOOLEAN]
        PROVE  Known(st, d)
    <2>1. st.up \in BOOLEAN /\ st.on \in BOOLEAN
      BY <1>4
    <2>2. st.prof \in Nat /\ st.prof <= d.st.prof
      BY <1>2, <1>4
    <2>3. ~st.up
      BY <1>4
    <2> QED BY <1>4, <2>1, <2>2, <2>3, Zenon DEF Known
  <1>5. Known(Unreachable, d)
    BY <1>1, <1>3, <1>4
  <1> QED BY <1>1, <1>5

LEMMA LoadedMedia ==
    ASSUME NEW s, NEW d, NEW v, Base(s, d), Views(s), Active(s, "media")
    PROVE  LET y == [s EXCEPT !.media = v] IN Calm(s, y) /\ y.card = s.card /\ Views(y)
  <1> DEFINE y == [s EXCEPT !.media = v]
  <1>1. Calm(s, y) /\ y.media = v /\ \A g \in Fields \ {"media"} : y[g] = s[g]
    <2>1. Shaped(s)
      BY DEF Base
    <2> QED BY <2>1, MediaField
  <1> HIDE DEF y
  <1>2. y.shown = s.shown /\ y.tab = s.tab /\ y.card = s.card /\ y.log = s.log /\ y.run = s.run
    BY <1>1, FieldNames
  <1>3. MediaShown(s) /\ LogShown(s) /\ CallsShown(s) /\ Keyed(s) /\ Fits(s, "log") /\ Fits(s, "calls")
    BY ViewsParts
  <1>4. Fits(y, "log") /\ Fits(y, "calls")
    BY <1>1, <1>2, <1>3, FitsKept DEF Calm
  <1>5. MediaShown(y) /\ CallsShown(y) /\ Keyed(y)
    BY <1>2, <1>3 DEF MediaShown, CallsShown, Keyed, Active
  <1>6. LogShown(y)
    BY <1>2, <1>3 DEF LogShown, Active, Watched, HistoryAvailable, PrivateDataAvailable
  <1>7. Views(y)
    BY <1>4, <1>5, <1>6, ViewsParts
  <1> QED BY <1>1, <1>2, <1>7 DEF y

LEMMA LoadedLog ==
    ASSUME NEW s, NEW d, NEW log, Base(s, d), Views(s), Active(s, "log"),
           DOMAIN log = {"rows", "error", "gen", "syncing"},
           \/ log.rows = s.log.rows
           \/ log.rows.prof \in Nat /\ s.card.prof <= log.rows.prof
    PROVE  LET y == [s EXCEPT !.log = log] IN Calm(s, y) /\ y.card = s.card /\ Views(y)
  <1> DEFINE y == [s EXCEPT !.log = log]
  <1>1. Calm(s, y) /\ y.log = log /\ \A g \in Fields \ {"log"} : y[g] = s[g]
    BY LogRecord DEF Base
  <1> HIDE DEF y
  <1>2. y.shown = s.shown /\ y.tab = s.tab /\ y.card = s.card /\ y.media = s.media /\ y.run = s.run
    BY <1>1, FieldNames
  <1>3. MediaShown(s) /\ LogShown(s) /\ CallsShown(s) /\ Keyed(s) /\ Fits(s, "log") /\ Fits(s, "calls")
    BY ViewsParts
  <1>4. Fits(y, "log") /\ Fits(y, "calls")
    BY <1>1, <1>2, <1>3, FitsKept DEF Calm
  <1>5. MediaShown(y) /\ CallsShown(y) /\ Keyed(y)
    BY <1>2, <1>3 DEF MediaShown, CallsShown, Keyed, Active
  <1>6. LogShown(y)
    BY <1>1, <1>2, <1>3 DEF LogShown, Active, Watched, HistoryAvailable, PrivateDataAvailable
  <1>7. Views(y)
    BY <1>4, <1>5, <1>6, ViewsParts
  <1> QED BY <1>1, <1>2, <1>7 DEF y

LEMMA LoadedCalls ==
    ASSUME NEW s, NEW d, NEW run, Base(s, d), Views(s), Active(s, "calls"),
           DOMAIN run = {"key", "calls", "error", "gen", "busy"}, run.key = s.run.key,
           \/ run.calls = None
           \/ run.calls.prof \in Nat /\ s.card.prof <= run.calls.prof
    PROVE  LET y == [s EXCEPT !.run = run] IN Calm(s, y) /\ y.card = s.card /\ Views(y)
  <1> DEFINE y == [s EXCEPT !.run = run]
  <1>1. Calm(s, y) /\ y.run = run /\ \A g \in Fields \ {"run"} : y[g] = s[g]
    BY RunRecord DEF Base
  <1> HIDE DEF y
  <1>2. y.shown = s.shown /\ y.tab = s.tab /\ y.card = s.card /\ y.media = s.media /\ y.log = s.log
    BY <1>1, FieldNames
  <1>3. MediaShown(s) /\ LogShown(s) /\ CallsShown(s) /\ Keyed(s) /\ Fits(s, "log") /\ Fits(s, "calls")
    BY ViewsParts
  <1>4. Fits(y, "log") /\ Fits(y, "calls")
    BY <1>1, <1>2, <1>3, FitsKept DEF Calm
  <1>5. MediaShown(y) /\ CallsShown(y) /\ Keyed(y)
    BY <1>1, <1>2, <1>3 DEF MediaShown, CallsShown, Keyed, Active
  <1>6. LogShown(y)
    BY <1>2, <1>3 DEF LogShown, Active, Watched, HistoryAvailable, PrivateDataAvailable
  <1>7. Views(y)
    BY <1>4, <1>5, <1>6, ViewsParts
  <1> QED BY <1>1, <1>2, <1>7 DEF y

LEMMA LoadedViews ==
    ASSUME NoneIsNew, NEW s, NEW d, NEW n \in Coalesced, NEW r, Daemon(d), Base(s, d), Views(s),
           Active(s, n), r.ok \in BOOLEAN, ~r.ok => r.value = None,
           r.ok /\ n = "status" => Known(r.value, d),
           r.ok /\ n \in {"log", "calls"} => r.value.prof \in Nat /\ s.card.prof <= r.value.prof
    PROVE  LET y == Loaded(s, n, r) IN Calm(s, y) /\ Known(y.card, d) /\ Views(y)
  <1>1. n \in {"status", "media", "log", "calls"} /\ Known(s.card, d) /\ Shaped(s)
    BY KindNames DEF Base
  <1>2. CASE n = "status"
    <2> DEFINE st == IF r.ok THEN r.value ELSE Unreachable
    <2>1. Known(st, d)
      BY <1>2, UnreachableKnown
    <2>2. Loaded(s, n, r) = StatusLoaded(s, st)
      BY <1>2 DEF Loaded
    <2> HIDE DEF st
    <2> QED BY <2>1, <2>2, StatusLoadedViews
  <1>3. CASE n = "media"
    <2>1. Loaded(s, n, r) = [s EXCEPT !.media = r.value]
      BY <1>3 DEF Loaded
    <2>2. /\ Calm(s, [s EXCEPT !.media = r.value]) /\ [s EXCEPT !.media = r.value].card = s.card
          /\ Views([s EXCEPT !.media = r.value])
      BY <1>3, LoadedMedia
    <2> QED BY <1>1, <2>1, <2>2
  <1>4. CASE n = "log"
    <2> DEFINE log == [s.log EXCEPT !.rows = IF r.ok THEN r.value ELSE s.log.rows, !.error = ~r.ok]
    <2>1. Loaded(s, n, r) = [s EXCEPT !.log = log]
      BY <1>1, <1>4, FieldNames DEF Loaded, Shaped
    <2>2. /\ DOMAIN log = {"rows", "error", "gen", "syncing"}
          /\ log.rows = IF r.ok THEN r.value ELSE s.log.rows
      BY <1>1 DEF Shaped
    <2> HIDE DEF log
    <2>3. \/ log.rows = s.log.rows
          \/ log.rows.prof \in Nat /\ s.card.prof <= log.rows.prof
      BY <1>4, <2>2
    <2>4. /\ Calm(s, [s EXCEPT !.log = log]) /\ [s EXCEPT !.log = log].card = s.card
          /\ Views([s EXCEPT !.log = log])
      BY <1>4, <2>2, <2>3, LoadedLog
    <2> QED BY <1>1, <2>1, <2>4
  <1>5. CASE n = "calls"
    <2> DEFINE run == [s.run EXCEPT !.calls = r.value, !.error = ~r.ok]
    <2>1. Loaded(s, n, r) = [s EXCEPT !.run = run]
      BY <1>1, <1>5, FieldNames DEF Loaded, Shaped
    <2>2. /\ DOMAIN run = {"key", "calls", "error", "gen", "busy"} /\ run.key = s.run.key
          /\ run.calls = r.value
      BY <1>1 DEF Shaped
    <2> HIDE DEF run
    <2>3. \/ run.calls = None
          \/ run.calls.prof \in Nat /\ s.card.prof <= run.calls.prof
      BY <1>5, <2>2
    <2>4. /\ Calm(s, [s EXCEPT !.run = run]) /\ [s EXCEPT !.run = run].card = s.card
          /\ Views([s EXCEPT !.run = run])
      BY <1>5, <2>2, <2>3, LoadedCalls
    <2> QED BY <1>1, <2>1, <2>4
  <1> QED BY <1>1, <1>2, <1>3, <1>4, <1>5

\* Only an answer of its own epoch is shown.
LEMMA CompletedViews ==
    ASSUME NoneIsNew, NEW s, NEW d, NEW e, Daemon(d), Base(s, d), Views(s),
           e.job.do \in Coalesced, AnswerBase(d, e.job, e.answer), Fitting(s, e)
    PROVE  LET y == Completed(s, e.job, e.answer) IN Calm(s, y) /\ Known(y.card, d) /\ Views(y)
  <1> DEFINE n == e.job.do
  <1> DEFINE t == [s EXCEPT !.reads[n].pending = FALSE, !.reads[n].again = FALSE]
  <1> DEFINE x == Loaded(t, n, e.answer)
  <1> DEFINE z == Refresh(x, n)
  <1> DEFINE w == Refresh(t, n)
  <1>1. \/ Completed(s, e.job, e.answer) \in {t, w}
        \/ /\ e.job.epoch = s.reads[n].epoch /\ Active(s, n)
           /\ Completed(s, e.job, e.answer) \in {x, z}
    <2> DEFINE fits == e.job.epoch = s.reads[n].epoch /\ Active(s, n)
    <2> DEFINE v == IF fits THEN x ELSE t
    <2>1. Completed(s, e.job, e.answer) = IF s.reads[n].again THEN Refresh(v, n) ELSE v
      BY DEF Completed, Then
    <2> HIDE DEF t, x
    <2>2. CASE fits
      BY <2>1, <2>2
    <2>3. CASE ~fits
      BY <2>1, <2>3
    <2> QED BY <2>2, <2>3
  <1>2. Quiet(s, t) /\ Shaped(s)
    BY FlagQuiet DEF Base
  <1> HIDE DEF t
  <1>3. Calm(s, t) /\ SameViews(s, t) /\ Shaped(t)
    BY <1>2, QuietCalm, QuietShaped
  <1>4. Base(t, d) /\ Views(t)
    <2>1. Grows(s, t, Tracked) /\ Known(t.card, d) /\ Known(t.last, d)
      BY <1>3 DEF Calm, SameViews, SameSwitches, Base
    <2> QED BY <1>3, <2>1, BaseKept, ViewsKept
  <1>5. Quiet(t, w)
    BY <1>3, RefreshQuiet
  <1> HIDE DEF w
  <1>6. Calm(s, w) /\ Known(w.card, d) /\ Views(w)
    <2>1. Calm(t, w) /\ SameViews(t, w)
      BY <1>5, QuietCalm
    <2>2. Grows(t, w, Tracked)
      BY <2>1 DEF Calm
    <2> QED BY <1>2, <1>3, <1>4, <2>1, <2>2, CalmTrans, ViewsKept DEF SameViews, Base
  <1>7. Known(t.card, d)
    BY <1>4 DEF Base
  <1>8. ASSUME e.job.epoch = s.reads[n].epoch, Active(s, n)
        PROVE  Calm(s, x) /\ Known(x.card, d) /\ Views(x) /\ Calm(s, z) /\ Known(z.card, d) /\ Views(z)
    <2>1. Active(t, n)
      BY <1>3, <1>8 DEF Active, SameViews, Watched, HistoryAvailable, PrivateDataAvailable
    <2>2. /\ e.answer.ok \in BOOLEAN /\ (~e.answer.ok => e.answer.value = None)
          /\ e.answer.ok /\ n = "status" => Known(e.answer.value, d)
      BY DEF AnswerBase
    <2>3. e.answer.ok /\ n \in {"log", "calls"} =>
              e.answer.value.prof \in Nat /\ t.card.prof <= e.answer.value.prof
      BY <1>3, <1>8 DEF Fitting, SameViews
    <2> HIDE DEF n
    <2>4. n \in Coalesced
      BY DEF n
    <2>5. Calm(t, x) /\ Known(x.card, d) /\ Views(x)
      BY <1>4, <2>1, <2>2, <2>3, <2>4, LoadedViews
    <2> HIDE DEF x
    <2>6. Shaped(x) /\ Grows(t, x, Tracked) /\ Known(x.last, d)
      BY <1>4, <2>5, CalmShaped DEF Calm, SameSwitches, Base
    <2>7. Base(x, d)
      BY <1>4, <2>5, <2>6, BaseKept
    <2>8. Quiet(x, z)
      BY <2>4, <2>6, RefreshQuiet
    <2> HIDE DEF z
    <2>9. Calm(x, z) /\ SameViews(x, z)
      BY <2>8, QuietCalm
    <2>10. Views(z) /\ Known(z.card, d)
      <3>1. Grows(x, z, Tracked)
        BY <2>9 DEF Calm
      <3> QED BY <2>5, <2>7, <2>9, <3>1, ViewsKept DEF SameViews
    <2> QED BY <1>2, <1>3, <2>5, <2>6, <2>9, <2>10, CalmTrans
  <1> HIDE DEF x, z
  <1> QED BY <1>1, <1>3, <1>4, <1>6, <1>7, <1>8

LEMMA CalmGood ==
    ASSUME NEW s, NEW t, NEW d, Good(s, d), Calm(s, t), Known(t.card, d), Views(t)
    PROVE  Good(t, d)
  <1>1. Grows(s, t, Tracked) /\ SameSwitches(s, t) /\ t.rules = s.rules
    BY DEF Calm
  <1>2. Base(t, d)
    BY <1>1, BaseKept DEF Good, Base, SameSwitches
  <1>3. \A n \in Switches : Choice(t, d, n)
    BY <1>1, ChoiceKept DEF Good, Tracked
  <1>4. Rules(t, d)
    BY <1>1, RulesKept DEF Good, Tracked
  <1> QED BY <1>2, <1>3, <1>4 DEF Good

-----------------------------------------------------------------------------
(***************************************************************************)
(* The rules.                                                              *)
(***************************************************************************)
LEMMA SteadyGood ==
    ASSUME NEW s, NEW t, NEW d, NEW X, Good(s, d), Steady(s, t, X), "save" \in X, Rules(t, d)
    PROVE  Good(t, d)
  <1>1. Grows(s, t, X) /\ SameSwitches(s, t) /\ SameViews(s, t)
    BY DEF Steady
  <1>2. Base(t, d)
    BY <1>1, BaseKept DEF Good, Base, SameSwitches, SameViews
  <1>3. \A n \in Switches : Choice(t, d, n)
    BY <1>1, ChoiceKept DEF Good
  <1>4. Views(t)
    BY <1>1, ViewsKept DEF Good
  <1> QED BY <1>2, <1>3, <1>4 DEF Good

LEMMA SteadyTrans ==
    ASSUME NEW s, NEW t, NEW u, NEW X, Shaped(s), Steady(s, t, X), Steady(t, u, X)
    PROVE  Steady(s, u, X)
  BY GrowsTrans DEF Steady, SameSwitches, SameViews

LEMMA SteadyLess ==
    ASSUME NEW s, NEW t, NEW X, NEW Y, Steady(s, t, X), Y \subseteq X
    PROVE  Steady(s, t, Y)
  BY GrowsLess DEF Steady

LEMMA SteadyShaped == ASSUME NEW s, NEW t, NEW X, Steady(s, t, X) PROVE Shaped(t)
  BY DEF Steady, Grows

RuleFields == {"shown", "pending", "serial", "rev", "loaded", "loading", "rows"}

\* The client's record of the rules becomes q.
RuleStep(s, d, q) ==
    /\ DOMAIN q = RuleFields
    /\ q.serial \in Nat /\ s.rules.serial <= q.serial /\ q.pending \in BOOLEAN
    /\ q.shown => q.rev \in Nat /\ q.rev <= d.st.rev
    /\ q.pending => q.loaded = None
    /\ q.loaded # None => q.loaded \in Nat /\ q.rows \in Nat /\ q.loaded <= q.rows
    /\ q.pending /\ ~s.rules.pending => s.rules.serial < q.serial
    /\ q.pending \/ NoneOwns(s, "rule")

LEMMA RulesField ==
    ASSUME NEW s, NEW d, NEW q, Base(s, d), Rules(s, d), RuleStep(s, d, q)
    PROVE  LET t == [s EXCEPT !.rules = q]
           IN  /\ Steady(s, t, Tracked) /\ t.rules = q /\ Rules(t, d)
               /\ t.jobs = s.jobs /\ t.idle = s.idle /\ t.out = s.out
  <1> DEFINE t == [s EXCEPT !.rules = q]
  <1>0. Shaped(s)
    BY DEF Base
  <1>1. /\ DOMAIN t = Fields /\ t = [g \in Fields |-> t[g]] /\ t.rules = q
        /\ \A g \in Fields \ {"rules"} : t[g] = s[g]
    BY <1>0, FieldNames DEF Shaped
  <1> HIDE DEF t
  <1>2. /\ t.jobs = s.jobs /\ t.idle = s.idle /\ t.out = s.out /\ t.reads = s.reads
        /\ t.row = s.row /\ t.choice = s.choice /\ t.kept = s.kept /\ t.last = s.last
        /\ t.dis = s.dis /\ t.shown = s.shown /\ t.tab = s.tab
        /\ t.card = s.card /\ t.media = s.media /\ t.log = s.log /\ t.run = s.run
    BY <1>1, FieldNames
  <1>3. Shaped(t)
    BY <1>0, <1>1, <1>2 DEF Shaped, RuleStep, RuleFields
  <1>4. Steady(s, t, Tracked)
    BY <1>0, <1>2, <1>3, Epochs DEF Steady, Grows, SameSwitches, SameViews
  <1>5. s.rules.serial \in Nat /\ s.rules.pending \in BOOLEAN
    BY DEF Rules
  <1>6. ASSUME NEW j, JobRules(s, d, j), j.do = "rule" => q.pending
        PROVE  JobRules(t, d, j)
    <2>1. CASE j.do = "rules"
      <3>1. j.serial \in Nat /\ j.serial <= s.rules.serial /\ j.rev \in Nat /\ j.rev <= d.st.rev
        BY <1>6, <2>1 DEF JobRules
      <3>2. s.rules.pending => j.serial < s.rules.serial
        BY <1>6, <2>1 DEF JobRules
      <3>3. q.serial \in Nat /\ s.rules.serial <= q.serial
        BY DEF RuleStep
      <3>4. q.pending => j.serial < q.serial
        <4>1. CASE s.rules.pending
          BY <1>5, <3>1, <3>2, <3>3, <4>1
        <4>2. CASE ~s.rules.pending
          <5>1. q.pending => s.rules.serial < q.serial
            BY <4>2 DEF RuleStep
          <5> QED BY <1>5, <3>1, <3>3, <5>1
        <4> QED BY <4>1, <4>2
      <3>5. j.serial <= q.serial
        BY <1>5, <3>1, <3>3
      <3> QED BY <1>1, <2>1, <3>1, <3>4, <3>5 DEF JobRules
    <2>2. CASE j.do # "rules"
      BY <1>1, <1>6, <2>2 DEF JobRules
    <2> QED BY <2>1, <2>2
  <1>8. /\ \A h \in Threads :
             /\ \A i \in DOMAIN t.jobs[h] : JobRules(t, d, t.jobs[h][i])
             /\ t.out[h] # None => EntryRules(t, d, t.out[h])
        /\ \A i \in DOMAIN t.idle : EntryRules(t, d, t.idle[i])
    <2>1. CASE q.pending
      BY <1>2, <1>6, <2>1 DEF Rules, EntryRules
    <2>2. CASE NoneOwns(s, "rule") /\ ~q.pending
      <3>1. ASSUME NEW j, JobRules(s, d, j), ~Owns(j, "rule")
            PROVE  JobRules(t, d, j)
        BY <1>6, <3>1 DEF Owns
      <3>2. /\ \A i \in DOMAIN s.jobs["read"] : ~Owns(s.jobs["read"][i], "rule")
            /\ s.out["read"] # None => ~Owns(s.out["read"].job, "rule")
        BY FieldNames, KindNames DEF Base, Owns
      <3>3. \A h \in Threads :
                /\ \A i \in DOMAIN s.jobs[h] : ~Owns(s.jobs[h][i], "rule")
                /\ s.out[h] # None => ~Owns(s.out[h].job, "rule")
        BY <2>2, <3>2, FieldNames DEF NoneOwns
      <3>4. \A i \in DOMAIN s.idle : ~Owns(s.idle[i].job, "rule")
        BY <2>2 DEF NoneOwns
      <3> QED BY <1>2, <3>1, <3>3, <3>4 DEF Rules, EntryRules
    <2> QED BY <2>1, <2>2 DEF RuleStep
  <1>9. Once(t, "rule")
    BY <1>2 DEF Rules, Once
  <1>10. Rules(t, d)
    BY <1>1, <1>8, <1>9 DEF Rules, RuleStep
  <1> QED BY <1>1, <1>2, <1>4, <1>10 DEF t

\* A read of the rules, and a change of them, are asked for.
LEMMA RulesAsked ==
    ASSUME NEW s, NEW d, NEW j, Shaped(s), Rules(s, d), j.do = "rules", JobRules(s, d, j)
    PROVE  Steady(s, Read(s, j), {"save", "rule"}) /\ Rules(Read(s, j), d)
  <1> DEFINE t == Read(s, j)
  <1>1. j.do \in KindsOf["read"] \ {"save", "rule"} /\ JobBase(s, j) /\ "read" \in Threads
    BY FieldNames, KindNames DEF JobBase
  <1>2. /\ Steady(s, t, {"save", "rule"}) /\ t.rules = s.rules
        /\ t.jobs = [s.jobs EXCEPT !["read"] = Append(s.jobs["read"], j)]
    BY <1>1, SubmitSteady DEF Read
  <1> HIDE DEF t
  <1>3. /\ t.jobs["request"] = s.jobs["request"] /\ t.jobs["read"] = Append(s.jobs["read"], j)
        /\ t.idle = s.idle /\ t.out = s.out
    BY <1>2, FieldNames DEF Shaped, Steady, Grows
  <1>4. IsSeq(s.jobs["read"])
    BY FieldNames DEF Shaped
  <1>5. \A i \in DOMAIN t.jobs["read"] :
            (i \in DOMAIN s.jobs["read"] /\ t.jobs["read"][i] = s.jobs["read"][i]) \/ t.jobs["read"][i] = j
    BY <1>3, <1>4, AppendSeq
  <1>6. \A k : JobRules(s, d, k) => JobRules(t, d, k)
    BY <1>2 DEF JobRules
  <1>7. \A h \in Threads : \A i \in DOMAIN t.jobs[h] : JobRules(t, d, t.jobs[h][i])
    <2>1. \A i \in DOMAIN t.jobs["read"] : JobRules(s, d, t.jobs["read"][i])
      BY <1>5, FieldNames DEF Rules
    <2>2. \A i \in DOMAIN t.jobs["request"] : JobRules(s, d, t.jobs["request"][i])
      BY <1>3, FieldNames DEF Rules
    <2> QED BY <1>6, <2>1, <2>2, FieldNames
  <1>8. /\ \A h \in Threads : t.out[h] # None => EntryRules(t, d, t.out[h])
        /\ \A i \in DOMAIN t.idle : EntryRules(t, d, t.idle[i])
    BY <1>3, <1>6 DEF Rules, EntryRules
  <1>9. Once(t, "rule")
    BY <1>3 DEF Rules, Once
  <1>10. Rules(t, d)
    BY <1>2, <1>7, <1>8, <1>9 DEF Rules
  <1> QED BY <1>2, <1>10 DEF t

\* A request of which there may be one at a time is asked for while there is none.
LEMMA OnceAsked ==
    ASSUME NEW s, NEW t, NEW j, NEW k, Shaped(s), NoneOwns(s, k),
           t.jobs["request"] = Append(s.jobs["request"], j), t.idle = s.idle, t.out = s.out
    PROVE  Once(t, k)
  <1>1. IsSeq(s.jobs["request"])
    BY FieldNames DEF Shaped
  <1>2. \A i \in DOMAIN t.jobs["request"] :
            \/ i \in DOMAIN s.jobs["request"] /\ t.jobs["request"][i] = s.jobs["request"][i]
            \/ i = Len(s.jobs["request"]) + 1 /\ t.jobs["request"][i] = j
    BY <1>1, AppendSeq
  <1> QED BY <1>2 DEF Once, NoneOwns

LEMMA RuleAsked ==
    ASSUME NEW s, NEW d, Shaped(s), Rules(s, d), s.rules.pending, NoneOwns(s, "rule")
    PROVE  Steady(s, Ask(s, [do |-> "rule"]), {"save"}) /\ Rules(Ask(s, [do |-> "rule"]), d)
  <1> DEFINE j == [do |-> "rule"]
  <1> DEFINE t == Ask(s, j)
  <1>1. j.do = "rule"
    OBVIOUS
  <1> HIDE DEF j
  <1>2. j.do \in KindsOf["request"] \ {"save"} /\ JobBase(s, j) /\ "request" \in Threads
    BY <1>1, FieldNames, KindNames DEF JobBase
  <1>3. /\ Steady(s, t, {"save"}) /\ t.rules = s.rules
        /\ t.jobs = [s.jobs EXCEPT !["request"] = Append(s.jobs["request"], j)]
    BY <1>2, SubmitSteady DEF Ask
  <1> HIDE DEF t
  <1>4. /\ t.jobs["read"] = s.jobs["read"] /\ t.jobs["request"] = Append(s.jobs["request"], j)
        /\ t.idle = s.idle /\ t.out = s.out
    BY <1>3, FieldNames DEF Shaped, Steady, Grows
  <1>5. Once(t, "rule")
    BY <1>4, OnceAsked
  <1>6. IsSeq(s.jobs["request"])
    BY FieldNames DEF Shaped
  <1>7. \A i \in DOMAIN t.jobs["request"] :
            \/ i \in DOMAIN s.jobs["request"] /\ t.jobs["request"][i] = s.jobs["request"][i]
            \/ t.jobs["request"][i] = j
    BY <1>4, <1>6, AppendSeq
  <1>8. (\A k : JobRules(s, d, k) => JobRules(t, d, k)) /\ JobRules(t, d, j)
    BY <1>1, <1>3 DEF JobRules
  <1>9. \A h \in Threads : \A i \in DOMAIN t.jobs[h] : JobRules(t, d, t.jobs[h][i])
    <2>1. \A i \in DOMAIN t.jobs["read"] : JobRules(t, d, t.jobs["read"][i])
      BY <1>4, <1>8, FieldNames DEF Rules
    <2>2. \A i \in DOMAIN t.jobs["request"] : JobRules(t, d, t.jobs["request"][i])
      BY <1>7, <1>8, FieldNames DEF Rules
    <2> QED BY <2>1, <2>2, FieldNames
  <1>10. /\ \A h \in Threads : t.out[h] # None => EntryRules(t, d, t.out[h])
         /\ \A i \in DOMAIN t.idle : EntryRules(t, d, t.idle[i])
    BY <1>4, <1>8 DEF Rules, EntryRules
  <1>11. Rules(t, d)
    BY <1>3, <1>5, <1>9, <1>10 DEF Rules
  <1> QED BY <1>3, <1>11 DEF t, j

LEMMA SteadySelf == ASSUME NEW s, NEW X, Shaped(s) PROVE Steady(s, s, X)
  BY GrowsSelf DEF Steady, SameSwitches, SameViews

LEMMA SteadyBase ==
    ASSUME NEW s, NEW t, NEW d, NEW X, Base(s, d), Steady(s, t, X)
    PROVE  Base(t, d)
  BY BaseKept DEF Steady, Base, SameSwitches, SameViews

LEMMA RulesReloadSteady ==
    ASSUME NEW s, NEW d, Base(s, d), Rules(s, d)
    PROVE  Steady(s, RulesReload(s), {"save", "rule"}) /\ Rules(RulesReload(s), d)
  <1> DEFINE q == [s.rules EXCEPT !.serial = @ + 1, !.loading = s.rules.rev]
  <1> DEFINE j == [do |-> "rules", serial |-> s.rules.serial + 1, rev |-> s.rules.rev]
  <1> DEFINE t == [s EXCEPT !.rules = q]
  <1>1. \/ RulesReload(s) = s
        \/ s.rules.shown /\ ~s.rules.pending /\ RulesReload(s) = Read(t, j)
    BY DEF RulesReload
  <1>2. CASE RulesReload(s) = s
    BY <1>2, SteadySelf DEF Base
  <1>3. CASE s.rules.shown /\ ~s.rules.pending /\ RulesReload(s) = Read(t, j)
    <2>1. /\ DOMAIN q = RuleFields /\ q.serial = s.rules.serial + 1 /\ q.rev = s.rules.rev
          /\ q.shown = s.rules.shown /\ q.pending = s.rules.pending /\ q.loaded = s.rules.loaded
          /\ q.rows = s.rules.rows
      BY DEF Base, Shaped, RuleFields
    <2>2. j.do = "rules" /\ j.serial = s.rules.serial + 1 /\ j.rev = s.rules.rev
      OBVIOUS
    <2> HIDE DEF q, j
    <2>3. /\ s.rules.serial \in Nat /\ s.rules.pending \in BOOLEAN
          /\ s.rules.rev \in Nat /\ s.rules.rev <= d.st.rev
          /\ s.rules.loaded # None =>
               s.rules.loaded \in Nat /\ s.rules.rows \in Nat /\ s.rules.loaded <= s.rules.rows
      BY <1>3 DEF Rules
    <2>4. NoneOwns(s, "rule")
      BY <1>3, FieldNames DEF Rules, EntryRules, JobRules, NoneOwns, Owns
    <2>5. s.rules.serial + 1 \in Nat /\ s.rules.serial <= s.rules.serial + 1
      BY <2>3
    <2>6. RuleStep(s, d, q)
      BY <1>3, <2>1, <2>3, <2>4, <2>5 DEF RuleStep
    <2>7. Steady(s, t, Tracked) /\ t.rules = q /\ Rules(t, d)
      BY <2>6, RulesField
    <2> HIDE DEF t
    <2>8. JobRules(t, d, j) /\ Shaped(t)
      <3>1. j.serial <= t.rules.serial
        BY <2>1, <2>2, <2>5, <2>7
      <3> QED BY <1>3, <2>1, <2>2, <2>3, <2>5, <2>7, <3>1, SteadyShaped DEF JobRules
    <2>9. Steady(t, Read(t, j), {"save", "rule"}) /\ Rules(Read(t, j), d)
      BY <2>2, <2>7, <2>8, RulesAsked
    <2>10. Steady(s, t, {"save", "rule"}) /\ Shaped(s)
      BY <2>7, SteadyLess DEF Tracked, Base
    <2> QED BY <1>3, <2>9, <2>10, SteadyTrans
  <1> QED BY <1>1, <1>2, <1>3

LEMMA RulesApplySteady ==
    ASSUME NEW s, NEW d, NEW st, Base(s, d), Rules(s, d), Known(st, d)
    PROVE  Steady(s, RulesApply(s, st), {"save", "rule"}) /\ Rules(RulesApply(s, st), d)
  <1> DEFINE shown == st.up /\ ~st.plain
  <1> DEFINE gone == ~shown /\ s.rules.shown
  <1> DEFINE q == [s.rules EXCEPT !.shown = shown, !.rev = st.rev,
                                  !.serial = IF gone THEN @ + 1 ELSE @,
                                  !.loaded = IF gone THEN None ELSE @,
                                  !.loading = IF gone THEN None ELSE @]
  <1> DEFINE t == [s EXCEPT !.rules = q]
  <1>1. RulesApply(s, st) \in {t, RulesReload(t)}
    BY DEF RulesApply, If, Then
  <1>2. /\ DOMAIN q = RuleFields /\ q.shown = shown /\ q.rev = st.rev /\ q.pending = s.rules.pending
        /\ q.serial \in {s.rules.serial, s.rules.serial + 1} /\ q.loaded \in {s.rules.loaded, None}
        /\ q.rows = s.rules.rows
    BY DEF Base, Shaped, RuleFields
  <1> HIDE DEF q, gone
  <1>3. s.rules.serial \in Nat /\ q.serial \in Nat /\ s.rules.serial <= q.serial
    <2>1. s.rules.serial \in Nat
      BY DEF Rules
    <2> QED BY <1>2, <2>1
  <1>4. RuleStep(s, d, q)
    <2>1. q.shown => q.rev \in Nat /\ q.rev <= d.st.rev
      BY <1>2 DEF Known
    <2>2. /\ q.pending \in BOOLEAN /\ (q.pending => q.loaded = None)
          /\ (q.pending /\ ~s.rules.pending => s.rules.serial < q.serial)
          /\ q.loaded # None => q.loaded \in Nat /\ q.rows \in Nat /\ q.loaded <= q.rows
      BY <1>2 DEF Rules
    <2>3. q.pending \/ NoneOwns(s, "rule")
      BY <1>2, FieldNames DEF Rules, EntryRules, JobRules, NoneOwns, Owns
    <2> QED BY <1>2, <1>3, <2>1, <2>2, <2>3 DEF RuleStep
  <1>5. Steady(s, t, Tracked) /\ Rules(t, d)
    BY <1>4, RulesField
  <1> HIDE DEF t
  <1>6. Steady(s, t, {"save", "rule"}) /\ Base(t, d) /\ Shaped(s)
    BY <1>5, SteadyLess, SteadyBase DEF Tracked, Base
  <1>7. Steady(t, RulesReload(t), {"save", "rule"}) /\ Rules(RulesReload(t), d)
    BY <1>5, <1>6, RulesReloadSteady
  <1> QED BY <1>1, <1>5, <1>6, <1>7, SteadyTrans

\* Only the answer to the latest read is taken, and none while a change is on its way.
LEMMA RulesLoadedSteady ==
    ASSUME NEW s, NEW d, NEW e, Base(s, d), Rules(s, d), EntryRules(s, d, e), e.job.do = "rules",
           e.answer.ok \in BOOLEAN
    PROVE  Steady(s, RulesLoaded(s, e.job, e.answer), Tracked) /\ Rules(RulesLoaded(s, e.job, e.answer), d)
  <1> DEFINE r == e.answer
  <1> DEFINE q == [s.rules EXCEPT !.loading = None, !.loaded = IF r.ok THEN e.job.rev ELSE @,
                                  !.rows = IF r.ok THEN r.value ELSE @]
  <1> DEFINE t == [s EXCEPT !.rules = q]
  <1>1. \/ RulesLoaded(s, e.job, e.answer) = s
        \/ e.job.serial = s.rules.serial /\ RulesLoaded(s, e.job, e.answer) = t
    BY DEF RulesLoaded
  <1>2. CASE RulesLoaded(s, e.job, e.answer) = s
    BY <1>2, SteadySelf DEF Base
  <1>3. CASE e.job.serial = s.rules.serial /\ RulesLoaded(s, e.job, e.answer) = t
    <2>1. /\ DOMAIN q = RuleFields /\ q.shown = s.rules.shown /\ q.rev = s.rules.rev
          /\ q.pending = s.rules.pending /\ q.serial = s.rules.serial
          /\ q.loaded = IF r.ok THEN e.job.rev ELSE s.rules.loaded
          /\ q.rows = IF r.ok THEN r.value ELSE s.rules.rows
      BY DEF Base, Shaped, RuleFields
    <2> HIDE DEF q
    <2>2. s.rules.serial \in Nat /\ s.rules.serial <= s.rules.serial /\ s.rules.pending \in BOOLEAN
      <3>1. s.rules.serial \in Nat /\ s.rules.pending \in BOOLEAN
        BY DEF Rules
      <3> QED BY <3>1
    <2>3. ~s.rules.pending
      BY <1>3, <2>2 DEF EntryRules, JobRules
    <2>4. q.loaded # None => q.loaded \in Nat /\ q.rows \in Nat /\ q.loaded <= q.rows
      <3>1. CASE r.ok
        BY <2>1, <3>1 DEF EntryRules, JobRules
      <3>2. CASE ~r.ok
        BY <2>1, <3>2 DEF Rules
      <3> QED BY <3>1, <3>2
    <2>5. NoneOwns(s, "rule")
      BY <2>3, FieldNames DEF Rules, EntryRules, JobRules, NoneOwns, Owns
    <2>6. s.rules.shown => s.rules.rev \in Nat /\ s.rules.rev <= d.st.rev
      BY DEF Rules
    <2>7. RuleStep(s, d, q)
      BY <2>1, <2>2, <2>3, <2>4, <2>5, <2>6 DEF RuleStep
    <2> QED BY <1>3, <2>7, RulesField
  <1> QED BY <1>1, <1>2, <1>3

LEMMA ChangeRuleSteady ==
    ASSUME NEW s, NEW d, Base(s, d), Rules(s, d)
    PROVE  Steady(s, ChangeRule(s), {"save"}) /\ Rules(ChangeRule(s), d)
  <1> DEFINE q == [s.rules EXCEPT !.pending = TRUE, !.serial = @ + 1, !.loaded = None, !.loading = None]
  <1> DEFINE t == [s EXCEPT !.rules = q]
  <1>1. \/ ChangeRule(s) = s
        \/ ~s.rules.pending /\ ChangeRule(s) = Ask(t, [do |-> "rule"])
    BY DEF ChangeRule
  <1>2. CASE ChangeRule(s) = s
    BY <1>2, SteadySelf DEF Base
  <1>3. CASE ~s.rules.pending /\ ChangeRule(s) = Ask(t, [do |-> "rule"])
    <2>1. /\ DOMAIN q = RuleFields /\ q.shown = s.rules.shown /\ q.rev = s.rules.rev /\ q.pending = TRUE
          /\ q.serial = s.rules.serial + 1 /\ q.loaded = None
      BY DEF Base, Shaped, RuleFields
    <2> HIDE DEF q
    <2>2. s.rules.serial + 1 \in Nat /\ s.rules.serial < s.rules.serial + 1
          /\ s.rules.serial <= s.rules.serial + 1
      <3>1. s.rules.serial \in Nat
        BY DEF Rules
      <3> QED BY <3>1
    <2>3. NoneOwns(s, "rule")
      BY <1>3, FieldNames DEF Rules, EntryRules, JobRules, NoneOwns, Owns
    <2>4. s.rules.shown => s.rules.rev \in Nat /\ s.rules.rev <= d.st.rev
      BY DEF Rules
    <2>5. RuleStep(s, d, q)
      BY <2>1, <2>2, <2>4 DEF RuleStep
    <2>6. /\ Steady(s, t, Tracked) /\ t.rules = q /\ Rules(t, d)
          /\ t.jobs = s.jobs /\ t.idle = s.idle /\ t.out = s.out
      BY <2>5, RulesField
    <2> HIDE DEF t
    <2>7. t.rules.pending /\ NoneOwns(t, "rule") /\ Shaped(t)
      BY <2>1, <2>3, <2>6, SteadyShaped DEF NoneOwns
    <2>8. Steady(t, Ask(t, [do |-> "rule"]), {"save"}) /\ Rules(Ask(t, [do |-> "rule"]), d)
      BY <2>6, <2>7, RuleAsked
    <2>9. Steady(s, t, {"save"}) /\ Shaped(s)
      BY <2>6, SteadyLess DEF Tracked, Base
    <2> QED BY <1>3, <2>8, <2>9, SteadyTrans
  <1> QED BY <1>1, <1>2, <1>3

\* While the change was on its way no revision was acknowledged.
LEMMA RuleChangedSteady ==
    ASSUME NEW s, NEW d, NEW r, Base(s, d), Rules(s, d), s.rules.pending, NoneOwns(s, "rule")
    PROVE  Steady(s, RuleChanged(s, r), {"save", "rule"}) /\ Rules(RuleChanged(s, r), d)
  <1> DEFINE q == [s.rules EXCEPT !.pending = FALSE, !.rows = IF r.ok /\ s.rules.shown THEN r.value ELSE @]
  <1> DEFINE t == [s EXCEPT !.rules = q]
  <1>1. RuleChanged(s, r) \in {t, RulesReload(t)}
    BY DEF RuleChanged, If, Then
  <1>2. /\ DOMAIN q = RuleFields /\ q.shown = s.rules.shown /\ q.rev = s.rules.rev /\ q.pending = FALSE
        /\ q.serial = s.rules.serial /\ q.loaded = s.rules.loaded
    BY DEF Base, Shaped, RuleFields
  <1> HIDE DEF q
  <1>3. s.rules.loaded = None /\ s.rules.serial \in Nat
        /\ (s.rules.shown => s.rules.rev \in Nat /\ s.rules.rev <= d.st.rev)
    BY DEF Rules
  <1>4. s.rules.serial <= s.rules.serial
    BY <1>3
  <1>5. RuleStep(s, d, q)
    BY <1>2, <1>3, <1>4 DEF RuleStep
  <1>6. Steady(s, t, Tracked) /\ Rules(t, d)
    BY <1>5, RulesField
  <1> HIDE DEF t
  <1>7. Steady(s, t, {"save", "rule"}) /\ Base(t, d) /\ Shaped(s)
    <2>1. {"save", "rule"} \subseteq Tracked
      BY DEF Tracked
    <2>2. Steady(s, t, {"save", "rule"})
      BY <1>6, <2>1, SteadyLess
    <2>3. Base(t, d)
      BY <1>6, SteadyBase
    <2> QED BY <2>2, <2>3 DEF Base
  <1>8. Steady(t, RulesReload(t), {"save", "rule"}) /\ Rules(RulesReload(t), d)
    BY <1>6, <1>7, RulesReloadSteady
  <1> QED BY <1>1, <1>6, <1>7, <1>8, SteadyTrans

-----------------------------------------------------------------------------
(***************************************************************************)
(* The switches.                                                           *)
(***************************************************************************)

\* Nothing has arrived and no request on k is new.
Keeps(s, t, k) ==
    /\ t.idle = s.idle /\ t.out = s.out
    /\ \A i \in DOMAIN t.jobs["request"] :
           \/ i \in DOMAIN s.jobs["request"] /\ t.jobs["request"][i] = s.jobs["request"][i]
           \/ ~Owns(t.jobs["request"][i], k)

LEMMA GrowsKeeps ==
    ASSUME NEW s, NEW t, NEW X, NEW n \in Switches, Grows(s, t, X), "save" \in X
    PROVE  Keeps(s, t, n)
  <1>1. "request" \in Threads /\ n # "rule"
    BY FieldNames
  <1> QED BY <1>1 DEF Grows, Keeps, Owns

LEMMA OnceKeeps == ASSUME NEW s, NEW t, NEW k, Keeps(s, t, k), Once(s, k) PROVE Once(t, k)
  BY DEF Keeps, Once

LEMMA SavesKeeps ==
    ASSUME NEW s, NEW t, NEW n \in Switches, Keeps(s, t, n), SavesMatch(s, n), t.choice[n] = s.choice[n]
    PROVE  SavesMatch(t, n)
  <1>1. \A j : Owns(j, n) <=> j.do = "save" /\ j.name = n
    BY FieldNames DEF Owns
  <1> QED BY <1>1 DEF Keeps, SavesMatch

LEMMA ChoiceKeeps ==
    ASSUME NEW s, NEW t, NEW d, NEW n \in Switches, Choice(s, d, n), Keeps(s, t, n), SameSwitch(s, t, n),
           t.last = s.last, s.dis \subseteq t.dis
    PROVE  Choice(t, d, n)
  <1>1. SavesMatch(t, n) /\ Once(t, n)
    BY OnceKeeps, SavesKeeps DEF Choice, SameSwitch
  <1>2. /\ t.row[n] = s.row[n] /\ t.choice[n] = s.choice[n] /\ t.kept[n] = s.kept[n]
        /\ t.last = s.last /\ (n \in s.dis => n \in t.dis) /\ t.idle = s.idle /\ t.out = s.out
    BY DEF SameSwitch, Keeps
  <1>3. s.kept[n] # None => Stands(t, d, n, s.kept[n])
    BY <1>2, StaleKept DEF Choice, Stands
  <1> QED BY <1>1, <1>2, <1>3 DEF Choice

\* The switch n as the status st, which is no longer on its way, is about to be applied.
Awaits(s, d, n, st) ==
    LET c == s.choice[n]
        v == s.kept[n]
    IN  /\ SavesMatch(s, n) /\ Once(s, n)
        /\ c.pending # None => s.row[n] = c.pending
        /\ v # None =>
               /\ d.st.sw[n] = v
               /\ c.pending # None => c.pending = v
               /\ c.pending = None /\ c.confirmed # None => c.confirmed = v
               /\ c.pending = None /\ c.confirmed = None /\ st.up => st.sw[n] = v
               /\ c.pending = None => NoStale(s, n, v)
               /\ \A p \in DOMAIN s.idle : Owns(s.idle[p].job, n) => OneStale(s, n, p, v)

\* The switch n once it has been.
Shows(s, d, n, st) ==
    LET c == s.choice[n]
        v == s.kept[n]
    IN  /\ SavesMatch(s, n) /\ Once(s, n)
        /\ c.pending # None => s.row[n] = c.pending
        /\ v # None =>
               /\ d.st.sw[n] = v
               /\ c.pending # None => c.pending = v
               /\ c.pending = None => c.confirmed = None /\ (st.up => s.row[n] = v) /\ NoStale(s, n, v)
               /\ \A p \in DOMAIN s.idle : Owns(s.idle[p].job, n) => OneStale(s, n, p, v)

LEMMA AwaitsKeeps ==
    ASSUME NEW s, NEW t, NEW d, NEW st, NEW n \in Switches, Keeps(s, t, n), SameSwitch(s, t, n)
    PROVE  /\ Awaits(s, d, n, st) => Awaits(t, d, n, st)
           /\ Shows(s, d, n, st) => Shows(t, d, n, st)
  <1>1. SavesMatch(s, n) /\ Once(s, n) => SavesMatch(t, n) /\ Once(t, n)
    BY OnceKeeps, SavesKeeps DEF SameSwitch
  <1>2. t.row[n] = s.row[n] /\ t.choice[n] = s.choice[n] /\ t.kept[n] = s.kept[n]
        /\ t.idle = s.idle /\ t.out = s.out
    BY DEF SameSwitch, Keeps
  <1>3. \A p, v : (OneStale(s, n, p, v) => OneStale(t, n, p, v)) /\ (NoStale(s, n, v) => NoStale(t, n, v))
    BY <1>2, StaleKept
  <1>4. Awaits(s, d, n, st) => Awaits(t, d, n, st)
    BY <1>1, <1>2, <1>3 DEF Awaits
  <1>5. Shows(s, d, n, st) => Shows(t, d, n, st)
    BY <1>1, <1>2, <1>3 DEF Shows
  <1> QED BY <1>4, <1>5

\* Only fields of the switches differ.
SwitchFields == {"last", "dis", "row", "plain", "choice", "kept"}
Choices == [pending : BOOLEAN \cup {None}, confirmed : BOOLEAN \cup {None}]
Turned(s, t) ==
    /\ DOMAIN t = Fields /\ t = [f \in Fields |-> t[f]]
    /\ \A f \in Fields \ SwitchFields : t[f] = s[f]
    /\ t.row \in [Switches -> BOOLEAN]
    /\ t.choice \in [Switches -> Choices]
    /\ t.kept \in [Switches -> BOOLEAN \cup {None}]

\* Neither the rules nor the views differ, and no tracked job is new.
Beside(s, t) == Grows(s, t, Tracked) /\ SameViews(s, t) /\ t.rules = s.rules

LEMMA TurnedBeside ==
    ASSUME NEW s, NEW t, Shaped(s), Turned(s, t)
    PROVE  Beside(s, t) /\ t.jobs = s.jobs /\ t.idle = s.idle /\ t.out = s.out /\ Shaped(t)
  <1>1. /\ t.jobs = s.jobs /\ t.idle = s.idle /\ t.out = s.out /\ t.reads = s.reads
        /\ t.rules = s.rules /\ t.shown = s.shown /\ t.tab = s.tab
        /\ t.card = s.card /\ t.media = s.media /\ t.log = s.log /\ t.run = s.run
    BY FieldNames DEF Turned, SwitchFields
  <1>2. Shaped(t)
    BY <1>1 DEF Shaped, Turned, Choices
  <1>3. Beside(s, t)
    BY <1>1, <1>2, Epochs DEF Beside, Grows, SameViews
  <1> QED BY <1>1, <1>2, <1>3

\* The parts of the invariant other than the switches.
Fine(s, d) == Base(s, d) /\ Rules(s, d) /\ Views(s)

LEMMA BesideFine ==
    ASSUME NEW s, NEW t, NEW d, Fine(s, d), Beside(s, t), Known(t.last, d)
    PROVE  Fine(t, d)
  <1>1. Base(s, d) /\ Rules(s, d) /\ Views(s)
    BY DEF Fine
  <1>2. Grows(s, t, Tracked) /\ SameViews(s, t) /\ t.rules = s.rules
    BY DEF Beside
  <1>3. Known(t.card, d)
    BY <1>1, <1>2 DEF SameViews, Base
  <1>4. Base(t, d)
    BY <1>1, <1>2, <1>3, BaseKept
  <1>5. Rules(t, d)
    BY <1>1, <1>2, RulesKept DEF Tracked
  <1>6. Views(t)
    BY <1>1, <1>2, ViewsKept
  <1> QED BY <1>4, <1>5, <1>6 DEF Fine

LEMMA QuietBeside ==
    ASSUME NEW s, NEW t, Quiet(s, t)
    PROVE  /\ Beside(s, t) /\ SameSwitches(s, t)
           /\ \A n \in Switches : Keeps(s, t, n) /\ SameSwitch(s, t, n)
  <1>1. Grows(s, t, Tracked) /\ SameSwitches(s, t) /\ t.rules = s.rules /\ SameViews(s, t)
    BY DEF Quiet, Calm
  <1>2. \A n \in Switches : Keeps(s, t, n)
    BY <1>1, GrowsKeeps DEF Tracked
  <1> QED BY <1>1, <1>2 DEF Beside, SameSwitches, SameSwitch

\* A status that arrives puts the saved choice to rest, and cannot show less than it.
LEMMA ShowSavedChoiceShows ==
    ASSUME NoneIsNew, NEW s, NEW d, NEW n \in Switches, NEW st, Fine(s, d), Awaits(s, d, n, st),
           st.sw \in [Switches -> BOOLEAN]
    PROVE  LET t == ShowSavedChoice(s, n, st.sw[n])
           IN  /\ Fine(t, d) /\ Shows(t, d, n, st) /\ t.last = s.last
               /\ \A m \in Switches \ {n} : Keeps(s, t, m) /\ SameSwitch(s, t, m)
  <1> DEFINE c == s.choice[n]
  <1> DEFINE reported == st.sw[n]
  <1> DEFINE stale == c.pending = None /\ c.confirmed # None /\ reported # c.confirmed
  <1> DEFINE conf == IF c.pending = None THEN None ELSE c.confirmed
  <1> DEFINE shows == IF c.pending # None THEN c.pending ELSE IF stale THEN c.confirmed ELSE reported
  <1> DEFINE t == [s EXCEPT !.choice[n].confirmed = conf, !.row[n] = shows]
  <1>1. ShowSavedChoice(s, n, st.sw[n]) \in {t, RefreshSettings(t)}
    BY DEF ShowSavedChoice, If, Then
  <1>2. Shaped(s) /\ Known(s.last, d)
    BY DEF Fine, Base
  <1>3. /\ c \in Choices /\ c.pending \in BOOLEAN \cup {None} /\ c.confirmed \in BOOLEAN \cup {None}
        /\ reported \in BOOLEAN
    BY <1>2 DEF Shaped, Choices
  <1>4. conf \in BOOLEAN \cup {None} /\ shows \in BOOLEAN
    BY <1>3
  <1>5. /\ c.pending # None => shows = c.pending
        /\ c.pending = None /\ c.confirmed # None => shows = c.confirmed
        /\ c.pending = None /\ c.confirmed = None => shows = reported
        /\ c.pending = None => conf = None
    OBVIOUS
  <1> HIDE DEF conf, shows, stale, reported
  <1>6. Turned(s, t)
    <2>1. t.choice = [s.choice EXCEPT ![n].confirmed = conf] /\ t.row = [s.row EXCEPT ![n] = shows]
          /\ t.kept = s.kept /\ DOMAIN t = Fields /\ t = [f \in Fields |-> t[f]]
          /\ \A f \in Fields \ SwitchFields : t[f] = s[f]
      BY <1>2, FieldNames DEF Shaped, SwitchFields
    <2>2. [s.choice EXCEPT ![n].confirmed = conf] \in [Switches -> Choices]
      <3>1. [s.choice EXCEPT ![n].confirmed = conf] = [s.choice EXCEPT ![n] = [c EXCEPT !.confirmed = conf]]
        OBVIOUS
      <3>2. [c EXCEPT !.confirmed = conf] \in Choices
        BY <1>3, <1>4 DEF Choices
      <3>3. s.choice \in [Switches -> Choices]
        BY <1>2 DEF Shaped, Choices
      <3> QED BY <3>1, <3>2, <3>3
    <2>3. [s.row EXCEPT ![n] = shows] \in [Switches -> BOOLEAN]
      BY <1>2, <1>4 DEF Shaped
    <2>4. s.kept \in [Switches -> BOOLEAN \cup {None}]
      BY <1>2 DEF Shaped
    <2> HIDE DEF t
    <2> QED BY <2>1, <2>2, <2>3, <2>4 DEF Turned
  <1>7. /\ t.choice[n].pending = c.pending /\ t.choice[n].confirmed = conf /\ t.row[n] = shows
        /\ t.kept = s.kept /\ t.last = s.last
        /\ \A m \in Switches \ {n} : t.choice[m] = s.choice[m] /\ t.row[m] = s.row[m]
    BY <1>2, FieldNames DEF Shaped
  <1> HIDE DEF t
  <1>8. Beside(s, t) /\ t.jobs = s.jobs /\ t.idle = s.idle /\ t.out = s.out /\ Shaped(t)
    BY <1>2, <1>6, TurnedBeside
  <1>9. Fine(t, d)
    BY <1>2, <1>7, <1>8, BesideFine
  <1>10. \A m \in Switches : Keeps(s, t, m)
    BY <1>8 DEF Keeps
  <1>11. Shows(t, d, n, st)
    <2>1. SavesMatch(s, n) /\ Once(s, n)
      BY DEF Awaits
    <2>2. SavesMatch(t, n) /\ Once(t, n)
      BY <1>7, <1>8, <2>1 DEF SavesMatch, Once
    <2>3. /\ \A p, v : (OneStale(s, n, p, v) => OneStale(t, n, p, v))
          /\ \A v : (NoStale(s, n, v) => NoStale(t, n, v))
      BY <1>8, StaleKept
    <2>4. c.pending # None => t.row[n] = t.choice[n].pending
      BY <1>5, <1>7
    <2>5. s.kept[n] # None =>
              /\ d.st.sw[n] = s.kept[n]
              /\ c.pending # None => c.pending = s.kept[n]
              /\ c.pending = None => NoStale(s, n, s.kept[n])
              /\ \A p \in DOMAIN s.idle : Owns(s.idle[p].job, n) => OneStale(s, n, p, s.kept[n])
      BY DEF Awaits
    <2>6. s.kept[n] # None /\ c.pending = None /\ st.up => t.row[n] = s.kept[n]
      BY <1>5, <1>7 DEF Awaits, reported
    <2> QED BY <1>5, <1>7, <1>8, <2>2, <2>3, <2>4, <2>5, <2>6 DEF Shows
  <1> DEFINE u == RefreshSettings(t)
  <1>12. Quiet(t, u)
    BY <1>8, RefreshSettingsQuiet
  <1> HIDE DEF u
  <1>13. Beside(t, u) /\ SameSwitches(t, u) /\ \A m \in Switches : Keeps(t, u, m) /\ SameSwitch(t, u, m)
    BY <1>12, QuietBeside
  <1>14. u.last = t.last /\ Fine(u, d) /\ Shows(u, d, n, st)
    <2>1. u.last = t.last
      BY <1>13 DEF SameSwitches
    <2> QED BY <1>2, <1>7, <1>9, <1>11, <1>13, <2>1, BesideFine, AwaitsKeeps
  <1>15. \A m \in Switches \ {n} : /\ Keeps(s, t, m) /\ SameSwitch(s, t, m)
                                   /\ Keeps(s, u, m) /\ SameSwitch(s, u, m)
    BY <1>7, <1>8, <1>10, <1>13 DEF SameSwitch, Keeps
  <1> QED BY <1>1, <1>7, <1>9, <1>11, <1>14, <1>15 DEF u

\* The status st is applied: it is the last one read, on every row.
LEMMA ApplyStatusGood ==
    ASSUME NoneIsNew, NEW s, NEW d, NEW st, Fine(s, d), \A n \in Switches : Awaits(s, d, n, st),
           Known(st, d)
    PROVE  Good(ApplyStatus(s, st), d)
  <1> DEFINE s0 == [s EXCEPT !.last = st]
  <1> DEFINE a == RecordStatus(s0, st)
  <1> DEFINE u == IF Has("rules") THEN RulesApply(a, st) ELSE IF Has("apps") THEN AppsApply(a, st) ELSE a
  <1> DEFINE v == ShowSavedChoice(u, "media", st.sw["media"])
  <1> DEFINE w == ShowSavedChoice(v, "reset", st.sw["reset"])
  <1> DEFINE dis == IF st.up THEN {n \in Switches : w.choice[n].pending # None} ELSE Switches \cup {"plain"}
  <1> DEFINE x == [w EXCEPT !.plain = st.plain, !.dis = dis]
  <1> DEFINE b == [x EXCEPT !.asked = TRUE]
  <1> DEFINE y == Ask(b, [do |-> "unlock"])
  <1>1. ApplyStatus(s, st) \in {x, y}
    <2> DEFINE F5(z) == IF st.up /\ ~st.open /\ ~z.asked
                        THEN Ask([z EXCEPT !.asked = TRUE], [do |-> "unlock"]) ELSE z
    <2> DEFINE F4(z) == Then([z EXCEPT !.plain = st.plain,
                                       !.dis = IF st.up THEN {n \in Switches : z.choice[n].pending # None}
                                               ELSE Switches \cup {"plain"}], F5)
    <2> DEFINE F3(z) == Then(ShowSavedChoice(z, "reset", st.sw["reset"]), F4)
    <2> DEFINE F2(z) == Then(ShowSavedChoice(z, "media", st.sw["media"]), F3)
    <2> DEFINE F1(z) == Then(IF Has("rules") THEN RulesApply(z, st)
                             ELSE IF Has("apps") THEN AppsApply(z, st) ELSE z, F2)
    <2>1. ApplyStatus(s, st) = Then(a, F1)
      BY DEF ApplyStatus
    <2>2. F5(x) \in {x, y}
      <3> HIDE DEF x
      <3> QED OBVIOUS
    <2> HIDE DEF F5
    <2>3. F4(w) = F5(x)
      <3> HIDE DEF w
      <3> QED BY DEF Then
    <2> HIDE DEF F4
    <2>4. F3(v) = F4(w)
      <3> HIDE DEF v
      <3> QED BY DEF Then
    <2> HIDE DEF F3
    <2>5. F2(u) = F3(v)
      <3> HIDE DEF u
      <3> QED BY DEF Then
    <2> HIDE DEF F2
    <2>6. F1(a) = F2(u)
      <3> HIDE DEF a
      <3> QED BY DEF Then
    <2> HIDE DEF F1
    <2>7. Then(a, F1) = F1(a)
      <3> HIDE DEF a
      <3> QED BY DEF Then
    <2> HIDE DEF x, y, w, v, u, a
    <2> QED BY <2>1, <2>2, <2>3, <2>4, <2>5, <2>6, <2>7
  <1>2. Shaped(s) /\ "media" \in Switches /\ "reset" \in Switches
    BY FieldNames DEF Fine, Base
  <1>3. Turned(s, s0) /\ s0.last = st /\ s0.row = s.row /\ s0.choice = s.choice /\ s0.kept = s.kept
    <2>1. /\ DOMAIN s0 = Fields /\ s0 = [f \in Fields |-> s0[f]] /\ s0.last = st
          /\ \A f \in Fields \ {"last"} : s0[f] = s[f]
      BY <1>2, FieldNames DEF Shaped
    <2> HIDE DEF s0
    <2>2. s0.row = s.row /\ s0.choice = s.choice /\ s0.kept = s.kept
      BY <2>1, FieldNames
    <2> QED BY <1>2, <2>1, <2>2 DEF Turned, SwitchFields, Choices, Shaped
  <1> HIDE DEF s0
  <1>4. Beside(s, s0) /\ s0.jobs = s.jobs /\ s0.idle = s.idle /\ s0.out = s.out /\ Shaped(s0)
    BY <1>2, <1>3, TurnedBeside
  <1>5. Fine(s0, d)
    BY <1>3, <1>4, BesideFine
  <1>6. \A n \in Switches : Awaits(s0, d, n, st)
    <2>1. \A n \in Switches : Keeps(s, s0, n) /\ SameSwitch(s, s0, n)
      BY <1>3, <1>4 DEF Keeps, SameSwitch
    <2> QED BY <2>1, AwaitsKeeps
  <1>7. Quiet(s0, a)
    BY <1>4, RecordStatusQuiet
  <1> HIDE DEF a
  <1>8. Fine(a, d) /\ Shaped(a) /\ a.last = st /\ \A n \in Switches : Awaits(a, d, n, st)
    <2>1. Beside(s0, a) /\ SameSwitches(s0, a) /\ \A n \in Switches : Keeps(s0, a, n) /\ SameSwitch(s0, a, n)
      BY <1>7, QuietBeside
    <2>2. a.last = st
      BY <1>3, <2>1 DEF SameSwitches
    <2> QED BY <1>5, <1>6, <1>7, <2>1, <2>2, BesideFine, AwaitsKeeps, QuietShaped
  <1>9. Fine(u, d) /\ u.last = st /\ \A n \in Switches : Awaits(u, d, n, st)
    <2>1. /\ Steady(a, RulesApply(a, st), {"save", "rule"}) /\ Rules(RulesApply(a, st), d)
      BY <1>8, RulesApplySteady DEF Fine
    <2>2. Quiet(a, AppsApply(a, st)) /\ Quiet(a, a)
      BY <1>8, AppsApplyQuiet, QuietSelf
    <2>3. ASSUME NEW z, Quiet(a, z)
          PROVE  Fine(z, d) /\ z.last = st /\ \A n \in Switches : Awaits(z, d, n, st)
      <3>1. Beside(a, z) /\ SameSwitches(a, z) /\ \A n \in Switches : Keeps(a, z, n) /\ SameSwitch(a, z, n)
        BY <2>3, QuietBeside
      <3>2. z.last = st
        BY <1>8, <3>1 DEF SameSwitches
      <3> QED BY <1>8, <3>1, <3>2, BesideFine, AwaitsKeeps
    <2>4. ASSUME NEW z, Steady(a, z, {"save", "rule"}), Rules(z, d)
          PROVE  Fine(z, d) /\ z.last = st /\ \A n \in Switches : Awaits(z, d, n, st)
      <3>1. Grows(a, z, {"save", "rule"}) /\ SameSwitches(a, z) /\ SameViews(a, z)
        BY <2>4 DEF Steady
      <3>2. Base(a, d) /\ Views(a)
        BY <1>8 DEF Fine
      <3>3. Base(z, d) /\ Views(z)
        BY <2>4, <3>1, <3>2, SteadyBase, ViewsKept
      <3>4. \A n \in Switches : Keeps(a, z, n)
        BY <3>1, GrowsKeeps
      <3>5. \A n \in Switches : SameSwitch(a, z, n)
        BY <3>1 DEF SameSwitches, SameSwitch
      <3> QED BY <1>8, <2>4, <3>1, <3>3, <3>4, <3>5, AwaitsKeeps DEF Fine, SameSwitches
    <2>5. u \in {RulesApply(a, st), AppsApply(a, st), a}
      OBVIOUS
    <2> HIDE DEF u
    <2> QED BY <2>1, <2>2, <2>3, <2>4, <2>5
  <1> HIDE DEF u
  <1>10. st.sw \in [Switches -> BOOLEAN]
    BY DEF Known
  <1>11. /\ Fine(v, d) /\ Shows(v, d, "media", st) /\ v.last = st
         /\ Keeps(u, v, "reset") /\ SameSwitch(u, v, "reset")
    <2>1. "reset" \in Switches \ {"media"}
      BY FieldNames
    <2> QED BY <1>2, <1>9, <1>10, <2>1, ShowSavedChoiceShows
  <1> HIDE DEF v
  <1>12. Awaits(v, d, "reset", st)
    BY <1>2, <1>9, <1>11, AwaitsKeeps
  <1>13. /\ Fine(w, d) /\ Shows(w, d, "reset", st) /\ w.last = st
         /\ Keeps(v, w, "media") /\ SameSwitch(v, w, "media")
    <2>1. "media" \in Switches \ {"reset"}
      BY FieldNames
    <2> QED BY <1>2, <1>10, <1>11, <1>12, <2>1, ShowSavedChoiceShows
  <1> HIDE DEF w
  <1>14. \A n \in Switches : Shows(w, d, n, st)
    <2>1. Shows(w, d, "media", st)
      BY <1>2, <1>11, <1>13, AwaitsKeeps
    <2> QED BY <1>13, <2>1, FieldNames
  <1>15. Shaped(w)
    BY <1>13 DEF Fine, Base
  <1>16. \A n \in Switches : w.choice[n].pending # None => n \in dis
    OBVIOUS
  <1> HIDE DEF dis
  <1>17. /\ Turned(w, x) /\ x.last = st /\ x.row = w.row /\ x.choice = w.choice /\ x.kept = w.kept
         /\ x.dis = dis
    <2>1. /\ DOMAIN x = Fields /\ x = [f \in Fields |-> x[f]] /\ x.dis = dis
          /\ \A f \in Fields \ {"plain", "dis"} : x[f] = w[f]
      BY <1>15, FieldNames DEF Shaped
    <2> HIDE DEF x
    <2>2. x.row = w.row /\ x.choice = w.choice /\ x.kept = w.kept /\ x.last = w.last
      BY <2>1, FieldNames
    <2> QED BY <1>13, <1>15, <2>1, <2>2 DEF Turned, SwitchFields, Choices, Shaped
  <1> HIDE DEF x
  <1>18. Beside(w, x) /\ x.jobs = w.jobs /\ x.idle = w.idle /\ x.out = w.out /\ Shaped(x)
    BY <1>15, <1>17, TurnedBeside
  <1>19. Fine(x, d)
    BY <1>13, <1>17, <1>18, BesideFine
  <1>20. \A n \in Switches : Choice(x, d, n)
    <2> SUFFICES ASSUME NEW n \in Switches PROVE Choice(x, d, n)
      OBVIOUS
    <2>1. Keeps(w, x, n) /\ SameSwitch(w, x, n)
      BY <1>17, <1>18 DEF Keeps, SameSwitch
    <2>2. Shows(x, d, n, st)
      BY <1>14, <2>1, AwaitsKeeps
    <2>3. x.choice[n].pending # None => n \in x.dis
      BY <1>16, <1>17
    <2> QED BY <1>17, <2>2, <2>3 DEF Shows, Choice, Stands
  <1>21. Good(x, d)
    BY <1>19, <1>20 DEF Good, Fine
  <1>22. Quiet(x, b) /\ Shaped(b)
    BY <1>18, OtherField, QuietShaped
  <1> HIDE DEF b
  <1>23. Quiet(b, y)
    BY <1>22, PlainAskQuiet
  <1> HIDE DEF y
  <1>24. Good(y, d)
    BY <1>21, <1>22, <1>23, QuietGood
  <1> QED BY <1>1, <1>21, <1>24

\* After a failed save every choice is given up: the last status read is shown.
LEMMA ShowAgainGood ==
    ASSUME NoneIsNew, NEW s, NEW d, Fine(s, d),
           \A n \in Switches : /\ SavesMatch(s, n) /\ Once(s, n)
                               /\ s.choice[n].pending # None => s.row[n] = s.choice[n].pending
    PROVE  Good(ShowAgain(s), d)
  <1> DEFINE t == [s EXCEPT !.kept = [n \in Switches |-> None]]
  <1>1. Shaped(s) /\ Known(s.last, d)
    BY DEF Fine, Base
  <1>2. /\ DOMAIN t = Fields /\ t = [f \in Fields |-> t[f]] /\ t.kept = [n \in Switches |-> None]
        /\ \A f \in Fields \ {"kept"} : t[f] = s[f]
    BY <1>1, FieldNames DEF Shaped
  <1>3. ShowAgain(s) = ApplyStatus(t, s.last)
    BY DEF ShowAgain
  <1> HIDE DEF t
  <1>4. t.row = s.row /\ t.choice = s.choice /\ t.last = s.last
    BY <1>2, FieldNames
  <1>5. [n \in Switches |-> None] \in [Switches -> BOOLEAN \cup {None}]
    OBVIOUS
  <1>6. Turned(s, t)
    BY <1>1, <1>2, <1>4, <1>5 DEF Turned, SwitchFields, Choices, Shaped
  <1>7. Beside(s, t) /\ t.jobs = s.jobs /\ t.idle = s.idle /\ t.out = s.out
    BY <1>1, <1>6, TurnedBeside
  <1>8. Fine(t, d)
    BY <1>1, <1>4, <1>7, BesideFine
  <1>9. \A n \in Switches : Awaits(t, d, n, s.last)
    <2> SUFFICES ASSUME NEW n \in Switches PROVE Awaits(t, d, n, s.last)
      OBVIOUS
    <2>1. SavesMatch(t, n) /\ Once(t, n)
      BY <1>4, <1>7 DEF SavesMatch, Once
    <2>2. t.kept[n] = None
      BY <1>2
    <2> QED BY <1>4, <2>1, <2>2 DEF Awaits
  <1> QED BY <1>1, <1>3, <1>8, <1>9, ApplyStatusGood

LEMMA NoneSaved ==
    ASSUME NEW s, NEW n \in Switches, NoneOwns(s, n)
    PROVE  SavesMatch(s, n) /\ Once(s, n)
  <1>1. \A j : Owns(j, n) <=> j.do = "save" /\ j.name = n
    BY FieldNames DEF Owns
  <1>2. SavesMatch(s, n)
    BY <1>1 DEF NoneOwns, SavesMatch
  <1>3. Once(s, n)
    BY DEF NoneOwns, Once
  <1> QED BY <1>2, <1>3

\* A switch that can be used has no save on its way.
LEMMA UsableFree ==
    ASSUME NoneIsNew, NEW s, NEW d, NEW n \in Switches, Base(s, d), Choice(s, d, n), n \notin s.dis
    PROVE  NoneOwns(s, n)
  <1>1. s.choice[n].pending = None /\ SavesMatch(s, n)
    BY DEF Choice
  <1>2. \A j : Owns(j, n) <=> j.do = "save" /\ j.name = n
    BY FieldNames DEF Owns
  <1>3. \A j : JobBase(s, j) /\ Owns(j, n) => j.on # None
    BY <1>2 DEF JobBase, NoneIsNew
  <1>4. /\ \A i \in DOMAIN s.jobs["request"] : JobBase(s, s.jobs["request"][i])
        /\ \A i \in DOMAIN s.idle : JobBase(s, s.idle[i].job)
        /\ s.out["request"] # None => JobBase(s, s.out["request"].job)
    BY FieldNames DEF Base
  <1> QED BY <1>1, <1>2, <1>3, <1>4 DEF SavesMatch, NoneOwns

LEMMA ToggleGood ==
    ASSUME NoneIsNew, NEW s, NEW d, NEW n \in Switches, Good(s, d), n \notin s.dis
    PROVE  Good(Toggle(s, n), d)
  <1> DEFINE on == ~s.row[n]
  <1> DEFINE c == [pending |-> on, confirmed |-> None]
  <1> DEFINE t == [s EXCEPT !.row[n] = on, !.dis = @ \cup {n}, !.kept[n] = None, !.choice[n] = c]
  <1> DEFINE j == [do |-> "save", name |-> n, on |-> on]
  <1> DEFINE y == Ask(t, j)
  <1>1. Toggle(s, n) = y
    BY DEF Toggle
  <1>2. Shaped(s) /\ Fine(s, d) /\ Base(s, d) /\ Known(s.last, d)
    BY DEF Good, Base, Fine
  <1>3. on \in BOOLEAN /\ c \in Choices /\ c.pending = on
        /\ j.do = "save" /\ j.name = n /\ j.on = on
    BY <1>2 DEF Shaped, Choices
  <1> HIDE DEF on, c
  <1>4. NoneOwns(s, n)
    BY <1>2, UsableFree DEF Good
  <1>5. /\ DOMAIN t = Fields /\ t = [f \in Fields |-> t[f]]
        /\ t.row = [s.row EXCEPT ![n] = on] /\ t.dis = s.dis \cup {n}
        /\ t.kept = [s.kept EXCEPT ![n] = None] /\ t.choice = [s.choice EXCEPT ![n] = c]
        /\ t.last = s.last
        /\ \A f \in Fields \ SwitchFields : t[f] = s[f]
    BY <1>2, FieldNames DEF Shaped, SwitchFields
  <1> HIDE DEF t
  <1>6. /\ s.row \in [Switches -> BOOLEAN] /\ s.choice \in [Switches -> Choices]
        /\ s.kept \in [Switches -> BOOLEAN \cup {None}]
    BY <1>2 DEF Shaped, Choices
  <1>7. Turned(s, t)
    BY <1>3, <1>5, <1>6 DEF Turned
  <1>8. /\ t.row[n] = on /\ t.choice[n] = c /\ t.kept[n] = None
        /\ \A m \in Switches \ {n} : SameSwitch(s, t, m)
    BY <1>5, <1>6 DEF SameSwitch
  <1>9. Beside(s, t) /\ t.jobs = s.jobs /\ t.idle = s.idle /\ t.out = s.out /\ Shaped(t)
    BY <1>2, <1>7, TurnedBeside
  <1>10. Fine(t, d)
    BY <1>2, <1>5, <1>9, BesideFine
  <1>11. j.do \in KindsOf["request"] \ {"rule", "rules"} /\ "request" \in Threads /\ JobBase(t, j)
    BY <1>3, KindNames, FieldNames DEF JobBase
  <1> HIDE DEF j
  <1>12. /\ Steady(t, y, {"rule", "rules"}) /\ y.rules = t.rules
         /\ y.jobs = [t.jobs EXCEPT !["request"] = Append(t.jobs["request"], j)]
    <2> DEFINE X == {"rule", "rules"}
    <2>1. j.do \in KindsOf["request"] \ X
      BY <1>11
    <2> HIDE DEF X
    <2>2. LET z == Submit(t, "request", j)
          IN  /\ Steady(t, z, X) /\ z.rules = t.rules
              /\ z.jobs = [t.jobs EXCEPT !["request"] = Append(t.jobs["request"], j)]
      BY <1>9, <1>11, <2>1, SubmitSteady
    <2> QED BY <2>2 DEF Ask, X
  <1> HIDE DEF y
  <1>13. Grows(t, y, {"rule", "rules"}) /\ SameSwitches(t, y) /\ SameViews(t, y)
    BY <1>12 DEF Steady
  <1>14. y.jobs["request"] = Append(s.jobs["request"], j) /\ y.idle = s.idle /\ y.out = s.out
    BY <1>9, <1>11, <1>12, <1>13 DEF Shaped, Grows
  <1>15. Fine(y, d)
    <2>1. Base(t, d) /\ Rules(t, d) /\ Views(t)
      BY <1>10 DEF Fine
    <2>2. Base(y, d) /\ Views(y) /\ Rules(y, d)
      BY <1>12, <1>13, <2>1, SteadyBase, ViewsKept, RulesKept
    <2> QED BY <2>2 DEF Fine
  <1>16. /\ y.row = t.row /\ y.choice = t.choice /\ y.kept = t.kept /\ y.last = s.last
         /\ t.dis \subseteq y.dis
    BY <1>5, <1>13 DEF SameSwitches
  <1>17. IsSeq(s.jobs["request"])
    BY <1>2, FieldNames DEF Shaped
  <1>18. \A i \in DOMAIN y.jobs["request"] :
             \/ i \in DOMAIN s.jobs["request"] /\ y.jobs["request"][i] = s.jobs["request"][i]
             \/ y.jobs["request"][i] = j
    BY <1>14, <1>17, AppendSeq
  <1>19. ASSUME NEW m \in Switches \ {n}
         PROVE  Choice(y, d, m)
    <2>1. ~Owns(j, m)
      BY <1>3, FieldNames DEF Owns, j
    <2>2. Keeps(s, y, m)
      BY <1>14, <1>18, <2>1 DEF Keeps
    <2>3. SameSwitch(s, y, m)
      BY <1>8, <1>16 DEF SameSwitch
    <2>4. Choice(s, d, m) /\ s.dis \subseteq y.dis
      BY <1>5, <1>16 DEF Good
    <2> QED BY <1>16, <2>2, <2>3, <2>4, ChoiceKeeps
  <1>20. Choice(y, d, n)
    <2>1. Once(y, n)
      BY <1>2, <1>4, <1>14, OnceAsked
    <2>2. y.choice[n].pending = on /\ y.row[n] = on /\ y.kept[n] = None /\ n \in y.dis
      BY <1>3, <1>5, <1>8, <1>16
    <2>3. SavesMatch(s, n)
      BY <1>4, NoneSaved
    <2>4. SavesMatch(y, n)
      <3>1. \A k : Owns(k, n) <=> k.do = "save" /\ k.name = n
        BY FieldNames DEF Owns
      <3>2. j.on = on
        BY <1>3 DEF j
      <3> QED BY <1>4, <1>14, <1>18, <2>2, <3>1, <3>2 DEF NoneOwns, SavesMatch
    <2> QED BY <2>1, <2>2, <2>4 DEF Choice
  <1>21. \A m \in Switches : Choice(y, d, m)
    BY <1>19, <1>20
  <1> QED BY <1>1, <1>15, <1>21 DEF Good, Fine

\* The answer to a save, which is no longer on its way.
LEMMA SavedGood ==
    ASSUME NoneIsNew, NEW s, NEW d, NEW job, NEW r, Good(s, d),
           job.do = "save", job.name \in Switches, job.on \in BOOLEAN, NoneOwns(s, job.name),
           s.choice[job.name].pending = job.on,
           s.kept[job.name] # None => OneStale(s, job.name, 0, s.kept[job.name]),
           r.ok \in BOOLEAN, r.ok => r.value = job.on
    PROVE  Good(Saved(s, job, r), d)
  <1> DEFINE n == job.name
  <1>1. Shaped(s) /\ Fine(s, d) /\ Base(s, d) /\ Known(s.last, d)
    BY DEF Good, Base, Fine
  <1>2. /\ s.row \in [Switches -> BOOLEAN] /\ s.choice \in [Switches -> Choices]
        /\ s.kept \in [Switches -> BOOLEAN \cup {None}]
    BY <1>1 DEF Shaped, Choices
  <1>3. SavesMatch(s, n) /\ Once(s, n) /\ Choice(s, d, n) /\ job.on # None
    BY NoneSaved DEF Good, NoneIsNew
  <1>4. CASE r.ok
    <2> DEFINE c == [pending |-> None, confirmed |-> r.value]
    <2> DEFINE t == [s EXCEPT !.choice[n] = c]
    <2>1. Saved(s, job, r) = RefreshSettings(t)
      BY <1>4 DEF Saved
    <2>2. c \in Choices /\ c.pending = None /\ c.confirmed = job.on
      BY <1>4 DEF Choices
    <2> HIDE DEF c
    <2>3. /\ DOMAIN t = Fields /\ t = [f \in Fields |-> t[f]]
          /\ t.choice = [s.choice EXCEPT ![n] = c] /\ \A f \in Fields \ {"choice"} : t[f] = s[f]
      BY <1>1, FieldNames DEF Shaped
    <2> HIDE DEF t
    <2>4. t.row = s.row /\ t.kept = s.kept /\ t.last = s.last /\ t.dis = s.dis
      BY <2>3, FieldNames
    <2>5. Turned(s, t)
      BY <1>2, <2>2, <2>3, <2>4 DEF Turned, SwitchFields
    <2>6. Beside(s, t) /\ t.jobs = s.jobs /\ t.idle = s.idle /\ t.out = s.out /\ Shaped(t)
      BY <1>1, <2>5, TurnedBeside
    <2>7. Fine(t, d)
      BY <1>1, <2>4, <2>6, BesideFine
    <2>8. t.choice[n] = c /\ \A m \in Switches \ {n} : SameSwitch(s, t, m)
      BY <1>2, <2>3, <2>4 DEF SameSwitch
    <2>9. \A m \in Switches \ {n} : Choice(t, d, m)
      <3>1. \A m \in Switches \ {n} : Keeps(s, t, m) /\ Choice(s, d, m)
        BY <2>6 DEF Keeps, Good
      <3> QED BY <2>4, <2>8, <3>1, ChoiceKeeps
    <2>10. Choice(t, d, n)
      <3>1. NoneOwns(t, n)
        BY <2>6 DEF NoneOwns
      <3>2. SavesMatch(t, n) /\ Once(t, n)
        BY <3>1, NoneSaved
      <3>3. s.kept[n] # None => /\ d.st.sw[n] = s.kept[n] /\ s.kept[n] = job.on /\ s.row[n] = job.on
                                /\ OneStale(t, n, 0, s.kept[n])
        BY <1>3, <2>6, StaleKept DEF Choice, Stands
      <3>4. \A p \in DOMAIN t.idle : ~Owns(t.idle[p].job, n)
        BY <3>1 DEF NoneOwns
      <3> QED BY <1>3, <2>2, <2>4, <2>8, <3>2, <3>3, <3>4 DEF Choice, Stands
    <2>11. Good(t, d)
      BY <2>7, <2>9, <2>10 DEF Good, Fine
    <2>12. Quiet(t, RefreshSettings(t))
      BY <2>6, RefreshSettingsQuiet
    <2> QED BY <2>1, <2>11, <2>12, QuietGood
  <1>5. CASE ~r.ok
    <2> DEFINE t == [s EXCEPT !.choice[n].pending = None]
    <2> DEFINE c == [s.choice[n] EXCEPT !.pending = None]
    <2>1. Saved(s, job, r) = ShowAgain(t)
      BY <1>5 DEF Saved
    <2>2. c \in Choices /\ c.pending = None
      BY <1>2 DEF Choices
    <2>3. /\ DOMAIN t = Fields /\ t = [f \in Fields |-> t[f]]
          /\ t.choice = [s.choice EXCEPT ![n] = c] /\ \A f \in Fields \ {"choice"} : t[f] = s[f]
      BY <1>1, FieldNames DEF Shaped
    <2> HIDE DEF t, c
    <2>4. t.row = s.row /\ t.kept = s.kept /\ t.last = s.last /\ t.dis = s.dis
      BY <2>3, FieldNames
    <2>5. Turned(s, t)
      BY <1>2, <2>2, <2>3, <2>4 DEF Turned, SwitchFields
    <2>6. Beside(s, t) /\ t.jobs = s.jobs /\ t.idle = s.idle /\ t.out = s.out /\ Shaped(t)
      BY <1>1, <2>5, TurnedBeside
    <2>7. Fine(t, d)
      BY <1>1, <2>4, <2>6, BesideFine
    <2>8. t.choice[n] = c /\ \A m \in Switches \ {n} : t.choice[m] = s.choice[m]
      BY <1>2, <2>3
    <2>9. SavesMatch(t, n) /\ Once(t, n)
      <3>1. NoneOwns(t, n)
        BY <2>6 DEF NoneOwns
      <3> QED BY <3>1, NoneSaved
    <2>10. ASSUME NEW m \in Switches \ {n}
           PROVE  /\ SavesMatch(t, m) /\ Once(t, m)
                  /\ t.choice[m].pending # None => t.row[m] = t.choice[m].pending
      <3>1. Choice(s, d, m)
        BY DEF Good
      <3> QED BY <2>4, <2>6, <2>8, <3>1 DEF Choice, SavesMatch, Once
    <2> QED BY <2>1, <2>2, <2>7, <2>8, <2>9, <2>10, ShowAgainGood
  <1> QED BY <1>4, <1>5

LEMMA PlainSavedGood ==
    ASSUME NoneIsNew, NEW s, NEW d, NEW r, Good(s, d)
    PROVE  Good(PlainSaved(s, r), d)
  <1>1. Shaped(s) /\ Fine(s, d)
    BY DEF Good, Base, Fine
  <1>2. Good(RefreshSettings(s), d)
    BY <1>1, RefreshSettingsQuiet, QuietGood
  <1>3. \A n \in Switches : /\ SavesMatch(s, n) /\ Once(s, n)
                            /\ s.choice[n].pending # None => s.row[n] = s.choice[n].pending
    BY DEF Good, Choice
  <1>4. Good(ShowAgain(s), d)
    BY <1>1, <1>3, ShowAgainGood
  <1> QED BY <1>2, <1>4 DEF PlainSaved

-----------------------------------------------------------------------------
(***************************************************************************)
(* The main loop.                                                          *)
(***************************************************************************)

\* The client once the first answer queued is taken off.
Taken(s) == [s EXCEPT !.idle = Tail(@)]

LEMMA TakenFields ==
    ASSUME NEW s, Shaped(s), s.idle # <<>>
    PROVE  LET t == Taken(s)
           IN  /\ Shaped(t) /\ \A f \in Fields \ {"idle"} : t[f] = s[f]
               /\ \A i \in DOMAIN t.idle :
                      i \in Nat /\ i > 0 /\ i + 1 \in DOMAIN s.idle /\ t.idle[i] = s.idle[i + 1]
               /\ 1 \in DOMAIN s.idle /\ Head(s.idle) = s.idle[1]
  <1> DEFINE t == Taken(s)
  <1>1. /\ DOMAIN t = Fields /\ t = [f \in Fields |-> t[f]] /\ t.idle = Tail(s.idle)
        /\ \A f \in Fields \ {"idle"} : t[f] = s[f]
    BY FieldNames DEF Shaped, Taken
  <1> HIDE DEF t
  <1>2. IsSeq(s.idle)
    BY DEF Shaped
  <1>3. /\ IsSeq(t.idle) /\ 1 \in DOMAIN s.idle /\ Head(s.idle) = s.idle[1]
        /\ \A i \in DOMAIN t.idle :
               i \in Nat /\ i > 0 /\ i + 1 \in DOMAIN s.idle /\ t.idle[i] = s.idle[i + 1]
    <2> DEFINE q == s.idle
    <2>1. q # <<>> /\ IsSeq(q)
      BY <1>2
    <2> HIDE DEF q
    <2>2. /\ IsSeq(Tail(q)) /\ 1 \in DOMAIN q /\ Head(q) = q[1]
          /\ \A i \in DOMAIN Tail(q) :
                 i \in Nat /\ i > 0 /\ i + 1 \in DOMAIN q /\ Tail(q)[i] = q[i + 1]
      BY <2>1, TailSeq
    <2>3. t.idle = Tail(q)
      BY <1>1 DEF q
    <2>4. /\ IsSeq(t.idle) /\ 1 \in DOMAIN q /\ Head(q) = q[1]
          /\ \A i \in DOMAIN t.idle : i \in Nat /\ i > 0 /\ i + 1 \in DOMAIN q /\ t.idle[i] = q[i + 1]
      BY <2>2, <2>3
    <2> QED BY <2>4 DEF q
  <1>4. /\ t.jobs = s.jobs /\ t.out = s.out /\ t.reads = s.reads
        /\ t.row = s.row /\ t.choice = s.choice /\ t.kept = s.kept
        /\ t.rules = s.rules /\ t.log = s.log /\ t.run = s.run
    BY <1>1, FieldNames
  <1>5. Shaped(t)
    BY <1>1, <1>3, <1>4 DEF Shaped
  <1> QED BY <1>1, <1>3, <1>5 DEF t

LEMMA TakenOnce ==
    ASSUME NEW s, NEW k, Shaped(s), s.idle # <<>>, Once(s, k)
    PROVE  Once(Taken(s), k) /\ (Owns(Head(s.idle).job, k) => NoneOwns(Taken(s), k))
  <1> DEFINE t == Taken(s)
  <1>1. /\ \A i \in DOMAIN t.idle :
               i \in Nat /\ i > 0 /\ i + 1 \in DOMAIN s.idle /\ t.idle[i] = s.idle[i + 1]
        /\ 1 \in DOMAIN s.idle /\ Head(s.idle) = s.idle[1]
        /\ \A f \in Fields \ {"idle"} : t[f] = s[f]
    BY TakenFields
  <1> HIDE DEF t
  <1>2. t.jobs = s.jobs /\ t.out = s.out
    BY <1>1, FieldNames
  <1>3. \A i, m \in DOMAIN t.idle : Owns(t.idle[i].job, k) /\ Owns(t.idle[m].job, k) => i = m
    <2> SUFFICES ASSUME NEW i \in DOMAIN t.idle, NEW m \in DOMAIN t.idle,
                        Owns(t.idle[i].job, k), Owns(t.idle[m].job, k)
                 PROVE  i = m
      OBVIOUS
    <2>1. i + 1 = m + 1
      BY <1>1 DEF Once
    <2>2. i \in Nat /\ m \in Nat
      BY <1>1
    <2> QED BY <2>1, <2>2
  <1>4. Once(t, k)
    BY <1>1, <1>2, <1>3 DEF Once
  <1>5. ASSUME Owns(Head(s.idle).job, k)
        PROVE  NoneOwns(t, k)
    <2>1. \A i \in DOMAIN t.idle : ~Owns(t.idle[i].job, k)
      <3> SUFFICES ASSUME NEW i \in DOMAIN t.idle, Owns(t.idle[i].job, k)
                   PROVE  FALSE
        OBVIOUS
      <3>1. i + 1 = 1
        BY <1>1, <1>5 DEF Once
      <3>2. i \in Nat /\ i > 0
        BY <1>1
      <3> QED BY <3>1, <3>2
    <2>2. \A i \in DOMAIN s.jobs["request"] : ~Owns(s.jobs["request"][i], k)
      BY <1>1, <1>5 DEF Once
    <2>3. s.out["request"] # None => ~Owns(s.out["request"].job, k)
      BY <1>1, <1>5 DEF Once
    <2> QED BY <1>2, <2>1, <2>2, <2>3 DEF NoneOwns
  <1> QED BY <1>4, <1>5 DEF t

LEMMA TakenStale ==
    ASSUME NEW s, NEW n, NEW v, Shaped(s), s.idle # <<>>
    PROVE  /\ \A p \in Nat : OneStale(s, n, p + 1, v) => OneStale(Taken(s), n, p, v)
           /\ OneStale(s, n, 0, v) => OneStale(Taken(s), n, 0, v)
           /\ OneStale(s, n, 0, v) /\ Setting(Head(s.idle)) => NoStale(Taken(s), n, v)
           /\ NoStale(s, n, v) => NoStale(Taken(s), n, v) /\ Reports(Head(s.idle), n, v)
  <1> DEFINE t == Taken(s)
  <1>1. /\ \A i \in DOMAIN t.idle :
               i \in Nat /\ i > 0 /\ i + 1 \in DOMAIN s.idle /\ t.idle[i] = s.idle[i + 1]
        /\ 1 \in DOMAIN s.idle /\ Head(s.idle) = s.idle[1]
        /\ \A f \in Fields \ {"idle"} : t[f] = s[f]
    BY TakenFields
  <1> HIDE DEF t
  <1>2. t.out = s.out
    BY <1>1, FieldNames
  <1>3. ASSUME NEW p \in Nat, NEW q \in Nat, q <= p + 1, OneStale(s, n, q, v)
        PROVE  OneStale(t, n, p, v)
    <2>1. \A i, m \in DOMAIN t.idle :
              p < i /\ i < m /\ Setting(t.idle[i]) => Reports(t.idle[m], n, v)
      <3> SUFFICES ASSUME NEW i \in DOMAIN t.idle, NEW m \in DOMAIN t.idle, p < i, i < m,
                          Setting(t.idle[i])
                   PROVE  Reports(t.idle[m], n, v)
        OBVIOUS
      <3>1. q < i + 1 /\ i + 1 < m + 1
        BY <1>1, <1>3
      <3> QED BY <1>1, <1>3, <3>1 DEF OneStale
    <2>2. \A i \in DOMAIN t.idle :
              p < i /\ Setting(t.idle[i]) /\ t.out["read"] # None => Reports(t.out["read"], n, v)
      <3> SUFFICES ASSUME NEW i \in DOMAIN t.idle, p < i, Setting(t.idle[i]), t.out["read"] # None
                   PROVE  Reports(t.out["read"], n, v)
        OBVIOUS
      <3>1. q < i + 1
        BY <1>1, <1>3
      <3> QED BY <1>1, <1>2, <1>3, <3>1 DEF OneStale
    <2> QED BY <2>1, <2>2 DEF OneStale
  <1>4. \A p \in Nat : OneStale(s, n, p + 1, v) => OneStale(t, n, p, v)
    <2> SUFFICES ASSUME NEW p \in Nat, OneStale(s, n, p + 1, v)
                 PROVE  OneStale(t, n, p, v)
      OBVIOUS
    <2>1. p + 1 \in Nat /\ p + 1 <= p + 1
      OBVIOUS
    <2> QED BY <1>3, <2>1
  <1>5. OneStale(s, n, 0, v) => OneStale(t, n, 0, v)
    BY <1>3
  <1>6. ASSUME OneStale(s, n, 0, v), Setting(Head(s.idle))
        PROVE  NoStale(t, n, v)
    <2>1. \A i \in DOMAIN t.idle : Reports(t.idle[i], n, v)
      <3> SUFFICES ASSUME NEW i \in DOMAIN t.idle PROVE Reports(t.idle[i], n, v)
        OBVIOUS
      <3>1. 0 < 1 /\ 1 < i + 1
        BY <1>1
      <3> QED BY <1>1, <1>6, <3>1 DEF OneStale
    <2>2. t.out["read"] # None => Reports(t.out["read"], n, v)
      <3>1. 0 < 1
        OBVIOUS
      <3> QED BY <1>1, <1>2, <1>6, <3>1 DEF OneStale
    <2> QED BY <2>1, <2>2 DEF NoStale
  <1>7. NoStale(s, n, v) => NoStale(t, n, v) /\ Reports(Head(s.idle), n, v)
    BY <1>1, <1>2 DEF NoStale
  <1> QED BY <1>4, <1>5, <1>6, <1>7 DEF t

LEMMA TakenGood ==
    ASSUME NEW s, NEW d, Good(s, d), s.idle # <<>>
    PROVE  Good(Taken(s), d)
  <1> DEFINE t == Taken(s)
  <1>1. Shaped(s) /\ Base(s, d)
    BY DEF Good, Base
  <1>2. /\ Shaped(t) /\ \A f \in Fields \ {"idle"} : t[f] = s[f]
        /\ \A i \in DOMAIN t.idle :
               i \in Nat /\ i > 0 /\ i + 1 \in DOMAIN s.idle /\ t.idle[i] = s.idle[i + 1]
        /\ 1 \in DOMAIN s.idle /\ Head(s.idle) = s.idle[1]
    BY <1>1, TakenFields
  <1>3. \A k : Once(s, k) => Once(t, k)
    BY <1>1, TakenOnce
  <1>4. \A n, v : /\ \A p \in Nat : OneStale(s, n, p + 1, v) => OneStale(t, n, p, v)
                  /\ OneStale(s, n, 0, v) => OneStale(t, n, 0, v)
                  /\ NoStale(s, n, v) => NoStale(t, n, v)
    BY <1>1, TakenStale
  <1> HIDE DEF t
  <1>5. /\ t.jobs = s.jobs /\ t.out = s.out /\ t.reads = s.reads /\ t.dis = s.dis
        /\ t.row = s.row /\ t.choice = s.choice /\ t.kept = s.kept /\ t.last = s.last
        /\ t.rules = s.rules /\ t.log = s.log /\ t.run = s.run /\ t.card = s.card
        /\ t.media = s.media /\ t.shown = s.shown /\ t.tab = s.tab
    BY <1>2, FieldNames
  <1>6. Base(t, d)
    BY <1>1, <1>2, <1>5 DEF Base, JobBase
  <1>7. ASSUME NEW n \in Switches
        PROVE  Choice(t, d, n)
    <2>1. Choice(s, d, n)
      BY DEF Good
    <2>2. SavesMatch(t, n)
      BY <1>2, <1>5, <2>1 DEF Choice, SavesMatch
    <2>3. Once(t, n)
      BY <1>3, <2>1 DEF Choice
    <2>4. ASSUME s.kept[n] # None
          PROVE  Stands(t, d, n, s.kept[n])
      <3>1. Stands(s, d, n, s.kept[n])
        BY <2>1, <2>4 DEF Choice
      <3>2. ASSUME NEW p \in DOMAIN t.idle, Owns(t.idle[p].job, n)
            PROVE  OneStale(t, n, p, s.kept[n])
        <4>1. OneStale(s, n, p + 1, s.kept[n]) /\ p \in Nat
          BY <1>2, <3>1, <3>2 DEF Stands
        <4> QED BY <1>4, <4>1
      <3> QED BY <1>4, <1>5, <3>1, <3>2 DEF Stands
    <2> QED BY <1>5, <2>1, <2>2, <2>3, <2>4 DEF Choice
  <1>8. Rules(t, d)
    <2>1. Rules(s, d)
      BY DEF Good
    <2>2. Once(t, "rule")
      BY <1>3, <2>1 DEF Rules
    <2> QED BY <1>2, <1>5, <2>1, <2>2 DEF Rules, EntryRules, JobRules
  <1>9. Views(t)
    <2>1. Views(s)
      BY DEF Good
    <2>2. Shown(t)
      BY <1>5, <2>1 DEF Views, Shown, Active, Watched, HistoryAvailable, PrivateDataAvailable
    <2>3. \A e : Fitting(s, e) => Fitting(t, e)
      BY <1>5 DEF Fitting
    <2> QED BY <1>2, <1>5, <2>1, <2>2, <2>3 DEF Views
  <1>10. Good(t, d)
    BY <1>6, <1>7, <1>8, <1>9 DEF Good
  <1> QED BY <1>10 DEF t

\* What is known of the answer that is taken off.
LEMMA TakenEntry ==
    ASSUME NEW s, NEW d, Good(s, d), s.idle # <<>>
    PROVE  LET e == Head(s.idle)
               t == Taken(s)
           IN  /\ e.job.do \in Kinds /\ JobBase(t, e.job) /\ AnswerBase(d, e.job, e.answer)
               /\ EntryRules(t, d, e) /\ Fitting(t, e)
               /\ e.job.do = "rule" => t.rules.pending /\ NoneOwns(t, "rule")
  <1> DEFINE t == Taken(s)
  <1> DEFINE e == Head(s.idle)
  <1>1. Shaped(s) /\ Base(s, d) /\ Rules(s, d) /\ Views(s)
    BY DEF Good, Base
  <1>2. /\ \A f \in Fields \ {"idle"} : t[f] = s[f]
        /\ 1 \in DOMAIN s.idle /\ Head(s.idle) = s.idle[1]
    BY <1>1, TakenFields
  <1>3. Owns(e.job, "rule") => NoneOwns(t, "rule")
    BY <1>1, TakenOnce DEF Rules
  <1> HIDE DEF t, e
  <1>4. t.reads = s.reads /\ t.rules = s.rules /\ t.card = s.card /\ e = s.idle[1]
    BY <1>2, FieldNames DEF e
  <1>5. e.job.do \in Kinds /\ JobBase(t, e.job) /\ AnswerBase(d, e.job, e.answer)
    BY <1>1, <1>2, <1>4 DEF Base, JobBase
  <1>6. EntryRules(s, d, e)
    BY <1>1, <1>2, <1>4 DEF Rules
  <1>7. EntryRules(t, d, e) /\ (e.job.do = "rule" => t.rules.pending)
    BY <1>4, <1>6 DEF EntryRules, JobRules
  <1>8. Fitting(t, e)
    BY <1>1, <1>2, <1>4 DEF Views, Fitting
  <1> QED BY <1>3, <1>5, <1>7, <1>8 DEF Owns, t, e

LEMMA TakenSave ==
    ASSUME NoneIsNew, NEW s, NEW d, Good(s, d), s.idle # <<>>, Head(s.idle).job.do = "save"
    PROVE  LET job == Head(s.idle).job
               t == Taken(s)
           IN  /\ job.name \in Switches /\ job.on \in BOOLEAN /\ NoneOwns(t, job.name)
               /\ t.choice[job.name].pending = job.on
               /\ t.kept[job.name] # None => OneStale(t, job.name, 0, t.kept[job.name])
  <1> DEFINE t == Taken(s)
  <1> DEFINE job == Head(s.idle).job
  <1> DEFINE n == job.name
  <1>1. Shaped(s) /\ Base(s, d)
    BY DEF Good, Base
  <1>2. /\ \A f \in Fields \ {"idle"} : t[f] = s[f]
        /\ 1 \in DOMAIN s.idle /\ Head(s.idle) = s.idle[1]
    BY <1>1, TakenFields
  <1>3. n \in Switches /\ job.on \in BOOLEAN
    BY <1>1, <1>2 DEF Base, JobBase
  <1>4. Owns(job, n)
    BY <1>3, FieldNames DEF Owns
  <1>5. Choice(s, d, n)
    BY <1>3 DEF Good
  <1>6. NoneOwns(t, n)
    BY <1>1, <1>4, <1>5, TakenOnce DEF Choice
  <1>7. s.choice[n].pending = job.on
    BY <1>2, <1>5 DEF Choice, SavesMatch
  <1>8. \A v : OneStale(s, n, 1, v) => OneStale(t, n, 0, v)
    <2>1. \A v : OneStale(s, n, 0 + 1, v) => OneStale(t, n, 0, v)
      BY <1>1, TakenStale
    <2> QED BY <2>1
  <1>9. s.kept[n] # None => OneStale(s, n, 1, s.kept[n])
    BY <1>2, <1>4, <1>5 DEF Choice, Stands
  <1> HIDE DEF t
  <1>10. t.choice = s.choice /\ t.kept = s.kept
    BY <1>2, FieldNames
  <1> QED BY <1>3, <1>6, <1>7, <1>8, <1>9, <1>10 DEF t

LEMMA TakenSettings ==
    ASSUME NEW s, NEW d, Good(s, d), s.idle # <<>>, Head(s.idle).job.do = "settings", Daemon(d)
    PROVE  LET r == Head(s.idle).answer
               st == IF r.ok THEN r.value ELSE Unreachable
           IN  Known(st, d) /\ \A n \in Switches : Awaits(Taken(s), d, n, st)
  <1> DEFINE t == Taken(s)
  <1> DEFINE e == Head(s.idle)
  <1> DEFINE st == IF e.answer.ok THEN e.answer.value ELSE Unreachable
  <1>1. Shaped(s) /\ Base(s, d) /\ Good(t, d)
    BY TakenGood DEF Good, Base
  <1>2. /\ \A f \in Fields \ {"idle"} : t[f] = s[f]
        /\ 1 \in DOMAIN s.idle /\ Head(s.idle) = s.idle[1]
    BY <1>1, TakenFields
  <1>3. AnswerBase(d, e.job, e.answer)
    BY <1>1, <1>2 DEF Base
  <1>4. Known(st, d) /\ (~e.answer.ok => ~st.up)
    BY <1>3, UnreachableKnown DEF AnswerBase
  <1>5. \A n, v : /\ OneStale(s, n, 0, v) => NoStale(t, n, v)
                  /\ NoStale(s, n, v) => NoStale(t, n, v) /\ Reports(e, n, v)
    BY <1>1, TakenStale DEF Setting
  <1>6. e.job.do = "settings" /\ (e.answer.ok => st = e.answer.value)
    OBVIOUS
  <1> HIDE DEF t, st
  <1>7. t.row = s.row /\ t.choice = s.choice /\ t.kept = s.kept
    BY <1>2, FieldNames
  <1>8. ASSUME NEW n \in Switches
        PROVE  Awaits(t, d, n, st)
    <2>1. Choice(s, d, n) /\ Choice(t, d, n)
      BY <1>1 DEF Good
    <2>2. SavesMatch(t, n) /\ Once(t, n)
          /\ (t.choice[n].pending # None => t.row[n] = t.choice[n].pending)
      BY <2>1 DEF Choice
    <2>3. ASSUME s.kept[n] # None
          PROVE  LET c == s.choice[n]
                     v == s.kept[n]
                 IN  /\ d.st.sw[n] = v
                     /\ c.pending # None => c.pending = v
                     /\ c.pending = None /\ c.confirmed # None => c.confirmed = v
                     /\ c.pending = None /\ c.confirmed = None /\ st.up => st.sw[n] = v
                     /\ c.pending = None => NoStale(t, n, v)
                     /\ \A p \in DOMAIN t.idle : Owns(t.idle[p].job, n) => OneStale(t, n, p, v)
      <3>1. Stands(s, d, n, s.kept[n]) /\ Stands(t, d, n, s.kept[n])
        BY <1>7, <2>1, <2>3 DEF Choice
      <3>2. Reports(e, n, s.kept[n]) /\ st.up => st.sw[n] = s.kept[n]
        BY <1>3, <1>4, <1>6 DEF Reports, Setting, AnswerBase
      <3>3. s.choice[n].pending = None => NoStale(t, n, s.kept[n])
        BY <1>5, <3>1 DEF Stands
      <3>4. s.choice[n].pending = None /\ s.choice[n].confirmed = None => Reports(e, n, s.kept[n])
        BY <1>5, <3>1 DEF Stands
      <3> HIDE DEF e
      <3> QED BY <3>1, <3>2, <3>3, <3>4 DEF Stands
    <2> QED BY <1>7, <2>2, <2>3 DEF Awaits
  <1> QED BY <1>4, <1>8 DEF t, st, e

\* A callback that concerns neither switches nor rules nor views.
LEMMA PlainCallback ==
    ASSUME NEW s, Shaped(s), NEW job, NEW r,
           job.do \in Kinds \ (Coalesced \cup {"settings", "save", "plain", "rules", "rule"})
    PROVE  Quiet(s, Callback(s, job, r))
  <1>1. job.do \in {"apps", "features", "tether", "threads", "quick", "mute", "feature", "command",
                    "sync", "act", "unlock"}
    BY KindNames DEF Kinds
  <1>2. CASE job.do = "apps"
    <2> DEFINE apps == [s.apps EXCEPT !.rows = IF r.ok THEN r.value ELSE @, !.failed = ~r.ok]
    <2>1. Callback(s, job, r) = [s EXCEPT !.apps = apps]
      BY <1>2 DEF Callback, AppsLoaded
    <2> HIDE DEF apps
    <2>2. Quiet(s, [s EXCEPT !.apps = apps])
      BY OtherField
    <2> QED BY <2>1, <2>2
  <1>3. CASE job.do = "tether"
    <2> DEFINE tether == [s.tether EXCEPT !.shown = IF r.ok THEN r.value ELSE @, !.failed = ~r.ok]
    <2>1. Callback(s, job, r) = [s EXCEPT !.tether = tether]
      BY <1>3 DEF Callback, TetherLoaded
    <2> HIDE DEF tether
    <2>2. Quiet(s, [s EXCEPT !.tether = tether])
      BY OtherField
    <2> QED BY <2>1, <2>2
  <1>4. CASE job.do = "features"
    BY <1>4, FeaturesLoadedQuiet DEF Callback
  <1>5. CASE job.do = "threads"
    BY <1>5, ThreadsLoadedQuiet DEF Callback
  <1>6. CASE job.do = "quick"
    BY <1>6, QuickSavedQuiet DEF Callback
  <1>7. CASE job.do = "mute"
    BY <1>7, AppMutedQuiet DEF Callback
  <1>8. CASE job.do = "feature"
    BY <1>8, FeatureSavedQuiet DEF Callback
  <1>9. CASE job.do = "command"
    BY <1>9, TetherAnsweredQuiet DEF Callback
  <1>10. CASE job.do = "sync"
    BY <1>10, SyncedQuiet DEF Callback
  <1>11. CASE job.do = "act"
    BY <1>11, ActedQuiet DEF Callback
  <1>12. CASE job.do = "unlock"
    BY <1>12, RefreshSettingsQuiet DEF Callback
  <1> QED BY <1>1, <1>2, <1>3, <1>4, <1>5, <1>6, <1>7, <1>8, <1>9, <1>10, <1>11, <1>12

LEMMA CallbackGood ==
    ASSUME NoneIsNew, NEW s, NEW d, Good(s, d), Daemon(d), s.idle # <<>>
    PROVE  Good(Callback(Taken(s), Head(s.idle).job, Head(s.idle).answer), d)
  <1> DEFINE t == Taken(s)
  <1> DEFINE e == Head(s.idle)
  <1>1. Good(t, d)
    BY TakenGood
  <1>2. /\ e.job.do \in Kinds /\ JobBase(t, e.job) /\ AnswerBase(d, e.job, e.answer)
        /\ EntryRules(t, d, e) /\ Fitting(t, e)
        /\ e.job.do = "rule" => t.rules.pending /\ NoneOwns(t, "rule")
    BY TakenEntry
  <1>3. e.job.do = "save" =>
            /\ e.job.name \in Switches /\ e.job.on \in BOOLEAN /\ NoneOwns(t, e.job.name)
            /\ t.choice[e.job.name].pending = e.job.on
            /\ t.kept[e.job.name] # None => OneStale(t, e.job.name, 0, t.kept[e.job.name])
    BY TakenSave
  <1>4. e.job.do = "settings" =>
            LET st == IF e.answer.ok THEN e.answer.value ELSE Unreachable
            IN  Known(st, d) /\ \A n \in Switches : Awaits(t, d, n, st)
    BY TakenSettings
  <1> SUFFICES Good(Callback(t, e.job, e.answer), d)
    OBVIOUS
  <1> HIDE DEF t, e
  <1>5. Shaped(t) /\ Base(t, d) /\ Rules(t, d) /\ Views(t) /\ Fine(t, d)
    BY <1>1 DEF Good, Base, Fine
  <1>6. CASE e.job.do \in Coalesced
    <2>1. Callback(t, e.job, e.answer) = Completed(t, e.job, e.answer)
      BY <1>6, KindNames DEF Callback
    <2> DEFINE y == Completed(t, e.job, e.answer)
    <2>2. Calm(t, y) /\ Known(y.card, d) /\ Views(y)
      BY <1>2, <1>5, <1>6, CompletedViews
    <2> HIDE DEF y
    <2>3. Good(y, d)
      BY <1>1, <2>2, CalmGood
    <2> QED BY <2>1, <2>3 DEF y
  <1>7. CASE e.job.do = "settings"
    <2> DEFINE st == IF e.answer.ok THEN e.answer.value ELSE Unreachable
    <2>1. Callback(t, e.job, e.answer) = ApplyStatus(t, st)
      BY <1>7 DEF Callback
    <2>2. Known(st, d) /\ \A n \in Switches : Awaits(t, d, n, st)
      BY <1>4, <1>7
    <2> HIDE DEF st
    <2>3. Good(ApplyStatus(t, st), d)
      BY <1>5, <2>2, ApplyStatusGood
    <2> QED BY <2>1, <2>3
  <1>8. CASE e.job.do = "save"
    <2>1. Callback(t, e.job, e.answer) = Saved(t, e.job, e.answer)
      BY <1>8 DEF Callback
    <2>2. e.answer.ok \in BOOLEAN /\ (e.answer.ok => e.answer.value = e.job.on)
      BY <1>2, <1>8 DEF AnswerBase
    <2>3. Good(Saved(t, e.job, e.answer), d)
      BY <1>1, <1>3, <1>8, <2>2, SavedGood
    <2> QED BY <2>1, <2>3
  <1>9. CASE e.job.do = "plain"
    <2>1. Callback(t, e.job, e.answer) = PlainSaved(t, e.answer)
      BY <1>9 DEF Callback
    <2> QED BY <1>1, <2>1, PlainSavedGood
  <1>10. CASE e.job.do = "rules"
    <2>1. Callback(t, e.job, e.answer) = RulesLoaded(t, e.job, e.answer)
      BY <1>10 DEF Callback
    <2>2. e.answer.ok \in BOOLEAN
      BY <1>2 DEF AnswerBase
    <2>3. /\ Steady(t, RulesLoaded(t, e.job, e.answer), Tracked)
          /\ Rules(RulesLoaded(t, e.job, e.answer), d)
      BY <1>2, <1>5, <1>10, <2>2, RulesLoadedSteady
    <2>4. "save" \in Tracked
      BY DEF Tracked
    <2> QED BY <1>1, <2>1, <2>3, <2>4, SteadyGood
  <1>11. CASE e.job.do = "rule"
    <2>1. Callback(t, e.job, e.answer) = RuleChanged(t, e.answer)
      BY <1>11 DEF Callback
    <2>2. /\ Steady(t, RuleChanged(t, e.answer), {"save", "rule"}) /\ Rules(RuleChanged(t, e.answer), d)
      BY <1>2, <1>5, <1>11, RuleChangedSteady
    <2>3. "save" \in {"save", "rule"}
      OBVIOUS
    <2> QED BY <1>1, <2>1, <2>2, <2>3, SteadyGood
  <1>12. CASE e.job.do \notin Coalesced \cup {"settings", "save", "plain", "rules", "rule"}
    <2>1. Quiet(t, Callback(t, e.job, e.answer))
      BY <1>2, <1>5, <1>12, PlainCallback
    <2> QED BY <1>1, <2>1, QuietGood
  <1> QED BY <1>6, <1>7, <1>8, <1>9, <1>10, <1>11, <1>12

SignalNames == {"status", "media", "log", "calls", "apps", "tether", "threads"}

LEMMA SignalledQuiet ==
    ASSUME NEW s, Shaped(s), NEW sig \in SignalNames
    PROVE  Quiet(s, Signalled(s, sig))
  <1>1. CASE sig = "status"
    <2>1. Quiet(s, Refresh(s, "status")) /\ Shaped(Refresh(s, "status"))
      BY RefreshQuiet, QuietShaped, KindNames
    <2>2. Quiet(Refresh(s, "status"), RefreshSettings(Refresh(s, "status")))
      BY <2>1, RefreshSettingsQuiet
    <2>3. Signalled(s, sig) = RefreshSettings(Refresh(s, "status"))
      BY <1>1 DEF Signalled
    <2> QED BY <2>1, <2>2, <2>3, QuietTrans
  <1>2. CASE sig \in {"media", "log", "calls"}
    <2>1. Signalled(s, sig) = Refresh(s, sig) /\ sig \in Coalesced
      BY <1>2, KindNames DEF Signalled
    <2> QED BY <2>1, RefreshQuiet
  <1>3. CASE sig = "apps"
    <2>1. Signalled(s, sig) \in {s, AppsLoad(s)}
      BY <1>3 DEF Signalled
    <2>2. Quiet(s, AppsLoad(s)) /\ Quiet(s, s)
      BY AppsLoadQuiet, QuietSelf
    <2> QED BY <2>1, <2>2
  <1>4. CASE sig = "tether"
    BY <1>4, RefreshTetherQuiet DEF Signalled
  <1>5. CASE sig = "threads"
    BY <1>5, ReloadThreadsQuiet DEF Signalled
  <1> QED BY <1>1, <1>2, <1>3, <1>4, <1>5 DEF SignalNames

-----------------------------------------------------------------------------
(***************************************************************************)
(* The daemon and the worker threads.                                      *)
(***************************************************************************)

\* The daemon goes from d to e: neither the phones nor the revisions of the rules go back.
Moves(d, e) == Daemon(d) /\ Daemon(e) /\ d.st.prof <= e.st.prof /\ d.st.rev <= e.st.rev

LEMMA DaemonTypes ==
    ASSUME NEW d, Daemon(d)
    PROVE  /\ d.st.prof \in Nat /\ d.st.rev \in Nat /\ d.st.up
           /\ d.st.sw \in [Switches -> BOOLEAN] /\ Known(d.st, d)
  BY DEF Daemon, Known

LEMMA KnownKept ==
    ASSUME NEW d, NEW e, NEW st, Moves(d, e), Known(st, d)
    PROVE  Known(st, e)
  <1>1. /\ d.st.prof \in Nat /\ d.st.rev \in Nat /\ e.st.prof \in Nat /\ e.st.rev \in Nat
        /\ d.st.prof <= e.st.prof /\ d.st.rev <= e.st.rev
    BY DaemonTypes DEF Moves
  <1>2. st.prof \in Nat /\ st.prof <= d.st.prof
    BY DEF Known
  <1>3. st.prof <= e.st.prof
    BY <1>1, <1>2
  <1>4. st.up => st.rev \in Nat /\ st.rev <= e.st.rev
    BY <1>1 DEF Known
  <1> QED BY <1>3, <1>4 DEF Known

\* What is true of the client whatever the switches are stays true as the daemon moves.
LEMMA FineMoves ==
    ASSUME NEW s, NEW d, NEW e, Fine(s, d), Moves(d, e)
    PROVE  Fine(s, e)
  <1>1. Base(s, d) /\ Rules(s, d) /\ Views(s)
    BY DEF Fine
  <1>2. \A st : Known(st, d) => Known(st, e)
    BY KnownKept
  <1>3. \A j, r : AnswerBase(d, j, r) => AnswerBase(e, j, r)
    BY <1>2 DEF AnswerBase
  <1>4. Base(s, e)
    BY <1>1, <1>2, <1>3 DEF Base
  <1>5. d.st.rev \in Nat /\ e.st.rev \in Nat /\ d.st.rev <= e.st.rev
    BY DaemonTypes DEF Moves
  <1>6. \A x \in Nat : x <= d.st.rev => x <= e.st.rev
    BY <1>5
  <1>7. \A j : JobRules(s, d, j) => JobRules(s, e, j)
    BY <1>6 DEF JobRules
  <1>8. Rules(s, e)
    BY <1>1, <1>6, <1>7 DEF Rules, EntryRules
  <1> QED BY <1>1, <1>4, <1>8 DEF Fine

\* The ghost kept becomes k.
LEMMA KeptField ==
    ASSUME NEW s, NEW k, Shaped(s), k \in [Switches -> BOOLEAN \cup {None}]
    PROVE  LET t == [s EXCEPT !.kept = k]
           IN  /\ Turned(s, t) /\ t.kept = k /\ t.row = s.row /\ t.choice = s.choice
               /\ t.last = s.last /\ t.dis = s.dis
  <1> DEFINE t == [s EXCEPT !.kept = k]
  <1>1. /\ DOMAIN t = Fields /\ t = [f \in Fields |-> t[f]] /\ t.kept = k
        /\ \A f \in Fields \ {"kept"} : t[f] = s[f]
    BY FieldNames DEF Shaped
  <1> HIDE DEF t
  <1>2. t.row = s.row /\ t.choice = s.choice /\ t.last = s.last /\ t.dis = s.dis
    BY <1>1, FieldNames
  <1>3. Turned(s, t)
    BY <1>1, <1>2 DEF Turned, SwitchFields, Choices, Shaped
  <1> QED BY <1>1, <1>2, <1>3 DEF t

\* k keeps no more than what the client kept, or a choice just carried out.
LEMMA KeptGood ==
    ASSUME NEW s, NEW d, NEW e, NEW k, Good(s, d), Moves(d, e), k \in [Switches -> BOOLEAN \cup {None}],
           \A n \in Switches : k[n] # None =>
               /\ e.st.sw[n] = k[n]
               /\ \/ k[n] = s.kept[n]
                  \/ /\ s.choice[n].pending # None /\ s.choice[n].pending = k[n]
                     /\ \A p \in DOMAIN s.idle : ~Owns(s.idle[p].job, n)
    PROVE  Good([s EXCEPT !.kept = k], e)
  <1> DEFINE t == [s EXCEPT !.kept = k]
  <1>1. Shaped(s) /\ Fine(s, d)
    BY DEF Good, Base, Fine
  <1>2. /\ Turned(s, t) /\ t.kept = k /\ t.row = s.row /\ t.choice = s.choice
        /\ t.last = s.last /\ t.dis = s.dis
    BY <1>1, KeptField
  <1> SUFFICES Good(t, e)
    OBVIOUS
  <1> HIDE DEF t
  <1>3. Fine(s, e) /\ Known(s.last, e)
    BY <1>1, FineMoves DEF Fine, Base
  <1>4. Beside(s, t) /\ t.jobs = s.jobs /\ t.idle = s.idle /\ t.out = s.out
    BY <1>1, <1>2, TurnedBeside
  <1>5. Fine(t, e)
    BY <1>2, <1>3, <1>4, BesideFine
  <1>6. ASSUME NEW n \in Switches
        PROVE  Choice(t, e, n)
    <2>1. Choice(s, d, n)
      BY DEF Good
    <2>2. SavesMatch(t, n) /\ Once(t, n)
      BY <1>2, <1>4, <2>1 DEF Choice, SavesMatch, Once
    <2>3. ASSUME k[n] # None
          PROVE  Stands(t, e, n, k[n])
      <3>1. CASE k[n] = s.kept[n]
        <4>1. Stands(s, d, n, k[n])
          BY <2>1, <2>3, <3>1 DEF Choice
        <4>2. \A p : OneStale(s, n, p, k[n]) => OneStale(t, n, p, k[n])
          BY <1>4, StaleKept
        <4>3. NoStale(s, n, k[n]) => NoStale(t, n, k[n])
          BY <1>4, StaleKept
        <4> QED BY <1>2, <1>4, <2>3, <4>1, <4>2, <4>3 DEF Stands
      <3>2. CASE /\ s.choice[n].pending # None /\ s.choice[n].pending = k[n]
                 /\ \A p \in DOMAIN s.idle : ~Owns(s.idle[p].job, n)
        BY <1>2, <1>4, <2>3, <3>2 DEF Stands
      <3> QED BY <2>3, <3>1, <3>2
    <2> QED BY <1>2, <2>1, <2>2, <2>3 DEF Choice
  <1> QED BY <1>5, <1>6 DEF Good, Fine

LEMMA SettlingGood ==
    ASSUME NEW s, NEW d, NEW e, Good(s, d), Moves(d, e)
    PROVE  Good(Settling(s, e), e)
  <1> DEFINE k == [n \in Switches |-> IF s.kept[n] = e.st.sw[n] THEN s.kept[n] ELSE None]
  <1>1. s.kept \in [Switches -> BOOLEAN \cup {None}]
    BY DEF Good, Base, Shaped
  <1>2. k \in [Switches -> BOOLEAN \cup {None}]
    BY <1>1
  <1>3. \A n \in Switches : k[n] # None => e.st.sw[n] = k[n] /\ k[n] = s.kept[n]
    OBVIOUS
  <1>4. Settling(s, e) = [s EXCEPT !.kept = k]
    BY DEF Settling
  <1> HIDE DEF k
  <1>5. Good([s EXCEPT !.kept = k], e)
    BY <1>2, <1>3, KeptGood
  <1> QED BY <1>4, <1>5

\* A save that the daemon carries out is the choice pending.
LEMMA CarriedGood ==
    ASSUME NoneIsNew, NEW s, NEW d, NEW e, NEW i \in DOMAIN s.jobs["request"], Good(s, d), Moves(d, e),
           LET job == s.jobs["request"][i]
           IN  job.do = "save" => e.st.sw[job.name] = job.on
    PROVE  Good(Settling(Carried(s, s.jobs["request"][i]), e), e)
  <1> DEFINE job == s.jobs["request"][i]
  <1>1. CASE job.do # "save"
    BY <1>1, SettlingGood DEF Carried
  <1>2. CASE job.do = "save"
    <2> DEFINE c == [s EXCEPT !.kept[job.name] = job.on]
    <2> DEFINE k == [n \in Switches |-> IF c.kept[n] = e.st.sw[n] THEN c.kept[n] ELSE None]
    <2>1. Shaped(s) /\ Base(s, d)
      BY DEF Good, Base
    <2>2. job.name \in Switches /\ job.on \in BOOLEAN
      BY <1>2, <2>1, FieldNames DEF Base, JobBase
    <2>3. s.kept \in [Switches -> BOOLEAN \cup {None}]
      BY <2>1 DEF Shaped
    <2>4. c.kept = [s.kept EXCEPT ![job.name] = job.on] /\ DOMAIN c = Fields /\ c = [f \in Fields |-> c[f]]
          /\ \A f \in Fields \ {"kept"} : c[f] = s[f]
      BY <2>1, FieldNames DEF Shaped
    <2>5. Settling(Carried(s, job), e) = [c EXCEPT !.kept = k]
      BY <1>2 DEF Carried, Settling
    <2> HIDE DEF c
    <2>6. /\ k \in [Switches -> BOOLEAN \cup {None}]
          /\ \A n \in Switches : k[n] # None =>
                 e.st.sw[n] = k[n] /\ (k[n] = s.kept[n] \/ (n = job.name /\ k[n] = job.on))
      BY <2>2, <2>3, <2>4
    <2> HIDE DEF k
    <2>7. [c EXCEPT !.kept = k] = [s EXCEPT !.kept = k]
      <3> DEFINE x == [c EXCEPT !.kept = k]
      <3> DEFINE y == [s EXCEPT !.kept = k]
      <3>1. DOMAIN x = Fields /\ x = [f \in Fields |-> x[f]] /\ x.kept = k
            /\ \A f \in Fields \ {"kept"} : x[f] = c[f]
        BY <2>4, FieldNames
      <3>2. DOMAIN y = Fields /\ y = [f \in Fields |-> y[f]] /\ y.kept = k
            /\ \A f \in Fields \ {"kept"} : y[f] = s[f]
        BY <2>1, FieldNames DEF Shaped
      <3> HIDE DEF x, y
      <3>3. \A f \in Fields : x[f] = y[f]
        BY <2>4, <3>1, <3>2
      <3>4. x = y
        BY <3>1, <3>2, <3>3
      <3> QED BY <3>4 DEF x, y
    <2>8. Choice(s, d, job.name)
      BY <2>2 DEF Good
    <2>9. Owns(job, job.name)
      BY <1>2, <2>2, FieldNames DEF Owns
    <2>10. s.choice[job.name].pending = job.on /\ job.on # None
      BY <1>2, <2>2, <2>8 DEF Choice, SavesMatch, NoneIsNew
    <2>11. \A p \in DOMAIN s.idle : ~Owns(s.idle[p].job, job.name)
      BY <2>8, <2>9 DEF Choice, Once
    <2>12. Good([s EXCEPT !.kept = k], e)
      BY <2>6, <2>10, <2>11, KeptGood
    <2> QED BY <2>5, <2>7, <2>12
  <1> QED BY <1>1, <1>2

\* The thread h has carried out its first job and holds the answer r.
Holds(s, h, r) ==
    [s EXCEPT !.jobs[h] = Tail(@), !.out[h] = [job |-> Head(s.jobs[h]), answer |-> r]]

\* r answers the job j as the daemon d is.
Fair(d, j, r) ==
    /\ AnswerBase(d, j, r)
    /\ j.do = "rules" /\ r.ok => r.value = d.st.rev
    /\ j.do \in {"log", "calls"} /\ r.ok => r.value.prof = d.st.prof
    /\ j.do = "settings" /\ r.ok => r.value.sw = d.st.sw

LEMMA HoldsFields ==
    ASSUME NEW s, NEW h \in Threads, NEW r, Shaped(s), s.jobs[h] # <<>>
    PROVE  LET t == Holds(s, h, r)
           IN  /\ Shaped(t) /\ \A f \in Fields \ {"jobs", "out"} : t[f] = s[f]
               /\ \A i \in DOMAIN t.jobs[h] :
                      i \in Nat /\ i > 0 /\ i + 1 \in DOMAIN s.jobs[h] /\ t.jobs[h][i] = s.jobs[h][i + 1]
               /\ 1 \in DOMAIN s.jobs[h]
               /\ t.out[h].job = s.jobs[h][1] /\ t.out[h].answer = r
               /\ \A g \in Threads \ {h} : t.jobs[g] = s.jobs[g] /\ t.out[g] = s.out[g]
  <1> DEFINE t == Holds(s, h, r)
  <1> DEFINE q == s.jobs[h]
  <1> DEFINE o == [job |-> Head(q), answer |-> r]
  <1>0. t = [s EXCEPT !.jobs[h] = Tail(q), !.out[h] = o]
    BY DEF Holds
  <1>1. IsSeq(q) /\ q # <<>>
    BY DEF Shaped
  <1>2. o.job = Head(q) /\ o.answer = r
    OBVIOUS
  <1> HIDE DEF q, o
  <1>3. /\ DOMAIN t = Fields /\ t = [f \in Fields |-> t[f]]
        /\ t.jobs = [s.jobs EXCEPT ![h] = Tail(q)] /\ t.out = [s.out EXCEPT ![h] = o]
        /\ \A f \in Fields \ {"jobs", "out"} : t[f] = s[f]
    BY <1>0, FieldNames DEF Shaped
  <1> HIDE DEF t
  <1>4. /\ IsSeq(Tail(q)) /\ 1 \in DOMAIN q /\ Head(q) = q[1]
        /\ \A i \in DOMAIN Tail(q) : i \in Nat /\ i > 0 /\ i + 1 \in DOMAIN q /\ Tail(q)[i] = q[i + 1]
    BY <1>1, TailSeq
  <1>5. /\ t.jobs[h] = Tail(q) /\ t.out[h] = o /\ DOMAIN t.jobs = Threads /\ DOMAIN t.out = Threads
        /\ t.jobs = [g \in Threads |-> t.jobs[g]] /\ t.out = [g \in Threads |-> t.out[g]]
        /\ \A g \in Threads \ {h} : t.jobs[g] = s.jobs[g] /\ t.out[g] = s.out[g]
    BY <1>3 DEF Shaped
  <1>6. \A g \in Threads : IsSeq(t.jobs[g])
    BY <1>4, <1>5 DEF Shaped
  <1>7. /\ t.idle = s.idle /\ t.reads = s.reads
        /\ t.row = s.row /\ t.choice = s.choice /\ t.kept = s.kept
        /\ t.rules = s.rules /\ t.log = s.log /\ t.run = s.run
    BY <1>3, FieldNames
  <1>8. Shaped(t)
    BY <1>3, <1>5, <1>6, <1>7 DEF Shaped
  <1>9. \A i \in DOMAIN t.jobs[h] :
            i \in Nat /\ i > 0 /\ i + 1 \in DOMAIN s.jobs[h] /\ t.jobs[h][i] = s.jobs[h][i + 1]
    BY <1>4, <1>5 DEF q
  <1>10. 1 \in DOMAIN s.jobs[h] /\ t.out[h].job = s.jobs[h][1] /\ t.out[h].answer = r
    BY <1>2, <1>4, <1>5 DEF q
  <1> QED BY <1>3, <1>5, <1>8, <1>9, <1>10 DEF t

LEMMA HoldsOnce ==
    ASSUME NEW s, NEW h \in Threads, NEW r, NEW k, Shaped(s), s.jobs[h] # <<>>, s.out[h] = None, Once(s, k)
    PROVE  Once(Holds(s, h, r), k)
  <1> DEFINE t == Holds(s, h, r)
  <1>1. /\ \A f \in Fields \ {"jobs", "out"} : t[f] = s[f]
        /\ \A i \in DOMAIN t.jobs[h] :
               i \in Nat /\ i > 0 /\ i + 1 \in DOMAIN s.jobs[h] /\ t.jobs[h][i] = s.jobs[h][i + 1]
        /\ 1 \in DOMAIN s.jobs[h]
        /\ t.out[h].job = s.jobs[h][1] /\ t.out[h].answer = r
        /\ \A g \in Threads \ {h} : t.jobs[g] = s.jobs[g] /\ t.out[g] = s.out[g]
    BY HoldsFields
  <1> SUFFICES Once(t, k)
    OBVIOUS
  <1> HIDE DEF t
  <1>2. t.idle = s.idle
    BY <1>1, FieldNames
  <1>3. CASE h = "read"
    <2>1. t.jobs["request"] = s.jobs["request"] /\ t.out["request"] = s.out["request"]
      BY <1>1, <1>3, FieldNames
    <2> QED BY <1>2, <2>1 DEF Once
  <1>4. CASE h = "request"
    <2>1. \A i, m \in DOMAIN t.jobs["request"] :
              Owns(t.jobs["request"][i], k) /\ Owns(t.jobs["request"][m], k) => i = m
      <3> SUFFICES ASSUME NEW i \in DOMAIN t.jobs["request"], NEW m \in DOMAIN t.jobs["request"],
                          Owns(t.jobs["request"][i], k), Owns(t.jobs["request"][m], k)
                   PROVE  i = m
        OBVIOUS
      <3>1. i + 1 = m + 1
        BY <1>1, <1>4 DEF Once
      <3>2. i \in Nat /\ m \in Nat
        BY <1>1, <1>4
      <3> QED BY <3>1, <3>2
    <2>2. \A i \in DOMAIN t.jobs["request"], m \in DOMAIN t.idle :
              ~(Owns(t.jobs["request"][i], k) /\ Owns(t.idle[m].job, k))
      BY <1>1, <1>2, <1>4 DEF Once
    <2>3. ASSUME Owns(t.out["request"].job, k)
          PROVE  /\ \A i \in DOMAIN t.jobs["request"] : ~Owns(t.jobs["request"][i], k)
                 /\ \A i \in DOMAIN t.idle : ~Owns(t.idle[i].job, k)
      <3>1. Owns(s.jobs["request"][1], k) /\ 1 \in DOMAIN s.jobs["request"]
        BY <1>1, <1>4, <2>3
      <3>2. \A i \in DOMAIN t.jobs["request"] : ~Owns(t.jobs["request"][i], k)
        <4> SUFFICES ASSUME NEW i \in DOMAIN t.jobs["request"], Owns(t.jobs["request"][i], k)
                     PROVE  FALSE
          OBVIOUS
        <4>1. i + 1 = 1 /\ i \in Nat /\ i > 0
          BY <1>1, <1>4, <3>1 DEF Once
        <4> QED BY <4>1
      <3> QED BY <1>2, <3>1, <3>2 DEF Once
    <2>4. \A i, m \in DOMAIN t.idle : Owns(t.idle[i].job, k) /\ Owns(t.idle[m].job, k) => i = m
      BY <1>2 DEF Once
    <2> QED BY <2>1, <2>2, <2>3, <2>4 DEF Once
  <1> QED BY <1>3, <1>4, FieldNames

LEMMA HoldsGood ==
    ASSUME NEW s, NEW d, NEW h \in Threads, NEW r, Good(s, d), Daemon(d), s.jobs[h] # <<>>,
           s.out[h] = None, Fair(d, Head(s.jobs[h]), r)
    PROVE  Good(Holds(s, h, r), d)
  <1> DEFINE t == Holds(s, h, r)
  <1>1. Shaped(s) /\ Base(s, d) /\ Rules(s, d) /\ Views(s)
    BY DEF Good, Base
  <1>2. /\ Shaped(t) /\ \A f \in Fields \ {"jobs", "out"} : t[f] = s[f]
        /\ \A i \in DOMAIN t.jobs[h] :
               i \in Nat /\ i > 0 /\ i + 1 \in DOMAIN s.jobs[h] /\ t.jobs[h][i] = s.jobs[h][i + 1]
        /\ 1 \in DOMAIN s.jobs[h]
        /\ t.out[h].job = s.jobs[h][1] /\ t.out[h].answer = r
        /\ \A g \in Threads \ {h} : t.jobs[g] = s.jobs[g] /\ t.out[g] = s.out[g]
    BY <1>1, HoldsFields
  <1>3. \A k : Once(s, k) => Once(t, k)
    BY <1>1, HoldsOnce
  <1>4. Fair(d, s.jobs[h][1], r)
    <2> DEFINE q == s.jobs[h]
    <2>1. IsSeq(q) /\ q # <<>> /\ Fair(d, Head(q), r)
      BY <1>1 DEF Shaped
    <2> HIDE DEF q
    <2>2. Head(q) = q[1]
      BY <2>1, TailSeq
    <2>3. Fair(d, q[1], r)
      BY <2>1, <2>2
    <2> QED BY <2>3 DEF q
  <1> SUFFICES Good(t, d)
    OBVIOUS
  <1> HIDE DEF t
  <1>5. /\ t.idle = s.idle /\ t.reads = s.reads /\ t.dis = s.dis
        /\ t.row = s.row /\ t.choice = s.choice /\ t.kept = s.kept /\ t.last = s.last
        /\ t.rules = s.rules /\ t.log = s.log /\ t.run = s.run /\ t.card = s.card
        /\ t.media = s.media /\ t.shown = s.shown /\ t.tab = s.tab
    BY <1>2, FieldNames
  <1>6. \A j : JobBase(s, j) <=> JobBase(t, j)
    BY <1>5 DEF JobBase
  <1>7. \A g \in Threads : \A i \in DOMAIN t.jobs[g] : \E m \in DOMAIN s.jobs[g] : t.jobs[g][i] = s.jobs[g][m]
    BY <1>2
  <1>8. Base(t, d)
    <2>1. \A g \in Threads : \A i \in DOMAIN t.jobs[g] :
              t.jobs[g][i].do \in KindsOf[g] /\ JobBase(t, t.jobs[g][i])
      BY <1>1, <1>6, <1>7 DEF Base
    <2>2. \A g \in Threads : t.out[g] # None =>
              /\ t.out[g].job.do \in KindsOf[g] /\ JobBase(t, t.out[g].job)
              /\ AnswerBase(d, t.out[g].job, t.out[g].answer)
      <3>1. /\ t.out[h].job.do \in KindsOf[h] /\ JobBase(t, t.out[h].job)
            /\ AnswerBase(d, t.out[h].job, t.out[h].answer)
        BY <1>1, <1>2, <1>4, <1>6 DEF Base, Fair
      <3> QED BY <1>1, <1>2, <1>6, <3>1 DEF Base
    <2> QED BY <1>1, <1>2, <1>5, <1>6, <2>1, <2>2 DEF Base
  <1>9. d.st.rev \in Nat /\ d.st.prof \in Nat
    BY DaemonTypes
  <1>10. Rules(t, d)
    <2>1. \A j : JobRules(s, d, j) <=> JobRules(t, d, j)
      BY <1>5 DEF JobRules
    <2>2. \A g \in Threads : \A i \in DOMAIN t.jobs[g] : JobRules(t, d, t.jobs[g][i])
      BY <1>1, <1>7, <2>1 DEF Rules
    <2>3. EntryRules(t, d, t.out[h])
      <3>1. JobRules(s, d, t.out[h].job)
        BY <1>1, <1>2 DEF Rules
      <3>2. t.out[h].job.do = "rules" /\ r.ok => r.value \in Nat /\ t.out[h].job.rev <= r.value
        BY <1>2, <1>4, <1>9, <3>1 DEF JobRules, Fair
      <3> QED BY <1>2, <2>1, <3>1, <3>2 DEF EntryRules
    <2>4. \A g \in Threads : t.out[g] # None => EntryRules(t, d, t.out[g])
      BY <1>1, <1>2, <2>1, <2>3 DEF Rules, EntryRules
    <2>5. \A i \in DOMAIN t.idle : EntryRules(t, d, t.idle[i])
      BY <1>1, <1>5, <2>1 DEF Rules, EntryRules
    <2>6. Once(t, "rule")
      BY <1>1, <1>3 DEF Rules
    <2> QED BY <1>1, <1>5, <2>2, <2>4, <2>5, <2>6 DEF Rules
  <1>11. Views(t)
    <2>1. \A e : Fitting(s, e) <=> Fitting(t, e)
      BY <1>5 DEF Fitting
    <2>2. Shown(t)
      BY <1>1, <1>5 DEF Views, Shown, Active, Watched, HistoryAvailable, PrivateDataAvailable
    <2>3. Fitting(t, t.out[h])
      <3>1. s.card.prof <= d.st.prof
        BY <1>1 DEF Base, Known
      <3> QED BY <1>2, <1>4, <1>5, <1>9, <3>1 DEF Fitting, Fair
    <2>4. t.out["read"] # None => Fitting(t, t.out["read"])
      BY <1>1, <1>2, <2>1, <2>3, FieldNames DEF Views
    <2>5. \A i \in DOMAIN t.idle : Fitting(t, t.idle[i])
      BY <1>1, <1>5, <2>1 DEF Views
    <2> QED BY <1>1, <1>5, <2>2, <2>4, <2>5 DEF Views
  <1>12. ASSUME NEW n \in Switches
         PROVE  Choice(t, d, n)
    <2>1. Choice(s, d, n)
      BY DEF Good
    <2>2. Once(t, n)
      BY <1>3, <2>1 DEF Choice
    <2>3. SavesMatch(t, n)
      <3>1. \A i \in DOMAIN t.jobs["request"] : \E m \in DOMAIN s.jobs["request"] :
                t.jobs["request"][i] = s.jobs["request"][m]
        BY <1>7, FieldNames
      <3>2. \/ t.out["request"] = s.out["request"]
            \/ \E m \in DOMAIN s.jobs["request"] : t.out["request"].job = s.jobs["request"][m]
        BY <1>2, FieldNames
      <3> QED BY <1>5, <2>1, <3>1, <3>2 DEF Choice, SavesMatch
    <2>4. ASSUME NEW v, d.st.sw[n] = v
          PROVE  /\ \A p : OneStale(s, n, p, v) => OneStale(t, n, p, v)
                 /\ NoStale(s, n, v) => NoStale(t, n, v)
      <3>1. CASE h = "read"
        <4>1. Reports(t.out["read"], n, v)
          BY <1>2, <1>4, <2>4, <3>1 DEF Reports, Setting, Fair
        <4> QED BY <1>5, <4>1 DEF OneStale, NoStale
      <3>2. CASE h = "request"
        <4>1. t.out["read"] = s.out["read"]
          BY <1>2, <3>2, FieldNames
        <4> QED BY <1>5, <4>1 DEF OneStale, NoStale
      <3> QED BY <3>1, <3>2, FieldNames
    <2>5. ASSUME s.kept[n] # None
          PROVE  Stands(t, d, n, s.kept[n])
      <3>1. Stands(s, d, n, s.kept[n])
        BY <2>1, <2>5 DEF Choice
      <3>2. d.st.sw[n] = s.kept[n]
        BY <3>1 DEF Stands
      <3>3. /\ \A p : OneStale(s, n, p, s.kept[n]) => OneStale(t, n, p, s.kept[n])
            /\ NoStale(s, n, s.kept[n]) => NoStale(t, n, s.kept[n])
        BY <2>4, <3>2
      <3> QED BY <1>5, <3>1, <3>3 DEF Stands
    <2> QED BY <1>5, <2>1, <2>2, <2>3, <2>5 DEF Choice
  <1> QED BY <1>8, <1>10, <1>11, <1>12 DEF Good

\* The thread h hands its answer to the main loop.
Finished(s, h) == [s EXCEPT !.out[h] = None, !.idle = Append(@, s.out[h])]

LEMMA FinishedFields ==
    ASSUME NEW s, NEW h \in Threads, Shaped(s)
    PROVE  LET t == Finished(s, h)
           IN  /\ Shaped(t) /\ \A f \in Fields \ {"out", "idle"} : t[f] = s[f]
               /\ t.out[h] = None /\ \A g \in Threads \ {h} : t.out[g] = s.out[g]
               /\ \A i \in DOMAIN t.idle :
                      \/ i \in DOMAIN s.idle /\ t.idle[i] = s.idle[i] /\ i < Len(s.idle) + 1
                      \/ i = Len(s.idle) + 1 /\ t.idle[i] = s.out[h]
               /\ \A i \in DOMAIN t.idle : i \in Nat
               /\ Len(s.idle) \in Nat
  <1> DEFINE t == Finished(s, h)
  <1> DEFINE q == s.idle
  <1> DEFINE o == s.out[h]
  <1>0. t = [s EXCEPT !.out[h] = None, !.idle = Append(q, o)]
    BY DEF Finished
  <1>1. IsSeq(q)
    BY DEF Shaped
  <1> HIDE DEF o
  <1>2. /\ DOMAIN t = Fields /\ t = [f \in Fields |-> t[f]]
        /\ t.out = [s.out EXCEPT ![h] = None] /\ t.idle = Append(q, o)
        /\ \A f \in Fields \ {"out", "idle"} : t[f] = s[f]
    BY <1>0, FieldNames DEF Shaped
  <1> HIDE DEF t, q
  <1>3. /\ IsSeq(Append(q, o)) /\ Len(q) \in Nat
        /\ \A i \in DOMAIN Append(q, o) :
               \/ i \in DOMAIN q /\ Append(q, o)[i] = q[i]
               \/ i = Len(q) + 1 /\ Append(q, o)[i] = o
        /\ \A i \in DOMAIN q : i \in Nat /\ i <= Len(q)
        /\ \A i \in DOMAIN Append(q, o) : i \in Nat
    BY <1>1, AppendSeq
  <1>4. \A i \in DOMAIN q : i < Len(q) + 1
    BY <1>3
  <1>5. /\ \A i \in DOMAIN t.idle :
               \/ i \in DOMAIN q /\ t.idle[i] = q[i] /\ i < Len(q) + 1
               \/ i = Len(q) + 1 /\ t.idle[i] = o
        /\ \A i \in DOMAIN t.idle : i \in Nat
        /\ IsSeq(t.idle) /\ Len(q) \in Nat
    BY <1>2, <1>3, <1>4
  <1>6. /\ t.out[h] = None /\ DOMAIN t.out = Threads /\ t.out = [g \in Threads |-> t.out[g]]
        /\ \A g \in Threads \ {h} : t.out[g] = s.out[g]
    BY <1>2 DEF Shaped
  <1>7. /\ t.jobs = s.jobs /\ t.reads = s.reads
        /\ t.row = s.row /\ t.choice = s.choice /\ t.kept = s.kept
        /\ t.rules = s.rules /\ t.log = s.log /\ t.run = s.run
    BY <1>2, FieldNames
  <1>8. Shaped(t)
    BY <1>2, <1>5, <1>6, <1>7 DEF Shaped
  <1> QED BY <1>2, <1>5, <1>6, <1>8 DEF t, q, o

LEMMA FinishedOnce ==
    ASSUME NEW s, NEW h \in Threads, NEW k, Shaped(s), s.out[h] # None, Once(s, k),
           h = "read" => ~Owns(s.out[h].job, k)
    PROVE  Once(Finished(s, h), k)
  <1> DEFINE t == Finished(s, h)
  <1>1. /\ \A f \in Fields \ {"out", "idle"} : t[f] = s[f]
        /\ t.out[h] = None /\ \A g \in Threads \ {h} : t.out[g] = s.out[g]
        /\ \A i \in DOMAIN t.idle :
               \/ i \in DOMAIN s.idle /\ t.idle[i] = s.idle[i]
               \/ i = Len(s.idle) + 1 /\ t.idle[i] = s.out[h]
    BY FinishedFields
  <1> SUFFICES Once(t, k)
    OBVIOUS
  <1> HIDE DEF t
  <1>2. t.jobs = s.jobs
    BY <1>1, FieldNames
  <1>3. CASE h = "read"
    <2>1. t.out["request"] = s.out["request"]
      BY <1>1, <1>3, FieldNames
    <2>2. \A i \in DOMAIN t.idle : Owns(t.idle[i].job, k) => i \in DOMAIN s.idle /\ t.idle[i] = s.idle[i]
      BY <1>1, <1>3
    <2> QED BY <1>2, <2>1, <2>2 DEF Once
  <1>4. CASE h = "request"
    <2>1. t.out["request"] = None
      BY <1>1, <1>4
    <2>2. CASE Owns(s.out[h].job, k)
      <3>1. \A i \in DOMAIN t.idle : Owns(t.idle[i].job, k) => i = Len(s.idle) + 1
        BY <1>1, <1>4, <2>2 DEF Once
      <3>2. \A i \in DOMAIN s.jobs["request"] : ~Owns(s.jobs["request"][i], k)
        BY <1>4, <2>2 DEF Once
      <3> QED BY <1>2, <2>1, <3>1, <3>2 DEF Once
    <2>3. CASE ~Owns(s.out[h].job, k)
      <3>1. \A i \in DOMAIN t.idle : Owns(t.idle[i].job, k) => i \in DOMAIN s.idle /\ t.idle[i] = s.idle[i]
        BY <1>1, <2>3
      <3> QED BY <1>2, <2>1, <3>1 DEF Once
    <2> QED BY <2>2, <2>3
  <1> QED BY <1>3, <1>4, FieldNames

LEMMA FinishedStale ==
    ASSUME NEW s, NEW h \in Threads, NEW n, NEW v, Shaped(s), s.out[h] # None,
           h = "request" => ~Setting(s.out[h])
    PROVE  /\ \A p : OneStale(s, n, p, v) => OneStale(Finished(s, h), n, p, v)
           /\ NoStale(s, n, v) => NoStale(Finished(s, h), n, v)
           /\ h = "request" => OneStale(Finished(s, h), n, Len(s.idle) + 1, v)
  <1> DEFINE t == Finished(s, h)
  <1> DEFINE z == Len(s.idle) + 1
  <1>1. /\ t.out[h] = None /\ \A g \in Threads \ {h} : t.out[g] = s.out[g]
        /\ \A i \in DOMAIN t.idle :
               \/ i \in DOMAIN s.idle /\ t.idle[i] = s.idle[i] /\ i < z
               \/ i = z /\ t.idle[i] = s.out[h]
        /\ \A i \in DOMAIN t.idle : i \in Nat
        /\ z \in Nat
    BY FinishedFields
  <1> SUFFICES /\ \A p : OneStale(s, n, p, v) => OneStale(t, n, p, v)
               /\ NoStale(s, n, v) => NoStale(t, n, v)
               /\ h = "request" => OneStale(t, n, z, v)
    OBVIOUS
  <1> HIDE DEF t, z
  <1>2. \A i, m \in DOMAIN t.idle : i < m => i \in DOMAIN s.idle /\ t.idle[i] = s.idle[i]
    BY <1>1
  <1>3. CASE h = "read"
    <2>1. t.out["read"] = None /\ s.out["read"] # None
      BY <1>1, <1>3
    <2>2. ASSUME NEW p, OneStale(s, n, p, v)
          PROVE  OneStale(t, n, p, v)
      <3> SUFFICES ASSUME NEW i \in DOMAIN t.idle, NEW m \in DOMAIN t.idle, p < i, i < m, Setting(t.idle[i])
                   PROVE  Reports(t.idle[m], n, v)
        BY <2>1 DEF OneStale
      <3>1. i \in DOMAIN s.idle /\ Setting(s.idle[i])
        BY <1>2
      <3>2. CASE m \in DOMAIN s.idle /\ t.idle[m] = s.idle[m]
        BY <2>2, <3>1, <3>2 DEF OneStale
      <3>3. CASE t.idle[m] = s.out["read"]
        BY <2>1, <2>2, <3>1, <3>3 DEF OneStale
      <3> QED BY <1>1, <1>3, <3>2, <3>3
    <2>3. NoStale(s, n, v) => NoStale(t, n, v)
      BY <1>1, <1>3, <2>1 DEF NoStale
    <2> QED BY <1>3, <2>2, <2>3
  <1>4. CASE h = "request"
    <2>1. t.out["read"] = s.out["read"] /\ ~Setting(s.out[h])
      BY <1>1, <1>4, FieldNames
    <2>2. \A i \in DOMAIN t.idle : Setting(t.idle[i]) => i \in DOMAIN s.idle /\ t.idle[i] = s.idle[i] /\ i < z
      BY <1>1, <2>1
    <2>3. Reports(s.out[h], n, v)
      BY <2>1 DEF Reports
    <2>4. ASSUME NEW p, OneStale(s, n, p, v)
          PROVE  OneStale(t, n, p, v)
      <3>1. \A i, m \in DOMAIN t.idle :
                p < i /\ i < m /\ Setting(t.idle[i]) => Reports(t.idle[m], n, v)
        BY <1>1, <2>2, <2>3, <2>4 DEF OneStale
      <3> QED BY <2>1, <2>2, <2>4, <3>1 DEF OneStale
    <2>5. NoStale(s, n, v) => NoStale(t, n, v)
      BY <1>1, <2>1, <2>3 DEF NoStale
    <2>6. \A i \in DOMAIN t.idle : ~(z < i /\ Setting(t.idle[i]))
      <3> SUFFICES ASSUME NEW i \in DOMAIN t.idle, z < i, Setting(t.idle[i])
                   PROVE  FALSE
        OBVIOUS
      <3>1. i < z /\ i \in Nat /\ z \in Nat
        BY <1>1, <2>2
      <3> QED BY <3>1
    <2>7. OneStale(t, n, z, v)
      BY <2>6 DEF OneStale
    <2> QED BY <2>4, <2>5, <2>7
  <1> QED BY <1>3, <1>4, FieldNames

LEMMA FinishedGood ==
    ASSUME NEW s, NEW d, NEW h \in Threads, Good(s, d), s.out[h] # None
    PROVE  Good(Finished(s, h), d)
  <1> DEFINE t == Finished(s, h)
  <1>1. Shaped(s) /\ Base(s, d) /\ Rules(s, d) /\ Views(s)
    BY DEF Good, Base
  <1>2. s.out[h].job.do \in KindsOf[h]
    BY <1>1 DEF Base
  <1>3. /\ h = "request" => ~Setting(s.out[h])
        /\ h = "read" => \A k : ~Owns(s.out[h].job, k)
    BY <1>2, KindNames DEF Setting, Owns
  <1>4. /\ Shaped(t) /\ \A f \in Fields \ {"out", "idle"} : t[f] = s[f]
        /\ t.out[h] = None /\ \A g \in Threads \ {h} : t.out[g] = s.out[g]
        /\ \A i \in DOMAIN t.idle :
               \/ i \in DOMAIN s.idle /\ t.idle[i] = s.idle[i]
               \/ i = Len(s.idle) + 1 /\ t.idle[i] = s.out[h]
    BY <1>1, FinishedFields
  <1>5. \A k : Once(s, k) => Once(t, k)
    BY <1>1, <1>3, FinishedOnce
  <1>6. \A n, v : /\ \A p : OneStale(s, n, p, v) => OneStale(t, n, p, v)
                  /\ NoStale(s, n, v) => NoStale(t, n, v)
                  /\ h = "request" => OneStale(t, n, Len(s.idle) + 1, v)
    BY <1>1, <1>3, FinishedStale
  <1> SUFFICES Good(t, d)
    OBVIOUS
  <1> HIDE DEF t
  <1>7. /\ t.jobs = s.jobs /\ t.reads = s.reads /\ t.dis = s.dis
        /\ t.row = s.row /\ t.choice = s.choice /\ t.kept = s.kept /\ t.last = s.last
        /\ t.rules = s.rules /\ t.log = s.log /\ t.run = s.run /\ t.card = s.card
        /\ t.media = s.media /\ t.shown = s.shown /\ t.tab = s.tab
    BY <1>4, FieldNames
  <1>8. \A g \in Threads : t.out[g] # None => t.out[g] = s.out[g]
    BY <1>4
  <1>9. \A i \in DOMAIN t.idle : (\E m \in DOMAIN s.idle : t.idle[i] = s.idle[m]) \/ t.idle[i] = s.out[h]
    BY <1>4
  <1>10. Base(t, d)
    <2>1. \A j : JobBase(s, j) <=> JobBase(t, j)
      BY <1>7 DEF JobBase
    <2>2. \A i \in DOMAIN t.idle :
              /\ t.idle[i].job.do \in Kinds /\ JobBase(t, t.idle[i].job)
              /\ AnswerBase(d, t.idle[i].job, t.idle[i].answer)
      <3>1. /\ s.out[h].job.do \in Kinds /\ JobBase(s, s.out[h].job)
            /\ AnswerBase(d, s.out[h].job, s.out[h].answer)
        BY <1>1, <1>2, FieldNames DEF Base, Kinds
      <3> QED BY <1>1, <1>9, <2>1, <3>1 DEF Base
    <2>3. \A g \in Threads : t.out[g] # None =>
              /\ t.out[g].job.do \in KindsOf[g] /\ JobBase(t, t.out[g].job)
              /\ AnswerBase(d, t.out[g].job, t.out[g].answer)
      BY <1>1, <1>8, <2>1 DEF Base
    <2> QED BY <1>1, <1>4, <1>7, <2>1, <2>2, <2>3 DEF Base
  <1>11. Rules(t, d)
    <2>1. \A e : EntryRules(s, d, e) <=> EntryRules(t, d, e)
      BY <1>7 DEF EntryRules, JobRules
    <2>2. \A j : JobRules(s, d, j) <=> JobRules(t, d, j)
      BY <1>7 DEF JobRules
    <2>3. \A i \in DOMAIN t.idle : EntryRules(t, d, t.idle[i])
      BY <1>1, <1>9, <2>1 DEF Rules
    <2>4. Once(t, "rule")
      BY <1>1, <1>5 DEF Rules
    <2> QED BY <1>1, <1>7, <1>8, <2>1, <2>2, <2>3, <2>4 DEF Rules
  <1>12. Views(t)
    <2>1. \A e : Fitting(s, e) <=> Fitting(t, e)
      BY <1>7 DEF Fitting
    <2>2. Shown(t)
      BY <1>1, <1>7 DEF Views, Shown, Active, Watched, HistoryAvailable, PrivateDataAvailable
    <2>3. Fitting(s, s.out[h])
      <3>1. CASE h = "read"
        BY <1>1, <3>1 DEF Views
      <3>2. CASE h = "request"
        BY <1>2, <3>2, KindNames DEF Fitting
      <3> QED BY <3>1, <3>2, FieldNames
    <2>4. \A i \in DOMAIN t.idle : Fitting(t, t.idle[i])
      BY <1>1, <1>9, <2>1, <2>3 DEF Views
    <2>5. t.out["read"] # None => Fitting(t, t.out["read"])
      BY <1>1, <1>8, <2>1, FieldNames DEF Views
    <2> QED BY <1>1, <1>7, <2>2, <2>4, <2>5 DEF Views
  <1>13. ASSUME NEW n \in Switches
         PROVE  Choice(t, d, n)
    <2>1. Choice(s, d, n)
      BY DEF Good
    <2>2. Once(t, n)
      BY <1>5, <2>1 DEF Choice
    <2>3. SavesMatch(t, n)
      <3>1. \A i \in DOMAIN t.idle :
                t.idle[i].job.do = "save" /\ t.idle[i].job.name = n => t.idle[i].job.on = s.choice[n].pending
        <4>1. CASE h = "read"
          <5>1. s.out[h].job.do # "save"
            BY <1>2, <4>1, KindNames
          <5> QED BY <1>9, <2>1, <5>1 DEF Choice, SavesMatch
        <4>2. CASE h = "request"
          BY <1>9, <2>1, <4>2 DEF Choice, SavesMatch
        <4> QED BY <4>1, <4>2, FieldNames
      <3>2. t.out["request"] # None => t.out["request"] = s.out["request"]
        BY <1>8, FieldNames
      <3> QED BY <1>7, <2>1, <3>1, <3>2 DEF Choice, SavesMatch
    <2>4. ASSUME s.kept[n] # None
          PROVE  Stands(t, d, n, s.kept[n])
      <3>1. Stands(s, d, n, s.kept[n])
        BY <2>1, <2>4 DEF Choice
      <3>2. ASSUME NEW p \in DOMAIN t.idle, Owns(t.idle[p].job, n)
            PROVE  OneStale(t, n, p, s.kept[n])
        <4>1. CASE p \in DOMAIN s.idle /\ t.idle[p] = s.idle[p]
          BY <1>6, <3>1, <3>2, <4>1 DEF Stands
        <4>2. CASE p = Len(s.idle) + 1 /\ t.idle[p] = s.out[h]
          BY <1>3, <1>6, <3>2, <4>2, FieldNames
        <4> QED BY <1>4, <4>1, <4>2
      <3> QED BY <1>6, <1>7, <3>1, <3>2 DEF Stands
    <2> QED BY <1>7, <2>1, <2>2, <2>3, <2>4 DEF Choice
  <1> QED BY <1>10, <1>11, <1>12, <1>13 DEF Good

-----------------------------------------------------------------------------
(***************************************************************************)
(* What the daemon does.                                                   *)
(***************************************************************************)
DaemonFields == {"st", "ver", "stored"}

LEMMA StatusNames ==
    StatusFields = {"up", "on", "open", "prof", "sw", "plain", "quick", "rev", "muted"}
  BY DEF StatusFields, Unreachable

LEMMA MovesSelf == ASSUME NEW d, Daemon(d) PROVE Moves(d, d)
  <1>1. d.st.prof \in Nat /\ d.st.rev \in Nat
    BY DaemonTypes
  <1> QED BY <1>1 DEF Moves

\* What is not in the status may change.
LEMMA BesideStatus ==
    ASSUME NEW d, NEW e, Daemon(d), DOMAIN e = DaemonFields, e = [f \in DaemonFields |-> e[f]],
           e.st = d.st
    PROVE  Moves(d, e) /\ Daemon(e)
  <1>1. d.st.prof \in Nat /\ d.st.rev \in Nat
    BY DaemonTypes
  <1>2. Daemon(e)
    BY DEF Daemon, DaemonFields, Known
  <1> QED BY <1>1, <1>2 DEF Moves

LEMMA VersionMoves ==
    ASSUME NEW d, NEW v, Daemon(d)
    PROVE  Moves(d, [d EXCEPT !.ver = v]) /\ Daemon([d EXCEPT !.ver = v])
  <1> DEFINE e == [d EXCEPT !.ver = v]
  <1>1. DOMAIN e = DaemonFields /\ e = [f \in DaemonFields |-> e[f]] /\ e.st = d.st
    BY DEF Daemon, DaemonFields
  <1> HIDE DEF e
  <1>2. Moves(d, e) /\ Daemon(e)
    BY <1>1, BesideStatus
  <1> QED BY <1>2 DEF e

LEMMA StoredMoves ==
    ASSUME NEW d, NEW v, Daemon(d)
    PROVE  Moves(d, [d EXCEPT !.stored = v]) /\ Daemon([d EXCEPT !.stored = v])
  <1> DEFINE e == [d EXCEPT !.stored = v]
  <1>1. DOMAIN e = DaemonFields /\ e = [f \in DaemonFields |-> e[f]] /\ e.st = d.st
    BY DEF Daemon, DaemonFields
  <1> HIDE DEF e
  <1>2. Moves(d, e) /\ Daemon(e)
    BY <1>1, BesideStatus
  <1> QED BY <1>2 DEF e

\* The daemon's status becomes st.
WithStatus(d, st) == [d EXCEPT !.st = st]
Follows(d, st) ==
    /\ DOMAIN st = StatusFields /\ st = [f \in StatusFields |-> st[f]]
    /\ st.up /\ st.up \in BOOLEAN /\ st.on \in BOOLEAN /\ st.sw \in [Switches -> BOOLEAN]
    /\ st.prof \in Nat /\ d.st.prof <= st.prof
    /\ st.rev \in Nat /\ d.st.rev <= st.rev

LEMMA StatusMoves ==
    ASSUME NEW d, NEW st, Daemon(d), Follows(d, st)
    PROVE  Moves(d, WithStatus(d, st)) /\ WithStatus(d, st).st = st
  <1> DEFINE e == WithStatus(d, st)
  <1>1. DOMAIN e = DaemonFields /\ e = [f \in DaemonFields |-> e[f]] /\ e.st = st
    BY DEF Daemon, DaemonFields, WithStatus
  <1> SUFFICES Moves(d, e) /\ e.st = st
    OBVIOUS
  <1> HIDE DEF e
  <1>2. st.prof <= st.prof /\ st.rev <= st.rev
    BY DEF Follows
  <1>3. Known(st, e)
    BY <1>1, <1>2 DEF Known, Follows
  <1>4. Daemon(e)
    BY <1>1, <1>3 DEF Daemon, DaemonFields, Follows
  <1> QED BY <1>1, <1>4 DEF Moves, Follows

LEMMA FollowsTypes ==
    ASSUME NEW d, Daemon(d)
    PROVE  /\ DOMAIN d.st = StatusFields /\ d.st = [f \in StatusFields |-> d.st[f]]
           /\ d.st.up /\ d.st.up \in BOOLEAN /\ d.st.on \in BOOLEAN /\ d.st.sw \in [Switches -> BOOLEAN]
           /\ d.st.prof \in Nat /\ d.st.prof <= d.st.prof
           /\ d.st.rev \in Nat /\ d.st.rev <= d.st.rev
  <1>1. d.st.prof \in Nat /\ d.st.rev \in Nat
    BY DaemonTypes
  <1> QED BY <1>1 DEF Daemon, Known

LEMMA SwitchMoves ==
    ASSUME NEW d, NEW n \in Switches, NEW v \in BOOLEAN, Daemon(d)
    PROVE  LET e == [d EXCEPT !.st.sw[n] = v] IN Moves(d, e) /\ Daemon(e) /\ e.st.sw[n] = v
  <1> DEFINE w == [d.st.sw EXCEPT ![n] = v]
  <1> DEFINE st == [d.st EXCEPT !.sw = w]
  <1>1. [d EXCEPT !.st.sw[n] = v] = WithStatus(d, st)
    BY DEF WithStatus
  <1>2. w \in [Switches -> BOOLEAN] /\ w[n] = v
    BY DaemonTypes
  <1> HIDE DEF w
  <1>3. /\ DOMAIN st = StatusFields /\ st = [f \in StatusFields |-> st[f]]
        /\ st.sw = w /\ st.up = d.st.up /\ st.on = d.st.on /\ st.prof = d.st.prof /\ st.rev = d.st.rev
    BY FollowsTypes, StatusNames
  <1> HIDE DEF st
  <1>4. Follows(d, st)
    BY <1>2, <1>3, FollowsTypes DEF Follows
  <1>5. Moves(d, WithStatus(d, st)) /\ WithStatus(d, st).st = st /\ Daemon(WithStatus(d, st))
    BY <1>4, StatusMoves DEF Moves
  <1> QED BY <1>1, <1>2, <1>3, <1>5

\* A preference that no invariant is about changes.
LEMMA PreferenceMoves ==
    ASSUME NEW d, NEW f \in {"plain", "quick", "open", "muted"}, NEW v, Daemon(d)
    PROVE  LET e == WithStatus(d, [d.st EXCEPT ![f] = v]) IN Moves(d, e) /\ Daemon(e)
  <1> DEFINE st == [d.st EXCEPT ![f] = v]
  <1>1. /\ DOMAIN st = StatusFields /\ st = [g \in StatusFields |-> st[g]]
        /\ st.sw = d.st.sw /\ st.up = d.st.up /\ st.on = d.st.on /\ st.prof = d.st.prof
        /\ st.rev = d.st.rev
    BY FollowsTypes, StatusNames
  <1> HIDE DEF st
  <1>2. Follows(d, st)
    BY <1>1, FollowsTypes DEF Follows
  <1>3. Moves(d, WithStatus(d, st)) /\ Daemon(WithStatus(d, st))
    BY <1>2, StatusMoves DEF Moves
  <1> QED BY <1>3 DEF st

LEMMA RevisionMoves ==
    ASSUME NEW d, Daemon(d)
    PROVE  LET e == [d EXCEPT !.st.rev = @ + 1] IN Moves(d, e) /\ Daemon(e)
  <1> DEFINE v == d.st.rev + 1
  <1> DEFINE st == [d.st EXCEPT !.rev = v]
  <1>1. [d EXCEPT !.st.rev = @ + 1] = WithStatus(d, st)
    BY DEF WithStatus
  <1>2. v \in Nat /\ d.st.rev <= v
    BY DaemonTypes
  <1> HIDE DEF v
  <1>3. /\ DOMAIN st = StatusFields /\ st = [g \in StatusFields |-> st[g]]
        /\ st.sw = d.st.sw /\ st.up = d.st.up /\ st.on = d.st.on /\ st.prof = d.st.prof
        /\ st.rev = v
    BY FollowsTypes, StatusNames
  <1> HIDE DEF st
  <1>4. Follows(d, st)
    BY <1>2, <1>3, FollowsTypes DEF Follows
  <1>5. Moves(d, WithStatus(d, st)) /\ Daemon(WithStatus(d, st))
    BY <1>4, StatusMoves DEF Moves
  <1> QED BY <1>1, <1>5

LEMMA PhoneMoves ==
    ASSUME NEW d, Daemon(d)
    PROVE  LET e == [d EXCEPT !.st.prof = @ + 1] IN Moves(d, e) /\ Daemon(e)
  <1> DEFINE v == d.st.prof + 1
  <1> DEFINE st == [d.st EXCEPT !.prof = v]
  <1>1. [d EXCEPT !.st.prof = @ + 1] = WithStatus(d, st)
    BY DEF WithStatus
  <1>2. v \in Nat /\ d.st.prof <= v
    BY DaemonTypes
  <1> HIDE DEF v
  <1>3. /\ DOMAIN st = StatusFields /\ st = [g \in StatusFields |-> st[g]]
        /\ st.sw = d.st.sw /\ st.up = d.st.up /\ st.on = d.st.on /\ st.prof = v
        /\ st.rev = d.st.rev
    BY FollowsTypes, StatusNames
  <1> HIDE DEF st
  <1>4. Follows(d, st)
    BY <1>2, <1>3, FollowsTypes DEF Follows
  <1>5. Moves(d, WithStatus(d, st)) /\ Daemon(WithStatus(d, st))
    BY <1>4, StatusMoves DEF Moves
  <1> QED BY <1>1, <1>5

LEMMA OptInMoves ==
    ASSUME NEW d, Daemon(d)
    PROVE  LET e == [d EXCEPT !.st.on = ~@] IN Moves(d, e) /\ Daemon(e)
  <1> DEFINE v == ~d.st.on
  <1> DEFINE st == [d.st EXCEPT !.on = v]
  <1>1. [d EXCEPT !.st.on = ~@] = WithStatus(d, st)
    BY DEF WithStatus
  <1>2. v \in BOOLEAN
    OBVIOUS
  <1> HIDE DEF v
  <1>3. /\ DOMAIN st = StatusFields /\ st = [g \in StatusFields |-> st[g]]
        /\ st.sw = d.st.sw /\ st.up = d.st.up /\ st.on = v /\ st.prof = d.st.prof
        /\ st.rev = d.st.rev
    BY FollowsTypes, StatusNames
  <1> HIDE DEF st
  <1>4. Follows(d, st)
    BY <1>2, <1>3, FollowsTypes DEF Follows
  <1>5. Moves(d, WithStatus(d, st)) /\ Daemon(WithStatus(d, st))
    BY <1>4, StatusMoves DEF Moves
  <1> QED BY <1>1, <1>5

\* What is known of a request that was carried out.
Carries(d, job, o) ==
    /\ Moves(d, o.dm)
    /\ o.signals \in Seq(SignalNames)
    /\ job.do = "save" => o.dm.st.sw[job.name] = job.on
    /\ Fair(o.dm, job, o.answer)

LEMMA FailedFair == ASSUME NEW d, NEW j PROVE Fair(d, j, Failed)
  <1>1. Failed.ok = FALSE /\ Failed.value = None
    BY DEF Failed
  <1> HIDE DEF Failed
  <1> QED BY <1>1 DEF Fair, AnswerBase

LEMMA DidCarries ==
    ASSUME NEW d, NEW e, NEW job, NEW signals \in Seq(SignalNames), NEW v, Moves(d, e),
           job.do \in KindsOf["request"], job.do = "save" => e.st.sw[job.name] = job.on /\ v = job.on
    PROVE  Carries(d, job, Did(e, signals, v))
  <1> DEFINE o == Did(e, signals, v)
  <1>1. o.dm = e /\ o.signals = signals /\ o.answer.ok = TRUE /\ o.answer.value = v
    BY DEF Did, Ok
  <1> SUFFICES Carries(d, job, o)
    OBVIOUS
  <1> HIDE DEF o
  <1>2. /\ job.do # "rules" /\ job.do \notin {"log", "calls"} /\ job.do # "settings"
        /\ job.do \notin {"status", "settings"}
    BY KindNames
  <1> QED BY <1>1, <1>2 DEF Carries, Fair, AnswerBase

LEMMA Signals ==
    /\ <<>> \in Seq(SignalNames) /\ <<"status">> \in Seq(SignalNames)
    /\ <<"apps", "status">> \in Seq(SignalNames)
    /\ \A sig \in SignalNames : <<sig>> \in Seq(SignalNames)
  <1>1. "status" \in SignalNames /\ "apps" \in SignalNames
    BY DEF SignalNames
  <1> QED BY <1>1

LEMMA RequestCarries ==
    ASSUME NEW s, NEW job, Daemon(dm), job.do \in KindsOf["request"], JobBase(s, job)
    PROVE  Carries(dm, job, Request(job))
  <1> USE Signals
  <1>1. CASE job.do = "save"
    <2>1. job.name \in Switches /\ job.on \in BOOLEAN
      BY <1>1 DEF JobBase
    <2> DEFINE e == [dm EXCEPT !.st.sw[job.name] = job.on]
    <2>2. Moves(dm, e) /\ e.st.sw[job.name] = job.on
      BY <2>1, SwitchMoves
    <2>3. Request(job) = Did(e, <<"status">>, job.on)
      BY <1>1 DEF Request
    <2> HIDE DEF e
    <2> QED BY <2>2, <2>3, DidCarries
  <1>2. CASE job.do = "plain"
    <2> DEFINE e == WithStatus(dm, [dm.st EXCEPT !["plain"] = job.on])
    <2>1. Moves(dm, e)
      BY PreferenceMoves
    <2>2. Request(job) = Did(e, <<"apps", "status">>, job.on)
      BY <1>2 DEF Request, WithStatus
    <2> HIDE DEF e
    <2> QED BY <1>2, <2>1, <2>2, DidCarries
  <1>3. CASE job.do = "quick"
    <2> DEFINE e == WithStatus(dm, [dm.st EXCEPT !["quick"] = job.on])
    <2>1. Moves(dm, e)
      BY PreferenceMoves
    <2>2. Request(job) = Did(e, <<"status">>, job.on)
      BY <1>3 DEF Request, WithStatus
    <2> HIDE DEF e
    <2> QED BY <1>3, <2>1, <2>2, DidCarries
  <1>4. CASE job.do = "rule"
    <2> DEFINE e == [dm EXCEPT !.st.rev = @ + 1]
    <2>1. Moves(dm, e)
      BY RevisionMoves
    <2>2. Request(job) = Did(e, <<>>, dm.st.rev + 1)
      BY <1>4 DEF Request
    <2> HIDE DEF e
    <2> QED BY <1>4, <2>1, <2>2, DidCarries
  <1>5. CASE job.do = "feature"
    <2> DEFINE v == [dm.stored EXCEPT ![job.name] = job.on]
    <2> DEFINE e == [dm EXCEPT !.stored = v]
    <2>1. Request(job) = Did(e, <<>>, None)
      BY <1>5 DEF Request
    <2> HIDE DEF v
    <2>2. Moves(dm, e)
      BY StoredMoves
    <2> HIDE DEF e
    <2> QED BY <1>5, <2>1, <2>2, DidCarries
  <1>6. CASE job.do = "unlock"
    <2> DEFINE e == WithStatus(dm, [dm.st EXCEPT !["open"] = TRUE])
    <2>1. Moves(dm, e)
      BY PreferenceMoves
    <2>2. Request(job) = Did(e, <<"status">>, TRUE)
      BY <1>6 DEF Request, WithStatus
    <2> HIDE DEF e
    <2> QED BY <1>6, <2>1, <2>2, DidCarries
  <1>7. CASE job.do = "mute"
    <2> DEFINE e == WithStatus(dm, [dm.st EXCEPT !["muted"] = job.on])
               told == IF job.on = dm.st.muted THEN <<>> ELSE <<"apps", "status">>
    <2>1. Moves(dm, e)
      BY PreferenceMoves
    <2>2. Request(job) = Did(e, told, job.on)
      BY <1>7 DEF Request, WithStatus
    <2>3. told \in Seq(SignalNames)
      OBVIOUS
    <2> HIDE DEF e, told
    <2> QED BY <1>7, <2>1, <2>2, <2>3, DidCarries
  <1>8. CASE job.do \in {"command", "sync", "act"}
    <2> DEFINE e == [dm EXCEPT !.ver = dm.ver + 1]
    <2>1. Moves(dm, e)
      BY VersionMoves
    <2>2. \E sig \in SignalNames : Request(job) = Did(e, <<sig>>, dm.ver + 1)
      BY <1>8 DEF Request, SignalNames
    <2> HIDE DEF e
    <2> QED BY <1>8, <2>1, <2>2, DidCarries
  <1> QED BY <1>1, <1>2, <1>3, <1>4, <1>5, <1>6, <1>7, <1>8, KindNames

LEMMA AnswerFair ==
    ASSUME NEW job, Daemon(dm), job.do \in KindsOf["read"]
    PROVE  Fair(dm, job, Answer(job))
  <1> DEFINE a == Answer(job)
  <1>1. Known(dm.st, dm)
    BY DaemonTypes
  <1>2. job.do # "save"
    BY KindNames
  <1> SUFFICES Fair(dm, job, a)
    OBVIOUS
  <1>3. \A v : Ok(v).ok = TRUE /\ Ok(v).value = v
    BY DEF Ok
  <1>4. CASE job.do \in {"status", "settings"}
    <2>1. a = Ok(dm.st)
      BY <1>4 DEF Answer
    <2> HIDE DEF a
    <2>2. a.ok = TRUE /\ a.value = dm.st
      BY <1>3, <2>1
    <2> QED BY <1>1, <1>4, <2>2 DEF Fair, AnswerBase
  <1>5. CASE job.do \in {"log", "calls"}
    <2> DEFINE p == [ver |-> dm.ver, prof |-> dm.st.prof]
    <2>1. a \in {Ok(p), Failed}
      BY <1>5 DEF Answer
    <2>2. p.prof = dm.st.prof
      OBVIOUS
    <2> HIDE DEF a, p
    <2>3. CASE a = Failed
      BY <2>3, FailedFair
    <2>4. CASE a = Ok(p)
      <3>1. a.ok = TRUE /\ a.value = p
        BY <1>3, <2>4
      <3> QED BY <1>5, <2>2, <3>1 DEF Fair, AnswerBase
    <2> QED BY <2>1, <2>3, <2>4
  <1>6. CASE job.do = "media"
    <2>1. a \in {Ok(dm.ver), Failed}
      BY <1>6 DEF Answer
    <2> HIDE DEF a
    <2>2. CASE a = Failed
      BY <2>2, FailedFair
    <2>3. CASE a = Ok(dm.ver)
      <3>1. a.ok = TRUE
        BY <1>3, <2>3
      <3> QED BY <1>6, <3>1 DEF Fair, AnswerBase
    <2> QED BY <2>1, <2>2, <2>3
  <1>7. CASE job.do = "rules"
    <2>1. a = Ok(dm.st.rev)
      BY <1>7 DEF Answer
    <2> HIDE DEF a
    <2>2. a.ok = TRUE /\ a.value = dm.st.rev
      BY <1>3, <2>1
    <2> QED BY <1>7, <2>2 DEF Fair, AnswerBase
  <1>8. CASE job.do \in {"apps", "tether", "threads", "features"}
    <2>1. a \in {Ok(dm.ver), Ok(dm.stored), Ok([at |-> dm.ver, muted |-> dm.st.muted])}
      BY <1>8 DEF Answer
    <2> HIDE DEF a
    <2>2. a.ok = TRUE
      BY <1>3, <2>1
    <2> QED BY <1>8, <2>2 DEF Fair, AnswerBase
  <1> QED BY <1>4, <1>5, <1>6, <1>7, <1>8, KindNames

-----------------------------------------------------------------------------
(***************************************************************************)
(* The invariant, and the steps.                                           *)
(***************************************************************************)
IInv == Daemon(dm) /\ bus \in Seq(SignalNames) /\ Good(gtk, dm)

LEMMA NewDaemonFine == Daemon(NewDaemon)
  <1> DEFINE st == NewDaemon.st
  <1>1. /\ DOMAIN NewDaemon = {"st", "ver", "stored"}
        /\ NewDaemon = [f \in {"st", "ver", "stored"} |-> NewDaemon[f]]
    BY DEF NewDaemon
  <1>2. /\ DOMAIN st = StatusFields /\ st = [f \in StatusFields |-> st[f]]
        /\ st.up = TRUE /\ st.on = TRUE /\ st.prof = 0 /\ st.sw = [n \in Switches |-> FALSE]
        /\ st.rev = 0
    BY DEF NewDaemon, Unreachable, StatusFields
  <1>3. Known(st, NewDaemon)
    <2>1. NewDaemon.st.prof = 0 /\ NewDaemon.st.rev = 0
      BY <1>2
    <2>2. /\ st.up \in BOOLEAN /\ st.on \in BOOLEAN /\ st.prof \in Nat /\ st.rev \in Nat
          /\ st.sw \in [Switches -> BOOLEAN]
      <3>1. st.up = TRUE /\ st.on = TRUE
        BY <1>2
      <3> HIDE DEF st
      <3>2. st.up \in BOOLEAN /\ st.on \in BOOLEAN
        BY <3>1
      <3>3. st.prof \in Nat /\ st.rev \in Nat
        BY <1>2
      <3>4. [n \in Switches |-> FALSE] \in [Switches -> BOOLEAN]
        OBVIOUS
      <3>5. st.sw \in [Switches -> BOOLEAN]
        BY <1>2, <3>4
      <3> QED BY <3>2, <3>3, <3>5
    <2>3. st.prof <= NewDaemon.st.prof /\ st.rev <= NewDaemon.st.rev
      BY <1>2, <2>1
    <2> HIDE DEF st
    <2> QED BY <2>2, <2>3 DEF Known
  <1> QED BY <1>1, <1>2, <1>3 DEF Daemon

LEMMA NewClientGood == ASSUME NEW d, Daemon(d) PROVE Good(NewClient, d)
  <1> DEFINE s == NewClient
  <1>1. /\ DOMAIN s = Fields /\ s = [f \in Fields |-> s[f]]
        /\ s.jobs = [t \in Threads |-> <<>>] /\ s.out = [t \in Threads |-> None] /\ s.idle = <<>>
        /\ s.reads = [n \in {"status", "media", "log", "calls"} |-> Idle]
        /\ s.log = [rows |-> None, error |-> FALSE, gen |-> 0, syncing |-> FALSE]
        /\ s.run = [key |-> None, calls |-> None, error |-> FALSE, gen |-> 0, busy |-> FALSE]
        /\ s.rules = [shown |-> FALSE, pending |-> FALSE, serial |-> 0, rev |-> None, loaded |-> None,
                      loading |-> None, rows |-> None]
        /\ s.row = [n \in Switches |-> FALSE] /\ s.kept = [n \in Switches |-> None]
        /\ s.choice = [n \in Switches |-> [pending |-> None, confirmed |-> None]]
        /\ s.card = Unreachable /\ s.last = Unreachable
        /\ s.shown = FALSE /\ s.tab = FALSE /\ s.media = None
    BY DEF NewClient, Fields
  <1>2. Idle \in [epoch : Nat, pending : BOOLEAN, again : BOOLEAN]
    BY DEF Idle
  <1>3. Known(Unreachable, d)
    BY UnreachableKnown
  <1> SUFFICES Good(s, d)
    OBVIOUS
  <1> HIDE DEF s
  <1>4. /\ \A t \in Threads : s.jobs[t] = <<>> /\ s.out[t] = None
        /\ s.jobs["request"] = <<>> /\ s.out["request"] = None /\ s.out["read"] = None
    BY <1>1, FieldNames
  <1>5. s.log.rows = None /\ DOMAIN s.log = {"rows", "error", "gen", "syncing"}
    BY <1>1
  <1>6. s.run.calls = None /\ s.run.key = None /\ DOMAIN s.run = {"key", "calls", "error", "gen", "busy"}
    BY <1>1
  <1>7. /\ DOMAIN s.rules = {"shown", "pending", "serial", "rev", "loaded", "loading", "rows"}
        /\ ~s.rules.shown /\ ~s.rules.pending /\ s.rules.pending \in BOOLEAN
        /\ s.rules.serial \in Nat /\ s.rules.loaded = None
    <2>1. /\ DOMAIN s.rules = {"shown", "pending", "serial", "rev", "loaded", "loading", "rows"}
          /\ s.rules.shown = FALSE /\ s.rules.pending = FALSE /\ s.rules.serial = 0
          /\ s.rules.loaded = None
      BY <1>1
    <2>2. s.rules.serial \in Nat
      BY <2>1
    <2> QED BY <2>1, <2>2, Zenon
  <1>8. s.reads \in [Coalesced -> [epoch : Nat, pending : BOOLEAN, again : BOOLEAN]]
    BY <1>1, <1>2, KindNames
  <1>9. /\ s.row \in [Switches -> BOOLEAN] /\ s.kept \in [Switches -> BOOLEAN \cup {None}]
        /\ s.choice \in [Switches -> [pending : BOOLEAN \cup {None}, confirmed : BOOLEAN \cup {None}]]
        /\ \A n \in Switches : s.kept[n] = None /\ s.choice[n].pending = None
    <2> DEFINE c == [pending |-> None, confirmed |-> None]
    <2>1. c \in [pending : BOOLEAN \cup {None}, confirmed : BOOLEAN \cup {None}] /\ c.pending = None
      OBVIOUS
    <2>2. s.choice = [n \in Switches |-> c]
      BY <1>1
    <2> HIDE DEF c
    <2> QED BY <1>1, <2>1, <2>2
  <1>10. Shaped(s)
    <2>1. /\ DOMAIN s.jobs = Threads /\ s.jobs = [t \in Threads |-> s.jobs[t]]
          /\ DOMAIN s.out = Threads /\ s.out = [t \in Threads |-> s.out[t]]
      BY <1>1
    <2>2. IsSeq(s.idle) /\ \A t \in Threads : IsSeq(s.jobs[t])
      BY <1>1, <1>4, EmptySeq
    <2> QED BY <1>1, <1>5, <1>6, <1>7, <1>8, <1>9, <2>1, <2>2 DEF Shaped
  <1>11. /\ \A t \in Threads : DOMAIN s.jobs[t] = {} /\ s.out[t] = None
         /\ DOMAIN s.jobs["request"] = {} /\ DOMAIN s.idle = {}
    BY <1>1, <1>4, EmptySeq
  <1>12. Base(s, d)
    BY <1>1, <1>3, <1>10, <1>11 DEF Base
  <1>13. \A k : Once(s, k)
    BY <1>4, <1>11 DEF Once
  <1>14. \A n \in Switches : Choice(s, d, n)
    BY <1>4, <1>9, <1>11, <1>13 DEF Choice, SavesMatch
  <1>15. Rules(s, d)
    BY <1>7, <1>11, <1>13 DEF Rules
  <1>16. Views(s)
    BY <1>1, <1>4, <1>5, <1>6, <1>11 DEF Views, Shown
  <1> QED BY <1>12, <1>14, <1>15, <1>16 DEF Good

LEMMA OpenedGood == ASSUME NEW d, Daemon(d) PROVE Good(Opened, d)
  <1> DEFINE a == SyncWatches(NewClient, TRUE, FALSE)
  <1> DEFINE b == RefreshAll(a)
  <1>1. Opened \in {b, ReloadThreads(b)}
    BY DEF Opened, Then
  <1>2. Good(NewClient, d) /\ Base(NewClient, d) /\ Views(NewClient)
    BY NewClientGood DEF Good
  <1>3. Calm(NewClient, a) /\ a.card = NewClient.card /\ Views(a)
    BY <1>2, SyncWatchesViews
  <1>4. Known(NewClient.card, d)
    BY <1>2 DEF Base
  <1> HIDE DEF a
  <1>5. Good(a, d) /\ Shaped(a)
    BY <1>2, <1>3, <1>4, CalmGood, CalmShaped
  <1>6. Quiet(a, b)
    BY <1>5, RefreshAllQuiet
  <1> HIDE DEF b
  <1>7. Good(b, d) /\ Shaped(b)
    BY <1>5, <1>6, QuietGood, QuietShaped
  <1>8. Good(ReloadThreads(b), d)
    BY <1>7, QuietGood, ReloadThreadsQuiet
  <1> QED BY <1>1, <1>7, <1>8

\* A thread is through with its first job, and the daemon is now d.
LEMMA AnsweredGood ==
    ASSUME NEW h \in Threads, NEW s, NEW d, NEW signals \in Seq(SignalNames), NEW r, IInv, Due(h),
           Answered(h, s, d, signals, r), Daemon(d), Good(Settling(s, d), d),
           Shaped(s), s.jobs = gtk.jobs, s.out = gtk.out, Fair(d, Head(gtk.jobs[h]), r)
    PROVE  IInv'
  <1> DEFINE u == Settling(s, d)
  <1>1. u.jobs = gtk.jobs /\ u.out = gtk.out
    BY FieldNames DEF Settling, Shaped
  <1>2. gtk' = [u EXCEPT !.jobs[h] = Tail(@), !.out[h] = [job |-> Head(gtk.jobs[h]), answer |-> r]]
        /\ dm' = d /\ bus' = bus \o signals
    BY DEF Answered
  <1> HIDE DEF u
  <1>3. gtk' = Holds(u, h, r)
    BY <1>1, <1>2 DEF Holds
  <1>4. u.jobs[h] # <<>> /\ u.out[h] = None /\ Fair(d, Head(u.jobs[h]), r) /\ Good(u, d)
    BY <1>1 DEF Due, u
  <1>5. Good(Holds(u, h, r), d)
    BY <1>4, HoldsGood
  <1>6. bus' \in Seq(SignalNames)
    BY <1>2 DEF IInv
  <1> QED BY <1>2, <1>3, <1>5, <1>6 DEF IInv

LEMMA DueJob ==
    ASSUME NEW h \in Threads, IInv, Due(h)
    PROVE  LET job == Head(gtk.jobs[h])
           IN  /\ 1 \in DOMAIN gtk.jobs[h] /\ job = gtk.jobs[h][1]
               /\ job.do \in KindsOf[h] /\ JobBase(gtk, job)
  <1> DEFINE q == gtk.jobs[h]
  <1>1. IsSeq(q) /\ q # <<>> /\ \A i \in DOMAIN q : q[i].do \in KindsOf[h] /\ JobBase(gtk, q[i])
    BY DEF IInv, Good, Base, Shaped, Due
  <1> HIDE DEF q
  <1>2. 1 \in DOMAIN q /\ Head(q) = q[1]
    BY <1>1, TailSeq
  <1>3. /\ 1 \in DOMAIN q /\ Head(q) = q[1]
        /\ Head(q).do \in KindsOf[h] /\ JobBase(gtk, Head(q))
    BY <1>1, <1>2
  <1> QED BY <1>3 DEF q

\* A read, or a request refused: the daemon stays as it is.
LEMMA ReadStep ==
    ASSUME NEW h \in Threads, NEW r, IInv, Due(h), Answered(h, gtk, dm, <<>>, r),
           Fair(dm, Head(gtk.jobs[h]), r)
    PROVE  IInv'
  <1>1. Good(Settling(gtk, dm), dm) /\ Daemon(dm) /\ Shaped(gtk) /\ <<>> \in Seq(SignalNames)
    BY SettlingGood, MovesSelf, Signals DEF IInv, Good, Base
  <1> QED BY <1>1, AnsweredGood

LEMMA CarryOutStep ==
    ASSUME NoneIsNew, IInv, Due("request"), NEW r,
           LET job == Head(gtk.jobs["request"])
               o == Request(job)
           IN  /\ Answered("request", Carried(gtk, job), o.dm, o.signals, r)
               /\ r \in {o.answer, Failed}
    PROVE  IInv'
  <1> DEFINE job == Head(gtk.jobs["request"])
  <1> DEFINE o == Request(job)
  <1> DEFINE c == Carried(gtk, job)
  <1>0. "request" \in Threads
    BY FieldNames
  <1>1. /\ 1 \in DOMAIN gtk.jobs["request"] /\ job = gtk.jobs["request"][1]
        /\ job.do \in KindsOf["request"] /\ JobBase(gtk, job)
    BY <1>0, DueJob
  <1>2. Daemon(dm) /\ Good(gtk, dm) /\ Shaped(gtk)
    BY DEF IInv, Good, Base
  <1>3. Carries(dm, job, o)
    BY <1>1, <1>2, RequestCarries
  <1>4. Answered("request", c, o.dm, o.signals, r) /\ r \in {o.answer, Failed}
    OBVIOUS
  <1>5. Shaped(c) /\ c.jobs = gtk.jobs /\ c.out = gtk.out
    <2>1. CASE job.do # "save"
      BY <1>2, <2>1 DEF Carried
    <2>2. CASE job.do = "save"
      <3>1. job.name \in Switches /\ job.on \in BOOLEAN
        BY <1>1, <2>2 DEF JobBase
      <3> DEFINE k == [gtk.kept EXCEPT ![job.name] = job.on]
      <3>2. c = [gtk EXCEPT !.kept = k]
        BY <2>2 DEF Carried
      <3>3. k \in [Switches -> BOOLEAN \cup {None}]
        BY <1>2, <3>1 DEF Shaped
      <3> HIDE DEF k, job
      <3>4. /\ Turned(gtk, [gtk EXCEPT !.kept = k])
        BY <1>2, <3>3, KeptField
      <3>5. Turned(gtk, c)
        BY <3>2, <3>4
      <3> HIDE DEF c
      <3>6. Beside(gtk, c) /\ c.jobs = gtk.jobs /\ c.out = gtk.out
        BY <1>2, <3>5, TurnedBeside
      <3> QED BY <3>6 DEF Beside, Grows
    <2> QED BY <2>1, <2>2
  <1>6. Good(Settling(c, o.dm), o.dm)
    <2> HIDE DEF o
    <2>1. Moves(dm, o.dm) /\ (job.do = "save" => o.dm.st.sw[job.name] = job.on)
      BY <1>3 DEF Carries
    <2>2. Good(Settling(Carried(gtk, gtk.jobs["request"][1]), o.dm), o.dm)
      BY <1>1, <1>2, <2>1, CarriedGood
    <2> QED BY <1>1, <2>2
  <1>7. Fair(o.dm, job, r) /\ o.signals \in Seq(SignalNames) /\ Daemon(o.dm)
    BY <1>3, <1>4, FailedFair DEF Carries, Moves
  <1> HIDE DEF o, c
  <1> QED BY <1>0, <1>4, <1>5, <1>6, <1>7, AnsweredGood

LEMMA ActsStep ==
    ASSUME NEW s, IInv, Acts(s), Good(s, dm)
    PROVE  IInv'
  BY DEF IInv, Acts

LEMMA QuietStep ==
    ASSUME NEW s, IInv, Acts(s), Quiet(gtk, s)
    PROVE  IInv'
  BY QuietGood, ActsStep DEF IInv

LEMMA HappensStep ==
    ASSUME NEW d, NEW sig \in SignalNames, IInv, Happens(d, sig), Moves(dm, d)
    PROVE  IInv'
  <1>1. dm' = d /\ bus' = Append(bus, sig) /\ gtk' = Settling(gtk, d)
    BY DEF Happens
  <1>2. Good(Settling(gtk, d), d) /\ Daemon(d)
    BY SettlingGood DEF IInv, Moves
  <1>3. bus' \in Seq(SignalNames)
    BY <1>1 DEF IInv
  <1> QED BY <1>1, <1>2, <1>3 DEF IInv

LEMMA PageStep == ASSUME IInv, SwitchPage PROVE IInv'
  <1>1. Good(gtk, dm) /\ Base(gtk, dm) /\ Views(gtk) /\ Shaped(gtk) /\ Known(gtk.card, dm)
    BY DEF IInv, Good, Base
  <1>2. ASSUME NEW shown \in BOOLEAN, NEW tab \in BOOLEAN
        PROVE  Good(SyncWatches(gtk, shown, tab), dm)
    BY <1>1, SyncWatchesViews, CalmGood
  <1>0. (~gtk.shown) \in BOOLEAN /\ (~gtk.tab) \in BOOLEAN
    OBVIOUS
  <1>3. /\ gtk.shown \in BOOLEAN /\ gtk.tab \in BOOLEAN
        /\ (~gtk.shown) \in BOOLEAN /\ (~gtk.tab) \in BOOLEAN
    BY <1>0, <1>1 DEF Views
  <1>4. CASE Acts(SyncWatches(gtk, ~gtk.shown, gtk.tab))
    <2>1. Good(SyncWatches(gtk, ~gtk.shown, gtk.tab), dm)
      BY <1>2, <1>3
    <2> QED BY <1>4, <2>1, ActsStep
  <1>5. CASE Acts(SyncWatches(gtk, gtk.shown, ~gtk.tab))
    <2>1. Good(SyncWatches(gtk, gtk.shown, ~gtk.tab), dm)
      BY <1>2, <1>3
    <2> QED BY <1>5, <2>1, ActsStep
  <1>6. CASE Acts(If(~gtk.apps.open, [gtk EXCEPT !.apps.open = ~@], AppsLoad))
    <2> DEFINE v == [gtk.apps EXCEPT !.open = ~@]
    <2> DEFINE t == [gtk EXCEPT !.apps = v]
    <2>1. If(~gtk.apps.open, [gtk EXCEPT !.apps.open = ~@], AppsLoad) \in {t, AppsLoad(t)}
      BY DEF If, Then
    <2> HIDE DEF v
    <2>2. Quiet(gtk, t)
      BY <1>1, OtherField
    <2> HIDE DEF t
    <2>3. Quiet(t, AppsLoad(t))
      BY <2>2, QuietShaped, AppsLoadQuiet
    <2>4. Quiet(gtk, AppsLoad(t))
      BY <1>1, <2>2, <2>3, QuietTrans
    <2> QED BY <1>6, <2>1, <2>2, <2>4, QuietStep
  <1>7. CASE Acts(LoadFeatures(gtk))
    BY <1>1, <1>7, LoadFeaturesQuiet, QuietStep
  <1> QED BY <1>4, <1>5, <1>6, <1>7 DEF SwitchPage

LEMMA ChooseStep == ASSUME NoneIsNew, IInv, Choose PROVE IInv'
  <1>1. Good(gtk, dm) /\ Shaped(gtk)
    BY DEF IInv, Good, Base
  <1>2. ASSUME NEW n \in Switches \ gtk.dis, Acts(Toggle(gtk, n))
        PROVE  IInv'
    BY <1>1, <1>2, ToggleGood, ActsStep
  <1>3. CASE Acts(TogglePlain(gtk))
    BY <1>1, <1>3, TogglePlainQuiet, QuietStep
  <1>4. CASE Acts(QuickToggle(gtk))
    BY <1>1, <1>4, QuickToggleQuiet, QuietStep
  <1>5. ASSUME NEW n, Acts(FeatureToggled(gtk, n))
        PROVE  IInv'
    BY <1>1, <1>5, FeatureToggledQuiet, QuietStep
  <1> QED BY <1>2, <1>3, <1>4, <1>5 DEF Choose

LEMMA PressStep == ASSUME IInv, Press PROVE IInv'
  <1>1. Good(gtk, dm) /\ Base(gtk, dm) /\ Rules(gtk, dm) /\ Shaped(gtk)
    BY DEF IInv, Good, Base
  <1>2. CASE Acts(ChangeRule(gtk))
    <2> DEFINE X == {"save"}
    <2>1. Steady(gtk, ChangeRule(gtk), X) /\ Rules(ChangeRule(gtk), dm) /\ "save" \in X
      BY <1>1, ChangeRuleSteady
    <2> HIDE DEF X
    <2>2. Good(ChangeRule(gtk), dm)
      BY <1>1, <2>1, SteadyGood
    <2> QED BY <1>2, <2>2, ActsStep
  <1>3. CASE Acts(MuteApp(gtk))
    BY <1>1, <1>3, MuteAppQuiet, QuietStep
  <1>4. CASE Acts(TetherRequest(gtk))
    BY <1>1, <1>4, TetherRequestQuiet, QuietStep
  <1>5. CASE Acts(Sync(gtk))
    BY <1>1, <1>5, SyncQuiet, QuietStep
  <1>6. CASE Acts(Act(gtk))
    BY <1>1, <1>6, ActQuiet, QuietStep
  <1> QED BY <1>2, <1>3, <1>4, <1>5, <1>6 DEF Press

LEMMA ChangesStep == ASSUME IInv, Changes PROVE IInv'
  <1>1. Daemon(dm)
    BY DEF IInv
  <1>0. "status" \in SignalNames /\ {"media", "log", "calls", "threads", "apps"} \subseteq SignalNames
    BY DEF SignalNames
  <1>2. ASSUME NEW k \in {"media", "log", "calls", "threads", "apps"}, Happens([dm EXCEPT !.ver = @ + 1], k)
        PROVE  IInv'
    <2> DEFINE e == [dm EXCEPT !.ver = dm.ver + 1]
    <2>1. Moves(dm, e) /\ Happens(e, k) /\ k \in SignalNames
      BY <1>0, <1>1, <1>2, VersionMoves
    <2> HIDE DEF e
    <2> QED BY <2>1, HappensStep
  <1>3. CASE Happens([dm EXCEPT !.st.on = ~@], "status")
    <2> DEFINE e == [dm EXCEPT !.st.on = ~@]
    <2>1. Moves(dm, e) /\ Happens(e, "status")
      BY <1>1, <1>3, OptInMoves
    <2> HIDE DEF e
    <2> QED BY <1>0, <2>1, HappensStep
  <1>4. CASE Happens([dm EXCEPT !.st.prof = @ + 1], "status")
    <2> DEFINE e == [dm EXCEPT !.st.prof = @ + 1]
    <2>1. Moves(dm, e) /\ Happens(e, "status")
      BY <1>1, <1>4, PhoneMoves
    <2> HIDE DEF e
    <2> QED BY <1>0, <2>1, HappensStep
  <1>5. CASE Happens([dm EXCEPT !.st.open = ~@], "status")
    <2> DEFINE v == ~dm.st.open
    <2> DEFINE e == WithStatus(dm, [dm.st EXCEPT !["open"] = v])
    <2>1. Happens(e, "status")
      BY <1>5 DEF WithStatus
    <2> HIDE DEF v
    <2>2. Moves(dm, e)
      BY <1>1, PreferenceMoves
    <2> HIDE DEF e
    <2> QED BY <1>0, <2>1, <2>2, HappensStep
  <1>6. ASSUME NEW n \in Switches, Happens([dm EXCEPT !.st.sw[n] = ~@], "status")
        PROVE  IInv'
    <2> DEFINE v == ~dm.st.sw[n]
    <2> DEFINE e == [dm EXCEPT !.st.sw[n] = v]
    <2>1. Happens(e, "status") /\ v \in BOOLEAN
      BY <1>6
    <2> HIDE DEF v
    <2>2. Moves(dm, e)
      BY <1>1, <2>1, SwitchMoves
    <2> HIDE DEF e
    <2> QED BY <1>0, <2>1, <2>2, HappensStep
  <1> QED BY <1>2, <1>3, <1>4, <1>5, <1>6 DEF Changes

LEMMA LoopStep == ASSUME NoneIsNew, IInv, Deliver \/ Dispatch PROVE IInv'
  <1>1. CASE Deliver
    <2>1. Good(Callback(Taken(gtk), Head(gtk.idle).job, Head(gtk.idle).answer), dm)
      BY <1>1, CallbackGood DEF IInv, Deliver
    <2>2. gtk' = Callback(Taken(gtk), Head(gtk.idle).job, Head(gtk.idle).answer) /\ dm' = dm /\ bus' = bus
      BY <1>1 DEF Deliver, Taken
    <2> QED BY <2>1, <2>2 DEF IInv
  <1>2. CASE Dispatch
    <2>1. Head(bus) \in SignalNames /\ Tail(bus) \in Seq(SignalNames)
      BY <1>2 DEF Dispatch, IInv
    <2>2. Good(Signalled(gtk, Head(bus)), dm)
      BY <2>1, SignalledQuiet, QuietGood DEF IInv, Good, Base
    <2> QED BY <1>2, <2>1, <2>2 DEF Dispatch, IInv
  <1> QED BY <1>1, <1>2

LEMMA ThreadStep == ASSUME NoneIsNew, IInv, NEW h \in Threads, Work(h) \/ Finish(h) PROVE IInv'
  <1>1. CASE Work(h) /\ h = "request"
    <2>1. Due("request") /\ CarryOut(Head(gtk.jobs["request"]), LAMBDA answer : answer)
      BY <1>1 DEF Work
    <2> QED BY <2>1, CarryOutStep DEF CarryOut
  <1>2. CASE Work(h) /\ h = "read"
    <2>1. Due("read") /\ Answered("read", gtk, dm, <<>>, Answer(Head(gtk.jobs["read"])))
      BY <1>2 DEF Work
    <2>2. Head(gtk.jobs["read"]).do \in KindsOf["read"]
      BY <1>2, <2>1, DueJob
    <2>3. Fair(dm, Head(gtk.jobs["read"]), Answer(Head(gtk.jobs["read"])))
      BY <2>2, AnswerFair DEF IInv
    <2> QED BY <1>2, <2>1, <2>3, ReadStep
  <1>3. CASE Finish(h)
    <2>1. gtk.out[h] # None /\ gtk' = Finished(gtk, h) /\ dm' = dm /\ bus' = bus
      BY <1>3 DEF Finish, Finished
    <2>2. Good(Finished(gtk, h), dm)
      BY <2>1, FinishedGood DEF IInv
    <2> QED BY <2>1, <2>2 DEF IInv
  <1> QED BY <1>1, <1>2, <1>3, FieldNames

LEMMA FailStep == ASSUME NoneIsNew, IInv, ReadFails \/ RequestFails PROVE IInv'
  <1>0. "read" \in Threads /\ "request" \in Threads
    BY FieldNames
  <1>1. CASE ReadFails
    <2>1. Due("read") /\ Answered("read", gtk, dm, <<>>, Failed)
      BY <1>1 DEF ReadFails
    <2> QED BY <1>0, <2>1, FailedFair, ReadStep
  <1>2. CASE Due("request") /\ Answered("request", gtk, dm, <<>>, Failed)
    BY <1>0, <1>2, FailedFair, ReadStep
  <1>3. CASE Due("request") /\ CarryOut(Head(gtk.jobs["request"]), LAMBDA answer : Failed)
    BY <1>3, CarryOutStep DEF CarryOut
  <1> QED BY <1>1, <1>2, <1>3 DEF RequestFails

LEMMA GtkInit == Init => IInv
  <1>1. <<>> \in Seq(SignalNames)
    BY Signals
  <1> QED BY <1>1, NewDaemonFine, OpenedGood DEF Init, IInv

LEMMA GtkStep == ASSUME NoneIsNew, IInv, [Next]_gtkVars PROVE IInv'
  <1>1. CASE UNCHANGED gtkVars
    BY <1>1 DEF gtkVars, IInv
  <1>2. CASE Next
    BY <1>2, ThreadStep, FailStep, LoopStep, PageStep, ChooseStep, PressStep, ChangesStep DEF Next
  <1> QED BY <1>1, <1>2

\* In every state the invariant allows, the two properties hold.
LEMMA GtkSafe == ASSUME NoneIsNew, IInv PROVE ChoiceStands /\ Forgets
  <1>1. Good(gtk, dm)
    BY DEF IInv
  <1>2. ASSUME NEW n \in Switches, gtk.kept[n] # None, gtk.last.up
        PROVE  gtk.row[n] = gtk.kept[n]
    <2>1. Choice(gtk, dm, n) /\ Stands(gtk, dm, n, gtk.kept[n])
      BY <1>1, <1>2 DEF Good, Choice
    <2>2. CASE gtk.choice[n].pending # None
      BY <2>1, <2>2 DEF Choice, Stands
    <2>3. CASE gtk.choice[n].pending = None
      BY <1>2, <2>1, <2>3 DEF Stands
    <2> QED BY <2>2, <2>3
  <1>3. gtk.rules.loaded # None => gtk.rules.rows >= gtk.rules.loaded
    BY <1>1 DEF Good, Rules
  <1>4. ChoiceStands
    BY <1>2, <1>3 DEF ChoiceStands
  <1>5. gtk.card.prof \in Nat /\ Shown(gtk)
    BY <1>1 DEF Good, Base, Known, Views
  <1>6. Forgets
    BY <1>5 DEF Shown, Forgets
  <1> QED BY <1>4, <1>6

\* A switch of the settings shows the choice that the daemon carried out, whatever settings were
\* read before it and in whatever order the two threads answer, until somebody changes it or
\* the save of any switch fails, which shows them all from the last status again; and
\* the notification rules shown are never older than the revision acknowledged
\* (SavedChoice.resolve() and NotificationRules of ui/settings.py).
THEOREM GtkChoiceStands == ASSUME NoneIsNew PROVE SafetySpec => []ChoiceStands
  <1>1. Init => IInv
    BY GtkInit
  <1>2. IInv /\ [Next]_gtkVars => IInv'
    BY GtkStep
  <1>3. IInv => ChoiceStands
    BY GtkSafe
  <1> QED BY <1>1, <1>2, <1>3, PTL DEF SafetySpec

\* No answer on its way when a view was hidden, the phone changed or an opt-in went brings back
\* what the view may no longer show (CoalescedRead, PhoneCard, CallsPage and RunningCalls).
THEOREM GtkForgets == ASSUME NoneIsNew PROVE SafetySpec => []Forgets
  <1>1. Init => IInv
    BY GtkInit
  <1>2. IInv /\ [Next]_gtkVars => IInv'
    BY GtkStep
  <1>3. IInv => Forgets
    BY GtkSafe
  <1> QED BY <1>1, <1>2, <1>3, PTL DEF SafetySpec

=============================================================================
