--------------------------- MODULE QtClientProofs ---------------------------
(***************************************************************************)
(* Proofs about the Qt client.                                             *)
(***************************************************************************)
EXTENDS QtClient, TLAPS

\* None is none of the values it stands in for.
NoneIsNew == None \notin BOOLEAN /\ None \notin Nat

-----------------------------------------------------------------------------
(***************************************************************************)
(* The controller's records.                                               *)
(***************************************************************************)
Fields == DOMAIN NewController
Views == {"status", "notes", "book", "search", "log", "apps", "faces", "keys", "find"}
Parts == [v \in Views |-> DOMAIN NewController[v]]
Timers == {"refresh", "notes", "book", "search", "log", "apps", "media", "tether"}
Reads == {"start", "snapshot", "notes", "book", "card", "search", "log", "apps", "face", "calls",
          "media", "tether", "features", "find"}
Kinds == Reads \cup Requests

IsSeq(q) == \E S : q \in Seq(S)
IsRec(x, F) == DOMAIN x = F /\ x = [f \in F |-> x[f]]

Shaped(s) ==
    /\ IsRec(s, Fields)
    /\ \A v \in Views : IsRec(s[v], Parts[v])
    /\ s.timers \subseteq Timers
    /\ IsSeq(s.jobs) /\ IsSeq(s.done)
    /\ \A i \in DOMAIN s.jobs : s.jobs[i].do \in Kinds
    /\ \A i \in DOMAIN s.done : s.done[i].job.do \in Kinds

\* From s to t only the views in V change, and only jobs of a kind in K are added.
Moves(s, t, V, K) ==
    /\ Shaped(t)
    /\ t.done = s.done
    /\ \A f \in Fields \ (V \cup {"jobs", "timers"}) : t[f] = s[f]
    /\ \A i \in DOMAIN t.jobs :
           \/ i \in DOMAIN s.jobs /\ t.jobs[i] = s.jobs[i]
           \/ i \notin DOMAIN s.jobs /\ t.jobs[i].do \in K
    /\ DOMAIN s.jobs \subseteq DOMAIN t.jobs

With(s, v, x) == [s EXCEPT ![v] = x]

-----------------------------------------------------------------------------
(***************************************************************************)
(* The parts of the invariant.  Each is about one view, the jobs asked for *)
(* it and their answers: an answer that would still be shown is fit to be. *)
(***************************************************************************)

\* A status that the daemon d had once, or that the client takes for an unreachable one.
Known(st, d) ==
    /\ st.up \in BOOLEAN /\ st.on \in BOOLEAN /\ st.open \in BOOLEAN /\ st.photos \in BOOLEAN
    /\ st.up => st.epoch \in Nat /\ st.epoch <= d.st.epoch
    /\ st.photos => st.rev \in Nat /\ st.rev <= d.st.rev

StatusJob(j) == j.do \in {"save", "photos"} => j.on \in BOOLEAN
StatusAnswer(d, j, r) ==
    /\ j.do = "start" /\ r.ok => IsRec(r.value, Parts["status"]) /\ Known(r.value, d)
    /\ j.do = "snapshot" => IsRec(r.value.st, Parts["status"]) /\ Known(r.value.st, d)
    /\ j.do \in {"save", "unlock"} /\ r.ok => r.value \in BOOLEAN
    /\ j.do = "photos" /\ r.ok =>
           /\ r.value.photos \in BOOLEAN
           /\ r.value.photos => r.value.rev \in Nat /\ r.value.rev <= d.st.rev
StatusPart(s, d) ==
    /\ Known(s.status, d)
    /\ \A i \in DOMAIN s.jobs : StatusJob(s.jobs[i])
    /\ \A i \in DOMAIN s.done : StatusAnswer(d, s.done[i].job, s.done[i].answer)

NotesPart(s, H) ==
    /\ s.notes.watched \in BOOLEAN
    /\ s.notes.watched => "notes" \in H
    /\ s.notes.rows = None \/ (s.notes.watched /\ s.notes.key = TRUE)

LogPart(s) == s.log.watched \in BOOLEAN /\ (s.log.watched \/ s.log.rows = None)
AppsPart(s) == s.apps.watched \in BOOLEAN /\ (s.apps.watched \/ s.apps.rows = None)

\* The list, page p of the query q being on its way.
RowFine(b, r) ==
    /\ b.watched /\ b.supported
    /\ IsRec(r, {"page", "query", "epoch", "photo"})
    /\ r.epoch \in Nat /\ b.epoch <= r.epoch
    /\ r.photo => b.photos
    /\ r.query = b.about
PageJob(b, p, q, j) ==
    j.do = "book" =>
        /\ j.serial \in Nat /\ j.serial <= b.list
        /\ j.serial = b.list => b.supported /\ j.page = p /\ j.query = q
PageAnswer(b, j, r) ==
    j.do = "book" /\ j.serial = b.list /\ r.ok =>
        /\ IsRec(r.value, {"page", "query", "epoch", "photo"})
        /\ r.value.epoch \in Nat /\ b.epoch <= r.value.epoch /\ r.value.query = j.query
Pages(s, p, q) ==
    /\ p # 1 => q = s.book.about
    /\ \A i \in DOMAIN s.jobs : PageJob(s.book, p, q, s.jobs[i])
    /\ \A i \in DOMAIN s.done : PageJob(s.book, p, q, s.done[i].job)
    /\ \A i \in DOMAIN s.done : PageAnswer(s.book, s.done[i].job, s.done[i].answer)

\* The card.
CardFine(b, c) ==
    /\ IsRec(c, {"id", "at", "error"})
    /\ c.at = None \/ (c.at \in Nat /\ b.epoch <= c.at)
CardJob(b, j) ==
    j.do = "card" =>
        /\ j.serial \in Nat /\ j.serial <= b.open
        /\ j.serial = b.open => b.supported /\ CardFine(b, b.card)
CardAnswer(b, j, r) ==
    j.do = "card" /\ j.serial = b.open /\ r.ok /\ r.value # None =>
        r.value.epoch \in Nat /\ b.epoch <= r.value.epoch
Cards(s) ==
    /\ \A i \in DOMAIN s.jobs : CardJob(s.book, s.jobs[i])
    /\ \A i \in DOMAIN s.done : CardJob(s.book, s.done[i].job)
    /\ \A i \in DOMAIN s.done : CardAnswer(s.book, s.done[i].job, s.done[i].answer)

BookView(b, d) ==
    /\ b.watched \in BOOLEAN /\ b.supported \in BOOLEAN /\ b.photos \in BOOLEAN
    /\ b.list \in Nat /\ b.open \in Nat
    /\ b.supported => b.epoch \in Nat /\ b.epoch <= d.st.epoch
    /\ \A r \in b.rows : RowFine(b, r)
    /\ b.card = None \/ (b.watched /\ b.supported /\ CardFine(b, b.card))
    /\ \/ b.photo = None
       \/ b.watched /\ b.supported /\ b.photos /\ b.photo \in Nat /\ b.epoch <= b.photo
BookPart(s, d) == BookView(s.book, d) /\ (\E p, q : Pages(s, p, q)) /\ Cards(s)

SearchView(x, d) ==
    /\ x.serial \in Nat /\ x.since \in Nat /\ x.since <= d.ver
    /\ x.shown = None \/ (x.shown.ver \in Nat /\ x.since <= x.shown.ver)
SearchJob(x, j) == j.do = "search" => j.serial \in Nat /\ j.serial <= x.serial
SearchAnswer(x, j, r) ==
    j.do = "search" /\ j.serial = x.serial /\ r.ok => r.value \in Nat /\ x.since <= r.value
SearchPart(s, d) ==
    /\ SearchView(s.search, d)
    /\ \A i \in DOMAIN s.jobs : SearchJob(s.search, s.jobs[i])
    /\ \A i \in DOMAIN s.done : SearchJob(s.search, s.done[i].job)
    /\ \A i \in DOMAIN s.done : SearchAnswer(s.search, s.done[i].job, s.done[i].answer)

FindJob(x, j) ==
    j.do = "find" =>
        j.serial \in Nat /\ j.serial <= x.serial /\ (j.serial = x.serial => j.query = x.query)
FindPart(s) ==
    /\ s.find.serial \in Nat
    /\ s.find.found = None \/ s.find.found = s.find.query
    /\ \A i \in DOMAIN s.jobs : FindJob(s.find, s.jobs[i])
    /\ \A i \in DOMAIN s.done : FindJob(s.find, s.done[i].job)

FacesView(f, d, H) ==
    /\ f.known[1] \in BOOLEAN
    /\ f.known[1] => f.known[2] \in Nat /\ f.known[2] <= d.st.rev
    /\ f.gen \in Nat
    /\ IsRec(f.kept, Faces)
    /\ \A a \in Faces :
           f.kept[a] = None \/ (f.known[1] /\ f.kept[a] \in Nat /\ f.known[2] <= f.kept[a])
    /\ f.later # {} => "faces" \in H
FaceJob(f, H, j) ==
    j.do = "face" =>
        "faces" \in H /\ j.gen \in Nat /\ j.gen <= f.gen /\ (j.gen = f.gen => f.known[1])
FaceAnswer(f, j, r) ==
    j.do = "face" /\ j.gen = f.gen /\ r.ok /\ r.value # None =>
        r.value \in Nat /\ f.known[2] <= r.value
FacesPart(s, d, H) ==
    /\ FacesView(s.faces, d, H)
    /\ \A i \in DOMAIN s.jobs : FaceJob(s.faces, H, s.jobs[i])
    /\ \A i \in DOMAIN s.done : FaceJob(s.faces, H, s.done[i].job)
    /\ \A i \in DOMAIN s.done : FaceAnswer(s.faces, s.done[i].job, s.done[i].answer)

\* Tones pressed for a call, in the order they were pressed, and those pressed before others.
AsPressed(pressed, call, q) ==
    /\ IsSeq(q)
    /\ \A i \in DOMAIN q : q[i] \in DOMAIN pressed /\ q[i] \in Nat /\ pressed[q[i]] = call
    /\ \A i, j \in DOMAIN q : i < j => q[i] < q[j]
Before(p, q) == \A i \in DOMAIN p, j \in DOMAIN q : p[i] < q[j]

\* What the daemon got was pressed before what is asked for, and that before what waits.
ToneJob(s, d, j) ==
    j.do = "tones" =>
        /\ AsPressed(s.keys.pressed, j.call, j.tones)
        /\ Before(j.tones, s.keys.pending)
        /\ \A g \in DOMAIN d.got : Before(d.got[g].tones, j.tones)
KeysPart(s, d) ==
    /\ IsSeq(s.keys.pressed)
    /\ AsPressed(s.keys.pressed, s.keys.call, s.keys.pending)
    /\ \A i \in DOMAIN s.jobs : ToneJob(s, d, s.jobs[i])
    /\ \A i, m \in DOMAIN s.jobs :
           i < m /\ s.jobs[i].do = "tones" /\ s.jobs[m].do = "tones" =>
               Before(s.jobs[i].tones, s.jobs[m].tones)
    /\ \A g \in DOMAIN d.got :
           /\ AsPressed(s.keys.pressed, d.got[g].call, d.got[g].tones)
           /\ Before(d.got[g].tones, s.keys.pending)
    /\ \A g, h \in DOMAIN d.got : g < h => Before(d.got[g].tones, d.got[h].tones)

\* What two views know of the status.
NotesLink(s, H) == "notes" \in H => (s.notes.key = TRUE <=> Available(s))
FacesLink(s, H) == "faces" \in H => s.faces.known = <<s.status.photos, s.status.rev>>

Fair(s, d, H) ==
    /\ Shaped(s)
    /\ StatusPart(s, d) /\ NotesPart(s, H) /\ LogPart(s) /\ AppsPart(s) /\ BookPart(s, d)
    /\ SearchPart(s, d) /\ FindPart(s) /\ FacesPart(s, d, H) /\ KeysPart(s, d)
Good(s, d, H) == Fair(s, d, H) /\ NotesLink(s, H) /\ FacesLink(s, H)

Signals == {"history", "status", "notes", "apps", "log", "calls", "media", "tether"}
Daemon(d) ==
    /\ IsRec(d, {"st", "ver", "call", "got", "stored"})
    /\ IsRec(d.st, Parts["status"]) /\ Known(d.st, d) /\ d.st.up
    /\ d.st.epoch \in Nat /\ d.st.rev \in Nat /\ d.ver \in Nat
    /\ IsSeq(d.got)
Sent(q, d) == IsSeq(q) /\ \A i \in DOMAIN q : q[i].sig \in Signals /\ q[i].at \in Nat /\ q[i].at <= d.ver

\* The inductive invariant.
IInv == Daemon(dm) /\ Good(qt, dm, DOMAIN left) /\ Sent(bus, dm)

-----------------------------------------------------------------------------
(***************************************************************************)
(* Names, and sequences.                                                   *)
(***************************************************************************)
LEMMA FieldNames ==
    Fields = {"status", "threads", "refreshing", "again", "timers", "jobs", "done", "asked", "notes",
              "book", "search", "log", "apps", "faces", "calls", "keys", "media", "find", "tether",
              "sets"}
  BY DEF Fields, NewController

LEMMA PartNames ==
    /\ Parts["status"] = {"up", "on", "open", "photos", "epoch", "rev"}
    /\ Parts["notes"] = {"watched", "gen", "loading", "again", "rows", "error", "key"}
    /\ Parts["book"] = {"watched", "supported", "epoch", "photos", "pgen", "list", "open", "rows",
                        "loaded", "loading", "error", "query", "about", "card", "photo"}
    /\ Parts["search"] = {"supported", "sources", "query", "serial", "retries", "shown", "loading",
                          "error", "since"}
    /\ Parts["log"] = {"tab", "watched", "loading", "again", "rows", "error"}
    /\ Parts["apps"] = {"watched", "rows", "error"}
    /\ Parts["faces"] = {"known", "gen", "kept", "missing", "pending", "backoff", "later"}
    /\ Parts["keys"] = {"call", "pending", "busy", "pressed"}
    /\ Parts["find"] = {"query", "serial", "found"}
  BY DEF Parts, Views, NewController, Unavailable

LEMMA AppendSeq ==
    ASSUME NEW q, IsSeq(q), NEW e
    PROVE  /\ IsSeq(Append(q, e))
           /\ \A i \in DOMAIN Append(q, e) :
                  \/ i \in DOMAIN q /\ Append(q, e)[i] = q[i]
                  \/ i \notin DOMAIN q /\ i = Len(q) + 1 /\ Append(q, e)[i] = e
           /\ \A i \in DOMAIN q : i \in Nat /\ i <= Len(q)
           /\ \A i \in DOMAIN Append(q, e) : i \in Nat
           /\ DOMAIN q \subseteq DOMAIN Append(q, e)
           /\ Len(q) \in Nat
  <1>1. PICK S : q \in Seq(S)
    BY DEF IsSeq
  <1>2. q \in Seq(S \cup {e}) /\ e \in S \cup {e}
    BY <1>1
  <1>3. Append(q, e) \in Seq(S \cup {e})
    BY <1>2
  <1>4. IsSeq(Append(q, e))
    BY <1>3 DEF IsSeq
  <1>5. QED
    BY <1>2, <1>4

LEMMA TailSeq ==
    ASSUME NEW q, IsSeq(q), q # <<>>
    PROVE  /\ IsSeq(Tail(q))
           /\ \A i \in DOMAIN Tail(q) : i \in Nat /\ i + 1 \in DOMAIN q /\ Tail(q)[i] = q[i + 1]
           /\ 1 \in DOMAIN q /\ Head(q) = q[1]
           /\ \A i \in DOMAIN q : i \in Nat /\ 1 <= i
  <1>1. PICK S : q \in Seq(S)
    BY DEF IsSeq
  <1>2. Tail(q) \in Seq(S)
    BY <1>1
  <1>3. QED
    BY <1>1, <1>2 DEF IsSeq

-----------------------------------------------------------------------------
(***************************************************************************)
(* Steps of the controller.                                                *)
(***************************************************************************)
LEMMA MovesRefl ==
    ASSUME NEW s, Shaped(s) PROVE Moves(s, s, {}, {})
  BY DEF Moves

LEMMA MovesTrans ==
    ASSUME NEW s, NEW t, NEW u, NEW V, NEW W, NEW K, NEW L, Moves(s, t, V, K), Moves(t, u, W, L)
    PROVE  Moves(s, u, V \cup W, K \cup L)
  BY DEF Moves

LEMMA MovesMore ==
    ASSUME NEW s, NEW t, NEW V, NEW W, NEW K, NEW L, Moves(s, t, V, K), V \subseteq W, K \subseteq L
    PROVE  Moves(s, t, W, L)
  BY DEF Moves

LEMMA WithMoves ==
    ASSUME NEW s, Shaped(s), NEW v \in Views, NEW x, IsRec(x, Parts[v])
    PROVE  /\ Moves(s, With(s, v, x), {v}, {})
           /\ With(s, v, x).jobs = s.jobs /\ With(s, v, x).timers = s.timers
           /\ With(s, v, x)[v] = x
  BY FieldNames DEF Shaped, Moves, With, IsRec, Views

LEMMA StartMoves ==
    ASSUME NEW s, Shaped(s), NEW t \in Timers
    PROVE  /\ Moves(s, Start(s, t), {}, {}) /\ Moves(s, Stop(s, t), {}, {})
           /\ Start(s, t).jobs = s.jobs /\ Stop(s, t).jobs = s.jobs
  BY FieldNames DEF Shaped, Moves, Start, Stop, IsRec, Views

LEMMA RunMoves ==
    ASSUME NEW s, Shaped(s), NEW j, j.do \in Kinds
    PROVE  /\ Moves(s, Run(s, j), {}, {j.do})
           /\ Run(s, j).jobs = Append(s.jobs, j)
  <1> DEFINE q == Append(s.jobs, j)
             t == [s EXCEPT !.jobs = q]
  <1>1. Run(s, j) = t
    BY DEF Run
  <1>2. /\ IsSeq(q) /\ DOMAIN s.jobs \subseteq DOMAIN q
        /\ \A i \in DOMAIN q :
               \/ i \in DOMAIN s.jobs /\ q[i] = s.jobs[i]
               \/ i \notin DOMAIN s.jobs /\ q[i] = j
    <2>1. IsSeq(s.jobs)
      BY DEF Shaped
    <2>2. QED
      BY <2>1, AppendSeq
  <1> HIDE DEF q
  <1>3. t.jobs = q /\ \A f \in Fields \ {"jobs"} : t[f] = s[f]
    BY FieldNames DEF Shaped, IsRec
  <1>4. IsRec(t, Fields)
    BY FieldNames DEF Shaped, IsRec
  <1>5. Shaped(t)
    BY <1>2, <1>3, <1>4, FieldNames DEF Shaped, Views
  <1>6. t.done = s.done
    BY <1>3, FieldNames
  <1>7. Moves(s, t, {}, {j.do})
    BY <1>2, <1>3, <1>5, <1>6 DEF Moves
  <1>8. QED
    BY <1>1, <1>3, <1>7 DEF q

\* What a step leaves alone stays as it was.
LEMMA Kept ==
    ASSUME NEW s, NEW t, NEW V, NEW K, Moves(s, t, V, K), NEW d, NEW H
    PROVE  /\ "status" \notin V /\ K \cap {"save", "photos"} = {} /\ StatusPart(s, d) => StatusPart(t, d)
           /\ "notes" \notin V /\ NotesPart(s, H) => NotesPart(t, H)
           /\ "log" \notin V /\ LogPart(s) => LogPart(t)
           /\ "apps" \notin V /\ AppsPart(s) => AppsPart(t)
           /\ "book" \notin V /\ K \cap {"book", "card"} = {} /\ BookPart(s, d) => BookPart(t, d)
           /\ "search" \notin V /\ "search" \notin K /\ SearchPart(s, d) => SearchPart(t, d)
           /\ "find" \notin V /\ "find" \notin K /\ FindPart(s) => FindPart(t)
           /\ "faces" \notin V /\ "face" \notin K /\ FacesPart(s, d, H) => FacesPart(t, d, H)
           /\ "keys" \notin V /\ "tones" \notin K /\ KeysPart(s, d) => KeysPart(t, d)
           /\ V \cap {"notes", "status"} = {} /\ NotesLink(s, H) => NotesLink(t, H)
           /\ V \cap {"faces", "status"} = {} /\ FacesLink(s, H) => FacesLink(t, H)
  <1>1. /\ t.done = s.done
        /\ \A i \in DOMAIN t.jobs :
               \/ i \in DOMAIN s.jobs /\ t.jobs[i] = s.jobs[i]
               \/ t.jobs[i].do \in K
    BY DEF Moves
  <1>2. /\ "status" \notin V => t.status = s.status
        /\ "notes" \notin V => t.notes = s.notes
        /\ "log" \notin V => t.log = s.log
        /\ "apps" \notin V => t.apps = s.apps
        /\ "book" \notin V => t.book = s.book
        /\ "search" \notin V => t.search = s.search
        /\ "find" \notin V => t.find = s.find
        /\ "faces" \notin V => t.faces = s.faces
        /\ "keys" \notin V => t.keys = s.keys
    BY FieldNames DEF Moves
  <1>3. "status" \notin V /\ K \cap {"save", "photos"} = {} /\ StatusPart(s, d) => StatusPart(t, d)
    BY <1>1, <1>2 DEF StatusPart, StatusJob
  <1>4. /\ "notes" \notin V /\ NotesPart(s, H) => NotesPart(t, H)
        /\ "log" \notin V /\ LogPart(s) => LogPart(t)
        /\ "apps" \notin V /\ AppsPart(s) => AppsPart(t)
    BY <1>2 DEF NotesPart, LogPart, AppsPart
  <1>5. "book" \notin V /\ K \cap {"book", "card"} = {} /\ BookPart(s, d) => BookPart(t, d)
    <2> SUFFICES ASSUME "book" \notin V, K \cap {"book", "card"} = {}, BookPart(s, d)
                 PROVE  BookPart(t, d)
      OBVIOUS
    <2>1. t.book = s.book
      BY <1>2
    <2>2. PICK p, q : Pages(s, p, q)
      BY DEF BookPart
    <2>3. Pages(t, p, q)
      BY <1>1, <2>1, <2>2 DEF Pages, PageJob
    <2>4. Cards(t)
      BY <1>1, <2>1 DEF BookPart, Cards, CardJob
    <2>5. QED
      BY <2>1, <2>3, <2>4 DEF BookPart
  <1>6. "search" \notin V /\ "search" \notin K /\ SearchPart(s, d) => SearchPart(t, d)
    BY <1>1, <1>2 DEF SearchPart, SearchJob
  <1>7. "find" \notin V /\ "find" \notin K /\ FindPart(s) => FindPart(t)
    BY <1>1, <1>2 DEF FindPart, FindJob
  <1>8. "faces" \notin V /\ "face" \notin K /\ FacesPart(s, d, H) => FacesPart(t, d, H)
    BY <1>1, <1>2 DEF FacesPart, FaceJob
  <1>9. "keys" \notin V /\ "tones" \notin K /\ KeysPart(s, d) => KeysPart(t, d)
    BY <1>1, <1>2 DEF KeysPart, ToneJob
  <1>10. /\ V \cap {"notes", "status"} = {} /\ NotesLink(s, H) => NotesLink(t, H)
         /\ V \cap {"faces", "status"} = {} /\ FacesLink(s, H) => FacesLink(t, H)
    BY <1>2 DEF NotesLink, FacesLink, Available
  <1>11. QED
    BY <1>3, <1>4, <1>5, <1>6, <1>7, <1>8, <1>9, <1>10

LEMMA MovesOn ==
    ASSUME NEW s, NEW t, NEW u, NEW V, NEW K, Moves(s, t, V, K), Moves(t, u, V, K)
    PROVE  Moves(s, u, V, K)
  BY DEF Moves

\* One field changes, and nothing is asked for.
LEMMA Change ==
    ASSUME NEW s, Shaped(s), NEW v \in Fields \ {"jobs", "timers", "done"}, NEW t,
           IsRec(t, Fields), \A f \in Fields \ {v} : t[f] = s[f],
           v \in Views => IsRec(t[v], Parts[v])
    PROVE  Moves(s, t, {v}, {}) /\ t.jobs = s.jobs
  BY FieldNames DEF Shaped, Moves, Views

LEMMA ChangeOn ==
    ASSUME NEW s, NEW t, NEW V, NEW K, Moves(s, t, V, K),
           NEW v \in Fields \ {"jobs", "timers", "done"}, NEW u,
           IsRec(u, Fields), \A f \in Fields \ {v} : u[f] = t[f],
           v \in Views => IsRec(u[v], Parts[v])
    PROVE  Moves(s, u, V \cup {v}, K) /\ u.jobs = t.jobs
  <1>1. Moves(t, u, {v}, {}) /\ u.jobs = t.jobs
    BY Change DEF Moves
  <1>2. QED
    BY <1>1, MovesTrans

LEMMA TimerOn ==
    ASSUME NEW s, NEW t, NEW V, NEW K, Moves(s, t, V, K), NEW n \in Timers
    PROVE  /\ Moves(s, Start(t, n), V, K) /\ Moves(s, Stop(t, n), V, K)
           /\ \A f \in Fields \ {"timers"} : Start(t, n)[f] = t[f] /\ Stop(t, n)[f] = t[f]
  <1>1. /\ Moves(t, Start(t, n), {}, {}) /\ Moves(t, Stop(t, n), {}, {})
        /\ Start(t, n).jobs = t.jobs /\ Stop(t, n).jobs = t.jobs
    BY StartMoves DEF Moves
  <1>2. Moves(s, Start(t, n), V, K) /\ Moves(s, Stop(t, n), V, K)
    BY <1>1, MovesTrans
  <1>3. QED
    BY <1>1, <1>2 DEF Moves

LEMMA RunOn ==
    ASSUME NEW s, NEW t, NEW V, NEW K, Moves(s, t, V, K), NEW j, j.do \in Kinds, j.do \in K
    PROVE  /\ Moves(s, Run(t, j), V, K)
           /\ Run(t, j).jobs = Append(t.jobs, j)
           /\ \A f \in Fields \ {"jobs"} : Run(t, j)[f] = t[f]
  <1>1. Moves(t, Run(t, j), {}, {j.do}) /\ Run(t, j).jobs = Append(t.jobs, j)
    BY RunMoves DEF Moves
  <1>2. Moves(s, Run(t, j), V, K)
    BY <1>1, MovesTrans, MovesMore
  <1>3. Run(t, j).timers = t.timers
    <2>1. IsRec(t, Fields)
      BY DEF Moves, Shaped
    <2>2. QED
      BY <2>1, FieldNames DEF Run, IsRec
  <1>4. QED
    BY <1>1, <1>2, <1>3 DEF Moves

-----------------------------------------------------------------------------
(***************************************************************************)
(* The notifications.                                                      *)
(***************************************************************************)
SameNotes(s, t) ==
    t.notes.watched = s.notes.watched /\ t.notes.key = s.notes.key /\ t.notes.rows = s.notes.rows

LEMMA NotesClears ==
    ASSUME NEW s, Shaped(s)
    PROVE  /\ Moves(s, NotesClear(s), {"notes"}, {}) /\ NotesClear(s).notes.rows = None
           /\ NotesClear(s).notes.watched = s.notes.watched /\ NotesClear(s).notes.key = s.notes.key
  <1> DEFINE t == [s EXCEPT !.notes.gen = @ + 1, !.notes.again = FALSE, !.notes.rows = None,
                            !.notes.error = FALSE]
  <1>1. NotesClear(s) = Stop(t, "notes")
    BY DEF NotesClear
  <1>2. IsRec(t, Fields) /\ \A f \in Fields \ {"notes"} : t[f] = s[f]
    BY FieldNames DEF Shaped, IsRec
  <1>3. /\ IsRec(t.notes, Parts["notes"])
        /\ t.notes.rows = None /\ t.notes.watched = s.notes.watched /\ t.notes.key = s.notes.key
    BY FieldNames, PartNames DEF Shaped, IsRec, Views
  <1> HIDE DEF t
  <1>4. Moves(s, t, {"notes"}, {}) /\ Shaped(t)
    BY <1>2, <1>3, Change, FieldNames DEF Views, Moves
  <1>5. Moves(t, Stop(t, "notes"), {}, {})
    BY <1>4, StartMoves DEF Timers
  <1>6. Stop(t, "notes").notes = t.notes /\ Moves(s, Stop(t, "notes"), {"notes"}, {})
    BY <1>4, <1>5, MovesMore, MovesOn, FieldNames DEF Moves
  <1>7. QED
    BY <1>1, <1>3, <1>6

LEMMA NotesRefreshes ==
    ASSUME NEW s, Shaped(s)
    PROVE  Moves(s, NotesRefresh(s), {"notes"}, {"notes"}) /\ SameNotes(s, NotesRefresh(s))
  <1> DEFINE a == [s EXCEPT !.notes.again = TRUE]
             b == [s EXCEPT !.notes.loading = TRUE]
             c == Stop(b, "notes")
             j == [do |-> "notes", gen |-> s.notes.gen]
  <1>1. NotesRefresh(s) \in {s, a, Run(c, j)}
    BY DEF NotesRefresh
  <1>2. /\ IsRec(a, Fields) /\ \A f \in Fields \ {"notes"} : a[f] = s[f]
        /\ IsRec(b, Fields) /\ \A f \in Fields \ {"notes"} : b[f] = s[f]
    BY FieldNames DEF Shaped, IsRec
  <1>3. /\ IsRec(a.notes, Parts["notes"]) /\ SameNotes(s, a)
        /\ IsRec(b.notes, Parts["notes"]) /\ SameNotes(s, b)
    BY FieldNames, PartNames DEF Shaped, IsRec, Views, SameNotes
  <1>4. j.do = "notes" /\ j.do \in Kinds
    BY DEF Kinds, Reads
  <1> HIDE DEF a, b, j
  <1>5. Moves(s, a, {"notes"}, {}) /\ Moves(s, b, {"notes"}, {}) /\ Shaped(b)
    BY <1>2, <1>3, Change, FieldNames DEF Views, Moves
  <1>6. Moves(b, c, {}, {}) /\ Shaped(c) /\ c.notes = b.notes
    BY <1>5, StartMoves, FieldNames DEF Timers, Moves
  <1> HIDE DEF c
  <1>7. Moves(c, Run(c, j), {}, {"notes"}) /\ Run(c, j).notes = c.notes
    BY <1>4, <1>6, RunMoves, FieldNames DEF Moves
  <1>8. /\ Moves(s, a, {"notes"}, {"notes"}) /\ Moves(s, b, {"notes"}, {"notes"})
        /\ Moves(b, c, {"notes"}, {"notes"}) /\ Moves(c, Run(c, j), {"notes"}, {"notes"})
        /\ Moves(s, s, {"notes"}, {"notes"})
    BY <1>5, <1>6, <1>7, MovesMore, MovesRefl
  <1>9. Moves(s, Run(c, j), {"notes"}, {"notes"})
    BY <1>8, MovesOn
  <1>10. QED
    BY <1>1, <1>3, <1>6, <1>7, <1>8, <1>9 DEF SameNotes

LEMMA FairNotes ==
    ASSUME NEW s, NEW t, NEW d, NEW H, Fair(s, d, H), Moves(s, t, {"notes"}, {"notes"}), NotesPart(t, H)
    PROVE  Fair(t, d, H) /\ t.status = s.status /\ t.faces = s.faces
  <1>1. /\ StatusPart(s, d) /\ LogPart(s) /\ AppsPart(s) /\ BookPart(s, d) /\ SearchPart(s, d)
        /\ FindPart(s) /\ FacesPart(s, d, H) /\ KeysPart(s, d)
    BY DEF Fair
  <1>2. /\ StatusPart(t, d) /\ LogPart(t) /\ AppsPart(t) /\ BookPart(t, d) /\ SearchPart(t, d)
        /\ FindPart(t) /\ FacesPart(t, d, H) /\ KeysPart(t, d)
    BY <1>1, Kept
  <1>3. Shaped(t) /\ t.status = s.status /\ t.faces = s.faces
    BY FieldNames DEF Moves
  <1>4. QED
    BY <1>2, <1>3 DEF Fair

LEMMA GoodNotes ==
    ASSUME NEW s, NEW t, NEW d, NEW H, Good(s, d, H), Moves(s, t, {"notes"}, {"notes"}),
           NotesPart(t, H), t.notes.key = s.notes.key
    PROVE  Good(t, d, H)
  BY FairNotes DEF Good, NotesLink, FacesLink, Available

LEMMA GoodNotesRefresh ==
    ASSUME NEW s, NEW d, NEW H, Good(s, d, H)
    PROVE  Good(NotesRefresh(s), d, H)
  BY NotesRefreshes, GoodNotes DEF Good, Fair, NotesPart, SameNotes

LEMMA NotesInvalidates ==
    ASSUME NEW s, Shaped(s)
    PROVE  Moves(s, NotesInvalidated(s), {}, {})
  BY StartMoves, MovesRefl DEF NotesInvalidated, Timers

LEMMA GoodWatchNotes ==
    ASSUME NEW s, NEW d, NEW H, Good(s, d, H), "notes" \in H, NEW w \in BOOLEAN
    PROVE  Good(WatchNotes(s, w), d, H)
  <1> DEFINE a == [s EXCEPT !.notes.watched = w]
  <1>0. Shaped(s)
    BY DEF Good, Fair
  <1>1. WatchNotes(s, w) = IF w THEN NotesRefresh(a) ELSE NotesClear(a)
    BY DEF WatchNotes, Then
  <1>2. IsRec(a, Fields) /\ \A f \in Fields \ {"notes"} : a[f] = s[f]
    BY <1>0, FieldNames DEF Shaped, IsRec
  <1>3. /\ IsRec(a.notes, Parts["notes"])
        /\ a.notes.watched = w /\ a.notes.key = s.notes.key /\ a.notes.rows = s.notes.rows
    BY <1>0, FieldNames, PartNames DEF Shaped, IsRec, Views
  <1> HIDE DEF a
  <1>4. Moves(s, a, {"notes"}, {}) /\ Shaped(a)
    BY <1>0, <1>2, <1>3, Change, FieldNames DEF Views, Moves
  <1>5. Moves(s, a, {"notes"}, {"notes"})
    BY <1>4, MovesMore
  <1>6. NotesPart(s, H)
    BY DEF Good, Fair
  <1>7. CASE w
    <2>1. Moves(a, NotesRefresh(a), {"notes"}, {"notes"}) /\ SameNotes(a, NotesRefresh(a))
      BY <1>4, NotesRefreshes
    <2>2. NotesPart(NotesRefresh(a), H)
      BY <1>3, <1>6, <1>7, <2>1 DEF NotesPart, SameNotes
    <2>3. QED
      BY <1>1, <1>3, <1>5, <1>7, <2>1, <2>2, MovesOn, GoodNotes DEF SameNotes
  <1>8. CASE ~w
    <2>1. /\ Moves(a, NotesClear(a), {"notes"}, {"notes"}) /\ NotesClear(a).notes.rows = None
          /\ NotesClear(a).notes.watched = w /\ NotesClear(a).notes.key = s.notes.key
      BY <1>3, <1>4, NotesClears, MovesMore
    <2>2. NotesPart(NotesClear(a), H)
      BY <2>1, <1>8 DEF NotesPart
    <2>3. QED
      BY <1>1, <1>5, <1>8, <2>1, <2>2, MovesOn, GoodNotes
  <1>9. QED
    BY <1>7, <1>8

LEMMA FairSyncStatus ==
    ASSUME NEW s, NEW d, NEW H, Fair(s, d, H)
    PROVE  /\ Moves(s, SyncStatus(s), {"notes"}, {"notes"})
           /\ Fair(SyncStatus(s), d, H) /\ NotesLink(SyncStatus(s), H)
  <1> DEFINE a == [s EXCEPT !.notes.key = Available(s)]
             b == NotesClear(a)
             c == NotesRefresh(b)
  <1>0. Shaped(s) /\ NotesPart(s, H) /\ Available(s) \in BOOLEAN
    BY DEF Fair, StatusPart, Known, Available
  <1>1. SyncStatus(s) = IF s.notes.key = Available(s) THEN s ELSE c
    BY DEF SyncStatus, Then
  <1>2. IsRec(a, Fields) /\ \A f \in Fields \ {"notes"} : a[f] = s[f]
    BY <1>0, FieldNames DEF Shaped, IsRec
  <1>3. /\ IsRec(a.notes, Parts["notes"])
        /\ a.notes.watched = s.notes.watched /\ a.notes.key = Available(s)
    BY <1>0, FieldNames, PartNames DEF Shaped, IsRec, Views
  <1> HIDE DEF a
  <1>4. Moves(s, a, {"notes"}, {}) /\ Shaped(a)
    BY <1>0, <1>2, <1>3, Change, FieldNames DEF Views, Moves
  <1>5. /\ Moves(a, b, {"notes"}, {}) /\ Shaped(b)
        /\ b.notes.rows = None /\ b.notes.watched = s.notes.watched /\ b.notes.key = Available(s)
    BY <1>3, <1>4, NotesClears DEF Moves
  <1> HIDE DEF b
  <1>6. Moves(b, c, {"notes"}, {"notes"}) /\ SameNotes(b, c)
    BY <1>5, NotesRefreshes
  <1> HIDE DEF c
  <1>7. Moves(s, c, {"notes"}, {"notes"})
    BY <1>4, <1>5, <1>6, MovesMore, MovesOn
  <1>8. NotesPart(c, H) /\ c.notes.key = Available(s)
    BY <1>0, <1>5, <1>6 DEF NotesPart, SameNotes
  <1>9. Fair(c, d, H) /\ c.status = s.status
    BY <1>7, <1>8, FairNotes
  <1>10. NotesLink(c, H)
    BY <1>0, <1>8, <1>9 DEF NotesLink, Available
  <1>11. CASE s.notes.key = Available(s)
    <2>1. NotesLink(s, H)
      BY <1>0, <1>11 DEF NotesLink
    <2>2. QED
      BY <1>0, <1>1, <1>11, <2>1, MovesRefl, MovesMore
  <1>12. CASE s.notes.key # Available(s)
    BY <1>1, <1>7, <1>9, <1>10, <1>12
  <1>13. QED
    BY <1>11, <1>12

LEMMA GoodNotesLoaded ==
    ASSUME NEW s, NEW d, NEW H, Good(s, d, H), NEW j, NEW r
    PROVE  Good(NotesLoaded(s, j, r), d, H)
  <1> DEFINE current == j.gen = s.notes.gen /\ s.notes.watched /\ Available(s)
             a == [s EXCEPT !.notes.loading = FALSE, !.notes.rows = IF current THEN r.value ELSE @,
                            !.notes.error = IF current THEN ~r.ok ELSE @]
             b == [a EXCEPT !.notes.again = FALSE]
  <1>0. Shaped(s) /\ NotesPart(s, H) /\ NotesLink(s, H)
    BY DEF Good, Fair
  <1>1. NotesLoaded(s, j, r) \in {a, NotesRefresh(b)}
    BY DEF NotesLoaded, If, Then
  <1>2. IsRec(a, Fields) /\ \A f \in Fields \ {"notes"} : a[f] = s[f]
    BY <1>0, FieldNames DEF Shaped, IsRec
  <1>3. /\ IsRec(a.notes, Parts["notes"])
        /\ a.notes.watched = s.notes.watched /\ a.notes.key = s.notes.key
        /\ a.notes.rows = IF current THEN r.value ELSE s.notes.rows
    BY <1>0, FieldNames, PartNames DEF Shaped, IsRec, Views
  <1>4. current => s.notes.watched /\ s.notes.key = TRUE
    BY <1>0 DEF NotesLink, NotesPart
  <1> HIDE DEF current, a
  <1>5. Moves(s, a, {"notes"}, {}) /\ Shaped(a)
    BY <1>0, <1>2, <1>3, Change, FieldNames DEF Views, Moves
  <1>6. NotesPart(a, H)
    BY <1>0, <1>3, <1>4 DEF NotesPart
  <1>7. Good(a, d, H)
    BY <1>3, <1>5, <1>6, MovesMore, GoodNotes
  <1>8. IsRec(b, Fields) /\ \A f \in Fields \ {"notes"} : b[f] = a[f]
    BY <1>5, FieldNames DEF Shaped, IsRec
  <1>9. IsRec(b.notes, Parts["notes"]) /\ SameNotes(a, b)
    BY <1>5, FieldNames, PartNames DEF Shaped, IsRec, Views, SameNotes
  <1> HIDE DEF b
  <1>10. Moves(a, b, {"notes"}, {})
    BY <1>5, <1>8, <1>9, Change, FieldNames DEF Views
  <1>11. Good(b, d, H)
    <2>1. NotesPart(b, H) /\ b.notes.key = a.notes.key
      BY <1>6, <1>9 DEF SameNotes, NotesPart
    <2>2. Moves(a, b, {"notes"}, {"notes"})
      BY <1>10, MovesMore
    <2>3. QED
      BY <1>7, <2>1, <2>2, GoodNotes
  <1>12. QED
    BY <1>1, <1>7, <1>11, GoodNotesRefresh

-----------------------------------------------------------------------------
\* A step that keeps the parts of the views it touches.
LEMMA FairView ==
    ASSUME NEW s, NEW t, NEW d, NEW H, NEW V, NEW K, Fair(s, d, H), Moves(s, t, V, K),
           "status" \notin V, K \cap {"save", "photos"} = {},
           "notes" \in V => NotesPart(t, H),
           "log" \in V => LogPart(t),
           "apps" \in V => AppsPart(t),
           "book" \in V \/ K \cap {"book", "card"} # {} => BookPart(t, d),
           "search" \in V \/ "search" \in K => SearchPart(t, d),
           "find" \in V \/ "find" \in K => FindPart(t),
           "faces" \in V \/ "face" \in K => FacesPart(t, d, H),
           "keys" \in V \/ "tones" \in K => KeysPart(t, d)
    PROVE  Fair(t, d, H) /\ t.status = s.status
  <1>1. /\ StatusPart(s, d) /\ NotesPart(s, H) /\ LogPart(s) /\ AppsPart(s) /\ BookPart(s, d)
        /\ SearchPart(s, d) /\ FindPart(s) /\ FacesPart(s, d, H) /\ KeysPart(s, d)
    BY DEF Fair
  <1>2. StatusPart(t, d) /\ NotesPart(t, H) /\ LogPart(t) /\ AppsPart(t)
    BY <1>1, Kept
  <1>3. BookPart(t, d) /\ SearchPart(t, d) /\ FindPart(t) /\ FacesPart(t, d, H) /\ KeysPart(t, d)
    BY <1>1, Kept
  <1>4. Shaped(t) /\ t.status = s.status
    BY FieldNames DEF Moves
  <1>5. QED
    BY <1>2, <1>3, <1>4 DEF Fair

LEMMA GoodView ==
    ASSUME NEW s, NEW t, NEW d, NEW H, NEW V, NEW K, Good(s, d, H), Moves(s, t, V, K),
           "status" \notin V, K \cap {"save", "photos"} = {},
           "notes" \in V => NotesPart(t, H) /\ t.notes.key = s.notes.key,
           "log" \in V => LogPart(t),
           "apps" \in V => AppsPart(t),
           "book" \in V \/ K \cap {"book", "card"} # {} => BookPart(t, d),
           "search" \in V \/ "search" \in K => SearchPart(t, d),
           "find" \in V \/ "find" \in K => FindPart(t),
           "faces" \in V \/ "face" \in K => FacesPart(t, d, H) /\ t.faces.known = s.faces.known,
           "keys" \in V \/ "tones" \in K => KeysPart(t, d)
    PROVE  Good(t, d, H)
  <1>1. Fair(s, d, H)
    BY DEF Good
  <1>2. Fair(t, d, H) /\ t.status = s.status
    BY <1>1, FairView
  <1>3. t.notes.key = s.notes.key /\ t.faces.known = s.faces.known
    BY FieldNames DEF Moves
  <1>4. QED
    BY <1>2, <1>3 DEF Good, NotesLink, FacesLink, Available

LEMMA GoodQuiet ==
    ASSUME NEW s, NEW t, NEW d, NEW H, NEW V, NEW K, Good(s, d, H), Moves(s, t, V, K),
           V \cap Views = {},
           K \cap {"save", "photos", "book", "card", "search", "find", "face", "tones"} = {}
    PROVE  Good(t, d, H)
  BY GoodView DEF Views

-----------------------------------------------------------------------------
(***************************************************************************)
(* Recent calls and muted apps.                                            *)
(***************************************************************************)
LEMMA LoadsCallHistory ==
    ASSUME NEW s, Shaped(s)
    PROVE  /\ Moves(s, LoadCallHistory(s), {"log"}, {"log"})
           /\ LoadCallHistory(s).log.watched = s.log.watched
           /\ LoadCallHistory(s).log.rows = s.log.rows
  <1> DEFINE a == [s EXCEPT !.log.again = TRUE]
             b == [s EXCEPT !.log.loading = TRUE]
             j == [do |-> "log"]
  <1>1. LoadCallHistory(s) \in {s, a, Run(b, j)}
    BY DEF LoadCallHistory
  <1>2. /\ IsRec(a, Fields) /\ \A f \in Fields \ {"log"} : a[f] = s[f]
        /\ IsRec(b, Fields) /\ \A f \in Fields \ {"log"} : b[f] = s[f]
    BY FieldNames DEF Shaped, IsRec
  <1>3. /\ IsRec(a.log, Parts["log"]) /\ a.log.watched = s.log.watched /\ a.log.rows = s.log.rows
        /\ IsRec(b.log, Parts["log"]) /\ b.log.watched = s.log.watched /\ b.log.rows = s.log.rows
    BY FieldNames, PartNames DEF Shaped, IsRec, Views
  <1>4. j.do = "log" /\ j.do \in Kinds
    BY DEF Kinds, Reads
  <1> HIDE DEF a, b, j
  <1>5. Moves(s, a, {"log"}, {}) /\ Moves(s, b, {"log"}, {})
    BY <1>2, <1>3, Change, FieldNames DEF Views
  <1>6. /\ Moves(s, a, {"log"}, {"log"}) /\ Moves(s, b, {"log"}, {"log"})
        /\ Moves(s, s, {"log"}, {"log"})
    BY <1>5, MovesMore, MovesRefl
  <1>7. Moves(s, Run(b, j), {"log"}, {"log"}) /\ Run(b, j).log = b.log
    BY <1>4, <1>6, RunOn, FieldNames
  <1>8. QED
    BY <1>1, <1>3, <1>6, <1>7

LEMMA GoodLoadCallHistory ==
    ASSUME NEW s, NEW d, NEW H, Good(s, d, H)
    PROVE  Good(LoadCallHistory(s), d, H)
  <1>1. Shaped(s) /\ LogPart(s)
    BY DEF Good, Fair
  <1>2. Moves(s, LoadCallHistory(s), {"log"}, {"log"}) /\ LogPart(LoadCallHistory(s))
    BY <1>1, LoadsCallHistory DEF LogPart
  <1>3. QED
    BY <1>2, GoodView

LEMMA WatchesCallHistory ==
    ASSUME NEW s, Shaped(s), LogPart(s), NEW w \in BOOLEAN
    PROVE  /\ Moves(s, WatchCallHistory(s, w), {"log"}, {"log"})
           /\ LogPart(WatchCallHistory(s, w))
  <1> DEFINE a == [s EXCEPT !.log.watched = TRUE]
             b == [s EXCEPT !.log.watched = FALSE, !.log.again = FALSE, !.log.rows = None,
                            !.log.error = FALSE]
  <1>1. WatchCallHistory(s, w) \in {LoadCallHistory(a), Stop(b, "log")}
    BY DEF WatchCallHistory
  <1>2. /\ IsRec(a, Fields) /\ \A f \in Fields \ {"log"} : a[f] = s[f]
        /\ IsRec(b, Fields) /\ \A f \in Fields \ {"log"} : b[f] = s[f]
    BY FieldNames DEF Shaped, IsRec
  <1>3. /\ IsRec(a.log, Parts["log"]) /\ a.log.watched = TRUE
        /\ IsRec(b.log, Parts["log"]) /\ b.log.watched = FALSE /\ b.log.rows = None
    BY FieldNames, PartNames DEF Shaped, IsRec, Views
  <1> HIDE DEF a, b
  <1>4. Moves(s, a, {"log"}, {}) /\ Moves(s, b, {"log"}, {})
    BY <1>2, <1>3, Change, FieldNames DEF Views
  <1>5. Moves(s, a, {"log"}, {"log"}) /\ Moves(s, b, {"log"}, {"log"}) /\ Shaped(a)
    BY <1>4, MovesMore DEF Moves
  <1>6. Moves(s, Stop(b, "log"), {"log"}, {"log"}) /\ Stop(b, "log").log = b.log
    BY <1>5, TimerOn, FieldNames DEF Timers
  <1>7. Moves(s, LoadCallHistory(a), {"log"}, {"log"}) /\ LoadCallHistory(a).log.watched = TRUE
    BY <1>3, <1>5, LoadsCallHistory, MovesOn
  <1>8. LogPart(Stop(b, "log")) /\ LogPart(LoadCallHistory(a))
    BY <1>3, <1>6, <1>7 DEF LogPart
  <1>9. QED
    BY <1>1, <1>6, <1>7, <1>8

LEMMA SyncsWatches ==
    ASSUME NEW s, Shaped(s), LogPart(s)
    PROVE  /\ Moves(s, SyncWatches(s), {"log"}, {"log"})
           /\ LogPart(SyncWatches(s))
  <1> DEFINE w == s.log.tab /\ s.status.on
  <1>1. SyncWatches(s) = IF w = s.log.watched THEN s ELSE WatchCallHistory(s, w)
    BY DEF SyncWatches
  <1>2. w \in BOOLEAN
    OBVIOUS
  <1> HIDE DEF w
  <1>3. Moves(s, s, {"log"}, {"log"})
    BY MovesRefl, MovesMore
  <1>4. QED
    BY <1>1, <1>2, <1>3, WatchesCallHistory

LEMMA GoodCallHistoryLoaded ==
    ASSUME NEW s, NEW d, NEW H, Good(s, d, H), NEW r
    PROVE  Good(CallHistoryLoaded(s, r), d, H)
  <1> DEFINE a == [s EXCEPT !.log.loading = FALSE,
                            !.log.rows = IF s.log.watched /\ r.ok THEN r.value ELSE @,
                            !.log.error = IF s.log.watched THEN ~r.ok ELSE @]
             b == [a EXCEPT !.log.again = FALSE]
  <1>0. Shaped(s) /\ LogPart(s)
    BY DEF Good, Fair
  <1>1. CallHistoryLoaded(s, r) \in {a, LoadCallHistory(b)}
    BY DEF CallHistoryLoaded, If, Then
  <1>2. IsRec(a, Fields) /\ \A f \in Fields \ {"log"} : a[f] = s[f]
    BY <1>0, FieldNames DEF Shaped, IsRec
  <1>3. /\ IsRec(a.log, Parts["log"]) /\ a.log.watched = s.log.watched
        /\ a.log.rows = IF s.log.watched /\ r.ok THEN r.value ELSE s.log.rows
    BY <1>0, FieldNames, PartNames DEF Shaped, IsRec, Views
  <1> HIDE DEF a
  <1>4. Moves(s, a, {"log"}, {}) /\ Shaped(a) /\ LogPart(a)
    BY <1>0, <1>2, <1>3, Change, FieldNames DEF Views, Moves, LogPart
  <1>5. Good(a, d, H)
    BY <1>4, GoodView
  <1>6. IsRec(b, Fields) /\ \A f \in Fields \ {"log"} : b[f] = a[f]
    BY <1>4, FieldNames DEF Shaped, IsRec
  <1>7. IsRec(b.log, Parts["log"]) /\ b.log.watched = a.log.watched /\ b.log.rows = a.log.rows
    BY <1>4, FieldNames, PartNames DEF Shaped, IsRec, Views
  <1> HIDE DEF b
  <1>8. Moves(a, b, {"log"}, {}) /\ LogPart(b)
    BY <1>4, <1>6, <1>7, Change, FieldNames DEF Views, LogPart
  <1>9. Good(b, d, H)
    BY <1>5, <1>8, GoodView
  <1>10. QED
    BY <1>1, <1>5, <1>9, GoodLoadCallHistory

LEMMA ReadsNotificationApps ==
    ASSUME NEW s, Shaped(s), NEW keep
    PROVE  Moves(s, ReadNotificationApps(s, keep), {}, {"apps"})
  <1> DEFINE j == [do |-> "apps", keep |-> keep]
  <1>1. ReadNotificationApps(s, keep) \in {s, Run(s, j)}
    BY DEF ReadNotificationApps
  <1>2. j.do = "apps" /\ j.do \in Kinds
    BY DEF Kinds, Reads
  <1> HIDE DEF j
  <1>3. Moves(s, s, {}, {"apps"}) /\ Moves(s, Run(s, j), {}, {"apps"})
    BY <1>2, RunMoves, MovesRefl, MovesMore
  <1>4. QED
    BY <1>1, <1>3

LEMMA GoodWatchNotificationApps ==
    ASSUME NEW s, NEW d, NEW H, Good(s, d, H), NEW w \in BOOLEAN
    PROVE  Good(WatchNotificationApps(s, w), d, H)
  <1> DEFINE a == [s EXCEPT !.apps.watched = TRUE]
             b == [s EXCEPT !.apps = [watched |-> FALSE, rows |-> None, error |-> FALSE]]
             c == ReadNotificationApps(a, FALSE)
             e == Stop(b, "apps")
  <1>0. Shaped(s)
    BY DEF Good, Fair
  <1>1. WatchNotificationApps(s, w) \in {c, e}
    BY DEF WatchNotificationApps
  <1>2. /\ IsRec(a, Fields) /\ \A f \in Fields \ {"apps"} : a[f] = s[f]
        /\ IsRec(b, Fields) /\ \A f \in Fields \ {"apps"} : b[f] = s[f]
    BY <1>0, FieldNames DEF Shaped, IsRec
  <1>3. /\ IsRec(a.apps, Parts["apps"]) /\ a.apps.watched = TRUE
        /\ IsRec(b.apps, Parts["apps"]) /\ b.apps.watched = FALSE /\ b.apps.rows = None
    BY <1>0, FieldNames, PartNames DEF Shaped, IsRec, Views
  <1> HIDE DEF a, b
  <1>4. Moves(s, a, {"apps"}, {}) /\ Moves(s, b, {"apps"}, {}) /\ Shaped(a)
    BY <1>0, <1>2, <1>3, Change, FieldNames DEF Views, Moves
  <1>5. Moves(s, e, {"apps"}, {}) /\ e.apps = b.apps
    BY <1>4, TimerOn, FieldNames DEF Timers
  <1>6. Moves(a, c, {}, {"apps"}) /\ c.apps = a.apps
    <2>1. Moves(a, c, {}, {"apps"})
      BY <1>4, ReadsNotificationApps
    <2> HIDE DEF c
    <2>2. QED
      BY <2>1, FieldNames DEF Moves
  <1> HIDE DEF c, e
  <1>7. Moves(s, c, {"apps"}, {"apps"})
    BY <1>4, <1>6, MovesTrans, MovesMore
  <1>8. AppsPart(c) /\ AppsPart(e)
    BY <1>3, <1>5, <1>6 DEF AppsPart
  <1>9. QED
    BY <1>1, <1>5, <1>7, <1>8, GoodView

LEMMA GoodNotificationAppsLoaded ==
    ASSUME NEW s, NEW d, NEW H, Good(s, d, H), NEW j, NEW r
    PROVE  Good(NotificationAppsLoaded(s, j, r), d, H)
  <1> DEFINE a == [s EXCEPT !.apps.rows = r.value, !.apps.error = ~r.ok \/ (j.keep /\ @)]
  <1>0. Shaped(s) /\ AppsPart(s)
    BY DEF Good, Fair
  <1>1. NotificationAppsLoaded(s, j, r) = IF ~s.apps.watched THEN s ELSE a
    BY DEF NotificationAppsLoaded
  <1>2. IsRec(a, Fields) /\ \A f \in Fields \ {"apps"} : a[f] = s[f]
    BY <1>0, FieldNames DEF Shaped, IsRec
  <1>3. IsRec(a.apps, Parts["apps"]) /\ a.apps.watched = s.apps.watched
    BY <1>0, FieldNames, PartNames DEF Shaped, IsRec, Views
  <1> HIDE DEF a
  <1>4. Moves(s, a, {"apps"}, {})
    BY <1>0, <1>2, <1>3, Change, FieldNames DEF Views
  <1>5. s.apps.watched => AppsPart(a)
    BY <1>0, <1>3 DEF AppsPart
  <1>6. QED
    BY <1>1, <1>4, <1>5, GoodView

LEMMA GoodAppMuted ==
    ASSUME NEW s, NEW d, NEW H, Good(s, d, H), NEW r
    PROVE  Good(AppMuted(s, r), d, H)
  <1> DEFINE a(x) == [s EXCEPT !.apps.error = x]
  <1>0. Shaped(s) /\ AppsPart(s)
    BY DEF Good, Fair
  <1>1. AppMuted(s, r) \in {NotesInvalidated(ReadNotificationApps(a(FALSE), FALSE)),
                            ReadNotificationApps(a(TRUE), TRUE)}
    BY DEF AppMuted, Then
  <1>2. ASSUME NEW x PROVE Good(a(x), d, H)
    <2>1. IsRec(a(x), Fields) /\ \A f \in Fields \ {"apps"} : a(x)[f] = s[f]
      BY <1>0, FieldNames DEF Shaped, IsRec
    <2>2. IsRec(a(x).apps, Parts["apps"]) /\ a(x).apps.watched = s.apps.watched
          /\ a(x).apps.rows = s.apps.rows
      BY <1>0, FieldNames, PartNames DEF Shaped, IsRec, Views
    <2> HIDE DEF a
    <2>3. Moves(s, a(x), {"apps"}, {})
      BY <1>0, <2>1, <2>2, Change, FieldNames DEF Views
    <2>4. AppsPart(a(x))
      BY <1>0, <2>2 DEF AppsPart
    <2>5. QED
      BY <2>3, <2>4, GoodView
  <1>3. ASSUME NEW t, Good(t, d, H), NEW k PROVE Good(ReadNotificationApps(t, k), d, H)
    <2>1. Moves(t, ReadNotificationApps(t, k), {}, {"apps"})
      BY <1>3, ReadsNotificationApps DEF Good, Fair
    <2>2. QED
      BY <1>3, <2>1, GoodQuiet
  <1>4. ASSUME NEW t, Good(t, d, H) PROVE Good(NotesInvalidated(t), d, H)
    <2>1. Moves(t, NotesInvalidated(t), {}, {})
      BY <1>4, NotesInvalidates DEF Good, Fair
    <2>2. QED
      BY <1>4, <2>1, GoodQuiet
  <1> HIDE DEF a
  <1>5. /\ Good(ReadNotificationApps(a(FALSE), FALSE), d, H)
        /\ Good(ReadNotificationApps(a(TRUE), TRUE), d, H)
    BY <1>2, <1>3
  <1>6. Good(NotesInvalidated(ReadNotificationApps(a(FALSE), FALSE)), d, H)
    BY <1>4, <1>5
  <1>7. QED
    BY <1>1, <1>5, <1>6

-----------------------------------------------------------------------------
(***************************************************************************)
(* What no view is about.                                                  *)
(***************************************************************************)
Plain == {"threads", "refreshing", "again", "asked", "calls", "media", "tether", "sets"}

LEMMA GoodPlain ==
    ASSUME NEW s, NEW d, NEW H, Good(s, d, H), NEW v \in Plain, NEW t,
           IsRec(t, Fields), \A f \in Fields \ {v} : t[f] = s[f]
    PROVE  Good(t, d, H)
  <1>1. Moves(s, t, {v}, {})
    BY Change, FieldNames DEF Good, Fair, Plain, Views
  <1>2. QED
    BY <1>1, GoodQuiet DEF Plain, Views

LEMMA GoodRun ==
    ASSUME NEW s, NEW d, NEW H, Good(s, d, H), NEW j, j.do \in Kinds,
           j.do \notin {"save", "photos", "book", "card", "search", "find", "face", "tones"}
    PROVE  Good(Run(s, j), d, H)
  <1>1. Moves(s, Run(s, j), {}, {j.do})
    BY RunMoves DEF Good, Fair
  <1>2. QED
    BY <1>1, GoodQuiet

LEMMA GoodTimer ==
    ASSUME NEW s, NEW d, NEW H, Good(s, d, H), NEW n \in Timers
    PROVE  Good(Start(s, n), d, H) /\ Good(Stop(s, n), d, H)
  <1>1. Moves(s, Start(s, n), {}, {}) /\ Moves(s, Stop(s, n), {}, {})
    BY StartMoves DEF Good, Fair
  <1>2. QED
    BY <1>1, GoodQuiet

LEMMA GoodNotesInvalidated ==
    ASSUME NEW s, NEW d, NEW H, Good(s, d, H)
    PROVE  Good(NotesInvalidated(s), d, H)
  BY GoodTimer DEF NotesInvalidated, Timers

LEMMA GoodMedia ==
    ASSUME NEW s, NEW d, NEW H, Good(s, d, H), NEW x
    PROVE  Good(RefreshNowPlaying(s), d, H) /\ Good([s EXCEPT !.media = x], d, H)
  <1>1. ASSUME NEW y PROVE Good([s EXCEPT !.media = y], d, H)
    <2> DEFINE t == [s EXCEPT !.media = y]
    <2>1. IsRec(t, Fields) /\ \A f \in Fields \ {"media"} : t[f] = s[f]
      BY FieldNames DEF Good, Fair, Shaped, IsRec
    <2> HIDE DEF t
    <2>2. Good(t, d, H)
      BY <2>1, GoodPlain DEF Plain
    <2>3. QED
      BY <2>2 DEF t
  <1>2. Good(Run(s, [do |-> "media"]), d, H)
    BY GoodRun DEF Kinds, Reads
  <1>3. QED
    BY <1>1, <1>2 DEF RefreshNowPlaying

LEMMA GoodTether ==
    ASSUME NEW s, NEW d, NEW H, Good(s, d, H), NEW r
    PROVE  /\ Good(RefreshTether(s), d, H) /\ Good(TetherCommand(s), d, H)
           /\ Good(TetherAnswered(s, r), d, H) /\ Good(TetherLoaded(s, r), d, H)
  <1>1. ASSUME NEW y PROVE Good([s EXCEPT !.tether = y], d, H)
    <2> DEFINE t == [s EXCEPT !.tether = y]
    <2>1. IsRec(t, Fields) /\ \A f \in Fields \ {"tether"} : t[f] = s[f]
      BY FieldNames DEF Good, Fair, Shaped, IsRec
    <2> HIDE DEF t
    <2>2. Good(t, d, H)
      BY <2>1, GoodPlain DEF Plain
    <2>3. QED
      BY <2>2 DEF t
  <1>2. ASSUME NEW f, NEW y PROVE Good([s EXCEPT !.tether[f] = y], d, H)
    <2>1. [s EXCEPT !.tether[f] = y] = [s EXCEPT !.tether = [s.tether EXCEPT ![f] = y]]
      OBVIOUS
    <2>2. QED
      BY <1>1, <2>1
  <1>3. Good(RefreshTether(s), d, H)
    BY GoodRun DEF Kinds, Reads, RefreshTether
  <1>4. Good(TetherCommand(s), d, H)
    <2>1. Good([s EXCEPT !.tether.pending = TRUE], d, H)
      BY <1>2
    <2>2. [do |-> "command"].do \in Kinds
      BY DEF Kinds, Requests
    <2>3. QED
      BY <2>1, <2>2, GoodRun DEF TetherCommand
  <1>5. Good(TetherAnswered(s, r), d, H)
    <2>1. /\ Good([s EXCEPT !.tether.pending = FALSE], d, H)
          /\ Good([s EXCEPT !.tether = [pending |-> FALSE, shown |-> r.value, error |-> FALSE]], d, H)
      BY <1>1, <1>2
    <2>2. QED
      BY <2>1, GoodTimer DEF TetherAnswered, Timers
  <1>6. Good(TetherLoaded(s, r), d, H)
    BY <1>1 DEF TetherLoaded
  <1>7. QED
    BY <1>3, <1>4, <1>5, <1>6

LEMMA GoodSets ==
    ASSUME NEW s, NEW d, NEW H, Good(s, d, H), NEW x
    PROVE  Good([s EXCEPT !.sets = x], d, H)
  <1> DEFINE t == [s EXCEPT !.sets = x]
  <1>1. IsRec(t, Fields) /\ \A f \in Fields \ {"sets"} : t[f] = s[f]
    BY FieldNames DEF Good, Fair, Shaped, IsRec
  <1> HIDE DEF t
  <1>2. Good(t, d, H)
    BY <1>1, GoodPlain DEF Plain
  <1>3. QED
    BY <1>2 DEF t

LEMMA GoodLoadFeatures ==
    ASSUME NEW s, NEW d, NEW H, Good(s, d, H)
    PROVE  Good(LoadFeatures(s), d, H)
  <1> DEFINE x == [s.sets EXCEPT !.rev = @ + 1]
             a == [s EXCEPT !.sets = x]
             j == [do |-> "features", rev |-> s.sets.rev + 1]
  <1>1. LoadFeatures(s) \in {s, Run(a, j)}
    BY DEF LoadFeatures
  <1>2. j.do = "features" /\ j.do \in Kinds
    BY DEF Kinds, Reads
  <1>3. Good(a, d, H)
    BY GoodSets
  <1> HIDE DEF a, j
  <1>4. Good(Run(a, j), d, H)
    BY <1>2, <1>3, GoodRun
  <1>5. QED
    BY <1>1, <1>4

LEMMA GoodFeatures ==
    ASSUME NEW s, NEW d, NEW H, Good(s, d, H), NEW j, NEW r, NEW n
    PROVE  /\ Good(FeaturesLoaded(s, j, r), d, H) /\ Good(SetFeature(s, n), d, H)
           /\ Good(FeatureSaved(s, j, r), d, H)
  <1>1. Good(FeaturesLoaded(s, j, r), d, H)
    <2> DEFINE x == [s.sets EXCEPT !.items = r.value]
               a == [s EXCEPT !.sets = x]
    <2>1. FeaturesLoaded(s, j, r) \in {s, a}
      BY DEF FeaturesLoaded
    <2>2. Good(a, d, H)
      BY GoodSets
    <2>3. QED
      BY <2>1, <2>2
  <1>2. Good(SetFeature(s, n), d, H)
    <2> DEFINE x == Toggled(s.sets, n)
               a == [s EXCEPT !.sets = x]
               k == [do |-> "feature", name |-> n, on |-> ~s.sets.items[n]]
    <2>1. SetFeature(s, n) = Run(a, k)
      BY DEF SetFeature
    <2>2. k.do = "feature" /\ k.do \in Kinds
      BY DEF Kinds, Requests
    <2> HIDE DEF x
    <2>3. Good(a, d, H)
      BY GoodSets
    <2> HIDE DEF a, k
    <2>4. QED
      BY <2>1, <2>2, <2>3, GoodRun
  <1>3. Good(FeatureSaved(s, j, r), d, H)
    <2> DEFINE x == Saved(s.sets, j.name, r.ok)
               a == [s EXCEPT !.sets = x]
    <2>1. FeatureSaved(s, j, r) = LoadFeatures(a)
      BY DEF FeatureSaved
    <2> HIDE DEF x
    <2>2. Good(a, d, H)
      BY GoodSets
    <2> HIDE DEF a
    <2>3. QED
      BY <2>1, <2>2, GoodLoadFeatures
  <1>4. QED
    BY <1>1, <1>2, <1>3

LEMMA GoodRefresh ==
    ASSUME NEW s, NEW d, NEW H, Good(s, d, H)
    PROVE  Good(Refresh(s), d, H)
  <1> DEFINE a == [s EXCEPT !.again = TRUE]
             b == [s EXCEPT !.refreshing = TRUE]
             j == [do |-> "snapshot"]
  <1>1. Refresh(s) \in {a, Run(b, j)}
    BY DEF Refresh
  <1>2. j.do = "snapshot" /\ j.do \in Kinds
    BY DEF Kinds, Reads
  <1>3. /\ IsRec(a, Fields) /\ \A f \in Fields \ {"again"} : a[f] = s[f]
        /\ IsRec(b, Fields) /\ \A f \in Fields \ {"refreshing"} : b[f] = s[f]
    BY FieldNames DEF Good, Fair, Shaped, IsRec
  <1> HIDE DEF a, b, j
  <1>4. Good(a, d, H) /\ Good(b, d, H)
    BY <1>3, GoodPlain DEF Plain
  <1>5. QED
    BY <1>1, <1>2, <1>4, GoodRun

LEMMA GoodUnlock ==
    ASSUME NEW s, NEW d, NEW H, Good(s, d, H)
    PROVE  Good(Unlock(s), d, H) /\ Good(MaybeUnlockStorage(s), d, H)
  <1> DEFINE a == [s EXCEPT !.asked = TRUE]
             j == [do |-> "unlock"]
  <1>1. Unlock(s) = Run(a, j)
    BY DEF Unlock
  <1>2. j.do = "unlock" /\ j.do \in Kinds
    BY DEF Kinds, Requests
  <1>3. IsRec(a, Fields) /\ \A f \in Fields \ {"asked"} : a[f] = s[f]
    BY FieldNames DEF Good, Fair, Shaped, IsRec
  <1> HIDE DEF a, j
  <1>4. Good(a, d, H)
    BY <1>3, GoodPlain DEF Plain
  <1>5. Good(Unlock(s), d, H)
    BY <1>1, <1>2, <1>4, GoodRun
  <1>6. QED
    BY <1>5 DEF MaybeUnlockStorage

-----------------------------------------------------------------------------
(***************************************************************************)
(* The recipients found and the search.                                    *)
(***************************************************************************)
LEMMA GoodFindContacts ==
    ASSUME NEW s, NEW d, NEW H, Good(s, d, H), NEW query
    PROVE  Good(FindContacts(s, query), d, H)
  <1> DEFINE x == [query |-> query, serial |-> s.find.serial + 1, found |-> None]
             a == [s EXCEPT !.find = x]
             j == [do |-> "find", query |-> query, serial |-> a.find.serial]
             F(t) == IF query = 0 THEN t
                     ELSE Run(t, [do |-> "find", query |-> query, serial |-> t.find.serial])
  <1>0. Shaped(s) /\ FindPart(s)
    BY DEF Good, Fair
  <1>1. FindContacts(s, query) = IF query = 0 THEN a ELSE Run(a, j)
    <2>1. FindContacts(s, query) = Then(a, F)
      BY DEF FindContacts
    <2>2. Then(a, F) = F(a)
      <3> HIDE DEF a, F
      <3>1. QED
        BY DEF Then
    <2>3. QED
      BY <2>1, <2>2
  <1>2. IsRec(a, Fields) /\ a.find = x /\ \A f \in Fields \ {"find"} : a[f] = s[f]
    BY <1>0, FieldNames DEF Shaped, IsRec
  <1>3. /\ IsRec(x, Parts["find"])
        /\ x.query = query /\ x.serial = s.find.serial + 1 /\ x.found = None
    BY PartNames DEF IsRec
  <1>4. j.do = "find" /\ j.do \in Kinds /\ j.serial = a.find.serial /\ j.query = query
    BY DEF Kinds, Reads
  <1> HIDE DEF a, j, x
  <1>5. Moves(s, a, {"find"}, {}) /\ a.jobs = s.jobs
    BY <1>0, <1>2, <1>3, Change, FieldNames DEF Views
  <1>6. Moves(s, a, {"find"}, {"find"}) /\ Shaped(a) /\ a.done = s.done
    BY <1>5, MovesMore DEF Moves
  <1>7. FindPart(a)
    BY <1>0, <1>2, <1>3, <1>5, <1>6 DEF FindPart, FindJob
  <1>8. /\ Moves(s, Run(a, j), {"find"}, {"find"}) /\ Run(a, j).jobs = Append(a.jobs, j)
        /\ Run(a, j).find = a.find /\ Run(a, j).done = a.done
    BY <1>4, <1>6, RunOn, FieldNames
  <1>9. FindPart(Run(a, j))
    <2>1. IsSeq(a.jobs)
      BY <1>6 DEF Shaped
    <2>2. \A i \in DOMAIN Append(a.jobs, j) :
              \/ i \in DOMAIN a.jobs /\ Append(a.jobs, j)[i] = a.jobs[i]
              \/ Append(a.jobs, j)[i] = j
      BY <2>1, AppendSeq
    <2>3. FindJob(a.find, j)
      BY <1>0, <1>2, <1>3, <1>4 DEF FindJob, FindPart
    <2>4. QED
      BY <1>7, <1>8, <2>2, <2>3 DEF FindPart
  <1>10. QED
    BY <1>1, <1>6, <1>7, <1>8, <1>9, GoodView

LEMMA GoodContactsFound ==
    ASSUME NEW s, NEW d, NEW H, Good(s, d, H), NEW j, NEW r, j.do = "find", FindJob(s.find, j)
    PROVE  Good(ContactsFound(s, j, r), d, H)
  <1> DEFINE a == [s EXCEPT !.find.found = j.query]
  <1>0. Shaped(s) /\ FindPart(s)
    BY DEF Good, Fair
  <1>1. ContactsFound(s, j, r) = IF j.serial # s.find.serial THEN s ELSE a
    BY DEF ContactsFound
  <1>2. IsRec(a, Fields) /\ \A f \in Fields \ {"find"} : a[f] = s[f]
    BY <1>0, FieldNames DEF Shaped, IsRec
  <1>3. /\ IsRec(a.find, Parts["find"]) /\ a.find.found = j.query
        /\ a.find.query = s.find.query /\ a.find.serial = s.find.serial
    BY <1>0, FieldNames, PartNames DEF Shaped, IsRec, Views
  <1> HIDE DEF a
  <1>4. Moves(s, a, {"find"}, {}) /\ a.jobs = s.jobs /\ a.done = s.done
    BY <1>0, <1>2, <1>3, Change, FieldNames DEF Views, Moves
  <1>5. j.serial = s.find.serial => FindPart(a)
    BY <1>0, <1>3, <1>4 DEF FindPart, FindJob
  <1>6. QED
    BY <1>1, <1>4, <1>5, GoodView

LEMMA SearchKeeps ==
    ASSUME NEW s, NEW t, NEW d, SearchPart(s, d), t.jobs = s.jobs, t.done = s.done,
           t.search.since = s.search.since, t.search.shown \in {s.search.shown, None},
           t.search.serial \in {s.search.serial, s.search.serial + 1}
    PROVE  SearchPart(t, d)
  <1>1. SearchView(t.search, d)
    BY DEF SearchPart, SearchView
  <1>2. /\ \A i \in DOMAIN t.jobs : SearchJob(t.search, t.jobs[i])
        /\ \A i \in DOMAIN t.done : SearchJob(t.search, t.done[i].job)
    BY DEF SearchPart, SearchView, SearchJob
  <1>3. \A i \in DOMAIN t.done : SearchAnswer(t.search, t.done[i].job, t.done[i].answer)
    BY DEF SearchPart, SearchView, SearchJob, SearchAnswer
  <1>4. QED
    BY <1>1, <1>2, <1>3 DEF SearchPart

\* Nothing is shown, and nothing on its way would be.
Cleared(t) ==
    /\ t.search.shown = None
    /\ \A i \in DOMAIN t.done : t.done[i].job.do = "search" => t.done[i].job.serial # t.search.serial

LEMMA GoodMoves ==
    ASSUME NEW s, NEW t, NEW d, NEW H, NEW V, NEW K, Good(s, d, H), Fair(t, d, H), Moves(s, t, V, K),
           V \cap {"status", "notes", "faces"} = {}
    PROVE  Good(t, d, H)
  BY Kept DEF Good

LEMMA FairSearch ==
    ASSUME NEW s, NEW t, NEW d, NEW H, Fair(s, d, H), IsRec(t, Fields), IsRec(t.search, Parts["search"]),
           \A f \in Fields \ {"search"} : t[f] = s[f],
           t.search.since = s.search.since, t.search.shown \in {s.search.shown, None},
           t.search.serial \in {s.search.serial, s.search.serial + 1}
    PROVE  /\ Fair(t, d, H) /\ Moves(s, t, {"search"}, {})
           /\ t.search.serial = s.search.serial + 1 /\ t.search.shown = None => Cleared(t)
  <1>0. Shaped(s) /\ SearchPart(s, d)
    BY DEF Fair
  <1>1. Moves(s, t, {"search"}, {}) /\ t.jobs = s.jobs /\ t.done = s.done
    BY <1>0, Change, FieldNames DEF Views, Moves
  <1>2. SearchPart(t, d)
    BY <1>0, <1>1, SearchKeeps
  <1>3. Fair(t, d, H)
    BY <1>1, <1>2, FairView
  <1>4. t.search.serial = s.search.serial + 1 /\ t.search.shown = None => Cleared(t)
    BY <1>0, <1>1 DEF Cleared, SearchPart, SearchJob, SearchView
  <1>5. QED
    BY <1>1, <1>2, <1>3, <1>4

LEMMA GoodSearch ==
    ASSUME NEW s, NEW t, NEW d, NEW H, Good(s, d, H), IsRec(t, Fields), IsRec(t.search, Parts["search"]),
           \A f \in Fields \ {"search"} : t[f] = s[f],
           t.search.since = s.search.since, t.search.shown \in {s.search.shown, None},
           t.search.serial \in {s.search.serial, s.search.serial + 1}
    PROVE  Good(t, d, H)
  <1>1. Fair(t, d, H) /\ Moves(s, t, {"search"}, {})
    BY FairSearch DEF Good
  <1>2. QED
    BY <1>1, GoodMoves

LEMMA FairTimer ==
    ASSUME NEW s, NEW t, NEW d, NEW H, NEW V, NEW K, Fair(t, d, H), Moves(s, t, V, K), NEW n \in Timers
    PROVE  /\ Fair(Start(t, n), d, H) /\ Fair(Stop(t, n), d, H)
           /\ Moves(s, Start(t, n), V, K) /\ Moves(s, Stop(t, n), V, K)
           /\ Cleared(t) => Cleared(Start(t, n)) /\ Cleared(Stop(t, n))
  <1>1. Moves(t, Start(t, n), {}, {}) /\ Moves(t, Stop(t, n), {}, {})
    BY StartMoves DEF Fair
  <1>2. Fair(Start(t, n), d, H) /\ Fair(Stop(t, n), d, H)
    BY <1>1, FairView
  <1>3. /\ Start(t, n).search = t.search /\ Stop(t, n).search = t.search
        /\ Start(t, n).done = t.done /\ Stop(t, n).done = t.done
    BY TimerOn, FieldNames
  <1>4. Moves(s, Start(t, n), V, K) /\ Moves(s, Stop(t, n), V, K)
    BY TimerOn
  <1>5. Cleared(t) => Cleared(Start(t, n)) /\ Cleared(Stop(t, n))
    BY <1>3 DEF Cleared
  <1>6. QED
    BY <1>2, <1>4, <1>5

LEMMA GoodSearchRun ==
    ASSUME NEW s, NEW d, NEW H, Good(s, d, H)
    PROVE  Good(SearchRun(s), d, H)
  <1> DEFINE a == [s EXCEPT !.search.serial = @ + 1, !.search.loading = TRUE]
             b == Stop(a, "search")
             j == [do |-> "search", query |-> s.search.query, serial |-> s.search.serial + 1]
  <1>0. Shaped(s) /\ SearchPart(s, d)
    BY DEF Good, Fair
  <1>1. SearchRun(s) \in {Stop(s, "search"), Run(b, j)}
    BY DEF SearchRun
  <1>2. IsRec(a, Fields) /\ \A f \in Fields \ {"search"} : a[f] = s[f]
    BY <1>0, FieldNames DEF Shaped, IsRec
  <1>3. /\ IsRec(a.search, Parts["search"]) /\ a.search.serial = s.search.serial + 1
        /\ a.search.since = s.search.since /\ a.search.shown = s.search.shown
    BY <1>0, FieldNames, PartNames DEF Shaped, IsRec, Views
  <1>4. j.do = "search" /\ j.do \in Kinds /\ j.serial = s.search.serial + 1
    BY DEF Kinds, Reads
  <1> HIDE DEF a, j
  <1>5. Good(a, d, H)
    BY <1>2, <1>3, GoodSearch
  <1>6. Moves(a, a, {}, {})
    BY <1>5, MovesRefl DEF Good, Fair
  <1>7. Good(b, d, H) /\ Good(Stop(s, "search"), d, H) /\ b.search = a.search
    <2>1. "search" \in Timers
      BY DEF Timers
    <2>2. b.search = a.search
      BY <1>6, <2>1, TimerOn, FieldNames
    <2>3. QED
      BY <1>5, <2>1, <2>2, GoodTimer
  <1> HIDE DEF b
  <1>8. Shaped(b) /\ SearchPart(b, d)
    BY <1>7 DEF Good, Fair
  <1>9. Moves(b, b, {}, {"search"})
    BY <1>8, MovesRefl, MovesMore
  <1>10. /\ Moves(b, Run(b, j), {}, {"search"}) /\ Run(b, j).jobs = Append(b.jobs, j)
         /\ Run(b, j).search = b.search /\ Run(b, j).done = b.done
    BY <1>4, <1>9, RunOn, FieldNames
  <1>11. SearchPart(Run(b, j), d)
    <2>1. IsSeq(b.jobs)
      BY <1>8 DEF Shaped
    <2>2. \A i \in DOMAIN Append(b.jobs, j) :
              \/ i \in DOMAIN b.jobs /\ Append(b.jobs, j)[i] = b.jobs[i]
              \/ Append(b.jobs, j)[i] = j
      BY <2>1, AppendSeq
    <2>3. SearchJob(b.search, j)
      BY <1>0, <1>3, <1>4, <1>7 DEF SearchJob, SearchPart, SearchView
    <2>4. QED
      BY <1>8, <1>10, <2>2, <2>3 DEF SearchPart
  <1>12. Good(Run(b, j), d, H)
    BY <1>7, <1>10, <1>11, GoodView
  <1>13. QED
    BY <1>1, <1>7, <1>12

LEMMA FairClearSearch ==
    ASSUME NEW s, NEW d, NEW H, Fair(s, d, H)
    PROVE  Fair(ClearSearch(s), d, H) /\ Moves(s, ClearSearch(s), {"search"}, {})
  <1> DEFINE a == [s EXCEPT !.search.serial = @ + 1, !.search.query = 0, !.search.shown = None,
                            !.search.loading = FALSE, !.search.error = FALSE, !.search.retries = 0]
  <1>0. Shaped(s)
    BY DEF Fair
  <1>1. ClearSearch(s) = Stop(a, "search")
    BY DEF ClearSearch
  <1>2. IsRec(a, Fields) /\ \A f \in Fields \ {"search"} : a[f] = s[f]
    BY <1>0, FieldNames DEF Shaped, IsRec
  <1>3. IsRec(a.search, Parts["search"]) /\ a.search.serial = s.search.serial + 1
    BY <1>0, FieldNames, PartNames DEF Shaped, IsRec, Views
  <1>4. a.search.since = s.search.since /\ a.search.shown = None
    BY <1>0, FieldNames, PartNames DEF Shaped, IsRec, Views
  <1> HIDE DEF a
  <1>5. Fair(a, d, H) /\ Moves(s, a, {"search"}, {})
    BY <1>2, <1>3, <1>4, FairSearch
  <1>6. QED
    BY <1>1, <1>5, FairTimer DEF Timers

LEMMA FairInvalidate ==
    ASSUME NEW s, NEW d, NEW H, Fair(s, d, H)
    PROVE  /\ Fair(Invalidate(s), d, H) /\ Moves(s, Invalidate(s), {"search"}, {})
           /\ Cleared(Invalidate(s))
  <1> DEFINE again == s.search.supported /\ s.search.query # 0
             a == [s EXCEPT !.search.serial = @ + 1, !.search.shown = None, !.search.error = FALSE,
                            !.search.retries = 0, !.search.loading = again]
  <1>0. Shaped(s)
    BY DEF Fair
  <1>1. Invalidate(s) \in {Start(a, "search"), Stop(a, "search")}
    BY DEF Invalidate
  <1> HIDE DEF again
  <1>2. IsRec(a, Fields) /\ \A f \in Fields \ {"search"} : a[f] = s[f]
    BY <1>0, FieldNames DEF Shaped, IsRec
  <1>3. IsRec(a.search, Parts["search"]) /\ a.search.serial = s.search.serial + 1
    BY <1>0, FieldNames, PartNames DEF Shaped, IsRec, Views
  <1>4. a.search.since = s.search.since /\ a.search.shown = None
    BY <1>0, FieldNames, PartNames DEF Shaped, IsRec, Views
  <1> HIDE DEF a
  <1>5. Fair(a, d, H) /\ Moves(s, a, {"search"}, {}) /\ Cleared(a)
    BY <1>2, <1>3, <1>4, FairSearch
  <1>6. QED
    BY <1>1, <1>5, FairTimer DEF Timers

LEMMA GoodSetQuery ==
    ASSUME NEW s, NEW d, NEW H, Good(s, d, H), NEW query
    PROVE  Good(SetQuery(s, query), d, H)
  <1> DEFINE a == [s EXCEPT !.search.query = query, !.search.retries = 0, !.search.serial = @ + 1,
                            !.search.error = FALSE]
             b == [a EXCEPT !.search.loading = TRUE]
             c == [a EXCEPT !.search.loading = FALSE, !.search.shown = None]
  <1>0. Shaped(s)
    BY DEF Good, Fair
  <1>1. SetQuery(s, query) \in {Start(b, "search"), Stop(c, "search")}
    BY DEF SetQuery
  <1>2. IsRec(a, Fields) /\ \A f \in Fields \ {"search"} : a[f] = s[f]
    BY <1>0, FieldNames DEF Shaped, IsRec
  <1>3. /\ IsRec(a.search, Parts["search"]) /\ a.search.serial = s.search.serial + 1
        /\ a.search.since = s.search.since /\ a.search.shown = s.search.shown
    BY <1>0, FieldNames, PartNames DEF Shaped, IsRec, Views
  <1> HIDE DEF a
  <1>4. Good(a, d, H) /\ Shaped(a)
    BY <1>2, <1>3, GoodSearch DEF Good, Fair
  <1>5. /\ IsRec(b, Fields) /\ \A f \in Fields \ {"search"} : b[f] = a[f]
        /\ IsRec(c, Fields) /\ \A f \in Fields \ {"search"} : c[f] = a[f]
    BY <1>4, FieldNames DEF Shaped, IsRec
  <1>6. /\ IsRec(b.search, Parts["search"]) /\ b.search.serial = a.search.serial
        /\ b.search.since = a.search.since /\ b.search.shown = a.search.shown
        /\ IsRec(c.search, Parts["search"]) /\ c.search.serial = a.search.serial
        /\ c.search.since = a.search.since /\ c.search.shown = None
    BY <1>4, FieldNames, PartNames DEF Shaped, IsRec, Views
  <1> HIDE DEF b, c
  <1>7. Good(b, d, H) /\ Good(c, d, H)
    BY <1>4, <1>5, <1>6, GoodSearch
  <1>8. QED
    BY <1>1, <1>7, GoodTimer DEF Timers

LEMMA FairSearchStatus ==
    ASSUME NEW s, NEW d, NEW H, Fair(s, d, H)
    PROVE  Fair(SearchStatus(s), d, H) /\ Moves(s, SearchStatus(s), {"search"}, {})
  <1> DEFINE a == [s EXCEPT !.search.sources = s.status]
             b == [a EXCEPT !.search.supported = s.status.up]
  <1>0. Shaped(s)
    BY DEF Fair
  <1>1. SearchStatus(s) \in {a, b, ClearSearch(b), Invalidate(a)}
    BY DEF SearchStatus, Then
  <1>2. IsRec(a, Fields) /\ \A f \in Fields \ {"search"} : a[f] = s[f]
    BY <1>0, FieldNames DEF Shaped, IsRec
  <1>3. /\ IsRec(a.search, Parts["search"]) /\ a.search.serial = s.search.serial
        /\ a.search.since = s.search.since /\ a.search.shown = s.search.shown
    BY <1>0, FieldNames, PartNames DEF Shaped, IsRec, Views
  <1> HIDE DEF a
  <1>4. Fair(a, d, H) /\ Moves(s, a, {"search"}, {}) /\ Shaped(a)
    BY <1>2, <1>3, FairSearch DEF Fair
  <1>5. IsRec(b, Fields) /\ \A f \in Fields \ {"search"} : b[f] = a[f]
    BY <1>4, FieldNames DEF Shaped, IsRec
  <1>6. /\ IsRec(b.search, Parts["search"]) /\ b.search.serial = a.search.serial
        /\ b.search.since = a.search.since /\ b.search.shown = a.search.shown
    BY <1>4, FieldNames, PartNames DEF Shaped, IsRec, Views
  <1> HIDE DEF b
  <1>7. Fair(b, d, H) /\ Moves(a, b, {"search"}, {})
    BY <1>4, <1>5, <1>6, FairSearch
  <1>8. /\ Fair(ClearSearch(b), d, H) /\ Moves(b, ClearSearch(b), {"search"}, {})
        /\ Fair(Invalidate(a), d, H) /\ Moves(a, Invalidate(a), {"search"}, {})
    BY <1>4, <1>7, FairClearSearch, FairInvalidate
  <1>9. Moves(s, b, {"search"}, {})
    BY <1>4, <1>7, MovesOn
  <1>10. Moves(s, ClearSearch(b), {"search"}, {}) /\ Moves(s, Invalidate(a), {"search"}, {})
    BY <1>4, <1>8, <1>9, MovesOn
  <1>11. QED
    BY <1>1, <1>4, <1>7, <1>8, <1>9, <1>10

LEMMA GoodInvalidate ==
    ASSUME NEW s, NEW d, NEW H, Good(s, d, H)
    PROVE  Good(Invalidate(s), d, H) /\ Cleared(Invalidate(s))
  BY FairInvalidate, GoodMoves DEF Good

LEMMA GoodSearchLoaded ==
    ASSUME NEW s, NEW d, NEW H, Good(s, d, H), NEW j, NEW r, j.do = "search",
           SearchAnswer(s.search, j, r)
    PROVE  Good(SearchLoaded(s, j, r), d, H)
  <1> DEFINE a == [s EXCEPT !.search.retries = @ + 1]
             b == [s EXCEPT !.search.loading = FALSE, !.search.error = TRUE]
             x == [query |-> j.query, ver |-> r.value]
             c == [s EXCEPT !.search.loading = FALSE, !.search.error = ~r.ok,
                            !.search.shown = IF r.ok THEN x ELSE @]
  <1>0. Shaped(s) /\ SearchPart(s, d)
    BY DEF Good, Fair
  <1>1. \/ SearchLoaded(s, j, r) \in {s, Start(a, "search"), b}
        \/ j.serial = s.search.serial /\ SearchLoaded(s, j, r) = c
    BY DEF SearchLoaded
  <1>2. x.ver = r.value
    OBVIOUS
  <1> HIDE DEF x
  <1>3. /\ IsRec(a, Fields) /\ \A f \in Fields \ {"search"} : a[f] = s[f]
        /\ IsRec(b, Fields) /\ \A f \in Fields \ {"search"} : b[f] = s[f]
        /\ IsRec(c, Fields) /\ \A f \in Fields \ {"search"} : c[f] = s[f]
    BY <1>0, FieldNames DEF Shaped, IsRec
  <1>4. /\ IsRec(a.search, Parts["search"]) /\ a.search.serial = s.search.serial
        /\ a.search.since = s.search.since /\ a.search.shown = s.search.shown
    BY <1>0, FieldNames, PartNames DEF Shaped, IsRec, Views
  <1>5. /\ IsRec(b.search, Parts["search"]) /\ b.search.serial = s.search.serial
        /\ b.search.since = s.search.since /\ b.search.shown = s.search.shown
    BY <1>0, FieldNames, PartNames DEF Shaped, IsRec, Views
  <1>6. /\ IsRec(c.search, Parts["search"]) /\ c.search.serial = s.search.serial
        /\ c.search.since = s.search.since
        /\ c.search.shown = IF r.ok THEN x ELSE s.search.shown
    BY <1>0, FieldNames, PartNames DEF Shaped, IsRec, Views
  <1> HIDE DEF a, b, c
  <1>7. Good(a, d, H) /\ Good(b, d, H)
    BY <1>3, <1>4, <1>5, GoodSearch
  <1>8. Good(Start(a, "search"), d, H)
    BY <1>7, GoodTimer DEF Timers
  <1>9. ASSUME j.serial = s.search.serial PROVE Good(c, d, H)
    <2>1. Moves(s, c, {"search"}, {}) /\ c.jobs = s.jobs /\ c.done = s.done
      BY <1>0, <1>3, <1>6, Change, FieldNames DEF Views, Moves
    <2>2. SearchView(c.search, d)
      BY <1>0, <1>2, <1>6, <1>9 DEF SearchView, SearchPart, SearchAnswer
    <2>3. SearchPart(c, d)
      BY <1>0, <1>6, <2>1, <2>2 DEF SearchPart, SearchJob, SearchAnswer
    <2>4. QED
      BY <2>1, <2>3, GoodView
  <1>10. QED
    BY <1>1, <1>7, <1>8, <1>9

\* The versions shown from now on are those since the signal.
LEMMA GoodSince ==
    ASSUME NEW s, NEW d, NEW H, Good(s, d, H), Cleared(s), NEW at \in Nat, at <= d.ver
    PROVE  Good([s EXCEPT !.search.since = at], d, H)
  <1> DEFINE t == [s EXCEPT !.search.since = at]
  <1> SUFFICES Good(t, d, H)
    OBVIOUS
  <1>0. Shaped(s) /\ SearchPart(s, d)
    BY DEF Good, Fair
  <1>1. IsRec(t, Fields) /\ \A f \in Fields \ {"search"} : t[f] = s[f]
    BY <1>0, FieldNames DEF Shaped, IsRec
  <1>2. /\ IsRec(t.search, Parts["search"]) /\ t.search.serial = s.search.serial
        /\ t.search.since = at /\ t.search.shown = s.search.shown
    BY <1>0, FieldNames, PartNames DEF Shaped, IsRec, Views
  <1> HIDE DEF t
  <1>3. Moves(s, t, {"search"}, {}) /\ t.jobs = s.jobs /\ t.done = s.done
    BY <1>0, <1>1, <1>2, Change, FieldNames DEF Views, Moves
  <1>4. SearchView(t.search, d)
    BY <1>0, <1>2 DEF SearchView, SearchPart, Cleared
  <1>5. SearchPart(t, d)
    BY <1>0, <1>2, <1>3, <1>4 DEF SearchPart, SearchJob, SearchAnswer, Cleared
  <1>6. QED
    BY <1>3, <1>5, GoodView

-----------------------------------------------------------------------------
(***************************************************************************)
(* Avatars.                                                                *)
(***************************************************************************)
KeptFine(f, x) == x = None \/ (f.known[1] /\ x \in Nat /\ f.known[2] <= x)

LEMMA GoodFaces ==
    ASSUME NEW s, NEW t, NEW d, NEW H, Good(s, d, H), "faces" \in H,
           IsRec(t, Fields), IsRec(t.faces, Parts["faces"]), \A f \in Fields \ {"faces"} : t[f] = s[f],
           t.faces.known = s.faces.known, t.faces.gen = s.faces.gen,
           IsRec(t.faces.kept, Faces),
           \A a \in Faces : t.faces.kept[a] = s.faces.kept[a] \/ KeptFine(s.faces, t.faces.kept[a])
    PROVE  Good(t, d, H)
  <1>0. Shaped(s) /\ FacesPart(s, d, H)
    BY DEF Good, Fair
  <1>1. Moves(s, t, {"faces"}, {}) /\ t.jobs = s.jobs /\ t.done = s.done
    BY <1>0, Change, FieldNames DEF Views, Moves
  <1>2. FacesView(t.faces, d, H)
    BY <1>0 DEF FacesPart, FacesView, KeptFine
  <1>3. FacesPart(t, d, H)
    BY <1>0, <1>1, <1>2 DEF FacesPart, FaceJob, FaceAnswer
  <1>4. QED
    BY <1>1, <1>3, GoodView

LEMMA GoodAvatarSource ==
    ASSUME NEW s, NEW d, NEW H, Good(s, d, H), "faces" \in H, NEW a
    PROVE  Good(AvatarSource(s, a), d, H)
  <1> DEFINE b == [s EXCEPT !.faces.pending = @ \cup {a}]
             j == [do |-> "face", face |-> a, gen |-> s.faces.gen]
  <1>0. Shaped(s) /\ FacesPart(s, d, H) /\ FacesLink(s, H)
    BY DEF Good, Fair
  <1>1. AvatarSource(s, a) = s \/ (s.status.photos /\ AvatarSource(s, a) = Run(b, j))
    BY DEF AvatarSource
  <1>2. IsRec(b, Fields) /\ \A f \in Fields \ {"faces"} : b[f] = s[f]
    BY <1>0, FieldNames DEF Shaped, IsRec
  <1>3. /\ IsRec(b.faces, Parts["faces"]) /\ b.faces.known = s.faces.known
        /\ b.faces.gen = s.faces.gen /\ b.faces.kept = s.faces.kept
    BY <1>0, FieldNames, PartNames DEF Shaped, IsRec, Views
  <1>4. j.do = "face" /\ j.do \in Kinds /\ j.gen = s.faces.gen
    BY DEF Kinds, Reads
  <1>5. s.status.photos => s.faces.known[1] = TRUE
    <2>1. s.status.photos \in BOOLEAN
      BY DEF Good, Fair, StatusPart, Known
    <2>2. s.faces.known = <<s.status.photos, s.status.rev>>
      BY <1>0 DEF FacesLink
    <2>3. QED
      BY <2>1, <2>2
  <1> HIDE DEF b, j
  <1>6. Good(b, d, H)
    <2>1. IsRec(b.faces.kept, Faces)
      BY <1>0, <1>3 DEF FacesPart, FacesView
    <2>2. QED
      BY <1>2, <1>3, <2>1, GoodFaces
  <1>7. Shaped(b) /\ FacesPart(b, d, H)
    BY <1>6 DEF Good, Fair
  <1>8. Moves(b, b, {}, {"face"})
    BY <1>7, MovesRefl, MovesMore
  <1>9. /\ Moves(b, Run(b, j), {}, {"face"}) /\ Run(b, j).jobs = Append(b.jobs, j)
        /\ Run(b, j).faces = b.faces /\ Run(b, j).done = b.done
    BY <1>4, <1>8, RunOn, FieldNames
  <1>10. ASSUME s.status.photos PROVE FacesPart(Run(b, j), d, H)
    <2>1. IsSeq(b.jobs)
      BY <1>7 DEF Shaped
    <2>2. \A i \in DOMAIN Append(b.jobs, j) :
              \/ i \in DOMAIN b.jobs /\ Append(b.jobs, j)[i] = b.jobs[i]
              \/ Append(b.jobs, j)[i] = j
      BY <2>1, AppendSeq
    <2>3. FaceJob(b.faces, H, j)
      BY <1>0, <1>3, <1>4, <1>5, <1>10 DEF FaceJob, FacesPart, FacesView
    <2>4. QED
      BY <1>7, <1>9, <2>2, <2>3 DEF FacesPart
  <1>11. s.status.photos => Good(Run(b, j), d, H)
    BY <1>6, <1>9, <1>10, GoodView
  <1>12. QED
    BY <1>1, <1>11

LEMMA GoodAvatarsChanged ==
    ASSUME NEW s, NEW d, NEW H, Good(s, d, H), "faces" \in H
    PROVE  Good(AvatarsChanged(s), d, H)
  <1>1. AvatarsChanged(s) = AvatarSource(AvatarSource(s, 1), 2)
    BY DEF AvatarsChanged, Then
  <1>2. QED
    BY <1>1, GoodAvatarSource

LEMMA GoodAvatarLoaded ==
    ASSUME NEW s, NEW d, NEW H, Good(s, d, H), NEW j, NEW r, j.do = "face",
           FaceJob(s.faces, H, j), FaceAnswer(s.faces, j, r)
    PROVE  Good(AvatarLoaded(s, j, r), d, H)
  <1> DEFINE a == j.face
             u == [s EXCEPT !.faces.pending = @ \ {a}]
             v == [u EXCEPT !.faces.backoff = @ \cup {a}, !.faces.later = @ \cup {<<a, j.gen>>}]
             w == [u EXCEPT !.faces.missing = @ \cup {a}]
             x == [u EXCEPT !.faces.kept[a] = r.value]
  <1>0. Shaped(s) /\ FacesPart(s, d, H) /\ "faces" \in H
    BY DEF Good, Fair, FaceJob
  <1>1. \/ AvatarLoaded(s, j, r) \in {AvatarsChanged(u), AvatarsChanged(v), AvatarsChanged(w)}
        \/ /\ j.gen = s.faces.gen /\ r.ok /\ r.value # None
           /\ AvatarLoaded(s, j, r) = AvatarsChanged(x)
    BY DEF AvatarLoaded
  <1>2. IsRec(u, Fields) /\ \A f \in Fields \ {"faces"} : u[f] = s[f]
    BY <1>0, FieldNames DEF Shaped, IsRec
  <1>3. /\ IsRec(u.faces, Parts["faces"]) /\ u.faces.known = s.faces.known
        /\ u.faces.gen = s.faces.gen /\ u.faces.kept = s.faces.kept
    BY <1>0, FieldNames, PartNames DEF Shaped, IsRec, Views
  <1>4. IsRec(s.faces.kept, Faces)
    BY <1>0 DEF FacesPart, FacesView
  <1> HIDE DEF a, u
  <1>5. Good(u, d, H) /\ Shaped(u)
    BY <1>0, <1>2, <1>3, <1>4, GoodFaces DEF Good, Fair
  <1>6. /\ IsRec(v, Fields) /\ \A f \in Fields \ {"faces"} : v[f] = u[f]
        /\ IsRec(w, Fields) /\ \A f \in Fields \ {"faces"} : w[f] = u[f]
        /\ IsRec(x, Fields) /\ \A f \in Fields \ {"faces"} : x[f] = u[f]
    BY <1>5, FieldNames DEF Shaped, IsRec
  <1>7. /\ IsRec(v.faces, Parts["faces"]) /\ v.faces.known = u.faces.known
        /\ v.faces.gen = u.faces.gen /\ v.faces.kept = u.faces.kept
    BY <1>5, FieldNames, PartNames DEF Shaped, IsRec, Views
  <1>8. /\ IsRec(w.faces, Parts["faces"]) /\ w.faces.known = u.faces.known
        /\ w.faces.gen = u.faces.gen /\ w.faces.kept = u.faces.kept
    BY <1>5, FieldNames, PartNames DEF Shaped, IsRec, Views
  <1>9. /\ IsRec(x.faces, Parts["faces"]) /\ x.faces.known = u.faces.known
        /\ x.faces.gen = u.faces.gen /\ x.faces.kept = [u.faces.kept EXCEPT ![a] = r.value]
    BY <1>5, FieldNames, PartNames DEF Shaped, IsRec, Views
  <1> HIDE DEF v, w, x
  <1>10. Good(v, d, H) /\ Good(w, d, H)
    BY <1>0, <1>3, <1>4, <1>5, <1>6, <1>7, <1>8, GoodFaces
  <1>11. ASSUME j.gen = s.faces.gen, r.ok, r.value # None PROVE Good(x, d, H)
    <2>1. KeptFine(u.faces, r.value)
      BY <1>3, <1>11 DEF KeptFine, FaceJob, FaceAnswer
    <2>2. /\ IsRec(x.faces.kept, Faces)
          /\ \A b \in Faces : x.faces.kept[b] \in {u.faces.kept[b], r.value}
      BY <1>3, <1>4, <1>9 DEF IsRec
    <2>3. QED
      BY <1>0, <1>5, <1>6, <1>9, <2>1, <2>2, GoodFaces
  <1>12. QED
    BY <1>0, <1>1, <1>5, <1>10, <1>11, GoodAvatarsChanged

LEMMA GoodAvatarRetry ==
    ASSUME NEW s, NEW d, NEW H, Good(s, d, H), NEW a, NEW gen, s.faces.later # {}
    PROVE  Good(AvatarRetry(s, a, gen), d, H)
  <1> DEFINE u == [s EXCEPT !.faces.later = @ \ {<<a, gen>>}]
             v == [u EXCEPT !.faces.backoff = @ \ {a}]
  <1>0. Shaped(s) /\ FacesPart(s, d, H) /\ "faces" \in H
    BY DEF Good, Fair, FacesPart, FacesView
  <1>1. AvatarRetry(s, a, gen) \in {u, AvatarsChanged(v)}
    BY DEF AvatarRetry
  <1>2. IsRec(u, Fields) /\ \A f \in Fields \ {"faces"} : u[f] = s[f]
    BY <1>0, FieldNames DEF Shaped, IsRec
  <1>3. /\ IsRec(u.faces, Parts["faces"]) /\ u.faces.known = s.faces.known
        /\ u.faces.gen = s.faces.gen /\ u.faces.kept = s.faces.kept
    BY <1>0, FieldNames, PartNames DEF Shaped, IsRec, Views
  <1>4. IsRec(s.faces.kept, Faces)
    BY <1>0 DEF FacesPart, FacesView
  <1> HIDE DEF u
  <1>5. Good(u, d, H) /\ Shaped(u)
    BY <1>0, <1>2, <1>3, <1>4, GoodFaces DEF Good, Fair
  <1>6. IsRec(v, Fields) /\ \A f \in Fields \ {"faces"} : v[f] = u[f]
    BY <1>5, FieldNames DEF Shaped, IsRec
  <1>7. /\ IsRec(v.faces, Parts["faces"]) /\ v.faces.known = u.faces.known
        /\ v.faces.gen = u.faces.gen /\ v.faces.kept = u.faces.kept
    BY <1>5, FieldNames, PartNames DEF Shaped, IsRec, Views
  <1> HIDE DEF v
  <1>8. Good(v, d, H)
    BY <1>0, <1>3, <1>4, <1>5, <1>6, <1>7, GoodFaces
  <1>9. QED
    BY <1>0, <1>1, <1>5, <1>8, GoodAvatarsChanged

LEMMA GoodSyncAvatars ==
    ASSUME NEW s, NEW d, Fair(s, d, DOMAIN left), NotesLink(s, DOMAIN left)
    PROVE  Good(SyncAvatars(s), d, DOMAIN left)
  <1> DEFINE H == DOMAIN left
             now == <<s.status.photos, s.status.rev>>
             none == [a \in Faces |-> None]
             x == [known |-> now, gen |-> s.faces.gen + 1, kept |-> none, missing |-> {},
                   pending |-> s.faces.pending, backoff |-> {}, later |-> s.faces.later]
             a == [s EXCEPT !.faces = x]
  <1>0. Shaped(s) /\ FacesPart(s, d, H) /\ Known(s.status, d)
    BY DEF Fair, StatusPart
  <1>1. SyncAvatars(s) = IF ~("faces" \in H) \/ now = s.faces.known THEN s ELSE AvatarsChanged(a)
    BY DEF SyncAvatars, Has
  <1>2. /\ now[1] = s.status.photos /\ now[2] = s.status.rev
        /\ IsRec(none, Faces) /\ \A b \in Faces : none[b] = None
    BY DEF IsRec
  <1>3. ~("faces" \in H) \/ now = s.faces.known => Good(s, d, H)
    BY DEF Good, FacesLink
  <1> HIDE DEF none
  <1>4. /\ IsRec(x, Parts["faces"]) /\ x.known = now /\ x.gen = s.faces.gen + 1 /\ x.kept = none
    BY PartNames DEF IsRec
  <1> HIDE DEF x
  <1>5. IsRec(a, Fields) /\ a.faces = x /\ \A f \in Fields \ {"faces"} : a[f] = s[f]
    BY <1>0, FieldNames DEF Shaped, IsRec
  <1> HIDE DEF a
  <1>6. Moves(s, a, {"faces"}, {}) /\ a.jobs = s.jobs /\ a.done = s.done /\ a.status = s.status
    BY <1>0, <1>4, <1>5, Change, FieldNames DEF Views, Moves
  <1>7. ASSUME "faces" \in H PROVE FacesPart(a, d, H)
    <2>1. FacesView(x, d, H)
      BY <1>0, <1>2, <1>4, <1>7 DEF FacesPart, FacesView, Known
    <2>2. QED
      BY <1>0, <1>4, <1>5, <1>6, <2>1 DEF FacesPart, FacesView, FaceJob, FaceAnswer
  <1>8. ASSUME "faces" \in H PROVE Good(a, d, H)
    <2>1. Fair(a, d, H)
      BY <1>6, <1>7, <1>8, FairView
    <2>2. FacesLink(a, H)
      BY <1>4, <1>5, <1>6 DEF FacesLink
    <2>3. NotesLink(a, H)
      BY <1>6, Kept
    <2>4. QED
      BY <2>1, <2>2, <2>3 DEF Good
  <1>9. QED
    BY <1>1, <1>3, <1>8, GoodAvatarsChanged

-----------------------------------------------------------------------------
(***************************************************************************)
(* Calls and tones.                                                        *)
(***************************************************************************)
LEMMA NoTones ==
    /\ \A p, c : AsPressed(p, c, <<>>)
    /\ \A q : Before(q, <<>>)
  <1>1. IsSeq(<<>>)
    <2>1. <<>> \in Seq({})
      OBVIOUS
    <2>2. QED
      BY <2>1 DEF IsSeq
  <1>2. DOMAIN <<>> = {}
    OBVIOUS
  <1>3. QED
    BY <1>1, <1>2 DEF AsPressed, Before

LEMMA GoodKeys ==
    ASSUME NEW s, NEW t, NEW d, NEW H, Good(s, d, H), IsRec(t, Fields), IsRec(t.keys, Parts["keys"]),
           \A f \in Fields \ {"keys"} : t[f] = s[f], t.keys.pressed = s.keys.pressed,
           t.keys.pending = <<>> \/ (t.keys.pending = s.keys.pending /\ t.keys.call = s.keys.call)
    PROVE  Good(t, d, H)
  <1>0. Shaped(s) /\ KeysPart(s, d)
    BY DEF Good, Fair
  <1>1. Moves(s, t, {"keys"}, {}) /\ t.jobs = s.jobs
    BY <1>0, Change, FieldNames DEF Views
  <1>2. KeysPart(t, d)
    <2>1. CASE t.keys.pending = <<>>
      BY <1>0, <1>1, <2>1, NoTones DEF KeysPart, ToneJob
    <2>2. CASE t.keys.pending = s.keys.pending /\ t.keys.call = s.keys.call
      BY <1>0, <1>1, <2>2 DEF KeysPart, ToneJob
    <2>3. QED
      BY <2>1, <2>2
  <1>3. QED
    BY <1>1, <1>2, GoodView

LEMMA GoodFlush ==
    ASSUME NEW s, NEW d, NEW H, Good(s, d, H)
    PROVE  Good(Flush(s), d, H)
  <1> DEFINE a == [s EXCEPT !.keys.busy = TRUE, !.keys.pending = <<>>]
             j == [do |-> "tones", call |-> s.keys.call, tones |-> s.keys.pending]
  <1>0. Shaped(s) /\ KeysPart(s, d)
    BY DEF Good, Fair
  <1>1. Flush(s) \in {s, Run(a, j)}
    BY DEF Flush
  <1>2. IsRec(a, Fields) /\ \A f \in Fields \ {"keys"} : a[f] = s[f]
    BY <1>0, FieldNames DEF Shaped, IsRec
  <1>3. IsRec(a.keys, Parts["keys"]) /\ a.keys.pressed = s.keys.pressed /\ a.keys.pending = <<>>
    BY <1>0, FieldNames, PartNames DEF Shaped, IsRec, Views
  <1>4. j.do = "tones" /\ j.do \in Kinds /\ j.call = s.keys.call /\ j.tones = s.keys.pending
    BY DEF Kinds, Requests
  <1> HIDE DEF a, j
  <1>5. Good(a, d, H)
    BY <1>2, <1>3, GoodKeys
  <1>6. Shaped(a) /\ KeysPart(a, d) /\ a.jobs = s.jobs
    BY <1>2, <1>5, FieldNames DEF Good, Fair
  <1>7. Moves(a, a, {}, {"tones"})
    BY <1>6, MovesRefl, MovesMore
  <1>8. /\ Moves(a, Run(a, j), {}, {"tones"}) /\ Run(a, j).jobs = Append(a.jobs, j)
        /\ Run(a, j).keys = a.keys
    BY <1>4, <1>7, RunOn, FieldNames
  <1>9. KeysPart(Run(a, j), d)
    <2> DEFINE q == Append(a.jobs, j)
               t == Run(a, j)
    <2>1. IsSeq(a.jobs)
      BY <1>6 DEF Shaped
    <2>2. /\ \A i \in DOMAIN q :
                 \/ i \in DOMAIN a.jobs /\ q[i] = a.jobs[i]
                 \/ i \notin DOMAIN a.jobs /\ i = Len(a.jobs) + 1 /\ q[i] = j
          /\ \A i \in DOMAIN a.jobs : i \in Nat /\ i <= Len(a.jobs)
          /\ Len(a.jobs) \in Nat
      BY <2>1, AppendSeq
    <2> HIDE DEF q
    <2>3. t.jobs = q /\ t.keys = a.keys
      BY <1>8 DEF q
    <2> HIDE DEF t
    <2>4. ToneJob(t, d, j)
      BY <1>0, <1>3, <1>4, <2>3, NoTones DEF ToneJob, KeysPart
    <2>5. \A i \in DOMAIN q : ToneJob(t, d, q[i])
      BY <1>6, <2>2, <2>3, <2>4 DEF KeysPart, ToneJob
    <2>6. \A i \in DOMAIN a.jobs : a.jobs[i].do = "tones" => Before(a.jobs[i].tones, j.tones)
      BY <1>0, <1>4, <1>6 DEF KeysPart, ToneJob
    <2>7. \A i, m \in DOMAIN q :
              i < m /\ q[i].do = "tones" /\ q[m].do = "tones" => Before(q[i].tones, q[m].tones)
      <3> SUFFICES ASSUME NEW i \in DOMAIN q, NEW m \in DOMAIN q, i < m,
                          q[i].do = "tones", q[m].do = "tones"
                   PROVE  Before(q[i].tones, q[m].tones)
        OBVIOUS
      <3>1. i \in DOMAIN a.jobs /\ q[i] = a.jobs[i]
        BY <2>2
      <3>2. CASE m \in DOMAIN a.jobs /\ q[m] = a.jobs[m]
        BY <1>6, <3>1, <3>2 DEF KeysPart
      <3>3. CASE q[m] = j
        BY <2>6, <3>1, <3>3
      <3>4. QED
        BY <2>2, <3>2, <3>3
    <2>8. KeysPart(t, d)
      BY <1>6, <2>3, <2>5, <2>7 DEF KeysPart
    <2>9. QED
      BY <2>8 DEF t
  <1>10. Good(Run(a, j), d, H)
    BY <1>5, <1>8, <1>9, GoodView
  <1>11. QED
    BY <1>1, <1>10

LEMMA GoodFollow ==
    ASSUME NEW s, NEW d, NEW H, Good(s, d, H), NEW call
    PROVE  Good(Follow(s, call), d, H)
  <1> DEFINE a == [s EXCEPT !.keys.call = call, !.keys.pending = <<>>]
  <1>0. Shaped(s)
    BY DEF Good, Fair
  <1>1. Follow(s, call) \in {s, a}
    BY DEF Follow
  <1>2. IsRec(a, Fields) /\ \A f \in Fields \ {"keys"} : a[f] = s[f]
    BY <1>0, FieldNames DEF Shaped, IsRec
  <1>3. IsRec(a.keys, Parts["keys"]) /\ a.keys.pressed = s.keys.pressed /\ a.keys.pending = <<>>
    BY <1>0, FieldNames, PartNames DEF Shaped, IsRec, Views
  <1> HIDE DEF a
  <1>4. Good(a, d, H)
    BY <1>2, <1>3, GoodKeys
  <1>5. QED
    BY <1>1, <1>4

LEMMA GoodTonesSent ==
    ASSUME NEW s, NEW d, NEW H, Good(s, d, H), NEW j, NEW r
    PROVE  Good(TonesSent(s, j, r), d, H)
  <1> DEFINE drop == ~r.ok /\ j.call = s.keys.call
             a == [s EXCEPT !.keys.busy = FALSE, !.keys.pending = IF drop THEN <<>> ELSE @]
  <1>0. Shaped(s)
    BY DEF Good, Fair
  <1>1. TonesSent(s, j, r) = Flush(a)
    BY DEF TonesSent
  <1> HIDE DEF drop
  <1>2. IsRec(a, Fields) /\ \A f \in Fields \ {"keys"} : a[f] = s[f]
    BY <1>0, FieldNames DEF Shaped, IsRec
  <1>3. /\ IsRec(a.keys, Parts["keys"]) /\ a.keys.pressed = s.keys.pressed
        /\ a.keys.call = s.keys.call /\ a.keys.pending = IF drop THEN <<>> ELSE s.keys.pending
    BY <1>0, FieldNames, PartNames DEF Shaped, IsRec, Views
  <1> HIDE DEF a
  <1>4. Good(a, d, H)
    BY <1>2, <1>3, GoodKeys
  <1>5. QED
    BY <1>1, <1>4, GoodFlush

LEMMA GoodCalls ==
    ASSUME NEW s, NEW d, NEW H, Good(s, d, H), NEW x
    PROVE  Good([s EXCEPT !.calls = x], d, H)
  <1> DEFINE t == [s EXCEPT !.calls = x]
  <1>1. IsRec(t, Fields) /\ \A f \in Fields \ {"calls"} : t[f] = s[f]
    BY FieldNames DEF Good, Fair, Shaped, IsRec
  <1> HIDE DEF t
  <1>2. Good(t, d, H)
    BY <1>1, GoodPlain DEF Plain
  <1>3. QED
    BY <1>2 DEF t

LEMMA GoodCallsState ==
    ASSUME NEW s, NEW d, NEW H, Good(s, d, H), NEW x, NEW y
    PROVE  Good([s EXCEPT !.calls.list = x, !.calls.state = y], d, H)
  <1> DEFINE a == [s EXCEPT !.calls.list = x]
             v == [s.calls EXCEPT !.list = x]
             w == [a.calls EXCEPT !.state = y]
  <1>1. a = [s EXCEPT !.calls = v]
    OBVIOUS
  <1>2. Good(a, d, H)
    BY <1>1, GoodCalls
  <1>3. [s EXCEPT !.calls.list = x, !.calls.state = y] = [a EXCEPT !.calls = w]
    OBVIOUS
  <1> HIDE DEF a
  <1>4. QED
    BY <1>2, <1>3, GoodCalls

LEMMA GoodCallsUnavailable ==
    ASSUME NEW s, NEW d, NEW H, Good(s, d, H)
    PROVE  Good(CallsUnavailable(s), d, H)
  BY GoodCallsState, GoodFollow DEF CallsUnavailable

LEMMA GoodRefreshCalls ==
    ASSUME NEW s, NEW d, NEW H, Good(s, d, H)
    PROVE  Good(RefreshCalls(s), d, H)
  <1>1. Good(Run(s, [do |-> "calls"]), d, H)
    BY GoodRun DEF Kinds, Reads
  <1>2. QED
    BY <1>1, GoodCallsUnavailable DEF RefreshCalls

LEMMA GoodCallsLoaded ==
    ASSUME NEW s, NEW d, NEW H, Good(s, d, H), NEW r
    PROVE  Good(CallsLoaded(s, r), d, H)
  BY GoodCallsState, GoodFollow, GoodCallsUnavailable DEF CallsLoaded

LEMMA GoodFollowCalls ==
    ASSUME NEW s, NEW d, NEW H, Good(s, d, H)
    PROVE  Good(FollowCalls(s), d, H)
  <1> DEFINE v == [s.calls EXCEPT !.key = s.status.on]
             a == [s EXCEPT !.calls = v]
             F(t) == IF t.status.on \/ t.calls.list # None THEN RefreshCalls(t) ELSE t
  <1>1. FollowCalls(s) \in {s, Then(a, F)}
    BY DEF FollowCalls
  <1>2. Then(a, F) = F(a)
    <2> HIDE DEF a, F
    <2>1. QED
      BY DEF Then
  <1>3. Good(a, d, H)
    BY GoodCalls
  <1> HIDE DEF a
  <1>4. Good(F(a), d, H)
    BY <1>3, GoodRefreshCalls
  <1> HIDE DEF F
  <1>5. QED
    BY <1>1, <1>2, <1>4

\* More was pressed: what was pressed before is as it was.
LEMMA PressedMore ==
    ASSUME NEW p, IsSeq(p), NEW c, NEW e, NEW q, AsPressed(p, c, q)
    PROVE  AsPressed(Append(p, e), c, q) /\ \A i \in DOMAIN q : q[i] < Len(p) + 1
  <1>1. PICK S : p \in Seq(S)
    BY DEF IsSeq
  <1>2. \A i \in DOMAIN p : i \in DOMAIN Append(p, e) /\ Append(p, e)[i] = p[i] /\ i < Len(p) + 1
    BY <1>1
  <1>3. QED
    BY <1>2 DEF AsPressed

LEMMA PressedAt ==
    ASSUME NEW p, IsSeq(p), NEW e
    PROVE  /\ IsSeq(Append(p, e)) /\ Len(p) + 1 \in Nat
           /\ Len(p) + 1 \in DOMAIN Append(p, e) /\ Append(p, e)[Len(p) + 1] = e
  <1>1. PICK S : p \in Seq(S)
    BY DEF IsSeq
  <1>2. QED
    BY <1>1, AppendSeq

LEMMA KeysPress ==
    ASSUME NEW s, NEW t, NEW d, NEW call, NEW q, NEW tone, KeysPart(s, d), t.jobs = s.jobs,
           tone = Len(s.keys.pressed) + 1,
           t.keys.pressed = Append(s.keys.pressed, call), t.keys.call = call,
           q = <<>> \/ (q = s.keys.pending /\ call = s.keys.call),
           t.keys.pending \in {q, Append(q, tone)}
    PROVE  KeysPart(t, d)
  <1> DEFINE p == s.keys.pressed
             p1 == t.keys.pressed
             q1 == t.keys.pending
  <1>0. IsSeq(p)
    BY DEF KeysPart
  <1>1. IsSeq(p1) /\ tone \in Nat /\ tone \in DOMAIN p1 /\ p1[tone] = call
    BY <1>0, PressedAt
  <1>2. \A c, r : AsPressed(p, c, r) => AsPressed(p1, c, r) /\ \A i \in DOMAIN r : r[i] < tone
    BY <1>0, PressedMore
  <1>3. AsPressed(p, call, q)
    BY NoTones DEF KeysPart
  <1>4. IsSeq(q) /\ AsPressed(p1, call, q) /\ \A i \in DOMAIN q : q[i] < tone
    <2>1. IsSeq(q)
      BY <1>3 DEF AsPressed
    <2> HIDE DEF p, p1
    <2>2. QED
      BY <1>2, <1>3, <2>1
  <1>5. /\ IsSeq(q1)
        /\ \A i \in DOMAIN q1 : \/ i \in DOMAIN q /\ q1[i] = q[i]
                                \/ i = Len(q) + 1 /\ q1[i] = tone
        /\ \A i \in DOMAIN q : i \in Nat /\ i <= Len(q)
        /\ Len(q) \in Nat
    <2> DEFINE q2 == Append(q, tone)
    <2>1. /\ IsSeq(q2)
          /\ \A i \in DOMAIN q2 : \/ i \in DOMAIN q /\ q2[i] = q[i]
                                  \/ i = Len(q) + 1 /\ q2[i] = tone
          /\ \A i \in DOMAIN q : i \in Nat /\ i <= Len(q)
          /\ Len(q) \in Nat
      BY <1>4, AppendSeq
    <2> HIDE DEF q2
    <2>2. q1 = q \/ q1 = q2
      BY DEF q2
    <2> HIDE DEF q1
    <2>3. QED
      BY <1>4, <2>1, <2>2
  <1> HIDE DEF p, p1, q1
  <1>6. AsPressed(p1, call, q1)
    <2>1. \A i \in DOMAIN q1 : q1[i] \in DOMAIN p1 /\ q1[i] \in Nat /\ p1[q1[i]] = call
      BY <1>1, <1>4, <1>5 DEF AsPressed
    <2>2. \A i, j \in DOMAIN q1 : i < j => q1[i] < q1[j]
      BY <1>1, <1>4, <1>5 DEF AsPressed
    <2>3. QED
      BY <1>5, <2>1, <2>2 DEF AsPressed
  <1>7. \A c, r : AsPressed(p, c, r) /\ Before(r, q) => Before(r, q1)
    BY <1>2, <1>5 DEF Before
  <1>8. \A r : Before(r, s.keys.pending) => Before(r, q)
    BY NoTones
  <1>9. /\ \A i \in DOMAIN s.jobs : s.jobs[i].do = "tones" =>
               /\ AsPressed(p, s.jobs[i].call, s.jobs[i].tones)
               /\ Before(s.jobs[i].tones, s.keys.pending)
               /\ \A g \in DOMAIN d.got : Before(d.got[g].tones, s.jobs[i].tones)
        /\ \A g \in DOMAIN d.got :
               /\ AsPressed(p, d.got[g].call, d.got[g].tones)
               /\ Before(d.got[g].tones, s.keys.pending)
    BY DEF KeysPart, ToneJob, p
  <1>10. /\ \A i \in DOMAIN s.jobs : s.jobs[i].do = "tones" =>
                /\ AsPressed(p1, s.jobs[i].call, s.jobs[i].tones)
                /\ Before(s.jobs[i].tones, q1)
         /\ \A g \in DOMAIN d.got :
                /\ AsPressed(p1, d.got[g].call, d.got[g].tones)
                /\ Before(d.got[g].tones, q1)
    BY <1>2, <1>7, <1>8, <1>9
  <1>11. \A i \in DOMAIN t.jobs : ToneJob(t, d, t.jobs[i])
    BY <1>9, <1>10 DEF ToneJob, p1, q1
  <1>12. QED
    BY <1>1, <1>6, <1>10, <1>11 DEF KeysPart, p1, q1

LEMMA GoodPress ==
    ASSUME NEW s, NEW d, NEW H, Good(s, d, H)
    PROVE  Good(Press([s EXCEPT !.keys.pressed = Append(@, s.calls.list)],
                      Len(s.keys.pressed) + 1), d, H)
  <1> DEFINE call == s.calls.list
             tone == Len(s.keys.pressed) + 1
             a == [s EXCEPT !.keys.pressed = Append(@, call)]
             b == [a EXCEPT !.keys.call = call, !.keys.pending = <<>>]
             f == Follow(a, a.calls.list)
             c == [f EXCEPT !.keys.pending = Waiting(@, tone)]
             F(t) == Flush([t EXCEPT !.keys.pending = Waiting(@, tone)])
  <1>0. Shaped(s) /\ KeysPart(s, d)
    BY DEF Good, Fair
  <1>1. Press(a, tone) = Flush(c)
    <2>1. Press(a, tone) = Then(f, F)
      BY DEF Press
    <2>2. Then(f, F) = F(f)
      <3> HIDE DEF f, F
      <3>1. QED
        BY DEF Then
    <2>3. QED
      BY <2>1, <2>2
  <1> HIDE DEF tone
  <1>2. IsRec(a, Fields) /\ \A f0 \in Fields \ {"keys"} : a[f0] = s[f0]
    BY <1>0, FieldNames DEF Shaped, IsRec
  <1>3. /\ IsRec(a.keys, Parts["keys"]) /\ a.keys.pressed = Append(s.keys.pressed, call)
        /\ a.keys.call = s.keys.call /\ a.keys.pending = s.keys.pending
    BY <1>0, FieldNames, PartNames DEF Shaped, IsRec, Views
  <1> HIDE DEF a
  <1>4. Moves(s, a, {"keys"}, {}) /\ Shaped(a) /\ a.jobs = s.jobs
    BY <1>0, <1>2, <1>3, Change, FieldNames DEF Views, Moves
  <1>5. IsRec(b, Fields) /\ \A f0 \in Fields \ {"keys"} : b[f0] = a[f0]
    BY <1>4, FieldNames DEF Shaped, IsRec
  <1>6. /\ IsRec(b.keys, Parts["keys"]) /\ b.keys.pressed = a.keys.pressed
        /\ b.keys.call = call /\ b.keys.pending = <<>>
    BY <1>4, FieldNames, PartNames DEF Shaped, IsRec, Views
  <1>7. f = IF call = a.keys.call THEN a ELSE b
    BY <1>2, FieldNames DEF Follow
  <1> HIDE DEF b, f
  <1>8. Moves(a, b, {"keys"}, {}) /\ b.jobs = a.jobs
    BY <1>4, <1>5, <1>6, Change, FieldNames DEF Views
  <1>9. /\ Moves(s, f, {"keys"}, {}) /\ Shaped(f) /\ f.jobs = s.jobs
        /\ f.keys.pressed = Append(s.keys.pressed, call) /\ f.keys.call = call
        /\ f.keys.pending = <<>> \/ (f.keys.pending = s.keys.pending /\ call = s.keys.call)
    BY <1>3, <1>4, <1>6, <1>7, <1>8, MovesOn DEF Moves
  <1>10. IsRec(c, Fields) /\ \A f0 \in Fields \ {"keys"} : c[f0] = f[f0]
    BY <1>9, FieldNames DEF Shaped, IsRec
  <1>11. /\ IsRec(c.keys, Parts["keys"]) /\ c.keys.pressed = f.keys.pressed
         /\ c.keys.call = f.keys.call /\ c.keys.pending = Waiting(f.keys.pending, tone)
    BY <1>9, FieldNames, PartNames DEF Shaped, IsRec, Views
  <1> HIDE DEF c
  <1>12. Moves(f, c, {"keys"}, {}) /\ c.jobs = f.jobs
    BY <1>9, <1>10, <1>11, Change, FieldNames DEF Views
  <1>13. Moves(s, c, {"keys"}, {})
    BY <1>9, <1>12, MovesOn
  <1>14. KeysPart(c, d)
    <2> DEFINE q == f.keys.pending
    <2>1. /\ c.keys.pressed = Append(s.keys.pressed, call) /\ c.keys.call = call
          /\ c.keys.pending \in {q, Append(q, tone)} /\ c.jobs = s.jobs
      BY <1>9, <1>11, <1>12 DEF Waiting
    <2>2. q = <<>> \/ (q = s.keys.pending /\ call = s.keys.call)
      BY <1>9
    <2>3. tone = Len(s.keys.pressed) + 1
      BY DEF tone
    <2> HIDE DEF q, call
    <2>4. QED
      BY <1>0, <2>1, <2>2, <2>3, KeysPress
  <1>15. Good(c, d, H)
    BY <1>13, <1>14, GoodView
  <1>16. QED
    BY <1>1, <1>15, GoodFlush DEF a, tone

-----------------------------------------------------------------------------
(***************************************************************************)
(* The contacts.                                                           *)
(***************************************************************************)

\* What a change of the list, or of the card, leaves behind.
LEMMA BookKeeps ==
    ASSUME NEW s, NEW t, NEW d, BookPart(s, d), BookView(t.book, d), t.jobs = s.jobs, t.done = s.done,
           \/ s.book.list < t.book.list
           \/ /\ t.book.list = s.book.list
              /\ s.book.supported => /\ t.book.supported /\ t.book.epoch = s.book.epoch
                                     /\ t.book.about = s.book.about,
           \/ s.book.open < t.book.open
           \/ /\ t.book.open = s.book.open
              /\ s.book.supported => /\ t.book.supported /\ t.book.epoch = s.book.epoch
                                     /\ t.book.card = s.book.card
    PROVE  BookPart(t, d)
  <1>0. /\ BookView(s.book, d) /\ Cards(s)
        /\ s.book.list \in Nat /\ t.book.list \in Nat /\ s.book.open \in Nat /\ t.book.open \in Nat
    BY DEF BookPart, BookView
  <1>1. PICK p, q : Pages(s, p, q)
    BY DEF BookPart
  <1>2. \E a, b : Pages(t, a, b)
    <2>1. CASE s.book.list < t.book.list
      <3>1. Pages(t, 1, 0)
        BY <1>0, <1>1, <2>1 DEF Pages, PageJob, PageAnswer
      <3>2. QED
        BY <3>1
    <2>2. CASE t.book.list = s.book.list /\ s.book.supported
      <3>0. /\ t.book.list = s.book.list /\ t.book.epoch = s.book.epoch
            /\ t.book.about = s.book.about /\ t.book.supported
        BY <1>0, <2>2
      <3>1. \A j : PageJob(s.book, p, q, j) => PageJob(t.book, p, q, j)
        BY <3>0 DEF PageJob
      <3>a. \A j, r : PageAnswer(s.book, j, r) => PageAnswer(t.book, j, r)
        BY <3>0 DEF PageAnswer
      <3>2. Pages(t, p, q)
        BY <1>1, <3>0, <3>1, <3>a DEF Pages
      <3>3. QED
        BY <3>2
    <2>3. CASE t.book.list = s.book.list /\ ~s.book.supported
      <3>1. /\ \A i \in DOMAIN t.jobs : PageJob(t.book, 1, 0, t.jobs[i])
            /\ \A i \in DOMAIN t.done : PageJob(t.book, 1, 0, t.done[i].job)
        BY <1>1, <2>3 DEF Pages, PageJob
      <3>2. \A i \in DOMAIN t.done : PageAnswer(t.book, t.done[i].job, t.done[i].answer)
        BY <1>1, <2>3 DEF Pages, PageJob, PageAnswer
      <3>3. Pages(t, 1, 0)
        BY <3>1, <3>2 DEF Pages
      <3>4. QED
        BY <3>3
    <2>4. QED
      BY <2>1, <2>2, <2>3
  <1>3. Cards(t)
    <2>1. CASE s.book.open < t.book.open
      BY <1>0, <2>1 DEF Cards, CardJob, CardAnswer
    <2>2. CASE t.book.open = s.book.open /\ s.book.supported
      BY <1>0, <2>2 DEF Cards, CardJob, CardAnswer, CardFine
    <2>3. CASE t.book.open = s.book.open /\ ~s.book.supported
      BY <1>0, <2>3 DEF Cards, CardJob, CardAnswer
    <2>4. QED
      BY <2>1, <2>2, <2>3
  <1>4. QED
    BY <1>2, <1>3 DEF BookPart

LEMMA DropsCards ==
    ASSUME NEW s, Shaped(s)
    PROVE  LET t == DropCards(s)
           IN  /\ Moves(s, t, {"book"}, {}) /\ t.jobs = s.jobs
               /\ t.book.list = s.book.list + 1 /\ t.book.open = s.book.open + 1
               /\ t.book.rows = {} /\ t.book.photo = None
               /\ t.book.card = IF s.book.card = None THEN None
                                ELSE [id |-> s.book.card.id, at |-> None, error |-> FALSE]
               /\ t.book.watched = s.book.watched /\ t.book.supported = s.book.supported
               /\ t.book.epoch = s.book.epoch /\ t.book.photos = s.book.photos
               /\ t.book.about = s.book.about
  <1> DEFINE b == s.book
             x == [b EXCEPT !.list = @ + 1, !.open = @ + 1, !.rows = {}, !.loaded = FALSE,
                            !.loading = FALSE, !.photo = None,
                            !.card = IF @ = None THEN None
                                     ELSE [id |-> @.id, at |-> None, error |-> FALSE]]
             t == [s EXCEPT !.book = x]
  <1>1. DropCards(s) = t
    BY DEF DropCards
  <1>2. IsRec(b, Parts["book"])
    BY DEF Shaped, Views
  <1> HIDE DEF b
  <1>3. /\ IsRec(x, Parts["book"]) /\ x.list = b.list + 1 /\ x.open = b.open + 1
        /\ x.rows = {} /\ x.photo = None
    BY <1>2, PartNames DEF IsRec
  <1>4. x.card = IF b.card = None THEN None ELSE [id |-> b.card.id, at |-> None, error |-> FALSE]
    BY <1>2, PartNames DEF IsRec
  <1>5. /\ x.watched = b.watched /\ x.supported = b.supported
        /\ x.epoch = b.epoch /\ x.photos = b.photos /\ x.about = b.about
    BY <1>2, PartNames DEF IsRec
  <1> HIDE DEF x
  <1>6. t = With(s, "book", x)
    BY DEF With
  <1> HIDE DEF t
  <1>7. Moves(s, t, {"book"}, {}) /\ t.jobs = s.jobs /\ t.book = x
    BY <1>3, <1>6, WithMoves DEF Views
  <1>8. QED
    BY <1>1, <1>3, <1>4, <1>5, <1>7 DEF b

LEMMA BookForgets ==
    ASSUME NEW s, Shaped(s)
    PROVE  LET t == BookForget(s)
           IN  /\ Moves(s, t, {"book"}, {}) /\ t.jobs = s.jobs
               /\ t.book.list = s.book.list + 1 /\ t.book.open = s.book.open + 1
               /\ t.book.rows = {} /\ t.book.photo = None /\ t.book.card = None
               /\ t.book.watched = s.book.watched /\ t.book.supported = s.book.supported
               /\ t.book.epoch = s.book.epoch /\ t.book.photos = s.book.photos
  <1> DEFINE b == s.book
             x == [b EXCEPT !.list = @ + 1, !.open = @ + 1, !.rows = {}, !.loaded = FALSE,
                            !.loading = FALSE, !.error = FALSE, !.card = None, !.photo = None]
             t == [s EXCEPT !.book = x]
  <1>1. BookForget(s) = Stop(t, "book")
    BY DEF BookForget
  <1>2. IsRec(b, Parts["book"])
    BY DEF Shaped, Views
  <1> HIDE DEF b
  <1>3. /\ IsRec(x, Parts["book"]) /\ x.list = b.list + 1 /\ x.open = b.open + 1
        /\ x.rows = {} /\ x.photo = None /\ x.card = None
    BY <1>2, PartNames DEF IsRec
  <1>4. /\ x.watched = b.watched /\ x.supported = b.supported
        /\ x.epoch = b.epoch /\ x.photos = b.photos
    BY <1>2, PartNames DEF IsRec
  <1> HIDE DEF x
  <1>5. t = With(s, "book", x)
    BY DEF With
  <1> HIDE DEF t
  <1>6. Moves(s, t, {"book"}, {}) /\ t.jobs = s.jobs /\ t.book = x
    BY <1>3, <1>5, WithMoves DEF Views
  <1>7. /\ Moves(s, Stop(t, "book"), {"book"}, {}) /\ Stop(t, "book").jobs = s.jobs
        /\ Stop(t, "book").book = x
    BY <1>6, TimerOn, FieldNames DEF Timers
  <1>8. QED
    BY <1>1, <1>3, <1>4, <1>7 DEF b

SameBook(s, t) ==
    /\ t.book.watched = s.book.watched /\ t.book.supported = s.book.supported
    /\ t.book.epoch = s.book.epoch /\ t.book.photos = s.book.photos /\ t.book.about = s.book.about
    /\ t.book.rows = s.book.rows /\ t.book.card = s.book.card /\ t.book.photo = s.book.photo

LEMMA SameBookView ==
    ASSUME NEW s, NEW t, NEW d, BookView(s.book, d), SameBook(s, t),
           t.book.list \in Nat, t.book.open \in Nat
    PROVE  BookView(t.book, d)
  BY DEF BookView, SameBook, RowFine, CardFine

LEMMA FairBook ==
    ASSUME NEW s, NEW t, NEW d, NEW H, Fair(s, d, H), NEW K, K \subseteq {"book", "card"},
           Moves(s, t, {"book"}, K), BookPart(t, d)
    PROVE  Fair(t, d, H)
  BY FairView

LEMMA GoodBook ==
    ASSUME NEW s, NEW t, NEW d, NEW H, Good(s, d, H), NEW K, K \subseteq {"book", "card"},
           Moves(s, t, {"book"}, K), BookPart(t, d)
    PROVE  Good(t, d, H)
  <1>1. Fair(t, d, H)
    BY FairBook DEF Good
  <1>2. QED
    BY <1>1, GoodMoves

\* A page is asked for: the pages before it are out of date.
LEMMA BookLoads ==
    ASSUME NEW s, NEW d, Shaped(s), BookPart(s, d), s.book.supported,
           NEW page, page = 1 \/ s.book.query = s.book.about
    PROVE  LET t == BookLoad(s, page)
           IN  Moves(s, t, {"book"}, {"book"}) /\ BookPart(t, d) /\ SameBook(s, t)
  <1> DEFINE a == [s EXCEPT !.book.list = @ + 1, !.book.loading = TRUE]
             n == s.book.list + 1
             j == [do |-> "book", page |-> page, query |-> s.book.query, serial |-> n,
                   pgen |-> s.book.pgen]
             t == Run(a, j)
  <1>0. BookView(s.book, d) /\ Cards(s) /\ s.book.list \in Nat /\ s.book.open \in Nat
    BY DEF BookPart, BookView
  <1>1. BookLoad(s, page) = t
    BY DEF BookLoad
  <1>2. IsRec(a, Fields) /\ \A f \in Fields \ {"book"} : a[f] = s[f]
    BY FieldNames DEF Shaped, IsRec
  <1>3. /\ IsRec(a.book, Parts["book"]) /\ SameBook(s, a)
        /\ a.book.list = n /\ a.book.open = s.book.open
    BY FieldNames, PartNames DEF Shaped, IsRec, Views, SameBook
  <1>4. /\ j.do = "book" /\ j.do \in Kinds /\ j.page = page /\ j.query = s.book.query
        /\ j.serial = n
    BY DEF Kinds, Reads
  <1>5. n \in Nat /\ s.book.list < n
    BY <1>0
  <1> HIDE DEF a, j, n
  <1>6. Moves(s, a, {"book"}, {"book"}) /\ a.jobs = s.jobs
    BY <1>2, <1>3, Change, MovesMore, FieldNames DEF Views
  <1>7. /\ Moves(s, t, {"book"}, {"book"}) /\ t.jobs = Append(s.jobs, j)
        /\ t.book = a.book
    BY <1>4, <1>6, RunOn, FieldNames
  <1>8. /\ \A i \in DOMAIN t.jobs : (i \in DOMAIN s.jobs /\ t.jobs[i] = s.jobs[i]) \/ t.jobs[i] = j
        /\ t.done = s.done
    BY <1>7, AppendSeq DEF Shaped, Moves
  <1> HIDE DEF t
  <1>9. BookView(t.book, d)
    BY <1>0, <1>3, <1>5, <1>7, SameBookView DEF SameBook
  <1>10. PICK p, q : Pages(s, p, q)
    BY DEF BookPart
  <1>11. Pages(t, page, s.book.query)
    <2>1. t.book.list = n /\ t.book.supported /\ t.book.about = s.book.about
      BY <1>3, <1>7 DEF SameBook
    <2>2. \A k : PageJob(s.book, p, q, k) => PageJob(t.book, page, s.book.query, k)
      BY <1>0, <1>5, <2>1 DEF PageJob
    <2>3. \A k, r : PageJob(s.book, p, q, k) => PageAnswer(t.book, k, r)
      BY <1>0, <1>5, <2>1 DEF PageJob, PageAnswer
    <2>4. PageJob(t.book, page, s.book.query, j)
      BY <1>4, <1>5, <2>1 DEF PageJob
    <2>5. QED
      BY <1>8, <1>10, <2>1, <2>2, <2>3, <2>4 DEF Pages
  <1>12. Cards(t)
    <2>1. /\ t.book.open = s.book.open /\ t.book.supported = s.book.supported
          /\ t.book.epoch = s.book.epoch /\ t.book.card = s.book.card
      BY <1>3, <1>7 DEF SameBook
    <2>2. \A k : CardJob(s.book, k) => CardJob(t.book, k)
      BY <2>1 DEF CardJob, CardFine
    <2>3. \A k, r : CardAnswer(s.book, k, r) => CardAnswer(t.book, k, r)
      BY <2>1 DEF CardAnswer
    <2>4. CardJob(t.book, j)
      BY <1>4 DEF CardJob
    <2>5. QED
      BY <1>0, <1>8, <2>2, <2>3, <2>4 DEF Cards
  <1>13. SameBook(s, t)
    BY <1>3, <1>7 DEF SameBook
  <1>14. QED
    BY <1>1, <1>7, <1>9, <1>11, <1>12, <1>13 DEF BookPart

LEMMA BookReloads ==
    ASSUME NEW s, NEW d, Shaped(s), BookPart(s, d)
    PROVE  LET t == BookReload(s)
           IN  Moves(s, t, {"book"}, {"book"}) /\ BookPart(t, d) /\ SameBook(s, t)
  <1> DEFINE a == Stop(s, "book")
  <1>1. BookReload(s) = IF s.book.watched /\ s.book.supported THEN BookLoad(a, 1) ELSE a
    BY DEF BookReload
  <1>2. Moves(s, a, {}, {})
    BY StartMoves DEF Timers
  <1> HIDE DEF a
  <1>3. a.book = s.book /\ Shaped(a) /\ BookPart(a, d) /\ Moves(s, a, {"book"}, {"book"})
    <2>1. a.book = s.book /\ Shaped(a)
      BY <1>2, FieldNames DEF Moves
    <2>2. BookPart(a, d)
      BY <1>2, Kept
    <2>3. Moves(s, a, {"book"}, {"book"})
      BY <1>2, MovesMore
    <2>4. QED
      BY <2>1, <2>2, <2>3
  <1>4. s.book.supported =>
            /\ Moves(a, BookLoad(a, 1), {"book"}, {"book"}) /\ BookPart(BookLoad(a, 1), d)
            /\ SameBook(a, BookLoad(a, 1))
    BY <1>3, BookLoads
  <1>5. QED
    BY <1>1, <1>3, <1>4, MovesOn DEF SameBook

LEMMA GoodBookReload ==
    ASSUME NEW s, NEW d, NEW H, Good(s, d, H)
    PROVE  Good(BookReload(s), d, H)
  <1>1. Moves(s, BookReload(s), {"book"}, {"book"}) /\ BookPart(BookReload(s), d)
    BY BookReloads DEF Good, Fair
  <1>2. QED
    BY <1>1, GoodBook

LEMMA GoodSetContactQuery ==
    ASSUME NEW s, NEW d, NEW H, Good(s, d, H), NEW query
    PROVE  Good(SetContactQuery(s, query), d, H)
  <1> DEFINE a == [s EXCEPT !.book.query = query]
  <1>0. Shaped(s) /\ BookPart(s, d) /\ BookView(s.book, d)
    BY DEF Good, Fair, BookPart
  <1>1. SetContactQuery(s, query) \in {a, Start(a, "book")}
    BY DEF SetContactQuery, Then
  <1>2. IsRec(a, Fields) /\ \A f \in Fields \ {"book"} : a[f] = s[f]
    BY <1>0, FieldNames DEF Shaped, IsRec
  <1>3. /\ IsRec(a.book, Parts["book"]) /\ SameBook(s, a)
        /\ a.book.list = s.book.list /\ a.book.open = s.book.open
    BY <1>0, FieldNames, PartNames DEF Shaped, IsRec, Views, SameBook
  <1> HIDE DEF a
  <1>4. Moves(s, a, {"book"}, {}) /\ a.jobs = s.jobs /\ a.done = s.done
    BY <1>0, <1>2, <1>3, Change, FieldNames DEF Views, Moves
  <1>5. BookView(a.book, d)
    <2>1. a.book.list \in Nat /\ a.book.open \in Nat
      BY <1>0, <1>3 DEF BookView
    <2>2. QED
      BY <1>0, <1>3, <2>1, SameBookView
  <1>6. BookPart(a, d)
    <2>1. /\ a.book.supported = s.book.supported /\ a.book.epoch = s.book.epoch
          /\ a.book.about = s.book.about /\ a.book.card = s.book.card
      BY <1>3 DEF SameBook
    <2>2. QED
      BY <1>0, <1>3, <1>4, <1>5, <2>1, BookKeeps
  <1>7. Good(a, d, H)
    BY <1>4, <1>6, GoodBook
  <1>8. QED
    BY <1>1, <1>7, GoodTimer DEF Timers

LEMMA GoodLoadMore ==
    ASSUME NEW s, NEW d, NEW H, Good(s, d, H)
    PROVE  Good(LoadMore(s), d, H)
  <1>1. LoadMore(s) = s \/ (LoadMore(s) = BookLoad(s, 2) /\ s.book.supported /\ s.book.query = s.book.about)
    BY DEF LoadMore
  <1>2. s.book.supported /\ s.book.query = s.book.about =>
            Moves(s, BookLoad(s, 2), {"book"}, {"book"}) /\ BookPart(BookLoad(s, 2), d)
    BY BookLoads DEF Good, Fair
  <1>3. QED
    BY <1>1, <1>2, GoodBook

\* A card is asked for: the cards before it are out of date.
LEMMA CardOpens ==
    ASSUME NEW s, NEW d, Shaped(s), BookPart(s, d), s.book.supported, NEW id
    PROVE  Moves(s, OpenCard(s, id), {"book"}, {"card"}) /\ BookPart(OpenCard(s, id), d)
  <1> DEFINE same == s.book.card # None /\ s.book.card.id = id
             n == s.book.open + 1
             c == [id |-> id, at |-> IF same THEN s.book.card.at ELSE None, error |-> FALSE]
             a == [s EXCEPT !.book.open = @ + 1, !.book.photo = IF same THEN @ ELSE None,
                            !.book.card = c]
             j == [do |-> "card", id |-> id, serial |-> n, pgen |-> s.book.pgen]
             t == Run(a, j)
  <1>0. BookView(s.book, d) /\ Cards(s) /\ s.book.list \in Nat /\ s.book.open \in Nat
    BY DEF BookPart, BookView
  <1>1. OpenCard(s, id) = IF ~s.book.watched THEN s ELSE t
    BY DEF OpenCard
  <1>2. CardFine(s.book, c)
    BY <1>0 DEF BookView, CardFine, IsRec
  <1>a. same \in BOOLEAN
    OBVIOUS
  <1> HIDE DEF c, same
  <1>3. IsRec(a, Fields) /\ \A f \in Fields \ {"book"} : a[f] = s[f]
    BY FieldNames DEF Shaped, IsRec
  <1>4. /\ IsRec(a.book, Parts["book"]) /\ a.book.open = n /\ a.book.card = c
        /\ a.book.photo = IF same THEN s.book.photo ELSE None
    BY FieldNames, PartNames DEF Shaped, IsRec, Views
  <1>5. /\ a.book.watched = s.book.watched /\ a.book.supported = s.book.supported
        /\ a.book.epoch = s.book.epoch /\ a.book.photos = s.book.photos /\ a.book.about = s.book.about
        /\ a.book.rows = s.book.rows /\ a.book.list = s.book.list
    BY FieldNames, PartNames DEF Shaped, IsRec, Views
  <1>6. j.do = "card" /\ j.do \in Kinds /\ j.serial = n
    BY DEF Kinds, Reads
  <1>7. n \in Nat /\ s.book.open < n
    BY <1>0
  <1> HIDE DEF a, j, n
  <1>8. Moves(s, a, {"book"}, {"card"}) /\ a.jobs = s.jobs
    BY <1>3, <1>4, Change, MovesMore, FieldNames DEF Views
  <1>9. /\ Moves(s, t, {"book"}, {"card"}) /\ t.jobs = Append(s.jobs, j)
        /\ t.book = a.book
    BY <1>6, <1>8, RunOn, FieldNames
  <1>10. /\ \A i \in DOMAIN t.jobs : (i \in DOMAIN s.jobs /\ t.jobs[i] = s.jobs[i]) \/ t.jobs[i] = j
         /\ t.done = s.done
    BY <1>9, AppendSeq DEF Shaped, Moves
  <1> HIDE DEF t
  <1>b. CardFine(t.book, c)
    BY <1>2, <1>5, <1>9 DEF CardFine
  <1>11. ASSUME s.book.watched PROVE BookView(t.book, d)
    <2>1. \A r \in t.book.rows : RowFine(t.book, r)
      BY <1>0, <1>5, <1>9 DEF BookView, RowFine
    <2>2. QED
      BY <1>0, <1>a, <1>b, <1>4, <1>5, <1>7, <1>9, <1>11, <2>1 DEF BookView
  <1>12. PICK p, q : Pages(s, p, q)
    BY DEF BookPart
  <1>13. Pages(t, p, q)
    <2>1. /\ t.book.list = s.book.list /\ t.book.supported = s.book.supported
          /\ t.book.epoch = s.book.epoch /\ t.book.about = s.book.about
      BY <1>5, <1>9
    <2>2. \A k : PageJob(s.book, p, q, k) => PageJob(t.book, p, q, k)
      BY <2>1 DEF PageJob
    <2>3. \A k, r : PageAnswer(s.book, k, r) => PageAnswer(t.book, k, r)
      BY <2>1 DEF PageAnswer
    <2>4. PageJob(t.book, p, q, j)
      BY <1>6 DEF PageJob
    <2>5. QED
      BY <1>10, <1>12, <2>1, <2>2, <2>3, <2>4 DEF Pages
  <1>14. Cards(t)
    <2>1. t.book.open = n /\ t.book.supported /\ t.book.card = c
      BY <1>4, <1>5, <1>9
    <2>2. \A k : CardJob(s.book, k) => CardJob(t.book, k)
      BY <1>0, <1>7, <2>1 DEF CardJob
    <2>3. \A k, r : CardJob(s.book, k) => CardAnswer(t.book, k, r)
      BY <1>0, <1>7, <2>1 DEF CardJob, CardAnswer
    <2>4. CardJob(t.book, j)
      BY <1>b, <1>6, <1>7, <2>1 DEF CardJob
    <2>5. QED
      BY <1>0, <1>10, <2>2, <2>3, <2>4 DEF Cards
  <1>15. CASE s.book.watched
    BY <1>1, <1>9, <1>11, <1>13, <1>14, <1>15 DEF BookPart
  <1>16. CASE ~s.book.watched
    BY <1>1, <1>16, MovesRefl, MovesMore
  <1>17. QED
    BY <1>15, <1>16

LEMMA GoodOpenCard ==
    ASSUME NEW s, NEW d, NEW H, Good(s, d, H), NEW r \in s.book.rows
    PROVE  Good(OpenCard(s, r.epoch), d, H)
  <1>1. Shaped(s) /\ BookPart(s, d) /\ s.book.supported
    BY DEF Good, Fair, BookPart, BookView, RowFine
  <1>2. Moves(s, OpenCard(s, r.epoch), {"book"}, {"card"}) /\ BookPart(OpenCard(s, r.epoch), d)
    BY <1>1, CardOpens
  <1>3. QED
    BY <1>2, GoodBook

LEMMA GoodCloseCard ==
    ASSUME NEW s, NEW d, NEW H, Good(s, d, H)
    PROVE  Good(CloseCard(s), d, H)
  <1> DEFINE a == [s EXCEPT !.book.open = @ + 1, !.book.card = None, !.book.photo = None]
  <1>0. Shaped(s) /\ BookPart(s, d) /\ BookView(s.book, d) /\ s.book.open \in Nat
    BY DEF Good, Fair, BookPart, BookView
  <1>1. CloseCard(s) = a
    BY DEF CloseCard
  <1>2. IsRec(a, Fields) /\ \A f \in Fields \ {"book"} : a[f] = s[f]
    BY <1>0, FieldNames DEF Shaped, IsRec
  <1>3. /\ IsRec(a.book, Parts["book"]) /\ a.book.open = s.book.open + 1
        /\ a.book.card = None /\ a.book.photo = None
    BY <1>0, FieldNames, PartNames DEF Shaped, IsRec, Views
  <1>4. /\ a.book.watched = s.book.watched /\ a.book.supported = s.book.supported
        /\ a.book.epoch = s.book.epoch /\ a.book.photos = s.book.photos /\ a.book.about = s.book.about
        /\ a.book.rows = s.book.rows /\ a.book.list = s.book.list
    BY <1>0, FieldNames, PartNames DEF Shaped, IsRec, Views
  <1> HIDE DEF a
  <1>5. Moves(s, a, {"book"}, {}) /\ a.jobs = s.jobs /\ a.done = s.done
    BY <1>0, <1>2, <1>3, Change, FieldNames DEF Views, Moves
  <1>6. BookView(a.book, d)
    BY <1>0, <1>3, <1>4 DEF BookView, RowFine
  <1>7. s.book.open < a.book.open
    BY <1>0, <1>3
  <1>8. BookPart(a, d)
    BY <1>0, <1>4, <1>5, <1>6, <1>7, BookKeeps
  <1>9. QED
    BY <1>1, <1>5, <1>8, GoodBook

LEMMA GoodWatchBook ==
    ASSUME NEW s, NEW d, NEW H, Good(s, d, H), NEW w \in BOOLEAN
    PROVE  Good(WatchBook(s, w), d, H)
  <1> DEFINE a == [s EXCEPT !.book.watched = w]
             b == BookForget(a)
  <1>0. Shaped(s) /\ BookPart(s, d) /\ BookView(s.book, d)
    BY DEF Good, Fair, BookPart
  <1>1. WatchBook(s, w) = IF w THEN BookReload(a) ELSE b
    BY DEF WatchBook, Then
  <1>2. IsRec(a, Fields) /\ \A f \in Fields \ {"book"} : a[f] = s[f]
    BY <1>0, FieldNames DEF Shaped, IsRec
  <1>3. /\ IsRec(a.book, Parts["book"]) /\ a.book.watched = w /\ a.book.supported = s.book.supported
        /\ a.book.epoch = s.book.epoch /\ a.book.photos = s.book.photos /\ a.book.about = s.book.about
        /\ a.book.rows = s.book.rows /\ a.book.list = s.book.list
    BY <1>0, FieldNames, PartNames DEF Shaped, IsRec, Views
  <1>4. a.book.open = s.book.open /\ a.book.card = s.book.card /\ a.book.photo = s.book.photo
    BY <1>0, FieldNames, PartNames DEF Shaped, IsRec, Views
  <1> HIDE DEF a
  <1>5. Moves(s, a, {"book"}, {}) /\ a.jobs = s.jobs /\ a.done = s.done /\ Shaped(a)
    BY <1>0, <1>2, <1>3, Change, FieldNames DEF Views, Moves
  <1>6. CASE w
    <2>1. \A r \in a.book.rows : RowFine(a.book, r)
      BY <1>0, <1>3, <1>6 DEF BookView, RowFine
    <2>2. a.book.card = None \/ (a.book.watched /\ a.book.supported /\ CardFine(a.book, a.book.card))
      BY <1>0, <1>3, <1>4, <1>6 DEF BookView, CardFine
    <2>3. BookView(a.book, d)
      BY <1>0, <1>3, <1>4, <1>6, <2>1, <2>2 DEF BookView
    <2>4. BookPart(a, d)
      BY <1>0, <1>3, <1>4, <1>5, <2>3, BookKeeps
    <2>5. Good(a, d, H)
      BY <1>5, <2>4, GoodBook
    <2>6. QED
      BY <1>1, <1>6, <2>5, GoodBookReload
  <1>7. CASE ~w
    <2>1. /\ Moves(a, b, {"book"}, {}) /\ b.jobs = s.jobs
          /\ b.book.list = s.book.list + 1 /\ b.book.open = s.book.open + 1
          /\ b.book.rows = {} /\ b.book.photo = None /\ b.book.card = None
          /\ b.book.watched = w /\ b.book.supported = s.book.supported
          /\ b.book.epoch = s.book.epoch /\ b.book.photos = s.book.photos
      BY <1>3, <1>4, <1>5, BookForgets
    <2> HIDE DEF b
    <2>2. Moves(s, b, {"book"}, {}) /\ b.done = s.done
      BY <1>5, <2>1, MovesOn DEF Moves
    <2>3. BookView(b.book, d) /\ s.book.list < b.book.list /\ s.book.open < b.book.open
      BY <1>0, <2>1 DEF BookView
    <2>4. BookPart(b, d)
      BY <1>0, <2>1, <2>2, <2>3, BookKeeps
    <2>5. Good(b, d, H)
      BY <2>2, <2>4, GoodBook
    <2>6. QED
      BY <1>1, <1>7, <2>5
  <1>8. QED
    BY <1>6, <1>7

\* A page arrives: it is of the epoch the list is of, or of a later one, and it answers the
\* query of the pages it is shown with.
LEMMA GoodPageLoaded ==
    ASSUME NEW s, NEW d, NEW H, Good(s, d, H), NEW j, NEW r, j.do = "book", NEW p, NEW q,
           Pages(s, p, q), PageJob(s.book, p, q, j), PageAnswer(s.book, j, r)
    PROVE  Good(PageLoaded(s, j, r), d, H)
  <1> DEFINE b == s.book
             kept == b.photos /\ j.pgen = b.pgen
             rows == IF ~r.ok THEN {} ELSE IF kept THEN {r.value} ELSE WithoutPhotos({r.value})
             about == IF r.ok /\ j.page = 1 THEN j.query ELSE b.about
             x == [b EXCEPT !.loading = FALSE, !.error = ~r.ok,
                            !.loaded = IF r.ok THEN TRUE ELSE IF j.page = 1 THEN FALSE ELSE @,
                            !.about = IF r.ok /\ j.page = 1 THEN j.query ELSE @,
                            !.rows = IF j.page = 1 THEN rows ELSE @ \cup rows]
             t == [s EXCEPT !.book = x]
  <1>0. Shaped(s) /\ BookPart(s, d) /\ BookView(b, d) /\ Cards(s) /\ IsRec(b, Parts["book"])
    BY DEF Good, Fair, BookPart, Shaped, Views
  <1>1. PageLoaded(s, j, r) = IF j.serial # b.list \/ ~b.watched THEN s ELSE t
    BY DEF PageLoaded
  <1>2. SUFFICES ASSUME j.serial = b.list, b.watched PROVE Good(t, d, H)
    BY <1>1
  <1>3. b.supported /\ j.page = p /\ j.query = q
    BY <1>2 DEF PageJob
  <1>4. r.ok => /\ IsRec(r.value, {"page", "query", "epoch", "photo"})
                /\ r.value.epoch \in Nat /\ b.epoch <= r.value.epoch /\ r.value.query = q
    BY <1>2, <1>3 DEF PageAnswer
  <1>5. \A e \in rows : /\ r.ok
                        /\ IsRec(e, {"page", "query", "epoch", "photo"})
                        /\ e.epoch \in Nat /\ b.epoch <= e.epoch /\ e.query = q
                        /\ e.photo => b.photos
    <2> SUFFICES ASSUME NEW e \in rows
                 PROVE  /\ r.ok /\ IsRec(e, {"page", "query", "epoch", "photo"})
                        /\ e.epoch \in Nat /\ b.epoch <= e.epoch /\ e.query = q
                        /\ e.photo => b.photos
      OBVIOUS
    <2>1. r.ok
      OBVIOUS
    <2>2. CASE kept
      BY <1>4, <2>1, <2>2
    <2>3. CASE ~kept
      <3>1. e = [r.value EXCEPT !.photo = FALSE]
        BY <2>1, <2>3 DEF WithoutPhotos
      <3>2. QED
        BY <1>4, <2>1, <3>1 DEF IsRec
    <2>4. QED
      BY <2>2, <2>3
  <1> HIDE DEF b, rows
  <1>6. /\ IsRec(x, Parts["book"]) /\ x.about = about
        /\ x.rows = IF j.page = 1 THEN rows ELSE b.rows \cup rows
    BY <1>0, PartNames DEF IsRec
  <1>7. /\ x.watched = b.watched /\ x.supported = b.supported /\ x.epoch = b.epoch
        /\ x.photos = b.photos /\ x.list = b.list /\ x.open = b.open
        /\ x.card = b.card /\ x.photo = b.photo
    BY <1>0, PartNames DEF IsRec
  <1> HIDE DEF x
  <1>8. t = With(s, "book", x)
    BY DEF With
  <1> HIDE DEF t
  <1>9. Moves(s, t, {"book"}, {}) /\ t.jobs = s.jobs /\ t.book = x /\ t.done = s.done
    BY <1>0, <1>6, <1>8, WithMoves DEF Views, Moves
  <1>10. BookView(x, d)
    <2>1. \A e \in x.rows : RowFine(x, e)
      <3> SUFFICES ASSUME NEW e \in x.rows PROVE RowFine(x, e)
        OBVIOUS
      <3>1. CASE j.page = 1
        <4>1. e \in rows
          BY <1>6, <3>1
        <4>2. about = q
          BY <1>3, <1>5, <3>1, <4>1
        <4>3. QED
          BY <1>2, <1>3, <1>5, <1>6, <1>7, <4>1, <4>2 DEF RowFine
      <3>2. CASE j.page # 1
        <4>1. about = b.about /\ q = b.about
          BY <1>3, <3>2 DEF Pages, b
        <4>2. CASE e \in rows
          BY <1>2, <1>3, <1>5, <1>6, <1>7, <4>1, <4>2 DEF RowFine
        <4>3. CASE e \in b.rows
          <5>1. RowFine(b, e)
            BY <1>0, <4>3 DEF BookView
          <5>2. QED
            BY <1>6, <1>7, <4>1, <5>1 DEF RowFine
        <4>4. QED
          BY <1>6, <3>2, <4>2, <4>3
      <3>3. QED
        BY <3>1, <3>2
    <2>2. x.card = None \/ (x.watched /\ x.supported /\ CardFine(x, x.card))
      BY <1>0, <1>7 DEF BookView, CardFine
    <2>3. QED
      BY <1>0, <1>7, <2>1, <2>2 DEF BookView
  <1>11. Pages(t, p, q)
    <2>1. \A k : PageJob(b, p, q, k) => PageJob(x, p, q, k)
      BY <1>7 DEF PageJob
    <2>2. \A k, v : PageAnswer(b, k, v) => PageAnswer(x, k, v)
      BY <1>7 DEF PageAnswer
    <2>3. p # 1 => q = x.about
      BY <1>3, <1>6 DEF Pages, b
    <2>4. QED
      BY <1>9, <2>1, <2>2, <2>3 DEF Pages, b
  <1>12. Cards(t)
    <2>1. \A k : CardJob(b, k) => CardJob(x, k)
      BY <1>7 DEF CardJob, CardFine
    <2>2. \A k, v : CardAnswer(b, k, v) => CardAnswer(x, k, v)
      BY <1>7 DEF CardAnswer
    <2>3. QED
      BY <1>0, <1>9, <2>1, <2>2 DEF Cards, b
  <1>13. BookPart(t, d)
    BY <1>9, <1>10, <1>11, <1>12 DEF BookPart
  <1>14. QED
    BY <1>9, <1>13, GoodBook

\* The card that is open changes.
LEMMA CardStays ==
    ASSUME NEW s, NEW t, NEW d, BookPart(s, d), t.jobs = s.jobs, t.done = s.done,
           t.book.watched = s.book.watched, t.book.supported = s.book.supported,
           t.book.epoch = s.book.epoch, t.book.photos = s.book.photos, t.book.about = s.book.about,
           t.book.rows = s.book.rows, t.book.list = s.book.list, t.book.open = s.book.open,
           s.book.watched, s.book.supported, CardFine(t.book, t.book.card),
           \/ t.book.photo \in {None, s.book.photo}
           \/ s.book.photos /\ t.book.photo \in Nat /\ s.book.epoch <= t.book.photo
    PROVE  BookPart(t, d)
  <1>0. BookView(s.book, d) /\ Cards(s)
    BY DEF BookPart
  <1>1. BookView(t.book, d)
    <2>1. \A e \in t.book.rows : RowFine(t.book, e)
      BY <1>0 DEF BookView, RowFine
    <2>2. QED
      BY <1>0, <2>1 DEF BookView
  <1>2. PICK p, q : Pages(s, p, q)
    BY DEF BookPart
  <1>3. Pages(t, p, q)
    <2>1. \A k : PageJob(s.book, p, q, k) => PageJob(t.book, p, q, k)
      BY DEF PageJob
    <2>2. \A k, v : PageAnswer(s.book, k, v) => PageAnswer(t.book, k, v)
      BY DEF PageAnswer
    <2>3. QED
      BY <1>2, <2>1, <2>2 DEF Pages
  <1>4. Cards(t)
    <2>1. \A k : CardJob(s.book, k) => CardJob(t.book, k)
      BY DEF CardJob
    <2>2. \A k, v : CardAnswer(s.book, k, v) => CardAnswer(t.book, k, v)
      BY DEF CardAnswer
    <2>3. QED
      BY <1>0, <2>1, <2>2 DEF Cards
  <1>5. QED
    BY <1>1, <1>3, <1>4 DEF BookPart

LEMMA GoodCardLoaded ==
    ASSUME NEW s, NEW d, NEW H, Good(s, d, H), NEW j, NEW r, j.do = "card",
           CardJob(s.book, j), CardAnswer(s.book, j, r)
    PROVE  Good(CardLoaded(s, j, r), d, H)
  <1> DEFINE c1 == [s.book.card EXCEPT !.error = TRUE]
             c2 == [id |-> j.id, at |-> None, error |-> TRUE]
             c3 == [id |-> j.id, at |-> r.value.epoch, error |-> FALSE]
             kept == s.book.photos /\ j.pgen = s.book.pgen
             f == IF kept /\ r.value.photo THEN r.value.epoch ELSE None
             a1 == [s EXCEPT !.book.card.error = TRUE]
             a2 == [s EXCEPT !.book.photo = None, !.book.card = c2]
             a3 == [s EXCEPT !.book.photo = f, !.book.card = c3]
  <1>0. Shaped(s) /\ BookPart(s, d) /\ BookView(s.book, d)
    BY DEF Good, Fair, BookPart
  <1>1. \/ CardLoaded(s, j, r) = s
        \/ /\ j.serial = s.book.open /\ s.book.watched
           /\ \/ CardLoaded(s, j, r) \in {a1, BookReload(a2)}
              \/ r.ok /\ r.value # None /\ CardLoaded(s, j, r) = a3
    BY DEF CardLoaded
  <1> HIDE DEF a1, a2, a3
  <1>2. SUFFICES ASSUME j.serial = s.book.open, s.book.watched
                 PROVE  Good(a1, d, H) /\ Good(a2, d, H) /\ (r.ok /\ r.value # None => Good(a3, d, H))
    BY <1>1, GoodBookReload
  <1> USE DEF a1, a2, a3
  <1>3. s.book.supported /\ CardFine(s.book, s.book.card)
    BY <1>2 DEF CardJob
  <1>4. r.ok /\ r.value # None => r.value.epoch \in Nat /\ s.book.epoch <= r.value.epoch
    BY <1>2 DEF CardAnswer
  <1>5. CardFine(s.book, c1) /\ CardFine(s.book, c2)
    BY <1>3 DEF CardFine, IsRec
  <1>6. r.ok /\ r.value # None => CardFine(s.book, c3)
    BY <1>4 DEF CardFine, IsRec
  <1>7. f = None \/ (s.book.photos /\ f = r.value.epoch)
    OBVIOUS
  <1> HIDE DEF c2, c3, f
  <1>8. ASSUME NEW t, IsRec(t, Fields), \A g \in Fields \ {"book"} : t[g] = s[g],
               IsRec(t.book, Parts["book"]), CardFine(s.book, t.book.card),
               \A g \in Parts["book"] \ {"card", "photo"} : t.book[g] = s.book[g],
               \/ t.book.photo \in {None, s.book.photo}
               \/ s.book.photos /\ t.book.photo \in Nat /\ s.book.epoch <= t.book.photo
        PROVE  Good(t, d, H)
    <2>1. Moves(s, t, {"book"}, {}) /\ t.jobs = s.jobs /\ t.done = s.done
      BY <1>0, <1>8, Change, FieldNames DEF Views, Moves
    <2>2. /\ t.book.watched = s.book.watched /\ t.book.supported = s.book.supported
          /\ t.book.epoch = s.book.epoch /\ t.book.photos = s.book.photos
          /\ t.book.about = s.book.about /\ t.book.rows = s.book.rows
          /\ t.book.list = s.book.list /\ t.book.open = s.book.open
      BY <1>8, PartNames
    <2>3. CardFine(t.book, t.book.card)
      BY <1>8, <2>2 DEF CardFine
    <2>4. BookPart(t, d)
      BY <1>0, <1>2, <1>3, <1>8, <2>1, <2>2, <2>3, CardStays
    <2>5. QED
      BY <2>1, <2>4, GoodBook
  <1>9. Good(a1, d, H)
    <2>1. IsRec(a1, Fields) /\ \A g \in Fields \ {"book"} : a1[g] = s[g]
      BY <1>0, FieldNames DEF Shaped, IsRec
    <2>2. /\ IsRec(a1.book, Parts["book"]) /\ a1.book.card = c1
          /\ \A g \in Parts["book"] \ {"card"} : a1.book[g] = s.book[g]
      BY <1>0, FieldNames, PartNames DEF Shaped, IsRec, Views
    <2>3. a1.book.photo = s.book.photo
      BY <2>2, PartNames
    <2> HIDE DEF a1, c1
    <2>4. QED
      BY <1>5, <1>8, <2>1, <2>2, <2>3
  <1>10. Good(a2, d, H)
    <2>1. IsRec(a2, Fields) /\ \A g \in Fields \ {"book"} : a2[g] = s[g]
      BY <1>0, FieldNames DEF Shaped, IsRec
    <2>2. /\ IsRec(a2.book, Parts["book"]) /\ a2.book.card = c2 /\ a2.book.photo = None
          /\ \A g \in Parts["book"] \ {"card", "photo"} : a2.book[g] = s.book[g]
      BY <1>0, FieldNames, PartNames DEF Shaped, IsRec, Views
    <2> HIDE DEF a2
    <2>3. QED
      BY <1>5, <1>8, <2>1, <2>2
  <1>11. ASSUME r.ok, r.value # None PROVE Good(a3, d, H)
    <2>1. IsRec(a3, Fields) /\ \A g \in Fields \ {"book"} : a3[g] = s[g]
      BY <1>0, FieldNames DEF Shaped, IsRec
    <2>2. /\ IsRec(a3.book, Parts["book"]) /\ a3.book.card = c3 /\ a3.book.photo = f
          /\ \A g \in Parts["book"] \ {"card", "photo"} : a3.book[g] = s.book[g]
      BY <1>0, FieldNames, PartNames DEF Shaped, IsRec, Views
    <2> HIDE DEF a3
    <2>3. QED
      BY <1>4, <1>6, <1>7, <1>8, <1>11, <2>1, <2>2
  <1>12. QED
    BY <1>9, <1>10, <1>11

\* apply_status(), its first step: the epoch is the status's, and the cards of another go.
LEMMA EpochMoves ==
    ASSUME NEW s, Shaped(s), NEW moved \in BOOLEAN
    PROVE  LET e == [s EXCEPT !.book.epoch = s.status.epoch]
               t == IF moved THEN DropCards(e) ELSE e
           IN  /\ Moves(s, t, {"book"}, {}) /\ t.jobs = s.jobs /\ t.status = s.status
               /\ t.book.watched = s.book.watched /\ t.book.supported = s.book.supported
               /\ t.book.photos = s.book.photos /\ t.book.about = s.book.about
               /\ t.book.epoch = s.status.epoch
               /\ ~moved => /\ t.book.list = s.book.list /\ t.book.open = s.book.open
                            /\ t.book.rows = s.book.rows /\ t.book.card = s.book.card
                            /\ t.book.photo = s.book.photo
               /\ moved => /\ t.book.list = s.book.list + 1 /\ t.book.open = s.book.open + 1
                           /\ t.book.rows = {} /\ t.book.photo = None
                           /\ t.book.card = IF s.book.card = None THEN None
                                            ELSE [id |-> s.book.card.id, at |-> None, error |-> FALSE]
  <1> DEFINE e == [s EXCEPT !.book.epoch = s.status.epoch]
             t == DropCards(e)
  <1>1. IsRec(e, Fields) /\ \A f \in Fields \ {"book"} : e[f] = s[f]
    BY FieldNames DEF Shaped, IsRec
  <1>2. /\ IsRec(e.book, Parts["book"]) /\ e.book.epoch = s.status.epoch
        /\ \A f \in Parts["book"] \ {"epoch"} : e.book[f] = s.book[f]
    BY FieldNames, PartNames DEF Shaped, IsRec, Views
  <1> HIDE DEF e
  <1>3. /\ Moves(s, e, {"book"}, {}) /\ e.jobs = s.jobs /\ e.status = s.status /\ Shaped(e)
    BY <1>1, <1>2, Change, FieldNames DEF Views, Moves
  <1>4. /\ e.book.watched = s.book.watched /\ e.book.supported = s.book.supported
        /\ e.book.photos = s.book.photos /\ e.book.about = s.book.about
        /\ e.book.list = s.book.list /\ e.book.open = s.book.open
        /\ e.book.rows = s.book.rows /\ e.book.card = s.book.card /\ e.book.photo = s.book.photo
    BY <1>2, PartNames
  <1>5. /\ Moves(e, t, {"book"}, {}) /\ t.jobs = e.jobs
        /\ t.book.list = e.book.list + 1 /\ t.book.open = e.book.open + 1
        /\ t.book.rows = {} /\ t.book.photo = None
        /\ t.book.card = IF e.book.card = None THEN None
                         ELSE [id |-> e.book.card.id, at |-> None, error |-> FALSE]
        /\ t.book.watched = e.book.watched /\ t.book.supported = e.book.supported
        /\ t.book.epoch = e.book.epoch /\ t.book.photos = e.book.photos
        /\ t.book.about = e.book.about
    BY <1>3, DropsCards
  <1> HIDE DEF t
  <1>6. Moves(s, t, {"book"}, {}) /\ t.status = s.status
    BY <1>3, <1>5, MovesOn, FieldNames DEF Moves
  <1>7. CASE moved
    <2>1. QED
      BY <1>2, <1>4, <1>3, <1>5, <1>6, <1>7 DEF e, t
  <1>8. CASE ~moved
    BY <1>2, <1>3, <1>4, <1>8 DEF e
  <1>9. QED
    BY <1>7, <1>8

\* Its second step: the photos go when they are turned off.
TurnPhotos(s, photos) == [s EXCEPT !.book.photos = photos, !.book.pgen = @ + 1]
PhotosStep(s, photos, turned) ==
    IF turned THEN (IF ~photos THEN DropPhotos(TurnPhotos(s, photos)) ELSE TurnPhotos(s, photos)) ELSE s

LEMMA PhotosTurn ==
    ASSUME NEW s, Shaped(s), NEW photos \in BOOLEAN, NEW turned \in BOOLEAN,
           turned <=> (photos # s.book.photos), s.book.photos \in BOOLEAN
    PROVE  LET t == PhotosStep(s, photos, turned)
           IN  /\ Moves(s, t, {"book"}, {}) /\ t.jobs = s.jobs /\ t.status = s.status
               /\ t.book.watched = s.book.watched /\ t.book.supported = s.book.supported
               /\ t.book.epoch = s.book.epoch /\ t.book.about = s.book.about
               /\ t.book.list = s.book.list /\ t.book.open = s.book.open /\ t.book.card = s.book.card
               /\ t.book.photos = photos
               /\ \/ t.book.rows = s.book.rows /\ t.book.photo = s.book.photo /\ (photos \/ ~s.book.photos)
                  \/ t.book.rows = WithoutPhotos(s.book.rows) /\ t.book.photo = None
  <1> DEFINE p == [s EXCEPT !.book.photos = photos, !.book.pgen = @ + 1]
             t == [p EXCEPT !.book.rows = WithoutPhotos(@), !.book.photo = None]
  <1>1. IsRec(p, Fields) /\ \A f \in Fields \ {"book"} : p[f] = s[f]
    BY FieldNames DEF Shaped, IsRec
  <1>2. /\ IsRec(p.book, Parts["book"]) /\ p.book.photos = photos
        /\ \A f \in Parts["book"] \ {"photos", "pgen"} : p.book[f] = s.book[f]
    BY FieldNames, PartNames DEF Shaped, IsRec, Views
  <1>a. PhotosStep(s, photos, turned) = IF turned THEN (IF ~photos THEN DropPhotos(p) ELSE p) ELSE s
    BY DEF PhotosStep, TurnPhotos
  <1> HIDE DEF p
  <1>3. Moves(s, p, {"book"}, {}) /\ p.jobs = s.jobs /\ p.status = s.status /\ Shaped(p)
    BY <1>1, <1>2, Change, FieldNames DEF Views, Moves
  <1>4. /\ p.book.watched = s.book.watched /\ p.book.supported = s.book.supported
        /\ p.book.epoch = s.book.epoch /\ p.book.about = s.book.about
        /\ p.book.list = s.book.list /\ p.book.open = s.book.open /\ p.book.card = s.book.card
        /\ p.book.rows = s.book.rows /\ p.book.photo = s.book.photo
    BY <1>2, PartNames
  <1>5. IsRec(t, Fields) /\ \A f \in Fields \ {"book"} : t[f] = p[f]
    BY <1>3, FieldNames DEF Shaped, IsRec
  <1>6. /\ IsRec(t.book, Parts["book"]) /\ t.book.photo = None /\ t.book.rows = WithoutPhotos(p.book.rows)
        /\ \A f \in Parts["book"] \ {"rows", "photo"} : t.book[f] = p.book[f]
    BY <1>3, FieldNames, PartNames DEF Shaped, IsRec, Views
  <1>7. DropPhotos(p) = t
    BY DEF DropPhotos
  <1> HIDE DEF t
  <1>8. Moves(s, t, {"book"}, {}) /\ t.jobs = s.jobs /\ t.status = s.status
    <2>1. Moves(p, t, {"book"}, {}) /\ t.jobs = p.jobs /\ t.status = p.status
      BY <1>3, <1>5, <1>6, Change, FieldNames DEF Views, Moves
    <2>2. QED
      BY <1>3, <2>1, MovesOn
  <1>9. /\ t.book.watched = s.book.watched /\ t.book.supported = s.book.supported
        /\ t.book.epoch = s.book.epoch /\ t.book.about = s.book.about
        /\ t.book.list = s.book.list /\ t.book.open = s.book.open /\ t.book.card = s.book.card
        /\ t.book.photos = photos
    BY <1>2, <1>4, <1>6, PartNames
  <1>10. CASE turned /\ ~photos
    BY <1>4, <1>6, <1>7, <1>8, <1>9, <1>10, <1>a
  <1>11. CASE turned /\ photos
    BY <1>2, <1>3, <1>4, <1>11, <1>a
  <1>12. CASE ~turned
    <2>1. Moves(s, s, {"book"}, {}) /\ s.book.photos = photos /\ (photos \/ ~s.book.photos)
      BY <1>12, MovesRefl, MovesMore
    <2>2. QED
      BY <1>12, <1>a, <2>1
  <1>13. QED
    BY <1>10, <1>11, <1>12

\* apply_status(): what is kept is of the epoch that the status names, or of a later one.
LEMMA FairBookStatus ==
    ASSUME NoneIsNew, NEW s, NEW d, NEW H, Fair(s, d, H)
    PROVE  /\ Moves(s, BookStatus(s), {"book"}, {"book", "card"})
           /\ Fair(BookStatus(s), d, H)
  <1> DEFINE supported == s.status.up
             moved == s.book.epoch # None /\ s.status.epoch # s.book.epoch
             photos == supported /\ s.status.photos
             turned == photos # s.book.photos
             e == [s EXCEPT !.book.epoch = s.status.epoch]
             t == IF moved THEN DropCards(e) ELSE e
             u == PhotosStep(t, photos, turned)
             v == [u EXCEPT !.book.supported = supported]
             w == BookReload(u)
             z == IF w.book.card # None THEN OpenCard(w, w.book.card.id) ELSE w
  <1>0. /\ Shaped(s) /\ BookPart(s, d) /\ BookView(s.book, d) /\ Known(s.status, d)
        /\ s.status.up \in BOOLEAN /\ s.status.photos \in BOOLEAN /\ s.book.photos \in BOOLEAN
        /\ s.book.supported \in BOOLEAN
    BY DEF Fair, StatusPart, BookPart, BookView, Known
  <1>1. BookStatus(s) = IF supported # u.book.supported
                        THEN (IF supported THEN BookReload(v) ELSE BookForget(v))
                        ELSE IF supported /\ (moved \/ (turned /\ photos)) THEN z ELSE u
    <2> DEFINE F3(y) == IF supported THEN BookReload(y) ELSE BookForget(y)
               F4(y) == IF y.book.card # None THEN OpenCard(y, y.book.card.id) ELSE y
               F2(y) == IF supported # y.book.supported
                        THEN Then([y EXCEPT !.book.supported = supported], F3)
                        ELSE IF supported /\ (moved \/ (turned /\ photos)) THEN Then(BookReload(y), F4)
                        ELSE y
               G(y) == If(~photos, [y EXCEPT !.book.photos = photos, !.book.pgen = @ + 1], DropPhotos)
               F1(y) == Then(If(turned, y, G), F2)
    <2>1. BookStatus(s) = Then(If(moved, e, DropCards), F1)
      BY DEF BookStatus
    <2>2. If(moved, e, DropCards) = t
      <3> HIDE DEF e, moved
      <3>1. QED
        BY DEF If, Then
    <2>3. Then(t, F1) = F1(t)
      <3> HIDE DEF t, F1
      <3>1. QED
        BY DEF Then
    <2>4. G(t) = IF ~photos THEN DropPhotos(TurnPhotos(t, photos)) ELSE TurnPhotos(t, photos)
      <3>1. G(t) = If(~photos, TurnPhotos(t, photos), DropPhotos)
        BY DEF TurnPhotos
      <3> HIDE DEF photos, t, G
      <3>2. QED
        BY <3>1 DEF If, Then
    <2>5. If(turned, t, G) = u
      <3>1. If(turned, t, G) = IF turned THEN G(t) ELSE t
        <4> HIDE DEF t, G, turned
        <4>1. QED
          BY DEF If, Then
      <3> HIDE DEF t, G, turned, photos
      <3>2. QED
        BY <2>4, <3>1 DEF PhotosStep
    <2>6. F1(t) = F2(u)
      <3>1. F1(t) = Then(u, F2)
        <4> HIDE DEF F2, G, u, t, turned
        <4>1. QED
          BY <2>5
      <3>2. Then(u, F2) = F2(u)
        <4> HIDE DEF u, F2
        <4>1. QED
          BY DEF Then
      <3>3. QED
        BY <3>1, <3>2
    <2>7. Then(v, F3) = F3(v) /\ Then(w, F4) = F4(w)
      <3> HIDE DEF v, w, F3, F4
      <3>1. QED
        BY DEF Then
    <2>8. F2(u) = IF supported # u.book.supported THEN F3(v)
                  ELSE IF supported /\ (moved \/ (turned /\ photos)) THEN F4(w) ELSE u
      <3> HIDE DEF u, F3, F4, moved, turned, photos
      <3>1. QED
        BY <2>7
    <2>9. BookStatus(s) = F2(u)
      <3> HIDE DEF F1, F2, u, t, e, moved
      <3>1. QED
        BY <2>1, <2>2, <2>3, <2>6
    <2> HIDE DEF F2, u, moved, turned, photos
    <2>10. QED
      BY <2>8, <2>9
  <1>2. supported \in BOOLEAN /\ moved \in BOOLEAN /\ photos \in BOOLEAN /\ turned \in BOOLEAN
    BY <1>0
  <1>3. /\ Moves(s, t, {"book"}, {}) /\ t.jobs = s.jobs /\ t.status = s.status
        /\ t.book.watched = s.book.watched /\ t.book.supported = s.book.supported
        /\ t.book.photos = s.book.photos /\ t.book.about = s.book.about
        /\ t.book.epoch = s.status.epoch
        /\ ~moved => /\ t.book.list = s.book.list /\ t.book.open = s.book.open
                     /\ t.book.rows = s.book.rows /\ t.book.card = s.book.card
                     /\ t.book.photo = s.book.photo
        /\ moved => /\ t.book.list = s.book.list + 1 /\ t.book.open = s.book.open + 1
                    /\ t.book.rows = {} /\ t.book.photo = None
                    /\ t.book.card = IF s.book.card = None THEN None
                                     ELSE [id |-> s.book.card.id, at |-> None, error |-> FALSE]
    BY <1>0, <1>2, EpochMoves
  <1>4. ~moved => s.book.epoch = None \/ s.status.epoch = s.book.epoch
    OBVIOUS
  <1> HIDE DEF t
  <1>5. Shaped(t) /\ t.done = s.done
    BY <1>3 DEF Moves
  <1>6. /\ Moves(t, u, {"book"}, {}) /\ u.jobs = t.jobs /\ u.status = t.status
        /\ u.book.watched = t.book.watched /\ u.book.supported = t.book.supported
        /\ u.book.epoch = t.book.epoch /\ u.book.about = t.book.about
        /\ u.book.list = t.book.list /\ u.book.open = t.book.open /\ u.book.card = t.book.card
        /\ u.book.photos = photos
        /\ \/ u.book.rows = t.book.rows /\ u.book.photo = t.book.photo /\ (photos \/ ~t.book.photos)
           \/ u.book.rows = WithoutPhotos(t.book.rows) /\ u.book.photo = None
    <2>1. turned = (photos # t.book.photos) /\ t.book.photos \in BOOLEAN
      BY <1>0, <1>3
    <2> HIDE DEF turned, photos
    <2>2. PICK ph \in BOOLEAN, tu \in BOOLEAN : ph = photos /\ tu = turned
      BY <1>2
    <2>3. u = PhotosStep(t, ph, tu) /\ (tu <=> (ph # t.book.photos))
      BY <2>1, <2>2
    <2> HIDE DEF u
    <2>4. /\ Moves(t, u, {"book"}, {}) /\ u.jobs = t.jobs /\ u.status = t.status
          /\ u.book.watched = t.book.watched /\ u.book.supported = t.book.supported
          /\ u.book.epoch = t.book.epoch /\ u.book.about = t.book.about
          /\ u.book.list = t.book.list /\ u.book.open = t.book.open /\ u.book.card = t.book.card
          /\ u.book.photos = ph
          /\ \/ u.book.rows = t.book.rows /\ u.book.photo = t.book.photo /\ (ph \/ ~t.book.photos)
             \/ u.book.rows = WithoutPhotos(t.book.rows) /\ u.book.photo = None
      BY <1>5, <2>1, <2>3, PhotosTurn
    <2>5. QED
      BY <2>2, <2>4
  <1> HIDE DEF u, photos, turned, moved
  <1>7. Moves(s, u, {"book"}, {}) /\ Shaped(u) /\ u.done = s.done /\ u.jobs = s.jobs
    BY <1>3, <1>6, MovesOn DEF Moves
  <1>8. IsRec(v, Fields) /\ \A f \in Fields \ {"book"} : v[f] = u[f]
    BY <1>7, FieldNames DEF Shaped, IsRec
  <1>9. /\ IsRec(v.book, Parts["book"]) /\ v.book.supported = supported
        /\ \A f \in Parts["book"] \ {"supported"} : v.book[f] = u.book[f]
    BY <1>7, FieldNames, PartNames DEF Shaped, IsRec, Views
  <1> HIDE DEF v
  <1>10. /\ Moves(u, v, {"book"}, {}) /\ v.jobs = u.jobs /\ v.done = u.done /\ Shaped(v)
    BY <1>7, <1>8, <1>9, Change, FieldNames DEF Views, Moves
  <1>11. /\ v.book.watched = u.book.watched /\ v.book.epoch = u.book.epoch
         /\ v.book.photos = u.book.photos /\ v.book.about = u.book.about
         /\ v.book.list = u.book.list /\ v.book.open = u.book.open
         /\ v.book.rows = u.book.rows /\ v.book.card = u.book.card /\ v.book.photo = u.book.photo
    BY <1>9, PartNames
  <1>12. ~s.book.supported => s.book.rows = {} /\ s.book.card = None /\ s.book.photo = None
    BY <1>0 DEF BookView, RowFine
  <1>13. s.book.list \in Nat /\ s.book.open \in Nat /\ s.book.watched \in BOOLEAN
    BY <1>0 DEF BookView
  <1>14. CASE supported
    <2>1. s.status.epoch \in Nat /\ s.status.epoch <= d.st.epoch
      BY <1>0, <1>14 DEF Known
    <2>2. BookPart(t, d)
      <3>1. CASE moved
        <4>1. t.book.card = None \/ (t.book.watched /\ t.book.supported /\ CardFine(t.book, t.book.card))
          <5>1. CASE s.book.card = None
            BY <1>3, <3>1, <5>1
          <5>2. CASE s.book.card # None
            <6> DEFINE c == [id |-> s.book.card.id, at |-> None, error |-> FALSE]
            <6>1. IsRec(c, {"id", "at", "error"}) /\ c.at = None
              BY DEF IsRec
            <6>2. t.book.card = c
              BY <1>3, <3>1, <5>2
            <6> HIDE DEF c
            <6>3. CardFine(t.book, t.book.card)
              BY <6>1, <6>2 DEF CardFine
            <6>4. QED
              BY <1>0, <1>3, <5>2, <6>3 DEF BookView
          <5>3. QED
            BY <5>1, <5>2
        <4>2. BookView(t.book, d)
          BY <1>0, <1>3, <1>13, <2>1, <3>1, <4>1 DEF BookView
        <4>3. s.book.list < t.book.list /\ s.book.open < t.book.open
          BY <1>3, <1>13, <3>1
        <4>4. QED
          BY <1>0, <1>3, <1>5, <4>2, <4>3, BookKeeps
      <3>2. CASE ~moved /\ s.book.supported
        <4>1. s.book.epoch # None
          BY <1>0, <3>2 DEF BookView, NoneIsNew
        <4>2. t.book.epoch = s.book.epoch
          BY <1>3, <1>4, <3>2, <4>1
        <4>3. SameBook(s, t) /\ t.book.list = s.book.list /\ t.book.open = s.book.open
          BY <1>3, <3>2, <4>2 DEF SameBook
        <4>4. BookView(t.book, d)
          BY <1>0, <1>13, <4>3, SameBookView
        <4>5. QED
          BY <1>0, <1>3, <1>5, <3>2, <4>2, <4>4, BookKeeps
      <3>3. CASE ~moved /\ ~s.book.supported
        <4>1. BookView(t.book, d)
          BY <1>0, <1>3, <1>12, <1>13, <3>3 DEF BookView
        <4>2. QED
          BY <1>0, <1>3, <1>5, <3>3, <4>1, BookKeeps
      <3>4. QED
        BY <1>2, <3>1, <3>2, <3>3
    <2>3. BookPart(u, d)
      <3>0. BookView(t.book, d)
        BY <2>2 DEF BookPart
      <3>1. \A r \in u.book.rows : RowFine(u.book, r)
        <4>1. CASE u.book.rows = t.book.rows /\ (photos \/ ~t.book.photos)
          BY <1>6, <3>0, <4>1 DEF BookView, RowFine
        <4>2. CASE u.book.rows = WithoutPhotos(t.book.rows)
          <5> SUFFICES ASSUME NEW r \in u.book.rows PROVE RowFine(u.book, r)
            OBVIOUS
          <5>1. PICK o \in t.book.rows : r = [o EXCEPT !.photo = FALSE]
            BY <4>2 DEF WithoutPhotos
          <5>2. RowFine(t.book, o)
            BY <3>0 DEF BookView
          <5>3. /\ IsRec(r, {"page", "query", "epoch", "photo"}) /\ r.epoch = o.epoch
                /\ r.query = o.query /\ r.photo = FALSE
            BY <5>1, <5>2 DEF RowFine, IsRec
          <5>4. QED
            BY <1>6, <5>2, <5>3 DEF RowFine
        <4>3. QED
          BY <1>6, <4>1, <4>2
      <3>2. u.book.card = None \/ (u.book.watched /\ u.book.supported /\ CardFine(u.book, u.book.card))
        BY <1>6, <3>0 DEF BookView, CardFine
      <3>3. \/ u.book.photo = None
            \/ u.book.watched /\ u.book.supported /\ u.book.photos /\ u.book.photo \in Nat
               /\ u.book.epoch <= u.book.photo
        BY <1>2, <1>6, <3>0 DEF BookView
      <3>4. BookView(u.book, d)
        BY <1>2, <1>6, <3>0, <3>1, <3>2, <3>3 DEF BookView
      <3>5. QED
        BY <1>5, <1>6, <1>7, <1>3, <2>2, <3>4, BookKeeps
    <2>4. u.book.supported = s.book.supported
      BY <1>3, <1>6
    <2>5. CASE ~s.book.supported
      <3>1. BookPart(v, d)
        <4>0. BookView(u.book, d) /\ u.book.rows = {} /\ u.book.card = None /\ u.book.photo = None
          BY <2>3, <2>4, <2>5 DEF BookPart, BookView, RowFine
        <4>1. u.book.epoch \in Nat /\ u.book.epoch <= d.st.epoch
          BY <1>3, <1>6, <2>1
        <4>2. BookView(v.book, d)
          BY <1>2, <1>9, <1>11, <4>0, <4>1 DEF BookView
        <4>3. QED
          BY <1>10, <1>11, <2>3, <2>4, <2>5, <4>2, BookKeeps
      <3>2. Moves(v, BookReload(v), {"book"}, {"book"}) /\ BookPart(BookReload(v), d)
        BY <1>10, <3>1, BookReloads
      <3>3. BookStatus(s) = BookReload(v)
        BY <1>0, <1>1, <1>14, <2>4, <2>5
      <3>4. Moves(s, BookReload(v), {"book"}, {"book", "card"})
        BY <1>7, <1>10, <3>2, MovesMore, MovesOn
      <3>5. QED
        BY <3>2, <3>3, <3>4, FairBook
    <2>6. CASE s.book.supported
      <3>1. BookStatus(s) \in {z, u}
        BY <1>0, <1>1, <1>14, <2>4, <2>6
      <3>2. Moves(u, w, {"book"}, {"book"}) /\ BookPart(w, d) /\ SameBook(u, w)
        BY <1>7, <2>3, BookReloads
      <3> HIDE DEF w
      <3>3. w.book.supported /\ Shaped(w)
        BY <2>4, <2>6, <3>2 DEF SameBook, Moves
      <3>4. \A id : Moves(w, OpenCard(w, id), {"book"}, {"card"}) /\ BookPart(OpenCard(w, id), d)
        BY <3>2, <3>3, CardOpens
      <3>5. /\ Moves(s, u, {"book"}, {"book", "card"}) /\ Moves(s, w, {"book"}, {"book", "card"})
            /\ \A id : Moves(s, OpenCard(w, id), {"book"}, {"book", "card"})
        <4>1. /\ Moves(s, u, {"book"}, {"book", "card"}) /\ Moves(u, w, {"book"}, {"book", "card"})
              /\ \A id : Moves(w, OpenCard(w, id), {"book"}, {"book", "card"})
          BY <1>7, <3>2, <3>4, MovesMore
        <4>2. Moves(s, w, {"book"}, {"book", "card"})
          BY <4>1, MovesOn
        <4>3. QED
          BY <4>1, <4>2, MovesOn
      <3>6. Moves(s, z, {"book"}, {"book", "card"}) /\ BookPart(z, d)
        BY <3>2, <3>4, <3>5
      <3> HIDE DEF z
      <3>7. Moves(s, BookStatus(s), {"book"}, {"book", "card"}) /\ BookPart(BookStatus(s), d)
        BY <2>3, <3>1, <3>5, <3>6
      <3>8. QED
        BY <3>7, FairBook
    <2>7. QED
      BY <1>0, <2>5, <2>6
  <1>15. CASE ~supported
    <2>1. \/ u.book.list = s.book.list /\ u.book.open = s.book.open
          \/ u.book.list = s.book.list + 1 /\ u.book.open = s.book.open + 1
      BY <1>2, <1>3, <1>6
    <2>2. u.book.supported = s.book.supported /\ u.book.watched = s.book.watched
      BY <1>3, <1>6
    <2>3. CASE s.book.supported
      <3> DEFINE y == BookForget(v)
      <3>1. BookStatus(s) = y
        BY <1>0, <1>1, <1>15, <2>2, <2>3
      <3>2. /\ Moves(v, y, {"book"}, {}) /\ y.jobs = v.jobs
            /\ y.book.list = v.book.list + 1 /\ y.book.open = v.book.open + 1
            /\ y.book.rows = {} /\ y.book.photo = None /\ y.book.card = None
            /\ y.book.watched = v.book.watched /\ y.book.supported = v.book.supported
            /\ y.book.epoch = v.book.epoch /\ y.book.photos = v.book.photos
        BY <1>10, BookForgets
      <3> HIDE DEF y
      <3>3. Moves(s, y, {"book"}, {}) /\ y.jobs = s.jobs /\ y.done = s.done
        BY <1>7, <1>10, <3>2, MovesOn DEF Moves
      <3>4. s.book.list < y.book.list /\ s.book.open < y.book.open /\ y.book.list \in Nat /\ y.book.open \in Nat
        BY <1>11, <1>13, <2>1, <3>2
      <3>5. y.book.supported = FALSE /\ y.book.watched = s.book.watched /\ y.book.photos = photos
        BY <1>0, <1>6, <1>9, <1>11, <1>15, <2>2, <3>2
      <3>6. BookView(y.book, d)
        BY <1>2, <1>13, <3>2, <3>4, <3>5 DEF BookView
      <3>7. BookPart(y, d)
        BY <1>0, <3>3, <3>4, <3>6, BookKeeps
      <3>8. Moves(s, y, {"book"}, {"book", "card"})
        BY <3>3, MovesMore
      <3>9. QED
        BY <3>1, <3>7, <3>8, FairBook
    <2>4. CASE ~s.book.supported
      <3>1. BookStatus(s) = u
        BY <1>0, <1>1, <1>15, <2>2, <2>4
      <3>2. u.book.rows = {} /\ u.book.card = None /\ u.book.photo = None
        BY <1>2, <1>3, <1>6, <1>12, <2>4 DEF WithoutPhotos
      <3>3. BookView(u.book, d)
        BY <1>0, <1>2, <1>6, <1>13, <2>1, <2>2, <2>4, <3>2 DEF BookView
      <3>4. BookPart(u, d)
        <4>1. s.book.list < u.book.list \/ u.book.list = s.book.list
          BY <1>13, <2>1
        <4>2. s.book.open < u.book.open \/ u.book.open = s.book.open
          BY <1>13, <2>1
        <4>3. QED
          BY <1>0, <1>7, <2>4, <3>3, <4>1, <4>2, BookKeeps
      <3>5. Moves(s, u, {"book"}, {"book", "card"})
        BY <1>7, MovesMore
      <3>6. QED
        BY <3>1, <3>4, <3>5, FairBook
    <2>5. QED
      BY <1>0, <2>3, <2>4
  <1>16. QED
    BY <1>2, <1>14, <1>15

-----------------------------------------------------------------------------
(***************************************************************************)
(* The status.                                                             *)
(***************************************************************************)

\* statusChanged: every model follows, and the notifications know what is available.
LEMMA FairStatusChanged ==
    ASSUME NoneIsNew, NEW s, NEW d, Fair(s, d, DOMAIN left)
    PROVE  LET t == StatusChanged(s)
           IN  /\ Fair(t, d, DOMAIN left) /\ NotesLink(t, DOMAIN left)
               /\ t.status = s.status /\ t.faces = s.faces
  <1> DEFINE H == DOMAIN left
             a == IF Has("notes") THEN SyncStatus(s) ELSE s
             b == IF Has("book") THEN BookStatus(a) ELSE a
             c == IF Has("search") THEN SearchStatus(b) ELSE b
             e == IF Has("log") THEN SyncWatches(c) ELSE c
             F3(u) == If(Has("log"), u, SyncWatches)
             F2(t) == Then(If(Has("search"), t, SearchStatus), F3)
             F1(t) == Then(If(Has("book"), t, BookStatus), F2)
  <1>1. StatusChanged(s) = e
    <2>1. StatusChanged(s) = Then(If(Has("notes"), s, SyncStatus), F1)
      BY DEF StatusChanged
    <2>2. If(Has("notes"), s, SyncStatus) = a
      BY DEF If, Then
    <2> HIDE DEF a
    <2>3. If(Has("book"), a, BookStatus) = b
      BY DEF If, Then
    <2> HIDE DEF b
    <2>4. If(Has("search"), b, SearchStatus) = c
      BY DEF If, Then
    <2> HIDE DEF c
    <2>5. If(Has("log"), c, SyncWatches) = e
      BY DEF If, Then
    <2>6. Then(a, F1) = F1(a) /\ Then(b, F2) = F2(b) /\ Then(c, F3) = F3(c)
      <3> HIDE DEF F1, F2, F3
      <3>1. QED
        BY DEF Then
    <2>7. F3(c) = e
      BY <2>5
    <2>8. F2(b) = e
      <3> HIDE DEF F3, e
      <3>1. QED
        BY <2>4, <2>6, <2>7
    <2>9. F1(a) = e
      <3> HIDE DEF F2, e
      <3>1. QED
        BY <2>3, <2>6, <2>8
    <2> HIDE DEF F1, e
    <2>10. QED
      BY <2>1, <2>2, <2>6, <2>9
  <1> HIDE DEF F1, F2, F3
  <1>2. Fair(a, d, H) /\ NotesLink(a, H) /\ Moves(s, a, {"notes"}, {"notes"})
    <2>1. CASE Has("notes")
      BY <2>1, FairSyncStatus
    <2>2. CASE ~Has("notes")
      <3>1. Moves(s, s, {"notes"}, {"notes"})
        BY MovesRefl, MovesMore DEF Fair
      <3>2. QED
        BY <2>2, <3>1 DEF NotesLink, Has
    <2>3. QED
      BY <2>1, <2>2
  <1> HIDE DEF a
  <1>3. Fair(b, d, H) /\ Moves(a, b, {"book"}, {"book", "card"})
    <2>1. Moves(a, a, {"book"}, {"book", "card"})
      BY <1>2, MovesRefl, MovesMore DEF Fair
    <2>2. QED
      BY <1>2, <2>1, FairBookStatus
  <1> HIDE DEF b
  <1>4. Fair(c, d, H) /\ Moves(b, c, {"search"}, {})
    <2>1. Moves(b, b, {"search"}, {})
      BY <1>3, MovesRefl, MovesMore DEF Fair
    <2>2. QED
      BY <1>3, <2>1, FairSearchStatus
  <1> HIDE DEF c
  <1>5. Fair(e, d, H) /\ Moves(c, e, {"log"}, {"log"})
    <2>1. Moves(c, c, {"log"}, {"log"})
      BY <1>4, MovesRefl, MovesMore DEF Fair
    <2>2. Moves(c, SyncWatches(c), {"log"}, {"log"}) /\ LogPart(SyncWatches(c))
      BY <1>4, SyncsWatches DEF Fair
    <2>3. Fair(SyncWatches(c), d, H)
      BY <1>4, <2>2, FairView
    <2>4. QED
      BY <1>4, <2>1, <2>2, <2>3
  <1> HIDE DEF e
  <1>6. NotesLink(b, H)
    BY <1>2, <1>3, Kept
  <1>7. NotesLink(c, H)
    BY <1>4, <1>6, Kept
  <1>8. NotesLink(e, H)
    BY <1>5, <1>7, Kept
  <1>9. /\ a.status = s.status /\ b.status = a.status /\ c.status = b.status /\ e.status = c.status
        /\ a.faces = s.faces /\ b.faces = a.faces /\ c.faces = b.faces /\ e.faces = c.faces
    BY <1>2, <1>3, <1>4, <1>5, FieldNames DEF Moves
  <1>10. QED
    BY <1>1, <1>5, <1>8, <1>9

LEMMA FairStatus ==
    ASSUME NEW s, NEW t, NEW d, NEW H, Fair(s, d, H), IsRec(t, Fields),
           \A f \in Fields \ {"status", "threads"} : t[f] = s[f],
           IsRec(t.status, Parts["status"]), Known(t.status, d)
    PROVE  Fair(t, d, H) /\ t.faces = s.faces
  <1>1. /\ StatusPart(s, d) /\ NotesPart(s, H) /\ LogPart(s) /\ AppsPart(s) /\ BookPart(s, d)
        /\ SearchPart(s, d) /\ FindPart(s) /\ FacesPart(s, d, H) /\ KeysPart(s, d) /\ Shaped(s)
    BY DEF Fair
  <1>2. /\ t.jobs = s.jobs /\ t.done = s.done /\ t.timers = s.timers /\ t.faces = s.faces
        /\ \A v \in Views \ {"status"} : t[v] = s[v]
    BY FieldNames DEF Views
  <1>3. Shaped(t)
    BY <1>1, <1>2 DEF Shaped
  <1>4. Moves(s, t, {"status", "threads"}, {})
    BY <1>2, <1>3 DEF Moves
  <1>5. NotesPart(t, H) /\ LogPart(t) /\ AppsPart(t)
    BY <1>1, <1>4, Kept
  <1>6. BookPart(t, d) /\ SearchPart(t, d) /\ FindPart(t) /\ FacesPart(t, d, H) /\ KeysPart(t, d)
    BY <1>1, <1>4, Kept
  <1>7. StatusPart(t, d)
    BY <1>1, <1>2 DEF StatusPart
  <1>8. QED
    BY <1>2, <1>3, <1>5, <1>6, <1>7 DEF Fair

LEMMA GoodStarted ==
    ASSUME NoneIsNew, NEW s, NEW d, Good(s, d, DOMAIN left), NEW j, NEW r, j.do = "start",
           StatusAnswer(d, j, r)
    PROVE  Good(Started(s, r), d, DOMAIN left)
  <1> DEFINE H == DOMAIN left
             a == [s EXCEPT !.status = r.value]
             b == StatusChanged(a)
             c == SyncAvatars(b)
             e == Refresh(MaybeUnlockStorage(c))
             F1(t) == Then(SyncAvatars(t), LAMBDA u :
                      Then(Refresh(MaybeUnlockStorage(u)), LAMBDA v :
                           IF Has("tether") THEN Start(v, "tether") ELSE v))
             F2(u) == Then(Refresh(MaybeUnlockStorage(u)), LAMBDA v :
                           IF Has("tether") THEN Start(v, "tether") ELSE v)
             F3(v) == IF Has("tether") THEN Start(v, "tether") ELSE v
  <1>0. Shaped(s) /\ Fair(s, d, H)
    BY DEF Good, Fair
  <1>1. Started(s, r) = IF ~r.ok THEN s ELSE F3(e)
    <2>1. Started(s, r) = IF ~r.ok THEN s ELSE Then(b, F1)
      BY DEF Started
    <2> HIDE DEF b
    <2>2. Then(b, F1) = F1(b)
      <3> HIDE DEF F1
      <3>1. QED
        BY DEF Then
    <2>3. F1(b) = Then(c, F2)
      OBVIOUS
    <2> HIDE DEF c
    <2>4. Then(c, F2) = F2(c)
      <3> HIDE DEF F2
      <3>1. QED
        BY DEF Then
    <2>5. F2(c) = Then(e, F3)
      OBVIOUS
    <2> HIDE DEF e
    <2>6. Then(e, F3) = F3(e)
      <3> HIDE DEF F3
      <3>1. QED
        BY DEF Then
    <2> HIDE DEF F1, F2, F3
    <2>7. QED
      BY <2>1, <2>2, <2>3, <2>4, <2>5, <2>6
  <1>2. ASSUME r.ok PROVE Good(F3(e), d, H)
    <2>1. /\ IsRec(a, Fields) /\ a.status = r.value
          /\ \A f \in Fields \ {"status"} : a[f] = s[f]
      BY <1>0, FieldNames DEF Shaped, IsRec
    <2>2. IsRec(r.value, Parts["status"]) /\ Known(r.value, d)
      BY <1>2 DEF StatusAnswer
    <2> HIDE DEF a
    <2>3. Fair(a, d, H)
      BY <1>0, <2>1, <2>2, FairStatus
    <2>4. Fair(b, d, H) /\ NotesLink(b, H)
      BY <2>3, FairStatusChanged
    <2> HIDE DEF b
    <2>5. Good(c, d, H)
      BY <2>4, GoodSyncAvatars
    <2> HIDE DEF c
    <2>6. Good(e, d, H)
      BY <2>5, GoodUnlock, GoodRefresh
    <2> HIDE DEF e
    <2>7. QED
      BY <2>6, GoodTimer DEF Timers
  <1> HIDE DEF F3, e
  <1>3. QED
    BY <1>1, <1>2

LEMMA GoodApplySnapshot ==
    ASSUME NoneIsNew, NEW s, NEW d, Good(s, d, DOMAIN left), NEW j, NEW r, j.do = "snapshot",
           StatusAnswer(d, j, r)
    PROVE  Good(ApplySnapshot(s, r), d, DOMAIN left)
  <1> DEFINE H == DOMAIN left
             a == [s EXCEPT !.status = r.value.st, !.threads = NextThreads(s, r.value.threads)]
             b == StatusChanged(a)
             c == MaybeUnlockStorage(SyncAvatars(b))
             e == IF Has("media") THEN Start(c, "media") ELSE c
             f == IF Has("calls") THEN FollowCalls(e) ELSE e
             g == [f EXCEPT !.refreshing = FALSE]
             F5(x) == Refresh([x EXCEPT !.again = FALSE])
             F4(w) == If(w.again, [w EXCEPT !.refreshing = FALSE], F5)
             F3(v) == Then(If(Has("calls"), v, FollowCalls), F4)
             F2(u) == Then(IF Has("media") THEN Start(u, "media") ELSE u, F3)
             F1(t) == Then(MaybeUnlockStorage(SyncAvatars(t)), F2)
  <1>0. Shaped(s) /\ Fair(s, d, H)
    BY DEF Good, Fair
  <1>1. ApplySnapshot(s, r) = IF f.again THEN F5(g) ELSE g
    <2>1. ApplySnapshot(s, r) = Then(b, F1)
      BY DEF ApplySnapshot
    <2> HIDE DEF b
    <2>2. F1(b) = Then(c, F2) /\ F2(c) = Then(e, F3)
      OBVIOUS
    <2> HIDE DEF c
    <2>3. If(Has("calls"), e, FollowCalls) = f
      <3> HIDE DEF e
      <3>1. QED
        BY DEF If, Then
    <2>4. F3(e) = Then(f, F4)
      <3> HIDE DEF e, f, F4
      <3>1. QED
        BY <2>3
    <2> HIDE DEF e, f
    <2>5. F4(f) = IF f.again THEN Then(g, F5) ELSE g
      BY DEF If
    <2> HIDE DEF g
    <2>6. Then(g, F5) = F5(g)
      <3> HIDE DEF F5
      <3>1. QED
        BY DEF Then
    <2>7. Then(b, F1) = F1(b) /\ Then(c, F2) = F2(c) /\ Then(e, F3) = F3(e) /\ Then(f, F4) = F4(f)
      <3> HIDE DEF F1, F2, F3, F4
      <3>1. QED
        BY DEF Then
    <2> HIDE DEF F1, F2, F3, F4, F5
    <2>8. QED
      BY <2>1, <2>2, <2>4, <2>5, <2>6, <2>7
  <1>2. /\ IsRec(a, Fields) /\ a.status = r.value.st
        /\ \A h \in Fields \ {"status", "threads"} : a[h] = s[h]
    BY <1>0, FieldNames DEF Shaped, IsRec
  <1>3. IsRec(r.value.st, Parts["status"]) /\ Known(r.value.st, d)
    BY DEF StatusAnswer
  <1> HIDE DEF a
  <1>4. Fair(a, d, H)
    BY <1>0, <1>2, <1>3, FairStatus
  <1>5. Fair(b, d, H) /\ NotesLink(b, H)
    BY <1>4, FairStatusChanged
  <1> HIDE DEF b
  <1>6. Good(c, d, H)
    BY <1>5, GoodSyncAvatars, GoodUnlock
  <1> HIDE DEF c
  <1>7. Good(e, d, H)
    BY <1>6, GoodTimer DEF Timers
  <1> HIDE DEF e
  <1>8. Good(f, d, H)
    BY <1>7, GoodFollowCalls
  <1> HIDE DEF f
  <1>9. Good(g, d, H)
    <2>1. Shaped(f)
      BY <1>8 DEF Good, Fair
    <2>2. IsRec(g, Fields) /\ \A h \in Fields \ {"refreshing"} : g[h] = f[h]
      BY <2>1, FieldNames DEF Shaped, IsRec
    <2> HIDE DEF g
    <2>3. QED
      BY <1>8, <2>2, GoodPlain DEF Plain
  <1> HIDE DEF g
  <1>10. Good(F5(g), d, H)
    <2> DEFINE h == [g EXCEPT !.again = FALSE]
    <2>1. Shaped(g)
      BY <1>9 DEF Good, Fair
    <2>2. IsRec(h, Fields) /\ \A k \in Fields \ {"again"} : h[k] = g[k]
      BY <2>1, FieldNames DEF Shaped, IsRec
    <2> HIDE DEF h
    <2>3. Good(h, d, H)
      BY <1>9, <2>2, GoodPlain DEF Plain
    <2>4. QED
      BY <2>3, GoodRefresh DEF h
  <1> HIDE DEF F5
  <1>11. QED
    BY <1>1, <1>9, <1>10

LEMMA GoodPreferenceSaved ==
    ASSUME NoneIsNew, NEW s, NEW d, Good(s, d, DOMAIN left), NEW j, NEW r, j.do = "save",
           StatusAnswer(d, j, r)
    PROVE  Good(PreferenceSaved(s, r), d, DOMAIN left)
  <1> DEFINE H == DOMAIN left
             a == [s EXCEPT !.status.on = r.value]
             b == StatusChanged(a)
             c == IF Has("media") THEN RefreshNowPlaying(b) ELSE b
             e == IF Has("calls") THEN RefreshCalls(c) ELSE c
             F2(u) == If(Has("calls"), u, RefreshCalls)
             F1(t) == Then(If(Has("media"), t, RefreshNowPlaying), F2)
  <1>0. Shaped(s) /\ Fair(s, d, H) /\ Known(s.status, d) /\ FacesLink(s, H)
    BY DEF Good, Fair, StatusPart
  <1>1. PreferenceSaved(s, r) = IF ~r.ok THEN s ELSE e
    <2>1. PreferenceSaved(s, r) = IF ~r.ok THEN s ELSE Then(b, F1)
      BY DEF PreferenceSaved
    <2> HIDE DEF b
    <2>2. If(Has("media"), b, RefreshNowPlaying) = c
      BY DEF If, Then
    <2>3. F1(b) = Then(c, F2)
      <3> HIDE DEF c, F2
      <3>1. QED
        BY <2>2
    <2> HIDE DEF c
    <2>4. F2(c) = e
      BY DEF If, Then
    <2>5. Then(b, F1) = F1(b) /\ Then(c, F2) = F2(c)
      <3> HIDE DEF F1, F2
      <3>1. QED
        BY DEF Then
    <2> HIDE DEF F1, F2, e
    <2>6. QED
      BY <2>1, <2>3, <2>4, <2>5
  <1>2. ASSUME r.ok PROVE Good(e, d, H)
    <2>1. IsRec(a, Fields) /\ \A f \in Fields \ {"status"} : a[f] = s[f]
      BY <1>0, FieldNames DEF Shaped, IsRec
    <2>2. /\ IsRec(a.status, Parts["status"]) /\ a.status.on = r.value
          /\ a.status.up = s.status.up /\ a.status.open = s.status.open
          /\ a.status.photos = s.status.photos /\ a.status.epoch = s.status.epoch
          /\ a.status.rev = s.status.rev
      BY <1>0, FieldNames, PartNames DEF Shaped, IsRec, Views
    <2>3. Known(a.status, d)
      BY <1>0, <1>2, <2>2 DEF Known, StatusAnswer
    <2> HIDE DEF a
    <2>4. Fair(a, d, H) /\ a.faces = s.faces
      BY <1>0, <2>1, <2>2, <2>3, FairStatus
    <2>5. Fair(b, d, H) /\ NotesLink(b, H) /\ b.status = a.status /\ b.faces = a.faces
      BY <2>4, FairStatusChanged
    <2> HIDE DEF b
    <2>6. FacesLink(b, H)
      BY <1>0, <2>2, <2>4, <2>5 DEF FacesLink
    <2>7. Good(b, d, H)
      BY <2>5, <2>6 DEF Good
    <2>8. Good(c, d, H)
      BY <2>7, GoodMedia
    <2> HIDE DEF c
    <2>9. QED
      BY <2>8, GoodRefreshCalls
  <1> HIDE DEF e
  <1>3. QED
    BY <1>1, <1>2

LEMMA GoodPhotosSaved ==
    ASSUME NoneIsNew, NEW s, NEW d, Good(s, d, DOMAIN left), NEW j, NEW r, j.do = "photos",
           StatusAnswer(d, j, r)
    PROVE  Good(PhotosSaved(s, r), d, DOMAIN left)
  <1> DEFINE H == DOMAIN left
             a == [s EXCEPT !.status.photos = r.value.photos, !.status.rev = r.value.rev]
             b == StatusChanged(a)
  <1>0. Shaped(s) /\ Fair(s, d, H) /\ Known(s.status, d)
    BY DEF Good, Fair, StatusPart
  <1>1. PhotosSaved(s, r) = IF ~r.ok THEN s ELSE SyncAvatars(b)
    BY DEF PhotosSaved
  <1>2. ASSUME r.ok PROVE Good(SyncAvatars(b), d, H)
    <2>1. IsRec(a, Fields) /\ \A f \in Fields \ {"status"} : a[f] = s[f]
      BY <1>0, FieldNames DEF Shaped, IsRec
    <2>2. /\ IsRec(a.status, Parts["status"]) /\ a.status.on = s.status.on
          /\ a.status.up = s.status.up /\ a.status.open = s.status.open
          /\ a.status.photos = r.value.photos /\ a.status.epoch = s.status.epoch
          /\ a.status.rev = r.value.rev
      BY <1>0, FieldNames, PartNames DEF Shaped, IsRec, Views
    <2>3. Known(a.status, d)
      BY <1>0, <1>2, <2>2 DEF Known, StatusAnswer
    <2> HIDE DEF a
    <2>4. Fair(a, d, H)
      BY <1>0, <2>1, <2>2, <2>3, FairStatus
    <2>5. Fair(b, d, H) /\ NotesLink(b, H)
      BY <2>4, FairStatusChanged
    <2> HIDE DEF b
    <2>6. QED
      BY <2>5, GoodSyncAvatars
  <1> HIDE DEF b
  <1>3. QED
    BY <1>1, <1>2

LEMMA GoodStorageUpdated ==
    ASSUME NoneIsNew, NEW s, NEW d, Good(s, d, DOMAIN left), NEW j, NEW r, j.do = "unlock",
           StatusAnswer(d, j, r)
    PROVE  Good(StorageUpdated(s, r), d, DOMAIN left)
  <1> DEFINE H == DOMAIN left
             a == [s EXCEPT !.status.open = r.value]
             b == StatusChanged(a)
  <1>0. Shaped(s) /\ Fair(s, d, H) /\ Known(s.status, d) /\ FacesLink(s, H)
    BY DEF Good, Fair, StatusPart
  <1>1. StorageUpdated(s, r) = IF ~r.ok THEN s ELSE Refresh(b)
    BY DEF StorageUpdated
  <1>2. ASSUME r.ok PROVE Good(Refresh(b), d, H)
    <2>1. IsRec(a, Fields) /\ \A f \in Fields \ {"status"} : a[f] = s[f]
      BY <1>0, FieldNames DEF Shaped, IsRec
    <2>2. /\ IsRec(a.status, Parts["status"]) /\ a.status.on = s.status.on
          /\ a.status.up = s.status.up /\ a.status.open = r.value
          /\ a.status.photos = s.status.photos /\ a.status.epoch = s.status.epoch
          /\ a.status.rev = s.status.rev
      BY <1>0, FieldNames, PartNames DEF Shaped, IsRec, Views
    <2>3. Known(a.status, d)
      BY <1>0, <1>2, <2>2 DEF Known, StatusAnswer
    <2> HIDE DEF a
    <2>4. Fair(a, d, H) /\ a.faces = s.faces
      BY <1>0, <2>1, <2>2, <2>3, FairStatus
    <2>5. Fair(b, d, H) /\ NotesLink(b, H) /\ b.status = a.status /\ b.faces = a.faces
      BY <2>4, FairStatusChanged
    <2> HIDE DEF b
    <2>6. FacesLink(b, H)
      BY <1>0, <2>2, <2>4, <2>5 DEF FacesLink
    <2>7. Good(b, d, H)
      BY <2>5, <2>6 DEF Good
    <2>8. QED
      BY <2>7, GoodRefresh
  <1> HIDE DEF b
  <1>3. QED
    BY <1>1, <1>2

-----------------------------------------------------------------------------
(***************************************************************************)
(* The GUI thread.                                                         *)
(***************************************************************************)

\* An answer leaves the queue: what it may be is known.
Fit(s, d, H, j, r) ==
    /\ j.do \in Kinds
    /\ StatusAnswer(d, j, r)
    /\ \E p, q : Pages(s, p, q) /\ PageJob(s.book, p, q, j) /\ PageAnswer(s.book, j, r)
    /\ CardJob(s.book, j) /\ CardAnswer(s.book, j, r)
    /\ SearchAnswer(s.search, j, r)
    /\ FindJob(s.find, j)
    /\ FaceJob(s.faces, H, j) /\ FaceAnswer(s.faces, j, r)

LEMMA Pops ==
    ASSUME NEW s, NEW d, NEW H, Good(s, d, H), s.done # <<>>
    PROVE  /\ Good([s EXCEPT !.done = Tail(@)], d, H)
           /\ Fit([s EXCEPT !.done = Tail(@)], d, H, Head(s.done).job, Head(s.done).answer)
  <1> DEFINE q0 == Tail(s.done)
             t == [s EXCEPT !.done = q0]
             e == Head(s.done)
  <1>0. Shaped(s) /\ IsSeq(s.done)
    BY DEF Good, Fair, Shaped
  <1>1. /\ StatusPart(s, d) /\ NotesPart(s, H) /\ LogPart(s) /\ AppsPart(s) /\ BookPart(s, d)
        /\ SearchPart(s, d) /\ FindPart(s) /\ FacesPart(s, d, H) /\ KeysPart(s, d)
        /\ NotesLink(s, H) /\ FacesLink(s, H)
    BY DEF Good, Fair
  <1>2. /\ IsSeq(q0) /\ \A i \in DOMAIN q0 : \E k \in DOMAIN s.done : q0[i] = s.done[k]
        /\ \E k \in DOMAIN s.done : e = s.done[k]
    BY <1>0, TailSeq
  <1> HIDE DEF q0, e
  <1>3. IsRec(t, Fields) /\ t.done = q0 /\ \A f \in Fields \ {"done"} : t[f] = s[f]
    BY <1>0, FieldNames DEF Shaped, IsRec
  <1> HIDE DEF t
  <1>4. /\ t.jobs = s.jobs /\ t.timers = s.timers /\ \A v \in Views : t[v] = s[v]
    BY <1>3, FieldNames DEF Views
  <1>5. /\ t.status = s.status /\ t.notes = s.notes /\ t.log = s.log /\ t.apps = s.apps
        /\ t.book = s.book /\ t.search = s.search /\ t.find = s.find /\ t.faces = s.faces
        /\ t.keys = s.keys
    BY <1>4 DEF Views
  <1>6. Shaped(t) /\ e.job.do \in Kinds
    BY <1>0, <1>2, <1>3, <1>4 DEF Shaped
  <1>7. StatusPart(t, d) /\ StatusAnswer(d, e.job, e.answer)
    BY <1>1, <1>2, <1>3, <1>4, <1>5 DEF StatusPart
  <1>8. NotesPart(t, H) /\ LogPart(t) /\ AppsPart(t)
    BY <1>1, <1>5 DEF NotesPart, LogPart, AppsPart
  <1>9. /\ SearchPart(t, d) /\ SearchAnswer(t.search, e.job, e.answer)
        /\ FindPart(t) /\ FindJob(t.find, e.job)
    BY <1>1, <1>2, <1>3, <1>4, <1>5 DEF SearchPart, FindPart
  <1>10. FacesPart(t, d, H) /\ FaceJob(t.faces, H, e.job) /\ FaceAnswer(t.faces, e.job, e.answer)
    BY <1>1, <1>2, <1>3, <1>4, <1>5 DEF FacesPart
  <1>11. KeysPart(t, d)
    BY <1>1, <1>4, <1>5 DEF KeysPart, ToneJob
  <1>12. Cards(t) /\ CardJob(t.book, e.job) /\ CardAnswer(t.book, e.job, e.answer)
    BY <1>1, <1>2, <1>3, <1>4, <1>5 DEF BookPart, Cards
  <1>13. \E p, q : Pages(t, p, q) /\ PageJob(t.book, p, q, e.job) /\ PageAnswer(t.book, e.job, e.answer)
    <2>1. PICK p, q : Pages(s, p, q)
      BY <1>1 DEF BookPart
    <2>2. Pages(t, p, q) /\ PageJob(t.book, p, q, e.job) /\ PageAnswer(t.book, e.job, e.answer)
      BY <1>2, <1>3, <1>4, <1>5, <2>1 DEF Pages
    <2>3. QED
      BY <2>2
  <1>14. BookPart(t, d)
    BY <1>1, <1>5, <1>12, <1>13 DEF BookPart
  <1>15. NotesLink(t, H) /\ FacesLink(t, H)
    BY <1>1, <1>5 DEF NotesLink, FacesLink, Available
  <1>16. Good(t, d, H)
    BY <1>6, <1>7, <1>8, <1>9, <1>10, <1>11, <1>14, <1>15 DEF Good, Fair
  <1>17. Fit(t, d, H, e.job, e.answer)
    BY <1>6, <1>7, <1>9, <1>10, <1>12, <1>13 DEF Fit
  <1>18. QED
    BY <1>16, <1>17 DEF t, e, q0

LEMMA GoodCallback ==
    ASSUME NoneIsNew, NEW s, NEW d, Good(s, d, DOMAIN left), NEW j, NEW r, Fit(s, d, DOMAIN left, j, r)
    PROVE  Good(Callback(s, j, r), d, DOMAIN left)
  <1> DEFINE H == DOMAIN left
  <1>1. /\ StatusAnswer(d, j, r) /\ CardJob(s.book, j) /\ CardAnswer(s.book, j, r)
        /\ SearchAnswer(s.search, j, r) /\ FindJob(s.find, j)
        /\ FaceJob(s.faces, H, j) /\ FaceAnswer(s.faces, j, r)
    BY DEF Fit
  <1>2. Good([s EXCEPT !.log.error = @ \/ s.log.watched], d, H)
    <2> DEFINE a == [s EXCEPT !.log.error = @ \/ s.log.watched]
    <2>0. Shaped(s) /\ LogPart(s)
      BY DEF Good, Fair
    <2>1. IsRec(a, Fields) /\ \A f \in Fields \ {"log"} : a[f] = s[f]
      BY <2>0, FieldNames DEF Shaped, IsRec
    <2>2. /\ IsRec(a.log, Parts["log"]) /\ a.log.watched = s.log.watched /\ a.log.rows = s.log.rows
      BY <2>0, FieldNames, PartNames DEF Shaped, IsRec, Views
    <2> HIDE DEF a
    <2>3. Moves(s, a, {"log"}, {}) /\ LogPart(a)
      BY <2>0, <2>1, <2>2, Change, FieldNames DEF Views, LogPart
    <2>4. Good(a, d, H)
      BY <2>3, GoodView
    <2>5. QED
      BY <2>4 DEF a
  <1>3. CASE j.do = "start"
    <2>1. Callback(s, j, r) = Started(s, r)
      BY <1>3 DEF Callback
    <2>2. QED
      BY <1>1, <1>3, <2>1, GoodStarted
  <1>4. CASE j.do = "snapshot"
    <2>1. Callback(s, j, r) = ApplySnapshot(s, r)
      BY <1>4 DEF Callback
    <2>2. QED
      BY <1>1, <1>4, <2>1, GoodApplySnapshot
  <1>5. CASE j.do = "notes"
    <2>1. Callback(s, j, r) = NotesLoaded(s, j, r)
      BY <1>5 DEF Callback
    <2>2. QED
      BY <1>1, <1>5, <2>1, GoodNotesLoaded
  <1>6. CASE j.do = "book"
    <2>1. Callback(s, j, r) = PageLoaded(s, j, r)
      BY <1>6 DEF Callback
    <2>2. PICK p, q : Pages(s, p, q) /\ PageJob(s.book, p, q, j) /\ PageAnswer(s.book, j, r)
      BY DEF Fit
    <2>3. QED
      BY <1>6, <2>1, <2>2, GoodPageLoaded
  <1>7. CASE j.do = "card"
    <2>1. Callback(s, j, r) = CardLoaded(s, j, r)
      BY <1>7 DEF Callback
    <2>2. QED
      BY <1>1, <1>7, <2>1, GoodCardLoaded
  <1>8. CASE j.do = "search"
    <2>1. Callback(s, j, r) = SearchLoaded(s, j, r)
      BY <1>8 DEF Callback
    <2>2. QED
      BY <1>1, <1>8, <2>1, GoodSearchLoaded
  <1>9. CASE j.do = "log"
    <2>1. Callback(s, j, r) = CallHistoryLoaded(s, r)
      BY <1>9 DEF Callback
    <2>2. QED
      BY <1>1, <1>9, <2>1, GoodCallHistoryLoaded
  <1>10. CASE j.do = "apps"
    <2>1. Callback(s, j, r) = NotificationAppsLoaded(s, j, r)
      BY <1>10 DEF Callback
    <2>2. QED
      BY <1>1, <1>10, <2>1, GoodNotificationAppsLoaded
  <1>11. CASE j.do = "face"
    <2>1. Callback(s, j, r) = AvatarLoaded(s, j, r)
      BY <1>11 DEF Callback
    <2>2. QED
      BY <1>1, <1>11, <2>1, GoodAvatarLoaded
  <1>12. CASE j.do = "calls"
    <2>1. Callback(s, j, r) = CallsLoaded(s, r)
      BY <1>12 DEF Callback
    <2>2. QED
      BY <1>1, <1>12, <2>1, GoodCallsLoaded
  <1>13. CASE j.do = "media"
    <2>1. Callback(s, j, r) = [s EXCEPT !.media = r.value]
      BY <1>13 DEF Callback
    <2>2. QED
      BY <1>1, <1>13, <2>1, GoodMedia
  <1>14. CASE j.do = "tether"
    <2>1. Callback(s, j, r) = TetherLoaded(s, r)
      BY <1>14 DEF Callback
    <2>2. QED
      BY <1>1, <1>14, <2>1, GoodTether
  <1>15. CASE j.do = "features"
    <2>1. Callback(s, j, r) = FeaturesLoaded(s, j, r)
      BY <1>15 DEF Callback
    <2>2. QED
      BY <1>1, <1>15, <2>1, GoodFeatures
  <1>16. CASE j.do = "find"
    <2>1. Callback(s, j, r) = ContactsFound(s, j, r)
      BY <1>16 DEF Callback
    <2>2. QED
      BY <1>1, <1>16, <2>1, GoodContactsFound
  <1>17. CASE j.do = "act"
    <2>1. Callback(s, j, r) = (IF r.ok THEN Refresh(s) ELSE s)
      BY <1>17 DEF Callback
    <2>2. QED
      BY <1>1, <1>17, <2>1, GoodRefresh
  <1>18. CASE j.do = "sync"
    <2>1. Callback(s, j, r) = (IF r.ok THEN LoadCallHistory(s) ELSE [s EXCEPT !.log.error = @ \/ s.log.watched])
      BY <1>18 DEF Callback
    <2>2. QED
      BY <1>1, <1>18, <2>1, GoodLoadCallHistory, <1>2
  <1>19. CASE j.do = "pin"
    <2>1. Callback(s, j, r) = NotesRefresh(s)
      BY <1>19 DEF Callback
    <2>2. QED
      BY <1>1, <1>19, <2>1, GoodNotesRefresh
  <1>20. CASE j.do = "mute"
    <2>1. Callback(s, j, r) = AppMuted(s, r)
      BY <1>20 DEF Callback
    <2>2. QED
      BY <1>1, <1>20, <2>1, GoodAppMuted
  <1>21. CASE j.do = "command"
    <2>1. Callback(s, j, r) = TetherAnswered(s, r)
      BY <1>21 DEF Callback
    <2>2. Good(TetherAnswered(s, r), d, H)
      BY GoodTether
    <2>3. QED
      BY <2>1, <2>2
  <1>22. CASE j.do = "tones"
    <2>1. Callback(s, j, r) = TonesSent(s, j, r)
      BY <1>22 DEF Callback
    <2>2. QED
      BY <1>1, <1>22, <2>1, GoodTonesSent
  <1>23. CASE j.do = "hangup"
    <2>1. Callback(s, j, r) = (IF r.ok THEN RefreshCalls(s) ELSE s)
      BY <1>23 DEF Callback
    <2>2. QED
      BY <1>1, <1>23, <2>1, GoodRefreshCalls
  <1>24. CASE j.do = "feature"
    <2>1. Callback(s, j, r) = FeatureSaved(s, j, r)
      BY <1>24 DEF Callback
    <2>2. QED
      BY <1>1, <1>24, <2>1, GoodFeatures
  <1>25. CASE j.do = "save"
    <2>1. Callback(s, j, r) = PreferenceSaved(s, r)
      BY <1>25 DEF Callback
    <2>2. QED
      BY <1>1, <1>25, <2>1, GoodPreferenceSaved
  <1>26. CASE j.do = "photos"
    <2>1. Callback(s, j, r) = PhotosSaved(s, r)
      BY <1>26 DEF Callback
    <2>2. QED
      BY <1>1, <1>26, <2>1, GoodPhotosSaved
  <1>27. CASE j.do = "unlock"
    <2>1. Callback(s, j, r) = StorageUpdated(s, r)
      BY <1>27 DEF Callback
    <2>2. QED
      BY <1>1, <1>27, <2>1, GoodStorageUpdated
  <1>28. QED
    BY <1>3, <1>4, <1>5, <1>6, <1>7, <1>8, <1>9, <1>10, <1>11, <1>12, <1>13, <1>14, <1>15, <1>16, <1>17, <1>18, <1>19, <1>20, <1>21, <1>22, <1>23, <1>24, <1>25, <1>26, <1>27 DEF Fit, Kinds, Reads, Requests

-----------------------------------------------------------------------------
(***************************************************************************)
(* The worker and the daemon.                                              *)
(***************************************************************************)
LEMMA EmittedSeq ==
    ASSUME NEW q, IsSeq(q), NEW v
    PROVE  /\ IsSeq(Emitted(q, v))
           /\ \A i \in DOMAIN Emitted(q, v) : i \in DOMAIN q /\ Emitted(q, v)[i] = [sig |-> q[i], at |-> v]
  <1> DEFINE E == Emitted(q, v)
             T == {E[i] : i \in DOMAIN q}
  <1>1. DOMAIN q = 1 .. Len(q) /\ Len(q) \in Nat
    BY DEF IsSeq
  <1>2. DOMAIN E = DOMAIN q /\ \A i \in DOMAIN q : E[i] = [sig |-> q[i], at |-> v]
    BY DEF Emitted
  <1>3. E = [i \in 1 .. Len(q) |-> E[i]]
    BY <1>1 DEF Emitted
  <1> HIDE DEF E
  <1>4. \A i \in 1 .. Len(q) : E[i] \in T
    BY <1>1
  <1> HIDE DEF T
  <1>5. E \in [1 .. Len(q) -> T]
    BY <1>3, <1>4
  <1>6. E \in Seq(T)
    BY <1>1, <1>5
  <1>7. IsSeq(E)
    BY <1>6 DEF IsSeq
  <1>8. QED
    BY <1>2, <1>7 DEF E

\* What the daemon e has after d.
Later(d, e) ==
    /\ d.st.epoch \in Nat /\ e.st.epoch \in Nat /\ d.st.epoch <= e.st.epoch
    /\ d.st.rev \in Nat /\ e.st.rev \in Nat /\ d.st.rev <= e.st.rev
    /\ d.ver \in Nat /\ e.ver \in Nat /\ d.ver <= e.ver

LEMMA KnownLater ==
    ASSUME NEW d, NEW e, Later(d, e), NEW st, Known(st, d)
    PROVE  Known(st, e)
  BY DEF Later, Known

LEMMA StatusLater ==
    ASSUME NEW d, NEW e, Later(d, e), NEW j, NEW r, StatusAnswer(d, j, r)
    PROVE  StatusAnswer(e, j, r)
  <1>1. \A st : Known(st, d) => Known(st, e)
    BY KnownLater
  <1>2. j.do = "photos" /\ r.ok =>
           /\ r.value.photos \in BOOLEAN
           /\ r.value.photos => r.value.rev \in Nat /\ r.value.rev <= e.st.rev
    BY DEF StatusAnswer, Later
  <1>3. QED
    BY <1>1, <1>2 DEF StatusAnswer

LEMMA BookLater ==
    ASSUME NEW d, NEW e, Later(d, e), NEW b, BookView(b, d)
    PROVE  BookView(b, e)
  BY DEF Later, BookView

\* Nothing but the daemon changes.
LEMMA GoodLater ==
    ASSUME NEW s, NEW d, NEW e, NEW H, Good(s, d, H), Later(d, e), e.got = d.got
    PROVE  Good(s, e, H)
  <1>1. /\ StatusPart(s, d) /\ BookPart(s, d) /\ SearchPart(s, d) /\ FacesPart(s, d, H) /\ KeysPart(s, d)
    BY DEF Good, Fair
  <1>2. StatusPart(s, e)
    BY <1>1, KnownLater, StatusLater DEF StatusPart
  <1>3. BookPart(s, e)
    BY <1>1, BookLater DEF BookPart
  <1>4. SearchPart(s, e)
    <2>1. SearchView(s.search, e)
      BY <1>1 DEF SearchPart, SearchView, Later
    <2>2. QED
      BY <1>1, <2>1 DEF SearchPart
  <1>5. FacesPart(s, e, H)
    <2>1. FacesView(s.faces, e, H)
      BY <1>1 DEF FacesPart, FacesView, Later
    <2>2. QED
      BY <1>1, <2>1 DEF FacesPart
  <1>6. KeysPart(s, e)
    BY <1>1 DEF KeysPart, ToneJob
  <1>7. QED
    BY <1>2, <1>3, <1>4, <1>5, <1>6 DEF Good, Fair

\* The answers the daemon d gives.
Answers(d, j, r) ==
    /\ StatusAnswer(d, j, r)
    /\ j.do = "search" /\ r.ok => r.value = d.ver
    /\ j.do = "book" /\ r.ok =>
           /\ IsRec(r.value, {"page", "query", "epoch", "photo"})
           /\ r.value.epoch = d.st.epoch /\ r.value.query = j.query
    /\ j.do = "card" /\ r.ok /\ r.value # None => r.value.epoch = d.st.epoch
    /\ j.do = "face" /\ r.ok /\ r.value # None => r.value = d.st.rev

Receives(d, e, j) ==
    \/ e.got = d.got
    \/ j.do = "tones" /\ e.got = Append(d.got, [call |-> j.call, tones |-> j.tones])

\* The tones at the front of the queue were pressed before all others that wait.
LEMMA TonesArrive ==
    ASSUME NEW s, NEW t, NEW d, NEW e, NEW j, KeysPart(s, d), IsSeq(d.got),
           Receives(d, e, j), t.keys = s.keys, IsSeq(s.jobs), s.jobs # <<>>, j = Head(s.jobs),
           t.jobs = Tail(s.jobs)
    PROVE  KeysPart(t, e)
  <1>1. /\ \A i \in DOMAIN t.jobs : i \in Nat /\ i + 1 \in DOMAIN s.jobs /\ t.jobs[i] = s.jobs[i + 1]
        /\ 1 \in DOMAIN s.jobs /\ j = s.jobs[1] /\ \A i \in DOMAIN t.jobs : i + 1 > 1
        /\ \A i \in DOMAIN s.jobs : i \in Nat
    BY TailSeq
  <1>2. ToneJob(s, d, j)
    BY <1>1 DEF KeysPart
  <1>3. \A i \in DOMAIN t.jobs :
            ToneJob(s, d, t.jobs[i]) /\
            (j.do = "tones" /\ t.jobs[i].do = "tones" => Before(j.tones, t.jobs[i].tones))
    BY <1>1 DEF KeysPart
  <1>4. \A i, m \in DOMAIN t.jobs :
            i < m /\ t.jobs[i].do = "tones" /\ t.jobs[m].do = "tones" =>
                Before(t.jobs[i].tones, t.jobs[m].tones)
    <2> SUFFICES ASSUME NEW i \in DOMAIN t.jobs, NEW m \in DOMAIN t.jobs, i < m,
                        t.jobs[i].do = "tones", t.jobs[m].do = "tones"
                 PROVE  Before(t.jobs[i].tones, t.jobs[m].tones)
      OBVIOUS
    <2>1. /\ i + 1 \in DOMAIN s.jobs /\ t.jobs[i] = s.jobs[i + 1]
          /\ m + 1 \in DOMAIN s.jobs /\ t.jobs[m] = s.jobs[m + 1]
          /\ i + 1 < m + 1
      BY <1>1
    <2>2. QED
      BY <2>1 DEF KeysPart
  <1>5. CASE e.got = d.got
    BY <1>3, <1>4, <1>5 DEF KeysPart, ToneJob
  <1>6. CASE j.do = "tones" /\ e.got = Append(d.got, [call |-> j.call, tones |-> j.tones])
    <2> DEFINE x == [call |-> j.call, tones |-> j.tones]
    <2>1. x.call = j.call /\ x.tones = j.tones
      OBVIOUS
    <2> HIDE DEF x
    <2>2. /\ \A g \in DOMAIN e.got :
                 \/ g \in DOMAIN d.got /\ e.got[g] = d.got[g]
                 \/ g = Len(d.got) + 1 /\ e.got[g] = x
          /\ \A g \in DOMAIN d.got : g \in Nat /\ g <= Len(d.got)
          /\ Len(d.got) \in Nat
      BY <1>6, AppendSeq DEF x
    <2>3. /\ AsPressed(s.keys.pressed, j.call, j.tones) /\ Before(j.tones, s.keys.pending)
          /\ \A g \in DOMAIN d.got : Before(d.got[g].tones, j.tones)
      BY <1>2, <1>6 DEF ToneJob
    <2>4. \A g \in DOMAIN e.got :
              AsPressed(s.keys.pressed, e.got[g].call, e.got[g].tones) /\ Before(e.got[g].tones, s.keys.pending)
      BY <2>1, <2>2, <2>3 DEF KeysPart
    <2>5. \A g, h \in DOMAIN e.got : g < h => Before(e.got[g].tones, e.got[h].tones)
      <3> SUFFICES ASSUME NEW g \in DOMAIN e.got, NEW h \in DOMAIN e.got, g < h
                   PROVE  Before(e.got[g].tones, e.got[h].tones)
        OBVIOUS
      <3>1. g \in DOMAIN d.got /\ e.got[g] = d.got[g]
        BY <2>2
      <3>2. CASE h \in DOMAIN d.got /\ e.got[h] = d.got[h]
        BY <3>1, <3>2 DEF KeysPart
      <3>3. CASE e.got[h] = x
        BY <2>1, <2>3, <3>1, <3>3
      <3>4. QED
        BY <2>2, <3>2, <3>3
    <2>6. \A i \in DOMAIN t.jobs : ToneJob(t, e, t.jobs[i])
      <3> SUFFICES ASSUME NEW i \in DOMAIN t.jobs, t.jobs[i].do = "tones"
                   PROVE  /\ AsPressed(t.keys.pressed, t.jobs[i].call, t.jobs[i].tones)
                          /\ Before(t.jobs[i].tones, t.keys.pending)
                          /\ \A g \in DOMAIN e.got : Before(e.got[g].tones, t.jobs[i].tones)
        BY DEF ToneJob
      <3>1. ToneJob(s, d, t.jobs[i]) /\ Before(j.tones, t.jobs[i].tones)
        BY <1>3, <1>6
      <3>2. QED
        BY <2>1, <2>2, <3>1 DEF ToneJob
    <2>7. QED
      BY <1>4, <2>4, <2>5, <2>6 DEF KeysPart
  <1>7. QED
    BY <1>5, <1>6 DEF Receives

\* A job is done, and its answer is fit for the view that asked.
LEMMA GoodAnswered ==
    ASSUME NEW s, NEW d, NEW e, NEW H, Good(s, d, H), Daemon(d), Later(d, e), s.jobs # <<>>,
           NEW r, Answers(e, Head(s.jobs), r), Receives(d, e, Head(s.jobs))
    PROVE  Good([s EXCEPT !.jobs = Tail(@), !.done = Append(@, [job |-> Head(s.jobs), answer |-> r])], e, H)
  <1> DEFINE j == Head(s.jobs)
             x == [job |-> j, answer |-> r]
             q0 == Tail(s.jobs)
             q1 == Append(s.done, x)
             t == [s EXCEPT !.jobs = q0, !.done = q1]
  <1>0. Shaped(s) /\ IsSeq(s.done) /\ IsSeq(s.jobs)
    BY DEF Good, Fair, Shaped
  <1>1. /\ StatusPart(s, d) /\ NotesPart(s, H) /\ LogPart(s) /\ AppsPart(s) /\ BookPart(s, d)
        /\ SearchPart(s, d) /\ FindPart(s) /\ FacesPart(s, d, H) /\ KeysPart(s, d)
        /\ NotesLink(s, H) /\ FacesLink(s, H)
    BY DEF Good, Fair
  <1>2. /\ IsSeq(q0) /\ \A i \in DOMAIN q0 : \E k \in DOMAIN s.jobs : q0[i] = s.jobs[k]
        /\ \E k \in DOMAIN s.jobs : j = s.jobs[k]
    BY <1>0, TailSeq
  <1>3. x.job = j /\ x.answer = r
    OBVIOUS
  <1>4. /\ IsSeq(q1)
        /\ \A i \in DOMAIN q1 : (\E k \in DOMAIN s.done : q1[i] = s.done[k]) \/ q1[i] = x
    <2> HIDE DEF x
    <2>1. QED
      BY <1>0, AppendSeq
  <1> HIDE DEF j, x, q0, q1
  <1>5. /\ IsRec(t, Fields) /\ t.jobs = q0 /\ t.done = q1
        /\ \A f \in Fields \ {"jobs", "done"} : t[f] = s[f]
    BY <1>0, FieldNames DEF Shaped, IsRec
  <1> HIDE DEF t
  <1>6. t.timers = s.timers /\ \A v \in Views : t[v] = s[v]
    BY <1>5, FieldNames DEF Views
  <1>7. /\ t.status = s.status /\ t.notes = s.notes /\ t.log = s.log /\ t.apps = s.apps
        /\ t.book = s.book /\ t.search = s.search /\ t.find = s.find /\ t.faces = s.faces
        /\ t.keys = s.keys
    BY <1>6 DEF Views
  <1>8. /\ \A i \in DOMAIN t.jobs : \E k \in DOMAIN s.jobs : t.jobs[i] = s.jobs[k]
        /\ \A i \in DOMAIN t.done :
               \/ \E k \in DOMAIN s.done : t.done[i] = s.done[k]
               \/ t.done[i].job = j /\ t.done[i].answer = r
    BY <1>2, <1>3, <1>4, <1>5
  <1>9. Shaped(t)
    BY <1>0, <1>2, <1>4, <1>5, <1>6, <1>8 DEF Shaped
  <1>10. Answers(e, j, r) /\ StatusAnswer(e, j, r)
    BY DEF Answers, j
  <1>11. StatusPart(t, e)
    <2>1. Known(t.status, e)
      BY <1>1, <1>7, KnownLater DEF StatusPart
    <2>2. \A i \in DOMAIN t.jobs : StatusJob(t.jobs[i])
      BY <1>1, <1>8 DEF StatusPart
    <2>3. \A i \in DOMAIN s.done : StatusAnswer(e, s.done[i].job, s.done[i].answer)
      BY <1>1, StatusLater DEF StatusPart
    <2>4. \A i \in DOMAIN t.done : StatusAnswer(e, t.done[i].job, t.done[i].answer)
      BY <1>8, <1>10, <2>3
    <2>5. QED
      BY <2>1, <2>2, <2>4 DEF StatusPart
  <1>12. NotesPart(t, H) /\ LogPart(t) /\ AppsPart(t)
    BY <1>1, <1>7 DEF NotesPart, LogPart, AppsPart
  <1>13. SearchPart(t, e)
    <2>1. SearchView(t.search, e)
      BY <1>1, <1>7 DEF SearchPart, SearchView, Later
    <2>2. SearchJob(t.search, j) /\ SearchAnswer(t.search, j, r)
      <3>1. s.search.since \in Nat /\ s.search.since <= e.ver /\ e.ver \in Nat
        BY <1>1 DEF SearchPart, SearchView, Later
      <3>2. QED
        BY <1>1, <1>2, <1>7, <1>10, <3>1 DEF SearchPart, SearchAnswer, Answers
    <2>3. QED
      BY <1>1, <1>7, <1>8, <2>1, <2>2 DEF SearchPart
  <1>14. FindPart(t)
    <2>1. FindJob(t.find, j)
      BY <1>1, <1>2, <1>7 DEF FindPart
    <2>2. QED
      BY <1>1, <1>7, <1>8, <2>1 DEF FindPart
  <1>15. FacesPart(t, e, H)
    <2>1. FacesView(t.faces, e, H)
      BY <1>1, <1>7 DEF FacesPart, FacesView, Later
    <2>2. FaceJob(t.faces, H, j)
      BY <1>1, <1>2, <1>7 DEF FacesPart
    <2>3. FaceAnswer(t.faces, j, r)
      BY <1>10, <2>1, <2>2 DEF FacesView, FaceJob, FaceAnswer, Answers, Later
    <2>4. QED
      BY <1>1, <1>7, <1>8, <2>1, <2>2, <2>3 DEF FacesPart
  <1>16. KeysPart(t, e)
    BY <1>0, <1>1, <1>5, <1>7, TonesArrive DEF q0, j, Daemon
  <1>17. BookView(t.book, e)
    BY <1>1, <1>7, BookLater DEF BookPart
  <1>18. Cards(t)
    <2>1. CardJob(t.book, j)
      BY <1>1, <1>2, <1>7 DEF BookPart, Cards
    <2>2. CardAnswer(t.book, j, r)
      BY <1>10, <1>17, <2>1 DEF CardAnswer, CardJob, Answers, Later, BookView
    <2>3. QED
      BY <1>1, <1>7, <1>8, <2>1, <2>2 DEF BookPart, Cards
  <1>19. \E p, q : Pages(t, p, q)
    <2>1. PICK p, q : Pages(s, p, q)
      BY <1>1 DEF BookPart
    <2>2. PageJob(t.book, p, q, j)
      BY <1>2, <1>7, <2>1 DEF Pages
    <2>3. PageAnswer(t.book, j, r)
      BY <1>10, <1>17, <2>2 DEF PageAnswer, PageJob, Answers, Later, BookView
    <2>4. Pages(t, p, q)
      BY <1>7, <1>8, <2>1, <2>2, <2>3 DEF Pages
    <2>5. QED
      BY <2>4
  <1>20. BookPart(t, e)
    BY <1>17, <1>18, <1>19 DEF BookPart
  <1>21. NotesLink(t, H) /\ FacesLink(t, H)
    BY <1>1, <1>7 DEF NotesLink, FacesLink, Available
  <1>22. Good(t, e, H)
    BY <1>9, <1>11, <1>12, <1>13, <1>14, <1>15, <1>16, <1>20, <1>21 DEF Good, Fair
  <1>23. QED
    BY <1>22 DEF t, q0, q1, x, j

Names(q) == IsSeq(q) /\ \A i \in DOMAIN q : q[i] \in Signals

LEMMA NamesOf ==
    /\ Names(<<>>)
    /\ \A x \in Signals : Names(<<x>>)
    /\ Names(<<"status", "notes">>)
  <1>1. <<>> \in Seq(Signals)
    OBVIOUS
  <1>2. \A x \in Signals : <<x>> \in Seq(Signals)
    OBVIOUS
  <1>3. <<"status", "notes">> \in Seq(Signals)
    BY DEF Signals
  <1>4. \A q \in Seq(Signals) : Names(q)
    BY DEF Names, IsSeq
  <1>5. QED
    BY <1>1, <1>2, <1>3, <1>4

LEMMA SentMore ==
    ASSUME NEW q, NEW d, NEW e, NEW names, Sent(q, d), Names(names), Later(d, e)
    PROVE  Sent(q \o Emitted(names, e.ver), e)
  <1> DEFINE p == Emitted(names, e.ver)
  <1>1. IsSeq(p) /\ \A i \in DOMAIN p : i \in DOMAIN names /\ p[i] = [sig |-> names[i], at |-> e.ver]
    BY EmittedSeq DEF Names
  <1> HIDE DEF p
  <1>2. \A i \in DOMAIN p : p[i].sig \in Signals /\ p[i].at = e.ver
    BY <1>1 DEF Names
  <1>3. IsSeq(q) /\ \A i \in DOMAIN q : q[i].sig \in Signals /\ q[i].at \in Nat /\ q[i].at <= e.ver
    BY DEF Sent, Later
  <1>4. PICK c : c = q \o p
    OBVIOUS
  <1>5. /\ IsSeq(c)
        /\ \A i \in DOMAIN c : (\E k \in DOMAIN q : c[i] = q[k]) \/ (\E k \in DOMAIN p : c[i] = p[k])
    <2>1. PICK S, T : q \in Seq(S) /\ p \in Seq(T)
      BY <1>1, <1>3 DEF IsSeq
    <2>2. q \in Seq(S \cup T) /\ p \in Seq(S \cup T)
      BY <2>1
    <2>3. c \in Seq(S \cup T) /\ Len(c) = Len(q) + Len(p)
      BY <1>4, <2>2
    <2>4. IsSeq(c)
      BY <2>3 DEF IsSeq
    <2>5. \A i \in DOMAIN c :
              \/ i \in DOMAIN q /\ c[i] = q[i]
              \/ i - Len(q) \in DOMAIN p /\ c[i] = p[i - Len(q)]
      BY <1>4, <2>2, <2>3
    <2>6. QED
      BY <2>4, <2>5
  <1>6. Sent(c, e)
    BY <1>2, <1>3, <1>5 DEF Sent, Later
  <1>7. QED
    BY <1>4, <1>6 DEF p

\* A change of the daemon.
Follows(d, e, j, names, r) ==
    Daemon(e) /\ Later(d, e) /\ Names(names) /\ Answers(e, j, r) /\ Receives(d, e, j)

LEMMA StatusOf ==
    ASSUME NEW d, Daemon(d)
    PROVE  LET st == Status(d)
           IN  /\ IsRec(st, Parts["status"]) /\ Known(st, d) /\ st.epoch = d.st.epoch
               /\ st.photos = d.st.photos /\ st.rev = IF d.st.photos THEN d.st.rev ELSE None
  <1> DEFINE st == Status(d)
  <1>1. /\ IsRec(st, Parts["status"]) /\ st.up = d.st.up /\ st.on = d.st.on /\ st.open = d.st.open
        /\ st.epoch = d.st.epoch /\ st.photos = d.st.photos
        /\ st.rev = IF d.st.photos THEN d.st.rev ELSE None
    BY PartNames DEF Status, Daemon, IsRec
  <1> HIDE DEF st
  <1>2. Known(st, d)
    BY <1>1 DEF Daemon, Known
  <1>3. QED
    BY <1>1, <1>2 DEF st

LEMMA Reading ==
    ASSUME Daemon(dm), NEW j, j.do \in Reads
    PROVE  Follows(dm, dm, j, <<>>, Answer(j))
  <1> DEFINE st == Status(dm)
             r == Answer(j)
  <1>1. /\ IsRec(st, Parts["status"]) /\ Known(st, dm) /\ st.epoch = dm.st.epoch
        /\ st.photos = dm.st.photos /\ st.rev = IF dm.st.photos THEN dm.st.rev ELSE None
    BY StatusOf
  <1>2. /\ j.do = "start" => r.value = st
        /\ j.do = "snapshot" => r.value.st = st
        /\ j.do = "search" => r.value = dm.ver
        /\ j.do = "book" =>
               r.value = [page |-> j.page, query |-> j.query, epoch |-> st.epoch, photo |-> st.photos]
    <2> HIDE DEF st
    <2>1. j.do = "start" => r.value = st
      BY DEF Answer, Ok, st
    <2>2. j.do = "snapshot" => r.value.st = st
      BY DEF Answer, Snapshot, Ok, st
    <2>3. j.do = "search" => r.value = dm.ver
      BY DEF Answer, Ok
    <2>4. j.do = "book" =>
               r.value = [page |-> j.page, query |-> j.query, epoch |-> st.epoch, photo |-> st.photos]
      BY DEF Answer, Ok, st
    <2>5. QED
      BY <2>1, <2>2, <2>3, <2>4
  <1>3. j.do = "card" =>
            r.value \in {None, [epoch |-> st.epoch, photo |-> st.photos]}
    BY DEF Answer, Ok
  <1>4. j.do = "face" => r.value \in {None, st.rev} /\ (r.value = None \/ st.photos)
    BY DEF Answer, Ok
  <1> HIDE DEF st, r
  <1>5. StatusAnswer(dm, j, r)
    BY <1>1, <1>2 DEF StatusAnswer, Reads
  <1>6. j.do = "book" =>
            /\ IsRec(r.value, {"page", "query", "epoch", "photo"})
            /\ r.value.epoch = dm.st.epoch /\ r.value.query = j.query
    BY <1>1, <1>2 DEF IsRec
  <1>7. j.do = "card" /\ r.value # None => r.value.epoch = dm.st.epoch
    BY <1>1, <1>3
  <1>8. j.do = "face" /\ r.value # None => r.value = dm.st.rev
    BY <1>1, <1>4
  <1>9. Answers(dm, j, r)
    BY <1>2, <1>5, <1>6, <1>7, <1>8 DEF Answers
  <1>10. Later(dm, dm) /\ Receives(dm, dm, j)
    BY DEF Later, Daemon, Receives
  <1>11. QED
    BY <1>9, <1>10, NamesOf DEF Follows, r

LEMMA ReadingFails ==
    ASSUME Daemon(dm), NEW j, NEW r,
           \/ j.do \in Reads /\ r \in Errors(j)
           \/ j.do = "search" /\ r = Busy
           \/ j.do \in Requests /\ r = Failed
    PROVE  Follows(dm, dm, j, <<>>, r)
  <1>1. Later(dm, dm) /\ Receives(dm, dm, j)
    BY DEF Later, Daemon, Receives
  <1>2. \/ r.ok = FALSE /\ j.do # "snapshot"
        \/ r.value.st \in {Unavailable, Status(dm)} /\ j.do = "snapshot"
    BY DEF Errors, Snapshot, Busy, Failed, Ok, Requests
  <1>3. /\ IsRec(Unavailable, Parts["status"]) /\ Known(Unavailable, dm)
        /\ IsRec(Status(dm), Parts["status"]) /\ Known(Status(dm), dm)
    BY PartNames DEF Unavailable, Status, IsRec, Known, Daemon
  <1>4. StatusAnswer(dm, j, r)
    BY <1>2, <1>3 DEF StatusAnswer
  <1>5. Answers(dm, j, r)
    BY <1>2, <1>4 DEF Answers
  <1>6. QED
    BY <1>1, <1>5, NamesOf DEF Follows

\* The fields of the daemon that a request changes.
LEMMA DaemonChange ==
    ASSUME NEW d, Daemon(d), NEW e, IsRec(e, {"st", "ver", "call", "got", "stored"}),
           IsRec(e.st, Parts["status"]), e.st.up = d.st.up,
           e.st.on \in BOOLEAN, e.st.open \in BOOLEAN, e.st.photos \in BOOLEAN,
           e.st.epoch \in {d.st.epoch, d.st.epoch + 1}, e.st.rev \in {d.st.rev, d.st.rev + 1},
           e.ver \in {d.ver, d.ver + 1}, IsSeq(e.got)
    PROVE  Daemon(e) /\ Later(d, e)
  BY DEF Daemon, Later, Known

LEMMA DaemonSteps ==
    ASSUME NEW d, Daemon(d)
    PROVE  /\ LET e == [d EXCEPT !.ver = @ + 1]
              IN  Daemon(e) /\ Later(d, e) /\ e.got = d.got
           /\ \A c : LET e == [d EXCEPT !.call = c]
                     IN  Daemon(e) /\ Later(d, e) /\ e.got = d.got
           /\ \A x \in BOOLEAN : LET e == [d EXCEPT !.st.on = x]
                                 IN  Daemon(e) /\ Later(d, e) /\ e.got = d.got
           /\ \A x \in BOOLEAN : LET e == [d EXCEPT !.st.photos = x]
                                 IN  Daemon(e) /\ Later(d, e) /\ e.got = d.got /\ e.st.photos = x
           /\ \A x \in BOOLEAN : LET e == [d EXCEPT !.st.open = x, !.st.epoch = @ + 1, !.st.rev = @ + 1]
                                 IN  Daemon(e) /\ Later(d, e) /\ e.got = d.got
           /\ LET e == [d EXCEPT !.st.epoch = @ + 1, !.st.rev = @ + 1]
              IN  Daemon(e) /\ Later(d, e) /\ e.got = d.got
  <1> DEFINE R == {"st", "ver", "call", "got", "stored"}
  <1>0. /\ IsRec(d, R) /\ IsRec(d.st, Parts["status"]) /\ IsSeq(d.got)
        /\ d.st.up \in BOOLEAN /\ d.st.on \in BOOLEAN /\ d.st.open \in BOOLEAN /\ d.st.photos \in BOOLEAN
        /\ d.st.epoch \in Nat /\ d.st.rev \in Nat /\ d.ver \in Nat
    BY DEF Daemon, Known
  <1>1. ASSUME NEW e, IsRec(e, R), e.st = d.st, e.ver \in {d.ver, d.ver + 1}, IsSeq(e.got)
        PROVE  Daemon(e) /\ Later(d, e)
    BY <1>0, <1>1, DaemonChange
  <1>2. ASSUME NEW e, IsRec(e, R), e.ver = d.ver, e.got = d.got, IsRec(e.st, Parts["status"]),
               e.st.up = d.st.up,
               e.st.on \in BOOLEAN, e.st.open \in BOOLEAN, e.st.photos \in BOOLEAN,
               e.st.epoch \in {d.st.epoch, d.st.epoch + 1}, e.st.rev \in {d.st.rev, d.st.rev + 1}
        PROVE  Daemon(e) /\ Later(d, e)
    BY <1>0, <1>2, DaemonChange
  <1>3. LET e == [d EXCEPT !.ver = @ + 1] IN Daemon(e) /\ Later(d, e) /\ e.got = d.got
    <2> DEFINE e == [d EXCEPT !.ver = @ + 1]
    <2>1. IsRec(e, R) /\ e.st = d.st /\ e.ver = d.ver + 1 /\ e.got = d.got
      BY <1>0 DEF IsRec
    <2> HIDE DEF e
    <2>2. Daemon(e) /\ Later(d, e)
      BY <1>0, <1>1, <2>1
    <2>3. QED
      BY <2>1, <2>2 DEF e
  <1>4. ASSUME NEW c PROVE LET e == [d EXCEPT !.call = c] IN Daemon(e) /\ Later(d, e) /\ e.got = d.got
    <2> DEFINE e == [d EXCEPT !.call = c]
    <2>1. IsRec(e, R) /\ e.st = d.st /\ e.ver = d.ver /\ e.got = d.got
      BY <1>0 DEF IsRec
    <2> HIDE DEF e
    <2>2. Daemon(e) /\ Later(d, e)
      BY <1>0, <1>1, <2>1
    <2>3. QED
      BY <2>1, <2>2 DEF e
  <1>7. ASSUME NEW x \in BOOLEAN
        PROVE  LET e == [d EXCEPT !.st.on = x] IN Daemon(e) /\ Later(d, e) /\ e.got = d.got
    <2> DEFINE e == [d EXCEPT !.st.on = x]
    <2>1. IsRec(e, R) /\ e.ver = d.ver /\ e.got = d.got
      BY <1>0 DEF IsRec
    <2>2. /\ IsRec(e.st, Parts["status"]) /\ e.st.up = d.st.up /\ e.st.on = x /\ e.st.open = d.st.open
          /\ e.st.photos = d.st.photos /\ e.st.epoch = d.st.epoch /\ e.st.rev = d.st.rev
      BY <1>0, PartNames DEF IsRec
    <2> HIDE DEF e
    <2>3. Daemon(e) /\ Later(d, e)
      BY <1>0, <1>2, <2>1, <2>2
    <2>4. QED
      BY <2>1, <2>3 DEF e
  <1>8. ASSUME NEW x \in BOOLEAN
        PROVE  LET e == [d EXCEPT !.st.photos = x]
               IN  Daemon(e) /\ Later(d, e) /\ e.got = d.got /\ e.st.photos = x
    <2> DEFINE e == [d EXCEPT !.st.photos = x]
    <2>1. IsRec(e, R) /\ e.ver = d.ver /\ e.got = d.got
      BY <1>0 DEF IsRec
    <2>2. /\ IsRec(e.st, Parts["status"]) /\ e.st.up = d.st.up /\ e.st.on = d.st.on /\ e.st.open = d.st.open
          /\ e.st.photos = x /\ e.st.epoch = d.st.epoch /\ e.st.rev = d.st.rev
      BY <1>0, PartNames DEF IsRec
    <2> HIDE DEF e
    <2>3. Daemon(e) /\ Later(d, e)
      BY <1>0, <1>2, <2>1, <2>2
    <2>4. QED
      BY <2>1, <2>2, <2>3 DEF e
  <1>9. ASSUME NEW x \in BOOLEAN
        PROVE  LET e == [d EXCEPT !.st.open = x, !.st.epoch = @ + 1, !.st.rev = @ + 1]
               IN  Daemon(e) /\ Later(d, e) /\ e.got = d.got
    <2> DEFINE e == [d EXCEPT !.st.open = x, !.st.epoch = @ + 1, !.st.rev = @ + 1]
    <2>1. IsRec(e, R) /\ e.ver = d.ver /\ e.got = d.got
      BY <1>0 DEF IsRec
    <2>2. /\ IsRec(e.st, Parts["status"]) /\ e.st.up = d.st.up /\ e.st.on = d.st.on /\ e.st.open = x
          /\ e.st.photos = d.st.photos /\ e.st.epoch = d.st.epoch + 1 /\ e.st.rev = d.st.rev + 1
      BY <1>0, PartNames DEF IsRec
    <2> HIDE DEF e
    <2>3. Daemon(e) /\ Later(d, e)
      BY <1>0, <1>2, <2>1, <2>2
    <2>4. QED
      BY <2>1, <2>3 DEF e
  <1>10. LET e == [d EXCEPT !.st.epoch = @ + 1, !.st.rev = @ + 1]
         IN  Daemon(e) /\ Later(d, e) /\ e.got = d.got
    <2> DEFINE e == [d EXCEPT !.st.epoch = @ + 1, !.st.rev = @ + 1]
    <2>1. IsRec(e, R) /\ e.ver = d.ver /\ e.got = d.got
      BY <1>0 DEF IsRec
    <2>2. /\ IsRec(e.st, Parts["status"]) /\ e.st.up = d.st.up /\ e.st.on = d.st.on
          /\ e.st.open = d.st.open /\ e.st.photos = d.st.photos
          /\ e.st.epoch = d.st.epoch + 1 /\ e.st.rev = d.st.rev + 1
      BY <1>0, PartNames DEF IsRec
    <2> HIDE DEF e
    <2>3. Daemon(e) /\ Later(d, e)
      BY <1>0, <1>2, <2>1, <2>2
    <2>4. QED
      BY <2>1, <2>3 DEF e
  <1>11. QED
    BY <1>3, <1>4, <1>7, <1>8, <1>9, <1>10

LEMMA GotStep ==
    ASSUME NEW d, Daemon(d), NEW x, NEW e, e = [d EXCEPT !.got = Append(@, x)]
    PROVE  Daemon(e) /\ Later(d, e) /\ e.got = Append(d.got, x)
  <1>0. /\ IsRec(d.st, Parts["status"]) /\ IsSeq(d.got)
        /\ d.st.on \in BOOLEAN /\ d.st.open \in BOOLEAN /\ d.st.photos \in BOOLEAN
    BY DEF Daemon, Known
  <1>1. /\ IsRec(e, {"st", "ver", "call", "got", "stored"}) /\ e.st = d.st /\ e.ver = d.ver
        /\ e.got = Append(d.got, x)
    BY DEF Daemon, IsRec
  <1>2. IsSeq(Append(d.got, x))
    BY AppendSeq DEF Daemon
  <1>3. QED
    BY <1>0, <1>1, <1>2, DaemonChange

LEMMA StoredStep ==
    ASSUME NEW d, Daemon(d), NEW n, NEW x, NEW e, e = [d EXCEPT !.stored[n] = x]
    PROVE  Daemon(e) /\ Later(d, e) /\ e.got = d.got
  <1>0. /\ IsRec(d.st, Parts["status"]) /\ IsSeq(d.got)
        /\ d.st.on \in BOOLEAN /\ d.st.open \in BOOLEAN /\ d.st.photos \in BOOLEAN
    BY DEF Daemon, Known
  <1>1. /\ IsRec(e, {"st", "ver", "call", "got", "stored"}) /\ e.st = d.st /\ e.ver = d.ver
        /\ e.got = d.got
    BY DEF Daemon, IsRec
  <1>2. QED
    BY <1>0, <1>1, DaemonChange

LEMMA Requesting ==
    ASSUME Daemon(dm), NEW j, j.do \in Requests, StatusJob(j)
    PROVE  LET o == Request(j) IN Follows(dm, o.dm, j, o.signals, o.answer)
  <1> DEFINE o == Request(j)
             e == o.dm
  <1>0. /\ {"notes", "history", "log", "apps", "tether", "calls", "status"} \subseteq Signals
        /\ Daemon(dm) /\ Later(dm, dm)
    BY DEF Signals, Later, Daemon
  <1>1. CASE j.do \in {"pin", "act", "sync", "mute", "command"}
    <2> DEFINE f == [dm EXCEPT !.ver = @ + 1]
    <2>1. /\ e = f
          /\ o.signals \in {<<"notes">>, <<"history">>, <<"log">>, <<"apps">>, <<"tether">>}
      BY <1>1 DEF Request, Did
    <2> HIDE DEF o
    <2>a. Daemon(f) /\ Later(dm, f) /\ f.got = dm.got
      BY DaemonSteps
    <2> HIDE DEF f
    <2>2. Daemon(e) /\ Later(dm, e) /\ e.got = dm.got
      BY <2>1, <2>a
    <2>3. Names(o.signals)
      BY <1>0, <2>1, NamesOf
    <2>4. Answers(e, j, o.answer)
      BY <1>1 DEF Answers, StatusAnswer
    <2>5. QED
      BY <2>2, <2>3, <2>4 DEF Follows, Receives, o
  <1>2. CASE j.do = "tones"
    <2> DEFINE x == [call |-> j.call, tones |-> j.tones]
               f == [dm EXCEPT !.got = Append(@, x)]
    <2>1. e = dm \/ e = f
      BY <1>2 DEF Request, Did
    <2>2. o.signals = <<>>
      BY <1>2 DEF Request, Did
    <2> HIDE DEF o
    <2> HIDE DEF x
    <2>a. Daemon(f) /\ Later(dm, f) /\ f.got = Append(dm.got, x)
      BY GotStep
    <2> HIDE DEF f
    <2>3. Daemon(e) /\ Later(dm, e) /\ Receives(dm, e, j)
      BY <1>0, <1>2, <2>1, <2>a DEF Receives, x
    <2>4. Answers(e, j, o.answer)
      BY <1>2 DEF Answers, StatusAnswer
    <2>5. QED
      BY <2>2, <2>3, <2>4, NamesOf DEF Follows, o
  <1>3. CASE j.do = "hangup"
    <2> DEFINE f == [dm EXCEPT !.call = None]
    <2>1. e = dm \/ e = f
      BY <1>3 DEF Request, Did
    <2>2. o.signals \in {<<>>, <<"calls">>}
      BY <1>3 DEF Request, Did
    <2> HIDE DEF o
    <2>a. Daemon(f) /\ Later(dm, f) /\ f.got = dm.got
      BY DaemonSteps
    <2> HIDE DEF f
    <2>3. Daemon(e) /\ Later(dm, e) /\ e.got = dm.got
      BY <1>0, <2>1, <2>a
    <2>4. Names(o.signals)
      BY <1>0, <2>2, NamesOf
    <2>5. Answers(e, j, o.answer)
      BY <1>3 DEF Answers, StatusAnswer
    <2>6. QED
      BY <2>3, <2>4, <2>5 DEF Follows, Receives, o
  <1>4. CASE j.do = "feature"
    <2> DEFINE f == [dm EXCEPT !.stored[j.name] = j.on]
    <2>1. e = f /\ o.signals = <<>>
      BY <1>4 DEF Request, Did
    <2> HIDE DEF o
    <2>a. Daemon(f) /\ Later(dm, f) /\ f.got = dm.got
      BY StoredStep
    <2> HIDE DEF f
    <2>2. Daemon(e) /\ Later(dm, e) /\ e.got = dm.got
      BY <2>1, <2>a
    <2>3. Answers(e, j, o.answer)
      BY <1>4 DEF Answers, StatusAnswer
    <2>4. QED
      BY <2>1, <2>2, <2>3, NamesOf DEF Follows, Receives, o
  <1>5. CASE j.do = "save"
    <2> DEFINE f == [dm EXCEPT !.st.on = j.on]
    <2>1. e = f /\ o.signals = <<"status">> /\ o.answer.value = j.on
      BY <1>5 DEF Request, Did, Ok
    <2>2. j.on \in BOOLEAN
      BY <1>5 DEF StatusJob
    <2> HIDE DEF o
    <2>a. Daemon(f) /\ Later(dm, f) /\ f.got = dm.got
      BY <2>2, DaemonSteps
    <2> HIDE DEF f
    <2>3. Daemon(e) /\ Later(dm, e) /\ e.got = dm.got
      BY <2>1, <2>a
    <2>4. Answers(e, j, o.answer)
      BY <1>5, <2>1, <2>2 DEF Answers, StatusAnswer
    <2>5. Names(o.signals)
      BY <1>0, <2>1, NamesOf
    <2>6. QED
      BY <2>3, <2>4, <2>5 DEF Follows, Receives, o
  <1>6. CASE j.do = "photos"
    <2> DEFINE f == [dm EXCEPT !.st.photos = j.on]
    <2>1. e = f /\ o.signals = <<"status">> /\ o.answer.value = Status(f)
      BY <1>6 DEF Request, Did, Ok
    <2>2. j.on \in BOOLEAN
      BY <1>6 DEF StatusJob
    <2> HIDE DEF o
    <2>3. Daemon(f) /\ Later(dm, f) /\ f.got = dm.got
      BY <2>2, DaemonSteps
    <2> HIDE DEF f
    <2>4. Known(Status(f), f)
      BY <2>3, StatusOf
    <2>5. Answers(e, j, o.answer)
      BY <1>6, <2>1, <2>4 DEF Answers, StatusAnswer, Known
    <2>6. Names(o.signals)
      BY <1>0, <2>1, NamesOf
    <2>7. QED
      BY <2>1, <2>3, <2>5, <2>6 DEF Follows, Receives, o
  <1>7. CASE j.do = "unlock"
    <2> DEFINE f == [dm EXCEPT !.st.open = TRUE, !.st.epoch = @ + 1, !.st.rev = @ + 1]
    <2>1. e = dm \/ e = f
      BY <1>7 DEF Request, Did
    <2>2. o.signals \in {<<>>, <<"status">>} /\ o.answer.value = TRUE
      BY <1>7 DEF Request, Did, Ok
    <2> HIDE DEF o
    <2>a. Daemon(f) /\ Later(dm, f) /\ f.got = dm.got
      BY DaemonSteps
    <2> HIDE DEF f
    <2>3. Daemon(e) /\ Later(dm, e) /\ e.got = dm.got
      BY <1>0, <2>1, <2>a
    <2>4. Names(o.signals)
      BY <1>0, <2>2, NamesOf
    <2>5. Answers(e, j, o.answer)
      BY <1>7, <2>2 DEF Answers, StatusAnswer
    <2>6. QED
      BY <2>3, <2>4, <2>5 DEF Follows, Receives, o
  <1>8. QED
    BY <1>1, <1>2, <1>3, <1>4, <1>5, <1>6, <1>7 DEF Requests

-----------------------------------------------------------------------------
(***************************************************************************)
(* Every action keeps the invariant.                                       *)
(***************************************************************************)

\* The parts of the invariant after a step that leaves the mix's kinds alone.
LEMMA IInvNext ==
    ASSUME Daemon(dm'), Good(qt', dm', DOMAIN left), Sent(bus', dm'), DOMAIN left' = DOMAIN left
    PROVE  IInv'
  BY DEF IInv

LEMMA UseKeeps ==
    ASSUME NEW k, Use(k) PROVE DOMAIN left' = DOMAIN left
  BY DEF Use

LEMMA AnsweredStep ==
    ASSUME IInv, NEW e, NEW names, NEW r, qt.jobs # <<>>, Follows(dm, e, Head(qt.jobs), names, r),
           Answered(e, names, r), DOMAIN left' = DOMAIN left
    PROVE  IInv'
  <1>1. /\ Daemon(e) /\ Later(dm, e) /\ Names(names) /\ Answers(e, Head(qt.jobs), r)
        /\ Receives(dm, e, Head(qt.jobs))
    BY DEF Follows
  <1>2. Daemon(dm) /\ Good(qt, dm, DOMAIN left) /\ Sent(bus, dm)
    BY DEF IInv
  <1>3. Good([qt EXCEPT !.jobs = Tail(@), !.done = Append(@, [job |-> Head(qt.jobs), answer |-> r])],
             e, DOMAIN left)
    BY <1>1, <1>2, GoodAnswered
  <1>4. Sent(bus \o Emitted(names, e.ver), e)
    BY <1>1, <1>2, SentMore
  <1>5. dm' = e /\ Good(qt', e, DOMAIN left) /\ Sent(bus', e)
    BY <1>3, <1>4 DEF Answered
  <1>6. QED
    BY <1>1, <1>5, IInvNext

\* The job at the front of the queue.
LEMMA FrontJob ==
    ASSUME IInv, qt.jobs # <<>>
    PROVE  /\ Head(qt.jobs).do \in Kinds /\ StatusJob(Head(qt.jobs))
           /\ Head(qt.jobs).do \notin Requests => Head(qt.jobs).do \in Reads
  <1>1. Shaped(qt) /\ StatusPart(qt, dm)
    BY DEF IInv, Good, Fair
  <1>2. IsSeq(qt.jobs)
    BY <1>1 DEF Shaped
  <1>3. 1 \in DOMAIN qt.jobs /\ Head(qt.jobs) = qt.jobs[1]
    BY <1>2, TailSeq
  <1>4. Head(qt.jobs).do \in Kinds /\ StatusJob(Head(qt.jobs))
    BY <1>1, <1>3 DEF Shaped, StatusPart
  <1>5. QED
    BY <1>4 DEF Kinds

LEMMA WorkStep ==
    ASSUME IInv, Work PROVE IInv'
  <1> DEFINE j == Head(qt.jobs)
             o == Outcome(j)
  <1>1. qt.jobs # <<>> /\ DOMAIN left' = DOMAIN left /\ Answered(o.dm, o.signals, o.answer)
    BY DEF Work
  <1>2. StatusJob(j) /\ (j.do \notin Requests => j.do \in Reads) /\ Daemon(dm)
    BY <1>1, FrontJob DEF IInv
  <1>3. CASE j.do \in Requests
    <2>1. o = Request(j)
      BY <1>3 DEF Outcome
    <2> HIDE DEF o, j
    <2>2. Follows(dm, o.dm, j, o.signals, o.answer)
      BY <1>2, <1>3, <2>1, Requesting
    <2>3. QED
      BY <1>1, <2>2, AnsweredStep DEF j
  <1>4. CASE j.do \notin Requests
    <2>1. o.dm = dm /\ o.signals = <<>> /\ o.answer = Answer(j)
      BY <1>4 DEF Outcome, Did
    <2> HIDE DEF o, j
    <2>2. Follows(dm, o.dm, j, o.signals, o.answer)
      BY <1>2, <1>4, <2>1, Reading
    <2>3. QED
      BY <1>1, <2>2, AnsweredStep DEF j
  <1>5. QED
    BY <1>3, <1>4

LEMMA ReadFailsStep ==
    ASSUME IInv, ReadFails PROVE IInv'
  <1> DEFINE j == Head(qt.jobs)
  <1>1. /\ qt.jobs # <<>> /\ j.do \notin Requests /\ DOMAIN left' = DOMAIN left
    BY UseKeeps DEF ReadFails
  <1>2. PICK r : (r \in Errors(j) \/ (j.do = "search" /\ r = Busy)) /\ Answered(dm, <<>>, r)
    BY DEF ReadFails
  <1>3. j.do \in Reads /\ Daemon(dm)
    BY <1>1, FrontJob DEF IInv
  <1> HIDE DEF j
  <1>4. Follows(dm, dm, j, <<>>, r)
    BY <1>2, <1>3, ReadingFails
  <1>5. QED
    BY <1>1, <1>2, <1>4, AnsweredStep DEF j

LEMMA RequestFailsStep ==
    ASSUME IInv, RequestFails PROVE IInv'
  <1> DEFINE j == Head(qt.jobs)
             o == Outcome(j)
  <1>1. /\ qt.jobs # <<>> /\ j.do \in Requests /\ DOMAIN left' = DOMAIN left
        /\ Answered(dm, <<>>, Failed) \/ Answered(o.dm, o.signals, Failed)
    BY UseKeeps DEF RequestFails
  <1>2. StatusJob(j) /\ Daemon(dm)
    BY <1>1, FrontJob DEF IInv
  <1>3. o = Request(j)
    BY <1>1 DEF Outcome
  <1> HIDE DEF o, j
  <1>4. Follows(dm, o.dm, j, o.signals, o.answer)
    BY <1>1, <1>2, <1>3, Requesting
  <1>5. Follows(dm, dm, j, <<>>, Failed)
    BY <1>1, <1>2, ReadingFails
  <1>6. Answers(o.dm, j, Failed)
    BY <1>1 DEF Answers, StatusAnswer, Failed, Requests
  <1>7. Follows(dm, o.dm, j, o.signals, Failed)
    BY <1>4, <1>6 DEF Follows
  <1>8. QED
    BY <1>1, <1>5, <1>7, AnsweredStep DEF j

LEMMA DeliverStep ==
    ASSUME NoneIsNew, IInv, Deliver PROVE IInv'
  <1> DEFINE s == [qt EXCEPT !.done = Tail(@)]
             j == Head(qt.done).job
             r == Head(qt.done).answer
  <1>1. /\ qt.done # <<>> /\ qt' = Callback(s, j, r)
        /\ dm' = dm /\ bus' = bus /\ left' = left
    BY DEF Deliver
  <1>2. Daemon(dm) /\ Good(qt, dm, DOMAIN left) /\ Sent(bus, dm)
    BY DEF IInv
  <1>3. Good(s, dm, DOMAIN left) /\ Fit(s, dm, DOMAIN left, j, r)
    BY <1>1, <1>2, Pops
  <1> HIDE DEF s, j, r
  <1>4. Good(qt', dm, DOMAIN left)
    BY <1>1, <1>3, GoodCallback
  <1>5. QED
    BY <1>1, <1>2, <1>4, IInvNext

LEMMA DispatchStep ==
    ASSUME IInv, Dispatch PROVE IInv'
  <1> DEFINE H == DOMAIN left
             x == Head(bus).sig
             at == Head(bus).at
             s == Signalled(qt, x)
             since == [s EXCEPT !.search.since = at]
  <1>1. /\ bus # <<>> /\ bus' = Tail(bus) /\ dm' = dm /\ left' = left
        /\ qt' = IF x \in {"history", "log"} THEN since ELSE s
    BY DEF Dispatch, Then
  <1>2. Daemon(dm) /\ Good(qt, dm, H) /\ Sent(bus, dm)
    BY DEF IInv
  <1>3. /\ IsSeq(Tail(bus)) /\ 1 \in DOMAIN bus /\ Head(bus) = bus[1]
        /\ \A i \in DOMAIN Tail(bus) : i + 1 \in DOMAIN bus /\ Tail(bus)[i] = bus[i + 1]
    BY <1>1, <1>2, TailSeq DEF Sent
  <1>4. Sent(Tail(bus), dm) /\ x \in Signals /\ at \in Nat /\ at <= dm.ver
    BY <1>2, <1>3 DEF Sent
  <1> HIDE DEF x, at, since
  <1>5. Good(s, dm, H) /\ (x \in {"history", "log"} => Cleared(s))
    <2>0. Timers = {"refresh", "notes", "book", "search", "log", "apps", "media", "tether"}
      BY DEF Timers
    <2>1. CASE x = "history"
      <3> DEFINE a == Start(qt, "refresh")
                 b == NotesInvalidated(a)
      <3>1. s = Invalidate(b)
        BY <2>1 DEF Signalled
      <3>2. Good(a, dm, H)
        BY <1>2, <2>0, GoodTimer
      <3> HIDE DEF a, s
      <3>3. Good(b, dm, H)
        BY <3>2, GoodNotesInvalidated
      <3> HIDE DEF b
      <3>4. QED
        BY <3>1, <3>3, GoodInvalidate
    <2>2. CASE x = "status"
      <3> DEFINE a == Start(qt, "refresh")
      <3>1. s = IF Has("tether") THEN Start(a, "tether") ELSE a
        BY <2>2 DEF Signalled
      <3>2. Good(a, dm, H)
        BY <1>2, <2>0, GoodTimer
      <3> HIDE DEF a, s
      <3>3. Good(Start(a, "tether"), dm, H)
        BY <2>0, <3>2, GoodTimer
      <3>4. QED
        BY <2>2, <3>1, <3>2, <3>3
    <2>3. CASE x = "notes"
      <3>1. s = NotesInvalidated(qt)
        BY <2>3 DEF Signalled
      <3> HIDE DEF s
      <3>2. QED
        BY <1>2, <2>3, <3>1, GoodNotesInvalidated
    <2>4. CASE x = "apps"
      <3> DEFINE a == IF qt.apps.watched THEN Start(qt, "apps") ELSE qt
      <3>1. s = NotesInvalidated(a)
        BY <2>4 DEF Signalled
      <3>2. Good(Start(qt, "apps"), dm, H)
        BY <1>2, <2>0, GoodTimer
      <3>3. Good(a, dm, H)
        BY <1>2, <3>2
      <3> HIDE DEF a, s
      <3>4. QED
        BY <2>4, <3>1, <3>3, GoodNotesInvalidated
    <2>5. CASE x = "log"
      <3> DEFINE a == Invalidate(qt)
      <3>1. s = IF a.status.on /\ a.log.watched THEN Start(a, "log") ELSE a
        BY <2>5 DEF Signalled, Then
      <3>2. Good(a, dm, H) /\ Cleared(a)
        BY <1>2, GoodInvalidate
      <3> HIDE DEF a, s
      <3>3. Moves(a, a, {}, {})
        BY <3>2, MovesRefl DEF Good, Fair
      <3>4. Good(Start(a, "log"), dm, H)
        BY <2>0, <3>2, GoodTimer
      <3>5. Cleared(Start(a, "log"))
        BY <2>0, <3>2, <3>3, FairTimer DEF Good
      <3>6. QED
        BY <3>1, <3>2, <3>4, <3>5
    <2>6. CASE x = "calls"
      <3>1. s = RefreshCalls(qt)
        BY <2>6 DEF Signalled
      <3> HIDE DEF s
      <3>2. QED
        BY <1>2, <2>6, <3>1, GoodRefreshCalls
    <2>7. CASE x \in {"media", "tether"}
      <3>1. s = Start(qt, x)
        BY <2>7 DEF Signalled
      <3> HIDE DEF s
      <3>2. x \in Timers
        BY <2>0, <2>7
      <3>3. QED
        BY <1>2, <2>7, <3>1, <3>2, GoodTimer
    <2>8. QED
      BY <1>4, <2>1, <2>2, <2>3, <2>4, <2>5, <2>6, <2>7 DEF Signals
  <1> HIDE DEF s
  <1>6. x \in {"history", "log"} => Good(since, dm, H)
    BY <1>4, <1>5, GoodSince DEF since
  <1>7. Good(qt', dm, H)
    BY <1>1, <1>5, <1>6
  <1>8. QED
    BY <1>1, <1>2, <1>4, <1>7, IInvNext

LEMMA TimerStep ==
    ASSUME IInv, TimerFires PROVE IInv'
  <1> DEFINE H == DOMAIN left
  <1>1. Daemon(dm) /\ Good(qt, dm, H) /\ Sent(bus, dm)
    BY DEF IInv
  <1>2. dm' = dm /\ bus' = bus /\ left' = left
    BY DEF TimerFires
  <1>3. ASSUME NEW n \in qt.timers, qt' = Expired(Stop(qt, n), n)
        PROVE  Good(qt', dm, H)
    <2> DEFINE s == Stop(qt, n)
    <2>1. n \in Timers
      BY <1>1, <1>3 DEF Good, Fair, Shaped
    <2>2. Good(s, dm, H)
      BY <1>1, <2>1, GoodTimer
    <2> HIDE DEF s
    <2>3. qt' = Expired(s, n)
      BY <1>3 DEF s
    <2>4. CASE n = "refresh"
      BY <2>2, <2>3, <2>4, GoodRefresh DEF Expired
    <2>5. CASE n = "notes"
      BY <2>2, <2>3, <2>5, GoodNotesRefresh DEF Expired
    <2>6. CASE n = "book"
      BY <2>2, <2>3, <2>6, GoodBookReload DEF Expired
    <2>7. CASE n = "search"
      BY <2>2, <2>3, <2>7, GoodSearchRun DEF Expired
    <2>8. CASE n = "log"
      BY <2>2, <2>3, <2>8, GoodLoadCallHistory DEF Expired
    <2>9. CASE n = "apps"
      <3>1. qt' = ReadNotificationApps(s, FALSE)
        BY <2>3, <2>9 DEF Expired
      <3>2. Moves(s, ReadNotificationApps(s, FALSE), {}, {"apps"})
        BY <2>2, ReadsNotificationApps DEF Good, Fair
      <3>3. /\ {} \cap Views = {}
            /\ {"apps"} \cap {"save", "photos", "book", "card", "search", "find", "face", "tones"} = {}
        OBVIOUS
      <3>4. QED
        BY <2>2, <3>1, <3>2, <3>3, GoodQuiet
    <2>10. CASE n = "media"
      <3>1. qt' = RefreshNowPlaying(s)
        BY <2>3, <2>10 DEF Expired
      <3>2. Good(RefreshNowPlaying(s), dm, H) /\ Good([s EXCEPT !.media = None], dm, H)
        BY <2>2, GoodMedia
      <3>3. QED
        BY <3>1, <3>2
    <2>11. CASE n = "tether"
      <3>1. qt' = Run(s, [do |-> "tether"])
        BY <2>3, <2>11 DEF Expired, RefreshTether
      <3>2. [do |-> "tether"].do \in Kinds
        BY DEF Kinds, Reads
      <3>3. QED
        BY <2>2, <3>1, <3>2, GoodRun
    <2>12. QED
      BY <2>1, <2>4, <2>5, <2>6, <2>7, <2>8, <2>9, <2>10, <2>11 DEF Timers
  <1>4. ASSUME NEW n \in qt.faces.later, qt' = AvatarRetry(qt, n[1], n[2])
        PROVE  Good(qt', dm, H)
    <2>1. qt.faces.later # {}
      OBVIOUS
    <2>2. QED
      BY <1>1, <1>4, <2>1, GoodAvatarRetry
  <1>5. Good(qt', dm, H)
    BY <1>3, <1>4 DEF TimerFires
  <1>6. QED
    BY <1>1, <1>2, <1>5, IInvNext

\* A step of the user: only the controller moves.
LEMMA ActsStep ==
    ASSUME IInv, NEW s, Acts(s), Good(s, dm, DOMAIN left), NEW k, Use(k)
    PROVE  IInv'
  <1>1. qt' = s /\ dm' = dm /\ bus' = bus
    BY DEF Acts
  <1>2. DOMAIN left' = DOMAIN left
    BY UseKeeps
  <1>3. Daemon(dm) /\ Sent(bus, dm)
    BY DEF IInv
  <1>4. QED
    BY <1>1, <1>2, <1>3, IInvNext

LEMMA GoodLogTab ==
    ASSUME NEW s, NEW d, NEW H, Good(s, d, H)
    PROVE  Good(SyncWatches([s EXCEPT !.log.tab = ~@]), d, H)
  <1> DEFINE a == [s EXCEPT !.log.tab = ~@]
             b == SyncWatches(a)
  <1>0. Shaped(s) /\ LogPart(s)
    BY DEF Good, Fair
  <1>1. IsRec(a, Fields) /\ \A f \in Fields \ {"log"} : a[f] = s[f]
    BY <1>0, FieldNames DEF Shaped, IsRec
  <1>2. IsRec(a.log, Parts["log"]) /\ a.log.watched = s.log.watched /\ a.log.rows = s.log.rows
    BY <1>0, FieldNames, PartNames DEF Shaped, IsRec, Views
  <1> HIDE DEF a
  <1>3. Moves(s, a, {"log"}, {}) /\ LogPart(a)
    BY <1>0, <1>1, <1>2, Change, FieldNames DEF Views, LogPart
  <1>4. Moves(a, b, {"log"}, {"log"}) /\ LogPart(b)
    BY <1>3, SyncsWatches DEF Moves
  <1> HIDE DEF b
  <1>5. Moves(s, a, {"log"}, {"log"})
    BY <1>3, MovesMore
  <1>6. Moves(s, b, {"log"}, {"log"})
    BY <1>4, <1>5, MovesOn
  <1>7. Good(b, d, H)
    BY <1>4, <1>6, GoodView
  <1>8. QED
    BY <1>7 DEF a, b

\* A preference is a Boolean.
LEMMA GoodSave ==
    ASSUME NEW s, NEW d, NEW H, Good(s, d, H), NEW j, j.do \in {"save", "photos"}, j.on \in BOOLEAN
    PROVE  Good(Run(s, j), d, H)
  <1> DEFINE t == Run(s, j)
  <1>0. Shaped(s) /\ IsSeq(s.jobs)
    BY DEF Good, Fair, Shaped
  <1>1. j.do \in Kinds
    BY DEF Kinds, Requests
  <1>2. Moves(s, t, {}, {j.do}) /\ t.jobs = Append(s.jobs, j)
    BY <1>0, <1>1, RunMoves
  <1> HIDE DEF t
  <1>3. \A i \in DOMAIN t.jobs : (i \in DOMAIN s.jobs /\ t.jobs[i] = s.jobs[i]) \/ t.jobs[i] = j
    BY <1>0, <1>2, AppendSeq
  <1>4. t.done = s.done /\ t.status = s.status /\ Shaped(t)
    BY <1>2, FieldNames DEF Moves
  <1>5. StatusPart(t, d)
    <2>1. StatusPart(s, d)
      BY DEF Good, Fair
    <2>2. StatusJob(j)
      BY DEF StatusJob
    <2>3. QED
      BY <1>3, <1>4, <2>1, <2>2 DEF StatusPart
  <1>6. /\ NotesPart(t, H) /\ LogPart(t) /\ AppsPart(t) /\ BookPart(t, d) /\ SearchPart(t, d)
        /\ FindPart(t) /\ FacesPart(t, d, H) /\ KeysPart(t, d) /\ NotesLink(t, H) /\ FacesLink(t, H)
    <2>1. /\ NotesPart(s, H) /\ LogPart(s) /\ AppsPart(s) /\ BookPart(s, d) /\ SearchPart(s, d)
          /\ FindPart(s) /\ FacesPart(s, d, H) /\ KeysPart(s, d) /\ NotesLink(s, H) /\ FacesLink(s, H)
      BY DEF Good, Fair
    <2>2. /\ {j.do} \cap {"book", "card"} = {} /\ "search" \notin {j.do} /\ "find" \notin {j.do}
          /\ "face" \notin {j.do} /\ "tones" \notin {j.do}
      OBVIOUS
    <2>3. QED
      BY <1>2, <2>1, <2>2, Kept
  <1>7. QED
    BY <1>4, <1>5, <1>6 DEF Good, Fair, t

LEMMA UserStep ==
    ASSUME IInv,
           \/ SwitchPage \/ Type \/ UseCard \/ PressTone \/ Hangup \/ ChooseFeature \/ Command
           \/ SavePreference \/ Mark \/ ActOnData \/ UnlockStorage
    PROVE  IInv'
  <1> DEFINE H == DOMAIN left
  <1>1. Good(qt, dm, H)
    BY DEF IInv
  <1>2. CASE SwitchPage
    <2>1. Use("page")
      BY <1>2 DEF SwitchPage
    <2>2. CASE Has("notes") /\ Acts(WatchNotes(qt, ~qt.notes.watched))
      <3>1. "notes" \in H /\ (~qt.notes.watched) \in BOOLEAN
        BY <2>2 DEF Has
      <3>2. Good(WatchNotes(qt, ~qt.notes.watched), dm, H)
        BY <1>1, <3>1, GoodWatchNotes
      <3>3. QED
        BY <2>1, <2>2, <3>2, ActsStep
    <2>3. CASE Acts(WatchBook(qt, ~qt.book.watched))
      <3>1. (~qt.book.watched) \in BOOLEAN
        OBVIOUS
      <3>2. Good(WatchBook(qt, ~qt.book.watched), dm, H)
        BY <1>1, <3>1, GoodWatchBook
      <3>3. QED
        BY <2>1, <2>3, <3>2, ActsStep
    <2>4. CASE Acts(WatchNotificationApps(qt, ~qt.apps.watched))
      <3>1. (~qt.apps.watched) \in BOOLEAN
        OBVIOUS
      <3>2. Good(WatchNotificationApps(qt, ~qt.apps.watched), dm, H)
        BY <1>1, <3>1, GoodWatchNotificationApps
      <3>3. QED
        BY <2>1, <2>4, <3>2, ActsStep
    <2>5. CASE Acts(SyncWatches([qt EXCEPT !.log.tab = ~@]))
      <3>1. Good(SyncWatches([qt EXCEPT !.log.tab = ~@]), dm, H)
        BY <1>1, GoodLogTab
      <3>2. QED
        BY <2>1, <2>5, <3>1, ActsStep
    <2>6. CASE Acts(LoadFeatures(qt))
      <3>1. Good(LoadFeatures(qt), dm, H)
        BY <1>1, GoodLoadFeatures
      <3>2. QED
        BY <2>1, <2>6, <3>1, ActsStep
    <2>7. QED
      BY <1>2, <2>2, <2>3, <2>4, <2>5, <2>6 DEF SwitchPage
  <1>3. CASE Type
    <2>1. Use("type")
      BY <1>3 DEF Type
    <2>2. PICK query : \/ Acts(SetQuery(qt, query))
                       \/ Acts(SetContactQuery(qt, query))
                       \/ Acts(FindContacts(qt, query))
      BY <1>3 DEF Type
    <2>3. /\ Good(SetQuery(qt, query), dm, H)
          /\ Good(SetContactQuery(qt, query), dm, H)
          /\ Good(FindContacts(qt, query), dm, H)
      BY <1>1, GoodSetQuery, GoodSetContactQuery, GoodFindContacts
    <2>4. QED
      BY <2>1, <2>2, <2>3, ActsStep
  <1>4. CASE UseCard
    <2>1. Use("card")
      BY <1>4 DEF UseCard
    <2>2. ASSUME NEW r \in qt.book.rows, Acts(OpenCard(qt, r.epoch)) PROVE IInv'
      <3>1. Good(OpenCard(qt, r.epoch), dm, H)
        BY <1>1, <2>2, GoodOpenCard
      <3>2. QED
        BY <2>1, <2>2, <3>1, ActsStep
    <2>3. ASSUME Acts(CloseCard(qt)) \/ Acts(LoadMore(qt)) PROVE IInv'
      <3>1. Good(CloseCard(qt), dm, H) /\ Good(LoadMore(qt), dm, H)
        BY <1>1, GoodCloseCard, GoodLoadMore
      <3>2. QED
        BY <2>1, <2>3, <3>1, ActsStep
    <2>4. QED
      BY <1>4, <2>2, <2>3 DEF UseCard
  <1>5. CASE PressTone
    <2> DEFINE s == Press([qt EXCEPT !.keys.pressed = Append(@, qt.calls.list)], Len(qt.keys.pressed) + 1)
    <2>1. Use("press") /\ Acts(s)
      BY <1>5 DEF PressTone
    <2>2. Good(s, dm, H)
      BY <1>1, GoodPress
    <2> HIDE DEF s
    <2>3. QED
      BY <2>1, <2>2, ActsStep
  <1>6. CASE Hangup
    <2> DEFINE j == [do |-> "hangup", call |-> qt.calls.list]
    <2>1. Use("hangup") /\ Acts(Run(qt, j))
      BY <1>6 DEF Hangup
    <2>2. j.do = "hangup" /\ j.do \in Kinds
      BY DEF Kinds, Requests
    <2> HIDE DEF j
    <2>3. Good(Run(qt, j), dm, H)
      BY <1>1, <2>2, GoodRun
    <2>4. QED
      BY <2>1, <2>3, ActsStep
  <1>7. CASE ChooseFeature
    <2>1. Use("sets")
      BY <1>7 DEF ChooseFeature
    <2>2. PICK n : Acts(SetFeature(qt, n))
      BY <1>7 DEF ChooseFeature
    <2>3. /\ Good(FeaturesLoaded(qt, None, None), dm, H) /\ Good(SetFeature(qt, n), dm, H)
          /\ Good(FeatureSaved(qt, None, None), dm, H)
      BY <1>1, GoodFeatures
    <2>4. QED
      BY <2>1, <2>2, <2>3, ActsStep
  <1>8. CASE Command
    <2>1. Use("command") /\ Acts(TetherCommand(qt))
      BY <1>8 DEF Command
    <2>2. /\ Good(RefreshTether(qt), dm, H) /\ Good(TetherCommand(qt), dm, H)
          /\ Good(TetherAnswered(qt, None), dm, H) /\ Good(TetherLoaded(qt, None), dm, H)
      BY <1>1, GoodTether
    <2>3. QED
      BY <2>1, <2>2, ActsStep
  <1>9. CASE SavePreference
    <2> DEFINE j == [do |-> "save", on |-> ~qt.status.on]
               m == [do |-> "photos", on |-> ~qt.status.photos]
    <2>1. (Use("save") /\ Acts(Run(qt, j))) \/ (Use("photos") /\ Acts(Run(qt, m)))
      BY <1>9 DEF SavePreference
    <2>2. j.do \in {"save", "photos"} /\ j.on \in BOOLEAN /\ m.do \in {"save", "photos"} /\ m.on \in BOOLEAN
      OBVIOUS
    <2> HIDE DEF j, m
    <2>3. Good(Run(qt, j), dm, H) /\ Good(Run(qt, m), dm, H)
      BY <1>1, <2>2, GoodSave
    <2>4. QED
      BY <2>1, <2>3, ActsStep
  <1>10. ASSUME NEW k, Use(k), NEW w \in {"pin", "mute", "act", "sync"}, Acts(Run(qt, [do |-> w]))
         PROVE  IInv'
    <2> DEFINE j == [do |-> w]
    <2>1. j.do = w /\ j.do \in Kinds
      BY DEF Kinds, Requests
    <2>2. Acts(Run(qt, j))
      BY <1>10
    <2> HIDE DEF j
    <2>3. Good(Run(qt, j), dm, H)
      BY <1>1, <2>1, GoodRun
    <2>4. QED
      BY <1>10, <2>2, <2>3, ActsStep
  <1>11. CASE Mark
    BY <1>10, <1>11 DEF Mark
  <1>12. CASE ActOnData
    BY <1>10, <1>12 DEF ActOnData
  <1>13. CASE UnlockStorage
    <2>1. Good(Unlock(qt), dm, H)
      BY <1>1, GoodUnlock
    <2>2. QED
      BY <1>13, <2>1, ActsStep DEF UnlockStorage
  <1>14. QED
    BY <1>2, <1>3, <1>4, <1>5, <1>6, <1>7, <1>8, <1>9, <1>11, <1>12, <1>13

\* A step of the daemon by itself.
LEMMA HappensStep ==
    ASSUME IInv, NEW e, NEW names, Daemon(e), Later(dm, e), e.got = dm.got, Names(names),
           Happens(e, names), DOMAIN left' = DOMAIN left
    PROVE  IInv'
  <1>1. Good(qt, dm, DOMAIN left) /\ Sent(bus, dm)
    BY DEF IInv
  <1>2. Good(qt, e, DOMAIN left)
    BY <1>1, GoodLater
  <1>3. Sent(bus \o Emitted(names, e.ver), e)
    BY <1>1, SentMore
  <1>4. dm' = e /\ qt' = qt /\ Sent(bus', e)
    BY <1>3 DEF Happens
  <1>5. QED
    BY <1>2, <1>4, IInvNext

LEMMA DaemonStep ==
    ASSUME IInv, Changes \/ Locks PROVE IInv'
  <1> DEFINE newer == [dm EXCEPT !.ver = @ + 1]
             moved == [dm EXCEPT !.st.epoch = @ + 1, !.st.rev = @ + 1]
             shut == [dm EXCEPT !.st.open = FALSE, !.st.epoch = @ + 1, !.st.rev = @ + 1]
             called(c) == [dm EXCEPT !.call = c]
  <1>1. /\ Daemon(newer) /\ Later(dm, newer) /\ newer.got = dm.got
        /\ Daemon(moved) /\ Later(dm, moved) /\ moved.got = dm.got
        /\ Daemon(shut) /\ Later(dm, shut) /\ shut.got = dm.got
        /\ \A c : Daemon(called(c)) /\ Later(dm, called(c)) /\ called(c).got = dm.got
    BY DaemonSteps DEF IInv
  <1>2. DOMAIN left' = DOMAIN left
    BY UseKeeps DEF Changes, Locks
  <1>3. Names(<<"status", "notes">>) /\ \A k \in Signals : Names(<<k>>)
    BY NamesOf
  <1>4. \/ \E k \in Signals : Happens(newer, <<k>>)
        \/ Happens(moved, <<"status">>)
        \/ \E c : Happens(called(c), <<"calls">>)
        \/ Happens(shut, <<"status", "notes">>)
    BY DEF Changes, Locks, Signals
  <1> HIDE DEF newer, moved, shut, called
  <1>5. "status" \in Signals /\ "calls" \in Signals
    BY DEF Signals
  <1>6. QED
    BY <1>1, <1>2, <1>3, <1>4, <1>5, HappensStep

LEMMA StartsFair ==
    ASSUME NoneIsNew, Init PROVE IInv
  <1> DEFINE H == DOMAIN left
  <1>1. PICK o \in BOOLEAN : dm = [NewDaemon EXCEPT !.st.open = o]
    BY DEF Init
  <1>2. Daemon(dm) /\ dm.got = <<>>
    <2>1. /\ IsRec(dm, {"st", "ver", "call", "got", "stored"}) /\ dm.ver = 0 /\ dm.got = <<>>
      BY <1>1 DEF NewDaemon, IsRec
    <2>2. /\ IsRec(dm.st, {"up", "on", "open", "photos", "epoch", "rev"}) /\ dm.st.up = TRUE
          /\ dm.st.on = TRUE /\ dm.st.open = o /\ dm.st.photos = TRUE /\ dm.st.epoch = 0 /\ dm.st.rev = 0
      BY <1>1 DEF NewDaemon, IsRec
    <2>3. IsSeq(dm.got)
      BY <2>1 DEF IsSeq
    <2>4. IsRec(dm.st, Parts["status"])
      BY <2>2, PartNames
    <2>5. Known(dm.st, dm)
      <3>1. /\ dm.st.up \in BOOLEAN /\ dm.st.on \in BOOLEAN /\ dm.st.open \in BOOLEAN
            /\ dm.st.photos \in BOOLEAN
        BY <2>2, Zenon
      <3>2. dm.st.epoch \in Nat /\ dm.st.epoch <= dm.st.epoch /\ dm.st.rev \in Nat /\ dm.st.rev <= dm.st.rev
        BY <2>2
      <3>3. QED
        BY <3>1, <3>2 DEF Known
    <2>6. QED
      BY <2>1, <2>2, <2>3, <2>4, <2>5 DEF Daemon
  <1>3. Sent(bus, dm)
    <2>1. bus = <<>>
      BY DEF Init
    <2>2. QED
      BY <2>1 DEF Sent, IsSeq
  <1> DEFINE j == [do |-> "start"]
  <1>4. qt = NewController
    BY DEF Init
  <1>5. /\ qt.jobs = <<j>> /\ qt.done = <<>> /\ qt.timers = {} /\ qt.status = Unavailable
        /\ qt.notes.watched = FALSE /\ qt.notes.rows = None /\ qt.notes.key = None
        /\ qt.log.watched = FALSE /\ qt.log.rows = None
        /\ qt.apps.watched = FALSE /\ qt.apps.rows = None
        /\ qt.find.serial = 0 /\ qt.find.found = None
        /\ qt.keys.pending = <<>> /\ qt.keys.pressed = <<>>
        /\ qt.search.serial = 0 /\ qt.search.since = 0 /\ qt.search.shown = None
    BY <1>4 DEF NewController
  <1>6. /\ qt.book.watched = FALSE /\ qt.book.supported = FALSE /\ qt.book.photos = FALSE
        /\ qt.book.list = 0 /\ qt.book.open = 0 /\ qt.book.rows = {} /\ qt.book.card = None
        /\ qt.book.photo = None
        /\ qt.faces.known = <<FALSE, None>> /\ qt.faces.gen = 0
        /\ qt.faces.kept = [a \in Faces |-> None] /\ qt.faces.later = {}
    BY <1>4 DEF NewController
  <1>7. /\ qt.status.up = FALSE /\ qt.status.on = FALSE /\ qt.status.open = FALSE
        /\ qt.status.photos = FALSE /\ qt.status.rev = None
    BY <1>5 DEF Unavailable
  <1>8. j.do = "start"
    OBVIOUS
  <1>9. /\ IsSeq(qt.jobs) /\ \A i \in DOMAIN qt.jobs : qt.jobs[i] = j
        /\ \A i, m \in DOMAIN qt.jobs : ~(i < m)
        /\ IsSeq(qt.done) /\ DOMAIN qt.done = {}
    <2> HIDE DEF j
    <2>1. <<j>> \in Seq({j}) /\ <<>> \in Seq({j})
      OBVIOUS
    <2>2. IsSeq(qt.jobs) /\ IsSeq(qt.done)
      BY <1>5, <2>1 DEF IsSeq
    <2>3. DOMAIN qt.jobs = {1} /\ qt.jobs[1] = j
      BY <1>5
    <2>4. DOMAIN qt.done = {}
      BY <1>5
    <2>5. QED
      BY <2>2, <2>3, <2>4
  <1>10. IsRec(qt, Fields) /\ \A v \in Views : IsRec(qt[v], Parts[v])
    <2>1. IsRec(qt, Fields)
      BY <1>4 DEF Fields, NewController, IsRec
    <2>2. IsRec(qt.status, Parts["status"])
      BY <1>5, PartNames DEF Unavailable, IsRec
    <2>3. IsRec(qt.notes, Parts["notes"])
      BY <1>4, PartNames DEF NewController, IsRec
    <2>4. IsRec(qt.book, Parts["book"])
      BY <1>4, PartNames DEF NewController, IsRec
    <2>5. IsRec(qt.search, Parts["search"])
      BY <1>4, PartNames DEF NewController, IsRec
    <2>6. IsRec(qt.log, Parts["log"]) /\ IsRec(qt.apps, Parts["apps"])
      BY <1>4, PartNames DEF NewController, IsRec
    <2>7. IsRec(qt.faces, Parts["faces"])
      BY <1>4, PartNames DEF NewController, IsRec
    <2>8. IsRec(qt.keys, Parts["keys"]) /\ IsRec(qt.find, Parts["find"])
      BY <1>4, PartNames DEF NewController, IsRec
    <2>9. QED
      BY <2>1, <2>2, <2>3, <2>4, <2>5, <2>6, <2>7, <2>8 DEF Views
  <1> HIDE DEF j
  <1>11. Shaped(qt)
    BY <1>5, <1>8, <1>9, <1>10 DEF Shaped, Kinds, Reads
  <1>12. StatusPart(qt, dm)
    BY <1>7, <1>8, <1>9 DEF StatusPart, Known, StatusJob
  <1>13. /\ NotesPart(qt, H) /\ LogPart(qt) /\ AppsPart(qt)
    BY <1>5 DEF NotesPart, LogPart, AppsPart
  <1>14. BookPart(qt, dm)
    <2>1. BookView(qt.book, dm)
      <3>1. ~qt.book.supported /\ \A r \in qt.book.rows : RowFine(qt.book, r)
        BY <1>6
      <3>2. qt.book.watched \in BOOLEAN /\ qt.book.supported \in BOOLEAN /\ qt.book.photos \in BOOLEAN
        BY <1>6, Zenon
      <3>3. qt.book.list \in Nat /\ qt.book.open \in Nat
        BY <1>6
      <3>4. QED
        BY <1>6, <3>1, <3>2, <3>3, Zenon DEF BookView
    <2>2. Pages(qt, 1, 0)
      BY <1>8, <1>9 DEF Pages, PageJob
    <2>3. Cards(qt)
      BY <1>8, <1>9 DEF Cards, CardJob
    <2>4. QED
      BY <2>1, <2>2, <2>3 DEF BookPart
  <1>15. SearchPart(qt, dm)
    BY <1>2, <1>5, <1>8, <1>9 DEF SearchPart, SearchView, SearchJob, Daemon
  <1>16. FindPart(qt)
    BY <1>5, <1>8, <1>9 DEF FindPart, FindJob
  <1>17. FacesPart(qt, dm, H)
    <2>1. FacesView(qt.faces, dm, H)
      BY <1>6 DEF FacesView, IsRec
    <2>2. QED
      BY <2>1, <1>8, <1>9 DEF FacesPart, FaceJob
  <1>18. KeysPart(qt, dm)
    <2>1. IsSeq(qt.keys.pressed)
      BY <1>5 DEF IsSeq
    <2>2. AsPressed(qt.keys.pressed, qt.keys.call, qt.keys.pending)
      BY <1>5, NoTones
    <2>3. \A i \in DOMAIN qt.jobs : ToneJob(qt, dm, qt.jobs[i])
      BY <1>8, <1>9 DEF ToneJob
    <2>4. DOMAIN dm.got = {}
      BY <1>2
    <2>5. QED
      BY <1>9, <2>1, <2>2, <2>3, <2>4 DEF KeysPart
  <1>19. NotesLink(qt, H) /\ FacesLink(qt, H)
    <2>1. None # TRUE
      BY DEF NoneIsNew
    <2>2. ~Available(qt)
      BY <1>7 DEF Available
    <2>3. qt.notes.key # TRUE
      BY <1>5, <2>1
    <2>4. NotesLink(qt, H)
      BY <2>2, <2>3 DEF NotesLink
    <2>5. FacesLink(qt, H)
      BY <1>6, <1>7 DEF FacesLink
    <2>6. QED
      BY <2>4, <2>5
  <1>20. Good(qt, dm, H)
    BY <1>11, <1>12, <1>13, <1>14, <1>15, <1>16, <1>17, <1>18, <1>19 DEF Good, Fair
  <1>21. QED
    BY <1>2, <1>3, <1>20 DEF IInv

LEMMA IInvStep ==
    ASSUME NoneIsNew, IInv, [Next]_clientVars PROVE IInv'
  <1>1. CASE Work
    BY <1>1, WorkStep
  <1>2. CASE ReadFails
    BY <1>2, ReadFailsStep
  <1>3. CASE RequestFails
    BY <1>3, RequestFailsStep
  <1>4. CASE Deliver
    BY <1>4, DeliverStep
  <1>5. CASE Dispatch
    BY <1>5, DispatchStep
  <1>6. CASE TimerFires
    BY <1>6, TimerStep
  <1>7. CASE \/ SwitchPage \/ Type \/ UseCard \/ PressTone \/ Hangup \/ ChooseFeature \/ Command
             \/ SavePreference \/ Mark \/ ActOnData \/ UnlockStorage
    BY <1>7, UserStep
  <1>8. CASE Changes \/ Locks
    BY <1>8, DaemonStep
  <1>9. CASE UNCHANGED clientVars
    BY <1>9 DEF clientVars, IInv
  <1>10. QED
    BY <1>1, <1>2, <1>3, <1>4, <1>5, <1>6, <1>7, <1>8, <1>9 DEF Next

-----------------------------------------------------------------------------
(***************************************************************************)
(* What the invariant says of the window and of the tones.                 *)
(***************************************************************************)
LEMMA InvForgets ==
    ASSUME IInv PROVE Forgets
  <1> DEFINE b == qt.book
             f == qt.faces
             H == DOMAIN left
  <1>1. /\ NotesPart(qt, H) /\ NotesLink(qt, H) /\ LogPart(qt) /\ AppsPart(qt) /\ FindPart(qt)
        /\ BookView(b, dm) /\ FacesView(f, dm, H) /\ SearchView(qt.search, dm)
    BY DEF IInv, Good, Fair, BookPart, FacesPart, SearchPart
  <1>2. ~(qt.notes.watched /\ Available(qt)) => qt.notes.rows = None
    BY <1>1 DEF NotesPart, NotesLink
  <1>3. ~b.watched => b.rows = {} /\ b.card = None /\ b.photo = None
    BY <1>1 DEF BookView, RowFine
  <1>4. b.supported => b.epoch \in Nat
    BY <1>1 DEF BookView
  <1>5. \A r \in b.rows : r.epoch >= b.epoch /\ (r.photo => b.photos) /\ r.query = b.about
    BY <1>1, <1>4 DEF BookView, RowFine
  <1>6. b.card # None /\ b.card.at # None => b.card.at >= b.epoch
    BY <1>1, <1>4 DEF BookView, CardFine
  <1>7. b.photo # None => b.photos /\ b.photo >= b.epoch
    BY <1>1, <1>4 DEF BookView
  <1>8. \A a \in Faces : f.kept[a] # None => f.known[1] /\ f.kept[a] >= f.known[2]
    BY <1>1 DEF FacesView
  <1>9. qt.search.shown # None => qt.search.shown.ver >= qt.search.since
    BY <1>1 DEF SearchView
  <1>10. /\ ~qt.log.watched => qt.log.rows = None
         /\ ~qt.apps.watched => qt.apps.rows = None
         /\ qt.find.found # None => qt.find.found = qt.find.query
    BY <1>1 DEF LogPart, AppsPart, FindPart
  <1>11. QED
    BY <1>2, <1>3, <1>5, <1>6, <1>7, <1>8, <1>9, <1>10 DEF Forgets

LEMMA InvTones ==
    ASSUME IInv PROVE TonesAsPressed
  <1>1. KeysPart(qt, dm) /\ IsSeq(dm.got)
    BY DEF IInv, Good, Fair, Daemon
  <1> SUFFICES ASSUME NEW i \in DOMAIN dm.got, NEW j \in DOMAIN dm.got[i].tones
               PROVE  /\ qt.keys.pressed[dm.got[i].tones[j]] = dm.got[i].call
                      /\ \A k \in 1 .. i : \A m \in DOMAIN dm.got[k].tones :
                             (k < i \/ m < j) => dm.got[k].tones[m] < dm.got[i].tones[j]
    BY DEF TonesAsPressed
  <1>2. AsPressed(qt.keys.pressed, dm.got[i].call, dm.got[i].tones)
    BY <1>1 DEF KeysPart
  <1>3. i \in Nat /\ \A k \in 1 .. i : k \in DOMAIN dm.got /\ (k < i \/ k = i)
    BY <1>1 DEF IsSeq
  <1>4. ASSUME NEW k \in 1 .. i, NEW m \in DOMAIN dm.got[k].tones, k < i \/ m < j
        PROVE  dm.got[k].tones[m] < dm.got[i].tones[j]
    <2>1. CASE k < i
      <3>1. Before(dm.got[k].tones, dm.got[i].tones)
        BY <1>1, <1>3, <2>1 DEF KeysPart
      <3>2. QED
        BY <3>1 DEF Before
    <2>2. CASE k = i /\ m < j
      BY <1>2, <2>2 DEF AsPressed
    <2>3. QED
      BY <1>3, <1>4, <2>1, <2>2
  <1>5. QED
    BY <1>2, <1>4 DEF AsPressed

LEMMA Inductive ==
    ASSUME NoneIsNew PROVE SafetySpec => []IInv
  <1>1. Init => IInv
    BY StartsFair
  <1>2. IInv /\ [Next]_clientVars => IInv'
    BY IInvStep
  <1>3. QED
    BY <1>1, <1>2, PTL DEF SafetySpec

\* What was withdrawn is not shown (BridgeController and the models it shares): a closed page
\* is empty, notifications go with the storage, contacts and photos are of the epoch the
\* status names, and no search hit is older than the last change signalled.
THEOREM QtForgets ==
    ASSUME NoneIsNew PROVE SafetySpec => []Forgets
  <1>1. IInv => Forgets
    BY InvForgets
  <1>2. QED
    BY <1>1, Inductive, PTL

\* Tones reach the daemon in the order they were pressed, once, and only for the call that
\* was on screen (KeypadTones).
THEOREM QtTones ==
    ASSUME NoneIsNew PROVE SafetySpec => []TonesAsPressed
  <1>1. IInv => TonesAsPressed
    BY InvTones
  <1>2. QED
    BY <1>1, Inductive, PTL

=============================================================================
