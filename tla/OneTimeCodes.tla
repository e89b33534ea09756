---------------------------- MODULE OneTimeCodes ----------------------------
(***************************************************************************)
(* One-time codes on the clipboard: class OtpClipboardSink                 *)
(* (src/src/blueferry/sinks/otp_clipboard.py) with its OtpContext          *)
(* (otp_context.py), class ClipboardWriter (otp_clipboard.py), the lookup  *)
(* of a message's metadata (daemon.py) and the sink's place in the event   *)
(* dispatcher.                                                             *)
(*                                                                         *)
(* A message with a code waits a grace period, is looked up on the OBEX    *)
(* worker, waits for wl-copy's probe and is then given to a helper process *)
(* that owns the selection for as long as it lives.  Messages are numbered *)
(* in the order of their arrival, which is the order of the sink's request *)
(* numbers.  Of a message's text only what a context record says matters:  *)
(* that it was read, or that a group's notification carries it.            *)
(***************************************************************************)
EXTENDS Naturals, Sequences, FiniteSets

CONSTANTS
    Messages,       \* 1 .. n, in the order of their arrival
    MaxPerWindow,   \* MAX_COPIES_PER_WINDOW
    MaxPushes,      \* bound of pushes, repeated ones included
    MaxUser,        \* bound of what the user does: copy, read, switch the feature
    MaxPasses,      \* bound of the minutes that pass
    Setups,         \* records of clears, wayland and x11: see Init
    MaxFaults,      \* bound of failing helpers, failing starts of one and failing probes
    None

VARIABLES
    otp,            \* the sink, its context and its writer
    procs,          \* the helper processes, in the order they were started
    clip,           \* the helper that owns the selection, or None: it is empty or the user's
    phone,          \* the messages: pushed, read, and older than five minutes
    pushes, wishes, passes, faults

codeVars == <<otp, procs, clip, phone, pushes, wishes, passes, faults>>

\* seen: _seen; known, read, groups: the context's records of messages, which of them say
\* read, and the group notifications; pending: _pending_candidates; work: the checks and
\* lookups under way; ready: the copies that wait for the probe; sensitive: what the probe
\* said; copies, attempts: how many in this minute; last: _last_copied_sequence; owner: the
\* writer's _owner; clear: the helper the timer of _expire() is for; confirms: the timers of
\* _confirm(); kills: those of _kill_if_running().
NewSink(gen) ==
    [gen |-> gen, on |-> TRUE, seen |-> {}, known |-> {}, read |-> {}, groups |-> {}, pending |-> {},
     ready |-> <<>>, sensitive |-> None, probing |-> FALSE, copies |-> 0, attempts |-> 0, last |-> 0,
     owner |-> None, clear |-> None, confirms |-> {}]

\* told: the messages the sink was told are read or of a group while they were candidates;
\* lost: those of which it dropped that record again; clears: whether OTP_CLEAR_SECONDS is
\* set; wayland, x11: the helpers this session has.
Init ==
    /\ \E setup \in Setups :
           otp = [s |-> [NewSink(1) EXCEPT !.probing = setup.wayland], work |-> {}, kills |-> {},
                  told |-> {}, lost |-> {}, clears |-> setup.clears, wayland |-> setup.wayland, x11 |-> setup.x11]
    /\ procs = <<>> /\ clip = None
    /\ phone = [pushed |-> {}, read |-> {}, old |-> {}]
    /\ pushes = 0 /\ wishes = 0 /\ passes = 0 /\ faults = 0

Wish == wishes < MaxUser /\ wishes' = wishes + 1 /\ UNCHANGED passes
Passes == passes < MaxPasses /\ passes' = passes + 1 /\ UNCHANGED <<pushes, wishes>>
Fault == faults < MaxFaults /\ faults' = faults + 1
NoFault == UNCHANGED faults
Idle == UNCHANGED <<pushes, wishes, passes>>

-----------------------------------------------------------------------------
(* Who may be copied. *)

IsRead(s, m) == m \in s.read
IsGroup(s, m) == m \in s.groups

\* _invalidate_candidates()
Latched(s) ==
    [s EXCEPT !.pending = {m \in @ : ~IsRead(s, m) /\ ~IsGroup(s, m) /\ m \notin phone.old}]

\* Mutant: the evidence is looked up again when the copy is made, and not kept.
NotLatched(s) == s

Invalidate(s) == Latched(s)

\* A code older than five minutes is not copied.
IsRecent(m) == m \notin phone.old

\* A push of a message that is unread and was not pushed to this sink before.
IsNewIncoming(s, m) == m \notin phone.read /\ m \notin s.seen

WithinRateLimit(n) == n < MaxPerWindow

\* _eligible(), for the sink that took the message.
Eligible(s, m) ==
    /\ s.on /\ m \in s.pending
    /\ m > s.last
    /\ ~IsRead(s, m) /\ ~IsGroup(s, m)

-----------------------------------------------------------------------------
(* ClipboardWriter. *)

Alive(p) == p.life \in {"starting", "owning"}

\* The helper this session has, in the order of preference.
FindTarget(o, exclude) ==
    IF o.wayland /\ "wl-copy" \notin exclude THEN "wl-copy" ELSE IF o.x11 THEN "xclip" ELSE None

\* state() of a ticket; exited and running are confirmed alike.
State(o, id) ==
    CASE id # o.s.owner -> "superseded"
      [] id = o.s.owner /\ procs[id].life = "failed" -> "failed"
      [] OTHER -> "running"

\* release(): the helper is told to end, and killed later if it does not.
Release(o, ps) ==
    LET id == o.s.owner
        freed == [o EXCEPT !.s.owner = None, !.s.clear = None]
    IN IF id = None \/ ~Alive(ps[id]) THEN [o |-> freed, ps |-> ps]
       ELSE [o |-> [freed EXCEPT !.kills = @ \union {id}],
             ps |-> [ps EXCEPT ![id].signal = "term"]]

\* The handler starts no helper.
Nothing(o) == otp' = o /\ UNCHANGED procs /\ NoFault

\* The helper that serves the older code is released first.
Spawn(o, m, tool, retried) ==
    LET released == Release(o, procs)
        id == Len(procs) + 1
    IN /\ procs' = Append(released.ps, [msg |-> m, tool |-> tool, life |-> "starting",
                                        signal |-> None])
       /\ otp' = [released.o EXCEPT !.s.owner = id,
                      !.s.last = IF retried THEN @ ELSE m,
                      !.s.clear = IF o.clears THEN id ELSE None,
                      !.s.confirms = @ \union {[id |-> id, retried |-> retried]}]

\* The helper cannot be started (CommandError): the older code is gone all the same, and
\* nothing is confirmed.
SpawnFails(o) == LET released == Release(o, procs) IN otp' = released.o /\ procs' = released.ps

\* copy()
Copy(o, m, exclude, retried) ==
    LET tool == FindTarget(o, exclude)
    IN IF tool = None THEN Nothing(o)
       ELSE (Spawn(o, m, tool, retried) /\ NoFault) \/ (SpawnFails(o) /\ Fault)

\* _copy_prepared(): last, so that an older lookup cannot replace a newer copy.
CopyPrepared(o, m) ==
    IF Eligible(o.s, m) /\ IsRecent(m) /\ WithinRateLimit(o.s.copies)
    THEN Copy([o EXCEPT !.s.copies = @ + 1], m, {}, FALSE)
    ELSE Nothing(o)

\* _probe()
Probing(o) == [o EXCEPT !.s.probing = TRUE]

\* prepare(): without wl-copy, or with its probe answered, at once.
Prepare(o, m) ==
    IF FindTarget(o, {}) = "wl-copy" /\ o.s.sensitive = None
    THEN Nothing(Probing([o EXCEPT !.s.ready = Append(@, m)]))
    ELSE CopyPrepared(o, m)

\* The probe was answered: the copies that wait are made, in order.  At most the last of
\* them lives on: each releases the helper of the one before.
ProbeAnswers ==
    /\ otp.s.probing
    /\ \/ \E sensitive \in BOOLEAN :
              LET s == [otp.s EXCEPT !.probing = FALSE, !.sensitive = sensitive]
              IN /\ otp' = [otp EXCEPT !.s = s, !.work = @ \union
                               {[m |-> s.ready[i], gen |-> s.gen, at |-> "prepared", found |-> None] :
                                   i \in DOMAIN s.ready}, !.s.ready = <<>>]
                 /\ NoFault
       \/ otp' = [otp EXCEPT !.s.probing = FALSE, !.s.ready = <<>>] /\ Fault
    /\ UNCHANGED <<procs, clip, phone>> /\ Idle

\* The callbacks of _probed() run before anything else of the main loop, oldest first.
Prepared(w) ==
    /\ w.at = "prepared" /\ \A v \in otp.work : v.at = "prepared" => w.m <= v.m
    /\ CopyPrepared([otp EXCEPT !.work = @ \ {w}], w.m)
    /\ UNCHANGED <<clip, phone>> /\ Idle

\* The main loop is in _probed().
Busy == \E w \in otp.work : w.at = "prepared"

-----------------------------------------------------------------------------
(* The sink's handlers. *)

\* handle(): the phone pushes a message, perhaps again; late is one that was sent long ago.
Push(m, late) ==
    /\ ~Busy /\ pushes < MaxPushes /\ pushes' = pushes + 1
    /\ \A n \in Messages : n < m => n \in phone.pushed
    /\ phone' = [phone EXCEPT !.pushed = @ \union {m},
                              !.old = IF late THEN @ \union {m} ELSE @]
    /\ LET s == [otp.s EXCEPT !.known = @ \union {m},
                              !.read = IF m \in phone.read THEN @ \union {m} ELSE @]
           candidate == ~IsRead(s, m) /\ ~IsGroup(s, m) /\ WithinRateLimit(s.attempts)
       IN /\ m \in phone.pushed => ~late
          /\ otp' = IF ~otp.s.on THEN otp
                    ELSE IF ~IsNewIncoming(s, m)
                         THEN [otp EXCEPT !.s = Invalidate(s), !.lost = @ \ (s.read \intersect {m})]
                    ELSE IF ~candidate
                         THEN [otp EXCEPT !.s = [Invalidate(s) EXCEPT !.seen = @ \union {m}]]
                    ELSE [otp EXCEPT
                             !.s = [Invalidate(s) EXCEPT !.seen = @ \union {m}, !.attempts = @ + 1,
                                                         !.pending = @ \union {m}],
                             !.work = @ \union {[m |-> m, gen |-> s.gen, at |-> "grace", found |-> None]}]
    /\ UNCHANGED <<procs, clip, wishes, passes>> /\ NoFault

\* message_read(): from the phone or from a client; known only while a record is kept.
MessageRead(m) ==
    /\ ~Busy /\ Wish
    /\ m \in phone.pushed \ phone.read
    /\ phone' = [phone EXCEPT !.read = @ \union {m}]
    /\ otp' = IF ~otp.s.on \/ m \notin otp.s.known THEN otp
              ELSE [otp EXCEPT !.s = Invalidate([otp.s EXCEPT !.read = @ \union {m}]),
                               !.told = @ \union {m}]
    /\ UNCHANGED <<procs, clip, pushes>> /\ NoFault

\* handle_ancs(): a group's notification with this message's text.
GroupNotice(m) ==
    /\ ~Busy /\ Wish
    /\ otp.s.on /\ m \notin otp.s.groups
    /\ otp' = [otp EXCEPT !.s = Invalidate([otp.s EXCEPT !.groups = @ \union {m}]),
                          !.told = @ \union (otp.s.pending \intersect {m}), !.lost = @ \ {m}]
    /\ UNCHANGED <<procs, clip, phone, pushes>> /\ NoFault

\* _resolve_otp_metadata(): a job of the OBEX worker, or no answer without a session.
ResolveMetadata(o, w) == [o EXCEPT !.work = @ \union {[w EXCEPT !.at = "lookup"]}]

\* check() after the grace period, and _check_metadata().
Check(w) ==
    /\ w.at = "grace" /\ ~Busy
    /\ LET over == [otp EXCEPT !.work = @ \ {w}]
       IN otp' = IF Eligible(otp.s, w.m) THEN ResolveMetadata(over, w) ELSE over
    /\ UNCHANGED <<procs, clip, phone>> /\ NoFault /\ Idle

\* operation() of _resolve_otp_metadata(): None when the session changed or the message is
\* not listed.
LookUp(w) ==
    /\ w.at = "lookup"
    /\ \E found \in {None, IF w.m \in phone.read THEN "read" ELSE "unread"} :
           otp' = [otp EXCEPT !.work = (@ \ {w}) \union {[w EXCEPT !.at = "found", !.found = found]}]
    /\ UNCHANGED <<procs, clip, phone>> /\ NoFault /\ Idle

CopyRecent(o, m) ==
    IF Eligible(o.s, m) /\ IsRecent(m) THEN Prepare(o, m) ELSE Nothing(o)

\* _metadata_ready(), of the sink that asked.
MetadataReady(w) ==
    /\ w.at = "found" /\ ~Busy
    /\ LET over == [otp EXCEPT !.work = @ \ {w}]
       IN IF w.gen = otp.s.gen /\ w.found = "unread" THEN CopyRecent(over, w.m)
          ELSE Nothing(over)
    /\ UNCHANGED <<clip, phone>> /\ Idle

\* _confirm(): a failed wl-copy is tried once more with an X11 helper, unless a record that
\* is still kept says that the message is read or of a group.
Confirm(c) ==
    /\ c \in otp.s.confirms /\ ~Busy
    /\ LET o == [otp EXCEPT !.s.confirms = @ \ {c}]
           p == procs[c.id]
           retries == /\ State(o, c.id) = "failed" /\ p.tool = "wl-copy" /\ ~c.retried
                      /\ ~IsRead(o.s, p.msg) /\ ~IsGroup(o.s, p.msg) /\ IsRecent(p.msg)
       IN IF retries THEN Copy(o, p.msg, {"wl-copy"}, TRUE) ELSE Nothing(o)
    /\ UNCHANGED <<clip, phone>> /\ Idle

\* _expire(): the timer is for one helper, and an older one's is cancelled with it.
Expire ==
    /\ otp.s.clear # None /\ ~Busy
    /\ LET released == Release(otp, procs)
       IN IF otp.s.clear = otp.s.owner
          THEN otp' = released.o /\ procs' = released.ps
          ELSE otp' = [otp EXCEPT !.s.clear = None] /\ UNCHANGED procs
    /\ UNCHANGED <<clip, phone>> /\ NoFault /\ Idle

KillIfRunning ==
    /\ ~Busy
    /\ \E id \in otp.kills :
           /\ otp' = [otp EXCEPT !.kills = @ \ {id}]
           /\ procs' = IF Alive(procs[id]) THEN [procs EXCEPT ![id].signal = "kill"] ELSE procs
    /\ UNCHANGED <<clip, phone>> /\ NoFault /\ Idle

\* A context record is dropped a minute after it was made, whatever is under way: the clock
\* is the wall's, which a suspended machine does not stop.
Prune ==
    /\ ~Busy /\ Passes
    /\ \/ \E m \in otp.s.known :
              otp' = [otp EXCEPT !.s.known = @ \ {m}, !.s.read = @ \ {m},
                                 !.lost = @ \union (otp.s.read \intersect {m})]
       \/ \E m \in otp.s.groups :
              otp' = [otp EXCEPT !.s.groups = @ \ {m}, !.lost = @ \union {m}]
    /\ UNCHANGED <<procs, clip, phone>> /\ NoFault

\* The minute of the rate limits is over; a message is five minutes old.
MinutePasses ==
    /\ ~Busy /\ Passes /\ otp.s.copies + otp.s.attempts > 0
    /\ otp' = [otp EXCEPT !.s.copies = 0, !.s.attempts = 0]
    /\ UNCHANGED <<procs, clip, phone>> /\ NoFault

GrowsOld ==
    /\ ~Busy /\ Passes
    /\ \E m \in phone.pushed \ phone.old : phone' = [phone EXCEPT !.old = @ \union {m}]
    /\ UNCHANGED <<otp, procs, clip>> /\ NoFault

\* apply_otp_autocopy() and stop(): close() cancels the timers, and what a lookup brings
\* later finds another sink.
CloseSink(o) ==
    LET released == Release(o, procs)
    IN /\ otp' = [released.o EXCEPT !.s.on = FALSE, !.s.pending = {}, !.s.ready = <<>>,
                                    !.s.known = {}, !.s.read = {}, !.s.groups = {},
                                    !.s.confirms = {}, !.s.probing = FALSE, !.told = {}, !.lost = {},
                                    !.work = {w \in @ : w.at \notin {"grace"}}]
       /\ procs' = released.ps

SetAutocopy ==
    /\ ~Busy /\ Wish
    /\ IF otp.s.on THEN CloseSink(otp)
       ELSE /\ otp' = [otp EXCEPT !.s = [NewSink(otp.s.gen + 1) EXCEPT !.probing = otp.wayland]]
            /\ UNCHANGED procs
    /\ UNCHANGED <<clip, phone, pushes>> /\ NoFault

-----------------------------------------------------------------------------
(* The helper processes and the user's own copies.  _record_exit() runs as soon as one
   ends: the child watch goes before the confirmation, which has idle priority. *)

\* Taking the selection makes its owner exit on its own.
Takes(by, ps) ==
    clip' = by /\ procs' = IF clip = None THEN ps ELSE [ps EXCEPT ![clip].life = "exited"]

HelperTakes(id) ==
    /\ procs[id].life = "starting" /\ procs[id].signal = None
    /\ Takes(id, [procs EXCEPT ![id].life = "owning"])
    /\ UNCHANGED <<otp, phone>> /\ NoFault /\ Idle

HelperFails(id) ==
    /\ procs[id].life = "starting"
    /\ procs' = [procs EXCEPT ![id].life = "failed"]
    /\ Fault /\ UNCHANGED <<otp, clip, phone>> /\ Idle

\* A helper that hangs does not end when it is asked to; none survives being killed.
HelperEnds(id) ==
    /\ Alive(procs[id]) /\ procs[id].signal \in {"term", "kill"}
    /\ procs' = [procs EXCEPT ![id].life = "failed"]
    /\ clip' = IF clip = id THEN None ELSE clip
    /\ UNCHANGED <<otp, phone>> /\ NoFault /\ Idle

UserCopies ==
    /\ Wish /\ clip # None /\ Takes(None, procs)
    /\ UNCHANGED <<otp, phone, pushes>> /\ NoFault

-----------------------------------------------------------------------------
Work == \E w \in otp.work : Prepared(w) \/ Check(w) \/ LookUp(w) \/ MetadataReady(w)
Helpers == \E id \in DOMAIN procs : HelperTakes(id) \/ HelperFails(id) \/ HelperEnds(id)

Next ==
    \/ ProbeAnswers \/ Work \/ (\E c \in otp.s.confirms : Confirm(c)) \/ Expire \/ KillIfRunning
    \/ (\E m \in Messages, late \in BOOLEAN : Push(m, late))
    \/ (\E m \in Messages : MessageRead(m) \/ GroupNotice(m))
    \/ Prune \/ MinutePasses \/ GrowsOld \/ SetAutocopy \/ UserCopies \/ Helpers

\* The timers fire, the workers answer, and a killed helper dies.
FairStep(k) ==
    CASE k = 1 -> Work [] k = 2 -> Expire [] k = 3 -> KillIfRunning [] k = 4 -> ProbeAnswers
      [] k = 5 -> \E id \in DOMAIN procs : procs[id].signal = "kill" /\ HelperEnds(id)
      [] OTHER -> FALSE

Spec == Init /\ [][Next]_codeVars /\ \A k \in 1 .. 5 : WF_codeVars(FairStep(k))

-----------------------------------------------------------------------------
\* A helper was started for message m.
Started(m) == Len(procs') > Len(procs) /\ procs'[Len(procs')].msg = m

\* It is the second helper of _confirm().
Again(m) == \E c \in otp.s.confirms \ otp'.s.confirms : procs[c.id].msg = m

(* A code is first given to a helper only while its message is unread and of no group as far
   as the sink was told since it arrived, even if the record of it was dropped since
   (_invalidate_candidates()).  The second attempt of _confirm() asks the records alone: it
   is excepted when they said so and were dropped (_prune()) between the two.  A code is
   never given after the code of a later message (_eligible()), never once it is five
   minutes old, and never by a wl-copy whose hint is not known (prepare()). *)
CodeStep ==
    \A m \in Messages : Started(m) =>
        /\ m \in otp.told => Again(m) /\ m \in otp.lost
        /\ m \notin phone.old
        /\ \A i \in DOMAIN procs : procs[i].msg <= m \/ otp.s.last <= m
        /\ procs'[Len(procs')].tool = "wl-copy" => otp.s.sensitive # None

(* With a time limit, and after the feature is switched off, no helper serves its code for
   ever: it ends by itself, is asked to end, or is killed (_expire(), release(),
   _kill_if_running()). *)
CodesReleased ==
    \A id \in 1 .. 4 : []<>(id \in DOMAIN procs /\ Alive(procs[id]) => ~(otp.clears \/ ~otp.s.on))

CodesKept == [][CodeStep]_codeVars /\ CodesReleased
=============================================================================
