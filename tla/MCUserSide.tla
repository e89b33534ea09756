----------------------------- MODULE MCUserSide -----------------------------
(***************************************************************************)
(* What the user meets, for TLC: the history and its backfill, popups,     *)
(* one-time codes, pairing and conversations, one at a time: the first     *)
(* state chooses which of them runs.  MessageBackfill is extended, and     *)
(* rests while another one runs; the others share variables.               *)
(*                                                                         *)
(* The backfill's margin is zero: every gap is longer than the margin, so  *)
(* that what bounds a listing matters.                                     *)
(***************************************************************************)
EXTENDS MessageBackfill

VARIABLES service, core, peer, clip, phone, count, wishes, passes, faults

\* What comes to the popups: two of a kind, and the kinds that meet.
Mixes ==
    {[message |-> 2], [message |-> 1, amend |-> 1], [app |-> 1, click |-> 2], [app |-> 2],
     [call |-> 1, plugin |-> 1]}

Notices == INSTANCE Popups
    WITH dk <- core, desk <- peer, events <- count, Limit <- 1, MaxPopups <- 2, MaxFaults <- 1

\* A Wayland session whose clipboard is cleared again, and an X11 session whose is not.
Setups ==
    {[clears |-> TRUE, wayland |-> TRUE, x11 |-> TRUE],
     [clears |-> FALSE, wayland |-> FALSE, x11 |-> TRUE]}

Codes == INSTANCE OneTimeCodes
    WITH otp <- core, procs <- peer, pushes <- count, Messages <- {1, 2}, MaxPerWindow <- 1,
         MaxPushes <- 2, MaxUser <- 1, MaxPasses <- 1, MaxFaults <- 1

\* With and without an explicit choice, LE, a replaced target and Pairable beforehand; a
\* limited run only with the bond of another phone, which it has to remove, and a controller
\* without notifications, which may advertise, only without a target to replace.
Runs ==
    {r \in {[explicit |-> e, limited |-> l, capable |-> TRUE, advertises |-> TRUE, le |-> w,
             replaces |-> o, was |-> w] :
                e \in BOOLEAN, l \in BOOLEAN, w \in BOOLEAN, o \in {"none", "same", "other"}} :
        (r.limited => r.replaces = "other") /\ (r.replaces = "same" => r.explicit)}
    \union {[explicit |-> FALSE, limited |-> FALSE, capable |-> FALSE, advertises |-> a, le |-> TRUE,
              replaces |-> "none", was |-> FALSE] : a \in BOOLEAN}

Pair == INSTANCE Pairing
    WITH helper <- core, bluez <- peer, asks <- clip, disk <- phone, ghost <- count,
         MaxRequests <- 2, MaxLosses <- 1

\* What meets a reply: an outsider's message, expiry, locked storage, a deletion, a failure,
\* messages to judge; and what meets a deletion and a search.
Talks ==
    {[member |-> 2, outsider |-> 1, list |-> 2, reply |-> 1, save |-> 1, prune |-> 1],
     [member |-> 1, outsider |-> 1, list |-> 2, reply |-> 1, save |-> 1, lock |-> 1],
     [member |-> 1, outsider |-> 1, list |-> 2, reply |-> 1, save |-> 1, delete |-> 1],
     [member |-> 2, list |-> 2, reply |-> 1, save |-> 1, fail |-> 1],
     [maybe |-> 2, plain |-> 1, list |-> 2, reply |-> 1],
     [maybe |-> 1, list |-> 1, reply |-> 1, reload |-> 1, fail |-> 1],
     [member |-> 1, plain |-> 1, delete |-> 2, mark |-> 1],
     [plain |-> 2, delete |-> 1, search |-> 1, fail |-> 1],
     [plain |-> 2, search |-> 1, clear |-> 1, prune |-> 1],
     [plain |-> 1, search |-> 1, clear |-> 1, lock |-> 1]}

Threads == INSTANCE Conversations
    WITH cv <- core, ui <- peer, left <- count, Mixes <- Talks,
         Rosters <- {{"a", "b"}, {"a", "b", "x"}}

shared == <<core, peer, clip, phone, count, wishes, passes, faults>>
codesOnly == <<clip, phone, wishes, passes>>
limits == <<wishes, passes, faults>>
all == <<service, vars, shared>>

Is(name) == service = name

-----------------------------------------------------------------------------
NoCodes == clip = None /\ phone = None /\ wishes = None /\ passes = None
Neither == core = None /\ peer = None /\ count = None /\ faults = None /\ NoCodes

UserSideInit ==
    /\ Init
    /\ \/ Is("backfill") /\ Neither
       \/ Is("popups") /\ Notices!Init /\ NoCodes
       \/ Is("codes") /\ Codes!Init
       \/ Is("threads") /\ Threads!Init /\ NoCodes /\ faults = None
       \/ Is("pairing") /\ Pair!Init /\ wishes = None /\ passes = None /\ faults = None

UserSideNext ==
    /\ UNCHANGED service
    /\ \/ Is("backfill") /\ Next /\ UNCHANGED shared
       \/ Is("popups") /\ Notices!Next /\ UNCHANGED <<vars, codesOnly>>
       \/ Is("codes") /\ Codes!Next /\ UNCHANGED vars
       \/ Is("threads") /\ Threads!Next /\ UNCHANGED <<vars, codesOnly, faults>>
       \/ Is("pairing") /\ Pair!Next /\ UNCHANGED <<vars, limits>>

\* The fairness of the one that runs, as its module states it.
Turn(k) ==
    /\ UNCHANGED service
    /\ \/ Is("backfill") /\ FairStep(k) /\ UNCHANGED shared
       \/ Is("popups") /\ Notices!FairStep(k) /\ UNCHANGED <<vars, codesOnly>>
       \/ Is("codes") /\ Codes!FairStep(k) /\ UNCHANGED vars
       \/ Is("threads") /\ Threads!FairStep(k) /\ UNCHANGED <<vars, codesOnly, faults>>
       \/ Is("pairing") /\ Pair!FairStep(k) /\ UNCHANGED <<vars, limits>>

UserSideSpec == UserSideInit /\ [][UserSideNext]_all /\ \A k \in 1 .. 5 : WF_all(Turn(k))

-----------------------------------------------------------------------------
(* The properties are those of the modules, which say in words what they mean; each is
   about the behaviours of its own service. *)

\* Popups: the sink's tables are the server's, only meant clicks act, and popups follow the
\* phone.
PopupsHonest ==
    /\ [](Is("popups") => Notices!TablesExact /\ Notices!OnlyMeantClicks)
    /\ []<>(Is("popups") => \A p \in peer.shown : ~Notices!Overdue(p))
    /\ <>[](Is("popups") /\ core.up /\ peer.owned) => <>[](Is("popups") => core.sink = peer.server)
\* OneTimeCodes: a code is copied only while it is wanted, but for a second attempt after the
\* evidence was dropped, and no helper keeps it for ever.
CodesKept ==
    /\ [][Is("codes") => Codes!CodeStep]_all
    /\ \A id \in 1 .. 4 :
           []<>(Is("codes") => (id \in DOMAIN peer /\ Codes!Alive(peer[id]) => ~(core.clears \/ ~core.s.on)))
\* Pairing: a run that was bound ends, leaves the adapter as it was unless a call that sets
\* Pairable failed, and bonds only by its own answer.
PairingSound ==
    /\ [](Is("pairing") => Pair!LeftAsFound /\ Pair!BondedByOwnAnswer)
    /\ [][Is("pairing") => Pair!KeepsScanStep]_all
    /\ (Is("pairing") /\ core.pc # "bind") ~> (Is("pairing") => core.pc = "ended")
\* Conversations: a reply goes only where a user agreed it goes; after a failed projection a
\* warning may be missed, see there.
RepliesAsApproved == [][Is("threads") => Threads!ReplyStep]_all
\* Conversations: a deletion and a search meet what is there, and every call is answered.
RequestsKept ==
    /\ [](Is("threads") => Threads!Orderly)
    /\ [][Is("threads") => Threads!EraseStep]_all
    /\ []<>(Is("threads") => core.open = {})
=============================================================================
